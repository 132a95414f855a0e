---------------------------- MODULE Cancellation ----------------------------
(***************************************************************************)
(* How a booking is cancelled: the scenario that the status, the payment   *)
(* and the hours until the lesson select, its Stripe calls, and the        *)
(* settlement that the last transaction writes.                            *)
(*                                                                         *)
(* services/booking/cancellation_service.py, cancellation_stripe.py,       *)
(* cancellation_finalize.py, cancellation_late_finalize.py.                *)
(***************************************************************************)
EXTENDS BookingStore

Capturing == {"gaming", "between", "under"}
Voiding == {"regular", "instructor"}

(* _determine_cancellation_scenario: the first of its tests that is met.   *)
(* Cancelling a gaming reschedule without an authorized payment is refused.*)
PendingPayment == /\ \/ booking.status = "PENDING"
                     \/ booking.pay = "payment_method_required"
                  /\ booking.intent = 0

Scenario(role) ==
    CASE PendingPayment                         -> "pending_payment"
      [] ~PendingPayment /\ role = "instructor" -> "instructor"
      [] OTHER ->
           CASE window = ge24 /\ booking.gaming  -> "gaming"
             [] window = ge24 /\ ~booking.gaming -> "regular"
             [] window = from12to24              -> "between"
             [] OTHER -> IF booking.intent # 0 THEN "under" ELSE "under_no_pi"

(* What the scenario does first; a payment that phase 1 read as settled is *)
(* taken for captured.                                                     *)
FirstStep(s) ==
    CASE s \notin Capturing \cup Voiding \/ booking.intent = 0 -> "persist"
      [] s \in Capturing /\ booking.intent # 0 /\ booking.pay = "settled" -> "details"
      [] s = "instructor" /\ booking.intent # 0 /\ booking.pay = "settled" -> "refund"
      [] OTHER -> "stripe"

(* Phase 1.  A lesson that has started, or is over, can still be cancelled *)
(* as long as nobody completed it.                                         *)
CancelStart(c, role) ==
    LET s == Scenario(role) IN
    /\ booking.status \in {"PENDING", "CONFIRMED"}
    /\ s = "gaming" => booking.pay = "authorized"
    /\ Begin(c, Job(s, FirstStep(s)))
    /\ UNCHANGED <<booking, stripe, window, crashes>>

-----------------------------------------------------------------------------
(* Phase 2 of the scenarios without a charge: the hold is given back. *)
CancelVoid(c) ==
    /\ Running(c, Voiding, "stripe")
    /\ \E ok \in BOOLEAN :
          /\ VoidCall(work[c].intent, work[c].kind, ok)
          /\ Proceed(c, [work[c] EXCEPT !.ok = ok, !.at = "persist"])
    /\ UNCHANGED booking

CancelRefund(c) ==
    /\ Running(c, {"instructor"}, "refund")
    /\ \E ok \in BOOLEAN :
          /\ RefundCall(work[c].intent, "instructor", work[c].refund, ok)
          /\ Proceed(c, [work[c] EXCEPT !.ok = ok, !.at = "persist"])
    /\ UNCHANGED booking

(* Phase 2 of the others: capture, take the transfer back, and for a late  *)
(* cancellation pay the instructor half of it.                             *)
CancelCapture(c) ==
    /\ Running(c, Capturing, "stripe")
    /\ \E ok \in BOOLEAN :
          /\ CaptureCall(work[c].intent, work[c].kind, ok)
          /\ Proceed(c, [work[c] EXCEPT !.ok = ok,
                                        !.at = IF ok THEN "reverse" ELSE "persist"])
    /\ UNCHANGED booking

CancelDetails(c) ==
    /\ Running(c, Capturing, "details")
    /\ \E ok \in BOOLEAN :
          /\ ok => work[c].intent = stripe.gen /\ stripe.pi = "captured"
          /\ Proceed(c, [work[c] EXCEPT !.ok = ok,
                                        !.at = IF ok THEN "reverse" ELSE "persist"])
    /\ UNCHANGED <<booking, stripe>>

(* Mutant of AfterReversal: the half is paid out whatever became of the     *)
(* reversal.                                                               *)
PayoutAnyway(job, ok) == IF job.kind = "under" THEN "payout" ELSE "persist"

AfterReversal(job, ok) == IF ok /\ job.kind = "under" THEN "payout" ELSE "persist"

CancelReverse(c) ==
    /\ Running(c, Capturing, "reverse")
    /\ \E ok \in BOOLEAN :
          /\ ReverseCall(work[c].intent, work[c].kind, ok)
          /\ Proceed(c, [work[c] EXCEPT
                !.rev = IF ok THEN "done" ELSE "failed",
                !.at = AfterReversal(work[c], ok)])
    /\ UNCHANGED booking

(* Stripe did not say how much was transferred (the transfer could not be  *)
(* read and the intent does not name the payout): nothing is reversed or   *)
(* paid out, and the reversal does not count as failed.                    *)
CancelNoAmount(c) ==
    /\ Running(c, Capturing, "reverse")
    /\ Proceed(c, [work[c] EXCEPT !.at = "persist"])
    /\ UNCHANGED <<booking, stripe>>

CancelPayout(c) ==
    /\ Running(c, {"under"}, "payout")
    /\ \E ok \in BOOLEAN :
          /\ PayoutCall("half", ok)
          /\ Proceed(c, [work[c] EXCEPT !.paid = ok, !.at = "persist"])
    /\ UNCHANGED booking

-----------------------------------------------------------------------------
(* Phase 3: _finalize_cancellation, from what phase 1 read and what the    *)
(* calls of phase 2 answered.                                              *)
InReview(b) == [b EXCEPT !.pay = "manual_review"]
SettledAs(b, outcome) == [b EXCEPT !.pay = "settled", !.outcome = outcome, !.refunded = 0]

(* Mutant of CaptureNotDone: a status the schema does not know. *)
CaptureNotDoneLegacy(b) == [b EXCEPT !.pay = "failed", !.failAge = "fresh"]

(* The capture failed: the booking is cancelled, its payment is still due. *)
CaptureNotDone(b) == [b EXCEPT !.pay = "payment_method_required", !.failAge = "fresh"]

(* Credit is issued unless some was issued before for this booking. *)
Credited(b, halves) == [b EXCEPT !.credit = IF @ = 0 THEN halves ELSE @]

(* Mutant of Reversed: the reversal is taken for granted. *)
ReversedAnyway(b, job) == [b EXCEPT !.reversed = TRUE]

(* transfer_reversal_id is stored when the reversal answered. *)
Reversed(b, job) == [b EXCEPT !.reversed = @ \/ job.rev = "done"]

(* Only a reversal that failed is looked for, not one that was never tried.*)
FullCredit(b, job) ==
    IF ~job.ok THEN CaptureNotDone(b)
    ELSE IF job.rev = "failed" THEN InReview(b)
    ELSE Credited(SettledAs(Reversed(b, job), "student_cancel_12_24_full_credit"), 2)

SplitInHalves(b, job) ==
    IF ~job.ok THEN CaptureNotDone(b)
    ELSE IF job.rev = "failed" THEN InReview(b)
    ELSE LET split == Credited(SettledAs(Reversed(b, job), "student_cancel_lt12_split_50_50"), 1)
         IN  IF job.paid /\ b.pay # "manual_review" THEN split ELSE InReview(split)

NoCharge(b, job) ==
    LET free == SettledAs(b, "student_cancel_gt24_no_charge") IN
    IF job.intent # 0 /\ ~job.ok THEN InReview(free) ELSE free

InstructorRefund(b, job) ==
    IF job.intent # 0 /\ ~job.ok THEN InReview(b)
    ELSE [SettledAs(b, "instructor_cancel_full_refund") EXCEPT !.refunded = job.refund]

Finalized(b, job) ==
    CASE job.kind \in {"gaming", "between"} -> FullCredit(b, job)
      [] job.kind = "under"                 -> SplitInHalves(b, job)
      [] job.kind = "regular"               -> NoCharge(b, job)
      [] job.kind = "instructor"            -> InstructorRefund(b, job)
      [] job.kind = "under_no_pi"           -> InReview(b)
      [] job.kind = "pending_payment"       -> SettledAs(b, "student_cancel_gt24_no_charge")

(* The status is not read again, only the transition table is asked: where *)
(* it refuses, the whole transaction is rolled back.                       *)
PersistCancel(c) ==
    /\ Running(c, Scenarios, "persist")
    /\ Finish(c)
    /\ booking' = IF CanTransitionTo("CANCELLED")
                  THEN [Finalized(booking, work[c]) EXCEPT !.status = "CANCELLED"]
                  ELSE booking
    /\ UNCHANGED stripe

CancellationStep(c) ==
    \/ \E role \in Roles : CancelStart(c, role)
    \/ CancelVoid(c)
    \/ CancelRefund(c)
    \/ CancelCapture(c)
    \/ CancelDetails(c)
    \/ CancelReverse(c)
    \/ CancelNoAmount(c)
    \/ CancelPayout(c)
    \/ PersistCancel(c)
=============================================================================

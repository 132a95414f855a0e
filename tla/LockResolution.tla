--------------------------- MODULE LockResolution ---------------------------
(***************************************************************************)
(* What becomes of locked funds: services/booking/lock_resolution.py and   *)
(* its callers in cancellation_service.py, tasks/payment/capture.py and    *)
(* capture_orchestration.py.  The caller holds the mutex of the booking    *)
(* that carries the funds; the money is on the payment row of "old".       *)
(***************************************************************************)
EXTENDS Reschedule

VARIABLE listed  \* the candidate lists the jobs have read and not yet walked

(* _resolve_locked_cancellation_context. *)
CarriesLock(r) == rows[r].locked \/ (r = "old" /\ rows[r].pay = "locked")

PlanOf(role) == IF role = "instructor" THEN "instructor_cancelled"
                ELSE IF window <= from12to24 THEN "new_lesson_cancelled_ge12"
                ELSE "new_lesson_cancelled_lt12"

(* cancel_booking of the booking that carries the funds. *)
CancelLocked(c) ==
    /\ rows[Carrier].status = "CONFIRMED"
    /\ CarriesLock(Carrier)
    /\ \E role \in {"student", "instructor"} :
          Enter(c, [Job("cancel", Carrier, "resolve") EXCEPT !.plan = PlanOf(role)])
    /\ UNCHANGED <<caseVars, listed>>

-----------------------------------------------------------------------------
(* get_bookings_for_auto_completion and get_bookings_for_payment_capture,  *)
(* for a booking with locked funds, read before any mutex is taken.        *)
Candidate(list) ==
    CASE list = "auto"    -> rows["new"].locked /\ rows["new"].status = "CONFIRMED"
      [] list = "capture" -> rows["new"].locked /\ rows["new"].status = "COMPLETED"

CaptureJobReads == /\ window = ended24
                   /\ \E list \in {"auto", "capture"} :
                         /\ Candidate(list)
                         /\ list \notin listed
                         /\ listed' = listed \cup {list}
                   /\ UNCHANGED <<caseVars, mutex, work, window, faults>>

(* The mutex is taken, or the fresh row says no: the booking is passed over*)
Passed(list) == /\ list \in listed
                /\ listed' = listed \ {list}
                /\ UNCHANGED <<caseVars, mutex, work, window, faults>>

(* complete_booking_status: locked funds need no CONFIRMED booking. *)
Completable == /\ rows["new"].status \notin {"CANCELLED", "absent"}
               /\ rows["new"].pay # "manual_review"

AutoComplete(c) ==
    /\ "auto" \in listed
    /\ Completable
    /\ Enter(c, [Job("auto", "new", "resolve") EXCEPT !.plan = "new_lesson_completed"])
    /\ rows' = [rows EXCEPT !["new"].status = "COMPLETED"]
    /\ listed' = listed \ {"auto"}
    /\ UNCHANGED <<resolution, contested, account>>

(* load_capture_context: the locked funds are looked at before the payment *)
(* status is.                                                              *)
CaptureLocked(c) ==
    /\ "capture" \in listed
    /\ rows["new"].status # "CANCELLED"
    /\ Enter(c, [Job("capture", "new", "resolve") EXCEPT !.plan = "new_lesson_completed"])
    /\ listed' = listed \ {"capture"}
    /\ UNCHANGED caseVars

-----------------------------------------------------------------------------
Resolving == {"cancel", "auto", "capture", "noshow"}

Unresolved == resolution = "none" /\ rows["old"].pay = "locked"

(* _load_lock_resolution_context.  Whatever it says when it declines, the  *)
(* callers take for done.                                                  *)
ResolveLoad(c) ==
    /\ At(c, Resolving, "resolve")
    /\ GoOn(c, [work[c] EXCEPT !.at = IF Unresolved THEN "call" ELSE "finish"])
    /\ UNCHANGED <<caseVars, listed>>

PayoutCall(part, ok) == Call(part \in account.paid, account.pi = "captured",
                             [account EXCEPT !.paid = @ \cup {part}], ok)
RefundCall(ok) == Call(account.pi = "refunded", account.pi = "captured",
                       [account EXCEPT !.pi = "refunded"], ok)

(* _execute_lock_resolution_stripe_step: each outcome has a key of its own.*)
ResolveCall(c) ==
    /\ At(c, Resolving, "call")
    /\ work[c].plan # "none"
    /\ \E ok \in BOOLEAN :
          /\ CASE work[c].plan = "new_lesson_completed"      -> PayoutCall("full", ok)
               [] work[c].plan = "new_lesson_cancelled_lt12" -> PayoutCall("half", ok)
               [] work[c].plan = "instructor_cancelled"      -> RefundCall(ok)
               [] OTHER                                      -> ok /\ UNCHANGED account
          /\ GoOn(c, [work[c] EXCEPT !.at = "record", !.ok = ok])
    /\ UNCHANGED <<rows, resolution, contested, listed>>

(* The credit of the two student cancellations, unless one was issued. *)
CreditFor(plan) == IF account.credit # 0 THEN account.credit
                   ELSE CASE plan = "new_lesson_cancelled_ge12" -> 2
                          [] plan = "new_lesson_cancelled_lt12" -> 1
                          [] OTHER                              -> 0

(* Mutant of ResolveRecord: the state is not read again after Stripe. *)
ResolveRecordBlind(c) ==
    /\ At(c, Resolving, "record")
    /\ work[c].plan # "none"
    /\ resolution' = work[c].plan
    /\ rows' = [rows EXCEPT !["old"].pay = IF work[c].ok THEN "settled" ELSE "manual_review"]
    /\ account' = [account EXCEPT !.credit = CreditFor(work[c].plan)]
    /\ GoOn(c, [work[c] EXCEPT !.at = "finish"])
    /\ UNCHANGED <<contested, listed>>

(* _persist_lock_resolution_result, after _revalidate_lock_resolution_state*)
ResolveRecord(c) ==
    /\ At(c, Resolving, "record")
    /\ work[c].plan # "none"
    /\ \/ /\ Unresolved
          /\ resolution' = work[c].plan
          /\ rows' = [rows EXCEPT !["old"].pay =
                         IF work[c].ok THEN "settled" ELSE "manual_review"]
          /\ account' = [account EXCEPT !.credit = CreditFor(work[c].plan)]
       \/ ~Unresolved /\ UNCHANGED <<resolution, rows, account>>
    /\ GoOn(c, [work[c] EXCEPT !.at = "finish"])
    /\ UNCHANGED <<contested, listed>>

-----------------------------------------------------------------------------
(* _persist_cancellation_result; Booking.cancel accepts whatever the status *)
(* of the row has become.                                                  *)
CancelFinish(c) ==
    /\ At(c, {"cancel"}, "finish")
    /\ LET r == work[c].row IN
       rows' = [rows EXCEPT ![r].status = "CANCELLED", ![r].pay = "settled"]
    /\ Leave(c)
    /\ UNCHANGED <<resolution, contested, account, listed>>

(* Mutant of ChildSettled: the replacement is settled in the transaction   *)
(* that completes it, before the lock is.                                  *)
ChildSettledFirst(c) ==
    /\ At(c, {"auto", "capture"}, "resolve")
    /\ rows' = [rows EXCEPT !["new"].pay = "settled"]
    /\ Leave(c)
    /\ UNCHANGED <<resolution, contested, account, listed>>

(* _mark_child_booking_settled. *)
ChildSettled(c) == /\ At(c, {"auto", "capture"}, "finish")
                   /\ rows' = [rows EXCEPT !["new"].pay = "settled"]
                   /\ Leave(c)
                   /\ UNCHANGED <<resolution, contested, account, listed>>

-----------------------------------------------------------------------------
(* complete_booking, at any time; instructor_mark_complete, without the    *)
(* mutex but after the end.                                                *)
CompleteBooking(c) == /\ rows[Carrier].status = "CONFIRMED"
                      /\ Under(c, Carrier)
                      /\ rows' = [rows EXCEPT ![Carrier].status = "COMPLETED"]
                      /\ UNCHANGED <<resolution, contested, account, listed>>

InstructorMarkComplete == /\ rows[Carrier].status = "CONFIRMED"
                          /\ window >= ended
                          /\ rows' = [rows EXCEPT ![Carrier].status = "COMPLETED"]
                          /\ UNCHANGED <<resolution, contested, account, listed,
                                         mutex, work, window, faults>>

(* instructor_dispute_completion: an event, and manual review of a payment *)
(* that is authorized.                                                     *)
DisputeCompletion(c) ==
    /\ Under(c, Carrier)
    /\ contested' = TRUE
    /\ rows' = [rows EXCEPT ![Carrier].pay = IF @ = "authorized" THEN "manual_review" ELSE @]
    /\ UNCHANGED <<resolution, account, listed>>

LockStep(c) == \/ CancelLocked(c)
               \/ AutoComplete(c)
               \/ CaptureLocked(c)
               \/ ResolveLoad(c)
               \/ ResolveCall(c)
               \/ ResolveRecord(c)
               \/ CancelFinish(c)
               \/ ChildSettled(c)
               \/ CompleteBooking(c)
               \/ DisputeCompletion(c)
=============================================================================

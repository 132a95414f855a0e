-------------------------- MODULE BookingLifecycle --------------------------
(***************************************************************************)
(* One booking from its creation to its settlement: the operations of      *)
(* Authorization, Capture, Cancellation and Completion, run by any number  *)
(* of workers that exclude one another through the booking mutex, while    *)
(* the clock runs, workers die and the mutex may lapse.                    *)
(***************************************************************************)
EXTENDS Authorization, Capture, Cancellation, Completion

Environment == \/ MutexExpires
               \/ Tick
               \/ FailureAges
               \/ AuthorizationAges
               \/ \E c \in Clients : WorkerCrash(c)

Operation(c) == \/ AuthorizationStep(c)
                \/ CaptureStep(c)
                \/ CancellationStep(c)
                \/ CompletionStep(c)

LifecycleNext == \/ Environment
                 \/ InstructorMarkComplete
                 \/ \E c \in Clients : Operation(c)

LifecycleSafety == StoreInit /\ [][LifecycleNext]_allVars
-----------------------------------------------------------------------------
(* Fairness.  Redis expires the key, and a worker goes on with what it     *)
(* began: its calls are bounded by the timeouts and retries of the Stripe  *)
(* client.  Celery beat starts the jobs over and over (every 5, 15 and 60  *)
(* minutes and every 4 hours), so a job that is due and finds the mutex    *)
(* free again and again runs; the half-hour timeout is queued with a       *)
(* countdown.  The clock and the age of a failure advance whatever the     *)
(* workers do.  Nothing obliges a user to act or Stripe to agree.          *)
Continue(c) == \/ AuthorizeStripe(c) \/ AuthorizeCommit(c)
               \/ PersistAuthorize(c) \/ PersistRetry(c) \/ PersistStudentRetry(c)
               \/ PlannedMarkFailed(c)
               \/ CaptureStripe(c) \/ PersistCapture(c) \/ PersistExpired(c)
               \/ Reauthorize(c) \/ Recapture(c) \/ RecaptureCommit(c)
               \/ PersistReauth(c) \/ ReauthFailed(c)
               \/ EscalateStripe(c) \/ PersistEscalate(c)
               \/ CancelVoid(c) \/ CancelRefund(c) \/ CancelCapture(c)
               \/ CancelDetails(c) \/ CancelReverse(c) \/ CancelPayout(c)
               \/ PersistCancel(c)

CaptureJob(c) == \/ CaptureStart(c) \/ AutoComplete(c)
                 \/ ExpiredCapture(c) \/ ExpireAuthorization(c)

(* What the hourly capture job needs: weak fairness is enough. *)
CaptureFairness ==
    /\ WF_allVars(MutexExpires)
    /\ \A c \in Clients : WF_allVars(Continue(c))
    /\ WF_allVars(\E c \in Clients : CaptureJob(c))

CaptureSpec == LifecycleSafety /\ CaptureFairness

Fairness ==
    /\ CaptureFairness
    /\ SF_allVars(Tick)
    /\ SF_allVars(FailureAges)
    /\ SF_allVars(\E c \in Clients : AuthorizeStart(c))
    /\ SF_allVars(\E c \in Clients : RetryStart(c) \/ PlanMarkFailed(c))
    /\ SF_allVars(\E c \in Clients : ImmediateTimeout(c))
    /\ SF_allVars(\E c \in Clients : CaptureJob(c))
    /\ SF_allVars(\E c \in Clients : RetryCapture(c) \/ EscalateStart(c))

LifecycleSpec == LifecycleSafety /\ Fairness

-----------------------------------------------------------------------------
(* Money.  The three figures are the charges made to the student, what the *)
(* instructor has received, and the credit issued.                         *)
MoneyIs(charges, net, credit) ==
    Charges = charges /\ InstructorNet = net /\ booking.credit = credit

(* The platform stepped in after 72h (capture_recovery.py): it pays the    *)
(* instructor whatever became of the booking.                              *)
Escalated == "full" \in stripe.payouts

(* A job captured the hold of a lesson that nobody completed: the renewed  *)
(* hold of a far-away lesson is judged by its oldest event.                *)
CapturedEarly == stripe.by \in CaptureReasons \cup {"reauth"} /\ booking.status # "COMPLETED"

(* An administrator's command has moved the money of a booking that may be *)
(* settled already, and not yet written what it did.                       *)
Administering == \E c \in Clients : Running(c, AdminKinds, "persist")

(* When a payment is settled, Stripe and the credit ledger say what the    *)
(* settlement outcome says: nothing for a cancellation without charge and  *)
(* no hold left either, the full transfer for a lesson, the two halves for *)
(* a late cancellation.  Full credit comes with a reversed transfer, or    *)
(* else the row has no transfer_reversal_id: nobody was told how much to   *)
(* reverse, and the instructor still has the transfer.  The outcome is     *)
(* written by cancellation_finalize.py, cancellation_late_finalize.py and  *)
(* capture.py, minutes after the Stripe calls it reports on.               *)
SettledMeansMoney ==
    booking.pay = "settled" /\ ~Escalated /\ ~CapturedEarly /\ ~Administering =>
       CASE booking.outcome = "payment_failed_no_charge" -> MoneyIs(0, 0, 0)
         [] booking.outcome \in {"student_cancel_gt24_no_charge",
                                 "instructor_cancel_full_refund"}
              -> MoneyIs(0, 0, 0) /\ stripe.pi # "hold"
         [] booking.outcome = "lesson_completed_full_payout" -> MoneyIs(1, 2, 0)
         [] booking.outcome = "student_cancel_12_24_full_credit"
              -> MoneyIs(1, IF booking.reversed THEN 0 ELSE 2, 2)
         [] booking.outcome = "student_cancel_lt12_split_50_50"
              -> MoneyIs(1, 1, 1) /\ booking.reversed
         [] OTHER -> TRUE

(* However the capture jobs, the reauthorization and the cancellation      *)
(* scenarios, each under an idempotency key of its own, follow one another *)
(* on the same lesson, the student is charged once.                        *)
AtMostOneCharge == Charges <= 1

(* Whatever overlaps when the mutex lapses, and whoever dies, the          *)
(* instructor does not receive more than the student has paid and was not  *)
(* given back: a half is paid out of a transfer that was taken back, and a *)
(* charge is not refunded after that.                                      *)
PaidFromTheCharge == ~Escalated => InstructorNet <= StudentPaid

(* Between operations, a payment recorded as authorized is the very hold   *)
(* that Stripe has, unless seven days have passed since the first one: the *)
(* capture jobs and the cancellation rely on payment_intent_id.            *)
AuthorizationIsBacked ==
    Quiescent /\ booking.pay = "authorized" /\ booking.authAge # "old" =>
       stripe.pi = "hold" /\ booking.intent = stripe.gen

(* A cancelled or failed booking is never left for the authorization and   *)
(* capture jobs to pick up, whichever operation wrote last.                *)
DeadBookingUnclaimed ==
    booking.status \in Terminal => booking.pay \notin {"scheduled", "authorized"}

(* The booking mutex makes money operations of one booking exclusive from  *)
(* their first read to their last write, across the Stripe calls that no   *)
(* transaction spans.  A plan of the retry job is not an operation yet.    *)
Busy(c) == work[c] # NoJob /\ work[c].at # "planned"
OneMoneyAction == \A c, d \in Clients : Busy(c) /\ Busy(d) => c = d

(* "settled: financial outcome is final (no further automated money        *)
(* movement)": the payment of a dead booking or of a captured lesson stays *)
(* settled, with its outcome, and no later step moves money.               *)
Closed == /\ booking.pay = "settled"
          /\ \/ booking.status \in Terminal
             \/ booking.outcome = "lesson_completed_full_payout"
SettledIsFinal ==
    [][Closed => /\ booking'.pay = "settled"
                 /\ booking'.outcome = booking.outcome
                 /\ Charges' = Charges /\ InstructorNet' = InstructorNet]_allVars

(* While a payment is in manual review the jobs leave the money alone;     *)
(* only a cancellation, which asks for the status of the booking but not   *)
(* for that of the payment, still moves it.                                *)
Cancelling == \E c \in Clients : work[c].kind \in Scenarios
ReviewFreezesMoney ==
    [][booking.pay = "manual_review" /\ ~Cancelling =>
          Charges' = Charges /\ InstructorNet' = InstructorNet]_allVars

(* No job that read a booking before it was cancelled or failed charges    *)
(* the student after it was.                                               *)
TerminalStopsCharges ==
    [][booking.status \in Terminal => Charges' = Charges]_allVars

(* Whatever overlaps, a status changes only along _ALLOWED_TRANSITIONS:    *)
(* the table of models/booking.py is the last line of defence of writers   *)
(* that do not read the status again.                                      *)
StatusFollowsTable ==
    [][booking'.status = booking.status
       \/ booking'.status \in AllowedTransitions[booking.status]]_allVars

(* The hold of a lesson that ended a day ago does not stay a hold: the     *)
(* hourly capture job captures it, fails, or somebody disputes or cancels, *)
(* in spite of dead workers and the keys they leave behind.                *)
HeldMoneyMoves ==
    (booking.pay = "authorized" /\ booking.status \in {"CONFIRMED", "COMPLETED"}
       /\ window = ended24)
      ~> (booking.pay # "authorized")

-----------------------------------------------------------------------------
(* What the documents of the repository say and the code does not do.      *)

(* Policy 10.1: a lesson still without authorization at T-12h is           *)
(* cancelled.  The retry job lists PENDING bookings only, and the booking  *)
(* of a student who confirmed early is CONFIRMED.                          *)
ConfirmedUnpaidIsCancelled ==
    (booking.status = "CONFIRMED" /\ booking.pay = "payment_method_required"
       /\ booking.intent = 0 /\ window = lt12)
      ~> (booking.status # "CONFIRMED" \/ booking.pay # "payment_method_required")

(* retry_failed_captures: "escalate after 72 hours".  Each failed retry    *)
(* sets capture_failed_at anew, so the 72 hours never pass.                *)
FailedCaptureEscalates ==
    (booking.status = "COMPLETED" /\ booking.pay = "payment_method_required"
       /\ booking.failAge # "none")
      ~> (booking.pay # "payment_method_required")

(* Policy 7.1: whoever cancels a lesson, its instructor receives nothing   *)
(* or half.  A cancellation whose capture failed is escalated after 72h.   *)
CancelledIsNotPaidInFull == booking.status = "CANCELLED" => ~Escalated

(* instructor_dispute_completion "pauses payment capture pending           *)
(* resolution".  A cancellation captures nevertheless.                     *)
ReviewPausesCapture ==
    [][booking.pay = "manual_review" => Charges' = Charges]_allVars

=============================================================================

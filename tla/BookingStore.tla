---------------------------- MODULE BookingStore ----------------------------
(***************************************************************************)
(* The state that the booking and payment operations share: the row of one *)
(* booking (tables bookings and booking_payments), its Stripe account of   *)
(* record (StripeIntent), the booking mutex (BookingLock), the clock, and  *)
(* for every worker (request thread or Celery worker) the operation it is  *)
(* in the middle of.                                                       *)
(*                                                                         *)
(* An operation runs in the three phases of the code: a transaction that   *)
(* reads and validates, the Stripe calls outside any transaction, and a    *)
(* transaction that writes the result.  A worker may die between any two.  *)
(***************************************************************************)
EXTENDS BookingLock, StripeIntent

CONSTANT MaxCrashes

ASSUME MaxCrashesNat == MaxCrashes \in Nat

VARIABLES booking,   \* the row
          window,    \* the position of the clock relative to the lesson
          work,      \* what each worker is doing
          crashes    \* how many workers have died, at most MaxCrashes

storeVars == <<booking, stripe, window, work, crashes>>
allVars == <<lockVars, storeVars>>

-----------------------------------------------------------------------------
Statuses == {"PENDING", "CONFIRMED", "COMPLETED", "CANCELLED", "PAYMENT_FAILED",
             "NO_SHOW"}
Terminal == {"CANCELLED", "PAYMENT_FAILED"}

(* Booking._ALLOWED_TRANSITIONS. *)
AllowedTransitions ==
    [s \in Statuses |->
        CASE s = "PENDING"   -> {"CONFIRMED", "COMPLETED", "CANCELLED", "PAYMENT_FAILED"}
          [] s = "CONFIRMED" -> {"COMPLETED", "CANCELLED", "NO_SHOW"}
          [] s = "COMPLETED" -> {"CANCELLED", "NO_SHOW"}
          [] s = "NO_SHOW"   -> {"CONFIRMED", "COMPLETED", "CANCELLED"}
          [] OTHER           -> {}]
(* Mutant of CanTransitionTo: the status is assigned without a look at the *)
(* table.                                                                  *)
AnyTransition(target) == TRUE
CanTransitionTo(target) ==
    target = booking.status \/ target \in AllowedTransitions[booking.status]

PaymentStatuses == {"scheduled", "authorized", "payment_method_required",
                    "manual_review", "settled"}

NoChargeOutcomes == {"student_cancel_gt24_no_charge", "instructor_cancel_full_refund",
                     "payment_failed_no_charge"}
AdminRefunds == {"admin_refund", "student_wins_dispute_full_refund",
                 "instructor_no_show_full_refund"}
Outcomes == NoChargeOutcomes \cup AdminRefunds \cup
            {"none", "lesson_completed_full_payout", "student_cancel_12_24_full_credit",
             "student_cancel_lt12_split_50_50", "capture_failure_instructor_paid",
             "capture_failure_escalated", "admin_no_refund"}

(* method: payment_method_id is set.  intent: the intent payment_intent_id *)
(* names, 0 for none.                                                      *)
(* authNow: auth_scheduled_for is not the T-24h of the lesson but a past   *)
(* instant.  authAge: the oldest auth_succeeded event.  failAge: the time  *)
(* since capture_failed_at.  timer: a check_immediate_auth_timeout task is *)
(* queued.  credit: halves of the lesson price issued to the student.      *)
(* gaming: the booking replaces one that was moved within 24h of its start.*)
(* reversed: transfer_reversal_id is set.  refunded: what                  *)
(* refunded_to_card_amount says, in halves of the price.                   *)
BookingType == [status : Statuses, pay : PaymentStatuses, outcome : Outcomes,
                method : BOOLEAN, intent : 0..MaxIntents, authNow : BOOLEAN,
                authAge : {"none", "recent", "old"},
                failAge : {"none", "fresh", "ge4h", "ge72h"},
                timer : BOOLEAN, credit : 0..2, gaming : BOOLEAN,
                reversed : BOOLEAN, refunded : 0..Whole]

(* The windows of the policy.  A lesson has ended24 when it ended at least *)
(* 24h ago.                                                                *)
ge24 == 0
from12to24 == 1
lt12 == 2
started == 3
ended == 4
ended24 == 5

Roles == {"student", "instructor"}
TaskKinds == {"authorize", "retry", "student_retry", "mark_failed", "escalate"}
CaptureReasons == {"instructor_completed", "auto_completed", "expired_auth",
                   "retry_failed_capture",
                   "admin_force_complete"}
AdminKinds == {"admin_refund", "admin_no_show", "admin_cancel", "force_refund",
               "force_keep"}
Scenarios == {"gaming", "regular", "between", "under", "under_no_pi",
              "pending_payment", "instructor"}

(* at: the next step of the operation.  intent: the intent id that phase 1 *)
(* read.  near: an authorization that found the lesson less than 24h ahead.*)
(* ok, rev, paid: what the main Stripe call, the reversal (if it was tried) *)
(* and the payout answered.  refund: what the operation refunds.           *)
JobType == [kind : {"idle"} \cup TaskKinds \cup CaptureReasons \cup Scenarios \cup AdminKinds,
            at : {"none", "planned", "stripe", "commit", "details", "refund", "reverse", "payout",
                  "persist", "reauth", "recapture", "recommit", "resettle", "giveup"},
            intent : 0..MaxIntents, near : BOOLEAN,
            ok : BOOLEAN, rev : {"untried", "done", "failed"}, paid : BOOLEAN,
            refund : 0..Whole]

Job(kind, at) == [kind |-> kind, at |-> at, intent |-> booking.intent,
                  near |-> kind = "authorize" /\ window >= from12to24,
                  ok |-> FALSE, rev |-> "untried", paid |-> FALSE,
                  refund |-> IF at = "refund" THEN Whole ELSE 0]
NoJob == [kind |-> "idle", at |-> "none", intent |-> 0, near |-> FALSE,
          ok |-> FALSE, rev |-> "untried", paid |-> FALSE, refund |-> 0]

StoreTypeOK == /\ LockTypeOK
               /\ booking \in BookingType
               /\ stripe \in StripeType
               /\ window \in 0..5
               /\ work \in [Clients -> JobType]
               /\ crashes \in 0..MaxCrashes

(* create_booking_with_payment_setup: a booking is born PENDING, with no   *)
(* payment method, at any time before the lesson starts.                   *)
StoreInit ==
    /\ LockInit
    /\ StripeInit
    /\ \E g \in BOOLEAN :
          booking = [status |-> "PENDING", pay |-> "payment_method_required",
                     outcome |-> "none", method |-> FALSE, intent |-> 0,
                     authNow |-> FALSE, authAge |-> "none", failAge |-> "none",
                     timer |-> FALSE, credit |-> 0, gaming |-> g,
                     reversed |-> FALSE, refunded |-> 0]
    /\ window \in {ge24, from12to24, lt12}
    /\ work = [c \in Clients |-> NoJob]
    /\ crashes = 0

-----------------------------------------------------------------------------
(* Mutant of Enter: nobody looks at "acquired". *)
EnterAnyway(c) == /\ pc[c] = "idle"
                  /\ mutexKey' = TRUE
                  /\ pc' = [pc EXCEPT ![c] = "inside"]
                  /\ UNCHANGED overlap

(* with booking_lock_sync(booking_id) as acquired: ... *)
Enter(c) == Acquire(c) \/ AcquireFailOpen(c)
Leave(c) == Release(c) \/ ReleaseLost(c)

(* Phase 1: the lock is taken, the row is read, the job is known. *)
Begin(c, job) == /\ work[c] = NoJob
                 /\ Enter(c)
                 /\ work' = [work EXCEPT ![c] = job]

(* A Stripe call of the job: the next step and what the call answered. *)
Proceed(c, job) == /\ pc[c] = "inside"
                   /\ work' = [work EXCEPT ![c] = job]
                   /\ UNCHANGED <<lockVars, window, crashes>>

(* The last phase: the result is written and the lock released. *)
Finish(c) == /\ Leave(c)
             /\ work' = [work EXCEPT ![c] = NoJob]
             /\ UNCHANGED <<window, crashes>>

(* A whole operation in one transaction under the lock: it finds the mutex *)
(* free, or Redis unreachable until the transaction is over, and leaves it *)
(* as it was.                                                              *)
UnderLock(c) == /\ work[c] = NoJob
                /\ pc[c] = "idle"
                /\ ~mutexKey \/ RedisFaults
                /\ UNCHANGED <<lockVars, work, stripe, window, crashes>>

Running(c, kinds, at) == work[c].kind \in kinds /\ work[c].at = at

Quiescent == \A c \in Clients : work[c] = NoJob

-----------------------------------------------------------------------------
(* A worker dies in the middle of an operation. *)
WorkerCrash(c) == /\ crashes < MaxCrashes
                  /\ Crash(c)
                  /\ work' = [work EXCEPT ![c] = NoJob]
                  /\ crashes' = crashes + 1
                  /\ UNCHANGED <<booking, stripe, window>>

(* The mutex expires. *)
MutexExpires == Expire /\ UNCHANGED storeVars

(* The lesson comes nearer, starts, ends: between the steps of an          *)
(* operation, too.                                                         *)
Tick == /\ window < ended24
        /\ window' = window + 1
        /\ UNCHANGED <<lockVars, booking, stripe, work, crashes>>

(* Hours pass after a failed capture, between the runs of the jobs. *)
FailureAges == /\ Quiescent
               /\ booking.failAge \in {"fresh", "ge4h"}
               /\ booking' = [booking EXCEPT !.failAge =
                                 IF @ = "fresh" THEN "ge4h" ELSE "ge72h"]
               /\ UNCHANGED <<lockVars, stripe, window, work, crashes>>

(* Seven days pass: the oldest authorization event is old, and Stripe      *)
(* drops the hold, or is about to.  The lesson is over by then, unless it  *)
(* was further ahead.                                                      *)
AuthorizationAges ==
    /\ Quiescent
    /\ ~booking.timer
    /\ stripe.pi = "hold" \/ booking.authAge = "recent"
    /\ booking' = [booking EXCEPT !.authAge = IF @ = "recent" THEN "old" ELSE @,
                                  !.failAge = IF @ = "none" THEN @ ELSE "ge72h"]
    /\ \E dropped \in BOOLEAN : stripe' = Outdated(dropped)
    /\ window' \in {ended24} \cup ({window} \cap {ge24})
    /\ UNCHANGED <<lockVars, work, crashes>>
=============================================================================

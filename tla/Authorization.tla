--------------------------- MODULE Authorization ---------------------------
(***************************************************************************)
(* How the payment of a booking is authorized: the confirmation of the     *)
(* payment method by the student, the authorization job (every 5 minutes), *)
(* the retry job (every 15 minutes), the half-hour timeout of an immediate *)
(* authorization, and the retry that the student asks for.                 *)
(*                                                                         *)
(* tasks/payment/authorization.py, authorization_retry.py, payment_tasks.py*)
(* and services/booking/payment_service.py, payment_retry.py.              *)
(***************************************************************************)
EXTENDS BookingStore

Authorized(b) == [b EXCEPT !.pay = "authorized", !.intent = stripe.gen]

-----------------------------------------------------------------------------
(* confirm_booking_payment under the lock of the route.  A booking less    *)
(* than 24h ahead, or one that replaces a booking moved within 24h of its  *)
(* start, stays PENDING and is authorized at once; any other is CONFIRMED  *)
(* and left to the authorization job.                                      *)
ImmediateAuth == window >= from12to24 \/ booking.gaming

ConfirmNow(c) ==
    /\ booking.status = "PENDING"
    /\ ImmediateAuth
    /\ Begin(c, Job("authorize", "stripe"))
    /\ booking' = [booking EXCEPT !.method = TRUE, !.pay = "scheduled",
                                  !.authNow = TRUE]
    /\ UNCHANGED <<stripe, window, crashes>>

ConfirmLater(c) ==
    /\ booking.status = "PENDING"
    /\ ~ImmediateAuth
    /\ UnderLock(c)
    /\ booking' = [booking EXCEPT !.method = TRUE, !.pay = "scheduled",
                                  !.authNow = FALSE, !.status = "CONFIRMED"]

-----------------------------------------------------------------------------
(* process_scheduled_authorizations: a candidate is revalidated under the  *)
(* lock by load_auth_booking_context.                                      *)
AuthorizeDue == /\ booking.status \in {"PENDING", "CONFIRMED"}
                /\ booking.pay = "scheduled"
                /\ booking.method
                /\ window >= from12to24 \/ booking.authNow

AuthorizeStart(c) == /\ AuthorizeDue
                     /\ Begin(c, Job("authorize", "stripe"))
                     /\ UNCHANGED <<booking, stripe, window, crashes>>

(* retry_failed_authorizations between T-24h and T-12h (or earlier): the   *)
(* back-off of 1, 4 and 8 hours is left out.                               *)
RetryDue == /\ booking.status = "PENDING"
            /\ booking.pay = "payment_method_required"
            /\ booking.failAge = "none"
            /\ booking.method

RetryStart(c) == /\ RetryDue
                 /\ window <= from12to24
                 /\ Begin(c, Job("retry", "stripe"))
                 /\ UNCHANGED <<booking, stripe, window, crashes>>

(* Mutant of StudentRetryStart: the status of the booking is not looked at. *)
StudentRetryAny(c) ==
    /\ booking.pay \in {"payment_method_required", "scheduled"}
    /\ Begin(c, Job("student_retry", "stripe"))
    /\ UNCHANGED <<booking, stripe, window, crashes>>

(* retry_authorization, under the lock of the route. *)
StudentRetryStart(c) ==
    /\ booking.status \notin Terminal
    /\ booking.pay \in {"payment_method_required", "scheduled"}
    /\ Begin(c, Job("student_retry", "stripe"))
    /\ UNCHANGED <<booking, stripe, window, crashes>>

(* Phase 2.  The retry job never looks at the intent on record.  A new     *)
(* intent is recorded by a commit of the Stripe session of the task; the   *)
(* student's retry records it in its last transaction only.                *)
AuthorizeStripe(c) ==
    LET creates == work[c].kind = "retry" \/ work[c].intent = 0 IN
    /\ Running(c, {"authorize", "retry", "student_retry"}, "stripe")
    /\ \E ok \in BOOLEAN :
          /\ IF creates THEN CreateCall(ok) ELSE ConfirmCall(work[c].intent, ok)
          /\ Proceed(c, [work[c] EXCEPT
                !.ok = ok,
                !.at = IF ok /\ creates /\ work[c].kind # "student_retry"
                       THEN "commit" ELSE "persist"])
    /\ UNCHANGED booking

AuthorizeCommit(c) ==
    /\ Running(c, {"authorize", "retry"}, "commit")
    /\ Proceed(c, [work[c] EXCEPT !.at = "persist"])
    /\ booking' = Authorized(booking)
    /\ UNCHANGED stripe

(* Mutant of PersistAuthorize: a failed call counts as an authorization. *)
PersistUnchecked(c) ==
    /\ Running(c, {"authorize"}, "persist")
    /\ Finish(c)
    /\ booking' = [Authorized(booking) EXCEPT
                      !.status = IF @ = "PENDING" THEN "CONFIRMED" ELSE @]
    /\ UNCHANGED stripe

(* Phase 3, which writes without looking at the status of the booking.     *)
PersistAuthorize(c) ==
    /\ Running(c, {"authorize"}, "persist")
    /\ Finish(c)
    /\ booking' =
          IF work[c].ok
          THEN [Authorized(booking) EXCEPT
                   !.authAge = IF @ = "none" THEN "recent" ELSE @,
                   !.status = IF @ = "PENDING" THEN "CONFIRMED" ELSE @]
          ELSE [booking EXCEPT !.pay = "payment_method_required",
                               !.timer = @ \/ work[c].near]
    /\ UNCHANGED stripe

PersistRetry(c) ==
    /\ Running(c, {"retry"}, "persist")
    /\ Finish(c)
    /\ booking' =
          IF work[c].ok
          THEN [Authorized(booking) EXCEPT !.authAge = IF @ = "none" THEN "recent" ELSE @]
          ELSE [booking EXCEPT !.pay = "payment_method_required"]
    /\ UNCHANGED stripe

PersistStudentRetry(c) ==
    /\ Running(c, {"student_retry"}, "persist")
    /\ Finish(c)
    /\ LET b == [booking EXCEPT !.method = TRUE, !.authNow = FALSE] IN
       booking' =
          IF work[c].ok
          THEN [Authorized(b) EXCEPT !.authAge = IF @ = "none" THEN "recent" ELSE @]
          ELSE [b EXCEPT !.pay = "payment_method_required"]
    /\ UNCHANGED stripe

-----------------------------------------------------------------------------
(* Mutant of MarkedFailed: no transition table. *)
MarkedAnyway(b) == [b EXCEPT !.status = "PAYMENT_FAILED", !.pay = "settled",
                             !.outcome = "payment_failed_no_charge"]

(* mark_booking_payment_failed: only the transition table stands between   *)
(* the plan and the booking; a refused transition rolls everything back.   *)
MarkedFailed(b) ==
    IF b.status = "PENDING"
    THEN [b EXCEPT !.status = "PAYMENT_FAILED", !.pay = "settled",
                   !.outcome = "payment_failed_no_charge", !.refunded = 0]
    ELSE b

(* The retry job plans from one snapshot, without the lock, and works the  *)
(* plan off later, one booking after the other.                            *)
PlanMarkFailed(c) ==
    /\ RetryDue
    /\ window = lt12
    /\ work[c] = NoJob
    /\ pc[c] = "idle"
    /\ work' = [work EXCEPT ![c] = Job("mark_failed", "planned")]
    /\ UNCHANGED <<lockVars, booking, stripe, window, crashes>>

PlannedMarkFailed(c) ==
    /\ Running(c, {"mark_failed"}, "planned")
    /\ pc[c] = "idle"
    /\ \/ /\ ~mutexKey \/ RedisFaults
          /\ booking' = MarkedFailed(booking)
       \/ mutexKey /\ UNCHANGED booking
    /\ work' = [work EXCEPT ![c] = NoJob]
    /\ UNCHANGED <<lockVars, stripe, window, crashes>>

(* check_immediate_auth_timeout: queued once, and lost when the lock is    *)
(* taken at that moment or a later attempt is not half an hour old yet.    *)
ImmediateTimeout(c) ==
    /\ booking.timer
    /\ work[c] = NoJob
    /\ pc[c] = "idle"
    /\ LET b == [booking EXCEPT !.timer = FALSE] IN
       \/ booking' = b
       \/ /\ ~mutexKey \/ RedisFaults
          /\ b.pay = "payment_method_required"
          /\ booking' = MarkedFailed(b)
    /\ UNCHANGED <<lockVars, work, stripe, window, crashes>>

AuthorizationStep(c) ==
    \/ ConfirmNow(c)
    \/ ConfirmLater(c)
    \/ AuthorizeStart(c)
    \/ RetryStart(c)
    \/ StudentRetryStart(c)
    \/ AuthorizeStripe(c)
    \/ AuthorizeCommit(c)
    \/ PersistAuthorize(c)
    \/ PersistRetry(c)
    \/ PersistStudentRetry(c)
    \/ PlanMarkFailed(c)
    \/ PlannedMarkFailed(c)
    \/ ImmediateTimeout(c)
=============================================================================

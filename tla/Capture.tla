------------------------------ MODULE Capture ------------------------------
(***************************************************************************)
(* How a held payment is captured: the hourly capture job with its three   *)
(* lists (completed lessons, lessons nobody completed, authorizations      *)
(* seven days old), the reauthorization of the last of them, and the       *)
(* four-hourly retry of failed captures with its escalation after 72h.     *)
(*                                                                         *)
(* tasks/payment/capture.py, capture_orchestration.py, capture_reauth.py,  *)
(* capture_recovery.py.                                                    *)
(***************************************************************************)
EXTENDS BookingStore

OnHold == booking.pay = "authorized" /\ booking.intent # 0

(* The capture failed: capture_failed_at starts anew with each failure. *)
CaptureFailed(b) == [b EXCEPT !.pay = "payment_method_required", !.failAge = "fresh"]

(* The payment is settled; only a completed booking gets its outcome. *)
CaptureSettled(b) ==
    [b EXCEPT !.pay = "settled",
              !.outcome = IF b.status = "COMPLETED"
                          THEN "lesson_completed_full_payout" ELSE @,
              !.refunded = IF b.status = "COMPLETED" THEN 0 ELSE @]

-----------------------------------------------------------------------------
(* _process_completed_capture: the lesson was marked completed. *)
CaptureStart(c) ==
    /\ booking.status = "COMPLETED"
    /\ OnHold
    /\ window = ended24
    /\ Begin(c, Job("instructor_completed", "stripe"))
    /\ UNCHANGED <<booking, stripe, window, crashes>>

(* auto_complete_booking: nobody completed the lesson within 24h.  The     *)
(* completion is committed before the capture is tried.                    *)
AutoComplete(c) ==
    /\ booking.status = "CONFIRMED"
    /\ OnHold
    /\ window = ended24
    /\ Begin(c, Job("auto_completed", "stripe"))
    /\ booking' = [booking EXCEPT !.status = "COMPLETED"]
    /\ UNCHANGED <<stripe, window, crashes>>

(* _handle_expired_auth_booking: the authorization is seven days old.  A   *)
(* completed booking is captured, any other counts as a failed capture.    *)
ExpiredAuth == OnHold /\ booking.authAge = "old"

ExpiredCapture(c) ==
    /\ ExpiredAuth
    /\ booking.status = "COMPLETED"
    /\ Begin(c, Job("expired_auth", "stripe"))
    /\ UNCHANGED <<booking, stripe, window, crashes>>

ExpireAuthorization(c) ==
    /\ ExpiredAuth
    /\ booking.status \notin Terminal \cup {"COMPLETED"}
    /\ UnderLock(c)
    /\ booking' = CaptureFailed(booking)

(* Mutant of RetryCapture: terminal bookings are not skipped. *)
RetryCaptureAny(c) ==
    /\ booking.pay = "payment_method_required"
    /\ booking.failAge = "ge4h"
    /\ booking.intent # 0
    /\ Begin(c, Job("retry_failed_capture", "stripe"))
    /\ UNCHANGED <<booking, stripe, window, crashes>>

(* retry_failed_captures after four hours.  A terminal booking is skipped  *)
(* and so keeps its capture_failed_at.                                     *)
RetryCapture(c) ==
    /\ booking.pay = "payment_method_required"
    /\ booking.failAge = "ge4h"
    /\ booking.status \notin Terminal
    /\ booking.intent # 0
    /\ Begin(c, Job("retry_failed_capture", "stripe"))
    /\ UNCHANGED <<booking, stripe, window, crashes>>

-----------------------------------------------------------------------------
(* Phase 2: the capture, under the key capture_<reason>_<booking>_<intent>. *)
CaptureStripe(c) ==
    /\ Running(c, CaptureReasons, "stripe")
    /\ \E ok \in BOOLEAN :
          /\ CaptureCall(work[c].intent, work[c].kind, ok)
          /\ Proceed(c, [work[c] EXCEPT !.ok = ok, !.at = "persist"])
    /\ UNCHANGED booking

(* Mutant of Reauthorizes: a captured payment is reauthorized too. *)
ReauthorizesAlways(c) == work[c].kind = "expired_auth"

(* Phase 3.  The failed capture of an old authorization goes on to a       *)
(* reauthorization; every other job is over.                               *)
Reauthorizes(c) == work[c].kind = "expired_auth" /\ ~work[c].ok

CaptureResult(c) == IF work[c].ok THEN CaptureSettled(booking) ELSE CaptureFailed(booking)

PersistCapture(c) ==
    /\ Running(c, CaptureReasons, "persist")
    /\ ~Reauthorizes(c)
    /\ Finish(c)
    /\ booking' = CaptureResult(c)
    /\ UNCHANGED stripe

PersistExpired(c) ==
    /\ Running(c, {"expired_auth"}, "persist")
    /\ Reauthorizes(c)
    /\ Proceed(c, [work[c] EXCEPT !.at = "reauth"])
    /\ booking' = CaptureResult(c)
    /\ UNCHANGED stripe

-----------------------------------------------------------------------------
(* run_reauthorization: a new intent under the key of the first, captured  *)
(* at once; the new intent is committed after the capture, as authorized.  *)
Reauthorize(c) ==
    /\ Running(c, {"expired_auth"}, "reauth")
    /\ \E ok \in BOOLEAN :
          /\ CreateCall(ok)
          /\ Proceed(c, [work[c] EXCEPT
                !.at = IF ok THEN "recapture" ELSE "giveup",
                !.intent = IF ok THEN stripe'.gen ELSE @])
    /\ UNCHANGED booking

Recapture(c) ==
    /\ Running(c, {"expired_auth"}, "recapture")
    /\ \E ok \in BOOLEAN :
          /\ CaptureCall(work[c].intent, "reauth", ok)
          /\ Proceed(c, [work[c] EXCEPT !.at = IF ok THEN "recommit" ELSE "giveup"])
    /\ UNCHANGED booking

RecaptureCommit(c) ==
    /\ Running(c, {"expired_auth"}, "recommit")
    /\ Proceed(c, [work[c] EXCEPT !.at = "resettle"])
    /\ booking' = [booking EXCEPT !.pay = "authorized", !.intent = work[c].intent]
    /\ UNCHANGED stripe

PersistReauth(c) ==
    /\ Running(c, {"expired_auth"}, "resettle")
    /\ Finish(c)
    /\ booking' = CaptureSettled([booking EXCEPT !.intent = work[c].intent])
    /\ UNCHANGED stripe

(* persist_reauth_capture_failure: only an event is recorded. *)
ReauthFailed(c) ==
    /\ Running(c, {"expired_auth"}, "giveup")
    /\ Finish(c)
    /\ UNCHANGED <<booking, stripe>>

-----------------------------------------------------------------------------
(* 72h after the last failed capture the instructor is paid by the         *)
(* platform.  Neither the status of the booking nor its intent is read.    *)
EscalateStart(c) ==
    /\ booking.pay = "payment_method_required"
    /\ booking.failAge = "ge72h"
    /\ Begin(c, Job("escalate", "stripe"))
    /\ UNCHANGED <<booking, stripe, window, crashes>>

EscalateStripe(c) ==
    /\ Running(c, {"escalate"}, "stripe")
    /\ \E ok \in BOOLEAN :
          /\ PayoutCall("full", ok)
          /\ Proceed(c, [work[c] EXCEPT !.ok = ok, !.at = "persist"])
    /\ UNCHANGED booking

PersistEscalate(c) ==
    /\ Running(c, {"escalate"}, "persist")
    /\ Finish(c)
    /\ booking' = [booking EXCEPT !.pay = "manual_review",
                                  !.refunded = 0,
                                  !.outcome = IF work[c].ok
                                              THEN "capture_failure_instructor_paid"
                                              ELSE "capture_failure_escalated"]
    /\ UNCHANGED stripe

CaptureStep(c) ==
    \/ CaptureStart(c)
    \/ AutoComplete(c)
    \/ ExpiredCapture(c)
    \/ ExpireAuthorization(c)
    \/ RetryCapture(c)
    \/ CaptureStripe(c)
    \/ PersistCapture(c)
    \/ PersistExpired(c)
    \/ Reauthorize(c)
    \/ Recapture(c)
    \/ RecaptureCommit(c)
    \/ PersistReauth(c)
    \/ ReauthFailed(c)
    \/ EscalateStart(c)
    \/ EscalateStripe(c)
    \/ PersistEscalate(c)
=============================================================================

----------------------------- MODULE Completion -----------------------------
(***************************************************************************)
(* How a lesson is marked completed, and how a completion is disputed.     *)
(* services/booking/completion_service.py.                                 *)
(***************************************************************************)
EXTENDS BookingStore

(* complete_booking, under the lock of the route, at any time. *)
CompleteBooking(c) ==
    /\ booking.status = "CONFIRMED"
    /\ UnderLock(c)
    /\ booking' = [booking EXCEPT !.status = "COMPLETED"]

(* instructor_mark_complete once the lesson is over.  Its route takes no   *)
(* lock: the step may fall between any two of another operation.           *)
InstructorMarkComplete ==
    /\ booking.status = "CONFIRMED"
    /\ window >= ended
    /\ booking' = [booking EXCEPT !.status = "COMPLETED"]
    /\ UNCHANGED <<lockVars, stripe, window, work, crashes>>

(* Mutant of DisputeCompletion: without the lock. *)
DisputeUnlocked(c) ==
    /\ booking.pay = "authorized"
    /\ work[c] = NoJob
    /\ pc[c] = "idle"
    /\ booking' = [booking EXCEPT !.pay = "manual_review"]
    /\ UNCHANGED <<lockVars, stripe, window, work, crashes>>

(* instructor_dispute_completion looks at the payment only. *)
DisputeCompletion(c) ==
    /\ booking.pay = "authorized"
    /\ UnderLock(c)
    /\ booking' = [booking EXCEPT !.pay = "manual_review"]

CompletionStep(c) == CompleteBooking(c) \/ DisputeCompletion(c)
=============================================================================

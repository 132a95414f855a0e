--------------------------- MODULE Administration ---------------------------
(***************************************************************************)
(* What administrators do to a booking and its money: the refund and the   *)
(* cancellation of the admin pages (routes/v1/admin/refunds.py,            *)
(* services/admin_refund_service.py, services/admin_booking_service.py)    *)
(* and the confirmed commands of the MCP gateway                           *)
(* (services/booking_admin_service.py), next to everybody else's           *)
(* operations on the same booking.                                         *)
(*                                                                         *)
(* The refund page gives back any amount up to the charge, the others the  *)
(* whole of it.  A command of the gateway that follows the policy cancels  *)
(* like the student, as CancelStart does.                                  *)
(***************************************************************************)
EXTENDS BookingLifecycle

Refunding == {"admin_refund", "admin_no_show", "admin_cancel", "force_refund"}

(* What the pages refuse to refund again.                                  *)
AlreadyRefunded ==
    \/ booking.refunded > 0
    \/ booking.outcome \in AdminRefunds \cup {"instructor_cancel_full_refund"}

(* _target_status_for_reason: the page's reason, or the command, decides.  *)
TargetStatus(kind) == IF kind = "admin_no_show" THEN "NO_SHOW" ELSE "CANCELLED"

(* admin_refund_booking, validate_refund_transition: a part of the charge  *)
(* or the whole, as the request says.                                      *)
AdminRefund(c) ==
    /\ booking.intent # 0
    /\ ~AlreadyRefunded
    /\ \E kind \in {"admin_refund", "admin_no_show"}, amount \in 1..Whole :
          /\ CanTransitionTo(TargetStatus(kind))
          /\ Begin(c, [Job(kind, "refund") EXCEPT !.refund = amount])
    /\ UNCHANGED <<booking, stripe, window, crashes>>

(* cancel_booking of AdminBookingService, with a refund ... *)
AdminCancelRefunding(c) ==
    /\ booking.status = "CONFIRMED"
    /\ booking.intent # 0
    /\ ~AlreadyRefunded
    /\ Begin(c, Job("admin_cancel", "refund"))
    /\ UNCHANGED <<booking, stripe, window, crashes>>

(* ... or without: the payment stays as it is, a hold included. *)
AdminCancel(c) ==
    /\ booking.status = "CONFIRMED"
    /\ UnderLock(c)
    /\ booking' = [booking EXCEPT !.status = "CANCELLED"]

(* update_booking_status.  Its route takes no mutex and it asks for no     *)
(* time.                                                                   *)
AdminComplete ==
    /\ booking.status = "CONFIRMED"
    /\ booking' = [booking EXCEPT !.status = "COMPLETED"]
    /\ UNCHANGED <<lockVars, stripe, window, work, crashes>>

-----------------------------------------------------------------------------
(* execute_force_cancel refuses cancelled bookings only.  With a refund    *)
(* (_cancel_with_full_refund) a payment that is settled is refunded and    *)
(* any other intent voided, which counts as a refund of the whole.         *)
ForceRefund(c) ==
    LET job == Job("force_refund", CASE booking.intent = 0     -> "persist"
                                     [] booking.intent # 0 /\ booking.pay = "settled" -> "refund"
                                     [] OTHER                  -> "stripe")
    IN
    /\ booking.status # "CANCELLED"
    /\ Begin(c, [job EXCEPT !.refund = IF booking.intent = 0 THEN 0 ELSE Whole])
    /\ UNCHANGED <<booking, stripe, window, crashes>>

(* Without one (_cancel_without_refund) a hold is captured; ok is set when *)
(* the charge was captured before.                                         *)
ForceKeep(c) ==
    LET held == booking.intent # 0 /\ booking.pay = "authorized" IN
    /\ booking.status # "CANCELLED"
    /\ Begin(c, [Job("force_keep", IF held THEN "stripe" ELSE "persist") EXCEPT
                    !.ok = booking.intent # 0 /\ booking.pay = "settled"])
    /\ UNCHANGED <<booking, stripe, window, crashes>>

(* execute_force_complete: the completion is committed and the hold, if    *)
(* there is one, captured as the capture job does it.                      *)
ForceComplete(c) ==
    /\ booking.status = "CONFIRMED"
    /\ IF OnHold THEN Begin(c, Job("admin_force_complete", "stripe"))
                 ELSE UnderLock(c)
    /\ booking' = [booking EXCEPT !.status = "COMPLETED"]
    /\ UNCHANGED <<stripe, window, crashes>>

-----------------------------------------------------------------------------
(* A call that fails ends the operation: nothing is written. *)
GoOnIf(c, ok) == IF ok THEN Proceed(c, [work[c] EXCEPT !.ok = TRUE, !.at = "persist"])
                       ELSE Finish(c)

RefundKey(kind) == IF kind = "admin_no_show" THEN "admin_refund" ELSE kind

IssueRefund(c) ==
    /\ Running(c, Refunding, "refund")
    /\ \E ok \in BOOLEAN :
          /\ RefundCall(work[c].intent, RefundKey(work[c].kind), work[c].refund, ok)
          /\ GoOnIf(c, ok)
    /\ UNCHANGED booking

ForceVoid(c) ==
    /\ Running(c, {"force_refund"}, "stripe")
    /\ \E ok \in BOOLEAN : VoidCall(work[c].intent, work[c].kind, ok) /\ GoOnIf(c, ok)
    /\ UNCHANGED booking

(* A failing capture does not stop the cancellation. *)
ForceCapture(c) ==
    /\ Running(c, {"force_keep"}, "stripe")
    /\ \E ok \in BOOLEAN :
          /\ CaptureCall(work[c].intent, work[c].kind, ok)
          /\ Proceed(c, [work[c] EXCEPT !.ok = ok, !.at = "persist"])
    /\ UNCHANGED booking

(* The last transaction: what it writes for the money that was moved; the  *)
(* payment status of a booking without any stays.                          *)
AdminOutcomes(kind) ==
    CASE kind = "admin_refund"  -> {"admin_refund", "student_wins_dispute_full_refund"}
      [] kind = "admin_no_show" -> {"instructor_no_show_full_refund"}
      [] kind = "force_keep"    -> {"admin_no_refund"}
      [] OTHER                  -> {"admin_refund"}

(* Mutant of RefundOnRecord: the amount is taken for the whole. *)
WholeOnRecord(job) == IF job.kind = "force_keep" THEN booking.refunded ELSE Whole

(* refunded_to_card_amount; without a refund it is left as it was. *)
RefundOnRecord(job) == IF job.kind = "force_keep" THEN booking.refunded ELSE job.refund

(* apply_refund_updates and the transactions that end the others; where    *)
(* the transition table refuses, they are rolled back.                     *)
AdminPersist(c) ==
    LET target == TargetStatus(work[c].kind) IN
    /\ Running(c, AdminKinds, "persist")
    /\ Finish(c)
    /\ IF CanTransitionTo(target)
       THEN \E outcome \in AdminOutcomes(work[c].kind) :
               booking' = [booking EXCEPT
                              !.status = target,
                              !.outcome = outcome,
                              !.refunded = RefundOnRecord(work[c]),
                              !.pay = IF work[c].ok THEN "settled" ELSE @]
       ELSE UNCHANGED booking
    /\ UNCHANGED stripe

-----------------------------------------------------------------------------
AdministrationStep(c) == \/ AdminRefund(c)
                         \/ AdminCancelRefunding(c)
                         \/ AdminCancel(c)
                         \/ ForceRefund(c)
                         \/ ForceKeep(c)
                         \/ ForceComplete(c)
                         \/ IssueRefund(c)
                         \/ ForceVoid(c)
                         \/ ForceCapture(c)
                         \/ AdminPersist(c)

AdministeredNext == \/ LifecycleNext
                    \/ AdminComplete
                    \/ \E c \in Clients : AdministrationStep(c)

AdministeredSafety == StoreInit /\ [][AdministeredNext]_allVars

-----------------------------------------------------------------------------
(* What an administrator's operation put on record is what Stripe has: the *)
(* student was given back refunded_to_card_amount, and the instructor the  *)
(* rest, whether the outcome says refund or no refund, and no hold is      *)
(* left.  An outcome that says full refund may so stand for a part of the  *)
(* charge, and the amount of a voided hold counts as refunded.             *)
AdminSettlementMeansMoney ==
    /\ booking.pay = "settled" /\ ~Escalated /\ ~Administering
    /\ booking.outcome \in AdminRefunds \cup {"admin_no_refund"}
    => /\ StudentPaid = Whole - booking.refunded
       /\ InstructorNet = Whole - booking.refunded
       /\ stripe.pi # "hold"

(* "settled: financial outcome is final": once an administrator has        *)
(* refunded or cancelled a booking, no job, request or further command     *)
(* that was under way or comes later moves its money again.                *)
AdminSettled == /\ booking.status = "CANCELLED"
                /\ booking.pay = "settled"
                /\ booking.outcome \in AdminRefunds
AdminRefundIsFinal ==
    [][AdminSettled => /\ booking'.pay = "settled"
                       /\ booking'.outcome = booking.outcome
                       /\ Charges' = Charges /\ InstructorNet' = InstructorNet]_allVars
=============================================================================

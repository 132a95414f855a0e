------------------------------- MODULE Escrow -------------------------------
(***************************************************************************)
(* What the platform promises of the money it takes into its keeping when  *)
(* a lesson is moved at short notice: it is held until the fate of the     *)
(* replacement is decided, that is decided once, and only the student      *)
(* who cancelled gets a credit, in the amount that goes with the decision. *)
(* Money that is held may be withdrawn for a manual review.                *)
(***************************************************************************)
EXTENDS Naturals

VARIABLES fate, credit

(* The credit that goes with each decision, in halves of the lesson price. *)
Award == [new_lesson_completed |-> 0, new_lesson_cancelled_ge12 |-> 2,
          new_lesson_cancelled_lt12 |-> 1, instructor_cancelled |-> 0]
Decisions == DOMAIN Award

EscrowInit == fate = "free" /\ credit = 0

Hold == fate = "free" /\ fate' = "held" /\ UNCHANGED credit

Withdraw == fate = "held" /\ fate' = "free" /\ UNCHANGED credit

Decide == /\ fate = "held"
          /\ fate' \in Decisions
          /\ credit' = Award[fate']

EscrowSpec == EscrowInit /\ [][Hold \/ Withdraw \/ Decide]_<<fate, credit>>
=============================================================================

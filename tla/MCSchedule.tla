----------------------------- MODULE MCSchedule -----------------------------
EXTENDS Schedule, TLC

CONSTANTS b1, b2, b3, b4, e1, e2

(* b1 and b2 want the same instructor; b1, b3 and b4 have the same         *)
(* student; the clock of b4's instructor is one slot ahead of the others'. *)
FourBookings == {b1, b2, b3, b4}
StudentOf(b) == IF b = b2 THEN "s2" ELSE "s1"
InstructorOf(b) == CASE b = b3 -> "i2" [] b = b4 -> "i3" [] OTHER -> "i1"
OffsetOf(i) == IF i = "i3" THEN 1 ELSE 0
ThreeSlots == 1..3
TwoEditors == {e1, e2}
TwoDays == {"mon", "tue"}

(* A booking reads the week once, before it begins: the browsers and the   *)
(* bookings are explored one after the other.                              *)
InTurn == \/ \A b \in Bookings : rows[b].status = "none" /\ req[b] = "none"
          \/ \A e \in Editors : editor[e].at = "away"
=============================================================================

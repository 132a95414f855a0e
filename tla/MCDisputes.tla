----------------------------- MODULE MCDisputes -----------------------------
EXTENDS Disputes, TLC

CONSTANTS w1, w2
TwoWorkers == {w1, w2}
Symmetry == Permutations(TwoWorkers)

(* The authorization shares the ledger's code with the dispute, and none   *)
(* of its data, nor of the wallet's: it is explored apart.                 *)
Apart == \/ sent["intent"] = "no"
         \/ /\ sent["created"] = "no"
            /\ next.status = "none" /\ student.suspended = "never"
            /\ \A who \in Readers : reads[who].op = "none"

(* Another operation has the mutex only when a handler may find it taken. *)
OthersInTheWay == mutex = "other" => \E w \in Workers : calls[w].at = "handle"

(* A suspension that reads no credit is one that takes none. *)
ReadsSome == reads["admin"].op # "none" => reads["admin"].rows # {}

(* The answer to the second event of the dispute arrives.  (That to the    *)
(* first may get lost, and its duplicate come.)                            *)
ClosedIsAnswered == ~(ledger["closed"] = "processed" /\ sent["closed"] = "due")

(* A request dies, or an event is replayed. *)
OneTrouble == replays + crashes <= 1

(* A booking's end and an administrator overlap the dispute, and not each  *)
(* other.                                                                  *)
TwoAtATime == \E who \in {"booking", "admin"} : reads[who].op = "none"
=============================================================================

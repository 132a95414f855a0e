------------------------------ MODULE MCOutbox ------------------------------
EXTENDS Outbox

CONSTANTS a, p, t1, t2, t3
TwoEvents == {a, p}
ThreeTasks == {t1, t2, t3}

(* Events share nothing but the workers: each is explored alone. *)
Alone == \E e \in Events : outbox[e].status = "absent"
=============================================================================

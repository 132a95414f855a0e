---------------------------- MODULE MCLockedFunds ----------------------------
EXTENDS LockedFunds, TLC

CONSTANTS c1, c2
TwoWorkers == {c1, c2}
OneWorker == {c1}
Symmetry == Permutations(TwoWorkers)
=============================================================================

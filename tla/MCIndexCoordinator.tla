--------------------------- MODULE MCIndexCoordinator ---------------------------
(* Instances of IndexCoordinator for TLC: two commands over the two pages of a run. *)
EXTENDS IndexCoordinator, TLC

CONSTANTS r1, p1, p2, t1, t2

OneRun == [p \in Page |-> r1]
MCPage == {p1, p2}
MCTask == {t1, t2}
MCSymmetry == Permutations(MCPage) \cup Permutations(MCTask)
=============================================================================

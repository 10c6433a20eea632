--------------------------- MODULE MCSessionQueue ---------------------------
(* Small instances of SessionQueue.                                        *)
EXTENDS SessionQueue, TLC

CONSTANTS k1, k2, k3, t1, t2, t3, t4

ThreeKeys == {k1, k2, k3}
TwoKeys == {k1, k2}
ThreeTasks == {t1, t2, t3}
FourTasks == {t1, t2, t3, t4}

(* Keys and calls are interchangeable.                                     *)
Symmetry == Permutations(ThreeKeys) \cup Permutations(FourTasks)
=============================================================================

------------------------- MODULE MCNotificationGuard -------------------------
(* Small instances of NotificationGuard.                                   *)
EXTENDS NotificationGuard, TLC

CONSTANTS u1, u2, u3, c1, c2, c3, c4

ThreeUsers == {u1, u2, u3}
FourCalls == {c1, c2, c3, c4}
Symmetry == Permutations(Users) \cup Permutations(Calls)
=============================================================================

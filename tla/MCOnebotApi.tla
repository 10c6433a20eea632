----------------------------- MODULE MCOnebotApi -----------------------------
(* Small instances of OnebotApi: the load of one client that holds the     *)
(* key, four requests over five ticks; or two requests of any kind, one    *)
(* endpoint of each kind, over one tick.                                   *)
EXTENDS OnebotApi, TLC

CONSTANTS r1, r2, r3, r4

OneOfEach == {"login_info", "send_group_msg", "set_group_ban", "set_group_anonymous_ban"}
FourRequests == {r1, r2, r3, r4}
Absent == {r3, r4}

Command ==
  [auth |-> "api_key", op |-> "set_group_ban", admin |-> FALSE, body |-> TRUE, target |-> TRUE]

Load == [r \in FourRequests |-> Command]

Pair(q, s) == [r \in FourRequests |-> IF r = r1 THEN q ELSE IF r = r2 THEN s ELSE Command]

(* Of a pair only r1 and r2 come.                                          *)
LoadOrPair ==
  /\ req \in {Load} \cup {Pair(q, s) : q, s \in Request}
  /\ Init

PairOnly ==
  req # Load => clock' <= 1 /\ \A r \in Absent : pc'[r] = "new"

MCSpec == LoadOrPair /\ [][Next /\ PairOnly]_vars

Symmetry == Permutations({r3, r4})
=============================================================================

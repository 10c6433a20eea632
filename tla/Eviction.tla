------------------------------ MODULE Eviction ------------------------------
(***************************************************************************)
(* The size cut shared by SessionQueue::evict (queue.rs) and               *)
(* NotificationGuard::evict (guard.rs): sort the entries by timestamp with *)
(* sort_unstable_by_key and remove the first len - threshold of them.      *)
(* Entries with equal timestamps come in HashMap order, so which of them   *)
(* go is not determined: the cut is a set of possible outcomes.            *)
(***************************************************************************)
EXTENDS Integers, FiniteSets

(* A partial function f extended or overridden at k: HashMap::insert.      *)
Put(f, k, v) == [x \in DOMAIN f \cup {k} |-> IF x = k THEN v ELSE f[x]]

(* The sets of entries that may remain when D, stamped by ts, is cut to at *)
(* most keep entries, the oldest going first.                              *)
LatestCuts(D, ts, keep) ==
  IF Cardinality(D) <= keep
    THEN {D}
    ELSE {S \in SUBSET D : /\ Cardinality(S) = keep
                           /\ \A k \in S, j \in D \ S : ts[j] <= ts[k]}
=============================================================================

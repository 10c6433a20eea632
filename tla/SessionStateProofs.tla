------------------------- MODULE SessionStateProofs -------------------------
(***************************************************************************)
(* What the operations on a SessionState make of a state that is one: the  *)
(* facts the proofs about the store rest on.                               *)
(***************************************************************************)
EXTENDS SessionState, FiniteSetTheorems, SequenceTheorems, WellFoundedInduction, TLAPS

Good(s) == IsState(s) /\ Coherent(s)

StateWith(v, m, c, t) == [versions |-> v, model |-> m, convs |-> c, last |-> t]

(* A state from its fields.                                                *)
LEMMA StateOf ==
  ASSUME NEW v, NEW m \in Models, NEW c, NEW t,
         DOMAIN v \subseteq Bases, v \in [DOMAIN v -> Nat],
         DOMAIN c \subseteq Ids, c \in [DOMAIN c -> Seq(Msgs)],
         DOMAIN t = DOMAIN c, t \in [DOMAIN t -> Nat]
  PROVE  IsState(StateWith(v, m, c, t))
  BY DEF IsState, StateWith

LEMMA CoherentOf ==
  ASSUME NEW v, NEW m, NEW c, NEW t,
         DOMAIN t = DOMAIN c, IsFiniteSet(DOMAIN c), Cardinality(DOMAIN c) <= MaxSessions,
         MaxMessages > 0 => \A i \in DOMAIN c : Len(c[i]) <= MaxMessages
  PROVE  Coherent(StateWith(v, m, c, t))
  BY DEF Coherent, StateWith

LEMMA FieldsOf ==
  ASSUME NEW s, IsState(s)
  PROVE  s = StateWith(s.versions, s.model, s.convs, s.last)
  BY DEF IsState, StateWith

(* What the operations that update one field make of the others.           *)
LEMMA Updates ==
  ASSUME NEW s, IsState(s), NEW m
  PROVE  /\ Selecting(s, m) = StateWith(s.versions, m, s.convs, s.last)
         /\ VersionsSwept(s) =
              StateWith(Restricted(s.versions, {b \in DOMAIN s.versions : \E i \in DOMAIN s.last : i[1] = b}),
                        s.model, s.convs, s.last)
<1> DEFINE v == Restricted(s.versions, {b \in DOMAIN s.versions : \E i \in DOMAIN s.last : i[1] = b})
<1>1. s = StateWith(s.versions, s.model, s.convs, s.last)
  BY FieldsOf
<1>2. \A x : [s EXCEPT !.model = x] = StateWith(s.versions, x, s.convs, s.last)
  BY <1>1 DEF StateWith
<1>3. \A x : [s EXCEPT !.versions = x] = StateWith(x, s.model, s.convs, s.last)
  BY <1>1 DEF StateWith
<1>4. VersionsSwept(s) = [s EXCEPT !.versions = v]
  BY <1>1 DEF VersionsSwept, StateWith
<1> HIDE DEF v
<1>5. VersionsSwept(s) = StateWith(v, s.model, s.convs, s.last)
  BY <1>3, <1>4
<1> QED BY <1>2, <1>5 DEF Selecting, v

(* A finite map with one more entry is finite.                             *)
LEMMA FiniteWith ==
  ASSUME NEW D, IsFiniteSet(D), NEW i, NEW c, DOMAIN c = D \cup {i}
  PROVE  IsFiniteSet(DOMAIN c)
  BY FS_AddElement

LEMMA DefaultGood == Good(Default)
<1>1. /\ DOMAIN NoEntries = {} /\ NoEntries \in [DOMAIN NoEntries -> Nat]
      /\ NoEntries \in [DOMAIN NoEntries -> Seq(Msgs)]
  BY DEF NoEntries
<1>2. IsFiniteSet({}) /\ Cardinality({}) = 0
  BY FS_EmptySet
<1>3. Default = StateWith(NoEntries, NoModel, NoEntries, NoEntries)
  BY DEF Default, StateWith
<1>4. IsState(Default)
  BY <1>1, <1>3, StateOf, StateAssumption
<1>5. Coherent(Default)
  BY <1>1, <1>2, <1>3, CoherentOf, StateAssumption
<1> QED BY <1>4, <1>5 DEF Good

LEMMA SelectingGood ==
  ASSUME NEW s, Good(s), NEW m \in Models
  PROVE  Good(Selecting(s, m))
<1>2. Selecting(s, m) = StateWith(s.versions, m, s.convs, s.last)
  BY Updates DEF Good
<1>3. IsState(Selecting(s, m))
  BY <1>2, StateOf, CoherentOf DEF Good, IsState, Coherent
<1>4. Coherent(Selecting(s, m))
  BY <1>2, CoherentOf DEF Good, Coherent
<1> QED BY <1>3, <1>4 DEF Good

LEMMA VersionType ==
  ASSUME NEW s, IsState(s), NEW b \in Bases
  PROVE  VersionOf(s, b) \in Nat /\ SessionId(s, b) \in Ids
  BY DEF IsState, VersionOf, SessionId, Ids

LEMMA BumpedGood ==
  ASSUME NEW s, Good(s), NEW b \in Bases
  PROVE  Good(Bumped(s, b))
<1> DEFINE v == Put(s.versions, b, VersionOf(s, b) + 1)
           D == DOMAIN s.convs \ {SessionId(s, b)}
           c == Restricted(s.convs, D)
           t == Restricted(s.last, D)
<1>1. DOMAIN s.convs = DOMAIN s.last /\ IsFiniteSet(DOMAIN s.convs) /\ IsState(s)
  BY DEF Good, Coherent
<1>2. Bumped(s, b) = StateWith(v, s.model, c, t)
  BY <1>1 DEF Bumped, StateWith
<1>3. DOMAIN v \subseteq Bases /\ v \in [DOMAIN v -> Nat]
  BY <1>1, VersionType DEF Put, IsState
<1>4. /\ DOMAIN c = D /\ c \in [D -> Seq(Msgs)] /\ D \subseteq Ids
      /\ DOMAIN t = D /\ t \in [D -> Nat]
      /\ \A i \in D : c[i] = s.convs[i]
  BY <1>1 DEF Restricted, IsState
<1>5. IsFiniteSet(D) /\ Cardinality(D) <= Cardinality(DOMAIN s.convs)
  BY <1>1, FS_Subset
<1>6. Cardinality(D) <= MaxSessions
  BY <1>1, <1>5, FS_CardinalityType, StateAssumption DEF Good, Coherent
<1>7. MaxMessages > 0 => \A i \in D : Len(c[i]) <= MaxMessages
  BY <1>4 DEF Good, Coherent
<1>8. s.model \in Models
  BY <1>1 DEF IsState
<1> HIDE DEF v, c, t, D
<1> QED BY <1>2, <1>3, <1>4, <1>5, <1>6, <1>7, <1>8, StateOf, CoherentOf DEF Good

(* The history grows by a turn at most, and is drained to its limit.       *)
LEMMA DrainedType ==
  ASSUME NEW c \in Seq(Msgs)
  PROVE  /\ Drained(c) \in Seq(Msgs)
         /\ MaxMessages > 0 => Len(Drained(c)) <= MaxMessages
<1>1. CASE MaxMessages > 0 /\ Len(c) > MaxMessages
  <2> DEFINE d == SubSeq(c, Len(c) - MaxMessages + 1, Len(c))
  <2>1. d \in Seq(Msgs) /\ Len(d) = MaxMessages
    BY <1>1, StateAssumption, SubSeqProperties
  <2>2. Drained(c) = d
    BY <1>1 DEF Drained
  <2> QED BY <2>1, <2>2, StateAssumption
<1>2. CASE ~(MaxMessages > 0 /\ Len(c) > MaxMessages)
  BY <1>2, StateAssumption DEF Drained
<1> QED BY <1>1, <1>2

(* After the two maps have been given the entry, they have the same ids,   *)
(* and one more than allowed at most; the cut of evict_stale follows.      *)
LEMMA EvictedGood ==
  ASSUME NEW s, IsState(s), DOMAIN s.convs = DOMAIN s.last, IsFiniteSet(DOMAIN s.convs),
         MaxMessages > 0 => \A i \in DOMAIN s.convs : Len(s.convs[i]) <= MaxMessages,
         NEW time \in Nat, NEW r \in EvictStale(s, time)
  PROVE  Good(r)
<1> DEFINE cutoff == IF time > SessionTtl THEN time - SessionTtl ELSE 0
           live == {i \in DOMAIN s.last : s.last[i] >= cutoff}
<1>1. PICK S \in LatestCuts(live, s.last, MaxSessions) : r = VersionsSwept(Kept(s, S))
  BY DEF EvictStale
<1>2. IsFiniteSet(live)
  BY FS_Subset
<1>3. S \subseteq DOMAIN s.convs /\ IsFiniteSet(S) /\ Cardinality(S) <= MaxSessions
  <2>1. S \subseteq live /\ Cardinality(S) <= MaxSessions
    <3> HIDE DEF live
    <3> QED BY <1>1, StateAssumption DEF LatestCuts
  <2> QED BY <1>2, <2>1, FS_Subset
<1> DEFINE k == Kept(s, S)
           c == Restricted(s.convs, S)
           t == Restricted(s.last, S)
           v == Restricted(s.versions, {b \in DOMAIN s.versions : \E i \in DOMAIN t : i[1] = b})
<1>4. /\ k = StateWith(s.versions, s.model, c, t)
      /\ k.versions = s.versions /\ k.model = s.model /\ k.convs = c /\ k.last = t
  BY DEF Kept, StateWith
<1>5. DOMAIN v \subseteq Bases /\ v \in [DOMAIN v -> Nat]
  BY DEF Restricted, IsState
<1>6. /\ DOMAIN c = S /\ c \in [S -> Seq(Msgs)] /\ S \subseteq Ids
      /\ DOMAIN t = S /\ t \in [S -> Nat]
      /\ \A i \in S : c[i] = s.convs[i]
  BY <1>3 DEF Restricted, IsState
<1>7. s.model \in Models
  BY DEF IsState
<1> HIDE DEF v, c, t, k
<1>8. IsState(k)
  BY <1>4, <1>6, <1>7, StateOf DEF IsState
<1>9. r = StateWith(v, s.model, c, t)
  BY <1>1, <1>4, <1>8, Updates DEF v, k
<1>10. MaxMessages > 0 => \A i \in S : Len(c[i]) <= MaxMessages
  BY <1>3, <1>6
<1> QED BY <1>3, <1>9, <1>5, <1>6, <1>10, <1>7, StateOf, CoherentOf DEF Good

LEMMA AppendGood ==
  ASSUME NEW s, Good(s), NEW id \in Ids, NEW turn \in Msgs \X Msgs, NEW time \in Nat,
         NEW r \in AppendOutcomes(s, id, turn, time)
  PROVE  Good(r)
<1> DEFINE d == Conversation(s, id) \o NonEmpty(turn[1]) \o NonEmpty(turn[2])
           c == Put(s.convs, id, Drained(d))
           t == Put(s.last, id, time)
           e == Extended(s, id, turn, time)
<1>1. DOMAIN s.convs = DOMAIN s.last /\ IsFiniteSet(DOMAIN s.convs) /\ IsState(s)
  BY DEF Good, Coherent
<1>2. d \in Seq(Msgs)
  <2>1. Conversation(s, id) \in Seq(Msgs)
    BY <1>1 DEF Conversation, IsState
  <2>2. \A m \in Msgs : NonEmpty(m) \in Seq(Msgs)
    BY DEF NonEmpty
  <2> QED BY <2>1, <2>2
<1> HIDE DEF d
<1>3. Drained(d) \in Seq(Msgs) /\ (MaxMessages > 0 => Len(Drained(d)) <= MaxMessages)
  BY <1>2, DrainedType
<1>4. e = StateWith(s.versions, s.model, c, t)
  BY DEF Extended, StateWith, d
<1>5. /\ DOMAIN c = DOMAIN s.convs \cup {id} /\ c \in [DOMAIN c -> Seq(Msgs)]
      /\ DOMAIN c \subseteq Ids
      /\ DOMAIN t = DOMAIN c /\ t \in [DOMAIN t -> Nat]
  BY <1>1, <1>3 DEF Put, IsState
<1>6. MaxMessages > 0 => \A i \in DOMAIN c : Len(c[i]) <= MaxMessages
  BY <1>3 DEF Put, Good, Coherent
<1> HIDE DEF c, t, e
<1>7. IsFiniteSet(DOMAIN c)
  BY <1>1, <1>5, FiniteWith
<1>8. s.model \in Models /\ DOMAIN s.versions \subseteq Bases /\ s.versions \in [DOMAIN s.versions -> Nat]
  BY <1>1 DEF IsState
<1>9. CASE Cardinality(DOMAIN c) > MaxSessions
  <2>1. IsState(e) /\ e.convs = c /\ e.last = t
    BY <1>4, <1>5, <1>7, <1>8, StateOf DEF StateWith
  <2>2. r \in EvictStale(e, time)
    BY <1>9, <2>1 DEF AppendOutcomes, e
  <2> QED BY <1>5, <1>6, <1>7, <2>1, <2>2, EvictedGood
<1>10. CASE ~(Cardinality(DOMAIN c) > MaxSessions)
  <2>1. Cardinality(DOMAIN c) <= MaxSessions
    BY <1>7, <1>10, FS_CardinalityType, StateAssumption
  <2>2. e.convs = c
    BY <1>4 DEF StateWith
  <2>3. r = e
    BY <1>10, <2>2 DEF AppendOutcomes, e
  <2> QED BY <1>4, <1>5, <1>6, <1>7, <1>8, <2>1, <2>3, StateOf, CoherentOf DEF Good
<1> QED BY <1>9, <1>10

(* No operation makes a session but the append, which makes its own.       *)
LEMMA SelectingIds ==
  ASSUME NEW s, IsState(s), NEW m
  PROVE  DOMAIN Selecting(s, m).convs = DOMAIN s.convs
<1>1. Selecting(s, m) = StateWith(s.versions, m, s.convs, s.last)
  BY Updates
<1> QED BY <1>1 DEF StateWith

LEMMA BumpedIds ==
  ASSUME NEW s, NEW b
  PROVE  DOMAIN Bumped(s, b).convs \subseteq DOMAIN s.convs
  BY DEF Bumped, Restricted

(* An append changes the conversation it is for, and drops others at most. *)
LEMMA AppendConvs ==
  ASSUME NEW s, Good(s), NEW id, NEW turn, NEW time, NEW r \in AppendOutcomes(s, id, turn, time)
  PROVE  /\ \A i \in DOMAIN r.convs : i # id => i \in DOMAIN s.convs /\ r.convs[i] = s.convs[i]
         /\ id \in DOMAIN r.convs =>
              r.convs[id] = Drained(Conversation(s, id) \o NonEmpty(turn[1]) \o NonEmpty(turn[2]))
<1> DEFINE e == Extended(s, id, turn, time)
           d == Drained(Conversation(s, id) \o NonEmpty(turn[1]) \o NonEmpty(turn[2]))
           cutoff == IF time > SessionTtl THEN time - SessionTtl ELSE 0
           live == {i \in DOMAIN e.last : e.last[i] >= cutoff}
<1>1. e.convs = Put(s.convs, id, d)
  BY DEF Extended
<1>2. DOMAIN e.last = DOMAIN e.convs
  BY DEF Extended, Put, Good, Coherent
<1> HIDE DEF d, e
<1>3. /\ DOMAIN e.convs = DOMAIN s.convs \cup {id}
      /\ \A i \in DOMAIN e.convs : e.convs[i] = IF i = id THEN d ELSE s.convs[i]
  BY <1>1 DEF Put
<1>4. DOMAIN r.convs \subseteq DOMAIN e.convs /\ \A i \in DOMAIN r.convs : r.convs[i] = e.convs[i]
  <2>1. CASE r = e
    BY <2>1
  <2>2. CASE r \in EvictStale(e, time)
    <3>1. PICK S \in LatestCuts(live, e.last, MaxSessions) : r = VersionsSwept(Kept(e, S))
      BY <2>2 DEF EvictStale
    <3>2. S \subseteq live
      BY DEF LatestCuts
    <3>3. r.convs = Kept(e, S).convs
      BY <3>1 DEF VersionsSwept, Kept
    <3>4. r.convs = [i \in S |-> e.convs[i]]
      BY <3>3 DEF Kept, Restricted
    <3> QED BY <1>2, <3>2, <3>4
  <2> QED BY <2>1, <2>2 DEF AppendOutcomes, e
<1> QED BY <1>3, <1>4 DEF d

(* ... so it makes no session but its own.                                 *)
LEMMA AppendIds ==
  ASSUME NEW s, Good(s), NEW id, NEW turn, NEW time, NEW r \in AppendOutcomes(s, id, turn, time)
  PROVE  DOMAIN r.convs \subseteq DOMAIN s.convs \cup {id}
  BY AppendConvs

(* A bump closes the base's session and leaves the others.                 *)
LEMMA BumpedConvs ==
  ASSUME NEW s, NEW b
  PROVE  \A i \in DOMAIN Bumped(s, b).convs :
           i \in DOMAIN s.convs /\ Bumped(s, b).convs[i] = s.convs[i]
  BY DEF Bumped, Restricted

(* What is drained is the end of what there was.                           *)
LEMMA DrainedEnd ==
  ASSUME NEW c \in Seq(Msgs)
  PROVE  \E k \in Nat :
           /\ k = 0 \/ (MaxMessages > 0 /\ k = Len(c) - MaxMessages)
           /\ Len(Drained(c)) = Len(c) - k
           /\ \A n \in 1 .. Len(Drained(c)) : Drained(c)[n] = c[n + k]
<1>0. Len(c) \in Nat /\ MaxMessages \in Nat
  BY StateAssumption
<1>1. CASE MaxMessages > 0 /\ Len(c) > MaxMessages
  <2> DEFINE k == Len(c) - MaxMessages
             d == SubSeq(c, k + 1, Len(c))
  <2>1. k \in Nat
    BY <1>0, <1>1
  <2>2. Len(d) = MaxMessages /\ \A n \in 1 .. MaxMessages : d[n] = c[n + k]
    <3>1. k + 1 \in 1 .. Len(c) + 1 /\ Len(c) \in k + 1 - 1 .. Len(c)
      BY <1>0, <1>1
    <3>2. /\ Len(d) = IF k + 1 <= Len(c) THEN Len(c) - (k + 1) + 1 ELSE 0
          /\ \A n \in 1 .. Len(c) - (k + 1) + 1 : d[n] = c[k + 1 + n - 1]
      BY <1>0, <1>1, SubSeqProperties
    <3> QED BY <1>0, <1>1, <3>2
  <2>3. Drained(c) = d
    BY <1>1 DEF Drained
  <2> HIDE DEF d
  <2>4. MaxMessages > 0 /\ k = Len(c) - MaxMessages
    BY <1>1
  <2>5. Len(Drained(c)) = Len(c) - k
    BY <1>0, <2>2, <2>3
  <2> QED BY <2>1, <2>2, <2>3, <2>4, <2>5
<1>2. CASE ~(MaxMessages > 0 /\ Len(c) > MaxMessages)
  <2>1. Drained(c) = c
    BY <1>2 DEF Drained
  <2>2. Len(Drained(c)) = Len(c) - 0 /\ \A n \in 1 .. Len(Drained(c)) : Drained(c)[n] = c[n + 0]
    BY <1>0, <2>1
  <2> DEFINE k == 0
  <2>3. /\ k \in Nat /\ k = 0
        /\ Len(Drained(c)) = Len(c) - k
        /\ \A n \in 1 .. Len(Drained(c)) : Drained(c)[n] = c[n + k]
    BY <2>2
  <2> HIDE DEF k
  <2> QED BY <2>3
<1> QED BY <1>1, <1>2
-----------------------------------------------------------------------------
(* An append always has an outcome: whatever the timestamps, there are     *)
(* entries to keep.  First, a least number, and a latest entry.            *)
LEMMA Smallest ==
  ASSUME NEW T, T \subseteq Nat, T # {}
  PROVE  \E x \in T : \A y \in T : x <= y
<1>1. PICK x \in T : \A y \in T : ~(<<y, x>> \in OpToRel(<, Nat))
  BY NatLessThanWellFounded, WFMin
<1>2. \A y \in T : <<y, x>> \in Nat \X Nat
  OBVIOUS
<1>3. \A y \in T : ~(y < x)
  BY <1>1, <1>2 DEF OpToRel
<1> QED BY <1>3

LatestIn(S, ts, m) == \A d \in S : ts[d] <= ts[m]

LEMMA LatestExists ==
  ASSUME NEW D, NEW ts, \A d \in D : ts[d] \in Nat
  PROVE  \A S \in SUBSET D : IsFiniteSet(S) /\ S # {} => \E m \in S : LatestIn(S, ts, m)
<1> DEFINE Without(S) == IsFiniteSet(S) /\ S # {} /\ ~\E m \in S : LatestIn(S, ts, m)
           T == {n \in Nat : \E S \in SUBSET D : Without(S) /\ Cardinality(S) = n}
<1> SUFFICES ASSUME NEW R \in SUBSET D, Without(R) PROVE FALSE
  OBVIOUS
<1>1. T \subseteq Nat /\ Cardinality(R) \in T
  BY FS_CardinalityType
<1>2. PICK n \in T : \A k \in T : n <= k
  BY <1>1, Smallest
<1>3. PICK S \in SUBSET D : Without(S) /\ Cardinality(S) = n
  BY <1>2
<1>4. PICK x \in S : TRUE
  BY <1>3
<1> DEFINE P == S \ {x}
<1>5. IsFiniteSet(P) /\ Cardinality(P) = n - 1 /\ n \in Nat
  BY <1>2, <1>3, <1>4, FS_RemoveElement
<1>6. P \in SUBSET D /\ Cardinality(P) \notin T
  BY <1>2, <1>5
<1>7. ~Without(P)
  BY <1>5, <1>6, FS_CardinalityType
<1>8. CASE P = {}
  <2>1. S = {x}
    BY <1>4, <1>8
  <2>2. ts[x] \in Nat
    BY <1>3, <1>4
  <2>3. LatestIn(S, ts, x)
    BY <2>1, <2>2 DEF LatestIn
  <2> QED BY <1>3, <1>4, <2>3
<1>9. CASE P # {}
  <2>1. PICK m \in P : LatestIn(P, ts, m)
    BY <1>5, <1>7, <1>9
  <2>2. ts[x] \in Nat /\ ts[m] \in Nat /\ \A d \in S : ts[d] \in Nat
    BY <1>3, <1>4, <2>1
  <2>3. \A d \in S : d = x \/ ts[d] <= ts[m]
    BY <2>1 DEF LatestIn
  <2>4. LatestIn(S, ts, x) \/ LatestIn(S, ts, m)
    BY <2>2, <2>3 DEF LatestIn
  <2> QED BY <1>3, <1>4, <2>1, <2>4
<1> QED BY <1>8, <1>9

LEMMA CutPossible ==
  ASSUME NEW D, IsFiniteSet(D), NEW ts, \A d \in D : ts[d] \in Nat, NEW keep \in Nat
  PROVE  LatestCuts(D, ts, keep) # {}
<1> DEFINE Cut(S, k) == /\ S \in SUBSET D /\ Cardinality(S) = k
                        /\ \A i \in S, j \in D \ S : ts[j] <= ts[i]
           T == {k \in Nat : k <= Cardinality(D) /\ ~\E S : Cut(S, k)}
<1>0. Cardinality(D) \in Nat
  BY FS_CardinalityType
<1>1. T = {}
  <2> SUFFICES ASSUME T # {} PROVE FALSE
    OBVIOUS
  <2>1. PICK k \in T : \A n \in T : k <= n
    BY Smallest
  <2>2. CASE k = 0
    <3>1. Cut({}, 0)
      BY FS_EmptySet
    <3> QED BY <2>1, <2>2, <3>1
  <2>3. CASE k # 0
    <3>1. k - 1 \in Nat /\ k - 1 <= Cardinality(D) /\ k - 1 \notin T /\ k \in Nat /\ k <= Cardinality(D)
      BY <1>0, <2>1, <2>3
    <3>2. PICK S : Cut(S, k - 1)
      BY <3>1
    <3>3. IsFiniteSet(S) /\ S # D /\ D \ S # {} /\ IsFiniteSet(D \ S)
      BY <1>0, <3>1, <3>2, FS_Subset
    <3>4. PICK m \in D \ S : LatestIn(D \ S, ts, m)
      BY <3>3, LatestExists
    <3>5. IsFiniteSet(S \cup {m}) /\ Cardinality(S \cup {m}) = k
      BY <3>1, <3>2, <3>3, FS_AddElement
    <3>6. \A i \in S \cup {m}, j \in D \ (S \cup {m}) : ts[j] <= ts[i]
      BY <3>2, <3>4 DEF LatestIn
    <3>7. Cut(S \cup {m}, k)
      BY <3>2, <3>5, <3>6
    <3> QED BY <2>1, <3>7
  <2> QED BY <2>2, <2>3
<1>2. CASE Cardinality(D) <= keep
  BY <1>2 DEF LatestCuts
<1>3. CASE ~(Cardinality(D) <= keep)
  <2>1. keep <= Cardinality(D)
    BY <1>0, <1>3
  <2>2. PICK S : Cut(S, keep)
    BY <1>1, <2>1
  <2> QED BY <1>3, <2>2 DEF LatestCuts
<1> QED BY <1>2, <1>3

LEMMA AppendPossible ==
  ASSUME NEW s, Good(s), NEW id, NEW turn, NEW time \in Nat
  PROVE  AppendOutcomes(s, id, turn, time) # {}
<1> DEFINE t == Extended(s, id, turn, time)
           cutoff == IF time > SessionTtl THEN time - SessionTtl ELSE 0
           live == {i \in DOMAIN t.last : t.last[i] >= cutoff}
<1>1. /\ DOMAIN s.last = DOMAIN s.convs /\ IsFiniteSet(DOMAIN s.convs)
      /\ s.last \in [DOMAIN s.last -> Nat]
  BY DEF Good, IsState, Coherent
<1>2. t.last = Put(s.last, id, time)
  BY DEF Extended
<1>3. DOMAIN t.last = DOMAIN s.last \cup {id} /\ \A i \in DOMAIN t.last : t.last[i] \in Nat
  BY <1>1, <1>2 DEF Put
<1>4. IsFiniteSet(DOMAIN t.last)
  BY <1>1, <1>3, FS_AddElement
<1>5. IsFiniteSet(live) /\ live \subseteq DOMAIN t.last
  BY <1>4, FS_Subset
<1>6. LatestCuts(live, t.last, MaxSessions) # {}
  <2> HIDE DEF t, live
  <2> QED BY <1>3, <1>5, CutPossible, StateAssumption
<1>7. EvictStale(t, time) # {}
  <2>1. PICK S : S \in LatestCuts(live, t.last, MaxSessions)
    BY <1>6
  <2>2. VersionsSwept(Kept(t, S)) \in EvictStale(t, time)
    BY <2>1 DEF EvictStale
  <2> QED BY <2>2
<1> QED BY <1>7 DEF AppendOutcomes
=============================================================================

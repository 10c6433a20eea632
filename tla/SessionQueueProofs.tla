-------------------------- MODULE SessionQueueProofs --------------------------
(***************************************************************************)
(* Proofs about SessionQueue for every set of keys, every set of calls and *)
(* every value of MAX_CHAINS, EVICT_THRESHOLD and IDLE_SECS.               *)
(***************************************************************************)
EXTENDS SessionQueue, FiniteSetTheorems, SequenceTheorems, WellFoundedInduction, TLAPS

(* What a Touch may leave: entries of the touched map, unchanged, and no   *)
(* more than MaxChains of them.                                            *)
LEMMA TouchOutcome ==
  ASSUME TypeOK, NEW t \in Tasks, NEW c \in AfterTouch(t)
  PROVE  /\ DOMAIN c \subseteq DOMAIN chains
         /\ c = [k \in DOMAIN c |-> c[k]]
         /\ \A k \in DOMAIN c : /\ c[k].mutex = chains[k].mutex
                                /\ c[k] \in [mutex : Tasks, last : Times]
         /\ Cardinality(DOMAIN c) <= MaxChains
         /\ Cardinality(DOMAIN chains) <= MaxChains => DOMAIN c = DOMAIN chains
<1> DEFINE T == Touched(t)
<1>1. /\ DOMAIN T = DOMAIN chains
      /\ T = [k \in DOMAIN T |-> T[k]]
      /\ \A k \in DOMAIN T : /\ T[k].mutex = chains[k].mutex
                             /\ T[k] \in [mutex : Tasks, last : Times]
  BY DEF TypeOK, Touched, Put
<1>2. IsFiniteSet(DOMAIN T)
  BY <1>1, QueueAssumption, FS_Subset DEF TypeOK
<1>3. CASE Cardinality(DOMAIN T) > MaxChains
  <2> DEFINE Fresh == {k \in DOMAIN T : now - T[k].last < IdleSecs}
             lastUsed == [k \in Fresh |-> T[k].last]
  <2>1. PICK S \in LatestCuts(Fresh, lastUsed, EvictThreshold) : c = [k \in S |-> T[k]]
    BY <1>3 DEF AfterTouch, EvictOutcomes
  <2>2. IsFiniteSet(Fresh)
    BY <1>2, FS_Subset
  <2>3. S \subseteq Fresh /\ Cardinality(S) <= EvictThreshold /\ IsFiniteSet(S)
    <3>1. S \subseteq Fresh /\ Cardinality(S) <= EvictThreshold
      BY <2>1, QueueAssumption DEF LatestCuts
    <3> QED BY <2>2, <3>1, FS_Subset
  <2>4. Cardinality(S) <= MaxChains
    BY <2>3, QueueAssumption, FS_CardinalityType
  <2>5. DOMAIN c = S /\ S \subseteq DOMAIN T
    BY <2>1, <2>3
  <2>6. ~(Cardinality(DOMAIN chains) <= MaxChains)
    BY <1>1, <1>2, <1>3, QueueAssumption, FS_CardinalityType
  <2> QED BY <1>1, <2>1, <2>4, <2>5, <2>6
<1>4. CASE ~(Cardinality(DOMAIN T) > MaxChains)
  <2>1. c = T
    BY <1>4 DEF AfterTouch
  <2>2. Cardinality(DOMAIN T) <= MaxChains
    BY <1>2, <1>4, QueueAssumption, FS_CardinalityType
  <2> QED BY <1>1, <2>1, <2>2
<1> QED BY <1>3, <1>4

-----------------------------------------------------------------------------
(* A call past the map block has a mutex, and a call that waits for or     *)
(* holds a mutex stands in its line, at the head if it holds it.           *)
Past(t) == pc[t] \notin {"new", "map"}
InLine(t) == pc[t] \in {"waiting", "body", "touch", "unlock"}
Holding(t) == pc[t] \in {"body", "touch", "unlock"}

LineInv ==
  /\ \A t \in Tasks : Past(t) => mutex[t] \in Tasks
  /\ \A t \in Tasks : InLine(t) => \E i \in 1 .. Len(line[mutex[t]]) : line[mutex[t]][i] = t
  /\ \A t \in Tasks : Holding(t) => Head(line[mutex[t]]) = t

TypeInv == TypeOK /\ LineInv

LEMMA InitTypeInv == Init => TypeInv
BY QueueAssumption DEF Init, TypeInv, TypeOK, LineInv, Past, InLine, Holding, Stage, Times

(* The steps that leave the mutexes alone need only look at pc.            *)
LEMMA SameLines ==
  ASSUME LineInv, mutex' = mutex, line' = line,
         \A u \in Tasks :
           /\ Past(u)' => Past(u)
           /\ InLine(u)' => InLine(u)
           /\ Holding(u)' => Holding(u) \/ Head(line[mutex[u]]) = u
  PROVE  LineInv'
<1>1. \A t \in Tasks : Past(t)' => mutex'[t] \in Tasks
  BY DEF LineInv
<1>2. \A t \in Tasks : InLine(t)' => \E i \in 1 .. Len(line'[mutex'[t]]) : line'[mutex'[t]][i] = t
  BY DEF LineInv
<1>3. \A t \in Tasks : Holding(t)' => Head(line'[mutex'[t]]) = t
  BY DEF LineInv
<1> QED BY <1>1, <1>2, <1>3 DEF LineInv

LEMMA StepTypeInv ==
  ASSUME TypeInv, [Next]_vars
  PROVE  TypeInv'
<1> USE DEF TypeInv
<1>1. ASSUME NEW t \in Tasks, LockMap(t) PROVE TypeInv'
  <2>1. TypeOK'
    BY <1>1, QueueAssumption DEF LockMap, TypeOK, Stage
  <2>2. mutex' = mutex /\ line' = line
    BY <1>1 DEF LockMap
  <2>3. \A u \in Tasks :
          /\ Past(u)' => Past(u)
          /\ InLine(u)' => InLine(u)
          /\ Holding(u)' => Holding(u) \/ Head(line[mutex[u]]) = u
    BY <1>1 DEF LockMap, TypeOK, Past, InLine, Holding
  <2> QED BY <2>1, <2>2, <2>3, SameLines
<1>2. ASSUME NEW t \in Tasks, Lookup(t) PROVE TypeInv'
  <2>1. EntryMutex(t) \in Tasks
    BY DEF EntryMutex, TypeOK
  <2>2. TypeOK'
    <3>1. /\ DOMAIN chains' \subseteq Keys
          /\ \A k \in DOMAIN chains' : chains'[k] \in [mutex : Tasks, last : Times]
          /\ chains' = [k \in DOMAIN chains' |-> chains'[k]]
      BY <1>2, <2>1 DEF Lookup, TypeOK, Put
    <3>2. /\ key' \in [Tasks -> Keys] /\ pc' \in [Tasks -> Stage]
          /\ mutex' \in [Tasks -> Tasks \cup {NoTask}]
          /\ line' \in [Tasks -> Seq(Tasks)] /\ now' \in Times
      BY <1>2, <2>1 DEF Lookup, TypeOK, Stage
    <3>3. mapHolder' = NoTask
      BY <1>2 DEF Lookup, MapGuardDropped
    <3>4. \A u \in Tasks : pc'[u] \notin {"map", "touch"}
      BY <1>2 DEF Lookup, TypeOK
    <3> QED BY <3>1, <3>2, <3>3, <3>4, QueueAssumption DEF TypeOK
  <2>3. LineInv'
    BY <1>2, <2>1 DEF Lookup, TypeOK, LineInv, Past, InLine, Holding
  <2> QED BY <2>2, <2>3
<1>3. ASSUME NEW t \in Tasks, RequestLock(t) PROVE TypeInv'
  <2> DEFINE m == mutex[t]
  <2>1. m \in Tasks /\ line[m] \in Seq(Tasks)
    BY <1>3 DEF RequestLock, LineInv, Past, TypeOK
  <2>2. /\ line'[m] = Append(line[m], t)
        /\ line' \in [Tasks -> Seq(Tasks)]
        /\ \A x \in Tasks : x # m => line'[x] = line[x]
    BY <1>3, <2>1, AppendProperties DEF RequestLock, TypeOK, JoinedLine
  <2>3. TypeOK'
    BY <1>3, <2>2 DEF RequestLock, TypeOK, Stage
  <2>4. /\ Len(line'[m]) = Len(line[m]) + 1
        /\ line'[m][Len(line[m]) + 1] = t
        /\ \A i \in 1 .. Len(line[m]) : line'[m][i] = line[m][i]
    BY <2>1, <2>2, AppendProperties
  <2>5. LineInv'
    <3>1. \A u \in Tasks : Past(u)' => mutex'[u] \in Tasks
      BY <1>3 DEF RequestLock, LineInv, Past, TypeOK
    <3>2. ASSUME NEW u \in Tasks, InLine(u)'
          PROVE  \E i \in 1 .. Len(line'[mutex'[u]]) : line'[mutex'[u]][i] = u
      <4>1. CASE u = t
        <5>1. mutex'[u] = m
          BY <1>3, <4>1 DEF RequestLock
        <5>2. Len(line[m]) + 1 \in 1 .. Len(line'[m])
          BY <2>1, <2>4, LenProperties
        <5> QED BY <4>1, <5>1, <5>2, <2>4
      <4>2. CASE u # t
        <5>1. InLine(u) /\ mutex'[u] = mutex[u]
          BY <1>3, <3>2, <4>2 DEF RequestLock, InLine, TypeOK
        <5>2. PICK i \in 1 .. Len(line[mutex[u]]) : line[mutex[u]][i] = u
          BY <5>1 DEF LineInv
        <5>3. CASE mutex[u] = m
          <6>1. i \in 1 .. Len(line'[m])
            BY <5>2, <5>3, <2>1, <2>4, LenProperties
          <6> QED BY <5>1, <5>2, <5>3, <6>1, <2>4
        <5>4. CASE mutex[u] # m
          <6>1. mutex[u] \in Tasks
            BY <5>1 DEF LineInv, InLine, Past
          <6> QED BY <5>1, <5>2, <5>4, <6>1, <2>2
        <5> QED BY <5>3, <5>4
      <4> QED BY <4>1, <4>2
    <3>3. ASSUME NEW u \in Tasks, Holding(u)'
          PROVE  Head(line'[mutex'[u]]) = u
      <4>1. Holding(u) /\ mutex'[u] = mutex[u]
        BY <1>3, <3>3 DEF RequestLock, Holding, TypeOK
      <4>2. Head(line[mutex[u]]) = u /\ mutex[u] \in Tasks
        BY <4>1 DEF LineInv, Holding, Past
      <4>3. PICK i \in 1 .. Len(line[mutex[u]]) : line[mutex[u]][i] = u
        BY <4>1 DEF LineInv, Holding, InLine
      <4>4. Head(line'[mutex[u]]) = Head(line[mutex[u]])
        <5>1. CASE mutex[u] = m
          BY <4>3, <5>1, <2>1, <2>2, <2>4, LenProperties
        <5>2. CASE mutex[u] # m
          BY <4>2, <5>2, <2>2
        <5> QED BY <5>1, <5>2
      <4> QED BY <4>1, <4>2, <4>4
    <3> QED BY <3>1, <3>2, <3>3 DEF LineInv
  <2> QED BY <2>3, <2>5
<1>4. ASSUME NEW t \in Tasks, Begin(t) PROVE TypeInv'
  <2>1. TypeOK'
    BY <1>4 DEF Begin, TypeOK, Stage
  <2>2. mutex' = mutex /\ line' = line
    BY <1>4 DEF Begin
  <2>3. \A u \in Tasks :
          /\ Past(u)' => Past(u)
          /\ InLine(u)' => InLine(u)
          /\ Holding(u)' => Holding(u) \/ Head(line[mutex[u]]) = u
    BY <1>4 DEF Begin, TypeOK, Past, InLine, Holding
  <2> QED BY <2>1, <2>2, <2>3, SameLines
<1>5. ASSUME NEW t \in Tasks, FinishTouch(t) PROVE TypeInv'
  <2>1. TypeOK'
    BY <1>5, QueueAssumption DEF FinishTouch, TypeOK, Stage
  <2>2. mutex' = mutex /\ line' = line
    BY <1>5 DEF FinishTouch
  <2>3. \A u \in Tasks :
          /\ Past(u)' => Past(u)
          /\ InLine(u)' => InLine(u)
          /\ Holding(u)' => Holding(u) \/ Head(line[mutex[u]]) = u
    BY <1>5 DEF FinishTouch, TypeOK, Past, InLine, Holding
  <2> QED BY <2>1, <2>2, <2>3, SameLines
<1>6. ASSUME NEW t \in Tasks, FinishSkip(t) PROVE TypeInv'
  <2>1. TypeOK'
    BY <1>6 DEF FinishSkip, TypeOK, Stage
  <2>2. mutex' = mutex /\ line' = line
    BY <1>6 DEF FinishSkip
  <2>3. \A u \in Tasks :
          /\ Past(u)' => Past(u)
          /\ InLine(u)' => InLine(u)
          /\ Holding(u)' => Holding(u) \/ Head(line[mutex[u]]) = u
    BY <1>6 DEF FinishSkip, TypeOK, Past, InLine, Holding
  <2> QED BY <2>1, <2>2, <2>3, SameLines
<1>7. ASSUME NEW t \in Tasks, Touch(t) PROVE TypeInv'
  <2>1. /\ DOMAIN chains' \subseteq Keys
        /\ \A k \in DOMAIN chains' : chains'[k] \in [mutex : Tasks, last : Times]
        /\ chains' = [k \in DOMAIN chains' |-> chains'[k]]
    <3>1. chains' \in AfterTouch(t)
      BY <1>7 DEF Touch
    <3> QED BY <3>1, TouchOutcome DEF TypeOK
  <2>2. /\ mapHolder' = NoTask
        /\ \A u \in Tasks : pc'[u] \notin {"map", "touch"}
        /\ pc' \in [Tasks -> Stage]
    BY <1>7 DEF Touch, TypeOK, Stage, MapGuardDropped
  <2>3. TypeOK'
    BY <1>7, <2>1, <2>2, QueueAssumption DEF Touch, TypeOK
  <2>4. LineInv'
    BY <1>7 DEF Touch, TypeOK, LineInv, Past, InLine, Holding
  <2> QED BY <2>3, <2>4
<1>8. ASSUME NEW t \in Tasks, Unlock(t) PROVE TypeInv'
  <2> DEFINE m == mutex[t]
  <2>1. m \in Tasks /\ line[m] \in Seq(Tasks) /\ Head(line[m]) = t
    BY <1>8 DEF Unlock, LineInv, Past, Holding, TypeOK
  <2>2. PICK j \in 1 .. Len(line[m]) : line[m][j] = t
    BY <1>8 DEF Unlock, LineInv, InLine
  <2>3. line[m] # <<>>
    BY <2>1, <2>2, EmptySeq
  <2>4. /\ Tail(line[m]) \in Seq(Tasks)
        /\ Len(Tail(line[m])) = Len(line[m]) - 1
        /\ line[m][1] = t
        /\ \A i \in 1 .. Len(Tail(line[m])) : Tail(line[m])[i] = line[m][i + 1]
    BY <2>1, <2>3, HeadTailProperties
  <2>5. /\ line'[m] = Tail(line[m])
        /\ line' \in [Tasks -> Seq(Tasks)]
        /\ \A x \in Tasks : x # m => line'[x] = line[x]
    BY <1>8, <2>1, <2>4 DEF Unlock, TypeOK, LineAfter
  <2>6. TypeOK'
    BY <1>8, <2>5 DEF Unlock, TypeOK, Stage
  <2>7. LineInv'
    <3>1. \A u \in Tasks : Past(u)' => mutex'[u] \in Tasks
      BY <1>8 DEF Unlock, LineInv, Past, TypeOK
    <3>2. ASSUME NEW u \in Tasks, InLine(u)'
          PROVE  /\ InLine(u) /\ u # t /\ mutex'[u] = mutex[u] /\ mutex[u] \in Tasks
                 /\ \E i \in 1 .. Len(line'[mutex'[u]]) : line'[mutex'[u]][i] = u
      <4>1. InLine(u) /\ u # t /\ mutex'[u] = mutex[u] /\ mutex[u] \in Tasks
        BY <1>8, <3>2 DEF Unlock, InLine, TypeOK, LineInv, Past
      <4>2. PICK i \in 1 .. Len(line[mutex[u]]) : line[mutex[u]][i] = u
        BY <4>1 DEF LineInv
      <4>3. CASE mutex[u] = m
        <5>1. i # 1 /\ i \in 1 .. Len(line[m])
          BY <4>1, <4>2, <4>3, <2>4
        <5>2. i - 1 \in 1 .. Len(line'[m]) /\ line'[m][i - 1] = line[m][i]
          BY <5>1, <2>1, <2>4, <2>5, LenProperties
        <5> QED BY <4>1, <4>2, <4>3, <5>2
      <4>4. CASE mutex[u] # m
        BY <4>1, <4>2, <4>4, <2>5
      <4> QED BY <4>1, <4>3, <4>4
    <3>3. ASSUME NEW u \in Tasks, Holding(u)'
          PROVE  Head(line'[mutex'[u]]) = u
      <4>1. InLine(u)' /\ Holding(u) /\ u # t
        BY <1>8, <3>3 DEF Unlock, InLine, Holding, TypeOK
      <4>2. mutex'[u] = mutex[u] /\ mutex[u] \in Tasks /\ Head(line[mutex[u]]) = u
        BY <3>2, <4>1 DEF LineInv
      <4>3. mutex[u] # m
        BY <4>1, <4>2, <2>1
      <4> QED BY <4>2, <4>3, <2>5
    <3> QED BY <3>1, <3>2, <3>3 DEF LineInv
  <2> QED BY <2>6, <2>7
<1>9. CASE Tick
  BY <1>9, QueueAssumption DEF Tick, TypeOK, LineInv, Past, InLine, Holding, Times
<1>10. CASE UNCHANGED vars
  BY <1>10 DEF vars, TypeOK, LineInv, Past, InLine, Holding
<1> QED BY <1>1, <1>2, <1>3, <1>4, <1>5, <1>6, <1>7, <1>8, <1>9, <1>10
        DEF Next, Step, Terminated

THEOREM TypeInvariant == Spec => []TypeInv
<1>1. Init => TypeInv BY InitTypeInv
<1>2. TypeInv /\ [Next]_vars => TypeInv' BY StepTypeInv
<1> QED BY <1>1, <1>2, PTL DEF Spec

(* Types hold, and the map lock is held exactly inside the two map blocks  *)
(* of enqueue.                                                             *)
THEOREM TypeCorrect == Spec => []TypeOK
BY TypeInvariant, PTL DEF TypeInv

-----------------------------------------------------------------------------
(* An oversized map always has a call that has yet to check the size: a    *)
(* call that skips the check does so because another holds the map, and    *)
(* that one is on its way to a check of its own, or at it.                 *)
CheckPending(t) == pc[t] \in {"map", "cloned", "waiting", "body", "touch"}

SizeInv == Cardinality(DOMAIN chains) > MaxChains => \E t \in Tasks : CheckPending(t)

LEMMA InitSizeInv == Init => SizeInv
<1>1. Init => DOMAIN chains = {}
  BY DEF Init
<1> QED BY <1>1, FS_EmptySet, QueueAssumption DEF SizeInv

LEMMA StepSizeInv ==
  ASSUME TypeInv, SizeInv, [Next]_vars
  PROVE  SizeInv'
<1> USE DEF TypeInv
<1>1. ASSUME NEW t \in Tasks, CheckPending(t)' PROVE SizeInv'
  BY <1>1 DEF SizeInv
<1>2. ASSUME NEW t \in Tasks, LockMap(t) PROVE SizeInv'
  BY <1>1, <1>2 DEF LockMap, CheckPending, TypeOK
<1>3. ASSUME NEW t \in Tasks, Lookup(t) PROVE SizeInv'
  BY <1>1, <1>3 DEF Lookup, CheckPending, TypeOK
<1>4. ASSUME NEW t \in Tasks, RequestLock(t) PROVE SizeInv'
  BY <1>1, <1>4 DEF RequestLock, CheckPending, TypeOK
<1>5. ASSUME NEW t \in Tasks, Begin(t) PROVE SizeInv'
  BY <1>1, <1>5 DEF Begin, CheckPending, TypeOK
<1>6. ASSUME NEW t \in Tasks, FinishTouch(t) PROVE SizeInv'
  BY <1>1, <1>6 DEF FinishTouch, CheckPending, TypeOK
<1>7. ASSUME NEW t \in Tasks, FinishSkip(t) PROVE SizeInv'
  <2>1. PICK u \in Tasks : u = mapHolder /\ pc[u] \in {"map", "touch"}
    BY <1>7 DEF FinishSkip, TypeOK
  <2>2. u # t
    BY <1>7, <2>1 DEF FinishSkip
  <2>3. CheckPending(u)'
    BY <1>7, <2>1, <2>2 DEF FinishSkip, CheckPending, TypeOK
  <2> QED BY <1>1, <2>3
<1>8. ASSUME NEW t \in Tasks, Touch(t) PROVE SizeInv'
  <2>1. chains' \in AfterTouch(t)
    BY <1>8 DEF Touch
  <2>2. Cardinality(DOMAIN chains') <= MaxChains /\ DOMAIN chains' \subseteq DOMAIN chains
    BY <2>1, TouchOutcome
  <2>3. Cardinality(DOMAIN chains') \in Nat
    BY <2>2, QueueAssumption, FS_Subset, FS_CardinalityType DEF TypeOK
  <2> QED BY <2>2, <2>3, QueueAssumption DEF SizeInv
<1>9. ASSUME NEW t \in Tasks, Unlock(t) PROVE SizeInv'
  BY <1>9 DEF Unlock, SizeInv, CheckPending, TypeOK
<1>10. CASE Tick
  BY <1>10 DEF Tick, SizeInv, CheckPending
<1>11. CASE UNCHANGED vars
  BY <1>11 DEF vars, SizeInv, CheckPending
<1> QED BY <1>2, <1>3, <1>4, <1>5, <1>6, <1>7, <1>8, <1>9, <1>10, <1>11
        DEF Next, Step, Terminated

(* The map is within MAX_CHAINS whenever no enqueue call is under way,     *)
(* however the skipped checks of evict fall.                               *)
THEOREM QuiescentlyBounded == Spec => []QuiescentBounded
<1>1. Init => SizeInv BY InitSizeInv
<1>2. TypeInv /\ SizeInv /\ [Next]_vars => SizeInv' BY StepSizeInv
<1>3. TypeInv /\ SizeInv => QuiescentBounded
  <2> SUFFICES ASSUME TypeInv, SizeInv, Quiescent
               PROVE  Cardinality(DOMAIN chains) <= MaxChains
    BY DEF QuiescentBounded
  <2>1. ~(\E t \in Tasks : CheckPending(t))
    BY DEF Quiescent, CheckPending
  <2>2. Cardinality(DOMAIN chains) \in Nat
    BY QueueAssumption, FS_Subset, FS_CardinalityType DEF TypeInv, TypeOK
  <2> QED BY <2>1, <2>2, QueueAssumption DEF SizeInv
<1> QED BY <1>1, <1>2, <1>3, TypeInvariant, PTL DEF Spec

-----------------------------------------------------------------------------
(* While the keys fit nothing is evicted: a call past the map block holds the  *)
(* mutex that its key's entry still names, every mutex belongs to the key  *)
(* of the call that created it, and the line of a mutex not yet created is *)
(* empty.                                                                  *)
ChainInv ==
  /\ \A t \in Tasks : Past(t) => key[t] \in DOMAIN chains /\ chains[key[t]].mutex = mutex[t]
  /\ \A k \in DOMAIN chains : key[chains[k].mutex] = k /\ Past(chains[k].mutex)
  /\ \A m \in Tasks : ~Past(m) => line[m] = <<>>

LEMMA InitChainInv == Init => ChainInv
BY DEF Init, ChainInv, Past

LEMMA NoEviction ==
  ASSUME KeysFit, TypeOK, ChainInv, NEW t \in Tasks, NEW c \in AfterTouch(t)
  PROVE  DOMAIN c = DOMAIN chains /\ \A k \in DOMAIN c : c[k].mutex = chains[k].mutex
<1>1. KeysInUse \subseteq Keys
  BY DEF KeysInUse, TypeOK
<1>2. IsFiniteSet(KeysInUse)
  BY <1>1, QueueAssumption, FS_Subset
<1>3. DOMAIN chains \subseteq KeysInUse
  BY DEF ChainInv, KeysInUse, TypeOK
<1>4. /\ Cardinality(DOMAIN chains) <= Cardinality(KeysInUse)
      /\ Cardinality(DOMAIN chains) \in Nat /\ Cardinality(KeysInUse) \in Nat
  BY <1>2, <1>3, FS_Subset, FS_CardinalityType
<1>5. Cardinality(DOMAIN chains) <= MaxChains
  BY <1>4, QueueAssumption DEF KeysFit
<1> QED BY <1>5, TouchOutcome

LEMMA StepChainInv ==
  ASSUME KeysFit, TypeInv, ChainInv, [Next]_vars
  PROVE  ChainInv'
<1> USE DEF TypeInv
<1>1. ASSUME key' = key, mutex' = mutex,
             DOMAIN chains' = DOMAIN chains,
             \A k \in DOMAIN chains : chains'[k].mutex = chains[k].mutex,
             \A u \in Tasks : Past(u)' <=> Past(u),
             \A m \in Tasks : ~Past(m) => line'[m] = line[m]
      PROVE  ChainInv'
  BY <1>1 DEF ChainInv, TypeOK
<1>2. ASSUME NEW t \in Tasks, LockMap(t) PROVE ChainInv'
  BY <1>1, <1>2 DEF LockMap, TypeOK, Past
<1>3. ASSUME NEW t \in Tasks, Lookup(t) PROVE ChainInv'
  <2>1. /\ key' = key /\ line' = line
        /\ mutex'[t] = EntryMutex(t)
        /\ \A u \in Tasks : u # t => mutex'[u] = mutex[u] /\ (Past(u)' <=> Past(u))
        /\ ~Past(t) /\ Past(t)'
    BY <1>3 DEF Lookup, TypeOK, Past
  <2>2. /\ DOMAIN chains' = DOMAIN chains \cup {key[t]}
        /\ chains'[key[t]].mutex = EntryMutex(t)
        /\ \A k \in DOMAIN chains : chains'[k].mutex = chains[k].mutex
    BY <1>3 DEF Lookup, Put, EntryMutex
  <2>3. PICK e \in Tasks : e = EntryMutex(t) /\ key[e] = key[t] /\ (e = t \/ Past(e))
    BY DEF EntryMutex, ChainInv, TypeOK
  <2>4. \A u \in Tasks : Past(u)' =>
           key'[u] \in DOMAIN chains' /\ chains'[key'[u]].mutex = mutex'[u]
    BY <2>1, <2>2 DEF ChainInv, TypeOK
  <2>5. \A k \in DOMAIN chains' : key'[chains'[k].mutex] = k /\ Past(chains[k].mutex)'
    <3>1. ASSUME NEW k \in DOMAIN chains', NEW m \in Tasks, m = chains'[k].mutex
          PROVE  key[m] = k /\ Past(m)'
      <4>1. CASE k = key[t]
        BY <2>1, <2>2, <2>3, <3>1, <4>1
      <4>2. CASE k # key[t]
        <5>1. k \in DOMAIN chains /\ m = chains[k].mutex
          BY <2>2, <3>1, <4>2
        <5>2. key[m] = k /\ Past(m)
          BY <5>1 DEF ChainInv
        <5> QED BY <2>1, <5>2
      <4> QED BY <4>1, <4>2
    <3>2. \A k \in DOMAIN chains' : chains'[k].mutex \in Tasks
      BY <2>2, <2>3 DEF TypeOK
    <3> QED BY <2>1, <3>1, <3>2 DEF Past
  <2>6. \A m \in Tasks : ~Past(m)' => line'[m] = <<>>
    BY <2>1 DEF ChainInv
  <2> QED BY <2>4, <2>5, <2>6 DEF ChainInv
<1>4. ASSUME NEW t \in Tasks, RequestLock(t) PROVE ChainInv'
  <2>1. Past(t) /\ Past(mutex[t])
    BY <1>4 DEF RequestLock, ChainInv, Past
  <2>2. \A m \in Tasks : ~Past(m) => line'[m] = line[m]
    BY <1>4, <2>1 DEF RequestLock, TypeOK
  <2> QED BY <1>1, <1>4, <2>2 DEF RequestLock, TypeOK, Past
<1>5. ASSUME NEW t \in Tasks, Begin(t) PROVE ChainInv'
  BY <1>1, <1>5 DEF Begin, TypeOK, Past
<1>6. ASSUME NEW t \in Tasks, FinishTouch(t) PROVE ChainInv'
  BY <1>1, <1>6 DEF FinishTouch, TypeOK, Past
<1>7. ASSUME NEW t \in Tasks, FinishSkip(t) PROVE ChainInv'
  BY <1>1, <1>7 DEF FinishSkip, TypeOK, Past
<1>8. ASSUME NEW t \in Tasks, Touch(t) PROVE ChainInv'
  <2>1. chains' \in AfterTouch(t)
    BY <1>8 DEF Touch
  <2>2. /\ DOMAIN chains' = DOMAIN chains
        /\ \A k \in DOMAIN chains : chains'[k].mutex = chains[k].mutex
    BY <2>1, NoEviction
  <2>3. \A u \in Tasks : Past(u)' <=> Past(u)
    BY <1>8 DEF Touch, TypeOK, Past
  <2> QED BY <1>1, <1>8, <2>2, <2>3 DEF Touch
<1>9. ASSUME NEW t \in Tasks, Unlock(t) PROVE ChainInv'
  <2>1. Past(t) /\ Past(mutex[t])
    BY <1>9 DEF Unlock, ChainInv, Past
  <2>2. \A m \in Tasks : ~Past(m) => line'[m] = line[m]
    BY <1>9, <2>1 DEF Unlock, TypeOK
  <2> QED BY <1>1, <1>9, <2>2 DEF Unlock, TypeOK, Past
<1>10. CASE Tick
  BY <1>10, <1>1 DEF Tick, Past
<1>11. CASE UNCHANGED vars
  BY <1>11, <1>1 DEF vars, Past
<1> QED BY <1>2, <1>3, <1>4, <1>5, <1>6, <1>7, <1>8, <1>9, <1>10, <1>11
        DEF Next, Step, Terminated

LEMMA KeysFixed == ASSUME [Next]_vars PROVE KeysFit' <=> KeysFit
<1>1. key' = key
  BY DEF Next, Step, Terminated, Tick, LockMap, Lookup, RequestLock, Begin, FinishTouch,
         FinishSkip, Touch, Unlock, vars
<1> QED BY <1>1 DEF KeysFit, KeysInUse

LEMMA ChainInvariant == Spec => [](KeysFit => ChainInv)
<1>1. Init => (KeysFit => ChainInv) BY InitChainInv
<1>2. TypeInv /\ (KeysFit => ChainInv) /\ [Next]_vars => (KeysFit => ChainInv)'
  BY StepChainInv, KeysFixed
<1> QED BY <1>1, <1>2, TypeInvariant, PTL DEF Spec

(* While the keys in use fit in the map, no session has two tasks under    *)
(* way: the mutex a call waits for is its key's only one.                  *)
THEOREM SerialBelowCapacity == Spec => []SerialWhileFitting
<1>1. TypeInv /\ (KeysFit => ChainInv) => SerialWhileFitting
  BY DEF TypeInv, LineInv, ChainInv, SerialWhileFitting, Serial, Past, Holding
<1> QED BY <1>1, TypeInvariant, ChainInvariant, PTL

-----------------------------------------------------------------------------
(* The line of a key is the line of the mutex all its calls have.          *)
LEMMA LineOfKey ==
  ASSUME TypeInv, ChainInv, NEW t \in Tasks, Past(t)
  PROVE  AbsLine[key[t]] = line[mutex[t]]
  BY DEF TypeInv, TypeOK, ChainInv, AbsLine

(* Steps that neither move a call to another stage nor a line stutter.     *)
LEMMA Stutters ==
  ASSUME key' = key, \A t \in Tasks : AbsStage'[t] = AbsStage[t],
         \A k \in Keys : AbsLine'[k] = AbsLine[k]
  PROVE  UNCHANGED Abstract!lineVars
<1>1. AbsStage' = AbsStage
  BY DEF AbsStage
<1>2. AbsLine' = AbsLine
  BY DEF AbsLine
<1> QED BY <1>1, <1>2 DEF Abstract!lineVars

LEMMA StepLine ==
  ASSUME TypeInv, ChainInv, [Next]_vars, KeysFit
  PROVE  Abstract!LineNext \/ UNCHANGED Abstract!lineVars
<1> USE DEF TypeInv
<1> DEFINE Mapped == Abstract!LineNext \/ UNCHANGED Abstract!lineVars
<1>1. ASSUME NEW t \in Tasks, LockMap(t) PROVE Mapped
  <2>1. \A u \in Tasks : AbsStage'[u] = AbsStage[u]
    BY <1>1 DEF LockMap, TypeOK, AbsStage
  <2> QED BY <1>1, <2>1, Stutters DEF LockMap, AbsLine
<1>2. ASSUME NEW t \in Tasks, Lookup(t) PROVE Mapped
  <2>1. \A u \in Tasks : AbsStage'[u] = AbsStage[u]
    BY <1>2 DEF Lookup, TypeOK, AbsStage
  <2>2. /\ DOMAIN chains' = DOMAIN chains \cup {key[t]} /\ line' = line /\ key' = key
        /\ chains'[key[t]].mutex = EntryMutex(t)
        /\ \A k \in DOMAIN chains : chains'[k].mutex = chains[k].mutex
    BY <1>2 DEF Lookup, Put, EntryMutex
  <2>3. key[t] \notin DOMAIN chains => EntryMutex(t) = t /\ line[t] = <<>>
    BY <1>2 DEF Lookup, EntryMutex, ChainInv, Past
  <2>4. \A k \in Keys : AbsLine'[k] = AbsLine[k]
    BY <2>2, <2>3 DEF AbsLine
  <2> QED BY <2>1, <2>2, <2>4, Stutters
<1>3. ASSUME NEW t \in Tasks, RequestLock(t) PROVE Mapped
  <2>1. /\ AbsStage[t] = "idle" /\ AbsStage' = [AbsStage EXCEPT ![t] = "queued"]
        /\ key' = key /\ chains' = chains
    BY <1>3 DEF RequestLock, TypeOK, AbsStage
  <2>2. Past(t) /\ key[t] \in DOMAIN chains /\ chains[key[t]].mutex = mutex[t] /\ mutex[t] \in Tasks
    BY <1>3 DEF RequestLock, Past, ChainInv, LineInv
  <2>3. line'[mutex[t]] = Append(line[mutex[t]], t)
        /\ \A m \in Tasks \ {mutex[t]} : line'[m] = line[m]
    BY <1>3, <2>2 DEF RequestLock, JoinedLine, TypeOK
  <2>4. \A k \in DOMAIN chains : k # key[t] => chains[k].mutex \in Tasks \ {mutex[t]}
    BY <2>2 DEF ChainInv, TypeOK
  <2>5. AbsLine' = [AbsLine EXCEPT ![key[t]] = Append(@, t)]
    BY <2>1, <2>2, <2>3, <2>4 DEF AbsLine
  <2>6. Abstract!Join(t)
    BY <2>1, <2>5 DEF Abstract!Join
  <2> QED BY <2>6 DEF Abstract!LineNext
<1>4. ASSUME NEW t \in Tasks, Begin(t) PROVE Mapped
  <2>1. /\ AbsStage[t] = "queued" /\ AbsStage' = [AbsStage EXCEPT ![t] = "running"]
        /\ key' = key /\ AbsLine' = AbsLine
    BY <1>4 DEF Begin, TypeOK, AbsStage, AbsLine
  <2>2. Past(t) /\ InLine(t) /\ mutex[t] \in Tasks
    BY <1>4 DEF Begin, Past, InLine, LineInv
  <2>3. line[mutex[t]] # <<>> /\ Head(line[mutex[t]]) = t
    BY <1>4, <2>2 DEF Begin, LineInv
  <2>4. Abstract!First(t)
    BY <2>2, <2>3, LineOfKey DEF Abstract!First
  <2>5. Abstract!Start(t)
    BY <2>1, <2>4 DEF Abstract!Start
  <2> QED BY <2>5 DEF Abstract!LineNext
<1>5. ASSUME NEW t \in Tasks, FinishTouch(t) \/ FinishSkip(t) PROVE Mapped
  <2>1. \A u \in Tasks : AbsStage'[u] = AbsStage[u]
    BY <1>5 DEF FinishTouch, FinishSkip, TypeOK, AbsStage
  <2> QED BY <1>5, <2>1, Stutters DEF FinishTouch, FinishSkip, AbsLine
<1>6. ASSUME NEW t \in Tasks, Touch(t) PROVE Mapped
  <2>1. \A u \in Tasks : AbsStage'[u] = AbsStage[u]
    BY <1>6 DEF Touch, TypeOK, AbsStage
  <2>2. chains' \in AfterTouch(t)
    BY <1>6 DEF Touch
  <2>3. \A k \in Keys : AbsLine'[k] = AbsLine[k]
    BY <1>6, <2>2, NoEviction DEF Touch, AbsLine
  <2> QED BY <1>6, <2>1, <2>3, Stutters DEF Touch
<1>7. ASSUME NEW t \in Tasks, Unlock(t) PROVE Mapped
  <2>1. /\ AbsStage[t] = "running" /\ AbsStage' = [AbsStage EXCEPT ![t] = "done"]
        /\ key' = key /\ chains' = chains
    BY <1>7 DEF Unlock, TypeOK, AbsStage
  <2>2. /\ Past(t) /\ InLine(t) /\ Holding(t) /\ mutex[t] \in Tasks
        /\ key[t] \in DOMAIN chains /\ chains[key[t]].mutex = mutex[t]
    BY <1>7 DEF Unlock, Past, InLine, Holding, ChainInv, LineInv
  <2>3. line[mutex[t]] # <<>> /\ Head(line[mutex[t]]) = t
    BY <2>2 DEF LineInv
  <2>4. Abstract!First(t)
    BY <2>2, <2>3, LineOfKey DEF Abstract!First
  <2>5. line'[mutex[t]] = Tail(line[mutex[t]])
        /\ \A m \in Tasks \ {mutex[t]} : line'[m] = line[m]
    BY <1>7, <2>2 DEF Unlock, LineAfter, TypeOK
  <2>6. \A k \in DOMAIN chains : k # key[t] => chains[k].mutex \in Tasks \ {mutex[t]}
    BY <2>2 DEF ChainInv, TypeOK
  <2>7. AbsLine' = [AbsLine EXCEPT ![key[t]] = Tail(@)]
    BY <2>1, <2>2, <2>5, <2>6 DEF AbsLine
  <2>8. Abstract!Leave(t)
    BY <2>1, <2>4, <2>7 DEF Abstract!Leave
  <2> QED BY <2>8 DEF Abstract!LineNext
<1>8. CASE Tick \/ UNCHANGED vars
  BY <1>8, Stutters DEF Tick, vars, AbsStage, AbsLine
<1> QED BY <1>1, <1>2, <1>3, <1>4, <1>5, <1>6, <1>7, <1>8 DEF Next, Step, Terminated

(* queue.rs keeps what SerialLine promises, but for progress: per key the  *)
(* calls run one at a time and in the order they asked, and the map's      *)
(* bookkeeping is invisible.  Beyond MAX_CHAINS keys nothing is promised.  *)
THEOREM StaysInLine == Spec => Abstract!LineSafety
<1>1. Init => Abstract!LineInit
  BY DEF Init, Abstract!LineInit, AbsStage, AbsLine
<1>2. TypeInv /\ (KeysFit => ChainInv) /\ [Next]_vars => [Abstract!LineNext]_(Abstract!lineVars)
  <2> SUFFICES ASSUME TypeInv, KeysFit => ChainInv, [Next]_vars
               PROVE  Abstract!LineNext \/ UNCHANGED Abstract!lineVars
    OBVIOUS
  <2>1. CASE KeysFit
    BY <2>1, StepLine
  <2>2. CASE ~KeysFit
    <3>1. key' = key
      BY DEF Next, Step, Terminated, Tick, LockMap, Lookup, RequestLock, Begin, FinishTouch,
             FinishSkip, Touch, Unlock, vars
    <3>2. Abstract!Overflow
      <4>1. Abstract!KeysFit <=> KeysFit
        BY DEF Abstract!KeysFit, KeysFit, KeysInUse, Abstract!Cardinality, Cardinality
      <4> QED BY <2>2, <3>1, <4>1 DEF Abstract!Overflow
    <3> QED BY <3>2 DEF Abstract!LineNext
  <2> QED BY <2>1, <2>2
<1> QED BY <1>1, <1>2, TypeInvariant, ChainInvariant, PTL DEF Spec, Abstract!LineSafety
-----------------------------------------------------------------------------
(* An eviction has an outcome, whatever the times in the map: as many of   *)
(* the latest entries as are to stay can be chosen, one after the other.   *)
LEMMA Smallest ==
  ASSUME NEW T, T \subseteq Nat, T # {}
  PROVE  \E x \in T : \A y \in T : x <= y
<1>1. PICK x \in T : \A y \in T : ~(<<y, x>> \in OpToRel(<, Nat))
  BY NatLessThanWellFounded, WFMin
<1>2. \A y \in T : <<y, x>> \in Nat \X Nat
  OBVIOUS
<1>3. \A y \in T : ~(y < x)
  BY <1>1, <1>2 DEF OpToRel
<1> QED BY <1>3

LEMMA LatestExists ==
  ASSUME NEW D, D # {}, NEW ts, \A d \in D : ts[d] \in Times
  PROVE  \E m \in D : \A d \in D : ts[d] <= ts[m]
<1> DEFINE T == {MaxTime - ts[d] : d \in D}
<1>1. T \subseteq Nat /\ T # {}
  BY QueueAssumption DEF Times
<1>2. PICK x \in T : \A y \in T : x <= y
  BY <1>1, Smallest
<1>3. PICK m \in D : x = MaxTime - ts[m]
  BY <1>2
<1>4. \A d \in D : ts[d] \in Nat /\ ts[m] \in Nat /\ MaxTime - ts[m] <= MaxTime - ts[d]
  BY <1>2, <1>3 DEF Times
<1>5. \A d \in D : ts[d] <= ts[m]
  BY <1>4, QueueAssumption
<1> QED BY <1>5

LEMMA CutPossible ==
  ASSUME NEW D, IsFiniteSet(D), NEW ts, \A d \in D : ts[d] \in Times, NEW keep \in Nat
  PROVE  LatestCuts(D, ts, keep) # {}
<1> DEFINE Cut(S, k) == /\ S \in SUBSET D /\ Cardinality(S) = k
                        /\ \A i \in S, j \in D \ S : ts[j] <= ts[i]
           T == {k \in Nat : k <= Cardinality(D) /\ ~\E S : Cut(S, k)}
<1>0. Cardinality(D) \in Nat
  BY FS_CardinalityType
<1>1. T = {}
  <2> SUFFICES ASSUME T # {} PROVE FALSE
    OBVIOUS
  <2>1. PICK k \in T : \A n \in T : k <= n
    BY Smallest
  <2>2. CASE k = 0
    <3>1. Cut({}, 0)
      BY FS_EmptySet
    <3> QED BY <2>1, <2>2, <3>1
  <2>3. CASE k # 0
    <3>1. k - 1 \in Nat /\ k - 1 <= Cardinality(D) /\ k - 1 \notin T /\ k \in Nat /\ k <= Cardinality(D)
      BY <1>0, <2>1, <2>3
    <3>2. PICK S : Cut(S, k - 1)
      BY <3>1
    <3>3. IsFiniteSet(S) /\ S # D /\ D \ S # {} /\ IsFiniteSet(D \ S)
      BY <1>0, <3>1, <3>2, FS_Subset
    <3>4. PICK m \in D \ S : \A d \in D \ S : ts[d] <= ts[m]
      BY <3>3, LatestExists
    <3>5. IsFiniteSet(S \cup {m}) /\ Cardinality(S \cup {m}) = k
      BY <3>1, <3>2, <3>3, FS_AddElement
    <3>6. \A i \in S \cup {m}, j \in D \ (S \cup {m}) : ts[j] <= ts[i]
      BY <3>2, <3>4
    <3>7. Cut(S \cup {m}, k)
      BY <3>2, <3>5, <3>6
    <3> QED BY <2>1, <3>7
  <2> QED BY <2>2, <2>3
<1>2. CASE Cardinality(D) <= keep
  BY <1>2 DEF LatestCuts
<1>3. CASE ~(Cardinality(D) <= keep)
  <2>1. keep <= Cardinality(D)
    BY <1>0, <1>3
  <2>2. PICK S : Cut(S, keep)
    BY <1>1, <2>1
  <2> QED BY <1>3, <2>2 DEF LatestCuts
<1> QED BY <1>2, <1>3

LEMMA TouchPossible ==
  ASSUME TypeOK, NEW t \in Tasks
  PROVE  AfterTouch(t) # {}
<1> DEFINE c == Touched(t)
           Fresh == {k \in DOMAIN c : now - c[k].last < IdleSecs}
           lastUsed == [k \in Fresh |-> c[k].last]
<1>1. DOMAIN c \subseteq Keys /\ \A k \in DOMAIN c : c[k].last \in Times
  BY DEF TypeOK, Touched, Put
<1>2. IsFiniteSet(Fresh) /\ \A k \in Fresh : lastUsed[k] \in Times
  BY <1>1, QueueAssumption, FS_Subset
<1>3. PICK S : S \in LatestCuts(Fresh, lastUsed, EvictThreshold)
  <2> HIDE DEF Fresh, lastUsed
  <2> QED BY <1>2, CutPossible, QueueAssumption
<1>4. [k \in S |-> c[k]] \in EvictOutcomes(c)
  BY <1>3 DEF EvictOutcomes
<1> QED BY <1>4 DEF AfterTouch

(* The calls in the line of a mutex are those that wait for it or hold it, *)
(* each once.                                                              *)
Lined == {"waiting", "body", "touch", "unlock"}

LineOfMutex ==
  \A m \in Tasks : \A i \in DOMAIN line[m] :
    /\ mutex[line[m][i]] = m /\ pc[line[m][i]] \in Lined
    /\ \A j \in DOMAIN line[m] : line[m][i] = line[m][j] => i = j

LEMMA StepLineOfMutex ==
  ASSUME TypeInv, LineOfMutex, NEW t \in Tasks, Step(t)
  PROVE  LineOfMutex'
<1> USE DEF TypeInv
<1>0. /\ pc \in [Tasks -> Stage] /\ mutex \in [Tasks -> Tasks \cup {NoTask}]
      /\ line \in [Tasks -> Seq(Tasks)]
  BY DEF TypeOK
<1>1. CASE RequestLock(t)
  <2> DEFINE l == line[mutex[t]]
  <2>1. /\ line' = [line EXCEPT ![mutex[t]] = Append(l, t)] /\ mutex' = mutex
        /\ pc[t] = "cloned" /\ pc' = [pc EXCEPT ![t] = "waiting"]
    BY <1>1 DEF RequestLock, JoinedLine
  <2>2. mutex[t] \in Tasks /\ l \in Seq(Tasks)
    BY <1>0, <2>1 DEF LineInv, Past
  <2>3. \A m \in Tasks : \A i \in DOMAIN line[m] : line[m][i] # t
    BY <2>1 DEF LineOfMutex, Lined
  <2>4. /\ Len(l) \in Nat /\ DOMAIN l = 1 .. Len(l) /\ DOMAIN Append(l, t) = 1 .. Len(l) + 1
        /\ Append(l, t)[Len(l) + 1] = t /\ \A i \in 1 .. Len(l) : Append(l, t)[i] = l[i]
    BY <2>2, AppendProperties
  <2>5. \A m \in Tasks : line'[m] = IF m = mutex[t] THEN Append(l, t) ELSE line[m]
    BY <1>0, <2>1
  <2>6. \A u \in Tasks : pc'[u] \in Lined <=> pc[u] \in Lined \/ u = t
    BY <1>0, <2>1 DEF Lined
  <2> DEFINE a == Append(l, t)
  <2> HIDE DEF a, l
  <2>7. ASSUME NEW m \in Tasks, NEW i \in DOMAIN line'[m]
        PROVE  /\ mutex'[line'[m][i]] = m /\ pc'[line'[m][i]] \in Lined
               /\ \A j \in DOMAIN line'[m] : line'[m][i] = line'[m][j] => i = j
    <3>1. CASE m # mutex[t]
      <4>1. line'[m] = line[m] /\ line[m][i] \in Tasks
        BY <1>0, <2>5, <2>7, <3>1
      <4>2. mutex[line[m][i]] = m /\ pc[line[m][i]] \in Lined
        BY <2>7, <4>1 DEF LineOfMutex
      <4>3. \A j \in DOMAIN line'[m] : line'[m][i] = line'[m][j] => i = j
        BY <2>7, <4>1 DEF LineOfMutex
      <4> QED BY <2>1, <2>6, <4>1, <4>2, <4>3
    <3>2. CASE m = mutex[t]
      <4>1. line'[m] = a
        BY <2>2, <2>5, <3>2 DEF a
      <4>2. \A j \in 1 .. Len(l) : l[j] # t /\ mutex[l[j]] = m /\ pc[l[j]] \in Lined /\ l[j] \in Tasks
        BY <2>2, <2>3, <2>4, <3>2 DEF LineOfMutex, l
      <4>3. \A j, n \in 1 .. Len(l) : l[j] = l[n] => j = n
        BY <2>2, <2>4, <3>2 DEF LineOfMutex, l
      <4>4. DOMAIN a = 1 .. Len(l) + 1 /\ a[Len(l) + 1] = t /\ \A j \in 1 .. Len(l) : a[j] = l[j]
        BY <2>4 DEF a
      <4>5. mutex'[a[i]] = m /\ pc'[a[i]] \in Lined
        <5>1. a[i] = t \/ (i \in 1 .. Len(l) /\ a[i] = l[i])
          BY <2>4, <2>7, <4>1, <4>4
        <5> QED BY <2>1, <2>6, <3>2, <4>2, <5>1
      <4>6. \A j \in DOMAIN a : a[i] = a[j] => i = j
        BY <2>4, <2>7, <4>1, <4>2, <4>3, <4>4
      <4> QED BY <4>1, <4>5, <4>6
    <3> QED BY <3>1, <3>2
  <2> QED BY <2>7 DEF LineOfMutex
<1>2. CASE Unlock(t)
  <2> DEFINE l == line[mutex[t]]
             b == Tail(l)
  <2>1. /\ line' = [line EXCEPT ![mutex[t]] = b] /\ mutex' = mutex
        /\ pc[t] = "unlock" /\ pc' = [pc EXCEPT ![t] = "done"]
    BY <1>2 DEF Unlock, LineAfter
  <2>2. mutex[t] \in Tasks /\ l \in Seq(Tasks)
    BY <1>0, <2>1 DEF LineInv, Past
  <2>3. Len(l) \in Nat \ {0} /\ l # <<>> /\ l[1] = t
    <3>1. Head(l) = t /\ \E i \in 1 .. Len(l) : l[i] = t
      BY <2>1 DEF LineInv, Holding, InLine
    <3> HIDE DEF l
    <3> QED BY <2>2, <3>1
  <2>4. /\ DOMAIN l = 1 .. Len(l) /\ DOMAIN b = 1 .. Len(l) - 1
        /\ \A i \in 1 .. Len(l) - 1 : b[i] = l[i + 1]
    <3> HIDE DEF l
    <3>1. Len(b) = Len(l) - 1 /\ b \in Seq(Tasks)
      BY <2>2, <2>3, HeadTailProperties
    <3>2. \A i \in 1 .. Len(l) - 1 : b[i] = l[i + 1]
      BY <2>2, <2>3
    <3> QED BY <2>2, <3>1, <3>2
  <2>5. \A m \in Tasks : line'[m] = IF m = mutex[t] THEN b ELSE line[m]
    BY <1>0, <2>1
  <2>6. \A u \in Tasks : pc'[u] \in Lined <=> pc[u] \in Lined /\ u # t
    BY <1>0, <2>1 DEF Lined
  <2> HIDE DEF b, l
  <2>7. ASSUME NEW m \in Tasks, NEW i \in DOMAIN line'[m]
        PROVE  /\ mutex'[line'[m][i]] = m /\ pc'[line'[m][i]] \in Lined
               /\ \A j \in DOMAIN line'[m] : line'[m][i] = line'[m][j] => i = j
    <3>1. CASE m # mutex[t]
      <4>1. line'[m] = line[m] /\ line[m][i] \in Tasks
        BY <1>0, <2>5, <2>7, <3>1
      <4>2. mutex[line[m][i]] = m /\ pc[line[m][i]] \in Lined /\ line[m][i] # t
        BY <2>7, <3>1, <4>1 DEF LineOfMutex
      <4> QED BY <2>1, <2>6, <2>7, <4>1, <4>2 DEF LineOfMutex
    <3>2. CASE m = mutex[t]
      <4>1. line'[m] = b
        BY <2>2, <2>5, <3>2
      <4>2. \A j \in 1 .. Len(l) : mutex[l[j]] = m /\ pc[l[j]] \in Lined /\ l[j] \in Tasks
        BY <2>2, <2>4, <3>2 DEF LineOfMutex, l
      <4>3. \A j, n \in 1 .. Len(l) : l[j] = l[n] => j = n
        BY <2>2, <2>4, <3>2 DEF LineOfMutex, l
      <4>4. i \in 1 .. Len(l) - 1 /\ i + 1 \in 1 .. Len(l) /\ 1 \in 1 .. Len(l) /\ i + 1 # 1 /\ b[i] = l[i + 1]
        BY <2>3, <2>4, <2>7, <4>1
      <4>5. b[i] # t
        BY <2>3, <4>3, <4>4
      <4>6. mutex'[b[i]] = m /\ pc'[b[i]] \in Lined
        BY <2>1, <2>6, <4>2, <4>4, <4>5
      <4>7. ASSUME NEW j \in DOMAIN b, b[i] = b[j] PROVE i = j
        <5>1. j \in 1 .. Len(l) - 1 /\ j + 1 \in 1 .. Len(l) /\ b[j] = l[j + 1]
          BY <2>3, <2>4
        <5>2. i + 1 = j + 1
          BY <4>3, <4>4, <4>7, <5>1
        <5> QED BY <2>3, <4>4, <5>1, <5>2
      <4> QED BY <4>1, <4>6, <4>7
    <3> QED BY <3>1, <3>2
  <2> QED BY <2>7 DEF LineOfMutex
<1>3. CASE /\ line' = line
           /\ \A m \in Tasks : \A i \in DOMAIN line[m] :
                mutex'[line[m][i]] = mutex[line[m][i]] /\ pc'[line[m][i]] \in Lined
  BY <1>3 DEF LineOfMutex
<1>4. CASE Lookup(t) \/ LockMap(t)
  <2>1. line' = line /\ pc[t] \in {"new", "map"}
        /\ \A u \in Tasks : u # t => mutex'[u] = mutex[u] /\ pc'[u] = pc[u]
    BY <1>0, <1>4 DEF Lookup, LockMap
  <2>2. \A m \in Tasks : \A i \in DOMAIN line[m] : line[m][i] \in Tasks
    BY <1>0
  <2>3. \A m \in Tasks : \A i \in DOMAIN line[m] : line[m][i] # t /\ pc[line[m][i]] \in Lined
    BY <2>1 DEF LineOfMutex, Lined
  <2> QED BY <1>3, <2>1, <2>2, <2>3 DEF Lined
<1>5. CASE Begin(t) \/ FinishTouch(t) \/ FinishSkip(t) \/ Touch(t)
  <2>1. line' = line /\ mutex' = mutex /\ \A u \in Tasks : pc[u] \in Lined => pc'[u] \in Lined
    BY <1>0, <1>5 DEF Begin, FinishTouch, FinishSkip, Touch, Lined
  <2>2. \A m \in Tasks : \A i \in DOMAIN line[m] : line[m][i] \in Tasks
    BY <1>0
  <2>3. \A m \in Tasks : \A i \in DOMAIN line[m] : pc[line[m][i]] \in Lined
    BY DEF LineOfMutex
  <2> QED BY <1>3, <2>1, <2>2, <2>3
<1> QED BY <1>1, <1>2, <1>4, <1>5 DEF Step

(* A call may make its next step.                                          *)
MayMove(t) ==
  \/ pc[t] \in {"map", "cloned", "body", "unlock"}
  \/ pc[t] = "new" /\ mapHolder = NoTask
  \/ pc[t] = "waiting" /\ Head(line[mutex[t]]) = t
  \/ pc[t] = "touch" /\ AfterTouch(t) # {}

(* The call that has the lock another waits for: the map's, or the mutex.  *)
WaitsFor(t, u) ==
  \/ pc[t] = "new" /\ mapHolder = u
  \/ pc[t] = "waiting" /\ mutex[u] = mutex[t] /\ Head(line[mutex[t]]) = u

NobodyStuck ==
  \A t \in Tasks : pc[t] = "done" \/ MayMove(t) \/ \E u \in Tasks : WaitsFor(t, u) /\ MayMove(u)

(* Each line holds the calls that ask for its mutex, each once.            *)
LEMMA AlwaysInLine == Spec => [](TypeInv /\ LineOfMutex)
<1>1. Init => LineOfMutex
  BY DEF Init, LineOfMutex
<1>2. TypeInv /\ LineOfMutex /\ [Next]_vars => LineOfMutex'
  <2>1. CASE UNCHANGED <<pc, mutex, line>>
    BY <2>1 DEF LineOfMutex, Lined
  <2> QED BY <2>1, StepLineOfMutex DEF Next, Tick, Terminated, vars
<1> QED BY <1>1, <1>2, TypeInvariant, PTL DEF Spec

(* The two locks never wait for each other: a call that is not over may    *)
(* move, or the one that has the lock it waits for may.                    *)
THEOREM NobodyIsStuck == Spec => []NobodyStuck
<1>1. TypeInv /\ LineOfMutex => NobodyStuck
  <2> SUFFICES ASSUME TypeInv, LineOfMutex, NEW t \in Tasks, pc[t] # "done", ~MayMove(t)
               PROVE  \E u \in Tasks : WaitsFor(t, u) /\ MayMove(u)
    BY DEF NobodyStuck
  <2> USE DEF TypeInv
  <2>1. pc[t] \in {"new", "waiting"}
    BY TouchPossible DEF TypeOK, Stage, MayMove
  <2>2. CASE pc[t] = "new"
    <3>1. mapHolder \in Tasks /\ pc[mapHolder] \in {"map", "touch"}
      BY <2>2 DEF MayMove, TypeOK
    <3>2. MayMove(mapHolder)
      BY <3>1, TouchPossible DEF MayMove
    <3> QED BY <2>2, <3>1, <3>2 DEF WaitsFor
  <2>3. CASE pc[t] = "waiting"
    <3> DEFINE l == line[mutex[t]]
               u == Head(l)
    <3>1. mutex[t] \in Tasks /\ l \in Seq(Tasks) /\ \E i \in 1 .. Len(l) : l[i] = t
      BY <2>3 DEF LineInv, Past, InLine, TypeOK
    <3>2. 1 \in DOMAIN l /\ u = l[1] /\ u \in Tasks
      <4> HIDE DEF l
      <4> QED BY <3>1
    <3>3. mutex[u] = mutex[t] /\ pc[u] \in Lined
      BY <3>1, <3>2 DEF LineOfMutex
    <3>4. MayMove(u)
      BY <3>2, <3>3, TouchPossible DEF Lined, MayMove
    <3> QED BY <2>3, <3>2, <3>3, <3>4 DEF WaitsFor
  <2> QED BY <2>1, <2>2, <2>3
<1> QED BY <1>1, AlwaysInLine, PTL
-----------------------------------------------------------------------------
(* With fairness.  A step whose guard holds can be taken: it gives each    *)
(* variable a value, whatever the map is.  The provers do not reason about *)
(* ENABLED, so CallsReturn and LinesMoveUp assume it.                      *)
CallEnabled(t) == MayMove(t) => ENABLED <<Step(t)>>_vars

GuardsEnable == \A t \in Tasks : CallEnabled(t)

(* No call takes the next step of another: it is its own to take, and the  *)
(* way through enqueue knows no turning back.                              *)
After(s) ==
  CASE s = "map" -> {"cloned"} [] s = "cloned" -> {"waiting"} [] s = "waiting" -> {"body"}
    [] s = "body" -> {"touch", "unlock"} [] s = "touch" -> {"unlock"} [] OTHER -> {"done"}

OnTheWay == {"map", "cloned", "waiting", "body", "touch", "unlock"}

LEMMA OwnStep ==
  ASSUME TypeInv, NEW t \in Tasks, pc[t] \in OnTheWay, Step(t)
  PROVE  pc'[t] \in After(pc[t])
BY DEF TypeInv, TypeOK, OnTheWay, After, Step, LockMap, Lookup, RequestLock, Begin, FinishTouch, FinishSkip,
       Touch, Unlock

LEMMA OthersStep ==
  ASSUME TypeInv, NEW t \in Tasks, NEW u \in Tasks \ {t}, Step(u)
  PROVE  pc'[t] = pc[t] /\ mutex'[t] = mutex[t]
BY DEF TypeInv, TypeOK, Step, LockMap, Lookup, RequestLock, Begin, FinishTouch, FinishSkip, Touch, Unlock

(* The head of a line gives way to nobody but by leaving it itself, and    *)
(* then everyone moves up by one.                                          *)
At(t, i) == pc[t] = "waiting" /\ i \in DOMAIN line[mutex[t]] /\ line[mutex[t]][i] = t

Heads(t, u) == line[mutex[t]][1] = u

LEMMA LineSteps ==
  ASSUME TypeInv, LineOfMutex, NEW t \in Tasks, NEW i \in Nat \ {0}, At(t, i), [Next]_vars
  PROVE  \/ /\ \A u \in Tasks : Heads(t, u) => Heads(t, u)'
            /\ At(t, i)' \/ (i = 1 /\ pc'[t] = "body")
         \/ i > 1 /\ At(t, i - 1)'
<1> USE DEF TypeInv
<1> DEFINE l == line[mutex[t]]
<1>1. mutex[t] \in Tasks /\ l \in Seq(Tasks) /\ Len(l) \in Nat /\ DOMAIN l = 1 .. Len(l)
      /\ i \in DOMAIN l /\ l[i] = t /\ 1 \in DOMAIN l /\ pc[t] = "waiting"
  <2>1. mutex[t] \in Tasks /\ l \in Seq(Tasks) /\ i \in DOMAIN l /\ l[i] = t /\ pc[t] = "waiting"
    BY DEF At, LineInv, Past, TypeOK
  <2> HIDE DEF l
  <2> QED BY <2>1
<1> HIDE DEF l
<1>2. CASE UNCHANGED <<pc, mutex, line>>
  BY <1>2 DEF At, Heads
<1>3. ASSUME Step(t)
      PROVE  i = 1 /\ pc'[t] = "body" /\ line' = line /\ mutex' = mutex
  <2>1. Begin(t)
    BY <1>1, <1>3 DEF Step, LockMap, Lookup, RequestLock, FinishTouch, FinishSkip, Touch, Unlock
  <2>2. l[1] = t
    BY <1>1, <2>1 DEF Begin, l
  <2>3. i = 1
    <3>1. \A j, k \in DOMAIN l : l[j] = l[k] => j = k
      BY <1>1 DEF LineOfMutex, l
    <3> QED BY <1>1, <2>2, <3>1
  <2>4. pc'[t] = "body"
    BY <2>1 DEF Begin, TypeOK
  <2> QED BY <2>1, <2>3, <2>4 DEF Begin
<1>4. ASSUME NEW u \in Tasks \ {t}, Step(u)
      PROVE  \/ At(t, i)' /\ \A g \in Tasks : Heads(t, g) => Heads(t, g)'
             \/ i > 1 /\ At(t, i - 1)'
  <2>1. pc'[t] = "waiting" /\ mutex'[t] = mutex[t]
    BY <1>1, <1>4, OthersStep
  <2>2. CASE line' = line
    BY <2>1, <2>2 DEF At, Heads
  <2>3. CASE RequestLock(u)
    <3>1. line'[mutex[t]] = IF mutex[u] = mutex[t] THEN Append(l, u) ELSE l
      BY <1>1, <2>3 DEF RequestLock, JoinedLine, TypeOK, l
    <3>2. /\ i \in DOMAIN Append(l, u) /\ Append(l, u)[i] = l[i] /\ Append(l, u)[1] = l[1]
      BY <1>1
    <3>3. i \in DOMAIN line'[mutex[t]] /\ line'[mutex[t]][i] = t /\ line'[mutex[t]][1] = l[1]
      BY <1>1, <3>1, <3>2
    <3> QED BY <2>1, <3>3 DEF At, Heads, l
  <2>4. CASE Unlock(u)
    <3>1. line'[mutex[t]] = IF mutex[u] = mutex[t] THEN Tail(l) ELSE l
      BY <1>1, <2>4 DEF Unlock, LineAfter, TypeOK, l
    <3>2. CASE mutex[u] # mutex[t]
      BY <1>1, <2>1, <3>1, <3>2 DEF At, Heads, l
    <3>3. CASE mutex[u] = mutex[t]
      <4>1. l[1] = u
        BY <1>1, <2>4, <3>3 DEF Unlock, LineInv, Holding, l
      <4>2. i > 1
        BY <1>1, <4>1
      <4>3. i - 1 \in DOMAIN Tail(l) /\ Tail(l)[i - 1] = l[i]
        <5>1. Tail(l) \in Seq(Tasks) /\ Len(Tail(l)) = Len(l) - 1
          BY <1>1, HeadTailProperties, EmptySeq
        <5> QED BY <1>1, <4>2, <5>1
      <4> QED BY <1>1, <2>1, <3>1, <3>3, <4>2, <4>3 DEF At
    <3> QED BY <3>2, <3>3
  <2> QED BY <1>4, <2>2, <2>3, <2>4 DEF Step, LockMap, Lookup, Begin, FinishTouch, FinishSkip, Touch
<1>5. CASE \E u \in Tasks : Step(u)
  BY <1>3, <1>4, <1>5 DEF At, Heads
<1> QED BY <1>2, <1>5 DEF Next, Tick, Terminated, vars

(* One fair step of one call.                                              *)
FairCalls == FairSpec /\ []GuardsEnable

GoesOn(t, s) == pc[t] = s ~> pc[t] \in After(s)

LEMMA CallGoesOn ==
  ASSUME NEW t \in Tasks, NEW s \in OnTheWay \ {"waiting"}
  PROVE  FairCalls => GoesOn(t, s)
<1> DEFINE There == pc[t] = s
           Onwards == pc[t] \in After(s)
<1>1. TypeInv /\ There /\ <<Step(t)>>_vars => Onwards'
  BY OwnStep
<1>2. TypeInv /\ There /\ [Next]_vars => There' \/ Onwards'
  BY <1>1, OthersStep DEF Next, Tick, Terminated, vars
<1>3. TypeInv /\ There => MayMove(t)
  BY TouchPossible DEF TypeInv, OnTheWay, MayMove
<1>4. GuardsEnable => (MayMove(t) => ENABLED <<Step(t)>>_vars)
  <2>1. GuardsEnable => CallEnabled(t)
    BY DEF GuardsEnable
  <2> QED BY <2>1 DEF CallEnabled
<1>5. FairSpec => Spec /\ CallFair(t)
  BY DEF FairSpec
<1> HIDE DEF There, Onwards
<1>6. FairSpec /\ []GuardsEnable => (There ~> Onwards)
  BY <1>1, <1>2, <1>3, <1>4, <1>5, TypeInvariant, PTL DEF Spec, CallFair
<1> QED BY <1>6 DEF There, Onwards, GoesOn, FairCalls

Returns(t) ==
  /\ mapHolder = t ~> mapHolder # t
  /\ pc[t] \in {"map", "cloned"} ~> pc[t] = "waiting"
  /\ pc[t] \in {"body", "touch", "unlock"} ~> pc[t] = "done"

LEMMA CallReturns == ASSUME NEW t \in Tasks PROVE FairCalls => Returns(t)
<1>1. FairCalls =>
        /\ pc[t] = "map" ~> pc[t] = "cloned"
        /\ pc[t] = "cloned" ~> pc[t] = "waiting"
        /\ pc[t] = "body" ~> pc[t] \in {"touch", "unlock"}
        /\ pc[t] = "touch" ~> pc[t] = "unlock"
        /\ pc[t] = "unlock" ~> pc[t] = "done"
  <2>1. pc[t] \in After("map") <=> pc[t] = "cloned"
    BY DEF After
  <2>2. pc[t] \in After("cloned") <=> pc[t] = "waiting"
    BY DEF After
  <2>3. pc[t] \in After("body") <=> pc[t] \in {"touch", "unlock"}
    BY DEF After
  <2>4. pc[t] \in After("touch") <=> pc[t] = "unlock"
    BY DEF After
  <2>5. pc[t] \in After("unlock") <=> pc[t] = "done"
    BY DEF After
  <2>6. FairCalls => GoesOn(t, "map")
    BY CallGoesOn DEF OnTheWay
  <2>7. FairCalls => GoesOn(t, "cloned")
    BY CallGoesOn DEF OnTheWay
  <2>8. FairCalls => GoesOn(t, "body")
    BY CallGoesOn DEF OnTheWay
  <2>9. FairCalls => GoesOn(t, "touch")
    BY CallGoesOn DEF OnTheWay
  <2>10. FairCalls => GoesOn(t, "unlock")
    BY CallGoesOn DEF OnTheWay
  <2> QED BY <2>1, <2>2, <2>3, <2>4, <2>5, <2>6, <2>7, <2>8, <2>9, <2>10, PTL DEF GoesOn
<1>2. TypeInv => (mapHolder = t <=> pc[t] \in {"map", "touch"})
  BY DEF TypeInv, TypeOK
<1>3. pc[t] \in {"map", "cloned"} <=> pc[t] = "map" \/ pc[t] = "cloned"
  OBVIOUS
<1>4. pc[t] \in {"map", "touch"} <=> pc[t] = "map" \/ pc[t] = "touch"
  OBVIOUS
<1>5. pc[t] \in {"body", "touch", "unlock"} <=> pc[t] = "body" \/ pc[t] \in {"touch", "unlock"}
  OBVIOUS
<1>6. pc[t] \in {"touch", "unlock"} <=> pc[t] = "touch" \/ pc[t] = "unlock"
  OBVIOUS
<1>7. (pc[t] = "cloned" \/ pc[t] = "unlock") => ~(pc[t] \in {"map", "touch"})
  OBVIOUS
<1>8. FairCalls => Spec
  BY DEF FairCalls, FairSpec
<1>9. mapHolder # t <=> ~(mapHolder = t)
  OBVIOUS
<1> QED BY <1>1, <1>2, <1>3, <1>4, <1>5, <1>6, <1>7, <1>8, <1>9, TypeInvariant, PTL DEF Returns

(* Who holds the map gives it back, who has cloned a mutex asks for it,    *)
(* and whose task has started returns, whatever the other calls do.        *)
THEOREM CallsReturn ==
  ASSUME NEW t \in Tasks
  PROVE  FairSpec /\ []GuardsEnable =>
           /\ mapHolder = t ~> mapHolder # t
           /\ pc[t] \in {"map", "cloned"} ~> pc[t] = "waiting"
           /\ pc[t] \in {"body", "touch", "unlock"} ~> pc[t] = "done"
BY CallReturns DEF FairCalls, Returns

(* A call that waits in place i, behind the call u at the head.            *)
Behind(t, i, u) == At(t, i) /\ Heads(t, u)

UpOne(t, i) == IF i = 1 THEN pc[t] = "body" ELSE At(t, i - 1)

LEMMA HeadGivesWay ==
  ASSUME NEW t \in Tasks, NEW i \in Nat \ {0}, NEW u \in Tasks
  PROVE  FairCalls => [](Behind(t, i, u) => <>UpOne(t, i))
<1> DEFINE Here == Behind(t, i, u)
           Moved == UpOne(t, i)
           Waits == pc[u] = "waiting"
           Turn == Here /\ Waits
           Runs == pc[u] \in {"body", "touch", "unlock"}
           Inv == TypeInv /\ LineOfMutex
<1>1. Inv /\ Here /\ [Next]_vars => Here' \/ Moved'
  <2> SUFFICES ASSUME Inv, Here, [Next]_vars PROVE Here' \/ Moved'
    OBVIOUS
  <2> QED BY LineSteps DEF Behind, UpOne
<1>2. Inv /\ Here => mutex[u] = mutex[t] /\ (Runs \/ Turn) /\ pc[u] # "done" /\ Head(line[mutex[u]]) = u
  <2> SUFFICES ASSUME Inv, Here PROVE mutex[u] = mutex[t] /\ (Runs \/ Turn) /\ pc[u] # "done" /\ Head(line[mutex[u]]) = u
    OBVIOUS
  <2>1. mutex[t] \in Tasks /\ line[mutex[t]] \in Seq(Tasks) /\ i \in DOMAIN line[mutex[t]] /\ line[mutex[t]][1] = u
    BY DEF Behind, At, Heads, TypeInv, LineInv, Past, TypeOK
  <2>2. 1 \in DOMAIN line[mutex[t]]
    BY <2>1
  <2>3. mutex[u] = mutex[t] /\ pc[u] \in Lined
    BY <2>1, <2>2 DEF LineOfMutex
  <2> QED BY <2>1, <2>3 DEF Lined
<1>3. Inv /\ Turn => MayMove(u)
  BY <1>2 DEF MayMove
<1>4. Inv /\ Turn /\ <<Step(u)>>_vars => Runs'
  <2> SUFFICES ASSUME Inv, Turn, Step(u) PROVE Runs'
    OBVIOUS
  <2>1. pc'[u] \in After("waiting")
    BY OwnStep DEF OnTheWay
  <2> QED BY <2>1 DEF After
<1>5. Inv /\ Turn /\ [Next]_vars => Waits' \/ Runs'
  <2> SUFFICES ASSUME Inv, Turn, [Next]_vars PROVE Waits' \/ Runs'
    OBVIOUS
  <2> QED BY <1>4, OthersStep DEF Next, Tick, Terminated, vars
<1>6. GuardsEnable => (MayMove(u) => ENABLED <<Step(u)>>_vars)
  <2>1. GuardsEnable => CallEnabled(u)
    BY DEF GuardsEnable
  <2> QED BY <2>1 DEF CallEnabled
<1>7. FairCalls => Spec /\ CallFair(u) /\ []GuardsEnable
  BY DEF FairCalls, FairSpec
<1>8. FairCalls => (Runs ~> pc[u] = "done")
  <2>1. FairCalls => Returns(u)
    BY CallReturns
  <2> QED BY <2>1, PTL DEF Returns
<1>9. Turn <=> Here /\ Waits
  OBVIOUS
<1>10. pc[u] # "done" <=> ~(pc[u] = "done")
  OBVIOUS
<1> HIDE DEF Here, Moved, Waits, Turn, Runs, Inv
<1>11. Spec => []Inv
  BY AlwaysInLine DEF Inv
<1>12. FairCalls => (Turn ~> Runs \/ Moved)
  BY <1>1, <1>3, <1>4, <1>5, <1>6, <1>7, <1>9, <1>11, PTL DEF Spec, CallFair
<1>13. FairCalls => (Here ~> Moved)
  BY <1>1, <1>2, <1>7, <1>8, <1>11, <1>12, <1>10, PTL DEF Spec
<1> QED BY <1>13, PTL DEF Here, Moved

(* A call that waits gets its turn when those before it have had theirs:   *)
(* from any place but the first it moves up by one, and from the first its *)
(* task starts.  So the lock is granted in the order of asking, and nobody *)
(* is passed over.                                                         *)
THEOREM LinesMoveUp ==
  ASSUME NEW t \in Tasks, NEW i \in Nat \ {0}
  PROVE  FairSpec /\ []GuardsEnable =>
           (At(t, i) ~> IF i = 1 THEN pc[t] = "body" ELSE At(t, i - 1))
<1>1. FairCalls => \A u \in Tasks : [](Behind(t, i, u) => <>UpOne(t, i))
  BY HeadGivesWay
<1>2. (\A u \in Tasks : [](Behind(t, i, u) => <>UpOne(t, i)))
        => [](\A u \in Tasks : (Behind(t, i, u) => <>UpOne(t, i)))
  OBVIOUS
<1> DEFINE BehindSome == \E u \in Tasks : Behind(t, i, u)
<1>3. (\A u \in Tasks : (Behind(t, i, u) => <>UpOne(t, i))) => (BehindSome => <>UpOne(t, i))
  BY DEF BehindSome
<1>4. TypeInv /\ LineOfMutex /\ At(t, i) => BehindSome
  <2> SUFFICES ASSUME TypeInv, LineOfMutex, At(t, i) PROVE BehindSome
    OBVIOUS
  <2>1. mutex[t] \in Tasks /\ line[mutex[t]] \in Seq(Tasks) /\ i \in DOMAIN line[mutex[t]]
    BY DEF At, TypeInv, LineInv, Past, TypeOK
  <2>2. line[mutex[t]][1] \in Tasks
    BY <2>1
  <2> QED BY <2>2 DEF Behind, Heads
<1> HIDE DEF BehindSome
<1>5. FairCalls => Spec
  BY DEF FairCalls, FairSpec
<1>6. FairCalls => (At(t, i) ~> UpOne(t, i))
  BY <1>1, <1>2, <1>3, <1>4, <1>5, AlwaysInLine, PTL
<1> QED BY <1>6 DEF FairCalls, UpOne
=============================================================================

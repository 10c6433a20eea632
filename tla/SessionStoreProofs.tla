------------------------- MODULE SessionStoreProofs -------------------------
(***************************************************************************)
(* Proofs about SessionStore, for every number of bases and callers, any   *)
(* limits, and any number of failures and restarts.                        *)
(***************************************************************************)
EXTENDS SessionStore, SessionStateProofs, TLAPS

(* A state the program can be in, none of whose versions is above p.       *)
Fits(s, p) ==
  /\ Good(s)
  /\ \A i \in DOMAIN s.convs : i[2] <= p[i[1]]
  /\ \A x \in Bases : VersionOf(s, x) <= p[x]

StoreTypes ==
  /\ dirty \in BOOLEAN /\ raced \in BOOLEAN /\ cut \in BOOLEAN
  /\ pc \in [Writers -> Pcs]
  /\ pc[FlushTask] \notin {"hold", "mark"}
  /\ id \in [Calls -> Ids \cup {NoId}]
  /\ DOMAIN snap = Writers
  /\ peak \in [Bases -> Nat]
  /\ clock \in Nat /\ ops \in Nat /\ restarts \in Nat

HeldFits == \A c \in Calls : pc[c] = "hold" => id[c] \in Ids /\ id[c][2] <= peak[id[c][1]]

CarriedFits == \A w \in Writers : Carrying(w) => Fits(snap[w], peak)

StoredFits == \A s \in Contents : Fits(s, peak)

(* TypeOK and StateCoherent together, and no version above its peak: a     *)
(* file loaded after a crash, or a snapshot written late, has none either. *)
StoreInv ==
  /\ StoreTypes
  /\ Fits(mem, peak)
  /\ StoredFits
  /\ CarriedFits
  /\ HeldFits

LEMMA InvImplies == StoreInv => TypeOK /\ StateCoherent
  BY DEF StoreInv, StoreTypes, Fits, Good, StoredFits, CarriedFits, HeldFits,
         TypeOK, StateCoherent, NoFutureSession

LEMMA LaterFits ==
  ASSUME NEW s, NEW p \in [Bases -> Nat], NEW q \in [Bases -> Nat], Fits(s, p),
         \A x \in Bases : p[x] <= q[x]
  PROVE  Fits(s, q)
<1>1. \A i \in DOMAIN s.convs : i[1] \in Bases /\ i[2] \in Nat
  BY DEF Fits, Good, IsState, Ids
<1>2. \A x \in Bases : VersionOf(s, x) \in Nat
  BY VersionType DEF Fits, Good
<1>3. \A i \in DOMAIN s.convs : i[2] <= q[i[1]]
  BY <1>1 DEF Fits
<1>4. \A x \in Bases : VersionOf(s, x) <= q[x]
  BY <1>2 DEF Fits
<1> QED BY <1>3, <1>4 DEF Fits

LEMMA DefaultFits ==
  ASSUME NEW p \in [Bases -> Nat]
  PROVE  Fits(Default, p)
  BY DefaultGood DEF Fits, Default, NoEntries, VersionOf

LEMMA LoadedFits ==
  ASSUME peak \in [Bases -> Nat], StoredFits
  PROVE  Fits(Loaded(file), peak)
  BY DefaultFits DEF Loaded, StoredFits, Contents

LEMMA InitInv == Init => StoreInv
<1> SUFFICES ASSUME Init PROVE StoreInv
  OBVIOUS
<1>1. StoreTypes
  BY StoreAssumption DEF Init, StoreTypes, Pcs, Writers
<1>2. StoredFits
  BY DEF Init, StoredFits, Contents
<1>3. Fits(mem, peak)
  BY <1>1, <1>2, LoadedFits DEF Init, StoreTypes
<1>4. CarriedFits /\ HeldFits
  BY DEF Init, CarriedFits, HeldFits, Carrying, Writers
<1> QED BY <1>1, <1>2, <1>3, <1>4 DEF StoreInv

(* What Mutate does to peak, and to the state it leaves.                   *)
LEMMA PeakAfter ==
  ASSUME peak \in [Bases -> Nat], NEW c, NEW outcomes, NEW next, Mutate(c, outcomes, next),
         \A r \in outcomes : Good(r) /\ \A i \in DOMAIN r.convs : i[2] <= peak[i[1]]
  PROVE  /\ peak' \in [Bases -> Nat]
         /\ \A x \in Bases : peak[x] <= peak'[x]
         /\ Fits(mem', peak')
         /\ \A i \in DOMAIN mem'.convs : i[2] <= peak[i[1]]
         /\ \A x \in Bases : peak'[x] # peak[x] => VersionOf(mem', x) > peak[x]
<1>1. Good(mem') /\ \A i \in DOMAIN mem'.convs : i[2] <= peak[i[1]]
  BY DEF Mutate
<1>2. \A x \in Bases : VersionOf(mem', x) \in Nat
  BY <1>1, VersionType DEF Good
<1>3. \A x \in Bases :
        peak'[x] = IF VersionOf(mem', x) > peak[x] THEN VersionOf(mem', x) ELSE peak[x]
  BY DEF Mutate
<1>4. peak' \in [Bases -> Nat]
  BY <1>2 DEF Mutate
<1>5. \A x \in Bases : /\ peak[x] <= peak'[x] /\ VersionOf(mem', x) <= peak'[x]
                       /\ peak'[x] # peak[x] => VersionOf(mem', x) > peak[x]
  BY <1>2, <1>3
<1>6. \A i \in DOMAIN mem'.convs : i[1] \in Bases /\ i[2] \in Nat
  BY <1>1 DEF Good, IsState, Ids
<1>7. \A i \in DOMAIN mem'.convs : i[2] <= peak'[i[1]]
  BY <1>1, <1>4, <1>5, <1>6
<1> QED BY <1>1, <1>4, <1>5, <1>7 DEF Fits

(* Every change of the state keeps the invariant.                          *)
LEMMA MutateInv ==
  ASSUME StoreInv, NEW c \in Calls, NEW outcomes, NEW next \in {"mark", "snap"},
         Mutate(c, outcomes, next),
         \A r \in outcomes : Good(r) /\ \A i \in DOMAIN r.convs : i[2] <= peak[i[1]],
         UNCHANGED <<dirty, file, snap, clock, restarts, cut>>,
         id' \in {id, [id EXCEPT ![c] = NoId]}
  PROVE  StoreInv'
<1>1. /\ peak' \in [Bases -> Nat] /\ Fits(mem', peak')
      /\ \A x \in Bases : peak[x] <= peak'[x]
  BY PeakAfter DEF StoreInv, StoreTypes
<1>2. /\ pc' = [pc EXCEPT ![c] = next] /\ c \in Writers /\ c # FlushTask
      /\ pc' \in [Writers -> Pcs]
  BY StoreAssumption DEF Mutate, Writers, StoreInv, StoreTypes, Pcs
<1>3. StoreTypes'
  BY <1>1, <1>2 DEF StoreInv, StoreTypes, Mutate, Writers
<1>4. StoredFits'
  BY <1>1, LaterFits DEF StoreInv, StoreTypes, StoredFits, Contents
<1>5. CarriedFits'
  <2>1. \A w \in Writers : Carrying(w)' => Carrying(w)
    BY <1>2 DEF Carrying, StoreInv, StoreTypes
  <2> QED BY <1>1, <2>1, LaterFits DEF StoreInv, StoreTypes, CarriedFits
<1>6. HeldFits'
  <2> SUFFICES ASSUME NEW d \in Calls, pc'[d] = "hold"
               PROVE  id'[d] \in Ids /\ id'[d][2] <= peak'[id'[d][1]]
    BY DEF HeldFits
  <2>1. d # c /\ pc[d] = "hold" /\ id'[d] = id[d]
    BY <1>2 DEF StoreInv, StoreTypes, Writers
  <2>2. id[d] \in Ids /\ id[d][2] <= peak[id[d][1]]
    BY <2>1 DEF StoreInv, HeldFits
  <2>3. id[d][1] \in Bases /\ id[d][2] \in Nat
    BY <2>2 DEF Ids
  <2> QED BY <1>1, <2>1, <2>2, <2>3 DEF StoreInv, StoreTypes
<1> QED BY <1>1, <1>3, <1>4, <1>5, <1>6 DEF StoreInv

(* What the three operations leave: a state, and no session above the peak *)
(* of its base, as the id appended to was held.                            *)
Settled(outcomes) ==
  \A r \in outcomes : Good(r) /\ \A i \in DOMAIN r.convs : i[2] <= peak[i[1]]

LEMMA OutcomesSettled ==
  ASSUME StoreInv, NEW c \in Calls
  PROVE  /\ \A x \in Bases : Settled({Bumped(mem, x)})
         /\ \A m \in Models : Settled({Selecting(mem, m)})
         /\ pc[c] = "hold" =>
              \A turn \in Turns : Settled(AppendOutcomes(mem, id[c], turn, clock))
<1>1. Good(mem) /\ IsState(mem) /\ \A i \in DOMAIN mem.convs : i[2] <= peak[i[1]]
  BY DEF StoreInv, Fits, Good
<1>2. ASSUME NEW x \in Bases PROVE Settled({Bumped(mem, x)})
  BY <1>1, BumpedGood, BumpedIds DEF Settled
<1>3. ASSUME NEW m \in Models PROVE Settled({Selecting(mem, m)})
  BY <1>1, SelectingGood, SelectingIds DEF Settled
<1>4. ASSUME pc[c] = "hold", NEW turn \in Turns
      PROVE  Settled(AppendOutcomes(mem, id[c], turn, clock))
  <2>1. id[c] \in Ids /\ id[c][2] <= peak[id[c][1]] /\ clock \in Nat /\ turn \in Msgs \X Msgs
    BY <1>4, StoreAssumption DEF StoreInv, HeldFits, StoreTypes
  <2>2. ASSUME NEW r \in AppendOutcomes(mem, id[c], turn, clock)
        PROVE  Good(r) /\ DOMAIN r.convs \subseteq DOMAIN mem.convs \cup {id[c]}
    BY <1>1, <2>1, AppendGood, AppendIds
  <2> QED BY <1>1, <2>1, <2>2 DEF Settled
<1> QED BY <1>2, <1>3, <1>4

(* The three ways a call changes the state, told alike.                    *)
Changes(c, outcomes, next) ==
  /\ Mutate(c, outcomes, next)
  /\ next \in {"mark", "snap"}
  /\ Settled(outcomes)
  /\ UNCHANGED <<dirty, file, snap, clock, restarts, cut>>
  /\ id' \in {id, [id EXCEPT ![c] = NoId]}

Alters(c) == \E outcomes : \E next : Changes(c, outcomes, next)

LEMMA CallCases ==
  ASSUME StoreInv, NEW c \in Calls, CallStep(c)
  PROVE  \/ Alters(c)
         \/ \E x \in Bases : ReadId(c, x)
         \/ GiveUp(c)
         \/ MarkDirty(c)
<1>1. ASSUME NEW x \in Bases, BumpSession(c, x) PROVE Alters(c)
  <2>1. Changes(c, {Bumped(mem, x)}, "snap")
    BY <1>1, OutcomesSettled DEF BumpSession, Changes
  <2> QED BY <2>1 DEF Alters
<1>2. ASSUME NEW turn \in Turns, AppendConversation(c, turn) PROVE Alters(c)
  <2>1. Changes(c, AppendOutcomes(mem, id[c], turn, clock), "mark")
    BY <1>2, OutcomesSettled DEF AppendConversation, Changes
  <2> QED BY <2>1 DEF Alters
<1>3. ASSUME NEW m \in Models, SelectModel(c, m) PROVE Alters(c)
  <2>1. Changes(c, {Selecting(mem, m)}, "mark")
    BY <1>3, OutcomesSettled DEF SelectModel, Changes
  <2> QED BY <2>1 DEF Alters
<1> QED BY <1>1, <1>2, <1>3 DEF CallStep

LEMMA StepInv == StoreInv /\ [Next]_vars => StoreInv'
<1> SUFFICES ASSUME StoreInv, [Next]_vars PROVE StoreInv'
  OBVIOUS
<1>1. ASSUME NEW c \in Calls, Alters(c) PROVE StoreInv'
  BY <1>1, MutateInv DEF Alters, Changes, Settled
<1>2. ASSUME NEW c \in Calls, NEW x \in Bases, ReadId(c, x) PROVE StoreInv'
  <2>1. SessionId(mem, x) \in Ids /\ SessionId(mem, x)[1] = x
        /\ SessionId(mem, x)[2] <= peak[x]
    BY VersionType DEF StoreInv, Fits, Good, SessionId
  <2>2. StoreTypes'
    BY <1>2, <2>1, StoreAssumption DEF ReadId, StoreInv, StoreTypes, Pcs, Writers
  <2>3. HeldFits'
    BY <1>2, <2>1 DEF ReadId, StoreInv, StoreTypes, HeldFits, Writers
  <2>4. CarriedFits'
    BY <1>2 DEF ReadId, StoreInv, StoreTypes, CarriedFits, Carrying
  <2> QED BY <1>2, <2>2, <2>3, <2>4 DEF ReadId, StoreInv, StoredFits, Contents
<1>3. ASSUME NEW c \in Calls, GiveUp(c) \/ MarkDirty(c) PROVE StoreInv'
  <2>1. StoreTypes'
    BY <1>3, StoreAssumption DEF GiveUp, MarkDirty, Marked, StoreInv, StoreTypes, Pcs, Writers
  <2>2. HeldFits'
    BY <1>3 DEF GiveUp, MarkDirty, StoreInv, StoreTypes, HeldFits, Writers
  <2>3. CarriedFits'
    BY <1>3 DEF GiveUp, MarkDirty, StoreInv, StoreTypes, CarriedFits, Carrying
  <2> QED BY <1>3, <2>1, <2>2, <2>3 DEF GiveUp, MarkDirty, StoreInv, StoredFits, Contents
<1>4. CASE FlushTick
  <2>1. StoreTypes'
    BY <1>4 DEF FlushTick, StoreInv, StoreTypes, Pcs, Writers
  <2>2. HeldFits' /\ CarriedFits'
    BY <1>4, StoreAssumption DEF FlushTick, StoreInv, StoreTypes, HeldFits, CarriedFits, Carrying, Writers
  <2> QED BY <1>4, <2>1, <2>2 DEF FlushTick, StoreInv, StoredFits, Contents
<1>5. ASSUME NEW w \in Writers, Snapshot(w) PROVE StoreInv'
  <2>1. StoreTypes'
    BY <1>5 DEF Snapshot, StoreInv, StoreTypes, Pcs
  <2>2. HeldFits'
    BY <1>5 DEF Snapshot, StoreInv, StoreTypes, HeldFits, Writers
  <2>3. CarriedFits'
    <3> SUFFICES ASSUME NEW v \in Writers, Carrying(v)' PROVE Fits(snap'[v], peak')
      BY DEF CarriedFits
    <3>1. CASE v = w
      BY <1>5, <3>1 DEF Snapshot, StoreInv, StoreTypes
    <3>2. CASE v # w
      BY <1>5, <3>2 DEF Snapshot, StoreInv, StoreTypes, CarriedFits, Carrying
    <3> QED BY <3>1, <3>2
  <2> QED BY <1>5, <2>1, <2>2, <2>3 DEF Snapshot, StoreInv, StoredFits, Contents
<1>6. ASSUME NEW w \in Writers, Open(w) PROVE StoreInv'
  <2>1. StoreTypes'
    BY <1>6 DEF Open, StoreInv, StoreTypes, Pcs
  <2>2. HeldFits' /\ CarriedFits'
    BY <1>6 DEF Open, StoreInv, StoreTypes, HeldFits, CarriedFits, Carrying, Writers
  <2>3. StoredFits'
    BY <1>6 DEF Open, Truncated, StoredFits, Contents
  <2> QED BY <1>6, <2>1, <2>2, <2>3 DEF Open, StoreInv
<1>7. ASSUME NEW w \in Writers, Write(w) PROVE StoreInv'
  <2>1. StoreTypes'
    <3>1. cut' \in BOOLEAN /\ dirty' \in BOOLEAN /\ raced' \in BOOLEAN
      BY <1>7 DEF Write, StoreInv, StoreTypes
    <3>2. DOMAIN snap' = Writers /\ pc' \in [Writers -> Pcs] /\ pc'[FlushTask] \notin {"hold", "mark"}
      BY <1>7 DEF Write, StoreInv, StoreTypes, Pcs
    <3> QED BY <1>7, <3>1, <3>2 DEF Write, StoreInv, StoreTypes
  <2>2. HeldFits' /\ CarriedFits'
    BY <1>7 DEF Write, StoreInv, StoreTypes, HeldFits, CarriedFits, Carrying, Writers
  <2>3. StoredFits'
    BY <1>7 DEF Write, WriteOutcomes, StoreInv, StoredFits, Contents, CarriedFits, Carrying
  <2> QED BY <1>7, <2>1, <2>2, <2>3 DEF Write, StoreInv
<1>8. ASSUME NEW w \in Writers, WriteFails(w) PROVE StoreInv'
  <2>1. StoreTypes'
    BY <1>8, StoreAssumption DEF WriteFails, AfterFailure, Harmless, StoreInv, StoreTypes, Pcs
  <2>2. HeldFits' /\ CarriedFits'
    BY <1>8 DEF WriteFails, AfterFailure, StoreInv, StoreTypes, HeldFits, CarriedFits, Carrying, Writers
  <2> QED BY <1>8, <2>1, <2>2 DEF WriteFails, StoreInv, StoredFits, Contents
<1>9. ASSUME NEW w \in Writers, Cas(w) PROVE StoreInv'
  <2>1. StoreTypes'
    <3>1. cut' \in BOOLEAN /\ dirty' \in BOOLEAN /\ raced' \in BOOLEAN
      BY <1>9 DEF Cas, StoreInv, StoreTypes
    <3>2. pc' \in [Writers -> Pcs] /\ pc'[FlushTask] \notin {"hold", "mark"}
      BY <1>9 DEF Cas, StoreInv, StoreTypes, Pcs
    <3> QED BY <1>9, <3>1, <3>2 DEF Cas, StoreInv, StoreTypes
  <2>2. HeldFits' /\ CarriedFits'
    BY <1>9 DEF Cas, StoreInv, StoreTypes, HeldFits, CarriedFits, Carrying, Writers
  <2> QED BY <1>9, <2>1, <2>2 DEF Cas, StoreInv, StoredFits, Contents
<1>10. CASE Restart
  <2>1. StoreTypes'
    <3>1. cut' \in BOOLEAN /\ dirty' \in BOOLEAN /\ raced' \in BOOLEAN
      BY <1>10 DEF Restart, StoreInv, StoreTypes
    <3>2. DOMAIN snap' = Writers /\ pc' \in [Writers -> Pcs] /\ pc'[FlushTask] \notin {"hold", "mark"}
      BY <1>10 DEF Restart, StoreInv, StoreTypes, Pcs, Writers
    <3>3. id' \in [Calls -> Ids \cup {NoId}]
      BY <1>10 DEF Restart
    <3> QED BY <1>10, <3>1, <3>2, <3>3 DEF Restart, StoreInv, StoreTypes
  <2>2. HeldFits' /\ CarriedFits'
    BY <1>10 DEF Restart, HeldFits, CarriedFits, Carrying, Writers
  <2>3. Fits(mem', peak')
    BY <1>10, LoadedFits DEF Restart, StoreInv, StoreTypes
  <2> QED BY <1>10, <2>1, <2>2, <2>3 DEF Restart, StoreInv, StoredFits, Contents
<1>11. CASE Tick
  BY <1>11 DEF Tick, StoreInv, StoreTypes, StoredFits, Contents, CarriedFits, Carrying, HeldFits
<1>12. CASE UNCHANGED vars
  BY <1>12 DEF vars, StoreInv, StoreTypes, StoredFits, Contents, CarriedFits, Carrying, HeldFits
<1> QED BY <1>1, <1>2, <1>3, <1>4, <1>5, <1>6, <1>7, <1>8, <1>9, <1>10, <1>11, <1>12, CallCases
    DEF Next, Healthy, Saving

(* session.rs, every method: whatever is in memory, in a save under way or *)
(* in the file is a state with its types, and no session has a version its *)
(* base never had.                                                         *)
THEOREM TypeCorrect == Spec => []TypeOK
<1>1. StoreInv => TypeOK
  BY InvImplies
<1> QED BY InitInv, StepInv, <1>1, PTL DEF Spec

(* evict_stale() and the drain of append_conversation(): the conversations *)
(* and their timestamps never part and both caps hold, in memory, in every *)
(* snapshot, and in whatever a restart may find.                           *)
THEOREM AlwaysCoherent == Spec => []StateCoherent
<1>1. StoreInv => StateCoherent
  BY InvImplies
<1> QED BY InitInv, StepInv, <1>1, PTL DEF Spec

-----------------------------------------------------------------------------
(* A bump beyond the peak of its base finds no session there, since what   *)
(* is in memory, and what may come back from the disk or from a held id,   *)
(* has lower versions.                                                     *)
LEMMA BumpStep ==
  ASSUME StoreInv, [Next]_vars, NEW x \in Bases, peak'[x] # peak[x]
  PROVE  Conversation(mem', SessionId(mem', x)) = <<>>
<1>1. PICK c \in Calls : Alters(c)
  BY CallCases DEF Next, Healthy, Saving, ReadId, GiveUp, MarkDirty, FlushTick, Snapshot, Open,
                   Write, Cas, Tick, WriteFails, Restart, vars
<1>2. PICK outcomes, next : Changes(c, outcomes, next)
  BY <1>1 DEF Alters
<1>3. /\ \A i \in DOMAIN mem'.convs : i[2] <= peak[i[1]]
      /\ VersionOf(mem', x) > peak[x]
      /\ Fits(mem', peak')
  BY <1>2, PeakAfter DEF Changes, Settled, StoreInv, StoreTypes
<1>4. VersionOf(mem', x) \in Nat /\ peak[x] \in Nat
  BY <1>3, VersionType DEF Fits, Good, StoreInv, StoreTypes
<1>5. SessionId(mem', x) \notin DOMAIN mem'.convs
  BY <1>3, <1>4 DEF SessionId
<1> QED BY <1>5 DEF Conversation

(* bump_session(): a version the base never had begins without history,    *)
(* through evictions, late appends and restarts.                           *)
THEOREM BumpAlwaysStartsEmpty == Spec => BumpStartsEmpty
<1>1. StoreInv /\ [Next]_vars =>
        [\A b \in Bases :
           peak'[b] # peak[b] => Conversation(mem', SessionId(mem', b)) = <<>>]_vars
  BY BumpStep
<1> QED BY InitInv, StepInv, <1>1, PTL DEF Spec, BumpStartsEmpty

-----------------------------------------------------------------------------
(* What does not parse as a state is none.                                 *)
Unparsable == \A f \in {NoFile, Empty, Garbled} : ~IsState(f)

LEMMA StateLoads ==
  ASSUME Unparsable, StoreInv
  PROVE  mem \notin {NoFile, Empty, Garbled} /\ Loaded(mem) = mem
  BY DEF Unparsable, Loaded, StoreInv, Fits, Good

Unfinished(w) == pc[w] \in {"mark", "snap", "open", "write"}

CarriedIsMem == \A w \in Writers : Carrying(w) => snap[w] = mem

FileIsMem == (\E w \in Writers : pc[w] = "write") => file \in {Empty, mem}

LastWriteStays ==
  (\E w \in Writers : pc[w] = "cas") /\ (\A w \in Writers : pc[w] # "write") => Persisted

CleanIsSaved == ~dirty /\ (\A w \in Writers : ~Unfinished(w)) => Persisted

(* While nothing was raced: a save under way carries what is in memory,    *)
(* the file is truncated or holds just that once somebody writes, and it   *)
(* holds that when the last one has written, and whenever the flag is down *)
(* and nobody is on the way to raise it or to save.                        *)
RaceInv == ~raced => CarriedIsMem /\ FileIsMem /\ LastWriteStays /\ CleanIsSaved

LEMMA InitRace == Init => RaceInv
  BY DEF Init, RaceInv, CarriedIsMem, FileIsMem, LastWriteStays, CleanIsSaved, Carrying,
         Unfinished, Persisted, Writers

LEMMA StepRace ==
  ASSUME Unparsable, StoreInv, RaceInv, [Next]_vars
  PROVE  RaceInv'
<1> SUFFICES ASSUME ~raced'
             PROVE  (CarriedIsMem /\ FileIsMem /\ LastWriteStays /\ CleanIsSaved)'
  BY DEF RaceInv
<1> DEFINE Holds == (CarriedIsMem /\ FileIsMem /\ LastWriteStays /\ CleanIsSaved)'
<1> USE DEF CarriedIsMem, FileIsMem, LastWriteStays, CleanIsSaved, Carrying, Unfinished, Persisted
<1>0. pc \in [Writers -> Pcs] /\ DOMAIN snap = Writers
  BY DEF StoreInv, StoreTypes
<1>1. ASSUME NEW c \in Calls, Alters(c) PROVE Holds
  <2>1. PICK next \in {"mark", "snap"} :
          pc' = [pc EXCEPT ![c] = next] /\ \A w \in Writers : ~InFlight(w)
    BY <1>1 DEF Alters, Changes, Mutate
  <2>2. \A w \in Writers : ~InFlight(w)'
    BY <1>0, <2>1 DEF InFlight
  <2>3. c \in Writers /\ pc'[c] \in {"mark", "snap"}
    BY <1>0, <2>1 DEF Writers
  <2> QED BY <2>2, <2>3 DEF InFlight
<1>2. ASSUME NEW c \in Calls, (\E x \in Bases : ReadId(c, x)) \/ GiveUp(c) PROVE Holds
  <2>1. \A w \in Writers : pc'[w] = pc[w] \/ {pc[w], pc'[w]} \subseteq {"idle", "hold"}
    BY <1>0, <1>2 DEF ReadId, GiveUp
  <2>2. UNCHANGED <<mem, dirty, file, snap, raced>>
    BY <1>2 DEF ReadId, GiveUp
  <2> QED BY <2>1, <2>2 DEF RaceInv
<1>3. ASSUME NEW c \in Calls, MarkDirty(c) PROVE Holds
  <2>1. \A w \in Writers : pc'[w] = pc[w] \/ (pc[w] = "mark" /\ pc'[w] = "idle")
    BY <1>0, <1>3 DEF MarkDirty
  <2>2. UNCHANGED <<mem, file, snap, raced>> /\ dirty'
    BY <1>3 DEF MarkDirty, Marked
  <2> QED BY <2>1, <2>2 DEF RaceInv
<1>4. CASE FlushTick
  <2>1. \A w \in Writers : pc'[w] = pc[w] \/ (pc[w] = "idle" /\ pc'[w] = "snap")
    BY <1>0, <1>4 DEF FlushTick
  <2>2. UNCHANGED <<mem, dirty, file, snap, raced>> /\ dirty
    BY <1>4 DEF FlushTick
  <2> QED BY <2>1, <2>2 DEF RaceInv
<1>5. ASSUME NEW w \in Writers, Snapshot(w) PROVE Holds
  <2>1. /\ pc[w] = "snap" /\ pc'[w] = "open" /\ snap'[w] = mem
        /\ \A v \in Writers \ {w} : pc'[v] = pc[v] /\ snap'[v] = snap[v]
    BY <1>0, <1>5 DEF Snapshot
  <2>2. UNCHANGED <<mem, dirty, file, raced>>
    BY <1>5 DEF Snapshot
  <2> QED BY <2>1, <2>2 DEF RaceInv
<1>6. ASSUME NEW w \in Writers, Open(w) PROVE Holds
  <2>1. /\ pc[w] = "open" /\ pc'[w] = "write" /\ file' = Empty
        /\ \A v \in Writers \ {w} : pc'[v] = pc[v]
    BY <1>0, <1>6 DEF Open, Truncated
  <2>2. UNCHANGED <<mem, dirty, snap, raced>>
    BY <1>6 DEF Open
  <2> QED BY <2>1, <2>2 DEF RaceInv
<1>7. ASSUME NEW w \in Writers, Write(w) PROVE Holds
  <2>1. /\ pc[w] = "write" /\ pc'[w] = "cas"
        /\ \A v \in Writers \ {w} : pc'[v] = pc[v] /\ snap'[v] = snap[v]
    BY <1>0, <1>7 DEF Write
  <2>2. UNCHANGED <<mem, dirty, raced>>
    BY <1>7 DEF Write
  <2>3. file \in {Empty, mem} /\ snap[w] = mem
    BY <2>1, <2>2 DEF RaceInv
  <2>4. file' = mem
    BY <1>7, <2>3 DEF Write, WriteOutcomes
  <2>5. Persisted'
    BY <2>2, <2>4, StateLoads DEF Loaded
  <2> QED BY <2>1, <2>2, <2>4, <2>5 DEF RaceInv
<1>8. ASSUME NEW w \in Writers, WriteFails(w) PROVE Holds
  <2>1. w = FlushTask /\ dirty' /\ \A v \in Writers \ {w} : ~InFlight(v)
    BY <1>8 DEF WriteFails, Harmless
  <2>2. pc'[w] = "idle" /\ \A v \in Writers \ {w} : pc'[v] = pc[v]
    BY <1>0, <1>8, <2>1 DEF WriteFails, AfterFailure
  <2> QED BY <2>1, <2>2 DEF InFlight
<1>9. ASSUME NEW w \in Writers, Cas(w) PROVE Holds
  <2>1. pc[w] = "cas" /\ pc'[w] = "idle" /\ \A v \in Writers \ {w} : pc'[v] = pc[v]
    BY <1>0, <1>9 DEF Cas
  <2>2. UNCHANGED <<mem, file, snap, raced>>
    BY <1>9 DEF Cas
  <2> QED BY <2>1, <2>2 DEF RaceInv
<1>10. CASE Restart
  <2>1. \A w \in Writers : pc'[w] = "idle"
    BY <1>10 DEF Restart
  <2>2. Persisted'
    BY <1>10 DEF Restart, Loaded
  <2> QED BY <2>1, <2>2
<1>11. CASE Tick \/ UNCHANGED vars
  BY <1>11 DEF Tick, vars, RaceInv
<1> QED BY <1>1, <1>2, <1>3, <1>4, <1>5, <1>6, <1>7, <1>8, <1>9, <1>10, <1>11, CallCases
    DEF Next, Healthy, Saving

(* write_to_disk() and mark_dirty(): with the flag down and nobody on the  *)
(* way to the disk a restart would lose nothing, but for the two races.    *)
THEOREM AlwaysDurableUnlessRaced ==
  ASSUME Unparsable
  PROVE  Spec => []DurableUnlessRaced
<1>1. StoreInv /\ RaceInv /\ [Next]_vars => RaceInv'
  BY StepRace
<1>2. RaceInv => DurableUnlessRaced
  BY DEF RaceInv, CleanIsSaved, DurableUnlessRaced, Quiet, Unfinished
<1> QED BY InitInv, StepInv, InitRace, <1>1, <1>2, PTL DEF Spec

-----------------------------------------------------------------------------
LEMMA StepWhole ==
  ASSUME Unparsable, StoreInv, RaceInv, FileWhole, [Next]_vars
  PROVE  FileWhole'
<1> SUFFICES ASSUME file' \in {Empty, Garbled}, ~cut', ~raced'
             PROVE  \E w \in Writers : pc'[w] = "write"
  BY DEF FileWhole
<1>0. pc \in [Writers -> Pcs] /\ DOMAIN snap = Writers
  BY DEF StoreInv, StoreTypes
<1>1. ASSUME NEW w \in Writers, Open(w) PROVE \E v \in Writers : pc'[v] = "write"
  BY <1>0, <1>1 DEF Open
<1>2. ASSUME NEW w \in Writers, Write(w) PROVE FALSE
  <2>1. file \in {Empty, mem} /\ snap[w] = mem
    BY <1>2 DEF Write, RaceInv, FileIsMem, CarriedIsMem, Carrying
  <2> QED BY <1>2, <2>1, StateLoads DEF Write, WriteOutcomes
<1>3. ASSUME NEW w \in Writers, WriteFails(w) PROVE \E v \in Writers : pc'[v] = "write"
  <2>1. /\ file \in {Empty, Garbled} /\ ~cut /\ ~raced /\ pc[w] # "write"
        /\ \A v \in Writers \ {w} : pc'[v] = pc[v]
    BY <1>0, <1>3 DEF WriteFails
  <2> QED BY <2>1 DEF FileWhole
<1>4. CASE Restart
  BY <1>4 DEF Restart, FileWhole
<1>5. ASSUME file' = file, cut' = cut, raced => raced',
             \A w \in Writers : pc[w] = "write" => pc'[w] = "write"
      PROVE  \E w \in Writers : pc'[w] = "write"
  BY <1>5 DEF FileWhole
<1>6. ASSUME NEW c \in Calls, CallStep(c) PROVE \E w \in Writers : pc'[w] = "write"
  <2>1. file' = file /\ cut' = cut /\ (raced => raced')
    <3>1. CASE Alters(c)
      BY <3>1 DEF Alters, Changes, Mutate
    <3>2. CASE (\E x \in Bases : ReadId(c, x)) \/ GiveUp(c) \/ MarkDirty(c)
      BY <3>2 DEF ReadId, GiveUp, MarkDirty
    <3> QED BY <1>6, <3>1, <3>2, CallCases
  <2>2. \A w \in Writers : pc[w] = "write" => pc'[w] = "write"
    BY <1>0, <1>6 DEF CallStep, ReadId, BumpSession, AppendConversation, SelectModel, GiveUp, MarkDirty, Mutate
  <2> QED BY <1>5, <2>1, <2>2
<1>7. ASSUME NEW w \in Writers, Snapshot(w) \/ Cas(w) PROVE \E v \in Writers : pc'[v] = "write"
  BY <1>0, <1>5, <1>7 DEF Snapshot, Cas
<1>8. CASE FlushTick \/ Tick \/ UNCHANGED vars
  BY <1>0, <1>5, <1>8 DEF FlushTick, Tick, vars
<1> QED BY <1>1, <1>2, <1>3, <1>4, <1>6, <1>7, <1>8 DEF Next, Healthy, Saving

(* tokio::fs::write: without a crash or a failure in the middle of a save, *)
(* and without a race, the file always parses but between its truncation   *)
(* and the write.                                                          *)
THEOREM FileAlwaysWhole ==
  ASSUME Unparsable
  PROVE  Spec => []FileWhole
<1>1. Init => FileWhole
  BY StoreAssumption DEF Init, FileWhole
<1>2. StoreInv /\ RaceInv /\ FileWhole /\ [Next]_vars => FileWhole'
  BY StepWhole
<1>3. StoreInv /\ RaceInv /\ [Next]_vars => RaceInv'
  BY StepRace
<1> QED BY InitInv, StepInv, InitRace, <1>1, <1>2, <1>3, PTL DEF Spec
-----------------------------------------------------------------------------
(* A change gets saved.  What must still happen is on some writer's way:   *)
(* a call is to raise the flag or to save, or the flush task is due.       *)
Saved == Persisted \/ raced

OnTheWay(w) == pc[w] \in {"snap", "open", "write"}
CallOnTheWay == \E c \in Calls : OnTheWay(c)
ToBeMarked == \E c \in Calls : pc[c] = "mark"
FlushDue == dirty \/ OnTheWay(FlushTask)

(* What fairness is about: an action whose guard holds can be taken.  Each *)
(* of these can be read off the action, whose other conjuncts only say     *)
(* what becomes of each variable; the provers do not reason about ENABLED, *)
(* so UnsavedIsSaved assumes it.                                           *)
SaveEnabled(w) ==
  /\ pc[w] = "snap" => ENABLED <<Snapshot(w)>>_vars
  /\ pc[w] = "open" => ENABLED <<Open(w)>>_vars
  /\ pc[w] = "write" => ENABLED <<Write(w)>>_vars

MarkEnabled(c) == pc[c] = "mark" => ENABLED <<MarkDirty(c)>>_vars

FlushEnabled == pc[FlushTask] = "idle" /\ dirty => ENABLED <<FlushTick>>_vars

GuardsEnable ==
  /\ \A c \in Calls : MarkEnabled(c)
  /\ FlushEnabled
  /\ \A w \in Writers : SaveEnabled(w)

DurableInv == StoreInv /\ RaceInv

(* While nothing raced, whoever writes saves what is in memory.            *)
LEMMA WriteSaves ==
  ASSUME Unparsable, DurableInv, NEW w \in Writers, Write(w), ~raced
  PROVE  Persisted'
<1>1. file \in {Empty, mem} /\ snap[w] = mem
  BY DEF Write, DurableInv, RaceInv, FileIsMem, CarriedIsMem, Carrying
<1>2. file' = mem /\ mem' = mem
  BY <1>1 DEF Write, WriteOutcomes
<1> QED BY <1>2, StateLoads DEF DurableInv, Persisted, Loaded

(* Who moves where while nothing is saved and nothing raced.               *)
Hop(w, from, to) == pc[w] = from /\ pc'[w] = to /\ \A v \in Writers \ {w} : pc'[v] = pc[v]

LEMMA UnsavedSteps ==
  ASSUME Unparsable, DurableInv, ~Saved, [Next]_vars, ~Saved'
  PROVE  \/ /\ dirty' = dirty
            /\ \/ pc' = pc
               \/ \E w \in Writers : Hop(w, "snap", "open") \/ Hop(w, "open", "write")
               \/ Hop(FlushTask, "idle", "snap") /\ dirty
               \/ \E c \in Calls : \E to \in {"idle", "hold", "mark", "snap"} : 
                    Hop(c, "idle", to) \/ Hop(c, "hold", to)
               \/ dirty /\ \E from \in {"open", "write"} : Hop(FlushTask, from, "idle")
         \/ dirty' /\ \E c \in Calls : Hop(c, "mark", "idle")
         \/ \E w \in Writers : Hop(w, "cas", "idle") /\ dirty' = FALSE
<1>0. pc \in [Writers -> Pcs] /\ FlushTask \in Writers /\ Calls \subseteq Writers
  BY DEF DurableInv, StoreInv, StoreTypes, Writers
<1>1. ASSUME NEW c \in Calls, CallStep(c)
      PROVE  \/ /\ dirty' = dirty
                /\ \E to \in {"idle", "hold", "mark", "snap"} :
                     Hop(c, "idle", to) \/ Hop(c, "hold", to)
             \/ dirty' /\ Hop(c, "mark", "idle")
  BY <1>0, <1>1 DEF CallStep, ReadId, BumpSession, AppendConversation, SelectModel, GiveUp, MarkDirty,
     Marked, Mutate, Hop
<1>2. CASE FlushTick
  BY <1>0, <1>2 DEF FlushTick, Hop
<1>3. ASSUME NEW w \in Writers, Snapshot(w) \/ Open(w)
      PROVE  dirty' = dirty /\ (Hop(w, "snap", "open") \/ Hop(w, "open", "write"))
  BY <1>0, <1>3 DEF Snapshot, Open, Hop
<1>4. ASSUME NEW w \in Writers, Write(w) PROVE FALSE
  BY <1>4, WriteSaves DEF Saved
<1>5. ASSUME NEW w \in Writers, Cas(w) PROVE Hop(w, "cas", "idle") /\ dirty' = FALSE
  BY <1>0, <1>5 DEF Cas, Hop
<1>6. ASSUME NEW w \in Writers, WriteFails(w)
      PROVE  dirty' = dirty /\ dirty /\ \E from \in {"open", "write"} : Hop(FlushTask, from, "idle")
  <2>1. Harmless(w)
    BY <1>6 DEF WriteFails, Saved
  <2> QED BY <1>0, <1>6, <2>1 DEF WriteFails, AfterFailure, Harmless, Hop
<1>7. CASE Restart
  BY <1>7 DEF Restart, Persisted, Saved
<1>8. CASE Tick \/ UNCHANGED vars
  BY <1>8 DEF Tick, vars
<1> QED BY <1>1, <1>2, <1>3, <1>4, <1>5, <1>6, <1>7, <1>8 DEF Next, Healthy, Saving

(* What is not saved is on somebody's way.                                 *)
LEMMA UnsavedIsKnown ==
  ASSUME DurableInv, ~Saved
  PROVE  CallOnTheWay \/ ToBeMarked \/ FlushDue
<1>1. pc[FlushTask] # "mark" /\ FlushTask \in Writers /\ Writers = Calls \cup {FlushTask}
  BY DEF DurableInv, StoreInv, StoreTypes, Writers
<1> QED BY <1>1 DEF DurableInv, RaceInv, CleanIsSaved, Unfinished, Saved, CallOnTheWay, ToBeMarked, FlushDue,
           OnTheWay

(* A call on its way to the disk cannot be stopped but by a race.          *)
LEMMA CallSaves ==
  ASSUME Unparsable, NEW c \in Calls
  PROVE  [](DurableInv /\ GuardsEnable) /\ [][Next]_vars /\ SaveFair(c) => (OnTheWay(c) ~> Saved)
<1> DEFINE At(p) == pc[c] = p
<1>0. c \in Writers /\ c # FlushTask
  BY StoreAssumption DEF Writers
<1>1. DurableInv /\ [Next]_vars /\ At("snap") /\ ~Saved => At("snap")' \/ At("open")' \/ Saved'
  BY <1>0, UnsavedSteps DEF Hop
<1>2. DurableInv /\ [Next]_vars /\ At("open") /\ ~Saved => At("open")' \/ At("write")' \/ Saved'
  BY <1>0, UnsavedSteps DEF Hop
<1>3. DurableInv /\ [Next]_vars /\ At("write") /\ ~Saved => At("write")' \/ Saved'
  BY <1>0, UnsavedSteps DEF Hop
<1>4. DurableInv /\ <<Snapshot(c)>>_vars => At("open")'
  BY <1>0 DEF Snapshot, DurableInv, StoreInv, StoreTypes
<1>5. DurableInv /\ <<Open(c)>>_vars => At("write")'
  BY <1>0 DEF Open, DurableInv, StoreInv, StoreTypes
<1>6. DurableInv /\ ~Saved /\ <<Write(c)>>_vars => Saved'
  BY <1>0, WriteSaves DEF Saved
<1>7. GuardsEnable => SaveEnabled(c)
  BY <1>0 DEF GuardsEnable
<1>12. SaveEnabled(c) => (At("snap") => ENABLED <<Snapshot(c)>>_vars)
  BY DEF SaveEnabled
<1>13. SaveEnabled(c) => (At("open") => ENABLED <<Open(c)>>_vars)
  BY DEF SaveEnabled
<1>14. SaveEnabled(c) => (At("write") => ENABLED <<Write(c)>>_vars)
  BY DEF SaveEnabled
<1>8. OnTheWay(c) <=> At("snap") \/ At("open") \/ At("write")
  BY DEF OnTheWay
<1> HIDE DEF At
<1>9. [](DurableInv /\ GuardsEnable) /\ [][Next]_vars /\ SaveFair(c) => (At("write") ~> Saved)
  BY <1>3, <1>6, <1>7, <1>14, PTL DEF SaveFair
<1>10. [](DurableInv /\ GuardsEnable) /\ [][Next]_vars /\ SaveFair(c) => (At("open") ~> Saved)
  BY <1>2, <1>5, <1>7, <1>9, <1>13, PTL DEF SaveFair
<1>11. [](DurableInv /\ GuardsEnable) /\ [][Next]_vars /\ SaveFair(c) => (At("snap") ~> Saved)
  BY <1>1, <1>4, <1>7, <1>10, <1>12, PTL DEF SaveFair
<1> QED BY <1>8, <1>9, <1>10, <1>11, PTL

(* So a save on its way, whichever call's it is, gets the state saved.     *)
LEMMA SomeCallSaves ==
  ASSUME Unparsable
  PROVE  [](DurableInv /\ GuardsEnable) /\ [][Next]_vars /\ (\A w \in Writers : SaveFair(w))
           => (CallOnTheWay ~> Saved)
<1>1. ASSUME NEW c \in Calls
      PROVE  [](DurableInv /\ GuardsEnable) /\ [][Next]_vars /\ (\A w \in Writers : SaveFair(w))
               => [](OnTheWay(c) => <>Saved)
  <2>1. (\A w \in Writers : SaveFair(w)) => SaveFair(c)
    BY DEF Writers
  <2> QED BY <2>1, CallSaves, PTL
<1>2. [](DurableInv /\ GuardsEnable) /\ [][Next]_vars /\ (\A w \in Writers : SaveFair(w))
        => \A c \in Calls : [](OnTheWay(c) => <>Saved)
  BY <1>1
<1>3. (\A c \in Calls : [](OnTheWay(c) => <>Saved)) => [](\A c \in Calls : (OnTheWay(c) => <>Saved))
  OBVIOUS
<1>4. (\A c \in Calls : (OnTheWay(c) => <>Saved)) => (CallOnTheWay => <>Saved)
  BY DEF CallOnTheWay
<1> QED BY <1>2, <1>3, <1>4, PTL

(* A call that has changed the state raises the flag.                      *)
LEMMA MarkGetsMade ==
  ASSUME Unparsable, NEW c \in Calls
  PROVE  [](DurableInv /\ GuardsEnable) /\ [][Next]_vars /\ MarkFair(c)
           => (pc[c] = "mark" ~> (dirty \/ Saved))
<1> DEFINE Here == pc[c] = "mark"
<1>0. c \in Writers /\ c # FlushTask
  BY StoreAssumption DEF Writers
<1>1. DurableInv /\ [Next]_vars /\ Here /\ ~Saved => Here' \/ dirty' \/ Saved'
  <2> SUFFICES ASSUME DurableInv, [Next]_vars, Here, ~Saved, ~Saved' PROVE Here' \/ dirty'
    OBVIOUS
  <2>1. CASE \E d \in Calls : Hop(d, "mark", "idle") /\ dirty'
    BY <2>1
  <2>2. CASE pc' = pc
    BY <2>2
  <2>3. ASSUME NEW w \in Writers, NEW from \in {"snap", "open", "idle", "hold", "write", "cas"},
               NEW to, Hop(w, from, to)
        PROVE  Here'
    BY <1>0, <2>3 DEF Hop
  <2>4. FlushTask \in Writers /\ Calls \subseteq Writers
    BY DEF Writers
  <2> QED BY UnsavedSteps, <2>1, <2>2, <2>3, <2>4
<1>2. <<MarkDirty(c)>>_vars => dirty'
  BY DEF MarkDirty, Marked
<1>3. GuardsEnable => MarkEnabled(c)
  BY DEF GuardsEnable
<1>4. MarkEnabled(c) => (Here => ENABLED <<MarkDirty(c)>>_vars)
  BY DEF MarkEnabled
<1> HIDE DEF Here
<1>5. [](DurableInv /\ GuardsEnable) /\ [][Next]_vars /\ MarkFair(c) => (Here ~> (dirty \/ Saved))
  BY <1>1, <1>2, <1>3, <1>4, PTL DEF MarkFair
<1> QED BY <1>5 DEF Here

LEMMA SomeMarkGetsMade ==
  ASSUME Unparsable
  PROVE  [](DurableInv /\ GuardsEnable) /\ [][Next]_vars /\ (\A c \in Calls : MarkFair(c))
           => (ToBeMarked ~> (dirty \/ Saved))
<1>1. ASSUME NEW c \in Calls
      PROVE  [](DurableInv /\ GuardsEnable) /\ [][Next]_vars /\ (\A d \in Calls : MarkFair(d))
               => [](pc[c] = "mark" => <>(dirty \/ Saved))
  <2>1. (\A d \in Calls : MarkFair(d)) => MarkFair(c)
    OBVIOUS
  <2> QED BY <2>1, MarkGetsMade, PTL
<1>2. [](DurableInv /\ GuardsEnable) /\ [][Next]_vars /\ (\A c \in Calls : MarkFair(c))
        => \A c \in Calls : [](pc[c] = "mark" => <>(dirty \/ Saved))
  BY <1>1
<1>3. (\A c \in Calls : [](pc[c] = "mark" => <>(dirty \/ Saved)))
        => [](\A c \in Calls : (pc[c] = "mark" => <>(dirty \/ Saved)))
  OBVIOUS
<1>4. (\A c \in Calls : (pc[c] = "mark" => <>(dirty \/ Saved))) => (ToBeMarked => <>(dirty \/ Saved))
  BY DEF ToBeMarked
<1> QED BY <1>2, <1>3, <1>4, PTL

(* While no call saves, the flush task stays due, and nobody lowers the    *)
(* flag: it goes round from its tick to the write, and back after each     *)
(* failure.                                                                *)
LEMMA FlushStep ==
  ASSUME Unparsable, DurableInv, FlushDue, ~Saved, ~CallOnTheWay, [Next]_vars, ~Saved', ~CallOnTheWay'
  PROVE  /\ FlushDue' /\ pc[FlushTask] \in {"idle", "snap", "open", "write"}
         /\ pc[FlushTask] = "idle" => dirty /\ pc'[FlushTask] \in {"idle", "snap"}
         /\ pc[FlushTask] = "snap" => pc'[FlushTask] \in {"snap", "open"}
         /\ pc[FlushTask] = "open" => pc'[FlushTask] \in {"open", "write", "idle"}
         /\ pc[FlushTask] = "write" => pc'[FlushTask] \in {"write", "idle"}
<1>0. /\ pc \in [Writers -> Pcs] /\ FlushTask \in Writers /\ FlushTask \notin Calls
      /\ pc[FlushTask] \notin {"hold", "mark"} /\ Writers = Calls \cup {FlushTask}
  BY StoreAssumption DEF DurableInv, StoreInv, StoreTypes, Writers
<1>1. \A c \in Calls : pc[c] # "write"
  BY DEF CallOnTheWay, OnTheWay
<1>2. \A w \in Writers : pc[w] = "cas" => pc[FlushTask] = "write"
  BY <1>0, <1>1 DEF DurableInv, RaceInv, LastWriteStays, Saved
<1>3. pc[FlushTask] \in {"idle", "snap", "open", "write"}
  BY <1>0, <1>2 DEF Pcs
<1>4. pc[FlushTask] = "idle" => dirty
  BY DEF FlushDue, OnTheWay
<1>5. CASE dirty' = dirty
  <2> USE DEF FlushDue, OnTheWay
  <2>1. CASE pc' = pc
    BY <1>3, <1>4, <1>5, <2>1
  <2>2. ASSUME NEW w \in Writers, Hop(w, "snap", "open") \/ Hop(w, "open", "write")
        PROVE  \/ pc'[FlushTask] = pc[FlushTask]
               \/ pc[FlushTask] = "snap" /\ pc'[FlushTask] = "open"
               \/ pc[FlushTask] = "open" /\ pc'[FlushTask] = "write"
    BY <1>0, <2>2 DEF Hop
  <2>3. ASSUME NEW c \in Calls, NEW from, NEW to, Hop(c, from, to) PROVE pc'[FlushTask] = pc[FlushTask]
    BY <1>0, <2>3 DEF Hop
  <2>4. CASE \E w \in Writers : Hop(w, "snap", "open") \/ Hop(w, "open", "write")
    BY <1>3, <1>4, <1>5, <2>2, <2>4
  <2>5. CASE Hop(FlushTask, "idle", "snap") /\ dirty
    BY <1>3, <1>4, <1>5, <2>5 DEF Hop
  <2>6. CASE dirty /\ \E from \in {"open", "write"} : Hop(FlushTask, from, "idle")
    BY <1>3, <1>4, <1>5, <2>6 DEF Hop
  <2>7. CASE pc'[FlushTask] = pc[FlushTask]
    BY <1>3, <1>4, <1>5, <2>7
  <2>8. ASSUME NEW w \in Writers, Hop(w, "cas", "idle") PROVE pc'[FlushTask] = pc[FlushTask]
    BY <1>0, <1>2, <2>8 DEF Hop
  <2> QED BY <2>1, <2>3, <2>4, <2>5, <2>6, <2>7, <2>8, UnsavedSteps
<1>6. CASE \E w \in Writers : Hop(w, "cas", "idle") /\ dirty' = FALSE
  <2>1. pc'[FlushTask] = "write" /\ pc[FlushTask] = "write"
    BY <1>0, <1>2, <1>6 DEF Hop
  <2> QED BY <2>1 DEF FlushDue, OnTheWay
<1>7. CASE dirty' /\ \E c \in Calls : Hop(c, "mark", "idle")
  <2>1. pc'[FlushTask] = pc[FlushTask]
    BY <1>0, <1>7 DEF Hop
  <2> QED BY <1>3, <1>4, <1>7, <2>1 DEF FlushDue
<1> QED BY <1>5, <1>6, <1>7, UnsavedSteps

(* It snapshots once the flag is up; as often as open or write fail it is  *)
(* back, so that one day both are carried out.                             *)
LEMMA FlushSaves ==
  ASSUME Unparsable
  PROVE  [](DurableInv /\ GuardsEnable) /\ [][Next]_vars /\ WF_vars(FlushTick) /\ SaveFair(FlushTask)
           => (FlushDue ~> Saved \/ CallOnTheWay)
<1> DEFINE At(p) == pc[FlushTask] = p
           Done == Saved \/ CallOnTheWay
           Due == FlushDue /\ ~Done
<1>0. FlushTask \in Writers
  BY DEF Writers
<1>1. DurableInv /\ Due /\ [Next]_vars /\ ~Done'
        => /\ Due' /\ (At("idle") \/ At("snap") \/ At("open") \/ At("write"))
           /\ At("idle") => At("idle")' \/ At("snap")'
           /\ At("snap") => At("snap")' \/ At("open")'
           /\ At("open") => At("open")' \/ At("write")' \/ At("idle")'
           /\ At("write") => At("write")' \/ At("idle")'
  BY FlushStep
<1>2. Due /\ At("idle") => dirty
  BY DEF FlushDue, OnTheWay
<1>3. DurableInv /\ <<FlushTick>>_vars => At("snap")'
  BY <1>0 DEF FlushTick, DurableInv, StoreInv, StoreTypes
<1>4. DurableInv /\ <<Snapshot(FlushTask)>>_vars => At("open")'
  BY <1>0 DEF Snapshot, DurableInv, StoreInv, StoreTypes
<1>5. DurableInv /\ <<Open(FlushTask)>>_vars => At("write")'
  BY <1>0 DEF Open, DurableInv, StoreInv, StoreTypes
<1>6. DurableInv /\ ~Done /\ <<Write(FlushTask)>>_vars => Done'
  BY <1>0, WriteSaves DEF Saved
<1>7. GuardsEnable => SaveEnabled(FlushTask) /\ FlushEnabled
  BY <1>0 DEF GuardsEnable
<1>8. SaveEnabled(FlushTask) => (At("snap") => ENABLED <<Snapshot(FlushTask)>>_vars)
  BY DEF SaveEnabled
<1>9. SaveEnabled(FlushTask) => (At("open") => ENABLED <<Open(FlushTask)>>_vars)
  BY DEF SaveEnabled
<1>10. SaveEnabled(FlushTask) => (At("write") => ENABLED <<Write(FlushTask)>>_vars)
  BY DEF SaveEnabled
<1>11. FlushEnabled => (At("idle") /\ dirty => ENABLED <<FlushTick>>_vars)
  BY DEF FlushEnabled
<1> HIDE DEF At
<1> DEFINE Fine == [](DurableInv /\ GuardsEnable) /\ [][Next]_vars
<1>12. Fine /\ SaveFair(FlushTask) /\ WF_vars(FlushTick)
         => (Due /\ At("idle") ~> Done \/ (Due /\ At("snap")))
  BY <1>1, <1>2, <1>3, <1>7, <1>11, PTL
<1>13. Fine /\ SaveFair(FlushTask) => (Due /\ At("snap") ~> Done \/ (Due /\ At("open")))
  BY <1>1, <1>4, <1>7, <1>8, PTL DEF SaveFair
<1>14. Fine /\ SaveFair(FlushTask) /\ WF_vars(FlushTick) => (Due ~> Done \/ (Due /\ At("open")) \/ (Due /\ At("write")))
  BY <1>1, <1>12, <1>13, PTL
<1>15. Fine /\ SaveFair(FlushTask) /\ WF_vars(FlushTick) => (Due ~> Done \/ (Due /\ At("write")))
  BY <1>1, <1>5, <1>7, <1>9, <1>14, PTL DEF SaveFair
<1>16. Fine /\ SaveFair(FlushTask) /\ WF_vars(FlushTick) => (Due ~> Done)
  BY <1>1, <1>6, <1>7, <1>10, <1>15, PTL DEF SaveFair
<1> QED BY <1>16, PTL

(* spawn_flush_task(), flush() and mark_dirty(): a change reaches the disk *)
(* whatever writes fail before, for any number of calls, changes and       *)
(* restarts, as long as the disk works again and no change comes under a   *)
(* flush.                                                                  *)
THEOREM UnsavedIsSaved ==
  ASSUME Unparsable
  PROVE  FairSpec /\ []GuardsEnable => UnsavedGetsSaved
<1>1. StoreInv /\ RaceInv /\ [Next]_vars => RaceInv'
  BY StepRace
<1>2. Spec => []DurableInv
  BY InitInv, StepInv, InitRace, <1>1, PTL DEF Spec, DurableInv
<1>3. DurableInv => Saved \/ CallOnTheWay \/ ToBeMarked \/ FlushDue
  BY UnsavedIsKnown
<1>4. dirty => FlushDue
  BY DEF FlushDue
<1>5. (\A w \in Writers : SaveFair(w)) => SaveFair(FlushTask)
  BY DEF Writers
<1>6. FairSpec => /\ Spec /\ WF_vars(FlushTick)
                  /\ (\A w \in Writers : SaveFair(w)) /\ (\A c \in Calls : MarkFair(c))
  BY PTL DEF FairSpec
<1>7. Spec => [][Next]_vars
  BY DEF Spec
<1>8. FairSpec /\ []GuardsEnable => (FlushDue ~> Saved \/ CallOnTheWay)
  BY <1>2, <1>5, <1>6, <1>7, FlushSaves, PTL
<1>9. FairSpec /\ []GuardsEnable => (CallOnTheWay ~> Saved)
  BY <1>2, <1>6, <1>7, SomeCallSaves, PTL
<1>10. FairSpec /\ []GuardsEnable => (ToBeMarked ~> (dirty \/ Saved))
  BY <1>2, <1>6, <1>7, SomeMarkGetsMade, PTL
<1>11. FairSpec /\ []GuardsEnable => (~Persisted ~> Saved)
  BY <1>2, <1>3, <1>4, <1>6, <1>8, <1>9, <1>10, PTL
<1> QED BY <1>11 DEF UnsavedGetsSaved, Saved
=============================================================================

----------------------------- MODULE LimitProofs -----------------------------
(***************************************************************************)
(* Proofs about the two limits the plugin keeps to: NotificationGuard, for *)
(* every set of users and of calls and every cooldown and size of the map, *)
(* and RateLimiter, for every number of requests, every MaxRpm and every   *)
(* resolution of the clock.                                                *)
(***************************************************************************)
EXTENDS NotificationGuard, RateLimiter, FiniteSetTheorems, TLAPS

(* What the map may become when a notice is recorded: entries it had, or   *)
(* the new one; all of them if the map is not over its limit.              *)
LEMMA RecordedOutcome ==
  ASSUME TypeOK, NEW c \in Calls, NEW m \in Recorded(c)
  PROVE  /\ DOMAIN m \subseteq DOMAIN cooldowns \cup {user[c]}
         /\ m \in [DOMAIN m -> 0 .. MaxTime]
         /\ \A u \in DOMAIN m : m[u] = IF u = user[c] THEN seen[c] ELSE cooldowns[u]
         /\ Cardinality(DOMAIN m) <= MaxEntries
         /\ \/ m = Put(cooldowns, user[c], seen[c])
            \/ Cardinality(DOMAIN cooldowns \cup {user[c]}) > MaxEntries
<1> DEFINE P == Put(cooldowns, user[c], seen[c])
<1>1. /\ DOMAIN P = DOMAIN cooldowns \cup {user[c]}
      /\ P \in [DOMAIN P -> 0 .. MaxTime]
      /\ \A u \in DOMAIN P : P[u] = IF u = user[c] THEN seen[c] ELSE cooldowns[u]
  BY DEF TypeOK, Put
<1>2. DOMAIN P \subseteq Users
  BY <1>1 DEF TypeOK
<1>3. /\ IsFiniteSet(DOMAIN P)
      /\ Cardinality(DOMAIN P) \in Nat
  BY <1>2, GuardAssumption, FS_Subset, FS_CardinalityType
<1>4. CASE Cardinality(DOMAIN P) > MaxEntries
  <2> DEFINE R == {u \in DOMAIN P : P[u] > seen[c] - 2 * Cooldown}
  <2>1. PICK S \in LatestCuts(R, P, EvictThreshold) : m = [u \in S |-> P[u]]
    BY <1>4 DEF Recorded, EvictOutcomes
  <2>2. IsFiniteSet(R)
    BY <1>3, FS_Subset
  <2>3. S \subseteq R /\ IsFiniteSet(S) /\ Cardinality(S) <= EvictThreshold
    <3> HIDE DEF R, P
    <3>1. S \subseteq R /\ Cardinality(S) <= EvictThreshold
      BY <2>1, GuardAssumption DEF LatestCuts
    <3> QED BY <2>2, <3>1, FS_Subset
  <2>4. Cardinality(S) <= MaxEntries
    BY <2>3, GuardAssumption, FS_CardinalityType
  <2>5. DOMAIN m = S /\ S \subseteq DOMAIN P /\ \A u \in S : m[u] = P[u]
    BY <2>1, <2>3
  <2>6. Cardinality(DOMAIN cooldowns \cup {user[c]}) > MaxEntries
    BY <1>1, <1>4
  <2>7. m \in [DOMAIN m -> 0 .. MaxTime]
    BY <1>1, <2>1, <2>5
  <2> QED BY <1>1, <2>4, <2>5, <2>6, <2>7
<1>5. CASE ~(Cardinality(DOMAIN P) > MaxEntries)
  <2>1. m = P
    BY <1>5 DEF Recorded
  <2>2. Cardinality(DOMAIN P) <= MaxEntries
    BY <1>3, <1>5, GuardAssumption
  <2> QED BY <1>1, <2>1, <2>2
<1> QED BY <1>4, <1>5

-----------------------------------------------------------------------------
(* Every entry of the map is the clock of a call that notified its user.   *)
EntriesFromNotices ==
  \A u \in DOMAIN cooldowns :
    \E d \in Calls : pc[d] = "told" /\ user[d] = u /\ seen[d] = cooldowns[u]

GuardInv == TypeOK /\ Bounded /\ EntriesFromNotices /\ SilenceJustified

LEMMA InitGuardInv == Init => GuardInv
<1> SUFFICES ASSUME Init PROVE GuardInv
  OBVIOUS
<1>1. DOMAIN cooldowns = {} /\ cooldowns \in [DOMAIN cooldowns -> 0 .. MaxTime]
  BY DEF Init
<1>2. TypeOK
  BY <1>1, GuardAssumption DEF Init, TypeOK
<1>3. EntriesFromNotices
  BY <1>1 DEF EntriesFromNotices
<1>4. SilenceJustified
  BY DEF Init, SilenceJustified
<1>5. Bounded
  BY <1>1, FS_EmptySet, GuardAssumption DEF Bounded
<1> QED BY <1>2, <1>3, <1>4, <1>5 DEF GuardInv

(* A refused call has been refused because of an entry, which is a notice. *)
LEMMA Refused ==
  ASSUME GuardInv, NEW c \in Calls, Cooling(c), pc[c] \in {"read", "write"},
         pc' = [pc EXCEPT ![c] = "silent"], UNCHANGED <<user, seen, cooldowns, clock>>
  PROVE  GuardInv'
<1> USE DEF GuardInv
<1>1. TypeOK' /\ Bounded'
  BY DEF TypeOK, Bounded
<1>2. \A d \in Calls : pc[d] = "told" => pc'[d] = "told"
  BY DEF TypeOK
<1>3. EntriesFromNotices'
  BY <1>2 DEF EntriesFromNotices
<1>4. SilenceJustified'
  <2>1. PICK d \in Calls : pc[d] = "told" /\ user[d] = user[c] /\ seen[d] = cooldowns[user[c]]
    BY DEF EntriesFromNotices, Cooling
  <2>2. seen[c] - seen[d] < Cooldown
    BY <2>1 DEF Cooling
  <2> QED BY <1>2, <2>1, <2>2 DEF SilenceJustified, TypeOK
<1> QED BY <1>1, <1>3, <1>4

LEMMA StepGuardInv ==
  ASSUME GuardInv, [Next]_vars
  PROVE  GuardInv'
<1> USE DEF GuardInv
<1>1. ASSUME NEW c \in Calls, ReadClock(c) PROVE GuardInv'
  BY <1>1 DEF ReadClock, TypeOK, Bounded, EntriesFromNotices, SilenceJustified
<1>2. ASSUME NEW c \in Calls, FirstCheck(c) PROVE GuardInv'
  <2>1. CASE Cooling(c)
    BY <1>2, <2>1, Refused DEF FirstCheck, AfterRefusal
  <2>2. CASE ~Cooling(c)
    BY <1>2, <2>2 DEF FirstCheck, TypeOK, Bounded, EntriesFromNotices, SilenceJustified
  <2> QED BY <2>1, <2>2
<1>3. ASSUME NEW c \in Calls, SecondCheck(c) PROVE GuardInv'
  <2>1. CASE Cooling(c)
    BY <1>3, <2>1, Refused DEF SecondCheck, StillCooling, AfterRefusal
  <2>2. CASE ~Cooling(c)
    <3>1. /\ cooldowns' \in Recorded(c)
          /\ pc' = [pc EXCEPT ![c] = "told"] /\ pc[c] = "write"
          /\ UNCHANGED <<user, seen, clock>>
      BY <1>3, <2>2 DEF SecondCheck, StillCooling
    <3>2. /\ DOMAIN cooldowns' \subseteq DOMAIN cooldowns \cup {user[c]}
          /\ cooldowns' \in [DOMAIN cooldowns' -> 0 .. MaxTime]
          /\ \A u \in DOMAIN cooldowns' :
               cooldowns'[u] = IF u = user[c] THEN seen[c] ELSE cooldowns[u]
          /\ Cardinality(DOMAIN cooldowns') <= MaxEntries
      BY <3>1, RecordedOutcome
    <3>3. TypeOK' /\ Bounded'
      BY <3>1, <3>2 DEF TypeOK, Bounded
    <3>4. pc'[c] = "told" /\ \A d \in Calls : pc[d] = "told" => pc'[d] = "told"
      BY <3>1 DEF TypeOK
    <3>5. EntriesFromNotices'
      BY <3>1, <3>2, <3>4 DEF EntriesFromNotices
    <3>6. SilenceJustified'
      BY <3>1, <3>4 DEF SilenceJustified, TypeOK
    <3> QED BY <3>3, <3>5, <3>6
  <2> QED BY <2>1, <2>2
<1>4. CASE SetClock
  BY <1>4 DEF SetClock, TypeOK, Bounded, EntriesFromNotices, SilenceJustified
<1>5. CASE UNCHANGED vars
  BY <1>5 DEF vars, TypeOK, Bounded, EntriesFromNotices, SilenceJustified
<1> QED BY <1>1, <1>2, <1>3, <1>4, <1>5 DEF Next

LEMMA GuardInvariant == Spec => []GuardInv
BY InitGuardInv, StepGuardInv, PTL DEF Spec

(* The types of the guard hold in every state.                             *)
THEOREM TypeCorrect == Spec => []TypeOK
<1>1. GuardInv => TypeOK
  BY DEF GuardInv
<1> QED BY <1>1, GuardInvariant, PTL

(* guard.rs, MAX_ENTRIES: the map of cooldowns never outgrows it.          *)
THEOREM AlwaysBounded == Spec => []Bounded
<1>1. GuardInv => Bounded
  BY DEF GuardInv
<1> QED BY <1>1, GuardInvariant, PTL

(* should_notify answers false only because of a notice less than a        *)
(* cooldown away, even when entries are evicted.                           *)
THEOREM SilenceAlwaysJustified == Spec => []SilenceJustified
<1>1. GuardInv => SilenceJustified
  BY DEF GuardInv
<1> QED BY <1>1, GuardInvariant, PTL

-----------------------------------------------------------------------------
(* Without eviction, the entry of a notified user is at least as late as   *)
(* every notice the user has had.                                          *)
EntriesLatest ==
  \A c \in Calls :
    pc[c] = "told" => user[c] \in DOMAIN cooldowns /\ seen[c] <= cooldowns[user[c]]

SpacingInv == EntriesLatest /\ Spaced

LEMMA StepSpacingInv ==
  ASSUME UsersFit, GuardInv, SpacingInv, [Next]_vars
  PROVE  SpacingInv'
<1> USE DEF GuardInv, SpacingInv
<1>1. ASSUME NEW c \in Calls, ReadClock(c) PROVE SpacingInv'
  BY <1>1 DEF ReadClock, TypeOK, EntriesLatest, Spaced
<1>2. ASSUME NEW c \in Calls, FirstCheck(c) PROVE SpacingInv'
  BY <1>2 DEF FirstCheck, AfterRefusal, TypeOK, EntriesLatest, Spaced
<1>3. ASSUME NEW c \in Calls, SecondCheck(c) PROVE SpacingInv'
  <2>1. CASE Cooling(c)
    BY <1>3, <2>1 DEF SecondCheck, StillCooling, AfterRefusal, TypeOK, EntriesLatest, Spaced
  <2>2. CASE ~Cooling(c)
    <3>1. /\ cooldowns' \in Recorded(c)
          /\ pc' = [pc EXCEPT ![c] = "told"] /\ pc[c] = "write"
          /\ UNCHANGED <<user, seen, clock>>
      BY <1>3, <2>2 DEF SecondCheck, StillCooling
    <3>2. cooldowns' = Put(cooldowns, user[c], seen[c])
      <4>1. DOMAIN cooldowns \cup {user[c]} \subseteq UsersSeen
        BY DEF EntriesFromNotices, UsersSeen
      <4>2. UsersSeen \subseteq Users
        BY DEF UsersSeen, TypeOK
      <4>3. IsFiniteSet(UsersSeen)
        BY <4>2, GuardAssumption, FS_Subset
      <4>4. ~(Cardinality(DOMAIN cooldowns \cup {user[c]}) > MaxEntries)
        BY <4>1, <4>3, GuardAssumption, FS_Subset, FS_CardinalityType DEF UsersFit
      <4> QED BY <3>1, <4>4, RecordedOutcome
    <3>3. /\ seen \in [Calls -> Int] /\ seen' = seen /\ user' = user
          /\ \A u \in DOMAIN cooldowns : cooldowns[u] \in Int
          /\ Cooldown \in Nat \ {0}
      BY <3>1, GuardAssumption DEF TypeOK
    <3>4. \A d \in Calls : d # c /\ pc'[d] = "told" => pc[d] = "told"
      BY <3>1 DEF TypeOK
    <3>5. \A d \in Calls : pc[d] = "told" /\ user[d] = user[c] => seen[c] - seen[d] >= Cooldown
      BY <2>2, <3>3 DEF Cooling, EntriesLatest
    <3>6. EntriesLatest'
      <4> SUFFICES ASSUME NEW d \in Calls, pc'[d] = "told"
                   PROVE  user[d] \in DOMAIN cooldowns' /\ seen[d] <= cooldowns'[user[d]]
        BY <3>3 DEF EntriesLatest
      <4>1. CASE user[d] = user[c]
        <5>1. cooldowns'[user[d]] = seen[c] /\ user[d] \in DOMAIN cooldowns'
          BY <3>2, <4>1 DEF Put
        <5>2. d = c \/ seen[c] - seen[d] >= Cooldown
          BY <3>4, <3>5, <4>1
        <5> QED BY <3>3, <5>1, <5>2
      <4>2. CASE user[d] # user[c]
        <5>1. user[d] \in DOMAIN cooldowns /\ seen[d] <= cooldowns[user[d]]
          BY <3>4, <4>2 DEF EntriesLatest
        <5> QED BY <3>2, <4>2, <5>1 DEF Put
      <4> QED BY <4>1, <4>2
    <3>7. Spaced'
      BY <3>3, <3>4, <3>5 DEF Spaced
    <3> QED BY <3>6, <3>7
  <2> QED BY <2>1, <2>2
<1>4. CASE SetClock
  BY <1>4 DEF SetClock, EntriesLatest, Spaced
<1>5. CASE UNCHANGED vars
  BY <1>5 DEF vars, EntriesLatest, Spaced
<1> QED BY <1>1, <1>2, <1>3, <1>4, <1>5 DEF Next

LEMMA UsersFixed == ASSUME [Next]_vars PROVE UsersFit' <=> UsersFit
<1>1. user' = user
  BY DEF Next, ReadClock, FirstCheck, SecondCheck, SetClock, vars
<1> QED BY <1>1 DEF UsersFit, UsersSeen

(* should_notify never notifies one user twice within a cooldown, as long  *)
(* as the users who turn up fit in the map.                                *)
THEOREM NoticesSpaced == Spec => []SpacedNotices
<1>1. Init => (UsersFit => SpacingInv)
  BY DEF Init, SpacingInv, EntriesLatest, Spaced
<1>2. GuardInv /\ (UsersFit => SpacingInv) /\ [Next]_vars => (UsersFit => SpacingInv)'
  BY StepSpacingInv, UsersFixed
<1>3. (UsersFit => SpacingInv) => SpacedNotices
  BY DEF SpacingInv, SpacedNotices
<1> QED BY <1>1, <1>2, <1>3, GuardInvariant, PTL DEF Spec

-----------------------------------------------------------------------------
(* The limiter.  The arithmetic its invariant needs, apart from the state. *)
LEMMA CapacityType == Capacity \in Nat /\ Capacity > 0 /\ Minute * MaxRpm = Capacity
BY RateAssumption DEF Capacity

LEMMA MonotoneProduct ==
  ASSUME NEW x \in Nat, NEW y \in Nat, x <= y
  PROVE  x * MaxRpm <= y * MaxRpm
<1>1. PICK d \in Nat : y = x + d
  <2>1. y - x \in Nat /\ y = x + (y - x)
    OBVIOUS
  <2> QED BY <2>1
<1>2. y * MaxRpm = x * MaxRpm + d * MaxRpm
  BY <1>1, RateAssumption
<1>3. d * MaxRpm \in Nat /\ x * MaxRpm \in Nat
  BY RateAssumption
<1> QED BY <1>2, <1>3

LEMMA ProductType ==
  ASSUME NEW x \in Nat
  PROVE  x * MaxRpm \in Nat
BY RateAssumption

LEMMA Inflow ==
  ASSUME NEW spent \in Int, NEW free \in Int, NEW cap \in Int, NEW grown \in Int,
         NEW flow \in Int, NEW freeNow \in Int, NEW grownNow \in Int,
         spent + free <= cap + grown, freeNow <= free + flow, grownNow = grown + flow
  PROVE  spent + freeNow <= cap + grownNow
OBVIOUS

LEMMA WaitBound ==
  ASSUME NEW t \in Nat, t < Minute
  PROVE  WaitFor(t) \in 1 .. Minute
<1> DEFINE n == Minute - t
<1>1. n \in 1 .. Minute
  BY RateAssumption
<1>2. WaitFor(t) = (n + MaxRpm - 1) \div MaxRpm
  BY DEF WaitFor
<1>3. ASSUME NEW m \in Nat, m >= 1, NEW k \in Nat, k >= 1, NEW q \in Int,
             q = (m + k - 1) \div k
      PROVE  q >= 1 /\ q <= m
  <2>1. k * q <= m + k - 1 /\ m + k - 1 < k * q + k
    BY <1>3
  <2>2. q >= 1
    <3> SUFFICES ASSUME q <= 0 PROVE FALSE
      BY <1>3
    <3>1. k * q <= 0
      BY <1>3
    <3> QED BY <2>1, <3>1, <1>3
  <2>3. q <= m
    <3> SUFFICES ASSUME q >= m + 1 PROVE FALSE
      BY <1>3
    <3>1. PICK d \in Nat : q = m + 1 + d
      <4>1. q - (m + 1) \in Nat /\ q = m + 1 + (q - (m + 1))
        BY <1>3
      <4> QED BY <4>1
    <3>2. k * q = k * m + k + k * d
      BY <3>1, <1>3
    <3>3. k * d >= 0 /\ k * m >= m
      <4>1. k * d \in Nat
        BY <1>3
      <4>2. PICK e \in Nat : k = e + 1
        <5>1. k - 1 \in Nat /\ k = (k - 1) + 1
          BY <1>3
        <5> QED BY <5>1
      <4>3. k * m = e * m + m /\ e * m \in Nat
        BY <4>2, <1>3
      <4> QED BY <4>1, <4>3, <1>3
    <3>4. k * q \in Int /\ k * m \in Int /\ k * d \in Int
      BY <1>3
    <3> QED BY <2>1, <3>2, <3>3, <3>4, <1>3
  <2> QED BY <2>2, <2>3
<1>4. WaitFor(t) \in Int
  BY <1>1, <1>2, RateAssumption
<1> QED BY <1>1, <1>2, <1>3, <1>4, RateAssumption

LEMMA RefilledType ==
  ASSUME RateTypeOK
  PROVE  Refilled \in 0 .. Capacity /\ Refilled >= tokens
<1>1. idle * MaxRpm \in Nat
  BY RateAssumption DEF RateTypeOK
<1> QED BY <1>1, CapacityType DEF RateTypeOK, Refilled, Lesser

-----------------------------------------------------------------------------
LEMMA RateInitType == RateInit => RateTypeOK
BY RateAssumption, CapacityType DEF RateInit, RateTypeOK

LEMMA RateStepType ==
  ASSUME RateTypeOK, [RateNext]_rateVars
  PROVE  RateTypeOK'
<1> USE DEF RateTypeOK
<1>1. ASSUME NEW r \in Requests, Arrive(r) PROVE RateTypeOK'
  BY <1>1 DEF Arrive
<1>2. ASSUME NEW r \in Requests, Admit(r) PROVE RateTypeOK'
  <2>1. tokens' \in 0 .. Capacity
    BY <1>2, RefilledType, RateAssumption, CapacityType DEF Admit
  <2> QED BY <1>2, <2>1, RateAssumption DEF Admit, IdleAfterRefill
<1>3. ASSUME NEW r \in Requests, Sleep(r) PROVE RateTypeOK'
  <2>1. tokens' \in 0 .. Capacity
    BY <1>3, RefilledType DEF Sleep
  <2>2. WaitFor(Refilled) \in 0 .. Minute
    BY <1>3, RefilledType, WaitBound, CapacityType, RateAssumption DEF Sleep
  <2>3. wait' \in [Requests -> 0 .. Minute]
    BY <1>3, <2>2 DEF Sleep
  <2> QED BY <1>3, <2>1, <2>3, RateAssumption DEF Sleep, IdleAfterRefill
<1>4. ASSUME NEW r \in Requests, Wake(r) PROVE RateTypeOK'
  BY <1>4 DEF Wake, WakesTo
<1>5. CASE Tick
  BY <1>5, RateAssumption DEF Tick, Lesser
<1>6. CASE OpenWindow
  BY <1>6, RateAssumption DEF OpenWindow
<1>7. CASE UNCHANGED rateVars
  BY <1>7 DEF rateVars
<1> QED BY <1>1, <1>2, <1>3, <1>4, <1>5, <1>6, <1>7 DEF RateNext, Step

(* The bucket never holds more than MaxRpm tokens, and no sleep is longer  *)
(* than a minute.                                                          *)
THEOREM RateTypeCorrect == RateSpec => []RateTypeOK
<1>1. RateInit => RateTypeOK BY RateInitType
<1>2. RateTypeOK /\ [RateNext]_rateVars => RateTypeOK' BY RateStepType
<1> QED BY <1>1, <1>2, PTL DEF RateSpec

-----------------------------------------------------------------------------
(* What has been let through in the window and what could be let through   *)
(* now are paid for by one full bucket and the inflow of the window.       *)
Budget == age <= Minute => count * Minute + Refilled <= Capacity + age * MaxRpm

LEMMA InitBudget == RateInit => Budget
<1> SUFFICES ASSUME RateInit PROVE Budget
  OBVIOUS
<1>1. Refilled <= Capacity
  BY CapacityType, RateAssumption DEF RateInit, Refilled, Lesser
<1> QED BY <1>1, CapacityType, RateAssumption, RateInitType, RefilledType DEF RateInit, Budget

LEMMA StepBudget ==
  ASSUME RateTypeOK, Budget, [RateNext]_rateVars
  PROVE  Budget'
<1> USE DEF RateTypeOK
<1>0. /\ Refilled \in 0 .. Capacity /\ Capacity \in Nat
      /\ age * MaxRpm \in Nat /\ count * Minute \in Nat /\ idle * MaxRpm \in Nat
  BY RefilledType, CapacityType, RateAssumption
<1>1. ASSUME NEW r \in Requests, Arrive(r) PROVE Budget'
  BY <1>1 DEF Arrive, Budget, Refilled
<1>2. ASSUME NEW r \in Requests, Admit(r) PROVE Budget'
  <2>1. Refilled' = Refilled - Minute
    <3>1. Refilled' = Lesser(Refilled - Minute + 0 * MaxRpm, Capacity)
      BY <1>2 DEF Admit, Refilled, IdleAfterRefill, Capacity
    <3> QED BY <3>1, <1>0, <1>2, RateAssumption DEF Admit, Lesser
  <2>2. count' * Minute = count * Minute + Minute
    BY <1>2, RateAssumption DEF Admit
  <2> QED BY <2>1, <2>2, <1>0, <1>2, RateAssumption DEF Budget, Admit, Capacity
<1>3. ASSUME NEW r \in Requests, Sleep(r) PROVE Budget'
  <2>1. Refilled' = Refilled
    <3>1. Refilled' = Lesser(Refilled + 0 * MaxRpm, Capacity)
      BY <1>3 DEF Sleep, Refilled, IdleAfterRefill, Capacity
    <3> QED BY <3>1, <1>0, RateAssumption DEF Lesser
  <2> QED BY <2>1, <1>3 DEF Budget, Sleep, Capacity
<1>4. ASSUME NEW r \in Requests, Wake(r) PROVE Budget'
  BY <1>4 DEF Wake, Budget, Refilled
<1>5. CASE Tick
  <2>1. Refilled' <= Refilled + MaxRpm
    <3>1. idle' <= idle + 1 /\ idle' \in Nat /\ tokens' = tokens
      BY <1>5, RateAssumption DEF Tick, Lesser
    <3>2. idle' * MaxRpm <= (idle + 1) * MaxRpm
      BY <3>1, MonotoneProduct
    <3>3. (idle + 1) * MaxRpm = idle * MaxRpm + MaxRpm
      BY RateAssumption
    <3>4. idle' * MaxRpm \in Nat
      BY <3>1, ProductType
    <3>5. Refilled' = Lesser(tokens + idle' * MaxRpm, Capacity)
      BY <3>1 DEF Refilled, Capacity
    <3> QED BY <3>2, <3>3, <3>4, <3>5, <1>0, RateAssumption DEF Refilled, Lesser
  <2>2. CASE age' <= Minute
    <3>1. age' = age + 1 /\ age <= Minute /\ count' = count
      BY <1>5, <2>2, RateAssumption DEF Tick, Lesser
    <3>2. (age + 1) * MaxRpm = age * MaxRpm + MaxRpm
      BY RateAssumption
    <3>3. count * Minute + Refilled <= Capacity + age * MaxRpm
      BY <3>1 DEF Budget
    <3>4. Refilled' \in Int
      <4>1. tokens' = tokens /\ idle' \in Nat
        BY <1>5, RateAssumption DEF Tick, Lesser
      <4>2. tokens + idle' * MaxRpm \in Int
        BY <4>1, RateAssumption
      <4>3. Refilled' = Lesser(tokens + idle' * MaxRpm, Capacity)
        BY <4>1 DEF Refilled, Capacity
      <4> QED BY <4>2, <4>3, <1>0 DEF Lesser
    <3>5. count * Minute + Refilled' <= Capacity + (age + 1) * MaxRpm
      <4>1. (age + 1) * MaxRpm \in Int /\ MaxRpm \in Int
        BY ProductType, RateAssumption
      <4> QED BY <2>1, <3>2, <3>3, <3>4, <4>1, <1>0, Inflow
    <3> QED BY <3>1, <3>5 DEF Budget, Capacity
  <2>3. CASE ~(age' <= Minute)
    BY <2>3 DEF Budget
  <2> QED BY <2>2, <2>3
<1>6. CASE OpenWindow
  <2>1. Refilled' = Refilled /\ count' = 0 /\ age' = 0
    BY <1>6 DEF OpenWindow, Refilled
  <2>2. count' * Minute = 0 /\ age' * MaxRpm = 0
    BY <2>1, RateAssumption
  <2> QED BY <2>1, <2>2, <1>0 DEF Budget, Capacity
<1>7. CASE UNCHANGED rateVars
  BY <1>7 DEF rateVars, Budget, Refilled
<1> QED BY <1>1, <1>2, <1>3, <1>4, <1>5, <1>6, <1>7 DEF RateNext, Step

(* No window of a minute lets more than twice MaxRpm requests through.     *)
THEOREM WindowBounded == RateSpec => []WindowBound
<1>1. RateInit => Budget BY InitBudget
<1>2. RateTypeOK /\ Budget /\ [RateNext]_rateVars => Budget' BY StepBudget
<1>3. RateTypeOK /\ Budget => WindowBound
  <2> SUFFICES ASSUME RateTypeOK, Budget, age <= Minute
               PROVE  count <= 2 * MaxRpm
    BY DEF WindowBound
  <2> USE DEF RateTypeOK
  <2>1. age * MaxRpm <= Minute * MaxRpm
    BY MonotoneProduct, RateAssumption
  <2>2. count * Minute <= 2 * Capacity
    BY <2>1, RefilledType, CapacityType, RateAssumption DEF Budget
  <2>3. SUFFICES ASSUME count >= 2 * MaxRpm + 1 PROVE FALSE
    BY RateAssumption
  <2>4. PICK d \in Nat : count = 2 * MaxRpm + 1 + d
    <3>1. count - (2 * MaxRpm + 1) \in Nat
      BY <2>3, RateAssumption
    <3> QED BY <3>1, RateAssumption
  <2>5. count * Minute = 2 * Capacity + Minute + d * Minute
    BY <2>4, RateAssumption DEF Capacity
  <2>6. d * Minute \in Nat
    BY RateAssumption
  <2> QED BY <2>2, <2>5, <2>6, CapacityType, RateAssumption
<1> QED BY <1>1, <1>2, <1>3, RateTypeCorrect, PTL DEF RateSpec

-----------------------------------------------------------------------------
(* What EveryRequestAdmitted rests on besides fairness.  n ticks bring a   *)
(* bucket of t parts up to a token.                                        *)
Reaches(t, n) == t + n * MaxRpm >= Minute

(* A call is sure of a token: it will be there when it wakes, or is there. *)
Sure(r) ==
  \/ at[r] = "asleep" /\ Reaches(tokens, idle + wait[r])
  \/ at[r] = "try" /\ Reaches(tokens, idle)

(* wait_duration() rounds up far enough ...                                *)
LEMMA RoundedUp ==
  ASSUME NEW a \in Nat, NEW m \in Nat \ {0}
  PROVE  ((a + m - 1) \div m) \in Nat /\ ((a + m - 1) \div m) * m >= a
<1> DEFINE n == a + m - 1
           q == n \div m
<1>1. n \in Nat /\ n >= 0
  OBVIOUS
<1>2. q \in Nat
  BY <1>1
<1>3. n < q * m + m
  BY <1>1, Z3
<1> QED BY <1>1, <1>2, <1>3

(* ... more time brings no less, a minute always brings a token, ...       *)
LEMMA ReachesMore ==
  ASSUME NEW t \in Nat, NEW m \in Nat, NEW n \in Nat, Reaches(t, m), m <= n \/ n >= Minute
  PROVE  Reaches(t, n)
<1>1. MaxRpm \in Nat \ {0} /\ Minute \in Nat \ {0}
  BY RateAssumption
<1>2. m * MaxRpm \in Nat /\ n * MaxRpm \in Nat
  BY <1>1, ProductType
<1>3. CASE m <= n
  <2>1. m * MaxRpm <= n * MaxRpm
    BY <1>1, <1>3, MonotoneProduct
  <2> QED BY <1>1, <1>2, <2>1 DEF Reaches
<1>4. CASE n >= Minute
  <2>1. n * MaxRpm >= n
    BY <1>1
  <2> QED BY <1>1, <1>2, <1>4, <2>1 DEF Reaches
<1> QED BY <1>3, <1>4

(* ... and a look into the bucket costs nothing but the ticks it counts.   *)
LEMMA ReachesAfterRefill ==
  ASSUME NEW t \in Nat, NEW m \in Nat, NEW n \in Nat, Reaches(t, m + n)
  PROVE  Reaches(t + m * MaxRpm, n)
<1>1. MaxRpm \in Nat \ {0} /\ Minute \in Nat \ {0}
  BY RateAssumption
<1>2. (m + n) * MaxRpm = m * MaxRpm + n * MaxRpm
  BY <1>1
<1>3. m * MaxRpm \in Nat /\ n * MaxRpm \in Nat
  BY <1>1, ProductType
<1> QED BY <1>1, <1>2, <1>3 DEF Reaches

LEMMA RefilledReaches ==
  ASSUME RateTypeOK
  PROVE  /\ Refilled >= Minute <=> Reaches(tokens, idle)
         /\ Refilled < Minute <=> ~Reaches(tokens, idle)
         /\ Refilled < Minute => Refilled = tokens + idle * MaxRpm
<1>1. MaxRpm \in Nat \ {0} /\ Minute \in Nat \ {0} /\ tokens \in Nat /\ idle \in Nat
  BY RateAssumption, ProductType DEF RateTypeOK, Capacity
<1>2. idle * MaxRpm \in Nat /\ Capacity \in Nat
  BY <1>1, ProductType DEF Capacity
<1>3. Capacity >= Minute
  BY <1>1 DEF Capacity
<1> HIDE DEF Capacity
<1> QED BY <1>1, <1>2, <1>3 DEF Refilled, Lesser, Reaches

(* So a call stays sure as long as nobody else takes the token.            *)
LEMMA StaysSure ==
  ASSUME RateTypeOK, NEW r \in Requests, Sure(r), [RateNext]_rateVars, ~\E q \in Requests : Admit(q)
  PROVE  Sure(r)'
<1>1. at \in [Requests -> {"new", "try", "asleep", "admitted"}] /\ wait \in [Requests -> 0 .. Minute]
  BY DEF RateTypeOK
<1>2. Minute \in Nat /\ tokens \in Nat /\ idle \in 0 .. Minute /\ wait[r] \in 0 .. Minute
  BY <1>1, RateAssumption, ProductType DEF RateTypeOK, Capacity
<1>3. idle \in Nat /\ wait[r] \in Nat /\ idle + wait[r] \in Nat
  BY <1>2
<1>4. Sure(r)' <=> \/ at'[r] = "asleep" /\ Reaches(tokens', idle' + wait'[r])
                   \/ at'[r] = "try" /\ Reaches(tokens', idle')
  BY DEF Sure, Reaches
<1>5. ASSUME NEW q \in Requests, Arrive(q) PROVE Sure(r)'
  <2>1. UNCHANGED <<tokens, idle, wait>> /\ at[q] = "new" /\ (q # r => at'[r] = at[r])
    BY <1>1, <1>5 DEF Arrive
  <2> QED BY <1>4, <2>1 DEF Sure
<1>6. ASSUME NEW q \in Requests, Sleep(q) PROVE Sure(r)'
  <2>1. /\ tokens' = tokens + idle * MaxRpm
        /\ idle' = 0
        /\ at[q] = "try"
        /\ ~Reaches(tokens, idle)
    BY <1>6, RefilledReaches DEF Sleep, IdleAfterRefill
  <2>2. q # r /\ at[r] = "asleep" /\ Reaches(tokens, idle + wait[r])
    BY <2>1 DEF Sure
  <2>3. at'[r] = at[r] /\ wait'[r] = wait[r]
    BY <1>1, <1>6, <2>2 DEF Sleep
  <2>4. idle' + wait'[r] = wait[r]
    BY <1>3, <2>1, <2>3
  <2>5. Reaches(tokens + idle * MaxRpm, wait[r])
    BY <1>2, <1>3, <2>2, ReachesAfterRefill
  <2> QED BY <1>4, <2>1, <2>2, <2>3, <2>4, <2>5
<1>7. ASSUME NEW q \in Requests, Wake(q) PROVE Sure(r)'
  <2>1. /\ UNCHANGED <<tokens, idle, wait>>
        /\ (q # r => at'[r] = at[r])
        /\ (q = r => wait[r] = 0 /\ at[r] = "asleep" /\ at'[r] = "try")
    BY <1>1, <1>7 DEF Wake, WakesTo
  <2>2. wait[r] = 0 => idle + wait[r] = idle
    BY <1>3
  <2> QED BY <1>4, <2>1, <2>2 DEF Sure
<1>8. CASE Tick
  <2>1. /\ idle' = Lesser(idle + 1, Minute)
        /\ wait'[r] = (IF wait[r] > 0 THEN wait[r] - 1 ELSE 0)
        /\ tokens' = tokens /\ at' = at
    BY <1>8 DEF Tick
  <2>2. /\ idle' \in Nat /\ idle <= idle' /\ idle' + wait'[r] \in Nat
        /\ (idle + wait[r] <= idle' + wait'[r] \/ idle' + wait'[r] >= Minute)
    BY <1>2, <2>1 DEF Lesser
  <2>3. Reaches(tokens, idle) => Reaches(tokens, idle')
    BY <1>2, <1>3, <2>2, ReachesMore
  <2>4. Reaches(tokens, idle + wait[r]) => Reaches(tokens, idle' + wait'[r])
    BY <1>2, <1>3, <2>2, ReachesMore
  <2> QED BY <1>4, <2>1, <2>3, <2>4 DEF Sure
<1>9. CASE OpenWindow \/ UNCHANGED rateVars
  <2>1. UNCHANGED <<tokens, idle, wait, at>>
    BY <1>9 DEF OpenWindow, rateVars
  <2> QED BY <1>4, <2>1 DEF Sure
<1> QED BY <1>5, <1>6, <1>7, <1>8, <1>9 DEF RateNext, Step

LEMMA FallsAsleepSure ==
  ASSUME RateTypeOK, NEW r \in Requests, Sleep(r)
  PROVE  Sure(r)'
<1> DEFINE missing == Minute - Refilled
           ticks == (missing + MaxRpm - 1) \div MaxRpm
<1>1. Refilled \in Nat /\ Refilled < Minute /\ Minute \in Nat /\ MaxRpm \in Nat \ {0}
  BY RateAssumption, RefilledType DEF Sleep
<1>2. missing \in Nat
  BY <1>1
<1> HIDE DEF missing
<1>3. ticks \in Nat /\ ticks * MaxRpm >= missing
  BY <1>1, <1>2, RoundedUp
<1>4. at'[r] = "asleep" /\ wait'[r] = ticks /\ tokens' = Refilled /\ idle' = 0
  BY DEF Sleep, IdleAfterRefill, WaitFor, RateTypeOK, missing
<1> HIDE DEF ticks
<1>5. ticks * MaxRpm \in Nat /\ idle' + wait'[r] = ticks
  BY <1>1, <1>3, <1>4, ProductType
<1>6. Refilled + ticks * MaxRpm >= Minute
  BY <1>1, <1>3, <1>5 DEF missing
<1>7. Reaches(tokens', idle' + wait'[r])
  BY <1>4, <1>5, <1>6 DEF Reaches
<1> QED BY <1>4, <1>7 DEF Sure, Reaches

(* Whoever sleeps wakes to a token, unless another took it: nobody sleeps  *)
(* twice for want of a tick, or because others looked in the meantime.     *)
SleepPays ==
  /\ \A r \in Requests : Sleep(r) => Sure(r)'
  /\ \A r \in Requests : Sure(r) => Sure(r)' \/ \E q \in Requests : Admit(q)

THEOREM NobodySleepsInVain == RateSpec => [][SleepPays]_rateVars
<1>1. RateTypeOK /\ [RateNext]_rateVars => [SleepPays]_rateVars
  BY StaysSure, FallsAsleepSure DEF SleepPays
<1> QED BY <1>1, RateTypeCorrect, PTL DEF RateSpec
-----------------------------------------------------------------------------
(* With fairness.  The clock ticks while someone sleeps, and a call that   *)
(* is awake or may wake can make its step.  The provers do not reason      *)
(* about ENABLED, so RequestsAdvance assumes it.                           *)
TickEnabled == (\E r \in Requests : wait[r] > 0) => ENABLED <<Tick>>_rateVars

RequestEnabled(r) ==
  at[r] = "try" \/ (at[r] = "asleep" /\ wait[r] = 0) => ENABLED <<Step(r)>>_rateVars

RequestsEnabled == \A r \in Requests : RequestEnabled(r)

Admitted == {r \in Requests : at[r] = "admitted"}

(* How far a call is from its token.                                       *)
Left(r) == IF at[r] = "asleep" THEN wait[r] + 2 ELSE 1

(* The clock is what a sleeper needs, its own step what another does.      *)
LEMMA LeftType ==
  ASSUME RateTypeOK, NEW r \in Requests, Sure(r)
  PROVE  /\ wait[r] \in Nat /\ Left(r) \in Nat \ {0}
         /\ Left(r) >= 3 => at[r] = "asleep" /\ wait[r] > 0
         /\ Left(r) = 2 => at[r] = "asleep" /\ wait[r] = 0
         /\ Left(r) = 1 => at[r] = "try"
BY RateAssumption DEF RateTypeOK, Sure, Left

(* Whoever is admitted was not before.                                     *)
LEMMA AdmitShows ==
  ASSUME RateTypeOK, NEW q \in Requests, Admit(q)
  PROVE  Admitted' # Admitted
<1>1. q \notin Admitted /\ q \in Admitted'
  BY DEF Admit, Admitted, RateTypeOK
<1> QED BY <1>1

(* Nobody drives a call that is sure of its token further from it.        *)
LEMMA NoStepBack ==
  ASSUME RateTypeOK, NEW r \in Requests, Sure(r), [RateNext]_rateVars
  PROVE  Admitted' # Admitted \/ (Sure(r)' /\ Left(r)' <= Left(r))
<1>1. CASE \E q \in Requests : Admit(q)
  BY <1>1, AdmitShows
<1>2. CASE ~\E q \in Requests : Admit(q)
  <2>1. Sure(r)' /\ RateTypeOK'
    BY <1>2, StaysSure, RateStepType
  <2>2. /\ at \in [Requests -> {"new", "try", "asleep", "admitted"}] /\ wait \in [Requests -> 0 .. Minute]
        /\ Minute \in Nat /\ at[r] \in {"try", "asleep"}
    BY RateAssumption DEF RateTypeOK, Sure
  <2>3. ASSUME NEW q \in Requests, Arrive(q) PROVE Left(r)' <= Left(r)
    BY <2>2, <2>3 DEF Arrive, Left
  <2>4. ASSUME NEW q \in Requests, Sleep(q) PROVE Left(r)' <= Left(r)
    <3>1. q # r
      BY <2>4, RefilledReaches DEF Sleep, Sure
    <3> QED BY <2>2, <2>4, <3>1 DEF Sleep, Left
  <2>5. ASSUME NEW q \in Requests, Wake(q) PROVE Left(r)' <= Left(r)
    BY <2>2, <2>5 DEF Wake, WakesTo, Left
  <2>6. ASSUME Tick PROVE Left(r)' <= Left(r)
    BY <2>2, <2>6 DEF Tick, Left
  <2>7. ASSUME OpenWindow \/ UNCHANGED rateVars PROVE Left(r)' <= Left(r)
    BY <2>2, <2>7 DEF OpenWindow, rateVars, Left
  <2>8. Left(r)' <= Left(r)
    BY <1>2, <2>3, <2>4, <2>5, <2>6, <2>7 DEF RateNext, Step
  <2> QED BY <2>1, <2>8
<1> QED BY <1>1, <1>2

FairRequests == FairRateSpec /\ []TickEnabled /\ []RequestsEnabled

(* Each call is polled.                                                    *)
LEMMA EveryRequestFair == FairRequests => \A r \in Requests : RequestFair(r)
BY PTL DEF FairRequests, FairRateSpec

(* A call that is sure of a token and n from it comes closer, or someone   *)
(* takes the token.                                                        *)
LEMMA SureGetsCloser ==
  ASSUME NEW r \in Requests, NEW A, NEW n \in Nat
  PROVE  FairRequests =>
           (Admitted = A /\ Sure(r) /\ Left(r) = n ~> Admitted # A \/ (Sure(r) /\ Left(r) < n))
<1> DEFINE There == Admitted = A /\ Sure(r) /\ Left(r) = n
           Closer == Admitted # A \/ (Sure(r) /\ Left(r) < n)
           Sleeps == There /\ n >= 3
           Wakes == There /\ n < 3
<1>1. RateTypeOK /\ There /\ [RateNext]_rateVars => There' \/ Closer'
  <2> SUFFICES ASSUME RateTypeOK, There, [RateNext]_rateVars PROVE There' \/ Closer'
    OBVIOUS
  <2>1. Admitted' # Admitted \/ (Sure(r)' /\ Left(r)' <= Left(r))
    BY NoStepBack
  <2>2. Sure(r)' => Left(r)' \in Nat
    <3>1. RateTypeOK'
      BY RateStepType
    <3> QED BY <3>1, RateAssumption DEF RateTypeOK, Left
  <2> QED BY <2>1, <2>2
<1>2. RateTypeOK /\ Sleeps /\ <<Tick>>_rateVars => Closer'
  <2> SUFFICES ASSUME RateTypeOK, Sleeps, Tick PROVE Closer'
    OBVIOUS
  <2>1. at[r] = "asleep" /\ wait[r] > 0 /\ wait[r] \in Nat
    BY LeftType
  <2>2. Left(r)' < n
    BY <2>1 DEF Tick, Left
  <2>3. Admitted' # Admitted \/ Sure(r)'
    BY NoStepBack DEF RateNext
  <2> QED BY <2>2, <2>3
<1>3. RateTypeOK /\ Wakes /\ <<Step(r)>>_rateVars => Closer'
  <2> SUFFICES ASSUME RateTypeOK, Wakes, Step(r) PROVE Closer'
    OBVIOUS
  <2>1. n = 1 \/ n = 2
    BY LeftType
  <2>2. CASE n = 1
    <3>1. at[r] = "try"
      BY <2>2, LeftType
    <3>2. Admit(r)
      BY <3>1, RefilledReaches DEF Step, Arrive, Sleep, Wake, Sure
    <3> QED BY <3>2, AdmitShows
  <2>3. CASE n = 2
    <3>1. at[r] = "asleep"
      BY <2>3, LeftType
    <3>2. at'[r] = "try"
      BY <3>1 DEF Step, Arrive, Admit, Sleep, Wake, WakesTo, RateTypeOK
    <3>3. Left(r)' < n
      BY <2>3, <3>2 DEF Left
    <3>4. Admitted' # Admitted \/ Sure(r)'
      BY NoStepBack DEF RateNext
    <3> QED BY <3>3, <3>4
  <2> QED BY <2>1, <2>2, <2>3
<1>4. RateTypeOK /\ TickEnabled => (Sleeps => ENABLED <<Tick>>_rateVars)
  BY LeftType DEF TickEnabled
<1>5. RateTypeOK /\ RequestsEnabled => (Wakes => ENABLED <<Step(r)>>_rateVars)
  <2>1. RateTypeOK /\ Wakes => at[r] = "try" \/ (at[r] = "asleep" /\ wait[r] = 0)
    <3> SUFFICES ASSUME RateTypeOK, Wakes PROVE at[r] = "try" \/ (at[r] = "asleep" /\ wait[r] = 0)
      OBVIOUS
    <3>1. n = 1 \/ n = 2
      BY LeftType
    <3> QED BY <3>1, LeftType
  <2>2. RequestsEnabled => RequestEnabled(r)
    BY DEF RequestsEnabled
  <2> QED BY <2>1, <2>2 DEF RequestEnabled
<1>6. FairRequests => RateSpec /\ WF_rateVars(Tick) /\ []TickEnabled /\ []RequestsEnabled
  BY PTL DEF FairRequests, FairRateSpec
<1>7. FairRequests => RequestFair(r)
  BY EveryRequestFair
<1>8. There <=> Sleeps \/ Wakes
  BY DEF Sleeps, Wakes
<1>9. There' => (Sleeps => Sleeps') /\ (Wakes => Wakes')
  BY DEF Sleeps, Wakes
<1>10. Sleeps \/ Wakes => There
  BY <1>8
<1> HIDE DEF There, Closer, Sleeps, Wakes
<1>11. FairRequests => (Sleeps ~> Closer)
  BY <1>1, <1>2, <1>4, <1>6, <1>9, <1>10, RateTypeCorrect, PTL DEF RateSpec
<1>12. FairRequests => (Wakes ~> Closer)
  BY <1>1, <1>3, <1>5, <1>6, <1>7, <1>9, <1>10, RateTypeCorrect, PTL DEF RateSpec, RequestFair
<1>13. FairRequests => (There ~> Closer)
  BY <1>8, <1>11, <1>12, PTL
<1> QED BY <1>13 DEF There, Closer

(* A call that asks is admitted, or falls asleep for as long as its token  *)
(* takes, unless another is admitted first.                                *)
LEMMA AskingMakesSure ==
  ASSUME NEW r \in Requests, NEW A
  PROVE  FairRequests => (Admitted = A /\ at[r] = "try" ~> Admitted # A \/ Sure(r))
<1> DEFINE There == Admitted = A /\ at[r] = "try"
           Closer == Admitted # A \/ Sure(r)
<1>1. RateTypeOK /\ There /\ [RateNext]_rateVars => There' \/ Closer'
  <2> SUFFICES ASSUME RateTypeOK, There, [RateNext]_rateVars, at'[r] # "try" PROVE Closer'
    OBVIOUS
  <2>1. Admit(r) \/ Sleep(r)
    BY DEF RateNext, Step, Arrive, Admit, Sleep, Wake, Tick, OpenWindow, rateVars, RateTypeOK
  <2> QED BY <2>1, AdmitShows, FallsAsleepSure
<1>2. RateTypeOK /\ There /\ <<Step(r)>>_rateVars => Closer'
  <2> SUFFICES ASSUME RateTypeOK, There, Step(r) PROVE Closer'
    OBVIOUS
  <2>1. Admit(r) \/ Sleep(r)
    BY DEF Step, Arrive, Wake
  <2> QED BY <2>1, AdmitShows, FallsAsleepSure
<1>3. RequestsEnabled => (There => ENABLED <<Step(r)>>_rateVars)
  <2>1. RequestsEnabled => RequestEnabled(r)
    BY DEF RequestsEnabled
  <2> QED BY <2>1 DEF RequestEnabled
<1>4. FairRequests => RateSpec /\ []RequestsEnabled
  BY PTL DEF FairRequests, FairRateSpec
<1>5. FairRequests => RequestFair(r)
  BY EveryRequestFair
<1> HIDE DEF There, Closer
<1>6. FairRequests => (There ~> Closer)
  BY <1>1, <1>2, <1>3, <1>4, <1>5, RateTypeCorrect, PTL DEF RateSpec, RequestFair
<1> QED BY <1>6 DEF There, Closer

(* Time passes and the runtime polls every call, so as long as someone     *)
(* asks someone gets a token: while the admitted stay the same ones, a     *)
(* call that asks becomes sure of a token, and one that is sure comes      *)
(* ever closer to it.                                                      *)
THEOREM RequestsAdvance ==
  ASSUME NEW r \in Requests, NEW A, NEW n \in Nat
  PROVE  FairRateSpec /\ []TickEnabled /\ []RequestsEnabled =>
           /\ Admitted = A /\ at[r] = "try" ~> Admitted # A \/ Sure(r)
           /\ Admitted = A /\ Sure(r) /\ Left(r) = n ~> Admitted # A \/ (Sure(r) /\ Left(r) < n)
<1>1. FairRequests => (Admitted = A /\ at[r] = "try" ~> Admitted # A \/ Sure(r))
  BY AskingMakesSure
<1>2. FairRequests =>
        (Admitted = A /\ Sure(r) /\ Left(r) = n ~> Admitted # A \/ (Sure(r) /\ Left(r) < n))
  BY SureGetsCloser
<1> QED BY <1>1, <1>2 DEF FairRequests
=============================================================================

-------------------------- MODULE NotificationGuard --------------------------
(***************************************************************************)
(* guard.rs: should_notify decides whether a blocked user is told so, at   *)
(* most once per cooldown.  A call reads the wall clock, checks under the  *)
(* read lock, and checks again under the write lock before it records the  *)
(* notice; the locks are held over no await, so each block is one step.    *)
(* The wall clock may be set, forward or back, at any time.                *)
(***************************************************************************)
EXTENDS Eviction

CONSTANTS
  Users,
  Calls,          \* calls of should_notify
  Cooldown,       \* COOLDOWN_SECS
  MaxEntries,     \* MAX_ENTRIES
  EvictThreshold, \* EVICT_THRESHOLD
  MaxTime         \* bound: the wall clock

ASSUME GuardAssumption ==
  /\ IsFiniteSet(Users)
  /\ Cooldown \in Nat \ {0} /\ MaxEntries \in Nat /\ EvictThreshold \in Nat
  /\ EvictThreshold <= MaxEntries
  /\ MaxTime \in Nat

VARIABLES
  user,      \* the user each call is about
  pc,        \* where each call is; "told" and "silent" are the results
  seen,      \* the `now` each call has read
  cooldowns, \* user -> the `now` of the last notice
  clock      \* now_timestamp()

vars == <<user, pc, seen, cooldowns, clock>>

Init ==
  /\ user \in [Calls -> Users]
  /\ pc = [c \in Calls |-> "new"]
  /\ seen = [c \in Calls |-> 0]
  /\ cooldowns = [u \in {} |-> 0]
  /\ clock \in 0 .. MaxTime

ReadClock(c) ==
  /\ pc[c] = "new"
  /\ seen' = [seen EXCEPT ![c] = clock]
  /\ pc' = [pc EXCEPT ![c] = "read"]
  /\ UNCHANGED <<user, cooldowns, clock>>

(* A notice of the user is less than a cooldown old, by the call's clock.  *)
Cooling(c) ==
  user[c] \in DOMAIN cooldowns /\ seen[c] - cooldowns[user[c]] < Cooldown

(* What a refused call leaves in the map: what was there.                  *)
NoticeRefreshed(c) == Put(cooldowns, user[c], seen[c])

AfterRefusal(c) == cooldowns

(* Under the read lock.                                                    *)
FirstCheck(c) ==
  /\ pc[c] = "read"
  /\ IF Cooling(c)
       THEN /\ pc' = [pc EXCEPT ![c] = "silent"]
            /\ cooldowns' = AfterRefusal(c)
       ELSE /\ pc' = [pc EXCEPT ![c] = "write"]
            /\ UNCHANGED cooldowns
  /\ UNCHANGED <<user, seen, clock>>

(* evict: drop the entries two cooldowns old, then the oldest down to      *)
(* EVICT_THRESHOLD.                                                        *)
OnlyExpired(m, now) ==
  {[u \in {x \in DOMAIN m : m[x] > now - 2 * Cooldown} |-> m[u]]}

EvictOutcomes(m, now) ==
  LET recent == {u \in DOMAIN m : m[u] > now - 2 * Cooldown}
  IN  {[u \in S |-> m[u]] : S \in LatestCuts(recent, m, EvictThreshold)}

ExpiryRecorded(c) == {Put(cooldowns, user[c], seen[c] + Cooldown)}

Recorded(c) ==
  LET m == Put(cooldowns, user[c], seen[c])
  IN  IF Cardinality(DOMAIN m) > MaxEntries THEN EvictOutcomes(m, seen[c]) ELSE {m}

(* Under the write lock: another call may have given the notice meanwhile. *)
NoSecondCheck(c) == FALSE

StillCooling(c) == Cooling(c)

SecondCheck(c) ==
  /\ pc[c] = "write"
  /\ IF StillCooling(c)
       THEN /\ pc' = [pc EXCEPT ![c] = "silent"]
            /\ cooldowns' = AfterRefusal(c)
       ELSE /\ pc' = [pc EXCEPT ![c] = "told"]
            /\ cooldowns' \in Recorded(c)
  /\ UNCHANGED <<user, seen, clock>>

SetClock ==
  /\ clock' \in 0 .. MaxTime
  /\ UNCHANGED <<user, pc, seen, cooldowns>>

Next ==
  \/ \E c \in Calls : ReadClock(c) \/ FirstCheck(c) \/ SecondCheck(c)
  \/ SetClock

Spec == Init /\ [][Next]_vars

-----------------------------------------------------------------------------
(* Types; the map is about users and holds nothing from the future of the  *)
(* model.                                                                  *)
TypeOK ==
  /\ user \in [Calls -> Users]
  /\ pc \in [Calls -> {"new", "read", "write", "told", "silent"}]
  /\ seen \in [Calls -> 0 .. MaxTime]
  /\ DOMAIN cooldowns \subseteq Users
  /\ cooldowns \in [DOMAIN cooldowns -> 0 .. MaxTime]
  /\ clock \in 0 .. MaxTime

(* The map never outgrows MAX_ENTRIES.                                     *)
Bounded == Cardinality(DOMAIN cooldowns) <= MaxEntries

(* Two calls that both notify one user did so a cooldown apart by the      *)
(* clocks they read, however they interleave and whatever becomes of the   *)
(* wall clock in between, while the users who turn up fit in the map:      *)
(* evicting an entry in its cooldown would break it.                       *)
UsersSeen == {user[c] : c \in Calls}
UsersFit == Cardinality(UsersSeen) <= MaxEntries

Spaced ==
  \A c, d \in Calls :
    c # d /\ pc[c] = "told" /\ pc[d] = "told" /\ user[c] = user[d] =>
      seen[c] - seen[d] >= Cooldown \/ seen[d] - seen[c] >= Cooldown

SpacedNotices == UsersFit => Spaced

(* A user is left without a notice only because one was given: some call   *)
(* about the user notified, less than a cooldown before or after it.       *)
SilenceJustified ==
  \A c \in Calls :
    pc[c] = "silent" =>
      \E d \in Calls : pc[d] = "told" /\ user[d] = user[c] /\ seen[c] - seen[d] < Cooldown
=============================================================================

---------------------------- MODULE SessionQueue ----------------------------
(***************************************************************************)
(* queue.rs: a map from session key to a tokio Mutex, and an enqueue call  *)
(* that runs its task while it holds the mutex of its key.                 *)
(*                                                                         *)
(* One element of Tasks is one call of enqueue.  The map's RwLock is       *)
(* mapHolder: the only guards the code takes are write guards, one by      *)
(* write().await on the way in and one by try_write() on the way out.  A   *)
(* mutex is named by the call that created it and lives on (Arc) when its  *)
(* map entry is evicted; its FIFO wait list, holder first, is line.        *)
(***************************************************************************)
EXTENDS Eviction, Sequences

CONSTANTS
  Keys,            \* session base keys
  Tasks,           \* enqueue calls
  NoTask,          \* "no task": the map lock is free, no mutex taken yet
  MaxChains,       \* MAX_CHAINS
  EvictThreshold,  \* EVICT_THRESHOLD
  IdleSecs,        \* IDLE_SECS
  MaxTime          \* bound of the model on the monotonic clock

ASSUME QueueAssumption ==
  /\ IsFiniteSet(Keys)
  /\ IsFiniteSet(Tasks)
  /\ NoTask \notin Tasks
  /\ MaxChains \in Nat /\ EvictThreshold \in Nat /\ IdleSecs \in Nat /\ MaxTime \in Nat
  /\ EvictThreshold <= MaxChains

VARIABLES
  key,        \* the key argument of each call
  pc,         \* where each call is
  mapHolder,  \* the call that holds the write guard of chains, or NoTask
  chains,     \* key -> [mutex, last]: the ChainEntry of the key
  mutex,      \* the Arc<Mutex> each call has cloned, or NoTask
  line,       \* mutex -> its FIFO line of calls, the holder first
  now         \* Instant::now()

vars == <<key, pc, mapHolder, chains, mutex, line, now>>

Stage == {"new", "map", "cloned", "waiting", "body", "touch", "unlock", "done"}
Times == 0 .. MaxTime

-----------------------------------------------------------------------------
Init ==
  /\ key \in [Tasks -> Keys]
  /\ pc = [t \in Tasks |-> "new"]
  /\ mapHolder = NoTask
  /\ chains = [k \in {} |-> NoTask]
  /\ mutex = [t \in Tasks |-> NoTask]
  /\ line = [m \in Tasks |-> <<>>]
  /\ now = 0

(* chains.write().await *)
LockMap(t) ==
  /\ pc[t] = "new"
  /\ mapHolder = NoTask
  /\ mapHolder' = t
  /\ pc' = [pc EXCEPT ![t] = "map"]
  /\ UNCHANGED <<key, chains, mutex, line, now>>

(* or_insert_with: the mutex already in the map, or a new one.             *)
AlwaysNewMutex(t) == t

EntryMutex(t) ==
  IF key[t] \in DOMAIN chains THEN chains[key[t]].mutex ELSE t

(* What the end of a block does with the write guard it holds: drop it.    *)
MapGuardKept(t) == t

MapGuardDropped(t) == NoTask

Lookup(t) ==
  /\ pc[t] = "map"
  /\ mutex' = [mutex EXCEPT ![t] = EntryMutex(t)]
  /\ chains' = Put(chains, key[t], [mutex |-> EntryMutex(t), last |-> now])
  /\ mapHolder' = MapGuardDropped(t)
  /\ pc' = [pc EXCEPT ![t] = "cloned"]
  /\ UNCHANGED <<key, line, now>>

(* First poll of mutex.lock().await: join the mutex's FIFO wait list.      *)
JoinedLine(t) == Append(line[mutex[t]], t)

RequestLock(t) ==
  /\ pc[t] = "cloned"
  /\ line' = [line EXCEPT ![mutex[t]] = JoinedLine(t)]
  /\ pc' = [pc EXCEPT ![t] = "waiting"]
  /\ UNCHANGED <<key, mapHolder, chains, mutex, now>>

(* The lock is granted: task() starts.                                     *)
Begin(t) ==
  /\ pc[t] = "waiting"
  /\ Head(line[mutex[t]]) = t
  /\ pc' = [pc EXCEPT ![t] = "body"]
  /\ UNCHANGED <<key, mapHolder, chains, mutex, line, now>>

(* task() is over and try_write() succeeds ...                             *)
FinishTouch(t) ==
  /\ pc[t] = "body"
  /\ mapHolder = NoTask
  /\ mapHolder' = t
  /\ pc' = [pc EXCEPT ![t] = "touch"]
  /\ UNCHANGED <<key, chains, mutex, line, now>>

(* ... or fails because another call holds the map: neither the touch nor  *)
(* the size check happens.                                                 *)
FinishSkip(t) ==
  /\ pc[t] = "body"
  /\ mapHolder # NoTask
  /\ pc' = [pc EXCEPT ![t] = "unlock"]
  /\ UNCHANGED <<key, mapHolder, chains, mutex, line, now>>

(* get_mut(key): the entry may be another mutex than t's by now, or gone.  *)
TouchedAnew(t) == Put(chains, key[t], [mutex |-> t, last |-> now])

Touched(t) ==
  IF key[t] \in DOMAIN chains
    THEN Put(chains, key[t], [mutex |-> chains[key[t]].mutex, last |-> now])
    ELSE chains

(* evict: drop the idle entries, then the oldest down to EVICT_THRESHOLD.  *)
NothingEvicted(c) == {c}

EvictOutcomes(c) ==
  LET Fresh == {k \in DOMAIN c : now - c[k].last < IdleSecs}
      lastUsed == [k \in Fresh |-> c[k].last]
  IN  {[k \in S |-> c[k]] : S \in LatestCuts(Fresh, lastUsed, EvictThreshold)}

AfterTouch(t) ==
  IF Cardinality(DOMAIN Touched(t)) > MaxChains
    THEN EvictOutcomes(Touched(t))
    ELSE {Touched(t)}

Touch(t) ==
  /\ pc[t] = "touch"
  /\ chains' \in AfterTouch(t)
  /\ mapHolder' = MapGuardDropped(t)
  /\ pc' = [pc EXCEPT ![t] = "unlock"]
  /\ UNCHANGED <<key, mutex, line, now>>

(* _guard is dropped: the mutex goes to the next call of its line.         *)
LineKept(t) == line[mutex[t]]

LineAfter(t) == Tail(line[mutex[t]])

Unlock(t) ==
  /\ pc[t] = "unlock"
  /\ line' = [line EXCEPT ![mutex[t]] = LineAfter(t)]
  /\ pc' = [pc EXCEPT ![t] = "done"]
  /\ UNCHANGED <<key, mapHolder, chains, mutex, now>>

Tick ==
  /\ now < MaxTime
  /\ now' = now + 1
  /\ UNCHANGED <<key, pc, mapHolder, chains, mutex, line>>

Terminated ==
  /\ \A t \in Tasks : pc[t] = "done"
  /\ UNCHANGED vars

Step(t) ==
  \/ LockMap(t) \/ Lookup(t) \/ RequestLock(t) \/ Begin(t)
  \/ FinishTouch(t) \/ FinishSkip(t) \/ Touch(t) \/ Unlock(t)

Next == (\E t \in Tasks : Step(t)) \/ Tick \/ Terminated

Spec == Init /\ [][Next]_vars

(* Every call is a task the runtime keeps polling, and handle_chat returns *)
(* (each wait in it has a timeout), so every enabled step is taken.        *)
CallFair(t) == WF_vars(Step(t))

FairSpec == Spec /\ \A t \in Tasks : CallFair(t)

-----------------------------------------------------------------------------
(* Types, and the map lock is held exactly by the call inside a map block. *)
TypeOK ==
  /\ key \in [Tasks -> Keys]
  /\ pc \in [Tasks -> Stage]
  /\ mapHolder \in Tasks \cup {NoTask}
  /\ DOMAIN chains \subseteq Keys
  /\ \A k \in DOMAIN chains : chains[k] \in [mutex : Tasks, last : Times]
  /\ chains = [k \in DOMAIN chains |-> chains[k]]
  /\ mutex \in [Tasks -> Tasks \cup {NoTask}]
  /\ line \in [Tasks -> Seq(Tasks)]
  /\ now \in Times
  /\ \A t \in Tasks : pc[t] \in {"map", "touch"} <=> mapHolder = t

(* README "会话隔离：per-session 串行队列，同一会话不并发请求 LLM": one       *)
(* session never has two tasks under way.  The code breaks it once more    *)
(* keys are in use than MAX_CHAINS: it evicts the entry of a chain in use. *)
Serial ==
  \A t, u \in Tasks : pc[t] = "body" /\ pc[u] = "body" /\ key[t] = key[u] => t = u

(* What is left of it: while the keys in use fit in the map, one session   *)
(* never has two tasks under way.                                          *)
KeysInUse == {key[t] : t \in Tasks}
KeysFit == Cardinality(KeysInUse) <= MaxChains
SerialWhileFitting == KeysFit => Serial

Quiescent == \A t \in Tasks : pc[t] \in {"new", "done"}

(* Although a finishing call skips the size check when the map is busy,    *)
(* the call it loses to checks later: when no call is under way the map    *)
(* is within MAX_CHAINS.                                                   *)
QuiescentBounded == Quiescent => Cardinality(DOMAIN chains) <= MaxChains

(* Every call runs its task and returns.                                   *)
EveryCallReturns == \A t \in Tasks : pc[t] = "new" ~> pc[t] = "done"

-----------------------------------------------------------------------------
(* While the keys fit, the queue implements the abstract line: the         *)
(* line of a key is the line of the mutex its entry holds, and a call      *)
(* joins when it first polls the lock.                                     *)
AbsStage ==
  [t \in Tasks |-> CASE pc[t] \in {"new", "map", "cloned"} -> "idle"
                     [] pc[t] = "waiting" -> "queued"
                     [] pc[t] \in {"body", "touch", "unlock"} -> "running"
                     [] OTHER -> "done"]

AbsLine ==
  [k \in Keys |-> IF k \in DOMAIN chains THEN line[chains[k].mutex] ELSE <<>>]

Abstract == INSTANCE SerialLine WITH Capacity <- MaxChains, stage <- AbsStage, line <- AbsLine

(* The queue is a serial line per session: served one at a time, in the    *)
(* order of asking, and everyone who asks is served.                       *)
ImplementsLine == Abstract!LineSpec
=============================================================================

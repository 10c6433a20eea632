---------------------------- MODULE SessionStore ----------------------------
(***************************************************************************)
(* session.rs: the SessionStore.  The state in memory, the dirty flag, the *)
(* file session-state.json, the flush task and the calls that read and     *)
(* change the state, with a crash and restart at any point.                *)
(*                                                                         *)
(* A step is a stretch of code between two points where another thread can *)
(* come in: a lock block, an atomic operation, the open (which truncates)  *)
(* and the write of tokio::fs::write.  A writer is the flush task or a     *)
(* call in bump_session -> flush -> write_to_disk.                         *)
(***************************************************************************)
EXTENDS SessionState

CONSTANTS
  Calls,      \* concurrent users of the store (message handlers)
  FlushTask,  \* the task of spawn_flush_task
  Turns,      \* the turns handed to append_conversation
  NoFile, Empty, Garbled, \* file contents that do not parse as a state
  NoState,    \* "no snapshot taken"
  NoId,       \* "no session id held"
  MaxTime, MaxOps, MaxRestarts \* bounds of the model

Writers == Calls \cup {FlushTask}

ASSUME StoreAssumption ==
  /\ FlushTask \notin Calls
  /\ Turns \subseteq Msgs \X Msgs
  /\ MaxTime \in Nat /\ MaxOps \in Nat /\ MaxRestarts \in Nat
  /\ NoId \notin Ids
  /\ NoFile \notin {Empty, Garbled}

VARIABLES
  mem,      \* state: the SessionState behind the RwLock
  dirty,    \* the AtomicBool
  file,     \* what session-state.json holds
  pc,       \* where each writer is
  snap,     \* the serialized state (raw) a writer carries to the disk
  id,       \* the session id a call has read and will append to
  clock,    \* now_secs()
  ops,      \* changes so far (bound)
  restarts, \* restarts so far (bound)
  raced,    \* ghost: since the start, the state changed under a flush in
            \* flight, or a failed write was taken for a good one
  cut,      \* ghost: since the last good write one was cut off by a crash
            \* or a failure, or the start was from such a file
  peak      \* ghost: the highest version each base has ever had

vars == <<mem, dirty, file, pc, snap, id, clock, ops, restarts, raced, cut, peak>>

Pcs == {"idle", "hold", "mark", "snap", "open", "write", "cas"}

(* SessionStore::new: a file that is missing or does not parse gives the   *)
(* default state.                                                          *)
Loaded(f) == IF f \in {NoFile, Empty, Garbled} THEN Default ELSE f

Carrying(w) == pc[w] \in {"open", "write"}
InFlight(w) == pc[w] \in {"open", "write", "cas"}

Init ==
  /\ file = NoFile
  /\ mem = Loaded(file)
  /\ dirty = FALSE
  /\ pc = [w \in Writers |-> "idle"]
  /\ snap = [w \in Writers |-> NoState]
  /\ id = [c \in Calls |-> NoId]
  /\ clock = 0
  /\ ops = 0
  /\ restarts = 0
  /\ raced = FALSE
  /\ cut = FALSE
  /\ peak = [b \in Bases |-> 0]

(* What every change of mem has in common.                                 *)
Mutate(c, outcomes, next) ==
  /\ ops < MaxOps
  /\ ops' = ops + 1
  /\ mem' \in outcomes
  /\ pc' = [pc EXCEPT ![c] = next]
  /\ raced' = (raced \/ \E w \in Writers : InFlight(w))
  /\ peak' = [b \in Bases |-> IF VersionOf(mem', b) > peak[b] THEN VersionOf(mem', b) ELSE peak[b]]

-----------------------------------------------------------------------------
(* A handler reads the session id, and later appends to that id, or not at *)
(* all when the request failed.                                            *)
ReadId(c, b) ==
  /\ pc[c] = "idle"
  /\ id' = [id EXCEPT ![c] = SessionId(mem, b)]
  /\ pc' = [pc EXCEPT ![c] = "hold"]
  /\ UNCHANGED <<mem, dirty, file, snap, clock, ops, restarts, raced, cut, peak>>

GiveUp(c) ==
  /\ pc[c] = "hold"
  /\ id' = [id EXCEPT ![c] = NoId]
  /\ pc' = [pc EXCEPT ![c] = "idle"]
  /\ UNCHANGED <<mem, dirty, file, snap, clock, ops, restarts, raced, cut, peak>>

AppendConversation(c, turn) ==
  /\ pc[c] = "hold"
  /\ Mutate(c, AppendOutcomes(mem, id[c], turn, clock), "mark")
  /\ id' = [id EXCEPT ![c] = NoId]
  /\ UNCHANGED <<dirty, file, snap, clock, restarts, cut>>

SelectModel(c, m) ==
  /\ pc[c] = "idle"
  /\ Mutate(c, {Selecting(mem, m)}, "mark")
  /\ UNCHANGED <<dirty, file, snap, id, clock, restarts, cut>>

(* mark_dirty(), after the write lock is gone.                             *)
Unmarked(c) == dirty

Marked(c) == TRUE

MarkDirty(c) ==
  /\ pc[c] = "mark"
  /\ dirty' = Marked(c)
  /\ pc' = [pc EXCEPT ![c] = "idle"]
  /\ UNCHANGED <<mem, file, snap, id, clock, ops, restarts, raced, cut, peak>>

(* bump_session: change the state, then flush() without marking it dirty.  *)
BumpSession(c, b) ==
  /\ pc[c] = "idle"
  /\ Mutate(c, {Bumped(mem, b)}, "snap")
  /\ UNCHANGED <<dirty, file, snap, id, clock, restarts, cut>>

(* The flush task wakes up and finds the flag up.                          *)
FlushTick ==
  /\ pc[FlushTask] = "idle"
  /\ dirty
  /\ pc' = [pc EXCEPT ![FlushTask] = "snap"]
  /\ UNCHANGED <<mem, dirty, file, snap, id, clock, ops, restarts, raced, cut, peak>>

(* Serialize under the read lock.                                          *)
Snapshot(w) ==
  /\ pc[w] = "snap"
  /\ snap' = [snap EXCEPT ![w] = mem]
  /\ pc' = [pc EXCEPT ![w] = "open"]
  /\ UNCHANGED <<mem, dirty, file, id, clock, ops, restarts, raced, cut, peak>>

(* tokio::fs::write opens with truncation ...                              *)
NotTruncated == file

Truncated == Empty

Open(w) ==
  /\ pc[w] = "open"
  /\ file' = Truncated
  /\ pc' = [pc EXCEPT ![w] = "write"]
  /\ UNCHANGED <<mem, dirty, snap, id, clock, ops, restarts, raced, cut, peak>>

(* ... and writes from offset 0.  Bytes another writer put there since the *)
(* truncation are overwritten, but stay behind the new ones if they reach  *)
(* further.                                                                *)
WriteOutcomes(w) ==
  IF file \in {Empty, snap[w]} THEN {snap[w]} ELSE {snap[w], Garbled}

Write(w) ==
  /\ pc[w] = "write"
  /\ file' \in WriteOutcomes(w)
  /\ snap' = [snap EXCEPT ![w] = NoState]
  /\ pc' = [pc EXCEPT ![w] = "cas"]
  /\ cut' = FALSE
  /\ UNCHANGED <<mem, dirty, id, clock, ops, restarts, raced, peak>>

(* open or write fails: the flush task leaves the flag up and waits for    *)
(* the next tick, flush() goes on as if the state were saved.              *)
TakenForSaved(w) == "cas"

AfterFailure(w) == IF w = FlushTask THEN "idle" ELSE "cas"

Harmless(w) ==
  w = FlushTask /\ dirty /\ \A v \in Writers \ {w} : ~InFlight(v)

WriteFails(w) ==
  /\ pc[w] \in {"open", "write"}
  /\ pc' = [pc EXCEPT ![w] = AfterFailure(w)]
  /\ raced' = (raced \/ ~Harmless(w))
  /\ cut' = (cut \/ pc[w] = "write")
  /\ snap' = [snap EXCEPT ![w] = NoState]
  /\ UNCHANGED <<mem, dirty, file, id, clock, ops, restarts, peak>>

(* compare_exchange(true, false): down, whatever it was.                   *)
Cas(w) ==
  /\ pc[w] = "cas"
  /\ dirty' = FALSE
  /\ pc' = [pc EXCEPT ![w] = "idle"]
  /\ UNCHANGED <<mem, file, snap, id, clock, ops, restarts, raced, cut, peak>>

(* The process dies at any point; the next one loads the file.             *)
Restart ==
  /\ restarts < MaxRestarts
  /\ restarts' = restarts + 1
  /\ mem' = Loaded(file)
  /\ dirty' = FALSE
  /\ pc' = [w \in Writers |-> "idle"]
  /\ id' = [c \in Calls |-> NoId]
  /\ snap' = [w \in Writers |-> NoState]
  /\ raced' = FALSE
  /\ cut' = (cut \/ raced \/ \E w \in Writers : pc[w] = "write")
  /\ UNCHANGED <<file, clock, ops, peak>>

Tick ==
  /\ clock < MaxTime
  /\ clock' = clock + 1
  /\ UNCHANGED <<mem, dirty, file, pc, snap, id, ops, restarts, raced, cut, peak>>

Saving(w) == Snapshot(w) \/ Open(w) \/ Write(w) \/ Cas(w)

CallStep(c) ==
  \/ \E b \in Bases : ReadId(c, b) \/ BumpSession(c, b)
  \/ \E turn \in Turns : AppendConversation(c, turn)
  \/ \E m \in Models : SelectModel(c, m)
  \/ GiveUp(c)
  \/ MarkDirty(c)

Healthy ==
  \/ \E c \in Calls : CallStep(c)
  \/ FlushTick
  \/ \E w \in Writers : Saving(w)
  \/ Tick

Next == Healthy \/ (\E w \in Writers : WriteFails(w)) \/ Restart

Spec == Init /\ [][Next]_vars

(* The disk works and the process stays up.                                *)
HealthySpec == Init /\ [][Healthy]_vars

(* The interval of the flush task keeps ticking, the runtime polls every   *)
(* started save, and a call that changed the state goes on to mark it.     *)
SaveFair(w) ==
  WF_vars(Snapshot(w)) /\ SF_vars(Open(w)) /\ SF_vars(Write(w)) /\ WF_vars(Cas(w))

MarkFair(c) == WF_vars(MarkDirty(c))

FairSpec ==
  /\ Spec
  /\ WF_vars(FlushTick)
  /\ \A w \in Writers : SaveFair(w)
  /\ \A c \in Calls : MarkFair(c)

-----------------------------------------------------------------------------
Contents == {file} \ {NoFile, Empty, Garbled}

(* Nobody holds or stores a session of a version its base never had.       *)
NoFutureSession ==
  /\ \A i \in DOMAIN mem.convs : i[2] <= peak[i[1]]
  /\ \A c \in Calls : pc[c] = "hold" => id[c][2] <= peak[id[c][1]]

(* Types, and every state in memory, on its way to the disk or on it is    *)
(* one SessionState can be in.                                             *)
TypeOK ==
  /\ IsState(mem)
  /\ \A s \in Contents : IsState(s)
  /\ \A w \in Writers : Carrying(w) => IsState(snap[w])
  /\ dirty \in BOOLEAN /\ raced \in BOOLEAN /\ cut \in BOOLEAN
  /\ pc \in [Writers -> Pcs]
  /\ pc[FlushTask] \notin {"hold", "mark"}
  /\ id \in [Calls -> Ids \cup {NoId}]
  /\ \A c \in Calls : pc[c] = "hold" => id[c] \in Ids
  /\ peak \in [Bases -> Nat]
  /\ clock \in Nat /\ ops \in Nat /\ restarts \in Nat
  /\ NoFutureSession

(* Conversations and their timestamps never part, and both caps hold, in   *)
(* memory, in every snapshot, and in whatever a restart may find.          *)
StateCoherent ==
  /\ Coherent(mem)
  /\ \A s \in Contents : Coherent(s)
  /\ \A w \in Writers : Carrying(w) => Coherent(snap[w])

(* A restart would find what is in memory.                                 *)
Persisted == Loaded(file) = mem

Quiet == \A w \in Writers : pc[w] \in {"idle", "hold"}

(* README "`session-state.json` 持久化，重启不丢失": with the flag down and  *)
(* nobody on the way to the disk, a restart loses nothing.  The code       *)
(* breaks it: see DurableUnlessRaced for what is left.                     *)
CleanMeansSaved == Quiet /\ ~dirty => Persisted

(* The flag is down over unsaved changes only if the state changed while a *)
(* flush was in flight, or flush() took a failed write for a good one.     *)
DurableUnlessRaced == Quiet /\ ~dirty /\ ~raced => Persisted

(* The file stops parsing, so that a restart begins from nothing, only     *)
(* while a save is between its truncation and its write, after a crash or  *)
(* a failure there, or when two saves of different states overlapped.      *)
FileWhole ==
  file \in {Empty, Garbled} => cut \/ raced \/ \E w \in Writers : pc[w] = "write"

(* A change reaches the disk, whatever writes fail, as long as the disk    *)
(* works again and no change came under a flush.                           *)
UnsavedGetsSaved == ~Persisted ~> (Persisted \/ raced)

(* README "`/new` 命令递增版本号，旧会话历史自动清除": a bump to a version    *)
(* the base never had opens a session without history, whatever was        *)
(* appended to ids read long before, and through evictions and restarts.   *)
(* (Eviction and restarts can make a base count through old versions once  *)
(* more; those may have history.)                                          *)
BumpStartsEmpty ==
  [][\A b \in Bases :
       peak'[b] # peak[b] => Conversation(mem', SessionId(mem', b)) = <<>>]_vars
=============================================================================

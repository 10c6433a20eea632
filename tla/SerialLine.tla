----------------------------- MODULE SerialLine -----------------------------
(***************************************************************************)
(* What SessionQueue promises its callers (README, "per-session serial     *)
(* queue"): the jobs of one key form a line, the job at the head of the    *)
(* line is the only one that runs, and jobs leave in the order they        *)
(* joined.  Jobs of different keys do not wait for each other.  Once more  *)
(* keys are in use than there is room for, only progress is promised.      *)
(***************************************************************************)
EXTENDS Naturals, FiniteSets, Sequences

CONSTANTS Keys, Tasks, Capacity

VARIABLES
  key,    \* the session key of each job
  stage,  \* how far each job has come
  line    \* per key, the jobs waiting or running, the running one first

lineVars == <<key, stage, line>>

Stages == {"idle", "queued", "running", "done"}

LineInit ==
  /\ key \in [Tasks -> Keys]
  /\ stage = [t \in Tasks |-> "idle"]
  /\ line = [k \in Keys |-> <<>>]

Join(t) ==
  /\ stage[t] = "idle"
  /\ stage' = [stage EXCEPT ![t] = "queued"]
  /\ line' = [line EXCEPT ![key[t]] = Append(@, t)]
  /\ UNCHANGED key

First(t) == line[key[t]] # <<>> /\ Head(line[key[t]]) = t

Start(t) ==
  /\ stage[t] = "queued"
  /\ First(t)
  /\ stage' = [stage EXCEPT ![t] = "running"]
  /\ UNCHANGED <<key, line>>

Leave(t) ==
  /\ stage[t] = "running"
  /\ First(t)
  /\ stage' = [stage EXCEPT ![t] = "done"]
  /\ line' = [line EXCEPT ![key[t]] = Tail(@)]
  /\ UNCHANGED key

KeysFit == Cardinality({key[t] : t \in Tasks}) <= Capacity

Overflow == ~KeysFit /\ UNCHANGED key

LineNext == Overflow \/ \E t \in Tasks : Join(t) \/ Start(t) \/ Leave(t)

(* Nothing out of line; with fairness, also that everyone is served.       *)
LineSafety == LineInit /\ [][LineNext]_lineVars

LineSpec ==
  /\ LineSafety
  /\ \A t \in Tasks : WF_lineVars(Join(t)) /\ WF_lineVars(Start(t)) /\ WF_lineVars(Leave(t))
=============================================================================

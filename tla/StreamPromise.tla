---------------------------- MODULE StreamPromise ----------------------------
(***************************************************************************)
(* What LlmClient::complete_stream and handle_stream_reply promise the     *)
(* rest of the pipeline, whatever the connection does: the turn is settled *)
(* once, recorded or not, and before the reply is over; only an answer     *)
(* that has begun is recorded or shown; every reply is over one day, and   *)
(* by then the user has been told something.                               *)
(***************************************************************************)
EXTENDS Naturals

CONSTANTS
  Streams,     \* streamed replies
  LocalHistory \* config local_history_enabled

VARIABLES
  phase, \* "off", "open", "settled" (the history is not touched again), "over"
  begun, \* some of the answer has come
  taken, \* the turn has been recorded
  told   \* the user has been sent something

promiseVars == <<phase, begun, taken, told>>

PromiseInit ==
  /\ phase \in [Streams -> {"off", "open"}]
  /\ begun = [s \in Streams |-> FALSE]
  /\ taken = [s \in Streams |-> FALSE]
  /\ told = [s \in Streams |-> FALSE]

Open(s) ==
  /\ phase[s] = "off"
  /\ phase' = [phase EXCEPT ![s] = "open"]
  /\ UNCHANGED <<begun, taken, told>>

AnswerComes(s) ==
  /\ phase[s] = "open"
  /\ begun' = [begun EXCEPT ![s] = TRUE]
  /\ UNCHANGED <<phase, taken, told>>

Show(s) ==
  /\ phase[s] \in {"open", "settled"}
  /\ begun[s]
  /\ told' = [told EXCEPT ![s] = TRUE]
  /\ UNCHANGED <<phase, begun, taken>>

(* The response is complete or has ended early: recorded if there is       *)
(* anything to record ...                                                  *)
SettleRecorded(s) ==
  /\ phase[s] = "open"
  /\ LocalHistory /\ begun[s]
  /\ phase' = [phase EXCEPT ![s] = "settled"]
  /\ taken' = [taken EXCEPT ![s] = TRUE]
  /\ UNCHANGED <<begun, told>>

(* ... or it broke, or nothing came, or no history is kept.                *)
SettleUnrecorded(s) ==
  /\ phase[s] = "open"
  /\ phase' = [phase EXCEPT ![s] = "settled"]
  /\ UNCHANGED <<begun, taken, told>>

Finish(s) ==
  /\ phase[s] = "settled"
  /\ phase' = [phase EXCEPT ![s] = "over"]
  /\ told' = [told EXCEPT ![s] = TRUE]
  /\ UNCHANGED <<begun, taken>>

Settle(s) == SettleRecorded(s) \/ SettleUnrecorded(s)

PromiseNext == \E s \in Streams : Open(s) \/ AnswerComes(s) \/ Show(s) \/ Settle(s) \/ Finish(s)

(* Nothing out of turn; with fairness, also that every reply ends.         *)
PromiseSafety == PromiseInit /\ [][PromiseNext]_promiseVars

PromiseSpec ==
  /\ PromiseSafety
  /\ \A s \in Streams : WF_promiseVars(Settle(s)) /\ WF_promiseVars(Finish(s))
=============================================================================

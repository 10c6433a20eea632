---------------------------- MODULE ChatPipeline ----------------------------
(***************************************************************************)
(* lib.rs, cmd.rs and llm/mod.rs: what a handler does with a message that  *)
(* has been accepted, from the command dispatch to the reply.  It composes *)
(* the session state (SessionState) with the session queue, taken as the   *)
(* serial line it implements below capacity (SerialLine, which             *)
(* SessionQueue refines), and with the streamed reply, taken as the        *)
(* promise it keeps (StreamPromise, which LlmStream refines).  acquire()   *)
(* lets every request through one day (RateLimiter).  The gateway is       *)
(* external and answers, fails or refuses at will.                         *)
(*                                                                         *)
(* One element of Handlers is one accepted message: a chat message, or an  *)
(* administrator's /new (or /reset) of the same session base.              *)
(***************************************************************************)
EXTENDS SessionState

CONSTANTS
  Handlers,
  MaxRetries,   \* config max_retries
  LocalHistory, \* config local_history_enabled
  NoId          \* "no session id read yet"

ASSUME PipelineAssumption ==
  /\ MaxRetries \in Nat
  /\ LocalHistory \in BOOLEAN
  /\ NoId \notin Ids
  /\ \A h \in Handlers : {<<h, "user">>, <<h, "assistant">>} \subseteq Msgs \ {Blank}

VARIABLES
  useStream,\* config stream_response, fixed while the plugin runs
  key,      \* base_key of each message
  stage,    \* the message's place in the queue (SerialLine)
  line,     \* the queue's lines (SerialLine)
  isNew,    \* the message is /new
  pc,       \* where each handler is
  sid,      \* session_id, read before the message queues up
  context,  \* the history build_messages put in the request
  attempt,  \* requests sent for the message
  paid,     \* tokens acquire() has given for the message
  replies,  \* whole replies sent for the message
  phase, begun, taken, told, \* the streamed reply (StreamPromise)
  mem       \* the SessionState

stream == <<phase, begun, taken, told>>
requests == <<attempt, paid>>
message == <<useStream, isNew>>
vars == <<key, stage, line, message, pc, sid, context, requests, replies, stream, mem>>

Queue == INSTANCE SerialLine WITH Keys <- Bases, Tasks <- Handlers, Capacity <- Cardinality(Handlers)

Stream == INSTANCE StreamPromise WITH Streams <- Handlers

Turn(h) == <<<<h, "user">>, <<h, "assistant">>>>

Init ==
  /\ Queue!LineInit
  /\ useStream \in BOOLEAN
  /\ isNew \in [Handlers -> BOOLEAN]
  /\ pc = [h \in Handlers |-> "new"]
  /\ sid = [h \in Handlers |-> NoId]
  /\ context = [h \in Handlers |-> <<>>]
  /\ attempt = [h \in Handlers |-> 0]
  /\ paid = [h \in Handlers |-> 0]
  /\ replies = [h \in Handlers |-> 0]
  /\ Stream!PromiseInit /\ phase = [h \in Handlers |-> "off"]
  /\ mem = Default

Goto(h, next) == pc' = [pc EXCEPT ![h] = next]

(* handle_command, "new" | "reset": bump the session, reply, handled.      *)
NewCommand(h) ==
  /\ pc[h] = "new" /\ isNew[h]
  /\ mem' = Bumped(mem, key[h])
  /\ replies' = [replies EXCEPT ![h] = @ + 1]
  /\ Goto(h, "done")
  /\ UNCHANGED <<key, stage, line, message, sid, context, requests, stream>>

(* store.session_id(&base_key), before the message queues up.              *)
ReadSessionId(h) ==
  /\ pc[h] = "new" /\ ~isNew[h]
  /\ sid' = [sid EXCEPT ![h] = SessionId(mem, key[h])]
  /\ Goto(h, "enqueue")
  /\ UNCHANGED <<key, stage, line, message, context, requests, replies, stream, mem>>

Enqueue(h) ==
  /\ pc[h] = "enqueue"
  /\ Queue!Join(h)
  /\ Goto(h, "wait")
  /\ UNCHANGED <<message, sid, context, requests, replies, stream, mem>>

(* The queue runs the task (after the debounce sleep).                     *)
StartsAtOnce(h) ==
  /\ stage' = [stage EXCEPT ![h] = "running"]
  /\ UNCHANGED <<key, line>>

MayStart(h) == Queue!Start(h)

StartTask(h) ==
  /\ pc[h] = "wait"
  /\ MayStart(h)
  /\ Goto(h, "build")
  /\ UNCHANGED <<message, sid, context, requests, replies, stream, mem>>

(* build_messages, once for all attempts.                                  *)
BuildMessages(h) ==
  /\ pc[h] = "build"
  /\ context' = [context EXCEPT ![h] = IF LocalHistory THEN Conversation(mem, sid[h]) ELSE <<>>]
  /\ Goto(h, "acquire")
  /\ UNCHANGED <<key, stage, line, message, sid, requests, replies, stream, mem>>

(* One round of the retry loop, the same in complete and complete_stream:  *)
(* acquire(), ...                                                          *)
Acquire(h) ==
  /\ pc[h] = "acquire"
  /\ paid' = [paid EXCEPT ![h] = @ + 1]
  /\ Goto(h, "send")
  /\ UNCHANGED <<key, stage, line, message, sid, context, attempt, replies, stream, mem>>

(* ... the request, which is answered, or begins to be ...                 *)
Sent(h) ==
  /\ pc[h] = "send"
  /\ attempt' = [attempt EXCEPT ![h] = @ + 1]
  /\ UNCHANGED <<key, stage, line, message, sid, context, paid, replies, mem>>

RequestOk(h) ==
  /\ ~useStream
  /\ Sent(h)
  /\ Goto(h, "persist")
  /\ UNCHANGED stream

StreamOpens(h) ==
  /\ useStream
  /\ Sent(h)
  /\ Stream!Open(h)
  /\ Goto(h, "streaming")

(* ... or fails in a way is_retryable() accepts: timeout, no connection,   *)
(* 429, 5xx.  The loop goes on while attempts are left, ...                *)
EndsSilently(h) == IF attempt[h] < MaxRetries THEN "acquire" ELSE "done"

TokenForAll(h) == IF attempt[h] < MaxRetries THEN "send" ELSE "failed"

AfterRetryable(h) == IF attempt[h] < MaxRetries THEN "acquire" ELSE "failed"

RequestRetryable(h) ==
  /\ Sent(h)
  /\ Goto(h, AfterRetryable(h))
  /\ UNCHANGED stream

(* ... or for good: any other status, an empty reply, a broken body.       *)
RequestFatal(h) ==
  /\ Sent(h)
  /\ Goto(h, "failed")
  /\ UNCHANGED stream

(* persist_turn, under the id read before the queue.                       *)
PersistedMem(h) ==
  IF LocalHistory THEN AppendOutcomes(mem, sid[h], Turn(h), 0) ELSE {mem}

RetriedAnyway(h) == "send"

AfterPersist(h) == "answered"

Persist(h) ==
  /\ pc[h] = "persist"
  /\ mem' \in PersistedMem(h)
  /\ Goto(h, AfterPersist(h))
  /\ UNCHANGED <<key, stage, line, message, sid, context, requests, replies, stream>>

(* The processor and handle_stream_reply: the answer comes and is shown,   *)
(* the turn is recorded or not, the reply ends.                            *)
Streaming(h) ==
  /\ pc[h] = "streaming"
  /\ UNCHANGED <<key, stage, line, message, sid, context, requests, replies>>

StreamGoesOn(h) ==
  /\ Streaming(h)
  /\ Stream!AnswerComes(h) \/ Stream!Show(h)
  /\ UNCHANGED <<pc, mem>>

StreamSettles(h) ==
  /\ Streaming(h)
  /\ \/ Stream!SettleRecorded(h) /\ mem' \in PersistedMem(h)
     \/ Stream!SettleUnrecorded(h) /\ UNCHANGED mem
  /\ UNCHANGED pc

StreamEnds(h) ==
  /\ Streaming(h)
  /\ Stream!Finish(h)
  /\ Goto(h, "leave")
  /\ UNCHANGED mem

(* reply_text with the answer, or with the failure notice; the task ends   *)
(* and the session's next message may start.                               *)
Reply(h) ==
  /\ pc[h] \in {"answered", "failed"}
  /\ replies' = [replies EXCEPT ![h] = @ + 1]
  /\ Goto(h, "leave")
  /\ UNCHANGED <<key, stage, line, message, sid, context, requests, stream, mem>>

LeaveQueue(h) ==
  /\ pc[h] = "leave"
  /\ Queue!Leave(h)
  /\ Goto(h, "done")
  /\ UNCHANGED <<message, sid, context, requests, replies, stream, mem>>

Terminated ==
  /\ \A h \in Handlers : pc[h] = "done"
  /\ UNCHANGED vars

Step(h) ==
  \/ NewCommand(h) \/ ReadSessionId(h) \/ Enqueue(h) \/ StartTask(h) \/ BuildMessages(h)
  \/ Acquire(h) \/ RequestOk(h) \/ StreamOpens(h) \/ RequestRetryable(h) \/ RequestFatal(h)
  \/ Persist(h) \/ StreamGoesOn(h) \/ StreamSettles(h) \/ StreamEnds(h)
  \/ Reply(h) \/ LeaveQueue(h)

Next == (\E h \in Handlers : Step(h)) \/ Terminated

Spec == Init /\ [][Next]_vars

(* The runtime polls every handler and stream processor, and every request *)
(* ends: the HTTP client has a timeout.                                    *)
HandlerFair(h) == WF_vars(Step(h))

FairSpec == Spec /\ \A h \in Handlers : HandlerFair(h)

-----------------------------------------------------------------------------
(* README "所有 API 请求前 `acquire()` 令牌": retries included, no message    *)
(* sends more requests than it has been given tokens for.                  *)
EveryRequestPaid == \A h \in Handlers : attempt[h] <= paid[h]

(* Types, and the retry loop: max_retries + 1 requests at most, and each   *)
(* has its own token.                                                      *)
TypeOK ==
  /\ key \in [Handlers -> Bases] /\ isNew \in [Handlers -> BOOLEAN] /\ useStream \in BOOLEAN
  /\ stage \in [Handlers -> {"idle", "queued", "running", "done"}]
  /\ line \in [Bases -> Seq(Handlers)]
  /\ pc \in [Handlers -> {"new", "enqueue", "wait", "build", "acquire", "send", "persist",
                          "streaming", "answered", "failed", "leave", "done"}]
  /\ sid \in [Handlers -> Ids \cup {NoId}]
  /\ context \in [Handlers -> Seq(Msgs)]
  /\ attempt \in [Handlers -> 0 .. MaxRetries + 1] /\ paid \in [Handlers -> Nat]
  /\ replies \in [Handlers -> Nat]
  /\ phase \in [Handlers -> {"off", "open", "settled", "over"}]
  /\ begun \in [Handlers -> BOOLEAN] /\ taken \in [Handlers -> BOOLEAN]
  /\ told \in [Handlers -> BOOLEAN]
  /\ IsState(mem)
  /\ EveryRequestPaid

(* The answer of a request, streamed or not, is recorded behind the        *)
(* history the model saw, never behind turns that came in between; the     *)
(* history may only be gone (closed by /new, or evicted).                  *)
InFlight(h) ==
  \/ pc[h] \in {"acquire", "send", "persist"}
  \/ pc[h] = "streaming" /\ phase[h] = "open"

HistoryUnchangedInFlight ==
  \A h \in Handlers :
    LocalHistory /\ InFlight(h) => Conversation(mem, sid[h]) \in {context[h], <<>>}

(* Whatever is retried, a turn is recorded at most once over all sessions, *)
(* and only for a message whose request was answered.                      *)
Places(h) ==
  UNION {{<<i, n>> : n \in {m \in DOMAIN mem.convs[i] : mem.convs[i][m] = <<h, "user">>}} :
           i \in DOMAIN mem.convs}

Answered(h) == IF useStream THEN taken[h] ELSE pc[h] \in {"answered", "leave", "done"}

RecordedOnce ==
  \A h \in Handlers :
    /\ Cardinality(Places(h)) <= 1
    /\ Places(h) # {} => Answered(h)

(* A history is made of whole turns: whatever is evicted, closed and       *)
(* opened again, or drained, the model never sees an answer without its    *)
(* question, as long as local_history_max_messages is even (an odd one     *)
(* leaves the second half of a turn in front).                             *)
WholeTurns ==
  MaxMessages % 2 = 0 =>
    \A i \in DOMAIN mem.convs :
      LET c == mem.convs[i]
      IN  /\ Len(c) % 2 = 0
          /\ \A n \in 1 .. Len(c) \div 2 : \E h \in Handlers : <<c[2 * n - 1], c[2 * n]>> = Turn(h)

(* Every accepted message gets exactly one answer, a notice of failure     *)
(* counting as one, or a streamed reply, never both.                       *)
OneAnswer(h) == replies[h] = IF told[h] THEN 0 ELSE 1

EveryMessageAnswered == \A h \in Handlers : <>[](pc[h] = "done" /\ OneAnswer(h))
=============================================================================

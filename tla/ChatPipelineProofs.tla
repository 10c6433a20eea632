------------------------- MODULE ChatPipelineProofs -------------------------
(***************************************************************************)
(* Proofs about ChatPipeline for every set of messages and sessions, every *)
(* limit, and both kinds of reply.                                         *)
(***************************************************************************)
EXTENDS ChatPipeline, SessionStateProofs

Pcs == {"new", "enqueue", "wait", "build", "acquire", "send", "persist", "streaming", "answered",
        "failed", "leave", "done"}

(* The task of h is under way: h holds the session.                        *)
Busy == {"build", "acquire", "send", "persist", "streaming", "answered", "failed", "leave"}

-----------------------------------------------------------------------------
(* What the variables of the queue and of the messages, of the streamed    *)
(* replies, and of the requests look like.                                 *)
QueueShape ==
  /\ key \in [Handlers -> Bases] /\ isNew \in [Handlers -> BOOLEAN] /\ useStream \in BOOLEAN
  /\ stage \in [Handlers -> {"idle", "queued", "running", "done"}]
  /\ line \in [Bases -> Seq(Handlers)]

StreamShape ==
  /\ phase \in [Handlers -> {"off", "open", "settled", "over"}]
  /\ begun \in [Handlers -> BOOLEAN] /\ taken \in [Handlers -> BOOLEAN]
  /\ told \in [Handlers -> BOOLEAN]

HandlerShape ==
  /\ pc \in [Handlers -> Pcs]
  /\ sid \in [Handlers -> Ids \cup {NoId}]
  /\ context \in [Handlers -> Seq(Msgs)]
  /\ attempt \in [Handlers -> Nat] /\ paid \in [Handlers -> Nat]
  /\ replies \in [Handlers -> Nat]

(* A message past its first step has read an id of its own session ...     *)
OwnId == \A h \in Handlers : pc[h] \notin {"new", "done"} => sid[h] \in Ids /\ sid[h][1] = key[h]

(* ... and before each request there are attempts left, and a token.       *)
Retries ==
  \A h \in Handlers :
    /\ pc[h] \in {"new", "enqueue", "wait", "build"} => attempt[h] = 0
    /\ pc[h] \in {"acquire", "send"} => attempt[h] <= MaxRetries
    /\ attempt[h] <= MaxRetries + 1 /\ attempt[h] <= paid[h]
    /\ pc[h] = "send" => attempt[h] < paid[h]

TypeInv == QueueShape /\ StreamShape /\ HandlerShape /\ OwnId /\ Retries /\ Good(mem)

(* The task under way is the first of its line, so a session has one.      *)
BusyFirst == \A h \in Handlers : pc[h] \in Busy => Queue!First(h)

HistoryInv == TypeInv /\ BusyFirst /\ HistoryUnchangedInFlight

(* A turn is in one place at most, and in none before the answer.          *)
UserTurn(h) == <<h, "user">>

OnePlace ==
  \A h \in Handlers, i \in DOMAIN mem.convs, j \in DOMAIN mem.convs :
    \A n \in DOMAIN mem.convs[i], m \in DOMAIN mem.convs[j] :
      mem.convs[i][n] = UserTurn(h) /\ mem.convs[j][m] = UserTurn(h) => i = j /\ n = m

AnsweredFirst ==
  \A h \in Handlers, i \in DOMAIN mem.convs :
    \A n \in DOMAIN mem.convs[i] : mem.convs[i][n] = UserTurn(h) => Answered(h)

(* Which of the two kinds of reply a message is at, and whether its turn   *)
(* is still to be recorded.                                                *)
KindOfReply ==
  \A h \in Handlers :
    /\ pc[h] = "persist" => ~useStream
    /\ pc[h] = "streaming" => useStream
    /\ phase[h] \in {"off", "open"} => ~taken[h]

OnceInv == TypeInv /\ KindOfReply /\ OnePlace /\ AnsweredFirst
-----------------------------------------------------------------------------
LEMMA InitType == Init => TypeInv
<1> SUFFICES ASSUME Init PROVE TypeInv
  OBVIOUS
<1>1. QueueShape
  BY DEF Init, QueueShape, Queue!LineInit
<1>2. StreamShape
  BY DEF Init, StreamShape, Stream!PromiseInit
<1>3. HandlerShape /\ OwnId /\ Retries
  BY PipelineAssumption DEF Init, HandlerShape, Pcs, OwnId, Retries
<1>4. Good(mem)
  BY DefaultGood DEF Init
<1> QED BY <1>1, <1>2, <1>3, <1>4 DEF TypeInv

(* The queue's line is changed by the three steps the queue makes.         *)
LEMMA StepQueueShape ==
  ASSUME TypeInv, NEW h \in Handlers, Step(h)
  PROVE  QueueShape'
<1> USE DEF TypeInv, QueueShape
<1>1. CASE Enqueue(h)
  <2>1. /\ stage' = [stage EXCEPT ![h] = "queued"]
        /\ line' = [line EXCEPT ![key[h]] = Append(@, h)]
        /\ UNCHANGED <<key, useStream, isNew>>
    BY <1>1 DEF Enqueue, Queue!Join, message
  <2> QED BY <2>1
<1>2. CASE StartTask(h)
  <2>1. /\ stage' = [stage EXCEPT ![h] = "running"]
        /\ UNCHANGED <<key, line, useStream, isNew>>
    BY <1>2 DEF StartTask, MayStart, Queue!Start, message
  <2> QED BY <2>1
<1>3. CASE LeaveQueue(h)
  <2>1. /\ stage' = [stage EXCEPT ![h] = "done"]
        /\ line' = [line EXCEPT ![key[h]] = Tail(@)]
        /\ line[key[h]] # <<>>
        /\ UNCHANGED <<key, useStream, isNew>>
    BY <1>3 DEF LeaveQueue, Queue!Leave, Queue!First, message
  <2>2. Tail(line[key[h]]) \in Seq(Handlers)
    BY <2>1, HeadTailProperties
  <2> QED BY <2>1, <2>2
<1>4. CASE UNCHANGED <<key, stage, line, message>>
  BY <1>4 DEF message
<1> QED
  BY <1>1, <1>2, <1>3, <1>4
  DEF Step, NewCommand, ReadSessionId, BuildMessages, Acquire, RequestOk, StreamOpens,
      RequestRetryable, RequestFatal, Sent, Persist, Streaming, StreamGoesOn, StreamSettles,
      StreamEnds, Reply

LEMMA StepStreamShape ==
  ASSUME TypeInv, NEW h \in Handlers, Step(h)
  PROVE  StreamShape'
<1> USE DEF TypeInv, StreamShape
<1>1. CASE StreamOpens(h)
  BY <1>1 DEF StreamOpens, Stream!Open
<1>2. CASE StreamGoesOn(h)
  BY <1>2 DEF StreamGoesOn, Stream!AnswerComes, Stream!Show
<1>3. CASE StreamSettles(h)
  BY <1>3 DEF StreamSettles, Stream!SettleRecorded, Stream!SettleUnrecorded
<1>4. CASE StreamEnds(h)
  BY <1>4 DEF StreamEnds, Stream!Finish
<1>5. CASE UNCHANGED stream
  BY <1>5 DEF stream
<1> QED
  BY <1>1, <1>2, <1>3, <1>4, <1>5
  DEF Step, NewCommand, ReadSessionId, Enqueue, StartTask, BuildMessages, Acquire, RequestOk,
      RequestRetryable, RequestFatal, Persist, Reply, LeaveQueue
LEMMA StepHandlerShape ==
  ASSUME TypeInv, NEW h \in Handlers, Step(h)
  PROVE  HandlerShape'
<1> USE DEF TypeInv, HandlerShape, Goto, Pcs, requests
<1>1. CASE NewCommand(h)
  BY <1>1 DEF NewCommand
<1>2. CASE ReadSessionId(h)
  <2>1. SessionId(mem, key[h]) \in Ids
    BY VersionType DEF QueueShape, Good
  <2> QED BY <1>2, <2>1 DEF ReadSessionId
<1>3. CASE Enqueue(h)
  BY <1>3 DEF Enqueue
<1>4. CASE StartTask(h)
  BY <1>4 DEF StartTask
<1>5. CASE BuildMessages(h)
  <2>1. Conversation(mem, sid[h]) \in Seq(Msgs)
    BY DEF Conversation, Good, IsState
  <2> QED BY <1>5, <2>1 DEF BuildMessages
<1>6. CASE Acquire(h)
  BY <1>6 DEF Acquire
<1>7. CASE RequestOk(h)
  BY <1>7 DEF RequestOk, Sent
<1>8. CASE StreamOpens(h)
  BY <1>8 DEF StreamOpens, Sent
<1>9. CASE RequestRetryable(h)
  BY <1>9 DEF RequestRetryable, Sent, AfterRetryable
<1>10. CASE RequestFatal(h)
  BY <1>10 DEF RequestFatal, Sent
<1>11. CASE Persist(h)
  BY <1>11 DEF Persist, AfterPersist
<1>12. CASE StreamGoesOn(h) \/ StreamSettles(h)
  BY <1>12 DEF StreamGoesOn, StreamSettles, Streaming
<1>13. CASE StreamEnds(h)
  BY <1>13 DEF StreamEnds, Streaming
<1>14. CASE Reply(h)
  BY <1>14 DEF Reply
<1>15. CASE LeaveQueue(h)
  BY <1>15 DEF LeaveQueue
<1> QED
  BY <1>1, <1>2, <1>3, <1>4, <1>5, <1>6, <1>7, <1>8, <1>9, <1>10, <1>11, <1>12, <1>13, <1>14,
     <1>15
  DEF Step

(* A step of one message leaves the other messages where they are.         *)
LEMMA OthersStay ==
  ASSUME TypeInv, NEW h \in Handlers, Step(h)
  PROVE  /\ UNCHANGED <<key, useStream, isNew>>
         /\ \A g \in Handlers \ {h} :
              /\ pc'[g] = pc[g] /\ sid'[g] = sid[g] /\ context'[g] = context[g]
              /\ attempt'[g] = attempt[g] /\ paid'[g] = paid[g]
              /\ phase'[g] = phase[g] /\ taken'[g] = taken[g]
<1> USE DEF TypeInv, HandlerShape, StreamShape
<1>1. UNCHANGED <<key, useStream, isNew>>
  BY DEF Step, message, NewCommand, ReadSessionId, Enqueue, Queue!Join, StartTask, MayStart,
         Queue!Start, BuildMessages, Acquire, Sent, RequestOk, StreamOpens, RequestRetryable,
         RequestFatal, Persist, Streaming, StreamGoesOn, StreamSettles, StreamEnds, Reply,
         LeaveQueue, Queue!Leave
<1>2. \A g \in Handlers \ {h} : pc'[g] = pc[g] /\ sid'[g] = sid[g] /\ context'[g] = context[g]
  BY DEF Step, Goto, NewCommand, ReadSessionId, Enqueue, StartTask, BuildMessages, Acquire,
         Sent, RequestOk, StreamOpens, RequestRetryable, RequestFatal, Persist, Streaming,
         StreamGoesOn, StreamSettles, StreamEnds, Reply, LeaveQueue
<1>3. \A g \in Handlers \ {h} : attempt'[g] = attempt[g] /\ paid'[g] = paid[g]
  BY DEF Step, requests, NewCommand, ReadSessionId, Enqueue, StartTask, BuildMessages, Acquire,
         Sent, RequestOk, StreamOpens, RequestRetryable, RequestFatal, Persist, Streaming,
         StreamGoesOn, StreamSettles, StreamEnds, Reply, LeaveQueue
<1>4. \A g \in Handlers \ {h} : phase'[g] = phase[g] /\ taken'[g] = taken[g]
  BY DEF Step, stream, NewCommand, ReadSessionId, Enqueue, StartTask, BuildMessages, Acquire,
         RequestOk, StreamOpens, Stream!Open, RequestRetryable, RequestFatal, Persist,
         StreamGoesOn, Stream!AnswerComes, Stream!Show, StreamSettles, Stream!SettleRecorded,
         Stream!SettleUnrecorded, StreamEnds, Stream!Finish, Reply, LeaveQueue
<1> QED BY <1>1, <1>2, <1>3, <1>4

LEMMA StepOwnId ==
  ASSUME TypeInv, NEW h \in Handlers, Step(h)
  PROVE  OwnId'
<1> USE DEF TypeInv, HandlerShape, Pcs, Goto
<1>1. pc'[h] \notin {"new", "done"} => sid'[h] \in Ids /\ sid'[h][1] = key[h]
  <2>1. CASE NewCommand(h)
    BY <2>1 DEF NewCommand
  <2>2. CASE ReadSessionId(h)
    <3>1. SessionId(mem, key[h]) \in Ids /\ SessionId(mem, key[h])[1] = key[h]
      BY VersionType DEF QueueShape, Good, SessionId
    <3> QED BY <2>2, <3>1 DEF ReadSessionId
  <2>3. CASE sid' = sid /\ pc[h] \notin {"new", "done"}
    BY <2>3 DEF OwnId
  <2> QED
    BY <2>1, <2>2, <2>3
    DEF Step, Enqueue, StartTask, BuildMessages, Acquire, Sent, RequestOk, StreamOpens,
        RequestRetryable, RequestFatal, Persist, Streaming, StreamGoesOn, StreamSettles,
        StreamEnds, Reply, LeaveQueue
<1>2. \A g \in Handlers \ {h} : pc'[g] = pc[g] /\ sid'[g] = sid[g] /\ key' = key
  BY OthersStay
<1>3. key' = key
  BY OthersStay
<1> HIDE DEF HandlerShape
<1> QED BY <1>1, <1>2, <1>3 DEF OwnId

LEMMA StepRetries ==
  ASSUME TypeInv, NEW h \in Handlers, Step(h)
  PROVE  Retries'
<1> USE DEF TypeInv, HandlerShape, Goto, requests
<1>1. /\ pc'[h] \in {"new", "enqueue", "wait", "build"} => attempt'[h] = 0
      /\ pc'[h] \in {"acquire", "send"} => attempt'[h] <= MaxRetries
      /\ attempt'[h] <= MaxRetries + 1 /\ attempt'[h] <= paid'[h]
      /\ pc'[h] = "send" => attempt'[h] < paid'[h]
  <2> USE PipelineAssumption DEF Retries
  <2>1. CASE NewCommand(h) \/ ReadSessionId(h) \/ Enqueue(h) \/ StartTask(h)
    BY <2>1 DEF NewCommand, ReadSessionId, Enqueue, StartTask
  <2>2. CASE BuildMessages(h)
    BY <2>2 DEF BuildMessages
  <2>3. CASE Acquire(h)
    BY <2>3 DEF Acquire
  <2>4. CASE RequestOk(h) \/ StreamOpens(h) \/ RequestFatal(h)
    BY <2>4 DEF RequestOk, StreamOpens, RequestFatal, Sent
  <2>5. CASE RequestRetryable(h)
    BY <2>5 DEF RequestRetryable, Sent, AfterRetryable
  <2>6. CASE Persist(h) \/ StreamEnds(h) \/ Reply(h) \/ LeaveQueue(h)
    BY <2>6 DEF Persist, AfterPersist, StreamEnds, Streaming, Reply, LeaveQueue
  <2>7. CASE StreamGoesOn(h) \/ StreamSettles(h)
    BY <2>7 DEF StreamGoesOn, StreamSettles, Streaming
  <2> QED BY <2>1, <2>2, <2>3, <2>4, <2>5, <2>6, <2>7 DEF Step
<1> QED BY <1>1, OthersStay DEF Retries
-----------------------------------------------------------------------------
(* What becomes of the SessionState: /new closes a session, and an answer, *)
(* whole or streamed, is recorded by a task under way.                     *)
Records(h) ==
  /\ LocalHistory
  /\ \/ pc[h] = "persist" /\ pc'[h] = "answered"
     \/ pc[h] = "streaming" /\ pc'[h] = "streaming" /\ phase[h] = "open" /\ phase'[h] = "settled"
        /\ taken'[h]
  /\ mem' \in AppendOutcomes(mem, sid[h], Turn(h), 0)

LEMMA MemSteps ==
  ASSUME TypeInv, NEW h \in Handlers, Step(h)
  PROVE  \/ mem' = mem
         \/ mem' = Bumped(mem, key[h])
         \/ Records(h)
<1> USE DEF TypeInv, HandlerShape, StreamShape, Goto
<1>1. CASE NewCommand(h)
  BY <1>1 DEF NewCommand
<1>2. CASE Persist(h)
  BY <1>2 DEF Persist, PersistedMem, AfterPersist, Records
<1>3. CASE StreamSettles(h)
  <2>1. CASE UNCHANGED mem
    BY <2>1
  <2>2. CASE Stream!SettleRecorded(h) /\ mem' \in PersistedMem(h)
    <3>1. pc[h] = "streaming" /\ pc' = pc
      BY <1>3 DEF StreamSettles, Streaming
    <3>2. phase[h] = "open" /\ phase'[h] = "settled" /\ taken'[h]
      BY <2>2 DEF Stream!SettleRecorded
    <3> QED BY <2>2, <3>1, <3>2 DEF PersistedMem, Records
  <2> QED BY <1>3, <2>1, <2>2 DEF StreamSettles
<1> QED
  BY <1>1, <1>2, <1>3
  DEF Step, ReadSessionId, Enqueue, StartTask, BuildMessages, Acquire, Sent, RequestOk,
      StreamOpens, RequestRetryable, RequestFatal, StreamGoesOn, StreamEnds, Reply, LeaveQueue

(* A recorded turn stands behind what was in its session, drained.         *)
LEMMA RecordedTurn ==
  ASSUME TypeInv, NEW h \in Handlers, Records(h)
  PROVE  /\ Good(mem')
         /\ sid[h] \in Ids /\ sid[h][1] = key[h]
         /\ Conversation(mem, sid[h]) \in Seq(Msgs)
         /\ Turn(h) \in Seq(Msgs)
         /\ \A i \in DOMAIN mem'.convs :
              IF i = sid[h]
                THEN mem'.convs[i] = Drained(Conversation(mem, sid[h]) \o Turn(h))
                ELSE i \in DOMAIN mem.convs /\ mem'.convs[i] = mem.convs[i]
<1> DEFINE c == Conversation(mem, sid[h])
<1>1. sid[h] \in Ids /\ sid[h][1] = key[h]
  BY DEF Records, TypeInv, OwnId
<1>2. Turn(h) \in Msgs \X Msgs /\ Turn(h) \in Seq(Msgs)
  BY PipelineAssumption DEF Turn
<1>3. c \in Seq(Msgs)
  BY DEF TypeInv, Good, IsState, Conversation
<1> HIDE DEF c
<1>4. NonEmpty(Turn(h)[1]) = <<Turn(h)[1]>> /\ NonEmpty(Turn(h)[2]) = <<Turn(h)[2]>>
  BY PipelineAssumption DEF Turn, NonEmpty
<1>5. c \o NonEmpty(Turn(h)[1]) \o NonEmpty(Turn(h)[2]) = c \o Turn(h)
  <2>1. \A x \in Msgs, y \in Msgs : c \o <<x>> \o <<y>> = c \o <<x, y>>
    <3> TAKE x \in Msgs, y \in Msgs
    <3>1. <<x>> \in Seq(Msgs) /\ <<y>> \in Seq(Msgs)
      OBVIOUS
    <3>2. <<x>> \o <<y>> = <<x, y>>
      <4> DEFINE u == <<x>> \o <<y>>
                 v == <<x, y>>
      <4>1. u \in Seq(Msgs) /\ Len(u) = 2 /\ u[1] = x /\ u[2] = y
        BY <3>1, ConcatProperties
      <4>2. v \in Seq(Msgs) /\ Len(v) = 2 /\ v[1] = x /\ v[2] = y
        OBVIOUS
      <4> HIDE DEF u, v
      <4>3. \A i \in 1 .. Len(u) : u[i] = v[i]
        BY <4>1, <4>2
      <4>4. u = v
        BY <4>1, <4>2, <4>3, SeqEqual
      <4> QED BY <4>4 DEF u, v
    <3>3. (c \o <<x>>) \o <<y>> = c \o (<<x>> \o <<y>>)
      BY <1>3, <3>1, ConcatAssociative
    <3> QED BY <3>2, <3>3
  <2>2. <<h, "user">> \in Msgs /\ <<h, "assistant">> \in Msgs
    BY PipelineAssumption
  <2> QED BY <1>4, <2>1, <2>2 DEF Turn
<1>6. mem' \in AppendOutcomes(mem, sid[h], Turn(h), 0) /\ Good(mem)
  BY DEF Records, TypeInv
<1>7. Good(mem')
  BY <1>1, <1>2, <1>6, AppendGood
<1> HIDE DEF Records
<1>8. /\ \A i \in DOMAIN mem'.convs : i # sid[h] => i \in DOMAIN mem.convs /\ mem'.convs[i] = mem.convs[i]
      /\ sid[h] \in DOMAIN mem'.convs =>
           mem'.convs[sid[h]] = Drained(c \o NonEmpty(Turn(h)[1]) \o NonEmpty(Turn(h)[2]))
  BY <1>6, AppendConvs DEF c
<1> QED BY <1>1, <1>2, <1>3, <1>5, <1>7, <1>8 DEF c

LEMMA StepGood ==
  ASSUME TypeInv, NEW h \in Handlers, Step(h)
  PROVE  Good(mem)'
<1>1. CASE mem' = mem
  BY <1>1 DEF TypeInv
<1>2. CASE mem' = Bumped(mem, key[h])
  BY <1>2, BumpedGood DEF TypeInv, QueueShape
<1>3. CASE Records(h)
  BY <1>3, RecordedTurn
<1> QED BY <1>1, <1>2, <1>3, MemSteps

LEMMA NextType == TypeInv /\ [Next]_vars => TypeInv'
<1>1. ASSUME TypeInv, NEW h \in Handlers, Step(h)
      PROVE  TypeInv'
  BY <1>1, StepQueueShape, StepStreamShape, StepHandlerShape, StepOwnId, StepRetries, StepGood
     DEF TypeInv
<1>2. ASSUME TypeInv, UNCHANGED vars
      PROVE  TypeInv'
  BY <1>2 DEF vars, message, requests, stream, TypeInv, QueueShape, StreamShape, HandlerShape,
              OwnId, Retries
<1> QED BY <1>1, <1>2 DEF Next, Terminated

LEMMA AlwaysTypeInv == Spec => []TypeInv
  BY InitType, NextType, PTL DEF Spec

(* Types; no message sends more requests than it has been given tokens     *)
(* for, and max_retries + 1 at most.                                       *)
THEOREM TypeCorrect == Spec => []TypeOK
<1>1. TypeInv => TypeOK
  BY PipelineAssumption
     DEF TypeInv, QueueShape, StreamShape, HandlerShape, Retries, Good, TypeOK, Pcs,
         EveryRequestPaid
<1> QED BY <1>1, AlwaysTypeInv, PTL
-----------------------------------------------------------------------------
(* A step of the queue leaves the head of a line in place, unless the head *)
(* leaves, which is then no longer under way.                              *)
LEMMA StepBusyFirst ==
  ASSUME TypeInv, BusyFirst, NEW h \in Handlers, Step(h)
  PROVE  BusyFirst'
<1> USE DEF TypeInv, HandlerShape, QueueShape, Goto
<1> SUFFICES ASSUME NEW g \in Handlers, pc'[g] \in Busy
             PROVE  line'[key[g]] # <<>> /\ Head(line'[key[g]]) = g
  <2>1. key' = key
    BY OthersStay
  <2> QED BY <2>1 DEF BusyFirst, Queue!First
<1> DEFINE l == line[key[g]]
<1>1. l \in Seq(Handlers)
  OBVIOUS
<1>2. g # h => l # <<>> /\ Head(l) = g
  BY OthersStay DEF BusyFirst, Queue!First
<1>3. CASE Enqueue(h)
  <2>1. g # h
    BY <1>3 DEF Enqueue, Busy
  <2>2. line' = [line EXCEPT ![key[h]] = Append(@, h)]
    BY <1>3 DEF Enqueue, Queue!Join
  <2>3. line'[key[g]] = IF key[g] = key[h] THEN Append(l, h) ELSE l
    BY <2>2
  <2>4. Append(l, h) # <<>> /\ Head(Append(l, h)) = g
    <3>1. Len(l) >= 1 /\ l[1] = g
      BY <1>1, <1>2, <2>1, EmptySeq
    <3>2. Append(l, h) \in Seq(Handlers) /\ Len(Append(l, h)) = Len(l) + 1 /\ Append(l, h)[1] = g
      BY <1>1, <3>1
    <3> DEFINE a == Append(l, h)
    <3> HIDE DEF l
    <3>3. a \in Seq(Handlers) /\ Len(a) # 0 /\ a[1] = g
      BY <1>1, <3>1, <3>2
    <3> HIDE DEF a
    <3>4. a # <<>> /\ Head(a) = g
      BY <3>3
    <3> QED BY <3>4 DEF a
  <2> QED BY <1>2, <2>1, <2>3, <2>4
<1>4. CASE StartTask(h)
  <2>1. line' = line /\ line[key[h]] # <<>> /\ Head(line[key[h]]) = h
    BY <1>4 DEF StartTask, MayStart, Queue!Start, Queue!First
  <2> QED BY <1>2, <2>1
<1>5. CASE LeaveQueue(h)
  <2>1. /\ line' = [line EXCEPT ![key[h]] = Tail(@)]
        /\ line[key[h]] # <<>> /\ Head(line[key[h]]) = h
        /\ g # h
    BY <1>5 DEF LeaveQueue, Queue!Leave, Queue!First, Busy
  <2>2. key[g] # key[h]
    BY <1>2, <2>1
  <2> QED BY <1>2, <2>1, <2>2
<1>6. CASE line' = line /\ (pc[h] \in Busy \/ pc'[h] \notin Busy)
  <2>1. l # <<>> /\ Head(l) = g
    BY <1>2, <1>6 DEF BusyFirst, Queue!First
  <2> QED BY <1>6, <2>1
<1> QED
  BY <1>3, <1>4, <1>5, <1>6
  DEF Step, Busy, NewCommand, ReadSessionId, BuildMessages, Acquire, Sent, RequestOk,
      StreamOpens, RequestRetryable, RequestFatal, Persist, Streaming, StreamGoesOn,
      StreamSettles, StreamEnds, Reply

(* Two tasks under way are of different sessions.                          *)
LEMMA OneTaskPerSession ==
  ASSUME BusyFirst, NEW g \in Handlers, NEW h \in Handlers,
         pc[g] \in Busy, pc[h] \in Busy, key[g] = key[h]
  PROVE  g = h
  BY DEF BusyFirst, Queue!First

(* What a step of h does to the history another message has read.          *)
LEMMA OthersHistory ==
  ASSUME HistoryInv, NEW h \in Handlers, Step(h), NEW g \in Handlers, g # h, InFlight(g)
  PROVE  Conversation(mem', sid[g]) \in {Conversation(mem, sid[g]), <<>>}
<1>0. TypeInv /\ BusyFirst /\ pc[g] \in Busy
  BY DEF HistoryInv, InFlight, Busy
<1>1. CASE mem' = mem
  BY <1>1
<1>2. CASE mem' = Bumped(mem, key[h])
  BY <1>2, BumpedConvs DEF Conversation
<1>3. CASE Records(h)
  <2>1. pc[h] \in Busy
    BY <1>3 DEF Records, Busy
  <2>2. key[g] # key[h]
    BY <1>0, <2>1, OneTaskPerSession
  <2>3. sid[g] # sid[h]
    BY <1>0, <2>1, <2>2 DEF TypeInv, OwnId, Busy
  <2>4. sid[g] \in DOMAIN mem'.convs =>
          sid[g] \in DOMAIN mem.convs /\ mem'.convs[sid[g]] = mem.convs[sid[g]]
    BY <1>0, <1>3, <2>3, RecordedTurn
  <2> QED BY <2>4 DEF Conversation
<1> QED BY <1>0, <1>1, <1>2, <1>3, MemSteps

(* What a step of h does to its own: only the step that builds the request *)
(* begins the flight, and no step within it records.                       *)
LEMMA OwnHistory ==
  ASSUME HistoryInv, NEW h \in Handlers, Step(h), InFlight(h)'
  PROVE  \/ /\ LocalHistory => context'[h] = Conversation(mem, sid[h])
            /\ sid' = sid /\ mem' = mem
         \/ InFlight(h) /\ UNCHANGED <<context, sid, mem>>
<1> USE DEF HistoryInv, TypeInv, HandlerShape, StreamShape, Goto, InFlight
<1>1. CASE BuildMessages(h)
  BY <1>1 DEF BuildMessages
<1>2. CASE Acquire(h) \/ RequestRetryable(h) \/ RequestOk(h) \/ StreamOpens(h)
  BY <1>2 DEF Acquire, RequestRetryable, RequestOk, StreamOpens, Sent
<1>3. CASE StreamGoesOn(h)
  BY <1>3 DEF StreamGoesOn, Streaming, Stream!AnswerComes, Stream!Show
<1>4. CASE StreamSettles(h)
  BY <1>4 DEF StreamSettles, Streaming, Stream!SettleRecorded, Stream!SettleUnrecorded
<1>5. CASE NewCommand(h) \/ ReadSessionId(h) \/ Enqueue(h) \/ StartTask(h)
  BY <1>5 DEF NewCommand, ReadSessionId, Enqueue, StartTask
<1>6. CASE RequestFatal(h) \/ Persist(h) \/ StreamEnds(h) \/ Reply(h) \/ LeaveQueue(h)
  BY <1>6 DEF RequestFatal, Persist, AfterPersist, StreamEnds, Reply, LeaveQueue
<1> QED BY <1>1, <1>2, <1>3, <1>4, <1>5, <1>6 DEF Step

LEMMA StepHistory ==
  ASSUME HistoryInv, NEW h \in Handlers, Step(h)
  PROVE  HistoryUnchangedInFlight'
<1> SUFFICES ASSUME NEW g \in Handlers, LocalHistory, InFlight(g)'
             PROVE  Conversation(mem', sid'[g]) \in {context'[g], <<>>}
  BY DEF HistoryUnchangedInFlight
<1>1. CASE g # h
  <2>1. /\ pc'[g] = pc[g] /\ phase'[g] = phase[g] /\ sid'[g] = sid[g] /\ context'[g] = context[g]
    BY <1>1, OthersStay DEF HistoryInv
  <2>2. InFlight(g)
    BY <2>1 DEF InFlight
  <2> QED BY <1>1, <2>1, <2>2, OthersHistory DEF HistoryInv, HistoryUnchangedInFlight
<1>2. CASE g = h
  BY <1>2, OwnHistory DEF HistoryInv, HistoryUnchangedInFlight
<1> QED BY <1>1, <1>2

LEMMA AlwaysHistoryInv == Spec => []HistoryInv
<1>1. Init => HistoryInv
  BY InitType DEF Init, HistoryInv, BusyFirst, Busy, HistoryUnchangedInFlight, InFlight
<1>2. ASSUME HistoryInv, NEW h \in Handlers, Step(h)
      PROVE  HistoryInv'
  BY <1>2, NextType, StepBusyFirst, StepHistory DEF HistoryInv, Next
<1>3. ASSUME HistoryInv, UNCHANGED vars
      PROVE  HistoryInv'
  BY <1>3, NextType DEF vars, stream, HistoryInv, BusyFirst, Queue!First,
                        HistoryUnchangedInFlight, InFlight
<1>4. HistoryInv /\ [Next]_vars => HistoryInv'
  BY <1>2, <1>3 DEF Next, Terminated
<1> QED BY <1>1, <1>4, PTL DEF Spec

(* Whatever the messages of all sessions do, an answer is recorded behind  *)
(* the history its request was built from.                                 *)
THEOREM HistoryStandsStill == Spec => []HistoryUnchangedInFlight
<1>1. HistoryInv => HistoryUnchangedInFlight
  BY DEF HistoryInv
<1> QED BY <1>1, AlwaysHistoryInv, PTL
-----------------------------------------------------------------------------
(* Where the questions in the new state come from: from where they were,   *)
(* the session that got the turn having moved up by k, or from the turn.   *)
WasThere(h, g, i, n, k) ==
  /\ i \in DOMAIN mem.convs
  /\ n + (IF i = sid[h] THEN k ELSE 0) \in DOMAIN mem.convs[i]
  /\ mem.convs[i][n + (IF i = sid[h] THEN k ELSE 0)] = UserTurn(g)

IsNew(h, g, i, n, k) ==
  g = h /\ i = sid[h] /\ n + k = Len(Conversation(mem, sid[h])) + 1

LEMMA PlaceOrigin ==
  ASSUME TypeInv, NEW h \in Handlers, Records(h)
  PROVE  \E k \in Nat :
           \A g \in Handlers : \A i \in DOMAIN mem'.convs : \A n \in DOMAIN mem'.convs[i] :
             mem'.convs[i][n] = UserTurn(g) => WasThere(h, g, i, n, k) \/ IsNew(h, g, i, n, k)
<1> DEFINE c == Conversation(mem, sid[h])
           d == Drained(c \o Turn(h))
<1>1. /\ c \in Seq(Msgs) /\ Turn(h) \in Seq(Msgs) /\ Good(mem')
      /\ \A i \in DOMAIN mem'.convs :
           IF i = sid[h] THEN mem'.convs[i] = d
                         ELSE i \in DOMAIN mem.convs /\ mem'.convs[i] = mem.convs[i]
  BY RecordedTurn
<1>2. \A i \in DOMAIN mem'.convs : mem'.convs[i] \in Seq(Msgs)
  BY <1>1 DEF Good, IsState
<1>3. c = IF sid[h] \in DOMAIN mem.convs THEN mem.convs[sid[h]] ELSE <<>>
  BY DEF Conversation
<1>4. Len(Turn(h)) = 2 /\ Turn(h)[1] = UserTurn(h) /\ Turn(h)[2] = <<h, "assistant">>
  BY DEF Turn, UserTurn
<1> HIDE DEF c
<1>5. /\ c \o Turn(h) \in Seq(Msgs) /\ Len(c) \in Nat
      /\ Len(c \o Turn(h)) = Len(c) + 2
      /\ \A n \in 1 .. Len(c) + 2 :
           (c \o Turn(h))[n] = IF n <= Len(c) THEN c[n] ELSE Turn(h)[n - Len(c)]
  <2> DEFINE t == Turn(h)
             x == c \o t
  <2>1. /\ x \in Seq(Msgs)
        /\ Len(x) = Len(c) + Len(t)
        /\ \A n \in 1 .. Len(c) + Len(t) : x[n] = IF n <= Len(c) THEN c[n] ELSE t[n - Len(c)]
    BY <1>1, ConcatProperties
  <2>2. Len(t) = 2 /\ Len(c) \in Nat
    BY <1>1, <1>4
  <2> HIDE DEF t, x
  <2>3. /\ x \in Seq(Msgs) /\ Len(x) = Len(c) + 2
        /\ \A n \in 1 .. Len(c) + 2 : x[n] = IF n <= Len(c) THEN c[n] ELSE t[n - Len(c)]
    BY <2>1, <2>2
  <2> QED BY <2>2, <2>3 DEF t, x
<1>6. PICK k \in Nat : /\ Len(d) = Len(c) + 2 - k
                       /\ \A n \in 1 .. Len(d) : d[n] = (c \o Turn(h))[n + k]
  <2> DEFINE x == c \o Turn(h)
  <2>1. x \in Seq(Msgs) /\ Len(x) = Len(c) + 2
    BY <1>5
  <2> HIDE DEF x
  <2>2. PICK k \in Nat : /\ Len(Drained(x)) = Len(x) - k
                         /\ \A n \in 1 .. Len(Drained(x)) : Drained(x)[n] = x[n + k]
    BY <2>1, DrainedEnd
  <2>3. Len(Drained(x)) = Len(c) + 2 - k
    BY <2>1, <2>2
  <2> QED BY <2>2, <2>3 DEF x
<1>7. d \in Seq(Msgs)
  BY <1>5, DrainedType
<1> HIDE DEF d
<1> SUFFICES ASSUME NEW g \in Handlers, NEW i \in DOMAIN mem'.convs,
                    NEW n \in DOMAIN mem'.convs[i], mem'.convs[i][n] = UserTurn(g)
             PROVE  WasThere(h, g, i, n, k) \/ IsNew(h, g, i, n, k)
  OBVIOUS
<1>8. n \in Nat /\ n + 0 = n
  BY <1>2
<1>9. CASE i # sid[h]
  BY <1>1, <1>8, <1>9 DEF WasThere
<1>10. CASE i = sid[h]
  <2>1. n \in 1 .. Len(d) /\ d[n] = UserTurn(g)
    BY <1>1, <1>7, <1>10
  <2>2. n + k \in 1 .. Len(c) + 2 /\ (c \o Turn(h))[n + k] = UserTurn(g)
    BY <1>5, <1>6, <2>1
  <2>3. CASE n + k <= Len(c)
    <3>1. c[n + k] = UserTurn(g) /\ n + k \in 1 .. Len(c)
      BY <1>5, <2>2, <2>3
    <3>2. sid[h] \in DOMAIN mem.convs /\ c = mem.convs[sid[h]]
      BY <1>3, <3>1
    <3>3. n + k \in DOMAIN c
      BY <1>1, <3>1
    <3> QED BY <1>10, <3>1, <3>2, <3>3 DEF WasThere
  <2>4. CASE n + k = Len(c) + 1
    <3>1. UserTurn(g) = UserTurn(h)
      BY <1>4, <1>5, <2>2, <2>4
    <3>2. g = h
      BY <3>1 DEF UserTurn
    <3> QED BY <1>10, <2>4, <3>2 DEF IsNew, c
  <2>5. CASE n + k = Len(c) + 2
    <3>1. UserTurn(g) = <<h, "assistant">>
      BY <1>4, <1>5, <2>2, <2>5
    <3> QED BY <3>1 DEF UserTurn
  <2> QED BY <1>5, <2>2, <2>3, <2>4, <2>5
<1> QED BY <1>9, <1>10

LEMMA RecordsOnce ==
  ASSUME OnceInv, NEW h \in Handlers, Records(h), Step(h)
  PROVE  OnePlace' /\ AnsweredFirst'
<1>1. PICK k \in Nat :
        \A g \in Handlers : \A i \in DOMAIN mem'.convs : \A n \in DOMAIN mem'.convs[i] :
          mem'.convs[i][n] = UserTurn(g) => WasThere(h, g, i, n, k) \/ IsNew(h, g, i, n, k)
  BY PlaceOrigin DEF OnceInv
<1>2. ~Answered(h) /\ Answered(h)'
  <2>1. useStream' = useStream
    BY OthersStay DEF OnceInv
  <2> QED BY <2>1 DEF Records, Answered, OnceInv, KindOfReply
<1>3. \A i, n : ~WasThere(h, h, i, n, k)
  BY <1>2 DEF WasThere, OnceInv, AnsweredFirst
<1>4. \A g \in Handlers \ {h} : Answered(g) => Answered(g)'
  <2>1. useStream' = useStream
    BY OthersStay DEF OnceInv
  <2>2. \A g \in Handlers \ {h} : pc'[g] = pc[g] /\ taken'[g] = taken[g]
    BY OthersStay DEF OnceInv
  <2> QED BY <2>1, <2>2 DEF Answered
<1>5. \A i \in DOMAIN mem'.convs : \A n \in DOMAIN mem'.convs[i] : n \in Nat
  BY RecordedTurn DEF OnceInv, Good, IsState
<1>6. OnePlace'
  <2> SUFFICES ASSUME NEW g \in Handlers, NEW i \in DOMAIN mem'.convs, NEW j \in DOMAIN mem'.convs,
                      NEW n \in DOMAIN mem'.convs[i], NEW m \in DOMAIN mem'.convs[j],
                      mem'.convs[i][n] = UserTurn(g), mem'.convs[j][m] = UserTurn(g)
               PROVE  i = j /\ n = m
    BY DEF OnePlace, UserTurn
  <2>1. n \in Nat /\ m \in Nat /\ Len(Conversation(mem, sid[h])) \in Nat
    BY <1>5, RecordedTurn DEF OnceInv
  <2>2. CASE g = h
    <3>1. IsNew(h, h, i, n, k) /\ IsNew(h, h, j, m, k)
      BY <1>1, <1>3, <2>2
    <3> QED BY <2>1, <3>1 DEF IsNew
  <2>3. CASE g # h
    <3>1. WasThere(h, g, i, n, k) /\ WasThere(h, g, j, m, k)
      BY <1>1, <2>3 DEF IsNew
    <3>2. i = j /\ n + (IF i = sid[h] THEN k ELSE 0) = m + (IF j = sid[h] THEN k ELSE 0)
      BY <3>1 DEF WasThere, OnceInv, OnePlace
    <3> QED BY <2>1, <3>2
  <2> QED BY <2>2, <2>3
<1>7. AnsweredFirst'
  <2> SUFFICES ASSUME NEW g \in Handlers, NEW i \in DOMAIN mem'.convs,
                      NEW n \in DOMAIN mem'.convs[i], mem'.convs[i][n] = UserTurn(g)
               PROVE  Answered(g)'
    BY DEF AnsweredFirst, UserTurn
  <2>1. CASE g = h
    BY <1>2, <2>1
  <2>2. CASE g # h
    <3>1. WasThere(h, g, i, n, k)
      BY <1>1, <2>2 DEF IsNew
    <3>2. Answered(g)
      BY <3>1 DEF WasThere, OnceInv, AnsweredFirst
    <3> QED BY <1>4, <2>2, <3>2
  <2> QED BY <2>1, <2>2
<1> QED BY <1>6, <1>7
(* Once answered, always answered.                                         *)
LEMMA StaysAnswered ==
  ASSUME TypeInv, NEW h \in Handlers, Step(h), NEW g \in Handlers, Answered(g)
  PROVE  Answered(g)'
<1>1. useStream' = useStream
  BY OthersStay
<1>2. CASE g # h
  <2>1. pc'[g] = pc[g] /\ taken'[g] = taken[g]
    BY <1>2, OthersStay
  <2> QED BY <1>1, <2>1 DEF Answered
<1>3. CASE g = h /\ useStream
  <2>1. taken[h]
    BY <1>3 DEF Answered
  <2>2. taken'[h]
    BY <2>1
    DEF Step, stream, TypeInv, StreamShape, NewCommand, ReadSessionId, Enqueue, StartTask,
        BuildMessages, Acquire, Sent, RequestOk, StreamOpens, Stream!Open, RequestRetryable,
        RequestFatal, Persist, StreamGoesOn, Stream!AnswerComes, Stream!Show, StreamSettles,
        Stream!SettleRecorded, Stream!SettleUnrecorded, StreamEnds, Stream!Finish, Reply,
        LeaveQueue
  <2> QED BY <1>1, <1>3, <2>2 DEF Answered
<1>4. CASE g = h /\ ~useStream
  <2>1. pc[h] \in {"answered", "leave", "done"}
    BY <1>4 DEF Answered
  <2>2. pc'[h] \in {"answered", "leave", "done"}
    BY <2>1
    DEF Step, Goto, TypeInv, HandlerShape, NewCommand, ReadSessionId, Enqueue, StartTask,
        BuildMessages, Acquire, Sent, RequestOk, StreamOpens, RequestRetryable, RequestFatal,
        Persist, Streaming, StreamGoesOn, StreamSettles, StreamEnds, Reply, LeaveQueue
  <2> QED BY <1>1, <1>4, <2>2 DEF Answered
<1> QED BY <1>2, <1>3, <1>4

LEMMA StepKindOfReply ==
  ASSUME TypeInv, KindOfReply, NEW h \in Handlers, Step(h)
  PROVE  KindOfReply'
<1> USE DEF TypeInv, HandlerShape, StreamShape, Goto, stream
<1>1. useStream' = useStream
  BY OthersStay
<1>2. pc'[h] = "persist" => ~useStream
  BY DEF KindOfReply, Step, NewCommand, ReadSessionId, Enqueue, StartTask,
         BuildMessages, Acquire, Sent, RequestOk, StreamOpens, RequestRetryable, AfterRetryable,
         RequestFatal, Persist, AfterPersist, Streaming, StreamGoesOn, StreamSettles, StreamEnds,
         Reply, LeaveQueue
<1>3. pc'[h] = "streaming" => useStream
  BY DEF KindOfReply, Step, NewCommand, ReadSessionId, Enqueue, StartTask,
         BuildMessages, Acquire, Sent, RequestOk, StreamOpens, RequestRetryable, AfterRetryable,
         RequestFatal, Persist, AfterPersist, Streaming, StreamGoesOn, StreamSettles, StreamEnds,
         Reply, LeaveQueue
<1>4. phase'[h] \in {"off", "open"} => ~taken'[h]
  BY DEF KindOfReply, Step, NewCommand, ReadSessionId, Enqueue, StartTask,
         BuildMessages, Acquire, RequestOk, StreamOpens, Stream!Open, RequestRetryable,
         RequestFatal, Persist, StreamGoesOn, Stream!AnswerComes, Stream!Show, StreamSettles,
         Stream!SettleRecorded, Stream!SettleUnrecorded, StreamEnds, Stream!Finish, Reply,
         LeaveQueue
<1> HIDE DEF TypeInv, HandlerShape, StreamShape
<1>5. \A g \in Handlers \ {h} : pc'[g] = pc[g] /\ phase'[g] = phase[g] /\ taken'[g] = taken[g]
  BY OthersStay
<1> QED BY <1>1, <1>2, <1>3, <1>4, <1>5 DEF KindOfReply

(* Steps that add nothing to the history ...                               *)
LEMMA KeepsOnce ==
  ASSUME OnceInv, NEW h \in Handlers, Step(h),
         \A i \in DOMAIN mem'.convs : i \in DOMAIN mem.convs /\ mem'.convs[i] = mem.convs[i]
  PROVE  OnePlace' /\ AnsweredFirst'
<1>1. OnePlace'
  BY DEF OnceInv, OnePlace, UserTurn
<1>2. \A g \in Handlers : Answered(g) => Answered(g)'
  BY StaysAnswered DEF OnceInv
<1>3. AnsweredFirst'
  BY <1>2 DEF OnceInv, AnsweredFirst, UserTurn
<1> QED BY <1>1, <1>3

LEMMA AlwaysOnceInv == Spec => []OnceInv
<1>1. Init => OnceInv
  <2> SUFFICES ASSUME Init PROVE OnceInv
    OBVIOUS
  <2>1. DOMAIN mem.convs = {}
    BY DEF Init, Default, NoEntries
  <2>2. KindOfReply
    BY DEF Init, KindOfReply, Stream!PromiseInit
  <2> QED BY <2>1, <2>2, InitType DEF OnceInv, OnePlace, AnsweredFirst
<1>2. ASSUME OnceInv, NEW h \in Handlers, Step(h)
      PROVE  OnceInv'
  <2>1. TypeInv' /\ KindOfReply'
    BY <1>2, NextType, StepKindOfReply DEF OnceInv, Next
  <2>2. OnePlace' /\ AnsweredFirst'
    <3>1. CASE mem' = mem
      BY <1>2, <3>1, KeepsOnce
    <3>2. CASE mem' = Bumped(mem, key[h])
      BY <1>2, <3>2, BumpedConvs, KeepsOnce
    <3>3. CASE Records(h)
      BY <1>2, <3>3, RecordsOnce
    <3> QED BY <1>2, <3>1, <3>2, <3>3, MemSteps DEF OnceInv
  <2> QED BY <2>1, <2>2 DEF OnceInv
<1>3. ASSUME OnceInv, UNCHANGED vars
      PROVE  OnceInv'
  BY <1>3, NextType DEF vars, stream, message, OnceInv, KindOfReply, OnePlace, AnsweredFirst,
                        Answered, UserTurn
<1>4. OnceInv /\ [Next]_vars => OnceInv'
  BY <1>2, <1>3 DEF Next, Terminated
<1> QED BY <1>1, <1>4, PTL DEF Spec

(* However often requests are retried, and whatever is closed or evicted   *)
(* between, a message's turn is recorded at most once, after its answer.   *)
THEOREM TurnsRecordedOnce == Spec => []RecordedOnce
<1>1. OnceInv => RecordedOnce
  <2> SUFFICES ASSUME OnceInv, NEW h \in Handlers
               PROVE  /\ Cardinality(Places(h)) <= 1
                      /\ Places(h) # {} => Answered(h)
    BY DEF RecordedOnce
  <2>1. \A p \in Places(h) :
          \E i \in DOMAIN mem.convs : \E n \in DOMAIN mem.convs[i] :
            p = <<i, n>> /\ mem.convs[i][n] = UserTurn(h)
    BY DEF Places, UserTurn
  <2>2. \A p \in Places(h), q \in Places(h) : p = q
    BY <2>1 DEF OnceInv, OnePlace
  <2>3. Places(h) # {} => Answered(h)
    BY <2>1 DEF OnceInv, AnsweredFirst
  <2>4. Cardinality(Places(h)) <= 1
    <3>1. CASE Places(h) = {}
      BY <3>1, FS_EmptySet
    <3>2. CASE Places(h) # {}
      <4>1. PICK p \in Places(h) : Places(h) = {p}
        BY <2>2, <3>2
      <4> QED BY <4>1, FS_Singleton
    <3> QED BY <3>1, <3>2
  <2> QED BY <2>3, <2>4
<1> QED BY <1>1, AlwaysOnceInv, PTL
-----------------------------------------------------------------------------
(* A history of whole turns, as WholeTurns has it, and by halves.          *)
Whole(c) ==
  /\ Len(c) % 2 = 0
  /\ \A n \in 1 .. Len(c) \div 2 : \E g \in Handlers : <<c[2 * n - 1], c[2 * n]>> = Turn(g)

LEMMA Halves ==
  /\ \A n \in Nat : n % 2 = 0 => n \div 2 \in Nat /\ n = 2 * (n \div 2)
  /\ \A p \in Nat : (2 * p) % 2 = 0 /\ (2 * p) \div 2 = p
  OBVIOUS

LEMMA WholeByHalves ==
  ASSUME NEW c, NEW p \in Nat, Len(c) = 2 * p
  PROVE  Whole(c) <=> \A n \in 1 .. p : \E g \in Handlers : <<c[2 * n - 1], c[2 * n]>> = Turn(g)
<1>1. Len(c) % 2 = 0 /\ Len(c) \div 2 = p
  BY Halves
<1> QED BY <1>1 DEF Whole

(* A turn behind whole turns, and an even number of messages off the front *)
(* of them, leave whole turns.                                             *)
LEMMA WholeGrown ==
  ASSUME NEW c \in Seq(Msgs), Whole(c), NEW h \in Handlers, Turn(h) \in Seq(Msgs)
  PROVE  c \o Turn(h) \in Seq(Msgs) /\ Whole(c \o Turn(h))
<1> DEFINE t == Turn(h)
           x == c \o t
           p == Len(c) \div 2
<1>1. p \in Nat /\ Len(c) = 2 * p
  BY Halves DEF Whole
<1>2. Len(t) = 2 /\ t = <<t[1], t[2]>>
  BY DEF Turn
<1> HIDE DEF p, t
<1>3. /\ x \in Seq(Msgs) /\ Len(x) = 2 * (p + 1)
      /\ \A n \in 1 .. 2 * (p + 1) : x[n] = IF n <= 2 * p THEN c[n] ELSE t[n - 2 * p]
  <2>1. /\ x \in Seq(Msgs) /\ Len(x) = Len(c) + Len(t)
        /\ \A n \in 1 .. Len(c) + Len(t) : x[n] = IF n <= Len(c) THEN c[n] ELSE t[n - Len(c)]
    BY ConcatProperties DEF t
  <2> HIDE DEF x
  <2> QED BY <1>1, <1>2, <2>1
<1> HIDE DEF x
<1>4. ASSUME NEW n \in 1 .. p + 1
      PROVE  \E g \in Handlers : <<x[2 * n - 1], x[2 * n]>> = Turn(g)
  <2>1. CASE n <= p
    <3>1. x[2 * n - 1] = c[2 * n - 1] /\ x[2 * n] = c[2 * n] /\ n \in 1 .. p
      BY <1>1, <1>3, <2>1
    <3> QED BY <1>1, <3>1, WholeByHalves
  <2>2. CASE n = p + 1
    <3>1. x[2 * n - 1] = t[1] /\ x[2 * n] = t[2]
      BY <1>1, <1>3, <2>2
    <3> QED BY <1>2, <3>1 DEF t
  <2> QED BY <1>1, <2>1, <2>2
<1>5. Whole(x)
  <2> DEFINE q == p + 1
  <2>1. q \in Nat /\ Len(x) = 2 * q
    BY <1>1, <1>3
  <2>2. \A n \in 1 .. q : \E g \in Handlers : <<x[2 * n - 1], x[2 * n]>> = Turn(g)
    BY <1>4
  <2> HIDE DEF q
  <2> QED BY <2>1, <2>2, WholeByHalves
<1> QED BY <1>3, <1>5 DEF x, t

LEMMA WholeDrained ==
  ASSUME NEW c \in Seq(Msgs), Whole(c), MaxMessages % 2 = 0
  PROVE  Whole(Drained(c))
<1> DEFINE d == Drained(c)
           p == Len(c) \div 2
           q == MaxMessages \div 2
<1>1. /\ p \in Nat /\ Len(c) = 2 * p
      /\ q \in Nat /\ MaxMessages = 2 * q
  BY Halves, StateAssumption DEF Whole
<1>2. PICK k \in Nat : /\ k = 0 \/ k = Len(c) - MaxMessages
                       /\ Len(d) = Len(c) - k
                       /\ \A n \in 1 .. Len(d) : d[n] = c[n + k]
  BY DrainedEnd
<1>3. d \in Seq(Msgs)
  BY DrainedType
<1> HIDE DEF d, p, q
<1>4. PICK j \in Nat : k = 2 * j /\ j <= p
  <2>1. CASE k = 0
    BY <1>1, <2>1
  <2>2. CASE k = Len(c) - MaxMessages
    <3> DEFINE i == p - q
    <3>1. i \in Nat /\ k = 2 * i /\ i <= p
      BY <1>1, <2>2
    <3> HIDE DEF i
    <3> QED BY <3>1
  <2> QED BY <1>2, <2>1, <2>2
<1>5. p - j \in Nat /\ Len(d) = 2 * (p - j)
  BY <1>1, <1>2, <1>4
<1>6. ASSUME NEW n \in 1 .. p - j
      PROVE  \E g \in Handlers : <<d[2 * n - 1], d[2 * n]>> = Turn(g)
  <2>1. n + j \in 1 .. p
    BY <1>1, <1>4
  <2>2. d[2 * n - 1] = c[2 * (n + j) - 1] /\ d[2 * n] = c[2 * (n + j)]
    BY <1>2, <1>4, <1>5
  <2>3. \E g \in Handlers : <<c[2 * (n + j) - 1], c[2 * (n + j)]>> = Turn(g)
    BY <1>1, <2>1, WholeByHalves
  <2> QED BY <2>2, <2>3
<1>7. Whole(d)
  BY <1>5, <1>6, WholeByHalves
<1> QED BY <1>7 DEF d

WholeInv == TypeInv /\ WholeTurns

LEMMA StepWholeTurns ==
  ASSUME WholeInv, NEW h \in Handlers, Step(h), MaxMessages % 2 = 0
  PROVE  \A i \in DOMAIN mem'.convs : Whole(mem'.convs[i])
<1>1. \A i \in DOMAIN mem.convs : Whole(mem.convs[i])
  BY DEF WholeInv, WholeTurns, Whole
<1>2. CASE mem' = mem
  BY <1>1, <1>2
<1>3. CASE mem' = Bumped(mem, key[h])
  BY <1>1, <1>3, BumpedConvs
<1>4. CASE Records(h)
  <2> DEFINE c == Conversation(mem, sid[h])
  <2>1. /\ c \in Seq(Msgs) /\ Turn(h) \in Seq(Msgs)
        /\ \A i \in DOMAIN mem'.convs :
             IF i = sid[h] THEN mem'.convs[i] = Drained(c \o Turn(h))
                           ELSE i \in DOMAIN mem.convs /\ mem'.convs[i] = mem.convs[i]
    BY <1>4, RecordedTurn DEF WholeInv
  <2>2. Whole(c)
    <3>1. Whole(<<>>)
      BY DEF Whole
    <3> QED BY <1>1, <3>1 DEF Conversation
  <2> HIDE DEF c
  <2>3. Whole(Drained(c \o Turn(h)))
    BY <2>1, <2>2, WholeGrown, WholeDrained
  <2> QED BY <1>1, <2>1, <2>3
<1> QED BY <1>2, <1>3, <1>4, MemSteps DEF WholeInv

(* With an even local_history_max_messages the model never sees an answer  *)
(* without its question, whatever is drained, evicted or closed.           *)
THEOREM TurnsStayWhole == Spec => []WholeTurns
<1>1. Init => WholeInv
  <2> SUFFICES ASSUME Init PROVE WholeInv
    OBVIOUS
  <2>1. DOMAIN mem.convs = {}
    BY DEF Init, Default, NoEntries
  <2> QED BY <2>1, InitType DEF WholeInv, WholeTurns
<1>2. ASSUME WholeInv, NEW h \in Handlers, Step(h)
      PROVE  WholeInv'
  <2>1. TypeInv'
    BY <1>2, NextType DEF WholeInv, Next
  <2>2. WholeTurns'
    BY <1>2, StepWholeTurns DEF WholeTurns, Whole
  <2> QED BY <2>1, <2>2 DEF WholeInv
<1>3. ASSUME WholeInv, UNCHANGED vars
      PROVE  WholeInv'
  BY <1>3, NextType DEF vars, WholeInv, WholeTurns
<1>4. WholeInv /\ [Next]_vars => WholeInv'
  BY <1>2, <1>3 DEF Next, Terminated
<1>5. WholeInv => WholeTurns
  BY DEF WholeInv
<1> QED BY <1>1, <1>4, <1>5, PTL DEF Spec
-----------------------------------------------------------------------------
(* Until it is answered a message has had nothing; a streamed reply tells  *)
(* the user as it goes, or when it ends.                                   *)
AnswerInv ==
  \A h \in Handlers :
    /\ pc[h] \notin {"streaming", "leave", "done"} =>
         phase[h] = "off" /\ ~told[h] /\ replies[h] = 0
    /\ pc[h] = "streaming" => replies[h] = 0
    /\ pc[h] \in {"leave", "done"} => OneAnswer(h)

(* No message is ever answered twice, nor left with none.                  *)
AnsweredOnce ==
  \A h \in Handlers :
    /\ replies[h] <= 1 /\ (replies[h] = 1 => ~told[h])
    /\ pc[h] = "done" => OneAnswer(h)

LEMMA StepAnswerInv ==
  ASSUME TypeInv, AnswerInv, NEW h \in Handlers, Step(h)
  PROVE  AnswerInv'
<1> USE DEF TypeInv, HandlerShape, StreamShape, Goto, stream
<1>1. \A g \in Handlers \ {h} :
        pc'[g] = pc[g] /\ phase'[g] = phase[g] /\ told'[g] = told[g] /\ replies'[g] = replies[g]
  <2>1. \A g \in Handlers \ {h} : pc'[g] = pc[g] /\ phase'[g] = phase[g]
    BY OthersStay
  <2>2. \A g \in Handlers \ {h} : replies'[g] = replies[g]
    BY DEF Step, NewCommand, ReadSessionId, Enqueue, StartTask, BuildMessages, Acquire, Sent,
           RequestOk, StreamOpens, RequestRetryable, RequestFatal, Persist, Streaming,
           StreamGoesOn, StreamSettles, StreamEnds, Reply, LeaveQueue
  <2>3. \A g \in Handlers \ {h} : told'[g] = told[g]
    BY DEF Step, NewCommand, ReadSessionId, Enqueue, StartTask, BuildMessages, Acquire,
           RequestOk, StreamOpens, Stream!Open, RequestRetryable, RequestFatal, Persist,
           StreamGoesOn, Stream!AnswerComes, Stream!Show, StreamSettles, Stream!SettleRecorded,
           Stream!SettleUnrecorded, StreamEnds, Stream!Finish, Reply, LeaveQueue
  <2> QED BY <2>1, <2>2, <2>3
<1>2. /\ pc'[h] \notin {"streaming", "leave", "done"} =>
           phase'[h] = "off" /\ ~told'[h] /\ replies'[h] = 0
      /\ pc'[h] = "streaming" => replies'[h] = 0
      /\ pc'[h] \in {"leave", "done"} => OneAnswer(h)'
  <2> USE DEF AnswerInv, OneAnswer
  <2>1. CASE NewCommand(h) \/ ReadSessionId(h) \/ Enqueue(h) \/ StartTask(h)
    BY <2>1 DEF NewCommand, ReadSessionId, Enqueue, StartTask
  <2>2. CASE BuildMessages(h) \/ Acquire(h) \/ RequestOk(h) \/ RequestRetryable(h) \/ RequestFatal(h)
    BY <2>2 DEF BuildMessages, Acquire, RequestOk, RequestRetryable, AfterRetryable, RequestFatal,
                Sent
  <2>3. CASE StreamOpens(h) \/ Persist(h) \/ Reply(h) \/ LeaveQueue(h)
    BY <2>3 DEF StreamOpens, Sent, Persist, AfterPersist, Reply, LeaveQueue
  <2>4. CASE StreamGoesOn(h) \/ StreamSettles(h)
    BY <2>4 DEF StreamGoesOn, StreamSettles, Streaming
  <2>5. CASE StreamEnds(h)
    <3>1. told'[h]
      BY <2>5 DEF StreamEnds, Stream!Finish
    <3> QED BY <2>5, <3>1 DEF StreamEnds, Streaming
  <2> QED BY <2>1, <2>2, <2>3, <2>4, <2>5 DEF Step
<1> QED BY <1>1, <1>2 DEF AnswerInv, OneAnswer

(* Exactly one answer by the time a handler is through, and never a reply  *)
(* beside a streamed one: what EveryMessageAnswered promises, but for its  *)
(* being kept some day.                                                    *)
THEOREM AnswersAreSingle == Spec => []AnsweredOnce
<1>1. Init => TypeInv /\ AnswerInv
  <2> SUFFICES ASSUME Init PROVE TypeInv /\ AnswerInv
    OBVIOUS
  <2>1. AnswerInv
    BY DEF Init, AnswerInv, Stream!PromiseInit
  <2> QED BY <2>1, InitType
<1>2. ASSUME TypeInv, AnswerInv, NEW h \in Handlers, Step(h)
      PROVE  TypeInv' /\ AnswerInv'
  BY <1>2, NextType, StepAnswerInv DEF Next
<1>3. ASSUME TypeInv, AnswerInv, UNCHANGED vars
      PROVE  TypeInv' /\ AnswerInv'
  BY <1>3, NextType DEF vars, stream, AnswerInv, OneAnswer
<1>4. (TypeInv /\ AnswerInv) /\ [Next]_vars => (TypeInv /\ AnswerInv)'
  BY <1>2, <1>3 DEF Next, Terminated
<1>5. TypeInv /\ AnswerInv => AnsweredOnce
  BY DEF TypeInv, HandlerShape, Pcs, AnswerInv, AnsweredOnce, OneAnswer
<1> QED BY <1>1, <1>4, <1>5, PTL DEF Spec

-----------------------------------------------------------------------------
(* What SerialLine promises about a session, whoever uses it: while the    *)
(* keys fit, of two jobs of one key at most one runs.                      *)
OneRunning ==
  \A g, h \in Handlers :
    stage[g] = "running" /\ stage[h] = "running" /\ key[g] = key[h] => g = h

RunningFirst ==
  /\ key \in [Handlers -> Bases]
  /\ stage \in [Handlers -> Queue!Stages]
  /\ line \in [Bases -> Seq(Handlers)]
  /\ \A h \in Handlers : stage[h] = "running" => Queue!First(h)

LEMMA StepRunningFirst ==
  ASSUME RunningFirst, NEW h \in Handlers, Queue!Join(h) \/ Queue!Start(h) \/ Queue!Leave(h)
  PROVE  RunningFirst'
<1> USE DEF RunningFirst, Queue!Stages
<1>0. key' = key /\ key[h] \in Bases
  BY DEF Queue!Join, Queue!Start, Queue!Leave
<1>1. CASE Queue!Join(h)
  <2>1. /\ stage' = [stage EXCEPT ![h] = "queued"] /\ stage[h] = "idle"
        /\ line' = [line EXCEPT ![key[h]] = Append(@, h)]
    BY <1>1 DEF Queue!Join
  <2>2. stage' \in [Handlers -> Queue!Stages] /\ line' \in [Bases -> Seq(Handlers)]
    BY <1>0, <2>1
  <2>3. ASSUME NEW g \in Handlers, stage'[g] = "running" PROVE Queue!First(g)'
    <3> DEFINE l == line[key[g]]
    <3>1. g # h /\ l \in Seq(Handlers) /\ l # <<>> /\ Head(l) = g
      BY <2>1, <2>3 DEF Queue!First
    <3>2. line'[key[g]] = IF key[g] = key[h] THEN Append(l, h) ELSE l
      BY <1>0, <2>1
    <3> HIDE DEF l
    <3>3. Len(l) >= 1 /\ l[1] = g
      BY <3>1, EmptySeq
    <3> DEFINE a == Append(l, h)
    <3>4. a \in Seq(Handlers) /\ Len(a) # 0 /\ a[1] = g
      BY <3>1, <3>3
    <3> HIDE DEF a
    <3>5. a # <<>> /\ Head(a) = g
      BY <3>4
    <3>6. line'[key[g]] # <<>> /\ Head(line'[key[g]]) = g
      BY <3>1, <3>2, <3>5 DEF a
    <3> QED BY <1>0, <3>6 DEF Queue!First
  <2> QED BY <1>0, <2>2, <2>3
<1>2. CASE Queue!Start(h)
  BY <1>2 DEF Queue!Start, Queue!First
<1>3. CASE Queue!Leave(h)
  <2>1. /\ stage' = [stage EXCEPT ![h] = "done"] /\ line' = [line EXCEPT ![key[h]] = Tail(@)]
        /\ line[key[h]] # <<>> /\ Head(line[key[h]]) = h
    BY <1>3 DEF Queue!Leave, Queue!First
  <2>2. Tail(line[key[h]]) \in Seq(Handlers)
    BY <1>0, <2>1, HeadTailProperties
  <2>3. ASSUME NEW g \in Handlers, stage'[g] = "running" PROVE Queue!First(g)'
    <3>1. g # h /\ line[key[g]] # <<>> /\ Head(line[key[g]]) = g
      BY <2>1, <2>3 DEF Queue!First
    <3>2. key[g] # key[h]
      BY <2>1, <3>1
    <3> QED BY <1>0, <2>1, <3>1, <3>2 DEF Queue!First
  <2> QED BY <1>0, <2>1, <2>2, <2>3
<1> QED BY <1>1, <1>2, <1>3

(* Whoever uses the queue only as SerialLine says gets one task at a time. *)
THEOREM LineIsSerial == Queue!LineSafety => [](Queue!KeysFit => OneRunning)
<1>1. Queue!LineInit => RunningFirst
  BY DEF Queue!LineInit, RunningFirst, Queue!Stages
<1>2. (Queue!KeysFit => RunningFirst) /\ [Queue!LineNext]_(Queue!lineVars) => (Queue!KeysFit => RunningFirst)'
  <2> SUFFICES ASSUME Queue!KeysFit => RunningFirst, [Queue!LineNext]_(Queue!lineVars), Queue!KeysFit'
               PROVE  RunningFirst'
    OBVIOUS
  <2>1. key' = key
    BY DEF Queue!LineNext, Queue!lineVars, Queue!Overflow, Queue!Join, Queue!Start, Queue!Leave
  <2>2. Queue!KeysFit
    BY <2>1 DEF Queue!KeysFit
  <2>3. CASE UNCHANGED Queue!lineVars
    BY <2>2, <2>3 DEF RunningFirst, Queue!lineVars, Queue!First
  <2> QED BY <2>2, <2>3, StepRunningFirst DEF Queue!LineNext, Queue!Overflow
<1>3. RunningFirst => OneRunning
  BY DEF RunningFirst, OneRunning, Queue!First
<1> QED BY <1>1, <1>2, <1>3, PTL DEF Queue!LineSafety

(* The pipeline moves the queue and the streamed replies only as           *)
(* SerialLine and StreamPromise do: nothing starts before its turn, leaves *)
(* twice, or is shown, settled or finished out of order.                   *)
THEOREM PartsKeepPromises == Spec => Queue!LineSafety /\ Stream!PromiseSafety
<1>1. Init => Queue!LineInit /\ Stream!PromiseInit
  BY DEF Init
<1>2. ASSUME NEW h \in Handlers, Step(h)
      PROVE  [Queue!LineNext]_(Queue!lineVars) /\ [Stream!PromiseNext]_(Stream!promiseVars)
  <2>1. \/ Queue!Join(h) \/ Queue!Start(h) \/ Queue!Leave(h)
        \/ UNCHANGED <<key, stage, line>>
    BY <1>2 DEF Step, NewCommand, ReadSessionId, Enqueue, StartTask, MayStart, BuildMessages, Acquire,
       Sent, RequestOk, StreamOpens, RequestRetryable, RequestFatal, Persist, Streaming, StreamGoesOn,
       StreamSettles, StreamEnds, Reply, LeaveQueue
  <2>2. \/ Stream!Open(h) \/ Stream!AnswerComes(h) \/ Stream!Show(h) \/ Stream!Settle(h) \/ Stream!Finish(h)
        \/ UNCHANGED stream
    BY <1>2 DEF Step, NewCommand, ReadSessionId, Enqueue, StartTask, BuildMessages, Acquire,
       RequestOk, StreamOpens, RequestRetryable, RequestFatal, Persist, StreamGoesOn,
       StreamSettles, Stream!Settle, StreamEnds, Reply, LeaveQueue
  <2>3. [Queue!LineNext]_(Queue!lineVars)
    BY <2>1 DEF Queue!LineNext, Queue!lineVars
  <2>4. [Stream!PromiseNext]_(Stream!promiseVars)
    BY <2>2 DEF Stream!PromiseNext, Stream!promiseVars, stream
  <2> QED BY <2>3, <2>4
<1>3. [Next]_vars => [Queue!LineNext]_(Queue!lineVars) /\ [Stream!PromiseNext]_(Stream!promiseVars)
  <2>1. UNCHANGED vars => UNCHANGED Queue!lineVars /\ UNCHANGED Stream!promiseVars
    BY DEF vars, stream, Queue!lineVars, Stream!promiseVars
  <2> QED BY <1>2, <2>1 DEF Next, Terminated
<1> QED BY <1>1, <1>3, PTL DEF Spec, Queue!LineSafety, Stream!PromiseSafety
-----------------------------------------------------------------------------
(* What EveryMessageAnswered rests on besides fairness.  A message has     *)
(* only so many steps left: those behind the place it is at, what is still *)
(* to come of a streamed reply, and three for each request it may send.    *)
Still(b) == IF b THEN 0 ELSE 1

StepsFrom(p) ==
  CASE p = "new" -> 11 [] p = "enqueue" -> 10 [] p = "wait" -> 9 [] p = "build" -> 8
    [] p = "acquire" -> 7 [] p = "send" -> 6 [] p = "persist" -> 3 [] p = "streaming" -> 2
    [] p \in {"answered", "failed"} -> 2 [] p = "leave" -> 1 [] OTHER -> 0

OfStream(h) ==
  IF pc[h] = "streaming" THEN Still(phase[h] # "open") + Still(begun[h]) + Still(told[h]) ELSE 0

StepsLeft(h) == StepsFrom(pc[h]) + OfStream(h) + 3 * (MaxRetries + 1 - attempt[h])

MostSteps == 14 + 3 * MaxRetries

LEMMA StillType == \A b \in BOOLEAN : Still(b) \in 0 .. 1
BY DEF Still

LEMMA OfStreamType ==
  ASSUME TypeInv, NEW h \in Handlers
  PROVE  OfStream(h) \in 0 .. 3 /\ (pc[h] # "streaming" => OfStream(h) = 0)
<1>1. Still(phase[h] # "open") \in 0 .. 1 /\ Still(begun[h]) \in 0 .. 1 /\ Still(told[h]) \in 0 .. 1
  BY DEF Still
<1> QED BY <1>1 DEF OfStream

LEMMA StepLowers ==
  ASSUME TypeInv, NEW h \in Handlers, Step(h), vars' # vars
  PROVE  StepsLeft(h)' < StepsLeft(h)
<1> USE DEF TypeInv, HandlerShape, Goto
<1> DEFINE a == attempt[h]
           K(n) == 3 * (MaxRetries + 1 - n)
<1>0. /\ a \in Nat /\ MaxRetries \in Nat /\ a <= MaxRetries + 1
      /\ pc[h] \in {"acquire", "send"} => a <= MaxRetries
  BY PipelineAssumption DEF Retries
<1>1. OfStream(h) \in 0 .. 3 /\ (pc[h] # "streaming" => OfStream(h) = 0)
  BY OfStreamType
<1>2. TypeInv'
  BY NextType DEF Next
<1>3. OfStream(h)' \in 0 .. 3 /\ (pc'[h] # "streaming" => OfStream(h)' = 0)
  <2>1. Still(phase'[h] # "open") \in 0 .. 1 /\ Still(begun'[h]) \in 0 .. 1 /\ Still(told'[h]) \in 0 .. 1
    BY DEF Still
  <2> QED BY <2>1 DEF OfStream
<1>4. CASE /\ attempt'[h] = a /\ pc'[h] # "streaming" /\ StepsFrom(pc'[h]) < StepsFrom(pc[h])
           /\ StepsFrom(pc'[h]) \in Nat /\ StepsFrom(pc[h]) \in Nat
  BY <1>0, <1>1, <1>3, <1>4 DEF StepsLeft
<1>5. CASE NewCommand(h) \/ ReadSessionId(h) \/ Enqueue(h) \/ StartTask(h) \/ BuildMessages(h)
           \/ Acquire(h) \/ Persist(h) \/ Reply(h) \/ LeaveQueue(h) \/ StreamEnds(h)
  <2>1. /\ attempt' = attempt /\ pc'[h] # "streaming"
        /\ \/ pc[h] = "new" /\ pc'[h] \in {"done", "enqueue"}
           \/ pc[h] = "enqueue" /\ pc'[h] = "wait"
           \/ pc[h] = "wait" /\ pc'[h] = "build"
           \/ pc[h] = "build" /\ pc'[h] = "acquire"
           \/ pc[h] = "acquire" /\ pc'[h] = "send"
           \/ pc[h] = "persist" /\ pc'[h] = "answered"
           \/ pc[h] \in {"answered", "failed", "streaming"} /\ pc'[h] = "leave"
           \/ pc[h] = "leave" /\ pc'[h] = "done"
    BY <1>5 DEF NewCommand, ReadSessionId, Enqueue, StartTask, BuildMessages, Acquire, Persist,
                AfterPersist, Reply, LeaveQueue, StreamEnds, Streaming, requests
  <2> QED BY <1>4, <2>1 DEF StepsFrom
<1>6. CASE RequestOk(h) \/ StreamOpens(h) \/ RequestRetryable(h) \/ RequestFatal(h)
  <2>1. /\ attempt'[h] = a + 1 /\ pc[h] = "send"
        /\ pc'[h] \in {"persist", "streaming", "acquire", "failed"}
    BY <1>6 DEF RequestOk, StreamOpens, RequestRetryable, RequestFatal, Sent, AfterRetryable
  <2>2. StepsFrom(pc[h]) = 6 /\ OfStream(h) = 0
    BY <1>1, <2>1 DEF StepsFrom
  <2>3. StepsFrom(pc'[h]) + OfStream(h)' \in 0 .. 7
    BY <1>3, <2>1 DEF StepsFrom
  <2>4. MaxRetries' = MaxRetries
    OBVIOUS
  <2>5. StepsLeft(h) = 6 + 3 * (MaxRetries + 1 - a)
    BY <1>0, <2>2 DEF StepsLeft
  <2>6. StepsLeft(h)' = StepsFrom(pc'[h]) + OfStream(h)' + 3 * (MaxRetries + 1 - (a + 1))
    BY <2>1, <2>4 DEF StepsLeft
  <2> DEFINE n == StepsFrom(pc'[h]) + OfStream(h)'
  <2>7. n \in 0 .. 7 /\ StepsLeft(h)' = n + 3 * (MaxRetries + 1 - (a + 1))
    BY <2>3, <2>6
  <2> HIDE DEF n, a
  <2> QED BY <1>0, <2>5, <2>7
<1>7. CASE StreamGoesOn(h) \/ StreamSettles(h)
  <2>1. pc[h] = "streaming" /\ pc' = pc /\ attempt' = attempt
    BY <1>7 DEF StreamGoesOn, StreamSettles, Streaming, requests
  <2>2. OfStream(h)' < OfStream(h)
    <3> USE <2>1 DEF OfStream
    <3>0. /\ phase \in [Handlers -> {"off", "open", "settled", "over"}] /\ begun \in [Handlers -> BOOLEAN]
          /\ told \in [Handlers -> BOOLEAN]
      BY DEF StreamShape
    <3>1. CASE StreamSettles(h)
      <4>1. phase[h] = "open" /\ phase'[h] = "settled" /\ begun' = begun /\ told' = told
        BY <3>0, <3>1 DEF StreamSettles, Stream!SettleRecorded, Stream!SettleUnrecorded
      <4>2. Still(begun[h]) \in 0 .. 1 /\ Still(told[h]) \in 0 .. 1
        BY DEF Still
      <4>3. Still(phase[h] # "open") = 1 /\ Still(phase'[h] # "open") = 0
        BY <4>1 DEF Still
      <4>4. Still(begun'[h]) = Still(begun[h]) /\ Still(told'[h]) = Still(told[h])
        BY <4>1
      <4> QED BY <4>2, <4>3, <4>4
    <3>2. CASE StreamGoesOn(h) /\ Stream!AnswerComes(h)
      <4>1. phase' = phase /\ told' = told /\ begun' = [begun EXCEPT ![h] = TRUE]
        BY <3>2 DEF Stream!AnswerComes
      <4>2. ~begun[h]
        <5> SUFFICES ASSUME begun[h] PROVE FALSE
          OBVIOUS
        <5>1. begun[h] = TRUE
          BY <3>0
        <5>2. begun' = begun
          BY <3>0, <4>1, <5>1
        <5>3. UNCHANGED <<key, stage, line, message, sid, context, requests, replies, pc, mem>> /\ taken' = taken
          BY <3>2 DEF StreamGoesOn, Streaming, Stream!AnswerComes
        <5>4. vars' = vars
          BY <4>1, <5>2, <5>3 DEF vars, stream
        <5> QED BY <5>4
      <4>3. begun'[h] = TRUE
        BY <3>0, <4>1
      <4>4. Still(begun[h]) = 1 /\ Still(begun'[h]) = 0
        BY <4>2, <4>3 DEF Still
      <4>5. Still(phase[h] # "open") \in 0 .. 1 /\ Still(told[h]) \in 0 .. 1
        BY DEF Still
      <4>6. Still(phase'[h] # "open") = Still(phase[h] # "open") /\ Still(told'[h]) = Still(told[h])
        BY <4>1
      <4> QED BY <4>4, <4>5, <4>6
    <3>3. CASE StreamGoesOn(h) /\ Stream!Show(h)
      <4>1. phase' = phase /\ begun' = begun /\ told' = [told EXCEPT ![h] = TRUE]
        BY <3>3 DEF Stream!Show
      <4>2. ~told[h]
        <5> SUFFICES ASSUME told[h] PROVE FALSE
          OBVIOUS
        <5>1. told[h] = TRUE
          BY <3>0
        <5>2. told' = told
          BY <3>0, <4>1, <5>1
        <5>3. UNCHANGED <<key, stage, line, message, sid, context, requests, replies, pc, mem>> /\ taken' = taken
          BY <3>3 DEF StreamGoesOn, Streaming, Stream!Show
        <5>4. vars' = vars
          BY <4>1, <5>2, <5>3 DEF vars, stream
        <5> QED BY <5>4
      <4>3. told'[h] = TRUE
        BY <3>0, <4>1
      <4>4. Still(told[h]) = 1 /\ Still(told'[h]) = 0
        BY <4>2, <4>3 DEF Still
      <4>5. Still(phase[h] # "open") \in 0 .. 1 /\ Still(begun[h]) \in 0 .. 1
        BY DEF Still
      <4>6. Still(phase'[h] # "open") = Still(phase[h] # "open") /\ Still(begun'[h]) = Still(begun[h])
        BY <4>1
      <4> QED BY <4>4, <4>5, <4>6
    <3> QED BY <1>7, <3>1, <3>2, <3>3 DEF StreamGoesOn
  <2> QED BY <1>0, <1>1, <1>3, <2>1, <2>2 DEF StepsLeft, StepsFrom
<1> QED BY <1>5, <1>6, <1>7 DEF Step

LEMMA OthersKeepSteps ==
  ASSUME TypeInv, NEW h \in Handlers, Step(h)
  PROVE  \A g \in Handlers \ {h} : StepsLeft(g)' = StepsLeft(g)
<1>1. \A g \in Handlers \ {h} : pc'[g] = pc[g] /\ attempt'[g] = attempt[g] /\ phase'[g] = phase[g]
  BY OthersStay
<1>2. \A g \in Handlers \ {h} : begun'[g] = begun[g] /\ told'[g] = told[g]
  BY DEF TypeInv, StreamShape, stream, Step, NewCommand, ReadSessionId, Enqueue, StartTask,
         BuildMessages, Acquire, RequestOk, StreamOpens, Stream!Open, RequestRetryable, RequestFatal,
         Persist, StreamGoesOn, Stream!AnswerComes, Stream!Show, StreamSettles,
         Stream!SettleRecorded, Stream!SettleUnrecorded, StreamEnds, Stream!Finish, Reply, LeaveQueue
<1> QED BY <1>1, <1>2 DEF StepsLeft, OfStream

(* No message goes round for ever: each step of a message takes one of its *)
(* remaining ones, of which there are at most MostSteps.                   *)
THEOREM StepsRunOut ==
  Spec => /\ [](\A h \in Handlers : StepsLeft(h) \in 0 .. MostSteps)
          /\ [][\E h \in Handlers : StepsLeft(h)' < StepsLeft(h)
                                    /\ \A g \in Handlers \ {h} : StepsLeft(g)' = StepsLeft(g)]_vars
<1>1. TypeInv => \A h \in Handlers : StepsLeft(h) \in 0 .. MostSteps
  <2> SUFFICES ASSUME TypeInv, NEW h \in Handlers PROVE StepsLeft(h) \in 0 .. MostSteps
    OBVIOUS
  <2>1. StepsFrom(pc[h]) \in 0 .. 11 /\ OfStream(h) \in 0 .. 3
        /\ (pc[h] = "streaming" => StepsFrom(pc[h]) = 2) /\ (pc[h] # "streaming" => OfStream(h) = 0)
    BY OfStreamType DEF StepsFrom
  <2>2. attempt[h] \in Nat /\ MaxRetries \in Nat /\ attempt[h] <= MaxRetries + 1
    BY PipelineAssumption DEF TypeInv, HandlerShape, Retries
  <2>3. StepsFrom(pc[h]) + OfStream(h) \in 0 .. 11
    BY <2>1
  <2> QED BY <2>1, <2>2, <2>3 DEF StepsLeft, MostSteps
<1>3. TypeInv /\ [Next]_vars =>
        [\E h \in Handlers : StepsLeft(h)' < StepsLeft(h)
                             /\ \A g \in Handlers \ {h} : StepsLeft(g)' = StepsLeft(g)]_vars
  BY OthersKeepSteps, StepLowers DEF Next, Terminated
<1> QED BY <1>1, <1>3, AlwaysTypeInv, PTL DEF Spec

-----------------------------------------------------------------------------
(* Who stands in the line of a session: those of its messages that wait or *)
(* are under way, each once.                                               *)
InLine(l, h) == \E n \in DOMAIN l : l[n] = h

Once(l) == \A m, n \in DOMAIN l : l[m] = l[n] => m = n

InPlace ==
  /\ \A k \in Bases : Once(line[k])
  /\ \A k \in Bases, h \in Handlers : InLine(line[k], h) <=> key[h] = k /\ pc[h] \in Busy \cup {"wait"}
  /\ \A h \in Handlers : /\ pc[h] \in {"new", "enqueue"} => stage[h] = "idle"
                         /\ pc[h] = "wait" => stage[h] = "queued"
                         /\ pc[h] \in Busy => stage[h] = "running"

StreamInPlace == \A h \in Handlers : pc[h] = "streaming" => phase[h] \in {"open", "settled"}

LEMMA LineJoined ==
  ASSUME NEW S, NEW l \in Seq(S), NEW h \in S, Once(l), ~InLine(l, h)
  PROVE  Once(Append(l, h)) /\ \A g : InLine(Append(l, h), g) <=> InLine(l, g) \/ g = h
<1> DEFINE a == Append(l, h)
<1>1. /\ Len(l) \in Nat /\ DOMAIN l = 1 .. Len(l)
      /\ DOMAIN a = 1 .. Len(l) + 1 /\ a[Len(l) + 1] = h
      /\ \A n \in 1 .. Len(l) : a[n] = l[n]
  BY AppendProperties
<1> HIDE DEF a
<1>2. Once(a)
  BY <1>1 DEF Once, InLine
<1>3. \A g : InLine(a, g) <=> InLine(l, g) \/ g = h
  BY <1>1 DEF InLine
<1> QED BY <1>2, <1>3 DEF a

LEMMA LineLeft ==
  ASSUME NEW S, NEW l \in Seq(S), l # <<>>, Once(l)
  PROVE  /\ Once(Tail(l)) /\ \A g : InLine(Tail(l), g) <=> InLine(l, g) /\ g # Head(l)
         /\ InLine(l, Head(l))
<1> DEFINE t == Tail(l)
<1>1. /\ Len(l) \in Nat \ {0} /\ DOMAIN l = 1 .. Len(l) /\ Head(l) = l[1]
      /\ DOMAIN t = 1 .. Len(l) - 1
      /\ \A n \in 1 .. Len(l) - 1 : t[n] = l[n + 1]
  <2>1. Len(l) \in Nat \ {0} /\ DOMAIN l = 1 .. Len(l) /\ Head(l) = l[1]
    BY EmptySeq
  <2>2. t \in Seq(S) /\ Len(t) = Len(l) - 1
    BY HeadTailProperties
  <2>3. \A n \in 1 .. Len(l) - 1 : t[n] = l[n + 1]
    OBVIOUS
  <2> QED BY <2>1, <2>2, <2>3
<1> HIDE DEF t
<1>2. Once(t)
  BY <1>1 DEF Once
<1>3. \A g : InLine(t, g) <=> InLine(l, g) /\ g # Head(l)
  <2> TAKE g
  <2>1. ASSUME InLine(t, g) PROVE InLine(l, g) /\ g # Head(l)
    BY <1>1, <2>1 DEF InLine, Once
  <2>2. ASSUME InLine(l, g), g # Head(l) PROVE InLine(t, g)
    <3>1. PICK n \in 1 .. Len(l) : l[n] = g
      BY <1>1, <2>2 DEF InLine
    <3>2. n - 1 \in DOMAIN t /\ t[n - 1] = g
      BY <1>1, <2>2, <3>1
    <3> QED BY <3>2 DEF InLine
  <2> QED BY <2>1, <2>2
<1>4. InLine(l, Head(l))
  BY <1>1 DEF InLine
<1> QED BY <1>2, <1>3, <1>4 DEF t

LEMMA StepInPlace ==
  ASSUME TypeInv, InPlace, NEW h \in Handlers, Step(h)
  PROVE  InPlace'
<1> USE DEF TypeInv, QueueShape, HandlerShape, Goto
<1>1. key' = key /\ \A g \in Handlers \ {h} : pc'[g] = pc[g]
  BY OthersStay
<1>2. CASE Enqueue(h)
  <2> DEFINE l == line[key[h]]
  <2>1. /\ pc[h] = "enqueue" /\ pc'[h] = "wait"
        /\ stage' = [stage EXCEPT ![h] = "queued"]
        /\ line' = [line EXCEPT ![key[h]] = Append(@, h)]
    BY <1>2 DEF Enqueue, Queue!Join
  <2>2. l \in Seq(Handlers) /\ Once(l) /\ ~InLine(l, h) /\ key[h] \in Bases
    BY <2>1 DEF InPlace, Busy
  <2>3. Once(Append(l, h)) /\ \A g : InLine(Append(l, h), g) <=> InLine(l, g) \/ g = h
    BY <2>2, LineJoined
  <2>4. \A k \in Bases : line'[k] = IF k = key[h] THEN Append(l, h) ELSE line[k]
    BY <2>1
  <2> HIDE DEF l
  <2>5. \A k \in Bases : Once(line'[k])
    BY <2>3, <2>4 DEF InPlace
  <2>6. ASSUME NEW k \in Bases, NEW g \in Handlers
        PROVE  InLine(line'[k], g) <=> key[g] = k /\ pc'[g] \in Busy \cup {"wait"}
    <3>1. InLine(line[k], g) <=> key[g] = k /\ pc[g] \in Busy \cup {"wait"}
      BY DEF InPlace
    <3>2. CASE g = h
      BY <2>1, <2>3, <2>4, <3>1, <3>2 DEF Busy
    <3>3. CASE g # h
      BY <1>1, <2>3, <2>4, <3>1, <3>3 DEF l
    <3> QED BY <3>2, <3>3
  <2>7. \A g \in Handlers : stage'[g] = IF g = h THEN "queued" ELSE stage[g]
    BY <2>1
  <2> QED BY <1>1, <2>1, <2>5, <2>6, <2>7 DEF InPlace, Busy
<1>3. CASE LeaveQueue(h)
  <2> DEFINE l == line[key[h]]
  <2>1. /\ pc[h] = "leave" /\ pc'[h] = "done" /\ l # <<>> /\ Head(l) = h
        /\ stage' = [stage EXCEPT ![h] = "done"]
        /\ line' = [line EXCEPT ![key[h]] = Tail(@)]
    BY <1>3 DEF LeaveQueue, Queue!Leave, Queue!First
  <2>2. l \in Seq(Handlers) /\ Once(l) /\ key[h] \in Bases
    BY DEF InPlace
  <2>3. Once(Tail(l)) /\ \A g : InLine(Tail(l), g) <=> InLine(l, g) /\ g # h
    BY <2>1, <2>2, LineLeft
  <2>4. \A k \in Bases : line'[k] = IF k = key[h] THEN Tail(l) ELSE line[k]
    BY <2>1
  <2> HIDE DEF l
  <2>5. \A k \in Bases : Once(line'[k])
    BY <2>3, <2>4 DEF InPlace
  <2>6. ASSUME NEW k \in Bases, NEW g \in Handlers
        PROVE  InLine(line'[k], g) <=> key[g] = k /\ pc'[g] \in Busy \cup {"wait"}
    <3>1. InLine(line[k], g) <=> key[g] = k /\ pc[g] \in Busy \cup {"wait"}
      BY DEF InPlace
    <3>2. CASE g = h
      BY <2>1, <2>3, <2>4, <3>1, <3>2 DEF Busy
    <3>3. CASE g # h
      BY <1>1, <2>3, <2>4, <3>1, <3>3 DEF l
    <3> QED BY <3>2, <3>3
  <2>7. \A g \in Handlers : stage'[g] = IF g = h THEN "done" ELSE stage[g]
    BY <2>1
  <2> QED BY <1>1, <2>1, <2>5, <2>6, <2>7 DEF InPlace, Busy
<1>4. CASE StartTask(h)
  <2>1. /\ pc[h] = "wait" /\ pc'[h] = "build" /\ line' = line
        /\ \A g \in Handlers : stage'[g] = IF g = h THEN "running" ELSE stage[g]
    BY <1>4 DEF StartTask, MayStart, Queue!Start
  <2>2. \A g \in Handlers : pc'[g] \in Busy \cup {"wait"} <=> pc[g] \in Busy \cup {"wait"}
    BY <1>1, <2>1 DEF Busy
  <2> QED BY <1>1, <2>1, <2>2 DEF InPlace, Busy
<1>5. CASE /\ UNCHANGED <<line, stage>>
           /\ \/ pc[h] = "new" /\ pc'[h] \in {"done", "enqueue"}
              \/ pc[h] \in Busy /\ pc'[h] \in Busy
  <2>1. \A g \in Handlers : pc'[g] \in Busy \cup {"wait"} <=> pc[g] \in Busy \cup {"wait"}
    BY <1>1, <1>5 DEF Busy
  <2> QED BY <1>1, <1>5, <2>1 DEF InPlace, Busy
<1>6. CASE NewCommand(h) \/ ReadSessionId(h) \/ BuildMessages(h) \/ Acquire(h) \/ Persist(h) \/ Reply(h)
           \/ StreamGoesOn(h) \/ StreamSettles(h) \/ StreamEnds(h)
  BY <1>5, <1>6 DEF Busy, NewCommand, ReadSessionId, BuildMessages, Acquire, Persist, AfterPersist, Reply,
     StreamGoesOn, StreamSettles, StreamEnds, Streaming
<1>7. CASE RequestOk(h) \/ StreamOpens(h) \/ RequestRetryable(h) \/ RequestFatal(h)
  BY <1>5, <1>7 DEF Busy, RequestOk, StreamOpens, RequestRetryable, AfterRetryable, RequestFatal, Sent
<1> QED BY <1>2, <1>3, <1>4, <1>6, <1>7 DEF Step

LEMMA StepStreamInPlace ==
  ASSUME TypeInv, StreamInPlace, NEW h \in Handlers, Step(h)
  PROVE  StreamInPlace'
<1> USE DEF TypeInv, HandlerShape, StreamShape, Goto
<1>1. \A g \in Handlers \ {h} : pc'[g] = pc[g] /\ phase'[g] = phase[g]
  BY OthersStay
<1>2. pc'[h] = "streaming" => phase'[h] \in {"open", "settled"}
  <2>1. CASE StreamOpens(h)
    BY <2>1 DEF StreamOpens, Stream!Open
  <2>2. CASE StreamGoesOn(h)
    BY <2>2 DEF StreamGoesOn, Streaming, Stream!AnswerComes, Stream!Show, StreamInPlace
  <2>3. CASE StreamSettles(h)
    BY <2>3 DEF StreamSettles, Stream!SettleRecorded, Stream!SettleUnrecorded
  <2> QED BY <2>1, <2>2, <2>3
      DEF Step, NewCommand, ReadSessionId, Enqueue, StartTask, BuildMessages, Acquire, RequestOk,
          RequestRetryable, AfterRetryable, RequestFatal, Sent, Persist, AfterPersist, StreamEnds, Reply,
          LeaveQueue
<1> QED BY <1>1, <1>2 DEF StreamInPlace

PlacesInv == TypeInv /\ BusyFirst /\ AnswerInv /\ InPlace /\ StreamInPlace

(* A message may make its next step, whatever the gateway does.            *)
MayMove(h) ==
  \/ pc[h] \in {"new", "build", "acquire", "answered", "failed"}
  \/ pc[h] = "enqueue" /\ stage[h] = "idle"
  \/ pc[h] = "wait" /\ stage[h] = "queued" /\ Queue!First(h)
  \/ pc[h] = "send" /\ phase[h] = "off"
  \/ pc[h] = "persist" /\ PersistedMem(h) # {}
  \/ pc[h] = "streaming" /\ phase[h] \in {"open", "settled"}
  \/ pc[h] = "leave" /\ stage[h] = "running" /\ Queue!First(h)

(* A message that is not through may move, or stands behind one of its own *)
(* session that may.                                                       *)
NobodyStuck ==
  \A h \in Handlers :
    pc[h] = "done" \/ MayMove(h) \/ \E g \in Handlers : pc[h] = "wait" /\ key[g] = key[h] /\ Queue!First(g) /\ MayMove(g)

LEMMA HeadMoves ==
  ASSUME PlacesInv, NEW h \in Handlers, pc[h] \in Busy \/ (pc[h] = "wait" /\ Queue!First(h))
  PROVE  MayMove(h)
<1> USE DEF PlacesInv
<1>1. CASE pc[h] = "wait"
  BY <1>1 DEF MayMove, InPlace, Busy
<1>2. CASE pc[h] = "persist"
  <2>1. AppendOutcomes(mem, sid[h], Turn(h), 0) # {}
    BY AppendPossible DEF TypeInv
  <2> QED BY <1>2, <2>1 DEF MayMove, PersistedMem
<1>3. CASE pc[h] = "send"
  BY <1>3 DEF MayMove, AnswerInv
<1>4. CASE pc[h] = "streaming"
  BY <1>4 DEF MayMove, StreamInPlace
<1>5. CASE pc[h] = "leave"
  BY <1>5 DEF MayMove, InPlace, BusyFirst, Busy
<1> QED BY <1>1, <1>2, <1>3, <1>4, <1>5 DEF Busy, MayMove

(* Every message stands where its step expects it to.                     *)
LEMMA AlwaysInPlace == Spec => []PlacesInv
<1>1. Init => PlacesInv
  <2> SUFFICES ASSUME Init PROVE PlacesInv
    OBVIOUS
  <2>1. AnswerInv /\ BusyFirst /\ StreamInPlace
    BY DEF Init, AnswerInv, Stream!PromiseInit, BusyFirst, Busy, StreamInPlace
  <2>2. InPlace
    BY DEF Init, InPlace, Queue!LineInit, Once, InLine, Busy
  <2> QED BY <2>1, <2>2, InitType DEF PlacesInv
<1>2. ASSUME PlacesInv, NEW h \in Handlers, Step(h)
      PROVE  PlacesInv'
  <2>1. TypeInv' /\ AnswerInv' /\ InPlace' /\ StreamInPlace'
    BY <1>2, NextType, StepAnswerInv, StepInPlace, StepStreamInPlace DEF Next, PlacesInv
  <2>2. BusyFirst'
    BY <1>2, StepBusyFirst DEF PlacesInv
  <2> QED BY <2>1, <2>2 DEF PlacesInv
<1>3. ASSUME PlacesInv, UNCHANGED vars
      PROVE  PlacesInv'
  <2>1. TypeInv'
    BY <1>3, NextType DEF PlacesInv
  <2>2. AnswerInv' /\ StreamInPlace'
    BY <1>3 DEF vars, stream, PlacesInv, AnswerInv, OneAnswer, StreamInPlace
  <2>3. BusyFirst' /\ InPlace'
    BY <1>3 DEF vars, PlacesInv, BusyFirst, Queue!First, InPlace, InLine, Once
  <2> QED BY <2>1, <2>2, <2>3 DEF PlacesInv
<1>4. PlacesInv /\ [Next]_vars => PlacesInv'
  BY <1>2, <1>3 DEF Next, Terminated
<1> QED BY <1>1, <1>4, PTL DEF Spec

(* A message that is not through may go on, or waits for one that may: the *)
(* pipeline never comes to a halt.                                         *)
THEOREM NobodyIsStuck == Spec => []NobodyStuck
<1>1. PlacesInv => NobodyStuck
  <2> SUFFICES ASSUME PlacesInv, NEW h \in Handlers, pc[h] # "done", ~MayMove(h)
               PROVE  \E g \in Handlers : pc[h] = "wait" /\ key[g] = key[h] /\ Queue!First(g) /\ MayMove(g)
    BY DEF NobodyStuck
  <2> USE DEF PlacesInv, TypeInv, QueueShape, HandlerShape
  <2>1. pc[h] = "wait"
    <3>1. CASE pc[h] = "enqueue"
      BY <3>1 DEF InPlace, MayMove
    <3>2. CASE pc[h] = "new"
      BY <3>2 DEF MayMove
    <3> QED BY <3>1, <3>2, HeadMoves DEF Pcs, Busy
  <2> DEFINE l == line[key[h]]
             g == Head(l)
  <2>2. l \in Seq(Handlers) /\ Once(l) /\ InLine(l, h) /\ key[h] \in Bases
    BY <2>1 DEF InPlace
  <2>3. l # <<>>
    BY <2>2 DEF InLine
  <2>4. InLine(l, g) /\ g \in Handlers
    BY <2>2, <2>3, LineLeft, HeadTailProperties
  <2> HIDE DEF l, g
  <2>5. key[g] = key[h] /\ pc[g] \in Busy \cup {"wait"}
    BY <2>2, <2>4 DEF InPlace, l
  <2>6. Queue!First(g)
    BY <2>3, <2>5 DEF Queue!First, l, g
  <2>7. MayMove(g)
    BY <2>4, <2>5, <2>6, HeadMoves
  <2> QED BY <2>1, <2>4, <2>5, <2>6, <2>7
<1> QED BY <1>1, AlwaysInPlace, PTL
-----------------------------------------------------------------------------
(* Sessions are kept apart: the messages that have read the id of session  *)
(* i, and what was said or answered by messages of G only.                 *)
In(i) == {g \in Handlers : pc[g] # "new" /\ sid[g] = i}

SaidBy(c, G) == \A n \in DOMAIN c : \E g \in G : c[n] \in {<<g, "user">>, <<g, "assistant">>}

HistoriesApart == \A i \in DOMAIN mem.convs : SaidBy(mem.convs[i], In(i))

OwnHistoryOnly == \A h \in Handlers : SaidBy(context[h], In(sid[h]))

ApartInv ==
  /\ TypeInv
  /\ HistoriesApart /\ OwnHistoryOnly
  /\ \A h \in Handlers : pc[h] = "new" => context[h] = <<>>

(* A message stays in the session it has read.                             *)
LEMMA StaysIn ==
  ASSUME TypeInv, NEW h \in Handlers, Step(h)
  PROVE  /\ \A i : In(i) \subseteq In(i)'
         /\ \A g \in Handlers : pc[g] # "new" => sid'[g] = sid[g]
         /\ \A g \in Handlers : pc'[g] = "new" => pc[g] = "new"
<1>1. ASSUME NEW g \in Handlers, pc[g] # "new" PROVE sid'[g] = sid[g] /\ pc'[g] # "new"
  <2>1. CASE g = h
    BY <1>1, <2>1
    DEF Step, Goto, TypeInv, HandlerShape, NewCommand, ReadSessionId, Enqueue, StartTask,
        BuildMessages, Acquire, Sent, RequestOk, StreamOpens, RequestRetryable, AfterRetryable,
        RequestFatal, Persist, AfterPersist, Streaming, StreamGoesOn, StreamSettles, StreamEnds,
        Reply, LeaveQueue
  <2>2. CASE g # h
    BY <1>1, <2>2, OthersStay
  <2> QED BY <2>1, <2>2
<1> QED BY <1>1 DEF In

(* A turn of a message of G behind what was said by messages of G, and the *)
(* end of both.                                                            *)
LEMMA SaidMore ==
  ASSUME NEW c \in Seq(Msgs), NEW G, NEW h \in G, Turn(h) \in Seq(Msgs), SaidBy(c, G)
  PROVE  SaidBy(Drained(c \o Turn(h)), G)
<1> DEFINE x == c \o Turn(h)
           d == Drained(x)
<1>1. /\ x \in Seq(Msgs) /\ Len(x) = Len(c) + Len(Turn(h))
      /\ \A n \in 1 .. Len(c) + Len(Turn(h)) : x[n] = IF n <= Len(c) THEN c[n] ELSE Turn(h)[n - Len(c)]
  BY ConcatProperties
<1>2. Len(Turn(h)) = 2 /\ Turn(h)[1] = <<h, "user">> /\ Turn(h)[2] = <<h, "assistant">>
  BY DEF Turn
<1> HIDE DEF x
<1>3. ASSUME NEW n \in 1 .. Len(x)
      PROVE  \E g \in G : x[n] \in {<<g, "user">>, <<g, "assistant">>}
  <2>1. Len(c) \in Nat /\ n \in Nat
    OBVIOUS
  <2>2. CASE n <= Len(c)
    <3>1. n \in DOMAIN c /\ x[n] = c[n]
      BY <1>1, <1>2, <2>1, <2>2
    <3> QED BY <3>1 DEF SaidBy
  <2>3. CASE n > Len(c)
    <3>1. n - Len(c) \in {1, 2}
      BY <1>1, <1>2, <2>1, <2>3
    <3>2. x[n] = Turn(h)[n - Len(c)]
      BY <1>1, <1>2, <2>1, <2>3
    <3>3. x[n] \in {<<h, "user">>, <<h, "assistant">>}
      BY <1>2, <3>1, <3>2
    <3> QED BY <3>3
  <2> QED BY <2>1, <2>2, <2>3
<1>4. PICK k \in Nat : Len(d) = Len(x) - k /\ \A n \in 1 .. Len(d) : d[n] = x[n + k]
  BY <1>1, DrainedEnd
<1>5. d \in Seq(Msgs)
  BY <1>1, DrainedType
<1> HIDE DEF d
<1>6. SaidBy(d, G)
  <2> SUFFICES ASSUME NEW n \in DOMAIN d
               PROVE  \E g \in G : d[n] \in {<<g, "user">>, <<g, "assistant">>}
    BY DEF SaidBy
  <2>1. n \in 1 .. Len(d) /\ Len(x) \in Nat
    BY <1>1, <1>5
  <2>2. n + k \in 1 .. Len(x) /\ d[n] = x[n + k]
    BY <1>4, <2>1
  <2> QED BY <1>3, <2>2
<1> QED BY <1>6 DEF d, x

LEMMA SaidByMore ==
  ASSUME NEW c, NEW G, NEW H, G \subseteq H, SaidBy(c, G)
  PROVE  SaidBy(c, H)
BY DEF SaidBy

LEMMA NothingSaid == \A G : SaidBy(<<>>, G)
BY DEF SaidBy

LEMMA StepHistoriesApart ==
  ASSUME ApartInv, NEW h \in Handlers, Step(h)
  PROVE  HistoriesApart'
<1>1. ASSUME NEW i \in DOMAIN mem.convs PROVE SaidBy(mem.convs[i], In(i)')
  <2>1. SaidBy(mem.convs[i], In(i)) /\ In(i) \subseteq In(i)'
    BY <1>1, StaysIn DEF ApartInv, HistoriesApart
  <2> QED BY <2>1, SaidByMore
<1>2. CASE mem' = mem
  BY <1>1, <1>2 DEF HistoriesApart
<1>3. CASE mem' = Bumped(mem, key[h])
  BY <1>1, <1>3, BumpedConvs DEF HistoriesApart
<1>4. CASE Records(h)
  <2> DEFINE c == Conversation(mem, sid[h])
             G == In(sid[h])
  <2>1. /\ c \in Seq(Msgs) /\ Turn(h) \in Seq(Msgs)
        /\ \A i \in DOMAIN mem'.convs :
             IF i = sid[h] THEN mem'.convs[i] = Drained(c \o Turn(h))
                           ELSE i \in DOMAIN mem.convs /\ mem'.convs[i] = mem.convs[i]
    BY <1>4, RecordedTurn DEF ApartInv
  <2>2. SaidBy(c, G)
    BY NothingSaid DEF Conversation, ApartInv, HistoriesApart
  <2>3. h \in G
    BY <1>4 DEF Records, In
  <2> HIDE DEF c, G
  <2>4. SaidBy(Drained(c \o Turn(h)), G)
    BY <2>1, <2>2, <2>3, SaidMore
  <2> DEFINE d == Drained(c \o Turn(h))
             H == In(sid[h])'
  <2>5. \A i : In(i) \subseteq In(i)'
    BY StaysIn DEF ApartInv
  <2>7. G = In(sid[h])
    BY DEF G
  <2>8. ASSUME NEW i \in DOMAIN mem'.convs, i = sid[h]
        PROVE  SaidBy(mem'.convs[i], In(i)')
    <3>1. SaidBy(mem'.convs[i], In(i))
      BY <2>1, <2>4, <2>7, <2>8
    <3> QED BY <2>5, <3>1, SaidByMore
  <2> QED BY <1>1, <2>1, <2>8 DEF HistoriesApart
<1> QED BY <1>2, <1>3, <1>4, MemSteps DEF ApartInv

LEMMA StepOwnHistory ==
  ASSUME ApartInv, NEW h \in Handlers, Step(h)
  PROVE  OwnHistoryOnly' /\ \A g \in Handlers : pc'[g] = "new" => context'[g] = <<>>
<1> USE DEF ApartInv
<1>1. \A i : In(i) \subseteq In(i)'
  BY StaysIn
<1>2. ASSUME NEW c, NEW g \in Handlers, pc[g] # "new", SaidBy(c, In(sid[g]))
      PROVE  SaidBy(c, In(sid[g])')
  <2>1. sid'[g] = sid[g]
    BY <1>2, StaysIn
  <2>2. In(sid[g]) \subseteq {q \in Handlers : pc'[q] # "new" /\ sid'[q] = sid[g]}
    BY StaysIn DEF In
  <2>3. SaidBy(c, {q \in Handlers : pc'[q] # "new" /\ sid'[q] = sid[g]})
    BY <1>2, <2>2, SaidByMore
  <2> QED BY <2>1, <2>3 DEF In
<1>3. ASSUME NEW g \in Handlers, context'[g] = context[g] PROVE SaidBy(context'[g], In(sid[g])')
  <2>1. CASE pc[g] = "new"
    BY <1>3, <2>1, NothingSaid
  <2>2. CASE pc[g] # "new"
    BY <1>2, <1>3, <2>2 DEF OwnHistoryOnly
  <2> QED BY <2>1, <2>2
<1>4. \A g \in Handlers : pc'[g] = "new" => context'[g] = <<>>
  <2>1. ASSUME NEW g \in Handlers, pc'[g] = "new" PROVE context'[g] = context[g] /\ pc[g] = "new"
    <3>1. CASE g = h
      BY <2>1, <3>1
      DEF Step, Goto, TypeInv, HandlerShape, NewCommand, ReadSessionId, Enqueue, StartTask,
          BuildMessages, Acquire, Sent, RequestOk, StreamOpens, RequestRetryable, AfterRetryable,
          RequestFatal, Persist, AfterPersist, Streaming, StreamGoesOn, StreamSettles, StreamEnds,
          Reply, LeaveQueue
    <3>2. CASE g # h
      BY <2>1, <3>2, OthersStay
    <3> QED BY <3>1, <3>2
  <2> QED BY <2>1
<1>5. CASE BuildMessages(h)
  <2>1. pc[h] = "build" /\ context' = [context EXCEPT ![h] = IF LocalHistory THEN Conversation(mem, sid[h]) ELSE <<>>]
    BY <1>5 DEF BuildMessages
  <2>2. \/ context'[h] = <<>>
        \/ sid[h] \in DOMAIN mem.convs /\ context'[h] = mem.convs[sid[h]]
    BY <2>1 DEF Conversation, TypeInv, HandlerShape
  <2>3. SaidBy(context'[h], In(sid[h]))
    BY <2>2, NothingSaid DEF HistoriesApart
  <2>4. SaidBy(context'[h], In(sid[h])')
    BY <1>2, <2>1, <2>3
  <2>5. \A g \in Handlers \ {h} : context'[g] = context[g]
    BY OthersStay
  <2> QED BY <1>3, <1>4, <2>4, <2>5 DEF OwnHistoryOnly
<1>6. CASE context' = context
  BY <1>3, <1>4, <1>6 DEF OwnHistoryOnly
<1>7. BuildMessages(h) \/ context' = context
  BY DEF Step, NewCommand, ReadSessionId, Enqueue, StartTask, Acquire, Sent, RequestOk, StreamOpens,
      RequestRetryable, RequestFatal, Persist, Streaming, StreamGoesOn, StreamSettles, StreamEnds,
      Reply, LeaveQueue
<1> QED BY <1>5, <1>6, <1>7

LEMMA AlwaysApart == Spec => []ApartInv
<1>1. Init => ApartInv
  <2> SUFFICES ASSUME Init PROVE ApartInv
    OBVIOUS
  <2>1. DOMAIN mem.convs = {}
    BY DEF Init, Default, NoEntries
  <2>2. \A h \in Handlers : context[h] = <<>>
    BY DEF Init
  <2> QED BY <2>1, <2>2, InitType, NothingSaid DEF ApartInv, HistoriesApart, OwnHistoryOnly
<1>2. ASSUME ApartInv, NEW h \in Handlers, Step(h)
      PROVE  ApartInv'
  <2>1. TypeInv'
    BY <1>2, NextType DEF ApartInv, Next
  <2> QED BY <1>2, <2>1, StepHistoriesApart, StepOwnHistory DEF ApartInv
<1>3. ASSUME ApartInv, UNCHANGED vars
      PROVE  ApartInv'
  <2>1. TypeInv'
    BY <1>3, NextType DEF ApartInv
  <2> QED BY <1>3, <2>1 DEF vars, ApartInv, HistoriesApart, OwnHistoryOnly, In
<1>4. ApartInv /\ [Next]_vars => ApartInv'
  BY <1>2, <1>3 DEF Next, Terminated
<1> QED BY <1>1, <1>4, PTL DEF Spec

(* session_id() and persist_turn(): the model is told only what was said   *)
(* and answered in the very session the message belongs to, whatever other *)
(* sessions do meanwhile: nothing of another chat, and after a /new        *)
(* nothing that was said under the id before.                              *)
THEOREM SessionsApart == Spec => [](HistoriesApart /\ OwnHistoryOnly)
<1>1. ApartInv => HistoriesApart /\ OwnHistoryOnly
  BY DEF ApartInv
<1> QED BY <1>1, AlwaysApart, PTL
-----------------------------------------------------------------------------
(* With fairness.  The turn of a message has come unless it waits behind   *)
(* another; then only it can take that from itself.                        *)
OnTurn(h) == pc[h] # "done" /\ (pc[h] = "wait" => Queue!First(h))

(* A step whose guard holds can be taken: whatever the gateway and the     *)
(* history are, some alternative of Step gives each variable a value.  The *)
(* provers do not reason about ENABLED, so TurnAdvances assumes it.        *)
HandlerEnabled(h) == MayMove(h) => ENABLED <<Step(h)>>_vars

GuardsEnable == \A h \in Handlers : HandlerEnabled(h)

(* A message whose turn has come is never at a step it cannot take.        *)
LEMMA TurnMoves ==
  ASSUME PlacesInv, NEW h \in Handlers, OnTurn(h)
  PROVE  MayMove(h)
<1>1. CASE pc[h] = "enqueue"
  BY <1>1 DEF PlacesInv, InPlace, MayMove
<1>2. CASE pc[h] = "new"
  BY <1>2 DEF MayMove
<1>3. pc[h] \in Pcs
  BY DEF PlacesInv, TypeInv, HandlerShape
<1> QED BY <1>1, <1>2, <1>3, HeadMoves DEF Pcs, Busy, OnTurn

(* Who joins a line does not change who is first in it.                   *)
LEMMA FrontKept ==
  ASSUME NEW S, NEW s \in Seq(S), NEW e \in S, s # <<>>
  PROVE  Append(s, e) # <<>> /\ Head(Append(s, e)) = Head(s)
<1>1. Len(s) \in Nat /\ Len(Append(s, e)) = Len(s) + 1
  BY AppendProperties
<1>2. Append(s, e) # <<>>
  BY AppendProperties
<1>3. Len(s) # 0
  BY EmptySeq
<1>4. Append(s, e)[1] = s[1]
  BY <1>1, <1>3, AppendProperties
<1> QED BY <1>2, <1>4

(* No other message takes the turn from it.                                *)
LEMMA TurnKept ==
  ASSUME PlacesInv, NEW h \in Handlers, NEW g \in Handlers \ {h}, OnTurn(h), Step(g)
  PROVE  OnTurn(h)'
<1> USE DEF PlacesInv, TypeInv, QueueShape, HandlerShape
<1>1. pc'[h] = pc[h] /\ key' = key
  BY OthersStay
<1>2. ASSUME Queue!First(h) PROVE Queue!First(h)'
  <2> DEFINE l == line[key[h]]
  <2>1. l \in Seq(Handlers) /\ l # <<>> /\ Head(l) = h /\ key[h] \in Bases
    BY <1>2 DEF Queue!First
  <2>2. CASE line' = line
    BY <1>1, <1>2, <2>2 DEF Queue!First
  <2>3. CASE Queue!Join(g)
    <3>1. line'[key[h]] = IF key[g] = key[h] THEN Append(l, g) ELSE l
      BY <2>1, <2>3 DEF Queue!Join
    <3>2. Append(l, g) # <<>> /\ Head(Append(l, g)) = Head(l)
      BY <2>1, FrontKept
    <3> QED BY <1>1, <2>1, <3>1, <3>2 DEF Queue!First
  <2>4. CASE Queue!Leave(g)
    <3>1. key[g] # key[h]
      BY <1>2, <2>4 DEF Queue!Leave, Queue!First
    <3>2. line'[key[h]] = l
      BY <2>1, <2>4, <3>1 DEF Queue!Leave
    <3> QED BY <1>1, <2>1, <3>2 DEF Queue!First
  <2> QED BY <2>2, <2>3, <2>4
      DEF Step, NewCommand, ReadSessionId, Enqueue, StartTask, MayStart, Queue!Start, BuildMessages,
          Acquire, Sent, RequestOk, StreamOpens, RequestRetryable, RequestFatal, Persist, Streaming,
          StreamGoesOn, StreamSettles, StreamEnds, Reply, LeaveQueue
<1> QED BY <1>1, <1>2 DEF OnTurn

(* The runtime polls every handler and each request ends: a message whose  *)
(* turn has come gets on, as long as it is not through, with fairness for  *)
(* its own steps alone.  As its steps run out, it is through one day.      *)
THEOREM TurnAdvances ==
  ASSUME NEW h \in Handlers, NEW n \in Nat
  PROVE  FairSpec /\ []GuardsEnable => (OnTurn(h) /\ StepsLeft(h) = n ~> StepsLeft(h) < n)
<1> DEFINE There == OnTurn(h) /\ StepsLeft(h) = n
           Closer == StepsLeft(h) < n
<1>1. ASSUME PlacesInv, There, [Next]_vars PROVE There' \/ Closer'
  <2>1. CASE vars' = vars
    BY <1>1, <2>1 DEF vars, requests, stream, OnTurn, Queue!First, StepsLeft, OfStream
  <2>2. CASE Step(h) /\ vars' # vars
    BY <1>1, <2>2, StepLowers DEF PlacesInv
  <2>3. ASSUME NEW g \in Handlers \ {h}, Step(g) PROVE There'
    BY <1>1, <2>3, TurnKept, OthersKeepSteps DEF PlacesInv
  <2> QED BY <1>1, <2>1, <2>2, <2>3 DEF Next, Terminated
<1>2. PlacesInv /\ There /\ <<Step(h)>>_vars => Closer'
  BY StepLowers DEF PlacesInv
<1>3. PlacesInv /\ There => MayMove(h)
  BY TurnMoves
<1>4. GuardsEnable => HandlerEnabled(h)
  BY DEF GuardsEnable
<1>5. HandlerEnabled(h) => (MayMove(h) => ENABLED <<Step(h)>>_vars)
  BY DEF HandlerEnabled
<1>6. FairSpec => Spec /\ (\A g \in Handlers : HandlerFair(g))
  BY DEF FairSpec
<1>7. (\A g \in Handlers : HandlerFair(g)) => HandlerFair(h)
  OBVIOUS
<1>8. Spec => [][Next]_vars
  BY DEF Spec
<1> HIDE DEF There, Closer
<1>9. FairSpec /\ []GuardsEnable => (There ~> Closer)
  BY <1>1, <1>2, <1>3, <1>4, <1>5, <1>6, <1>7, <1>8, AlwaysInPlace, PTL DEF HandlerFair
<1> QED BY <1>9 DEF There, Closer
=============================================================================

------------------------------ MODULE LlmStream ------------------------------
(***************************************************************************)
(* llm/mod.rs and lib.rs: one streamed reply.  The stream processor cuts   *)
(* the response into lines as its chunks come in, parses the server-sent   *)
(* events, collects the reply, records the turn and sends the events over  *)
(* a bounded channel to the handler, which buffers, flushes and answers.   *)
(*                                                                         *)
(* The response is a sequence of lines.  On the wire line i is two bytes,  *)
(* its number i and NL; a chunk is any stretch of them, and the connection *)
(* may end or break after any byte.  A delta is named by its line.         *)
(***************************************************************************)
EXTENDS Integers, Sequences, FiniteSets, SequencesExt

CONSTANTS
  Kinds,        \* the kinds of lines the gateway sends
  MaxLines,     \* bound: lines of a response
  Capacity,     \* 32, the capacity of the channel
  FlushLen,     \* config max_message_length, in deltas
  DrainAt,      \* 8192: with more bytes consumed, or
  DrainLen,     \* 65536: more in the buffer, the consumed ones are dropped
  LocalHistory, \* config local_history_enabled
  NoTurn        \* "nothing recorded"

(* text: an event with a visible delta; break: one with a blank delta that *)
(* ends a paragraph; mark: one with the mark that begins and ends a        *)
(* thought of the model; noise: any line without a delta (blank, comment,  *)
(* not UTF-8, unparseable, empty delta); done: "data: [DONE]".             *)
AllKinds == {"text", "break", "mark", "noise", "done"}

ASSUME StreamAssumption ==
  /\ Kinds \subseteq AllKinds
  /\ MaxLines \in Nat /\ Capacity \in Nat \ {0} /\ FlushLen \in Nat \ {0} /\ DrainAt \in Nat
  /\ DrainLen \in Nat
  /\ LocalHistory \in BOOLEAN
  /\ NoTurn \notin Seq(1 .. MaxLines)

VARIABLES
  lines,    \* the response
  got,      \* bytes of it received
  ppc,      \* where the processor is
  buf,      \* buf: received bytes, the consumed ones in front
  consumed, \* consumed
  full,     \* full_reply
  event,    \* the event the processor is about to send
  channel,  \* the mpsc channel
  recorded, \* the assistant message appended to the conversation, or NoTurn
  hpc,      \* where the handler is: "recv" or "done"
  buffer,   \* buffer: deltas not flushed yet
  sentAny,  \* sent_any
  replies,  \* reply_text calls
  flushed,  \* ghost: the deltas flushed so far
  cuts,     \* ghost: the lengths of flushed between two flushes
  shown     \* ghost: the deltas the user has seen

processor == <<lines, got, ppc, buf, consumed, full, event, recorded>>
handler == <<hpc, buffer, sentAny, replies, flushed, cuts, shown>>
vars == <<processor, channel, handler>>

NL == 0
Wire == [i \in 1 .. 2 * Len(lines) |-> IF i % 2 = 1 THEN (i + 1) \div 2 ELSE NL]

IsDelta(i) == lines[i] \in {"text", "break", "mark"}

(* enum StreamEvent; a delta carries its line.                             *)
Deltas == 1 .. MaxLines
Delta(i) == [tag |-> "Delta", line |-> i]
Final(tag) == [tag |-> tag, line |-> NL]
None == Final("none")
Events == {Delta(i) : i \in Deltas} \cup {Final("Done"), Final("Error")}

Init ==
  /\ lines \in UNION {[1 .. n -> Kinds] : n \in 0 .. MaxLines}
  /\ got = 0
  /\ ppc = "recv"
  /\ buf = <<>>
  /\ consumed = 0
  /\ full = <<>>
  /\ event = None
  /\ channel = <<>>
  /\ recorded = NoTurn
  /\ hpc = "recv"
  /\ buffer = <<>>
  /\ sentAny = FALSE
  /\ replies = 0
  /\ flushed = <<>>
  /\ cuts = {}
  /\ shown = {}

-----------------------------------------------------------------------------
(* How the processor ends: record the turn, send the last event, return.   *)
SentBeforeRecorded == <<"last", "record", "end">>

Closing == <<"record", "last", "end">>

ClosingAfter(p) == Closing[1 + CHOOSE i \in 1 .. 2 : Closing[i] = p]

Close(last) ==
  /\ event' = last
  /\ ppc' = Closing[1]

Receive(n) ==
  /\ ppc = "recv"
  /\ got + n <= Len(Wire)
  /\ buf' = buf \o SubSeq(Wire, got + 1, got + n)
  /\ got' = got + n
  /\ ppc' = "parse"
  /\ UNCHANGED <<lines, consumed, full, event, recorded, channel, handler>>

(* The chunk is an error: a timeout, a broken connection.  The turn is not *)
(* recorded.                                                               *)
Break ==
  /\ ppc = "recv"
  /\ event' = Final("Error")
  /\ ppc' = "abort"
  /\ UNCHANGED <<lines, got, buf, consumed, full, recorded, channel, handler>>

(* The response ends without [DONE].                                       *)
End ==
  /\ ppc = "recv"
  /\ Close(Final("Error"))
  /\ UNCHANGED <<lines, got, buf, consumed, full, recorded, channel, handler>>

(* The next line, if its end is in the buffer.                             *)
Unread == SubSeq(buf, consumed + 1, Len(buf))

ParseLine ==
  /\ ppc = "parse"
  /\ Contains(Unread, NL)
  /\ LET pos == CHOOSE p \in 1 .. Len(Unread) : Unread[p] = NL /\ ~Contains(SubSeq(Unread, 1, p - 1), NL)
         line == Unread[1]
     IN  /\ consumed' = consumed + pos
         /\ CASE pos > 1 /\ lines[line] = "done" -> Close(Final("Done")) /\ UNCHANGED full
              [] pos > 1 /\ IsDelta(line) ->
                   /\ full' = Append(full, line)
                   /\ event' = Delta(line)
                   /\ ppc' = "send"
              [] OTHER -> UNCHANGED <<full, event, ppc>>
  /\ UNCHANGED <<lines, got, buf, recorded, channel, handler>>

(* No line is left: drop the consumed bytes once there are enough of them. *)
ConsumedKept == consumed

ConsumedAfterDrain == 0

PartialLineDropped == <<>>

BufAfterDrain == Unread

NextChunk ==
  /\ ppc = "parse"
  /\ ~Contains(Unread, NL)
  /\ IF consumed > DrainAt \/ Len(buf) > DrainLen
       THEN /\ buf' = BufAfterDrain
            /\ consumed' = ConsumedAfterDrain
       ELSE UNCHANGED <<buf, consumed>>
  /\ ppc' = "recv"
  /\ UNCHANGED <<lines, got, full, event, recorded, channel, handler>>

SendDelta ==
  /\ ppc = "send"
  /\ Len(channel) < Capacity
  /\ channel' = Append(channel, event)
  /\ event' = None
  /\ ppc' = "parse"
  /\ UNCHANGED <<lines, got, buf, consumed, full, recorded, handler>>

(* append_conversation, if there is a reply and a history.                 *)
Record ==
  /\ ppc = "record"
  /\ recorded' = IF LocalHistory /\ full # <<>> THEN full ELSE recorded
  /\ ppc' = ClosingAfter("record")
  /\ UNCHANGED <<lines, got, buf, consumed, full, event, channel, handler>>

SendLast ==
  /\ ppc \in {"last", "abort"}
  /\ Len(channel) < Capacity
  /\ channel' = Append(channel, event)
  /\ ppc' = IF ppc = "last" THEN ClosingAfter("last") ELSE "end"
  /\ UNCHANGED <<lines, got, buf, consumed, full, event, recorded, handler>>

-----------------------------------------------------------------------------
(* handle_stream_reply.  clean_outbound_text takes out the thoughts, from  *)
(* one mark to the next (THINK_RE is not greedy); a mark without a partner *)
(* in the same buffer stays.  A buffer without visible text is dropped     *)
(* without a reply.                                                        *)
Marks(b) == {i \in DOMAIN b : lines[b[i]] = "mark"}

GreedyThoughts(b) ==
  {t \in Marks(b) \X Marks(b) : t[1] < t[2] /\ \A m \in Marks(b) : t[1] <= m /\ m <= t[2]}

Thoughts(b) ==
  {t \in Marks(b) \X Marks(b) :
     /\ t[1] < t[2] /\ \A m \in Marks(b) : m <= t[1] \/ t[2] <= m
     /\ Cardinality({m \in Marks(b) : m < t[1]}) % 2 = 0}

IsShown(b, i) ==
  lines[b[i]] # "break" /\ \A t \in Thoughts(b) : i < t[1] \/ t[2] < i

Cleaned(b) == {b[i] : i \in {j \in DOMAIN b : IsShown(b, j)}}

Visible(b) == Cleaned(b) # {}

BufferFull(b) == Len(b) >= FlushLen \/ lines[Last(b)] = "break"

Flush(b) ==
  /\ flushed' = flushed \o b
  /\ shown' = shown \cup Cleaned(b)
  /\ sentAny' = (sentAny \/ Visible(b))

BufferAfterFlush(b) == <<>>

TakeDelta ==
  /\ hpc = "recv"
  /\ channel # <<>> /\ Head(channel).tag = "Delta"
  /\ channel' = Tail(channel)
  /\ LET b == Append(buffer, Head(channel).line)
     IN  IF BufferFull(b)
           THEN /\ Flush(b)
                /\ cuts' = cuts \cup {Len(flushed \o b)}
                /\ replies' = IF Visible(b) THEN replies + 1 ELSE replies
                /\ buffer' = BufferAfterFlush(b)
           ELSE /\ buffer' = b
                /\ UNCHANGED <<sentAny, replies, flushed, cuts, shown>>
  /\ UNCHANGED <<processor, hpc>>

(* Done or Error: flush the rest; a notice if nothing was ever sent.  The  *)
(* processor always sends one of them, so rx.recv() never returns None.    *)
RemainderLost(b) == <<>>

Remainder(b) == b

NoticeNeeded(b) == ~sentAny /\ ~Visible(b)

TakeLast ==
  /\ hpc = "recv"
  /\ channel # <<>> /\ Head(channel).tag # "Delta"
  /\ channel' = Tail(channel)
  /\ Flush(Remainder(buffer))
  /\ buffer' = <<>>
  /\ replies' = IF Visible(buffer) \/ NoticeNeeded(buffer) THEN replies + 1 ELSE replies
  /\ hpc' = "done"
  /\ UNCHANGED <<processor, cuts>>

Terminated ==
  /\ hpc = "done" /\ ppc = "end"
  /\ UNCHANGED vars

Incoming == (\E n \in 1 .. 2 * MaxLines : Receive(n)) \/ Break \/ End
Processing == ParseLine \/ NextChunk \/ SendDelta \/ Record \/ SendLast
Handling == TakeDelta \/ TakeLast

Next == Incoming \/ Processing \/ Handling \/ Terminated

Spec == Init /\ [][Next]_vars

(* The request has a timeout, so something always comes in; the runtime    *)
(* polls both tasks.                                                       *)
FairSpec == Spec /\ WF_vars(Incoming) /\ WF_vars(Processing) /\ WF_vars(Handling)

-----------------------------------------------------------------------------
(* Types; consumed is within buf.                                          *)
TypeOK ==
  /\ lines \in Seq(Kinds) /\ Len(lines) <= MaxLines
  /\ got \in 0 .. Len(Wire)
  /\ ppc \in {"recv", "parse", "send", "record", "last", "abort", "end"}
  /\ buf \in Seq(Deltas \cup {NL}) /\ consumed \in 0 .. Len(buf)
  /\ full \in Seq(Deltas) /\ event \in Events \cup {None}
  /\ channel \in Seq(Events) /\ Len(channel) <= Capacity
  /\ recorded \in Seq(Deltas) \cup {NoTurn}
  /\ hpc \in {"recv", "done"} /\ buffer \in Seq(Deltas) /\ sentAny \in BOOLEAN
  /\ replies \in Nat /\ flushed \in Seq(Deltas)
  /\ cuts \subseteq 0 .. Len(flushed) /\ shown \subseteq Deltas

(* README "SSE 解析使用 `Vec<u8>` buffer + consumed 指针，正确处理 `\r\n`、   *)
(* UTF-8 chunk 边界、连接断开": however the response is cut into chunks, when *)
(* the next one is awaited the reply is the deltas of the lines received   *)
(* in full, each once and in order.                                        *)
CompleteLines == 1 .. got \div 2

InOrder(s) == \A i, j \in DOMAIN s : i < j => s[i] < s[j]

ChunksDoNotMatter ==
  ppc = "recv" => InOrder(full) /\ ToSet(full) = {i \in CompleteLines : IsDelta(i)}

(* A delta of the reply is flushed, buffered, in the channel or about to   *)
(* be sent, in this order, and nowhere twice; and the history gets what    *)
(* the user gets.                                                          *)
Closed(c) == c # <<>> /\ Last(c).tag # "Delta"
DeltasIn(c) == IF Closed(c) THEN Front(c) ELSE c
LinesIn(c) == [i \in DOMAIN DeltasIn(c) |-> DeltasIn(c)[i].line]
AboutToSend == IF ppc = "send" THEN <<event.line>> ELSE <<>>

NothingLost ==
  /\ flushed \o buffer \o LinesIn(channel) \o AboutToSend = full
  /\ hpc = "done" /\ recorded # NoTurn => recorded = flushed

(* However the reply is cut into messages, the user reads the answer       *)
(* without its thoughts, unless a cut falls inside one: each buffer is     *)
(* cleaned by itself, and half a thought is not taken for one.             *)
MarksIn(f, from, to) == Cardinality({i \in Marks(f) : from <= i /\ i <= to})

Answered(f, i) ==
  LET before == MarksIn(f, 1, i - 1)
      after == MarksIn(f, i + 1, Len(f))
  IN  \/ lines[f[i]] = "text" /\ (before % 2 = 0 \/ after = 0)
      \/ lines[f[i]] = "mark" /\ before % 2 = 0 /\ after = 0

CutInThought(f) ==
  \E c \in cuts : MarksIn(f, 1, c) % 2 = 1 /\ MarksIn(f, c + 1, Len(f)) > 0

ThoughtsHidden ==
  hpc = "done" /\ ~CutInThought(flushed) =>
    shown = {flushed[i] : i \in {j \in DOMAIN flushed : Answered(flushed, j)}}

-----------------------------------------------------------------------------
(* The two tasks keep the promise the pipeline relies on.                  *)
One == {"stream"}
Of(v) == [s \in One |-> v]

AbsPhase ==
  CASE hpc = "done" -> "over"
    [] hpc # "done" /\ ppc \in {"last", "abort", "end"} -> "settled"
    [] OTHER -> "open"

Promise ==
  INSTANCE StreamPromise
    WITH Streams <- One, phase <- Of(AbsPhase), begun <- Of(full # <<>>),
         taken <- Of(recorded # NoTurn), told <- Of(replies > 0)

(* The turn is recorded, or not, before the handler lets the next message  *)
(* of the session in, and never afterwards; and the user ends with an      *)
(* answer or a notice.                                                     *)
KeepsPromise == Promise!PromiseSpec
=============================================================================

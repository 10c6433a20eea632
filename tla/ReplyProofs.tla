----------------------------- MODULE ReplyProofs -----------------------------
(***************************************************************************)
(* Proofs about what becomes of a reply: about LlmStream for every         *)
(* response, however it is cut into chunks, every capacity of the channel  *)
(* and all limits of the buffers; about MessageSplit for every text and    *)
(* limit.                                                                  *)
(***************************************************************************)
EXTENDS MCReply, SequenceTheorems, FiniteSetTheorems, WellFoundedInduction, TLAPS

(* The bytes drained from the front of buf, and the lines parsed.          *)
Drained == got - Len(buf)
Parsed == (Drained + consumed) \div 2

(* buf is a stretch of the wire that ends at the last byte received; the   *)
(* lines are consumed whole, and at most half a line waits for the next    *)
(* chunk.                                                                  *)
BufferOnWire ==
  /\ Len(buf) <= got
  /\ \A i \in 1 .. Len(buf) : buf[i] = Wire[Drained + i]
  /\ (Drained + consumed) % 2 = 0
  /\ ppc = "recv" => Len(buf) - consumed <= 1

ReplyOfParsed == InOrder(full) /\ ToSet(full) = {i \in 1 .. Parsed : IsDelta(i)}

(* Deltas, then the last event, are sent; nothing is left after it.        *)
EventInTurn ==
  /\ ppc = "send" => event \in {Delta(i) : i \in Deltas}
  /\ ppc \in {"record", "last", "abort"} => event \in {Final("Done"), Final("Error")}

LastEventLast ==
  /\ \A i \in 1 .. Len(channel) - 1 : channel[i].tag = "Delta"
  /\ Closed(channel) <=> ppc = "end" /\ hpc = "recv"
  /\ hpc = "done" => ppc = "end" /\ channel = <<>> /\ buffer = <<>>

InFlow == flushed \o buffer \o LinesIn(channel) \o AboutToSend = full

RecordedWhole == recorded # NoTurn => recorded = full /\ ppc \in {"last", "end"}

Told == sentAny => replies > 0

FlowInv == EventInTurn /\ LastEventLast /\ InFlow /\ RecordedWhole /\ Told

-----------------------------------------------------------------------------
LEMMA WireBytes ==
  ASSUME lines \in Seq(Kinds), Len(lines) <= MaxLines
  PROVE  /\ Wire \in Seq(Deltas \cup {NL}) /\ Len(Wire) = 2 * Len(lines)
         /\ \A i \in 1 .. Len(Wire) :
              Wire[i] = IF i % 2 = 1 THEN (i + 1) \div 2 ELSE NL
<1>1. Len(lines) \in Nat
  OBVIOUS
<1>2. \A i \in 1 .. 2 * Len(lines) : (i + 1) \div 2 \in 1 .. MaxLines
  BY <1>1, StreamAssumption
<1> QED BY <1>1, <1>2 DEF Wire, Deltas, NL

(* What is shown of a buffer is in it.                                     *)
LEMMA CleanedIn ==
  ASSUME NEW b \in Seq(Deltas)
  PROVE  Cleaned(b) \subseteq Deltas
BY DEF Cleaned

LEMMA EventTypes ==
  /\ \A e \in Events : e.tag = "Delta" => e.line \in Deltas /\ e = Delta(e.line)
  /\ \A e \in Events : e.tag # "Delta" => e \in {Final("Done"), Final("Error")}
  /\ \A i \in Deltas : Delta(i).tag = "Delta" /\ Delta(i).line = i
  /\ Final("Done").tag = "Done" /\ Final("Error").tag = "Error"
  /\ None \notin Events
<1>1. \A i \in Deltas : Delta(i).tag = "Delta" /\ Delta(i).line = i
  BY DEF Delta
<1>2. \A t : Final(t).tag = t
  BY DEF Final
<1>3. \A e \in Events : (\E i \in Deltas : e = Delta(i)) \/ e \in {Final("Done"), Final("Error")}
  BY DEF Events
<1>4. None.tag = "none"
  BY DEF None, Final
<1>5. Final("Done").tag = "Done" /\ Final("Error").tag = "Error"
  BY <1>2
<1>6. ASSUME NEW e \in Events, e.tag = "Delta" PROVE e.line \in Deltas /\ e = Delta(e.line)
  BY <1>1, <1>3, <1>5, <1>6
<1>7. ASSUME NEW e \in Events, e.tag # "Delta" PROVE e \in {Final("Done"), Final("Error")}
  BY <1>1, <1>3, <1>7
<1>8. None \notin Events
  BY <1>1, <1>3, <1>4, <1>5
<1> QED BY <1>1, <1>5, <1>6, <1>7, <1>8

LEMMA InitType == Init => TypeOK
<1> SUFFICES ASSUME Init PROVE TypeOK
  OBVIOUS
<1>1. lines \in Seq(Kinds) /\ Len(lines) <= MaxLines
  <2>1. PICK n \in 0 .. MaxLines : lines \in [1 .. n -> Kinds]
    BY DEF Init
  <2> QED BY <2>1, StreamAssumption
<1>2. got \in 0 .. Len(Wire)
  BY <1>1, WireBytes DEF Init
<1>3. event \in Events \cup {None} /\ recorded \in Seq(Deltas) \cup {NoTurn}
  BY DEF Init
<1>4. /\ buf = <<>> /\ consumed = 0 /\ channel = <<>> /\ full = <<>> /\ buffer = <<>>
      /\ flushed = <<>> /\ cuts = {} /\ shown = {} /\ replies = 0
  BY DEF Init
<1>5. /\ ppc \in {"recv", "parse", "send", "record", "last", "abort", "end"}
      /\ hpc \in {"recv", "done"} /\ sentAny \in BOOLEAN
  BY DEF Init
<1> QED BY <1>1, <1>2, <1>3, <1>4, <1>5, StreamAssumption DEF TypeOK

-----------------------------------------------------------------------------
(* What is unread is the wire from the first byte of the next line.        *)
LEMMA UnreadBytes ==
  ASSUME TypeOK, BufferOnWire
  PROVE  /\ Parsed \in Nat /\ Drained + consumed = 2 * Parsed
         /\ Unread \in Seq(Deltas \cup {NL}) /\ Len(Unread) = Len(buf) - consumed
         /\ 2 * Parsed + Len(Unread) = got /\ got <= 2 * Len(lines)
         /\ Len(lines) \in Nat
         /\ \A i \in 1 .. Len(Unread) : Unread[i] = Wire[2 * Parsed + i]
<1> USE DEF TypeOK
<1>1. /\ Len(buf) \in Nat /\ got \in Nat /\ consumed \in 0 .. Len(buf) /\ Len(lines) \in Nat
      /\ got <= 2 * Len(lines) /\ Len(buf) <= got
  BY WireBytes DEF BufferOnWire
<1>2. /\ Drained = got - Len(buf) /\ (Drained + consumed) % 2 = 0
      /\ Parsed = (Drained + consumed) \div 2
  BY DEF BufferOnWire, Drained, Parsed
<1>3. Drained \in Nat /\ Parsed \in Nat /\ Drained + consumed = 2 * Parsed
  <2>1. got - Len(buf) \in Nat
    BY <1>1
  <2>2. ASSUME NEW n \in Nat, n % 2 = 0 PROVE n \div 2 \in Nat /\ n = 2 * (n \div 2)
    BY <2>2
  <2>3. Drained \in Nat /\ Drained + consumed \in Nat
    BY <1>1, <1>2, <2>1
  <2> QED BY <1>2, <2>2, <2>3
<1>4. \A i \in consumed + 1 .. Len(buf) : buf[i] \in Deltas \cup {NL}
  BY <1>1
<1>5. /\ Unread \in Seq(Deltas \cup {NL})
      /\ Len(Unread) = IF consumed + 1 <= Len(buf) THEN Len(buf) - (consumed + 1) + 1 ELSE 0
      /\ \A i \in 1 .. Len(buf) - (consumed + 1) + 1 : Unread[i] = buf[consumed + 1 + i - 1]
  <2> DEFINE B == Deltas \cup {NL}
  <2>1. consumed + 1 \in Int /\ Len(buf) \in Int /\ \A i \in consumed + 1 .. Len(buf) : buf[i] \in B
    BY <1>1, <1>4
  <2> HIDE DEF B
  <2>2. /\ SubSeq(buf, consumed + 1, Len(buf)) \in Seq(B)
        /\ Len(SubSeq(buf, consumed + 1, Len(buf))) =
             IF consumed + 1 <= Len(buf) THEN Len(buf) - (consumed + 1) + 1 ELSE 0
        /\ \A i \in 1 .. Len(buf) - (consumed + 1) + 1 :
             SubSeq(buf, consumed + 1, Len(buf))[i] = buf[consumed + 1 + i - 1]
    BY <2>1, SubSeqProperties
  <2> QED BY <2>2, Zenon DEF B, Unread
<1>6. Len(Unread) = Len(buf) - consumed
  <2>1. \A n \in Nat : \A k \in 0 .. n :
          n - k = (IF k + 1 <= n THEN n - (k + 1) + 1 ELSE 0)
    OBVIOUS
  <2> QED BY <1>1, <1>5, <2>1
<1>7. ASSUME NEW i \in 1 .. Len(Unread) PROVE Unread[i] = Wire[2 * Parsed + i]
  <2>1. Unread[i] = buf[consumed + i] /\ consumed + i \in 1 .. Len(buf)
    BY <1>1, <1>5, <1>6
  <2>2. buf[consumed + i] = Wire[Drained + (consumed + i)]
    BY <2>1 DEF BufferOnWire
  <2>3. Drained + (consumed + i) = 2 * Parsed + i
    <3>1. i \in Nat /\ consumed \in Nat
      BY <1>1, <1>6
    <3> QED BY <1>3, <3>1
  <2> QED BY <2>1, <2>2, <2>3
<1>8. 2 * Parsed + Len(Unread) = got
  BY <1>1, <1>2, <1>3, <1>6
<1> QED BY <1>1, <1>3, <1>5, <1>6, <1>7, <1>8

(* It begins with the number of the next line, whose end comes second.     *)
LEMMA NextLine ==
  ASSUME TypeOK, BufferOnWire
  PROVE  /\ Contains(Unread, NL) <=> Len(Unread) >= 2
         /\ Len(Unread) >= 1 => Unread[1] = Parsed + 1 /\ Parsed + 1 \in 1 .. Len(lines)
         /\ Len(Unread) >= 2 => Unread[2] = NL
<1>1. /\ Parsed \in Nat /\ Len(Unread) \in Nat /\ 2 * Parsed + Len(Unread) <= 2 * Len(lines)
      /\ Len(lines) \in Nat
      /\ \A i \in 1 .. Len(Unread) : Unread[i] = Wire[2 * Parsed + i]
  BY UnreadBytes
<1>2. \A i \in 1 .. 2 * Len(lines) : Wire[i] = IF i % 2 = 1 THEN (i + 1) \div 2 ELSE 0
  BY WireBytes DEF TypeOK, NL
<1>3. ASSUME Len(Unread) >= 1
      PROVE  Unread[1] = Parsed + 1 /\ Parsed + 1 \in 1 .. Len(lines)
  <2>1. Unread[1] = Wire[2 * Parsed + 1] /\ 2 * Parsed + 1 \in 1 .. 2 * Len(lines)
    BY <1>1, <1>3
  <2>2. (2 * Parsed + 1) % 2 = 1 /\ ((2 * Parsed + 1) + 1) \div 2 = Parsed + 1
    BY <1>1
  <2>3. Parsed + 1 \in 1 .. Len(lines)
    BY <1>1, <2>1
  <2> QED BY <1>2, <2>1, <2>2, <2>3
<1>4. ASSUME Len(Unread) >= 2 PROVE Unread[2] = 0
  <2>1. Unread[2] = Wire[2 * Parsed + 2] /\ 2 * Parsed + 2 \in 1 .. 2 * Len(lines)
    BY <1>1, <1>4
  <2>2. (2 * Parsed + 2) % 2 # 1
    BY <1>1
  <2> QED BY <1>2, <2>1, <2>2
<1>5. Contains(Unread, NL) <=> Len(Unread) >= 2
  <2>1. ASSUME Contains(Unread, NL) PROVE Len(Unread) >= 2
    <3>1. PICK i \in 1 .. Len(Unread) : Unread[i] = 0
      BY <2>1 DEF Contains, NL
    <3>2. i # 1
      BY <1>1, <1>3, <3>1
    <3> QED BY <1>1, <3>1, <3>2
  <2>2. ASSUME Len(Unread) >= 2 PROVE Contains(Unread, NL)
    BY <1>1, <1>4, <2>2 DEF Contains, NL
  <2> QED BY <2>1, <2>2
<1> QED BY <1>3, <1>4, <1>5 DEF NL

(* One step of the loop over the lines in the buffer.                      *)
LEMMA ParsedLine ==
  ASSUME TypeOK, BufferOnWire, ParseLine
  PROVE  /\ Len(Unread) >= 2 /\ consumed' = consumed + 2
         /\ Parsed + 1 \in 1 .. Len(lines)
         /\ \/ /\ lines[Parsed + 1] = "done"
               /\ full' = full /\ event' = Final("Done") /\ ppc' = "record"
            \/ /\ IsDelta(Parsed + 1)
               /\ full' = Append(full, Parsed + 1) /\ event' = Delta(Parsed + 1) /\ ppc' = "send"
            \/ /\ ~IsDelta(Parsed + 1)
               /\ UNCHANGED <<full, event, ppc>>
         /\ UNCHANGED <<lines, got, buf, recorded, channel, handler>>
<1> DEFINE FirstEnd(p) == Unread[p] = NL /\ ~Contains(SubSeq(Unread, 1, p - 1), NL)
           pos == CHOOSE p \in 1 .. Len(Unread) : FirstEnd(p)
<1>1. Len(Unread) >= 2 /\ Len(Unread) \in Nat /\ Unread \in Seq(Deltas \cup {NL})
  BY NextLine, UnreadBytes DEF ParseLine
<1>2. Unread[1] = Parsed + 1 /\ Parsed + 1 \in 1 .. Len(lines) /\ Unread[2] = NL /\ Unread[1] # NL
  BY <1>1, NextLine, UnreadBytes DEF NL
<1>3. ASSUME NEW p \in 1 .. Len(Unread) PROVE FirstEnd(p) <=> p = 2
  <2>0. /\ Len(SubSeq(Unread, 1, p - 1)) = p - 1
        /\ \A i \in 1 .. p - 1 : SubSeq(Unread, 1, p - 1)[i] = Unread[i]
    <3>1. \A i \in 1 .. p - 1 : Unread[i] \in Deltas \cup {NL}
      BY <1>1
    <3>2. p - 1 \in Int /\ 1 \in Int /\ p \in Nat /\ p >= 1
      BY <1>1
    <3>3. /\ Len(SubSeq(Unread, 1, p - 1)) = IF 1 <= p - 1 THEN p - 1 - 1 + 1 ELSE 0
          /\ \A i \in 1 .. p - 1 - 1 + 1 : SubSeq(Unread, 1, p - 1)[i] = Unread[1 + i - 1]
      BY <3>1, <3>2, SubSeqProperties
    <3> QED BY <3>2, <3>3
  <2>1. CASE p = 1
    BY <1>2, <2>1
  <2>2. CASE p = 2
    BY <1>2, <2>0, <2>2 DEF Contains
  <2>3. CASE p > 2
    <3>1. 2 \in 1 .. p - 1
      BY <1>1, <2>3
    <3> QED BY <1>2, <2>0, <2>3, <3>1 DEF Contains
  <2> QED BY <1>1, <2>1, <2>2, <2>3
<1>4. pos = 2
  <2> HIDE DEF FirstEnd
  <2>1. 2 \in 1 .. Len(Unread)
    BY <1>1
  <2> QED BY <1>3, <2>1
<1>5. /\ consumed' = consumed + pos
      /\ CASE pos > 1 /\ lines[Unread[1]] = "done" -> Close(Final("Done")) /\ UNCHANGED full
           [] pos > 1 /\ IsDelta(Unread[1]) ->
                /\ full' = Append(full, Unread[1])
                /\ event' = Delta(Unread[1])
                /\ ppc' = "send"
           [] OTHER -> UNCHANGED <<full, event, ppc>>
      /\ UNCHANGED <<lines, got, buf, recorded, channel, handler>>
  BY DEF ParseLine
<1> HIDE DEF pos
<1>6. CASE lines[Parsed + 1] = "done"
  <2>1. Close(Final("Done")) /\ UNCHANGED full
    BY <1>2, <1>4, <1>5, <1>6 DEF IsDelta
  <2> QED BY <1>1, <1>2, <1>4, <1>5, <1>6, <2>1 DEF Close, Closing
<1>7. CASE IsDelta(Parsed + 1)
  BY <1>1, <1>2, <1>4, <1>5, <1>7 DEF IsDelta
<1>8. CASE lines[Parsed + 1] # "done" /\ ~IsDelta(Parsed + 1)
  BY <1>1, <1>2, <1>4, <1>5, <1>8
<1> QED BY <1>6, <1>7, <1>8

-----------------------------------------------------------------------------
LEMMA ReceivedBytes ==
  ASSUME TypeOK, BufferOnWire, NEW n \in 1 .. 2 * MaxLines, Receive(n)
  PROVE  /\ got' = got + n /\ got' \in 0 .. Len(Wire) /\ Wire' = Wire
         /\ buf' \in Seq(Deltas \cup {NL}) /\ Len(buf') = Len(buf) + n
         /\ \A i \in 1 .. Len(buf') : buf'[i] = Wire[Drained + i]
<1> USE DEF TypeOK
<1>1. /\ got + n <= Len(Wire) /\ got' = got + n /\ Wire' = Wire
      /\ buf' = buf \o SubSeq(Wire, got + 1, got + n)
  BY DEF Receive, Wire
<1>2. /\ got \in Nat /\ n \in Nat /\ n >= 1 /\ Len(Wire) \in Nat /\ Len(buf) \in Nat /\ Len(buf) <= got
      /\ Wire \in Seq(Deltas \cup {NL})
  BY WireBytes, StreamAssumption DEF BufferOnWire
<1> DEFINE chunk == SubSeq(Wire, got + 1, got + n)
<1>3. /\ chunk \in Seq(Deltas \cup {NL}) /\ Len(chunk) = n
      /\ \A i \in 1 .. n : chunk[i] = Wire[got + i]
  <2>1. \A i \in got + 1 .. got + n : Wire[i] \in Deltas \cup {NL}
    BY <1>1, <1>2
  <2>2. /\ chunk \in Seq(Deltas \cup {NL})
        /\ Len(chunk) = IF got + 1 <= got + n THEN got + n - (got + 1) + 1 ELSE 0
        /\ \A i \in 1 .. got + n - (got + 1) + 1 : chunk[i] = Wire[got + 1 + i - 1]
    <3> DEFINE B == Deltas \cup {NL}
    <3>1. got + 1 \in Int /\ got + n \in Int /\ \A i \in got + 1 .. got + n : Wire[i] \in B
      BY <1>2, <2>1
    <3> HIDE DEF B
    <3>2. /\ SubSeq(Wire, got + 1, got + n) \in Seq(B)
          /\ Len(SubSeq(Wire, got + 1, got + n)) = IF got + 1 <= got + n THEN got + n - (got + 1) + 1 ELSE 0
          /\ \A i \in 1 .. got + n - (got + 1) + 1 : SubSeq(Wire, got + 1, got + n)[i] = Wire[got + 1 + i - 1]
      BY <3>1, SubSeqProperties
    <3> QED BY <3>2, Zenon DEF B
  <2> QED BY <1>2, <2>2
<1> HIDE DEF chunk
<1>4. buf' = buf \o chunk
  BY <1>1 DEF chunk
<1>5. /\ buf' \in Seq(Deltas \cup {NL}) /\ Len(buf') = Len(buf) + n
      /\ \A i \in 1 .. Len(buf) + n : buf'[i] = IF i <= Len(buf) THEN buf[i] ELSE chunk[i - Len(buf)]
  BY <1>3, <1>4, ConcatProperties
<1>6. ASSUME NEW i \in 1 .. Len(buf) + n PROVE buf'[i] = Wire[Drained + i]
  <2>1. CASE i <= Len(buf)
    <3>1. buf'[i] = buf[i] /\ i \in 1 .. Len(buf)
      BY <1>2, <1>5, <2>1
    <3> QED BY <3>1 DEF BufferOnWire
  <2>2. CASE ~(i <= Len(buf))
    <3>1. buf'[i] = chunk[i - Len(buf)] /\ i - Len(buf) \in 1 .. n
      BY <1>2, <1>5, <2>2
    <3>2. got + (i - Len(buf)) = Drained + i
      BY <1>2 DEF Drained
    <3> QED BY <1>3, <3>1, <3>2
  <2> QED BY <2>1, <2>2
<1>7. got' \in 0 .. Len(Wire)
  BY <1>1, <1>2
<1> QED BY <1>1, <1>5, <1>6, <1>7

(* What the next chunk is appended to.                                     *)
LEMMA KeptBytes ==
  ASSUME TypeOK, BufferOnWire, NextChunk
  PROVE  /\ buf' \in Seq(Deltas \cup {NL}) /\ consumed' \in 0 .. Len(buf') /\ Len(buf') <= got
         /\ Len(buf') - consumed' <= 1
         /\ (got - Len(buf')) + consumed' = 2 * Parsed
         /\ \A i \in 1 .. Len(buf') : buf'[i] = Wire[got - Len(buf') + i]
<1> USE DEF TypeOK
<1>1. /\ Len(buf) \in Nat /\ got \in Nat /\ consumed \in 0 .. Len(buf) /\ Len(buf) <= got
      /\ Parsed \in Nat /\ Drained + consumed = 2 * Parsed /\ Drained = got - Len(buf)
      /\ Unread \in Seq(Deltas \cup {NL}) /\ Len(Unread) = Len(buf) - consumed
      /\ 2 * Parsed + Len(Unread) = got
      /\ \A i \in 1 .. Len(Unread) : Unread[i] = Wire[2 * Parsed + i]
  BY UnreadBytes, WireBytes DEF BufferOnWire, Drained
<1>2. Len(Unread) <= 1
  BY <1>1, NextLine DEF NextChunk
<1>3. CASE buf' = Unread /\ consumed' = 0
  <2>1. got - Len(Unread) = 2 * Parsed /\ Len(Unread) <= got /\ Len(Unread) \in Nat
    <3>1. \A g, p, l \in Nat : 2 * p + l = g => g - l = 2 * p /\ l <= g
      OBVIOUS
    <3>2. Len(Unread) \in Nat
      BY <1>1
    <3> QED BY <1>1, <3>1, <3>2
  <2>2. \A i \in 1 .. Len(Unread) : Unread[i] = Wire[got - Len(Unread) + i]
    BY <1>1, <2>1
  <2>3. consumed' \in 0 .. Len(buf') /\ Len(buf') - consumed' <= 1
    BY <1>2, <1>3, <2>1
  <2>4. got - Len(buf') + consumed' = 2 * Parsed
    <3>1. (got - Len(Unread)) + 0 = 2 * Parsed
      BY <1>1, <2>1
    <3> QED BY <1>3, <3>1
  <2> QED BY <1>1, <1>3, <2>1, <2>2, <2>3, <2>4
<1>4. CASE UNCHANGED <<buf, consumed>>
  BY <1>1, <1>2, <1>4 DEF BufferOnWire
<1> QED BY <1>3, <1>4 DEF NextChunk, BufAfterDrain, ConsumedAfterDrain

LEMMA FlushTypes ==
  ASSUME TypeOK, NEW b \in Seq(Deltas), Flush(b)
  PROVE  /\ flushed' \in Seq(Deltas) /\ Len(flushed') = Len(flushed) + Len(b)
         /\ shown' \subseteq Deltas /\ sentAny' \in BOOLEAN
<1>1. flushed' = flushed \o b /\ shown' = shown \cup Cleaned(b)
  BY DEF Flush
<1>2. sentAny' \in BOOLEAN
  BY DEF Flush
<1>3. flushed' \in Seq(Deltas) /\ Len(flushed') = Len(flushed) + Len(b)
  BY <1>1, ConcatProperties DEF TypeOK
<1> QED BY <1>1, <1>2, <1>3, CleanedIn DEF TypeOK

(* The handler takes a delta, and flushes or not.                          *)
LEMMA TakenDelta ==
  ASSUME TypeOK, TakeDelta
  PROVE  /\ Head(channel).line \in Deltas /\ Head(channel) = Delta(Head(channel).line)
         /\ channel' = Tail(channel) /\ Tail(channel) \in Seq(Events)
         /\ Len(Tail(channel)) = Len(channel) - 1 /\ Len(channel) >= 1
         /\ Append(buffer, Head(channel).line) \in Seq(Deltas)
         /\ UNCHANGED <<processor, hpc>>
<1>1. /\ channel \in Seq(Events) /\ channel # <<>> /\ Head(channel).tag = "Delta"
      /\ buffer \in Seq(Deltas) /\ channel' = Tail(channel) /\ UNCHANGED <<processor, hpc>>
  BY DEF TypeOK, TakeDelta
<1>2. /\ Head(channel) \in Events /\ Tail(channel) \in Seq(Events)
      /\ Len(Tail(channel)) = Len(channel) - 1 /\ Len(channel) >= 1
  BY <1>1
<1>3. Head(channel).line \in Deltas /\ Head(channel) = Delta(Head(channel).line)
  BY <1>1, <1>2, EventTypes
<1> QED BY <1>1, <1>2, <1>3

(* The turn is recorded, then the last event is sent.                      *)
LEMMA ClosingOrder == ClosingAfter("record") = "last" /\ ClosingAfter("last") = "end"
<1>1. (CHOOSE i \in 1 .. 2 : Closing[i] = "record") = 1
  BY DEF Closing
<1>2. (CHOOSE i \in 1 .. 2 : Closing[i] = "last") = 2
  BY DEF Closing
<1> QED BY <1>1, <1>2 DEF ClosingAfter, Closing

LEMMA StepType ==
  ASSUME TypeOK, BufferOnWire, EventInTurn, [Next]_vars
  PROVE  TypeOK'
<1> USE DEF TypeOK
<1>0. Wire \in Seq(Deltas \cup {NL}) /\ Len(Wire) \in Nat
  BY WireBytes
<1>1. ASSUME NEW n \in 1 .. 2 * MaxLines, Receive(n) PROVE TypeOK'
  <2>1. /\ got' \in 0 .. Len(Wire') /\ buf' \in Seq(Deltas \cup {NL}) /\ consumed' \in 0 .. Len(buf')
    <3>1. consumed' = consumed /\ Len(buf) \in Nat /\ n \in Nat
      BY <1>1, StreamAssumption DEF Receive
    <3>2. /\ got' \in 0 .. Len(Wire) /\ Wire' = Wire
          /\ buf' \in Seq(Deltas \cup {NL}) /\ Len(buf') = Len(buf) + n
      BY <1>1, ReceivedBytes
    <3> QED BY <3>1, <3>2
  <2> QED BY <1>1, <2>1 DEF Receive, handler, Deltas
<1>2. CASE Break
  BY <1>2, EventTypes DEF Break, handler, Wire, Deltas, Events
<1>3. CASE End
  BY <1>3, EventTypes DEF End, Close, Closing, handler, Wire, Deltas, Events
<1>4. CASE ParseLine
  <2>1. /\ Parsed + 1 \in Deltas /\ consumed' \in 0 .. Len(buf')
    <3>1. /\ Len(Unread) >= 2 /\ consumed' = consumed + 2 /\ buf' = buf
          /\ Parsed + 1 \in 1 .. Len(lines)
      BY <1>4, ParsedLine
    <3>2. Len(Unread) = Len(buf) - consumed /\ Len(buf) \in Nat /\ Len(lines) \in Nat
      BY UnreadBytes
    <3> QED BY <3>1, <3>2, StreamAssumption DEF Deltas
  <2>2. /\ full' \in Seq(Deltas) /\ event' \in Events \cup {None}
        /\ ppc' \in {"parse", "send", "record"}
    <3>1. Delta(Parsed + 1) \in Events /\ Final("Done") \in Events
      BY <2>1 DEF Events
    <3>2. Append(full, Parsed + 1) \in Seq(Deltas)
      BY <2>1
    <3>3. ppc = "parse"
      BY <1>4 DEF ParseLine
    <3> QED BY <1>4, <3>1, <3>2, <3>3, ParsedLine
  <2>3. UNCHANGED <<lines, got, buf, recorded, channel, handler>>
    BY <1>4, ParsedLine
  <2> QED BY <2>1, <2>2, <2>3 DEF handler, Wire, Deltas, Events
<1>5. CASE NextChunk
  <2>1. buf' \in Seq(Deltas \cup {NL}) /\ consumed' \in 0 .. Len(buf')
    BY <1>5, KeptBytes
  <2> QED BY <1>5, <2>1 DEF NextChunk, handler, Wire, Deltas, Events
<1>6. CASE SendDelta
  <2>1. channel' \in Seq(Events) /\ Len(channel') <= Capacity
    <3>1. event \in Events
      BY <1>6 DEF SendDelta, EventInTurn, Events
    <3> QED BY <1>6, <3>1, StreamAssumption DEF SendDelta
  <2> QED BY <1>6, <2>1 DEF SendDelta, handler, Wire, Deltas, Events
<1>7. CASE Record
  BY <1>7, ClosingOrder DEF Record, handler, Wire, Deltas, Events
<1>8. CASE SendLast
  <2>1. channel' \in Seq(Events) /\ Len(channel') <= Capacity
    <3>1. event \in Events
      BY <1>8 DEF SendLast, EventInTurn, Events
    <3> QED BY <1>8, <3>1, StreamAssumption DEF SendLast
  <2>2. ppc' = "end"
    BY <1>8, ClosingOrder DEF SendLast
  <2> QED BY <1>8, <2>1, <2>2 DEF SendLast, handler, Wire, Deltas, Events
<1>9. CASE TakeDelta
  <2> DEFINE b == Append(buffer, Head(channel).line)
  <2>1. /\ channel' \in Seq(Events) /\ Len(channel') <= Capacity /\ b \in Seq(Deltas)
        /\ UNCHANGED <<processor, hpc>>
    <3>1. /\ channel' = Tail(channel) /\ Tail(channel) \in Seq(Events)
          /\ Len(Tail(channel)) = Len(channel) - 1 /\ b \in Seq(Deltas)
          /\ UNCHANGED <<processor, hpc>>
      BY <1>9, TakenDelta
    <3>2. Len(channel) \in Nat /\ Len(channel) <= Capacity
      OBVIOUS
    <3> QED BY <3>1, <3>2, StreamAssumption
  <2>2. /\ buffer' \in Seq(Deltas) /\ flushed' \in Seq(Deltas) /\ sentAny' \in BOOLEAN
        /\ shown' \subseteq Deltas /\ replies' \in Nat /\ cuts' \subseteq 0 .. Len(flushed')
    <3>1. CASE BufferFull(b)
      <4>1. /\ Flush(b) /\ cuts' = cuts \cup {Len(flushed \o b)} /\ buffer' = <<>>
            /\ replies' = IF Visible(b) THEN replies + 1 ELSE replies
        BY <1>9, <3>1 DEF TakeDelta, BufferAfterFlush
      <4>2. /\ flushed' \in Seq(Deltas) /\ Len(flushed') = Len(flushed) + Len(b)
            /\ shown' \subseteq Deltas /\ sentAny' \in BOOLEAN
        BY <2>1, <4>1, FlushTypes
      <4>3. cuts' \subseteq 0 .. Len(flushed')
        <5>1. flushed' = flushed \o b
          BY <4>1 DEF Flush
        <5>2. Len(flushed) \in Nat /\ Len(b) \in Nat
          BY <2>1
        <5>3. cuts' = cuts \cup {Len(flushed')}
          BY <4>1, <5>1
        <5>4. Len(flushed') \in Nat /\ Len(flushed) <= Len(flushed')
          BY <4>2, <5>2
        <5>5. \A k \in cuts : k \in 0 .. Len(flushed')
          BY <5>2, <5>4
        <5>6. Len(flushed') \in 0 .. Len(flushed')
          BY <5>4
        <5> QED BY <5>3, <5>5, <5>6
      <4> QED BY <4>1, <4>2, <4>3
    <3>2. CASE ~BufferFull(b)
      BY <1>9, <2>1, <3>2 DEF TakeDelta
    <3> QED BY <3>1, <3>2
  <2> QED BY <2>1, <2>2 DEF processor, Wire, Deltas, Events
<1>10. CASE TakeLast
  <2>1. Flush(buffer) /\ channel' = Tail(channel) /\ buffer' = <<>> /\ hpc' = "done"
    BY <1>10 DEF TakeLast, Remainder
  <2>2. channel' \in Seq(Events) /\ Len(channel') <= Capacity
    <3>1. channel # <<>>
      BY <1>10 DEF TakeLast
    <3> QED BY <2>1, <3>1, StreamAssumption
  <2>3. /\ flushed' \in Seq(Deltas) /\ Len(flushed') = Len(flushed) + Len(buffer)
        /\ shown' \subseteq Deltas /\ sentAny' \in BOOLEAN
    BY <2>1, FlushTypes
  <2>4. replies' \in Nat /\ UNCHANGED <<processor, cuts>>
    BY <1>10 DEF TakeLast
  <2>5. cuts' \subseteq 0 .. Len(flushed')
    <3>1. Len(flushed) \in Nat /\ Len(buffer) \in Nat
      OBVIOUS
    <3> QED BY <2>3, <2>4, <3>1
  <2> QED BY <2>1, <2>2, <2>3, <2>4, <2>5 DEF processor, Wire, Deltas, Events
<1>11. CASE Terminated \/ UNCHANGED vars
  BY <1>11 DEF Terminated, vars, processor, handler, Wire, Deltas, Events
<1> QED BY <1>1, <1>2, <1>3, <1>4, <1>5, <1>6, <1>7, <1>8, <1>9, <1>10, <1>11
        DEF Next, Incoming, Processing, Handling

-----------------------------------------------------------------------------
(* All other steps leave what has been received and parsed as it is.       *)
LEMMA ReadingSteps ==
  ASSUME [Next]_vars
  PROVE  \/ \E n \in 1 .. 2 * MaxLines : Receive(n)
         \/ ParseLine
         \/ NextChunk
         \/ /\ UNCHANGED <<lines, got, buf, consumed, full>>
            /\ ppc' = "recv" => ppc = "recv"
<1>1. CASE Break \/ End \/ SendDelta \/ Record \/ SendLast
  BY <1>1, ClosingOrder DEF Break, End, Close, Closing, SendDelta, Record, SendLast
<1>2. CASE Handling \/ Terminated \/ UNCHANGED vars
  BY <1>2 DEF Handling, TakeDelta, TakeLast, Terminated, vars, processor
<1> QED BY <1>1, <1>2 DEF Next, Incoming, Processing

(* What a step of the reader makes of the lines parsed.                    *)
LEMMA StepParsed ==
  ASSUME TypeOK, BufferOnWire, [Next]_vars
  PROVE  /\ BufferOnWire' /\ lines' = lines
         /\ ParseLine => Parsed' = Parsed + 1
         /\ ~ParseLine => Parsed' = Parsed /\ full' = full
<1>0. /\ Parsed \in Nat /\ Drained + consumed = 2 * Parsed /\ Drained = got - Len(buf)
      /\ Len(buf) \in Nat /\ got \in Nat /\ consumed \in 0 .. Len(buf) /\ Len(buf) <= got
      /\ Drained \in Nat
  BY UnreadBytes, WireBytes DEF BufferOnWire, Drained, TypeOK
<1>1. ASSUME NEW k \in Nat PROVE (2 * k) % 2 = 0 /\ (2 * k) \div 2 = k
  OBVIOUS
<1>2. ASSUME NEW n \in 1 .. 2 * MaxLines, Receive(n)
      PROVE  BufferOnWire' /\ lines' = lines /\ Parsed' = Parsed /\ full' = full
  <2>1. /\ got' = got + n /\ Wire' = Wire /\ Len(buf') = Len(buf) + n
        /\ \A i \in 1 .. Len(buf') : buf'[i] = Wire[Drained + i]
    BY <1>2, ReceivedBytes
  <2>2. consumed' = consumed /\ ppc' = "parse" /\ lines' = lines /\ full' = full /\ n \in Nat
    BY <1>2, StreamAssumption DEF Receive
  <2>3. Drained' = Drained /\ Len(buf') <= got'
    BY <1>0, <2>1, <2>2 DEF Drained
  <2>4. Drained' + consumed' = 2 * Parsed
    BY <1>0, <2>2, <2>3
  <2> QED BY <1>0, <1>1, <2>1, <2>2, <2>3, <2>4 DEF BufferOnWire, Parsed
<1>3. ASSUME ParseLine PROVE BufferOnWire' /\ lines' = lines /\ Parsed' = Parsed + 1
  <2>1. /\ consumed' = consumed + 2 /\ UNCHANGED <<lines, got, buf>> /\ ppc' # "recv"
    BY <1>3, ParsedLine DEF ParseLine
  <2>2. Drained' = Drained /\ Wire' = Wire
    BY <2>1 DEF Drained, Wire
  <2>3. Drained' + consumed' = 2 * (Parsed + 1) /\ Parsed + 1 \in Nat
    BY <1>0, <2>1, <2>2
  <2>4. Parsed' = Parsed + 1 /\ (Drained' + consumed') % 2 = 0
    BY <1>1, <2>3 DEF Parsed
  <2> QED BY <1>0, <2>1, <2>2, <2>4 DEF BufferOnWire
<1>4. ASSUME NextChunk PROVE BufferOnWire' /\ lines' = lines /\ Parsed' = Parsed /\ full' = full
  <2>1. /\ Len(buf') <= got /\ Len(buf') - consumed' <= 1
        /\ (got - Len(buf')) + consumed' = 2 * Parsed
        /\ \A i \in 1 .. Len(buf') : buf'[i] = Wire[got - Len(buf') + i]
    BY <1>4, KeptBytes
  <2>2. UNCHANGED <<lines, got, full>>
    BY <1>4 DEF NextChunk
  <2>3. Drained' = got - Len(buf') /\ Wire' = Wire
    BY <2>2 DEF Drained, Wire
  <2>4. Parsed' = Parsed /\ (Drained' + consumed') % 2 = 0
    BY <1>0, <1>1, <2>1, <2>3 DEF Parsed
  <2> QED BY <2>1, <2>2, <2>3, <2>4 DEF BufferOnWire
<1>5. ASSUME UNCHANGED <<lines, got, buf, consumed, full>>, ppc' = "recv" => ppc = "recv"
      PROVE  BufferOnWire' /\ Parsed' = Parsed
  BY <1>5 DEF BufferOnWire, Parsed, Drained, Wire
<1>6. ParseLine => ~NextChunk /\ ~(\E n \in 1 .. 2 * MaxLines : Receive(n))
  BY DEF ParseLine, NextChunk, Receive
<1>7. ParseLine => consumed' # consumed
  BY <1>0, ParsedLine
<1> QED BY <1>2, <1>3, <1>4, <1>5, <1>6, <1>7, ReadingSteps

LEMMA StepReply ==
  ASSUME TypeOK, BufferOnWire, ReplyOfParsed, [Next]_vars
  PROVE  ReplyOfParsed'
<1>0. Parsed \in Nat /\ full \in Seq(Deltas) /\ Len(full) \in Nat
  BY UnreadBytes DEF TypeOK
<1>1. CASE ~ParseLine
  BY <1>1, StepParsed DEF ReplyOfParsed, IsDelta, InOrder, ToSet
<1>2. CASE ParseLine
  <2>1. Parsed' = Parsed + 1 /\ lines' = lines
    BY <1>2, StepParsed
  <2>2. CASE full' = full /\ ~IsDelta(Parsed + 1)
    <3>1. {i \in 1 .. Parsed + 1 : IsDelta(i)} = {i \in 1 .. Parsed : IsDelta(i)}
      BY <1>0, <2>2
    <3> QED BY <2>1, <2>2, <3>1 DEF ReplyOfParsed, IsDelta, InOrder, ToSet
  <2>3. CASE full' = Append(full, Parsed + 1) /\ IsDelta(Parsed + 1)
    <3>1. {i \in 1 .. Parsed + 1 : IsDelta(i)} = {i \in 1 .. Parsed : IsDelta(i)} \cup {Parsed + 1}
      BY <1>0, <2>3
    <3>2. /\ DOMAIN full = 1 .. Len(full) /\ DOMAIN full' = 1 .. Len(full) + 1
          /\ \A i \in 1 .. Len(full) : full'[i] = full[i]
          /\ full'[Len(full) + 1] = Parsed + 1
      BY <1>0, <2>3
    <3>3. ToSet(full') = ToSet(full) \cup {Parsed + 1}
      BY <1>0, <3>2 DEF ToSet
    <3>4. \A i \in DOMAIN full : full[i] \in 1 .. Parsed
      BY DEF ReplyOfParsed, ToSet
    <3>5. InOrder(full')
      <4> SUFFICES ASSUME NEW i \in 1 .. Len(full) + 1, NEW j \in 1 .. Len(full) + 1, i < j
                   PROVE  full'[i] < full'[j]
        BY <3>2 DEF InOrder
      <4>1. CASE j <= Len(full)
        <5>1. i \in DOMAIN full /\ j \in DOMAIN full
          BY <1>0, <3>2, <4>1
        <5> QED BY <3>2, <5>1 DEF ReplyOfParsed, InOrder
      <4>2. CASE j = Len(full) + 1
        <5>1. i \in DOMAIN full
          BY <1>0, <3>2, <4>2
        <5> QED BY <1>0, <3>2, <3>4, <4>2, <5>1
      <4> QED BY <1>0, <4>1, <4>2
    <3>6. ToSet(full)' = ToSet(full')
      BY DEF ToSet
    <3> QED BY <2>1, <3>1, <3>3, <3>5 DEF ReplyOfParsed, IsDelta, InOrder, ToSet
  <2>4. lines[Parsed + 1] = "done" => ~IsDelta(Parsed + 1)
    BY DEF IsDelta
  <2> QED BY <1>2, <2>2, <2>3, <2>4, ParsedLine
<1> QED BY <1>1, <1>2

-----------------------------------------------------------------------------
(* The channel as the deltas in it, by what is done to it.                 *)
LEMMA ChannelLines ==
  ASSUME NEW c \in Seq(Events), \A i \in 1 .. Len(c) - 1 : c[i].tag = "Delta"
  PROVE  /\ Len(c) \in Nat
         /\ Closed(c) => Len(c) >= 1
         /\ LinesIn(c) \in Seq(Deltas)
         /\ Len(LinesIn(c)) = IF Closed(c) THEN Len(c) - 1 ELSE Len(c)
         /\ \A i \in 1 .. Len(LinesIn(c)) : LinesIn(c)[i] = c[i].line
<1>1. Len(c) \in Nat /\ DOMAIN c = 1 .. Len(c) /\ (c # <<>> <=> Len(c) >= 1)
  OBVIOUS
<1> DEFINE d == DeltasIn(c)
<1>2. /\ d \in Seq(Events) /\ Len(d) = IF Closed(c) THEN Len(c) - 1 ELSE Len(c)
      /\ \A i \in 1 .. Len(d) : d[i] = c[i] /\ c[i].tag = "Delta"
  <2>1. CASE Closed(c)
    <3>1. d = SubSeq(c, 1, Len(c) - 1) /\ Len(c) >= 1
      BY <1>1, <2>1 DEF DeltasIn, Front, Closed
    <3>2. /\ d \in Seq(Events)
          /\ Len(d) = IF 1 <= Len(c) - 1 THEN Len(c) - 1 - 1 + 1 ELSE 0
          /\ \A i \in 1 .. Len(c) - 1 - 1 + 1 : d[i] = c[1 + i - 1]
      <4>1. \A i \in 1 .. Len(c) - 1 : c[i] \in Events
        BY <1>1
      <4>2. Len(c) - 1 \in Int
        BY <1>1
      <4> QED BY <3>1, <4>1, <4>2, SubSeqProperties
    <3>3. Len(d) = Len(c) - 1
      BY <1>1, <3>1, <3>2
    <3>4. \A i \in 1 .. Len(d) : d[i] = c[i]
      BY <1>1, <3>1, <3>2, <3>3
    <3> QED BY <2>1, <3>2, <3>3, <3>4
  <2>2. CASE ~Closed(c)
    <3>1. d = c
      BY <2>2 DEF DeltasIn
    <3>2. \A i \in 1 .. Len(c) : c[i].tag = "Delta"
      <4>1. Len(c) >= 1 => c[Len(c)].tag = "Delta"
        BY <1>1, <2>2 DEF Closed, Last
      <4> QED BY <1>1, <4>1
    <3> QED BY <2>2, <3>1, <3>2
  <2> QED BY <2>1, <2>2
<1> HIDE DEF d
<1>3. DOMAIN d = 1 .. Len(d) /\ Len(d) \in Nat /\ \A i \in 1 .. Len(d) : d[i] \in Events
  BY <1>2
<1>4. \A i \in 1 .. Len(d) : d[i].line \in Deltas
  BY <1>2, <1>3, EventTypes
<1>5. LinesIn(c) = [i \in 1 .. Len(d) |-> d[i].line]
  BY <1>3 DEF LinesIn, d
<1> DEFINE l == LinesIn(c)
<1>6. l \in Seq(Deltas) /\ Len(l) = Len(d) /\ \A i \in 1 .. Len(d) : l[i] = d[i].line
  BY <1>3, <1>4, <1>5
<1> QED BY <1>1, <1>2, <1>6 DEF Closed

LEMMA DeltaSent ==
  ASSUME NEW c \in Seq(Events), \A i \in 1 .. Len(c) - 1 : c[i].tag = "Delta",
         ~Closed(c), NEW n \in Deltas
  PROVE  /\ ~Closed(Append(c, Delta(n)))
         /\ \A i \in 1 .. Len(Append(c, Delta(n))) - 1 : Append(c, Delta(n))[i].tag = "Delta"
         /\ LinesIn(Append(c, Delta(n))) = Append(LinesIn(c), n)
<1> DEFINE a == Append(c, Delta(n))
<1>1. Delta(n) \in Events /\ Delta(n).tag = "Delta" /\ Delta(n).line = n
  BY EventTypes DEF Events
<1>2. /\ a \in Seq(Events) /\ Len(a) = Len(c) + 1 /\ Len(c) \in Nat
      /\ \A i \in 1 .. Len(c) : a[i] = c[i]
      /\ a[Len(c) + 1] = Delta(n)
  BY <1>1
<1> HIDE DEF a
<1>3. ~Closed(a)
  BY <1>1, <1>2 DEF Closed, Last
<1>4. \A i \in 1 .. Len(c) : c[i].tag = "Delta"
  <2>1. Len(c) >= 1 => c[Len(c)].tag = "Delta"
    BY <1>2 DEF Closed, Last
  <2> QED BY <1>2, <2>1
<1>5. \A i \in 1 .. Len(a) - 1 : a[i].tag = "Delta"
  BY <1>2, <1>4
<1>6. LinesIn(a) = Append(LinesIn(c), n)
  <2> DEFINE l == LinesIn(c)
             k == LinesIn(a)
             m == Append(l, n)
  <2>1. l \in Seq(Deltas) /\ Len(l) = Len(c) /\ \A i \in 1 .. Len(l) : l[i] = c[i].line
    BY ChannelLines
  <2>2. k \in Seq(Deltas) /\ Len(k) = Len(a) /\ \A i \in 1 .. Len(k) : k[i] = a[i].line
    BY <1>2, <1>3, <1>5, ChannelLines
  <2> HIDE DEF l, k
  <2>3. /\ m \in Seq(Deltas) /\ Len(m) = Len(l) + 1
        /\ \A i \in 1 .. Len(l) : m[i] = l[i]
        /\ m[Len(l) + 1] = n
    BY <2>1
  <2> HIDE DEF m
  <2>4. \A i \in 1 .. Len(k) : k[i] = m[i]
    BY <1>1, <1>2, <2>1, <2>2, <2>3
  <2>5. k = m
    BY <1>2, <2>1, <2>2, <2>3, <2>4, SeqEqual
  <2> QED BY <2>5 DEF k, m, l
<1> QED BY <1>3, <1>5, <1>6 DEF a

LEMMA LastSent ==
  ASSUME NEW c \in Seq(Events), \A i \in 1 .. Len(c) - 1 : c[i].tag = "Delta",
         ~Closed(c), NEW e \in Events, e.tag # "Delta"
  PROVE  /\ Closed(Append(c, e))
         /\ \A i \in 1 .. Len(Append(c, e)) - 1 : Append(c, e)[i].tag = "Delta"
         /\ LinesIn(Append(c, e)) = LinesIn(c)
<1> DEFINE a == Append(c, e)
<1>2. /\ a \in Seq(Events) /\ Len(a) = Len(c) + 1 /\ Len(c) \in Nat
      /\ \A i \in 1 .. Len(c) : a[i] = c[i]
      /\ a[Len(c) + 1] = e
  OBVIOUS
<1> HIDE DEF a
<1>3. Closed(a)
  BY <1>2 DEF Closed, Last
<1>4. \A i \in 1 .. Len(c) : c[i].tag = "Delta"
  <2>1. Len(c) >= 1 => c[Len(c)].tag = "Delta"
    BY <1>2 DEF Closed, Last
  <2> QED BY <1>2, <2>1
<1>5. \A i \in 1 .. Len(a) - 1 : a[i].tag = "Delta"
  BY <1>2, <1>4
<1>6. LinesIn(a) = LinesIn(c)
  <2> DEFINE l == LinesIn(c)
             k == LinesIn(a)
  <2>1. l \in Seq(Deltas) /\ Len(l) = Len(c) /\ \A i \in 1 .. Len(l) : l[i] = c[i].line
    BY ChannelLines
  <2>2. k \in Seq(Deltas) /\ Len(k) = Len(a) - 1 /\ \A i \in 1 .. Len(k) : k[i] = a[i].line
    BY <1>2, <1>3, <1>5, ChannelLines
  <2> HIDE DEF l, k
  <2>3. Len(k) = Len(l) /\ \A i \in 1 .. Len(k) : k[i] = l[i]
    BY <1>2, <2>1, <2>2
  <2>4. k = l
    BY <2>1, <2>2, <2>3, SeqEqual
  <2> QED BY <2>4 DEF k, l
<1> QED BY <1>3, <1>5, <1>6 DEF a

LEMMA DeltaTaken ==
  ASSUME NEW c \in Seq(Events), \A i \in 1 .. Len(c) - 1 : c[i].tag = "Delta",
         c # <<>>, Head(c).tag = "Delta"
  PROVE  /\ Closed(Tail(c)) <=> Closed(c)
         /\ \A i \in 1 .. Len(Tail(c)) - 1 : Tail(c)[i].tag = "Delta"
         /\ LinesIn(c) = <<Head(c).line>> \o LinesIn(Tail(c))
         /\ LinesIn(Tail(c)) \in Seq(Deltas)
<1> DEFINE t == Tail(c)
<1>1. /\ t \in Seq(Events) /\ Len(t) = Len(c) - 1 /\ Len(c) \in Nat /\ Len(c) >= 1
      /\ \A i \in 1 .. Len(t) : t[i] = c[i + 1]
      /\ Head(c) = c[1] /\ c[1].tag = "Delta" /\ c[1] \in Events
  OBVIOUS
<1> HIDE DEF t
<1>2. Closed(t) <=> Closed(c)
  <2>1. CASE Len(c) = 1
    BY <1>1, <2>1 DEF Closed, Last
  <2>2. CASE Len(c) # 1
    <3>1. t # <<>> /\ t[Len(t)] = c[Len(c)]
      BY <1>1, <2>2
    <3> QED BY <3>1 DEF Closed, Last
  <2> QED BY <2>1, <2>2
<1>3. \A i \in 1 .. Len(t) - 1 : t[i].tag = "Delta"
  BY <1>1
<1>4. LinesIn(t) \in Seq(Deltas) /\ LinesIn(c) = <<c[1].line>> \o LinesIn(t)
  <2> DEFINE l == LinesIn(c)
             k == LinesIn(t)
             m == <<c[1].line>> \o k
  <2>1. /\ l \in Seq(Deltas) /\ Len(l) = (IF Closed(c) THEN Len(c) - 1 ELSE Len(c))
        /\ \A i \in 1 .. Len(l) : l[i] = c[i].line
    BY ChannelLines
  <2>2. /\ k \in Seq(Deltas) /\ Len(k) = (IF Closed(t) THEN Len(t) - 1 ELSE Len(t))
        /\ \A i \in 1 .. Len(k) : k[i] = t[i].line
    BY <1>1, <1>3, ChannelLines
  <2> HIDE DEF l, k
  <2>3. Closed(c) => Len(c) >= 2
    BY <1>1 DEF Closed, Last
  <2>4. Len(l) = Len(k) + 1 /\ Len(k) \in Nat
    BY <1>1, <1>2, <2>1, <2>2, <2>3
  <2>5. c[1].line \in Deltas
    BY <1>1, EventTypes
  <2>6. /\ m \in Seq(Deltas) /\ Len(m) = Len(k) + 1 /\ m[1] = c[1].line
        /\ \A i \in 1 .. Len(k) : m[i + 1] = k[i]
    BY <2>2, <2>4, <2>5
  <2> HIDE DEF m
  <2>7. ASSUME NEW i \in 1 .. Len(l) PROVE l[i] = m[i]
    <3>1. CASE i = 1
      BY <2>1, <2>6, <3>1
    <3>2. CASE i # 1
      <4>1. i - 1 \in 1 .. Len(k) /\ i - 1 \in 1 .. Len(t) /\ (i - 1) + 1 = i
        BY <1>1, <2>2, <2>4, <3>2
      <4>2. m[i] = k[i - 1] /\ k[i - 1] = t[i - 1].line /\ t[i - 1] = c[i]
        BY <1>1, <2>2, <2>6, <4>1
      <4> QED BY <2>1, <4>2
    <3> QED BY <3>1, <3>2
  <2>8. l = m
    BY <2>1, <2>4, <2>6, <2>7, SeqEqual
  <2> QED BY <2>2, <2>8 DEF l, m, k
<1> QED BY <1>1, <1>2, <1>3, <1>4 DEF t

LEMMA LastTaken ==
  ASSUME NEW c \in Seq(Events), \A i \in 1 .. Len(c) - 1 : c[i].tag = "Delta",
         c # <<>>, Head(c).tag # "Delta"
  PROVE  Closed(c) /\ LinesIn(c) = <<>> /\ Tail(c) = <<>> /\ LinesIn(<<>>) = <<>> /\ ~Closed(<<>>)
<1>1. Len(c) = 1 /\ c[1].tag # "Delta"
  <2>1. Len(c) \in Nat /\ Len(c) >= 1 /\ Head(c) = c[1]
    OBVIOUS
  <2>2. c[1].tag # "Delta"
    BY <2>1
  <2>3. ASSUME Len(c) >= 2 PROVE FALSE
    <3>1. 1 \in 1 .. Len(c) - 1
      BY <2>1, <2>3
    <3> QED BY <2>2, <3>1
  <2>4. Len(c) = 1
    <3>1. ~(Len(c) >= 2)
      BY <2>3
    <3>2. \A n \in Nat : n >= 1 /\ ~(n >= 2) => n = 1
      OBVIOUS
    <3> QED BY <2>1, <3>1, <3>2, Zenon
  <2> QED BY <2>2, <2>4
<1>2. Closed(c) /\ ~Closed(<<>>)
  BY <1>1 DEF Closed, Last
<1>3. Len(LinesIn(c)) = 0 /\ LinesIn(c) \in Seq(Deltas)
  <2>1. Len(LinesIn(c)) = Len(c) - 1 /\ LinesIn(c) \in Seq(Deltas)
    BY <1>2, ChannelLines
  <2> QED BY <1>1, <2>1
<1>4. LinesIn(<<>>) = <<>>
  <2>1. DeltasIn(<<>>) = <<>>
    BY <1>2 DEF DeltasIn
  <2> QED BY <2>1 DEF LinesIn
<1>5. Tail(c) = <<>>
  <2>1. Tail(c) \in Seq(Events) /\ Len(Tail(c)) = 0
    BY <1>1, HeadTailProperties
  <2> QED BY <2>1
<1>6. LinesIn(c) = <<>>
  BY <1>3
<1> QED BY <1>2, <1>4, <1>5, <1>6

-----------------------------------------------------------------------------
(* A delta that moves on leaves the deltas under way as they are.          *)
LEMMA MovesOn ==
  ASSUME NEW f \in Seq(Deltas), NEW b \in Seq(Deltas), NEW c \in Seq(Deltas), NEW d \in Deltas,
         NEW k, k = <<d>> \o c
  PROVE  /\ f \o b \o k = f \o Append(b, d) \o c
         /\ (f \o Append(b, d)) \o <<>> = f \o Append(b, d)
<1>1. <<d>> \in Seq(Deltas) /\ f \o b \in Seq(Deltas) /\ Append(b, d) \in Seq(Deltas)
  BY ConcatProperties
<1>2. f \o b \o (<<d>> \o c) = f \o Append(b, d) \o c
  <2>1. f \o b \o (<<d>> \o c) = (f \o b \o <<d>>) \o c
    BY <1>1, ConcatAssociative
  <2>2. f \o b \o <<d>> = f \o (b \o <<d>>)
    BY <1>1, ConcatAssociative
  <2>3. b \o <<d>> = Append(b, d)
    BY AppendIsConcat
  <2> QED BY <2>1, <2>2, <2>3
<1>3. (f \o Append(b, d)) \o <<>> = f \o Append(b, d)
  <2>1. f \o Append(b, d) \in Seq(Deltas)
    BY <1>1, ConcatProperties
  <2> QED BY <2>1, ConcatEmptySeq
<1> QED BY <1>2, <1>3

LEMMA SentOn ==
  ASSUME NEW f \in Seq(Deltas), NEW b \in Seq(Deltas), NEW c \in Seq(Deltas), NEW d \in Deltas
  PROVE  /\ f \o b \o c \o <<d>> = f \o b \o Append(c, d) \o <<>>
         /\ Append(f \o b \o c \o <<>>, d) = f \o b \o c \o <<d>>
<1>1. <<d>> \in Seq(Deltas) /\ f \o b \in Seq(Deltas)
  BY ConcatProperties
<1>2. f \o b \o c \in Seq(Deltas) /\ Append(c, d) \in Seq(Deltas)
  BY <1>1, ConcatProperties
<1>3. f \o b \o c \o <<d>> = f \o b \o Append(c, d)
  <2>1. (f \o b) \o c \o <<d>> = (f \o b) \o (c \o <<d>>)
    BY <1>1, ConcatAssociative
  <2>2. c \o <<d>> = Append(c, d)
    BY AppendIsConcat
  <2> QED BY <2>1, <2>2
<1>4. f \o b \o Append(c, d) \o <<>> = f \o b \o Append(c, d)
  <2>1. f \o b \o Append(c, d) \in Seq(Deltas)
    BY <1>1, <1>2, ConcatProperties
  <2> QED BY <2>1, ConcatEmptySeq
<1>5. Append(f \o b \o c \o <<>>, d) = f \o b \o c \o <<d>>
  <2>1. f \o b \o c \o <<>> = f \o b \o c
    BY <1>2, ConcatEmptySeq
  <2> QED BY <1>2, <2>1, AppendIsConcat
<1> QED BY <1>3, <1>4, <1>5

LEMMA NothingMore ==
  ASSUME NEW f \in Seq(Deltas), NEW b \in Seq(Deltas)
  PROVE  f \o b \o <<>> \o <<>> = (f \o b) \o <<>> \o <<>> \o <<>>
<1>1. f \o b \in Seq(Deltas)
  BY ConcatProperties
<1> QED BY <1>1, ConcatEmptySeq

LEMMA InitFlow == Init => FlowInv
<1> SUFFICES ASSUME Init PROVE FlowInv
  OBVIOUS
<1> USE DEF Init
<1>1. EventInTurn /\ RecordedWhole /\ Told
  BY DEF EventInTurn, RecordedWhole, Told
<1>2. ~Closed(<<>>) /\ LinesIn(<<>>) = <<>>
  BY DEF Closed, LinesIn, DeltasIn
<1>3. LastEventLast
  BY <1>2 DEF LastEventLast
<1>4. InFlow
  BY <1>2 DEF InFlow, AboutToSend
<1> QED BY <1>1, <1>3, <1>4 DEF FlowInv

(* The steps of the processor.                                             *)
LEMMA ProcessorFlow ==
  ASSUME TypeOK, BufferOnWire, FlowInv, Incoming \/ Processing
  PROVE  FlowInv'
<1> USE DEF FlowInv
<1>0. /\ channel \in Seq(Events) /\ flushed \in Seq(Deltas) /\ buffer \in Seq(Deltas)
      /\ \A i \in 1 .. Len(channel) - 1 : channel[i].tag = "Delta"
      /\ LinesIn(channel) \in Seq(Deltas)
  BY ChannelLines DEF TypeOK, LastEventLast
<1>1. CASE Incoming \/ NextChunk
  <2>1. /\ UNCHANGED <<full, recorded, channel, handler>> /\ ppc \in {"recv", "parse"}
        /\ ppc' \in {"recv", "parse", "abort", "record"}
        /\ ppc' \in {"abort", "record"} => event' = Final("Error")
    BY <1>1 DEF Incoming, Receive, Break, End, Close, Closing, NextChunk
  <2>2. EventInTurn' /\ RecordedWhole' /\ Told'
    BY <2>1 DEF EventInTurn, RecordedWhole, Told, handler
  <2>3. LastEventLast'
    BY <2>1 DEF LastEventLast, handler
  <2>4. InFlow'
    BY <2>1 DEF InFlow, AboutToSend, handler
  <2> QED BY <2>2, <2>3, <2>4
<1>2. CASE ParseLine
  <2>1. /\ UNCHANGED <<lines, recorded, channel, handler>> /\ ppc = "parse"
        /\ \/ full' = full /\ event' = Final("Done") /\ ppc' = "record"
           \/ /\ full' = Append(full, Parsed + 1)
              /\ event' = Delta(Parsed + 1) /\ ppc' = "send"
           \/ UNCHANGED <<full, event, ppc>>
    BY <1>2, ParsedLine DEF ParseLine
  <2>2. Parsed + 1 \in Deltas
    <3>1. Parsed + 1 \in 1 .. Len(lines) /\ Len(lines) \in Nat /\ Len(lines) <= MaxLines
      BY <1>2, ParsedLine, UnreadBytes DEF TypeOK
    <3> QED BY <3>1, StreamAssumption DEF Deltas
  <2>3. EventInTurn' /\ RecordedWhole' /\ Told'
    BY <2>1, <2>2 DEF EventInTurn, RecordedWhole, Told, handler
  <2>4. LastEventLast'
    BY <2>1 DEF LastEventLast, handler
  <2>5. InFlow'
    <3>1. CASE full' = full /\ ppc' # "send"
      BY <2>1, <3>1 DEF InFlow, AboutToSend, handler
    <3>2. CASE full' = Append(full, Parsed + 1) /\ event' = Delta(Parsed + 1) /\ ppc' = "send"
      <4>1. AboutToSend = <<>> /\ AboutToSend' = <<Parsed + 1>>
        BY <2>1, <2>2, <3>2, EventTypes DEF AboutToSend
      <4>2. full' = flushed \o buffer \o LinesIn(channel) \o <<Parsed + 1>>
        <5>1. full' = Append(flushed \o buffer \o LinesIn(channel) \o <<>>, Parsed + 1)
          BY <3>2, <4>1 DEF InFlow
        <5> QED BY <1>0, <2>2, <5>1, SentOn
      <4> QED BY <2>1, <4>1, <4>2 DEF InFlow, handler
    <3> QED BY <2>1, <3>1, <3>2
  <2> QED BY <2>3, <2>4, <2>5
<1>3. CASE SendDelta
  <2>1. /\ ppc = "send" /\ ppc' = "parse" /\ channel' = Append(channel, event)
        /\ UNCHANGED <<full, recorded, handler>>
    BY <1>3 DEF SendDelta
  <2>2. PICK n \in Deltas : event = Delta(n)
    BY <2>1 DEF EventInTurn
  <2>3. ~Closed(channel) /\ hpc # "done"
    BY <2>1 DEF LastEventLast
  <2>4. /\ ~Closed(channel') /\ \A i \in 1 .. Len(channel') - 1 : channel'[i].tag = "Delta"
        /\ LinesIn(channel') = Append(LinesIn(channel), n)
    BY <1>0, <2>1, <2>2, <2>3, DeltaSent
  <2>5. EventInTurn' /\ RecordedWhole' /\ Told'
    BY <2>1 DEF EventInTurn, RecordedWhole, Told, handler
  <2>6. LastEventLast'
    BY <2>1, <2>3, <2>4 DEF LastEventLast, handler
  <2>7. InFlow'
    <3>1. AboutToSend = <<n>> /\ AboutToSend' = <<>>
      BY <2>1, <2>2, EventTypes DEF AboutToSend
    <3>2. full = flushed \o buffer \o Append(LinesIn(channel), n) \o <<>>
      BY <1>0, <3>1, SentOn DEF InFlow
    <3> QED BY <2>1, <2>4, <3>1, <3>2 DEF InFlow, handler
  <2> QED BY <2>5, <2>6, <2>7
<1>4. CASE Record
  <2>1. /\ ppc = "record" /\ ppc' = "last" /\ UNCHANGED <<full, event, channel, handler>>
        /\ recorded' \in {full, recorded}
    BY <1>4, ClosingOrder DEF Record
  <2>2. EventInTurn' /\ RecordedWhole' /\ Told'
    BY <2>1 DEF EventInTurn, RecordedWhole, Told, handler
  <2>3. LastEventLast' /\ InFlow'
    BY <2>1 DEF LastEventLast, InFlow, AboutToSend, handler
  <2> QED BY <2>2, <2>3
<1>5. CASE SendLast
  <2>1. /\ ppc \in {"last", "abort"} /\ ppc' = "end" /\ channel' = Append(channel, event)
        /\ UNCHANGED <<full, event, recorded, handler>>
    BY <1>5, ClosingOrder DEF SendLast
  <2>2. event \in Events /\ event.tag # "Delta"
    BY <2>1, EventTypes DEF EventInTurn, Events
  <2>3. ~Closed(channel) /\ hpc # "done"
    BY <2>1 DEF LastEventLast
  <2>4. /\ Closed(channel') /\ \A i \in 1 .. Len(channel') - 1 : channel'[i].tag = "Delta"
        /\ LinesIn(channel') = LinesIn(channel)
    BY <1>0, <2>1, <2>2, <2>3, LastSent
  <2>5. EventInTurn' /\ RecordedWhole' /\ Told'
    BY <2>1 DEF EventInTurn, RecordedWhole, Told, handler
  <2>6. LastEventLast'
    BY <2>1, <2>3, <2>4 DEF LastEventLast, TypeOK, handler
  <2>7. InFlow'
    BY <2>1, <2>4 DEF InFlow, AboutToSend, handler
  <2> QED BY <2>5, <2>6, <2>7
<1> QED BY <1>1, <1>2, <1>3, <1>4, <1>5 DEF Processing

(* The steps of the handler.                                               *)
LEMMA HandlerFlow ==
  ASSUME TypeOK, FlowInv, Handling
  PROVE  FlowInv'
<1> USE DEF FlowInv
<1>0. /\ channel \in Seq(Events) /\ flushed \in Seq(Deltas) /\ buffer \in Seq(Deltas)
      /\ \A i \in 1 .. Len(channel) - 1 : channel[i].tag = "Delta"
      /\ LinesIn(channel) \in Seq(Deltas) /\ replies \in Nat
  BY ChannelLines DEF TypeOK, LastEventLast
<1>1. EventInTurn' /\ RecordedWhole'
  BY DEF Handling, TakeDelta, TakeLast, processor, EventInTurn, RecordedWhole
<1>2. CASE TakeDelta
  <2> DEFINE n == Head(channel).line
             b == Append(buffer, n)
  <2>1. /\ channel # <<>> /\ Head(channel).tag = "Delta" /\ n \in Deltas
        /\ channel' = Tail(channel) /\ UNCHANGED <<processor, hpc>> /\ hpc = "recv"
    BY <1>2, TakenDelta DEF TakeDelta
  <2>2. /\ Closed(channel') <=> Closed(channel)
        /\ \A i \in 1 .. Len(channel') - 1 : channel'[i].tag = "Delta"
        /\ LinesIn(channel) = <<n>> \o LinesIn(channel')
        /\ LinesIn(channel') \in Seq(Deltas)
    BY <1>0, <2>1, DeltaTaken
  <2>3. LastEventLast'
    BY <2>1, <2>2 DEF LastEventLast, processor
  <2>4. /\ Told'
        /\ flushed' \o buffer' = flushed \o b \/ flushed' \o buffer' = (flushed \o b) \o <<>>
    <3>1. CASE BufferFull(b)
      <4>1. /\ flushed' = flushed \o b /\ buffer' = <<>> /\ sentAny' = (sentAny \/ Visible(b))
            /\ replies' = IF Visible(b) THEN replies + 1 ELSE replies
        BY <1>2, <3>1 DEF TakeDelta, BufferAfterFlush, Flush
      <4>2. Told'
        <5>1. replies' >= replies /\ (Visible(b) => replies' > 0)
          BY <1>0, <4>1
        <5>2. replies > 0 => replies' > 0
          BY <1>0, <4>1, <5>1
        <5> QED BY <4>1, <5>1, <5>2, Zenon DEF Told
      <4> QED BY <4>1, <4>2
    <3>2. CASE ~BufferFull(b)
      <4>1. buffer' = b /\ UNCHANGED <<sentAny, replies, flushed>>
        BY <1>2, <3>2 DEF TakeDelta
      <4> QED BY <4>1 DEF Told
    <3> QED BY <3>1, <3>2
  <2>5. InFlow'
    <3>1. AboutToSend' = AboutToSend /\ full' = full /\ AboutToSend \in Seq(Deltas)
      <4>1. ppc = "send" => event.line \in Deltas
        BY EventTypes DEF EventInTurn
      <4> QED BY <2>1, <4>1 DEF AboutToSend, processor
    <3>2. /\ full = flushed \o b \o LinesIn(channel') \o AboutToSend
          /\ full = (flushed \o b) \o <<>> \o LinesIn(channel') \o AboutToSend
      <4> DEFINE c == LinesIn(channel')
                 k == LinesIn(channel)
      <4>1. /\ c \in Seq(Deltas) /\ n \in Deltas /\ k = <<n>> \o c
            /\ flushed \in Seq(Deltas) /\ buffer \in Seq(Deltas)
        BY <1>0, <2>1, <2>2
      <4>2. full = flushed \o buffer \o k \o AboutToSend
        BY DEF InFlow
      <4> HIDE DEF c, n, k
      <4>3. /\ flushed \o buffer \o k = flushed \o Append(buffer, n) \o c
            /\ (flushed \o Append(buffer, n)) \o <<>> = flushed \o Append(buffer, n)
        BY <4>1, MovesOn
      <4> QED BY <4>2, <4>3 DEF c
    <3> HIDE DEF b
    <3> QED BY <2>4, <3>1, <3>2 DEF InFlow
  <2> QED BY <1>1, <2>3, <2>4, <2>5
<1>3. CASE TakeLast
  <2>1. /\ channel # <<>> /\ Head(channel).tag # "Delta" /\ channel' = Tail(channel)
        /\ flushed' = flushed \o buffer /\ buffer' = <<>> /\ hpc' = "done"
        /\ sentAny' = (sentAny \/ Visible(buffer)) /\ UNCHANGED processor
        /\ replies' = IF Visible(buffer) \/ NoticeNeeded(buffer) THEN replies + 1 ELSE replies
    BY <1>3 DEF TakeLast, Flush, Remainder
  <2>2. /\ Closed(channel) /\ LinesIn(channel) = <<>> /\ channel' = <<>>
        /\ LinesIn(channel') = <<>> /\ ~Closed(channel')
    BY <1>0, <2>1, LastTaken
  <2>3. ppc = "end" /\ ppc' = "end"
    BY <2>1, <2>2 DEF LastEventLast, processor
  <2>4. LastEventLast'
    BY <2>1, <2>2, <2>3 DEF LastEventLast
  <2>5. Told'
    <3>1. replies' >= replies /\ (Visible(buffer) => replies' > 0)
      BY <1>0, <2>1
    <3>2. replies > 0 => replies' > 0
      BY <1>0, <2>1
    <3> QED BY <2>1, <3>1, <3>2, Zenon DEF Told
  <2>6. InFlow'
    <3>1. AboutToSend = <<>> /\ AboutToSend' = <<>> /\ full' = full
      BY <2>1, <2>3 DEF AboutToSend, processor
    <3>2. full = flushed \o buffer \o <<>> \o <<>>
      BY <2>2, <3>1 DEF InFlow
    <3>3. full = (flushed \o buffer) \o <<>> \o <<>> \o <<>>
      BY <1>0, <3>2, NothingMore
    <3> QED BY <2>1, <2>2, <3>1, <3>3 DEF InFlow
  <2> QED BY <1>1, <2>4, <2>5, <2>6
<1> QED BY <1>2, <1>3 DEF Handling

StreamInv == TypeOK /\ BufferOnWire /\ ReplyOfParsed /\ FlowInv

LEMMA InitStreamInv == Init => StreamInv
<1> SUFFICES ASSUME Init PROVE StreamInv
  OBVIOUS
<1>1. got = 0 /\ buf = <<>> /\ consumed = 0 /\ full = <<>>
  BY DEF Init
<1>2. Drained = 0 /\ Parsed = 0 /\ (Drained + consumed) % 2 = 0
  <2>1. Drained = 0 /\ Drained + consumed = 0
    <3>1. Len(buf) = 0
      BY <1>1
    <3>2. got - Len(buf) = 0
      <4>1. 0 - 0 = 0
        OBVIOUS
      <4> QED BY <1>1, <3>1, <4>1
    <3> QED BY <1>1, <3>2 DEF Drained
  <2>2. 0 \div 2 = 0 /\ 0 % 2 = 0
    OBVIOUS
  <2> QED BY <2>1, <2>2 DEF Parsed
<1>3. BufferOnWire
  BY <1>1, <1>2 DEF BufferOnWire
<1>4. ReplyOfParsed
  BY <1>1, <1>2 DEF ReplyOfParsed, InOrder, ToSet
<1> QED BY <1>3, <1>4, InitType, InitFlow DEF StreamInv

LEMMA StepStreamInv == StreamInv /\ [Next]_vars => StreamInv'
<1> SUFFICES ASSUME StreamInv, [Next]_vars PROVE StreamInv'
  OBVIOUS
<1> USE DEF StreamInv
<1>1. TypeOK'
  BY StepType DEF FlowInv
<1>2. BufferOnWire' /\ ReplyOfParsed'
  BY StepParsed, StepReply
<1>3. FlowInv'
  <2>1. CASE Incoming \/ Processing
    BY <2>1, ProcessorFlow
  <2>2. CASE Handling
    BY <2>2, HandlerFlow
  <2>3. CASE Terminated \/ UNCHANGED vars
    <3>1. UNCHANGED vars
      BY <2>3 DEF Terminated
    <3>2. EventInTurn' /\ LastEventLast' /\ RecordedWhole' /\ Told'
      BY <3>1 DEF vars, processor, handler, FlowInv, EventInTurn, LastEventLast, RecordedWhole, Told
    <3>3. InFlow'
      BY <3>1 DEF vars, processor, handler, FlowInv, InFlow, AboutToSend
    <3> QED BY <3>2, <3>3 DEF FlowInv
  <2> QED BY <2>1, <2>2, <2>3 DEF Next
<1> QED BY <1>1, <1>2, <1>3

LEMMA StreamInvariant == Spec => []StreamInv
BY InitStreamInv, StepStreamInv, PTL DEF Spec

(* Types, and consumed never beyond the bytes in buf, however the response *)
(* comes in.                                                               *)
THEOREM TypeCorrect == Spec => []TypeOK
<1>1. StreamInv => TypeOK
  BY DEF StreamInv
<1> QED BY <1>1, StreamInvariant, PTL

(* Wherever the response is cut into chunks, and whenever the consumed     *)
(* bytes are drained, the reply read so far is the deltas of the whole     *)
(* lines received: none is lost, split, or read twice.                     *)
THEOREM CutsDoNotMatter == Spec => []ChunksDoNotMatter
<1>1. StreamInv => ChunksDoNotMatter
  <2> SUFFICES ASSUME StreamInv, ppc = "recv"
               PROVE  InOrder(full) /\ ToSet(full) = {i \in CompleteLines : IsDelta(i)}
    BY DEF ChunksDoNotMatter
  <2>1. /\ 2 * Parsed + Len(Unread) = got /\ Len(Unread) = Len(buf) - consumed
        /\ Len(Unread) \in Nat /\ Parsed \in Nat
    BY UnreadBytes DEF StreamInv
  <2>2. Len(Unread) <= 1
    BY <2>1 DEF StreamInv, BufferOnWire
  <2>3. got \div 2 = Parsed
    <3>1. \A p \in Nat : (2 * p + 0) \div 2 = p /\ (2 * p + 1) \div 2 = p
      OBVIOUS
    <3>2. Len(Unread) = 0 \/ Len(Unread) = 1
      BY <2>1, <2>2
    <3> QED BY <2>1, <3>1, <3>2
  <2> QED BY <2>3 DEF CompleteLines, StreamInv, ReplyOfParsed
<1> QED BY <1>1, StreamInvariant, PTL

(* A delta of the reply is at one place between the processor and the user *)
(* and nowhere twice, and by the end the history has what the user got.    *)
THEOREM DeltasArrive == Spec => []NothingLost
<1>1. StreamInv => NothingLost
  <2> SUFFICES ASSUME StreamInv PROVE NothingLost
    OBVIOUS
  <2> USE DEF StreamInv, FlowInv
  <2>1. flushed \o buffer \o LinesIn(channel) \o AboutToSend = full
    BY DEF InFlow
  <2>2. ASSUME hpc = "done", recorded # NoTurn PROVE recorded = flushed
    <3>1. ppc = "end" /\ channel = <<>> /\ buffer = <<>> /\ recorded = full
      BY <2>2 DEF LastEventLast, RecordedWhole
    <3>2. LinesIn(channel) = <<>> /\ AboutToSend = <<>>
      BY <3>1 DEF LinesIn, DeltasIn, Closed, AboutToSend
    <3>3. flushed \o <<>> \o <<>> \o <<>> = flushed
      BY ConcatEmptySeq DEF TypeOK
    <3> QED BY <2>1, <3>1, <3>2, <3>3
  <2> QED BY <2>1, <2>2 DEF NothingLost
<1> QED BY <1>1, StreamInvariant, PTL

-----------------------------------------------------------------------------
(* StreamPromise is about any number of replies, and this is one of them.  *)
LEMMA OneReply ==
  ASSUME NEW v, NEW w
  PROVE  Of(v)["stream"] = v /\ Of(w) = [Of(v) EXCEPT !["stream"] = w]
BY DEF Of, One

LEMMA Unseen ==
  ASSUME AbsPhase' = AbsPhase, full' # <<>> <=> full # <<>>,
         recorded' # NoTurn <=> recorded # NoTurn, replies' > 0 <=> replies > 0
  PROVE  UNCHANGED Promise!promiseVars
<1>1. /\ (full # <<>>)' = (full # <<>>) /\ (recorded # NoTurn)' = (recorded # NoTurn)
      /\ (replies > 0)' = (replies > 0)
  OBVIOUS
<1> QED BY <1>1 DEF Promise!promiseVars, Of

LEMMA ProcessorKeepsPromise ==
  ASSUME StreamInv, Incoming \/ Processing
  PROVE  Promise!PromiseNext \/ UNCHANGED Promise!promiseVars
<1> USE DEF StreamInv, FlowInv
<1>0. hpc # "done" /\ hpc' = hpc /\ replies' = replies
  <2>1. ppc # "end" /\ hpc' = hpc /\ replies' = replies
    BY DEF Incoming, Processing, Receive, Break, End, ParseLine, NextChunk, SendDelta, Record,
           SendLast, handler
  <2> QED BY <2>1 DEF LastEventLast
<1>1. "stream" \in One
  BY DEF One
<1>2. ASSUME UNCHANGED <<full, recorded>>, ppc \in {"recv", "parse", "send"},
             ppc' \in {"recv", "parse", "send", "record"}
      PROVE  UNCHANGED Promise!promiseVars
  <2>1. AbsPhase = "open" /\ AbsPhase' = "open"
    BY <1>0, <1>2 DEF AbsPhase
  <2> QED BY <1>0, <1>2, <2>1, Unseen
<1>3. CASE (\E n \in 1 .. 2 * MaxLines : Receive(n)) \/ End \/ NextChunk \/ SendDelta
  <2>1. /\ UNCHANGED <<full, recorded>> /\ ppc \in {"recv", "parse", "send"}
        /\ ppc' \in {"recv", "parse", "send", "record"}
    BY <1>3 DEF Receive, End, Close, Closing, NextChunk, SendDelta
  <2> QED BY <1>2, <2>1
<1>4. CASE Break
  <2>1. /\ AbsPhase = "open" /\ AbsPhase' = "settled" /\ UNCHANGED <<full, recorded>>
    BY <1>0, <1>4 DEF Break, AbsPhase
  <2>2. Promise!SettleUnrecorded("stream")
    <3>1. (full # <<>>)' = (full # <<>>) /\ (recorded # NoTurn)' = (recorded # NoTurn) /\ (replies > 0)' = (replies > 0)
      BY <1>0, <2>1
    <3> QED BY <2>1, <3>1, OneReply DEF Promise!SettleUnrecorded
  <2> QED BY <1>1, <2>2 DEF Promise!PromiseNext, Promise!Settle
<1>5. CASE ParseLine
  <2>1. /\ recorded' = recorded /\ ppc = "parse"
        /\ \/ full' = full /\ ppc' = "record"
           \/ /\ full' = Append(full, Parsed + 1) /\ ppc' = "send"
           \/ UNCHANGED <<full, ppc>>
    BY <1>5, ParsedLine DEF ParseLine
  <2>2. CASE full' = Append(full, Parsed + 1) /\ ppc' = "send"
    <3>1. full' # <<>>
      <4>1. full \in Seq(Deltas)
        BY DEF TypeOK
      <4>2. Parsed + 1 \in Deltas
        <5>1. Parsed + 1 \in 1 .. Len(lines) /\ Len(lines) \in Nat /\ Len(lines) <= MaxLines
          BY <1>5, ParsedLine, UnreadBytes DEF TypeOK
        <5> QED BY <5>1, StreamAssumption DEF Deltas
      <4> QED BY <2>2, <4>1, <4>2
    <3>2. AbsPhase = "open" /\ AbsPhase' = "open"
      BY <1>0, <2>1, <2>2 DEF AbsPhase
    <3>3. (full # <<>>)' = TRUE /\ (recorded # NoTurn)' = (recorded # NoTurn) /\ (replies > 0)' = (replies > 0)
      BY <1>0, <2>1, <3>1
    <3>4. Promise!AnswerComes("stream")
      BY <3>2, <3>3, OneReply DEF Promise!AnswerComes
    <3> QED BY <1>1, <3>4 DEF Promise!PromiseNext
  <2> QED BY <1>2, <2>1, <2>2
<1>6. CASE Record
  <2>1. AbsPhase = "open" /\ AbsPhase' = "settled" /\ full' = full
    BY <1>0, <1>6, ClosingOrder DEF Record, AbsPhase
  <2>2. (full # <<>>)' = (full # <<>>) /\ (replies > 0)' = (replies > 0)
    BY <1>0, <2>1
  <2>3. CASE LocalHistory /\ full # <<>>
    <3>1. recorded' # NoTurn
      BY <1>6, <2>3, StreamAssumption DEF Record, TypeOK, Deltas
    <3>2. (recorded # NoTurn)' = TRUE /\ (full # <<>>) = TRUE
      BY <2>3, <3>1
    <3>3. Promise!SettleRecorded("stream")
      BY <2>1, <2>2, <2>3, <3>2, OneReply DEF Promise!SettleRecorded
    <3> QED BY <1>1, <3>3 DEF Promise!PromiseNext, Promise!Settle
  <2>4. CASE ~(LocalHistory /\ full # <<>>)
    <3>1. (recorded # NoTurn)' = (recorded # NoTurn)
      BY <1>6, <2>4 DEF Record
    <3>2. Promise!SettleUnrecorded("stream")
      BY <2>1, <2>2, <3>1, OneReply DEF Promise!SettleUnrecorded
    <3> QED BY <1>1, <3>2 DEF Promise!PromiseNext, Promise!Settle
  <2> QED BY <2>3, <2>4
<1>7. CASE SendLast
  <2>1. AbsPhase = "settled" /\ AbsPhase' = "settled" /\ UNCHANGED <<full, recorded>>
    BY <1>0, <1>7, ClosingOrder DEF SendLast, AbsPhase
  <2> QED BY <1>0, <2>1, Unseen
<1> QED BY <1>3, <1>4, <1>5, <1>6, <1>7 DEF Incoming, Processing

LEMMA HandlerKeepsPromise ==
  ASSUME StreamInv, Handling
  PROVE  Promise!PromiseNext \/ UNCHANGED Promise!promiseVars
<1> USE DEF StreamInv, FlowInv
<1>0. /\ UNCHANGED <<full, recorded, ppc>> /\ hpc = "recv" /\ replies \in Nat /\ "stream" \in One
  BY DEF Handling, TakeDelta, TakeLast, processor, TypeOK, One
<1>1. (full # <<>>)' = (full # <<>>) /\ (recorded # NoTurn)' = (recorded # NoTurn)
  BY <1>0
<1>2. CASE TakeDelta
  <2>1. hpc' = hpc
    BY <1>2 DEF TakeDelta
  <2>2. AbsPhase' = AbsPhase /\ AbsPhase \in {"open", "settled"}
    BY <1>0, <2>1 DEF AbsPhase
  <2>3. CASE replies' = replies
    BY <1>0, <2>2, <2>3, Unseen
  <2>4. CASE replies' = replies + 1
    <3>1. full # <<>>
      <4> DEFINE k == LinesIn(channel)
                 c == LinesIn(channel')
                 n == Head(channel).line
      <4>1. /\ channel # <<>> /\ Head(channel).tag = "Delta" /\ n \in Deltas
            /\ channel' = Tail(channel) /\ channel \in Seq(Events)
            /\ \A i \in 1 .. Len(channel) - 1 : channel[i].tag = "Delta"
        BY <1>2, TakenDelta DEF TakeDelta, TypeOK, LastEventLast
      <4>2. k = <<n>> \o c /\ c \in Seq(Deltas)
        BY <4>1, DeltaTaken
      <4>3. flushed \in Seq(Deltas) /\ buffer \in Seq(Deltas) /\ full = flushed \o buffer \o k \o AboutToSend
        BY DEF InFlow, TypeOK
      <4>4. AboutToSend \in Seq(Deltas)
        <5>1. ppc = "send" => event.line \in Deltas
          BY EventTypes DEF EventInTurn
        <5> QED BY <5>1 DEF AboutToSend
      <4> DEFINE f == flushed \o buffer
                 g == f \o k
      <4>5. k \in Seq(Deltas) /\ Len(k) >= 1 /\ f \in Seq(Deltas)
        <5> HIDE DEF k, c, n
        <5>1. <<n>> \in Seq(Deltas) /\ Len(<<n>>) = 1
          BY <4>1
        <5>2. k \in Seq(Deltas) /\ Len(k) = 1 + Len(c) /\ Len(c) \in Nat
          BY <4>2, <5>1, ConcatProperties
        <5> QED BY <4>3, <5>2, ConcatProperties
      <4> HIDE DEF k, f
      <4>6. g \in Seq(Deltas) /\ Len(g) >= 1
        BY <4>5, ConcatProperties
      <4> HIDE DEF g
      <4>7. g \o AboutToSend \in Seq(Deltas) /\ Len(g \o AboutToSend) >= 1
        BY <4>4, <4>6, ConcatProperties
      <4> QED BY <4>3, <4>7 DEF g, f
    <3>2. (replies > 0)' = TRUE /\ (full # <<>>) = TRUE
      BY <1>0, <2>4, <3>1
    <3>3. Promise!Show("stream")
      BY <1>1, <2>2, <3>1, <3>2, OneReply DEF Promise!Show
    <3> QED BY <1>0, <3>3 DEF Promise!PromiseNext
  <2> QED BY <1>2, <2>3, <2>4 DEF TakeDelta
<1>3. CASE TakeLast
  <2>1. /\ channel # <<>> /\ Head(channel).tag # "Delta" /\ channel \in Seq(Events)
        /\ \A i \in 1 .. Len(channel) - 1 : channel[i].tag = "Delta" /\ hpc' = "done"
    BY <1>3 DEF TakeLast, TypeOK, LastEventLast
  <2>2. ppc = "end"
    BY <2>1, LastTaken DEF LastEventLast
  <2>3. AbsPhase = "settled" /\ AbsPhase' = "over"
    <3>1. hpc' = "done"
      BY <1>3 DEF TakeLast
    <3> QED BY <1>0, <2>2, <3>1 DEF AbsPhase
  <2>4. (replies > 0)' = TRUE
    <3>1. CASE Visible(buffer) \/ NoticeNeeded(buffer)
      BY <1>0, <1>3, <3>1 DEF TakeLast
    <3>2. CASE ~(Visible(buffer) \/ NoticeNeeded(buffer))
      <4>1. sentAny /\ replies' = replies
        BY <1>3, <3>2 DEF TakeLast, NoticeNeeded
      <4> QED BY <4>1 DEF Told
    <3> QED BY <3>1, <3>2
  <2>5. Promise!Finish("stream")
    BY <1>1, <2>3, <2>4, OneReply DEF Promise!Finish
  <2> QED BY <1>0, <2>5 DEF Promise!PromiseNext
<1> QED BY <1>2, <1>3 DEF Handling

(* complete_stream and handle_stream_reply keep StreamPromise, but for its *)
(* progress: the turn is settled once and before the reply is over, only   *)
(* an answer that has begun is recorded or shown, and no reply is over     *)
(* before the user has been told something.                                *)
THEOREM PromiseKept == Spec => Promise!PromiseSafety
<1>1. Init => Promise!PromiseInit
  <2> SUFFICES ASSUME Init PROVE Promise!PromiseInit
    OBVIOUS
  <2>1. AbsPhase = "open" /\ (full # <<>>) = FALSE /\ (recorded # NoTurn) = FALSE /\ (replies > 0) = FALSE
    BY DEF Init, AbsPhase
  <2> QED BY <2>1 DEF Promise!PromiseInit, Of
<1>2. StreamInv /\ [Next]_vars => [Promise!PromiseNext]_(Promise!promiseVars)
  <2> SUFFICES ASSUME StreamInv, [Next]_vars
               PROVE  Promise!PromiseNext \/ UNCHANGED Promise!promiseVars
    OBVIOUS
  <2>1. CASE Terminated \/ UNCHANGED vars
    <3>1. AbsPhase' = AbsPhase /\ UNCHANGED <<full, recorded, replies>>
      BY <2>1 DEF Terminated, vars, processor, handler, AbsPhase
    <3> QED BY <3>1, Unseen
  <2> QED BY <2>1, ProcessorKeepsPromise, HandlerKeepsPromise DEF Next
<1> QED BY <1>1, <1>2, StreamInvariant, PTL DEF Spec, Promise!PromiseSafety

-----------------------------------------------------------------------------
(* Every set of numbers with a member has a least one, and a greatest one  *)
(* if it is bounded.                                                       *)
LEMMA Smallest ==
  ASSUME NEW T, T \subseteq Nat, T # {}
  PROVE  \E x \in T : \A y \in T : x <= y
<1>1. PICK x \in T : \A y \in T : ~(<<y, x>> \in OpToRel(<, Nat))
  BY NatLessThanWellFounded, WFMin
<1>2. \A y \in T : <<y, x>> \in Nat \X Nat
  OBVIOUS
<1>3. \A y \in T : ~(y < x)
  BY <1>1, <1>2 DEF OpToRel
<1> QED BY <1>3

LEMMA Greatest ==
  ASSUME NEW n \in Nat, NEW T, T \subseteq 0 .. n, T # {}
  PROVE  \E x \in T : \A y \in T : y <= x
<1> DEFINE below == {n - y : y \in T}
<1>1. below \subseteq Nat /\ below # {}
  <2>1. \A y \in T : n - y \in Nat
    OBVIOUS
  <2> QED BY <2>1
<1>2. PICK d \in below : \A e \in below : d <= e
  BY <1>1, Smallest
<1>3. PICK x \in T : d = n - x
  BY <1>2
<1>4. \A y \in T : n - x <= n - y
  BY <1>2, <1>3
<1> QED BY <1>3, <1>4

(* Induction over sequences, for the set P of those something is true of.  *)
LEMMA AppendInduction ==
  ASSUME NEW S, NEW P, <<>> \in P, \A s \in Seq(S), x \in S : s \in P => Append(s, x) \in P
  PROVE  \A s \in Seq(S) : s \in P
<1> DEFINE T == {n \in Nat : \E s \in Seq(S) : Len(s) = n /\ s \notin P}
<1> SUFFICES ASSUME NEW u \in Seq(S), u \notin P PROVE FALSE
  OBVIOUS
<1>1. T \subseteq Nat /\ Len(u) \in T
  OBVIOUS
<1>2. PICK n \in T : \A m \in T : n <= m
  BY <1>1, Smallest
<1>3. PICK s \in Seq(S) : Len(s) = n /\ s \notin P
  BY <1>2
<1>4. PICK f \in Seq(S), x \in S : s = Append(f, x)
  BY <1>3, SequenceEmptyOrAppend
<1>5. Len(f) \in Nat /\ Len(f) = n - 1
  BY <1>3, <1>4
<1>6. Len(f) \notin T
  BY <1>2, <1>5
<1> QED BY <1>3, <1>4, <1>5, <1>6

Below(M, x) == {m \in M : m < x}
Above(M, x) == {m \in M : x < m}

(* The marks before x are those up to the last one before it.              *)
LEMMA OneMore ==
  ASSUME NEW M, M \subseteq Nat, IsFiniteSet(M), NEW p \in M, NEW x \in Nat,
         p < x, \A m \in M : m <= p \/ x <= m
  PROVE  /\ Cardinality(Below(M, x)) = Cardinality(Below(M, p)) + 1
         /\ Cardinality(Below(M, p)) \in Nat
<1>1. Below(M, x) = Below(M, p) \cup {p} /\ p \notin Below(M, p)
  <2>1. /\ \A m \in M : m < x <=> m < p \/ m = p
        /\ ~(p < p)
    OBVIOUS
  <2>2. \A m : m \in Below(M, x) <=> m \in Below(M, p) \cup {p}
    BY <2>1 DEF Below
  <2> QED BY <2>1, <2>2 DEF Below
<1>2. IsFiniteSet(Below(M, p))
  BY FS_Subset DEF Below
<1> QED BY <1>1, <1>2, FS_AddElement, FS_CardinalityType

(* Two marks with a thought between them.                                  *)
Enclose(M, p, q) ==
  /\ p < q /\ (\A m \in M : m <= p \/ q <= m)
  /\ Cardinality(Below(M, p)) % 2 = 0

(* A position is in a thought if a thought is open before it and closed    *)
(* behind it; the marks that open and close it belong to it.               *)
LEMMA InThought ==
  ASSUME NEW n \in Nat, NEW M, M \subseteq 1 .. n, IsFiniteSet(M), NEW k \in 1 .. n
  PROVE  (\E p, q \in M : Enclose(M, p, q) /\ p <= k /\ k <= q)
           <=> \/ k \notin M /\ Cardinality(Below(M, k)) % 2 = 1 /\ Above(M, k) # {}
               \/ k \in M /\ (Cardinality(Below(M, k)) % 2 = 1 \/ Above(M, k) # {})
<1> DEFINE odd(x) == Cardinality(Below(M, x)) % 2 = 1
<1>0. /\ M \subseteq Nat /\ k \in Nat
      /\ \A x \in Nat : Cardinality(Below(M, x)) \in Nat
  <2>1. \A x \in Nat : IsFiniteSet(Below(M, x))
    BY FS_Subset DEF Below
  <2> QED BY <2>1, FS_CardinalityType
<1>1. \A c \in Nat : (c + 1) % 2 = 1 <=> c % 2 = 0
  OBVIOUS
<1>2. \A c \in Nat : c % 2 = 0 \/ c % 2 = 1
  OBVIOUS
<1>3. ASSUME NEW p \in M, NEW q \in M, Enclose(M, p, q), p < k, k <= q
      PROVE  odd(k)
  <2>1. Cardinality(Below(M, k)) = Cardinality(Below(M, p)) + 1
    <3>1. \A m \in M : m <= p \/ k <= m
      BY <1>0, <1>3 DEF Enclose
    <3> QED BY <1>0, <1>3, <3>1, OneMore
  <2>2. Cardinality(Below(M, p)) \in Nat /\ Cardinality(Below(M, p)) % 2 = 0
    BY <1>0, <1>3 DEF Enclose
  <2> QED BY <1>1, <2>1, <2>2
<1>4. ASSUME odd(k)
      PROVE  \E p \in M : p < k /\ (\A m \in M : m <= p \/ k <= m) /\ Cardinality(Below(M, p)) % 2 = 0
  <2>1. Below(M, k) # {}
    <3>1. Cardinality({}) % 2 = 0
      BY FS_EmptySet
    <3> QED BY <1>4, <3>1
  <2>2. Below(M, k) \subseteq 0 .. n
    <3>1. \A m \in 1 .. n : m \in 0 .. n
      OBVIOUS
    <3> QED BY <3>1 DEF Below
  <2>3. PICK p \in Below(M, k) : \A m \in Below(M, k) : m <= p
    BY <2>1, <2>2, Greatest
  <2>4. p \in M /\ p < k /\ \A m \in M : m <= p \/ k <= m
    BY <1>0, <2>3 DEF Below
  <2>5. Cardinality(Below(M, k)) = Cardinality(Below(M, p)) + 1 /\ Cardinality(Below(M, p)) \in Nat
    BY <1>0, <2>4, OneMore
  <2>6. Cardinality(Below(M, p)) % 2 = 0
    BY <1>1, <1>4, <2>5
  <2> QED BY <2>4, <2>6
<1>5. ASSUME Above(M, k) # {}
      PROVE  \E q \in M : k < q /\ (\A m \in M : m <= k \/ q <= m)
  <2>1. Above(M, k) \subseteq Nat
    BY <1>0 DEF Above
  <2>2. PICK q \in Above(M, k) : \A m \in Above(M, k) : q <= m
    BY <1>5, <2>1, Smallest
  <2> QED BY <1>0, <2>2 DEF Above
<1>6. ASSUME NEW p \in M, NEW q \in M, Enclose(M, p, q), p <= k, k <= q, k \notin M
      PROVE  odd(k) /\ Above(M, k) # {}
  <2>1. p < k /\ k < q
    BY <1>0, <1>6
  <2>2. odd(k)
    BY <1>3, <1>6, <2>1
  <2>3. q \in Above(M, k)
    BY <2>1 DEF Above
  <2> QED BY <2>2, <2>3
<1>7. ASSUME NEW p \in M, NEW q \in M, Enclose(M, p, q), p <= k, k <= q, k \in M
      PROVE  odd(k) \/ Above(M, k) # {}
  <2>1. CASE p < k
    BY <1>3, <1>7, <2>1
  <2>2. CASE ~(p < k)
    <3>1. q \in Above(M, k)
      BY <1>0, <1>7, <2>2 DEF Above, Enclose
    <3> QED BY <3>1
  <2> QED BY <2>1, <2>2
<1>8. ASSUME odd(k), k \in M
      PROVE  \E p, q \in M : Enclose(M, p, q) /\ p <= k /\ k <= q
  <2>1. PICK p \in M : p < k /\ (\A m \in M : m <= p \/ k <= m) /\ Cardinality(Below(M, p)) % 2 = 0
    BY <1>4, <1>8
  <2>2. Enclose(M, p, k) /\ p <= k /\ k <= k
    BY <1>0, <2>1 DEF Enclose
  <2> QED BY <1>8, <2>2
<1>9. ASSUME ~odd(k), Above(M, k) # {}, k \in M
      PROVE  \E p, q \in M : Enclose(M, p, q) /\ p <= k /\ k <= q
  <2>1. PICK q \in M : k < q /\ (\A m \in M : m <= k \/ q <= m)
    BY <1>5, <1>9
  <2>2. Cardinality(Below(M, k)) % 2 = 0
    BY <1>0, <1>2, <1>9
  <2>3. Enclose(M, k, q) /\ k <= k /\ k <= q
    BY <1>0, <2>1, <2>2 DEF Enclose
  <2> QED BY <1>9, <2>3
<1>10. ASSUME odd(k), Above(M, k) # {}, k \notin M
       PROVE  \E p, q \in M : Enclose(M, p, q) /\ p <= k /\ k <= q
  <2>1. PICK p \in M : p < k /\ (\A m \in M : m <= p \/ k <= m) /\ Cardinality(Below(M, p)) % 2 = 0
    BY <1>4, <1>10
  <2>2. PICK q \in M : k < q /\ (\A m \in M : m <= k \/ q <= m)
    BY <1>5, <1>10
  <2>3. Enclose(M, p, q) /\ p <= k /\ k <= q
    <3>1. \A m \in M : m <= p \/ q <= m
      BY <1>0, <1>10, <2>1, <2>2
    <3> QED BY <1>0, <2>1, <2>2, <3>1 DEF Enclose
  <2> QED BY <2>3
<1> HIDE DEF odd
<1>11. (\E p, q \in M : Enclose(M, p, q) /\ p <= k /\ k <= q)
         <=> \/ k \notin M /\ odd(k) /\ Above(M, k) # {}
             \/ k \in M /\ (odd(k) \/ Above(M, k) # {})
  BY <1>6, <1>7, <1>8, <1>9, <1>10
<1> QED BY <1>11 DEF odd

-----------------------------------------------------------------------------
LEMMA MarksType ==
  ASSUME NEW b \in Seq(Deltas)
  PROVE  /\ Marks(b) \subseteq 1 .. Len(b) /\ Len(b) \in Nat /\ IsFiniteSet(Marks(b))
         /\ \A x, y : IsFiniteSet({m \in Marks(b) : x <= m /\ m <= y}) /\ MarksIn(b, x, y) \in Nat
<1>1. Marks(b) \subseteq 1 .. Len(b) /\ Len(b) \in Nat
  BY DEF Marks
<1>2. IsFiniteSet(Marks(b))
  <2>1. IsFiniteSet(1 .. Len(b))
    BY <1>1, FS_Interval
  <2> QED BY <1>1, <2>1, FS_Subset
<1>3. \A x, y : IsFiniteSet({m \in Marks(b) : x <= m /\ m <= y})
  BY <1>2, FS_Subset
<1> QED BY <1>1, <1>2, <1>3, FS_CardinalityType DEF MarksIn

(* A buffer that is cleaned by itself shows what is an answer in it.       *)
LEMMA ShownIfAnswered ==
  ASSUME NEW b \in Seq(Deltas), NEW k \in DOMAIN b, IsDelta(b[k])
  PROVE  IsShown(b, k) <=> Answered(b, k)
<1> DEFINE M == Marks(b)
           odd == Cardinality(Below(M, k)) % 2 = 1
           closed == Above(M, k) # {}
<1>0. M \subseteq 1 .. Len(b) /\ IsFiniteSet(M) /\ Len(b) \in Nat /\ k \in 1 .. Len(b)
  BY MarksType
<1>1. \A p, q \in M : <<p, q>> \in Thoughts(b) <=> Enclose(M, p, q)
  BY DEF Thoughts, Enclose, Below
<1>2. \A t \in Thoughts(b) : t[1] \in M /\ t[2] \in M /\ t = <<t[1], t[2]>>
  BY DEF Thoughts
<1>3. (\E t \in Thoughts(b) : ~(k < t[1] \/ t[2] < k)) <=> (\E p, q \in M : Enclose(M, p, q) /\ p <= k /\ k <= q)
  <2>1. \A p, q \in M : ~(k < p \/ q < k) <=> (p <= k /\ k <= q)
    BY <1>0
  <2>2. ASSUME NEW t \in Thoughts(b), ~(k < t[1] \/ t[2] < k)
        PROVE  \E p, q \in M : Enclose(M, p, q) /\ p <= k /\ k <= q
    <3>1. t[1] \in M /\ t[2] \in M /\ Enclose(M, t[1], t[2])
      BY <1>1, <1>2
    <3> QED BY <2>1, <2>2, <3>1
  <2>3. ASSUME NEW p \in M, NEW q \in M, Enclose(M, p, q), p <= k, k <= q
        PROVE  \E t \in Thoughts(b) : ~(k < t[1] \/ t[2] < k)
    <3>1. <<p, q>> \in Thoughts(b) /\ <<p, q>>[1] = p /\ <<p, q>>[2] = q
      BY <1>1, <2>3
    <3> QED BY <2>1, <2>3, <3>1
  <2> QED BY <2>2, <2>3
<1>4. (\E p, q \in M : Enclose(M, p, q) /\ p <= k /\ k <= q)
        <=> \/ k \notin M /\ odd /\ closed
            \/ k \in M /\ (odd \/ closed)
  BY <1>0, InThought
<1>5. MarksIn(b, 1, k - 1) = Cardinality(Below(M, k))
  <2>1. \A m \in M : 1 <= m /\ m <= k - 1 <=> m < k
    BY <1>0
  <2>2. {m \in M : 1 <= m /\ m <= k - 1} = Below(M, k)
    BY <2>1 DEF Below
  <2> QED BY <2>2 DEF MarksIn
<1>6. MarksIn(b, k + 1, Len(b)) = Cardinality(Above(M, k)) /\ IsFiniteSet(Above(M, k))
  <2>1. \A m \in M : k + 1 <= m /\ m <= Len(b) <=> k < m
    BY <1>0
  <2>2. {m \in M : k + 1 <= m /\ m <= Len(b)} = Above(M, k)
    BY <2>1 DEF Above
  <2> QED BY <2>2, MarksType DEF MarksIn
<1>7. MarksIn(b, k + 1, Len(b)) = 0 <=> ~closed
  BY <1>6, FS_EmptySet
<1>8. MarksIn(b, 1, k - 1) % 2 = 0 <=> ~odd
  <2>1. MarksIn(b, 1, k - 1) \in Nat
    BY MarksType
  <2>2. \A c \in Nat : c % 2 = 0 <=> ~(c % 2 = 1)
    OBVIOUS
  <2> QED BY <1>5, <2>1, <2>2
<1>9. k \in M <=> lines[b[k]] = "mark"
  BY DEF Marks
<1>10. lines[b[k]] \in {"text", "break", "mark"}
  BY DEF IsDelta
<1>11. Answered(b, k) <=> \/ lines[b[k]] = "text" /\ (~odd \/ ~closed)
                          \/ lines[b[k]] = "mark" /\ ~odd /\ ~closed
  BY <1>7, <1>8 DEF Answered
<1>12. IsShown(b, k) <=> lines[b[k]] # "break" /\ ~(\E t \in Thoughts(b) : ~(k < t[1] \/ t[2] < k))
  BY DEF IsShown
<1> HIDE DEF M, odd, closed
<1> QED BY <1>3, <1>4, <1>9, <1>10, <1>11, <1>12

-----------------------------------------------------------------------------
(* Counting does not depend on where one starts to count.                  *)
LEMMA ShiftedSize ==
  ASSUME NEW S, S \subseteq Nat, IsFiniteSet(S), NEW n \in Nat
  PROVE  /\ IsFiniteSet({n + m : m \in S})
         /\ Cardinality({n + m : m \in S}) = Cardinality(S)
<1> DEFINE T == {n + m : m \in S}
           g == [m \in S |-> n + m]
<1>1. g \in [S -> T]
  OBVIOUS
<1>2. \A x, y \in S : g[x] = g[y] => x = y
  OBVIOUS
<1>3. \A t \in T : \E m \in S : g[m] = t
  OBVIOUS
<1>4. g \in Bijection(S, T)
  <2> HIDE DEF g, T
  <2> QED BY <1>1, <1>2, <1>3 DEF Bijection, Injection, Surjection, IsInjective
<1>5. ExistsBijection(S, T)
  BY <1>4 DEF ExistsBijection
<1> QED BY <1>5, FS_Bijection

(* The marks of two buffers in a row.                                      *)
LEMMA MarksInRow ==
  ASSUME NEW f \in Seq(Deltas), NEW b \in Seq(Deltas)
  PROVE  \A x, y \in Nat :
           /\ y <= Len(f) => MarksIn(f \o b, x, y) = MarksIn(f, x, y)
           /\ (x <= Len(f) + 1 /\ y >= Len(f)) =>
                MarksIn(f \o b, x, y) = MarksIn(f, x, Len(f)) + MarksIn(b, 1, y - Len(f))
           /\ x >= 1 => MarksIn(f \o b, Len(f) + x, Len(f) + y) = MarksIn(b, x, y)
<1> DEFINE c == f \o b
           n == Len(f)
<1> SUFFICES ASSUME NEW x \in Nat, NEW y \in Nat
             PROVE  /\ y <= n => MarksIn(c, x, y) = MarksIn(f, x, y)
                    /\ (x <= n + 1 /\ y >= n) =>
                         MarksIn(c, x, y) = MarksIn(f, x, n) + MarksIn(b, 1, y - n)
                    /\ x >= 1 => MarksIn(c, n + x, n + y) = MarksIn(b, x, y)
  OBVIOUS
<1>1. /\ n = Len(f) /\ n \in Nat /\ Len(b) \in Nat /\ c \in Seq(Deltas) /\ Len(c) = n + Len(b)
      /\ \A i \in 1 .. n : c[i] = f[i]
      /\ \A i \in 1 .. Len(b) : c[n + i] = b[i]
  BY ConcatProperties
<1> HIDE DEF c, n
<1>2. /\ \A i \in 1 .. n : i \in Marks(c) <=> i \in Marks(f)
      /\ \A i \in 1 .. Len(b) : n + i \in Marks(c) <=> i \in Marks(b)
      /\ Marks(c) \subseteq 1 .. n + Len(b)
  BY <1>1 DEF Marks
<1>3. Marks(f) \subseteq 1 .. n /\ Marks(b) \subseteq 1 .. Len(b)
  BY <1>1, MarksType
<1>4. ASSUME NEW from \in Nat, NEW to \in Nat, from >= 1
      PROVE  MarksIn(c, n + from, n + to) = MarksIn(b, from, to)
  <2> DEFINE S == {m \in Marks(b) : from <= m /\ m <= to}
             T == {m \in Marks(c) : n + from <= m /\ m <= n + to}
  <2>1. T = {n + m : m \in S}
    <3>1. ASSUME NEW m \in S PROVE n + m \in T
      <4>1. m \in 1 .. Len(b) /\ from <= m /\ m <= to /\ m \in Marks(b)
        BY <1>3
      <4>2. n + m \in Marks(c) /\ n + from <= n + m /\ n + m <= n + to
        BY <1>1, <1>2, <4>1
      <4> QED BY <4>2
    <3>2. ASSUME NEW t \in T PROVE t \in {n + m : m \in S}
      <4>1. t \in 1 .. n + Len(b) /\ n + from <= t /\ t <= n + to /\ t \in Marks(c)
        BY <1>2
      <4>2. t - n \in 1 .. Len(b) /\ n + (t - n) = t /\ from <= t - n /\ t - n <= to
        BY <1>1, <4>1, <1>4
      <4>3. t - n \in S
        BY <1>2, <4>1, <4>2
      <4> QED BY <4>2, <4>3
    <3> QED BY <3>1, <3>2
  <2>2. S \subseteq Nat /\ IsFiniteSet(S)
    <3>1. IsFiniteSet(S)
      BY MarksType
    <3>2. S \subseteq 1 .. Len(b)
      BY <1>3
    <3> QED BY <3>1, <3>2
  <2>3. Cardinality(T) = Cardinality(S)
    <3> HIDE DEF S, T
    <3> QED BY <1>1, <2>1, <2>2, ShiftedSize
  <2> QED BY <2>3 DEF MarksIn
<1>5. ASSUME y <= n PROVE MarksIn(c, x, y) = MarksIn(f, x, y)
  <2>1. \A m \in Marks(f) : m \in Marks(c)
    BY <1>2, <1>3
  <2>2. \A m \in Marks(c) : m <= y => m \in Marks(f)
    BY <1>1, <1>2, <1>5
  <2>3. {m \in Marks(c) : x <= m /\ m <= y} = {m \in Marks(f) : x <= m /\ m <= y}
    BY <2>1, <2>2
  <2> QED BY <2>3 DEF MarksIn
<1>6. ASSUME x <= n + 1, y >= n
      PROVE  MarksIn(c, x, y) = MarksIn(f, x, n) + MarksIn(b, 1, y - n)
  <2> DEFINE A == {m \in Marks(f) : x <= m /\ m <= n}
             B == {m \in Marks(c) : n + 1 <= m /\ m <= n + (y - n)}
             C == {m \in Marks(c) : x <= m /\ m <= y}
  <2>1. C = A \cup B /\ A \cap B = {}
    <3>1. \A m \in Marks(f) : m \in Marks(c) /\ m <= y /\ ~(n + 1 <= m)
      BY <1>1, <1>2, <1>3, <1>6
    <3>2. \A m \in Marks(c) : ~(n + 1 <= m) => m \in Marks(f) /\ m <= n
      BY <1>1, <1>2
    <3>3. \A m \in Marks(c) : /\ m <= y <=> m <= n + (y - n)
                              /\ n + 1 <= m => x <= m
      BY <1>1, <1>2, <1>6
    <3> QED BY <3>1, <3>2, <3>3
  <2>2. IsFiniteSet(A) /\ IsFiniteSet(B) /\ Cardinality(A) \in Nat /\ Cardinality(B) \in Nat
    BY <1>1, MarksType, FS_CardinalityType
  <2>3. Cardinality(C) = Cardinality(A) + Cardinality(B)
    <3> HIDE DEF A, B, C
    <3>1. Cardinality(C) = Cardinality(A) + Cardinality(B) - Cardinality({})
      BY <2>1, <2>2, FS_Union
    <3> QED BY <2>2, <3>1, FS_EmptySet
  <2>4. Cardinality(A) = MarksIn(f, x, n) /\ Cardinality(C) = MarksIn(c, x, y)
        /\ Cardinality(B) = MarksIn(c, n + 1, n + (y - n))
    BY DEF MarksIn
  <2>5. y - n \in Nat
    BY <1>1, <1>6
  <2>6. MarksIn(c, n + 1, n + (y - n)) = MarksIn(b, 1, y - n)
    BY <1>4, <2>5
  <2> HIDE DEF A, B, C
  <2> QED BY <2>3, <2>4, <2>6
<1> QED BY <1>4, <1>5, <1>6

(* The marks before a position, there and behind it.                       *)
LEMMA MarksAround ==
  ASSUME NEW b \in Seq(Deltas), NEW i \in 1 .. Len(b)
  PROVE  MarksIn(b, 1, Len(b)) =
           MarksIn(b, 1, i - 1) + MarksIn(b, i + 1, Len(b)) + (IF lines[b[i]] = "mark" THEN 1 ELSE 0)
<1> DEFINE A == {m \in Marks(b) : 1 <= m /\ m <= i - 1}
           B == {m \in Marks(b) : i + 1 <= m /\ m <= Len(b)}
           C == {m \in Marks(b) : 1 <= m /\ m <= Len(b)}
<1>1. /\ Marks(b) \subseteq 1 .. Len(b) /\ Len(b) \in Nat
      /\ IsFiniteSet(A) /\ IsFiniteSet(B) /\ Cardinality(A) \in Nat /\ Cardinality(B) \in Nat
  BY MarksType, FS_CardinalityType
<1>2. i \in Marks(b) <=> lines[b[i]] = "mark"
  BY DEF Marks
<1>3. A \cap B = {} /\ i \notin A \cup B
  BY <1>1
<1>4. C = IF i \in Marks(b) THEN (A \cup B) \cup {i} ELSE A \cup B
  <2>1. \A m \in Marks(b) : /\ 1 <= m /\ m <= Len(b)
                            /\ m = i \/ m <= i - 1 \/ i + 1 <= m
    BY <1>1
  <2> QED BY <2>1
<1>5. Cardinality(A) = MarksIn(b, 1, i - 1) /\ Cardinality(B) = MarksIn(b, i + 1, Len(b))
      /\ Cardinality(C) = MarksIn(b, 1, Len(b))
  BY DEF MarksIn
<1> HIDE DEF A, B, C
<1>6. IsFiniteSet(A \cup B) /\ Cardinality(A \cup B) = Cardinality(A) + Cardinality(B)
  <2>1. IsFiniteSet(A \cup B) /\ Cardinality(A \cup B) = Cardinality(A) + Cardinality(B) - Cardinality({})
    BY <1>1, <1>3, FS_Union
  <2> QED BY <1>1, <2>1, FS_EmptySet
<1>7. CASE i \in Marks(b)
  <2>1. Cardinality(C) = Cardinality(A \cup B) + 1
    BY <1>3, <1>4, <1>6, <1>7, FS_AddElement
  <2> QED BY <1>2, <1>5, <1>6, <1>7, <2>1
<1>8. CASE i \notin Marks(b)
  <2>1. Cardinality(C) = Cardinality(A) + Cardinality(B)
    BY <1>4, <1>6, <1>8
  <2> QED BY <1>1, <1>2, <1>5, <1>8, <2>1
<1> QED BY <1>7, <1>8

-----------------------------------------------------------------------------
(* What is an answer in a text, and whether a cut falls inside a thought.  *)
AnsweredIn(f) == {f[i] : i \in {j \in DOMAIN f : Answered(f, j)}}

CutsAThought(f, C) ==
  \E c \in C : MarksIn(f, 1, c) % 2 = 1 /\ MarksIn(f, c + 1, Len(f)) > 0

LEMMA ParityFacts ==
  /\ \A n \in Nat : n % 2 = 0 <=> ~(n % 2 = 1)
  /\ \A n, m \in Nat : n % 2 = 0 => ((n + m) % 2 = 0 <=> m % 2 = 0)
  /\ \A n \in Nat : (n + 1) % 2 = 0 <=> ~(n % 2 = 0)
OBVIOUS

(* If no cut is in a thought, what a further buffer shows is the answer in *)
(* it, and what was the answer before it still is.                         *)
LEMMA FlushedAnswer ==
  ASSUME NEW f \in Seq(Deltas), NEW b \in Seq(Deltas),
         \A i \in DOMAIN (f \o b) : IsDelta((f \o b)[i]),
         NEW C, C \subseteq 0 .. Len(f), Len(f) \in C \cup {0}, ~CutsAThought(f \o b, C)
  PROVE  ~CutsAThought(f, C) /\ AnsweredIn(f \o b) = AnsweredIn(f) \cup Cleaned(b)
<1> DEFINE c == f \o b
           n == Len(f)
           l == Len(b)
           total == MarksIn(f, 1, n)
           more == MarksIn(b, 1, l)
<1>1. /\ total = MarksIn(f, 1, n) /\ more = MarksIn(b, 1, l) /\ n = Len(f) /\ l = Len(b)
      /\ c = f \o b
  OBVIOUS
<1>2. (\A i \in DOMAIN c : IsDelta(c[i])) /\ ~CutsAThought(c, C)
  OBVIOUS
<1>3. /\ n \in Nat /\ l \in Nat /\ c \in Seq(Deltas) /\ Len(c) = n + l
      /\ \A i \in 1 .. n : c[i] = f[i]
      /\ \A i \in 1 .. l : c[n + i] = b[i]
  <2>1. n \in Nat /\ l \in Nat
    OBVIOUS
  <2> QED BY <2>1, ConcatProperties
<1>4. /\ total \in Nat /\ more \in Nat
      /\ \A x, y : MarksIn(f, x, y) \in Nat /\ MarksIn(b, x, y) \in Nat /\ MarksIn(c, x, y) \in Nat
  BY <1>3, MarksType
<1> HIDE DEF c, n, l, total, more
<1>5. \A x, y \in Nat :
        /\ y <= n => MarksIn(c, x, y) = MarksIn(f, x, y)
        /\ (x <= n + 1 /\ y >= n) => MarksIn(c, x, y) = MarksIn(f, x, n) + MarksIn(b, 1, y - n)
        /\ x >= 1 => MarksIn(c, n + x, n + y) = MarksIn(b, x, y)
  <2>1. \A x, y \in Nat :
          /\ y <= Len(f) => MarksIn(f \o b, x, y) = MarksIn(f, x, y)
          /\ (x <= Len(f) + 1 /\ y >= Len(f)) =>
               MarksIn(f \o b, x, y) = MarksIn(f, x, Len(f)) + MarksIn(b, 1, y - Len(f))
          /\ x >= 1 => MarksIn(f \o b, Len(f) + x, Len(f) + y) = MarksIn(b, x, y)
    BY MarksInRow
  <2> QED BY <1>1, <2>1 DEF n, c
<1>6. /\ \A y \in 0 .. n : MarksIn(c, 1, y) = MarksIn(f, 1, y)
      /\ \A x \in 0 .. n : MarksIn(c, x + 1, n + l) = MarksIn(f, x + 1, n) + more
      /\ \A k \in 1 .. l : /\ MarksIn(c, 1, n + k - 1) = total + MarksIn(b, 1, k - 1)
                           /\ MarksIn(c, n + k + 1, n + l) = MarksIn(b, k + 1, l)
      /\ MarksIn(c, n + 1, n + l) = more
  <2>1. ASSUME NEW y \in 0 .. n PROVE MarksIn(c, 1, y) = MarksIn(f, 1, y)
    <3>1. y \in Nat /\ y <= n
      BY <1>3
    <3> QED BY <1>5, <3>1
  <2>2. ASSUME NEW x \in 0 .. n PROVE MarksIn(c, x + 1, n + l) = MarksIn(f, x + 1, n) + more
    <3>1. x + 1 \in Nat /\ n + l \in Nat /\ x + 1 <= n + 1 /\ n + l >= n /\ (n + l) - n = l
      BY <1>3
    <3> QED BY <1>5, <1>1, <3>1
  <2>3. ASSUME NEW k \in 1 .. l
        PROVE  /\ MarksIn(c, 1, n + k - 1) = total + MarksIn(b, 1, k - 1)
               /\ MarksIn(c, n + k + 1, n + l) = MarksIn(b, k + 1, l)
    <3>1. n + k - 1 \in Nat /\ 1 <= n + 1 /\ n + k - 1 >= n /\ (n + k - 1) - n = k - 1
      BY <1>3
    <3>2. k + 1 \in Nat /\ k + 1 >= 1 /\ n + k + 1 = n + (k + 1)
      BY <1>3
    <3>3. MarksIn(c, 1, n + k - 1) = total + MarksIn(b, 1, k - 1)
      BY <1>5, <1>1, <3>1
    <3>4. MarksIn(c, n + (k + 1), n + l) = MarksIn(b, k + 1, l)
      BY <1>3, <1>5, <3>2
    <3> QED BY <3>2, <3>3, <3>4
  <2>4. MarksIn(c, n + 1, n + l) = more
    <3>1. 1 \in Nat /\ l \in Nat /\ 1 >= 1
      BY <1>3
    <3>2. MarksIn(c, n + 1, n + l) = MarksIn(b, 1, l)
      BY <1>5, <3>1
    <3> QED BY <1>1, <3>2
  <2> QED BY <2>1, <2>2, <2>3, <2>4
<1>7. ~CutsAThought(f, C)
  <2> SUFFICES ASSUME NEW x \in C, MarksIn(f, 1, x) % 2 = 1, MarksIn(f, x + 1, Len(f)) > 0
               PROVE  FALSE
    BY DEF CutsAThought
  <2>1. MarksIn(c, 1, x) % 2 = 1 /\ MarksIn(c, x + 1, Len(c)) > 0
    <3>1. x \in 0 .. n /\ MarksIn(c, x + 1, Len(c)) = MarksIn(f, x + 1, n) + more
      BY <1>3, <1>6, <1>1
    <3>2. MarksIn(c, 1, x) = MarksIn(f, 1, x)
      BY <1>6, <3>1
    <3>3. MarksIn(f, x + 1, n) \in Nat /\ MarksIn(f, x + 1, n) > 0
      BY <1>4, <1>1
    <3> QED BY <1>4, <3>1, <3>2, <3>3
  <2> QED BY <1>2, <2>1 DEF CutsAThought
<1>8. total % 2 = 0 \/ more = 0
  <2>0. n \in C \/ n = 0
    BY <1>1
  <2>1. CASE n \in C
    <3>1. MarksIn(c, 1, n) = total /\ MarksIn(c, n + 1, Len(c)) = more
      <4>1. n \in 0 .. n
        BY <1>3
      <4> QED BY <1>3, <1>6, <1>1, <4>1
    <3>2. ~(total % 2 = 1 /\ more > 0)
      BY <1>2, <2>1, <3>1 DEF CutsAThought
    <3> QED BY <1>4, <3>2, ParityFacts
  <2>2. CASE n = 0
    <3>1. Marks(f) = {}
      <4>1. Marks(f) \subseteq 1 .. 0
        BY <1>1, <2>2, MarksType
      <4> QED BY <4>1
    <3>2. total = Cardinality({})
      BY <1>1, <3>1 DEF MarksIn
    <3> QED BY <3>2, FS_EmptySet
  <2> QED BY <2>0, <2>1, <2>2
<1>9. ASSUME NEW i \in 1 .. n
      PROVE  Answered(c, i) <=> Answered(f, i)
  <2> DEFINE before == MarksIn(f, 1, i - 1)
             after == MarksIn(f, i + 1, n)
  <2>1. MarksIn(c, 1, i - 1) = before /\ MarksIn(c, i + 1, Len(c)) = after + more
    BY <1>3, <1>6
  <2>2. before \in Nat /\ after \in Nat
    BY <1>4
  <2>3. total = before + after + (IF lines[f[i]] = "mark" THEN 1 ELSE 0)
    BY <1>1, MarksAround
  <2>4. Answered(f, i) <=> \/ lines[f[i]] = "text" /\ (before % 2 = 0 \/ after = 0)
                           \/ lines[f[i]] = "mark" /\ before % 2 = 0 /\ after = 0
    BY <1>1 DEF Answered
  <2>5. Answered(c, i) <=> \/ lines[f[i]] = "text" /\ (before % 2 = 0 \/ after + more = 0)
                           \/ lines[f[i]] = "mark" /\ before % 2 = 0 /\ after + more = 0
    BY <1>3, <2>1 DEF Answered
  <2> HIDE DEF before, after
  <2>6. CASE more = 0
    BY <2>2, <2>4, <2>5, <2>6
  <2>7. CASE more # 0 /\ lines[f[i]] = "mark"
    <3>1. (before + after + 1) % 2 = 0
      BY <1>8, <2>3, <2>7
    <3>2. ~(before % 2 = 0 /\ after = 0)
      <4>1. SUFFICES ASSUME before % 2 = 0, after = 0 PROVE FALSE
        OBVIOUS
      <4>2. before + after + 1 = before + 1
        BY <2>2, <4>1
      <4> QED BY <2>2, <3>1, <4>1, <4>2, ParityFacts
    <3>3. after + more # 0
      BY <1>4, <2>2, <2>7
    <3> QED BY <2>4, <2>5, <2>7, <3>2, <3>3
  <2>8. CASE more # 0 /\ lines[f[i]] # "mark"
    <3>1. (before + after) % 2 = 0
      BY <1>8, <2>2, <2>3, <2>8
    <3>2. after = 0 => before % 2 = 0
      BY <2>2, <3>1
    <3>3. after + more # 0
      BY <1>4, <2>2, <2>8
    <3> QED BY <2>4, <2>5, <2>8, <3>2, <3>3
  <2> QED BY <2>6, <2>7, <2>8
<1>10. ASSUME NEW k \in 1 .. l
      PROVE  Answered(c, n + k) <=> Answered(b, k)
  <2> DEFINE before == MarksIn(b, 1, k - 1)
             after == MarksIn(b, k + 1, l)
  <2>1. MarksIn(c, 1, n + k - 1) = total + before /\ MarksIn(c, n + k + 1, Len(c)) = after
    BY <1>3, <1>6
  <2>2. before \in Nat /\ after \in Nat
    BY <1>4
  <2>3. more = before + after + (IF lines[b[k]] = "mark" THEN 1 ELSE 0)
    BY <1>1, MarksAround
  <2>4. Answered(b, k) <=> \/ lines[b[k]] = "text" /\ (before % 2 = 0 \/ after = 0)
                           \/ lines[b[k]] = "mark" /\ before % 2 = 0 /\ after = 0
    BY <1>1 DEF Answered
  <2>5. Answered(c, n + k) <=> \/ lines[b[k]] = "text" /\ ((total + before) % 2 = 0 \/ after = 0)
                               \/ lines[b[k]] = "mark" /\ (total + before) % 2 = 0 /\ after = 0
    BY <1>3, <2>1 DEF Answered
  <2> HIDE DEF before, after
  <2>6. CASE total % 2 = 0
    <3>1. (total + before) % 2 = 0 <=> before % 2 = 0
      BY <1>4, <2>2, <2>6, ParityFacts
    <3> QED BY <2>4, <2>5, <3>1
  <2>7. CASE more = 0
    <3>1. after = 0 /\ lines[b[k]] # "mark"
      BY <2>2, <2>3, <2>7
    <3> QED BY <2>4, <2>5, <3>1
  <2> QED BY <1>8, <2>6, <2>7
<1>11. Cleaned(b) = AnsweredIn(b)
  <2>1. ASSUME NEW k \in DOMAIN b PROVE IsDelta(b[k])
    <3>1. k \in 1 .. l /\ n + k \in 1 .. Len(c) /\ c[n + k] = b[k]
      BY <1>3, <1>1
    <3>2. IsDelta(c[n + k])
      BY <1>3, <1>2, <3>1
    <3> QED BY <3>1, <3>2
  <2>2. \A k \in DOMAIN b : IsShown(b, k) <=> Answered(b, k)
    BY <2>1, ShownIfAnswered
  <2> QED BY <2>2 DEF Cleaned, AnsweredIn
<1>12. AnsweredIn(c) = AnsweredIn(f) \cup AnsweredIn(b)
  <2>0. DOMAIN f = 1 .. n /\ DOMAIN b = 1 .. l /\ DOMAIN c = 1 .. n + l
    BY <1>3, <1>1
  <2>1. \A d : d \in AnsweredIn(c) <=> \E i \in 1 .. n + l : Answered(c, i) /\ d = c[i]
    BY <2>0 DEF AnsweredIn
  <2>2. \A d : d \in AnsweredIn(f) <=> \E i \in 1 .. n : Answered(f, i) /\ d = f[i]
    BY <2>0 DEF AnsweredIn
  <2>3. \A d : d \in AnsweredIn(b) <=> \E i \in 1 .. l : Answered(b, i) /\ d = b[i]
    BY <2>0 DEF AnsweredIn
  <2>4. ASSUME NEW d \in AnsweredIn(c) PROVE d \in AnsweredIn(f) \cup AnsweredIn(b)
    <3>1. PICK i \in 1 .. n + l : Answered(c, i) /\ d = c[i]
      BY <2>1, <2>4
    <3>2. CASE i <= n
      <4>1. i \in 1 .. n
        BY <1>3, <3>2
      <4> QED BY <1>3, <1>9, <2>2, <3>1, <4>1
    <3>3. CASE ~(i <= n)
      <4>1. i - n \in 1 .. l /\ n + (i - n) = i
        BY <1>3, <3>3
      <4>2. Answered(b, i - n) /\ d = b[i - n]
        BY <1>3, <1>10, <3>1, <4>1
      <4> QED BY <2>3, <4>1, <4>2
    <3> QED BY <3>2, <3>3
  <2>5. ASSUME NEW d \in AnsweredIn(f) PROVE d \in AnsweredIn(c)
    <3>1. PICK i \in 1 .. n : Answered(f, i) /\ d = f[i]
      BY <2>2, <2>5
    <3>2. i \in 1 .. n + l
      BY <1>3
    <3> QED BY <1>3, <1>9, <2>1, <3>1, <3>2
  <2>6. ASSUME NEW d \in AnsweredIn(b) PROVE d \in AnsweredIn(c)
    <3>1. PICK k \in 1 .. l : Answered(b, k) /\ d = b[k]
      BY <2>3, <2>6
    <3>2. n + k \in 1 .. n + l
      BY <1>3
    <3> QED BY <1>3, <1>10, <2>1, <3>1, <3>2
  <2> QED BY <2>4, <2>5, <2>6
<1> QED BY <1>7, <1>11, <1>12 DEF c

-----------------------------------------------------------------------------
(* While deltas come in, everything flushed ends at a cut.                 *)
FlushedAtCut == hpc = "recv" => Len(flushed) \in cuts \cup {0}

(* What has been shown is the answer in what has been flushed, also before *)
(* the reply is over.                                                      *)
HiddenSoFar == ~CutsAThought(flushed, cuts) => shown = AnsweredIn(flushed)

HiddenInv == FlushedAtCut /\ HiddenSoFar

(* Whatever has been flushed, or is about to be, comes from the reply.     *)
LEMMA FromTheReply ==
  ASSUME StreamInv, NEW f \in Seq(Deltas), NEW r \in Seq(Deltas), full = f \o r
  PROVE  \A i \in DOMAIN f : IsDelta(f[i])
<1>1. /\ Len(f) \in Nat /\ Len(f \o r) = Len(f) + Len(r) /\ Len(r) \in Nat
      /\ \A i \in 1 .. Len(f) : (f \o r)[i] = f[i]
  BY ConcatProperties
<1>2. \A i \in 1 .. Len(full) : IsDelta(full[i])
  <2>1. full \in Seq(Deltas)
    BY DEF StreamInv, TypeOK
  <2>2. DOMAIN full = 1 .. Len(full)
    BY <2>1
  <2>3. ToSet(full) = {full[i] : i \in DOMAIN full}
    BY DEF ToSet
  <2>4. \A d \in ToSet(full) : IsDelta(d)
    BY DEF StreamInv, ReplyOfParsed
  <2> QED BY <2>2, <2>3, <2>4
<1>3. \A i \in 1 .. Len(f) : i \in 1 .. Len(full) /\ full[i] = f[i]
  BY <1>1
<1> QED BY <1>2, <1>3

LEMMA DeltasTaken ==
  ASSUME StreamInv, Handling
  PROVE  /\ TakeDelta => LET b == Append(buffer, Head(channel).line)
                         IN  b \in Seq(Deltas) /\ \A i \in DOMAIN (flushed \o b) : IsDelta((flushed \o b)[i])
         /\ \A i \in DOMAIN (flushed \o buffer) : IsDelta((flushed \o buffer)[i])
<1> USE DEF StreamInv, FlowInv
<1>1. /\ flushed \in Seq(Deltas) /\ buffer \in Seq(Deltas) /\ channel \in Seq(Events)
      /\ LinesIn(channel) \in Seq(Deltas) /\ flushed \o buffer \in Seq(Deltas)
      /\ \A i \in 1 .. Len(channel) - 1 : channel[i].tag = "Delta"
  BY ChannelLines, ConcatProperties DEF TypeOK, LastEventLast
<1>2. AboutToSend \in Seq(Deltas)
  <2>1. ppc = "send" => event.line \in Deltas
    BY EventTypes DEF EventInTurn
  <2> QED BY <2>1 DEF AboutToSend
<1>3. \A i \in DOMAIN (flushed \o buffer) : IsDelta((flushed \o buffer)[i])
  <2> DEFINE k == LinesIn(channel)
             a == AboutToSend
             f == flushed \o buffer
  <2>1. k \in Seq(Deltas) /\ a \in Seq(Deltas) /\ f \in Seq(Deltas) /\ full = f \o k \o a
    BY <1>1, <1>2 DEF InFlow
  <2> HIDE DEF k, a, f
  <2>2. full = f \o (k \o a) /\ k \o a \in Seq(Deltas)
    BY <2>1, ConcatAssociative, ConcatProperties
  <2>3. \A i \in DOMAIN f : IsDelta(f[i])
    BY <2>1, <2>2, FromTheReply
  <2> QED BY <2>3 DEF f
<1>4. ASSUME TakeDelta
      PROVE  LET b == Append(buffer, Head(channel).line)
             IN  b \in Seq(Deltas) /\ \A i \in DOMAIN (flushed \o b) : IsDelta((flushed \o b)[i])
  <2> DEFINE n == Head(channel).line
             b == Append(buffer, n)
             k == LinesIn(channel)
             c == LinesIn(Tail(channel))
             a == AboutToSend
             g == flushed \o b
  <2>1. n \in Deltas /\ b \in Seq(Deltas) /\ k = <<n>> \o c /\ c \in Seq(Deltas)
    <3>1. channel # <<>> /\ Head(channel).tag = "Delta" /\ n \in Deltas
      BY <1>4, TakenDelta DEF TakeDelta
    <3> QED BY <1>1, <3>1, DeltaTaken
  <2>2. full = flushed \o buffer \o k \o a /\ b = Append(buffer, n) /\ a \in Seq(Deltas)
    BY <1>2 DEF InFlow
  <2>3. g = flushed \o b
    OBVIOUS
  <2> HIDE DEF n, k, c, b, a, g
  <2>4. flushed \o buffer \o k = flushed \o Append(buffer, n) \o c
    <3>1. /\ c \in Seq(Deltas) /\ n \in Deltas /\ k = <<n>> \o c
          /\ flushed \in Seq(Deltas) /\ buffer \in Seq(Deltas)
      BY <1>1, <2>1
    <3> QED BY <3>1, MovesOn
  <2>5. g \in Seq(Deltas) /\ full = g \o c \o a
    BY <1>1, <2>1, <2>2, <2>3, <2>4, ConcatProperties
  <2>6. full = g \o (c \o a) /\ c \o a \in Seq(Deltas)
    <3>1. c \in Seq(Deltas) /\ a \in Seq(Deltas) /\ g \in Seq(Deltas)
      BY <2>1, <2>2, <2>5
    <3>2. g \o c \o a = g \o (c \o a)
      BY <3>1, ConcatAssociative
    <3>3. c \o a \in Seq(Deltas)
      BY <3>1, ConcatProperties
    <3> QED BY <2>5, <3>2, <3>3
  <2>7. \A i \in DOMAIN g : IsDelta(g[i])
    BY <2>5, <2>6, FromTheReply
  <2> QED BY <2>1, <2>7 DEF g, b, n
<1> QED BY <1>3, <1>4

LEMMA StepHidden == StreamInv /\ HiddenInv /\ [Next]_vars => HiddenInv'
<1> SUFFICES ASSUME StreamInv, HiddenInv, [Next]_vars PROVE HiddenInv'
  OBVIOUS
<1>0. /\ flushed \in Seq(Deltas) /\ buffer \in Seq(Deltas) /\ Len(flushed) \in Nat
      /\ cuts \subseteq 0 .. Len(flushed)
  BY DEF StreamInv, TypeOK
<1>1. lines' = lines
  BY DEF Next, Incoming, Processing, Handling, Receive, Break, End, ParseLine, NextChunk,
         SendDelta, Record, SendLast, TakeDelta, TakeLast, Terminated, vars, processor
<1>2. (HiddenSoFar)' <=> (~CutsAThought(flushed', cuts') => shown' = AnsweredIn(flushed'))
  BY <1>1 DEF HiddenSoFar, CutsAThought, AnsweredIn, Answered, MarksIn, Marks
<1>3. ASSUME NEW b \in Seq(Deltas), Flush(b), cuts \subseteq cuts', hpc = "recv",
             \A i \in DOMAIN (flushed \o b) : IsDelta((flushed \o b)[i])
      PROVE  HiddenSoFar'
  <2>1. flushed' = flushed \o b /\ shown' = shown \cup Cleaned(b)
    BY <1>3 DEF Flush
  <2> SUFFICES ASSUME ~CutsAThought(flushed \o b, cuts')
               PROVE  shown' = AnsweredIn(flushed \o b)
    BY <1>2, <2>1
  <2>2. ~CutsAThought(flushed \o b, cuts)
    BY <1>3 DEF CutsAThought
  <2>3. Len(flushed) \in cuts \cup {0}
    BY <1>3 DEF HiddenInv, FlushedAtCut
  <2>4. ~CutsAThought(flushed, cuts) /\ AnsweredIn(flushed \o b) = AnsweredIn(flushed) \cup Cleaned(b)
    BY <1>0, <1>3, <2>2, <2>3, FlushedAnswer
  <2>5. shown = AnsweredIn(flushed)
    BY <2>4 DEF HiddenInv, HiddenSoFar
  <2> QED BY <2>1, <2>4, <2>5
<1>4. CASE UNCHANGED <<flushed, cuts, shown, hpc>>
  <2>1. HiddenSoFar'
    BY <1>2, <1>4 DEF HiddenInv, HiddenSoFar
  <2> QED BY <1>4, <2>1 DEF HiddenInv, FlushedAtCut
<1>5. CASE TakeDelta
  <2> DEFINE b == Append(buffer, Head(channel).line)
  <2>1. hpc = "recv" /\ hpc' = hpc
    BY <1>5 DEF TakeDelta
  <2>2. CASE BufferFull(b)
    <3>1. Flush(b) /\ cuts' = cuts \cup {Len(flushed \o b)}
      BY <1>5, <2>2 DEF TakeDelta
    <3>2. b \in Seq(Deltas) /\ \A i \in DOMAIN (flushed \o b) : IsDelta((flushed \o b)[i])
      BY <1>5, DeltasTaken DEF Handling
    <3> HIDE DEF b
    <3>3. HiddenSoFar'
      BY <1>3, <2>1, <3>1, <3>2
    <3>4. FlushedAtCut'
      BY <3>1 DEF Flush, FlushedAtCut
    <3> QED BY <3>3, <3>4 DEF HiddenInv
  <2>3. CASE ~BufferFull(b)
    BY <1>4, <1>5, <2>3 DEF TakeDelta
  <2> QED BY <2>2, <2>3
<1>6. CASE TakeLast
  <2>1. Flush(buffer) /\ cuts' = cuts /\ hpc = "recv" /\ hpc' = "done"
    BY <1>6 DEF TakeLast, Remainder
  <2>2. \A i \in DOMAIN (flushed \o buffer) : IsDelta((flushed \o buffer)[i])
    BY <1>6, DeltasTaken DEF Handling
  <2>3. HiddenSoFar'
    BY <1>0, <1>3, <2>1, <2>2
  <2>4. FlushedAtCut'
    BY <2>1 DEF FlushedAtCut
  <2> QED BY <2>3, <2>4 DEF HiddenInv
<1>7. CASE Incoming \/ Processing \/ Terminated \/ UNCHANGED vars
  <2>1. UNCHANGED <<flushed, cuts, shown, hpc>>
    BY <1>7 DEF Incoming, Processing, Receive, Break, End, ParseLine, NextChunk, SendDelta,
                Record, SendLast, Terminated, vars, handler
  <2> QED BY <1>4, <2>1
<1> QED BY <1>5, <1>6, <1>7 DEF Next, Handling

(* However a reply is cut into messages, the user reads the answer without *)
(* the thoughts in it, provided no cut falls inside a thought: cleaning    *)
(* the messages one by one then hides what cleaning them at once hides.    *)
THEOREM ThoughtsStayHidden == Spec => []ThoughtsHidden
<1>1. Init => HiddenInv
  <2> SUFFICES ASSUME Init PROVE HiddenInv
    OBVIOUS
  <2>1. flushed = <<>> /\ shown = {}
    BY DEF Init
  <2>2. AnsweredIn(<<>>) = {}
    BY DEF AnsweredIn
  <2> QED BY <2>1, <2>2 DEF HiddenInv, HiddenSoFar, FlushedAtCut
<1>2. HiddenInv => ThoughtsHidden
  <2>1. CutInThought(flushed) <=> CutsAThought(flushed, cuts)
    BY DEF CutInThought, CutsAThought
  <2> QED BY <2>1 DEF HiddenInv, HiddenSoFar, ThoughtsHidden, AnsweredIn
<1> QED BY <1>1, <1>2, StepHidden, StreamInvariant, PTL DEF Spec

-----------------------------------------------------------------------------
(* split_message: texts, and those of separators only.                     *)
Strings == Seq(Bytes)
Blank(t) == \A i \in DOMAIN t : IsSpace(t[i])

(* The ink of a text is built up byte by byte: a step of the recursion.    *)
InkStep(t, g, i) ==
  g[i] = IF i = 0 THEN <<>> ELSE IF IsSpace(t[i]) THEN g[i - 1] ELSE Append(g[i - 1], t[i])

InkUpTo(t, n, g) ==
  g = [i \in 0 .. n |->
         IF i = 0 THEN <<>> ELSE IF IsSpace(t[i]) THEN g[i - 1] ELSE Append(g[i - 1], t[i])]

(* There is a function that follows the recursion up to any number.        *)
LEMMA InkDefined ==
  ASSUME NEW t
  PROVE  \A n \in Nat : \E g : InkUpTo(t, n, g)
<1> DEFINE T == {n \in Nat : ~\E g : InkUpTo(t, n, g)}
<1> SUFFICES ASSUME T # {} PROVE FALSE
  OBVIOUS
<1>1. PICK n \in T : \A m \in T : n <= m
  BY Smallest
<1>2. CASE n = 0
  <2> DEFINE g == [i \in 0 .. 0 |-> <<>>]
  <2>1. InkUpTo(t, 0, g)
    BY DEF InkUpTo
  <2> QED BY <1>1, <1>2, <2>1
<1>3. CASE n # 0
  <2>1. n - 1 \in Nat /\ n - 1 \notin T
    BY <1>1, <1>3
  <2>2. PICK g : InkUpTo(t, n - 1, g)
    BY <2>1
  <2> DEFINE h == [i \in 0 .. n |->
                     IF i = n THEN (IF IsSpace(t[n]) THEN g[n - 1] ELSE Append(g[n - 1], t[n])) ELSE g[i]]
  <2>3. \A i \in 0 .. n - 1 : h[i] = g[i]
    BY <1>1
  <2>4. \A i \in 0 .. n - 1 :
          g[i] = IF i = 0 THEN <<>> ELSE IF IsSpace(t[i]) THEN g[i - 1] ELSE Append(g[i - 1], t[i])
    BY <2>2, Zenon DEF InkUpTo
  <2>5. \A i \in 0 .. n :
          h[i] = IF i = 0 THEN <<>> ELSE IF IsSpace(t[i]) THEN h[i - 1] ELSE Append(h[i - 1], t[i])
    BY <1>1, <1>3, <2>1, <2>3, <2>4
  <2>6. InkUpTo(t, n, h)
    BY <2>5 DEF InkUpTo
  <2> QED BY <1>1, <2>6
<1> QED BY <1>2, <1>3

LEMMA InkByBytes ==
  ASSUME NEW t \in Strings
  PROVE  \E g : Ink(t) = g[Len(t)] /\ \A i \in 0 .. Len(t) : InkStep(t, g, i)
<1> DEFINE n == Len(t)
           f == CHOOSE g : InkUpTo(t, n, g)
<1>1. n \in Nat
  BY DEF Strings
<1>2. Ink(t) = f[n]
  BY DEF Ink, InkUpTo
<1>3. InkUpTo(t, n, f)
  <2> HIDE DEF n
  <2> QED BY <1>1, InkDefined, Zenon
<1> HIDE DEF f
<1>4. \A i \in 0 .. n : InkStep(t, f, i)
  BY <1>3, Zenon DEF InkUpTo, InkStep
<1> QED BY <1>2, <1>4

LEMMA InkOfEmpty == Ink(<<>>) = <<>>
<1>1. <<>> \in Strings /\ Len(<<>>) = 0
  BY DEF Strings
<1>2. PICK g : Ink(<<>>) = g[0] /\ \A i \in 0 .. 0 : InkStep(<<>>, g, i)
  BY <1>1, InkByBytes
<1> QED BY <1>2 DEF InkStep

LEMMA InkOfAppend ==
  ASSUME NEW s \in Strings, NEW x \in Bytes
  PROVE  Ink(Append(s, x)) = IF IsSpace(x) THEN Ink(s) ELSE Append(Ink(s), x)
<1> DEFINE t == Append(s, x)
           n == Len(s)
<1>1. /\ t \in Strings /\ Len(t) = n + 1 /\ n \in Nat /\ t[n + 1] = x
      /\ \A i \in 1 .. n : t[i] = s[i]
  BY DEF Strings
<1>2. PICK g : Ink(s) = g[n] /\ \A i \in 0 .. n : InkStep(s, g, i)
  BY InkByBytes
<1>3. PICK h : Ink(t) = h[n + 1] /\ \A i \in 0 .. n + 1 : InkStep(t, h, i)
  BY <1>1, InkByBytes
<1> HIDE DEF t, n
<1>4. \A i \in 0 .. n : g[i] = h[i]
  <2> DEFINE T == {i \in 0 .. n : g[i] # h[i]}
  <2> SUFFICES ASSUME T # {} PROVE FALSE
    OBVIOUS
  <2>0. T \subseteq Nat
    BY <1>1
  <2>1. PICK i \in T : \A j \in T : i <= j
    BY <2>0, Smallest
  <2>2. InkStep(s, g, i) /\ InkStep(t, h, i) /\ i \in 0 .. n /\ g[i] # h[i]
    BY <1>1, <1>2, <1>3
  <2>3. CASE i = 0
    BY <2>2, <2>3 DEF InkStep
  <2>4. CASE i # 0
    <3>1. i - 1 \in 0 .. n /\ i - 1 \notin T /\ i \in 1 .. n
      BY <1>1, <2>1, <2>2, <2>4
    <3>2. g[i - 1] = h[i - 1] /\ t[i] = s[i]
      BY <1>1, <3>1
    <3> QED BY <2>2, <2>4, <3>2 DEF InkStep
  <2> QED BY <2>3, <2>4
<1>5. h[n + 1] = IF IsSpace(x) THEN h[n] ELSE Append(h[n], x)
  <2>1. InkStep(t, h, n + 1) /\ n + 1 # 0 /\ (n + 1) - 1 = n
    BY <1>1, <1>3
  <2> QED BY <1>1, <2>1 DEF InkStep
<1>6. g[n] = h[n]
  BY <1>1, <1>4
<1> QED BY <1>2, <1>3, <1>5, <1>6 DEF t

(* The ink of a text is text, and that of its parts in a row.              *)
LEMMA InkType ==
  ASSUME NEW t \in Strings
  PROVE  Ink(t) \in Strings
<1> DEFINE P == {s \in Strings : Ink(s) \in Strings}
<1>1. <<>> \in P
  <2>1. <<>> \in Strings /\ Ink(<<>>) \in Strings
    BY InkOfEmpty, EmptySeq DEF Strings
  <2> QED BY <2>1, Zenon
<1>2. ASSUME NEW s \in Strings, NEW x \in Bytes, s \in P PROVE Append(s, x) \in P
  <2>1. Append(s, x) \in Strings /\ Append(Ink(s), x) \in Strings
    BY <1>2 DEF Strings
  <2> QED BY <1>2, <2>1, InkOfAppend
<1>3. \A s \in Strings : s \in P
  <2> HIDE DEF P
  <2> QED BY <1>1, <1>2, AppendInduction DEF Strings
<1> QED BY <1>3

LEMMA InkOfConcat ==
  ASSUME NEW a \in Strings, NEW b \in Strings
  PROVE  Ink(a \o b) = Ink(a) \o Ink(b)
<1> DEFINE P == {s \in Strings : Ink(a \o s) = Ink(a) \o Ink(s)}
<1>1. <<>> \in P
  <2>1. a \o <<>> = a /\ Ink(a) \o <<>> = Ink(a)
    BY InkType, ConcatEmptySeq DEF Strings
  <2>2. <<>> \in Strings /\ Ink(a \o <<>>) = Ink(a) \o Ink(<<>>)
    BY <2>1, InkOfEmpty, EmptySeq, Zenon DEF Strings
  <2> QED BY <2>2, Zenon
<1>2. ASSUME NEW s \in Strings, NEW x \in Bytes, s \in P PROVE Append(s, x) \in P
  <2> DEFINE k == Ink(a)
             l == Ink(s)
  <2>1. /\ Append(s, x) \in Strings /\ <<x>> \in Strings /\ a \o s \in Strings
        /\ k \in Strings /\ l \in Strings /\ Ink(a \o s) = k \o l
    BY <1>2, InkType, ConcatProperties DEF Strings
  <2>2. a \o Append(s, x) = Append(a \o s, x)
    <3>1. a \o (s \o <<x>>) = (a \o s) \o <<x>>
      BY <2>1, ConcatAssociative DEF Strings
    <3>2. Append(s, x) = s \o <<x>> /\ Append(a \o s, x) = (a \o s) \o <<x>>
      BY <2>1, AppendIsConcat DEF Strings
    <3> QED BY <3>1, <3>2
  <2>3. Ink(Append(a \o s, x)) = IF IsSpace(x) THEN k \o l ELSE Append(k \o l, x)
    BY <2>1, InkOfAppend
  <2>4. Ink(Append(s, x)) = IF IsSpace(x) THEN l ELSE Append(l, x)
    BY InkOfAppend
  <2> HIDE DEF k, l
  <2>5. Append(k \o l, x) = k \o Append(l, x)
    <3>1. k \o l \in Strings /\ k \o (l \o <<x>>) = (k \o l) \o <<x>>
      BY <2>1, ConcatAssociative, ConcatProperties DEF Strings
    <3>2. Append(l, x) = l \o <<x>> /\ Append(k \o l, x) = (k \o l) \o <<x>>
      BY <2>1, <3>1, AppendIsConcat DEF Strings
    <3> QED BY <3>1, <3>2
  <2>6. Ink(a \o Append(s, x)) = k \o Ink(Append(s, x))
    BY <2>2, <2>3, <2>4, <2>5
  <2> QED BY <2>1, <2>6 DEF k
<1>3. \A s \in Strings : s \in P
  <2> HIDE DEF P
  <2> QED BY <1>1, <1>2, AppendInduction DEF Strings
<1> QED BY <1>3

LEMMA InkOfBlank ==
  ASSUME NEW t \in Strings, Blank(t)
  PROVE  Ink(t) = <<>>
<1> DEFINE P == {s \in Strings : Blank(s) => Ink(s) = <<>>}
<1>1. <<>> \in P
  BY InkOfEmpty DEF Strings
<1>2. ASSUME NEW s \in Strings, NEW x \in Bytes, s \in P PROVE Append(s, x) \in P
  <2>1. /\ Append(s, x) \in Strings /\ Len(s) \in Nat /\ DOMAIN Append(s, x) = 1 .. Len(s) + 1
        /\ Append(s, x)[Len(s) + 1] = x /\ DOMAIN s = 1 .. Len(s)
        /\ \A i \in 1 .. Len(s) : Append(s, x)[i] = s[i]
    BY DEF Strings
  <2>2. Blank(Append(s, x)) => IsSpace(x) /\ Blank(s)
    BY <2>1 DEF Blank
  <2> QED BY <1>2, <2>1, <2>2, InkOfAppend
<1>3. \A s \in Strings : s \in P
  <2> HIDE DEF P
  <2> QED BY <1>1, <1>2, AppendInduction DEF Strings
<1> QED BY <1>3

-----------------------------------------------------------------------------
(* The same for the concatenation of pieces.                               *)
FlattenUpTo(p, n, g) == g = [i \in 1 .. n |-> IF i = 1 THEN p[i] ELSE g[i - 1] \o p[i]]

LEMMA FlattenDefined ==
  ASSUME NEW p
  PROVE  \A n \in Nat : \E g : FlattenUpTo(p, n, g)
<1> DEFINE T == {n \in Nat : ~\E g : FlattenUpTo(p, n, g)}
<1> SUFFICES ASSUME T # {} PROVE FALSE
  OBVIOUS
<1>1. PICK n \in T : \A m \in T : n <= m
  BY Smallest
<1>2. CASE n = 0
  <2> DEFINE g == [i \in 1 .. 0 |-> <<>>]
  <2>1. FlattenUpTo(p, 0, g)
    BY DEF FlattenUpTo
  <2> QED BY <1>1, <1>2, <2>1
<1>3. CASE n # 0
  <2>1. n - 1 \in Nat /\ n - 1 \notin T
    BY <1>1, <1>3
  <2>2. PICK g : FlattenUpTo(p, n - 1, g)
    BY <2>1
  <2> DEFINE h == [i \in 1 .. n |->
                     IF i = n THEN (IF n = 1 THEN p[n] ELSE g[n - 1] \o p[n]) ELSE g[i]]
  <2>3. \A i \in 1 .. n - 1 : h[i] = g[i]
    BY <1>1
  <2>4. \A i \in 1 .. n - 1 : g[i] = IF i = 1 THEN p[i] ELSE g[i - 1] \o p[i]
    BY <2>2, Zenon DEF FlattenUpTo
  <2>5. \A i \in 1 .. n : h[i] = IF i = 1 THEN p[i] ELSE h[i - 1] \o p[i]
    BY <1>1, <1>3, <2>1, <2>3, <2>4
  <2>6. FlattenUpTo(p, n, h)
    BY <2>5 DEF FlattenUpTo
  <2> QED BY <1>1, <2>6
<1> QED BY <1>2, <1>3

LEMMA FlattenByPieces ==
  ASSUME NEW p \in Seq(Strings), p # <<>>
  PROVE  \E g : /\ FlattenSeq(p) = g[Len(p)]
               /\ \A i \in 1 .. Len(p) : g[i] = IF i = 1 THEN p[i] ELSE g[i - 1] \o p[i]
<1> DEFINE n == Len(p)
           f == CHOOSE g : FlattenUpTo(p, n, g)
<1>1. n \in Nat /\ n # 0
  OBVIOUS
<1>2. FlattenSeq(p) = f[n]
  BY <1>1 DEF FlattenSeq, FlattenUpTo
<1>3. FlattenUpTo(p, n, f)
  <2> HIDE DEF n
  <2> QED BY <1>1, FlattenDefined, Zenon
<1> HIDE DEF f
<1>4. \A i \in 1 .. n : f[i] = IF i = 1 THEN p[i] ELSE f[i - 1] \o p[i]
  BY <1>3, Zenon DEF FlattenUpTo
<1> QED BY <1>2, <1>4

LEMMA FlattenOfEmpty == FlattenSeq(<<>>) = <<>>
BY DEF FlattenSeq

LEMMA FlattenOfAppend ==
  ASSUME NEW p \in Seq(Strings), NEW x \in Strings
  PROVE  FlattenSeq(Append(p, x)) = FlattenSeq(p) \o x
<1> DEFINE t == Append(p, x)
           n == Len(p)
<1>1. /\ t \in Seq(Strings) /\ t # <<>> /\ Len(t) = n + 1 /\ n \in Nat /\ t[n + 1] = x
      /\ \A i \in 1 .. n : t[i] = p[i]
  OBVIOUS
<1>2. PICK h : /\ FlattenSeq(t) = h[n + 1]
               /\ \A i \in 1 .. n + 1 : h[i] = IF i = 1 THEN t[i] ELSE h[i - 1] \o t[i]
  <2> HIDE DEF t, n
  <2> QED BY <1>1, FlattenByPieces
<1>3. CASE p = <<>>
  <2>1. n = 0 /\ h[1] = x /\ FlattenSeq(t) = h[1]
    BY <1>1, <1>2, <1>3
  <2>2. <<>> \o x = x
    BY ConcatEmptySeq DEF Strings
  <2> QED BY <1>3, <2>1, <2>2, FlattenOfEmpty
<1>4. CASE p # <<>>
  <2>1. PICK g : /\ FlattenSeq(p) = g[n]
                 /\ \A i \in 1 .. n : g[i] = IF i = 1 THEN p[i] ELSE g[i - 1] \o p[i]
    BY <1>4, FlattenByPieces
  <2>2. n >= 1
    BY <1>4
  <2> HIDE DEF t, n
  <2>3. \A i \in 1 .. n : g[i] = h[i]
    <3> DEFINE T == {i \in 1 .. n : g[i] # h[i]}
    <3> SUFFICES ASSUME T # {} PROVE FALSE
      OBVIOUS
    <3>0. T \subseteq Nat
      BY <1>1
    <3>1. PICK i \in T : \A j \in T : i <= j
      BY <3>0, Smallest
    <3>2. /\ i \in 1 .. n /\ i \in 1 .. n + 1 /\ g[i] # h[i] /\ t[i] = p[i]
      BY <1>1
    <3>3. CASE i = 1
      BY <1>2, <2>1, <3>2, <3>3
    <3>4. CASE i # 1
      <4>1. i - 1 \in 1 .. n /\ i - 1 \notin T
        BY <1>1, <3>1, <3>2, <3>4
      <4>2. g[i - 1] = h[i - 1]
        BY <4>1
      <4>3. g[i] = g[i - 1] \o p[i] /\ h[i] = h[i - 1] \o t[i]
        BY <1>2, <2>1, <3>2, <3>4
      <4> QED BY <3>2, <4>2, <4>3
    <3> QED BY <3>3, <3>4
  <2>4. h[n + 1] = h[n] \o x
    <3>1. n + 1 \in 1 .. n + 1 /\ n + 1 # 1 /\ (n + 1) - 1 = n
      BY <1>1, <2>2
    <3> QED BY <1>1, <1>2, <3>1
  <2>5. g[n] = h[n]
    BY <1>1, <2>2, <2>3
  <2> QED BY <1>2, <2>1, <2>4, <2>5 DEF t
<1> QED BY <1>3, <1>4

LEMMA FlattenType ==
  ASSUME NEW p \in Seq(Strings)
  PROVE  FlattenSeq(p) \in Strings
<1> DEFINE P == {s \in Seq(Strings) : FlattenSeq(s) \in Strings}
<1>1. <<>> \in P
  <2>1. <<>> \in Seq(Strings) /\ FlattenSeq(<<>>) \in Strings
    BY FlattenOfEmpty, EmptySeq DEF Strings
  <2> QED BY <2>1, Zenon
<1>2. ASSUME NEW s \in Seq(Strings), NEW x \in Strings, s \in P PROVE Append(s, x) \in P
  <2>1. FlattenSeq(s) \o x \in Strings /\ Append(s, x) \in Seq(Strings)
    BY <1>2, ConcatProperties DEF Strings
  <2> QED BY <2>1, FlattenOfAppend
<1>3. \A s \in Seq(Strings) : s \in P
  <2> HIDE DEF P
  <2> QED BY <1>1, <1>2, AppendInduction
<1> QED BY <1>3

-----------------------------------------------------------------------------
(* trim() takes blanks away at both ends, and no more.                     *)
Framed(t) == t # <<>> => ~IsSpace(t[1]) /\ ~IsSpace(t[Len(t)])

LEMMA TrimmedParts ==
  ASSUME NEW t \in Strings
  PROVE  /\ Trimmed(t) \in Strings /\ Framed(Trimmed(t)) /\ Len(Trimmed(t)) <= Len(t)
         /\ \A i \in DOMAIN Trimmed(t) : \E j \in DOMAIN t : Trimmed(t)[i] = t[j]
         /\ \E a, b \in Strings : Blank(a) /\ Blank(b) /\ t = a \o Trimmed(t) \o b
         /\ Framed(t) => Trimmed(t) = t
<1> DEFINE n == Len(t)
           ink == {i \in DOMAIN t : ~IsSpace(t[i])}
<1>1. n \in Nat /\ DOMAIN t = 1 .. n /\ \A i \in 1 .. n : t[i] \in Bytes
  BY DEF Strings
<1>2. CASE ink = {}
  <2>1. Trimmed(t) = <<>>
    BY <1>2 DEF Trimmed
  <2>2. Blank(t) /\ <<>> \in Strings /\ Blank(<<>>)
    BY <1>2, EmptySeq DEF Blank, Strings
  <2>3. t = t \o <<>> \o <<>>
    BY ConcatEmptySeq DEF Strings
  <2>4. Framed(t) => t = <<>>
    BY <1>1, <1>2 DEF Framed, Strings
  <2>5. \E a, b \in Strings : Blank(a) /\ Blank(b) /\ t = a \o <<>> \o b
    BY <2>2, <2>3, Zenon
  <2>6. <<>> \in Strings /\ Framed(<<>>) /\ Len(<<>>) <= Len(t) /\ DOMAIN <<>> = {}
    BY <1>1, <2>2 DEF Framed
  <2> HIDE DEF ink, n
  <2> QED BY <2>1, <2>4, <2>5, <2>6, Zenon
<1>3. CASE ink # {}
  <2> DEFINE f == CHOOSE i \in ink : \A j \in ink : i <= j
             l == CHOOSE i \in ink : \A j \in ink : i >= j
  <2>0. Trimmed(t) = SubSeq(t, f, l)
    BY <1>3 DEF Trimmed
  <2>1. f \in ink /\ \A j \in ink : f <= j
    <3>1. ink \subseteq Nat
      BY <1>1
    <3>2. \E i \in ink : \A j \in ink : i <= j
      <4> HIDE DEF ink
      <4> QED BY <1>3, <3>1, Smallest
    <3> HIDE DEF ink
    <3> QED BY <3>2
  <2>2. l \in ink /\ \A j \in ink : l >= j
    <3>1. ink \subseteq 0 .. n
      BY <1>1
    <3>2. \E i \in ink : \A j \in ink : j <= i
      <4> HIDE DEF ink, n
      <4> QED BY <1>1, <1>3, <3>1, Greatest
    <3>3. \A i, j \in ink : j <= i <=> i >= j
      BY <3>1
    <3>4. \E i \in ink : \A j \in ink : i >= j
      <4> HIDE DEF ink
      <4> QED BY <3>2, <3>3
    <3> HIDE DEF ink
    <3> QED BY <3>4
  <2>3. f \in 1 .. n /\ l \in 1 .. n /\ f <= l /\ ~IsSpace(t[f]) /\ ~IsSpace(t[l])
        /\ (\A i \in 1 .. n : i < f \/ l < i => IsSpace(t[i]))
    <3>1. f \in 1 .. n /\ l \in 1 .. n /\ ~IsSpace(t[f]) /\ ~IsSpace(t[l])
      BY <1>1, <2>1, <2>2
    <3> HIDE DEF f, l
    <3>2. f <= l
      BY <2>1, <2>2, <3>1
    <3>3. \A i \in 1 .. n : i < f \/ l < i => IsSpace(t[i])
      BY <1>1, <2>1, <2>2, <3>1
    <3> QED BY <3>1, <3>2, <3>3
  <2> HIDE DEF f, l, ink, n
  <2> DEFINE m == SubSeq(t, f, l)
             a == SubSeq(t, 1, f - 1)
             b == SubSeq(t, l + 1, n)
  <2>4. /\ m \in Strings /\ Len(m) = l - f + 1 /\ \A i \in 1 .. Len(m) : m[i] = t[f + i - 1]
    <3>1. \A i \in f .. l : t[i] \in Bytes
      BY <1>1, <2>3
    <3>2. f \in Int /\ l \in Int
      BY <2>3
    <3>3. /\ m \in Seq(Bytes) /\ Len(m) = IF f <= l THEN l - f + 1 ELSE 0
          /\ \A i \in 1 .. l - f + 1 : m[i] = t[f + i - 1]
      BY <3>1, <3>2, SubSeqProperties
    <3> QED BY <2>3, <3>3 DEF Strings
  <2>5. /\ a \in Strings /\ Blank(a)
    <3>1. \A i \in 1 .. f - 1 : t[i] \in Bytes /\ IsSpace(t[i])
      BY <1>1, <2>3
    <3>2. 1 \in Int /\ f - 1 \in Int /\ f - 1 >= 0
      BY <2>3
    <3>3. /\ a \in Seq(Bytes) /\ Len(a) = IF 1 <= f - 1 THEN f - 1 - 1 + 1 ELSE 0
          /\ \A i \in 1 .. f - 1 - 1 + 1 : a[i] = t[1 + i - 1]
      BY <3>1, <3>2, SubSeqProperties
    <3>4. DOMAIN a = 1 .. f - 1 /\ \A i \in 1 .. f - 1 : a[i] = t[i]
      BY <2>3, <3>3
    <3> QED BY <3>1, <3>3, <3>4 DEF Strings, Blank
  <2>6. /\ b \in Strings /\ Blank(b)
    <3>1. \A i \in l + 1 .. n : t[i] \in Bytes /\ IsSpace(t[i])
      BY <1>1, <2>3
    <3>2. l + 1 \in Int /\ n \in Int
      BY <1>1, <2>3
    <3>3. /\ b \in Seq(Bytes) /\ Len(b) = IF l + 1 <= n THEN n - (l + 1) + 1 ELSE 0
          /\ \A i \in 1 .. n - (l + 1) + 1 : b[i] = t[l + 1 + i - 1]
      BY <3>1, <3>2, SubSeqProperties
    <3>4. DOMAIN b = 1 .. n - l /\ \A i \in 1 .. n - l : b[i] = t[l + i] /\ l + i \in l + 1 .. n
      BY <1>1, <2>3, <3>3
    <3> QED BY <3>1, <3>3, <3>4 DEF Strings, Blank
  <2>7. t = a \o m \o b
    <3>1. a \o m = SubSeq(t, 1, l)
      <4>1. 1 \in 1 .. Len(t) + 1 /\ f - 1 \in 1 - 1 .. Len(t) /\ l \in f - 1 .. Len(t) /\ (f - 1) + 1 = f
        BY <1>1, <2>3 DEF n
      <4>2. SubSeq(t, 1, f - 1) \o SubSeq(t, (f - 1) + 1, l) = SubSeq(t, 1, l)
        BY <4>1, ConcatAdjacentSubSeq DEF Strings
      <4> QED BY <4>1, <4>2
    <3>2. SubSeq(t, 1, l) \o b = SubSeq(t, 1, n)
      <4>1. 1 \in 1 .. Len(t) + 1 /\ l \in 1 - 1 .. Len(t) /\ n \in l .. Len(t)
        BY <1>1, <2>3 DEF n
      <4> QED BY <4>1, ConcatAdjacentSubSeq DEF Strings
    <3>3. SubSeq(t, 1, n) = t
      BY SubSeqFull DEF n, Strings
    <3> QED BY <3>1, <3>2, <3>3
  <2>8. Framed(m)
    <3>1. 1 \in 1 .. Len(m) /\ Len(m) \in 1 .. Len(m) /\ f + 1 - 1 = f /\ f + Len(m) - 1 = l
      BY <2>3, <2>4
    <3> QED BY <2>3, <2>4, <3>1 DEF Framed
  <2>9. Framed(t) => m = t
    <3>1. SUFFICES ASSUME Framed(t) PROVE m = t
      OBVIOUS
    <3>2. t # <<>> /\ n = Len(t)
      BY <1>1, <2>3 DEF n
    <3>3. 1 \in 1 .. n /\ n \in 1 .. n /\ ~IsSpace(t[1]) /\ ~IsSpace(t[n])
      BY <1>1, <2>3, <3>1, <3>2 DEF Framed
    <3>4. f = 1 /\ l = n
      BY <1>1, <2>3, <3>3
    <3> QED BY <3>2, <3>4, SubSeqFull DEF Strings
  <2>10. /\ Len(m) <= n /\ \A i \in 1 .. Len(m) : f + i - 1 \in 1 .. n
    BY <1>1, <2>3, <2>4
  <2> HIDE DEF m, a, b
  <2>11. Trimmed(t) = m
    BY <2>0 DEF m
  <2>12. DOMAIN m = 1 .. Len(m)
    BY <2>4 DEF Strings
  <2>13. \A i \in DOMAIN m : \E j \in DOMAIN t : m[i] = t[j]
    BY <1>1, <2>4, <2>10, <2>12
  <2>14. n = Len(t)
    BY DEF n
  <2>15. \E x, y \in Strings : Blank(x) /\ Blank(y) /\ t = x \o m \o y
    BY <2>5, <2>6, <2>7
  <2> QED BY <2>4, <2>8, <2>9, <2>10, <2>11, <2>13, <2>14, <2>15
<1> QED BY <1>2, <1>3

LEMMA InkOfTrimmed ==
  ASSUME NEW t \in Strings
  PROVE  Ink(Trimmed(t)) = Ink(t)
<1> DEFINE m == Trimmed(t)
<1>1. PICK a \in Strings, b \in Strings : Blank(a) /\ Blank(b) /\ t = a \o m \o b
  BY TrimmedParts
<1>2. m \in Strings /\ Ink(m) \in Strings
  BY TrimmedParts, InkType
<1> HIDE DEF m
<1>3. a \o m \in Strings
  BY <1>2, ConcatProperties DEF Strings
<1>4. Ink(a \o m \o b) = Ink(a \o m) \o Ink(b) /\ Ink(a \o m) = Ink(a) \o Ink(m)
  BY <1>2, <1>3, InkOfConcat
<1>5. Ink(a) = <<>> /\ Ink(b) = <<>>
  BY <1>1, InkOfBlank
<1>6. <<>> \o Ink(m) \o <<>> = Ink(m)
  BY <1>2, ConcatEmptySeq DEF Strings
<1> QED BY <1>1, <1>4, <1>5, <1>6 DEF m

-----------------------------------------------------------------------------
Unbroken(t) == \A i \in DOMAIN t : ~IsSpace(t[i])

SplitTypes ==
  /\ text \in Strings /\ rest \in Strings /\ limit \in 1 .. MaxLimit /\ pieces \in Seq(Strings)
  /\ pc \in {"loop", "done", "panic"}

(* Pieces and rest are trimmed; a text without separators is never given   *)
(* any, and its pieces are within the limit.                               *)
PiecesWhole == \A i \in DOMAIN pieces : pieces[i] # <<>> /\ Framed(pieces[i])

StaysUnbroken ==
  Unbroken(text) => Unbroken(rest) /\ \A i \in DOMAIN pieces : Len(pieces[i]) <= limit

SplitInv == SplitTypes /\ Framed(rest) /\ PiecesWhole /\ StaysUnbroken /\ NothingDropped

LEMMA LatestOf ==
  ASSUME NEW n \in Nat, NEW positions, positions \subseteq 0 .. n, positions # {}
  PROVE  Latest(positions) \in positions
<1>1. \E p \in positions : \A q \in positions : q <= p
  BY Greatest
<1> QED BY <1>1 DEF Latest

(* The cut is never at the front or the end of the rest.                   *)
LEMMA CutInside ==
  ASSUME SplitTypes, Framed(rest), Len(rest) > limit
  PROVE  CutAt \in 1 .. Len(rest) - 1 /\ (Unbroken(rest) => CutAt = limit)
<1> DEFINE n == Len(rest)
<1>1. n \in Nat /\ DOMAIN rest = 1 .. n /\ limit \in Nat /\ limit >= 1 /\ limit < n
  BY DEF SplitTypes, Strings
<1>2. Half \in Nat
  <2>1. \A l \in Nat : l \div 2 \in Nat
    OBVIOUS
  <2> QED BY <1>1, <2>1 DEF Half
<1>3. ~IsSpace(rest[1]) /\ IsSpace("n") /\ IsSpace("s")
  BY <1>1 DEF Framed, IsSpace
<1>4. /\ \A p \in Paragraphs \cup Newlines \cup Spaces : p \in 1 .. n - 1 /\ p + 1 \in 1 .. n /\ IsSpace(rest[p + 1])
  <2> SUFFICES ASSUME NEW p \in Paragraphs \cup Newlines \cup Spaces
               PROVE  p \in 1 .. n - 1 /\ p + 1 \in 1 .. n /\ IsSpace(rest[p + 1])
    OBVIOUS
  <2>1. p \in Half .. n - 1 /\ IsSpace(rest[p + 1])
    BY <1>1, <1>2, <1>3 DEF Paragraphs, Newlines, Spaces
  <2>2. p # 0
    BY <1>3, <2>1
  <2> QED BY <1>1, <1>2, <2>1, <2>2
<1>5. /\ Paragraphs # {} => Latest(Paragraphs) \in Paragraphs
      /\ Newlines # {} => Latest(Newlines) \in Newlines
      /\ Spaces # {} => Latest(Spaces) \in Spaces
  <2>1. Paragraphs \subseteq 0 .. n /\ Newlines \subseteq 0 .. n /\ Spaces \subseteq 0 .. n
    BY <1>1, <1>4
  <2> HIDE DEF n
  <2> QED BY <1>1, <2>1, LatestOf
<1>6. CutAt \in Paragraphs \cup Newlines \cup Spaces \/ CutAt = limit
  BY <1>5 DEF CutAt, AtLimit
<1>7. Unbroken(rest) => Paragraphs \cup Newlines \cup Spaces = {}
  BY <1>1, <1>4 DEF Unbroken
<1> QED BY <1>1, <1>4, <1>6, <1>7

(* A piece that is not blank is added.                                     *)
LEMMA PieceAdded ==
  ASSUME SplitTypes, PiecesWhole, NEW x \in Strings, Framed(x),
         pieces' = IF x = <<>> THEN pieces ELSE Append(pieces, x)
  PROVE  /\ pieces' \in Seq(Strings) /\ PiecesWhole'
         /\ Ink(FlattenSeq(pieces')) = Ink(FlattenSeq(pieces)) \o Ink(x)
         /\ \A n : Len(x) <= n /\ (\A i \in DOMAIN pieces : Len(pieces[i]) <= n)
                  => \A i \in DOMAIN pieces' : Len(pieces'[i]) <= n
<1>1. FlattenSeq(pieces) \in Strings /\ Ink(FlattenSeq(pieces)) \in Strings /\ pieces \in Seq(Strings)
  BY FlattenType, InkType DEF SplitTypes
<1>2. CASE x = <<>>
  <2>1. Ink(FlattenSeq(pieces)) \o <<>> = Ink(FlattenSeq(pieces))
    BY <1>1, ConcatEmptySeq DEF Strings
  <2> QED BY <1>1, <1>2, <2>1, InkOfEmpty DEF PiecesWhole
<1>3. CASE x # <<>>
  <2>1. /\ pieces' = Append(pieces, x) /\ Append(pieces, x) \in Seq(Strings) /\ Len(pieces) \in Nat
        /\ DOMAIN Append(pieces, x) = 1 .. Len(pieces) + 1 /\ DOMAIN pieces = 1 .. Len(pieces)
        /\ \A i \in 1 .. Len(pieces) : Append(pieces, x)[i] = pieces[i]
        /\ Append(pieces, x)[Len(pieces) + 1] = x
    BY <1>1, <1>3
  <2>2. Ink(FlattenSeq(pieces')) = Ink(FlattenSeq(pieces)) \o Ink(x)
    <3>1. FlattenSeq(Append(pieces, x)) = FlattenSeq(pieces) \o x
      BY <1>1, FlattenOfAppend
    <3>2. Ink(FlattenSeq(pieces) \o x) = Ink(FlattenSeq(pieces)) \o Ink(x)
      BY <1>1, InkOfConcat
    <3> QED BY <2>1, <3>1, <3>2
  <2>3. PiecesWhole'
    BY <1>3, <2>1 DEF PiecesWhole
  <2>4. \A n : Len(x) <= n /\ (\A i \in DOMAIN pieces : Len(pieces[i]) <= n)
              => \A i \in DOMAIN pieces' : Len(pieces'[i]) <= n
    BY <2>1
  <2> QED BY <2>1, <2>2, <2>3, <2>4
<1> QED BY <1>2, <1>3

LEMMA CutStep ==
  ASSUME SplitInv, Cut
  PROVE  SplitInv' /\ Len(rest') < Len(rest)
<1> USE DEF SplitInv
<1> DEFINE c == CutAt
           n == Len(rest)
           u == SubSeq(rest, 1, c)
           v == SubSeq(rest, c + 1, n)
<1>1. /\ rest \in Strings /\ n \in Nat /\ c \in 1 .. n - 1 /\ n = Len(rest)
      /\ DOMAIN rest = 1 .. n /\ \A i \in 1 .. n : rest[i] \in Bytes
      /\ Unbroken(rest) => c = limit
  BY CutInside DEF Cut, SplitTypes, Strings
<1>2. /\ pieces' = IF Trimmed(u) = <<>> THEN pieces ELSE Append(pieces, Trimmed(u))
      /\ rest' = Trimmed(v) /\ UNCHANGED <<text, limit, pc>>
  BY DEF Cut, Chunk, RestAfter
<1>3. u \in Strings /\ Len(u) = c
  <2> HIDE DEF c, n
  <2>1. \A i \in 1 .. c : rest[i] \in Bytes
    BY <1>1
  <2>2. c \in Int /\ 1 \in Int /\ 1 <= c
    BY <1>1
  <2>3. u \in Seq(Bytes) /\ Len(u) = IF 1 <= c THEN c - 1 + 1 ELSE 0
    BY <2>1, <2>2, SubSeqProperties
  <2> QED BY <2>2, <2>3 DEF Strings
<1>4. /\ v \in Strings /\ Len(v) = n - c
      /\ \A i \in DOMAIN v : \E j \in DOMAIN rest : v[i] = rest[j]
  <2> HIDE DEF c, n
  <2>1. \A i \in c + 1 .. n : rest[i] \in Bytes
    BY <1>1
  <2>2. c + 1 \in Int /\ n \in Int /\ c + 1 <= n
    BY <1>1
  <2>3. /\ v \in Seq(Bytes) /\ Len(v) = IF c + 1 <= n THEN n - (c + 1) + 1 ELSE 0
        /\ \A i \in 1 .. n - (c + 1) + 1 : v[i] = rest[c + 1 + i - 1]
    BY <2>1, <2>2, SubSeqProperties
  <2>4. Len(v) = n - c /\ DOMAIN v = 1 .. n - c
    BY <1>1, <2>2, <2>3
  <2>5. \A i \in 1 .. n - c : c + 1 + i - 1 \in DOMAIN rest /\ v[i] = rest[c + 1 + i - 1]
    BY <1>1, <2>3
  <2> QED BY <2>3, <2>4, <2>5 DEF Strings
<1>5. rest = u \o v
  <2> HIDE DEF c
  <2>1. 1 \in 1 .. Len(rest) + 1 /\ c \in 1 - 1 .. Len(rest) /\ n \in c .. Len(rest)
    BY <1>1
  <2>2. SubSeq(rest, 1, c) \o SubSeq(rest, c + 1, n) = SubSeq(rest, 1, n)
    BY <1>1, <2>1, ConcatAdjacentSubSeq DEF Strings
  <2> QED BY <1>1, <2>2, SubSeqFull DEF Strings
<1> HIDE DEF c, n, u, v
<1>6. /\ Trimmed(u) \in Strings /\ Framed(Trimmed(u)) /\ Len(Trimmed(u)) <= Len(u)
      /\ Trimmed(v) \in Strings /\ Framed(Trimmed(v)) /\ Len(Trimmed(v)) <= Len(v)
      /\ Ink(Trimmed(u)) = Ink(u) /\ Ink(Trimmed(v)) = Ink(v)
      /\ \A i \in DOMAIN Trimmed(v) : \E j \in DOMAIN v : Trimmed(v)[i] = v[j]
  BY <1>3, <1>4, TrimmedParts, InkOfTrimmed
<1>7. Len(rest') < Len(rest)
  <2>1. Len(Trimmed(v)) \in Nat
    BY <1>6 DEF Strings
  <2> QED BY <1>1, <1>2, <1>4, <1>6, <2>1
<1>8. SplitTypes' /\ Framed(rest)' /\ PiecesWhole'
  <2>1. pieces' \in Seq(Strings) /\ PiecesWhole'
    BY <1>2, <1>6, PieceAdded
  <2> QED BY <1>2, <1>6, <2>1 DEF SplitTypes, Framed
<1>9. StaysUnbroken'
  <2> SUFFICES ASSUME Unbroken(text)
               PROVE  /\ Unbroken(rest')
                      /\ \A i \in DOMAIN pieces' : Len(pieces'[i]) <= limit
    BY <1>2 DEF StaysUnbroken, Unbroken
  <2>1. Unbroken(rest) /\ \A i \in DOMAIN pieces : Len(pieces[i]) <= limit
    BY DEF StaysUnbroken
  <2>2. Unbroken(v)
    BY <1>4, <2>1 DEF Unbroken
  <2>3. Unbroken(rest')
    BY <1>2, <1>6, <2>2 DEF Unbroken
  <2>4. Len(Trimmed(u)) <= limit
    BY <1>1, <1>3, <1>6, <2>1
  <2>5. \A i \in DOMAIN pieces' : Len(pieces'[i]) <= limit
    BY <1>2, <1>6, <2>1, <2>4, PieceAdded
  <2> QED BY <2>3, <2>5
<1>10. NothingDropped'
  <2> DEFINE p == FlattenSeq(pieces)
             q == FlattenSeq(pieces')
  <2>1. /\ p \in Strings /\ Ink(text) = Ink(p \o rest)
    BY FlattenType DEF SplitTypes, NothingDropped
  <2>2. q \in Strings /\ Ink(q) = Ink(p) \o Ink(u)
    <3>1. pieces' \in Seq(Strings) /\ Ink(FlattenSeq(pieces')) = Ink(FlattenSeq(pieces)) \o Ink(Trimmed(u))
      BY <1>2, <1>6, PieceAdded
    <3> QED BY <1>6, <3>1, FlattenType
  <2>3. NothingDropped' <=> Ink(q \o rest') = Ink(text)
    BY <1>2 DEF NothingDropped
  <2> HIDE DEF p, q
  <2>4. Ink(q \o rest') = Ink(q) \o Ink(v)
    BY <1>2, <1>6, <2>2, InkOfConcat
  <2>5. Ink(p \o rest) = Ink(p) \o (Ink(u) \o Ink(v))
    <3>1. Ink(p \o rest) = Ink(p) \o Ink(rest)
      BY <1>1, <2>1, InkOfConcat
    <3>2. Ink(rest) = Ink(u) \o Ink(v)
      BY <1>3, <1>4, <1>5, InkOfConcat
    <3> QED BY <3>1, <3>2
  <2>6. (Ink(p) \o Ink(u)) \o Ink(v) = Ink(p) \o (Ink(u) \o Ink(v))
    <3>1. Ink(p) \in Strings /\ Ink(u) \in Strings /\ Ink(v) \in Strings
      BY <1>3, <1>4, <2>1, InkType
    <3> QED BY <3>1, ConcatAssociative DEF Strings
  <2> QED BY <2>1, <2>2, <2>3, <2>4, <2>5, <2>6
<1> QED BY <1>7, <1>8, <1>9, <1>10

LEMMA FinishStep ==
  ASSUME SplitInv, Finish
  PROVE  SplitInv'
<1> USE DEF SplitInv
<1>1. /\ pieces' = IF rest = <<>> THEN pieces ELSE Append(pieces, rest)
      /\ rest' = <<>> /\ pc' = "done" /\ UNCHANGED <<text, limit>> /\ Len(rest) <= limit
      /\ rest \in Strings /\ Framed(rest)
  BY DEF Finish, SplitTypes
<1>2. /\ pieces' \in Seq(Strings) /\ PiecesWhole'
      /\ Ink(FlattenSeq(pieces')) = Ink(FlattenSeq(pieces)) \o Ink(rest)
      /\ \A n : Len(rest) <= n /\ (\A i \in DOMAIN pieces : Len(pieces[i]) <= n)
               => \A i \in DOMAIN pieces' : Len(pieces'[i]) <= n
  BY <1>1, PieceAdded
<1>3. SplitTypes' /\ Framed(rest)' /\ <<>> \in Strings
  BY <1>1, <1>2, EmptySeq DEF SplitTypes, Framed, Strings
<1>4. StaysUnbroken'
  <2>1. Unbroken(<<>>)
    BY DEF Unbroken
  <2>2. Unbroken(text) => \A i \in DOMAIN pieces' : Len(pieces'[i]) <= limit
    BY <1>1, <1>2 DEF StaysUnbroken
  <2>3. Unbroken(text)' <=> Unbroken(text)
    BY <1>1 DEF Unbroken
  <2>4. Unbroken(rest)'
    BY <1>1 DEF Unbroken
  <2> QED BY <1>1, <2>2, <2>3, <2>4 DEF StaysUnbroken
<1>5. NothingDropped'
  <2>1. FlattenSeq(pieces) \in Strings /\ FlattenSeq(pieces') \in Strings
    BY <1>2, FlattenType DEF SplitTypes
  <2>2. FlattenSeq(pieces') \o <<>> = FlattenSeq(pieces')
    BY <2>1, ConcatEmptySeq DEF Strings
  <2>3. Ink(FlattenSeq(pieces) \o rest) = Ink(FlattenSeq(pieces)) \o Ink(rest)
    BY <1>1, <2>1, InkOfConcat
  <2> QED BY <1>1, <1>2, <2>2, <2>3 DEF NothingDropped
<1> QED BY <1>2, <1>3, <1>4, <1>5

LEMMA InitSplitInv == SplitInit => SplitInv
<1> SUFFICES ASSUME SplitInit PROVE SplitInv
  OBVIOUS
<1>1. PICK t \in Texts : text = Trimmed(t)
  BY DEF SplitInit
<1>2. t \in Strings
  <2>1. PICK n \in 0 .. MaxChars : \E p \in [1 .. n -> Characters] : t = FlattenSeq(p)
    BY <1>1 DEF Texts
  <2>2. PICK p \in [1 .. n -> Characters] : t = FlattenSeq(p)
    BY <2>1
  <2>3. Characters \subseteq Strings
    BY DEF Characters, Bytes, Strings
  <2>4. n \in Nat
    BY <2>1, SplitAssumption
  <2>5. p \in Seq(Strings)
    BY <2>2, <2>3, <2>4
  <2> QED BY <2>2, <2>5, FlattenType
<1>3. /\ text \in Strings /\ Framed(text) /\ rest = text /\ pieces = <<>> /\ pc = "loop"
      /\ limit \in 1 .. MaxLimit
  BY <1>1, <1>2, TrimmedParts DEF SplitInit
<1>4. pieces \in Seq(Strings) /\ DOMAIN pieces = {}
  BY <1>3
<1>5. NothingDropped
  <2>1. <<>> \o text = text
    BY <1>3, ConcatEmptySeq DEF Strings
  <2> QED BY <1>3, <2>1, FlattenOfEmpty DEF NothingDropped
<1> QED BY <1>3, <1>4, <1>5 DEF SplitInv, SplitTypes, PiecesWhole, StaysUnbroken

LEMMA StepSplitInv == SplitInv /\ [SplitNext]_splitVars => SplitInv'
<1> SUFFICES ASSUME SplitInv, [SplitNext]_splitVars PROVE SplitInv'
  OBVIOUS
<1>1. CASE Panic \/ SplitTerminated \/ UNCHANGED splitVars
  <2>1. UNCHANGED <<text, limit, rest, pieces>> /\ pc' \in {"loop", "done", "panic"}
    BY <1>1 DEF Panic, SplitTerminated, splitVars, SplitInv, SplitTypes
  <2> QED BY <2>1 DEF SplitInv, SplitTypes, Framed, PiecesWhole, StaysUnbroken, Unbroken, NothingDropped
<1> QED BY <1>1, CutStep, FinishStep DEF SplitNext, SplitStep

LEMMA SplitInvariant == SplitSpec => []SplitInv
BY InitSplitInv, StepSplitInv, PTL DEF SplitSpec

(* Types; pieces are neither blank nor padded, and those of a text without *)
(* separators are within the limit, for every text and limit.              *)
THEOREM PiecesCorrect == SplitSpec => []SplitTypeOK
<1>1. SplitInv => SplitTypeOK
  <2> SUFFICES ASSUME SplitInv PROVE SplitTypeOK
    OBVIOUS
  <2>1. \A i \in DOMAIN pieces : pieces[i] \in Strings /\ Trimmed(pieces[i]) = pieces[i]
    BY TrimmedParts DEF SplitInv, SplitTypes, PiecesWhole
  <2>2. UnbrokenWithinLimit
    BY DEF UnbrokenWithinLimit, SplitInv, StaysUnbroken, Unbroken
  <2> QED BY <2>1, <2>2 DEF SplitTypeOK, SplitInv, SplitTypes, PiecesWhole, Strings
<1> QED BY <1>1, SplitInvariant, PTL

(* Wherever split_message cuts, every byte that is not a separator stays,  *)
(* in order, in the pieces made and the rest.                              *)
THEOREM TextKept == SplitSpec => []NothingDropped
<1>1. SplitInv => NothingDropped
  BY DEF SplitInv
<1> QED BY <1>1, SplitInvariant, PTL

(* Each round of the loop makes the rest shorter or is the last: with this *)
(* SplitEnds needs no more than that the loop runs on.                     *)
THEOREM RestShrinks == SplitSpec => [][pc' = "loop" => Len(rest') < Len(rest)]_splitVars
<1>1. SplitInv /\ [SplitNext]_splitVars => [pc' = "loop" => Len(rest') < Len(rest)]_splitVars
  BY CutStep DEF SplitNext, SplitStep, Panic, Finish, SplitTerminated
<1> QED BY <1>1, SplitInvariant, PTL DEF SplitSpec
-----------------------------------------------------------------------------
(* What KeepsPromise rests on besides fairness.  Neither task is kept from *)
(* its next step but by the other: the processor by a full channel, the    *)
(* handler by an empty one, and never both.                                *)
ProcessorMoves ==
  \/ ppc \in {"recv", "parse", "record"}
  \/ ppc \in {"send", "last", "abort"} /\ Len(channel) < Capacity

HandlerMoves == hpc = "recv" /\ channel # <<>>

NobodyStuck == (hpc = "done" /\ ppc = "end") \/ ProcessorMoves \/ HandlerMoves

(* The processor waits for room only while the handler still takes, and    *)
(* the handler for an event only while the last one is to come.            *)
THEOREM NobodyIsStuck == Spec => []NobodyStuck
<1>1. StreamInv => NobodyStuck
  <2> SUFFICES ASSUME StreamInv PROVE NobodyStuck
    OBVIOUS
  <2> USE DEF StreamInv, FlowInv, LastEventLast
  <2>1. /\ channel \in Seq(Events) /\ Len(channel) <= Capacity /\ Capacity \in Nat \ {0}
        /\ ppc \in {"recv", "parse", "send", "record", "last", "abort", "end"}
        /\ hpc \in {"recv", "done"}
    BY StreamAssumption DEF TypeOK
  <2>2. CASE ppc = "end"
    <3>1. hpc = "recv" => channel # <<>>
      BY <2>2 DEF Closed
    <3> QED BY <2>1, <2>2, <3>1 DEF NobodyStuck, HandlerMoves
  <2>3. CASE ppc \in {"send", "last", "abort"} /\ Len(channel) = Capacity
    <3>1. hpc = "recv" /\ channel # <<>>
      BY <2>1, <2>3
    <3> QED BY <3>1 DEF NobodyStuck, HandlerMoves
  <2>4. CASE Len(channel) # Capacity
    BY <2>1, <2>2, <2>4 DEF NobodyStuck, ProcessorMoves
  <2> QED BY <2>1, <2>2, <2>3, <2>4 DEF NobodyStuck, ProcessorMoves
<1> QED BY <1>1, StreamInvariant, PTL

(* And they come to an end: a chunk is two steps of the bytes left, a line *)
(* four of the lines left, an event one of those it takes to the handler.  *)
StepsFrom(p) ==
  CASE p = "send" -> 7 [] p = "parse" -> 5 [] p = "recv" -> 4 [] p = "record" -> 3
    [] p \in {"last", "abort"} -> 2 [] OTHER -> 0

StepsLeft ==
  2 * (Len(Wire) - got) + 4 * (Len(lines) - Parsed) + StepsFrom(ppc) + Len(channel)

MostSteps == 8 * MaxLines + 4

LEMMA ToCome ==
  ASSUME StreamInv
  PROVE  /\ got \in Nat /\ Len(Wire) = 2 * Len(lines) /\ got <= Len(Wire) /\ Len(lines) \in Nat
         /\ Parsed \in Nat /\ Parsed <= Len(lines) /\ Len(channel) \in Nat /\ StepsFrom(ppc) \in Nat
         /\ StepsLeft \in Nat
<1>1. got \in Nat /\ Len(Wire) = 2 * Len(lines) /\ got <= Len(Wire) /\ Len(lines) \in Nat /\ Len(channel) \in Nat
  BY WireBytes DEF StreamInv, TypeOK
<1>2. Parsed \in Nat /\ Parsed <= Len(lines)
  <2>1. Parsed \in Nat /\ Len(Unread) \in Nat /\ 2 * Parsed + Len(Unread) <= 2 * Len(lines)
    BY UnreadBytes DEF StreamInv
  <2> QED BY <1>1, <2>1
<1>3. StepsFrom(ppc) \in Nat
  BY DEF StepsFrom
<1> QED BY <1>1, <1>2, <1>3 DEF StepsLeft

LEMMA StepLowers ==
  ASSUME StreamInv, Incoming \/ Processing \/ Handling
  PROVE  StepsLeft' < StepsLeft
<1> DEFINE W == Len(Wire)
           L == Len(lines)
           C == Len(channel)
<1>0. /\ got \in Nat /\ W = 2 * L /\ got <= W /\ L \in Nat /\ Parsed \in Nat /\ Parsed <= L
      /\ C \in Nat
  BY ToCome
<1>1. lines' = lines /\ Wire' = Wire
  <2>1. lines' = lines
    BY StepParsed DEF StreamInv, Next
  <2> QED BY <2>1 DEF Wire
<1>2. Parsed' = IF ParseLine THEN Parsed + 1 ELSE Parsed
  BY StepParsed DEF StreamInv, Next
<1>3. StepsLeft = 2 * (W - got) + 4 * (L - Parsed) + StepsFrom(ppc) + C
      /\ StepsLeft' = 2 * (W - got') + 4 * (L - Parsed') + StepsFrom(ppc') + Len(channel')
  BY <1>1 DEF StepsLeft
<1> HIDE DEF W, L
<1>4. ASSUME NEW n \in 1 .. 2 * MaxLines, Receive(n) PROVE StepsLeft' < StepsLeft
  <2>1. /\ got' = got + n /\ StepsFrom(ppc) = 4 /\ StepsFrom(ppc') = 5 /\ channel' = channel
        /\ Parsed' = Parsed /\ n \in Nat /\ n >= 1
    BY <1>2, <1>4, StreamAssumption DEF Receive, ParseLine, StepsFrom
  <2> QED BY <1>0, <1>3, <2>1
<1>5. CASE Break \/ End
  <2>1. /\ got' = got /\ StepsFrom(ppc) = 4 /\ StepsFrom(ppc') \in {2, 3} /\ channel' = channel
        /\ Parsed' = Parsed
    BY <1>2, <1>5 DEF Break, End, Close, Closing, ParseLine, StepsFrom
  <2> QED BY <1>0, <1>3, <2>1
<1>6. CASE ParseLine
  <2>1. /\ got' = got /\ channel' = channel /\ ppc = "parse" /\ ppc' \in {"record", "send", "parse"}
        /\ Parsed' = Parsed + 1
    BY <1>2, <1>6, ParsedLine DEF StreamInv, ParseLine
  <2>2. StepsFrom(ppc) = 5 /\ StepsFrom(ppc') \in {3, 5, 7}
    BY <2>1 DEF StepsFrom
  <2> QED BY <1>0, <1>3, <2>1, <2>2
<1>7. CASE NextChunk \/ Record
  <2>1. /\ got' = got /\ channel' = channel /\ Parsed' = Parsed
        /\ \/ ppc = "parse" /\ ppc' = "recv"
           \/ ppc = "record" /\ ppc' = "last"
    BY <1>2, <1>7, ClosingOrder DEF NextChunk, Record, ParseLine
  <2>2. \/ StepsFrom(ppc) = 5 /\ StepsFrom(ppc') = 4
        \/ StepsFrom(ppc) = 3 /\ StepsFrom(ppc') = 2
    BY <2>1 DEF StepsFrom
  <2> QED BY <1>0, <1>3, <2>1, <2>2
<1>8. CASE SendDelta \/ SendLast
  <2>1. /\ got' = got /\ Parsed' = Parsed /\ channel' = Append(channel, event)
        /\ \/ ppc = "send" /\ ppc' = "parse"
           \/ ppc \in {"last", "abort"} /\ ppc' = "end"
    BY <1>2, <1>8, ClosingOrder DEF SendDelta, SendLast, ParseLine
  <2>2. \/ StepsFrom(ppc) = 7 /\ StepsFrom(ppc') = 5
        \/ StepsFrom(ppc) = 2 /\ StepsFrom(ppc') = 0
    BY <2>1 DEF StepsFrom
  <2>3. Len(channel') = C + 1
    <3>1. channel \in Seq(Events) /\ event \in Events \cup {None}
      BY DEF StreamInv, TypeOK
    <3>2. channel \in Seq(Events \cup {None})
      BY <3>1
    <3> QED BY <2>1, <3>1, <3>2, AppendProperties
  <2> QED BY <1>0, <1>3, <2>1, <2>2, <2>3
<1>9. CASE Handling
  <2>1. /\ got' = got /\ ppc' = ppc /\ Parsed' = Parsed
        /\ channel # <<>> /\ channel' = Tail(channel)
    <3>1. /\ got' = got /\ ppc' = ppc /\ consumed' = consumed /\ buf' = buf
          /\ channel # <<>> /\ channel' = Tail(channel)
      BY <1>9 DEF Handling, TakeDelta, TakeLast, processor
    <3> QED BY <3>1 DEF Parsed, Drained
  <2>2. Len(channel') = C - 1
    BY <2>1, HeadTailProperties DEF StreamInv, TypeOK
  <2>3. StepsFrom(ppc) \in Nat /\ StepsFrom(ppc') = StepsFrom(ppc)
    BY <2>1 DEF StepsFrom
  <2> HIDE DEF C
  <2> QED BY <1>0, <1>3, <2>1, <2>2, <2>3
<1> QED BY <1>4, <1>5, <1>6, <1>7, <1>8, <1>9 DEF Incoming, Processing

StepsBounded == StepsLeft \in 0 .. MostSteps

(* However the response comes in, and however the two tasks are scheduled, *)
(* a reply takes MostSteps steps at most.                                  *)
THEOREM StepsRunOut == Spec => []StepsBounded /\ [][StepsLeft' < StepsLeft]_vars
<1>1. Init => StepsBounded
  <2> SUFFICES ASSUME Init PROVE StepsBounded
    OBVIOUS
  <2>1. StreamInv
    BY InitStreamInv
  <2>2. got = 0 /\ Len(channel) = 0 /\ StepsFrom(ppc) = 4 /\ Len(lines) <= MaxLines /\ MaxLines \in Nat
    BY <2>1, StreamAssumption DEF Init, StepsFrom, StreamInv, TypeOK
  <2>3. StepsLeft <= 2 * (2 * Len(lines)) + 4 * Len(lines) + 4 /\ StepsLeft \in Nat /\ Len(lines) \in Nat
    BY <2>1, <2>2, ToCome DEF StepsLeft
  <2> QED BY <2>2, <2>3 DEF StepsBounded, MostSteps
<1>2. StreamInv /\ [Next]_vars => [StepsLeft' < StepsLeft]_vars
  BY StepLowers DEF Next, Terminated
<1>3. StreamInv => StepsLeft \in Nat
  BY ToCome
<1>4. /\ StepsLeft \in Nat /\ (StepsLeft \in Nat)'
      /\ StepsBounded /\ [StepsLeft' < StepsLeft]_vars
      => StepsBounded'
  <2> SUFFICES ASSUME StepsLeft \in Nat, StepsLeft' \in Nat, StepsBounded, [StepsLeft' < StepsLeft]_vars
               PROVE  StepsBounded'
    OBVIOUS
  <2>1. MostSteps' = MostSteps /\ MostSteps \in Nat
    BY StreamAssumption DEF MostSteps
  <2>2. CASE UNCHANGED vars
    <3>1. StepsLeft' = StepsLeft
      BY <2>2 DEF vars, processor, StepsLeft, Wire, Parsed, Drained
    <3> QED BY <2>1, <3>1 DEF StepsBounded
  <2> QED BY <2>1, <2>2 DEF StepsBounded
<1> QED BY <1>1, <1>2, <1>3, <1>4, StreamInvariant, PTL DEF Spec
-----------------------------------------------------------------------------
(* The empty text is one of the texts.                                     *)
LEMMA NothingToSplit == NoText => SplitInit
<1> SUFFICES ASSUME NoText PROVE SplitInit
  OBVIOUS
<1> DEFINE nothing == [i \in 1 .. 0 |-> <<"w">>]
<1>1. nothing \in [1 .. 0 -> Characters] /\ nothing = <<>>
  OBVIOUS
<1>2. FlattenSeq(nothing) = <<>>
  BY <1>1, FlattenOfEmpty
<1>3. nothing \in UNION {[1 .. n -> Characters] : n \in 0 .. MaxChars}
  BY <1>1, SplitAssumption, 0 \in 0 .. MaxChars
<1>4. Trimmed(<<>>) = <<>>
  BY DEF Trimmed
<1> HIDE DEF nothing
<1>6. FlattenSeq(nothing) \in Texts
  BY <1>3, Zenon DEF Texts
<1>5. text \in {Trimmed(t) : t \in Texts}
  BY <1>2, <1>6, <1>4 DEF NoText
<1> QED BY <1>5, SplitAssumption DEF NoText, SplitInit

(* MCReply runs the stream and the splitting one after the other: each     *)
(* behaviour of the two together is one of LlmStream and one of            *)
(* MessageSplit, so every theorem about either holds of it.                *)
THEOREM ReplyComposed == ReplySpec => Spec /\ SplitSpec
<1>1. ReplyInit => Init /\ SplitInit
  BY NothingToSplit DEF ReplyInit
<1>2. [StreamStep \/ SplittingStep \/ BothDone]_<<vars, splitVars>> => [Next]_vars
  BY DEF StreamStep, SplittingStep, BothDone, Next, Terminated
<1>3. [StreamStep \/ SplittingStep \/ BothDone]_<<vars, splitVars>> => [SplitNext]_splitVars
  BY DEF StreamStep, SplittingStep, BothDone, SplitNext, SplitTerminated
<1> QED BY <1>1, <1>2, <1>3, PTL DEF ReplySpec, Spec, SplitSpec

(* The types of both, for every response, text and limit.                  *)
THEOREM ReplyTypesCorrect == ReplySpec => []ReplyTypeOK
<1>1. TypeOK /\ SplitTypeOK => ReplyTypeOK
  BY DEF ReplyTypeOK
<1> QED BY <1>1, ReplyComposed, TypeCorrect, PiecesCorrect, PTL
-----------------------------------------------------------------------------
(* With fairness.  What the fair actions ask for before they can be taken: *)
(* whatever comes in, is parsed or is taken, some alternative gives each   *)
(* variable a value.  The provers do not reason about ENABLED, so          *)
(* ReplyAdvances assumes it.                                               *)
IncomingEnabled == ppc = "recv" => ENABLED <<Incoming>>_vars
ProcessingEnabled == ProcessorMoves /\ ppc # "recv" => ENABLED <<Processing>>_vars
HandlingEnabled == HandlerMoves => ENABLED <<Handling>>_vars

GuardsEnable == IncomingEnabled /\ ProcessingEnabled /\ HandlingEnabled

Over == hpc = "done" /\ ppc = "end"

(* Something comes in within the timeout of the request, and the runtime   *)
(* polls both tasks: a reply that is not over gets on.  As its steps run   *)
(* out, it is over one day.                                                *)
THEOREM ReplyAdvances ==
  ASSUME NEW n \in Nat
  PROVE  FairSpec /\ []GuardsEnable => (~Over /\ StepsLeft = n ~> StepsLeft < n)
<1> DEFINE There == ~Over /\ StepsLeft = n
           Closer == StepsLeft < n
           Reads == There /\ ppc = "recv"
           Works == There /\ ProcessorMoves /\ ppc # "recv"
           Takes == There /\ HandlerMoves
<1>1. ASSUME StreamInv, There, [Next]_vars PROVE Closer' \/ UNCHANGED vars
  BY <1>1, StepLowers DEF Next, Terminated
<1>2. ASSUME There, UNCHANGED vars
      PROVE  There' /\ (Reads => Reads') /\ (Works => Works') /\ (Takes => Takes')
  <2>1. StepsLeft' = StepsLeft
    BY <1>2 DEF vars, processor, StepsLeft, Wire, Parsed, Drained
  <2> QED BY <1>2, <2>1 DEF vars, processor, handler, Over, ProcessorMoves, HandlerMoves
<1>3. StreamInv /\ Reads /\ [Next]_vars => Reads' \/ Closer'
  BY <1>1, <1>2
<1>4. StreamInv /\ Works /\ [Next]_vars => Works' \/ Closer'
  BY <1>1, <1>2
<1>5. StreamInv /\ Takes /\ [Next]_vars => Takes' \/ Closer'
  BY <1>1, <1>2
<1>6. StreamInv /\ There /\ (Incoming \/ Processing \/ Handling) => Closer'
  BY StepLowers
<1>7. NobodyStuck /\ There => Reads \/ Works \/ Takes
  BY DEF NobodyStuck, Over
<1>8. GuardsEnable =>
        /\ Reads => ENABLED <<Incoming>>_vars
        /\ Works => ENABLED <<Processing>>_vars
        /\ Takes => ENABLED <<Handling>>_vars
  <2>1. IncomingEnabled => (Reads => ENABLED <<Incoming>>_vars)
    BY DEF IncomingEnabled
  <2>2. ProcessingEnabled => (Works => ENABLED <<Processing>>_vars)
    BY DEF ProcessingEnabled
  <2>3. HandlingEnabled => (Takes => ENABLED <<Handling>>_vars)
    BY DEF HandlingEnabled
  <2> QED BY <2>1, <2>2, <2>3, PTL DEF GuardsEnable
<1> HIDE DEF There, Closer, Reads, Works, Takes
<1>9. Reads \/ Works \/ Takes => There
  BY DEF Reads, Works, Takes
<1>10. FairSpec => Spec /\ WF_vars(Incoming) /\ WF_vars(Processing) /\ WF_vars(Handling)
  BY PTL DEF FairSpec
<1>11. FairSpec /\ []GuardsEnable => (Reads ~> Closer)
  BY <1>3, <1>6, <1>8, <1>9, <1>10, StreamInvariant, PTL DEF Spec
<1>12. FairSpec /\ []GuardsEnable => (Works ~> Closer)
  BY <1>4, <1>6, <1>8, <1>9, <1>10, StreamInvariant, PTL DEF Spec
<1>13. FairSpec /\ []GuardsEnable => (Takes ~> Closer)
  BY <1>5, <1>6, <1>8, <1>9, <1>10, StreamInvariant, PTL DEF Spec
<1>14. FairSpec /\ []GuardsEnable => (There ~> Closer)
  BY <1>7, <1>10, <1>11, <1>12, <1>13, NobodyIsStuck, PTL
<1> QED BY <1>14 DEF There, Closer
-----------------------------------------------------------------------------
(* split_message goes round as long as its loop is not left, and each time *)
(* a shorter rest is left.                                                 *)
SplitEnabled == pc = "loop" => ENABLED <<SplitStep>>_splitVars

THEOREM SplitAdvances ==
  ASSUME NEW n \in Nat
  PROVE  FairSplitSpec /\ []SplitEnabled =>
           (pc = "loop" /\ Len(rest) = n ~> pc # "loop" \/ Len(rest) < n)
<1> DEFINE There == pc = "loop" /\ Len(rest) = n
           Closer == pc # "loop" \/ Len(rest) < n
<1>1. SplitInv /\ There /\ SplitStep => Closer'
  BY CutStep DEF SplitStep, Panic, Finish
<1>2. SplitInv /\ There /\ [SplitNext]_splitVars => There' \/ Closer'
  BY <1>1 DEF SplitNext, SplitTerminated, splitVars
<1>3. SplitEnabled => (There => ENABLED <<SplitStep>>_splitVars)
  BY DEF SplitEnabled
<1> HIDE DEF There, Closer
<1>4. FairSplitSpec /\ []SplitEnabled => (There ~> Closer)
  BY <1>1, <1>2, <1>3, SplitInvariant, PTL DEF FairSplitSpec, SplitSpec
<1> QED BY <1>4 DEF There, Closer
=============================================================================

---------------------------- MODULE MessageSplit ----------------------------
(***************************************************************************)
(* message/markdown.rs: split_message cuts a reply into the pieces that    *)
(* are sent.  Lengths and positions are those of the code: bytes.  A text  *)
(* is a sequence of bytes: "w" stands for an ASCII letter, "L" and "c" for *)
(* the first and the other byte of a two-byte character, "n" for a newline *)
(* and "s" for a space.  Position p of the code is p + 1 here.             *)
(***************************************************************************)
EXTENDS Integers, Sequences, SequencesExt

CONSTANTS
  MaxChars, \* bound: characters of a text
  MaxLimit  \* bound: config max_message_length

ASSUME SplitAssumption == MaxChars \in Nat /\ MaxLimit \in Nat \ {0}

Bytes == {"w", "L", "c", "n", "s"}
Characters == {<<"w">>, <<"L", "c">>, <<"n">>, <<"s">>}
Texts == {FlattenSeq(t) : t \in UNION {[1 .. n -> Characters] : n \in 0 .. MaxChars}}

VARIABLES
  text,   \* the text, trimmed
  limit,  \* max_message_length, which validate() refuses to be 0
  rest,   \* remaining
  pieces, \* pieces
  pc      \* "loop", "done", or "panic": a slice ended inside a character

splitVars == <<text, limit, rest, pieces, pc>>

IsSpace(b) == b \in {"n", "s"}

Trimmed(t) ==
  LET ink == {i \in DOMAIN t : ~IsSpace(t[i])}
  IN  IF ink = {} THEN <<>>
      ELSE SubSeq(t, CHOOSE i \in ink : \A j \in ink : i <= j, CHOOSE i \in ink : \A j \in ink : i >= j)

SplitInit ==
  /\ text \in {Trimmed(t) : t \in Texts}
  /\ limit \in 1 .. MaxLimit
  /\ rest = text
  /\ pieces = <<>>
  /\ pc = "loop"

-----------------------------------------------------------------------------
(* The positions of a separator at or after half the limit; the last one   *)
(* of the first kind that has one is the cut, or else the limit itself.    *)
Half == limit \div 2

Paragraphs == {p \in Half .. Len(rest) - 2 : rest[p + 1] = "n" /\ rest[p + 2] = "n"}
Newlines == {p \in Half .. Len(rest) - 1 : rest[p + 1] = "n"}
Spaces == {p \in Half .. Len(rest) - 1 : rest[p + 1] = "s"}

Latest(positions) == CHOOSE p \in positions : \A q \in positions : q <= p

AtLimit == limit

CutAt ==
  CASE Paragraphs # {} -> Latest(Paragraphs)
    [] Paragraphs = {} /\ Newlines # {} -> Latest(Newlines)
    [] Paragraphs = {} /\ Newlines = {} /\ Spaces # {} -> Latest(Spaces)
    [] OTHER -> AtLimit

IsCharBoundary(cut) == cut = Len(rest) \/ rest[cut + 1] # "c"

Chunk(cut) == Trimmed(SubSeq(rest, 1, cut))

SeparatorSkipped(cut) == Trimmed(SubSeq(rest, cut + 2, Len(rest)))

UntrimmedRest(cut) == SubSeq(rest, cut + 1, Len(rest))

RestAfter(cut) == Trimmed(SubSeq(rest, cut + 1, Len(rest)))

Cut ==
  /\ pc = "loop"
  /\ Len(rest) > limit
  /\ IsCharBoundary(CutAt)
  /\ pieces' = IF Chunk(CutAt) = <<>> THEN pieces ELSE Append(pieces, Chunk(CutAt))
  /\ rest' = RestAfter(CutAt)
  /\ UNCHANGED <<text, limit, pc>>

Panic ==
  /\ pc = "loop"
  /\ Len(rest) > limit
  /\ ~IsCharBoundary(CutAt)
  /\ pc' = "panic"
  /\ UNCHANGED <<text, limit, rest, pieces>>

(* A text within the limit is its own piece, a blank one has none.         *)
Finish ==
  /\ pc = "loop"
  /\ Len(rest) <= limit
  /\ pieces' = IF rest = <<>> THEN pieces ELSE Append(pieces, rest)
  /\ rest' = <<>>
  /\ pc' = "done"
  /\ UNCHANGED <<text, limit>>

SplitTerminated == pc # "loop" /\ UNCHANGED splitVars

SplitStep == Cut \/ Panic \/ Finish

SplitNext == SplitStep \/ SplitTerminated

SplitSpec == SplitInit /\ [][SplitNext]_splitVars

(* split_message is a plain loop: it runs on.                              *)
FairSplitSpec == SplitSpec /\ WF_splitVars(SplitStep)

-----------------------------------------------------------------------------
(* README "`max_message_length` ... 单条消息最大字符数" holds for a text     *)
(* without separators: each piece is within the limit.  (With them it need *)
(* not: rfind takes the last separator of the whole rest, which may be far *)
(* behind the limit.)                                                      *)
UnbrokenWithinLimit ==
  (\A i \in DOMAIN text : ~IsSpace(text[i])) =>
    \A i \in DOMAIN pieces : Len(pieces[i]) <= limit

(* Types; a piece is neither blank nor padded, and that of a text without  *)
(* separators is within the limit.                                         *)
SplitTypeOK ==
  /\ text \in Seq(Bytes) /\ rest \in Seq(Bytes)
  /\ limit \in 1 .. MaxLimit
  /\ pieces \in Seq(Seq(Bytes))
  /\ \A i \in DOMAIN pieces : pieces[i] # <<>> /\ Trimmed(pieces[i]) = pieces[i]
  /\ UnbrokenWithinLimit
  /\ pc \in {"loop", "done", "panic"}

(* Wherever the cuts fall, the pieces have every character of the text in  *)
(* order; only blanks at the cuts are gone.                                *)
Ink(t) ==
  LET ink[i \in 0 .. Len(t)] ==
        IF i = 0 THEN <<>>
        ELSE IF IsSpace(t[i]) THEN ink[i - 1] ELSE Append(ink[i - 1], t[i])
  IN  ink[Len(t)]

NothingDropped == Ink(FlattenSeq(pieces) \o rest) = Ink(text)

(* The loop ends: no cut is at position 0, since the rest is trimmed.      *)
SplitEnds == <>(pc # "loop")

(* README "`max_message_length` ... 单条消息最大字符数": the limit counts     *)
(* characters, so a cut at it never falls inside one.  The code breaks it: *)
(* it counts bytes, and a slice that ends inside a character panics; the   *)
(* reply is lost.                                                          *)
CutsBetweenCharacters == pc # "panic"
=============================================================================

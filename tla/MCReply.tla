------------------------------- MODULE MCReply -------------------------------
(* What becomes of a reply: it is streamed to the handler (LlmStream), and *)
(* a message of it is cut into pieces (MessageSplit).  The two share no    *)
(* variable: one of them is given something to do, the other an empty      *)
(* response or an empty text, and the splitting comes last.                *)
EXTENDS LlmStream, MessageSplit

(* SplitInit of an empty text, which TLC need not look up among all texts. *)
NoText == text = <<>> /\ limit = 1 /\ rest = <<>> /\ pieces = <<>> /\ pc = "loop"

ReplyInit ==
  \/ Init /\ NoText
  \/ lines = <<>> /\ Init /\ SplitInit

StreamStep == (Incoming \/ Processing \/ Handling) /\ UNCHANGED splitVars

Streamed == hpc = "done" /\ ppc = "end"

SplittingStep == Streamed /\ SplitStep /\ UNCHANGED vars

BothDone == Terminated /\ SplitTerminated

ReplySpec ==
  /\ ReplyInit
  /\ [][StreamStep \/ SplittingStep \/ BothDone]_<<vars, splitVars>>
  /\ WF_vars(Incoming) /\ WF_vars(Processing) /\ WF_vars(Handling)
  /\ WF_<<vars, splitVars>>(SplittingStep)

(* The type invariants of both.                                            *)
ReplyTypeOK == TypeOK /\ SplitTypeOK
=============================================================================

--------------------------- MODULE MCChatPipeline ---------------------------
(* Small instances of ChatPipeline.                                        *)
EXTENDS ChatPipeline

CONSTANTS a, b, h1, h2, h3

TwoBases == {a, b}
ThreeHandlers == {h1, h2, h3}
OneModel == {NoModel}
TurnMsgs == {Blank} \cup ThreeHandlers \X {"user", "assistant"}
=============================================================================

--------------------------- MODULE MCMessageRouter ---------------------------
(* Small instances of what becomes of a message before the chat: its       *)
(* images are gathered (ImageIntake), then it is routed (MessageRouter).   *)
(* The two share no variable (a message of the router has images or not):  *)
(* either a message whose images are of interest meets the bot's own       *)
(* messages, or an empty one meets all the others.                         *)
EXTENDS MessageRouter, ImageIntake

CONSTANTS
  h1, h2, good, bad,
  plain, avatar, cdn, local, name,
  MaxItems \* bound: segments and links of a message

TwoHandlers == {h1, h2}
GoodAndBad == {good, bad}
OnlyGood == {good}

(* The messages that compete for what handlers share, the selected model:  *)
(* commands in private chats, where every message is let in.               *)
PrivateCommands ==
  {m \in AllMessages : ~m.own /\ ~m.group /\ ~m.images /\ ~m.mentioned /\ ~m.replyToBot
                       /\ ~m.keyword /\ m.text \in AdminCommands}

(* Any message by itself (the other one is the bot's own, which it         *)
(* ignores), or two private commands side by side.                         *)
OwnMessage ==
  [own |-> TRUE, group |-> TRUE, admin |-> FALSE, text |-> "chat", images |-> FALSE,
   mentioned |-> FALSE, replyToBot |-> FALSE, keyword |-> FALSE]

Alone(m) == [h \in TwoHandlers |-> IF h = h1 THEN m ELSE OwnMessage]

AloneOrPaired ==
  msg \in {Alone(m) : m \in AllMessages} \cup [TwoHandlers -> PrivateCommands]

-----------------------------------------------------------------------------
(* Segments of every kind; local is a URL is_ssrf_url refuses.             *)
FourUrls == {plain, avatar, cdn, local}

Seg(u, f) == [url |-> u, file |-> f]

SomeSegments ==
  {Seg(u, Absent) : u \in FourUrls} \cup
  {Seg(Absent, local), Seg(plain, name), Seg(Absent, name), Seg(Absent, Absent)}

UpTo(n, S) == UNION {[1 .. k -> S] : k \in 0 .. n}

(* Messages with up to MaxItems segments and links, then some that quote.  *)
SmallPosts ==
  {p \in [segments : UpTo(MaxItems, SomeSegments), links : UpTo(MaxItems, FourUrls), quoted : {<<>>}] :
     Len(p.segments) + Len(p.links) <= MaxItems}
  \cup
  [segments : UpTo(1, SomeSegments), links : {<<>>, <<local>>},
   quoted : UpTo(2, UpTo(1, SomeSegments))]

OnlyLocal == {local}
OnlyCdn == {cdn}
OneName == {name}

(* IMAGE_URL_RE matches an avatar's URL, too, if it ends like a picture's. *)
ThreeExpressions == <<{plain, avatar, local}, {avatar}, {cdn}>>

NoPost ==
  /\ post = [segments |-> <<>>, links |-> <<>>, quoted |-> <<>>]
  /\ recognition = TRUE /\ mode = "url"

AnyConfig == CHOOSE c \in Configs : TRUE

MCInit ==
  /\ \/ AloneOrPaired /\ NoPost
     \/ msg = Alone(OwnMessage) /\ config = AnyConfig /\ wanted = [h \in TwoHandlers |-> good]
  /\ Init
  /\ IntakeInit

GatheringStep == IntakeStep /\ UNCHANGED vars

RoutingStep == stage = "over" /\ (\E h \in Handlers : Step(h)) /\ UNCHANGED intakeVars

BothDone == Over /\ Terminated

MCSpec == MCInit /\ [][GatheringStep \/ RoutingStep \/ BothDone]_<<vars, intakeVars>>

(* The type invariants of both.                                            *)
MCTypeOK == TypeOK /\ IntakeTypeOK
=============================================================================

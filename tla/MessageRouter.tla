---------------------------- MODULE MessageRouter ----------------------------
(***************************************************************************)
(* lib.rs handle_message with trigger.rs and cmd.rs: what becomes of a     *)
(* message before the chat pipeline.  Handlers run concurrently and share  *)
(* the selected model; a handler awaits the gateway's list of models       *)
(* between the command and the change.  The bot's administrators, its      *)
(* messages and the gateway are external and answer at will.               *)
(***************************************************************************)
EXTENDS Naturals

CONSTANTS
  Handlers,  \* messages under way
  Messages,  \* the messages the bot may get, a subset of AllMessages
  Configs,   \* the configurations, a subset of AllConfigs
  Models,    \* model names
  Supported, \* the ones the gateway lists, if it lists any
  NoModel    \* selected_model = ""

(* text: none, chat, an unknown slash command, or a command of cmd.rs;     *)
(* set, list, show and default are /model <name>, list, nothing and reset. *)
ModelCommands == {"show", "list", "set", "default"}
AdminCommands == ModelCommands \cup {"new"}
Commands == AdminCommands \cup {"ping", "help"}
TextKinds == {"none", "chat", "slash"} \cup Commands

AllMessages ==
  [own : BOOLEAN, group : BOOLEAN, admin : BOOLEAN, text : TextKinds, images : BOOLEAN,
   mentioned : BOOLEAN, replyToBot : BOOLEAN, keyword : BOOLEAN]

AllConfigs ==
  [adminOnly : BOOLEAN, notifyBlocked : BOOLEAN, keywordOnly : BOOLEAN,
   requireMention : BOOLEAN, allowBare : BOOLEAN]

ASSUME RouterAssumption ==
  /\ Messages \subseteq AllMessages /\ Configs \subseteq AllConfigs
  /\ Supported \subseteq Models /\ NoModel \notin Models

VARIABLES
  config,   \* HermesConfig, fixed while the plugin runs
  msg,      \* the message of each handler
  wanted,   \* the name in its /model <name>
  pc,       \* where each handler is
  answer,   \* what it has answered
  selected, \* selected_model of the session store
  fresh     \* the handlers that have opened a new session

vars == <<config, msg, wanted, pc, answer, selected, fresh>>

Answers ==
  {"none", "blocked", "pong", "help", "denied", "shown", "list", "no list", "unsupported",
   "switched", "restored", "new session"}

Init ==
  /\ config \in Configs
  /\ msg \in [Handlers -> Messages]
  /\ wanted \in [Handlers -> Models]
  /\ pc = [h \in Handlers |-> "new"]
  /\ answer = [h \in Handlers |-> "none"]
  /\ selected = NoModel
  /\ fresh = {}

Goto(h, next) == pc' = [pc EXCEPT ![h] = next]

AnswerAndChat(h, a) ==
  /\ answer' = [answer EXCEPT ![h] = a]
  /\ Goto(h, "chat")

Answer(h, a) ==
  /\ answer' = [answer EXCEPT ![h] = a]
  /\ Goto(h, "done")

-----------------------------------------------------------------------------
IsCommand(m) == m.text \in {"slash"} \cup Commands

Nothing(m) == m.own \/ (m.text = "none" /\ ~m.images)

Blocked(m) == config.adminOnly /\ ~m.admin

(* decide_group_trigger                                                    *)
CanRunCommand(m) ==
  IsCommand(m) /\ (m.mentioned \/ m.replyToBot \/ config.allowBare)

MentionWins(m) ==
  \/ m.keyword
  \/ CanRunCommand(m)
  \/ ~config.requireMention
  \/ m.mentioned \/ m.replyToBot

Triggered(m) ==
  \/ m.keyword
  \/ CanRunCommand(m)
  \/ ~config.keywordOnly /\ (~config.requireMention \/ m.mentioned \/ m.replyToBot)

(* The bot's own messages, and messages with neither text nor image.       *)
Ignore(h) ==
  /\ pc[h] = "new"
  /\ Nothing(msg[h])
  /\ Goto(h, "done")
  /\ UNCHANGED <<config, msg, wanted, answer, selected, fresh>>

(* admin_only_chat; should_notify decides whether the user is told.        *)
Block(h) ==
  /\ pc[h] = "new"
  /\ ~Nothing(msg[h]) /\ Blocked(msg[h])
  /\ \/ config.notifyBlocked /\ Answer(h, "blocked")
     \/ Goto(h, "done") /\ UNCHANGED answer
  /\ UNCHANGED <<config, msg, wanted, selected, fresh>>

Trigger(h) ==
  /\ pc[h] = "new"
  /\ ~Nothing(msg[h]) /\ ~Blocked(msg[h])
  /\ Goto(h, IF msg[h].group /\ ~Triggered(msg[h]) THEN "done" ELSE "dispatch")
  /\ UNCHANGED <<config, msg, wanted, answer, selected, fresh>>

-----------------------------------------------------------------------------
(* handle_command                                                          *)
AnyoneMay(h) == TRUE

MayRun(h) == msg[h].admin

Command(h, kinds) == pc[h] = "dispatch" /\ msg[h].text \in kinds

Chat(h) ==
  /\ pc[h] = "dispatch"
  /\ msg[h].text \notin Commands
  /\ Goto(h, "chat")
  /\ UNCHANGED <<config, msg, wanted, answer, selected, fresh>>

Ping(h) ==
  /\ Command(h, {"ping"})
  /\ Answer(h, "pong")
  /\ UNCHANGED <<config, msg, wanted, selected, fresh>>

Help(h) ==
  /\ Command(h, {"help"})
  /\ Answer(h, "help")
  /\ UNCHANGED <<config, msg, wanted, selected, fresh>>

Deny(h) ==
  /\ Command(h, AdminCommands) /\ ~MayRun(h)
  /\ Answer(h, "denied")
  /\ UNCHANGED <<config, msg, wanted, selected, fresh>>

NewSession(h) ==
  /\ Command(h, {"new"}) /\ MayRun(h)
  /\ fresh' = fresh \cup {h}
  /\ Answer(h, "new session")
  /\ UNCHANGED <<config, msg, wanted, selected>>

ShowModel(h) ==
  /\ Command(h, {"show"}) /\ MayRun(h)
  /\ Answer(h, "shown")
  /\ UNCHANGED <<config, msg, wanted, selected, fresh>>

ResetModel(h) ==
  /\ Command(h, {"default"}) /\ MayRun(h)
  /\ selected' = NoModel
  /\ Answer(h, "restored")
  /\ UNCHANGED <<config, msg, wanted, fresh>>

AskForModels(h) ==
  /\ Command(h, {"list", "set"}) /\ MayRun(h)
  /\ Goto(h, "listing")
  /\ UNCHANGED <<config, msg, wanted, answer, selected, fresh>>

ModelsListed(h) ==
  /\ pc[h] = "listing"
  /\ IF msg[h].text = "list"
       THEN Answer(h, "list") /\ UNCHANGED selected
       ELSE IF Supported # {} /\ wanted[h] \notin Supported
         THEN Answer(h, "unsupported") /\ UNCHANGED selected
         ELSE Answer(h, "switched") /\ selected' = wanted[h]
  /\ UNCHANGED <<config, msg, wanted, fresh>>

(* Without a list the model is taken on trust.                             *)
ListingFails(h) ==
  /\ pc[h] = "listing"
  /\ IF msg[h].text = "list"
       THEN Answer(h, "no list") /\ UNCHANGED selected
       ELSE Answer(h, "switched") /\ selected' = wanted[h]
  /\ UNCHANGED <<config, msg, wanted, fresh>>

Terminated ==
  /\ \A h \in Handlers : pc[h] \in {"done", "chat"}
  /\ UNCHANGED vars

Step(h) ==
  \/ Ignore(h) \/ Block(h) \/ Trigger(h) \/ Chat(h) \/ Ping(h) \/ Help(h) \/ Deny(h)
  \/ NewSession(h) \/ ShowModel(h) \/ ResetModel(h)
  \/ AskForModels(h) \/ ModelsListed(h) \/ ListingFails(h)

Next == (\E h \in Handlers : Step(h)) \/ Terminated

Spec == Init /\ [][Next]_vars

-----------------------------------------------------------------------------
(* Types; a handler has answered only when it is done, and one that goes   *)
(* on to the chat has not.                                                 *)
TypeOK ==
  /\ config \in Configs
  /\ msg \in [Handlers -> Messages] /\ wanted \in [Handlers -> Models]
  /\ pc \in [Handlers -> {"new", "dispatch", "listing", "chat", "done"}]
  /\ answer \in [Handlers -> Answers]
  /\ \A h \in Handlers : answer[h] # "none" => pc[h] = "done"
  /\ selected \in Models \cup {NoModel}
  /\ fresh \subseteq Handlers

(* The table of README "trigger.rs": in a group the bot reacts to keywords *)
(* and to commands it may run in every mode, to being addressed unless     *)
(* keyword_only_trigger, to anything in the open mode, and to nothing      *)
(* else.                                                                   *)
Reacted(h) == pc[h] \in {"dispatch", "listing", "chat"} \/ answer[h] \notin {"none", "blocked"}

Mode ==
  IF config.keywordOnly THEN "keyword" ELSE IF config.requireMention THEN "mention" ELSE "open"

InTable(m) ==
  LET command == IsCommand(m) /\ (config.allowBare \/ m.mentioned \/ m.replyToBot)
  IN  CASE Mode = "keyword" -> m.keyword \/ command
        [] Mode = "mention" -> m.keyword \/ command \/ m.mentioned \/ m.replyToBot
        [] Mode = "open" -> TRUE

TriggerTable ==
  \A h \in Handlers :
    msg[h].group /\ pc[h] # "new" /\ ~Nothing(msg[h]) /\ ~Blocked(msg[h]) =>
      (Reacted(h) <=> InTable(msg[h]))

(* README "`/model`、`/new`、`/reset` 仅管理员可用": what is selected is what  *)
(* an administrator asked for and was told to have, and only               *)
(* administrators open new sessions; under admin_only_chat nobody else     *)
(* gets past the notice.                                                   *)
OnlyAdminsChangeThings ==
  /\ selected # NoModel =>
       \E h \in Handlers :
         msg[h].admin /\ msg[h].text = "set" /\ wanted[h] = selected /\ answer[h] = "switched"
  /\ \A h \in fresh : msg[h].admin
  /\ config.adminOnly => \A h \in Handlers : Reacted(h) => msg[h].admin
=============================================================================

---------------------------- MODULE SessionState ----------------------------
(***************************************************************************)
(* session.rs: struct SessionState and what its methods do to it.  A state *)
(* is a record of four fields, like the struct; a session id               *)
(* "{base}:v{version}" is the pair <<base, version>>; a conversation is a  *)
(* sequence of messages of which Blank is the one with empty content.      *)
(***************************************************************************)
EXTENDS Eviction, Sequences

CONSTANTS
  Bases,        \* session base keys
  Models,       \* model names, NoModel among them
  NoModel,      \* selected_model = ""
  Msgs,         \* messages, Blank among them
  Blank,        \* a message whose content is empty
  MaxSessions,  \* MAX_SESSIONS
  SessionTtl,   \* SESSION_TTL_SECS
  MaxMessages   \* config local_history_max_messages; 0 is "no limit"

ASSUME StateAssumption ==
  /\ NoModel \in Models /\ Blank \in Msgs
  /\ MaxSessions \in Nat \ {0} /\ SessionTtl \in Nat /\ MaxMessages \in Nat

Ids == Bases \X Nat

NoEntries == [x \in {} |-> Blank]

Default ==
  [versions |-> NoEntries, model |-> NoModel, convs |-> NoEntries, last |-> NoEntries]

Restricted(f, S) == [x \in S |-> f[x]]

VersionOf(s, b) == IF b \in DOMAIN s.versions THEN s.versions[b] ELSE 0

(* session_id() *)
SessionId(s, b) == <<b, VersionOf(s, b)>>

(* get_conversation() *)
Conversation(s, id) == IF id \in DOMAIN s.convs THEN s.convs[id] ELSE <<>>

(* bump_session(), the part under the write lock.                          *)
BumpedById(s, b) ==
  [s EXCEPT !.versions = Put(@, SessionId(s, b), VersionOf(s, b) + 1)]

BumpedCarryingOver(s, b) ==
  [s EXCEPT !.versions = Put(@, b, VersionOf(s, b) + 1),
            !.convs = Put(@, <<b, VersionOf(s, b) + 1>>, Conversation(s, SessionId(s, b))),
            !.last = Put(@, <<b, VersionOf(s, b) + 1>>, 0)]

BumpedKeepingTimestamp(s, b) ==
  [s EXCEPT !.versions = Put(@, b, VersionOf(s, b) + 1),
            !.convs = Restricted(@, DOMAIN @ \ {SessionId(s, b)})]

Bumped(s, b) ==
  [versions |-> Put(s.versions, b, VersionOf(s, b) + 1),
   model |-> s.model,
   convs |-> Restricted(s.convs, DOMAIN s.convs \ {SessionId(s, b)}),
   last |-> Restricted(s.last, DOMAIN s.last \ {SessionId(s, b)})]

(* set_selected_model() and clear_selected_model()                         *)
Selecting(s, m) == [s EXCEPT !.model = m]

(* evict_stale(): drop the sessions older than the TTL, then the least     *)
(* recently active ones beyond MAX_SESSIONS, then the version of every     *)
(* base left without a session.  The code takes the number to remove from  *)
(* conversations and the order from last_active: the two maps have the     *)
(* same ids (Coherent), so this is one cut of last_active to MAX_SESSIONS. *)
Kept(s, S) ==
  [versions |-> s.versions, model |-> s.model,
   convs |-> Restricted(s.convs, S), last |-> Restricted(s.last, S)]

VersionsSwept(s) ==
  [s EXCEPT !.versions =
     Restricted(@, {b \in DOMAIN @ : \E id \in DOMAIN s.last : id[1] = b})]

EvictStale(s, time) ==
  LET cutoff == IF time > SessionTtl THEN time - SessionTtl ELSE 0
      live == {id \in DOMAIN s.last : s.last[id] >= cutoff}
  IN  {VersionsSwept(Kept(s, S)) : S \in LatestCuts(live, s.last, MaxSessions)}

(* append_conversation(), the part under the write lock.  Every caller     *)
(* appends one turn, a question and its answer.                            *)
DrainedTooLittle(c) ==
  IF MaxMessages > 0 /\ Len(c) > MaxMessages
    THEN SubSeq(c, Len(c) - MaxMessages, Len(c))
    ELSE c

Drained(c) ==
  IF MaxMessages > 0 /\ Len(c) > MaxMessages
    THEN SubSeq(c, Len(c) - MaxMessages + 1, Len(c))
    ELSE c

NonEmpty(m) == IF m = Blank THEN <<>> ELSE <<m>>

Extended(s, id, turn, time) ==
  LET c == Conversation(s, id) \o NonEmpty(turn[1]) \o NonEmpty(turn[2])
  IN  [versions |-> s.versions, model |-> s.model,
       convs |-> Put(s.convs, id, Drained(c)), last |-> Put(s.last, id, time)]

AppendOutcomes(s, id, turn, time) ==
  LET t == Extended(s, id, turn, time)
  IN  IF Cardinality(DOMAIN t.convs) > MaxSessions THEN EvictStale(t, time) ELSE {t}

-----------------------------------------------------------------------------
(* The sets of values, and what every SessionState the program makes       *)
(* satisfies: the two maps have the same ids, there are at most            *)
(* MAX_SESSIONS of them, and no conversation is over its limit.            *)
IsState(s) ==
  /\ s \in [versions : {s.versions}, model : Models, convs : {s.convs}, last : {s.last}]
  /\ DOMAIN s.versions \subseteq Bases
  /\ s.versions \in [DOMAIN s.versions -> Nat]
  /\ DOMAIN s.convs \subseteq Ids
  /\ s.convs \in [DOMAIN s.convs -> Seq(Msgs)]
  /\ s.last \in [DOMAIN s.last -> Nat]

Coherent(s) ==
  /\ DOMAIN s.convs = DOMAIN s.last
  /\ IsFiniteSet(DOMAIN s.convs)
  /\ Cardinality(DOMAIN s.convs) <= MaxSessions
  /\ MaxMessages > 0 => \A id \in DOMAIN s.convs : Len(s.convs[id]) <= MaxMessages
=============================================================================

------------------------------ MODULE OnebotApi ------------------------------
(***************************************************************************)
(* onebot_api: the HTTP API in front of the bot.  A request passes the     *)
(* layers of start() from the outside in, authentication, then the rate    *)
(* limit, then the handler of its endpoint.  A handler checks the body     *)
(* and the administrator key where the code does, and calls the bot: it    *)
(* awaits the answer, or hands the command over and answers at once.  The  *)
(* bot (kovi, NapCat) is external: what it did is effects.                 *)
(***************************************************************************)
EXTENDS Eviction, Sequences

CONSTANTS
  Requests,   \* HTTP requests
  Ops,        \* the endpoints they call
  RateLimit,  \* API_RATE_LIMIT_RPM
  RateWindow, \* API_RATE_WINDOW_SECS
  MaxEntries, \* 10000, the size at which the limiter's map is purged
  MaxHold,    \* bound: ticks between reading the clock and having the lock
  MaxTime     \* bound: the clock

(* The endpoints of router(), by what their handlers do.                   *)
InfoReads ==
  {"login_info", "friend_list", "group_list", "group_info", "group_member_list",
   "group_member_info", "stranger_info", "get_msg"}
MediaReads ==
  {"can_send_image", "can_send_record", "cookies", "csrf_token", "credentials", "record",
   "image", "get_forward_msg", "group_honor_info", "status", "version_info"}
GroupReads ==
  {"get_group_msg_history", "get_group_file_system_info", "get_group_root_files",
   "get_group_files_by_folder", "get_group_file_url", "get_file",
   "get_group_at_all_remain", "get_essence_msg_list"}
Sends == {"send_group_msg", "send_private_msg"}
FileWrites ==
  {"download_file", "upload_group_file", "upload_private_file", "delete_group_file",
   "create_group_file_folder", "delete_group_folder"}
ForwardWrites == {"set_essence_msg", "delete_essence_msg", "send_group_forward_msg"}
GroupCommands ==
  {"set_group_ban", "set_group_whole_ban", "set_group_kick", "set_group_admin",
   "set_group_anonymous"}
AnonymousBans == {"set_group_anonymous_ban"}
AccountCommands ==
  {"set_group_card", "set_group_name", "set_group_leave", "set_group_special_title",
   "send_like", "set_friend_add_request", "set_group_add_request", "delete_msg",
   "clean_cache"}

Reads == InfoReads \cup MediaReads \cup GroupReads
AwaitedWrites == Sends \cup FileWrites \cup ForwardWrites
Commands == GroupCommands \cup AnonymousBans \cup AccountCommands
Endpoints == Reads \cup AwaitedWrites \cup Commands

ASSUME ApiAssumption ==
  /\ Ops \subseteq Endpoints
  /\ RateLimit \in Nat \ {0} /\ RateWindow \in Nat \ {0} /\ MaxEntries \in Nat
  /\ MaxHold \in Nat /\ MaxTime \in Nat

VARIABLES
  req,     \* what each request asks, and with which headers
  pc,      \* the layer each request is at
  seen,    \* the `now` a request carries to the limiter's lock
  entries, \* rate_limiters: Authorization header -> [count, start]
  status,  \* the response, 0 while there is none
  effects, \* requests the bot has carried out
  clock,   \* Instant::now()
  count,   \* ghost: requests past the limiter in the window
  age      \* ghost: ticks since the window began, up to RateWindow + 1

vars == <<req, pc, seen, entries, status, effects, clock, count, age>>

(* auth: the Authorization header is missing, wrong, or the api_key;       *)
(* admin: X-Admin-Key is there and is the configured, non-empty admin_key; *)
(* body: the query or body deserializes; target: set_group_anonymous_ban   *)
(* has `anonymous` or `flag`.                                              *)
Request ==
  [auth : {"anonymous", "wrong", "api_key"}, op : Ops, admin : BOOLEAN, body : BOOLEAN,
   target : BOOLEAN]

Init ==
  /\ req \in [Requests -> Request]
  /\ pc = [r \in Requests |-> "new"]
  /\ seen = [r \in Requests |-> 0]
  /\ entries = [k \in {} |-> 0]
  /\ status = [r \in Requests |-> 0]
  /\ effects = {}
  /\ clock = 0
  /\ count = 0
  /\ age = 0

Respond(r, code) ==
  /\ status' = [status EXCEPT ![r] = code]
  /\ pc' = [pc EXCEPT ![r] = "done"]

(* The layers, outermost first: axum runs the one added last first.        *)
LayersSwapped == <<"rate", "auth", "handler">>

Layers == <<"auth", "rate", "handler">>

Inside(layer) == Layers[CHOOSE i \in 2 .. 3 : Layers[i - 1] = layer]

Arrive(r) ==
  /\ pc[r] = "new"
  /\ pc' = [pc EXCEPT ![r] = Layers[1]]
  /\ UNCHANGED <<req, seen, entries, status, effects, clock, count, age>>

Auth(r) ==
  /\ pc[r] = "auth"
  /\ IF req[r].auth = "api_key"
       THEN pc' = [pc EXCEPT ![r] = Inside("auth")] /\ UNCHANGED status
       ELSE Respond(r, 401)
  /\ UNCHANGED <<req, seen, entries, effects, clock, count, age>>

(* rate_limit_middleware reads the clock before it waits for the lock.     *)
ReadClock(r) ==
  /\ pc[r] = "rate"
  /\ seen' = [seen EXCEPT ![r] = clock]
  /\ pc' = [pc EXCEPT ![r] = "locking"]
  /\ UNCHANGED <<req, entries, status, effects, clock, count, age>>

(* Under the lock: purge a map that has grown too large, find or make the  *)
(* entry, begin a new window if the old one is over, count.  Instants      *)
(* subtract to zero at least.                                              *)
Since(time, start) == IF time > start THEN time - start ELSE 0

PurgedEntries(time) ==
  IF Cardinality(DOMAIN entries) > MaxEntries
    THEN [k \in {x \in DOMAIN entries : entries[x].start > time - 2 * RateWindow} |-> entries[k]]
    ELSE entries

WindowOf(e, k, time) == IF k \in DOMAIN e THEN e[k] ELSE [count |-> 0, start |-> time]

EndStored(w, time) ==
  IF Since(time, w.start) >= RateWindow THEN [count |-> 0, start |-> time + RateWindow] ELSE w

StartKept(w, time) ==
  IF Since(time, w.start) >= RateWindow THEN [w EXCEPT !.count = 0] ELSE w

Rolled(w, time) ==
  IF Since(time, w.start) >= RateWindow THEN [count |-> 0, start |-> time] ELSE w

CountRequest(r) ==
  /\ pc[r] = "locking"
  /\ LET e == PurgedEntries(seen[r])
         w == Rolled(WindowOf(e, req[r].auth, seen[r]), seen[r])
         counted == [w EXCEPT !.count = @ + 1]
     IN  /\ entries' = Put(e, req[r].auth, counted)
         /\ IF counted.count <= RateLimit
              THEN /\ pc' = [pc EXCEPT ![r] = Inside("rate")]
                   /\ count' = count + 1
                   /\ UNCHANGED status
              ELSE Respond(r, 429) /\ UNCHANGED count
  /\ UNCHANGED <<req, seen, effects, clock, age>>

-----------------------------------------------------------------------------
(* The handlers.  Extractors run first: a query or body that does not      *)
(* deserialize never reaches the handler.                                  *)
AdminOptional(r) == TRUE

AdminOk(r) == req[r].op \in Reads \/ req[r].admin  \* require_admin

Complete(r) == req[r].op \in AnonymousBans => req[r].target

RejectBody(r) ==
  /\ pc[r] = "handler"
  /\ ~req[r].body
  /\ Respond(r, 422)
  /\ UNCHANGED <<req, seen, entries, effects, clock, count, age>>

Forbid(r) ==
  /\ pc[r] = "handler"
  /\ req[r].body /\ ~AdminOk(r)
  /\ Respond(r, 403)
  /\ UNCHANGED <<req, seen, entries, effects, clock, count, age>>

RejectIncomplete(r) ==
  /\ pc[r] = "handler"
  /\ req[r].body /\ AdminOk(r) /\ ~Complete(r)
  /\ Respond(r, 400)
  /\ UNCHANGED <<req, seen, entries, effects, clock, count, age>>

(* Commands are handed to the bot without waiting: the answer is "ok".     *)
Dispatch(r) ==
  /\ pc[r] = "handler"
  /\ req[r].body /\ AdminOk(r) /\ Complete(r)
  /\ req[r].op \in Commands
  /\ effects' = effects \cup {r}
  /\ Respond(r, 200)
  /\ UNCHANGED <<req, seen, entries, clock, count, age>>

(* Reads and awaited writes wait for the bot ...                           *)
CallBot(r) ==
  /\ pc[r] = "handler"
  /\ req[r].body /\ AdminOk(r)
  /\ req[r].op \in Reads \cup AwaitedWrites
  /\ pc' = [pc EXCEPT ![r] = "calling"]
  /\ UNCHANGED <<req, seen, entries, status, effects, clock, count, age>>

BotAnswers(r) ==
  /\ pc[r] = "calling"
  /\ effects' = effects \cup {r}
  /\ Respond(r, 200)
  /\ UNCHANGED <<req, seen, entries, clock, count, age>>

(* ... which may fail, having carried the call out or not.                 *)
ErrorStatus(r) == 500

TakenForOk(r) == 200

BotFailure(r) == ErrorStatus(r)

BotFails(r) ==
  /\ pc[r] = "calling"
  /\ \/ UNCHANGED effects
     \/ effects' = effects \cup {r}
  /\ Respond(r, BotFailure(r))
  /\ UNCHANGED <<req, seen, entries, clock, count, age>>

Tick ==
  /\ clock < MaxTime
  /\ \A r \in Requests : pc[r] = "locking" => clock - seen[r] < MaxHold
  /\ clock' = clock + 1
  /\ age' = IF age > RateWindow THEN age ELSE age + 1
  /\ UNCHANGED <<req, pc, seen, entries, status, effects, count>>

(* Ghost: a window may begin at any moment.                                *)
OpenWindow ==
  /\ count' = 0
  /\ age' = 0
  /\ UNCHANGED <<req, pc, seen, entries, status, effects, clock>>

Step(r) ==
  \/ Arrive(r) \/ Auth(r) \/ ReadClock(r) \/ CountRequest(r)
  \/ RejectBody(r) \/ Forbid(r) \/ RejectIncomplete(r) \/ Dispatch(r)
  \/ CallBot(r) \/ BotAnswers(r) \/ BotFails(r)

Next == (\E r \in Requests : Step(r)) \/ Tick \/ OpenWindow

Spec == Init /\ [][Next]_vars

-----------------------------------------------------------------------------
(* Types; no clock reading is from the future, and a request has its       *)
(* response when it is over and not before.                                *)
TypeOK ==
  /\ clock \in 0 .. MaxTime /\ count \in Nat /\ age \in 0 .. RateWindow + 1
  /\ req \in [Requests -> Request]
  /\ pc \in [Requests -> {"new", "auth", "rate", "locking", "handler", "calling", "done"}]
  /\ seen \in [Requests -> 0 .. clock]
  /\ DOMAIN entries \subseteq {"anonymous", "wrong", "api_key"}
  /\ \A k \in DOMAIN entries : entries[k] \in [count : Nat \ {0}, start : 0 .. clock]
  /\ status \in [Requests -> {0, 200, 400, 401, 403, 422, 429, 500}]
  /\ \A r \in Requests : status[r] = 0 <=> pc[r] # "done"
  /\ effects \subseteq Requests

(* The limiter's map never grows with requests that hold no key: since     *)
(* authentication runs first it has one entry, the api_key's, and the      *)
(* purge at 10000 entries has nothing to do.                               *)
OnlyTheKeyIsCounted == DOMAIN entries \subseteq {"api_key"}

(* Nothing but a read happens without the api_key and the administrator's  *)
(* key, however requests interleave.                                       *)
EffectsAuthorized ==
  \A r \in effects :
    /\ req[r].auth = "api_key"
    /\ req[r].op \notin Reads => req[r].admin

(* The answer tells the truth: on 200 the bot has been called, on a 4xx it *)
(* has not.                                                                *)
StatusTruthful ==
  \A r \in Requests :
    /\ status[r] = 200 => r \in effects
    /\ status[r] \in 400 .. 499 => r \notin effects

(* A fixed window lets a burst end one window and begin the next, and a    *)
(* clock read before the lock can shift the boundary: in any stretch of    *)
(* RateWindow ticks at most three windows' worth of requests pass.         *)
BurstBound == age <= RateWindow => count <= 3 * RateLimit
=============================================================================

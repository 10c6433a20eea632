--------------------------- MODULE OnebotApiProofs ---------------------------
(***************************************************************************)
(* Proofs about OnebotApi for every set of requests and endpoints and      *)
(* every limit.                                                            *)
(***************************************************************************)
EXTENDS OnebotApi, TLAPS

(* The order of the layers.                                                *)
LEMMA LayerOrder ==
  /\ Layers[1] = "auth"
  /\ Inside("auth") = "rate"
  /\ Inside("rate") = "handler"
<1>1. /\ Layers[1] = "auth" /\ Layers[2] = "rate" /\ Layers[3] = "handler"
  BY DEF Layers
<1>2. Inside("auth") = "rate"
  <2>1. \A i \in 2 .. 3 : Layers[i - 1] = "auth" <=> i = 2
    BY <1>1
  <2>2. (CHOOSE i \in 2 .. 3 : Layers[i - 1] = "auth") = 2
    BY <2>1
  <2> QED BY <1>1, <2>2 DEF Inside
<1>3. Inside("rate") = "handler"
  <2>1. \A i \in 2 .. 3 : Layers[i - 1] = "rate" <=> i = 3
    BY <1>1
  <2>2. (CHOOSE i \in 2 .. 3 : Layers[i - 1] = "rate") = 3
    BY <2>1
  <2> QED BY <1>1, <2>2 DEF Inside
<1> QED BY <1>1, <1>2, <1>3

(* The limiter's entry for a request: counted at least once, begun by now. *)
LEMMA CountedType ==
  ASSUME TypeOK, NEW r \in Requests, CountRequest(r)
  PROVE  /\ DOMAIN entries' \subseteq {"anonymous", "wrong", "api_key"}
         /\ \A k \in DOMAIN entries' : entries'[k] \in [count : Nat \ {0}, start : 0 .. clock]
<1> DEFINE e == PurgedEntries(seen[r])
           k0 == req[r].auth
           w == Rolled(WindowOf(e, k0, seen[r]), seen[r])
           counted == [w EXCEPT !.count = @ + 1]
<1>1. k0 \in {"anonymous", "wrong", "api_key"} /\ seen[r] \in 0 .. clock /\ clock \in Nat
  BY ApiAssumption DEF TypeOK, Request
<1>2. /\ DOMAIN e \subseteq DOMAIN entries
      /\ \A k \in DOMAIN e : e[k] = entries[k]
  BY DEF PurgedEntries
<1>3. WindowOf(e, k0, seen[r]) \in [count : Nat, start : 0 .. clock]
  <2>1. CASE k0 \in DOMAIN e
    BY <1>2, <2>1 DEF WindowOf, TypeOK
  <2>2. CASE k0 \notin DOMAIN e
    BY <1>1, <2>2 DEF WindowOf
  <2> QED BY <2>1, <2>2
<1>4. w \in [count : Nat, start : 0 .. clock]
  BY <1>1, <1>3 DEF Rolled
<1> HIDE DEF w
<1>5. counted \in [count : Nat \ {0}, start : 0 .. clock]
  BY <1>4
<1> HIDE DEF e
<1>6. entries' = Put(e, k0, counted)
  BY DEF CountRequest, e, w
<1> HIDE DEF counted
<1>7. DOMAIN entries' = DOMAIN e \cup {k0}
  BY <1>6 DEF Put
<1>8. \A k \in DOMAIN entries' : entries'[k] = IF k = k0 THEN counted ELSE entries[k]
  BY <1>2, <1>6 DEF Put
<1> QED
  BY <1>1, <1>2, <1>5, <1>7, <1>8 DEF TypeOK

LEMMA InitType == Init => TypeOK
  BY ApiAssumption DEF Init, TypeOK

LEMMA StepType ==
  ASSUME TypeOK, NEW r \in Requests, Step(r)
  PROVE  TypeOK'
<1> USE DEF TypeOK
<1>1. CASE Arrive(r)
  BY <1>1, LayerOrder DEF Arrive
<1>2. CASE Auth(r)
  BY <1>2, LayerOrder DEF Auth, Respond
<1>3. CASE ReadClock(r)
  BY <1>3, ApiAssumption DEF ReadClock
<1>4. CASE CountRequest(r)
  <2>1. UNCHANGED <<req, seen, effects, clock, age>> /\ count' \in Nat /\ pc[r] = "locking"
    BY <1>4 DEF CountRequest
  <2>2. \/ pc' = [pc EXCEPT ![r] = "handler"] /\ UNCHANGED status
        \/ Respond(r, 429)
    BY <1>4, LayerOrder DEF CountRequest
  <2>3. /\ DOMAIN entries' \subseteq {"anonymous", "wrong", "api_key"}
        /\ \A k \in DOMAIN entries' : entries'[k] \in [count : Nat \ {0}, start : 0 .. clock]
    BY <1>4, CountedType
  <2> QED BY <2>1, <2>2, <2>3 DEF Respond
<1>5. CASE RejectBody(r) \/ Forbid(r) \/ RejectIncomplete(r)
  BY <1>5 DEF RejectBody, Forbid, RejectIncomplete, Respond
<1>6. CASE Dispatch(r)
  BY <1>6 DEF Dispatch, Respond
<1>7. CASE CallBot(r)
  BY <1>7 DEF CallBot
<1>8. CASE BotAnswers(r)
  BY <1>8 DEF BotAnswers, Respond
<1>9. CASE BotFails(r)
  BY <1>9 DEF BotFails, Respond, BotFailure, ErrorStatus
<1> QED
  BY <1>1, <1>2, <1>3, <1>4, <1>5, <1>6, <1>7, <1>8, <1>9 DEF Step

LEMMA TickType ==
  ASSUME TypeOK, Tick \/ OpenWindow \/ UNCHANGED vars
  PROVE  TypeOK'
<1>1. CASE Tick
  <2>1. clock' \in 0 .. MaxTime /\ clock \in Nat /\ clock' = clock + 1
    BY <1>1, ApiAssumption DEF Tick, TypeOK
  <2>2. age' \in 0 .. RateWindow + 1
    BY <1>1, ApiAssumption DEF Tick, TypeOK
  <2>3. seen \in [Requests -> 0 .. clock']
    BY <2>1 DEF TypeOK
  <2>4. \A k \in DOMAIN entries : entries[k] \in [count : Nat \ {0}, start : 0 .. clock']
    BY <2>1 DEF TypeOK
  <2> QED BY <1>1, <2>1, <2>2, <2>3, <2>4 DEF Tick, TypeOK
<1>2. CASE OpenWindow
  BY <1>2, ApiAssumption DEF OpenWindow, TypeOK
<1>3. CASE UNCHANGED vars
  BY <1>3 DEF vars, TypeOK
<1> QED BY <1>1, <1>2, <1>3

(* Types: no clock reading is from the future, and a request has its       *)
(* response when it is over and not before.                                *)
THEOREM TypeCorrect == Spec => []TypeOK
<1>1. TypeOK /\ [Next]_vars => TypeOK'
  BY StepType, TickType DEF Next
<1> QED BY InitType, <1>1, PTL DEF Spec

-----------------------------------------------------------------------------
Pcs == {"new", "auth", "rate", "locking", "handler", "calling", "done"}

(* A request behind the first layer holds the key; one that waits for the  *)
(* bot was let through by its handler; what the bot may have carried out   *)
(* belongs to a request that was let through and is over.                  *)
PastAuth ==
  \A r \in Requests : pc[r] \in {"rate", "locking", "handler", "calling"} => req[r].auth = "api_key"

PastHandler == \A r \in Requests : pc[r] = "calling" => AdminOk(r)

EffectsOver == \A r \in effects : pc[r] = "done" /\ status[r] \in {200, 500}

Shape ==
  /\ pc \in [Requests -> Pcs]
  /\ status \in [Requests -> Nat]
  /\ effects \subseteq Requests

ApiInv ==
  /\ Shape /\ PastAuth /\ PastHandler /\ EffectsOver
  /\ OnlyTheKeyIsCounted /\ EffectsAuthorized /\ StatusTruthful
  /\ \A r \in Requests : status[r] = 0 <=> pc[r] # "done"

LEMMA InitApiInv == Init => ApiInv
  BY DEF Init, ApiInv, Shape, Pcs, PastAuth, PastHandler, EffectsOver, OnlyTheKeyIsCounted,
         EffectsAuthorized, StatusTruthful

(* What a request may do with its place, status and effect so that the     *)
(* invariant stays: one lemma for steps inwards, one for responses.        *)
LEMMA Inwards ==
  ASSUME ApiInv, NEW r \in Requests, NEW p \in Pcs \ {"done"},
         pc[r] # "done", pc' = [pc EXCEPT ![r] = p],
         p \notin {"new", "auth"} => req[r].auth = "api_key",
         p = "calling" => AdminOk(r),
         DOMAIN entries' \subseteq {"api_key"},
         UNCHANGED <<req, status, effects>>
  PROVE  ApiInv'
<1> USE DEF ApiInv, Shape
<1>1. pc' \in [Requests -> Pcs] /\ \A q \in Requests : pc'[q] = IF q = r THEN p ELSE pc[q]
  OBVIOUS
<1>2. PastAuth'
  BY <1>1 DEF PastAuth
<1>3. PastHandler'
  BY <1>1 DEF PastHandler, AdminOk
<1>4. EffectsOver' /\ EffectsAuthorized' /\ StatusTruthful'
  BY <1>1 DEF EffectsOver, EffectsAuthorized, StatusTruthful
<1>5. OnlyTheKeyIsCounted'
  BY DEF OnlyTheKeyIsCounted
<1>6. \A q \in Requests : status'[q] = 0 <=> pc'[q] # "done"
  BY <1>1
<1> QED BY <1>1, <1>2, <1>3, <1>4, <1>5, <1>6

LEMMA Responding ==
  ASSUME ApiInv, NEW r \in Requests, NEW code \in Nat \ {0},
         pc[r] # "done", Respond(r, code),
         \/ UNCHANGED effects /\ code # 200
         \/ /\ effects' = effects \cup {r}
            /\ code \in {200, 500}
            /\ req[r].auth = "api_key" /\ AdminOk(r),
         DOMAIN entries' \subseteq {"api_key"},
         UNCHANGED req
  PROVE  ApiInv'
<1> USE DEF ApiInv, Shape
<1>1. /\ pc' \in [Requests -> Pcs] /\ status' \in [Requests -> Nat] /\ effects' \subseteq Requests
      /\ \A q \in Requests : pc'[q] = IF q = r THEN "done" ELSE pc[q]
      /\ \A q \in Requests : status'[q] = IF q = r THEN code ELSE status[q]
  BY DEF Respond, Pcs
<1>2. r \notin effects
  BY DEF EffectsOver
<1>3. PastAuth'
  BY <1>1 DEF PastAuth
<1>4. PastHandler'
  BY <1>1 DEF PastHandler, AdminOk
<1>5. EffectsOver'
  BY <1>1, <1>2 DEF EffectsOver
<1>6. EffectsAuthorized'
  BY <1>1, <1>2 DEF EffectsAuthorized, AdminOk
<1>7. StatusTruthful'
  BY <1>1, <1>2 DEF StatusTruthful
<1>8. OnlyTheKeyIsCounted'
  BY DEF OnlyTheKeyIsCounted
<1>9. \A q \in Requests : status'[q] = 0 <=> pc'[q] # "done"
  BY <1>1
<1> QED BY <1>1, <1>3, <1>4, <1>5, <1>6, <1>7, <1>8, <1>9

(* The limiter stores one entry, that of the request it counts.            *)
LEMMA CountedEntries ==
  ASSUME OnlyTheKeyIsCounted, NEW r \in Requests, req[r].auth = "api_key", CountRequest(r)
  PROVE  DOMAIN entries' \subseteq {"api_key"}
<1> DEFINE e == PurgedEntries(seen[r])
           w == Rolled(WindowOf(e, req[r].auth, seen[r]), seen[r])
<1>1. DOMAIN e \subseteq DOMAIN entries
  BY DEF PurgedEntries
<1>2. entries' = Put(e, req[r].auth, [w EXCEPT !.count = @ + 1])
  BY DEF CountRequest
<1>3. DOMAIN entries' = DOMAIN e \cup {req[r].auth}
  BY <1>2 DEF Put
<1> QED BY <1>1, <1>3 DEF OnlyTheKeyIsCounted

LEMMA StepApiInv ==
  ASSUME ApiInv, NEW r \in Requests, Step(r)
  PROVE  ApiInv'
<1> USE DEF Pcs
<1>0. DOMAIN entries \subseteq {"api_key"}
  BY DEF ApiInv, OnlyTheKeyIsCounted
<1>1. CASE Arrive(r)
  BY <1>0, <1>1, Inwards, LayerOrder DEF Arrive
<1>2. CASE Auth(r)
  <2>1. CASE req[r].auth = "api_key"
    BY <1>0, <1>2, <2>1, Inwards, LayerOrder DEF Auth
  <2>2. CASE req[r].auth # "api_key"
    BY <1>0, <1>2, <2>2, Responding DEF Auth
  <2> QED BY <2>1, <2>2
<1>3. CASE ReadClock(r)
  BY <1>0, <1>3, Inwards DEF ReadClock, ApiInv, PastAuth
<1>4. CASE CountRequest(r)
  <2>1. pc[r] = "locking" /\ req[r].auth = "api_key"
    BY <1>4 DEF CountRequest, ApiInv, PastAuth
  <2>2. DOMAIN entries' \subseteq {"api_key"}
    BY <1>4, <2>1, CountedEntries DEF ApiInv
  <2>3. /\ UNCHANGED <<req, effects>>
        /\ \/ pc' = [pc EXCEPT ![r] = "handler"] /\ UNCHANGED status
           \/ Respond(r, 429)
    BY <1>4, LayerOrder DEF CountRequest
  <2>4. CASE pc' = [pc EXCEPT ![r] = "handler"] /\ UNCHANGED status
    BY <2>1, <2>2, <2>3, <2>4, Inwards
  <2>5. CASE Respond(r, 429)
    BY <2>1, <2>2, <2>3, <2>5, Responding
  <2> QED BY <2>3, <2>4, <2>5
<1>5. CASE RejectBody(r)
  BY <1>0, <1>5, Responding DEF RejectBody
<1>6. CASE Forbid(r)
  BY <1>0, <1>6, Responding DEF Forbid
<1>7. CASE RejectIncomplete(r)
  BY <1>0, <1>7, Responding DEF RejectIncomplete
<1>8. CASE Dispatch(r)
  <2>1. pc[r] = "handler" /\ AdminOk(r) /\ req[r].auth = "api_key"
    BY <1>8 DEF Dispatch, ApiInv, PastAuth
  <2> QED BY <1>0, <1>8, <2>1, Responding DEF Dispatch
<1>9. CASE CallBot(r)
  <2>1. pc[r] = "handler" /\ AdminOk(r) /\ req[r].auth = "api_key"
    BY <1>9 DEF CallBot, ApiInv, PastAuth
  <2> QED BY <1>0, <1>9, <2>1, Inwards DEF CallBot
<1>10. CASE BotAnswers(r)
  <2>1. pc[r] = "calling" /\ AdminOk(r) /\ req[r].auth = "api_key"
    BY <1>10 DEF BotAnswers, ApiInv, PastAuth, PastHandler
  <2> QED BY <1>0, <1>10, <2>1, Responding DEF BotAnswers
<1>11. CASE BotFails(r)
  <2>1. pc[r] = "calling" /\ AdminOk(r) /\ req[r].auth = "api_key"
    BY <1>11 DEF BotFails, ApiInv, PastAuth, PastHandler
  <2>2. BotFailure(r) = 500
    BY DEF BotFailure, ErrorStatus
  <2> QED BY <1>0, <1>11, <2>1, <2>2, Responding DEF BotFails
<1> QED
  BY <1>1, <1>2, <1>3, <1>4, <1>5, <1>6, <1>7, <1>8, <1>9, <1>10, <1>11 DEF Step

LEMMA NextApiInv == ApiInv /\ [Next]_vars => ApiInv'
<1> SUFFICES ASSUME ApiInv, [Next]_vars PROVE ApiInv'
  OBVIOUS
<1>1. CASE \E r \in Requests : Step(r)
  BY <1>1, StepApiInv
<1>2. CASE Tick \/ OpenWindow \/ UNCHANGED vars
  <2>1. UNCHANGED <<req, pc, entries, status, effects>>
    BY <1>2 DEF Tick, OpenWindow, vars
  <2> QED
    BY <2>1 DEF ApiInv, Shape, PastAuth, PastHandler, AdminOk, EffectsOver,
                OnlyTheKeyIsCounted, EffectsAuthorized, StatusTruthful
<1> QED BY <1>1, <1>2 DEF Next

LEMMA AlwaysApiInv == Spec => []ApiInv
  BY InitApiInv, NextApiInv, PTL DEF Spec

(* Whatever the size of the map, only requests that hold the api_key are   *)
(* counted: rate_limit_middleware is inside the authentication.            *)
THEOREM OnlyTheKeyCounts == Spec => []OnlyTheKeyIsCounted
<1>1. ApiInv => OnlyTheKeyIsCounted
  BY DEF ApiInv
<1> QED BY <1>1, AlwaysApiInv, PTL

(* However many requests interleave, the bot does nothing for one without  *)
(* the api_key, and nothing but reads without the administrator's key.     *)
THEOREM EffectsAlwaysAuthorized == Spec => []EffectsAuthorized
<1>1. ApiInv => EffectsAuthorized
  BY DEF ApiInv
<1> QED BY <1>1, AlwaysApiInv, PTL

(* A 200 is given for what the bot has carried out, a 4xx for what it has  *)
(* not been asked.                                                         *)
THEOREM StatusAlwaysTruthful == Spec => []StatusTruthful
<1>1. ApiInv => StatusTruthful
  BY DEF ApiInv
<1> QED BY <1>1, AlwaysApiInv, PTL
-----------------------------------------------------------------------------
(* The burst.  A request that waits for the limiter has read the clock     *)
(* MaxHold ticks ago at most.                                              *)
HeldBriefly == \A r \in Requests : pc[r] = "locking" => clock - seen[r] <= MaxHold

(* What was let through since the observer's window began, age ticks ago,  *)
(* counts in the limiter's window of that time, or in that and the one     *)
(* after it, or in that and two more.  A window opened meanwhile is as old *)
(* as the oldest clock reading a request could come with, and the next one *)
(* younger by RateWindow.                                                  *)
Passed(w) == IF w.count <= RateLimit THEN w.count ELSE RateLimit

Within(w) ==
  LET oldest == clock - age - MaxHold
  IN  \/ count <= Passed(w)
      \/ count <= RateLimit + Passed(w) /\ w.start >= oldest
      \/ count <= 2 * RateLimit + Passed(w) /\ w.start >= oldest + RateWindow

BurstInv ==
  age <= RateWindow =>
    IF "api_key" \in DOMAIN entries THEN Within(entries["api_key"]) ELSE count = 0

(* The request is counted in the window there is, or opens the next, no    *)
(* sooner than RateWindow after the beginning of the last one; the purge   *)
(* removes only windows that are over.                                     *)
LEMMA CountedWindow ==
  ASSUME TypeOK, NEW r \in Requests, CountRequest(r), req[r].auth = "api_key"
  PROVE  /\ "api_key" \in DOMAIN entries'
         /\ \/ /\ "api_key" \in DOMAIN entries
               /\ entries'["api_key"].start = entries["api_key"].start
               /\ entries'["api_key"].count = entries["api_key"].count + 1
            \/ /\ entries'["api_key"].start = seen[r]
               /\ entries'["api_key"].count = 1
               /\ "api_key" \in DOMAIN entries => seen[r] >= entries["api_key"].start + RateWindow
         /\ count' = IF entries'["api_key"].count <= RateLimit THEN count + 1 ELSE count
<1> DEFINE e == PurgedEntries(seen[r])
           v == WindowOf(e, "api_key", seen[r])
           w == Rolled(v, seen[r])
           counted == [w EXCEPT !.count = @ + 1]
<1>1. seen[r] \in Nat /\ RateWindow \in Nat \ {0}
  BY ApiAssumption DEF TypeOK
<1>2. \A k \in DOMAIN entries : entries[k] \in [count : Nat, start : Nat]
  BY ApiAssumption DEF TypeOK
<1>3. /\ entries' = Put(e, "api_key", counted)
      /\ count' = IF counted.count <= RateLimit THEN count + 1 ELSE count
  <2>1. req[r].auth = "api_key"
    OBVIOUS
  <2> QED BY <2>1 DEF CountRequest
<1>4. /\ \A k \in DOMAIN e : k \in DOMAIN entries /\ e[k] = entries[k]
      /\ \A k \in DOMAIN entries : k \notin DOMAIN e => seen[r] >= entries[k].start + RateWindow
  <2>1. \A k \in DOMAIN entries :
          ~(entries[k].start > seen[r] - 2 * RateWindow) => seen[r] >= entries[k].start + RateWindow
    BY <1>1, <1>2
  <2> QED BY <2>1 DEF PurgedEntries
<1> HIDE DEF e
<1>5. \/ "api_key" \in DOMAIN e /\ v = entries["api_key"]
      \/ "api_key" \notin DOMAIN e /\ v = [count |-> 0, start |-> seen[r]]
  BY <1>4 DEF WindowOf
<1>6. v \in [count : Nat, start : Nat]
  BY <1>1, <1>2, <1>4, <1>5
<1> HIDE DEF v
<1>7. \/ w = v
      \/ w = [count |-> 0, start |-> seen[r]] /\ seen[r] >= v.start + RateWindow
  BY <1>1, <1>6 DEF Rolled, Since
<1>8. w \in [count : Nat, start : Nat]
  BY <1>1, <1>6, <1>7
<1> HIDE DEF w
<1>9. counted.count = w.count + 1 /\ counted.start = w.start
  BY <1>8
<1> HIDE DEF counted
<1>10. "api_key" \in DOMAIN entries' /\ entries'["api_key"] = counted
  BY <1>3 DEF Put
<1>11. \/ "api_key" \in DOMAIN entries /\ w = entries["api_key"]
       \/ /\ w.count = 0 /\ w.start = seen[r]
          /\ "api_key" \in DOMAIN entries => seen[r] >= entries["api_key"].start + RateWindow
  BY <1>4, <1>5, <1>7
<1> QED BY <1>3, <1>9, <1>10, <1>11

LEMMA CountedBurst ==
  ASSUME MaxHold < RateWindow, TypeOK, ApiInv, HeldBriefly, BurstInv,
         NEW r \in Requests, CountRequest(r)
  PROVE  BurstInv'
<1> SUFFICES ASSUME age' <= RateWindow PROVE BurstInv'
  BY DEF BurstInv
<1>1. /\ pc[r] = "locking" /\ UNCHANGED <<clock, age, seen>>
  BY DEF CountRequest
<1>2. req[r].auth = "api_key" /\ clock - seen[r] <= MaxHold
  BY <1>1 DEF ApiInv, PastAuth, HeldBriefly
<1> DEFINE k == "api_key"
           new == entries'[k]
           old == entries[k]
<1>3. /\ k \in DOMAIN entries'
      /\ \/ k \in DOMAIN entries /\ new.start = old.start /\ new.count = old.count + 1
         \/ /\ new.start = seen[r] /\ new.count = 1
            /\ k \in DOMAIN entries => seen[r] >= old.start + RateWindow
      /\ count' = IF new.count <= RateLimit THEN count + 1 ELSE count
  BY <1>2, CountedWindow
<1>4. /\ seen[r] \in Nat /\ clock \in Nat /\ seen[r] <= clock /\ age \in Nat /\ count \in Nat
      /\ RateWindow \in Nat /\ MaxHold \in Nat /\ RateLimit \in Nat \ {0}
      /\ k \in DOMAIN entries => old.count \in Nat /\ old.start \in Nat
  BY ApiAssumption DEF TypeOK
<1>5. IF k \in DOMAIN entries THEN Within(old) ELSE count = 0
  BY <1>1 DEF BurstInv
<1> HIDE DEF new, old, k
<1>6. \/ count' <= Passed(new)
      \/ count' <= RateLimit + Passed(new) /\ new.start >= clock - age - MaxHold
      \/ count' <= 2 * RateLimit + Passed(new) /\ new.start >= clock - age - MaxHold + RateWindow
  <2>1. CASE k \in DOMAIN entries /\ new.start = old.start /\ new.count = old.count + 1
    BY <1>3, <1>4, <1>5, <2>1 DEF Within, Passed
  <2>2. CASE k \notin DOMAIN entries /\ new.count = 1
    BY <1>3, <1>4, <1>5, <2>2 DEF Passed
  <2>3. CASE /\ k \in DOMAIN entries /\ new.start = seen[r] /\ new.count = 1
             /\ seen[r] >= old.start + RateWindow
    <3>1. Passed(new) = 1 /\ Passed(old) <= RateLimit /\ count' = count + 1
      BY <1>3, <1>4, <2>3 DEF Passed
    <3>2. seen[r] >= clock - age - MaxHold
      BY <1>2, <1>4
    <3>3. Passed(old) \in Nat
      BY <1>4, <2>3 DEF Passed
    <3>4. CASE count <= Passed(old)
      BY <1>4, <2>3, <3>1, <3>2, <3>3, <3>4
    <3>5. CASE count <= RateLimit + Passed(old) /\ old.start >= clock - age - MaxHold
      BY <1>4, <2>3, <3>1, <3>3, <3>5
    <3>6. CASE old.start >= clock - age - MaxHold + RateWindow
      BY <1>1, <1>4, <2>3, <3>6
    <3> QED BY <1>5, <2>3, <3>4, <3>5, <3>6 DEF Within
  <2> QED BY <1>3, <2>1, <2>2, <2>3
<1>7. Within(entries["api_key"])'
  BY <1>1, <1>6 DEF Within, Passed, new, k
<1> QED BY <1>3, <1>7 DEF BurstInv, k

LEMMA StepBurst ==
  ASSUME MaxHold < RateWindow, TypeOK, ApiInv, HeldBriefly, BurstInv, NEW r \in Requests, Step(r)
  PROVE  HeldBriefly' /\ BurstInv'
<1> USE LayerOrder
<1>1. CASE CountRequest(r)
  <2>1. HeldBriefly'
    BY <1>1 DEF CountRequest, Respond, HeldBriefly, TypeOK
  <2> QED BY <1>1, <2>1, CountedBurst
<1>2. CASE ReadClock(r)
  <2>1. HeldBriefly'
    BY <1>2, ApiAssumption DEF ReadClock, HeldBriefly, TypeOK
  <2>2. UNCHANGED <<entries, clock, count, age>>
    BY <1>2 DEF ReadClock
  <2> QED BY <2>1, <2>2 DEF BurstInv, Within, Passed
<1>3. CASE /\ UNCHANGED <<seen, entries, clock, count, age>>
           /\ \A q \in Requests : pc'[q] = "locking" => pc[q] = "locking"
  BY <1>3 DEF HeldBriefly, BurstInv, Within, Passed
<1>4. CASE Arrive(r) \/ Auth(r) \/ CallBot(r)
  <2>1. \A q \in Requests : pc'[q] = "locking" => pc[q] = "locking"
    BY <1>4 DEF Arrive, Auth, CallBot, Respond, TypeOK
  <2> QED BY <1>3, <1>4, <2>1 DEF Arrive, Auth, CallBot
<1>5. CASE \/ RejectBody(r) \/ Forbid(r) \/ RejectIncomplete(r) \/ Dispatch(r)
           \/ BotAnswers(r) \/ BotFails(r)
  <2>1. \A q \in Requests : pc'[q] = "locking" => pc[q] = "locking"
    BY <1>5 DEF RejectBody, Forbid, RejectIncomplete, Dispatch, BotAnswers, BotFails, Respond, TypeOK
  <2> QED
    BY <1>3, <1>5, <2>1 DEF RejectBody, Forbid, RejectIncomplete, Dispatch, BotAnswers, BotFails
<1> QED BY <1>1, <1>2, <1>4, <1>5 DEF Step

LEMMA TickBurst ==
  ASSUME TypeOK, HeldBriefly, BurstInv, Tick \/ OpenWindow \/ UNCHANGED vars
  PROVE  HeldBriefly' /\ BurstInv'
<1>1. CASE Tick
  <2>1. /\ clock \in Nat /\ age \in Nat /\ RateWindow \in Nat /\ MaxHold \in Nat
        /\ \A r \in Requests : seen[r] \in Nat
    BY ApiAssumption DEF TypeOK
  <2>2. /\ UNCHANGED <<pc, seen, entries, count>> /\ clock' = clock + 1
        /\ age' = IF age > RateWindow THEN age ELSE age + 1
        /\ \A r \in Requests : pc[r] = "locking" => clock - seen[r] < MaxHold
    BY <1>1 DEF Tick
  <2>3. HeldBriefly'
    BY <2>1, <2>2 DEF HeldBriefly
  <2>4. age' <= RateWindow => age <= RateWindow /\ clock' - age' = clock - age
    BY <2>1, <2>2
  <2>5. BurstInv'
    BY <2>1, <2>2, <2>4 DEF BurstInv, Within, Passed
  <2> QED BY <2>3, <2>5
<1>2. CASE OpenWindow
  <2>1. /\ UNCHANGED <<pc, seen, entries, clock>> /\ count' = 0
    BY <1>2 DEF OpenWindow
  <2>2. RateLimit \in Nat /\ \A k \in DOMAIN entries : entries[k].count \in Nat
    BY ApiAssumption DEF TypeOK
  <2> QED BY <2>1, <2>2 DEF HeldBriefly, BurstInv, Within, Passed
<1>3. CASE UNCHANGED vars
  BY <1>3 DEF vars, HeldBriefly, BurstInv, Within, Passed
<1> QED BY <1>1, <1>2, <1>3

(* As long as no request waits for the limiter's lock for a whole window,  *)
(* no stretch of RateWindow sees more than three windows' worth of them,   *)
(* however the clock readings and the locks are ordered.                   *)
THEOREM BurstsBounded ==
  ASSUME MaxHold < RateWindow
  PROVE  Spec => []BurstBound
<1> DEFINE Inv == TypeOK /\ ApiInv /\ HeldBriefly /\ BurstInv
<1>1. Init => Inv
  BY InitType, InitApiInv DEF Init, HeldBriefly, BurstInv
<1>2. Inv /\ [Next]_vars => Inv'
  <2> SUFFICES ASSUME Inv, [Next]_vars PROVE Inv'
    OBVIOUS
  <2>1. TypeOK'
    BY StepType, TickType DEF Next
  <2>2. ApiInv'
    BY NextApiInv
  <2>3. HeldBriefly' /\ BurstInv'
    BY StepBurst, TickBurst DEF Next
  <2> QED BY <2>1, <2>2, <2>3
<1>3. Inv => BurstBound
  <2> SUFFICES ASSUME Inv, age <= RateWindow PROVE count <= 3 * RateLimit
    BY DEF BurstBound
  <2>1. count \in Nat /\ RateLimit \in Nat
    BY ApiAssumption DEF TypeOK
  <2>2. CASE "api_key" \in DOMAIN entries
    <3>1. Passed(entries["api_key"]) <= RateLimit /\ Passed(entries["api_key"]) \in Nat
      BY <2>1, <2>2 DEF Passed, TypeOK
    <3>2. Within(entries["api_key"])
      BY <2>2 DEF BurstInv
    <3> QED BY <2>1, <3>1, <3>2 DEF Within
  <2>3. CASE "api_key" \notin DOMAIN entries
    BY <2>1, <2>3 DEF BurstInv
  <2> QED BY <2>2, <2>3
<1> HIDE DEF Inv
<1> QED BY <1>1, <1>2, <1>3, PTL DEF Spec
=============================================================================

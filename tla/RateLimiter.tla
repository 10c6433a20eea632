----------------------------- MODULE RateLimiter -----------------------------
(***************************************************************************)
(* ratelimit.rs: the token bucket in front of every request to the         *)
(* gateway.  Time passes in ticks, Minute of them to a minute, and tokens  *)
(* are counted in parts, Minute parts to a token: at MaxRpm tokens per     *)
(* minute a tick refills exactly MaxRpm parts, so the arithmetic is exact  *)
(* (the rounding of f64 is left out).                                      *)
(*                                                                         *)
(* last_refill is kept as idle, the ticks since then, up to Minute: more   *)
(* than a minute fills the bucket like a minute does.  The ghost count is  *)
(* the number of requests let through since a moment chosen freely, age    *)
(* ticks ago (up to Minute + 1), so that it stands for every window.       *)
(***************************************************************************)
EXTENDS Integers

CONSTANTS
  Requests, \* calls of acquire()
  MaxRpm,   \* config api_rate_limit_rpm, not 0 (0 is LimiterKind::Unlimited)
  Minute    \* ticks in a minute

ASSUME RateAssumption == MaxRpm \in Nat \ {0} /\ Minute \in Nat \ {0}

VARIABLES
  tokens, \* parts in the bucket as of the last refill
  idle,   \* ticks since the last refill
  at,     \* where each call of acquire is
  wait,   \* ticks each call still sleeps
  count,  \* ghost: requests let through in the window
  age     \* ghost: ticks since the window began

rateVars == <<tokens, idle, at, wait, count, age>>

Capacity == MaxRpm * Minute

Lesser(x, y) == IF x <= y THEN x ELSE y

RateInit ==
  /\ tokens = Capacity
  /\ idle = 0
  /\ at = [r \in Requests |-> "new"]
  /\ wait = [r \in Requests |-> 0]
  /\ count = 0
  /\ age = 0

(* refill()                                                                *)
RefilledPastMax == tokens + idle * MaxRpm

Refilled == Lesser(tokens + idle * MaxRpm, Capacity)

KeepLastRefill == idle

IdleAfterRefill == 0

(* wait_duration(): the time until a whole token is there, rounded up.     *)
WaitFor(t) == (Minute - t + MaxRpm - 1) \div MaxRpm

Arrive(r) ==
  /\ at[r] = "new"
  /\ at' = [at EXCEPT ![r] = "try"]
  /\ UNCHANGED <<tokens, idle, wait, count, age>>

(* One round of the loop in acquire(), under the lock: a token is there,   *)
Admit(r) ==
  /\ at[r] = "try"
  /\ Refilled >= Minute
  /\ tokens' = Refilled - Minute
  /\ idle' = IdleAfterRefill
  /\ at' = [at EXCEPT ![r] = "admitted"]
  /\ count' = count + 1
  /\ UNCHANGED <<wait, age>>

(* or the call sleeps until one should be, and tries again.                *)
Sleep(r) ==
  /\ at[r] = "try"
  /\ Refilled < Minute
  /\ tokens' = Refilled
  /\ idle' = IdleAfterRefill
  /\ wait' = [wait EXCEPT ![r] = WaitFor(Refilled)]
  /\ at' = [at EXCEPT ![r] = "asleep"]
  /\ UNCHANGED <<count, age>>

SleepsOn(r) == "asleep"

WakesTo(r) == "try"

Wake(r) ==
  /\ at[r] = "asleep"
  /\ wait[r] = 0
  /\ at' = [at EXCEPT ![r] = WakesTo(r)]
  /\ UNCHANGED <<tokens, idle, wait, count, age>>

Tick ==
  /\ idle' = Lesser(idle + 1, Minute)
  /\ wait' = [r \in Requests |-> IF wait[r] > 0 THEN wait[r] - 1 ELSE 0]
  /\ age' = Lesser(age + 1, Minute + 1)
  /\ UNCHANGED <<tokens, at, count>>

(* Ghost: a window may begin at any moment.                                *)
OpenWindow ==
  /\ count' = 0
  /\ age' = 0
  /\ UNCHANGED <<tokens, idle, at, wait>>

Step(r) == Arrive(r) \/ Admit(r) \/ Sleep(r) \/ Wake(r)

RateNext == (\E r \in Requests : Step(r)) \/ Tick \/ OpenWindow

RateSpec == RateInit /\ [][RateNext]_rateVars

(* Time passes and the runtime polls every call that can go on.            *)
RequestFair(r) == WF_rateVars(Step(r))

FairRateSpec == RateSpec /\ WF_rateVars(Tick) /\ \A r \in Requests : RequestFair(r)

-----------------------------------------------------------------------------
RateTypeOK ==
  /\ tokens \in 0 .. Capacity
  /\ idle \in 0 .. Minute
  /\ at \in [Requests -> {"new", "try", "asleep", "admitted"}]
  /\ wait \in [Requests -> 0 .. Minute]
  /\ count \in Nat
  /\ age \in 0 .. Minute + 1

(* README "`max_rpm` 配置每分钟最大请求数" (the most requests a minute) is   *)
(* kept up to a factor of two: however requests arrive, sleep and wake, a  *)
(* minute sees at most a full bucket and what flows in meanwhile.          *)
WindowBound == age <= Minute => count <= 2 * MaxRpm

(* Nobody who asks for a token sleeps for ever.                            *)
EveryRequestAdmitted == \A r \in Requests : at[r] = "try" ~> at[r] = "admitted"
=============================================================================

------------------------------ MODULE ApiGate ------------------------------
(***************************************************************************)
(* The gate every Spotify request of src/src/network/base.py goes through: *)
(* the global pause after a 429, the throttle per endpoint, the count of   *)
(* failures that takes the application offline; and the status bar's timer *)
(* that counts the pause down.                                             *)
(*                                                                         *)
(* _safe_api_call runs in as many threads as there are requests.  Only the *)
(* throttle and the count are under a lock.  A request answered from the   *)
(* cache leaves this state alone and is not a step.                        *)
(***************************************************************************)
EXTENDS Integers, FiniteSets

CONSTANTS
    Thread,       \* threads that make requests
    Endpoint,     \* track_name
    MinInterval,  \* min_interval, in ticks
    Forced,       \* the endpoints some caller asks for without min_interval
    RetryAfter,   \* the pauses a 429 may ask for, the 30 s buffer included
    Threshold,    \* failure_threshold
    MaxTime,      \* bound of the model: the clock stops here
    MaxCalls      \* bound of the model: requests and logins in a run

ASSUME IntervalOK == MinInterval \in Nat
ASSUME ForcedOK   == Forced \subseteq Endpoint
ASSUME RetryOK    == RetryAfter \subseteq Nat \ {0}
ASSUME BoundsOK   == Threshold \in Nat \ {0} /\ MaxTime \in Nat /\ MaxCalls \in Nat

VARIABLES
    now,        \* time.time()
    limit,      \* _rate_limit_until
    barLimit,   \* the store's rate_limit_until, 0 when there is none
    lastCall,   \* _last_call_times
    failures,   \* consecutive_failures
    connected,  \* the store's api_connected
    pc,         \* the step each thread is at
    at,         \* the time each thread read on entry
    endpoint,   \* the endpoint it asks for
    expire,     \* the expire_time it computed
    bar,        \* the step the status bar's timer is at
    calls,      \* requests and logins so far
    paused,     \* history: the latest end of a pause that was announced
    streak,     \* history: failed requests since the last one that succeeded
    last        \* history: whether a failure or a login came last

request == <<pc, at, endpoint, expire>>
health  == <<failures, connected>>
history == <<paused, streak, last>>
vars    == <<now, limit, barLimit, lastCall, health, request, bar, calls, history>>

Steps == {"idle", "limit", "throttle", "flight", "pause", "publish", "count", "mark"}

TypeOK ==
    /\ now \in Nat
    /\ limit \in Nat
    /\ barLimit \in Nat
    /\ lastCall \in [Endpoint -> Nat]
    /\ failures \in Nat
    /\ connected \in BOOLEAN
    /\ pc \in [Thread -> Steps]
    /\ at \in [Thread -> Nat]
    /\ endpoint \in [Thread -> Endpoint]
    /\ expire \in [Thread -> Nat]
    /\ bar \in {"idle", "reset"}
    /\ calls \in Nat
    /\ paused \in Nat
    /\ streak \in Nat
    /\ last \in {"none", "failure", "login"}

\* The clock starts later than the throttle looks back.
Init ==
    /\ now = MinInterval
    /\ limit = 0
    /\ barLimit = 0
    /\ lastCall = [e \in Endpoint |-> 0]
    /\ failures = 0
    /\ connected = TRUE
    /\ pc = [t \in Thread |-> "idle"]
    /\ at = [t \in Thread |-> 0]
    /\ endpoint \in [Thread -> Endpoint]
    /\ expire = [t \in Thread |-> 0]
    /\ bar = "idle"
    /\ calls = 0
    /\ paused = 0
    /\ streak = 0
    /\ last = "none"

Latest(a, b) == IF a > b THEN a ELSE b

Goto(t, step) == pc' = [pc EXCEPT ![t] = step]

Step(t, from, to) == pc[t] = from /\ Goto(t, to)

-----------------------------------------------------------------------------
\* A request reads the time once, before everything else.
Enter(t, e) ==
    /\ calls < MaxCalls
    /\ calls' = calls + 1
    /\ Step(t, "idle", "limit")
    /\ at' = [at EXCEPT ![t] = now]
    /\ endpoint' = [endpoint EXCEPT ![t] = e]
    /\ UNCHANGED <<now, limit, barLimit, lastCall, health, expire, bar, history>>

CheckLimit(t) ==
    /\ pc[t] = "limit"
    /\ Goto(t, IF at[t] < limit THEN "idle" ELSE "throttle")
    /\ UNCHANGED <<now, limit, barLimit, lastCall, health, at, endpoint, expire,
                   bar, calls, history>>

TooSoon(t) == at[t] - lastCall[endpoint[t]] < MinInterval

\* The throttle, under _call_lock.
Throttled(t) ==
    /\ Step(t, "throttle", "idle")
    /\ TooSoon(t)
    /\ UNCHANGED <<now, limit, barLimit, lastCall, health, at, endpoint, expire,
                   bar, calls, history>>

Admit(t) ==
    /\ Step(t, "throttle", "flight")
    /\ ~ TooSoon(t)
    /\ lastCall' = [lastCall EXCEPT ![endpoint[t]] = at[t]]
    /\ UNCHANGED <<now, limit, barLimit, health, at, endpoint, expire, bar, calls,
                   history>>

\* A forced request passes without being looked at, or stamped.
AdmitForced(t) ==
    /\ endpoint[t] \in Forced
    /\ Step(t, "throttle", "flight")
    /\ UNCHANGED <<now, limit, barLimit, lastCall, health, at, endpoint, expire,
                   bar, calls, history>>

\* The answer: a result, which nobody reports to _update_connectivity ...
Succeed(t) ==
    /\ Step(t, "flight", "idle")
    /\ streak' = 0
    /\ UNCHANGED <<now, limit, barLimit, lastCall, health, at, endpoint, expire,
                   bar, calls, paused, last>>

\* ... a 403 or 404, which is not a failure of the connection ...
Refused(t) ==
    /\ Step(t, "flight", "idle")
    /\ UNCHANGED <<now, limit, barLimit, lastCall, health, at, endpoint, expire,
                   bar, calls, history>>

\* ... another error ...
Fail(t) ==
    /\ Step(t, "flight", "count")
    /\ UNCHANGED <<now, limit, barLimit, lastCall, health, at, endpoint, expire,
                   bar, calls, history>>

\* ... or a 429: the pause's end is computed, assigned, and told to the store.
RateLimited(t, r) ==
    /\ Step(t, "flight", "pause")
    /\ expire' = [expire EXCEPT ![t] = now + r]
    /\ UNCHANGED <<now, limit, barLimit, lastCall, health, at, endpoint, bar, calls,
                   history>>

Pause(t) ==
    /\ Step(t, "pause", "publish")
    /\ limit' = expire[t]
    /\ paused' = Latest(paused, expire[t])
    /\ UNCHANGED <<now, barLimit, lastCall, health, at, endpoint, expire, bar, calls,
                   streak, last>>

Publish(t) ==
    /\ Step(t, "publish", "count")
    /\ barLimit' = expire[t]
    /\ UNCHANGED <<now, limit, lastCall, health, at, endpoint, expire, bar, calls,
                   history>>

\* _update_connectivity(False): the count is under the health lock, the store is
\* told after it.
Counted(t, enough) ==
    /\ Step(t, "count", IF enough THEN "mark" ELSE "idle")
    /\ failures' = failures + 1
    /\ streak' = streak + 1
    /\ last' = "failure"
    /\ UNCHANGED <<now, limit, barLimit, lastCall, connected, at, endpoint, expire,
                   bar, calls, paused>>

\* Mutant: offline only after one failure more.
CountOneMore(t) == Counted(t, failures >= Threshold)

Count(t) == Counted(t, failures + 1 >= Threshold)

Mark(t) ==
    /\ Step(t, "mark", "idle")
    /\ connected' = FALSE
    /\ UNCHANGED <<now, limit, barLimit, lastCall, failures, at, endpoint, expire,
                   bar, calls, history>>

\* A login that succeeds says so to the store, not to the count.
Login ==
    /\ calls < MaxCalls
    /\ calls' = calls + 1
    /\ connected' = TRUE
    /\ last' = "login"
    /\ UNCHANGED <<now, limit, barLimit, lastCall, failures, request, bar, paused,
                   streak>>

\* The status bar's timer reads the store, and forgets a pause that is over.
BarReads ==
    /\ bar = "idle"
    /\ barLimit > 0 /\ now >= barLimit
    /\ bar' = "reset"
    /\ UNCHANGED <<now, limit, barLimit, lastCall, health, request, calls, history>>

BarResets ==
    /\ bar = "reset"
    /\ barLimit' = 0
    /\ bar' = "idle"
    /\ UNCHANGED <<now, limit, lastCall, health, request, calls, history>>

Tick ==
    /\ now < MaxTime
    /\ now' = now + 1
    /\ UNCHANGED <<limit, barLimit, lastCall, health, request, bar, calls, history>>

Request(t) ==
    \/ \E e \in Endpoint : Enter(t, e)
    \/ CheckLimit(t) \/ Throttled(t) \/ Admit(t) \/ AdmitForced(t)
    \/ Succeed(t) \/ Refused(t) \/ Fail(t)
    \/ \E r \in RetryAfter : RateLimited(t, r)
    \/ Pause(t) \/ Publish(t) \/ Count(t) \/ Mark(t)

Next ==
    \/ \E t \in Thread : Request(t)
    \/ Login \/ BarReads \/ BarResets \/ Tick

Spec == Init /\ [][Next]_vars

-----------------------------------------------------------------------------
Idle == \A t \in Thread : pc[t] = "idle"

\* No request passes the check before the latest pause announced is over
\* ("Global pause for ..."), whatever pauses are announced after it.
GlobalPause ==
    [][\A t \in Thread : pc[t] = "limit" /\ pc'[t] = "throttle" =>
          at[t] >= paused]_vars

\* When the last thing that happened to the connection is a failure, and there
\* were enough of them, the application shows that it is offline.
OfflineReported ==
    Idle /\ last = "failure" /\ failures >= Threshold => ~ connected

=============================================================================

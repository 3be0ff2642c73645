--------------------------- MODULE Network_proofs ---------------------------
(***************************************************************************)
(* Theorems about two components of src/src/network.                       *)
(*                                                                         *)
(* ApiGate, for every set of threads and endpoints and every interval and  *)
(* pause: its types; the pause after a 429 when one thread makes the       *)
(* requests; and the report that Spotify cannot be reached.                *)
(*                                                                         *)
(* Session, for every set of credentials, through its instance S: its     *)
(* types, and that the start of the program finds what it looks up in the  *)
(* Container.                                                              *)
(***************************************************************************)
EXTENDS ApiGate, Sequences, TLAPS

USE IntervalOK, RetryOK, BoundsOK

\* The gate starts with its types.
LEMMA TypeInit == Init => TypeOK
BY DEF Init, TypeOK, Steps

\* Every step of the gate keeps the types.
LEMMA TypeNext == TypeOK /\ [Next]_vars => TypeOK'
<1> SUFFICES ASSUME TypeOK, [Next]_vars PROVE TypeOK'
  OBVIOUS
<1> USE DEF TypeOK, Step, Goto, Steps
<1>1. ASSUME NEW t \in Thread, Request(t) PROVE TypeOK'
  <2>1. CASE \E e \in Endpoint : Enter(t, e)
    BY <2>1 DEF Enter, health, history
  <2>2. CASE CheckLimit(t)
    BY <2>2 DEF CheckLimit, health, history
  <2>3. CASE Throttled(t)
    BY <2>3 DEF Throttled, health, history
  <2>4. CASE Admit(t)
    BY <2>4 DEF Admit, health, history
  <2>5. CASE AdmitForced(t)
    BY <2>5 DEF AdmitForced, health, history
  <2>6. CASE Succeed(t)
    BY <2>6 DEF Succeed, health
  <2>7. CASE Refused(t)
    BY <2>7 DEF Refused, health, history
  <2>8. CASE Fail(t)
    BY <2>8 DEF Fail, health, history
  <2>9. CASE \E r \in RetryAfter : RateLimited(t, r)
    <3>1. PICK r \in RetryAfter : RateLimited(t, r)
      BY <2>9
    <3>2. now + r \in Nat
      BY <3>1
    <3> QED BY <3>1, <3>2 DEF RateLimited, health, history
  <2>10. CASE Pause(t)
    BY <2>10 DEF Pause, Latest, health
  <2>11. CASE Publish(t)
    BY <2>11 DEF Publish, health, history
  <2>12. CASE Count(t)
    BY <2>12 DEF Count, Counted
  <2>13. CASE Mark(t)
    BY <2>13 DEF Mark, history
  <2> QED
    BY <1>1, <2>1, <2>2, <2>3, <2>4, <2>5, <2>6, <2>7, <2>8, <2>9, <2>10,
       <2>11, <2>12, <2>13 DEF Request
<1>2. CASE Login
  BY <1>2 DEF Login, request
<1>3. CASE BarReads
  BY <1>3 DEF BarReads, request, health, history
<1>4. CASE BarResets
  BY <1>4 DEF BarResets, request, health, history
<1>5. CASE Tick
  BY <1>5 DEF Tick, request, health, history
<1>6. CASE UNCHANGED vars
  BY <1>6 DEF vars, request, health, history
<1> QED BY <1>1, <1>2, <1>3, <1>4, <1>5, <1>6 DEF Next

\* The gate's variables keep their types.
THEOREM GateTypeCorrect == Spec => []TypeOK
BY TypeInit, TypeNext, PTL DEF Spec
-----------------------------------------------------------------------------
\* With one thread, the pause in force is the latest one announced; the one it
\* is about to announce ends later, as no request is in flight during a pause.
OnePause ==
    \A t \in Thread :
        /\ limit = paused
        /\ at[t] <= now
        /\ pc[t] \in {"throttle", "flight"} => paused <= at[t]
        /\ pc[t] = "pause" => paused <= expire[t]

\* With one thread, the limit is the pause it asked for and no later request
\* precedes it, after every step.
LEMMA OnePauseNext ==
    ASSUME TypeOK, OnePause, [Next]_vars, NEW me, Thread = {me}
    PROVE  OnePause'
<1>1. CASE Request(me)
  <2>1. CASE \E e \in Endpoint : Enter(me, e)
    BY <2>1 DEF Enter, OnePause, TypeOK, Step, Goto, history
  <2>2. CASE CheckLimit(me)
    BY <2>2 DEF CheckLimit, OnePause, TypeOK, Goto, history
  <2>3. CASE Throttled(me)
    BY <2>3 DEF Throttled, OnePause, TypeOK, Step, Goto, history
  <2>4. CASE Admit(me)
    BY <2>4 DEF Admit, OnePause, TypeOK, Step, Goto, history
  <2>5. CASE AdmitForced(me)
    BY <2>5 DEF AdmitForced, OnePause, TypeOK, Step, Goto, history
  <2>6. CASE Succeed(me) \/ Refused(me) \/ Fail(me)
    BY <2>6 DEF Succeed, Refused, Fail, OnePause, TypeOK, Step, Goto, history
  <2>7. CASE \E r \in RetryAfter : RateLimited(me, r)
    <3>1. PICK r \in RetryAfter : RateLimited(me, r)
      BY <2>7
    <3>2. expire'[me] = now + r /\ paused <= now /\ r \in Nat
      BY <3>1 DEF RateLimited, OnePause, TypeOK, Step
    <3> QED
      BY <3>1, <3>2 DEF RateLimited, OnePause, TypeOK, Step, Goto, history
  <2>8. CASE Pause(me)
    BY <2>8 DEF Pause, Latest, OnePause, TypeOK, Step, Goto
  <2>9. CASE Publish(me) \/ Count(me) \/ Mark(me)
    BY <2>9 DEF Publish, Count, Counted, Mark, OnePause, TypeOK, Step, Goto, history
  <2> QED
    BY <1>1, <2>1, <2>2, <2>3, <2>4, <2>5, <2>6, <2>7, <2>8, <2>9 DEF Request
<1>2. CASE Login \/ BarReads \/ BarResets \/ Tick
  BY <1>2 DEF Login, BarReads, BarResets, Tick, OnePause, TypeOK, request, history
<1>3. CASE UNCHANGED vars
  BY <1>3 DEF OnePause, vars, request, history
<1> QED BY <1>1, <1>2, <1>3 DEF Next

\* When one thread makes all the requests, none passes the check during a pause
\* that was announced: the status bar's timer cannot end it early.
THEOREM GatePauseOneCaller ==
    ASSUME \E me : Thread = {me}
    PROVE  Spec => GlobalPause
<1>1. Init => OnePause
  BY DEF Init, OnePause
<1>2. TypeOK /\ OnePause /\ [Next]_vars => OnePause'
  BY OnePauseNext
<1>3. ASSUME TypeOK, OnePause, [Next]_vars, NEW t \in Thread,
             pc[t] = "limit", pc'[t] = "throttle"
      PROVE  at[t] >= paused
  <2>1. CheckLimit(t)
    <3>1. PICK u \in Thread : Request(u)
      BY <1>3 DEF Next, Login, BarReads, BarResets, Tick, vars, request
    <3>2. u = t
      BY <3>1
    <3> QED
      BY <1>3, <3>1, <3>2
      DEF Request, Enter, Throttled, Admit, AdmitForced, Succeed, Refused, Fail,
          RateLimited, Pause, Publish, Count, Counted, Mark, Step, Goto, TypeOK
  <2>2. ~ (at[t] < limit) /\ limit = paused
    BY <1>3, <2>1 DEF CheckLimit, Goto, TypeOK, OnePause
  <2>3. at[t] \in Nat /\ limit \in Nat
    BY <1>3 DEF TypeOK
  <2> QED BY <2>2, <2>3
<1>4. TypeOK /\ OnePause /\ [Next]_vars =>
        [\A t \in Thread : pc[t] = "limit" /\ pc'[t] = "throttle" =>
            at[t] >= paused]_vars
  BY <1>3
<1> QED BY <1>1, <1>2, <1>4, GateTypeCorrect, PTL DEF Spec, GlobalPause
-----------------------------------------------------------------------------
\* After a failure that is enough, the application shows that it is offline or
\* some thread is about to say so.
OfflineComing ==
    last = "failure" /\ failures >= Threshold
        => ~ connected \/ \E t \in Thread : pc[t] = "mark"

\* Enough failures have taken the gate offline, or the thread that counted them is
\* about to, after every step.
LEMMA OfflineNext == TypeOK /\ OfflineComing /\ [Next]_vars => OfflineComing'
<1> SUFFICES ASSUME TypeOK, OfflineComing, [Next]_vars PROVE OfflineComing'
  OBVIOUS
<1>1. ASSUME NEW t \in Thread, Request(t) PROVE OfflineComing'
  <2>1. CASE Count(t)
    <3>1. failures' = failures + 1
      BY <2>1 DEF Count, Counted
    <3>2. CASE failures + 1 >= Threshold
      <4>1. pc'[t] = "mark"
        BY <2>1, <3>2 DEF Count, Counted, Step, Goto, TypeOK
      <4> QED BY <4>1 DEF OfflineComing
    <3>3. CASE ~ (failures + 1 >= Threshold)
      BY <3>1, <3>3 DEF OfflineComing
    <3> QED BY <3>2, <3>3
  <2>2. CASE Mark(t)
    BY <2>2 DEF Mark, OfflineComing
  <2>3. CASE ~ Count(t) /\ ~ Mark(t)
    <3>1. UNCHANGED <<last, failures, connected>>
      BY <1>1, <2>3
      DEF Request, Enter, CheckLimit, Throttled, Admit, AdmitForced, Succeed, Refused,
          Fail, RateLimited, Pause, Publish, health, history
    <3>2. ASSUME NEW u \in Thread, pc[u] = "mark" PROVE pc'[u] = "mark"
      BY <1>1, <2>3, <3>2
      DEF Request, Enter, CheckLimit, Throttled, Admit, AdmitForced, Succeed, Refused,
          Fail, RateLimited, Pause, Publish, Step, Goto, TypeOK
    <3> QED BY <3>1, <3>2 DEF OfflineComing
  <2> QED BY <2>1, <2>2, <2>3
<1>2. CASE Login
  BY <1>2 DEF Login, OfflineComing
<1>3. CASE BarReads \/ BarResets \/ Tick \/ UNCHANGED vars
  BY <1>3 DEF BarReads, BarResets, Tick, vars, health, history, request, OfflineComing
<1> QED BY <1>1, <1>2, <1>3 DEF Next

\* When every request has returned and a failure came last, enough failures
\* mean that the application shows it is offline, in whatever order the threads
\* counted theirs and told the store.
THEOREM GateOfflineReported == Spec => []OfflineReported
<1>1. Init => OfflineComing
  BY DEF Init, OfflineComing
<1>2. OfflineComing => OfflineReported
  BY DEF OfflineComing, OfflineReported, Idle
<1> QED BY <1>1, <1>2, OfflineNext, GateTypeCorrect, PTL DEF Spec

-----------------------------------------------------------------------------
(* Session, from the launch to a running application.                       *)

CONSTANTS Creds, NoCreds, MaxRequests

VARIABLES bundled, keyring, tokenOf, expired, links, ph, conf, registered,
          instance, player, serving, authUrl, requests, event

S == INSTANCE Session WITH pc <- ph

\* Credentials being saved are a form's, and connecting them is for real ones.
ConfigReal ==
    /\ ph = "config" => event.type = "config"
    /\ ph = "connect" => conf \in Creds

\* No network without a configuration.
NetworkConfigured == S!Resolved # NoCreds => conf # NoCreds

\* Before its second call setup_spotify has registered the network, and it has
\* registered the player too, or will, because a login has just left a token.
AgainReady ==
    ph = "again" => /\ conf # NoCreds /\ S!Resolved # NoCreds
                    /\ player \/ (tokenOf # NoCreds /\ ~ expired)

SInv == S!TypeOK /\ ConfigReal /\ NetworkConfigured /\ AgainReady /\ S!StartFindsServices

\* No credentials at all are a request the session can hold.
LEMMA NothingType == NoCreds \in S!Some /\ S!Nothing \in S!Request
<1>1. NoCreds \in S!Some
  BY DEF S!Some
<1> QED BY <1>1 DEF S!Nothing, S!Request

\* The session starts with its types.
LEMMA STypeInit == S!Init => S!TypeOK
<1> SUFFICES ASSUME S!Init PROVE S!TypeOK
  OBVIOUS
<1>1. requests \in Seq(S!Request) /\ event \in S!Request
  BY NothingType DEF S!Init
<1> QED BY <1>1, NothingType DEF S!Init, S!TypeOK, S!Phases

\* What a change of the token leaves behind.
LEMMA TokenType ==
    ASSUME S!TypeOK, NEW c \in S!Some, S!SignedIn(c) \/ S!SignedOut(c) \/ S!AccessToken(c)
    PROVE  tokenOf' \in S!Some /\ expired' \in BOOLEAN
BY DEF S!TypeOK, S!SignedIn, S!SignedOut, S!AccessToken, S!token, S!Some

\* Every step of the session keeps its types, while the configuration is a real one.
LEMMA STypeNext == S!TypeOK /\ ConfigReal /\ [S!Next]_(S!vars) => S!TypeOK'
<1> SUFFICES ASSUME S!TypeOK, ConfigReal, [S!Next]_(S!vars) PROVE S!TypeOK'
  OBVIOUS
<1> USE DEF S!Some, S!Phases
<1>1. CASE S!Launch
  <2>1. requests' \in Seq(S!Request) /\ event' \in S!Request
    BY <1>1, NothingType DEF S!Launch
  <2> QED BY <1>1, <2>1 DEF S!Launch, S!TypeOK, S!token
<1>2. CASE S!SetupUnconfigured \/ S!SetupRaises \/ S!AgainRaises
  BY <1>2 DEF S!SetupUnconfigured, S!SetupRaises, S!AgainRaises, S!Onboard, S!TypeOK, S!token, S!memory, S!web
<1>3. CASE S!SetupSignedIn \/ S!SetupSignedOut
  <2>1. tokenOf' \in S!Some /\ expired' \in BOOLEAN
    BY <1>3, TokenType DEF S!SetupSignedIn, S!SetupSignedOut, S!TypeOK
  <2> QED BY <1>3, <2>1 DEF S!SetupSignedIn, S!SetupSignedOut, S!Onboard, S!TypeOK, S!web
<1>4. CASE S!AgainSignedIn \/ S!AgainSignedOut
  <2>1. tokenOf' \in S!Some /\ expired' \in BOOLEAN
    BY <1>4, TokenType DEF S!AgainSignedIn, S!AgainSignedOut, S!TypeOK
  <2> QED BY <1>4, <2>1 DEF S!AgainSignedIn, S!AgainSignedOut, S!TypeOK, S!web
<1>5. CASE S!Start
  <2>1. tokenOf' \in S!Some /\ expired' \in BOOLEAN
    BY <1>5, TokenType DEF S!Start, S!Resolved, S!TypeOK, S!token
  <2>2. instance' \in S!Some /\ ph' \in S!Phases
    BY <1>5 DEF S!Start, S!Resolved, S!TypeOK
  <2> QED BY <1>5, <2>1, <2>2 DEF S!Start, S!TypeOK, S!web
<1>6. CASE S!CheckServer \/ S!End \/ S!LoginUnknown
  BY <1>6 DEF S!CheckServer, S!End, S!LoginUnknown, S!TypeOK, S!token, S!memory, S!web
<1>7. CASE S!GetEvent
  <2>1. requests \in Seq(S!Request) /\ requests # <<>>
    BY <1>7 DEF S!GetEvent, S!TypeOK
  <2>2. Head(requests) \in S!Request /\ Tail(requests) \in Seq(S!Request)
    BY ONLY <2>1
  <2>3. Head(requests).type \in {"config", "callback"}
    BY <2>2 DEF S!Request
  <2> QED BY <1>7, <2>2, <2>3 DEF S!GetEvent, S!TypeOK, S!token, S!memory
<1>8. CASE S!SaveConfig
  <2>1. event.creds \in S!Some
    BY DEF S!TypeOK, S!Request
  <2> QED BY <1>8, <2>1 DEF S!SaveConfig, S!TypeOK, S!token, S!web
<1>9. CASE S!Connect
  <2>1. tokenOf' \in S!Some /\ expired' \in BOOLEAN
    BY <1>9, TokenType DEF S!Connect, S!TypeOK
  <2>2. conf \in Creds
    BY <1>9 DEF S!Connect, ConfigReal
  <2> QED BY <1>9, <2>1, <2>2 DEF S!Connect, S!TypeOK
<1>10. CASE S!Login \/ S!LoginFails
  <2>1. event.creds \in S!Some /\ S!Resolved \in S!Some
    BY DEF S!TypeOK, S!Request, S!Resolved
  <2>2. CASE S!LoginFails
    BY <2>1, <2>2 DEF S!LoginFails, S!TypeOK, S!token, S!web
  <2>3. CASE S!Login
    <3>1. tokenOf' \in S!Some /\ expired' \in BOOLEAN
      BY <2>1, <2>3, TokenType DEF S!Login, S!TypeOK
    <3> QED BY <2>1, <2>3, <3>1 DEF S!Login, S!TypeOK, S!web
  <2> QED BY <1>10, <2>2, <2>3
<1>11. ASSUME NEW r \in S!Request, S!Put(r) PROVE S!TypeOK'
  <2>1. Append(requests, r) \in Seq(S!Request)
    BY DEF S!TypeOK
  <2> QED BY <1>11, <2>1 DEF S!Put, S!TypeOK, S!token, S!memory
<1>12. CASE \E c \in Creds : S!Submit(c)
  BY <1>11, <1>12 DEF S!Submit, S!Request
<1>13. CASE \E c \in links \cup {NoCreds} : S!Return(c)
  BY <1>11, <1>13 DEF S!Return, S!Request, S!TypeOK
<1>14. CASE S!Heartbeat
  <2>1. tokenOf' \in S!Some /\ expired' \in BOOLEAN
    BY <1>14, TokenType DEF S!Heartbeat, S!TypeOK
  <2> QED BY <1>14, <2>1 DEF S!Heartbeat, S!TypeOK, S!memory, S!web
<1>15. CASE S!CheckAuthentication
  <2>1. tokenOf' \in S!Some /\ expired' \in BOOLEAN
    BY <1>15, TokenType DEF S!CheckAuthentication, S!TypeOK
  <2> QED BY <1>15, <2>1 DEF S!CheckAuthentication, S!TypeOK, S!web
<1>16. CASE S!Expire
  BY <1>16 DEF S!Expire, S!TypeOK, S!memory, S!web
<1>17. CASE UNCHANGED S!vars
  BY <1>17 DEF S!TypeOK, S!vars, S!token, S!memory, S!web
<1> QED BY <1>1, <1>2, <1>3, <1>4, <1>5, <1>6, <1>7, <1>8, <1>9, <1>10, <1>12,
           <1>13, <1>14, <1>15, <1>16, <1>17 DEF S!Next

\* The configuration stays one of those that the code can read or make.
LEMMA ConfigNext == S!TypeOK /\ ConfigReal /\ [S!Next]_(S!vars) => ConfigReal'
<1> SUFFICES ASSUME S!TypeOK, ConfigReal, [S!Next]_(S!vars) PROVE ConfigReal'
  OBVIOUS
<1>1. CASE S!GetEvent
  <2>1. ph' = event'.type /\ event' = Head(requests) /\ requests # <<>>
    BY <1>1 DEF S!GetEvent
  <2>2. requests \in Seq(S!Request)
    BY DEF S!TypeOK
  <2>3. Head(requests) \in S!Request
    BY ONLY <2>1, <2>2
  <2>4. ph' # "connect"
    BY <2>1, <2>3 DEF S!Request
  <2> QED BY <2>1, <2>4 DEF ConfigReal
<1>2. CASE S!SaveConfig
  <2>1. event.type = "config" /\ event \in S!Request
    BY <1>2 DEF S!SaveConfig, ConfigReal, S!TypeOK
  <2>2. event.creds \in Creds
    BY <2>1 DEF S!Request
  <2> QED BY <1>2, <2>2 DEF S!SaveConfig, ConfigReal
<1>3. ASSUME NEW r, S!Put(r) PROVE ConfigReal'
  BY <1>3 DEF S!Put, ConfigReal, S!memory
<1>4. CASE ~ (S!GetEvent \/ S!SaveConfig \/ (\E r : S!Put(r)))
  BY <1>4
  DEF S!Next, S!vars, S!memory, S!web, ConfigReal, S!Launch, S!SetupUnconfigured, S!SetupSignedIn,
      S!SetupSignedOut, S!SetupRaises, S!Onboard, S!AgainSignedIn, S!AgainSignedOut, S!AgainRaises, S!Start,
      S!CheckServer, S!Connect, S!Login, S!LoginFails, S!LoginUnknown, S!Submit, S!Return, S!Heartbeat,
      S!CheckAuthentication, S!End, S!Expire
<1> QED BY <1>1, <1>2, <1>3, <1>4

\* The variables keep their types over any number of launches.
THEOREM SessionTypeCorrect == S!Spec => []S!TypeOK
<1>1. S!Init => S!TypeOK /\ ConfigReal
  BY STypeInit DEF S!Init, ConfigReal
<1>2. S!TypeOK /\ ConfigReal /\ [S!Next]_(S!vars) => (S!TypeOK /\ ConfigReal)'
  BY STypeNext, ConfigNext
<1> QED BY <1>1, <1>2, PTL DEF S!Spec

-----------------------------------------------------------------------------
\* Whatever runs with a network has a configuration, after every step.
LEMMA NetworkNext ==
    ASSUME NoCreds \notin Creds
    PROVE  S!TypeOK /\ ConfigReal /\ NetworkConfigured /\ AgainReady /\ [S!Next]_(S!vars) => NetworkConfigured'
<1> SUFFICES ASSUME S!TypeOK, ConfigReal, NetworkConfigured, AgainReady, [S!Next]_(S!vars)
             PROVE  NetworkConfigured'
  OBVIOUS
<1> USE DEF NetworkConfigured, S!Resolved
<1>1. CASE S!SaveConfig
  <2>1. event.type = "config" /\ event \in S!Request
    BY <1>1 DEF S!SaveConfig, ConfigReal, S!TypeOK
  <2>2. event.creds \in Creds
    BY <2>1 DEF S!Request
  <2> QED BY <1>1, <2>2 DEF S!SaveConfig
<1>2. ASSUME NEW r, S!Put(r) PROVE NetworkConfigured'
  BY <1>2 DEF S!Put, S!memory
<1>3. CASE ~ (S!SaveConfig \/ (\E r : S!Put(r)))
  BY <1>3
  DEF S!Next, S!vars, S!memory, S!web, S!Launch, S!SetupUnconfigured, S!SetupSignedIn,
      S!SetupSignedOut, S!SetupRaises, S!Onboard, S!AgainSignedIn, S!AgainSignedOut, S!AgainRaises, S!Start,
      S!CheckServer, S!GetEvent, S!Connect, S!Login, S!LoginFails, S!LoginUnknown, S!Submit, S!Return,
      S!Heartbeat, S!CheckAuthentication, S!End, S!Expire
<1> QED BY <1>1, <1>2, <1>3

\* What is tried again finds what it needs, after every step.
LEMMA AgainNext ==
    S!TypeOK /\ NetworkConfigured /\ AgainReady /\ [S!Next]_(S!vars) => AgainReady'
<1> SUFFICES ASSUME S!TypeOK, NetworkConfigured, AgainReady, [S!Next]_(S!vars) PROVE AgainReady'
  OBVIOUS
<1> USE DEF AgainReady, S!Resolved
<1>1. CASE S!Login
  <2>1. conf # NoCreds /\ S!Resolved # NoCreds
    BY <1>1 DEF S!Login, NetworkConfigured
  <2>2. tokenOf' # NoCreds /\ ~ expired'
    BY <1>1, <2>1 DEF S!Login, S!SignedIn
  <2>3. conf' = conf /\ instance' = S!Resolved
    BY <1>1 DEF S!Login
  <2> QED BY <2>1, <2>2, <2>3
<1>2. CASE S!SetupSignedIn
  BY <1>2 DEF S!SetupSignedIn
<1>3. CASE S!GetEvent
  <2>1. ph' = Head(requests).type /\ requests # <<>>
    BY <1>3 DEF S!GetEvent
  <2>2. requests \in Seq(S!Request)
    BY DEF S!TypeOK
  <2>3. Head(requests) \in S!Request
    BY ONLY <2>1, <2>2
  <2> QED BY <2>1, <2>3 DEF S!Request
<1>4. ASSUME NEW r, S!Put(r) PROVE AgainReady'
  <2>1. UNCHANGED <<ph, conf, registered, instance, player, tokenOf, expired>>
    BY <1>4 DEF S!Put, S!memory, S!token
  <2> QED BY <2>1
<1>5. CASE S!Expire
  <2>1. UNCHANGED <<ph, conf, registered, instance, player>>
    BY <1>5 DEF S!Expire, S!memory
  <2>2. ph = "again" => player
    BY <1>5 DEF S!Expire
  <2> QED BY <2>1, <2>2
<1>6. CASE ~ (S!Login \/ S!SetupSignedIn \/ S!GetEvent \/ S!Expire \/ (\E r : S!Put(r)))
  BY <1>6
  DEF S!Next, S!vars, S!memory, S!token, S!web, S!Launch, S!SetupUnconfigured, S!SetupSignedOut, S!SetupRaises,
      S!Onboard, S!AgainSignedIn, S!AgainSignedOut, S!AgainRaises, S!Start, S!CheckServer, S!SaveConfig, S!Connect,
      S!LoginFails, S!LoginUnknown, S!Submit, S!Return, S!Heartbeat, S!CheckAuthentication, S!End
<1> QED BY <1>1, <1>2, <1>3, <1>4, <1>5, <1>6

\* A start that is under way finds its services, after every step.
LEMMA StartNext ==
    S!TypeOK /\ AgainReady /\ S!StartFindsServices /\ [S!Next]_(S!vars) => S!StartFindsServices'
<1> SUFFICES ASSUME S!TypeOK, AgainReady, S!StartFindsServices, [S!Next]_(S!vars)
             PROVE  S!StartFindsServices'
  OBVIOUS
<1> USE DEF S!StartFindsServices, S!Resolved
<1>1. CASE S!AgainSignedIn
  BY <1>1 DEF S!AgainSignedIn, AgainReady
<1>2. CASE S!AgainSignedOut
  <2>1. tokenOf = NoCreds \/ expired
    BY <1>2 DEF S!AgainSignedOut, S!SignedOut
  <2>2. player /\ conf # NoCreds
    BY <1>2, <2>1 DEF S!AgainSignedOut, AgainReady
  <2> QED BY <1>2, <2>2 DEF S!AgainSignedOut
<1>3. CASE S!GetEvent
  <2>1. ph' = Head(requests).type /\ requests # <<>>
    BY <1>3 DEF S!GetEvent
  <2>2. requests \in Seq(S!Request)
    BY DEF S!TypeOK
  <2>3. Head(requests) \in S!Request
    BY ONLY <2>1, <2>2
  <2> QED BY <2>1, <2>3 DEF S!Request
<1>4. ASSUME NEW r, S!Put(r) PROVE S!StartFindsServices'
  BY <1>4 DEF S!Put, S!memory
<1>5. CASE S!AgainRaises
  BY <1>5 DEF S!AgainRaises, AgainReady, S!memory
<1>6. CASE ~ (S!AgainSignedIn \/ S!AgainSignedOut \/ S!AgainRaises \/ S!GetEvent \/ (\E r : S!Put(r)))
  BY <1>6
  DEF S!Next, S!vars, S!memory, S!web, S!Launch, S!SetupUnconfigured, S!SetupSignedIn, S!SetupSignedOut,
      S!SetupRaises, S!Onboard, S!Start, S!CheckServer, S!SaveConfig, S!Connect, S!Login, S!LoginFails,
      S!LoginUnknown, S!Submit, S!Return, S!Heartbeat, S!CheckAuthentication, S!End, S!Expire
<1> QED BY <1>1, <1>2, <1>3, <1>4, <1>5, <1>6

\* The look-ups of the start never raise: setup_spotify registers the player
\* only when there is a token, and no way leads to the start without one.
THEOREM SessionStartFindsServices ==
    ASSUME NoCreds \notin Creds
    PROVE  S!Spec => []S!StartFindsServices
<1>1. S!Init => SInv
  BY STypeInit
  DEF S!Init, SInv, ConfigReal, NetworkConfigured, S!Resolved, AgainReady, S!StartFindsServices
<1>2. SInv /\ [S!Next]_(S!vars) => SInv'
  BY STypeNext, ConfigNext, NetworkNext, AgainNext, StartNext DEF SInv
<1>3. SInv => S!StartFindsServices
  BY DEF SInv
<1> QED BY <1>1, <1>2, <1>3, PTL DEF S!Spec
=============================================================================

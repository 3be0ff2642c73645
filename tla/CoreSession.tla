----------------------------- MODULE CoreSession -----------------------------
(* librespot's session (core/src): the access points it resolves, the          *)
(* connection and the login, the task that dispatches what the server sends    *)
(* and keeps the connection alive, the task that sends, the requests of        *)
(* Mercury and of the audio keys, and the shutdown.                            *)
(*                                                                             *)
(* The dispatcher, the sender and the main loop share one thread (main.rs has  *)
(* the current_thread runtime): each of their polls is one step, except that   *)
(* the two halves of shutdown take their locks one after the other and a       *)
(* caller in the player's thread may come between. Callers take the locks of   *)
(* the managers: each of their critical sections is a step.                    *)
(* Time is counted in units of 20 seconds. The server is the environment.      *)
EXTENDS Naturals, Sequences, FiniteSets

CONSTANTS
    Asks,           \* the calls of Mercury
    Subscribers,    \* those of them that subscribe
    Keys,           \* the requests of audio keys
    MaxApTries,     \* MAX_AP_TRIES (6 in the code)
    MaxRetries,     \* MAX_RETRIES (1 in the code)
    MaxIn           \* bound: packets of the server under way

ASSUME SessionAssumption ==
    /\ Subscribers \subseteq Asks /\ Asks \cap Keys = {}
    /\ MaxApTries \in Nat \ {0} /\ MaxRetries \in Nat
    /\ MaxIn \in Nat

Calls == Asks \cup Keys

VARIABLES
    session,    \* SessionData::invalid and the invalid flags of the managers
    held,       \* somebody still holds the session (the tasks hold it weakly)
    attempt,    \* Session::connect: where it is, its counters, the credentials
    link,       \* the TCP connection
    tasks,      \* the dispatcher and the sender
    keep,       \* KeepAliveState
    left,       \* until the keep-alive timer fires
    quiet,      \* history: time since the last Ping or PongAck (or the start)
    inbox,      \* packets that have arrived and are not dispatched
    outbox,     \* the channel of tx_connection
    asked,      \* calls that have reached the server and are not answered
    pending,    \* the entries of MercuryManager and AudioKeyManager
    caller,     \* where each call is
    answer,     \* what its oneshot channel holds
    subs        \* MercuryManager::subscriptions

alive == <<keep, left, quiet>>
wire == <<inbox, outbox, asked>>
reqs == <<pending, caller, answer, subs>>
vars == <<session, held, attempt, link, tasks, keep, left, quiet,
          inbox, outbox, asked, pending, caller, answer, subs>>

Invalid == session # "valid"

\* The units of the keep-alive timers (session.rs 672-690).
INITIAL_PING_TIMEOUT == 1
PING_TIMEOUT == 4
PONG_DELAY == 3
PONG_ACK_TIMEOUT == 1

Init ==
    /\ session = "valid" /\ held = TRUE
    /\ attempt \in [at: {"idle"}, tries: {0}, retries: {0}, cred: {"token", "stored"}, login: {"first"}]
    /\ link = "none"
    /\ tasks = [dispatch |-> "none", send |-> "none"]
    /\ keep = "ExpectingPing" /\ left = INITIAL_PING_TIMEOUT /\ quiet = 0
    /\ inbox = <<>> /\ outbox = <<>> /\ asked = {}
    /\ pending = {} /\ subs = {}
    /\ caller = [c \in Calls |-> "idle"]
    /\ answer = [c \in Calls |-> "none"]

\* Nothing of the main thread runs while it is inside shutdown.
MainRuns == session # "closing"

-----------------------------------------------------------------------------
(* connect                                                                     *)

StartConnect ==
    /\ attempt.at = "idle" /\ ~Invalid /\ held
    /\ attempt' = [attempt EXCEPT !.at = "resolve"]
    /\ UNCHANGED <<session, held, link, tasks, alive, wire, reqs>>

\* ApResolver::resolve gives an address, or an error when it has none.
ResolveAccessPoint(ok) ==
    /\ attempt.at = "resolve"
    /\ attempt' = IF ok THEN [attempt EXCEPT !.at = "dial", !.retries = 0, !.login = "first"]
                  ELSE [attempt EXCEPT !.at = "failed"]
    /\ UNCHANGED <<session, held, link, tasks, alive, wire, reqs>>

\* An access point did not do: the next one, unless it was the last or the
\* login itself was refused.
NextAccessPoint(refused) ==
    IF attempt.tries + 1 = MaxApTries \/ refused
    THEN [attempt EXCEPT !.tries = @ + 1, !.at = "failed"]
    ELSE [attempt EXCEPT !.tries = @ + 1, !.at = "resolve"]

Dial(ok) ==
    /\ attempt.at = "dial"
    /\ attempt' = IF ok THEN [attempt EXCEPT !.at = "auth"]
                  ELSE IF attempt.retries < MaxRetries THEN [attempt EXCEPT !.retries = @ + 1]
                  ELSE NextAccessPoint(FALSE)
    /\ UNCHANGED <<session, held, link, tasks, alive, wire, reqs>>

\* TryAnotherAP, a packet that was not expected, or a transport that ended.
AuthElsewhere ==
    /\ attempt.at = "auth"
    /\ attempt' = NextAccessPoint(FALSE)
    /\ UNCHANGED <<session, held, link, tasks, alive, wire, reqs>>

\* LoginFailed with any other code.
AuthRefused ==
    /\ attempt.at = "auth"
    /\ attempt' = NextAccessPoint(TRUE)
    /\ UNCHANGED <<session, held, link, tasks, alive, wire, reqs>>

\* A session that was let in by a token connects again, with the credentials
\* that it has been given, to the same access point.
AuthAgain ==
    /\ attempt.at = "auth" /\ attempt.cred = "token" /\ attempt.login = "first"
    /\ attempt' = [attempt EXCEPT !.at = "dial", !.retries = 0, !.login = "second"]
    /\ UNCHANGED <<session, held, link, tasks, alive, wire, reqs>>

Welcome ==
    /\ attempt.at = "auth" /\ (attempt.cred = "token" => attempt.login = "second")
    /\ attempt' = [attempt EXCEPT !.at = "connected", !.tries = 0, !.retries = 0,
                                !.cred = "stored", !.login = "first"]
    /\ link' = "up"
    /\ tasks' = [dispatch |-> "runs", send |-> "runs"]
    /\ keep' = "ExpectingPing" /\ left' = INITIAL_PING_TIMEOUT /\ quiet' = 0
    /\ UNCHANGED <<session, held, wire, reqs>>

-----------------------------------------------------------------------------
(* shutdown                                                                    *)

\* Session::shutdown sets the flag of the session first.
Invalidate == session' = IF session = "valid" THEN "closing" ELSE session

\* A mutant: shutdown keeps the requests that are under way.
MShutdownKeeps ==
    /\ session = "closing"
    /\ session' = "closed"
    /\ subs' = {}
    /\ UNCHANGED <<held, attempt, link, tasks, alive, wire, pending, caller, answer>>

\* Then MercuryManager::shutdown: no entry is added any more, and the sending
\* halves are destroyed. The audio keys are not part of it.
ShutdownManagers ==
    /\ session = "closing"
    /\ session' = "closed"
    /\ pending' = pending \ Asks
    /\ answer' = [c \in Calls |-> IF c \in pending \cap Asks THEN "dropped" ELSE answer[c]]
    /\ subs' = {}
    /\ UNCHANGED <<held, attempt, link, tasks, alive, wire, caller>>

\* The main loop: new credentials, or the Connect task has ended.
MainShutsDown ==
    /\ MainRuns /\ ~Invalid /\ held
    /\ attempt.at \in {"idle", "connected"}
    /\ Invalidate
    /\ UNCHANGED <<held, attempt, link, tasks, alive, wire, reqs>>

\* The last strong reference goes (whoever is in a call, or waits for a key,
\* has one): what waits in the managers is dropped.
Drop ==
    /\ session = "closed" /\ held
    /\ \A c \in Calls: caller[c] # "asking" /\ (c \in Keys => caller[c] # "waiting")
    /\ held' = FALSE
    /\ pending' = {} /\ subs' = {}
    /\ answer' = [c \in Calls |-> IF c \in pending THEN "dropped" ELSE answer[c]]
    /\ UNCHANGED <<session, attempt, link, tasks, alive, wire, caller>>

-----------------------------------------------------------------------------
(* The callers                                                                 *)

\* A mutant: the entry is made without a look at the flag.
MAskUnchecked(c) ==
    /\ caller[c] = "idle" /\ held
    /\ caller' = [caller EXCEPT ![c] = "asking"]
    /\ pending' = pending \cup {c}
    /\ UNCHANGED <<session, held, attempt, link, tasks, alive, wire, answer, subs>>

\* MercuryManager::request up to the entry, which is only made while valid.
Ask(c) ==
    /\ caller[c] = "idle" /\ held
    /\ caller' = [caller EXCEPT ![c] = "asking"]
    /\ IF session # "closed"
       THEN pending' = pending \cup {c} /\ UNCHANGED answer
       ELSE answer' = [answer EXCEPT ![c] = "dropped"] /\ UNCHANGED pending
    /\ UNCHANGED <<session, held, attempt, link, tasks, alive, wire, subs>>

\* AudioKeyManager::request up to the entry: nothing is checked.
AskKey(c) ==
    /\ caller[c] = "idle" /\ held
    /\ caller' = [caller EXCEPT ![c] = "asking"]
    /\ pending' = pending \cup {c}
    /\ UNCHANGED <<session, held, attempt, link, tasks, alive, wire, answer, subs>>

\* send_packet: an error when nothing is connected or the sender has ended (the
\* entry stays).
SendRequest(c) ==
    /\ caller[c] = "asking"
    /\ IF tasks.send = "runs"
       THEN caller' = [caller EXCEPT ![c] = "waiting"] /\ outbox' = Append(outbox, c)
       ELSE caller' = [caller EXCEPT ![c] = "failed"] /\ UNCHANGED outbox
    /\ UNCHANGED <<session, held, attempt, link, tasks, alive, inbox, asked, pending, answer, subs>>

\* The future of the call is polled. A subscription is added only while valid.
Answered(c) ==
    /\ caller[c] = "waiting" /\ answer[c] # "none"
    /\ caller' = [caller EXCEPT ![c] = "done"]
    /\ subs' = IF c \in Subscribers /\ answer[c] = "ok" /\ session # "closed" /\ held
               THEN subs \cup {c} ELSE subs
    /\ UNCHANGED <<session, held, attempt, link, tasks, alive, wire, pending, answer>>

\* KEY_RESPONSE_TIMEOUT: the caller gives up, its entry stays.
KeyTimeout(c) ==
    /\ caller[c] = "waiting" /\ answer[c] = "none"
    /\ caller' = [caller EXCEPT ![c] = "done"]
    /\ UNCHANGED <<session, held, attempt, link, tasks, alive, wire, pending, answer, subs>>

-----------------------------------------------------------------------------
(* The tasks of the connection                                                 *)

EndTask(t) == tasks' = [tasks EXCEPT ![t] = "ended"]

\* The sender forwards; a link that is lost swallows what is sent.
Forward ==
    /\ MainRuns /\ tasks.send = "runs" /\ outbox # <<>> /\ link \in {"up", "lost"}
    /\ outbox' = Tail(outbox)
    /\ asked' = IF link = "up" /\ Head(outbox) \in Calls THEN asked \cup {Head(outbox)} ELSE asked
    /\ UNCHANGED <<session, held, attempt, link, tasks, alive, inbox, reqs>>

\* A write fails: the sender shuts the session down, unless that is done.
ForwardFails ==
    /\ MainRuns /\ tasks.send = "runs" /\ outbox # <<>> /\ link = "broken"
    /\ EndTask("send")
    /\ IF held THEN Invalidate ELSE UNCHANGED session
    /\ outbox' = <<>>
    /\ UNCHANGED <<held, attempt, link, alive, inbox, asked, reqs>>

Polls == MainRuns /\ tasks.dispatch = "runs" /\ held

ResetTimer(state, after) == keep' = state /\ left' = after /\ quiet' = 0

\* A response that is complete, or its error: the entry goes. An answer to a
\* caller that has given up is an error that is only logged.
Complete(c, a) ==
    IF c \in pending
    THEN /\ pending' = pending \ {c}
         /\ answer' = [answer EXCEPT ![c] = a]
    ELSE UNCHANGED <<pending, answer>>

\* A part of a response (the flags are not 1): taken out and put back.
Part(c) == UNCHANGED <<pending, answer>>

\* A status of 500 and more drops the callback; below, it is passed on.
AnswerOf(status) == IF status = "unavailable" THEN "dropped" ELSE status

Dispatch ==
    /\ Polls /\ inbox # <<>>
    /\ inbox' = Tail(inbox)
    /\ LET p == Head(inbox) IN
       /\ CASE p.kind = "Ping" -> ResetTimer("PendingPong", PONG_DELAY)
            [] p.kind = "PongAck" -> ResetTimer("ExpectingPing", PING_TIMEOUT)
            [] OTHER -> UNCHANGED alive
       /\ CASE p.kind = "Answer" -> Complete(p.call, AnswerOf(p.status))
            [] p.kind = "Part" -> Part(p.call)
            [] OTHER -> UNCHANGED <<pending, answer>>
       /\ subs' = IF p.kind = "Event" THEN subs \ p.gone ELSE subs
    /\ UNCHANGED <<session, held, attempt, link, tasks, outbox, asked, caller>>

\* The stream has ended or failed, and nothing is left to dispatch.
ConnectionClosed ==
    /\ Polls /\ inbox = <<>> /\ link \in {"closed", "broken"}
    /\ Invalidate
    /\ EndTask("dispatch")
    /\ UNCHANGED <<held, attempt, link, alive, wire, reqs>>

\* A mutant: only a Ping that does not come counts.
MTimeoutOfPings ==
    /\ Polls /\ inbox = <<>> /\ link \notin {"closed", "broken"} /\ left = 0
    /\ keep = "ExpectingPing"
    /\ Invalidate
    /\ EndTask("dispatch")
    /\ UNCHANGED <<held, attempt, link, alive, wire, reqs>>

\* The timer fires while something is expected.
KeepAliveTimeout ==
    /\ Polls /\ inbox = <<>> /\ link \notin {"closed", "broken"} /\ left = 0
    /\ keep \in {"ExpectingPing", "ExpectingPongAck"}
    /\ Invalidate
    /\ EndTask("dispatch")
    /\ UNCHANGED <<held, attempt, link, alive, wire, reqs>>

\* A mutant: the PongAck has as long as a Ping.
MSendPong ==
    /\ Polls /\ inbox = <<>> /\ link \notin {"closed", "broken"} /\ left = 0
    /\ keep = "PendingPong"
    /\ outbox' = IF tasks.send = "runs" THEN Append(outbox, "Pong") ELSE outbox
    /\ keep' = "ExpectingPongAck" /\ left' = PING_TIMEOUT
    /\ UNCHANGED <<session, held, attempt, link, tasks, quiet, inbox, asked, reqs>>

SendPong ==
    /\ Polls /\ inbox = <<>> /\ link \notin {"closed", "broken"} /\ left = 0
    /\ keep = "PendingPong"
    /\ outbox' = IF tasks.send = "runs" THEN Append(outbox, "Pong") ELSE outbox
    /\ keep' = "ExpectingPongAck" /\ left' = PONG_ACK_TIMEOUT
    /\ UNCHANGED <<session, held, attempt, link, tasks, quiet, inbox, asked, reqs>>

\* The session is gone when the dispatcher is polled next (a packet or the
\* timer wakes it): the stream is dropped, and with the senders of the channel
\* the sender ends too.
OrphansEnd ==
    /\ ~held /\ "runs" \in {tasks.dispatch, tasks.send}
    /\ inbox # <<>> \/ link # "up" \/ left = 0
    /\ tasks' = [dispatch |-> "ended", send |-> "ended"]
    /\ link' = "closed"
    /\ UNCHANGED <<session, held, attempt, alive, wire, reqs>>

\* 20 seconds pass. A timer that is due is polled first.
Tick ==
    /\ tasks.dispatch = "runs" /\ MainRuns
    /\ left > 0 /\ inbox = <<>>
    /\ left' = left - 1 /\ quiet' = quiet + 1
    /\ UNCHANGED <<session, held, attempt, link, tasks, keep, wire, reqs>>

-----------------------------------------------------------------------------
(* The server and the network                                                  *)

Packets ==
         [kind: {"Ping", "PongAck", "Unknown"}]
    \cup [kind: {"Event"}, gone: SUBSET subs]
    \cup [kind: {"Part"}, call: asked]
    \cup [kind: {"Answer"}, call: asked, status: {"ok", "refused", "unavailable"}]

\* The server says something, in any order, to any request it has.
ServerSends ==
    /\ link = "up" /\ Len(inbox) < MaxIn /\ Len(outbox) < MaxIn
    /\ \E p \in Packets:
          /\ inbox' = Append(inbox, p)
          /\ asked' = IF p.kind = "Answer" THEN asked \ {p.call} ELSE asked
    /\ UNCHANGED <<session, held, attempt, link, tasks, alive, outbox, reqs>>

\* The server closes, the connection fails, or it is lost without a sign.
LinkFails(how) ==
    /\ link = "up"
    /\ link' = how
    /\ UNCHANGED <<session, held, attempt, tasks, alive, wire, reqs>>

\* A lost link may turn into an error of the socket.
LossNoticed ==
    /\ link = "lost"
    /\ link' = "broken"
    /\ UNCHANGED <<session, held, attempt, tasks, alive, wire, reqs>>

-----------------------------------------------------------------------------
\* What waits for an answer that has no time limit: the resolver's, and after the
\* login the access point's.
Awaiting == \/ StartConnect \/ \E ok \in BOOLEAN: ResolveAccessPoint(ok)
            \/ AuthElsewhere \/ AuthRefused \/ AuthAgain \/ Welcome

\* The system ends the dialling, and the code the handshake after 5 seconds.
Dialling == \E ok \in BOOLEAN: Dial(ok)

Connecting == Awaiting \/ Dialling

Calling == \/ \E c \in Asks: Ask(c)
           \/ \E c \in Keys: AskKey(c) \/ KeyTimeout(c)
           \/ \E c \in Calls: SendRequest(c) \/ Answered(c)

Working == ShutdownManagers \/ Forward \/ ForwardFails \/ Dispatch \/ ConnectionClosed
           \/ KeepAliveTimeout \/ SendPong \/ OrphansEnd \/ Tick

Next == \/ Connecting \/ Calling \/ Working
        \/ MainShutsDown \/ Drop
        \/ ServerSends \/ LossNoticed
        \/ \E how \in {"closed", "broken", "lost"}: LinkFails(how)

\* The runtime polls its tasks and its timers, callers go on with what they have
\* begun, and dialling ends. The server owes nothing: no answer to a login, which
\* the code waits for without a time limit, and none to the resolver.
Spec == /\ Init /\ [][Next]_vars
        /\ WF_vars(Working)
        /\ WF_vars(Dialling)
        /\ \A c \in Calls: WF_vars(SendRequest(c) \/ Answered(c))
        /\ \A c \in Keys: WF_vars(KeyTimeout(c))
-----------------------------------------------------------------------------
(* Properties                                                                  *)

\* What the server may say at any time.
Message ==
         [kind: {"Ping", "PongAck", "Unknown"}]
    \cup [kind: {"Event"}, gone: SUBSET Subscribers]
    \cup [kind: {"Part"}, call: Calls]
    \cup [kind: {"Answer"}, call: Calls, status: {"ok", "refused", "unavailable"}]

TypeOK ==
    /\ session \in {"valid", "closing", "closed"} /\ held \in BOOLEAN
    /\ attempt \in [at: {"idle", "resolve", "dial", "auth", "connected", "failed"},
                    tries: 0..MaxApTries, retries: 0..MaxRetries,
                    cred: {"token", "stored"}, login: {"first", "second"}]
    /\ link \in {"none", "up", "lost", "closed", "broken"}
    /\ tasks \in [dispatch: {"none", "runs", "ended"}, send: {"none", "runs", "ended"}]
    /\ keep \in {"ExpectingPing", "PendingPong", "ExpectingPongAck"}
    /\ left \in 0..PING_TIMEOUT /\ quiet \in Nat
    /\ inbox \in Seq(Message) /\ outbox \in Seq(Calls \cup {"Pong"})
    /\ asked \subseteq Calls /\ pending \subseteq Calls /\ subs \subseteq Subscribers
    /\ caller \in [Calls -> {"idle", "asking", "waiting", "failed", "done"}]
    /\ answer \in [Calls -> {"none", "ok", "refused", "dropped"}]

\* A server that has been silent for 80 seconds (no Ping, no PongAck) does not
\* keep a session: through the three states of the keep-alive, whatever packets
\* come between and whenever the Pong is sent, a session that is still valid has
\* heard from it within that time.
SilenceEnds == (tasks.dispatch = "runs" /\ ~Invalid) => quiet <= PING_TIMEOUT

\* "destroy the sending halves of the channels to signal everyone who is waiting
\* for something": once the session is shut down, no call of Mercury waits on an
\* answer that cannot come and no subscription is open, also when the call or
\* the subscription was made while shutdown ran in another thread.  Until then a
\* call that waits can be answered: no packet takes the entry of another call.
NobodyWaits ==
    /\ session = "closed" =>
          /\ \A c \in Asks: caller[c] = "waiting" => answer[c] # "none"
          /\ subs = {}
    /\ \A c \in Calls: (caller[c] = "waiting" /\ answer[c] = "none") => c \in pending

\* A link that is lost without a sign ends the session (the Connect task looks
\* at that flag, and the main loop then reconnects).
LostIsFound == (link = "lost" /\ ~Invalid) ~> Invalid

\* Every request of an audio key ends, whatever the server does.
KeysEnd == \A c \in Keys: (caller[c] = "waiting") ~> (caller[c] = "done")

\* connect does not go round for ever: it dials an access point at most
\* MaxRetries + 1 times for the login and as often again for the reconnect of a
\* token, and tries at most MaxApTries of them. It ends, or waits for a single
\* answer that does not come (session.rs:215, connection/mod.rs:160): the code
\* has no time limit there, and nothing ends that wait.
ConnectEnds ==
    (attempt.at = "resolve") ~> \/ attempt.at \in {"connected", "failed"}
                                \/ [](attempt.at = "resolve") \/ [](attempt.at = "auth")

\* Nothing the session starts goes on for ever but for that wait: not a key's
\* request, nor a connection that is dead, nor the tries of a login.
NothingHangs == LostIsFound /\ KeysEnd /\ ConnectEnds

\* The session does what SessionPromise says.
Promise == INSTANCE SessionPromise WITH
    Calls <- Asks,
    life <- IF session = "closed" THEN "over"
            ELSE IF attempt.at = "connected" THEN "live" ELSE "fresh",
    call <- [c \in Asks |-> IF caller[c] \in {"idle", "asking"} THEN "idle"
                            ELSE IF caller[c] = "waiting" /\ answer[c] = "none" THEN "waiting"
                            ELSE "ended"]

PromiseKept == Promise!Spec

=============================================================================

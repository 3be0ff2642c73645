------------------------------- MODULE Dealer -------------------------------
(* librespot's dealer (core/src/dealer): the websocket over which Spotify      *)
(* sends messages and requests. A background task (run) keeps a connection:    *)
(* each has a task that sends what its channel holds and one that receives,    *)
(* pings and dispatches. The manager starts it once and closes it.             *)
(*                                                                             *)
(* All tasks share one thread (main.rs has the current_thread runtime): what   *)
(* a task does between two awaits is one step. The server, the network, the    *)
(* answer of get_url and the handlers' owner (Spirc) are the environment.      *)
EXTENDS Naturals, Sequences, FiniteSets, SequencesExt

CONSTANTS
    Conns,          \* the connections, in the order they are made: 1..n
    Requests,       \* the requests of the server
    Paths           \* the URIs, as sequences of their components

ASSUME DealerAssumption ==
    /\ IsFiniteSet(Conns) /\ Conns = 1..Cardinality(Conns)
    /\ Requests \cap {"ping", "close"} = {}
    /\ \A p \in Paths : p \in Seq(STRING)

VARIABLES
    manager,    \* DealerManagerInner: the builder or the dealer, or neither
    closed,     \* notify_drop has been closed
    loop,       \* where run is: its await, the tasks it holds
    conn,       \* the connections: see Conn
    req,        \* the requests: see Req
    got,        \* history: the requests whose answer has been written
    handlers    \* the paths with a handler

vars == <<manager, closed, loop, conn, req, got, handlers>>

\* A task that runs is held by run, or by the timer that aborts it 3 seconds
\* after run has dropped it, or by nobody.
Task == {"held", "timer", "alone", "ended"}
Runs(task) == task # "ended"

\* The receiver waits for its next ping, for the pong, or has seen it.
Conn == [link: {"none", "up", "silent", "closed"}, out: Seq({"ping", "close"} \cup Requests),
         send: Task, recv: Task, waits: {"tick", "pong", "ponged"}]
\* Not sent yet, held by its handler, done with, or left without an answer on
\* purpose; what its Responder has sent, and believes that it has.
Req == [at: {"server", "handler", "over", "silent"}, on: Conns \cup {0},
        answers: 0..2, sent: BOOLEAN]

NoConn == [link |-> "none", out |-> <<>>, send |-> "ended", recv |-> "ended", waits |-> "tick"]

Init ==
    /\ manager = "builder" /\ closed = FALSE
    /\ loop = [pc |-> "none", cur |-> 0]
    /\ conn = [c \in Conns |-> NoConn]
    /\ req = [r \in Requests |-> [at |-> "server", on |-> 0, answers |-> 0, sent |-> FALSE]]
    /\ got = {}
    /\ handlers = {}

Made == {c \in Conns : conn[c].link # "none"}
NextConn == Cardinality(Made) + 1

-----------------------------------------------------------------------------
(* The handlers: a tree whose leaves are the handlers, so that no handler's    *)
(* path is a prefix of another's.                                              *)

Insertable(p) == ~\E q \in handlers : IsPrefix(q, p) \/ IsPrefix(p, q)

\* get stops at the first leaf.
Handled(p) == \E q \in handlers : IsPrefix(q, p)

AddHandler(p) ==
    /\ manager \in {"builder", "dealer"}
    /\ Insertable(p)
    /\ handlers' = handlers \cup {p}
    /\ UNCHANGED <<manager, closed, loop, conn, req, got>>

RemoveHandler(p) ==
    /\ manager = "dealer" /\ p \in handlers
    /\ handlers' = handlers \ {p}
    /\ UNCHANGED <<manager, closed, loop, conn, req, got>>

-----------------------------------------------------------------------------
(* The tasks of a connection.                                                  *)

\* A new connection, its two tasks held by the loop.
Opened(k, c) ==
    [k EXCEPT ![c] = [NoConn EXCEPT !.link = "up", !.send = "held", !.recv = "held"]]

\* TimeoutOnDrop: a task that run drops while it runs gets a timer.
MDropped(task) == IF task = "held" THEN "alone" ELSE task
Dropped(task) == IF task = "held" THEN "timer" ELSE task

\* The tasks of connection c (0: none) dropped by run.
DropTasks(k, c) ==
    IF c = 0 THEN k
    ELSE [k EXCEPT ![c].send = Dropped(@), ![c].recv = Dropped(@)]

\* A frame for the channel, which the send task has closed when it has ended.
Queue(k, c, frame) == IF Runs(k[c].send) THEN [k EXCEPT ![c].out = Append(@, frame)] ELSE k

\* The send task ends: what is queued is never written; a Close frame is sent,
\* after which a server that is there hangs up.
SendEnded(k, c) == [k EXCEPT ![c].send = "ended", ![c].out = <<>>]

\* The receive task ends and tries to take the send task with it.
RecvEnded(k, c) == Queue([k EXCEPT ![c].recv = "ended"], c, "close")

MSendNotices(c) ==
    /\ Runs(conn[c].send) /\ conn[c].link = "closed"
    /\ conn' = SendEnded(conn, c)
    /\ UNCHANGED <<manager, closed, loop, req, got, handlers>>
SendNotices(c) ==
    /\ Runs(conn[c].send) /\ (closed \/ conn[c].link = "closed")
    /\ conn' = SendEnded(conn, c)
    /\ UNCHANGED <<manager, closed, loop, req, got, handlers>>

Written(frame, c) == IF conn[c].link = "up" THEN got \cup ({frame} \cap Requests) ELSE got

SendFrame(c) ==
    /\ Runs(conn[c].send) /\ ~closed /\ conn[c].out # <<>>
    /\ LET frame == Head(conn[c].out)
       IN /\ conn' = IF frame = "close" \/ conn[c].link = "closed" THEN SendEnded(conn, c)
                     ELSE [conn EXCEPT ![c].out = Tail(@)]
          /\ got' = Written(frame, c)
    /\ UNCHANGED <<manager, closed, loop, req, handlers>>

\* ping_task: the interval's tick, of which the first comes at once.
MPingTick(c) ==
    /\ Runs(conn[c].recv) /\ conn[c].waits = "tick"
    /\ conn' = IF Runs(conn[c].send)
               THEN Queue([conn EXCEPT ![c].waits = "ponged"], c, "ping")
               ELSE RecvEnded(conn, c)
    /\ UNCHANGED <<manager, closed, loop, req, got, handlers>>
PingTick(c) ==
    /\ Runs(conn[c].recv) /\ conn[c].waits = "tick"
    /\ conn' = IF Runs(conn[c].send)
               THEN Queue([conn EXCEPT ![c].waits = "pong"], c, "ping")
               ELSE RecvEnded(conn, c)
    /\ UNCHANGED <<manager, closed, loop, req, got, handlers>>

\* 3 seconds later. (Time is not counted: any pong may come too late.)
PongTimeout(c) ==
    /\ Runs(conn[c].recv) /\ conn[c].waits # "tick"
    /\ conn' = IF conn[c].waits = "ponged" THEN [conn EXCEPT ![c].waits = "tick"] ELSE RecvEnded(conn, c)
    /\ UNCHANGED <<manager, closed, loop, req, got, handlers>>

Pong(c) ==
    /\ Runs(conn[c].recv) /\ conn[c].link = "up" /\ conn[c].waits = "pong"
    /\ \A i \in 1..Len(conn[c].out) : conn[c].out[i] # "ping"
    /\ conn' = [conn EXCEPT ![c].waits = "ponged"]
    /\ UNCHANGED <<manager, closed, loop, req, got, handlers>>

RecvNotices(c) ==
    /\ Runs(conn[c].recv) /\ conn[c].link = "closed"
    /\ conn' = RecvEnded(conn, c)
    /\ UNCHANGED <<manager, closed, loop, req, got, handlers>>

\* A reply goes to the channel of the connection that brought the request.
MReply(k, c, r) == k
Reply(k, c, r) == Queue(k, c, r)

\* The Responder of a request sends,
SendInternal(q) == [q EXCEPT !.answers = @ + 1]
MSend(q) == SendInternal(q)
Send(q) == [SendInternal(q) EXCEPT !.sent = TRUE]

\* or is told not to,
ForceUnanswered(q) == [q EXCEPT !.sent = TRUE]

\* and answers by itself when it is dropped, which it is after either.
Drop(q) == IF q.sent THEN q ELSE SendInternal(q)

\* The Responder of request r from connection c is dropped as q.
Consumed(c, r, q, at) ==
    LET d == Drop(q)
    IN /\ req' = [req EXCEPT ![r] = [d EXCEPT !.at = at, !.on = c]]
       /\ conn' = CASE d.answers = 0 -> conn
                    [] d.answers = 1 -> Reply(conn, c, r)
                    [] OTHER -> Reply(Reply(conn, c, r), c, r)

\* dispatch_request: a handler gets the request with its Responder; without one
\* the Responder is dropped; for a payload that cannot be read none is made.
DispatchRequest(c, r, p) ==
    /\ Runs(conn[c].recv) /\ conn[c].link = "up" /\ req[r].at = "server"
    /\ \/ /\ Handled(p)
          /\ req' = [req EXCEPT ![r].at = "handler", ![r].on = c]
          /\ UNCHANGED conn
       \/ ~Handled(p) /\ Consumed(c, r, req[r], "over")
       \/ /\ req' = [req EXCEPT ![r].at = "over", ![r].on = c]
          /\ UNCHANGED conn
    /\ UNCHANGED <<manager, closed, loop, got, handlers>>

\* The handler's owner replies (or drops the channel, or has gone: failure),
HandlerReplies(r) ==
    /\ req[r].at = "handler"
    /\ Consumed(req[r].on, r, Send(req[r]), "over")
    /\ UNCHANGED <<manager, closed, loop, got, handlers>>

\* or wants the request to stay unanswered.
StaysSilent(r) ==
    /\ req[r].at = "handler"
    /\ Consumed(req[r].on, r, ForceUnanswered(req[r]), "silent")
    /\ UNCHANGED <<manager, closed, loop, got, handlers>>

\* The timer of a dropped task.
Abort(c) ==
    /\ \/ /\ conn[c].send = "timer"
          /\ conn' = SendEnded(conn, c)
       \/ /\ conn[c].recv = "timer"
          /\ conn' = [conn EXCEPT ![c].recv = "ended"]
    /\ UNCHANGED <<manager, closed, loop, req, got, handlers>>

-----------------------------------------------------------------------------
(* run, and the manager that starts and closes it.                             *)

\* start takes the builder; until launch has a connection there is neither a
\* builder nor a dealer.
Start ==
    /\ manager = "builder"
    /\ manager' = "starting" /\ loop' = [loop EXCEPT !.pc = "launch"]
    /\ UNCHANGED <<closed, conn, req, got, handlers>>

Launched ==
    /\ manager = "starting" /\ NextConn \in Conns
    /\ conn' = Opened(conn, NextConn)
    /\ manager' = "dealer" /\ loop' = [pc |-> "select", cur |-> NextConn]
    /\ UNCHANGED <<closed, req, got, handlers>>

\* The URL or the connection fails: the builder is lost.
LaunchFails ==
    /\ manager = "starting"
    /\ manager' = "lost" /\ loop' = [loop EXCEPT !.pc = "over"]
    /\ UNCHANGED <<closed, conn, req, got, handlers>>

\* The head of the loop: while !shared.is_closed().
Top == IF closed THEN "join" ELSE "url"

\* One of the two tasks has ended; the other stays held.
TaskEnds ==
    /\ loop.pc = "select" /\ ~(Runs(conn[loop.cur].send) /\ Runs(conn[loop.cur].recv))
    /\ loop' = [loop EXCEPT !.pc = Top]
    /\ UNCHANGED <<manager, closed, conn, req, got, handlers>>

\* The awaits of run that hear of the close.
HearsClose ==
    /\ loop.pc \in {"select", "url"} /\ closed
    /\ loop' = [loop EXCEPT !.pc = "join"]
    /\ UNCHANGED <<manager, closed, conn, req, got, handlers>>

UrlFound ==
    /\ loop.pc = "url"
    /\ loop' = [loop EXCEPT !.pc = "connect"]
    /\ UNCHANGED <<manager, closed, conn, req, got, handlers>>

\* An error of get_url ends run for good: what it held is dropped.
UrlFails ==
    /\ loop.pc = "url"
    /\ loop' = [pc |-> "over", cur |-> 0]
    /\ conn' = DropTasks(conn, loop.cur)
    /\ UNCHANGED <<manager, closed, req, got, handlers>>

Reconnected ==
    /\ loop.pc = "connect" /\ NextConn \in Conns
    /\ conn' = Opened(DropTasks(conn, loop.cur), NextConn)
    /\ loop' = [pc |-> IF closed THEN "join" ELSE "select", cur |-> NextConn]
    /\ UNCHANGED <<manager, closed, req, got, handlers>>

ConnectFails ==
    /\ loop.pc = "connect"
    /\ loop' = [loop EXCEPT !.pc = "sleep"]
    /\ UNCHANGED <<manager, closed, conn, req, got, handlers>>

\* RECONNECT_INTERVAL, during which a close is not heard.
SleepEnds ==
    /\ loop.pc = "sleep"
    /\ loop' = [loop EXCEPT !.pc = Top]
    /\ UNCHANGED <<manager, closed, conn, req, got, handlers>>

\* join_all, without a time-out.
Joined ==
    /\ loop.pc = "join"
    /\ loop.cur # 0 => ~Runs(conn[loop.cur].send) /\ ~Runs(conn[loop.cur].recv)
    /\ loop' = [pc |-> "over", cur |-> 0]
    /\ UNCHANGED <<manager, closed, conn, req, got, handlers>>

\* The manager gives up the dealer, which waits for run.
Close ==
    /\ manager = "dealer"
    /\ manager' = "closing" /\ closed' = TRUE
    /\ UNCHANGED <<loop, conn, req, got, handlers>>

CloseReturns ==
    /\ manager = "closing" /\ loop.pc = "over"
    /\ manager' = "lost"
    /\ UNCHANGED <<closed, loop, conn, req, got, handlers>>

\* The network: a connection goes silent or closes.
LinkFails(c) ==
    /\ conn[c].link \in {"up", "silent"}
    /\ \E l \in {"silent", "closed"} :
         l # conn[c].link /\ conn' = [conn EXCEPT ![c].link = l]
    /\ UNCHANGED <<manager, closed, loop, req, got, handlers>>

-----------------------------------------------------------------------------

RunSteps ==
    \/ TaskEnds \/ HearsClose \/ UrlFound \/ UrlFails \/ Reconnected \/ ConnectFails
    \/ SleepEnds \/ Joined \/ CloseReturns \/ Launched \/ LaunchFails

Sender(c) == SendNotices(c) \/ SendFrame(c)
Receiver(c) == PingTick(c) \/ PongTimeout(c) \/ RecvNotices(c)

Next ==
    \/ RunSteps \/ Start \/ Close
    \/ \E c \in Conns :
         \/ Sender(c) \/ Receiver(c) \/ Pong(c) \/ Abort(c) \/ LinkFails(c)
         \/ \E r \in Requests, p \in Paths : DispatchRequest(c, r, p)
    \/ \E r \in Requests : HandlerReplies(r) \/ StaysSilent(r)
    \/ \E p \in Paths : AddHandler(p) \/ RemoveHandler(p)

\* The scheduler polls every task that is ready, timers fire, a connection
\* attempt or a request for a URL ends, and the handler's owner replies.
Fairness ==
    /\ WF_vars(RunSteps)
    /\ \A c \in Conns : WF_vars(Sender(c)) /\ WF_vars(Receiver(c)) /\ WF_vars(Abort(c))
    /\ \A r \in Requests : WF_vars(HandlerReplies(r) \/ StaysSilent(r))

Spec == Init /\ [][Next]_vars /\ Fairness

-----------------------------------------------------------------------------
(* Properties.                                                                 *)

TypeOK ==
    /\ manager \in {"builder", "starting", "dealer", "closing", "lost"}
    /\ closed \in BOOLEAN
    /\ loop \in [pc: {"none", "launch", "select", "url", "connect", "sleep", "join", "over"},
                 cur: Conns \cup {0}]
    /\ conn \in [Conns -> Conn]
    /\ req \in [Requests -> Req] /\ got \subseteq Requests
    /\ handlers \subseteq Paths

\* Every task that runs is held by run or has a timer that aborts it: none is
\* left behind by a reconnection, a failing URL or a close (mod.rs 675-721,
\* util.rs 76-99).
NoTaskIsLost ==
    \A c \in Conns :
        /\ Runs(conn[c].send) => conn[c].send = "timer" \/ c = loop.cur
        /\ Runs(conn[c].recv) => conn[c].recv = "timer" \/ c = loop.cur

\* A request is answered at most once, and not at all when its handler wants it
\* so, although the Responder answers by itself when it is dropped, and is dropped
\* after every answer (mod.rs 68-115).
AnsweredOnce ==
    \A r \in Requests : req[r].answers <= IF req[r].at = "silent" THEN 0 ELSE 1

\* A connection that is no longer there is left: a silent one too, by its pings
\* (mod.rs 616-651).
LostIsLeft ==
    \A c \in Conns : (loop.pc = "select" /\ loop.cur = c /\ conn[c].link # "up")
                     ~> ~(loop.pc = "select" /\ loop.cur = c)

\* close returns, though run sleeps or connects without hearing of it and then
\* joins its tasks without a time-out: a receiver that hears nothing any more
\* ends when its ping cannot be sent (mod.rs 485-495, 708-721).
CloseEnds == manager = "closing" ~> manager = "lost"

\* What a handler has been given is answered, as long as its connection sends.
RequestsAnswered ==
    \A r \in Requests :
        req[r].at = "handler" ~> \/ req[r].at = "silent"
                                 \/ r \in got
                                 \/ \E c \in Conns : /\ req[r].on = c
                                                    /\ \/ ~Runs(conn[c].send)
                                                       \/ conn[c].link # "up"
=============================================================================

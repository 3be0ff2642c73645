--------------------------- MODULE Servers_proofs ---------------------------
(***************************************************************************)
(* What librespot keeps with its servers, for all values of the constants. *)
(*                                                                         *)
(* The dealer (module Dealer), for every number of connections, requests   *)
(* and URIs: its state is well typed, no task of a connection is left to   *)
(* run for ever, and no request is answered twice.  The induction for the  *)
(* tasks says who holds each, and that run holds none before it launched.  *)
(*                                                                         *)
(* The calls over HTTPS (module Web), for every number of                  *)
(* callers, retries and addresses: while the fallback fits the port, a     *)
(* caller is told that there is no address only when another has taken the *)
(* last under its eyes, and a missing client token makes no call fail.     *)
(***************************************************************************)
EXTENDS Dealer, Web, TLAPS

\* A task that runs is that of run's connection, and held by run, or timed.
HeldOrTimed(task, c) == task \in {"timer", "ended"} \/ (task = "held" /\ c = loop.cur)

TasksHeld == \A c \in Conns : HeldOrTimed(conn[c].send, c) /\ HeldOrTimed(conn[c].recv, c)

\* run holds no connection until it has launched.
Unlaunched == manager \in {"builder", "starting"} => loop.cur = 0 /\ loop.pc \in {"none", "launch"}

\* A request that has not been dealt with has no answer under way and a Responder
\* that knows of none, and a handler has it from a connection.
Unanswered == \A r \in Requests :
    /\ req[r].answers <= IF req[r].at = "silent" THEN 0 ELSE 1
    /\ req[r].at = "handler" => req[r].on \in Conns
    /\ req[r].at \in {"server", "handler"} => req[r].answers = 0 /\ ~req[r].sent

Frames == {"ping", "close"} \cup Requests

-----------------------------------------------------------------------------
(* What the helpers do to the connections.                                     *)

\* Queueing a frame on one connection leaves every task of every connection as it
\* was.
LEMMA QueueType ==
    ASSUME NEW k \in [Conns -> Conn], NEW c \in Conns, NEW frame \in Frames
    PROVE  /\ Queue(k, c, frame) \in [Conns -> Conn]
           /\ \A d \in Conns : /\ Queue(k, c, frame)[d].send = k[d].send
                               /\ Queue(k, c, frame)[d].recv = k[d].recv
<1>1. k[c] \in Conn /\ k[c].out \in Seq(Frames)
    BY DEF Conn, Frames
<1>2. Append(k[c].out, frame) \in Seq(Frames)
    BY <1>1
<1> DEFINE q == [k[c] EXCEPT !.out = Append(k[c].out, frame)]
<1>3. q \in Conn /\ q.send = k[c].send /\ q.recv = k[c].recv
    BY <1>1, <1>2 DEF Conn, Frames
<1>4. [k EXCEPT ![c].out = Append(@, frame)] = [k EXCEPT ![c] = q]
    OBVIOUS
<1> HIDE DEF q
<1>5. /\ [k EXCEPT ![c] = q] \in [Conns -> Conn]
      /\ \A d \in Conns : /\ [k EXCEPT ![c] = q][d].send = k[d].send
                          /\ [k EXCEPT ![c] = q][d].recv = k[d].recv
    BY <1>3
<1> QED BY <1>4, <1>5 DEF Queue

\* Ending a connection's sender touches no other task.
LEMMA SendEndedType ==
    ASSUME NEW k \in [Conns -> Conn], NEW c \in Conns
    PROVE  /\ SendEnded(k, c) \in [Conns -> Conn]
           /\ \A d \in Conns : /\ SendEnded(k, c)[d].send = IF d = c THEN "ended" ELSE k[d].send
                               /\ SendEnded(k, c)[d].recv = k[d].recv
<1> DEFINE q == [[k[c] EXCEPT !.send = "ended"] EXCEPT !.out = <<>>]
<1>1. k[c] \in Conn /\ <<>> \in Seq({"ping", "close"} \cup Requests)
    OBVIOUS
<1>2. q \in Conn /\ q.send = "ended" /\ q.recv = k[c].recv
    BY <1>1 DEF Conn, Task
<1>3. SendEnded(k, c) = [k EXCEPT ![c] = q]
    BY DEF SendEnded
<1> HIDE DEF q
<1> QED BY <1>2, <1>3

\* Ending a connection's receiver touches no other task.
LEMMA RecvEndedType ==
    ASSUME NEW k \in [Conns -> Conn], NEW c \in Conns
    PROVE  /\ RecvEnded(k, c) \in [Conns -> Conn]
           /\ \A d \in Conns : /\ RecvEnded(k, c)[d].send = k[d].send
                               /\ RecvEnded(k, c)[d].recv = IF d = c THEN "ended" ELSE k[d].recv
<1> DEFINE e == [k EXCEPT ![c].recv = "ended"]
<1>1. e \in [Conns -> Conn]
    BY DEF Conn, Task
<1>2. \A d \in Conns : e[d].send = k[d].send /\ e[d].recv = IF d = c THEN "ended" ELSE k[d].recv
    BY DEF Conn
<1>3. "close" \in Frames
    BY DEF Frames
<1> HIDE DEF e
<1>4. /\ Queue(e, c, "close") \in [Conns -> Conn]
      /\ \A d \in Conns : /\ Queue(e, c, "close")[d].send = e[d].send
                          /\ Queue(e, c, "close")[d].recv = e[d].recv
    BY <1>1, <1>3, QueueType
<1> QED BY <1>2, <1>4 DEF RecvEnded, e

\* The tasks of one connection dropped, those of the others as they are.
LEMMA DropTasksType ==
    ASSUME NEW k \in [Conns -> Conn], NEW c \in Conns \cup {0}
    PROVE  /\ DropTasks(k, c) \in [Conns -> Conn]
           /\ \A d \in Conns :
                /\ DropTasks(k, c)[d].send = IF d = c THEN Dropped(k[d].send) ELSE k[d].send
                /\ DropTasks(k, c)[d].recv = IF d = c THEN Dropped(k[d].recv) ELSE k[d].recv
<1>1. CASE c = 0
  <2>1. 0 \notin Conns
    BY DealerAssumption, 0 \notin 1..Cardinality(Conns)
  <2> QED BY <1>1, <2>1 DEF DropTasks
<1>2. CASE c # 0
  <2> c \in Conns
    BY <1>2
  <2> DEFINE q == [[k[c] EXCEPT !.send = Dropped(k[c].send)] EXCEPT !.recv = Dropped(k[c].recv)]
  <2>1. k[c] \in Conn /\ Dropped(k[c].send) \in Task /\ Dropped(k[c].recv) \in Task
    BY DEF Conn, Task, Dropped
  <2>2. q \in Conn /\ q.send = Dropped(k[c].send) /\ q.recv = Dropped(k[c].recv)
    BY <2>1 DEF Conn
  <2>3. DropTasks(k, c) = [k EXCEPT ![c] = q]
    BY <1>2 DEF DropTasks
  <2> HIDE DEF q
  <2> QED BY <2>2, <2>3
<1> QED BY <1>1, <1>2

\* Opening a connection starts its two tasks and touches no other.
LEMMA OpenedType ==
    ASSUME NEW k \in [Conns -> Conn], NEW c \in Conns
    PROVE  /\ Opened(k, c) \in [Conns -> Conn]
           /\ \A d \in Conns : /\ Opened(k, c)[d].send = IF d = c THEN "held" ELSE k[d].send
                               /\ Opened(k, c)[d].recv = IF d = c THEN "held" ELSE k[d].recv
<1> DEFINE q1 == [NoConn EXCEPT !.link = "up"]
           q2 == [q1 EXCEPT !.send = "held"]
           q == [q2 EXCEPT !.recv = "held"]
<1>1. <<>> \in Seq({"ping", "close"} \cup Requests)
    OBVIOUS
<1>2. NoConn \in Conn
    BY <1>1 DEF NoConn, Conn, Task
<1>3. q1 \in Conn
    BY <1>2 DEF Conn
<1>4. q2 \in Conn /\ q2.send = "held"
    BY <1>3 DEF Conn, Task
<1>5. q \in Conn /\ q.send = "held" /\ q.recv = "held"
    BY <1>4 DEF Conn, Task
<1>6. Opened(k, c) = [k EXCEPT ![c] = q]
    BY DEF Opened
<1> HIDE DEF q, q2, q1
<1> QED BY <1>5, <1>6

-----------------------------------------------------------------------------
\* The dealer starts with its types.
LEMMA TypeInit == Init => TypeOK
<1> SUFFICES ASSUME Init PROVE TypeOK
    OBVIOUS
<1>1. <<>> \in Seq({"ping", "close"} \cup Requests)
    OBVIOUS
<1>2. NoConn \in Conn
    BY <1>1 DEF NoConn, Conn, Task
<1>3. conn \in [Conns -> Conn] /\ req \in [Requests -> Req]
    BY <1>2 DEF Init, Req
<1>4. closed \in BOOLEAN
    BY Zenon DEF Init
<1> QED BY <1>3, <1>4 DEF Init, TypeOK

\* What the tasks of the connections do.
LEMMA ConnStep ==
    ASSUME TypeOK, NEW c \in Conns,
           Sender(c) \/ Receiver(c) \/ Pong(c) \/ Abort(c) \/ LinkFails(c)
    PROVE  /\ conn' \in [Conns -> Conn] /\ got' \subseteq Requests
           /\ UNCHANGED <<manager, closed, loop, req, handlers>>
           /\ \A d \in Conns : conn'[d].send \in {conn[d].send, "ended"}
                               /\ conn'[d].recv \in {conn[d].recv, "ended"}
<1>0. /\ conn \in [Conns -> Conn] /\ got \subseteq Requests
      /\ conn[c].out \in Seq(Frames)
    BY DEF TypeOK, Conn, Frames
<1>1. CASE SendNotices(c)
    BY <1>0, <1>1, SendEndedType DEF SendNotices
<1>2. CASE SendFrame(c)
  <2>1. Tail(conn[c].out) \in Seq(Frames)
    BY <1>0, <1>2 DEF SendFrame
  <2> DEFINE k == [conn EXCEPT ![c].out = Tail(conn[c].out)]
  <2>2. /\ k \in [Conns -> Conn]
        /\ \A d \in Conns : k[d].send = conn[d].send /\ k[d].recv = conn[d].recv
    BY <1>0, <2>1 DEF Conn, Frames
  <2>3. conn' = SendEnded(conn, c) \/ conn' = k
    BY <1>2 DEF SendFrame
  <2> HIDE DEF k
  <2>4. got' \subseteq Requests
    BY <1>0, <1>2 DEF SendFrame, Written
  <2>5. UNCHANGED <<manager, closed, loop, req, handlers>>
    BY <1>0, <1>2 DEF SendFrame
  <2>6. CASE conn' = SendEnded(conn, c)
    <3>1. /\ conn' \in [Conns -> Conn]
          /\ \A d \in Conns : conn'[d].send \in {conn[d].send, "ended"}
                              /\ conn'[d].recv \in {conn[d].recv, "ended"}
      BY <1>0, <2>6, SendEndedType
    <3> QED BY <2>5, <3>1, <2>4
  <2>7. CASE conn' = k
    <3>1. /\ conn' \in [Conns -> Conn]
          /\ \A d \in Conns : conn'[d].send \in {conn[d].send, "ended"}
                              /\ conn'[d].recv \in {conn[d].recv, "ended"}
      BY <2>2, <2>7
    <3> QED BY <2>5, <3>1, <2>4
  <2> QED BY <2>3, <2>6, <2>7
<1>3. CASE PingTick(c)
  <2> DEFINE k == [conn EXCEPT ![c].waits = "pong"]
  <2>1. /\ k \in [Conns -> Conn]
        /\ \A d \in Conns : k[d].send = conn[d].send /\ k[d].recv = conn[d].recv
    BY <1>0 DEF Conn
  <2>2. conn' = Queue(k, c, "ping") \/ conn' = RecvEnded(conn, c)
    BY <1>3 DEF PingTick
  <2>3. "ping" \in Frames
    BY DEF Frames
  <2> HIDE DEF k
  <2>5. UNCHANGED <<manager, closed, loop, req, handlers>> /\ got' \subseteq Requests
    BY <1>0, <1>3 DEF PingTick
  <2>6. CASE conn' = Queue(k, c, "ping")
    <3>1. /\ conn' \in [Conns -> Conn]
          /\ \A d \in Conns : conn'[d].send \in {conn[d].send, "ended"}
                              /\ conn'[d].recv \in {conn[d].recv, "ended"}
      BY <2>1, <2>3, <2>6, QueueType
    <3> QED BY <2>5, <3>1
  <2>7. CASE conn' = RecvEnded(conn, c)
    <3>1. /\ conn' \in [Conns -> Conn]
          /\ \A d \in Conns : conn'[d].send \in {conn[d].send, "ended"}
                              /\ conn'[d].recv \in {conn[d].recv, "ended"}
      BY <1>0, <2>7, RecvEndedType
    <3> QED BY <2>5, <3>1
  <2> QED BY <2>2, <2>6, <2>7
<1>4. CASE PongTimeout(c)
  <2> DEFINE k == [conn EXCEPT ![c].waits = "tick"]
  <2>1. /\ k \in [Conns -> Conn]
        /\ \A d \in Conns : k[d].send = conn[d].send /\ k[d].recv = conn[d].recv
    BY <1>0 DEF Conn
  <2>2. conn' = k \/ conn' = RecvEnded(conn, c)
    BY <1>4 DEF PongTimeout
  <2> HIDE DEF k
  <2>5. UNCHANGED <<manager, closed, loop, req, handlers>> /\ got' \subseteq Requests
    BY <1>0, <1>4 DEF PongTimeout
  <2>6. CASE conn' = k
    <3>1. /\ conn' \in [Conns -> Conn]
          /\ \A d \in Conns : conn'[d].send \in {conn[d].send, "ended"}
                              /\ conn'[d].recv \in {conn[d].recv, "ended"}
      BY <2>1, <2>6
    <3> QED BY <2>5, <3>1
  <2>7. CASE conn' = RecvEnded(conn, c)
    <3>1. /\ conn' \in [Conns -> Conn]
          /\ \A d \in Conns : conn'[d].send \in {conn[d].send, "ended"}
                              /\ conn'[d].recv \in {conn[d].recv, "ended"}
      BY <1>0, <2>7, RecvEndedType
    <3> QED BY <2>5, <3>1
  <2> QED BY <2>2, <2>6, <2>7
<1>5. CASE RecvNotices(c)
    BY <1>0, <1>5, RecvEndedType DEF RecvNotices
<1>6. CASE Pong(c)
    BY <1>0, <1>6 DEF Pong, Conn
<1>7. CASE Abort(c)
  <2> DEFINE k == [conn EXCEPT ![c].recv = "ended"]
  <2>1. /\ k \in [Conns -> Conn]
        /\ \A d \in Conns : k[d].send = conn[d].send /\ k[d].recv \in {conn[d].recv, "ended"}
    BY <1>0 DEF Conn, Task
  <2>2. conn' = SendEnded(conn, c) \/ conn' = k
    BY <1>7 DEF Abort
  <2> HIDE DEF k
  <2>5. UNCHANGED <<manager, closed, loop, req, handlers>> /\ got' \subseteq Requests
    BY <1>0, <1>7 DEF Abort
  <2>6. CASE conn' = SendEnded(conn, c)
    <3>1. /\ conn' \in [Conns -> Conn]
          /\ \A d \in Conns : conn'[d].send \in {conn[d].send, "ended"}
                              /\ conn'[d].recv \in {conn[d].recv, "ended"}
      BY <1>0, <2>6, SendEndedType
    <3> QED BY <2>5, <3>1
  <2>7. CASE conn' = k
    <3>1. /\ conn' \in [Conns -> Conn]
          /\ \A d \in Conns : conn'[d].send \in {conn[d].send, "ended"}
                              /\ conn'[d].recv \in {conn[d].recv, "ended"}
      BY <2>1, <2>7
    <3> QED BY <2>5, <3>1
  <2> QED BY <2>2, <2>6, <2>7
<1>8. CASE LinkFails(c)
  <2> PICK l \in {"silent", "closed"} : conn' = [conn EXCEPT ![c].link = l]
    BY <1>8 DEF LinkFails
  <2>1. /\ conn' \in [Conns -> Conn]
        /\ \A d \in Conns : conn'[d].send = conn[d].send /\ conn'[d].recv = conn[d].recv
    BY <1>0 DEF Conn
  <2> QED BY <1>0, <1>8, <2>1 DEF LinkFails
<1> QED BY <1>1, <1>2, <1>3, <1>4, <1>5, <1>6, <1>7, <1>8 DEF Sender, Receiver

\* What a Responder does to its request: one answer when it sends, none when it is
\* told not to, and the drop that follows adds nothing to either.
LEMMA ResponderType ==
    ASSUME NEW q \in Req, q.answers = 0, ~q.sent
    PROVE  /\ Drop(q) \in Req /\ Drop(q).answers = 1
           /\ Drop(Send(q)) \in Req /\ Drop(Send(q)).answers = 1
           /\ Drop(ForceUnanswered(q)) \in Req /\ Drop(ForceUnanswered(q)).answers = 0
<1> DEFINE a == [q EXCEPT !.answers = 1]
           b == [a EXCEPT !.sent = TRUE]
           f == [q EXCEPT !.sent = TRUE]
<1>1. a \in Req /\ a.answers = 1 /\ 0 + 1 = 1
  BY DEF Req
<1>2. f \in Req /\ f.answers = 0 /\ f.sent
  BY DEF Req
<1>3. SendInternal(q) = a
  BY <1>1 DEF SendInternal
<1> HIDE DEF a
<1>4. b \in Req /\ b.answers = 1 /\ b.sent
  BY <1>1 DEF Req
<1>5. Send(q) = b
  BY <1>3 DEF Send
<1> HIDE DEF b, f
<1>6. Drop(q) = a
  BY <1>3 DEF Drop
<1>7. Drop(Send(q)) = b
  BY <1>4, <1>5 DEF Drop
<1>8. Drop(ForceUnanswered(q)) = f
  BY <1>2 DEF Drop, ForceUnanswered, f
<1> QED BY <1>1, <1>2, <1>4, <1>6, <1>7, <1>8

\* A Responder that has made at most one answer is dropped.
LEMMA ConsumedStep ==
    ASSUME conn \in [Conns -> Conn], req \in [Requests -> Req],
           NEW r \in Requests, NEW c \in Conns, NEW q, NEW at \in {"over", "silent"},
           Drop(q) \in Req, Drop(q).answers \in {0, 1}, Consumed(c, r, q, at)
    PROVE  /\ conn' \in [Conns -> Conn]
           /\ \A d \in Conns : conn'[d].send = conn[d].send /\ conn'[d].recv = conn[d].recv
           /\ req' \in [Requests -> Req]
           /\ req'[r].at = at /\ req'[r].answers = Drop(q).answers
           /\ \A s \in Requests \ {r} : req'[s] = req[s]
<1> DEFINE d == Drop(q)
           a == [d EXCEPT !.at = at]
           b == [a EXCEPT !.on = c]
<1>1. /\ req' = [req EXCEPT ![r] = b]
      /\ conn' = CASE d.answers = 0 -> conn
                   [] d.answers = 1 -> Reply(conn, c, r)
                   [] OTHER -> Reply(Reply(conn, c, r), c, r)
  BY DEF Consumed
<1> HIDE DEF d
<1>2. d \in Req /\ d.answers \in {0, 1}
  BY DEF d
<1>3. a \in Req /\ a.at = at /\ a.answers = d.answers
  BY <1>2 DEF Req
<1> HIDE DEF a
<1>4. b \in Req /\ b.at = at /\ b.answers = d.answers
  BY <1>3 DEF Req
<1> HIDE DEF b
<1>5. conn' = conn \/ conn' = Queue(conn, c, r)
  BY <1>1, <1>2 DEF Reply
<1>6. r \in Frames
  BY DEF Frames
<1>7. /\ conn' \in [Conns -> Conn]
      /\ \A e \in Conns : conn'[e].send = conn[e].send /\ conn'[e].recv = conn[e].recv
  BY <1>5, <1>6, QueueType
<1> QED BY <1>1, <1>4, <1>7 DEF d

\* What becomes of the requests, and of the channels of their answers.
LEMMA RequestStep ==
    ASSUME TypeOK, Unanswered, NEW r \in Requests,
           \/ \E c \in Conns, p \in Paths : DispatchRequest(c, r, p)
           \/ HandlerReplies(r)
           \/ StaysSilent(r)
    PROVE  /\ conn' \in [Conns -> Conn] /\ req' \in [Requests -> Req] /\ Unanswered'
           /\ UNCHANGED <<manager, closed, loop, got, handlers>>
           /\ \A d \in Conns : conn'[d].send = conn[d].send /\ conn'[d].recv = conn[d].recv
<1>0. /\ conn \in [Conns -> Conn] /\ req \in [Requests -> Req] /\ req[r] \in Req
    BY DEF TypeOK
<1>a. ASSUME req[r].at \in {"server", "handler"}
      PROVE  /\ Drop(req[r]) \in Req /\ Drop(req[r]).answers = 1
             /\ Drop(Send(req[r])) \in Req /\ Drop(Send(req[r])).answers = 1
             /\ Drop(ForceUnanswered(req[r])) \in Req
             /\ Drop(ForceUnanswered(req[r])).answers = 0
             /\ req[r].answers = 0 /\ ~req[r].sent
    BY <1>0, <1>a, ResponderType DEF Unanswered
<1>b. ASSUME NEW c \in Conns, NEW q, NEW at \in {"over", "silent"},
             Drop(q) \in Req, Drop(q).answers \in {0, 1},
             at = "silent" => Drop(q).answers = 0,
             Consumed(c, r, q, at)
      PROVE  /\ conn' \in [Conns -> Conn] /\ req' \in [Requests -> Req] /\ Unanswered'
             /\ \A d \in Conns : conn'[d].send = conn[d].send /\ conn'[d].recv = conn[d].recv
  <2>1. /\ conn' \in [Conns -> Conn] /\ req' \in [Requests -> Req]
        /\ \A d \in Conns : conn'[d].send = conn[d].send /\ conn'[d].recv = conn[d].recv
        /\ req'[r].at = at /\ req'[r].answers = Drop(q).answers
        /\ \A s \in Requests \ {r} : req'[s] = req[s]
    BY <1>0, <1>b, ConsumedStep
  <2> QED BY <1>b, <2>1 DEF Unanswered
<1>c. ASSUME NEW q \in Req, req' = [req EXCEPT ![r] = q],
             q.answers = 0 /\ ~q.sent, q.at = "handler" => q.on \in Conns
      PROVE  req' \in [Requests -> Req] /\ Unanswered'
    BY <1>0, <1>c DEF Unanswered
<1>1. ASSUME NEW c \in Conns, NEW p \in Paths, DispatchRequest(c, r, p)
      PROVE  /\ conn' \in [Conns -> Conn] /\ req' \in [Requests -> Req] /\ Unanswered'
             /\ UNCHANGED <<manager, closed, loop, got, handlers>>
             /\ \A d \in Conns : conn'[d].send = conn[d].send /\ conn'[d].recv = conn[d].recv
  <2>0. req[r].at = "server" /\ UNCHANGED <<manager, closed, loop, got, handlers>>
    BY <1>1 DEF DispatchRequest
  <2>1. ASSUME NEW at \in {"handler", "over"}, UNCHANGED conn,
               req' = [req EXCEPT ![r].at = at, ![r].on = c]
        PROVE  req' \in [Requests -> Req] /\ Unanswered'
    <3> DEFINE q1 == [req[r] EXCEPT !.at = at]
               q == [q1 EXCEPT !.on = c]
    <3>1. q1 \in Req /\ q1.answers = 0 /\ ~q1.sent
      BY <1>0, <1>a, <2>0 DEF Req
    <3>2. req' = [req EXCEPT ![r] = q]
      BY <2>1
    <3> HIDE DEF q1
    <3>3. q \in Req /\ q.answers = 0 /\ ~q.sent /\ q.on = c
      BY <3>1 DEF Req
    <3> HIDE DEF q
    <3> QED BY <1>c, <3>2, <3>3
  <2>2. CASE Consumed(c, r, req[r], "over")
    BY <1>a, <1>b, <2>0, <2>2
  <2> QED BY <1>0, <1>1, <2>0, <2>1, <2>2 DEF DispatchRequest
<1>2. CASE HandlerReplies(r)
  <2>1. /\ req[r].at = "handler" /\ req[r].on \in Conns
        /\ Consumed(req[r].on, r, Send(req[r]), "over")
        /\ UNCHANGED <<manager, closed, loop, got, handlers>>
    BY <1>2 DEF HandlerReplies, Unanswered
  <2> QED BY <1>a, <1>b, <2>1
<1>3. CASE StaysSilent(r)
  <2>1. /\ req[r].at = "handler" /\ req[r].on \in Conns
        /\ Consumed(req[r].on, r, ForceUnanswered(req[r]), "silent")
        /\ UNCHANGED <<manager, closed, loop, got, handlers>>
    BY <1>3 DEF StaysSilent, Unanswered
  <2> QED BY <1>a, <1>b, <2>1
<1> QED BY <1>1, <1>2, <1>3

\* Every step of the dealer keeps the types and which requests are unanswered.
LEMMA TypeStep == TypeOK /\ Unanswered /\ [Next]_vars => TypeOK' /\ Unanswered'
<1> SUFFICES ASSUME TypeOK, Unanswered, [Next]_vars PROVE TypeOK' /\ Unanswered'
    OBVIOUS
<1>0. /\ conn \in [Conns -> Conn] /\ loop.cur \in Conns \cup {0}
      /\ loop \in [pc: {"none", "launch", "select", "url", "connect", "sleep", "join", "over"},
                   cur: Conns \cup {0}]
    BY DEF TypeOK
<1>1. ASSUME NEW c \in Conns,
             Sender(c) \/ Receiver(c) \/ Pong(c) \/ Abort(c) \/ LinkFails(c)
      PROVE  TypeOK' /\ Unanswered'
    BY <1>1, ConnStep DEF TypeOK, Unanswered
<1>2. ASSUME NEW r \in Requests,
             \/ \E c \in Conns, p \in Paths : DispatchRequest(c, r, p)
             \/ HandlerReplies(r) \/ StaysSilent(r)
      PROVE  TypeOK' /\ Unanswered'
    BY <1>2, RequestStep DEF TypeOK
<1>3. ASSUME NEW p \in Paths, AddHandler(p) \/ RemoveHandler(p)
      PROVE  TypeOK' /\ Unanswered'
    BY <1>3 DEF AddHandler, RemoveHandler, TypeOK, Unanswered
<1>4. CASE TaskEnds \/ HearsClose \/ UrlFound \/ ConnectFails \/ SleepEnds \/ Joined
           \/ CloseReturns \/ LaunchFails \/ Start
    BY <1>4 DEF TaskEnds, HearsClose, UrlFound, ConnectFails, SleepEnds, Joined, CloseReturns,
                LaunchFails, Start, Top, TypeOK, Unanswered
<1>5. CASE UrlFails
    BY <1>0, <1>5, DropTasksType DEF UrlFails, TypeOK, Unanswered
<1>6. CASE Reconnected
  <2>1. DropTasks(conn, loop.cur) \in [Conns -> Conn]
    BY <1>0, DropTasksType
  <2>2. conn' \in [Conns -> Conn]
    BY <1>6, <2>1, OpenedType DEF Reconnected
  <2> QED BY <1>6, <2>2 DEF Reconnected, TypeOK, Unanswered
<1>7. CASE Launched
    BY <1>0, <1>7, OpenedType DEF Launched, TypeOK, Unanswered
<1>8. CASE Close
  <2>1. closed' \in BOOLEAN
    BY <1>8, Zenon DEF Close
  <2> QED BY <1>8, <2>1 DEF Close, TypeOK, Unanswered
<1>9. CASE UNCHANGED vars
    BY <1>9 DEF vars, TypeOK, Unanswered
<1> QED BY <1>1, <1>2, <1>3, <1>4, <1>5, <1>6, <1>7, <1>8, <1>9 DEF Next, RunSteps

\* The types hold in every behaviour of the dealer.
LEMMA TypeInv == Spec => [](TypeOK /\ Unanswered)
<1>1. Init => TypeOK /\ Unanswered
    BY TypeInit DEF Init, Unanswered
<1> QED BY <1>1, TypeStep, PTL DEF Spec

\* Every variable keeps its type.
THEOREM TypeCorrect == Spec => []TypeOK
BY TypeInv, PTL

\* No request is answered twice, and none that is to stay unanswered is answered,
\* though every Responder is dropped in the end and may answer then.
THEOREM NeverTwice == Spec => []AnsweredOnce
<1>1. TypeOK /\ Unanswered => AnsweredOnce
    BY DEF Unanswered, AnsweredOnce
<1> QED BY <1>1, TypeInv, PTL

-----------------------------------------------------------------------------
\* A dealer that was not launched has no connection, after every step.
LEMMA UnlaunchedStep == TypeOK /\ Unlaunched /\ [Next]_vars => Unlaunched'
<1> SUFFICES ASSUME TypeOK, Unlaunched, [Next]_vars PROVE Unlaunched'
    OBVIOUS
<1>0. loop \in [pc: {"none", "launch", "select", "url", "connect", "sleep", "join", "over"},
                cur: Conns \cup {0}]
    BY DEF TypeOK
<1>1. CASE UNCHANGED <<manager, loop>>
    BY <1>1 DEF Unlaunched
<1>2. ASSUME NEW c \in Conns,
             Sender(c) \/ Receiver(c) \/ Pong(c) \/ Abort(c) \/ LinkFails(c)
      PROVE  Unlaunched'
    BY <1>1, <1>2, ConnStep
<1>3. ASSUME NEW c \in Conns, NEW r \in Requests, NEW p \in Paths, DispatchRequest(c, r, p)
      PROVE  Unlaunched'
    BY <1>1, <1>3 DEF DispatchRequest
<1>4. ASSUME NEW r \in Requests, HandlerReplies(r) \/ StaysSilent(r) PROVE Unlaunched'
    BY <1>1, <1>4 DEF HandlerReplies, StaysSilent
<1>5. ASSUME NEW p \in Paths, AddHandler(p) \/ RemoveHandler(p) PROVE Unlaunched'
    BY <1>1, <1>5 DEF AddHandler, RemoveHandler
<1>6. CASE RunSteps \/ Start \/ Close
    BY <1>0, <1>6 DEF RunSteps, TaskEnds, HearsClose, UrlFound, UrlFails, Reconnected, ConnectFails,
                      SleepEnds, Joined, CloseReturns, Launched, LaunchFails, Start, Close,
                      Unlaunched
<1>7. CASE UNCHANGED vars
    BY <1>1, <1>7 DEF vars
<1> QED BY <1>2, <1>3, <1>4, <1>5, <1>6, <1>7 DEF Next

\* One step per action that gives, drops or ends a task.
LEMMA TasksStep == TypeOK /\ Unanswered /\ Unlaunched /\ TasksHeld /\ [Next]_vars => TasksHeld'
<1> SUFFICES ASSUME TypeOK, Unanswered, Unlaunched, TasksHeld, [Next]_vars PROVE TasksHeld'
    OBVIOUS
<1> USE DEF TasksHeld, HeldOrTimed
<1>0. /\ conn \in [Conns -> Conn] /\ 0 \notin Conns
      /\ loop \in [pc: {"none", "launch", "select", "url", "connect", "sleep", "join", "over"},
                   cur: Conns \cup {0}]
    BY DealerAssumption, 0 \notin 1..Cardinality(Conns) DEF TypeOK
<1>1. ASSUME loop'.cur = loop.cur,
             \A d \in Conns : conn'[d].send \in {conn[d].send, "ended"}
                              /\ conn'[d].recv \in {conn[d].recv, "ended"}
      PROVE  TasksHeld'
    BY <1>1
<1>2. ASSUME NEW c \in Conns,
             Sender(c) \/ Receiver(c) \/ Pong(c) \/ Abort(c) \/ LinkFails(c)
      PROVE  TasksHeld'
    BY <1>1, <1>2, ConnStep
<1>3. ASSUME NEW r \in Requests,
             \/ \E c \in Conns, p \in Paths : DispatchRequest(c, r, p)
             \/ HandlerReplies(r) \/ StaysSilent(r)
      PROVE  TasksHeld'
    BY <1>1, <1>3, RequestStep
<1>4. ASSUME NEW p \in Paths, AddHandler(p) \/ RemoveHandler(p) PROVE TasksHeld'
    BY <1>1, <1>4 DEF AddHandler, RemoveHandler
<1>5. CASE TaskEnds \/ HearsClose \/ UrlFound \/ ConnectFails \/ SleepEnds
           \/ CloseReturns \/ LaunchFails \/ Start \/ Close \/ UNCHANGED vars
    BY <1>0, <1>1, <1>5 DEF TaskEnds, HearsClose, UrlFound, ConnectFails, SleepEnds,
                            CloseReturns, LaunchFails, Start, Close, vars
<1>6. CASE Joined
    BY <1>0, <1>6 DEF Joined, Runs
<1>7. CASE UrlFails
  <2>1. loop'.cur = 0 /\ conn' = DropTasks(conn, loop.cur)
    BY <1>7 DEF UrlFails
  <2> QED BY <1>0, <2>1, DropTasksType DEF Dropped
<1>8. CASE Launched
  <2>1. loop.cur = 0 /\ NextConn \in Conns /\ conn' = Opened(conn, NextConn) /\ loop'.cur = NextConn
    BY <1>8 DEF Launched, Unlaunched
  <2> QED BY <1>0, <2>1, OpenedType
<1>9. CASE Reconnected
  <2> DEFINE k == DropTasks(conn, loop.cur)
  <2>1. NextConn \in Conns /\ conn' = Opened(k, NextConn) /\ loop'.cur = NextConn
    BY <1>9 DEF Reconnected
  <2>2. /\ k \in [Conns -> Conn]
        /\ \A d \in Conns : k[d].send \in {"timer", "ended"} /\ k[d].recv \in {"timer", "ended"}
    <3>1. /\ k \in [Conns -> Conn]
          /\ \A d \in Conns :
                /\ k[d].send = IF d = loop.cur THEN Dropped(conn[d].send) ELSE conn[d].send
                /\ k[d].recv = IF d = loop.cur THEN Dropped(conn[d].recv) ELSE conn[d].recv
      BY <1>0, DropTasksType
    <3> HIDE DEF k
    <3> QED BY <3>1 DEF Dropped
  <2> HIDE DEF k
  <2> QED BY <2>1, <2>2, OpenedType
<1> QED BY <1>2, <1>3, <1>4, <1>5, <1>6, <1>7, <1>8, <1>9 DEF Next, RunSteps

\* Whatever ends a connection, a task of it that still runs is held by run or
\* has the timer that aborts it.
THEOREM NoneLeftBehind == Spec => []NoTaskIsLost
<1>1. Init => Unlaunched /\ TasksHeld
    BY DEF Init, Unlaunched, TasksHeld, HeldOrTimed, NoConn
<1>2. TasksHeld => NoTaskIsLost
    BY DEF TasksHeld, HeldOrTimed, NoTaskIsLost, Runs
<1> QED BY <1>1, <1>2, UnlaunchedStep, TasksStep, TypeInv, PTL DEF Spec

-----------------------------------------------------------------------------
(* Web: the calls over HTTPS.                                                  *)

Places == {"idle"} \cup Waiting \cup Going

\* An endpoint that has an address keeps one in w.
KeepsAddresses(w) ==
    \A e \in Endpoints : FallbackFits /\ w.aps[e] = 0 => shared.aps[e] = 0

\* A step of k that leaves w and goes on as c is good: k does not set out to take
\* where there is nothing, takes nothing from others, and no missing client token
\* stops it.
Good(k, w, c) ==
    /\ w \in Shared /\ c \in Caller
    /\ KeepsAddresses(w)
    /\ FallbackFits /\ c.pc = "take" => w.aps[Endpoint(c)] # 0
    /\ caller[k].pc \in Solving /\ caller[k].need = "send" => c.pc \in Solving \cup {"post"}

GoodMove(k) == \E w, c : Good(k, w, c) /\ Moves(k, w, c)

\* A caller that waits for nothing.
LEMMA FreeType ==
    /\ Free \in Caller /\ Free.pc = "idle"
    /\ 0 \in 0..MaxTries /\ 1 \in 0..MaxTries
    /\ 0 \in 0..(Counts - 1) /\ 0 \in 0..LoginTries /\ 1 \in 0..LoginTries
<1>1. MaxTries \in Nat \ {0} /\ LoginTries \in Nat \ {0} /\ TokenTries \in Nat \ {0}
  BY WebAssumption
<1>2. Counts \in Nat \ {0}
  BY <1>1, WebAssumption
<1>3. /\ 0 \in 0..MaxTries /\ 1 \in 0..MaxTries
      /\ 0 \in 0..(Counts - 1) /\ 0 \in 0..LoginTries /\ 1 \in 0..LoginTries
  BY <1>1, <1>2
<1> QED BY <1>3 DEF Free, Caller, Goals

Begun(goal, pc, tries) == [Free EXCEPT !.goal = goal, !.pc = pc, !.tries = tries]

\* A caller that has just begun.
LEMMA BegunType ==
    ASSUME NEW goal \in Goals, NEW pc \in Places, NEW tries \in 0..MaxTries
    PROVE  Begun(goal, pc, tries) \in Caller /\ Begun(goal, pc, tries).pc = pc
<1> DEFINE a == [Free EXCEPT !.goal = goal]
           b == [a EXCEPT !.pc = pc]
           c == [b EXCEPT !.tries = tries]
<1>1. a \in Caller
  BY FreeType DEF Caller
<1> HIDE DEF a
<1>2. b \in Caller /\ b.pc = pc
  BY <1>1 DEF Caller, Places
<1> HIDE DEF b
<1>3. c \in Caller /\ c.pc = pc
  BY <1>2 DEF Caller
<1>4. Begun(goal, pc, tries) = c
  BY DEF Begun, a, b
<1> QED BY <1>3, <1>4

\* A caller that only goes to another place.
LEMMA AtType ==
    ASSUME WebTypeOK, NEW k \in Callers, NEW pc \in Places
    PROVE  /\ At(k, pc) \in Caller /\ At(k, pc).pc = pc
           /\ Endpoint(At(k, pc)) = Endpoint(caller[k])
           /\ At(k, pc).need = caller[k].need /\ At(k, pc).count = caller[k].count
BY DEF WebTypeOK, At, Caller, Places, Endpoint

\* A caller's endpoint is one of the resolver's.
LEMMA EndpointType ==
    ASSUME NEW c
    PROVE  Endpoint(c) \in Endpoints
BY DEF Endpoint, Endpoints

\* What is shared, after a request, or with a token or an address kept.
LEMMA SharedTypes ==
    ASSUME shared \in Shared
    PROVE  /\ CheckKey => Used \in Shared /\ Used.aps = shared.aps
           /\ [shared EXCEPT !.client = TRUE] \in Shared
           /\ [shared EXCEPT !.client = TRUE].aps = shared.aps
           /\ [shared EXCEPT !.auth = TRUE] \in Shared
           /\ [shared EXCEPT !.auth = TRUE].aps = shared.aps
           /\ [shared EXCEPT !.ap = TRUE] \in Shared
           /\ [shared EXCEPT !.ap = TRUE].aps = shared.aps
<1>1. CheckKey => shared.quota - 1 \in 0..Burst
  BY WebAssumption DEF CheckKey, Shared
<1>2. CheckKey => Used \in Shared /\ Used.aps = shared.aps
  BY <1>1 DEF Used, Shared
<1> QED BY <1>2 DEF Shared

\* A step that goes nowhere near the addresses is good.
LEMMA PlainlyGood ==
    ASSUME NEW k, NEW w \in Shared, NEW c \in Caller, w.aps = shared.aps,
           c.pc # "take",
           caller[k].pc \in Solving /\ caller[k].need = "send" => c.pc \in Solving \cup {"post"},
           Moves(k, w, c)
    PROVE  GoodMove(k)
BY DEF Good, GoodMove, KeepsAddresses

\* What the resolver stores has an address for every endpoint when the fallbacks
\* fit the port.
LEMMA StoreType ==
    ASSUME shared \in Shared, NEW found \in [Endpoints -> 0..MaxAddresses]
    PROVE  /\ Store(found) \in Shared
           /\ \A e \in Endpoints : FallbackFits => Store(found).aps[e] # 0
<1> DEFINE aps == IF \E e \in Endpoints : found[e] = 0
                  THEN [e \in Endpoints |-> found[e] + (IF FallbackFits THEN 1 ELSE 0)]
                  ELSE found
<1>1. aps \in [Endpoints -> 0..(MaxAddresses + 1)]
  BY WebAssumption
<1>2. FallbackFits => \A e \in Endpoints : aps[e] # 0
  OBVIOUS
<1>3. Store(found) = [shared EXCEPT !.aps = aps]
  BY DEF Store
<1> HIDE DEF aps
<1> QED BY <1>1, <1>2, <1>3 DEF Shared

-----------------------------------------------------------------------------
(* The steps of a caller.                                                      *)

\* A call begins.
LEMMA CallGood ==
    ASSUME WebTypeOK, NEW k \in Callers, Call(k)
    PROVE  GoodMove(k)
<1>1. ASSUME NEW goal \in Goals, NEW pc \in {"address", "look", "post"}, NEW tries \in {0, 1},
             Begins(k, goal, pc, tries)
      PROVE  GoodMove(k)
  <2> DEFINE c == Begun(goal, pc, tries)
  <2>1. tries \in 0..MaxTries /\ pc \in Places
    BY FreeType DEF Places, Going
  <2>2. c \in Caller /\ c.pc = pc
    BY <2>1, BegunType
  <2>3. caller[k].pc = "idle" /\ Moves(k, shared, c)
    BY <1>1, Zenon DEF Begins, Begun
  <2> HIDE DEF c
  <2>4. shared \in Shared /\ caller[k].pc \notin Solving /\ c.pc # "take"
    BY <2>2, <2>3 DEF WebTypeOK, Solving
  <2> QED BY <2>2, <2>3, <2>4, PlainlyGood
<1> QED BY <1>1 DEF Call, CallPlain, CallDirect, GetUrl, ResolveAp, Goals

\* The resolver: a caller sets out to take where it has seen, or stored, an address.
LEMMA ResolverGood ==
    ASSUME WebTypeOK, NEW k \in Callers,
           \/ GetAccesspoint(k) \/ Resolve(k) \/ AskResolver(k) \/ ApResolved(k) \/ Keep(k)
    PROVE  GoodMove(k)
<1>0. shared \in Shared /\ caller[k] \in Caller
  BY DEF WebTypeOK
<1>1. CASE GetAccesspoint(k)
  <2>1. \A pc \in {"auth", "look"} : At(k, pc) \in Caller /\ At(k, pc).pc = pc
    BY AtType DEF Places, Going
  <2>2. PICK pc \in {"auth", "look"} : Moves(k, shared, At(k, pc)) /\ caller[k].pc = "address"
    BY <1>1 DEF GetAccesspoint, GoesTo
  <2> QED BY <1>0, <2>1, <2>2, PlainlyGood DEF Solving
<1>2. CASE Resolve(k) /\ IsAnyEmpty
  <2>1. At(k, "resolve") \in Caller /\ At(k, "resolve").pc = "resolve"
    BY AtType DEF Places, Going
  <2>2. Moves(k, shared, At(k, "resolve")) /\ caller[k].pc = "look"
    BY <1>2 DEF Resolve, GoesTo
  <2> QED BY <1>0, <2>1, <2>2, PlainlyGood DEF Solving
<1>3. CASE Resolve(k) /\ ~IsAnyEmpty
  <2>1. At(k, "take") \in Caller /\ At(k, "take").pc = "take"
    BY AtType DEF Places, Going
  <2>2. Moves(k, shared, At(k, "take")) /\ caller[k].pc = "look"
    BY <1>3 DEF Resolve, GoesTo
  <2>3. shared.aps[Endpoint(At(k, "take"))] # 0
    BY <1>3, EndpointType DEF IsAnyEmpty
  <2> QED BY <1>0, <2>1, <2>2, <2>3 DEF Good, GoodMove, KeepsAddresses, Solving
<1>4. CASE AskResolver(k)
  <2>1. \A pc \in {"resolving", "unresolved"} : At(k, pc) \in Caller /\ At(k, pc).pc = pc
    BY AtType DEF Places, Going, Waiting
  <2>2. /\ caller[k].pc = "resolve"
        /\ \/ CheckKey /\ Moves(k, Used, At(k, "resolving"))
           \/ Moves(k, shared, At(k, "unresolved"))
    BY <1>4 DEF AskResolver, GoesTo
  <2> QED BY <1>0, <2>1, <2>2, SharedTypes, PlainlyGood DEF Solving
<1>5. CASE ApResolved(k)
  <2>1. PICK found \in [Endpoints -> 0..MaxAddresses] :
           Moves(k, Store(found), At(k, "take"))
    BY <1>5 DEF ApResolved
  <2>2. At(k, "take") \in Caller /\ At(k, "take").pc = "take"
    BY AtType DEF Places, Going
  <2>3. Store(found) \in Shared /\ \A e \in Endpoints : FallbackFits => Store(found).aps[e] # 0
    BY <1>0, StoreType
  <2>4. caller[k].pc \in {"resolving", "unresolved"}
    BY <1>5 DEF ApResolved
  <2> QED BY <2>1, <2>2, <2>3, <2>4, EndpointType DEF Good, GoodMove, KeepsAddresses, Solving
<1>6. CASE Keep(k)
  <2>1. At(k, "auth") \in Caller /\ At(k, "auth").pc = "auth"
    BY AtType DEF Places, Going
  <2>2. caller[k].pc = "keep" /\ Moves(k, [shared EXCEPT !.ap = TRUE], At(k, "auth"))
    BY <1>6 DEF Keep
  <2> QED BY <1>0, <2>1, <2>2, SharedTypes, PlainlyGood DEF Solving
<1> QED BY <1>1, <1>2, <1>3, <1>4, <1>5, <1>6

-----------------------------------------------------------------------------
(* The tokens and the request.                                                 *)

\* With an authorisation token a caller is done, or needs a client token.
LEMMA HaveAuthTokenType ==
    ASSUME NEW c \in Caller
    PROVE  HaveAuthToken(c) \in Caller /\ HaveAuthToken(c).pc \in {"idle", "token"}
<1> DEFINE a == [c EXCEPT !.pc = "token"]
           b == [a EXCEPT !.need = "send"]
           d == [b EXCEPT !.logins = 0]
<1>1. a \in Caller /\ a.pc = "token"
  BY DEF Caller, Going
<1> HIDE DEF a
<1>2. b \in Caller /\ b.pc = "token"
  BY <1>1 DEF Caller
<1> HIDE DEF b
<1>3. d \in Caller /\ d.pc = "token"
  BY <1>2, FreeType DEF Caller
<1>4. HaveAuthToken(c) = IF c.goal = "url" THEN Free ELSE d
  BY DEF HaveAuthToken, a, b
<1> HIDE DEF d
<1> QED BY <1>3, <1>4, FreeType

\* Without a client token a request is sent, and a login is not.
LEMMA NoClientTokenType ==
    ASSUME NEW c \in Caller
    PROVE  /\ NoClientToken(c) \in Caller /\ NoClientToken(c).pc \in {"idle", "post"}
           /\ c.need = "send" => NoClientToken(c).pc = "post"
<1> DEFINE a == [c EXCEPT !.pc = "post"]
           b == [a EXCEPT !.count = 0]
<1>1. a \in Caller /\ a.pc = "post"
  BY DEF Caller, Going
<1> HIDE DEF a
<1>2. b \in Caller /\ b.pc = "post"
  BY <1>1, FreeType DEF Caller
<1>3. NoClientToken(c) = IF c.need = "send" THEN b ELSE Free
  BY DEF NoClientToken, a
<1> HIDE DEF b
<1> QED BY <1>2, <1>3, FreeType

\* Counting a response changes nothing but the count, which wraps around.
LEMMA CountedType ==
    ASSUME NEW c \in Caller
    PROVE  /\ Counted(c) \in Caller
           /\ Counted(c).pc = c.pc /\ Counted(c).need = c.need
<1> DEFINE n == IF c.count + 1 = Counts THEN 0 ELSE c.count + 1
<1>1. n \in 0..(Counts - 1)
  BY FreeType, WebAssumption DEF Caller
<1>2. Counted(c) = [c EXCEPT !.count = n]
  BY DEF Counted
<1> HIDE DEF n
<1> QED BY <1>1, <1>2 DEF Caller

\* After a challenge that was not met a caller asks again, or goes on without.
LEMMA TryAgainType ==
    ASSUME NEW c \in Caller
    PROVE  /\ TryAgain(c) \in Caller /\ TryAgain(c).pc \in {"idle", "ask", "post"}
           /\ c.need = "send" => TryAgain(c).pc \in {"ask", "post"}
<1> DEFINE a == [c EXCEPT !.pc = "ask"]
<1>1. a \in Caller /\ a.pc = "ask"
  BY DEF Caller, Going
<1>2. TryAgain(c) = IF c.count < TokenTries THEN a ELSE NoClientToken(c)
  BY DEF TryAgain
<1> HIDE DEF a
<1> QED BY <1>1, <1>2, NoClientTokenType

\* The authorisation token and the login.
LEMMA AuthGood ==
    ASSUME WebTypeOK, NEW k \in Callers,
           AuthToken(k) \/ LoggedIn(k) \/ LoginAgain(k) \/ LoginFails(k)
    PROVE  GoodMove(k)
<1>0. /\ shared \in Shared /\ caller[k] \in Caller
      /\ caller[k].pc \in {"auth", "login"} /\ caller[k].pc \notin Solving
  BY DEF WebTypeOK, AuthToken, LoggedIn, LoginAgain, LoginFails, Solving
<1>1. ASSUME NEW w \in Shared, w.aps = shared.aps, NEW c \in Caller, c.pc # "take",
             Moves(k, w, c)
      PROVE  GoodMove(k)
  BY <1>0, <1>1, PlainlyGood
<1>2. HaveAuthToken(caller[k]) \in Caller /\ HaveAuthToken(caller[k]).pc # "take"
  BY <1>0, HaveAuthTokenType
<1>3. CASE Ends(k)
  BY <1>0, <1>1, <1>3, FreeType DEF Ends
<1> DEFINE a == At(k, "token")
<1>4. a \in Caller /\ a.pc = "token"
  BY AtType DEF Places, Going
<1>5. CASE AuthToken(k) /\ ~Ends(k)
  <2> DEFINE b == [a EXCEPT !.need = "login"]
             d == [b EXCEPT !.logins = 1]
  <2>1. b \in Caller /\ b.pc = "token"
    BY <1>4 DEF Caller
  <2> HIDE DEF b
  <2>2. d \in Caller /\ d.pc = "token"
    BY <2>1, FreeType DEF Caller
  <2>3. Moves(k, shared, IF shared.auth THEN HaveAuthToken(caller[k]) ELSE d)
    BY <1>5 DEF AuthToken, b
  <2> HIDE DEF d
  <2> QED BY <1>0, <1>1, <1>2, <2>2, <2>3
<1>6. CASE LoggedIn(k)
  <2>1. Moves(k, [shared EXCEPT !.auth = TRUE], HaveAuthToken(caller[k]))
    BY <1>6 DEF LoggedIn
  <2> QED BY <1>0, <1>1, <1>2, <2>1, SharedTypes
<1>7. CASE LoginAgain(k) /\ ~Ends(k)
  <2>1. a.logins = caller[k].logins /\ caller[k].logins \in 0..LoginTries
    BY <1>0 DEF At, Caller
  <2> DEFINE d == [a EXCEPT !.logins = @ + 1]
  <2>2. Moves(k, shared, d) /\ caller[k].logins < LoginTries
    BY <1>7 DEF LoginAgain
  <2> HIDE DEF a
  <2>3. a.logins + 1 \in 0..LoginTries
    BY <2>1, <2>2, WebAssumption
  <2>4. d \in Caller /\ d.pc = "token"
    BY <1>4, <2>3 DEF Caller
  <2> HIDE DEF d
  <2> QED BY <1>0, <1>1, <2>2, <2>4
<1> QED BY <1>3, <1>5, <1>6, <1>7 DEF LoginFails

\* The client token, with its challenges.
LEMMA ClientGood ==
    ASSUME WebTypeOK, NEW k \in Callers,
           \/ ClientToken(k) \/ ClientTokenRequest(k) \/ Granted(k) \/ Challenged(k)
           \/ Unsolved(k) \/ NotGranted(k) \/ AnswerChallenge(k) \/ AskAgain(k)
    PROVE  GoodMove(k)
<1> DEFINE c == caller[k]
<1>0. shared \in Shared /\ c \in Caller
  BY DEF WebTypeOK
<1>1. ASSUME NEW w \in Shared, w.aps = shared.aps, NEW d \in Caller, d.pc # "take",
             c.need = "send" => d.pc \in Solving \cup {"post"}, Moves(k, w, d)
      PROVE  GoodMove(k)
  BY <1>0, <1>1, PlainlyGood
<1>2. \A pc \in {"ask", "client", "solved", "answer", "post"} :
         At(k, pc) \in Caller /\ At(k, pc).pc = pc /\ At(k, pc).need = c.need
  BY AtType DEF Places, Going, Waiting
<1>3. CASE ClientToken(k)
  <2>1. \E pc \in {"ask", "post"} : Moves(k, shared, At(k, pc))
    BY <1>3 DEF ClientToken, GoesTo
  <2> QED BY <1>0, <1>1, <1>2, <2>1 DEF Solving
<1>a. CASE (ClientTokenRequest(k) \/ AnswerChallenge(k)) /\ CheckKey
  <2>1. \E pc \in {"client", "answer"} : Moves(k, Used, At(k, pc))
    BY <1>a DEF ClientTokenRequest, AnswerChallenge
  <2> QED BY <1>0, <1>1, <1>2, <1>a, <2>1, SharedTypes DEF Solving
<1>4. CASE Granted(k)
  <2> DEFINE a == At(k, "post")
             d == [a EXCEPT !.count = 0]
  <2>1. a \in Caller /\ a.pc = "post"
    BY <1>2
  <2>2. Moves(k, [shared EXCEPT !.client = TRUE], d)
    BY <1>4 DEF Granted
  <2> HIDE DEF a
  <2>3. d \in Caller /\ d.pc = "post"
    BY <2>1, FreeType DEF Caller
  <2> HIDE DEF d
  <2> QED BY <1>0, <1>1, <2>2, <2>3, SharedTypes
<1>5. CASE Challenged(k)
  <2> DEFINE d == Counted(At(k, "solved"))
  <2>1. d \in Caller /\ d.pc = "solved"
    BY <1>2, CountedType
  <2>2. Moves(k, shared, d)
    BY <1>5 DEF Challenged
  <2> HIDE DEF d
  <2> QED BY <1>0, <1>1, <2>1, <2>2 DEF Solving
<1>6. \A d \in Caller : d.need = c.need =>
         /\ TryAgain(d) \in Caller /\ TryAgain(d).pc # "take"
         /\ c.need = "send" => TryAgain(d).pc \in Solving \cup {"post"}
         /\ NoClientToken(d) \in Caller /\ NoClientToken(d).pc # "take"
         /\ c.need = "send" => NoClientToken(d).pc \in Solving \cup {"post"}
  BY TryAgainType, NoClientTokenType DEF Solving
<1>7. Counted(c) \in Caller /\ Counted(c).need = c.need
  BY <1>0, CountedType
<1>8. CASE Unsolved(k)
  <2>1. Moves(k, shared, TryAgain(Counted(c)))
    BY <1>8 DEF Unsolved
  <2> QED BY <1>0, <1>1, <1>6, <1>7, <2>1
<1>9. CASE \/ NotGranted(k) \/ AskAgain(k)
           \/ (ClientTokenRequest(k) \/ AnswerChallenge(k)) /\ ~CheckKey
  <2>1. Moves(k, shared, TryAgain(c)) \/ Moves(k, shared, NoClientToken(c))
    BY <1>9 DEF NotGranted, AskAgain, ClientTokenRequest, AnswerChallenge
  <2> QED BY <1>0, <1>1, <1>6, <2>1
<1> QED BY <1>3, <1>a, <1>4, <1>5, <1>8, <1>9

\* The request, its answer and its retries.
LEMMA RequestGood ==
    ASSUME WebTypeOK, NEW k \in Callers, Post(k) \/ Responded(k) \/ Failed(k)
    PROVE  GoodMove(k)
<1>0. /\ shared \in Shared /\ caller[k] \in Caller
      /\ caller[k].pc \in {"post", "sent"} /\ caller[k].pc \notin Solving
  BY DEF WebTypeOK, Post, Responded, Failed, Solving
<1>1. ASSUME NEW w \in Shared, w.aps = shared.aps, NEW c \in Caller, c.pc # "take",
             Moves(k, w, c)
      PROVE  GoodMove(k)
  BY <1>0, <1>1, PlainlyGood
<1>2. CASE Ends(k)
  BY <1>0, <1>1, <1>2, FreeType DEF Ends
<1>3. CASE Post(k) /\ ~Ends(k)
  <2>1. \A pc \in {"sent", "login"} : At(k, pc) \in Caller /\ At(k, pc).pc = pc
    BY AtType DEF Places, Waiting
  <2>2. PICK pc \in {"sent", "login"} : CheckKey /\ Moves(k, Used, At(k, pc))
    BY <1>3 DEF Post
  <2> QED BY <1>0, <1>1, <2>1, <2>2, SharedTypes
<1>4. CASE Failed(k) /\ ~Ends(k)
  <2> DEFINE w == [shared EXCEPT !.ap = @ /\ caller[k].tries % Trials # 0]
             a == At(k, "address")
             d == [a EXCEPT !.tries = @ + 1]
  <2>1. ~(caller[k].tries >= MaxTries) /\ Moves(k, w, d)
    BY <1>4 DEF Failed
  <2>2. a \in Caller /\ a.pc = "address" /\ a.tries = caller[k].tries
    BY <1>0, AtType DEF Places, Going, At, Caller
  <2>3. a.tries + 1 \in 0..MaxTries
    BY <1>0, <2>1, <2>2, WebAssumption DEF Caller
  <2> HIDE DEF a
  <2>4. d \in Caller /\ d.pc = "address"
    BY <2>2, <2>3 DEF Caller
  <2> HIDE DEF d
  <2>5. w \in Shared /\ w.aps = shared.aps
    <3> DEFINE kept == shared.ap /\ caller[k].tries % Trials # 0
    <3>1. kept \in BOOLEAN
      BY Zenon
    <3>2. w = [shared EXCEPT !.ap = kept]
      OBVIOUS
    <3> HIDE DEF kept
    <3> QED BY <1>0, <3>1, <3>2 DEF Shared
  <2> HIDE DEF w
  <2> QED BY <1>1, <2>1, <2>4, <2>5
<1> QED BY <1>2, <1>3, <1>4 DEF Responded

-----------------------------------------------------------------------------
(* The invariant of the calls.                                                 *)

\* What a good step does to the callers.
LEMMA GoodMoveKeeps ==
    ASSUME ResolverAnswers, NEW k \in Callers, GoodMove(k)
    PROVE  ResolverAnswers'
<1>1. PICK w, c : Good(k, w, c) /\ Moves(k, w, c)
  BY DEF GoodMove
<1>2. /\ shared' = w /\ w \in Shared /\ c \in Caller
      /\ caller' = [caller EXCEPT ![k] = c] /\ caller \in [Callers -> Caller]
  BY <1>1 DEF Good, Moves, ResolverAnswers, WebTypeOK
<1>3. WebTypeOK'
  BY <1>2 DEF WebTypeOK
<1>4. ASSUME FallbackFits, NEW j \in Callers,
             caller'[j].pc = "take", w.aps[Endpoint(caller'[j])] = 0
      PROVE  caller'[j].overtaken
  <2>1. CASE j = k
    BY <1>1, <1>2, <1>4, <2>1 DEF Good
  <2>2. CASE j # k
    <3>1. caller'[j] = caller[j]
      BY <1>2, <2>2
    <3>2. shared.aps[Endpoint(caller[j])] = 0
      BY <1>1, <1>4, <3>1, EndpointType DEF Good, KeepsAddresses
    <3> QED BY <1>4, <3>1, <3>2 DEF ResolverAnswers
  <2> QED BY <2>1, <2>2
<1> QED BY <1>2, <1>3, <1>4 DEF ResolverAnswers, Endpoint

\* Who takes the last address has overtaken all that are about to take it.
LEMMA TakeKeeps ==
    ASSUME ResolverAnswers, NEW k \in Callers, Take(k)
    PROVE  ResolverAnswers' /\ caller[k].pc \notin Solving
           /\ \A j \in Callers \ {k} : caller'[j].pc = caller[j].pc
<1> DEFINE c == caller[k]
           e == Endpoint(c)
           next == CASE c.goal = "plain" -> [c EXCEPT !.pc = "keep", !.overtaken = FALSE]
                     [] c.goal = "url" -> [c EXCEPT !.pc = "auth", !.overtaken = FALSE]
                     [] OTHER -> Free
<1>0. /\ shared \in Shared /\ c \in Caller /\ caller \in [Callers -> Caller]
      /\ e \in Endpoints /\ c.pc = "take"
  BY EndpointType DEF ResolverAnswers, WebTypeOK, Take
<1>1. CASE shared.aps[e] = 0
  <2>1. Moves(k, shared, Free)
    BY <1>1 DEF Take, Ends
  <2>2. Good(k, shared, Free)
    BY <1>0, FreeType DEF Good, KeepsAddresses, Solving
  <2>3. ResolverAnswers'
    BY <2>1, <2>2, GoodMoveKeeps DEF GoodMove
  <2> QED BY <1>0, <2>1, <2>3 DEF Moves, Solving
<1>2. CASE shared.aps[e] # 0
  <2>1. next \in Caller /\ next.pc # "take"
    <3> DEFINE a == [c EXCEPT !.overtaken = FALSE]
    <3>1. a \in Caller
      BY <1>0 DEF Caller
    <3> HIDE DEF a
    <3>2. \A pc \in {"keep", "auth"} : [a EXCEPT !.pc = pc] \in Caller /\ [a EXCEPT !.pc = pc].pc = pc
      BY <3>1 DEF Caller, Going
    <3>3. /\ [c EXCEPT !.pc = "keep", !.overtaken = FALSE] = [a EXCEPT !.pc = "keep"]
          /\ [c EXCEPT !.pc = "auth", !.overtaken = FALSE] = [a EXCEPT !.pc = "auth"]
      BY <1>0 DEF a, Caller
    <3> QED BY <3>2, <3>3, FreeType
  <2>2. /\ shared' = [shared EXCEPT !.aps[e] = @ - 1]
        /\ caller' = [j \in Callers |->
              IF j = k THEN next
              ELSE IF caller[j].pc = "take" /\ Endpoint(caller[j]) = e
                   THEN [caller[j] EXCEPT !.overtaken = TRUE] ELSE caller[j]]
    BY <1>2, Zenon DEF Take
  <2> HIDE DEF next, e
  <2>3. shared' \in Shared /\ \A f \in Endpoints \ {e} : shared'.aps[f] = shared.aps[f]
    <3>1. shared.aps[e] - 1 \in 0..(MaxAddresses + 1)
      BY <1>0, <1>2, WebAssumption DEF Shared
    <3> DEFINE aps == [shared.aps EXCEPT ![e] = @ - 1]
    <3>2. /\ aps \in [Endpoints -> 0..(MaxAddresses + 1)]
          /\ \A f \in Endpoints \ {e} : aps[f] = shared.aps[f]
      BY <1>0, <3>1 DEF Shared
    <3>3. shared' = [shared EXCEPT !.aps = aps]
      BY <2>2
    <3> HIDE DEF aps
    <3> QED BY <1>0, <3>2, <3>3 DEF Shared
  <2>4. ASSUME NEW j \in Callers
        PROVE  /\ caller'[j] \in Caller
               /\ j # k => /\ caller'[j].pc = caller[j].pc
                           /\ Endpoint(caller'[j]) = Endpoint(caller[j])
                           /\ caller[j].pc = "take" /\ Endpoint(caller[j]) = e
                              => caller'[j].overtaken
                           /\ caller[j].overtaken => caller'[j].overtaken
               /\ j = k => caller'[j] = next
    <3> DEFINE o == [caller[j] EXCEPT !.overtaken = TRUE]
    <3>1. o \in Caller /\ o.pc = caller[j].pc /\ o.overtaken /\ Endpoint(o) = Endpoint(caller[j])
      BY <1>0 DEF Caller, Endpoint
    <3>2. caller'[j] = IF j = k THEN next
                       ELSE IF caller[j].pc = "take" /\ Endpoint(caller[j]) = e
                            THEN o ELSE caller[j]
      BY <2>2
    <3> HIDE DEF o
    <3> QED BY <1>0, <2>1, <3>1, <3>2
  <2>5. WebTypeOK'
    <3>1. caller' \in [Callers -> Caller]
      BY <2>2, <2>4
    <3> QED BY <2>3, <3>1 DEF WebTypeOK
  <2>6. ASSUME FallbackFits, NEW j \in Callers,
               caller'[j].pc = "take", shared'.aps[Endpoint(caller'[j])] = 0
        PROVE  caller'[j].overtaken
    <3>1. j # k
      BY <2>1, <2>4, <2>6
    <3>2. CASE Endpoint(caller[j]) = e
      BY <2>4, <2>6, <3>1, <3>2
    <3>3. CASE Endpoint(caller[j]) # e
      <4>1. shared.aps[Endpoint(caller[j])] = 0 /\ caller[j].pc = "take"
        BY <2>3, <2>4, <2>6, <3>1, <3>3, EndpointType
      <4>2. caller[j].overtaken
        BY <2>6, <4>1 DEF ResolverAnswers
      <4> QED BY <2>4, <3>1, <4>2
    <3> QED BY <3>2, <3>3
  <2>7. ResolverAnswers'
    BY <2>5, <2>6 DEF ResolverAnswers, Endpoint
  <2> QED BY <1>0, <2>4, <2>7 DEF Solving
<1> QED BY <1>1, <1>2

\* Time keeps the invariant, and moves nobody.
LEMMA TimeKeeps ==
    ASSUME ResolverAnswers, Replenish \/ Expire \/ SignIn
    PROVE  ResolverAnswers' /\ caller' = caller
<1>0. shared \in Shared /\ caller \in [Callers -> Caller]
  BY DEF ResolverAnswers, WebTypeOK
<1>1. shared' \in Shared /\ shared'.aps = shared.aps /\ caller' = caller
  <2>1. CASE Replenish
    BY <1>0, <2>1, WebAssumption DEF Replenish, Shared
  <2>2. CASE Expire
    BY <1>0, <2>2 DEF Expire, Shared
  <2>3. CASE SignIn
    BY <1>0, <2>3 DEF SignIn, Shared
  <2> QED BY <2>1, <2>2, <2>3
<1> QED BY <1>0, <1>1 DEF ResolverAnswers, WebTypeOK, Endpoint

\* A step of a caller is good, or it takes an address.
LEMMA CallerMoves ==
    ASSUME WebTypeOK, NEW k \in Callers, Call(k) \/ Acts(k) \/ Hears(k)
    PROVE  GoodMove(k) \/ Take(k)
BY CallGood, ResolverGood, AuthGood, ClientGood, RequestGood DEF Acts, Hears

\* The invariant holds in every behaviour of the calls: with no port configured,
\* or 443, a caller is told that there is no address only when another has taken
\* the last one since it looked or fetched (apresolve.rs 126-152).
THEOREM AddressForAll == WebSpec => []ResolverAnswers
<1>1. WebInit => ResolverAnswers
  <2> SUFFICES ASSUME WebInit PROVE ResolverAnswers
    OBVIOUS
  <2>1. shared \in Shared
    BY WebAssumption DEF WebInit, Shared
  <2>2. caller \in [Callers -> Caller] /\ \A k \in Callers : caller[k] = Free
    BY FreeType DEF WebInit
  <2> QED BY <2>1, <2>2, FreeType DEF ResolverAnswers, WebTypeOK
<1>2. ResolverAnswers /\ [WebNext]_webVars => ResolverAnswers'
  <2> SUFFICES ASSUME ResolverAnswers, [WebNext]_webVars PROVE ResolverAnswers'
    OBVIOUS
  <2>1. CASE \E k \in Callers : Call(k) \/ Acts(k) \/ Hears(k)
    BY <2>1, CallerMoves, GoodMoveKeeps, TakeKeeps DEF ResolverAnswers
  <2>2. CASE UNCHANGED webVars
    BY <2>2 DEF webVars, ResolverAnswers, WebTypeOK, Endpoint
  <2> QED BY <2>1, <2>2, TimeKeeps DEF WebNext
<1> QED BY <1>1, <1>2, PTL DEF WebSpec

\* A server that gives no client token makes no call fail that has what it needs
\* to log in: it goes on to its request (spclient.rs 506-516).
THEOREM TokenTolerated == WebSpec => ClientTokenTolerated
<1> DEFINE GoesOn == \A k \in Callers :
               caller[k].pc \in Solving /\ caller[k].need = "send"
               => caller'[k].pc \in Solving \cup {"post"}
<1>1. ASSUME ResolverAnswers, [WebNext]_webVars PROVE GoesOn
  <2>0. WebTypeOK /\ caller \in [Callers -> Caller]
    BY <1>1 DEF ResolverAnswers, WebTypeOK
  <2>1. ASSUME NEW k \in Callers, Call(k) \/ Acts(k) \/ Hears(k)
        PROVE  GoesOn
    <3>1. CASE Take(k)
      BY <1>1, <3>1, TakeKeeps
    <3>2. CASE GoodMove(k)
      <4>1. PICK w, c : Good(k, w, c) /\ caller' = [caller EXCEPT ![k] = c]
        BY <3>2 DEF GoodMove, Moves
      <4>2. \A j \in Callers : caller'[j] = IF j = k THEN c ELSE caller[j]
        BY <2>0, <4>1
      <4> QED BY <4>1, <4>2 DEF Good
    <3> QED BY <2>0, <2>1, <3>1, <3>2, CallerMoves
  <2>2. CASE caller' = caller
    BY <2>2
  <2> QED BY <1>1, <2>1, <2>2, TimeKeeps DEF WebNext, webVars
<1> QED BY <1>1, AddressForAll, PTL DEF WebSpec, ClientTokenTolerated
=============================================================================

---------------------------- MODULE Connect_proofs ----------------------------
(***************************************************************************)
(* The device in the Connect network, for all values of the constants.     *)
(*                                                                         *)
(* The session (module CoreSession), for every number of calls, of access  *)
(* points and of packets under way: its state is well typed, a silent      *)
(* server does not keep it, nobody waits on a session that is shut down,   *)
(* and it implements SessionPromise.  The induction adds to the types what *)
(* each answer leans on: an entry for every call that is under way, none   *)
(* of them (and no subscription) once the session is closed, and a budget  *)
(* of silence that a timer and the elapsed time share.                     *)
(*                                                                         *)
(* The task (module Spirc), for every number of tracks, of volumes, of     *)
(* inputs and of failures: outside of crossings its status is what the     *)
(* player does or is about to do, and the server has been told of it.  The *)
(* induction says that the task believes what the commands under way will  *)
(* make of the player, that the events under way will say it again, and    *)
(* that all a command or a request can do to the belief is a few moves.    *)
(***************************************************************************)
EXTENDS CoreSession, Spirc, TLAPS

\* Access points are left to try, as long as connect goes on.
TriesLeft == attempt.at \in {"idle", "resolve", "dial", "auth"} => attempt.tries < MaxApTries

TypeInv == TypeOK /\ TriesLeft

\* What the silence of the server may last, from now on and so far.
Budget == quiet + left <= IF keep = "PendingPong" THEN PONG_DELAY ELSE PING_TIMEOUT

\* Every call under way that has no answer has its entry.
Entries == \A c \in Calls :
    (caller[c] \in {"asking", "waiting"} /\ answer[c] = "none") => c \in pending

\* The managers are empty once shutdown has been through them.
Emptied == session = "closed" => pending \cap Asks = {} /\ subs = {}

IInv == TypeInv /\ Budget /\ Entries /\ Emptied

USE DEF INITIAL_PING_TIMEOUT, PING_TIMEOUT, PONG_DELAY, PONG_ACK_TIMEOUT

\* The packet that is dispatched is one of the server's.
LEMMA HeadIsMessage ==
    ASSUME TypeOK, inbox # <<>>
    PROVE  /\ Head(inbox) \in Message /\ Tail(inbox) \in Seq(Message)
           /\ Head(inbox).kind = "Answer" =>
                 /\ Head(inbox).call \in Calls
                 /\ AnswerOf(Head(inbox).status) \in {"ok", "refused", "dropped"}
<1>1. inbox \in Seq(Message)
    BY DEF TypeOK
<1>2. Head(inbox) \in Message /\ Tail(inbox) \in Seq(Message)
    BY <1>1
<1>3. ASSUME NEW p \in Message, p.kind = "Answer"
      PROVE  p.call \in Calls /\ AnswerOf(p.status) \in {"ok", "refused", "dropped"}
    BY <1>3 DEF Message, AnswerOf
<1> QED BY <1>2, <1>3

Attempts == [at: {"idle", "resolve", "dial", "auth", "connected", "failed"},
             tries: 0..MaxApTries, retries: 0..MaxRetries,
             cred: {"token", "stored"}, login: {"first", "second"}]

\* A new dial, for whichever login, starts its count again.
LEMMA RedialType ==
    ASSUME attempt \in Attempts, NEW login \in {"first", "second"}, NEW at \in {"dial", "connected"},
           NEW tries \in 0..MaxApTries, NEW cred \in {"token", "stored"}
    PROVE  [attempt EXCEPT !.at = at, !.tries = tries, !.retries = 0, !.cred = cred,
                           !.login = login] \in Attempts
<1> DEFINE a1 == [attempt EXCEPT !.at = at]
           a2 == [a1 EXCEPT !.tries = tries]
           a3 == [a2 EXCEPT !.retries = 0]
           a4 == [a3 EXCEPT !.cred = cred]
<1>1. 0 \in 0..MaxRetries
    BY SessionAssumption
<1>2. a1 \in Attempts
    BY DEF Attempts
<1>3. a2 \in Attempts
    BY <1>2 DEF Attempts
<1>4. a3 \in Attempts
    BY <1>1, <1>3 DEF Attempts
<1>5. a4 \in Attempts
    BY <1>4 DEF Attempts
<1>6. [a4 EXCEPT !.login = login] \in Attempts
    BY <1>5 DEF Attempts
<1> QED BY <1>6

\* The next access point is one of those that are left, or connect has failed.
LEMMA AttemptType ==
    ASSUME TypeInv, attempt.at \in {"resolve", "dial", "auth"}, NEW refused \in BOOLEAN,
           attempt' = NextAccessPoint(refused)
    PROVE  attempt' \in Attempts /\ TriesLeft'
<1> USE DEF Attempts
<1>1. attempt.tries \in 0..MaxApTries /\ attempt.tries < MaxApTries
    BY DEF TypeInv, TypeOK, TriesLeft
<1>2. attempt.tries + 1 \in 0..MaxApTries
    BY <1>1, SessionAssumption
<1>3. CASE attempt.tries + 1 = MaxApTries \/ refused
  <2>1. attempt' = [attempt EXCEPT !.tries = attempt.tries + 1, !.at = "failed"]
    BY <1>3 DEF NextAccessPoint
  <2> QED BY <1>2, <2>1 DEF TypeInv, TypeOK, TriesLeft
<1>4. CASE ~(attempt.tries + 1 = MaxApTries \/ refused)
  <2>1. attempt' = [attempt EXCEPT !.tries = attempt.tries + 1, !.at = "resolve"]
    BY <1>4 DEF NextAccessPoint
  <2>2. attempt'.tries < MaxApTries
    BY <1>1, <1>4, <2>1, SessionAssumption DEF TypeInv, TypeOK
  <2> QED BY <1>2, <2>1, <2>2 DEF TypeInv, TypeOK, TriesLeft
<1> QED BY <1>3, <1>4

\* A session that has not connected has its types and all its access points.
LEMMA TypeInit == Init => TypeInv
<1> SUFFICES ASSUME Init PROVE TypeInv
    OBVIOUS
<1>1. attempt \in Attempts /\ TriesLeft
  <2>1. PICK cred \in {"token", "stored"}, login \in {"first", "second"}:
            attempt = [at |-> "idle", tries |-> 0, retries |-> 0, cred |-> cred, login |-> login]
    BY Zenon DEF Init
  <2> QED BY <2>1, SessionAssumption DEF Attempts, TriesLeft
<1>2. inbox \in Seq(Message) /\ outbox \in Seq(Calls \cup {"Pong"})
    BY DEF Init
<1> QED BY <1>1, <1>2 DEF Init, TypeInv, TypeOK, Attempts

\* Connecting and logging in keep the types and count no access point below zero.
LEMMA ConnectingType ==
    ASSUME TypeInv, Connecting PROVE TypeInv'
<1> USE SessionAssumption DEF TypeInv, alive, wire, reqs
<1>0. /\ attempt \in Attempts /\ attempt.tries \in 0..MaxApTries
      /\ attempt.cred \in {"token", "stored"} /\ 0 \in 0..MaxApTries
    BY DEF TypeOK, Attempts
<1>1. CASE StartConnect
    BY <1>1 DEF StartConnect, TypeOK, TriesLeft
<1>2. ASSUME NEW ok \in BOOLEAN, ResolveAccessPoint(ok) PROVE TypeInv'
  <2>1. CASE ok
    <3>1. attempt' = [attempt EXCEPT !.at = "dial", !.tries = attempt.tries, !.retries = 0,
                                     !.cred = attempt.cred, !.login = "first"]
      BY <1>2, <2>1 DEF ResolveAccessPoint, TypeOK
    <3>2. attempt' \in Attempts
      BY <1>0, <3>1, RedialType
    <3>3. attempt'.tries = attempt.tries
      BY <1>0, <3>1 DEF Attempts
    <3> QED BY <1>2, <3>2, <3>3 DEF ResolveAccessPoint, TypeOK, TriesLeft, Attempts
  <2>2. CASE ~ok
    BY <1>2, <2>2 DEF ResolveAccessPoint, TypeOK, TriesLeft
  <2> QED BY <2>1, <2>2
<1>3. ASSUME NEW ok \in BOOLEAN, Dial(ok) PROVE TypeInv'
  <2>0. UNCHANGED <<session, held, link, tasks, keep, left, quiet, inbox, outbox, asked,
                    pending, caller, answer, subs>>
    BY <1>3 DEF Dial
  <2>1. CASE ok
    <3>1. attempt' = [attempt EXCEPT !.at = "auth"]
      BY <1>3, <2>1 DEF Dial
    <3>2. attempt' \in Attempts /\ attempt'.tries = attempt.tries
      BY <3>1 DEF TypeOK, Attempts
    <3>3. TriesLeft'
      BY <1>0, <1>3, <3>2 DEF Dial, TriesLeft
    <3> QED BY <2>0, <3>2, <3>3 DEF TypeOK, Attempts
  <2>2. CASE ~ok /\ attempt.retries < MaxRetries
    <3>1. attempt' = [attempt EXCEPT !.retries = attempt.retries + 1]
      BY <1>3, <2>2 DEF Dial
    <3>2. attempt.retries + 1 \in 0..MaxRetries
      BY <1>0, <2>2 DEF Attempts
    <3>3. attempt' \in Attempts /\ attempt'.tries = attempt.tries
      BY <1>0, <3>1, <3>2 DEF Attempts
    <3>4. TriesLeft'
      BY <1>0, <1>3, <3>3 DEF Dial, TriesLeft
    <3> QED BY <2>0, <3>3, <3>4 DEF TypeOK, Attempts
  <2>3. CASE ~ok /\ ~(attempt.retries < MaxRetries)
    BY <1>3, <2>3, AttemptType DEF Attempts, Dial, TypeOK
  <2> QED BY <2>1, <2>2, <2>3
<1>4. CASE AuthElsewhere
    BY <1>4, AttemptType DEF Attempts, AuthElsewhere, TypeOK
<1>5. CASE AuthRefused
    BY <1>5, AttemptType DEF Attempts, AuthRefused, TypeOK
<1>6. CASE AuthAgain
  <2>1. attempt' = [attempt EXCEPT !.at = "dial", !.tries = attempt.tries, !.retries = 0,
                                   !.cred = attempt.cred, !.login = "second"]
    BY <1>6 DEF AuthAgain, TypeOK
  <2>2. attempt' \in Attempts
    BY <1>0, <2>1, RedialType
  <2>3. attempt'.tries = attempt.tries
    BY <1>0, <2>1 DEF Attempts
  <2>4. attempt'.at = "dial"
    BY <1>0, <2>1 DEF Attempts
  <2>5. TriesLeft'
    BY <1>0, <1>6, <2>3, <2>4 DEF AuthAgain, TriesLeft
  <2>6. UNCHANGED <<session, held, link, tasks, keep, left, quiet, inbox, outbox, asked,
                    pending, caller, answer, subs>>
    BY <1>6 DEF AuthAgain
  <2> QED BY <2>2, <2>5, <2>6 DEF TypeOK, Attempts
<1>7. CASE Welcome
  <2>1. attempt' = [attempt EXCEPT !.at = "connected", !.tries = 0, !.retries = 0,
                                   !.cred = "stored", !.login = "first"]
    BY <1>7 DEF Welcome, TypeOK
  <2>2. attempt' \in Attempts
    BY <1>0, <2>1, RedialType
  <2>3. attempt'.tries = 0
    BY <1>0, <2>1 DEF Attempts
  <2>4. attempt'.at = "connected"
    BY <1>0, <2>1 DEF Attempts
  <2>5. TriesLeft'
    BY <1>0, <1>7, <2>3, <2>4 DEF Welcome, TriesLeft
  <2>6. /\ UNCHANGED <<session, held, inbox, outbox, asked, pending, caller, answer, subs>>
        /\ link' = "up" /\ tasks' = [dispatch |-> "runs", send |-> "runs"]
        /\ keep' = "ExpectingPing" /\ left' = 1 /\ quiet' = 0
    BY <1>7 DEF Welcome
  <2> QED BY <2>2, <2>5, <2>6 DEF TypeOK, Attempts
<1> QED BY <1>1, <1>2, <1>3, <1>4, <1>5, <1>6, <1>7 DEF Connecting, Awaiting, Dialling

\* The callers of Mercury and of the audio keys keep the types.
LEMMA CallingType ==
    ASSUME TypeInv, Calling PROVE TypeInv'
<1> USE SessionAssumption DEF TypeInv, TypeOK, TriesLeft, alive, wire, Calls
<1>1. ASSUME NEW c \in Asks, Ask(c) PROVE TypeInv'
  <2>1. answer' \in [Calls -> {"none", "ok", "refused", "dropped"}]
    BY <1>1 DEF Ask
  <2>2. pending' \subseteq Calls
    BY <1>1 DEF Ask
  <2> QED BY <1>1, <2>1, <2>2 DEF Ask
<1>2. ASSUME NEW c \in Keys, AskKey(c) PROVE TypeInv'
    BY <1>2 DEF AskKey
<1>3. ASSUME NEW c \in Keys, KeyTimeout(c) PROVE TypeInv'
    BY <1>3 DEF KeyTimeout
<1>4. ASSUME NEW c \in Calls, SendRequest(c) PROVE TypeInv'
  <2>1. Append(outbox, c) \in Seq(Calls \cup {"Pong"})
    OBVIOUS
  <2>2. outbox' \in Seq(Calls \cup {"Pong"})
    BY <1>4, <2>1 DEF SendRequest
  <2>3. caller' \in [Calls -> {"idle", "asking", "waiting", "failed", "done"}]
    BY <1>4 DEF SendRequest
  <2> QED BY <1>4, <2>2, <2>3 DEF SendRequest
<1>5. ASSUME NEW c \in Calls, Answered(c) PROVE TypeInv'
    BY <1>5 DEF Answered
<1> QED BY <1>1, <1>2, <1>3, <1>4, <1>5 DEF Calling

\* The dispatcher, the sender and the timers keep the types.
LEMMA WorkingType ==
    ASSUME TypeInv, Working PROVE TypeInv'
<1> USE SessionAssumption DEF TypeInv, alive, wire, reqs, EndTask, Invalidate
<1>1. CASE ShutdownManagers
    BY <1>1 DEF ShutdownManagers, TypeOK, TriesLeft
<1>2. CASE Forward
  <2>1. Tail(outbox) \in Seq(Calls \cup {"Pong"})
    BY <1>2 DEF Forward, TypeOK
  <2> QED BY <1>2, <2>1 DEF Forward, TypeOK, TriesLeft
<1>3. CASE ForwardFails
    BY <1>3 DEF ForwardFails, TypeOK, TriesLeft
<1>4. CASE Dispatch
  <2> DEFINE p == Head(inbox)
  <2>1. /\ p \in Message /\ Tail(inbox) \in Seq(Message)
        /\ p.kind = "Answer" => /\ p.call \in Calls
                                /\ AnswerOf(p.status) \in {"ok", "refused", "dropped"}
    BY <1>4, HeadIsMessage DEF Dispatch
  <2> HIDE DEF p
  <2>2. /\ CASE p.kind = "Ping" -> ResetTimer("PendingPong", PONG_DELAY)
             [] p.kind = "PongAck" -> ResetTimer("ExpectingPing", PING_TIMEOUT)
             [] OTHER -> UNCHANGED alive
        /\ CASE p.kind = "Answer" -> Complete(p.call, AnswerOf(p.status))
             [] p.kind = "Part" -> Part(p.call)
             [] OTHER -> UNCHANGED <<pending, answer>>
        /\ subs' = IF p.kind = "Event" THEN subs \ p.gone ELSE subs
    BY <1>4 DEF Dispatch, p
  <2>3. /\ keep' \in {"ExpectingPing", "PendingPong", "ExpectingPongAck"}
        /\ left' \in 0..PING_TIMEOUT /\ quiet' \in Nat
    BY <2>2 DEF ResetTimer, TypeOK
  <2>4. /\ pending' \subseteq Calls
        /\ answer' \in [Calls -> {"none", "ok", "refused", "dropped"}]
    BY <2>1, <2>2 DEF Complete, Part, TypeOK
  <2>5. subs' \subseteq Subscribers
    BY <2>2 DEF TypeOK
  <2> QED BY <1>4, <2>1, <2>3, <2>4, <2>5 DEF Dispatch, TypeOK, TriesLeft
<1>5. CASE ConnectionClosed
    BY <1>5 DEF ConnectionClosed, TypeOK, TriesLeft
<1>6. CASE KeepAliveTimeout
    BY <1>6 DEF KeepAliveTimeout, TypeOK, TriesLeft
<1>7. CASE SendPong
  <2>1. Append(outbox, "Pong") \in Seq(Calls \cup {"Pong"})
    BY DEF TypeOK
  <2> QED BY <1>7, <2>1 DEF SendPong, TypeOK, TriesLeft
<1>8. CASE OrphansEnd
    BY <1>8 DEF OrphansEnd, TypeOK, TriesLeft
<1>9. CASE Tick
    BY <1>9 DEF Tick, TypeOK, TriesLeft
<1> QED BY <1>1, <1>2, <1>3, <1>4, <1>5, <1>6, <1>7, <1>8, <1>9 DEF Working

\* What the server may send is what the dispatcher can read.
LEMMA PacketsAreMessages == TypeOK => Packets \subseteq Message
BY DEF TypeOK, Packets, Message

\* Every step of the session keeps the types.
LEMMA TypeStep == TypeInv /\ [Next]_vars => TypeInv'
<1> SUFFICES ASSUME TypeInv, [Next]_vars PROVE TypeInv'
    OBVIOUS
<1> USE DEF TypeInv, alive, wire, reqs
<1>1. CASE MainShutsDown
    BY <1>1 DEF MainShutsDown, Invalidate, TypeOK, TriesLeft
<1>2. CASE Drop
  <2>1. held' \in BOOLEAN
    BY <1>2, Zenon DEF Drop
  <2>2. answer' \in [Calls -> {"none", "ok", "refused", "dropped"}]
    BY <1>2 DEF Drop, TypeOK
  <2> QED BY <1>2, <2>1, <2>2 DEF Drop, TypeOK, TriesLeft
<1>3. CASE ServerSends
  <2> PICK p \in Packets : inbox' = Append(inbox, p) /\ asked' \subseteq asked
    BY <1>3 DEF ServerSends
  <2>1. inbox' \in Seq(Message)
    BY PacketsAreMessages DEF TypeOK
  <2> QED BY <1>3, <2>1 DEF ServerSends, TypeOK, TriesLeft
<1>4. CASE LossNoticed
    BY <1>4 DEF LossNoticed, TypeOK, TriesLeft
<1>5. ASSUME NEW how \in {"closed", "broken", "lost"}, LinkFails(how) PROVE TypeInv'
    BY <1>5 DEF LinkFails, TypeOK, TriesLeft
<1>6. CASE UNCHANGED vars
    BY <1>6 DEF vars, TypeOK, TriesLeft
<1> QED BY <1>1, <1>2, <1>3, <1>4, <1>5, <1>6,
           ConnectingType, CallingType, WorkingType DEF Next

\* Every variable keeps its type, connect's counters theirs.
THEOREM TypeCorrect == Spec => []TypeOK
<1>1. TypeInv => TypeOK
    BY DEF TypeInv
<1> QED BY TypeInit, TypeStep, <1>1, PTL DEF Spec

-----------------------------------------------------------------------------
\* The time that has passed in silence and the time that the timer has left
\* share a budget: only Ping, PongAck and the Pong of the session renew it.
LEMMA BudgetStep == TypeOK /\ Budget /\ [Next]_vars => Budget'
<1> SUFFICES ASSUME TypeOK, Budget, [Next]_vars PROVE Budget'
    OBVIOUS
<1> USE DEF Budget, alive
<1>0. left \in Nat /\ quiet \in Nat /\ keep \in {"ExpectingPing", "PendingPong", "ExpectingPongAck"}
    BY DEF TypeOK
<1>1. CASE UNCHANGED alive
    BY <1>1
<1>2. CASE Welcome
    BY <1>2 DEF Welcome
<1>3. CASE Dispatch
    BY <1>3, <1>1 DEF Dispatch, ResetTimer
<1>4. CASE SendPong
    BY <1>0, <1>4 DEF SendPong
<1>5. CASE Tick
    BY <1>0, <1>5 DEF Tick
<1>6. CASE Connecting
    BY <1>1, <1>2, <1>6 DEF Connecting, Awaiting, Dialling, StartConnect, ResolveAccessPoint, Dial,
                            AuthElsewhere, AuthRefused, AuthAgain
<1>7. CASE Calling
    BY <1>1, <1>7 DEF Calling, Ask, AskKey, KeyTimeout, SendRequest, Answered
<1>8. CASE Working
    BY <1>1, <1>3, <1>4, <1>5, <1>8 DEF Working, ShutdownManagers, Forward, ForwardFails,
                                        ConnectionClosed, KeepAliveTimeout, OrphansEnd
<1>9. CASE MainShutsDown \/ Drop \/ ServerSends \/ LossNoticed
           \/ (\E how \in {"closed", "broken", "lost"}: LinkFails(how)) \/ UNCHANGED vars
    BY <1>1, <1>9 DEF MainShutsDown, Drop, ServerSends, LossNoticed, LinkFails, vars
<1> QED BY <1>6, <1>7, <1>8, <1>9 DEF Next

\* An answer, or the end of the session, is all that takes an entry away from a
\* call that is under way.
LEMMA EntriesStep == TypeInv /\ Entries /\ [Next]_vars => Entries'
<1> SUFFICES ASSUME TypeInv, Entries, [Next]_vars PROVE Entries'
    OBVIOUS
<1> USE DEF Entries, reqs, Calls
<1>0. /\ pending \subseteq Calls
      /\ caller \in [Calls -> {"idle", "asking", "waiting", "failed", "done"}]
      /\ answer \in [Calls -> {"none", "ok", "refused", "dropped"}]
    BY DEF TypeInv, TypeOK
<1>1. CASE UNCHANGED <<pending, caller, answer>>
    BY <1>1
<1>2. ASSUME NEW c \in Asks, Ask(c) PROVE Entries'
    BY <1>0, <1>2 DEF Ask
<1>3. ASSUME NEW c \in Keys, AskKey(c) PROVE Entries'
    BY <1>0, <1>3 DEF AskKey
<1>4. ASSUME NEW c \in Keys, KeyTimeout(c) PROVE Entries'
    BY <1>0, <1>4 DEF KeyTimeout
<1>5. ASSUME NEW c \in Calls, SendRequest(c) PROVE Entries'
    BY <1>0, <1>5 DEF SendRequest
<1>6. ASSUME NEW c \in Calls, Answered(c) PROVE Entries'
    BY <1>0, <1>6 DEF Answered
<1>7. CASE ShutdownManagers
    BY <1>0, <1>7 DEF ShutdownManagers
<1>8. CASE Drop
    BY <1>0, <1>8 DEF Drop
<1>9. CASE Dispatch
  <2> DEFINE p == Head(inbox)
  <2>1. CASE p.kind = "Answer"
    <3>1. p.call \in Calls /\ AnswerOf(p.status) \in {"ok", "refused", "dropped"}
      BY <1>9, <2>1, HeadIsMessage DEF Dispatch, TypeInv
    <3>2. Complete(p.call, AnswerOf(p.status)) /\ UNCHANGED caller
      BY <1>9, <2>1 DEF Dispatch
    <3> QED BY <1>0, <3>1, <3>2 DEF Complete
  <2>2. CASE p.kind # "Answer"
    BY <1>1, <1>9, <2>2 DEF Dispatch, Part
  <2> QED BY <2>1, <2>2
<1>10. CASE Connecting
    BY <1>1, <1>10 DEF Connecting, Awaiting, Dialling, StartConnect, ResolveAccessPoint, Dial,
                       AuthElsewhere, AuthRefused, AuthAgain, Welcome
<1>11. CASE Working
    BY <1>1, <1>7, <1>9, <1>11 DEF Working, Forward, ForwardFails, ConnectionClosed,
                                   KeepAliveTimeout, SendPong, OrphansEnd, Tick
<1>12. CASE MainShutsDown \/ ServerSends \/ LossNoticed
           \/ (\E how \in {"closed", "broken", "lost"}: LinkFails(how)) \/ UNCHANGED vars
    BY <1>1, <1>12 DEF MainShutsDown, ServerSends, LossNoticed, LinkFails, vars
<1> QED BY <1>2, <1>3, <1>4, <1>5, <1>6, <1>8, <1>10, <1>11, <1>12 DEF Next, Calling

\* Nothing enters the managers of Mercury after shutdown has been through them.
LEMMA EmptiedStep == TypeInv /\ Emptied /\ [Next]_vars => Emptied'
<1> SUFFICES ASSUME TypeInv, Emptied, [Next]_vars PROVE Emptied'
    OBVIOUS
<1> USE DEF Emptied, reqs, Invalidate
<1>0. session \in {"valid", "closing", "closed"}
    BY DEF TypeInv, TypeOK
<1>1. CASE UNCHANGED <<session, pending, subs>>
    BY <1>1
<1>2. CASE session' # "closed"
    BY <1>2
<1>3. ASSUME NEW c \in Asks, Ask(c) PROVE Emptied'
    BY <1>3 DEF Ask
<1>4. ASSUME NEW c \in Keys, AskKey(c) PROVE Emptied'
    BY <1>4, SessionAssumption DEF AskKey
<1>5. ASSUME NEW c \in Calls, Answered(c) PROVE Emptied'
    BY <1>5 DEF Answered
<1>6. CASE ShutdownManagers
    BY <1>6 DEF ShutdownManagers
<1>7. CASE Drop
    BY <1>7 DEF Drop
<1>8. CASE Dispatch
    BY <1>8 DEF Dispatch, Complete, Part
<1>9. CASE MainShutsDown
    BY <1>9 DEF MainShutsDown
<1>10. CASE ForwardFails
    BY <1>0, <1>10 DEF ForwardFails
<1>11. CASE ConnectionClosed
    BY <1>0, <1>11 DEF ConnectionClosed
<1>12. CASE KeepAliveTimeout
    BY <1>0, <1>12 DEF KeepAliveTimeout
<1>13. CASE Connecting
    BY <1>1, <1>13 DEF Connecting, Awaiting, Dialling, StartConnect, ResolveAccessPoint, Dial,
                       AuthElsewhere, AuthRefused, AuthAgain, Welcome
<1>14. CASE Working
    BY <1>1, <1>6, <1>8, <1>10, <1>11, <1>12, <1>14
       DEF Working, Forward, SendPong, OrphansEnd, Tick
<1>15. CASE Calling
    BY <1>1, <1>3, <1>4, <1>5, <1>15 DEF Calling, KeyTimeout, SendRequest
<1>16. CASE ServerSends \/ LossNoticed
           \/ (\E how \in {"closed", "broken", "lost"}: LinkFails(how)) \/ UNCHANGED vars
    BY <1>1, <1>16 DEF ServerSends, LossNoticed, LinkFails, vars
<1> QED BY <1>7, <1>9, <1>13, <1>14, <1>15, <1>16 DEF Next

\* The inductive invariant holds before the session connects.
LEMMA InvInit == Init => IInv
<1>1. Init => Budget /\ Entries /\ Emptied
    BY DEF Init, Budget, Entries, Emptied
<1> QED BY <1>1, TypeInit DEF IInv

\* Every step of the session keeps the inductive invariant.
LEMMA InvStep == IInv /\ [Next]_vars => IInv'
BY TypeStep, BudgetStep, EntriesStep, EmptiedStep DEF IInv, TypeInv

\* The inductive invariant holds in every behaviour of the session.
LEMMA Inductive == Spec => []IInv
BY InvInit, InvStep, PTL DEF Spec

\* Whatever packets come between, a session that is valid has heard a Ping or a
\* PongAck within 80 seconds.
THEOREM SilenceNotKept == Spec => []SilenceEnds
<1>1. IInv => SilenceEnds
    BY DEF IInv, TypeInv, TypeOK, Budget, SilenceEnds
<1> QED BY <1>1, Inductive, PTL

\* Whatever runs between the two halves of shutdown, no call of Mercury is left
\* waiting and no subscription stays open.
THEOREM NobodyLeftWaiting == Spec => []NobodyWaits
<1>1. IInv => NobodyWaits
    BY DEF IInv, Entries, Emptied, NobodyWaits, Calls
<1> QED BY <1>1, Inductive, PTL

-----------------------------------------------------------------------------
(* The refinement. What SessionPromise sees of a state:                        *)
Life == IF session = "closed" THEN "over"
        ELSE IF attempt.at = "connected" THEN "live" ELSE "fresh"

Call == [c \in Asks |-> IF caller[c] \in {"idle", "asking"} THEN "idle"
                        ELSE IF caller[c] = "waiting" /\ answer[c] = "none" THEN "waiting"
                        ELSE "ended"]

Seen == <<Life, Call>>

\* What a step of the promise may do to what is seen.
Promised ==
    \/ UNCHANGED Seen
    \/ Life = "fresh" /\ Life' = "live" /\ UNCHANGED Call
    \/ \E c \in Asks: /\ Call[c] = "idle" /\ Life # "over"
                      /\ Call' = [Call EXCEPT ![c] = "waiting"] /\ UNCHANGED Life
    \/ \E c \in Asks: /\ Call[c] # "ended"
                      /\ Call' = [Call EXCEPT ![c] = "ended"] /\ UNCHANGED Life
    \/ /\ Life # "over" /\ Life' = "over"
       /\ Call' = [c \in Asks |-> IF Call[c] = "waiting" THEN "ended" ELSE Call[c]]

\* What a step of the session shows outside is a step of the promise, or nothing.
LEMMA PromisedIsPromise == Promised => [Promise!Next]_(Promise!vars)
BY DEF Promised, Seen, Life, Call, Promise!Next, Promise!vars, Promise!GoLive, Promise!Wait,
       Promise!Finish, Promise!End

\* One call moves.
LEMMA OneCall ==
    ASSUME IInv, NEW c \in Asks, UNCHANGED <<session, attempt>>,
           \A d \in Asks \ {c}: caller'[d] = caller[d] /\ answer'[d] = answer[d],
           \/ Call'[c] = Call[c]
           \/ Call[c] = "idle" /\ Call'[c] = "waiting" /\ session # "closed"
           \/ Call[c] # "ended" /\ Call'[c] = "ended"
    PROVE  Promised
<1>1. UNCHANGED Life
    BY DEF Life
<1>2. \A d \in Asks \ {c}: Call'[d] = Call[d]
    BY DEF Call
<1>3. Call = [d \in Asks |-> Call[d]] /\ Call' = [d \in Asks |-> Call'[d]]
    BY DEF Call
<1>4. ASSUME NEW v, Call'[c] = v PROVE Call' = [Call EXCEPT ![c] = v]
    BY <1>2, <1>3, <1>4
<1>5. CASE Call'[c] = Call[c]
    BY <1>1, <1>2, <1>3, <1>5 DEF Promised, Seen
<1>6. CASE Call[c] = "idle" /\ Call'[c] = "waiting" /\ session # "closed"
    BY <1>1, <1>4, <1>6 DEF Promised, Life
<1>7. CASE Call[c] # "ended" /\ Call'[c] = "ended"
    BY <1>1, <1>4, <1>7 DEF Promised
<1> QED BY <1>5, <1>6, <1>7

\* From the invariant, every step of the session shows what was promised.
LEMMA StepPromised == IInv /\ [Next]_vars => Promised
<1> SUFFICES ASSUME IInv, [Next]_vars PROVE Promised
    OBVIOUS
<1> USE DEF reqs, Invalidate
<1>0. /\ session \in {"valid", "closing", "closed"} /\ Asks \subseteq Calls
      /\ caller \in [Calls -> {"idle", "asking", "waiting", "failed", "done"}]
      /\ answer \in [Calls -> {"none", "ok", "refused", "dropped"}]
    BY DEF IInv, TypeInv, TypeOK, Calls
<1>1. ASSUME UNCHANGED <<Life, caller>>, \A c \in Asks: answer'[c] = answer[c]
      PROVE  Promised
    BY <1>1 DEF Promised, Seen, Call
<1>2. ASSUME UNCHANGED <<attempt, caller, answer>>,
             (session' = "closed") <=> (session = "closed")
      PROVE  Promised
    BY <1>1, <1>2 DEF Life
<1>3. CASE Welcome
  <2>1. UNCHANGED Call /\ UNCHANGED session
    BY <1>3 DEF Welcome, Call
  <2>2. attempt.at = "auth" /\ attempt'.at = "connected"
    BY <1>3 DEF Welcome, IInv, TypeInv, TypeOK
  <2> QED BY <2>1, <2>2 DEF Promised, Life, Seen
<1>4. CASE Connecting /\ ~Welcome
  <2>1. UNCHANGED <<session, caller, answer>>
    BY <1>4 DEF Connecting, Awaiting, Dialling, StartConnect, ResolveAccessPoint, Dial, AuthElsewhere,
                AuthRefused, AuthAgain
  <2>2. attempt.at # "connected" /\ attempt'.at # "connected"
    BY <1>4 DEF Connecting, Awaiting, Dialling, StartConnect, ResolveAccessPoint, Dial, AuthElsewhere,
                AuthRefused, AuthAgain, NextAccessPoint, IInv, TypeInv, TypeOK
  <2> QED BY <1>1, <2>1, <2>2 DEF Life
<1>5. ASSUME NEW c \in Asks, Ask(c) PROVE Promised
  <2>1. Call'[c] = Call[c]
    BY <1>0, <1>5 DEF Ask, Call
  <2> QED BY <1>0, <1>5, <2>1, OneCall DEF Ask
<1>6. ASSUME NEW c \in Keys, AskKey(c) \/ KeyTimeout(c) PROVE Promised
  <2>1. \A d \in Asks: d # c
    BY SessionAssumption
  <2>2. UNCHANGED Call /\ UNCHANGED Life
    BY <1>0, <1>6, <2>1 DEF AskKey, KeyTimeout, Call, Life
  <2> QED BY <2>2 DEF Promised, Seen
<1>7. ASSUME NEW c \in Keys, SendRequest(c) \/ Answered(c) PROVE Promised
  <2>1. \A d \in Asks: d # c
    BY SessionAssumption
  <2>2. UNCHANGED Call /\ UNCHANGED Life
    BY <1>0, <1>7, <2>1 DEF SendRequest, Answered, Call, Life
  <2> QED BY <2>2 DEF Promised, Seen
<1>8. ASSUME NEW c \in Asks, SendRequest(c) PROVE Promised
  <2>1. session = "closed" => answer[c] # "none"
    BY <1>0, <1>8 DEF IInv, Entries, Emptied, SendRequest
  <2>2. \/ Call[c] = "idle" /\ Call'[c] = "waiting" /\ session # "closed"
        \/ Call[c] # "ended" /\ Call'[c] = "ended"
    BY <1>0, <1>8, <2>1 DEF SendRequest, Call
  <2> QED BY <1>0, <1>8, <2>2, OneCall DEF SendRequest
<1>9. ASSUME NEW c \in Asks, Answered(c) PROVE Promised
  <2>1. Call'[c] = Call[c]
    BY <1>0, <1>9 DEF Answered, Call
  <2> QED BY <1>0, <1>9, <2>1, OneCall DEF Answered
<1>10. CASE ShutdownManagers
  <2>1. Life # "over" /\ Life' = "over"
    BY <1>10 DEF ShutdownManagers, Life
  <2>2. \A c \in Asks: Call'[c] = IF Call[c] = "waiting" THEN "ended" ELSE Call[c]
    BY <1>0, <1>10 DEF ShutdownManagers, Call, IInv, Entries
  <2>3. Call' = [c \in Asks |-> Call'[c]]
    BY DEF Call
  <2> QED BY <2>1, <2>2, <2>3 DEF Promised
<1>11. CASE Drop
  <2>1. pending \cap Asks = {} /\ UNCHANGED <<session, attempt, caller>>
    BY <1>11 DEF Drop, IInv, Emptied
  <2> QED BY <1>0, <1>1, <1>11, <2>1 DEF Drop, Life
<1>12. CASE Dispatch
  <2> DEFINE p == Head(inbox)
  <2>0. UNCHANGED <<session, attempt, caller>>
    BY <1>12 DEF Dispatch
  <2>1. CASE p.kind = "Answer" /\ p.call \in pending
    <3>1. /\ p.call \in Calls /\ AnswerOf(p.status) \in {"ok", "refused", "dropped"}
      BY <1>12, <2>1, HeadIsMessage DEF Dispatch, IInv, TypeInv
    <3>2. answer' = [answer EXCEPT ![p.call] = AnswerOf(p.status)]
      BY <1>12, <2>1 DEF Dispatch, Complete
    <3> HIDE DEF p
    <3>3. CASE p.call \in Asks
      <4>1. Call'[p.call] = Call[p.call] \/ (Call[p.call] # "ended" /\ Call'[p.call] = "ended")
        BY <1>0, <2>0, <3>1, <3>2, <3>3 DEF Call
      <4> QED BY <1>0, <2>0, <3>2, <3>3, <4>1, OneCall
    <3>4. CASE p.call \notin Asks
      BY <1>0, <1>1, <2>0, <3>2, <3>4 DEF Life
    <3> QED BY <3>3, <3>4
  <2>2. CASE ~(p.kind = "Answer" /\ p.call \in pending)
    <3>1. UNCHANGED answer
      BY <1>12, <2>2 DEF Dispatch, Complete, Part
    <3> QED BY <1>2, <2>0, <3>1
  <2> QED BY <2>1, <2>2
<1>13. CASE Working /\ ~ShutdownManagers /\ ~Dispatch
    BY <1>0, <1>2, <1>13 DEF Working, Forward, ForwardFails, ConnectionClosed,
                             KeepAliveTimeout, SendPong, OrphansEnd, Tick
<1>14. CASE MainShutsDown \/ ServerSends \/ LossNoticed
           \/ (\E how \in {"closed", "broken", "lost"}: LinkFails(how)) \/ UNCHANGED vars
    BY <1>0, <1>2, <1>14 DEF MainShutsDown, ServerSends, LossNoticed, LinkFails, vars
<1>15. CASE Calling
    BY <1>5, <1>6, <1>7, <1>8, <1>9, <1>15 DEF Calling, Calls
<1> QED BY <1>3, <1>4, <1>10, <1>11, <1>12, <1>13, <1>14, <1>15 DEF Next

\* The session that has not connected is where the promise starts.
LEMMA InitPromised == Init => Promise!Init
BY DEF Init, Promise!Init, Calls

\* The session does what SessionPromise says: it goes live at most once, nobody
\* begins to wait on a session that is over, and its end ends every wait.
THEOREM SessionKeepsPromise == Spec => PromiseKept
<1>1. IInv /\ [Next]_vars => [Promise!Next]_(Promise!vars)
    BY StepPromised, PromisedIsPromise
<1> QED BY InitPromised, <1>1, Inductive, PTL DEF Spec, PromiseKept, Promise!Spec

-----------------------------------------------------------------------------
(* Spirc: the commands and the events that are under way.                      *)

Commands == [op: {"Load", "Play", "Pause", "Stop", "Seek"},
             track: Tracks \cup {NoTrack}, play: BOOLEAN]
Kinds == {"PlayRequestIdChanged", "TrackChanged", "Loading", "Playing", "Paused", "Stopped",
          "EndOfTrack", "Unavailable", "Seeked"}
Events == [kind: Kinds, id: Nat, track: Tracks \cup {NoTrack}, old: BOOLEAN]

\* What the commands o will make of the player p: whether it will play or pause,
\* which track it will have, whether it will be stopped after its last load.
IsLoad(c) == c.op = "Load"
Loads(o) == \E i \in DOMAIN o : IsLoad(o[i])
Decides(c) == c.op \in {"Load", "Play", "Pause"}
Wants(c) == c.op = "Play" \/ (c.op = "Load" /\ c.play)
WillPlay(o, p) ==
  IF \E i \in DOMAIN o : Decides(o[i])
  THEN \E i \in DOMAIN o : Wants(o[i]) /\ \A j \in i + 1 .. Len(o) : ~Decides(o[j])
  ELSE p.play
WillHave(o, p, t) ==
  /\ \A i \in DOMAIN o : IsLoad(o[i]) /\ (\A j \in i + 1 .. Len(o) : ~IsLoad(o[j])) => t = o[i].track
  /\ ~Loads(o) => t = p.track
StopsLater(o) == \E i \in DOMAIN o : o[i].op = "Stop" /\ \A j \in i + 1 .. Len(o) : ~IsLoad(o[j])

\* The events of the player's current request.
NewId(e) == e.kind = "PlayRequestIdChanged"
IdPending(ev) == \E i \in DOMAIN ev : NewId(ev[i])
\* The start of a track is announced: it will set the timer that puts the state.
Starts(e) == e.kind \in {"TrackChanged", "Loading"}
HasStart(ev) == \E i \in DOMAIN ev : Starts(ev[i])
Current(ev) == {ev[i] : i \in {i \in DOMAIN ev : /\ ev[i].kind # "TrackChanged"
                                                /\ \A j \in i .. Len(ev) : ~NewId(ev[j])}}

\* What a sequence is with one more element at its end.
LEMMA Appended ==
    ASSUME NEW S, NEW q \in Seq(S), NEW x \in S
    PROVE  LET r == q \o <<x>>
           IN /\ r \in Seq(S) /\ Len(q) \in Nat /\ Len(r) = Len(q) + 1
              /\ DOMAIN r = 1 .. Len(r) /\ DOMAIN q = 1 .. Len(q)
              /\ r[Len(q) + 1] = x
              /\ \A i \in 1 .. Len(q) : r[i] = q[i]
OBVIOUS

\* What a sequence is without its head.
LEMMA Shortened ==
    ASSUME NEW S, NEW q \in Seq(S), q # <<>>
    PROVE  LET r == Tail(q)
           IN /\ r \in Seq(S) /\ Len(r) \in Nat /\ Len(q) = Len(r) + 1
              /\ DOMAIN r = 1 .. Len(r) /\ DOMAIN q = 1 .. Len(q)
              /\ q[1] = Head(q) /\ Head(q) \in S
              /\ \A i \in 1 .. Len(r) : r[i] = q[i + 1]
OBVIOUS

\* A command that is sent decides for those before it.
LEMMA SentAfter ==
    ASSUME NEW o \in Seq(Commands), NEW c \in Commands, NEW p, NEW t
    PROVE  LET q == o \o <<c>>
           IN /\ q \in Seq(Commands) /\ q # <<>>
              /\ Loads(q) <=> Loads(o) \/ IsLoad(c)
              /\ StopsLater(q) <=> c.op = "Stop" \/ (StopsLater(o) /\ ~IsLoad(c))
              /\ Decides(c) => (WillPlay(q, p) <=> Wants(c))
              /\ ~Decides(c) => (WillPlay(q, p) <=> WillPlay(o, p))
              /\ IsLoad(c) => (WillHave(q, p, t) <=> t = c.track)
              /\ ~IsLoad(c) => (WillHave(q, p, t) <=> WillHave(o, p, t))
<1> DEFINE q == o \o <<c>>
           n == Len(o)
<1>1. /\ q \in Seq(Commands) /\ n \in Nat /\ Len(q) = n + 1
      /\ DOMAIN q = 1 .. n + 1 /\ DOMAIN o = 1 .. n
      /\ q[n + 1] = c
      /\ \A i \in 1 .. n : q[i] = o[i]
  BY Appended
<1>2. q # <<>>
  BY <1>1
<1> HIDE DEF q, n
<1>3. \A i \in 1 .. n + 1 : i \in 1 .. n \/ i = n + 1
  BY <1>1
<1>4. \A i \in 1 .. n : n + 1 \in i + 1 .. n + 1 /\ \A j \in i + 1 .. n : j \in 1 .. n /\ j \in i + 1 .. n + 1
  BY <1>1
<1>5. n + 1 \in 1 .. n + 1 /\ (n + 1) + 1 .. n + 1 = {} /\ (\A i \in 1 .. n : i \in 1 .. n + 1)
  BY <1>1
<1>6. \A i \in 1 .. n : \A j \in i + 1 .. n + 1 : j \in i + 1 .. n \/ j = n + 1
  BY <1>1
<1>7. Loads(q) <=> Loads(o) \/ IsLoad(c)
  BY <1>1, <1>3, <1>5 DEF Loads
<1>8. StopsLater(q) <=> c.op = "Stop" \/ (StopsLater(o) /\ ~IsLoad(c))
  <2>1. ASSUME c.op = "Stop" PROVE StopsLater(q)
    BY <1>1, <1>5, <2>1 DEF StopsLater
  <2>2. ASSUME StopsLater(o), ~IsLoad(c) PROVE StopsLater(q)
    <3>1. PICK i \in 1 .. n : o[i].op = "Stop" /\ \A j \in i + 1 .. n : ~IsLoad(o[j])
      BY <1>1, <2>2 DEF StopsLater, n
    <3>2. \A j \in i + 1 .. n + 1 : ~IsLoad(q[j])
      BY <1>1, <1>4, <1>6, <2>2, <3>1
    <3> QED BY <1>1, <1>5, <3>1, <3>2 DEF StopsLater
  <2>3. ASSUME StopsLater(q), c.op # "Stop" PROVE StopsLater(o) /\ ~IsLoad(c)
    <3>1. PICK i \in 1 .. n + 1 : q[i].op = "Stop" /\ \A j \in i + 1 .. n + 1 : ~IsLoad(q[j])
      BY <1>1, <2>3 DEF StopsLater
    <3>2. i \in 1 .. n
      BY <1>1, <1>3, <2>3, <3>1
    <3>3. ~IsLoad(c)
      BY <1>1, <1>4, <3>1, <3>2
    <3>4. \A j \in i + 1 .. n : ~IsLoad(o[j])
      BY <1>1, <1>4, <3>1, <3>2
    <3> QED BY <1>1, <3>1, <3>2, <3>3, <3>4 DEF StopsLater, n
  <2> QED BY <2>1, <2>2, <2>3
<1>9. Decides(c) => (WillPlay(q, p) <=> Wants(c))
  <2> SUFFICES ASSUME Decides(c) PROVE WillPlay(q, p) <=> Wants(c)
    OBVIOUS
  <2>1. \E i \in DOMAIN q : Decides(q[i])
    BY <1>1, <1>5
  <2>2. \A i \in 1 .. n : ~\A j \in i + 1 .. n + 1 : ~Decides(q[j])
    BY <1>1, <1>4
  <2>3. (\E i \in DOMAIN q : Wants(q[i]) /\ \A j \in i + 1 .. Len(q) : ~Decides(q[j])) <=> Wants(c)
    BY <1>1, <1>3, <1>5, <2>2
  <2> QED BY <2>1, <2>3 DEF WillPlay
<1>10. ~Decides(c) => (WillPlay(q, p) <=> WillPlay(o, p))
  <2> SUFFICES ASSUME ~Decides(c) PROVE WillPlay(q, p) <=> WillPlay(o, p)
    OBVIOUS
  <2>0. ~Wants(c)
    BY DEF Wants, Decides
  <2>1. (\E i \in DOMAIN q : Decides(q[i])) <=> \E i \in DOMAIN o : Decides(o[i])
    BY <1>1, <1>3, <1>5
  <2>2. \A i \in 1 .. n : (\A j \in i + 1 .. n + 1 : ~Decides(q[j]))
                          <=> (\A j \in i + 1 .. n : ~Decides(o[j]))
    BY <1>1, <1>4, <1>6
  <2>3. (\E i \in DOMAIN q : Wants(q[i]) /\ \A j \in i + 1 .. Len(q) : ~Decides(q[j]))
        <=> (\E i \in DOMAIN o : Wants(o[i]) /\ \A j \in i + 1 .. n : ~Decides(o[j]))
    BY <1>1, <1>3, <1>5, <2>0, <2>2
  <2> QED BY <2>1, <2>3 DEF WillPlay, n
<1>11. IsLoad(c) => (WillHave(q, p, t) <=> t = c.track)
  BY <1>1, <1>3, <1>4, <1>5, <1>7 DEF WillHave
<1>12. ~IsLoad(c) => (WillHave(q, p, t) <=> WillHave(o, p, t))
  <2> SUFFICES ASSUME ~IsLoad(c) PROVE WillHave(q, p, t) <=> WillHave(o, p, t)
    OBVIOUS
  <2>1. \A i \in 1 .. n : (\A j \in i + 1 .. n + 1 : ~IsLoad(q[j]))
                          <=> (\A j \in i + 1 .. n : ~IsLoad(o[j]))
    BY <1>1, <1>4, <1>6
  <2>2. (\A i \in DOMAIN q : IsLoad(q[i]) /\ (\A j \in i + 1 .. Len(q) : ~IsLoad(q[j])) => t = q[i].track)
        <=> (\A i \in DOMAIN o : IsLoad(o[i]) /\ (\A j \in i + 1 .. n : ~IsLoad(o[j])) => t = o[i].track)
    BY <1>1, <1>3, <1>5, <2>1
  <2> QED BY <1>7, <2>2 DEF WillHave, n
<1> QED BY <1>1, <1>2, <1>7, <1>8, <1>9, <1>10, <1>11, <1>12 DEF q

\* A command that is taken: what the others decide stays, and it decides itself
\* when they do not.
LEMMA TakenBefore ==
    ASSUME NEW o \in Seq(Commands), o # <<>>, NEW p, NEW p2, NEW t
    PROVE  LET h == Head(o)  r == Tail(o)
           IN /\ r \in Seq(Commands) /\ h \in Commands
              /\ Loads(o) <=> IsLoad(h) \/ Loads(r)
              /\ StopsLater(o) <=> StopsLater(r) \/ (h.op = "Stop" /\ ~Loads(r))
              /\ Loads(r) \/ (IF Decides(h) THEN p2.play = Wants(h) ELSE p2.play = p.play)
                 => (WillPlay(o, p) <=> WillPlay(r, p2))
              /\ Loads(r) \/ p2.track = (IF IsLoad(h) THEN h.track ELSE p.track)
                 => (WillHave(o, p, t) <=> WillHave(r, p2, t))
<1> DEFINE h == Head(o)
           r == Tail(o)
           n == Len(r)
<1>1. /\ r \in Seq(Commands) /\ n \in Nat /\ Len(o) = n + 1
      /\ DOMAIN r = 1 .. n /\ DOMAIN o = 1 .. n + 1
      /\ o[1] = h /\ h \in Commands
      /\ \A i \in 1 .. n : r[i] = o[i + 1]
  BY Shortened
<1>0. n = Len(r)
  OBVIOUS
<1> HIDE DEF h, r, n
<1>2. 1 \in 1 .. n + 1 /\ \A i \in 1 .. n : i + 1 \in 1 .. n + 1
  BY <1>1
<1>3. \A i \in 1 .. n + 1 : i = 1 \/ \E k \in 1 .. n : i = k + 1
  <2> SUFFICES ASSUME NEW i \in 1 .. n + 1, i # 1 PROVE \E k \in 1 .. n : i = k + 1
    OBVIOUS
  <2>1. i - 1 \in 1 .. n /\ i = (i - 1) + 1
    BY <1>1
  <2> QED BY <2>1
<1>4. \A P \in [1 .. n + 1 -> BOOLEAN] :
        \A i \in 1 .. n : (\A j \in (i + 1) + 1 .. n + 1 : P[j]) <=> (\A j \in i + 1 .. n : P[j + 1])
  <2> SUFFICES ASSUME NEW P \in [1 .. n + 1 -> BOOLEAN], NEW i \in 1 .. n
               PROVE  (\A j \in (i + 1) + 1 .. n + 1 : P[j]) <=> (\A j \in i + 1 .. n : P[j + 1])
    OBVIOUS
  <2>1. \A j \in (i + 1) + 1 .. n + 1 : j - 1 \in i + 1 .. n /\ j = (j - 1) + 1
    BY <1>1
  <2>2. \A j \in i + 1 .. n : j + 1 \in (i + 1) + 1 .. n + 1
    BY <1>1
  <2> QED BY <2>1, <2>2
<1>5. \A i \in 1 .. n : (\A j \in (i + 1) + 1 .. n + 1 : ~IsLoad(o[j])) <=> (\A j \in i + 1 .. n : ~IsLoad(r[j]))
  <2> DEFINE P == [j \in 1 .. n + 1 |-> ~IsLoad(o[j])]
  <2>1. P \in [1 .. n + 1 -> BOOLEAN]
    BY DEF IsLoad
  <2>2. \A i \in 1 .. n : \A j \in (i + 1) + 1 .. n + 1 : P[j] = ~IsLoad(o[j])
    BY <1>1
  <2>3. \A i \in 1 .. n : \A j \in i + 1 .. n : P[j + 1] = ~IsLoad(r[j])
    BY <1>1
  <2> HIDE DEF P
  <2> QED BY <1>4, <2>1, <2>2, <2>3
<1>6. \A i \in 1 .. n : (\A j \in (i + 1) + 1 .. n + 1 : ~Decides(o[j])) <=> (\A j \in i + 1 .. n : ~Decides(r[j]))
  <2> DEFINE P == [j \in 1 .. n + 1 |-> ~Decides(o[j])]
  <2>1. P \in [1 .. n + 1 -> BOOLEAN]
    BY DEF Decides
  <2>2. \A i \in 1 .. n : \A j \in (i + 1) + 1 .. n + 1 : P[j] = ~Decides(o[j])
    BY <1>1
  <2>3. \A i \in 1 .. n : \A j \in i + 1 .. n : P[j + 1] = ~Decides(r[j])
    BY <1>1
  <2> HIDE DEF P
  <2> QED BY <1>4, <2>1, <2>2, <2>3
<1>7. \A j \in 1 + 1 .. n + 1 : \E k \in 1 .. n : j = k + 1
  <2> SUFFICES ASSUME NEW j \in 1 + 1 .. n + 1 PROVE \E k \in 1 .. n : j = k + 1
    OBVIOUS
  <2>1. j - 1 \in 1 .. n /\ j = (j - 1) + 1
    BY <1>1
  <2> QED BY <2>1
<1>8. \A k \in 1 .. n : k + 1 \in 1 + 1 .. n + 1
  BY <1>1
<1>9. Loads(o) <=> IsLoad(h) \/ Loads(r)
  <2>1. ASSUME Loads(o) PROVE IsLoad(h) \/ Loads(r)
    <3>1. PICK i \in 1 .. n + 1 : IsLoad(o[i])
      BY <1>1, <2>1 DEF Loads
    <3>2. CASE i = 1
      BY <1>1, <3>1, <3>2
    <3>3. CASE \E k \in 1 .. n : i = k + 1
      BY <1>1, <3>1, <3>3 DEF Loads
    <3> QED BY <1>3, <3>2, <3>3
  <2>2. ASSUME IsLoad(h) PROVE Loads(o)
    BY <1>1, <1>2, <2>2 DEF Loads
  <2>3. ASSUME Loads(r) PROVE Loads(o)
    <3>1. PICK i \in 1 .. n : IsLoad(r[i])
      BY <1>1, <2>3 DEF Loads
    <3>2. IsLoad(o[i + 1]) /\ i + 1 \in DOMAIN o
      BY <1>1, <1>2, <3>1
    <3> QED BY <3>2 DEF Loads
  <2> QED BY <2>1, <2>2, <2>3
<1>10. (\A j \in 1 + 1 .. n + 1 : ~IsLoad(o[j])) <=> ~Loads(r)
  BY <1>1, <1>7, <1>8 DEF Loads
<1>11. (\A j \in 1 + 1 .. n + 1 : ~Decides(o[j])) <=> ~\E i \in DOMAIN r : Decides(r[i])
  BY <1>1, <1>7, <1>8
<1>12. StopsLater(o) <=> StopsLater(r) \/ (h.op = "Stop" /\ ~Loads(r))
  <2>1. StopsLater(r) <=> \E i \in 1 .. n : r[i].op = "Stop" /\ \A j \in i + 1 .. n : ~IsLoad(r[j])
    BY <1>0, <1>1 DEF StopsLater
  <2>2. StopsLater(o) <=> \E i \in 1 .. n + 1 : o[i].op = "Stop" /\ \A j \in i + 1 .. n + 1 : ~IsLoad(o[j])
    BY <1>1 DEF StopsLater
  <2>3. ASSUME NEW i \in 1 .. n
        PROVE  (o[i + 1].op = "Stop" /\ \A j \in (i + 1) + 1 .. n + 1 : ~IsLoad(o[j]))
               <=> (r[i].op = "Stop" /\ \A j \in i + 1 .. n : ~IsLoad(r[j]))
    BY <1>1, <1>5
  <2>4. (o[1].op = "Stop" /\ \A j \in 1 + 1 .. n + 1 : ~IsLoad(o[j]))
        <=> (h.op = "Stop" /\ ~Loads(r))
    BY <1>1, <1>10
  <2> DEFINE Q(i) == o[i].op = "Stop" /\ \A j \in i + 1 .. n + 1 : ~IsLoad(o[j])
             R(i) == r[i].op = "Stop" /\ \A j \in i + 1 .. n : ~IsLoad(r[j])
  <2>5. (\E i \in 1 .. n + 1 : Q(i)) <=> Q(1) \/ \E i \in 1 .. n : R(i)
    <3>1. \A i \in 1 .. n : Q(i + 1) <=> R(i)
      BY <2>3
    <3> HIDE DEF Q, R
    <3> QED BY <1>2, <1>3, <3>1
  <2> QED BY <2>1, <2>2, <2>4, <2>5
<1>13. (\E i \in DOMAIN o : Decides(o[i])) <=> Decides(h) \/ \E i \in DOMAIN r : Decides(r[i])
  <2> DEFINE Q(i) == Decides(o[i])
             R(i) == Decides(r[i])
  <2>1. (\E i \in 1 .. n + 1 : Q(i)) <=> Q(1) \/ \E i \in 1 .. n : R(i)
    <3>1. \A i \in 1 .. n : Q(i + 1) <=> R(i)
      BY <1>1
    <3> HIDE DEF Q, R
    <3> QED BY <1>2, <1>3, <3>1
  <2>2. DOMAIN o = 1 .. n + 1 /\ DOMAIN r = 1 .. n /\ o[1] = h
    BY <1>1
  <2> QED BY <2>1, <2>2
<1>14. (\E i \in DOMAIN o : Wants(o[i]) /\ \A j \in i + 1 .. Len(o) : ~Decides(o[j]))
       <=> \/ Wants(h) /\ ~\E i \in DOMAIN r : Decides(r[i])
           \/ \E i \in DOMAIN r : Wants(r[i]) /\ \A j \in i + 1 .. Len(r) : ~Decides(r[j])
  <2>1. (\E i \in DOMAIN r : Wants(r[i]) /\ \A j \in i + 1 .. Len(r) : ~Decides(r[j]))
        <=> \E i \in 1 .. n : Wants(r[i]) /\ \A j \in i + 1 .. n : ~Decides(r[j])
    BY <1>0, <1>1
  <2>3. ASSUME NEW i \in 1 .. n
        PROVE  (Wants(o[i + 1]) /\ \A j \in (i + 1) + 1 .. n + 1 : ~Decides(o[j]))
               <=> (Wants(r[i]) /\ \A j \in i + 1 .. n : ~Decides(r[j]))
    BY <1>1, <1>6
  <2>4. (Wants(o[1]) /\ \A j \in 1 + 1 .. n + 1 : ~Decides(o[j]))
        <=> (Wants(h) /\ ~\E i \in DOMAIN r : Decides(r[i]))
    BY <1>1, <1>11
  <2> DEFINE Q(i) == Wants(o[i]) /\ \A j \in i + 1 .. n + 1 : ~Decides(o[j])
             R(i) == Wants(r[i]) /\ \A j \in i + 1 .. n : ~Decides(r[j])
  <2>5. (\E i \in 1 .. n + 1 : Q(i)) <=> Q(1) \/ \E i \in 1 .. n : R(i)
    <3>1. \A i \in 1 .. n : Q(i + 1) <=> R(i)
      BY <2>3
    <3> HIDE DEF Q, R
    <3> QED BY <1>2, <1>3, <3>1
  <2>6. DOMAIN o = 1 .. n + 1 /\ Len(o) = n + 1
    BY <1>1
  <2> QED BY <2>1, <2>4, <2>5, <2>6
<1>15. Loads(r) => \E i \in DOMAIN r : Decides(r[i])
  BY DEF Loads, IsLoad, Decides
<1>16. \A i \in DOMAIN r : Wants(r[i]) => Decides(r[i])
  BY DEF Wants, Decides
<1>17. Loads(r) \/ (IF Decides(h) THEN p2.play = Wants(h) ELSE p2.play = p.play)
       => (WillPlay(o, p) <=> WillPlay(r, p2))
  BY <1>13, <1>14, <1>15, <1>16 DEF WillPlay, Wants, Decides
<1>18. (\A i \in DOMAIN o : IsLoad(o[i]) /\ (\A j \in i + 1 .. Len(o) : ~IsLoad(o[j])) => t = o[i].track)
       <=> /\ IsLoad(h) /\ ~Loads(r) => t = h.track
           /\ \A i \in DOMAIN r : IsLoad(r[i]) /\ (\A j \in i + 1 .. Len(r) : ~IsLoad(r[j])) => t = r[i].track
  <2>1. (\A i \in DOMAIN r : IsLoad(r[i]) /\ (\A j \in i + 1 .. Len(r) : ~IsLoad(r[j])) => t = r[i].track)
        <=> \A i \in 1 .. n : IsLoad(r[i]) /\ (\A j \in i + 1 .. n : ~IsLoad(r[j])) => t = r[i].track
    BY <1>0, <1>1
  <2>3. ASSUME NEW i \in 1 .. n
        PROVE  (IsLoad(o[i + 1]) /\ (\A j \in (i + 1) + 1 .. n + 1 : ~IsLoad(o[j])) => t = o[i + 1].track)
               <=> (IsLoad(r[i]) /\ (\A j \in i + 1 .. n : ~IsLoad(r[j])) => t = r[i].track)
    BY <1>1, <1>5
  <2>4. (IsLoad(o[1]) /\ (\A j \in 1 + 1 .. n + 1 : ~IsLoad(o[j])) => t = o[1].track)
        <=> (IsLoad(h) /\ ~Loads(r) => t = h.track)
    BY <1>1, <1>10
  <2> DEFINE Q(i) == IsLoad(o[i]) /\ (\A j \in i + 1 .. n + 1 : ~IsLoad(o[j])) => t = o[i].track
             R(i) == IsLoad(r[i]) /\ (\A j \in i + 1 .. n : ~IsLoad(r[j])) => t = r[i].track
  <2>5. (\A i \in 1 .. n + 1 : Q(i)) <=> Q(1) /\ \A i \in 1 .. n : R(i)
    <3>1. \A i \in 1 .. n : Q(i + 1) <=> R(i)
      BY <2>3
    <3> HIDE DEF Q, R
    <3> QED BY <1>2, <1>3, <3>1
  <2>6. DOMAIN o = 1 .. n + 1 /\ Len(o) = n + 1
    BY <1>1
  <2> QED BY <2>1, <2>4, <2>5, <2>6
<1>19. Loads(r) \/ p2.track = (IF IsLoad(h) THEN h.track ELSE p.track)
       => (WillHave(o, p, t) <=> WillHave(r, p2, t))
  BY <1>9, <1>18 DEF WillHave
<1> QED BY <1>1, <1>9, <1>12, <1>17, <1>19 DEF h, r

\* An event that is said is of the current request, unless it begins a new one.
LEMMA SaidAfter ==
    ASSUME NEW ev \in Seq(Events), NEW e \in Events
    PROVE  LET q == ev \o <<e>>
           IN /\ q \in Seq(Events) /\ q # <<>>
              /\ IdPending(q) <=> IdPending(ev) \/ NewId(e)
              /\ Current(q) = IF NewId(e) THEN {}
                              ELSE IF e.kind = "TrackChanged" THEN Current(ev)
                              ELSE Current(ev) \cup {e}
              /\ HasStart(q) <=> HasStart(ev) \/ Starts(e)
<1> DEFINE q == ev \o <<e>>
           n == Len(ev)
<1>0. n = Len(ev)
  OBVIOUS
<1>1. /\ q \in Seq(Events) /\ n \in Nat /\ Len(q) = n + 1
      /\ DOMAIN q = 1 .. n + 1 /\ DOMAIN ev = 1 .. n
      /\ q[n + 1] = e
      /\ \A i \in 1 .. n : q[i] = ev[i]
  BY Appended
<1>2. q # <<>>
  BY <1>1
<1> HIDE DEF q, n
<1>3. \A i \in 1 .. n + 1 : i \in 1 .. n \/ i = n + 1
  BY <1>1
<1>4. \A i \in 1 .. n : n + 1 \in i .. n + 1 /\ \A j \in i .. n : j \in 1 .. n /\ j \in i .. n + 1
  BY <1>1
<1>5. n + 1 \in 1 .. n + 1 /\ n + 1 .. n + 1 = {n + 1} /\ (\A i \in 1 .. n : i \in 1 .. n + 1)
  BY <1>1
<1>6. \A i \in 1 .. n : \A j \in i .. n + 1 : j \in i .. n \/ j = n + 1
  BY <1>1
<1>7. HasStart(q) <=> HasStart(ev) \/ Starts(e)
  BY <1>1, <1>3, <1>5 DEF HasStart
<1>8. IdPending(q) <=> IdPending(ev) \/ NewId(e)
  BY <1>1, <1>3, <1>5 DEF IdPending
<1>9. CASE NewId(e)
  <2>1. \A i \in 1 .. n + 1 : ~\A j \in i .. n + 1 : ~NewId(q[j])
    BY <1>1, <1>3, <1>4, <1>5, <1>9
  <2>2. Current(q) = {}
    BY <1>1, <2>1 DEF Current
  <2> QED BY <1>1, <1>2, <1>7, <1>8, <1>9, <2>2 DEF q
<1>10. CASE ~NewId(e)
  <2>1. \A i \in 1 .. n : (\A j \in i .. n + 1 : ~NewId(q[j])) <=> (\A j \in i .. n : ~NewId(ev[j]))
    BY <1>1, <1>4, <1>6, <1>10
  <2>2. \A j \in n + 1 .. n + 1 : ~NewId(q[j])
    BY <1>1, <1>5, <1>10
  <2>3. Current(ev) = {ev[i] : i \in {i \in 1 .. n : /\ ev[i].kind # "TrackChanged"
                                                    /\ \A j \in i .. n : ~NewId(ev[j])}}
    BY <1>0, <1>1 DEF Current
  <2>4. Current(q) = {q[i] : i \in {i \in 1 .. n + 1 : /\ q[i].kind # "TrackChanged"
                                                      /\ \A j \in i .. n + 1 : ~NewId(q[j])}}
    BY <1>1 DEF Current
  <2>5. ASSUME NEW x
        PROVE  x \in Current(q) <=> x \in Current(ev) \/ (x = e /\ e.kind # "TrackChanged")
    <3>1. x \in Current(q) <=> \E i \in 1 .. n + 1 : /\ x = q[i] /\ q[i].kind # "TrackChanged"
                                                    /\ \A j \in i .. n + 1 : ~NewId(q[j])
      BY <2>4
    <3>2. x \in Current(ev) <=> \E i \in 1 .. n : /\ x = ev[i] /\ ev[i].kind # "TrackChanged"
                                                 /\ \A j \in i .. n : ~NewId(ev[j])
      BY <2>3
    <3>3. \A i \in 1 .. n :
            (x = q[i] /\ q[i].kind # "TrackChanged" /\ \A j \in i .. n + 1 : ~NewId(q[j]))
            <=> (x = ev[i] /\ ev[i].kind # "TrackChanged" /\ \A j \in i .. n : ~NewId(ev[j]))
      BY <1>1, <2>1
    <3> DEFINE Q(i) == x = q[i] /\ q[i].kind # "TrackChanged" /\ \A j \in i .. n + 1 : ~NewId(q[j])
               R(i) == x = ev[i] /\ ev[i].kind # "TrackChanged" /\ \A j \in i .. n : ~NewId(ev[j])
    <3>4. Q(n + 1) <=> x = e /\ e.kind # "TrackChanged"
      BY <1>1, <2>2
    <3>5. (\E i \in 1 .. n + 1 : Q(i)) <=> Q(n + 1) \/ \E i \in 1 .. n : R(i)
      <4>1. \A i \in 1 .. n : Q(i) <=> R(i)
        BY <3>3
      <4> HIDE DEF Q, R
      <4> QED BY <1>3, <1>5, <4>1
    <3> QED BY <3>1, <3>2, <3>4, <3>5
  <2>6. Current(q) = IF e.kind = "TrackChanged" THEN Current(ev) ELSE Current(ev) \cup {e}
    BY <2>5
  <2> QED BY <1>1, <1>2, <1>7, <1>8, <1>10, <2>6 DEF q
<1> QED BY <1>9, <1>10

\* An event that is handled was of the current request, if no new one follows.
LEMMA HandledBefore ==
    ASSUME NEW ev \in Seq(Events), ev # <<>>
    PROVE  LET e == Head(ev)  r == Tail(ev)
           IN /\ r \in Seq(Events) /\ e \in Events
              /\ IdPending(ev) <=> NewId(e) \/ IdPending(r)
              /\ Current(ev) = IF NewId(e) \/ IdPending(r) \/ e.kind = "TrackChanged" THEN Current(r)
                               ELSE Current(r) \cup {e}
              /\ HasStart(ev) <=> Starts(e) \/ HasStart(r)
<1> DEFINE e == Head(ev)
           r == Tail(ev)
           n == Len(r)
<1>0. n = Len(r)
  OBVIOUS
<1>1. /\ r \in Seq(Events) /\ n \in Nat /\ Len(ev) = n + 1
      /\ DOMAIN r = 1 .. n /\ DOMAIN ev = 1 .. n + 1
      /\ ev[1] = e /\ e \in Events
      /\ \A i \in 1 .. n : r[i] = ev[i + 1]
  BY Shortened
<1> HIDE DEF e, r, n
<1>2. 1 \in 1 .. n + 1 /\ \A i \in 1 .. n : i + 1 \in 1 .. n + 1
  BY <1>1
<1>3. \A i \in 1 .. n + 1 : i = 1 \/ \E k \in 1 .. n : i = k + 1
  <2> SUFFICES ASSUME NEW i \in 1 .. n + 1, i # 1 PROVE \E k \in 1 .. n : i = k + 1
    OBVIOUS
  <2>1. i - 1 \in 1 .. n /\ i = (i - 1) + 1
    BY <1>1
  <2> QED BY <2>1
<1>4. HasStart(ev) <=> Starts(e) \/ HasStart(r)
  <2> DEFINE Q(i) == Starts(ev[i])
             R(i) == Starts(r[i])
  <2>1. (\E i \in 1 .. n + 1 : Q(i)) <=> Q(1) \/ \E i \in 1 .. n : R(i)
    <3>1. \A i \in 1 .. n : Q(i + 1) <=> R(i)
      BY <1>1
    <3> HIDE DEF Q, R
    <3> QED BY <1>2, <1>3, <3>1
  <2> QED BY <1>1, <2>1 DEF HasStart
<1>5. IdPending(ev) <=> NewId(e) \/ IdPending(r)
  <2> DEFINE Q(i) == NewId(ev[i])
             R(i) == NewId(r[i])
  <2>1. (\E i \in 1 .. n + 1 : Q(i)) <=> Q(1) \/ \E i \in 1 .. n : R(i)
    <3>1. \A i \in 1 .. n : Q(i + 1) <=> R(i)
      BY <1>1
    <3> HIDE DEF Q, R
    <3> QED BY <1>2, <1>3, <3>1
  <2> QED BY <1>1, <2>1 DEF IdPending
<1>6. \A i \in 1 .. n : (\A j \in i + 1 .. n + 1 : ~NewId(ev[j])) <=> (\A j \in i .. n : ~NewId(r[j]))
  <2> SUFFICES ASSUME NEW i \in 1 .. n
               PROVE  (\A j \in i + 1 .. n + 1 : ~NewId(ev[j])) <=> (\A j \in i .. n : ~NewId(r[j]))
    OBVIOUS
  <2>1. ASSUME \A j \in i + 1 .. n + 1 : ~NewId(ev[j]), NEW j \in i .. n
        PROVE  ~NewId(r[j])
    <3>1. j + 1 \in i + 1 .. n + 1 /\ j \in 1 .. n
      BY <1>1
    <3> QED BY <1>1, <2>1, <3>1
  <2>2. ASSUME \A j \in i .. n : ~NewId(r[j]), NEW j \in i + 1 .. n + 1
        PROVE  ~NewId(ev[j])
    <3>1. j - 1 \in i .. n /\ j - 1 \in 1 .. n /\ j = (j - 1) + 1
      BY <1>1
    <3> QED BY <1>1, <2>2, <3>1
  <2> QED BY <2>1, <2>2
<1>7. (\A j \in 1 .. n + 1 : ~NewId(ev[j])) <=> ~(NewId(e) \/ IdPending(r))
  BY <1>1, <1>5 DEF IdPending
<1>8. Current(r) = {r[i] : i \in {i \in 1 .. n : /\ r[i].kind # "TrackChanged"
                                                /\ \A j \in i .. n : ~NewId(r[j])}}
  BY <1>0, <1>1 DEF Current
<1>9. Current(ev) = {ev[i] : i \in {i \in 1 .. n + 1 : /\ ev[i].kind # "TrackChanged"
                                                      /\ \A j \in i .. n + 1 : ~NewId(ev[j])}}
  BY <1>1 DEF Current
<1>10. ASSUME NEW x
       PROVE  x \in Current(ev) <=>
                x \in Current(r) \/ (x = e /\ e.kind # "TrackChanged" /\ ~(NewId(e) \/ IdPending(r)))
  <2>1. x \in Current(ev) <=> \E i \in 1 .. n + 1 : /\ x = ev[i] /\ ev[i].kind # "TrackChanged"
                                                   /\ \A j \in i .. n + 1 : ~NewId(ev[j])
    BY <1>9
  <2>2. x \in Current(r) <=> \E i \in 1 .. n : /\ x = r[i] /\ r[i].kind # "TrackChanged"
                                              /\ \A j \in i .. n : ~NewId(r[j])
    BY <1>8
  <2> DEFINE Q(i) == x = ev[i] /\ ev[i].kind # "TrackChanged" /\ \A j \in i .. n + 1 : ~NewId(ev[j])
             R(i) == x = r[i] /\ r[i].kind # "TrackChanged" /\ \A j \in i .. n : ~NewId(r[j])
  <2>3. Q(1) <=> x = e /\ e.kind # "TrackChanged" /\ ~(NewId(e) \/ IdPending(r))
    BY <1>1, <1>7
  <2>4. (\E i \in 1 .. n + 1 : Q(i)) <=> Q(1) \/ \E i \in 1 .. n : R(i)
    <3>1. \A i \in 1 .. n : Q(i + 1) <=> R(i)
      BY <1>1, <1>6
    <3> HIDE DEF Q, R
    <3> QED BY <1>2, <1>3, <3>1
  <2> QED BY <2>1, <2>2, <2>3, <2>4
<1>11. Current(ev) = IF NewId(e) \/ IdPending(r) \/ e.kind = "TrackChanged" THEN Current(r)
                     ELSE Current(r) \cup {e}
  BY <1>10
<1> QED BY <1>1, <1>4, <1>5, <1>11 DEF e, r

\* The events that were said before a command was taken are marked, and of the
\* same kinds and requests.
Marked(ev) == [i \in DOMAIN ev |-> [ev[i] EXCEPT !.old = TRUE]]
\* Marking the events as old forgets none and adds none.
LEMMA MarkedBefore ==
    ASSUME NEW ev \in Seq(Events)
    PROVE  /\ Marked(ev) \in Seq(Events)
           /\ IdPending(Marked(ev)) <=> IdPending(ev)
           /\ \A e \in Current(Marked(ev)) :
                e.old /\ \E d \in Current(ev) : d.id = e.id /\ d.kind = e.kind
           /\ Current(Marked(ev)) = {} => Current(ev) = {}
           /\ HasStart(Marked(ev)) <=> HasStart(ev)
<1> DEFINE q == Marked(ev)
           n == Len(ev)
<1>0. n = Len(ev) /\ n \in Nat /\ DOMAIN ev = 1 .. n
  OBVIOUS
<1>1. \A i \in 1 .. n : ev[i] \in Events
  BY <1>0
<1>2. q = [i \in 1 .. n |-> [ev[i] EXCEPT !.old = TRUE]]
  BY <1>0 DEF Marked
<1> HIDE DEF q, n
<1>3. \A i \in 1 .. n : /\ q[i] \in Events /\ q[i].kind = ev[i].kind
                        /\ q[i].id = ev[i].id /\ q[i].old
  BY <1>1, <1>2 DEF Events
<1>4. q \in Seq(Events) /\ Len(q) = n /\ DOMAIN q = 1 .. n
  BY <1>0, <1>2, <1>3
<1>5. \A i \in 1 .. n : NewId(q[i]) <=> NewId(ev[i])
  BY <1>3 DEF NewId
<1>6. IdPending(q) <=> IdPending(ev)
  BY <1>0, <1>4, <1>5 DEF IdPending
<1>7. \A i \in 1 .. n : \A j \in i .. n : j \in 1 .. n
  BY <1>0
<1>8. \A x : x \in Current(q) <=> \E i \in 1 .. n : /\ x = q[i] /\ q[i].kind # "TrackChanged"
                                                   /\ \A j \in i .. n : ~NewId(q[j])
  BY <1>4 DEF Current
<1>9. \A x : x \in Current(ev) <=> \E i \in 1 .. n : /\ x = ev[i] /\ ev[i].kind # "TrackChanged"
                                                    /\ \A j \in i .. n : ~NewId(ev[j])
  BY <1>0 DEF Current
<1>10. \A i \in 1 .. n : (\A j \in i .. n : ~NewId(q[j])) <=> (\A j \in i .. n : ~NewId(ev[j]))
  BY <1>5, <1>7
<1>11. \A e \in Current(q) : e.old /\ \E d \in Current(ev) : d.id = e.id /\ d.kind = e.kind
  BY <1>3, <1>8, <1>9, <1>10
<1>12. Current(q) = {} => Current(ev) = {}
  BY <1>3, <1>8, <1>9, <1>10
<1>13. HasStart(q) <=> HasStart(ev)
  BY <1>0, <1>3, <1>4 DEF HasStart, Starts
<1> QED BY <1>4, <1>6, <1>11, <1>12, <1>13 DEF q

-----------------------------------------------------------------------------
(* Spirc: the handlers.                                                        *)

TaskType ==
  [status: Statuses, track: Tracks \cup {NoTrack}, context: BOOLEAN, active: BOOLEAN,
   shown: {"none", "playing", "paused"}, id: Nat, update: BOOLEAN, updateVolume: BOOLEAN,
   volume: 0 .. Volumes, mixer: 0 .. Volumes, established: BOOLEAN, told: Views,
   missed: {"no", "put", "error"}, crossed: {"no", "crossed"}, left: LeftBy]

\* What is believed of the player, and who is active, is the same.
Alike(s, t) ==
  /\ t.status = s.status /\ t.track = s.track /\ t.crossed = s.crossed /\ t.left = s.left
  /\ t.active = s.active /\ t.context = s.context /\ t.id = s.id

\* What the other devices are shown fits the status, and the server was told it,
\* unless a timer will put it, or the start of a track will set the timer.
Shown(status) == IF status \in Playing THEN "playing" ELSE "paused"
Reported(t, due) ==
  t.missed = "no" /\ ~t.update =>
    /\ t.active => t.shown = Shown(t.status)
    /\ t.established /\ ~due =>
         /\ t.told.active = t.active
         /\ t.active /\ ~t.updateVolume => t.told = View(t)

\* set_status changes the shown status and no other field.
LEMMA SetStatusFacts ==
    ASSUME NEW s \in TaskType
    PROVE  LET t == SetStatus(s)
           IN /\ t \in TaskType /\ Alike(s, t)
              /\ t.shown = Shown(s.status) /\ t.update = s.update /\ t.updateVolume = s.updateVolume
              /\ t.established = s.established /\ t.missed = s.missed /\ t.volume = s.volume
              /\ t.mixer = s.mixer /\ t.told = s.told
BY DEF SetStatus, TaskType, Alike, Shown

\* What the server is shown of a well-typed task is a view.
LEMMA ViewType ==
    ASSUME NEW s \in TaskType
    PROVE  /\ View(s) \in Views
           /\ View(s).active = s.active
BY DEF TaskType, View, Views, Tracks

\* A put tells the server the view, or marks the task as having missed one.
LEMMA PutFacts ==
    ASSUME NEW s \in TaskType, NEW ok \in BOOLEAN
    PROVE  LET t == Put(s, ok)
           IN /\ t \in TaskType /\ Alike(s, t)
              /\ t.shown = s.shown /\ t.update = s.update /\ t.updateVolume = s.updateVolume
              /\ t.established = s.established /\ t.volume = s.volume /\ t.mixer = s.mixer
              /\ ok => t.told = View(s) /\ t.missed = s.missed
              /\ ~ok => t.missed = "put"
<1>1. View(s) \in Views
  BY ViewType
<1>2. CASE ok
  BY <1>1, <1>2 DEF Put, TaskType, Alike
<1>3. CASE ~ok
  BY <1>3 DEF Put, TaskType, Alike
<1> QED BY <1>2, <1>3

\* What was missed before is forgotten, and nothing else.
LEMMA AgainFacts ==
    ASSUME NEW s \in TaskType
    PROVE  LET t == Again(s)
           IN /\ t \in TaskType /\ Alike(s, t) /\ t.missed = "no" /\ View(t) = View(s)
              /\ t.shown = s.shown /\ t.update = s.update /\ t.updateVolume = s.updateVolume
              /\ t.established = s.established /\ t.volume = s.volume /\ t.mixer = s.mixer
BY DEF Again, TaskType, Alike, View

\* After notify nothing is left to report, or the put was missed.
LEMMA NotifyFacts ==
    ASSUME NEW s \in TaskType, NEW ok \in BOOLEAN
    PROVE  LET t == Notify(s, ok)
           IN /\ t \in TaskType /\ Alike(s, t)
              /\ t.update = s.update /\ t.updateVolume = s.updateVolume
              /\ t.established = s.established /\ t.volume = s.volume /\ t.mixer = s.mixer
              /\ t.shown = Shown(s.status)
              /\ ok => t.missed = "no"
              /\ ~ok => t.missed = "put"
              /\ \A due : Reported(t, due)
<1> DEFINE c == SetStatus(s)
           d == Again(c)
           t == Notify(s, ok)
<1>0. /\ c \in TaskType /\ Alike(s, c)
      /\ c.shown = Shown(s.status) /\ c.update = s.update /\ c.updateVolume = s.updateVolume
      /\ c.established = s.established /\ c.volume = s.volume /\ c.mixer = s.mixer
  BY SetStatusFacts
<1>2. t = Put(d, ok)
  BY DEF Notify
<1> HIDE DEF c
<1>7. /\ d \in TaskType /\ Alike(c, d) /\ d.missed = "no"
      /\ d.shown = c.shown /\ d.update = c.update /\ d.updateVolume = c.updateVolume
      /\ d.established = c.established /\ d.volume = c.volume /\ d.mixer = c.mixer
  BY <1>0, AgainFacts
<1> HIDE DEF d, t
<1>1. /\ d \in TaskType /\ Alike(s, d)
      /\ d.shown = Shown(s.status) /\ d.update = s.update /\ d.updateVolume = s.updateVolume
      /\ d.established = s.established /\ d.missed = "no" /\ d.volume = s.volume
      /\ d.mixer = s.mixer
  BY <1>0, <1>7 DEF Alike
<1>3. /\ t \in TaskType /\ Alike(d, t)
      /\ t.shown = d.shown /\ t.update = d.update /\ t.updateVolume = d.updateVolume
      /\ t.established = d.established /\ t.volume = d.volume /\ t.mixer = d.mixer
      /\ ok => t.told = View(d) /\ t.missed = d.missed
      /\ ~ok => t.missed = "put"
  BY <1>1, <1>2, PutFacts
<1>4. View(d) = View(t) /\ View(d).active = d.active
  BY <1>1, <1>3, ViewType DEF View, Alike
<1>5. ASSUME NEW due PROVE Reported(t, due)
  BY <1>1, <1>3, <1>4 DEF Reported, Alike
<1>6. Alike(s, t)
  BY <1>1, <1>3 DEF Alike
<1> QED BY <1>1, <1>3, <1>5, <1>6 DEF t

\* What a handler does to what is believed.  A load begins anew; a stop makes it
\* irrelevant; play and pause change it as they are sent.
Sent == {<<>>} \cup {<<c>> : c \in Commands}
Fresh(r) ==
  \E play \in BOOLEAN :
    /\ r.s.track # NoTrack /\ r.send = <<Load(r.s.track, play)>>
    /\ r.s.status = (IF play THEN "LoadingPlay" ELSE "LoadingPause")
    /\ r.s.crossed = "no" /\ r.s.left = "no"
\* What is believed can be relied on: no event crossed, and no music was left on
\* by a device that calls itself stopped.
Known(s) == s.crossed = "no" /\ s.left \notin LeftOn
SameTrack(s, t) == t.status # "Stopped" /\ t.left = "no" => s.left = "no" /\ t.track = s.track
\* What is known of s and of t is the same.
SameLeft(s, t) ==
  /\ t.crossed = s.crossed /\ (t.left \in LeftOn <=> s.left \in LeftOn)
  /\ t.left = "no" => s.left = "no"
Waiting == {"LoadingPlay", "LoadingPause"}
Moves(s, r) ==
  LET t == r.s
  IN \/ ~Known(t)
     \/ Fresh(r)
     \/ r.send = <<Order("Stop")>> /\ t.status = "Stopped"
     \/ /\ Known(s)
        /\ \/ r.send = <<>> /\ t.status = s.status /\ SameTrack(s, t)
           \/ r.send = <<>> /\ t.status = "Stopped" /\ s.status \notin Playing
           \/ r.send = <<Order("Seek")>> /\ t.status = s.status /\ SameTrack(s, t)
           \/ r.send = <<Order("Stop")>> /\ t.status \in {s.status, "Stopped"}
           \/ /\ r.send = <<Order("Play")>> /\ t.status \in Playing /\ SameTrack(s, t)
              /\ s.status # "Stopped" /\ (t.status \in Waiting => s.status \in Waiting)
           \/ /\ r.send = <<Order("Pause")>> /\ t.status \notin Playing /\ SameTrack(s, t)
              /\ s.status # "Stopped" /\ (t.status \in Waiting => s.status \in Waiting)

\* A device that is not active has no track, and has stopped unless it was made
\* inactive for want of a cluster.
Away(s) == /\ ~s.active => /\ s.track = NoTrack /\ ~s.context
                           /\ s.left = "noCluster" \/ s.status = "Stopped"
           /\ s.left \in LeftOn => s.status = "Stopped"

\* What a handler that ends by an error leaves alone.
Stays(s, t) ==
  /\ t.status = s.status /\ t.shown = s.shown /\ t.update = s.update /\ t.told = s.told
  /\ t.updateVolume = s.updateVolume /\ t.established = s.established /\ t.missed = s.missed
Breaks(s, r) == ~r.ok => r.send = <<>> /\ Stays(s, r.s)

Handled(s, r) ==
  /\ r.s \in TaskType /\ r.send \in Sent /\ Breaks(s, r)
  /\ r.s.id = s.id /\ r.s.active = s.active
  /\ Moves(s, r)
  /\ Away(s) => Away(r.s)

\* What the helpers send to the player are commands it knows.
LEMMA OrderType ==
    /\ \A op \in {"Play", "Pause", "Stop", "Seek"} : <<Order(op)>> \in Sent
    /\ \A t \in Tracks, play \in BOOLEAN : <<Load(t, play)>> \in Sent
    /\ <<>> \in Sent
BY DEF Order, Load, Sent, Commands, NoTrack

\* handle_stop sends Stop, and touches nothing but the track.
LEMMA HandleStopFacts ==
    ASSUME NEW s \in TaskType
    PROVE  LET r == HandleStop(s)
           IN /\ r.s \in TaskType /\ r.send = <<Order("Stop")>> /\ r.send \in Sent /\ r.ok
              /\ r.s.status = s.status /\ r.s.crossed = s.crossed /\ r.s.left = s.left
              /\ r.s.active = s.active /\ r.s.context = s.context /\ r.s.id = s.id
              /\ ~s.context => r.s.track = s.track
              /\ r.s.update = s.update /\ r.s.updateVolume = s.updateVolume /\ r.s.told = s.told
              /\ r.s.established = s.established /\ r.s.missed = s.missed /\ r.s.shown = s.shown
<1>1. HandleStop(s).s = ToStart(s) /\ HandleStop(s).send = <<Order("Stop")>> /\ HandleStop(s).ok
  BY DEF HandleStop, Sends
<1>2. 1 \in Tracks
  BY SpircAssumption DEF Tracks
<1> QED BY <1>1, <1>2, OrderType DEF ToStart, TaskType

\* load_track sends a Load and sets the status to what that load will do.
LEMMA LoadTrackFacts ==
    ASSUME NEW s \in TaskType, s.track # NoTrack, s.track \notin Unreadable, NEW play \in BOOLEAN
    PROVE  LET r == LoadTrack(s, play)
           IN /\ r.s \in TaskType /\ r.send \in Sent /\ Fresh(r) /\ r.ok
              /\ r.s.track = s.track
              /\ r.s.active = s.active /\ r.s.context = s.context /\ r.s.id = s.id
              /\ r.s.update = s.update /\ r.s.updateVolume = s.updateVolume
              /\ r.s.established = s.established /\ r.s.missed = s.missed
              /\ r.s.shown = Shown(r.s.status)
<1> DEFINE status == IF play THEN "LoadingPlay" ELSE "LoadingPause"
           a == [s EXCEPT !.status = status]
           b == [a EXCEPT !.crossed = "no"]
           c == [b EXCEPT !.left = "no"]
           r == LoadTrack(s, play)
<1>1. r.s = SetStatus(c) /\ r.send = <<Load(s.track, play)>> /\ r.ok
  BY DEF LoadTrack, Sends
<1>2. status \in Statuses
  BY DEF Statuses, Playing
<1> HIDE DEF r, status
<1>3. a \in TaskType /\ a.status = status
  BY <1>2 DEF TaskType
<1> HIDE DEF a
<1>4. b \in TaskType /\ b.crossed = "no" /\ b.status = status
  BY <1>3 DEF TaskType
<1> HIDE DEF b
<1>5. c \in TaskType /\ c.left = "no" /\ c.crossed = "no" /\ c.status = status
  BY <1>4 DEF TaskType, LeftBy
<1>6. /\ c.track = s.track /\ c.active = s.active /\ c.context = s.context /\ c.id = s.id
      /\ c.update = s.update /\ c.updateVolume = s.updateVolume
      /\ c.established = s.established /\ c.missed = s.missed
  BY <1>3, <1>4 DEF TaskType, a, b
<1> HIDE DEF c
<1>7. /\ r.s \in TaskType /\ Alike(c, r.s) /\ r.s.shown = Shown(c.status)
      /\ r.s.update = c.update /\ r.s.updateVolume = c.updateVolume
      /\ r.s.established = c.established /\ r.s.missed = c.missed
  BY <1>1, <1>5, SetStatusFacts
<1>8. s.track \in Tracks
  BY DEF TaskType
<1>9. Fresh(r)
  BY <1>1, <1>5, <1>6, <1>7 DEF Fresh, Alike, status
<1> QED BY <1>1, <1>5, <1>6, <1>7, <1>8, <1>9, OrderType DEF Alike, r

\* A track that cannot be read changes what is known of the track, if it plays.
LEMMA FailsFacts ==
    ASSUME NEW s \in TaskType
    PROVE  LET r == Fails(s)
           IN /\ r.s \in TaskType /\ r.send = <<>> /\ ~r.ok
              /\ r.s.status = s.status /\ r.s.track = s.track /\ r.s.active = s.active
              /\ r.s.context = s.context /\ r.s.id = s.id
              /\ Stays(s, r.s) /\ SameLeft(s, r.s)
              /\ r.s.left = "no" => s.status = "Stopped"
              /\ Away(s) => Away(r.s)
<1> DEFINE why == IF s.left = "no" /\ s.status # "Stopped" THEN "unread" ELSE s.left
           t == [s EXCEPT !.left = why]
<1>1. Fails(s).s = t /\ Fails(s).send = <<>> /\ ~Fails(s).ok
  BY DEF Fails
<1>2. /\ why \in LeftBy /\ (why \in LeftOn <=> s.left \in LeftOn)
      /\ why = "no" => s.left = "no" /\ s.status = "Stopped"
      /\ s.left = "noCluster" => why = "noCluster"
  BY DEF TaskType, LeftBy, LeftOn
<1> HIDE DEF why
<1>3. /\ t \in TaskType /\ t.left = why
      /\ t.status = s.status /\ t.track = s.track /\ t.active = s.active /\ t.context = s.context
      /\ t.id = s.id /\ t.crossed = s.crossed /\ t.shown = s.shown /\ t.update = s.update
      /\ t.told = s.told /\ t.updateVolume = s.updateVolume /\ t.established = s.established
      /\ t.missed = s.missed
  BY <1>2 DEF TaskType
<1> HIDE DEF t
<1> QED BY <1>1, <1>2, <1>3 DEF Stays, SameLeft, Away

\* set_volume asks for a report when it changes anything.
LEMMA SetVolumeFacts ==
    ASSUME NEW s \in TaskType, NEW v \in 0 .. Volumes
    PROVE  LET t == SetVolume(s, v)
           IN /\ t \in TaskType /\ Alike(s, t)
              /\ t.shown = s.shown /\ t.update = s.update /\ t.established = s.established
              /\ t.missed = s.missed /\ t.told = s.told
              /\ t.updateVolume \/ t = s
<1>1. CASE s.volume = v /\ s.mixer = v
  BY <1>1 DEF SetVolume, Alike
<1>2. CASE ~(s.volume = v /\ s.mixer = v)
  <2> DEFINE a == [s EXCEPT !.volume = v]
             b == [a EXCEPT !.mixer = v]
             t == [b EXCEPT !.updateVolume = TRUE]
  <2>1. SetVolume(s, v) = t
    BY <1>2 DEF SetVolume
  <2>2. a \in TaskType /\ Alike(s, a) /\ a.shown = s.shown /\ a.update = s.update
        /\ a.established = s.established /\ a.missed = s.missed /\ a.told = s.told
    BY DEF TaskType, Alike
  <2> HIDE DEF a
  <2>3. b \in TaskType /\ Alike(a, b) /\ b.shown = a.shown /\ b.update = a.update
        /\ b.established = a.established /\ b.missed = a.missed /\ b.told = a.told
    BY <2>2 DEF TaskType, Alike
  <2> HIDE DEF b
  <2>4. t \in TaskType /\ Alike(b, t) /\ t.shown = b.shown /\ t.update = b.update
        /\ t.established = b.established /\ t.missed = b.missed /\ t.told = b.told
        /\ t.updateVolume
    BY <2>3 DEF TaskType, Alike
  <2> HIDE DEF t
  <2>5. Alike(s, t)
    BY <2>2, <2>3, <2>4 DEF Alike
  <2> QED BY <2>1, <2>2, <2>3, <2>4, <2>5
<1> QED BY <1>1, <1>2

\* handle_play is one of the moves, and reports nothing by itself.
LEMMA HandlePlayFacts ==
    ASSUME NEW s \in TaskType
    PROVE  LET r == HandlePlay(s)
           IN /\ Handled(s, r)
              /\ r.s.update = s.update /\ r.s.missed = s.missed /\ r.s.established = s.established
<1> DEFINE status == IF s.status = "Paused" THEN "Playing" ELSE "LoadingPlay"
           a == [s EXCEPT !.status = status]
           t == SetVolume(a, s.mixer)
           r == HandlePlay(s)
<1>1. CASE s.status \in {"Paused", "LoadingPause"}
  <2>1. r.s = t /\ r.send = <<Order("Play")>> /\ r.ok
    BY <1>1 DEF HandlePlay, Sends
  <2>2. status \in Playing /\ status \in Statuses /\ (status \in Waiting => s.status \in Waiting)
        /\ status # "Stopped" /\ s.status # "Stopped"
    BY <1>1 DEF Playing, Statuses, Waiting
  <2> HIDE DEF status, r
  <2>3. /\ a \in TaskType /\ a.status = status /\ a.track = s.track /\ a.crossed = s.crossed
        /\ a.left = s.left /\ a.active = s.active /\ a.context = s.context /\ a.id = s.id
        /\ a.update = s.update /\ a.missed = s.missed /\ a.established = s.established
    BY <2>2 DEF TaskType
  <2>4. s.mixer \in 0 .. Volumes
    BY DEF TaskType
  <2> HIDE DEF a
  <2>5. t \in TaskType /\ Alike(a, t)
        /\ t.update = a.update /\ t.missed = a.missed /\ t.established = a.established
    BY <2>3, <2>4, SetVolumeFacts
  <2> HIDE DEF t
  <2>6. r.s.status = status /\ r.s.track = s.track /\ r.s.crossed = s.crossed /\ r.s.left = s.left
        /\ r.s.active = s.active /\ r.s.context = s.context /\ r.s.id = s.id
    BY <2>1, <2>3, <2>5 DEF Alike
  <2>7. Moves(s, r)
    BY <2>1, <2>2, <2>6 DEF Moves, Known, SameTrack
  <2>8. Away(s) => Away(r.s)
    BY <2>2, <2>6 DEF Away
  <2> QED BY <2>1, <2>3, <2>5, <2>6, <2>7, <2>8, OrderType DEF Handled, Breaks, r
<1>2. CASE s.status \notin {"Paused", "LoadingPause"}
  <2>1. r.s = s /\ r.send = <<>> /\ r.ok
    BY <1>2 DEF HandlePlay, Does
  <2> HIDE DEF r
  <2>2. Moves(s, r)
    BY <2>1 DEF Moves, Known, SameTrack
  <2> QED BY <2>1, <2>2, OrderType DEF Handled, Breaks, r
<1> QED BY <1>1, <1>2

\* handle_pause sends Pause where the status is one of playing, else nothing.
LEMMA HandlePauseFacts ==
    ASSUME NEW s \in TaskType
    PROVE  LET r == HandlePause(s)
           IN /\ Handled(s, r)
              /\ r.s.update = s.update /\ r.s.missed = s.missed /\ r.s.established = s.established
              /\ r.s.left = s.left /\ r.s.crossed = s.crossed
              /\ r.s.track = s.track /\ r.s.context = s.context /\ r.ok
              /\ \/ r.send = <<Order("Pause")>> /\ s.status \in Playing
                 \/ r.send = <<>> /\ s.status \notin Playing
              /\ r.s.status \notin Playing
<1> DEFINE status == IF s.status = "Playing" THEN "Paused" ELSE "LoadingPause"
           a == [s EXCEPT !.status = status]
           r == HandlePause(s)
<1>1. CASE s.status \in Playing
  <2>1. r.s = a /\ r.send = <<Order("Pause")>> /\ r.ok
    BY <1>1 DEF HandlePause, Sends, Playing
  <2>2. status \notin Playing /\ status \in Statuses /\ (status \in Waiting => s.status \in Waiting)
        /\ s.status # "Stopped" /\ status # "Stopped"
    BY <1>1 DEF Playing, Statuses, Waiting
  <2> HIDE DEF status, r
  <2>3. /\ a \in TaskType /\ a.status = status /\ a.track = s.track /\ a.crossed = s.crossed
        /\ a.left = s.left /\ a.active = s.active /\ a.context = s.context /\ a.id = s.id
        /\ a.update = s.update /\ a.missed = s.missed /\ a.established = s.established
    BY <2>2 DEF TaskType
  <2> HIDE DEF a
  <2>7. Moves(s, r)
    BY <2>1, <2>2, <2>3 DEF Moves, Known, SameTrack
  <2>8. Away(s) => Away(r.s)
    BY <2>1, <2>2, <2>3 DEF Away
  <2> QED BY <1>1, <2>1, <2>2, <2>3, <2>7, <2>8, OrderType DEF Handled, Breaks, r
<1>2. CASE s.status \notin Playing
  <2>1. r.s = s /\ r.send = <<>> /\ r.ok
    BY <1>2 DEF HandlePause, Does, Playing
  <2> HIDE DEF r
  <2>2. Moves(s, r)
    BY <2>1 DEF Moves, Known, SameTrack
  <2> QED BY <1>2, <2>1, <2>2, OrderType DEF Handled, Breaks, r
<1> QED BY <1>1, <1>2

\* handle_seek leaves the task's belief alone.
LEMMA HandleSeekFacts ==
    ASSUME NEW s \in TaskType
    PROVE  LET r == HandleSeek(s)
           IN Handled(s, r) /\ r.s = s
<1>1. HandleSeek(s).s = s /\ HandleSeek(s).send = <<Order("Seek")>> /\ HandleSeek(s).ok
  BY DEF HandleSeek, Sends
<1>2. Moves(s, HandleSeek(s))
  BY <1>1 DEF Moves, Known, SameTrack
<1> QED BY <1>1, <1>2, OrderType DEF Handled, Breaks

\* A stop, of a task that is as before but perhaps for its track.
LEMMA StopHandled ==
    ASSUME NEW s \in TaskType, NEW d \in TaskType,
           d = s \/ d = [s EXCEPT !.track = NoTrack]
    PROVE  LET r == HandleStop(d)
           IN /\ Handled(s, r)
              /\ r.s.update = s.update /\ r.s.missed = s.missed /\ r.s.established = s.established
<1>1. /\ d.status = s.status /\ d.crossed = s.crossed /\ d.left = s.left /\ d.active = s.active
      /\ d.context = s.context /\ d.id = s.id /\ d.track \in {s.track, NoTrack}
      /\ d.update = s.update /\ d.missed = s.missed /\ d.established = s.established
  BY DEF TaskType
<1> DEFINE r == HandleStop(d)
<1>2. /\ r.s \in TaskType /\ r.send = <<Order("Stop")>> /\ r.send \in Sent /\ r.ok
      /\ r.s.status = d.status /\ r.s.crossed = d.crossed /\ r.s.left = d.left
      /\ r.s.active = d.active /\ r.s.context = d.context /\ r.s.id = d.id
      /\ ~d.context => r.s.track = d.track
      /\ r.s.update = d.update /\ r.s.established = d.established /\ r.s.missed = d.missed
  BY HandleStopFacts
<1> HIDE DEF r
<1>3. Moves(s, r)
  BY <1>1, <1>2 DEF Moves, Known
<1>4. Away(s) => Away(r.s)
  BY <1>1, <1>2 DEF Away
<1> QED BY <1>1, <1>2, <1>3, <1>4 DEF Handled, Breaks, r

\* A task that is as before but for the track and the context.
Beside(s, d) ==
  /\ Stays(s, d) /\ d.id = s.id /\ d.active = s.active /\ SameLeft(s, d) /\ d.left = s.left

\* A load, of a task that is as before but for the track and the context.
LEMMA LoadHandled ==
    ASSUME NEW s \in TaskType, NEW d \in TaskType, NEW play \in BOOLEAN,
           d.track # NoTrack, Beside(s, d), s.active \/ s.track # NoTrack
    PROVE  LET r == LoadTrack(d, play)
           IN /\ Handled(s, r) /\ (Fresh(r) \/ (~r.ok /\ SameLeft(s, r.s)))
              /\ r.s.update = s.update /\ r.s.missed = s.missed /\ r.s.established = s.established
<1> DEFINE r == LoadTrack(d, play)
<1>1. CASE d.track \notin Unreadable
  <2>1. /\ r.s \in TaskType /\ r.send \in Sent /\ Fresh(r) /\ r.ok
        /\ r.s.active = d.active /\ r.s.id = d.id
        /\ r.s.update = d.update /\ r.s.established = d.established /\ r.s.missed = d.missed
    BY <1>1, LoadTrackFacts
  <2> HIDE DEF r
  <2>2. Moves(s, r)
    BY <2>1 DEF Moves
  <2>3. Away(s) => Away(r.s)
    BY <2>1 DEF Away, Beside, Fresh, LeftOn
  <2> QED BY <2>1, <2>2, <2>3 DEF Handled, Breaks, Beside, Stays, r
<1>2. CASE d.track \in Unreadable
  <2>1. r = Fails(d)
    BY <1>2 DEF LoadTrack
  <2> HIDE DEF r
  <2>2. /\ r.s \in TaskType /\ r.send = <<>> /\ ~r.ok
        /\ r.s.status = d.status /\ r.s.active = d.active /\ r.s.id = d.id
        /\ Stays(d, r.s) /\ SameLeft(d, r.s) /\ (r.s.left = "no" => d.status = "Stopped")
    BY <2>1, FailsFacts
  <2>3. Stays(s, r.s) /\ SameLeft(s, r.s) /\ r.s.status = s.status
    BY <2>2 DEF Beside, Stays, SameLeft
  <2>4. Moves(s, r)
    BY <2>2, <2>3 DEF Moves, Known, SameTrack, SameLeft
  <2>5. Away(s) => Away(r.s)
    BY <2>2, <2>3 DEF Away, Beside, SameLeft
  <2> QED BY <2>2, <2>3, <2>4, <2>5, OrderType DEF Handled, Breaks, Beside, Stays, r
<1> QED BY <1>1, <1>2

\* load_track is one of the moves, with a track and without.
LEMMA LoadTrackHandled ==
    ASSUME NEW s \in TaskType, NEW play \in BOOLEAN
    PROVE  LET r == LoadTrack(s, play)
           IN /\ Handled(s, r)
              /\ r.s.update = s.update /\ r.s.missed = s.missed /\ r.s.established = s.established
<1>1. CASE s.track = NoTrack
  <2>1. LoadTrack(s, play) = HandleStop(s)
    <3>1. s.track \notin Unreadable
      BY <1>1, SpircAssumption DEF NoTrack
    <3> QED BY <1>1, <3>1 DEF LoadTrack
  <2>2. LET r == HandleStop(s)
        IN /\ Handled(s, r)
           /\ r.s.update = s.update /\ r.s.missed = s.missed /\ r.s.established = s.established
    BY StopHandled
  <2> QED BY <2>1, <2>2
<1>2. CASE s.track # NoTrack
  <2>1. Beside(s, s)
    BY DEF Beside, Stays, SameLeft
  <2> QED BY <1>2, <2>1, LoadHandled
<1> QED BY <1>1, <1>2

\* Another track is all that changes with the track.
LEMMA AnotherTrack ==
    ASSUME NEW s \in TaskType, NEW t \in Tracks
    PROVE  LET d == [s EXCEPT !.track = t]
           IN d \in TaskType /\ d.track = t /\ Beside(s, d)
BY DEF TaskType, Beside, Stays, SameLeft

\* handle_next loads the next track, or sends Stop, or cannot read the next one.
LEMMA HandleNextFacts ==
    ASSUME NEW s \in TaskType
    PROVE  LET r == HandleNext(s)
           IN /\ Handled(s, r)
              /\ \/ Fresh(r)
                 \/ r.send = <<Order("Stop")>> /\ r.s.status = s.status /\ SameLeft(s, r.s)
                 \/ r.send = <<>> /\ ~r.ok /\ r.s.status = s.status /\ SameLeft(s, r.s)
              /\ r.s.update = s.update /\ r.s.missed = s.missed /\ r.s.established = s.established
<1> DEFINE a == [s EXCEPT !.track = @ + 1]
           b == [s EXCEPT !.track = NoTrack]
<1>1. CASE s.context /\ s.track \in 1 .. Size - 1
  <2>1. s.track + 1 \in Tracks /\ s.track + 1 # NoTrack /\ s.track # NoTrack
    BY <1>1, SpircAssumption DEF Tracks, NoTrack
  <2>2. a \in TaskType /\ a.track = s.track + 1 /\ Beside(s, a)
    BY <2>1, AnotherTrack
  <2>3. HandleNext(s) = LoadTrack(a, s.shown = "playing")
    BY <1>1 DEF HandleNext
  <2>4. (s.shown = "playing") \in BOOLEAN
    OBVIOUS
  <2> HIDE DEF a
  <2>5. LET r == LoadTrack(a, s.shown = "playing")
        IN /\ Handled(s, r) /\ (Fresh(r) \/ (~r.ok /\ SameLeft(s, r.s)))
           /\ r.s.update = s.update /\ r.s.missed = s.missed /\ r.s.established = s.established
    BY <2>1, <2>2, <2>4, LoadHandled
  <2> QED BY <2>3, <2>5 DEF Handled, Breaks, Stays
<1>2. CASE ~(s.context /\ s.track \in 1 .. Size - 1)
  <2>1. HandleNext(s) = HandleStop(b)
    BY <1>2 DEF HandleNext
  <2>2. b \in TaskType /\ b.status = s.status /\ b.crossed = s.crossed /\ b.left = s.left
    BY DEF TaskType
  <2>3. LET r == HandleStop(b)
        IN /\ Handled(s, r)
           /\ r.s.update = s.update /\ r.s.missed = s.missed /\ r.s.established = s.established
    BY <2>2, StopHandled
  <2> HIDE DEF b
  <2>4. LET r == HandleStop(b)
        IN r.send = <<Order("Stop")>> /\ r.s.status = b.status
           /\ r.s.crossed = b.crossed /\ r.s.left = b.left
    BY <2>2, HandleStopFacts
  <2> QED BY <2>1, <2>2, <2>3, <2>4 DEF SameLeft
<1> QED BY <1>1, <1>2

\* handle_prev is one of the moves, whether it goes back or seeks.
LEMMA HandlePrevFacts ==
    ASSUME NEW s \in TaskType, NEW early \in BOOLEAN
    PROVE  LET r == HandlePrev(s, early)
           IN /\ Handled(s, r)
              /\ r.s.update = s.update /\ r.s.missed = s.missed /\ r.s.established = s.established
<1> DEFINE a == [s EXCEPT !.track = @ - 1]
<1>1. CASE ~early
  <2>1. HandlePrev(s, early) = HandleSeek(s)
    BY <1>1 DEF HandlePrev
  <2> QED BY <2>1, HandleSeekFacts
<1>2. CASE early /\ s.track > 1
  <2>1. s.track - 1 \in Tracks /\ s.track - 1 # NoTrack /\ s.track # NoTrack
    BY <1>2, SpircAssumption DEF Tracks, NoTrack, TaskType
  <2>2. a \in TaskType /\ a.track = s.track - 1 /\ Beside(s, a)
    BY <2>1, AnotherTrack
  <2>3. HandlePrev(s, early) = LoadTrack(a, s.shown = "playing")
    BY <1>2 DEF HandlePrev
  <2>4. (s.shown = "playing") \in BOOLEAN
    OBVIOUS
  <2> HIDE DEF a
  <2>5. LET r == LoadTrack(a, s.shown = "playing")
        IN /\ Handled(s, r)
           /\ r.s.update = s.update /\ r.s.missed = s.missed /\ r.s.established = s.established
    BY <2>1, <2>2, <2>4, LoadHandled
  <2> QED BY <2>3, <2>5
<1>3. CASE early /\ ~(s.track > 1)
  <2>1. HandlePrev(s, early) = HandleStop(s)
    BY <1>3 DEF HandlePrev
  <2> QED BY <2>1, StopHandled
<1> QED BY <1>1, <1>2, <1>3

\* handle_play_pause is one of the moves, in every status.
LEMMA HandlePlayPauseFacts ==
    ASSUME NEW s \in TaskType
    PROVE  LET r == HandlePlayPause(s)
           IN /\ Handled(s, r)
              /\ r.s.update = s.update /\ r.s.missed = s.missed /\ r.s.established = s.established
BY HandlePlayFacts, HandlePauseFacts DEF HandlePlayPause

\* A device that became inactive has no track, and its server knows it or a put
\* was missed.
LEMMA BecameInactiveFacts ==
    ASSUME NEW s \in TaskType, NEW ok \in BOOLEAN
    PROVE  LET t == BecameInactive(s, ok)
           IN /\ t \in TaskType
              /\ t.status = s.status /\ t.crossed = s.crossed /\ t.left = s.left /\ t.id = s.id
              /\ ~t.active /\ t.track = NoTrack /\ ~t.context
              /\ ~ok => t.missed = "put"
              /\ \A due : Reported(t, due)
<1> DEFINE a == [s EXCEPT !.active = FALSE]
           b == [a EXCEPT !.shown = "none"]
           c == [b EXCEPT !.track = NoTrack]
           f == [c EXCEPT !.context = FALSE]
           d == Again(f)
           t == BecameInactive(s, ok)
<1>1. t = Put(d, ok)
  BY DEF BecameInactive
<1> HIDE DEF t
<1>2. /\ a \in TaskType /\ ~a.active
      /\ a.status = s.status /\ a.crossed = s.crossed /\ a.left = s.left /\ a.id = s.id
  BY DEF TaskType
<1> HIDE DEF a
<1>3. /\ b \in TaskType /\ ~b.active
      /\ b.status = s.status /\ b.crossed = s.crossed /\ b.left = s.left /\ b.id = s.id
  BY <1>2 DEF TaskType
<1> HIDE DEF b
<1>4. /\ c \in TaskType /\ ~c.active /\ c.track = NoTrack
      /\ c.status = s.status /\ c.crossed = s.crossed /\ c.left = s.left /\ c.id = s.id
  BY <1>3 DEF TaskType
<1> HIDE DEF c
<1>11. /\ f \in TaskType /\ ~f.active /\ f.track = NoTrack /\ ~f.context
       /\ f.status = s.status /\ f.crossed = s.crossed /\ f.left = s.left /\ f.id = s.id
  BY <1>4 DEF TaskType
<1> HIDE DEF f
<1>5. /\ d \in TaskType /\ ~d.active /\ d.track = NoTrack /\ ~d.context
      /\ d.status = s.status /\ d.crossed = s.crossed /\ d.left = s.left /\ d.id = s.id
  BY <1>11, AgainFacts DEF Alike
<1> HIDE DEF d
<1>6. /\ t \in TaskType /\ Alike(d, t)
      /\ ok => t.told = View(d) /\ t.missed = d.missed
      /\ ~ok => t.missed = "put"
  BY <1>1, <1>5, PutFacts
<1>7. View(d).active = d.active
  BY DEF View
<1>8. ~t.active /\ (ok => t.told.active = FALSE)
  BY <1>5, <1>6, <1>7 DEF Alike, TaskType
<1>9. ASSUME NEW due PROVE Reported(t, due)
  BY <1>6, <1>8 DEF Reported, TaskType
<1>10. /\ t.status = s.status /\ t.crossed = s.crossed /\ t.left = s.left /\ t.id = s.id
       /\ t.track = NoTrack /\ ~t.context
  BY <1>5, <1>6 DEF Alike
<1> QED BY <1>6, <1>8, <1>9, <1>10 DEF t

\* handle_disconnect stops, lets go of the device, and misses a put that fails.
LEMMA HandleDisconnectFacts ==
    ASSUME NEW s \in TaskType, NEW first \in BOOLEAN, NEW second \in BOOLEAN
    PROVE  LET t == HandleDisconnect(s, first, second)
           IN /\ t \in TaskType /\ t.status = "Stopped"
              /\ t.crossed = s.crossed /\ t.left = s.left /\ t.id = s.id
              /\ first => ~t.active /\ t.track = NoTrack /\ ~t.context
              /\ ~first => t.active = s.active /\ t.track = s.track /\ t.context = s.context
              /\ ~first \/ ~second => t.missed = "put"
              /\ Away(s) => Away(t)
              /\ \A due : Reported(t, due)
<1> DEFINE a == [s EXCEPT !.status = "Stopped"]
           b == Notify(a, first)
           t == HandleDisconnect(s, first, second)
<1>1. /\ a \in TaskType /\ a.status = "Stopped" /\ a.active = s.active /\ a.track = s.track
      /\ a.context = s.context /\ a.crossed = s.crossed /\ a.left = s.left /\ a.id = s.id
  BY DEF TaskType, Statuses
<1>0. t = IF first THEN BecameInactive(b, second) ELSE b
  BY DEF HandleDisconnect
<1> HIDE DEF a, t
<1>2. b \in TaskType /\ Alike(a, b) /\ (~first => b.missed = "put") /\ \A due : Reported(b, due)
  BY <1>1, NotifyFacts
<1> HIDE DEF b
<1>3. CASE first
  <2>1. /\ t \in TaskType
        /\ t.status = b.status /\ t.crossed = b.crossed /\ t.left = b.left /\ t.id = b.id
        /\ ~t.active /\ t.track = NoTrack /\ ~t.context
        /\ ~second => t.missed = "put"
        /\ \A due : Reported(t, due)
    BY <1>0, <1>2, <1>3, BecameInactiveFacts
  <2> QED BY <1>1, <1>2, <1>3, <2>1 DEF Alike, Away, t
<1>4. CASE ~first
  BY <1>0, <1>1, <1>2, <1>4 DEF Alike, Away, t
<1> QED BY <1>3, <1>4

-----------------------------------------------------------------------------
(* Spirc: what the steps of the task have in common.                           *)

Loops == {"running", "broken", "shutdown", "ended"}

\* The start of a track is still to be heard of: it will set the timer that puts.
Due(o, ev) == Loads(o) \/ HasStart(ev)

IsResult(r) == r = [s |-> r.s, send |-> r.send, ok |-> r.ok]
\* The handlers return a state, the commands to send, and whether they succeeded.
LEMMA Results ==
    /\ \A s : /\ IsResult(Does(s)) /\ IsResult(HandleStop(s)) /\ IsResult(HandlePlay(s))
              /\ IsResult(HandlePause(s)) /\ IsResult(HandlePlayPause(s)) /\ IsResult(HandleSeek(s))
    /\ \A s, play : IsResult(LoadTrack(s, play))
    /\ \A s : IsResult(HandleNext(s))
    /\ \A s, early : IsResult(HandlePrev(s, early))
<1>1. \A s : IsResult(Does(s)) /\ IsResult(HandleStop(s)) /\ IsResult(HandleSeek(s))
  BY DEF IsResult, Does, Sends, HandleStop, HandleSeek
<1>2. \A s : IsResult(HandlePlay(s)) /\ IsResult(HandlePause(s))
  BY DEF IsResult, Does, Sends, HandlePlay, HandlePause
<1>3. \A s : IsResult(HandlePlayPause(s))
  BY <1>2 DEF HandlePlayPause
<1>7. ASSUME NEW s, NEW play PROVE IsResult(LoadTrack(s, play))
  <2>1. CASE s.track = NoTrack
    <3>1. LoadTrack(s, play) = HandleStop(s)
      <4>1. s.track \notin Unreadable
        BY <2>1, SpircAssumption DEF NoTrack
      <4> QED BY <2>1, <4>1 DEF LoadTrack
    <3>2. IsResult(HandleStop(s))
      BY <1>1
    <3> QED BY <3>1, <3>2, Zenon
  <2>2. CASE s.track # NoTrack /\ s.track \in Unreadable
    BY <2>2 DEF LoadTrack, Fails, IsResult
  <2>3. CASE s.track # NoTrack /\ s.track \notin Unreadable
    BY <2>3 DEF LoadTrack, Sends, IsResult
  <2> QED BY <2>1, <2>2, <2>3
<1>4. \A s, play : IsResult(LoadTrack(s, play))
  BY <1>7
<1>5. \A s : IsResult(HandleNext(s))
  BY <1>1, <1>4 DEF HandleNext
<1>6. \A s, early : IsResult(HandlePrev(s, early))
  BY <1>1, <1>4 DEF HandlePrev
<1> QED BY <1>1, <1>2, <1>3, <1>4, <1>5, <1>6

\* A result that a step of the task may have.
Fit(r) ==
  /\ IsResult(r) /\ r.s \in TaskType /\ r.send \in Sent /\ r.s.id = task.id
  /\ Moves(task, r) /\ Away(r.s)

\* A result that ends a handler: an error has put nothing of what it changed.
Sound(r) == Fit(r) /\ Breaks(task, r)

\* A state that differs in what was reported only is as fit as the other.
LEMMA FitAlike ==
    ASSUME NEW r, Fit(r), NEW t \in TaskType, Alike(r.s, t)
    PROVE  Fit(After(r, t)) /\ After(r, t).s = t /\ After(r, t).send = r.send
<1> DEFINE q == After(r, t)
<1>1. q = [s |-> t, send |-> r.send, ok |-> r.ok]
  BY DEF After, Fit, IsResult
<1>2. q.s = t /\ q.send = r.send /\ IsResult(q)
  BY <1>1 DEF IsResult
<1> HIDE DEF q
<1>3. Fresh(r) => Fresh(q)
  BY <1>2 DEF Fresh, Alike
<1>4. Moves(task, q)
  BY <1>2, <1>3 DEF Fit, Moves, Known, SameTrack, Alike
<1>5. Away(t)
  BY DEF Fit, Away, Alike
<1> QED BY <1>2, <1>4, <1>5 DEF Fit, Alike, q

\* A move of the task as it stands is fit.
LEMMA HandledFits ==
    ASSUME NEW r, IsResult(r), Handled(task, r), Away(task)
    PROVE  Sound(r)
BY DEF Handled, Fit, Sound

\* What is as the task is but for the track, the context and who is active.
Aside(d) == d.id = task.id /\ d.status = task.status /\ SameLeft(task, d) /\ d.left = task.left

\* Loading a track on an active device is fit: a fresh start, or an error.
LEMMA LoadFits ==
    ASSUME Away(task), NEW d \in TaskType, d.track # NoTrack, d.active, Aside(d), NEW play \in BOOLEAN
    PROVE  LET r == LoadTrack(d, play)
           IN /\ Fit(r) /\ r.s.active
              /\ \/ r.ok /\ Fresh(r) /\ r.s.shown = Shown(r.s.status)
                 \/ ~r.ok /\ r.send = <<>> /\ Stays(d, r.s)
<1> DEFINE r == LoadTrack(d, play)
<1>1. IsResult(r)
  BY Results
<1>2. CASE d.track \notin Unreadable
  <2>1. /\ r.s \in TaskType /\ r.send \in Sent /\ Fresh(r) /\ r.ok
        /\ r.s.active = d.active /\ r.s.id = d.id /\ r.s.shown = Shown(r.s.status)
    BY <1>2, LoadTrackFacts
  <2> HIDE DEF r
  <2> QED BY <1>1, <2>1 DEF Fit, Moves, Away, Aside, Fresh, LeftOn, r
<1>3. CASE d.track \in Unreadable
  <2>1. r = Fails(d)
    BY <1>3 DEF LoadTrack
  <2> HIDE DEF r
  <2>2. /\ r.s \in TaskType /\ r.send = <<>> /\ ~r.ok
        /\ r.s.status = d.status /\ r.s.active = d.active /\ r.s.id = d.id
        /\ Stays(d, r.s) /\ SameLeft(d, r.s) /\ (r.s.left = "no" => d.status = "Stopped")
    BY <2>1, FailsFacts
  <2>3. SameLeft(task, r.s) /\ r.s.status = task.status
    BY <2>2 DEF Aside, SameLeft
  <2>4. Moves(task, r)
    BY <2>2, <2>3 DEF Moves, Known, SameTrack, SameLeft
  <2> QED BY <1>1, <2>2, <2>3, <2>4, OrderType DEF Fit, Away, Aside, SameLeft, r
<1> QED BY <1>2, <1>3

\* A step of the task that is not an event of the player.
Conducts(r) ==
  /\ Fit(r) /\ Becomes(r) /\ UNCHANGED <<player, events>>
  /\ loop' \in Loops
  /\ loop' = "running" => Running /\ Reported(r.s, Due(out \o r.send, events))

Ready ==
  /\ task \in TaskType /\ loop \in Loops /\ out \in Seq(Commands)
  /\ Away(task)
  /\ Running => Reported(task, Due(out, events))

\* What a handler that ends by an error shows of itself is what was shown, or it
\* is marked.
Hidden(s, u) ==
  /\ u.status = s.status /\ u.shown = s.shown /\ u.update = s.update /\ u.told = s.told
  /\ u.updateVolume = s.updateVolume /\ u.established = s.established
  /\ u.missed = "no" => s.missed = "no" /\ View(u) = View(task)

\* Marking an error changes the mark only.
LEMMA UnputFacts ==
    ASSUME NEW s \in TaskType, NEW t \in TaskType, Stays(s, t)
    PROVE  LET u == Unput(t) IN u \in TaskType /\ Alike(t, u) /\ Hidden(s, u)
<1> DEFINE missed == IF View(t) = View(task) THEN t.missed ELSE "error"
           u == Unput(t)
<1>2. u = [t EXCEPT !.missed = missed]
  BY DEF Unput
<1>4. missed \in {"no", "put", "error"} /\ (missed = "no" => t.missed = "no" /\ View(t) = View(task))
  BY DEF TaskType
<1> HIDE DEF u, missed
<1>5. /\ u \in TaskType /\ Alike(t, u) /\ View(u) = View(t) /\ u.missed = missed
      /\ u.shown = t.shown /\ u.update = t.update /\ u.told = t.told
      /\ u.updateVolume = t.updateVolume /\ u.established = t.established
  BY <1>2, <1>4 DEF TaskType, Alike, View
<1>6. Hidden(s, u)
  BY <1>4, <1>5 DEF Hidden, Stays, Alike
<1> QED BY <1>5, <1>6 DEF u

\* An error that is not marked leaves the server as well informed as it was.
LEMMA HiddenReported ==
    ASSUME NEW s, View(s) = View(task), NEW due, Reported(s, due), NEW u, Hidden(s, u)
    PROVE  Reported(u, due)
<1>1. /\ View(u).active = u.active /\ View(s).active = s.active
  BY DEF View
<1> QED BY <1>1 DEF Reported, Hidden

\* An error that puts nothing leaves the server as well informed as it was.
LEMMA ErrorConducts ==
    ASSUME Ready, Running, NEW r, Sound(r), ~r.ok,
           Becomes(After(r, Unput(r.s))), UNCHANGED <<player, events, loop>>
    PROVE  \E q : Conducts(q)
<1> DEFINE t == r.s
           u == Unput(t)
           q == After(r, u)
<1>1. t \in TaskType /\ r.send = <<>> /\ Stays(task, t) /\ Fit(r) /\ task \in TaskType
  BY DEF Sound, Fit, Breaks, Ready
<1>3. Becomes(q)
  OBVIOUS
<1> HIDE DEF t
<1>5. u \in TaskType /\ Alike(t, u) /\ Hidden(task, u)
  BY <1>1, UnputFacts
<1> HIDE DEF u
<1>6. Fit(q) /\ q.s = u /\ q.send = <<>>
  BY <1>1, <1>5, FitAlike DEF t
<1> HIDE DEF q
<1>7. Reported(task, Due(out, events)) /\ out \o <<>> = out
  BY DEF Ready
<1>10. Reported(u, Due(out, events))
  BY <1>5, <1>7, HiddenReported
<1>11. Conducts(q)
  BY <1>3, <1>6, <1>7, <1>10 DEF Conducts, Ready, Running
<1> QED BY <1>11

\* A handler that ends with notify, or by an error, is a conduct of the task.
LEMMA NotifiedConducts ==
    ASSUME Ready, Running, NEW r, Sound(r), NEW ok \in BOOLEAN,
           Becomes(Notified(r, ok)), UNCHANGED <<player, events, loop>>
    PROVE  \E q : Conducts(q)
<1> DEFINE t == Notify(r.s, ok)
           q == After(r, t)
<1>5. CASE r.ok
  <2>1. t \in TaskType /\ Alike(r.s, t) /\ \A due : Reported(t, due)
    BY NotifyFacts DEF Fit, Sound
  <2>3. Becomes(q)
    BY <1>5 DEF Notified
  <2> HIDE DEF t
  <2>2. Fit(q) /\ q.s = t
    BY <2>1, FitAlike DEF Sound
  <2> HIDE DEF q
  <2>4. Conducts(q)
    BY <2>1, <2>2, <2>3 DEF Conducts, Ready, Running
  <2> QED BY <2>4
<1>6. CASE ~r.ok
  BY <1>6, ErrorConducts DEF Notified
<1> QED BY <1>5, <1>6

\* A handler that leaves the report to the timer, or ends by an error, is a
\* conduct of the task.
LEMMA Deferred ==
    ASSUME Ready, Running, NEW r, Sound(r),
           Becomes(Later(r)), UNCHANGED <<player, events, loop>>
    PROVE  \E q : Conducts(q)
<1> DEFINE t == [r.s EXCEPT !.update = TRUE]
           q == After(r, t)
<1>5. CASE r.ok
  <2>1. t \in TaskType /\ Alike(r.s, t) /\ t.update
    BY DEF Fit, Sound, TaskType, Alike
  <2>2. Becomes(q)
    BY <1>5 DEF Later
  <2> HIDE DEF t
  <2>3. Fit(q) /\ q.s = t
    BY <2>1, FitAlike DEF Sound
  <2> HIDE DEF q
  <2>4. Conducts(q)
    BY <2>1, <2>2, <2>3 DEF Conducts, Ready, Running, Reported
  <2> QED BY <2>4
<1>6. CASE ~r.ok
  BY <1>6, ErrorConducts DEF Later
<1> QED BY <1>5, <1>6

\* A step that changes neither what is believed nor who is active.
LEMMA Quiet ==
    ASSUME Ready, Running, NEW t \in TaskType, Alike(task, t), task' = t, out' = out,
           Reported(t, Due(out, events)), UNCHANGED <<player, events, loop>>
    PROVE  \E q : Conducts(q)
<1> DEFINE q == Does(t)
<1>1. q.s = t /\ q.send = <<>> /\ IsResult(q)
  BY Results DEF Does
<1> HIDE DEF q
<1>2. Moves(task, q)
  BY <1>1 DEF Moves, Known, SameTrack, Alike
<1>3. out \o q.send = out
  BY <1>1 DEF Ready
<1>4. Fit(q)
  BY <1>1, <1>2, OrderType DEF Fit, Ready, Away, Alike
<1>5. Conducts(q)
  BY <1>1, <1>3, <1>4 DEF Conducts, Becomes, Ready, Running
<1> QED BY <1>5

-----------------------------------------------------------------------------
(* Spirc: the steps of the task.                                               *)

\* Another device or the user names a track: the task that loads it.
LEMMA Chosen ==
    ASSUME NEW s \in TaskType, NEW t \in Tracks
    PROVE  LET d == [s EXCEPT !.track = t, !.context = TRUE]
           IN /\ d \in TaskType /\ d.track = t /\ d.track # NoTrack
              /\ d.active = s.active /\ Stays(s, d)
              /\ d.id = s.id /\ d.left = s.left /\ d.crossed = s.crossed
<1> DEFINE a == [s EXCEPT !.track = t]
           d == [a EXCEPT !.context = TRUE]
<1>1. /\ a \in TaskType /\ a.track = t /\ a.active = s.active /\ Stays(s, a)
      /\ a.id = s.id /\ a.left = s.left /\ a.crossed = s.crossed
  BY DEF TaskType, Stays
<1>2. d = [s EXCEPT !.track = t, !.context = TRUE]
  OBVIOUS
<1>3. t # NoTrack
  BY DEF Tracks, NoTrack
<1> HIDE DEF a
<1>4. /\ d \in TaskType /\ d.track = t /\ d.active = s.active /\ Stays(a, d)
      /\ d.id = s.id /\ d.left = s.left /\ d.crossed = s.crossed
  BY <1>1 DEF TaskType, Stays
<1> HIDE DEF d
<1>5. Stays(s, d)
  BY <1>1, <1>4 DEF Stays
<1> QED BY <1>2, <1>3, <1>4, <1>5

\* handle_activate makes the device active and keeps its belief.
LEMMA Activated ==
    ASSUME NEW s \in TaskType
    PROVE  LET d == HandleActivate(s)
           IN /\ d \in TaskType /\ d.active /\ d.status = s.status /\ d.track = s.track
              /\ d.crossed = s.crossed /\ d.left = s.left /\ d.id = s.id
              /\ d.context = s.context /\ Stays(s, d)
BY DEF HandleActivate, TaskType, Stays

\* Activating the device and loading a track is fit: a fresh start, or an error.
LEMMA ActivatedLoad ==
    ASSUME Away(task), NEW s \in TaskType, Aside(s), NEW t \in Tracks, NEW play \in BOOLEAN
    PROVE  LET r == LoadTrack([HandleActivate(s) EXCEPT !.track = t, !.context = TRUE], play)
           IN /\ Fit(r) /\ r.s.active
              /\ \/ r.ok /\ Fresh(r) /\ r.s.shown = Shown(r.s.status)
                 \/ ~r.ok /\ r.send = <<>> /\ Stays(s, r.s)
<1> DEFINE a == HandleActivate(s)
           d == [a EXCEPT !.track = t, !.context = TRUE]
<1>1. /\ a \in TaskType /\ a.active /\ a.id = s.id /\ Stays(s, a)
      /\ a.left = s.left /\ a.crossed = s.crossed
  BY Activated
<1> HIDE DEF a
<1>2. /\ d \in TaskType /\ d.track # NoTrack /\ d.active = a.active /\ Stays(a, d)
      /\ d.id = a.id /\ d.left = a.left /\ d.crossed = a.crossed
  BY <1>1, Chosen
<1> HIDE DEF d
<1>3. Aside(d) /\ Stays(s, d)
  BY <1>1, <1>2 DEF Aside, Stays, SameLeft
<1>4. LET r == LoadTrack(d, play)
      IN /\ Fit(r) /\ r.s.active
         /\ \/ r.ok /\ Fresh(r) /\ r.s.shown = Shown(r.s.status)
            \/ ~r.ok /\ r.send = <<>> /\ Stays(d, r.s)
  BY <1>1, <1>2, <1>3, LoadFits
<1>5. LET r == LoadTrack(d, play)
      IN ~r.ok /\ Stays(d, r.s) => Stays(s, r.s)
  BY <1>3 DEF Stays
<1> QED BY <1>4, <1>5 DEF d, a

\* The same, of the task itself.
LEMMA TaskLoads ==
    ASSUME Ready, NEW t \in Tracks, NEW play \in BOOLEAN
    PROVE  Sound(LoadTrack([HandleActivate(task) EXCEPT !.track = t, !.context = TRUE], play))
<1> DEFINE r == LoadTrack([HandleActivate(task) EXCEPT !.track = t, !.context = TRUE], play)
<1>1. task \in TaskType /\ Aside(task) /\ Away(task)
  BY DEF Ready, Aside, SameLeft
<1>2. /\ Fit(r)
      /\ r.ok \/ (r.send = <<>> /\ Stays(task, r.s))
  BY <1>1, ActivatedLoad
<1> HIDE DEF r
<1>3. Sound(r)
  BY <1>2 DEF Sound, Breaks
<1> QED BY <1>3 DEF r

\* A new connection id, with or without a transfer, is a conduct of the task.
LEMMA ConnectionIdConducts ==
    ASSUME Ready, NEW ok \in BOOLEAN, NEW t \in Tracks \cup {NoTrack}, NEW play \in BOOLEAN,
           ConnectionId(ok, t, play)
    PROVE  \E r : Conducts(r)
<1> DEFINE p == Put(task, ok)
           there == [p EXCEPT !.established = ok \/ task.established]
           r == LoadTrack([HandleActivate(there) EXCEPT !.track = t, !.context = TRUE], play)
           q == IF ok /\ t # NoTrack THEN r ELSE Does(there)
<1>1. /\ Running /\ Becomes(q) /\ loop' = (IF ok /\ q.ok THEN loop ELSE "broken")
      /\ UNCHANGED <<player, events>>
  BY DEF ConnectionId
<1>2. /\ p \in TaskType /\ Alike(task, p) /\ p.shown = task.shown /\ p.update = task.update
      /\ p.updateVolume = task.updateVolume /\ p.volume = task.volume
      /\ ok => p.told = View(task) /\ p.missed = task.missed
  BY PutFacts DEF Ready
<1>3. task.established \in BOOLEAN
  BY DEF Ready, TaskType
<1> HIDE DEF p
<1>4. /\ there \in TaskType /\ Alike(p, there) /\ there.shown = p.shown /\ there.update = p.update
      /\ there.told = p.told /\ there.missed = p.missed /\ there.volume = p.volume
      /\ there.id = task.id
  BY <1>2, <1>3 DEF TaskType, Alike
<1> HIDE DEF there
<1>8. Aside(there)
  BY <1>2, <1>4 DEF Aside, Alike, SameLeft
<1>9. Away(task)
  BY DEF Ready
<1>5. CASE ok /\ t # NoTrack
  <2>1. /\ Fit(r) /\ r.s.active
        /\ ~r.ok \/ (Fresh(r) /\ r.s.shown = Shown(r.s.status))
    BY <1>4, <1>5, <1>8, <1>9, ActivatedLoad
  <2>6. Becomes(r) /\ loop' = IF r.ok THEN loop ELSE "broken"
    BY <1>1, <1>5
  <2> HIDE DEF r
  <2>7. CASE ~r.ok
    <3>1. Conducts(r)
      BY <1>1, <2>1, <2>6, <2>7 DEF Conducts, Loops
    <3> QED BY <3>1
  <2>8. CASE r.ok
    <3>2. PICK c \in Commands : r.send = <<c>> /\ IsLoad(c)
      <4>1. PICK b \in BOOLEAN : r.s.track # NoTrack /\ r.send = <<Load(r.s.track, b)>>
        BY <2>1, <2>8 DEF Fresh
      <4>2. r.s.track \in Tracks
        BY <2>1, <4>1 DEF Fit, TaskType
      <4> QED BY <4>1, <4>2 DEF Load, IsLoad, Commands
    <3>3. Due(out \o r.send, events)
      BY <3>2, SentAfter DEF Due, Ready
    <3>4. Reported(r.s, Due(out \o r.send, events))
      BY <2>1, <2>8, <3>3 DEF Reported
    <3>5. Conducts(r)
      BY <1>1, <2>1, <2>6, <2>8, <3>4 DEF Conducts, Ready, Running
    <3> QED BY <3>5
  <2> QED BY <2>7, <2>8
<1>6. CASE ok /\ t = NoTrack
  <2>1. View(there) = View(task)
    BY <1>2, <1>4 DEF View, Alike
  <2>2. there.told = View(there) /\ View(there).active = there.active
    BY <1>2, <1>4, <1>6, <2>1 DEF View
  <2>3. Reported(there, Due(out, events))
    BY <1>1, <1>2, <1>4, <1>6, <2>2 DEF Reported, Ready, Alike
  <2>4. Alike(task, there)
    BY <1>2, <1>4 DEF Alike
  <2>5. task' = there /\ out' = out
    BY <1>1, <1>6 DEF Becomes, Does, Ready
  <2>6. loop' = loop
    BY <1>1, <1>6 DEF Does
  <2> QED BY <1>1, <1>4, <1>6, <2>3, <2>4, <2>5, <2>6, Quiet
<1>7. CASE ~ok
  <2>1. q.s = there /\ q.send = <<>> /\ IsResult(q) /\ Becomes(q) /\ loop' = "broken"
    BY <1>1, <1>7, Results DEF Does
  <2> HIDE DEF q
  <2>2. Moves(task, q) /\ Away(there)
    BY <1>2, <1>4, <2>1 DEF Moves, Known, SameTrack, Alike, Ready, Away
  <2>3. Conducts(q)
    BY <1>1, <1>4, <2>1, <2>2, OrderType DEF Conducts, Fit, Loops
  <2> QED BY <2>3
<1> QED BY <1>5, <1>6, <1>7

\* A device that leaves is stopped, and calls itself so; what is known of it
\* depends on whether it played.
LEMMA LeavesFacts ==
    ASSUME NEW s \in TaskType, NEW why \in LeftOn, NEW first \in BOOLEAN, NEW second \in BOOLEAN
    PROVE  LET t == Leaves(s, why, first, second)
           IN /\ t \in TaskType /\ t.status = "Stopped" /\ t.crossed = s.crossed /\ t.id = s.id
              /\ IF s.status \in Playing THEN ~Known(t) ELSE t.left = s.left
              /\ Away(s) => Away(t)
              /\ \A due : Reported(t, due)
<1> DEFINE gone == HandleDisconnect(s, first, second)
           cause == IF s.status \in Playing THEN why ELSE gone.left
           t == [gone EXCEPT !.left = cause]
<1>1. t = Leaves(s, why, first, second)
  BY DEF Leaves
<1>2. /\ gone \in TaskType /\ gone.status = "Stopped"
      /\ gone.crossed = s.crossed /\ gone.left = s.left /\ gone.id = s.id
      /\ Away(s) => Away(gone)
      /\ \A due : Reported(gone, due)
  BY HandleDisconnectFacts
<1> HIDE DEF gone
<1>3. cause \in LeftBy /\ (IF s.status \in Playing THEN cause \in LeftOn ELSE cause = s.left)
  BY <1>2 DEF TaskType, LeftBy
<1> HIDE DEF cause
<1>4. /\ t \in TaskType /\ t.left = cause /\ t.status = gone.status /\ t.crossed = gone.crossed
      /\ t.id = gone.id /\ t.active = gone.active /\ t.track = gone.track
      /\ t.context = gone.context /\ t.missed = gone.missed /\ t.update = gone.update
      /\ t.updateVolume = gone.updateVolume /\ t.told = gone.told
      /\ t.established = gone.established /\ t.shown = gone.shown /\ View(t) = View(gone)
  BY <1>2, <1>3 DEF TaskType, View
<1>5. \A due : Reported(t, due)
  BY <1>2, <1>4 DEF Reported
<1> HIDE DEF t
<1>6. Away(s) => Away(t)
  BY <1>2, <1>4 DEF Away
<1>7. IF s.status \in Playing THEN ~Known(t) ELSE t.left = s.left
  BY <1>3, <1>4 DEF Known
<1> QED BY <1>1, <1>2, <1>4, <1>5, <1>6, <1>7

\* A cluster in which another device is active is a conduct of the task.
LEMMA OtherDeviceActiveConducts ==
    ASSUME Ready, NEW first \in BOOLEAN, NEW second \in BOOLEAN, OtherDeviceActive(first, second)
    PROVE  \E r : Conducts(r)
<1> DEFINE gone == HandleDisconnect(task, TRUE, TRUE)
           a == [gone EXCEPT !.left = "no"]
           b == [a EXCEPT !.crossed = "no"]
           failed == Leaves(task, "failed", first, second)
           r == IF first /\ second THEN HandleStop(b) ELSE Does(failed)
<1>1. Running /\ Becomes(r) /\ UNCHANGED <<player, events, loop>>
  BY DEF OtherDeviceActive, Input, Quietly
<1>3. CASE first /\ second
  <2>0. r = HandleStop(b)
    BY <1>3
  <2> HIDE DEF r
  <2>1. /\ gone \in TaskType /\ gone.status = "Stopped" /\ gone.id = task.id
        /\ ~gone.active /\ gone.track = NoTrack /\ ~gone.context
        /\ \A due : Reported(gone, due)
    BY HandleDisconnectFacts DEF Ready
  <2> HIDE DEF gone
  <2>2. /\ a \in TaskType /\ a.status = "Stopped" /\ a.id = task.id
        /\ ~a.active /\ a.track = NoTrack /\ ~a.context
        /\ a.missed = gone.missed /\ a.update = gone.update /\ a.told = gone.told
        /\ a.established = gone.established
    BY <2>1 DEF TaskType, LeftBy
  <2> HIDE DEF a
  <2>3. /\ b \in TaskType /\ b.status = "Stopped" /\ b.id = task.id
        /\ ~b.active /\ b.track = NoTrack /\ ~b.context
        /\ b.missed = a.missed /\ b.update = a.update /\ b.told = a.told
        /\ b.established = a.established
    BY <2>2 DEF TaskType
  <2> HIDE DEF b
  <2>4. /\ r.s \in TaskType /\ r.send = <<Order("Stop")>> /\ r.send \in Sent
        /\ r.s.status = "Stopped" /\ ~r.s.active /\ ~r.s.context /\ r.s.id = task.id
        /\ r.s.track = NoTrack
        /\ r.s.update = b.update /\ r.s.told = b.told
        /\ r.s.established = b.established /\ r.s.missed = b.missed
    BY <2>0, <2>3, HandleStopFacts
  <2>5. IsResult(r)
    BY <2>0, Results
  <2>6. Moves(task, r)
    BY <2>4 DEF Moves
  <2>7. Away(r.s)
    BY <2>4 DEF Away
  <2>8. \A due : Reported(r.s, due)
    BY <2>1, <2>2, <2>3, <2>4 DEF Reported, TaskType
  <2>9. Conducts(r)
    BY <1>1, <2>4, <2>5, <2>6, <2>7, <2>8 DEF Conducts, Fit, Ready, Running
  <2> QED BY <2>9
<1>4. CASE ~(first /\ second)
  <2>0. r = Does(failed)
    BY <1>4
  <2> HIDE DEF r
  <2>1. /\ failed \in TaskType /\ failed.status = "Stopped" /\ failed.crossed = task.crossed
        /\ failed.id = task.id /\ Away(failed) /\ \A due : Reported(failed, due)
        /\ IF task.status \in Playing THEN ~Known(failed) ELSE failed.left = task.left
    BY LeavesFacts DEF Ready, LeftOn
  <2> HIDE DEF failed
  <2>3. IsResult(r) /\ r.s = failed /\ r.send = <<>>
    BY <2>0, Results DEF Does
  <2>4. Moves(task, r)
    BY <2>1, <2>3 DEF Moves, Known
  <2>5. Conducts(r)
    BY <1>1, <2>1, <2>3, <2>4, OrderType DEF Conducts, Fit, Ready, Running
  <2> QED BY <2>5
<1> QED BY <1>3, <1>4

\* A cluster update without a cluster is a conduct of the task.
LEMMA ClusterMissingConducts ==
    ASSUME Ready, NEW ok \in BOOLEAN, ClusterMissing(ok)
    PROVE  \E r : Conducts(r)
<1> DEFINE gone == BecameInactive(task, ok)
           cause == IF task.status # "Stopped" THEN "noCluster" ELSE gone.left
           t == [gone EXCEPT !.left = cause]
           r == Does(t)
<1>1. Running /\ task' = t /\ out' = out /\ UNCHANGED <<player, events, loop>>
  BY DEF ClusterMissing, Input, Quietly
<1>2. /\ gone \in TaskType
      /\ gone.status = task.status /\ gone.crossed = task.crossed /\ gone.left = task.left
      /\ gone.id = task.id /\ ~gone.active /\ gone.track = NoTrack /\ ~gone.context
      /\ \A due : Reported(gone, due)
  BY BecameInactiveFacts DEF Ready
<1> HIDE DEF gone
<1>10. /\ cause \in LeftBy
       /\ IF task.status # "Stopped" THEN cause = "noCluster" ELSE cause = task.left
       /\ cause \in LeftOn => task.status = "Stopped" /\ task.left \in LeftOn
  BY <1>2 DEF TaskType, LeftBy, LeftOn
<1> HIDE DEF cause
<1>3. /\ t \in TaskType /\ t.left = cause /\ t.status = task.status
      /\ t.crossed = task.crossed /\ t.id = task.id
      /\ ~t.active /\ t.track = NoTrack /\ ~t.context
      /\ t.missed = gone.missed /\ t.update = gone.update /\ t.told = gone.told
      /\ t.established = gone.established /\ t.active = gone.active
  BY <1>2, <1>10 DEF TaskType
<1> HIDE DEF t
<1>4. IsResult(r) /\ r.s = t /\ r.send = <<>>
  BY Results DEF Does
<1> HIDE DEF r
<1>5. Moves(task, r)
  <2>1. CASE task.status # "Stopped" /\ ~Known(task)
    BY <1>3, <1>4, <1>10, <2>1 DEF Moves, Known, Ready, Away
  <2>2. CASE task.status # "Stopped" /\ Known(task)
    BY <1>3, <1>4, <1>10, <2>2 DEF Moves, SameTrack
  <2>3. CASE task.status = "Stopped"
    BY <1>3, <1>4, <1>10, <2>3 DEF Moves, Known, SameTrack
  <2> QED BY <2>1, <2>2, <2>3
<1>6. Away(t)
  BY <1>3, <1>10 DEF Away
<1>7. \A due : Reported(t, due)
  BY <1>2, <1>3 DEF Reported
<1>8. Becomes(r)
  BY <1>1, <1>4 DEF Becomes, Ready
<1>9. Conducts(r)
  BY <1>1, <1>3, <1>4, <1>5, <1>6, <1>7, <1>8, OrderType DEF Conducts, Fit, Ready, Running
<1> QED BY <1>9

\* A play request whose context cannot be resolved is a conduct of the task.
LEMMA RequestPlayFailsConducts ==
    ASSUME Ready, RequestPlayFails
    PROVE  \E r : Conducts(r)
<1> DEFINE a == HandleActivate(task)
           b == [a EXCEPT !.context = FALSE]
           r == [s |-> b, send |-> <<>>, ok |-> FALSE]
<1>1. Running /\ task' = Unput(b) /\ out' = out /\ UNCHANGED <<player, events, loop>>
  BY DEF RequestPlayFails, Input, Quietly
<1>2. /\ a \in TaskType /\ a.active /\ a.status = task.status /\ a.track = task.track
      /\ a.crossed = task.crossed /\ a.left = task.left /\ a.id = task.id /\ Stays(task, a)
  BY Activated DEF Ready
<1> HIDE DEF a
<1>3. /\ b \in TaskType /\ b.active /\ b.status = task.status /\ b.track = task.track
      /\ b.crossed = task.crossed /\ b.left = task.left /\ b.id = task.id /\ Stays(task, b)
  BY <1>2 DEF TaskType, Stays
<1> HIDE DEF b
<1>5. IsResult(r) /\ r.s = b /\ r.send = <<>> /\ ~r.ok
  BY DEF IsResult
<1>7. Becomes(After(r, Unput(r.s)))
  BY <1>1 DEF Becomes, Ready, After
<1> HIDE DEF r
<1>6. Moves(task, r)
  BY <1>3, <1>5 DEF Moves, Known, SameTrack
<1>8. Sound(r)
  BY <1>3, <1>5, <1>6, OrderType DEF Sound, Fit, Breaks, Away, Ready
<1> QED BY <1>1, <1>5, <1>7, <1>8, ErrorConducts

\* The requests that act on the player are conducts of the task.
LEMMA RequestConducts ==
    ASSUME Ready,
           \/ \E t \in Tracks, play \in BOOLEAN : RequestPlay(t, play)
           \/ RequestResume \/ RequestPause \/ RequestSkip \/ RequestSeek
           \/ \E early \in BOOLEAN : RequestBack(early)
    PROVE  \E r : Conducts(r)
<1>0. task \in TaskType /\ Away(task)
  BY DEF Ready
<1>1. ASSUME NEW r, Sound(r), Request(r) PROVE \E q : Conducts(q)
  BY <1>1, Deferred DEF Request, Input, Quietly
<1>2. ASSUME NEW t \in Tracks, NEW play \in BOOLEAN, RequestPlay(t, play) PROVE \E q : Conducts(q)
  BY <1>1, <1>2, TaskLoads DEF RequestPlay
<1>3. CASE RequestResume
  <2>1. Sound(IF task.status = "Stopped" THEN LoadTrack(task, TRUE) ELSE HandlePlay(task))
    BY <1>0, LoadTrackHandled, HandlePlayFacts, Results, HandledFits
  <2> QED BY <1>1, <1>3, <2>1 DEF RequestResume
<1>4. CASE RequestPause
  BY <1>0, <1>1, <1>4, HandlePauseFacts, Results, HandledFits DEF RequestPause
<1>5. CASE RequestSkip
  BY <1>0, <1>1, <1>5, HandleNextFacts, Results, HandledFits DEF RequestSkip
<1>6. CASE RequestSeek
  BY <1>0, <1>1, <1>6, HandleSeekFacts, Results, HandledFits DEF RequestSeek
<1>7. ASSUME NEW early \in BOOLEAN, RequestBack(early) PROVE \E q : Conducts(q)
  BY <1>0, <1>1, <1>7, HandlePrevFacts, Results, HandledFits DEF RequestBack
<1> QED BY <1>2, <1>3, <1>4, <1>5, <1>6, <1>7

\* The user's commands that act on the player are conducts of the task.
LEMMA CommandConducts ==
    ASSUME Ready,
           \/ \E t \in Tracks, play, ok \in BOOLEAN : CommandLoad(t, play, ok)
           \/ \E ok \in BOOLEAN : CommandPlay(ok) \/ CommandPause(ok) \/ CommandPlayPause(ok) \/ CommandNext(ok)
           \/ \E early, ok \in BOOLEAN : CommandPrev(early, ok)
           \/ \E up, ok \in BOOLEAN : CommandVolume(up, ok)
    PROVE  \E r : Conducts(r)
<1>0. task \in TaskType /\ Away(task)
  BY DEF Ready
<1>1. ASSUME NEW r, NEW ok \in BOOLEAN, Sound(r), Command(r, ok) PROVE \E q : Conducts(q)
  BY <1>1, NotifiedConducts DEF Command, Input, Quietly
<1>2. ASSUME NEW t \in Tracks, NEW play \in BOOLEAN, NEW ok \in BOOLEAN, CommandLoad(t, play, ok)
      PROVE  \E q : Conducts(q)
  <2> DEFINE d == [task EXCEPT !.track = t, !.context = TRUE]
  <2>1. task.active /\ Command(LoadTrack(d, play), ok)
    BY <1>2 DEF CommandLoad, Command
  <2>2. /\ d \in TaskType /\ d.track # NoTrack /\ d.active = task.active /\ Stays(task, d)
        /\ d.id = task.id /\ d.left = task.left /\ d.crossed = task.crossed
    BY <1>0, Chosen
  <2> HIDE DEF d
  <2>4. Aside(d)
    BY <2>2 DEF Aside, Stays, SameLeft
  <2> DEFINE r == LoadTrack(d, play)
  <2>5. Fit(r) /\ (r.ok \/ (r.send = <<>> /\ Stays(d, r.s)))
    BY <1>0, <2>1, <2>2, <2>4, LoadFits
  <2> HIDE DEF r
  <2>6. Sound(r)
    BY <2>2, <2>5 DEF Sound, Breaks, Stays
  <2>3. Sound(LoadTrack(d, play))
    BY <2>6 DEF r
  <2> QED BY <1>1, <2>1, <2>3
<1>3. ASSUME NEW ok \in BOOLEAN, CommandPlay(ok) PROVE \E q : Conducts(q)
  BY <1>0, <1>1, <1>3, HandlePlayFacts, Results, HandledFits DEF CommandPlay
<1>4. ASSUME NEW ok \in BOOLEAN, CommandPause(ok) PROVE \E q : Conducts(q)
  BY <1>0, <1>1, <1>4, HandlePauseFacts, Results, HandledFits DEF CommandPause
<1>5. ASSUME NEW ok \in BOOLEAN, CommandPlayPause(ok) PROVE \E q : Conducts(q)
  BY <1>0, <1>1, <1>5, HandlePlayPauseFacts, Results, HandledFits DEF CommandPlayPause
<1>6. ASSUME NEW ok \in BOOLEAN, CommandNext(ok) PROVE \E q : Conducts(q)
  BY <1>0, <1>1, <1>6, HandleNextFacts, Results, HandledFits DEF CommandNext
<1>7. ASSUME NEW early \in BOOLEAN, NEW ok \in BOOLEAN, CommandPrev(early, ok) PROVE \E q : Conducts(q)
  BY <1>0, <1>1, <1>7, HandlePrevFacts, Results, HandledFits DEF CommandPrev
<1>8. ASSUME NEW up \in BOOLEAN, NEW ok \in BOOLEAN, CommandVolume(up, ok) PROVE \E q : Conducts(q)
  <2> DEFINE v == IF up THEN IF task.volume < Volumes THEN task.volume + 1 ELSE Volumes
                  ELSE IF task.volume > 0 THEN task.volume - 1 ELSE 0
             t == SetVolume(task, v)
  <2>1. Command(Does(t), ok)
    BY <1>8 DEF CommandVolume
  <2>2. v \in 0 .. Volumes
    BY <1>0, SpircAssumption DEF TaskType
  <2> HIDE DEF v
  <2>3. t \in TaskType /\ Alike(task, t)
    BY <1>0, <2>2, SetVolumeFacts
  <2> HIDE DEF t
  <2>4. IsResult(Does(t)) /\ Does(t).s = t /\ Does(t).send = <<>>
    BY Results DEF Does
  <2>5. Moves(task, Does(t))
    BY <2>3, <2>4 DEF Moves, Known, SameTrack, Alike
  <2>6. Sound(Does(t))
    <3>1. Does(t).ok
      BY DEF Does
    <3> QED BY <1>0, <2>3, <2>4, <2>5, <3>1, OrderType DEF Sound, Breaks, Fit, Away, Alike
  <2> QED BY <1>1, <2>1, <2>6
<1> QED BY <1>2, <1>3, <1>4, <1>5, <1>6, <1>7, <1>8

\* A transfer to this device is a conduct of the task.
LEMMA RequestTransferConducts ==
    ASSUME Ready, NEW t \in Tracks, NEW play \in BOOLEAN, NEW ok \in BOOLEAN,
           RequestTransfer(t, play, ok)
    PROVE  \E r : Conducts(r)
<1> DEFINE r == LoadTrack([HandleActivate(task) EXCEPT !.track = t, !.context = TRUE], play)
<1>1. Running /\ Becomes(Notified(r, ok)) /\ UNCHANGED <<player, events, loop>>
  BY DEF RequestTransfer, Input, Quietly
<1>2. Sound(r)
  BY TaskLoads
<1> HIDE DEF r
<1> QED BY <1>1, <1>2, NotifiedConducts

\* Activating the device on command is a conduct of the task.
LEMMA CommandActivateConducts ==
    ASSUME Ready, NEW ok \in BOOLEAN, CommandActivate(ok)
    PROVE  \E r : Conducts(r)
<1> DEFINE a == HandleActivate(task)
           t == Notify(a, ok)
           r == Does(t)
<1>1. Running /\ Becomes(r) /\ UNCHANGED <<player, events, loop>>
  BY DEF CommandActivate, Input, Quietly
<1>2. /\ a \in TaskType /\ a.active /\ a.status = task.status /\ a.track = task.track
      /\ a.crossed = task.crossed /\ a.left = task.left /\ a.id = task.id
  BY Activated DEF Ready
<1> HIDE DEF a
<1>3. t \in TaskType /\ Alike(a, t) /\ \A due : Reported(t, due)
  BY <1>2, NotifyFacts
<1> HIDE DEF t
<1>4. IsResult(r) /\ r.s = t /\ r.send = <<>>
  BY Results DEF Does
<1> HIDE DEF r
<1>5. Moves(task, r)
  BY <1>2, <1>3, <1>4 DEF Moves, Known, SameTrack, Alike
<1>6. Away(t)
  BY <1>2, <1>3 DEF Away, Alike, Ready
<1>7. Conducts(r)
  BY <1>1, <1>2, <1>3, <1>4, <1>5, <1>6, OrderType DEF Conducts, Fit, Alike, Ready, Running
<1> QED BY <1>7

\* A pause, if any, and then the device leaves.
LEMMA PausedAndGone ==
    ASSUME Ready, NEW pause \in BOOLEAN, NEW first \in BOOLEAN, NEW second \in BOOLEAN
    PROVE  LET r == IF pause THEN HandlePause(task) ELSE Does(task)
               q == After(r, Leaves(r.s, "told", first, second))
           IN Fit(q) /\ \A due : Reported(q.s, due)
<1> DEFINE r == IF pause THEN HandlePause(task) ELSE Does(task)
           t == r.s
           d == Leaves(t, "told", first, second)
           q == After(r, d)
<1>0. task \in TaskType /\ Away(task)
  BY DEF Ready
<1>1. /\ IsResult(r) /\ t \in TaskType /\ t.id = task.id /\ t.crossed = task.crossed
      /\ t.left = task.left /\ r.send \in Sent /\ Away(t)
      /\ \/ r.send = <<Order("Pause")>> /\ task.status \in Playing /\ t.status \notin Playing
         \/ r.send = <<>> /\ task.status \notin Playing /\ t.status \notin Playing
         \/ r.send = <<>> /\ task.status \in Playing /\ t.status \in Playing
  <2>1. CASE pause
    BY <1>0, <2>1, HandlePauseFacts, Results DEF Handled
  <2>2. CASE ~pause
    BY <1>0, <2>2, Results, OrderType DEF Does
  <2> QED BY <2>1, <2>2
<1> HIDE DEF r, t
<1>2. /\ d \in TaskType /\ d.status = "Stopped" /\ d.crossed = t.crossed /\ d.id = t.id
      /\ IF t.status \in Playing THEN ~Known(d) ELSE d.left = t.left
      /\ Away(d) /\ \A due : Reported(d, due)
  BY <1>1, LeavesFacts DEF LeftOn
<1> HIDE DEF d
<1>4. q = [s |-> d, send |-> r.send, ok |-> r.ok]
  BY <1>1 DEF After, IsResult
<1>5. q.s = d /\ q.send = r.send /\ IsResult(q)
  BY <1>4 DEF IsResult
<1> HIDE DEF q
<1>6. Moves(task, q)
  <2>1. CASE t.status \in Playing
    BY <1>2, <1>5, <2>1 DEF Moves
  <2>2. CASE t.status \notin Playing
    BY <1>1, <1>2, <1>5, <2>2 DEF Moves, Known, SameTrack, Playing, Waiting
  <2> QED BY <2>1, <2>2
<1>9. Fit(q)
  BY <1>1, <1>2, <1>5, <1>6 DEF Fit
<1> QED BY <1>2, <1>5, <1>9 DEF q, d, t, r

\* The command to disconnect is a conduct of the task.
LEMMA CommandDisconnectConducts ==
    ASSUME Ready, NEW pause \in BOOLEAN, NEW first \in BOOLEAN, NEW second \in BOOLEAN,
           CommandDisconnect(pause, first, second)
    PROVE  \E r : Conducts(r)
<1> DEFINE r == IF pause THEN HandlePause(task) ELSE Does(task)
           q == After(r, Leaves(r.s, "told", first, second))
<1>1. Running /\ Becomes(q) /\ UNCHANGED <<player, events, loop>>
  BY DEF CommandDisconnect, Input, Quietly
<1>2. Fit(q) /\ \A due : Reported(q.s, due)
  BY PausedAndGone
<1> HIDE DEF q
<1>3. Conducts(q)
  BY <1>1, <1>2 DEF Conducts, Ready, Running
<1> QED BY <1>3

\* The command to shut down is a conduct of the task.
LEMMA CommandShutdownConducts ==
    ASSUME Ready, NEW first \in BOOLEAN, NEW second \in BOOLEAN, CommandShutdown(first, second)
    PROVE  \E r : Conducts(r)
<1> DEFINE r == HandlePause(task)
           gone == Leaves(r.s, "told", first, second)
           last == Notify(gone, TRUE)
           q == After(r, gone)
           l == After(r, last)
<1>1. /\ Running
      /\ Becomes(After(r, IF first /\ second THEN last ELSE gone))
      /\ loop' = IF first /\ second THEN "shutdown" ELSE loop
      /\ UNCHANGED <<player, events>>
  BY DEF CommandShutdown, Input
<1>2. Fit(q) /\ \A due : Reported(q.s, due)
  BY PausedAndGone
<1>3. CASE first /\ second
  <2>1. Becomes(l) /\ loop' = "shutdown"
    BY <1>1, <1>3
  <2>2. IsResult(r)
    BY Results
  <2> HIDE DEF r, gone
  <2>3. q.s = gone /\ After(q, last) = l
    BY <2>2 DEF After, IsResult
  <2> HIDE DEF q, l
  <2>4. gone \in TaskType
    BY <1>2, <2>3 DEF Fit
  <2>5. last \in TaskType /\ Alike(gone, last)
    BY <2>4, NotifyFacts
  <2> HIDE DEF last
  <2>6. Fit(l)
    BY <1>2, <2>3, <2>5, FitAlike
  <2>7. Conducts(l)
    BY <1>1, <2>1, <2>6 DEF Conducts, Loops
  <2> QED BY <2>7
<1>4. CASE ~(first /\ second)
  <2>1. Becomes(q) /\ loop' = loop
    BY <1>1, <1>4
  <2> HIDE DEF q
  <2>2. Conducts(q)
    BY <1>1, <1>2, <2>1 DEF Conducts, Ready, Running
  <2> QED BY <2>2
<1> QED BY <1>3, <1>4

\* What the task does after its loop is a conduct of the task.
LEMMA EndsConducts ==
    ASSUME Ready, NEW first \in BOOLEAN, NEW second \in BOOLEAN, Ends(first, second)
    PROVE  \E r : Conducts(r)
<1> DEFINE gone == Leaves(task, "ended", first, second)
           t == IF loop = "broken" /\ task.active THEN gone ELSE task
           r == Does(t)
<1>1. loop' = "ended" /\ task' = t /\ out' = out /\ UNCHANGED <<player, events>>
  BY DEF Ends
<1>2. /\ gone \in TaskType /\ gone.status = "Stopped" /\ gone.crossed = task.crossed
      /\ gone.id = task.id /\ Away(gone)
      /\ IF task.status \in Playing THEN ~Known(gone) ELSE gone.left = task.left
  BY LeavesFacts DEF Ready, LeftOn
<1> HIDE DEF gone
<1>5. IsResult(r) /\ r.s = t /\ r.send = <<>>
  BY Results DEF Does
<1> HIDE DEF r
<1>6. Moves(task, r)
  <2>1. CASE t = task
    BY <1>5, <2>1 DEF Moves, Known, SameTrack
  <2>2. CASE t = gone
    BY <1>2, <1>5, <2>2 DEF Moves, Known
  <2> QED BY <2>1, <2>2
<1>4. t \in TaskType /\ t.id = task.id /\ Away(t)
  BY <1>2 DEF Ready
<1> HIDE DEF t
<1>7. Becomes(r)
  BY <1>1, <1>5 DEF Becomes, Ready
<1>8. Conducts(r)
  BY <1>1, <1>4, <1>5, <1>6, <1>7, OrderType DEF Conducts, Fit, Loops
<1> QED BY <1>8

\* The two timers, the volume and an empty cluster update are conducts of the task.
LEMMA TimersConduct ==
    ASSUME Ready,
           \/ ClusterUpdate
           \/ \E v \in 0 .. Volumes : RequestVolume(v) \/ MixerMoves(v)
           \/ \E ok \in BOOLEAN : UpdateState(ok) \/ UpdateVolume(ok)
    PROVE  \E r : Conducts(r)
<1>0. task \in TaskType /\ (Running => Reported(task, Due(out, events)))
  BY DEF Ready
<1>1. CASE ClusterUpdate
  <2> DEFINE t == [task EXCEPT !.update = TRUE]
  <2>1. t \in TaskType /\ Alike(task, t) /\ t.update
    BY <1>0 DEF TaskType, Alike
  <2>2. Running /\ task' = t /\ out' = out /\ UNCHANGED <<player, events, loop>>
    BY <1>1 DEF ClusterUpdate, Input, Quietly
  <2> HIDE DEF t
  <2> QED BY <2>1, <2>2, Quiet DEF Reported
<1>2. ASSUME NEW v \in 0 .. Volumes, RequestVolume(v) PROVE \E r : Conducts(r)
  <2> DEFINE t == SetVolume(task, v)
  <2>1. t \in TaskType /\ Alike(task, t)
        /\ t.shown = task.shown /\ t.update = task.update /\ t.established = task.established
        /\ t.missed = task.missed /\ t.told = task.told /\ (t.updateVolume \/ t = task)
    BY <1>0, SetVolumeFacts
  <2>2. Running /\ task' = t /\ out' = out /\ UNCHANGED <<player, events, loop>>
    BY <1>2 DEF RequestVolume, Input, Quietly, Becomes, Does, Ready
  <2> HIDE DEF t
  <2>3. Reported(t, Due(out, events))
    BY <1>0, <2>1, <2>2 DEF Reported, Alike
  <2> QED BY <2>1, <2>2, <2>3, Quiet
<1>3. ASSUME NEW v \in 0 .. Volumes, MixerMoves(v) PROVE \E r : Conducts(r)
  <2> DEFINE t == [task EXCEPT !.mixer = v]
  <2>1. t \in TaskType /\ Alike(task, t) /\ View(t) = View(task)
        /\ t.shown = task.shown /\ t.update = task.update /\ t.established = task.established
        /\ t.missed = task.missed /\ t.told = task.told /\ t.updateVolume = task.updateVolume
    BY <1>0 DEF TaskType, Alike, View
  <2>2. Running /\ task' = t /\ out' = out /\ UNCHANGED <<player, events, loop>>
    BY <1>3 DEF MixerMoves, Input, Quietly
  <2> HIDE DEF t
  <2>3. Reported(t, Due(out, events))
    BY <1>0, <2>1, <2>2 DEF Reported, Alike
  <2> QED BY <2>1, <2>2, <2>3, Quiet
<1>4. ASSUME NEW s \in TaskType, Alike(task, s), NEW ok \in BOOLEAN, task' = Notify(s, ok),
             out' = out, Running, UNCHANGED <<player, events, loop>>
      PROVE  \E r : Conducts(r)
  <2> DEFINE t == Notify(s, ok)
  <2>1. t \in TaskType /\ Alike(s, t) /\ \A due : Reported(t, due)
    BY NotifyFacts
  <2>2. task' = t
    BY <1>4
  <2> HIDE DEF t
  <2>3. Alike(task, t)
    BY <1>4, <2>1 DEF Alike
  <2> QED BY <1>4, <2>1, <2>2, <2>3, Quiet
<1>5. ASSUME NEW ok \in BOOLEAN, UpdateState(ok) PROVE \E r : Conducts(r)
  <2> DEFINE s == [task EXCEPT !.update = FALSE]
  <2>1. s \in TaskType /\ Alike(task, s)
    BY <1>0 DEF TaskType, Alike
  <2>2. Running /\ task' = Notify(s, ok) /\ out' = out /\ UNCHANGED <<player, events, loop>>
    BY <1>5 DEF UpdateState, Quietly
  <2> HIDE DEF s
  <2> QED BY <1>4, <2>1, <2>2
<1>6. ASSUME NEW ok \in BOOLEAN, UpdateVolume(ok) PROVE \E r : Conducts(r)
  <2> DEFINE s == [task EXCEPT !.updateVolume = FALSE]
  <2>1. s \in TaskType /\ Alike(task, s)
    BY <1>0 DEF TaskType, Alike
  <2>2. Running /\ task' = Notify(s, ok) /\ out' = out /\ UNCHANGED <<player, events, loop>>
    BY <1>6 DEF UpdateVolume, Quietly
  <2> HIDE DEF s
  <2> QED BY <1>4, <2>1, <2>2
<1> QED BY <1>1, <1>2, <1>3, <1>5, <1>6

\* The end of the session is a conduct of the task.
LEMMA SessionEndsConducts ==
    ASSUME Ready, SessionEnds
    PROVE  \E r : Conducts(r)
<1> DEFINE r == Does(task)
<1>1. loop' = "broken" /\ task' = task /\ out' = out /\ UNCHANGED <<player, events>>
  BY DEF SessionEnds
<1>2. IsResult(r) /\ r.s = task /\ r.send = <<>>
  BY Results DEF Does
<1> HIDE DEF r
<1>3. Moves(task, r)
  BY <1>2 DEF Moves, Known, SameTrack
<1>4. Becomes(r)
  BY <1>1, <1>2 DEF Becomes, Ready
<1>5. Conducts(r)
  BY <1>1, <1>2, <1>3, <1>4, OrderType DEF Conducts, Fit, Loops, Ready
<1> QED BY <1>5

-----------------------------------------------------------------------------
(* Spirc: what the task believes of the player.                                *)

Modes == {"Stopped", "Loading", "Playing", "Paused", "EndOfTrack", "Failed"}
PlayerType == [mode: Modes, id: Nat, track: Tracks \cup {NoTrack}, play: BOOLEAN]

\* Every new request is announced, and then its track; the last is the player's.
Announced(ev, id) ==
  \A i \in DOMAIN ev : NewId(ev[i]) =>
    /\ \E j \in i + 1 .. Len(ev) : Starts(ev[j])
    /\ (\A j \in i + 1 .. Len(ev) : ~NewId(ev[j])) => ev[i].id = id

PlayFits(p) == (p.mode = "Playing" => p.play) /\ (p.mode = "Paused" => ~p.play)

\* The status is what the commands under way will make of the player.
Intended(s, o, p) ==
  ~StopsLater(o) => /\ s.status \in Playing <=> WillPlay(o, p)
                    /\ s.status # "Stopped" /\ s.left = "no" => WillHave(o, p, s.track)

\* No event crossed a command: none that will be handled is older than a command
\* that was taken, or will be handled while one is under way.
Clean(o, m) == (\A e \in m : ~e.old) /\ (o = <<>> \/ m = {})
\* The status and the events m of the current request tell what the player does.
HasTrack == {"Loading", "Playing", "Paused"}
Noticed(s, p, m) ==
  /\ p.mode \in HasTrack =>
       /\ p.mode # "Loading" /\ s.status \in Waiting => \E e \in m : e.kind = p.mode
       /\ \A e \in m : e.kind \in {"Loading", "Seeked", p.mode}
  /\ p.mode = "Stopped" => \E e \in m : e.kind = "Stopped"

\* A status that is Stopped stays so whatever the player says, until a load.
Believes(s, o, p, m) ==
  Known(s) =>
    /\ Loads(o) \/ p.mode \in HasTrack => Intended(s, o, p)
    /\ ~Loads(o) /\ Clean(o, m) /\ s.status # "Stopped" => Noticed(s, p, m)

\* With no command under way the player does what it does.
LEMMA NothingSent ==
    ASSUME NEW p, NEW t
    PROVE  LET o == <<>>
           IN /\ ~Loads(o) /\ ~StopsLater(o)
              /\ WillPlay(o, p) <=> p.play
              /\ WillHave(o, p, t) <=> t = p.track
BY DEF Loads, StopsLater, WillPlay, WillHave

\* A load decides all.
LEMMA FreshBelieves ==
    ASSUME NEW o \in Seq(Commands), NEW p, NEW m, NEW r, r.s \in TaskType, Fresh(r)
    PROVE  Believes(r.s, o \o r.send, p, m)
<1>1. PICK play \in BOOLEAN :
        /\ r.s.track # NoTrack /\ r.send = <<Load(r.s.track, play)>>
        /\ r.s.status = IF play THEN "LoadingPlay" ELSE "LoadingPause"
        /\ r.s.crossed = "no" /\ r.s.left = "no"
  BY DEF Fresh
<1> DEFINE c == Load(r.s.track, play)
<1>2. /\ c \in Commands /\ IsLoad(c) /\ c.track = r.s.track /\ Decides(c) /\ (Wants(c) <=> play)
      /\ c.op # "Stop"
  BY <1>1 DEF Load, TaskType, Commands, IsLoad, Decides, Wants
<1>3. r.send = <<c>>
  BY <1>1
<1> HIDE DEF c
<1>4. /\ Loads(o \o <<c>>) /\ ~StopsLater(o \o <<c>>)
      /\ WillPlay(o \o <<c>>, p) <=> play
      /\ WillHave(o \o <<c>>, p, r.s.track)
  BY <1>2, SentAfter
<1>5. r.s.status \in Playing <=> play
  BY <1>1 DEF Playing
<1> QED BY <1>3, <1>4, <1>5 DEF Believes, Intended

\* A move that the task makes keeps its belief right.
LEMMA MovesBelieves ==
    ASSUME NEW o \in Seq(Commands), NEW p, NEW m, NEW s \in TaskType, Believes(s, o, p, m),
           NEW r, r.s \in TaskType, r.send \in Sent, Moves(s, r)
    PROVE  Believes(r.s, o \o r.send, p, m)
<1> DEFINE t == r.s
<1>1. CASE ~Known(t)
  BY <1>1 DEF Believes
<1>2. CASE Fresh(r)
  BY <1>2, FreshBelieves
<1>3. CASE Known(s) /\ r.send = <<>> /\ t.status = s.status /\ SameTrack(s, t)
  <2>1. o \o r.send = o
    BY <1>3
  <2>2. Intended(s, o, p) => Intended(t, o, p)
    BY <1>3 DEF Intended, SameTrack
  <2>3. Noticed(s, p, m) => Noticed(t, p, m)
    BY <1>3 DEF Noticed
  <2> QED BY <1>3, <2>1, <2>2, <2>3 DEF Believes
<1>4. CASE Known(s) /\ r.send = <<>> /\ t.status = "Stopped" /\ s.status \notin Playing
  <2>1. o \o r.send = o
    BY <1>4
  <2>2. Intended(s, o, p) => Intended(t, o, p)
    BY <1>4 DEF Intended, Playing
  <2> QED BY <1>4, <2>1, <2>2 DEF Believes
<1>10. Order("Stop") \in Commands /\ Order("Stop").op = "Stop"
  BY DEF Order, Commands
<1>11. Intended(t, o \o <<Order("Stop")>>, p)
  BY <1>10, SentAfter DEF Intended
<1>12. CASE r.send = <<Order("Stop")>> /\ t.status = "Stopped"
  BY <1>11, <1>12 DEF Believes
<1>5. ASSUME NEW c \in Commands, r.send = <<c>>, c.op \in {"Seek", "Stop", "Play", "Pause"},
             Known(s), Intended(s, o, p) => Intended(t, o \o <<c>>, p),
             t.status \in Waiting => s.status \in Waiting,
             t.status # "Stopped" => s.status # "Stopped"
      PROVE  Believes(t, o \o r.send, p, m)
  <2> DEFINE q == o \o <<c>>
  <2>1. q # <<>> /\ (Loads(q) <=> Loads(o))
    BY <1>5, SentAfter DEF IsLoad
  <2>2. Intended(s, o, p) => Intended(t, q, p)
    BY <1>5
  <2> HIDE DEF q
  <2>3. Loads(q) \/ p.mode \in HasTrack => Intended(t, q, p)
    BY <1>5, <2>1, <2>2 DEF Believes
  <2>4. ASSUME ~Loads(q), Clean(q, m), t.status # "Stopped" PROVE Noticed(t, p, m)
    <3>2. m = {} /\ Clean(o, m)
      BY <2>1, <2>4 DEF Clean
    <3>3. Noticed(s, p, m)
      BY <1>5, <2>1, <2>4, <3>2 DEF Believes
    <3> QED BY <1>5, <3>2, <3>3 DEF Noticed
  <2> QED BY <1>5, <2>3, <2>4 DEF Believes, q
<1>6. CASE Known(s) /\ r.send = <<Order("Seek")>> /\ t.status = s.status /\ SameTrack(s, t)
  <2>1. Order("Seek") \in Commands /\ Order("Seek").op = "Seek"
    BY DEF Order, Commands
  <2>2. Intended(s, o, p) => Intended(t, o \o <<Order("Seek")>>, p)
    BY <1>6, <2>1, SentAfter DEF Intended, SameTrack, Decides, IsLoad
  <2> QED BY <1>5, <1>6, <2>1, <2>2
<1>7. CASE Known(s) /\ r.send = <<Order("Stop")>> /\ t.status \in {s.status, "Stopped"}
  <2>3. "Stopped" \notin Waiting
    BY DEF Waiting
  <2> QED BY <1>5, <1>7, <1>10, <1>11, <2>3
<1>8. CASE /\ Known(s) /\ r.send = <<Order("Play")>> /\ t.status \in Playing /\ SameTrack(s, t)
           /\ s.status # "Stopped" /\ (t.status \in Waiting => s.status \in Waiting)
  <2>1. Order("Play") \in Commands /\ Order("Play").op = "Play"
    BY DEF Order, Commands
  <2>2. Intended(s, o, p) => Intended(t, o \o <<Order("Play")>>, p)
    BY <1>8, <2>1, SentAfter DEF Intended, SameTrack, Decides, Wants, IsLoad
  <2> QED BY <1>5, <1>8, <2>1, <2>2
<1>9. CASE /\ Known(s) /\ r.send = <<Order("Pause")>> /\ t.status \notin Playing /\ SameTrack(s, t)
           /\ s.status # "Stopped" /\ (t.status \in Waiting => s.status \in Waiting)
  <2>1. Order("Pause") \in Commands /\ Order("Pause").op = "Pause"
    BY DEF Order, Commands
  <2>2. Intended(s, o, p) => Intended(t, o \o <<Order("Pause")>>, p)
    BY <1>9, <2>1, SentAfter DEF Intended, SameTrack, Decides, Wants, IsLoad
  <2> QED BY <1>5, <1>9, <2>1, <2>2
<1> QED BY <1>1, <1>2, <1>3, <1>4, <1>6, <1>7, <1>8, <1>9, <1>12 DEF Moves

-----------------------------------------------------------------------------
(* Spirc: the announcements of new requests.                                   *)

\* What was announced stays so when an event is handled.
LEMMA AnnouncedRest ==
    ASSUME NEW ev \in Seq(Events), ev # <<>>, NEW id, Announced(ev, id)
    PROVE  Announced(Tail(ev), id)
<1> DEFINE r == Tail(ev)
           n == Len(r)
<1>1. /\ n \in Nat /\ Len(ev) = n + 1 /\ DOMAIN r = 1 .. n /\ DOMAIN ev = 1 .. n + 1
      /\ \A i \in 1 .. n : r[i] = ev[i + 1]
  BY Shortened
<1>0. n = Len(r)
  OBVIOUS
<1> HIDE DEF r, n
<1>2. SUFFICES ASSUME NEW i \in 1 .. n, NewId(r[i])
               PROVE  /\ \E j \in i + 1 .. n : Starts(r[j])
                      /\ (\A j \in i + 1 .. n : ~NewId(r[j])) => r[i].id = id
  BY <1>0, <1>1 DEF Announced, r
<1>3. i + 1 \in 1 .. n + 1 /\ NewId(ev[i + 1])
  BY <1>1, <1>2
<1>4. /\ \E j \in (i + 1) + 1 .. n + 1 : Starts(ev[j])
      /\ (\A j \in (i + 1) + 1 .. n + 1 : ~NewId(ev[j])) => ev[i + 1].id = id
  BY <1>1, <1>3 DEF Announced
<1>5. \A j \in (i + 1) + 1 .. n + 1 : j - 1 \in i + 1 .. n /\ j - 1 \in 1 .. n /\ (j - 1) + 1 = j
  BY <1>1
<1>6. \E j \in i + 1 .. n : Starts(r[j])
  <2>1. PICK j \in (i + 1) + 1 .. n + 1 : Starts(ev[j])
    BY <1>4
  <2>2. j - 1 \in i + 1 .. n /\ r[j - 1] = ev[j]
    BY <1>1, <1>5
  <2> QED BY <2>1, <2>2
<1>7. ASSUME \A j \in i + 1 .. n : ~NewId(r[j]) PROVE r[i].id = id
  <2>1. \A j \in (i + 1) + 1 .. n + 1 : ~NewId(ev[j])
    BY <1>1, <1>5, <1>7
  <2> QED BY <1>1, <1>4, <2>1
<1> QED BY <1>6, <1>7

\* What was announced stays so when one more event of the request is said.
LEMMA AnnouncedMore ==
    ASSUME NEW ev \in Seq(Events), NEW e \in Events, ~NewId(e), NEW id, Announced(ev, id)
    PROVE  Announced(ev \o <<e>>, id)
<1> DEFINE q == ev \o <<e>>
           n == Len(ev)
<1>1. /\ n \in Nat /\ Len(q) = n + 1 /\ DOMAIN q = 1 .. n + 1 /\ DOMAIN ev = 1 .. n
      /\ q[n + 1] = e /\ \A i \in 1 .. n : q[i] = ev[i]
  BY Appended
<1>0. n = Len(ev)
  OBVIOUS
<1> HIDE DEF q, n
<1>2. SUFFICES ASSUME NEW i \in 1 .. n + 1, NewId(q[i])
               PROVE  /\ \E j \in i + 1 .. n + 1 : Starts(q[j])
                      /\ (\A j \in i + 1 .. n + 1 : ~NewId(q[j])) => q[i].id = id
  BY <1>1 DEF Announced, q
<1>3. i \in 1 .. n
  BY <1>1, <1>2
<1>4. /\ \E j \in i + 1 .. n : Starts(ev[j])
      /\ (\A j \in i + 1 .. n : ~NewId(ev[j])) => ev[i].id = id
  BY <1>0, <1>1, <1>2, <1>3 DEF Announced
<1>5. \A j \in i + 1 .. n : j \in i + 1 .. n + 1 /\ q[j] = ev[j]
  BY <1>1
<1> QED BY <1>1, <1>3, <1>4, <1>5

\* A new request is announced before it starts.
LEMMA AnnouncedNew ==
    ASSUME NEW ev \in Seq(Events), NEW d \in Events, NewId(d), NEW e \in Events, Starts(e),
           NEW id, Announced(ev, id)
    PROVE  Announced(ev \o <<d, e>>, d.id)
<1> DEFINE q == ev \o <<d, e>>
           n == Len(ev)
<1>0. n = Len(ev)
  OBVIOUS
<1>1. /\ n \in Nat /\ Len(q) = n + 2 /\ DOMAIN q = 1 .. n + 2 /\ DOMAIN ev = 1 .. n
      /\ q[n + 1] = d /\ q[n + 2] = e /\ \A i \in 1 .. n : q[i] = ev[i]
  OBVIOUS
<1> HIDE DEF q, n
<1>2. SUFFICES ASSUME NEW i \in 1 .. n + 2, NewId(q[i])
               PROVE  /\ \E j \in i + 1 .. n + 2 : Starts(q[j])
                      /\ (\A j \in i + 1 .. n + 2 : ~NewId(q[j])) => q[i].id = d.id
  BY <1>1 DEF Announced, q
<1>3. ~NewId(e)
  BY DEF Starts, NewId
<1>4. CASE i = n + 1
  <2>1. n + 2 \in i + 1 .. n + 2
    BY <1>1, <1>4
  <2> QED BY <1>1, <1>4, <2>1
<1>5. CASE i \in 1 .. n
  <2>1. PICK j \in i + 1 .. n : Starts(ev[j])
    BY <1>0, <1>1, <1>2, <1>5 DEF Announced
  <2>2. j \in i + 1 .. n + 2 /\ q[j] = ev[j] /\ n + 1 \in i + 1 .. n + 2
    BY <1>1, <1>5
  <2> QED BY <1>1, <2>1, <2>2
<1> QED BY <1>1, <1>2, <1>3, <1>4, <1>5

\* What was announced stays so when the events are marked as old.
LEMMA AnnouncedMarked ==
    ASSUME NEW ev \in Seq(Events), NEW id, Announced(ev, id)
    PROVE  Announced(Marked(ev), id)
<1> DEFINE q == Marked(ev)
           n == Len(ev)
<1>0. n = Len(ev) /\ n \in Nat /\ DOMAIN ev = 1 .. n
  OBVIOUS
<1>1. \A i \in 1 .. n : ev[i] \in Events
  BY <1>0
<1>2. q = [i \in 1 .. n |-> [ev[i] EXCEPT !.old = TRUE]]
  BY <1>0 DEF Marked
<1> HIDE DEF q, n
<1>3. \A i \in 1 .. n : q[i] \in Events /\ q[i].kind = ev[i].kind /\ q[i].id = ev[i].id
  BY <1>1, <1>2 DEF Events
<1>4. Len(q) = n /\ DOMAIN q = 1 .. n
  BY <1>0, <1>2
<1>5. SUFFICES ASSUME NEW i \in 1 .. n, NewId(q[i])
               PROVE  /\ \E j \in i + 1 .. n : Starts(q[j])
                      /\ (\A j \in i + 1 .. n : ~NewId(q[j])) => q[i].id = id
  BY <1>4 DEF Announced, q
<1>6. /\ \E j \in i + 1 .. n : Starts(ev[j])
      /\ (\A j \in i + 1 .. n : ~NewId(ev[j])) => ev[i].id = id
  BY <1>0, <1>3, <1>5 DEF Announced, NewId
<1>7. \A j \in i + 1 .. n : j \in 1 .. n
  BY <1>0
<1> QED BY <1>3, <1>6, <1>7 DEF Starts, NewId

-----------------------------------------------------------------------------
(* Spirc: the events that are old come first.                                  *)

InOrder(ev) == \A i, j \in DOMAIN ev : i < j /\ ev[j].old => ev[i].old

\* The events stay in order when one is handled, and if that one is not old, none is.
LEMMA OrderRest ==
    ASSUME NEW ev \in Seq(Events), ev # <<>>, InOrder(ev)
    PROVE  /\ InOrder(Tail(ev))
           /\ ~Head(ev).old => \A e \in Current(ev) : ~e.old
<1> DEFINE r == Tail(ev)
           n == Len(r)
<1>1. /\ n \in Nat /\ DOMAIN r = 1 .. n /\ DOMAIN ev = 1 .. n + 1
      /\ ev[1] = Head(ev) /\ \A i \in 1 .. n : r[i] = ev[i + 1]
  BY Shortened
<1> HIDE DEF r, n
<1>2. \A i, j \in 1 .. n : i < j => i + 1 < j + 1 /\ i + 1 \in 1 .. n + 1 /\ j + 1 \in 1 .. n + 1
  BY <1>1
<1>3. InOrder(r)
  <2> SUFFICES ASSUME NEW i \in 1 .. n, NEW j \in 1 .. n, i < j, r[j].old PROVE r[i].old
    BY <1>1 DEF InOrder
  <2>1. i + 1 \in DOMAIN ev /\ j + 1 \in DOMAIN ev /\ i + 1 < j + 1
    BY <1>1, <1>2
  <2>2. r[i] = ev[i + 1] /\ r[j] = ev[j + 1]
    BY <1>1
  <2> QED BY <2>1, <2>2 DEF InOrder
<1>4. ASSUME ~Head(ev).old, NEW e \in Current(ev) PROVE ~e.old
  <2>1. PICK i \in DOMAIN ev : e = ev[i]
    BY DEF Current
  <2>2. 1 \in DOMAIN ev /\ (i = 1 \/ 1 < i)
    BY <1>1
  <2> QED BY <1>1, <1>4, <2>1, <2>2 DEF InOrder
<1> QED BY <1>3, <1>4 DEF r

\* An event that is said now is not old.
LEMMA OrderMore ==
    ASSUME NEW ev \in Seq(Events), NEW e \in Events, ~e.old, InOrder(ev)
    PROVE  InOrder(ev \o <<e>>)
<1> DEFINE q == ev \o <<e>>
           n == Len(ev)
<1>1. /\ n \in Nat /\ DOMAIN q = 1 .. n + 1 /\ DOMAIN ev = 1 .. n
      /\ q[n + 1] = e /\ \A i \in 1 .. n : q[i] = ev[i]
  BY Appended
<1> HIDE DEF q, n
<1> SUFFICES ASSUME NEW i \in 1 .. n + 1, NEW j \in 1 .. n + 1, i < j, q[j].old PROVE q[i].old
  BY <1>1 DEF InOrder, q
<1>2. j # n + 1
  BY <1>1
<1>3. i \in 1 .. n /\ j \in 1 .. n
  BY <1>1, <1>2
<1> QED BY <1>1, <1>3 DEF InOrder

\* When a command is taken all that was said is old.
LEMMA OrderMarked ==
    ASSUME NEW ev \in Seq(Events)
    PROVE  InOrder(Marked(ev))
<1>1. \A i \in DOMAIN ev : ev[i] \in Events
  OBVIOUS
<1>2. \A d \in Events : [d EXCEPT !.old = TRUE].old
  BY DEF Events
<1>3. \A i \in DOMAIN ev : Marked(ev)[i].old
  BY <1>1, <1>2 DEF Marked
<1>4. DOMAIN Marked(ev) = DOMAIN ev
  BY DEF Marked
<1> QED BY <1>3, <1>4 DEF InOrder

-----------------------------------------------------------------------------
(* Spirc: the steps of the player.                                             *)

\* A load that the player takes keeps the task's belief right.
LEMMA LoadTaken ==
    ASSUME NEW o \in Seq(Commands), o # <<>>, NEW p, NEW m, NEW s \in TaskType, Believes(s, o, p, m),
           IsLoad(Head(o)),
           NEW q \in PlayerType, q.mode \in HasTrack,
           q.play = Head(o).play, q.track = Head(o).track, NEW e, e.kind = q.mode
    PROVE  Believes(s, Tail(o), q, {e})
<1> DEFINE h == Head(o)
           r == Tail(o)
<1>1. h \in Commands /\ q.play \in BOOLEAN
  BY TakenBefore DEF PlayerType
<1>2. Decides(h) /\ h.op # "Stop" /\ (Wants(h) <=> h.play)
  BY DEF Decides, Wants, IsLoad
<1>6. q.play = Wants(h) /\ q.track = IF IsLoad(h) THEN h.track ELSE p.track
  BY <1>1, <1>2 DEF Wants
<1>3. /\ Loads(o) /\ (StopsLater(o) <=> StopsLater(r))
      /\ WillPlay(o, p) <=> WillPlay(r, q)
      /\ WillHave(o, p, s.track) <=> WillHave(r, q, s.track)
  BY <1>2, <1>6, TakenBefore
<1> HIDE DEF h, r
<1>4. Known(s) => Intended(s, r, q)
  BY <1>3 DEF Believes, Intended
<1>5. Noticed(s, q, {e})
  BY DEF Noticed, HasTrack
<1> QED BY <1>4, <1>5 DEF Believes, r

\* Any other command that the player takes keeps the task's belief right.
LEMMA OrderTaken ==
    ASSUME NEW o \in Seq(Commands), o # <<>>, NEW p \in PlayerType, PlayFits(p), NEW m,
           NEW s \in TaskType, Believes(s, o, p, m), ~IsLoad(Head(o)),
           NEW old, \A e \in old : e.old, old = {} => m = {}, NEW said,
           NEW q \in PlayerType, q.track = p.track,
           \/ /\ Head(o).op \in {"Play", "Pause"} /\ p.mode = "Loading"
              /\ q.mode = "Loading" /\ q.play = (Head(o).op = "Play") /\ said = {}
           \/ /\ Head(o).op = "Play" /\ p.mode = "Paused" /\ q.mode = "Playing" /\ q.play
              /\ \E e : said = {e} /\ e.kind = "Playing"
           \/ /\ Head(o).op = "Pause" /\ p.mode = "Playing" /\ q.mode = "Paused" /\ ~q.play
              /\ \E e : said = {e} /\ e.kind = "Paused"
           \/ /\ Head(o).op = "Stop" /\ q.mode = "Stopped"
              /\ \E e : said = {e} /\ e.kind = "Stopped"
           \/ /\ Head(o).op = "Seek" /\ q = p
              /\ \E e : said = {e} /\ e.kind = "Seeked"
           \/ /\ \/ Head(o).op = "Play" /\ p.mode \notin {"Loading", "Paused"}
                 \/ Head(o).op = "Pause" /\ p.mode \notin {"Loading", "Playing"}
                 \/ Head(o).op = "Stop" /\ p.mode = "Stopped"
                 \/ Head(o).op = "Seek" /\ p.mode \notin {"Playing", "Paused"}
              /\ q = p /\ said = {}
    PROVE  Believes(s, Tail(o), q, old \cup said)
<1> DEFINE h == Head(o)
           r == Tail(o)
<1>1. h \in Commands /\ r \in Seq(Commands) /\ p.play \in BOOLEAN /\ q.play \in BOOLEAN
  BY TakenBefore DEF PlayerType
<1>2. (Decides(h) <=> h.op \in {"Play", "Pause"}) /\ (Wants(h) <=> h.op = "Play")
  BY DEF Decides, Wants, IsLoad
<1>3. /\ Loads(o) <=> Loads(r)
      /\ StopsLater(o) <=> StopsLater(r) \/ (h.op = "Stop" /\ ~Loads(r))
      /\ WillHave(o, p, s.track) <=> WillHave(r, q, s.track)
  BY TakenBefore
<1>4. Loads(r) \/ (IF Decides(h) THEN q.play = Wants(h) ELSE q.play = p.play)
      => (WillPlay(o, p) <=> WillPlay(r, q))
  BY TakenBefore
<1>5. CASE Loads(r)
  BY <1>3, <1>4, <1>5 DEF Believes, Intended
<1>6. CASE ~Loads(r)
  <2> SUFFICES ASSUME Known(s)
               PROVE  /\ q.mode \in HasTrack => Intended(s, r, q)
                      /\ Clean(r, old \cup said) /\ s.status # "Stopped" => Noticed(s, q, old \cup said)
    BY <1>6 DEF Believes
  <2>3. Clean(r, old \cup said) /\ s.status # "Stopped" => old = {} /\ Noticed(s, p, {})
    <3> SUFFICES ASSUME Clean(r, old \cup said), s.status # "Stopped"
                 PROVE  old = {} /\ Noticed(s, p, {})
      OBVIOUS
    <3>1. old = {} /\ m = {}
      BY DEF Clean
    <3> QED BY <1>3, <1>6, <3>1 DEF Believes, Clean
  <2>4. ASSUME p.mode \in HasTrack, h.op # "Stop",
               IF Decides(h) THEN q.play = Wants(h) ELSE q.play = p.play
        PROVE  Intended(s, r, q)
    <3>1. Intended(s, o, p)
      BY <2>4 DEF Believes
    <3> QED BY <1>3, <1>4, <2>4, <3>1 DEF Intended
  <2>5. CASE /\ h.op \in {"Play", "Pause"} /\ p.mode = "Loading"
             /\ q.mode = "Loading" /\ q.play = (h.op = "Play") /\ said = {}
    <3>1. q.play = Wants(h) /\ p.mode \in HasTrack
      BY <1>1, <1>2, <2>5 DEF Wants, IsLoad, HasTrack
    <3>2. Intended(s, r, q)
      BY <1>2, <2>4, <2>5, <3>1
    <3> QED BY <2>3, <2>5, <3>2 DEF Noticed
  <2>6. CASE /\ h.op = "Play" /\ p.mode = "Paused" /\ q.mode = "Playing" /\ q.play
             /\ \E e : said = {e} /\ e.kind = "Playing"
    <3>1. q.play = Wants(h) /\ p.mode \in HasTrack
      BY <1>1, <1>2, <2>6 DEF Wants, IsLoad, HasTrack
    <3>2. Intended(s, r, q)
      BY <1>2, <2>4, <2>6, <3>1
    <3> QED BY <2>3, <2>6, <3>2 DEF Noticed
  <2>7. CASE /\ h.op = "Pause" /\ p.mode = "Playing" /\ q.mode = "Paused" /\ ~q.play
             /\ \E e : said = {e} /\ e.kind = "Paused"
    <3>1. q.play = Wants(h) /\ p.mode \in HasTrack
      BY <1>1, <1>2, <2>7 DEF Wants, IsLoad, HasTrack
    <3>2. Intended(s, r, q)
      BY <1>2, <2>4, <2>7, <3>1
    <3> QED BY <2>3, <2>7, <3>2 DEF Noticed
  <2>8. CASE /\ h.op = "Stop" /\ q.mode = "Stopped"
             /\ \E e : said = {e} /\ e.kind = "Stopped"
    BY <2>3, <2>8 DEF Noticed, HasTrack
  <2>9. CASE /\ h.op = "Seek" /\ q = p
             /\ \E e : said = {e} /\ e.kind = "Seeked"
    <3>1. p.mode \in HasTrack => Intended(s, r, q)
      BY <1>2, <2>4, <2>9
    <3>2. ASSUME Noticed(s, p, {}), p.mode # "Stopped" PROVE Noticed(s, q, said)
      BY <2>9, <3>2 DEF Noticed
    <3>3. ASSUME Noticed(s, p, {}), p.mode = "Stopped" PROVE FALSE
      BY <3>3 DEF Noticed
    <3> QED BY <2>3, <2>9, <3>1, <3>2, <3>3
  <2>10. CASE /\ \/ h.op = "Play" /\ p.mode \notin {"Loading", "Paused"}
                 \/ h.op = "Pause" /\ p.mode \notin {"Loading", "Playing"}
                 \/ h.op = "Stop" /\ p.mode = "Stopped"
                 \/ h.op = "Seek" /\ p.mode \notin {"Playing", "Paused"}
              /\ q = p /\ said = {}
    <3>1. p.mode \in HasTrack /\ h.op = "Play" => p.play = Wants(h)
      BY <1>1, <1>2, <2>10 DEF PlayFits, Wants, IsLoad, HasTrack
    <3>2. p.mode \in HasTrack /\ h.op = "Pause" => p.play = Wants(h)
      BY <1>1, <1>2, <2>10 DEF PlayFits, Wants, IsLoad, HasTrack
    <3>4. p.mode \in HasTrack => h.op # "Stop"
      BY <2>10 DEF HasTrack
    <3>3. p.mode \in HasTrack => Intended(s, r, q)
      BY <1>2, <2>4, <2>10, <3>1, <3>2, <3>4
    <3> QED BY <2>3, <2>10, <3>3
  <2> QED BY <2>5, <2>6, <2>7, <2>8, <2>9, <2>10 DEF h
<1> QED BY <1>5, <1>6 DEF r

\* A track that starts, or was loaded at once.
LEMMA StartBelieves ==
    ASSUME NEW o \in Seq(Commands), NEW p \in PlayerType, p.mode = "Loading", NEW m,
           NEW s \in TaskType, Believes(s, o, p, m), NEW e, e.kind = Started(p).mode
    PROVE  Believes(s, o, Started(p), m \cup {e})
<1> DEFINE q == Started(p)
<1>1. q.play = p.play /\ q.track = p.track /\ q.mode \in {"Playing", "Paused"}
  BY DEF Started, PlayerType
<1>5. e.kind = q.mode
  OBVIOUS
<1> HIDE DEF q
<1>2. Intended(s, o, p) => Intended(s, o, q)
  BY <1>1 DEF Intended, WillPlay, WillHave
<1>3. p.mode \in HasTrack
  BY DEF HasTrack
<1>4. Clean(o, m \cup {e}) => Clean(o, m)
  BY DEF Clean
<1>6. Noticed(s, p, m) => Noticed(s, q, m \cup {e})
  BY <1>1, <1>5 DEF Noticed, HasTrack
<1> QED BY <1>2, <1>3, <1>4, <1>6 DEF Believes, q

\* A track that ends or cannot be had.
LEMMA EndBelieves ==
    ASSUME NEW o \in Seq(Commands), NEW p \in PlayerType, NEW m,
           NEW s \in TaskType, Believes(s, o, p, m),
           NEW mode \in {"EndOfTrack", "Failed"}, NEW e
    PROVE  Believes(s, o, [p EXCEPT !.mode = mode], m \cup {e})
<1> DEFINE q == [p EXCEPT !.mode = mode]
<1>1. q.play = p.play /\ q.track = p.track /\ q.mode = mode
  BY DEF PlayerType
<1> HIDE DEF q
<1>2. Intended(s, o, p) => Intended(s, o, q)
  BY <1>1 DEF Intended, WillPlay, WillHave
<1>3. Noticed(s, q, m \cup {e}) /\ q.mode \notin HasTrack
  BY <1>1 DEF Noticed, HasTrack
<1> QED BY <1>2, <1>3 DEF Believes, q

\* What the player says are events of its request.
LEMMA EventType ==
    ASSUME NEW p \in PlayerType, NEW kind \in Kinds
    PROVE  /\ Event(kind, p) \in Events /\ Event(kind, p).kind = kind /\ Event(kind, p).id = p.id
           /\ ~Event(kind, p).old
BY DEF Event, Events, PlayerType

\* What the player is, and what it has said.
Saying(id, p, ev) ==
  /\ p \in PlayerType /\ PlayFits(p) /\ ev \in Seq(Events)
  /\ Announced(ev, p.id) /\ InOrder(ev)
  /\ ~IdPending(ev) => id = p.id
  /\ \A e \in Current(ev) : e.id = p.id

\* One more event of the request leaves the events of the player's request in order.
LEMMA SaysMore ==
    ASSUME NEW id, NEW p, NEW ev, Saying(id, p, ev), NEW e \in Events, ~NewId(e), e.id = p.id, ~e.old
    PROVE  Saying(id, p, ev \o <<e>>)
<1> DEFINE q == ev \o <<e>>
<1>1. Announced(q, p.id) /\ InOrder(q)
  BY AnnouncedMore, OrderMore DEF Saying
<1>2. /\ q \in Seq(Events) /\ (IdPending(q) <=> IdPending(ev))
      /\ Current(q) = IF e.kind = "TrackChanged" THEN Current(ev) ELSE Current(ev) \cup {e}
  BY SaidAfter DEF Saying
<1> HIDE DEF q
<1> QED BY <1>1, <1>2 DEF Saying, q

\* Marking the events leaves them in order.
LEMMA SaysMarked ==
    ASSUME NEW id, NEW p, NEW ev, Saying(id, p, ev)
    PROVE  Saying(id, p, Marked(ev))
BY AnnouncedMarked, MarkedBefore, OrderMarked DEF Saying

\* Another state of the player, for the same request, leaves the events in order.
LEMMA SaysAs ==
    ASSUME NEW id, NEW p, NEW ev, Saying(id, p, ev), NEW q \in PlayerType, PlayFits(q), q.id = p.id
    PROVE  Saying(id, q, ev)
BY DEF Saying

\* A new request, and its start.
Begun(ev, d, e) == ev \o <<d, e>>
\* A new request, announced and started, leaves the events in order.
LEMMA SaysNew ==
    ASSUME NEW id, NEW p, NEW ev, Saying(id, p, ev), NEW q \in PlayerType, PlayFits(q),
           NEW d \in Events, NewId(d), d.id = q.id, ~d.old,
           NEW e \in Events, Starts(e), e.id = q.id, ~e.old
    PROVE  LET n == Begun(ev, d, e)
           IN /\ Saying(id, q, n) /\ HasStart(n)
              /\ Current(n) = IF e.kind = "TrackChanged" THEN {} ELSE {e}
<1> DEFINE n == Begun(ev, d, e)
<1>1. ev \in Seq(Events) /\ ev \o <<d>> \in Seq(Events) /\ n = (ev \o <<d>>) \o <<e>>
  BY DEF Saying, Begun
<1>2. ~NewId(e)
  BY DEF Starts, NewId
<1>3. Announced(n, q.id)
  BY <1>1, AnnouncedNew DEF Saying, Begun
<1> DEFINE k == ev \o <<d>>
<1>4. IdPending(k) /\ Current(k) = {} /\ InOrder(k)
  BY <1>1, SaidAfter, OrderMore DEF Saying
<1>7. k \in Seq(Events) /\ n = k \o <<e>>
  BY <1>1
<1> HIDE DEF k, n
<1>8. InOrder(n)
  BY <1>4, <1>7, OrderMore
<1>5. /\ n \in Seq(Events) /\ IdPending(n) /\ HasStart(n)
      /\ Current(n) = IF e.kind = "TrackChanged" THEN {} ELSE {e}
  BY <1>2, <1>4, <1>7, SaidAfter
<1> QED BY <1>3, <1>5, <1>8 DEF Saying, n

BegunAtOnce(ev, a, b, c) == ev \o (<<a>> \o <<b, c>>)
\* Announcing a request, its track and its start are three events in a row.
LEMMA ThreeSaid ==
    ASSUME NEW q \in Seq(Events), NEW a \in Events, NEW b \in Events, NEW c \in Events
    PROVE  BegunAtOnce(q, a, b, c) = Begun(q, a, b) \o <<c>>
<1> DEFINE n == Len(q)
           l == q \o (<<a>> \o <<b, c>>)
           r == (q \o <<a, b>>) \o <<c>>
<1>1. ASSUME NEW x \in Seq(Events), NEW y \in Seq(Events), Len(x) = Len(y), \A i \in 1 .. Len(x) : x[i] = y[i]
      PROVE  x = y
  BY <1>1
<1>2. /\ n \in Nat /\ l \in Seq(Events) /\ Len(l) = n + 3
      /\ l[n + 1] = a /\ l[n + 2] = b /\ l[n + 3] = c /\ \A i \in 1 .. n : l[i] = q[i]
  OBVIOUS
<1>3. /\ r \in Seq(Events) /\ Len(r) = n + 3
      /\ r[n + 1] = a /\ r[n + 2] = b /\ r[n + 3] = c /\ \A i \in 1 .. n : r[i] = q[i]
  OBVIOUS
<1> HIDE DEF l, r, n
<1>4. \A i \in 1 .. n + 3 : i \in 1 .. n \/ i = n + 1 \/ i = n + 2 \/ i = n + 3
  BY <1>2
<1>5. l = r
  BY <1>1, <1>2, <1>3, <1>4
<1> QED BY <1>5 DEF l, r, Begun, BegunAtOnce

\* What the steps of the player have in common.
SpircIInv ==
  /\ Ready
  /\ Saying(task.id, player, events)
  /\ Believes(task, out, player, Current(events))

\* What is reported with less under way is reported with more.
LEMMA StillReported ==
    ASSUME NEW t, NEW a, NEW b, a => b, Reported(t, a)
    PROVE  Reported(t, b)
BY DEF Reported

\* A step of the player that keeps the belief and the events keeps the invariant.
LEMMA PlayerSteps ==
    ASSUME Ready, UNCHANGED <<task, loop>>, out' \in Seq(Commands),
           Due(out, events) => Due(out', events'),
           Saying(task.id, player', events'),
           Believes(task, out', player', Current(events'))
    PROVE  SpircIInv'
<1>1. Ready'
  BY StillReported DEF Ready, Running
<1> QED BY <1>1 DEF SpircIInv

\* A track that is loaded and starts keeps the invariant.
LEMMA PlayerStartsKeeps ==
    ASSUME SpircIInv, PlayerStarts
    PROVE  SpircIInv'
<1> DEFINE q == Started(player)
           d == Event("TrackChanged", player)
           e == Event(q.mode, player)
           n == events \o <<d>>
<1>1. /\ player.mode = "Loading" /\ UNCHANGED <<task, out, loop>>
      /\ player' = q /\ events' = events \o <<d, e>>
  BY DEF PlayerStarts, Says, StartEvents
<1>2. player \in PlayerType /\ events \in Seq(Events)
  BY DEF SpircIInv, Saying
<1>3. q \in PlayerType /\ PlayFits(q) /\ q.id = player.id /\ q.mode \in Kinds /\ q.mode \in {"Playing", "Paused"}
  BY <1>2 DEF Started, PlayerType, Modes, PlayFits, Kinds
<1>4. d \in Events /\ d.kind = "TrackChanged" /\ d.id = player.id /\ ~d.old
  BY <1>2, EventType DEF Kinds
<1>5. e \in Events /\ e.kind = q.mode /\ e.id = player.id /\ ~e.old
  BY <1>2, <1>3, EventType
<1>6. events' = n \o <<e>>
  BY <1>1, <1>2, <1>4, <1>5
<1> HIDE DEF d, e
<1>7. n \in Seq(Events) /\ Current(n) = Current(events) /\ HasStart(n)
  BY <1>2, <1>4, SaidAfter DEF NewId, Starts
<1>8. Saying(task.id, player, n)
  BY <1>4, SaysMore DEF NewId, SpircIInv
<1> HIDE DEF n
<1>9. Saying(task.id, player, events')
  BY <1>3, <1>5, <1>6, <1>8, SaysMore DEF NewId
<1>10. Saying(task.id, player', events')
  BY <1>1, <1>3, <1>9, SaysAs
<1>11. HasStart(events') /\ Current(events') = Current(events) \cup {e}
  BY <1>3, <1>5, <1>6, <1>7, SaidAfter DEF NewId
<1>12. Believes(task, out, player', Current(events) \cup {e})
  BY <1>1, <1>2, <1>5, StartBelieves DEF SpircIInv, Ready
<1> QED BY <1>1, <1>10, <1>11, <1>12, PlayerSteps DEF SpircIInv, Ready, Due

\* A track that ends or fails keeps the invariant.
LEMMA PlayerEndsKeeps ==
    ASSUME SpircIInv, PlayerFails \/ PlayerEnds
    PROVE  SpircIInv'
<1>1. PICK mode \in {"EndOfTrack", "Failed"}, kind \in {"EndOfTrack", "Unavailable"} :
        /\ UNCHANGED <<task, out, loop>> /\ player' = [player EXCEPT !.mode = mode]
        /\ events' = events \o <<Event(kind, player)>>
  BY DEF PlayerFails, PlayerEnds, Says
<1> DEFINE e == Event(kind, player)
           q == [player EXCEPT !.mode = mode]
<1>2. player \in PlayerType /\ events \in Seq(Events)
  BY DEF SpircIInv, Saying
<1>3. q \in PlayerType /\ PlayFits(q) /\ q.id = player.id
  BY <1>2 DEF PlayerType, Modes, PlayFits
<1>4. e \in Events /\ e.kind = kind /\ e.id = player.id /\ ~e.old
  BY <1>2, EventType DEF Kinds
<1>5. ~NewId(e) /\ e.kind # "TrackChanged"
  BY <1>4 DEF NewId
<1>6. Believes(task, out, q, Current(events) \cup {e})
  BY <1>2, EndBelieves DEF SpircIInv, Ready
<1>7. events' = events \o <<e>> /\ player' = q
  BY <1>1
<1> HIDE DEF e, q
<1>8. Saying(task.id, player, events')
  BY <1>4, <1>5, <1>7, SaysMore DEF SpircIInv
<1>9. Saying(task.id, player', events')
  BY <1>3, <1>7, <1>8, SaysAs
<1>10. Current(events') = Current(events) \cup {e} /\ (HasStart(events) => HasStart(events'))
  BY <1>2, <1>4, <1>5, <1>7, SaidAfter
<1> QED BY <1>1, <1>6, <1>7, <1>9, <1>10, PlayerSteps DEF SpircIInv, Ready, Due

\* A command that the player takes keeps the invariant.
LEMMA PlayerTakesKeeps ==
    ASSUME SpircIInv, PlayerTakes
    PROVE  SpircIInv'
<1> DEFINE c == Head(out)
           old == Marked(events)
           fresh == [mode |-> "Loading", id |-> player.id + 1, track |-> c.track, play |-> c.play]
           begins == <<Event("PlayRequestIdChanged", fresh)>>
<1>0. /\ player \in PlayerType /\ events \in Seq(Events) /\ out \in Seq(Commands) /\ task \in TaskType
      /\ Saying(task.id, player, events) /\ PlayFits(player)
      /\ Believes(task, out, player, Current(events))
  BY DEF SpircIInv, Saying, Ready
<1>1. /\ out # <<>> /\ out' = Tail(out) /\ UNCHANGED <<task, loop>>
      /\ \/ c.op = "Load" /\ Answers(fresh, begins \o <<Event("Loading", fresh)>>)
         \/ c.op = "Load" /\ Answers(Started(fresh), begins \o StartEvents(fresh))
         \/ /\ c.op \in {"Play", "Pause"} /\ player.mode = "Loading"
            /\ Answers([player EXCEPT !.play = (c.op = "Play")], <<>>)
         \/ /\ c.op = "Play" /\ player.mode = "Paused"
            /\ Answers([player EXCEPT !.mode = "Playing", !.play = TRUE], <<Event("Playing", player)>>)
         \/ /\ c.op = "Pause" /\ player.mode = "Playing"
            /\ Answers([player EXCEPT !.mode = "Paused", !.play = FALSE], <<Event("Paused", player)>>)
         \/ /\ c.op = "Stop" /\ player.mode # "Stopped"
            /\ Answers([player EXCEPT !.mode = "Stopped"], <<Event("Stopped", player)>>)
         \/ /\ c.op = "Seek" /\ player.mode \in {"Playing", "Paused"}
            /\ Answers(player, <<Event("Seeked", player)>>)
         \/ /\ \/ c.op = "Play" /\ player.mode \notin {"Loading", "Paused"}
               \/ c.op = "Pause" /\ player.mode \notin {"Loading", "Playing"}
               \/ c.op = "Stop" /\ player.mode = "Stopped"
               \/ c.op = "Seek" /\ player.mode \notin {"Playing", "Paused"}
            /\ Answers(player, <<>>)
  BY DEF PlayerTakes
<1>2. \A p, said : Answers(p, said) => player' = p /\ events' = old \o said
  BY DEF Answers, Marked
<1>3. /\ out' \in Seq(Commands) /\ c \in Commands
      /\ Loads(out) <=> IsLoad(c) \/ Loads(out')
  BY <1>0, <1>1, TakenBefore
<1>4. /\ old \in Seq(Events)
      /\ \A e \in Current(old) : e.old
      /\ Current(old) = {} => Current(events) = {}
      /\ HasStart(old) <=> HasStart(events)
  BY <1>0, MarkedBefore
<1>5. Saying(task.id, player, old)
  BY <1>0, SaysMarked
<1> HIDE DEF old
<1>6. CASE IsLoad(c)
  <2> DEFINE d == Event("PlayRequestIdChanged", fresh)
             l == Event("Loading", fresh)
             s == Started(fresh)
             tc == Event("TrackChanged", fresh)
             se == Event(s.mode, fresh)
  <2>1. fresh \in PlayerType /\ fresh.id = player.id + 1 /\ fresh.mode = "Loading"
        /\ fresh.track = c.track /\ fresh.play = c.play /\ PlayFits(fresh)
    BY <1>0, <1>3 DEF PlayerType, Commands, Modes, PlayFits
  <2>2. \/ player' = fresh /\ events' = old \o (<<d>> \o <<l>>)
        \/ player' = s /\ events' = BegunAtOnce(old, d, tc, se)
    BY <1>1, <1>2, <1>6 DEF IsLoad, StartEvents, BegunAtOnce
  <2> HIDE DEF fresh
  <2>3. s \in PlayerType /\ PlayFits(s) /\ s.id = fresh.id /\ s.mode \in Kinds
        /\ s.mode \in {"Playing", "Paused"} /\ s.track = fresh.track /\ s.play = fresh.play
    BY <2>1 DEF Started, PlayerType, Modes, PlayFits, Kinds
  <2> HIDE DEF s
  <2>4. d \in Events /\ NewId(d) /\ d.id = fresh.id /\ ~d.old
    BY <2>1, EventType DEF Kinds, NewId
  <2>5. l \in Events /\ Starts(l) /\ l.id = fresh.id /\ l.kind = "Loading" /\ ~l.old
    BY <2>1, EventType DEF Kinds, Starts
  <2>6. tc \in Events /\ Starts(tc) /\ tc.id = fresh.id /\ tc.kind = "TrackChanged" /\ ~tc.old
    BY <2>1, EventType DEF Kinds, Starts
  <2>7. se \in Events /\ se.kind = s.mode /\ se.id = fresh.id /\ ~se.old
    BY <2>1, <2>3, EventType
  <2> HIDE DEF d, l, tc, se
  <2>8. CASE player' = fresh /\ events' = old \o (<<d>> \o <<l>>)
    <3>1. events' = Begun(old, d, l)
      BY <2>8 DEF Begun
    <3>2. Saying(task.id, fresh, events') /\ HasStart(events') /\ Current(events') = {l}
      BY <1>5, <2>1, <2>4, <2>5, <3>1, SaysNew
    <3>3. Believes(task, out', fresh, {l})
      BY <1>0, <1>1, <1>6, <2>1, <2>5, LoadTaken DEF HasTrack
    <3> QED BY <1>1, <1>3, <2>8, <3>2, <3>3, PlayerSteps DEF SpircIInv, Due
  <2>9. CASE player' = s /\ events' = BegunAtOnce(old, d, tc, se)
    <3> DEFINE n == Begun(old, d, tc)
    <3>1. events' = n \o <<se>>
      BY <1>4, <2>4, <2>6, <2>7, <2>9, ThreeSaid
    <3>2. Saying(task.id, fresh, n) /\ HasStart(n) /\ Current(n) = {}
      BY <1>5, <2>1, <2>4, <2>6, SaysNew
    <3> HIDE DEF n
    <3>3. ~NewId(se) /\ se.kind # "TrackChanged" /\ n \in Seq(Events)
      BY <2>3, <2>7, <3>2 DEF NewId, Saying
    <3>4. Saying(task.id, fresh, events')
      BY <2>7, <3>1, <3>2, <3>3, SaysMore
    <3>5. Saying(task.id, s, events')
      BY <2>3, <3>4, SaysAs
    <3>6. Current(events') = {} \cup {se} /\ HasStart(events')
      BY <2>7, <3>1, <3>2, <3>3, SaidAfter
    <3>7. Believes(task, out', s, {se})
      BY <1>0, <1>1, <1>6, <2>1, <2>3, <2>7, LoadTaken DEF HasTrack
    <3>8. Current(events') = {se}
      BY <3>6
    <3> QED BY <1>1, <1>3, <2>9, <3>5, <3>6, <3>7, <3>8, PlayerSteps DEF SpircIInv, Due
  <2> QED BY <2>2, <2>8, <2>9
<1>7. CASE ~IsLoad(c)
  <2>1. ASSUME NEW q \in PlayerType, PlayFits(q), q.id = player.id, NEW said,
               player' = q, Believes(task, out', q, Current(old) \cup said),
               \/ said = {} /\ events' = old
               \/ \E e \in Events : /\ said = {e} /\ events' = old \o <<e>> /\ e.id = q.id /\ ~e.old
                                    /\ e.kind \notin {"PlayRequestIdChanged", "TrackChanged"}
        PROVE  SpircIInv'
    <3>1. Saying(task.id, q, old)
      BY <1>5, <2>1, SaysAs
    <3>2. CASE said = {} /\ events' = old
      <4>1. Current(old) \cup said = Current(events')
        BY <3>2
      <4> QED BY <1>1, <1>3, <1>4, <1>7, <2>1, <3>1, <3>2, <4>1, PlayerSteps DEF SpircIInv, Due
    <3>3. ASSUME NEW e \in Events, said = {e}, events' = old \o <<e>>, e.id = q.id, ~e.old,
                 e.kind \notin {"PlayRequestIdChanged", "TrackChanged"}
          PROVE  SpircIInv'
      <4>1. ~NewId(e)
        BY <3>3 DEF NewId
      <4>2. Saying(task.id, q, events')
        BY <3>1, <3>3, <4>1, SaysMore
      <4>3. Current(events') = Current(old) \cup {e} /\ (HasStart(old) => HasStart(events'))
        BY <1>4, <3>3, <4>1, SaidAfter
      <4> QED BY <1>1, <1>3, <1>4, <1>7, <2>1, <3>3, <4>2, <4>3, PlayerSteps DEF SpircIInv, Due
    <3> QED BY <2>1, <3>2, <3>3
  <2>2. \A kind \in Kinds : Event(kind, player) \in Events /\ Event(kind, player).kind = kind
                            /\ Event(kind, player).id = player.id /\ ~Event(kind, player).old
    BY <1>0, EventType
  <2>3. old \o <<>> = old
    BY <1>4
  <2>4. ASSUME c.op \in {"Play", "Pause"}, player.mode = "Loading",
               Answers([player EXCEPT !.play = (c.op = "Play")], <<>>)
        PROVE  SpircIInv'
    <3> DEFINE q == [player EXCEPT !.play = (c.op = "Play")]
    <3>1. /\ q \in PlayerType /\ PlayFits(q) /\ q.id = player.id /\ q.track = player.track
          /\ q.mode = "Loading" /\ q.play = (c.op = "Play")
      BY <1>0, <2>4 DEF PlayerType, PlayFits
    <3>2. player' = q /\ events' = old
      BY <1>2, <2>3, <2>4
    <3> HIDE DEF q
    <3>3. Believes(task, out', q, Current(old) \cup {})
      BY <1>0, <1>1, <1>4, <1>7, <2>4, <3>1, OrderTaken
    <3> QED BY <2>1, <3>1, <3>2, <3>3
  <2>5. ASSUME c.op = "Play", player.mode = "Paused",
               Answers([player EXCEPT !.mode = "Playing", !.play = TRUE], <<Event("Playing", player)>>)
        PROVE  SpircIInv'
    <3> DEFINE q == [player EXCEPT !.mode = "Playing", !.play = TRUE]
               e == Event("Playing", player)
    <3>1. /\ q \in PlayerType /\ PlayFits(q) /\ q.id = player.id /\ q.track = player.track
          /\ q.mode = "Playing" /\ q.play
      BY <1>0 DEF PlayerType, PlayFits, Modes
    <3>2. player' = q /\ events' = old \o <<e>>
      BY <1>2, <2>5
    <3>4. e \in Events /\ e.kind = "Playing" /\ e.id = player.id /\ ~e.old
      BY <2>2 DEF Kinds
    <3> HIDE DEF q, e
    <3>3. Believes(task, out', q, Current(old) \cup {e})
      BY <1>0, <1>1, <1>4, <1>7, <2>5, <3>1, <3>4, OrderTaken
    <3> QED BY <2>1, <3>1, <3>2, <3>3, <3>4
  <2>6. ASSUME c.op = "Pause", player.mode = "Playing",
               Answers([player EXCEPT !.mode = "Paused", !.play = FALSE], <<Event("Paused", player)>>)
        PROVE  SpircIInv'
    <3> DEFINE q == [player EXCEPT !.mode = "Paused", !.play = FALSE]
               e == Event("Paused", player)
    <3>1. /\ q \in PlayerType /\ PlayFits(q) /\ q.id = player.id /\ q.track = player.track
          /\ q.mode = "Paused" /\ ~q.play
      BY <1>0 DEF PlayerType, PlayFits, Modes
    <3>2. player' = q /\ events' = old \o <<e>>
      BY <1>2, <2>6
    <3>4. e \in Events /\ e.kind = "Paused" /\ e.id = player.id /\ ~e.old
      BY <2>2 DEF Kinds
    <3> HIDE DEF q, e
    <3>3. Believes(task, out', q, Current(old) \cup {e})
      BY <1>0, <1>1, <1>4, <1>7, <2>6, <3>1, <3>4, OrderTaken
    <3> QED BY <2>1, <3>1, <3>2, <3>3, <3>4
  <2>7. ASSUME c.op = "Stop", player.mode # "Stopped",
               Answers([player EXCEPT !.mode = "Stopped"], <<Event("Stopped", player)>>)
        PROVE  SpircIInv'
    <3> DEFINE q == [player EXCEPT !.mode = "Stopped"]
               e == Event("Stopped", player)
    <3>1. /\ q \in PlayerType /\ PlayFits(q) /\ q.id = player.id /\ q.track = player.track
          /\ q.mode = "Stopped"
      BY <1>0 DEF PlayerType, PlayFits, Modes
    <3>2. player' = q /\ events' = old \o <<e>>
      BY <1>2, <2>7
    <3>4. e \in Events /\ e.kind = "Stopped" /\ e.id = player.id /\ ~e.old
      BY <2>2 DEF Kinds
    <3> HIDE DEF q, e
    <3>3. Believes(task, out', q, Current(old) \cup {e})
      BY <1>0, <1>1, <1>4, <1>7, <2>7, <3>1, <3>4, OrderTaken
    <3> QED BY <2>1, <3>1, <3>2, <3>3, <3>4
  <2>8. ASSUME c.op = "Seek", player.mode \in {"Playing", "Paused"},
               Answers(player, <<Event("Seeked", player)>>)
        PROVE  SpircIInv'
    <3> DEFINE e == Event("Seeked", player)
    <3>2. player' = player /\ events' = old \o <<e>>
      BY <1>2, <2>8
    <3>4. e \in Events /\ e.kind = "Seeked" /\ e.id = player.id /\ ~e.old
      BY <2>2 DEF Kinds
    <3> HIDE DEF e
    <3>3. Believes(task, out', player, Current(old) \cup {e})
      BY <1>0, <1>1, <1>4, <1>7, <2>8, <3>4, OrderTaken
    <3> QED BY <1>0, <2>1, <3>2, <3>3, <3>4
  <2>9. ASSUME \/ c.op = "Play" /\ player.mode \notin {"Loading", "Paused"}
               \/ c.op = "Pause" /\ player.mode \notin {"Loading", "Playing"}
               \/ c.op = "Stop" /\ player.mode = "Stopped"
               \/ c.op = "Seek" /\ player.mode \notin {"Playing", "Paused"},
               Answers(player, <<>>)
        PROVE  SpircIInv'
    <3>2. player' = player /\ events' = old
      BY <1>2, <2>3, <2>9
    <3>3. Believes(task, out', player, Current(old) \cup {})
      BY <1>0, <1>1, <1>4, <1>7, <2>9, OrderTaken
    <3> QED BY <1>0, <2>1, <3>2, <3>3
  <2> HIDE DEF fresh, begins
  <2>10. c.op # "Load"
    BY <1>7 DEF IsLoad
  <2> QED BY <1>1, <2>4, <2>5, <2>6, <2>7, <2>8, <2>9, <2>10
<1> QED BY <1>6, <1>7

-----------------------------------------------------------------------------
(* Spirc: the player's events, as the task takes them.                         *)

\* A status that an event changes, or leaves.
Turned(s, t, status) ==
  /\ t \in TaskType /\ t.status = status
  /\ t.id = s.id /\ t.active = s.active /\ t.track = s.track /\ t.context = s.context
  /\ t.crossed = s.crossed /\ t.left = s.left
  /\ t.update \/ t = s

\* What an event of the player turns the task's status into.
LEMMA TurnedBy ==
    ASSUME NEW s \in TaskType
    PROVE  /\ Turned(s, Playing_(s), IF s.status \in Waiting \cup {"Playing"} THEN "Playing" ELSE s.status)
           /\ Turned(s, Paused_(s), IF s.status = "Stopped" THEN "Stopped" ELSE "Paused")
           /\ Turned(s, Stopped_(s), "Stopped")
           /\ Turned(s, [s EXCEPT !.update = TRUE], s.status)
<1>1. ASSUME NEW status \in Statuses
      PROVE  Turned(s, [s EXCEPT !.status = status, !.update = TRUE], status)
  <2> DEFINE a == [s EXCEPT !.status = status]
             b == [a EXCEPT !.update = TRUE]
  <2>1. /\ a \in TaskType /\ a.status = status
        /\ a.id = s.id /\ a.active = s.active /\ a.track = s.track /\ a.context = s.context
        /\ a.crossed = s.crossed /\ a.left = s.left
    BY DEF TaskType
  <2>2. b = [s EXCEPT !.status = status, !.update = TRUE]
    OBVIOUS
  <2> HIDE DEF a
  <2>3. /\ b \in TaskType /\ b.status = status /\ b.update
        /\ b.id = a.id /\ b.active = a.active /\ b.track = a.track /\ b.context = a.context
        /\ b.crossed = a.crossed /\ b.left = a.left
    BY <2>1 DEF TaskType
  <2> HIDE DEF b
  <2> QED BY <2>1, <2>2, <2>3 DEF Turned
<1>2. Turned(s, s, s.status)
  BY DEF Turned
<1>3. "Playing" \in Statuses /\ "Paused" \in Statuses /\ "Stopped" \in Statuses
  BY DEF Statuses, Playing
<1>6. Turned(s, Playing_(s), IF s.status \in Waiting \cup {"Playing"} THEN "Playing" ELSE s.status)
  <2>1. CASE s.status \in Waiting \cup {"Playing"}
    <3>1. Playing_(s) = [s EXCEPT !.status = "Playing", !.update = TRUE]
      BY <2>1 DEF Playing_, Waiting
    <3> QED BY <1>1, <1>3, <2>1, <3>1
  <2>2. CASE s.status \notin Waiting \cup {"Playing"}
    <3>1. Playing_(s) = s
      BY <2>2 DEF Playing_, Waiting
    <3> QED BY <1>2, <2>2, <3>1
  <2> QED BY <2>1, <2>2
<1>7. Turned(s, Paused_(s), IF s.status = "Stopped" THEN "Stopped" ELSE "Paused")
  BY <1>1, <1>2, <1>3 DEF Paused_
<1>8. Turned(s, Stopped_(s), "Stopped")
  BY <1>1, <1>2, <1>3 DEF Stopped_
<1>9. Turned(s, [s EXCEPT !.update = TRUE], s.status)
  BY DEF Turned, TaskType
<1> QED BY <1>6, <1>7, <1>8, <1>9

\* What an event of the current request means: a status, or the next track.
LEMMA MeaningFacts ==
    ASSUME NEW s \in TaskType, Away(s), NEW e \in Events,
           e.kind \notin {"PlayRequestIdChanged", "TrackChanged"}
    PROVE  LET r == Meaning(s, e)
           IN /\ r.s \in TaskType /\ r.send \in Sent
              /\ r.s.id = s.id /\ Away(r.s)
              /\ r.s.update \/ (r.send = <<>> /\ (r.s = s \/ Hidden(s, r.s)))
              /\ e.kind = "Loading" => r.s.update
              /\ Fresh(r) \/ SameLeft(s, r.s)
              /\ e.kind \notin {"EndOfTrack", "Unavailable"} => r.s.left = s.left
              /\ e.kind = "Playing" =>
                   /\ r.send = <<>> /\ r.s.track = s.track
                   /\ r.s.status = IF s.status \in Waiting \cup {"Playing"} THEN "Playing" ELSE s.status
              /\ e.kind = "Paused" =>
                   /\ r.send = <<>> /\ r.s.track = s.track
                   /\ r.s.status = IF s.status = "Stopped" THEN "Stopped" ELSE "Paused"
              /\ e.kind = "Stopped" => r.send = <<>> /\ r.s.track = s.track /\ r.s.status = "Stopped"
              /\ e.kind \in {"Loading", "Seeked"} =>
                   r.send = <<>> /\ r.s.track = s.track /\ r.s.status = s.status
              /\ e.kind \in {"EndOfTrack", "Unavailable"} =>
                   Fresh(r) \/ (r.send \in {<<>>, <<Order("Stop")>>} /\ r.s.status = s.status)
<1> DEFINE r == Meaning(s, e)
<1>1. ASSUME NEW t, NEW status, Turned(s, t, status), r = Does(t),
             s.status = "Stopped" => status = "Stopped"
      PROVE  /\ r.s \in TaskType /\ r.send \in Sent
             /\ r.s.id = s.id /\ Away(r.s)
             /\ r.s.update \/ (r.send = <<>> /\ (r.s = s \/ Hidden(s, r.s)))
             /\ SameLeft(s, r.s) /\ r.s.left = s.left
             /\ r.send = <<>> /\ r.s.track = s.track /\ r.s.status = status
  <2>1. r.s = t /\ r.send = <<>>
    BY <1>1 DEF Does
  <2> HIDE DEF r
  <2>2. Away(t) /\ SameLeft(s, t)
    BY <1>1 DEF Turned, Away, SameLeft
  <2> QED BY <1>1, <2>1, <2>2, OrderType DEF Turned
<1>2. CASE e.kind = "Playing"
  <2>1. r = Does(Playing_(s))
    BY <1>2 DEF Meaning
  <2> HIDE DEF r
  <2> QED BY <1>1, <1>2, <2>1, TurnedBy DEF Waiting, r
<1>3. CASE e.kind = "Paused"
  <2>1. r = Does(Paused_(s))
    BY <1>3 DEF Meaning
  <2> HIDE DEF r
  <2> QED BY <1>1, <1>3, <2>1, TurnedBy DEF r
<1>4. CASE e.kind = "Stopped"
  <2>1. r = Does(Stopped_(s))
    BY <1>4 DEF Meaning
  <2> HIDE DEF r
  <2> QED BY <1>1, <1>4, <2>1, TurnedBy DEF r
<1>5. CASE e.kind \in {"Loading", "Seeked"}
  <2> DEFINE d == [s EXCEPT !.update = TRUE]
  <2>1. r = Does(d) /\ r.s = d
    BY <1>5 DEF Meaning, Does
  <2>2. d.update /\ Turned(s, d, s.status)
    BY TurnedBy DEF TaskType
  <2> HIDE DEF r, d
  <2> QED BY <1>1, <1>5, <2>1, <2>2 DEF r
<1>6. CASE e.kind \in {"EndOfTrack", "Unavailable"}
  <2>1. PICK d \in {Does(s), HandleNext(s)} : r = Later(d)
    BY <1>6 DEF Meaning
  <2>2. /\ IsResult(d) /\ d.s \in TaskType /\ d.send \in Sent /\ d.s.id = s.id /\ Away(d.s)
        /\ Breaks(s, d)
        /\ \/ Fresh(d)
           \/ /\ SameLeft(s, d.s) /\ d.s.status = s.status
              /\ d.send \in {<<>>, <<Order("Stop")>>}
    <3>1. CASE d = Does(s)
      BY <3>1, Results, OrderType DEF Does, Breaks, SameLeft
    <3>2. CASE d = HandleNext(s)
      BY <3>2, Results, HandleNextFacts DEF Handled
    <3> QED BY <3>1, <3>2
  <2> DEFINE t == [d.s EXCEPT !.update = TRUE]
             u == Unput(d.s)
             v == IF d.ok THEN t ELSE u
  <2>3. t \in TaskType /\ Alike(d.s, t) /\ t.update
    BY <2>2 DEF TaskType, Alike
  <2>4. ~d.ok => u \in TaskType /\ Alike(d.s, u) /\ Hidden(s, u) /\ d.send = <<>>
    BY <2>2, UnputFacts DEF Breaks
  <2>5. r = [s |-> v, send |-> d.send, ok |-> d.ok]
    BY <2>1, <2>2 DEF Later, After, IsResult
  <2> HIDE DEF t, u
  <2>10. v \in TaskType /\ Alike(d.s, v) /\ (v.update \/ (d.send = <<>> /\ Hidden(s, v)))
    BY <2>3, <2>4
  <2>11. r.s = v /\ r.send = d.send
    BY <2>5
  <2> HIDE DEF r, v
  <2>6. Fresh(d) => Fresh(r)
    BY <2>10, <2>11 DEF Fresh, Alike
  <2>7. Away(v) /\ v.id = s.id
    BY <2>2, <2>10 DEF Away, Alike
  <2>9. Fresh(r) \/ (/\ SameLeft(s, v) /\ v.status = s.status
                     /\ r.send \in {<<>>, <<Order("Stop")>>})
    BY <2>2, <2>6, <2>10, <2>11 DEF Alike, SameLeft
  <2> QED BY <1>6, <2>2, <2>7, <2>9, <2>10, <2>11 DEF r
<1>7. e.kind \in Kinds
  BY DEF Events
<1> QED BY <1>2, <1>3, <1>4, <1>5, <1>6, <1>7 DEF Kinds

\* A task that calls itself stopped stays so, whatever event it handles.
LEMMA StoppedMeaning ==
    ASSUME NEW o \in Seq(Commands), NEW p, NEW m, NEW n, NEW s \in TaskType, Away(s),
           s.status = "Stopped", NEW e \in Events,
           e.kind \notin {"PlayRequestIdChanged", "TrackChanged"}, Believes(s, o, p, m)
    PROVE  LET r == Meaning(s, e) IN Believes(r.s, o \o r.send, p, n)
<1> DEFINE r == Meaning(s, e)
           t == r.s
<1>1. /\ t \in TaskType /\ r.send \in Sent
      /\ Fresh(r) \/ SameLeft(s, t)
      /\ e.kind = "Playing" =>
           /\ r.send = <<>>
           /\ t.status = IF s.status \in Waiting \cup {"Playing"} THEN "Playing" ELSE s.status
      /\ e.kind = "Paused" =>
           /\ r.send = <<>>
           /\ t.status = IF s.status = "Stopped" THEN "Stopped" ELSE "Paused"
      /\ e.kind = "Stopped" => r.send = <<>> /\ t.status = "Stopped"
      /\ e.kind \in {"Loading", "Seeked"} => r.send = <<>> /\ t.status = s.status
      /\ e.kind \in {"EndOfTrack", "Unavailable"} =>
           Fresh(r) \/ (r.send \in {<<>>, <<Order("Stop")>>} /\ t.status = s.status)
  BY MeaningFacts
<1>2. e.kind \in Kinds
  BY DEF Events
<1> HIDE DEF r
<1>3. CASE Fresh(r)
  BY <1>1, <1>3, FreshBelieves DEF r
<1>4. CASE ~Fresh(r)
  <2>1. t.status = "Stopped" /\ r.send \in {<<>>, <<Order("Stop")>>}
    BY <1>1, <1>2, <1>4 DEF Kinds, Waiting
  <2>2. Known(t) => Known(s)
    BY <1>1, <1>4 DEF SameLeft, Known
  <2>3. CASE r.send = <<>>
    <3>1. o \o r.send = o
      BY <2>3
    <3>2. Intended(s, o, p) => Intended(t, o, p)
      BY <2>1 DEF Intended
    <3> QED BY <2>1, <2>2, <3>1, <3>2 DEF Believes, r
  <2>4. CASE r.send = <<Order("Stop")>>
    <3>1. Order("Stop") \in Commands /\ Order("Stop").op = "Stop"
      BY DEF Order, Commands
    <3>2. Intended(t, o \o <<Order("Stop")>>, p)
      BY <3>1, SentAfter DEF Intended
    <3> QED BY <2>1, <2>4, <3>2 DEF Believes, r
  <2> QED BY <2>1, <2>3, <2>4
<1> QED BY <1>3, <1>4

\* An event that no command crossed tells what the player does.
LEMMA MeaningBelieves ==
    ASSUME NEW p \in PlayerType, PlayFits(p), NEW m, NEW s \in TaskType, Away(s), NEW e \in Events,
           e.kind \notin {"PlayRequestIdChanged", "TrackChanged"}, s.status # "Stopped",
           \A d \in m \cup {e} : ~d.old, Believes(s, <<>>, p, m \cup {e})
    PROVE  LET r == Meaning(s, e) IN Believes(r.s, <<>> \o r.send, p, m)
<1> DEFINE r == Meaning(s, e)
           t == r.s
<1>1. /\ t \in TaskType /\ r.send \in Sent
      /\ Fresh(r) \/ SameLeft(s, t)
      /\ e.kind \notin {"EndOfTrack", "Unavailable"} => t.left = s.left
      /\ e.kind = "Playing" =>
           /\ r.send = <<>> /\ t.track = s.track
           /\ t.status = IF s.status \in Waiting \cup {"Playing"} THEN "Playing" ELSE s.status
      /\ e.kind = "Paused" =>
           /\ r.send = <<>> /\ t.track = s.track
           /\ t.status = IF s.status = "Stopped" THEN "Stopped" ELSE "Paused"
      /\ e.kind = "Stopped" => r.send = <<>> /\ t.track = s.track /\ t.status = "Stopped"
      /\ e.kind \in {"Loading", "Seeked"} =>
           r.send = <<>> /\ t.track = s.track /\ t.status = s.status
      /\ e.kind \in {"EndOfTrack", "Unavailable"} =>
           Fresh(r) \/ (r.send \in {<<>>, <<Order("Stop")>>} /\ t.status = s.status)
  BY MeaningFacts
<1> HIDE DEF r
<1>2. <<>> \in Seq(Commands) /\ ~Loads(<<>>) /\ ~StopsLater(<<>>) /\ <<>> \o <<>> = <<>>
  BY NothingSent
<1>3. CASE Fresh(r)
  BY <1>1, <1>2, <1>3, FreshBelieves DEF r
<1>4. CASE ~Fresh(r)
  <2>1. SUFFICES ASSUME Known(t) PROVE Believes(t, <<>> \o r.send, p, m)
    BY DEF Believes, r
  <2>2. Known(s)
    BY <1>1, <1>4, <2>1 DEF SameLeft, Known
  <2>3. Noticed(s, p, m \cup {e}) /\ (p.mode \in HasTrack => Intended(s, <<>>, p))
    <3>1. Clean(<<>>, m \cup {e})
      BY DEF Clean
    <3> QED BY <1>2, <2>2, <3>1 DEF Believes
  <2>4. CASE e.kind \in {"Playing", "Paused", "Stopped", "Loading", "Seeked"}
    <3>1. r.send = <<>> /\ t.track = s.track /\ t.left = s.left
      BY <1>1, <2>4
    <3>2. p.mode = "Stopped" /\ t.status # "Stopped" => \E d \in m : d.kind = "Stopped"
      BY <1>1, <2>3 DEF Noticed
    <3>3. ASSUME p.mode \in HasTrack PROVE Intended(t, <<>>, p) /\ Noticed(t, p, m)
      <4>1. /\ Intended(s, <<>>, p) /\ e.kind \in {"Loading", "Seeked", p.mode}
            /\ p.mode # "Loading" /\ s.status \in Waiting => \E d \in m \cup {e} : d.kind = p.mode
            /\ \A d \in m : d.kind \in {"Loading", "Seeked", p.mode}
        BY <2>3, <3>3 DEF Noticed
      <4>2. s.status \in Playing <=> p.play
        BY <1>2, <4>1, NothingSent DEF Intended
      <4>3. p.mode # "Stopped"
        BY <3>3 DEF HasTrack
      <4>4. /\ t.status \in Playing <=> s.status \in Playing
            /\ p.mode # "Loading" /\ t.status \in Waiting => \E d \in m : d.kind = p.mode
        <5>1. CASE e.kind = "Playing"
          BY <1>1, <4>1, <4>2, <4>3, <5>1 DEF PlayFits, Playing, Waiting
        <5>2. CASE e.kind = "Paused"
          BY <1>1, <4>1, <4>2, <4>3, <5>2 DEF PlayFits, Playing, Waiting
        <5>3. CASE e.kind \in {"Loading", "Seeked"}
          BY <1>1, <3>3, <4>1, <4>3, <5>3 DEF HasTrack
        <5>4. e.kind # "Stopped"
          BY <4>1, <4>3
        <5> QED BY <2>4, <5>1, <5>2, <5>3, <5>4
      <4>5. Intended(t, <<>>, p)
        BY <3>1, <4>1, <4>4 DEF Intended
      <4> QED BY <3>3, <4>1, <4>3, <4>4, <4>5 DEF Noticed
    <3>4. t.status # "Stopped" => Noticed(t, p, m)
      BY <3>2, <3>3 DEF Noticed
    <3> QED BY <1>2, <3>1, <3>3, <3>4 DEF Believes
  <2>5. CASE e.kind \in {"EndOfTrack", "Unavailable"}
    <3> DEFINE q == <<>> \o r.send
    <3>1. t.status = s.status /\ ~Loads(q)
      <4>1. r.send \in {<<>>, <<Order("Stop")>>} /\ t.status = s.status
        BY <1>1, <1>4, <2>5
      <4>2. CASE r.send = <<>>
        BY <1>2, <4>1, <4>2
      <4>3. CASE r.send = <<Order("Stop")>>
        <5>1. Order("Stop") \in Commands /\ ~IsLoad(Order("Stop"))
          BY DEF Order, Commands, IsLoad
        <5>2. ~Loads(<<>> \o <<Order("Stop")>>)
          BY <1>2, <5>1, SentAfter
        <5> QED BY <4>1, <4>3, <5>2
      <4> QED BY <4>1, <4>2, <4>3
    <3> HIDE DEF q
    <3>2. p.mode \notin HasTrack
      BY <2>3, <2>5 DEF Noticed, HasTrack
    <3>3. p.mode = "Stopped" => \E d \in m : d.kind = "Stopped"
      BY <2>3, <2>5 DEF Noticed
    <3>4. Noticed(t, p, m)
      BY <3>2, <3>3 DEF Noticed
    <3> QED BY <3>1, <3>2, <3>4 DEF Believes, q
  <2>6. e.kind \in Kinds
    BY DEF Events
  <2> QED BY <2>4, <2>5, <2>6 DEF Kinds, r
<1> QED BY <1>3, <1>4

\* Noting that an event crossed a command changes that mark only, and nothing of
\* a task that calls itself stopped.
LEMMA NotedFacts ==
    ASSUME NEW s \in TaskType, NEW e
    PROVE  LET t == Noted(s, e)
           IN /\ t \in TaskType /\ t.status = s.status /\ t.track = s.track /\ t.left = s.left
              /\ t.id = s.id /\ t.active = s.active /\ t.context = s.context
              /\ t.update = s.update /\ t.updateVolume = s.updateVolume /\ t.missed = s.missed
              /\ t.shown = s.shown /\ t.told = s.told /\ t.established = s.established
              /\ View(t) = View(s)
              /\ s.status = "Stopped" => t = s
              /\ s.status # "Stopped" =>
                   /\ Loads(out) \/ IdPending(events) => t.crossed # "no"
                   /\ ~(Loads(out) \/ IdPending(events)) =>
                        IF e.old \/ out # <<>> THEN t.crossed = "crossed" ELSE t.crossed = s.crossed
<1> DEFINE c == IF Crosses(e) THEN "crossed" ELSE s.crossed
           t == [s EXCEPT !.crossed = c]
<1>1. Noted(s, e) = IF s.status = "Stopped" THEN s ELSE t
  BY DEF Noted
<1>2. Crosses(e) <=> out # <<>> \/ e.old \/ IdPending(events)
  BY DEF Crosses, IdPending, NewId
<1>7. Loads(out) => out # <<>>
  BY DEF Loads
<1>3. /\ c \in {"no", "crossed"}
      /\ IF Crosses(e) THEN c = "crossed" ELSE c = s.crossed
  BY DEF TaskType
<1> HIDE DEF c
<1>4. /\ t \in TaskType /\ t.status = s.status /\ t.track = s.track /\ t.left = s.left
      /\ t.id = s.id /\ t.active = s.active /\ t.context = s.context
      /\ t.update = s.update /\ t.updateVolume = s.updateVolume /\ t.missed = s.missed
      /\ t.shown = s.shown /\ t.told = s.told /\ t.established = s.established
      /\ t.crossed = c
  BY <1>3 DEF TaskType
<1>5. t.volume = s.volume
  BY <1>3 DEF TaskType
<1> HIDE DEF t
<1>6. View(t) = View(s)
  BY <1>4, <1>5 DEF View
<1> QED BY <1>1, <1>2, <1>3, <1>4, <1>6, <1>7

\* Sending adds commands to those under way.
LEMMA SentType ==
    ASSUME NEW o \in Seq(Commands), NEW send \in Sent
    PROVE  o \o send \in Seq(Commands)
<1>1. send = <<>> \/ \E c \in Commands : send = <<c>>
  BY DEF Sent
<1>2. \A c \in Commands : o \o <<c>> \in Seq(Commands)
  BY SentAfter
<1>3. o \o <<>> = o
  OBVIOUS
<1>4. CASE send = <<>>
  BY <1>3, <1>4
<1>5. ASSUME NEW c \in Commands, send = <<c>> PROVE o \o send \in Seq(Commands)
  BY <1>2, <1>5
<1> QED BY <1>1, <1>4, <1>5

\* The last announcement under way names the player's request.
LEMMA AnnouncedHead ==
    ASSUME NEW ev \in Seq(Events), ev # <<>>, NEW id, Announced(ev, id),
           NewId(Head(ev)), ~IdPending(Tail(ev))
    PROVE  Head(ev).id = id
<1> DEFINE r == Tail(ev)
           n == Len(r)
<1>1. /\ n \in Nat /\ Len(ev) = n + 1 /\ DOMAIN r = 1 .. n /\ DOMAIN ev = 1 .. n + 1
      /\ ev[1] = Head(ev) /\ \A i \in 1 .. n : r[i] = ev[i + 1]
  BY Shortened
<1>2. \A i \in 1 .. n : ~NewId(r[i])
  BY <1>1 DEF IdPending
<1> HIDE DEF r, n
<1>3. \A j \in 1 + 1 .. n + 1 : j - 1 \in 1 .. n /\ ev[j] = r[j - 1]
  BY <1>1
<1>4. \A j \in 1 + 1 .. Len(ev) : ~NewId(ev[j])
  BY <1>1, <1>2, <1>3
<1>5. 1 \in DOMAIN ev /\ NewId(ev[1])
  BY <1>1
<1> QED BY <1>1, <1>4, <1>5 DEF Announced

\* Handling an event of the player keeps the invariant.
LEMMA EventKeeps ==
    ASSUME SpircIInv, HandlePlayerEvent
    PROVE  SpircIInv'
<1> DEFINE e == Head(events)
           rest == Tail(events)
           s == Noted(task, e)
<1>0. /\ player \in PlayerType /\ PlayFits(player) /\ events \in Seq(Events)
      /\ out \in Seq(Commands) /\ task \in TaskType /\ Away(task)
      /\ Saying(task.id, player, events) /\ Announced(events, player.id)
      /\ Believes(task, out, player, Current(events))
      /\ Running => Reported(task, Due(out, events))
      /\ loop \in Loops
  BY DEF SpircIInv, Saying, Ready
<1>1. /\ Running /\ events # <<>> /\ events' = rest /\ UNCHANGED <<player, loop>>
      /\ Becomes(CASE e.kind = "TrackChanged" -> Does([task EXCEPT !.update = TRUE])
                   [] e.kind = "PlayRequestIdChanged" -> Does([task EXCEPT !.id = e.id])
                   [] e.kind \notin {"TrackChanged", "PlayRequestIdChanged"} /\ e.id = task.id ->
                        Meaning(s, e)
                   [] OTHER -> Does(task))
  BY DEF HandlePlayerEvent
<1>2. /\ rest \in Seq(Events) /\ e \in Events
      /\ IdPending(events) <=> NewId(e) \/ IdPending(rest)
      /\ Current(events) = IF NewId(e) \/ IdPending(rest) \/ e.kind = "TrackChanged" THEN Current(rest)
                           ELSE Current(rest) \cup {e}
      /\ HasStart(events) <=> Starts(e) \/ HasStart(rest)
  BY <1>0, <1>1, HandledBefore
<1>3. Announced(rest, player.id)
  BY <1>0, <1>1, AnnouncedRest
<1>13. /\ InOrder(rest)
       /\ ~e.old => \A d \in Current(events) : ~d.old
  BY <1>0, <1>1, OrderRest DEF Saying
<1>4. NewId(e) /\ ~IdPending(rest) => e.id = player.id
  BY <1>0, <1>1, AnnouncedHead
<1>5. IdPending(rest) => HasStart(rest)
  <2> SUFFICES ASSUME IdPending(rest) PROVE HasStart(rest)
    OBVIOUS
  <2> HIDE DEF rest
  <2>1. PICK i \in DOMAIN rest : NewId(rest[i])
    BY DEF IdPending
  <2>2. PICK j \in i + 1 .. Len(rest) : Starts(rest[j])
    BY <1>3, <2>1 DEF Announced
  <2>3. j \in DOMAIN rest
    BY <1>2, <2>1, <2>2
  <2> QED BY <2>2, <2>3 DEF HasStart
<1>6. e.id \in Nat
  BY <1>2 DEF Events
<1> HIDE DEF e, rest
<1>7. ASSUME NEW t \in TaskType, NEW send \in Sent, task' = t, out' = out \o send, Away(t),
             t.id = (IF NewId(e) THEN e.id ELSE task.id),
             Reported(t, Due(out', rest)),
             Believes(t, out', player, Current(rest))
      PROVE  SpircIInv'
  <2>1. out' \in Seq(Commands)
    BY <1>0, <1>7, SentType
  <2>2. Ready'
    BY <1>0, <1>1, <1>7, <2>1 DEF Ready, Running
  <2>3. Saying(t.id, player, rest)
    BY <1>0, <1>2, <1>3, <1>4, <1>7, <1>13 DEF Saying
  <2> QED BY <1>1, <1>7, <2>2, <2>3 DEF SpircIInv
<1>8. out \o <<>> = out /\ <<>> \in Sent
  BY <1>0, OrderType
<1>9. CASE e.kind = "TrackChanged"
  <2> DEFINE t == [task EXCEPT !.update = TRUE]
  <2>1. task' = t /\ out' = out
    BY <1>1, <1>8, <1>9 DEF Becomes, Does
  <2>2. t \in TaskType /\ Alike(task, t) /\ t.update
    BY <1>0 DEF TaskType, Alike
  <2> HIDE DEF t
  <2>3. ~NewId(e) /\ Current(rest) = Current(events)
    BY <1>2, <1>9 DEF NewId
  <2>4. Believes(t, out, player, Current(rest))
    BY <1>0, <2>2, <2>3 DEF Alike, Believes, Known, Intended, Noticed
  <2> QED BY <1>0, <1>7, <1>8, <2>1, <2>2, <2>3, <2>4 DEF Reported, Alike, Away
<1>10. CASE NewId(e)
  <2> DEFINE t == [task EXCEPT !.id = e.id]
  <2>1. task' = t /\ out' = out
    BY <1>1, <1>8, <1>10 DEF Becomes, Does, NewId
  <2>2. /\ t \in TaskType /\ t.id = e.id /\ View(t) = View(task)
        /\ t.status = task.status /\ t.track = task.track /\ t.left = task.left
        /\ t.crossed = task.crossed /\ t.active = task.active /\ t.context = task.context
        /\ t.update = task.update /\ t.updateVolume = task.updateVolume /\ t.missed = task.missed
        /\ t.shown = task.shown /\ t.told = task.told /\ t.established = task.established
    BY <1>0, <1>6 DEF TaskType, View
  <2> HIDE DEF t
  <2>3. Current(rest) = Current(events)
    BY <1>2, <1>10
  <2>4. Believes(t, out, player, Current(rest))
    BY <1>0, <2>2, <2>3 DEF Believes, Known, Intended, Noticed
  <2>5. Due(out, events) => Due(out, rest)
    BY <1>2, <1>10 DEF Due, NewId, Starts
  <2>6. Reported(t, Due(out, rest))
    BY <1>0, <1>1, <2>2, <2>5 DEF Reported
  <2> QED BY <1>0, <1>7, <1>8, <1>10, <2>1, <2>2, <2>4, <2>6 DEF Away
<1>11. CASE e.kind # "TrackChanged" /\ ~NewId(e) /\ e.id # task.id
  <2>1. task' = task /\ out' = out
    BY <1>1, <1>8, <1>11 DEF Becomes, Does, NewId
  <2>2. IdPending(rest)
    BY <1>0, <1>2, <1>11 DEF Saying
  <2>3. Current(rest) = Current(events) /\ (Due(out, events) => Due(out, rest))
    BY <1>2, <1>5, <2>2 DEF Due
  <2>4. Reported(task, Due(out, rest))
    BY <1>0, <1>1, <2>3 DEF Reported
  <2> QED BY <1>0, <1>7, <1>8, <1>11, <2>1, <2>3, <2>4
<1>12. CASE e.kind # "TrackChanged" /\ ~NewId(e) /\ e.id = task.id
  <2> DEFINE r == Meaning(s, e)
  <2>1. task' = r.s /\ out' = out \o r.send
    BY <1>1, <1>12 DEF Becomes, NewId
  <2>2. /\ s \in TaskType /\ s.status = task.status /\ s.track = task.track /\ s.left = task.left
        /\ s.id = task.id /\ s.active = task.active /\ s.context = task.context
        /\ s.update = task.update /\ s.updateVolume = task.updateVolume /\ s.missed = task.missed
        /\ s.shown = task.shown /\ s.told = task.told /\ s.established = task.established
        /\ View(s) = View(task)
        /\ task.status = "Stopped" => s = task
        /\ task.status # "Stopped" =>
             /\ Loads(out) \/ IdPending(events) => s.crossed # "no"
             /\ ~(Loads(out) \/ IdPending(events)) =>
                  IF e.old \/ out # <<>> THEN s.crossed = "crossed" ELSE s.crossed = task.crossed
    BY <1>0, NotedFacts
  <2> HIDE DEF s
  <2>3. Away(s)
    BY <1>0, <2>2 DEF Away
  <2>8. e.kind \notin {"PlayRequestIdChanged", "TrackChanged"}
    BY <1>12 DEF NewId
  <2>4. /\ r.s \in TaskType /\ r.send \in Sent
        /\ r.s.id = s.id /\ Away(r.s)
        /\ r.s.update \/ (r.send = <<>> /\ (r.s = s \/ Hidden(s, r.s)))
        /\ e.kind = "Loading" => r.s.update
        /\ Fresh(r) \/ SameLeft(s, r.s)
    BY <1>2, <2>2, <2>3, <2>8, MeaningFacts
  <2>6. Believes(r.s, out \o r.send, player, Current(rest))
    <3>1. CASE task.status # "Stopped" /\ s.crossed # "no"
      <4>1. CASE Fresh(r)
        BY <1>0, <2>4, <4>1, FreshBelieves
      <4>2. CASE ~Fresh(r)
        BY <2>4, <3>1, <4>2 DEF Believes, Known, SameLeft
      <4> QED BY <4>1, <4>2
    <3>2. CASE task.status # "Stopped" /\ s.crossed = "no"
      <4>1. /\ ~Loads(out) /\ ~IdPending(events) /\ ~e.old /\ out = <<>>
            /\ s.crossed = task.crossed
        BY <2>2, <3>2
      <4>2. Current(events) = Current(rest) \cup {e}
        BY <1>2, <1>12, <4>1
      <4>6. \A d \in Current(rest) \cup {e} : ~d.old
        BY <1>13, <4>1, <4>2
      <4>3. Believes(s, <<>>, player, Current(rest) \cup {e})
        BY <1>0, <2>2, <4>1, <4>2 DEF Believes, Known, Intended, Noticed
      <4>5. Believes(r.s, <<>> \o r.send, player, Current(rest))
        BY <1>0, <1>2, <2>2, <2>3, <2>8, <3>2, <4>3, <4>6, MeaningBelieves
      <4> QED BY <4>1, <4>5
    <3>3. CASE task.status = "Stopped"
      BY <1>0, <1>2, <2>2, <2>3, <2>8, <3>3, StoppedMeaning
    <3> QED BY <3>1, <3>2, <3>3
  <2>7. Reported(r.s, Due(out', rest))
    <3>1. CASE r.s.update
      BY <3>1 DEF Reported
    <3>2. CASE ~r.s.update
      <4>1. out' = out /\ e.kind # "Loading"
        BY <1>8, <2>1, <2>4, <3>2
      <4>2. Due(out, events) => Due(out, rest)
        BY <1>2, <1>12, <4>1 DEF Due, Starts
      <4>3. Reported(s, Due(out, rest))
        BY <1>0, <1>1, <2>2, <4>2 DEF Reported
      <4>4. Hidden(s, r.s) => Reported(r.s, Due(out, rest))
        BY <2>2, <4>3, HiddenReported
      <4> QED BY <2>4, <3>2, <4>1, <4>3, <4>4
    <3> QED BY <3>1, <3>2
  <2> HIDE DEF r
  <2> QED BY <1>7, <1>12, <2>1, <2>2, <2>4, <2>6, <2>7
<1> QED BY <1>9, <1>10, <1>11, <1>12

\* Every conduct of the task keeps the invariant.
LEMMA ConductsKeeps ==
    ASSUME SpircIInv, NEW r, Conducts(r)
    PROVE  SpircIInv'
<1>0. /\ r.s \in TaskType /\ r.send \in Sent /\ r.s.id = task.id /\ Moves(task, r) /\ Away(r.s)
      /\ task' = r.s /\ out' = out \o r.send /\ UNCHANGED <<player, events>>
      /\ loop' \in Loops
      /\ loop' = "running" => Running /\ Reported(r.s, Due(out \o r.send, events))
  BY DEF Conducts, Fit, Becomes
<1>1. out \in Seq(Commands) /\ task \in TaskType
  BY DEF SpircIInv, Ready
<1>2. out' \in Seq(Commands)
  BY <1>0, <1>1, SentType
<1>3. Ready'
  BY <1>0, <1>2 DEF Ready, Running
<1>4. Believes(r.s, out \o r.send, player, Current(events))
  BY <1>0, <1>1, MovesBelieves DEF SpircIInv
<1> QED BY <1>0, <1>3, <1>4 DEF SpircIInv

\* The invariant holds when the task starts.
LEMMA SpircInitially == SpircInit => SpircIInv
<1> SUFFICES ASSUME SpircInit PROVE SpircIInv
  OBVIOUS
<1>1. /\ task = Initially /\ out = <<>> /\ events = <<>> /\ loop = "running"
      /\ player = [mode |-> "Stopped", id |-> NoId, track |-> NoTrack, play |-> FALSE]
  BY DEF SpircInit
<1>2. task \in TaskType
  BY <1>1, SpircAssumption DEF TaskType, Initially, Statuses, Views, NoId, LeftBy
<1>3. Reported(task, Due(out, events)) /\ Away(task) /\ ~IdPending(events) /\ task.id = player.id
  BY <1>1 DEF Reported, Away, Initially, View, IdPending
<1>4. Current(events) = {}
  BY <1>1 DEF Current
<1>5. player \in PlayerType /\ PlayFits(player)
  BY <1>1 DEF PlayerType, Modes, PlayFits, NoId
<1>6. Announced(events, player.id) /\ InOrder(events)
  BY <1>1 DEF Announced, InOrder
<1>7. Believes(task, out, player, Current(events))
  BY <1>1, NothingSent DEF Believes, HasTrack, Initially
<1> QED BY <1>1, <1>2, <1>3, <1>4, <1>5, <1>6, <1>7 DEF SpircIInv, Ready, Saying, Loops

\* Every step of the task, the player and the rest keeps the invariant.
LEMMA SpircKeeps == SpircIInv /\ [SpircNext]_spircVars => SpircIInv'
<1> SUFFICES ASSUME SpircIInv, [SpircNext]_spircVars PROVE SpircIInv'
  OBVIOUS
<1>0. Ready
  BY DEF SpircIInv
<1>1. CASE UNCHANGED spircVars
  BY <1>1 DEF spircVars, SpircIInv, Ready, Running
<1>2. CASE PlayerTakes
  BY <1>2, PlayerTakesKeeps
<1>3. CASE PlayerStarts
  BY <1>3, PlayerStartsKeeps
<1>4. CASE PlayerFails \/ PlayerEnds
  BY <1>4, PlayerEndsKeeps
<1>5. CASE HandlePlayerEvent
  BY <1>5, EventKeeps
<1>6. ASSUME \E r : Conducts(r) PROVE SpircIInv'
  BY <1>6, ConductsKeeps
<1>7. CASE \E ok \in BOOLEAN, t \in Tracks \cup {NoTrack}, play \in BOOLEAN : ConnectionId(ok, t, play)
  BY <1>0, <1>6, <1>7, ConnectionIdConducts
<1>8. CASE \E first, second \in BOOLEAN : (first \/ second) /\ OtherDeviceActive(first, second)
  BY <1>0, <1>6, <1>8, OtherDeviceActiveConducts
<1>9. CASE \E ok \in BOOLEAN : ClusterMissing(ok)
  BY <1>0, <1>6, <1>9, ClusterMissingConducts
<1>10. CASE RequestPlayFails
  BY <1>0, <1>6, <1>10, RequestPlayFailsConducts
<1>11. CASE \E t \in Tracks, play, ok \in BOOLEAN : RequestTransfer(t, play, ok)
  BY <1>0, <1>6, <1>11, RequestTransferConducts
<1>12. CASE \/ \E t \in Tracks, play \in BOOLEAN : RequestPlay(t, play)
            \/ RequestResume \/ RequestPause \/ RequestSkip \/ RequestSeek
            \/ \E early \in BOOLEAN : RequestBack(early)
  BY <1>0, <1>6, <1>12, RequestConducts
<1>13. CASE \/ \E t \in Tracks, play, ok \in BOOLEAN : CommandLoad(t, play, ok)
            \/ \E ok \in BOOLEAN : CommandPlay(ok) \/ CommandPause(ok) \/ CommandPlayPause(ok) \/ CommandNext(ok)
            \/ \E early, ok \in BOOLEAN : CommandPrev(early, ok)
            \/ \E up, ok \in BOOLEAN : CommandVolume(up, ok)
  BY <1>0, <1>6, <1>13, CommandConducts
<1>14. CASE \E ok \in BOOLEAN : CommandActivate(ok)
  BY <1>0, <1>6, <1>14, CommandActivateConducts
<1>15. CASE \E pause, first, second \in BOOLEAN : (first \/ second) /\ CommandDisconnect(pause, first, second)
  BY <1>0, <1>6, <1>15, CommandDisconnectConducts
<1>16. CASE \E first, second \in BOOLEAN : (first \/ second) /\ CommandShutdown(first, second)
  BY <1>0, <1>6, <1>16, CommandShutdownConducts
<1>17. CASE \/ ClusterUpdate
            \/ \E v \in 0 .. Volumes : RequestVolume(v) \/ MixerMoves(v)
            \/ \E ok \in BOOLEAN : UpdateState(ok) \/ UpdateVolume(ok)
  BY <1>0, <1>6, <1>17, TimersConduct
<1>18. CASE SessionEnds
  BY <1>0, <1>6, <1>18, SessionEndsConducts
<1>19. CASE \E first, second \in BOOLEAN : (first \/ second) /\ Ends(first, second)
  BY <1>0, <1>6, <1>19, EndsConducts
<1> QED BY <1>1, <1>2, <1>3, <1>4, <1>5, <1>7, <1>8, <1>9, <1>10, <1>11, <1>12, <1>13, <1>14, <1>15,
           <1>16, <1>17, <1>18, <1>19 DEF SpircNext

\* The invariant holds in every behaviour of the task and the player.
LEMMA SpircStays == SpircSpec => []SpircIInv
<1> QED BY SpircInitially, SpircKeeps, PTL DEF SpircSpec

\* The status is what the player does, however commands, loads and events are
\* interleaved, and so is the track; an inactive device plays nothing.  Outside
\* are the cases that StatusFollowsPlayer names, each until the next load.
THEOREM StatusIsThePlayers == SpircSpec => []StatusFollowsPlayer
<1>1. SpircIInv => StatusFollowsPlayer
  <2> SUFFICES ASSUME SpircIInv PROVE StatusFollowsPlayer
    OBVIOUS
  <2>0. task \in TaskType /\ loop \in Loops /\ player \in PlayerType /\ Away(task)
        /\ PlayFits(player) /\ Believes(task, out, player, Current(events))
    BY DEF SpircIInv, Ready, Saying
  <2>1. SpircTypeOK
    <3>1. View(task) \in Views
      BY <2>0, ViewType
    <3>2. \A f \in {"context", "established", "update", "updateVolume"} : task[f] \in BOOLEAN
      BY <2>0 DEF TaskType
    <3>3. /\ task.status \in Statuses /\ task.told \in Views
          /\ task.mixer \in 0 .. Volumes
          /\ task.id \in Nat /\ task.crossed \in {"no", "crossed"}
          /\ task.left \in LeftBy /\ task.missed \in {"no", "put", "error"}
      BY <2>0 DEF TaskType
    <3>4. player.mode \in {"Stopped", "Loading", "Playing", "Paused", "EndOfTrack", "Failed"}
      BY <2>0 DEF PlayerType, Modes
    <3> QED BY <2>0, <3>1, <3>2, <3>3, <3>4 DEF SpircTypeOK, Loops
  <2>2. ASSUME Settled, task.crossed = "no", task.left \notin LeftOn
        PROVE  /\ StatusAgrees
               /\ task.left = "no" => TrackAgrees
               /\ player.mode = "Playing" => task.active \/ task.left = "noCluster"
    <3>1. out = <<>> /\ events = <<>> /\ player.mode # "Loading" /\ Known(task)
      BY <2>2 DEF Settled, Known
    <3>2. Current(events) = {}
      BY <3>1 DEF Current
    <3>3. /\ player.mode \in HasTrack => Intended(task, <<>>, player)
          /\ task.status # "Stopped" => Noticed(task, player, {})
      BY <2>0, <3>1, <3>2, NothingSent DEF Believes, Clean
    <3>4. player.mode \in {"Playing", "Paused"} =>
            /\ task.status \in Playing <=> player.play
            /\ task.status # "Stopped" /\ task.left = "no" => task.track = player.track
      BY <3>3, NothingSent DEF Intended, HasTrack
    <3>7. /\ player.mode \in {"Playing", "Paused"} /\ task.status # "Stopped" => task.status \notin Waiting
          /\ player.mode = "Stopped" => task.status = "Stopped"
      BY <3>3 DEF Noticed, HasTrack
    <3>5. task.status \in Statuses /\ player.mode \in Modes
      BY <2>0 DEF TaskType, PlayerType
    <3>8. "Stopped" \notin Playing
      BY DEF Playing
    <3>6. StatusAgrees
      BY <2>0, <3>4, <3>5, <3>7, <3>8 DEF StatusAgrees, PlayFits, Statuses, Playing, Waiting, Modes
    <3>9. task.left = "no" => TrackAgrees
      BY <3>4 DEF TrackAgrees
    <3>10. player.mode = "Playing" => task.active \/ task.left = "noCluster"
      BY <2>0, <3>4, <3>8 DEF Away, PlayFits
    <3> QED BY <3>6, <3>9, <3>10
  <2> QED BY <2>1, <2>2 DEF StatusFollowsPlayer
<1> QED BY <1>1, SpircStays, PTL

\* When no timer runs the server has been told how things are: status, track,
\* volume and who is active; unless the last put failed, or a handler ended by an
\* error before its put.
THEOREM ServerIsTold == SpircSpec => []ServerKnows
<1>1. SpircIInv => ServerKnows
  <2> SUFFICES ASSUME SpircIInv, Running, Settled, task.established, ~task.update,
                      ~task.updateVolume, task.missed = "no"
               PROVE  task.told.active = task.active
                      /\ (task.active => task.told = View(SetStatus(task)))
    BY DEF ServerKnows
  <2>1. task \in TaskType /\ Reported(task, Due(out, events))
    BY DEF SpircIInv, Ready
  <2>2. ~Due(out, events)
    BY DEF Settled, Due, Loads, HasStart
  <2>3. task.told.active = task.active
        /\ (task.active => task.told = View(task) /\ task.shown = Shown(task.status))
    BY <2>1, <2>2 DEF Reported
  <2>4. task.active => View(SetStatus(task)) = View(task)
    BY <2>1, <2>3 DEF SetStatus, View, Shown, TaskType
  <2> QED BY <2>3, <2>4
<1> QED BY <1>1, SpircStays, PTL
===============================================================================

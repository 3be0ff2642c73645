--------------------------- MODULE Playback_proofs ---------------------------
(***************************************************************************)
(* What plays: theorems about the app's view of it and about the device's  *)
(* queue.                                                                  *)
(*                                                                         *)
(* The app (module Playback), for every set of threads and every history   *)
(* of Spotify's state: its types, and that neither the service's cached    *)
(* state nor what it stores under its lock is overtaken by an older        *)
(* answer.                                                                 *)
(*                                                                         *)
(* The device (module ConnectState), for every set of contexts, draws and  *)
(* transfers and for lists of any length: no list outgrows its limit and   *)
(* no position of a context is lost or doubled, a step back undoes a step  *)
(* on, and an edit of the queue does not change what plays.  The induction *)
(* is over the handlers, each a composition of operators on the state; the *)
(* lemmas say of each operator that it keeps the states whose lists are    *)
(* sound, whether the step before met an error or not.                     *)
(***************************************************************************)
EXTENDS Playback, ConnectState, FiniteSetTheorems, SequenceTheorems, WellFoundedInduction, TLAPS

\* The lock belongs to the thread between its request and its release.
InLock == {"call", "answer", "store", "wait in", "release", "devices"}
LockHeld == \A t \in Thread : lock = t <=> pc[t] \in InLock

\* The queue lists waiting workers, each once.
Waits == {"wait in", "wait out"}
QueueWaits ==
    /\ \A i \in 1 .. Len(queue) : pc[queue[i]] \in Waits
    /\ \A i, j \in 1 .. Len(queue) : queue[i] = queue[j] => i = j

\* Nothing is newer than the service's state, which is no newer than Spotify's;
\* an answer on its way to be kept is no older than what is kept.
Ordered ==
    /\ lastState <= spotify
    /\ stored.seen <= lastState
    /\ \A t \in Thread : result[t].seen <= lastState
    /\ \A t \in Thread : pc[t] = "answer" => lastState <= got[t] /\ got[t] <= spotify
    /\ \A t \in Thread : pc[t] = "store" => result[t].seen = lastState

IInv == TypeOK /\ LockHeld /\ QueueWaits /\ Ordered

USE ThreadsOK, BoundsOK

\* The main thread and the workers are threads, and every version can be shown.
LEMMA Basics == Main \in Thread /\ Worker \subseteq Thread /\ \A v \in Version : AsSeen(v) \in Shown
BY DEF Thread, AsSeen, Shown

\* A write to the store leaves the value, the queue and the program counter well
\* typed.
LEMMA StoreSetType ==
    ASSUME TypeOK, NEW t \in Thread, NEW value \in Shown,
           NEW waiting \in Waits, NEW done \in Steps, StoreSet(t, value, waiting, done)
    PROVE  /\ stored' = value
           /\ queue' \in Seq(Worker)
           /\ \/ pc' = [pc EXCEPT ![t] = waiting]
              \/ pc' = [pc EXCEPT ![t] = done]
<1>1. CASE t # Main /\ queue' = Append(queue, t) /\ Goto(t, waiting)
  <2>1. t \in Worker /\ queue \in Seq(Worker)
    BY <1>1 DEF Thread, TypeOK
  <2>2. queue' \in Seq(Worker)
    BY <1>1, <2>1
  <2> QED BY <1>1, <2>2 DEF StoreSet, Goto
<1>2. CASE UNCHANGED queue /\ Goto(t, done)
  BY <1>2 DEF StoreSet, Goto, TypeOK
<1> QED BY <1>1, <1>2 DEF StoreSet

\* The service starts with its types.
LEMMA TypeInit == Init => TypeOK
<1> SUFFICES ASSUME Init PROVE TypeOK
  OBVIOUS
<1>1. 0 \in Version
  BY DEF Version
<1>2. /\ pc \in [Thread -> Steps] /\ forced \in [Thread -> BOOLEAN]
      /\ got \in [Thread -> Version] /\ result \in [Thread -> Shown]
  BY <1>1, Basics DEF Init, Steps
<1>3. /\ spotify \in Version /\ lastState \in Version /\ fresh \in BOOLEAN
      /\ stored \in Shown /\ lock \in Thread \cup {NoOne}
  BY <1>1, Basics DEF Init
<1>4. queue \in Seq(Worker)
  BY DEF Init
<1> QED BY <1>2, <1>3, <1>4 DEF TypeOK

\* Every step of a thread keeps the types.
LEMMA TypeNext == TypeOK /\ [Next]_vars => TypeOK'
<1> SUFFICES ASSUME TypeOK, [Next]_vars PROVE TypeOK'
  OBVIOUS
<1> USE Basics
<1>1. ASSUME NEW t \in Thread, Begin(t) PROVE TypeOK'
  BY <1>1, Zenon DEF Begin, Ask, AskDevices, TypeOK, Step, Goto, Steps, service, asked
<1>2. ASSUME NEW t \in Thread, Reply(t) PROVE TypeOK'
  BY <1>2, Zenon DEF Reply, TypeOK, Step, Goto, Steps, service
<1>3. ASSUME NEW t \in Thread, Proceed(t) PROVE TypeOK'
  <2>1. CASE FromCache(t)
    BY <2>1, Zenon DEF FromCache, TypeOK, Goto, AfterGet, Steps, service
  <2>2. CASE Request(t) \/ RequestDevices(t)
    BY <2>2, Zenon DEF Request, RequestDevices, TypeOK, Step, Goto, Steps, service, asked
  <2>3. CASE NoReply(t)
    BY <2>3, Zenon DEF NoReply, TypeOK, Step, Goto, Steps, service
  <2>4. CASE Take(t)
    BY <2>4, Zenon DEF Take, TypeOK, Step, Goto, Steps
  <2>5. CASE Store(t)
    <3>1. result[t] \in Shown /\ "wait in" \in Waits /\ "release" \in Steps
      BY Zenon DEF TypeOK, Waits, Steps
    <3>2. StoreSet(t, result[t], "wait in", "release")
      BY <2>5, Zenon DEF Store
    <3>3. /\ stored' \in Shown /\ queue' \in Seq(Worker)
          /\ \/ pc' = [pc EXCEPT ![t] = "wait in"]
             \/ pc' = [pc EXCEPT ![t] = "release"]
      BY <3>1, <3>2, StoreSetType, Zenon
    <3>4. UNCHANGED <<spotify, service, lock, asked>>
      BY <2>5, Zenon DEF Store
    <3> QED BY <3>3, <3>4, Zenon DEF TypeOK, Steps, service, asked
  <2>6. CASE Release(t) \/ TakeDevices(t)
    BY <2>6, Zenon DEF Release, TakeDevices, TypeOK, Step, Goto, AfterGet, Steps, service, asked
  <2>7. CASE StoreAgain(t)
    <3>1. result[t] \in Shown /\ "wait out" \in Waits /\ "idle" \in Steps
      BY Zenon DEF TypeOK, Waits, Steps
    <3>2. StoreSet(t, result[t], "wait out", "idle")
      BY <2>7, Zenon DEF StoreAgain
    <3>3. /\ stored' \in Shown /\ queue' \in Seq(Worker)
          /\ \/ pc' = [pc EXCEPT ![t] = "wait out"]
             \/ pc' = [pc EXCEPT ![t] = "idle"]
      BY <3>1, <3>2, StoreSetType, Zenon
    <3>4. UNCHANGED <<spotify, service, lock, asked>>
      BY <2>7, Zenon DEF StoreAgain
    <3> QED BY <3>3, <3>4, Zenon DEF TypeOK, Steps, service, asked
  <2> QED BY <1>3, <2>1, <2>2, <2>3, <2>4, <2>5, <2>6, <2>7 DEF Proceed
<1>4. CASE Listen
  <2>0. queue \in Seq(Worker) /\ queue # <<>>
    BY <1>4, Zenon DEF Listen, TypeOK
  <2>1. Head(queue) \in Worker /\ Tail(queue) \in Seq(Worker)
    BY <2>0
  <2>2. pc' \in [Thread -> Steps]
    BY <1>4, <2>1, Zenon DEF Listen, TypeOK, Goto, Steps
  <2> QED BY <1>4, <2>1, <2>2, Zenon DEF Listen, TypeOK, service, asked
<1>5. CASE EditRead
  <2>1. [stored EXCEPT !.edited = TRUE] \in Shown
    BY DEF TypeOK, Shown
  <2> QED BY <1>5, <2>1, Zenon DEF EditRead, TypeOK, Step, Goto, Steps, service
<1>6. CASE EditWrite
  <2>1. result[Main] \in Shown /\ "wait out" \in Waits /\ "idle" \in Steps
    BY Zenon DEF TypeOK, Waits, Steps
  <2>2. StoreSet(Main, result[Main], "wait out", "idle")
    BY <1>6, Zenon DEF EditWrite
  <2>3. /\ stored' \in Shown /\ queue' \in Seq(Worker)
        /\ \/ pc' = [pc EXCEPT ![Main] = "wait out"]
           \/ pc' = [pc EXCEPT ![Main] = "idle"]
    BY <2>1, <2>2, StoreSetType, Zenon
  <2>4. UNCHANGED <<spotify, service, lock, asked>>
    BY <1>6, Zenon DEF EditWrite
  <2> QED BY <2>3, <2>4, Zenon DEF TypeOK, Steps, service, asked
<1>7. CASE Change
  BY <1>7 DEF Change, TypeOK, Version, service, asked
<1>8. CASE Expire
  BY <1>8 DEF Expire, TypeOK, asked
<1>9. CASE UNCHANGED vars
  BY <1>9 DEF TypeOK, vars, service, asked
<1> QED BY <1>1, <1>2, <1>3, <1>4, <1>5, <1>6, <1>7, <1>8, <1>9 DEF Next

\* The service's variables, the store's copy and the queue keep their types.
THEOREM PlaybackTypeCorrect == Spec => []TypeOK
BY TypeInit, TypeNext, PTL DEF Spec

-----------------------------------------------------------------------------
\* Where the event loop's step leads: the worker at the head stops waiting.
LEMMA ListenStep ==
    ASSUME TypeOK, QueueWaits, Listen
    PROVE  \E w \in Worker :
              /\ pc[w] \in Waits
              /\ pc' = [pc EXCEPT ![w] = IF pc[w] = "wait in" THEN "release" ELSE "idle"]
              /\ QueueWaits'
<1>0. queue # <<>> /\ queue' = Tail(queue) /\ queue \in Seq(Worker)
  BY Zenon DEF Listen, TypeOK
<1>a. Head(queue) = queue[1]
  BY <1>0
<1>1. /\ pc' = [pc EXCEPT ![queue[1]] =
                   IF pc[queue[1]] = "wait in" THEN "release" ELSE "idle"]
  BY <1>a, Zenon DEF Listen, Goto
<1>2. /\ Len(queue) \in Nat \ {0}
      /\ Len(queue') = Len(queue) - 1
      /\ \A i \in 1 .. Len(queue') : queue'[i] = queue[i + 1]
      /\ \A i \in 1 .. Len(queue) : queue[i] \in Worker
  BY ONLY <1>0
<1>3. /\ 1 \in 1 .. Len(queue)
      /\ \A i \in 1 .. Len(queue') : i + 1 \in 1 .. Len(queue) /\ i + 1 # 1
  BY <1>2
<1>4. \A i \in 1 .. Len(queue') : queue'[i] # queue[1] /\ queue'[i] \in Thread
  BY <1>2, <1>3, Basics DEF QueueWaits
<1>5. \A i \in 1 .. Len(queue') : pc'[queue'[i]] = pc[queue'[i]]
  BY <1>1, <1>4, Zenon DEF TypeOK
<1>6. \A i \in 1 .. Len(queue') : pc'[queue'[i]] \in Waits
  BY <1>2, <1>3, <1>5 DEF QueueWaits
<1>7. \A i, j \in 1 .. Len(queue') : queue'[i] = queue'[j] => i = j
  BY <1>2, <1>3 DEF QueueWaits
<1>8. pc[queue[1]] \in Waits /\ queue[1] \in Worker
  BY <1>2, <1>3 DEF QueueWaits
<1> QED BY <1>1, <1>6, <1>7, <1>8, Zenon DEF QueueWaits

\* A thread that does not wait may move where it does not wait either.
LEMMA QueueKept ==
    ASSUME TypeOK, QueueWaits, NEW t \in Thread, NEW step \in Steps,
           pc[t] \notin Waits, pc' = [pc EXCEPT ![t] = step], queue' = queue
    PROVE  QueueWaits'
<1>1. Len(queue) \in Nat /\ \A i \in 1 .. Len(queue) : queue[i] \in Thread
  BY Basics DEF TypeOK
<1>2. \A i \in 1 .. Len(queue) : pc[queue[i]] \in Waits
  BY DEF QueueWaits
<1>3. \A i \in 1 .. Len(queue) : pc'[queue[i]] = pc[queue[i]]
  BY <1>1, <1>2 DEF TypeOK
<1> QED BY <1>2, <1>3 DEF QueueWaits

\* A store's set() puts its thread into the queue if it makes it wait.
LEMMA QueueStoreSet ==
    ASSUME TypeOK, QueueWaits, NEW t \in Thread, NEW value \in Shown,
           NEW waiting \in Waits, NEW done \in Steps,
           pc[t] \notin Waits, StoreSet(t, value, waiting, done)
    PROVE  QueueWaits'
<1>0. waiting \in Steps
  BY Zenon DEF Waits, Steps
<1>1. CASE queue' = queue /\ Goto(t, done)
  BY <1>1, QueueKept DEF Goto
<1>2. CASE queue' = Append(queue, t) /\ Goto(t, waiting) /\ t # Main
  <2>1. t \in Worker
    BY <1>2 DEF Thread
  <2>2. /\ Len(queue) \in Nat
        /\ Len(queue') = Len(queue) + 1
        /\ queue'[Len(queue) + 1] = t
        /\ \A i \in 1 .. Len(queue) : queue'[i] = queue[i]
        /\ \A i \in 1 .. Len(queue) : queue[i] \in Thread
    BY <1>2, <2>1, Basics DEF TypeOK
  <2>3. \A i \in 1 .. Len(queue) : queue[i] # t /\ pc[queue[i]] \in Waits
    BY DEF QueueWaits
  <2>4. \A i \in 1 .. Len(queue') : i \in 1 .. Len(queue) \/ i = Len(queue) + 1
    BY <2>2
  <2>5. pc' = [pc EXCEPT ![t] = waiting]
    BY <1>2 DEF Goto
  <2>6. \A i \in 1 .. Len(queue) : pc'[queue[i]] = pc[queue[i]]
    BY <2>2, <2>3, <2>5 DEF TypeOK
  <2>7. pc'[t] \in Waits
    BY <2>5 DEF TypeOK
  <2>8. \A i \in 1 .. Len(queue') : pc'[queue'[i]] \in Waits
    BY <2>2, <2>3, <2>4, <2>6, <2>7
  <2>9. \A i, j \in 1 .. Len(queue') : queue'[i] = queue'[j] => i = j
    BY <2>2, <2>3, <2>4 DEF QueueWaits
  <2> QED BY <2>8, <2>9 DEF QueueWaits
<1> QED BY <1>1, <1>2 DEF StoreSet

\* Who is in the event queue waits for it, after every step.
LEMMA QueueNext == TypeOK /\ QueueWaits /\ [Next]_vars => QueueWaits'
<1> SUFFICES ASSUME TypeOK, QueueWaits, [Next]_vars PROVE QueueWaits'
  OBVIOUS
<1> USE Basics
<1>1. ASSUME NEW t \in Thread, Begin(t) \/ Reply(t) PROVE QueueWaits'
  BY <1>1, QueueKept, Zenon DEF Begin, Ask, AskDevices, Reply, Step, Goto, Steps, Waits
<1>2. ASSUME NEW t \in Thread, Proceed(t) PROVE QueueWaits'
  <2>1. CASE FromCache(t)
    <3>1. pc' = [pc EXCEPT ![t] = AfterGet(t)] /\ pc[t] = "lock" /\ queue' = queue
      BY <2>1 DEF FromCache, Goto
    <3> QED BY <3>1, QueueKept, Zenon DEF AfterGet, Steps, Waits
  <2>2. CASE Request(t) \/ RequestDevices(t) \/ NoReply(t) \/ Take(t) \/ TakeDevices(t)
    BY <2>2, QueueKept, Zenon
    DEF Request, RequestDevices, NoReply, Take, TakeDevices, Step, Goto, Steps, Waits
  <2>3. CASE Store(t)
    <3>1. /\ result[t] \in Shown /\ "wait in" \in Waits /\ "release" \in Steps
          /\ pc[t] \notin Waits
      BY <2>3, Zenon DEF Store, TypeOK, Waits, Steps
    <3>2. StoreSet(t, result[t], "wait in", "release")
      BY <2>3, Zenon DEF Store
    <3> QED BY <3>1, <3>2, QueueStoreSet, Zenon
  <2>4. CASE Release(t)
    <3>1. pc' = [pc EXCEPT ![t] = AfterGet(t)] /\ pc[t] = "release" /\ queue' = queue
      BY <2>4 DEF Release, Step, Goto
    <3> QED BY <3>1, QueueKept, Zenon DEF AfterGet, Steps, Waits
  <2>5. CASE StoreAgain(t)
    <3>1. /\ result[t] \in Shown /\ "wait out" \in Waits /\ "idle" \in Steps
          /\ pc[t] \notin Waits
      BY <2>5, Zenon DEF StoreAgain, TypeOK, Waits, Steps
    <3>2. StoreSet(t, result[t], "wait out", "idle")
      BY <2>5, Zenon DEF StoreAgain
    <3> QED BY <3>1, <3>2, QueueStoreSet, Zenon
  <2> QED BY <1>2, <2>1, <2>2, <2>3, <2>4, <2>5 DEF Proceed
<1>3. CASE Listen
  BY <1>3, ListenStep, Zenon
<1>4. CASE EditRead
  BY <1>4, QueueKept, Zenon DEF EditRead, Step, Goto, Steps, Waits
<1>5. CASE EditWrite
  <2>1. /\ result[Main] \in Shown /\ "wait out" \in Waits /\ "idle" \in Steps
        /\ pc[Main] \notin Waits
    BY <1>5, Zenon DEF EditWrite, TypeOK, Waits, Steps
  <2>2. StoreSet(Main, result[Main], "wait out", "idle")
    BY <1>5, Zenon DEF EditWrite
  <2> QED BY <2>1, <2>2, QueueStoreSet, Zenon
<1>6. CASE Change \/ Expire \/ UNCHANGED vars
  BY <1>6 DEF Change, Expire, vars, QueueWaits
<1> QED BY <1>1, <1>2, <1>3, <1>4, <1>5, <1>6 DEF Next

-----------------------------------------------------------------------------
\* A step that leaves the lock alone leaves LockHeld alone if its thread stays
\* on the side of the lock it is on.
LEMMA LockKept ==
    ASSUME TypeOK, LockHeld, NEW t \in Thread, NEW step \in Steps,
           pc[t] \in InLock <=> step \in InLock,
           pc' = [pc EXCEPT ![t] = step], lock' = lock
    PROVE  LockHeld'
BY DEF TypeOK, LockHeld

\* A thread that finds the lock free takes it.
LEMMA LockTaken ==
    ASSUME TypeOK, LockHeld, NEW t \in Thread, NEW step \in InLock,
           lock = NoOne, lock' = t, pc' = [pc EXCEPT ![t] = step]
    PROVE  LockHeld'
<1>1. \A u \in Thread : pc[u] \notin InLock
  BY DEF LockHeld
<1> QED BY <1>1 DEF TypeOK, LockHeld

\* A thread that owns the lock gives it back.
LEMMA LockGiven ==
    ASSUME TypeOK, LockHeld, NEW t \in Thread, NEW step \in Steps \ InLock,
           pc[t] \in InLock, lock' = NoOne, pc' = [pc EXCEPT ![t] = step]
    PROVE  LockHeld'
<1>1. \A u \in Thread \ {t} : pc[u] \notin InLock
  BY DEF LockHeld
<1> QED BY <1>1 DEF TypeOK, LockHeld

\* The lock is held by one thread, inside its section, after every step.
LEMMA LockNext == TypeOK /\ LockHeld /\ QueueWaits /\ [Next]_vars => LockHeld'
<1> SUFFICES ASSUME TypeOK, LockHeld, QueueWaits, [Next]_vars PROVE LockHeld'
  OBVIOUS
<1> USE Basics
<1>1. ASSUME NEW t \in Thread, Begin(t) \/ Reply(t) PROVE LockHeld'
  BY <1>1, LockKept, Zenon DEF Begin, Ask, AskDevices, Reply, Step, Goto, Steps, InLock
<1>2. ASSUME NEW t \in Thread, Proceed(t) PROVE LockHeld'
  <2>1. CASE FromCache(t)
    BY <2>1, LockKept, Zenon DEF FromCache, Goto, AfterGet, Steps, InLock
  <2>2. CASE Request(t) \/ RequestDevices(t)
    BY <2>2, LockTaken, Zenon DEF Request, RequestDevices, Step, Goto, InLock
  <2>3. CASE NoReply(t) \/ Take(t)
    BY <2>3, LockKept, Zenon DEF NoReply, Take, Step, Goto, Steps, InLock
  <2>4. CASE Release(t) \/ TakeDevices(t)
    BY <2>4, LockGiven, Zenon DEF Release, TakeDevices, Step, Goto, AfterGet, Steps, InLock
  <2>5. CASE Store(t)
    <3>1. pc[t] = "store" /\ lock' = lock
      BY <2>5, Zenon DEF Store
    <3>2. \/ pc' = [pc EXCEPT ![t] = "wait in"]
          \/ pc' = [pc EXCEPT ![t] = "release"]
      BY <2>5, Zenon DEF Store, StoreSet, Goto
    <3> QED BY <3>1, <3>2, LockKept, Zenon DEF Steps, InLock
  <2>6. CASE StoreAgain(t)
    <3>1. pc[t] = "again" /\ lock' = lock
      BY <2>6, Zenon DEF StoreAgain
    <3>2. \/ pc' = [pc EXCEPT ![t] = "wait out"]
          \/ pc' = [pc EXCEPT ![t] = "idle"]
      BY <2>6, Zenon DEF StoreAgain, StoreSet, Goto
    <3> QED BY <3>1, <3>2, LockKept, Zenon DEF Steps, InLock
  <2> QED BY <1>2, <2>1, <2>2, <2>3, <2>4, <2>5, <2>6 DEF Proceed
<1>3. CASE Listen
  <2>1. PICK w \in Worker :
          /\ pc[w] \in Waits
          /\ pc' = [pc EXCEPT ![w] = IF pc[w] = "wait in" THEN "release" ELSE "idle"]
    BY <1>3, ListenStep, Zenon
  <2>2. lock' = lock
    BY <1>3, Zenon DEF Listen
  <2> QED BY <2>1, <2>2, LockKept, Zenon DEF Waits, Steps, InLock
<1>4. CASE EditRead
  BY <1>4, LockKept, Zenon DEF EditRead, Step, Goto, Steps, InLock
<1>5. CASE EditWrite
  <2>1. pc[Main] = "edit" /\ lock' = lock
    BY <1>5, Zenon DEF EditWrite
  <2>2. \/ pc' = [pc EXCEPT ![Main] = "wait out"]
        \/ pc' = [pc EXCEPT ![Main] = "idle"]
    BY <1>5, Zenon DEF EditWrite, StoreSet, Goto
  <2> QED BY <2>1, <2>2, LockKept, Zenon DEF Steps, InLock
<1>6. CASE Change \/ Expire \/ UNCHANGED vars
  BY <1>6 DEF Change, Expire, vars, LockHeld
<1> QED BY <1>1, <1>2, <1>3, <1>4, <1>5, <1>6 DEF Next

-----------------------------------------------------------------------------
\* Ordered survives a step that changes neither a state nor an answer and
\* brings no thread to "answer" or "store".
LEMMA OrderedKept ==
    ASSUME TypeOK, Ordered, NEW t \in Thread, NEW step \in Steps \ {"answer", "store"},
           pc' = [pc EXCEPT ![t] = step],
           lastState' = lastState, spotify' = spotify, got' = got,
           stored'.seen <= lastState,
           result' = result \/ \E r \in Shown : /\ r.seen <= lastState
                                                 /\ result' = [result EXCEPT ![t] = r]
    PROVE  Ordered'
<1>1. \A u \in Thread : result'[u].seen <= lastState
  BY DEF TypeOK, Ordered
<1>2. \A u \in Thread : pc'[u] \in {"answer", "store"} =>
         /\ pc'[u] = pc[u] /\ got'[u] = got[u] /\ result'[u] = result[u]
  BY DEF TypeOK
<1> QED BY <1>1, <1>2 DEF Ordered

\* The versions that are compared are integers.
LEMMA Numbers ==
    ASSUME TypeOK
    PROVE  /\ spotify \in Int /\ lastState \in Int /\ stored.seen \in Int
           /\ stored \in Shown
           /\ \A t \in Thread : /\ got[t] \in Int /\ result[t].seen \in Int
                                /\ result[t] \in Shown
BY DEF TypeOK, Version, Shown

\* Nothing kept is newer than the service's state, nor that than Spotify's, after
\* every step.
LEMMA OrderedNext == TypeOK /\ LockHeld /\ QueueWaits /\ Ordered /\ [Next]_vars => Ordered'
<1> SUFFICES ASSUME TypeOK, LockHeld, QueueWaits, Ordered, [Next]_vars PROVE Ordered'
  OBVIOUS
<1> USE Basics
<1>0. /\ stored.seen <= lastState
      /\ \A t \in Thread : result[t] \in Shown /\ result[t].seen <= lastState
      /\ AsSeen(lastState) \in Shown /\ AsSeen(lastState).seen <= lastState
  BY Numbers DEF Ordered, AsSeen, TypeOK
<1>1. ASSUME NEW t \in Thread, Begin(t) PROVE Ordered'
  BY <1>0, <1>1, OrderedKept, Zenon DEF Begin, Ask, AskDevices, Step, Goto, Steps, service, asked
<1>2. ASSUME NEW t \in Thread, Reply(t) PROVE Ordered'
  <2>1. /\ pc' = [pc EXCEPT ![t] = "answer"] /\ got' = [got EXCEPT ![t] = spotify]
        /\ UNCHANGED <<spotify, lastState, stored, result>>
    BY <1>2 DEF Reply, Step, Goto, service
  <2>2. \A u \in Thread \ {t} : pc'[u] = pc[u] /\ got'[u] = got[u]
    BY <2>1 DEF TypeOK
  <2>3. pc'[t] = "answer" /\ got'[t] = spotify
    BY <2>1 DEF TypeOK
  <2>4. \A u \in Thread : pc'[u] = "answer" => lastState <= got'[u] /\ got'[u] <= spotify
    BY <2>2, <2>3, Numbers DEF Ordered
  <2>5. \A u \in Thread : pc'[u] = "store" => result[u].seen = lastState
    BY <2>2, <2>3 DEF Ordered
  <2> QED BY <2>1, <2>4, <2>5 DEF Ordered
<1>3. ASSUME NEW t \in Thread, Proceed(t) PROVE Ordered'
  <2>1. CASE FromCache(t) \/ NoReply(t)
    <3>1. /\ pc' = [pc EXCEPT ![t] = AfterGet(t)] \/ pc' = [pc EXCEPT ![t] = "release"]
          /\ result' = [result EXCEPT ![t] = AsSeen(lastState)]
          /\ UNCHANGED <<spotify, lastState, stored, got>>
      BY <2>1 DEF FromCache, NoReply, Step, Goto, service
    <3>2. AfterGet(t) \in Steps \ {"answer", "store"} /\ "release" \in Steps \ {"answer", "store"}
      BY DEF AfterGet, Steps
    <3> QED BY <1>0, <3>1, <3>2, OrderedKept
  <2>2. CASE Request(t) \/ RequestDevices(t) \/ TakeDevices(t)
    BY <1>0, <2>2, OrderedKept, Zenon
    DEF Request, RequestDevices, TakeDevices, Step, Goto, Steps, service, asked
  <2>3. CASE Release(t)
    <3>1. AfterGet(t) \in Steps \ {"answer", "store"}
      BY DEF AfterGet, Steps
    <3> QED BY <1>0, <2>3, <3>1, OrderedKept DEF Release, Step, Goto, service, asked
  <2>4. CASE Take(t)
    <3>1. /\ pc[t] = "answer" /\ pc' = [pc EXCEPT ![t] = "store"]
          /\ lastState' = got[t] /\ result' = [result EXCEPT ![t] = AsSeen(got[t])]
          /\ UNCHANGED <<spotify, stored, got>>
      BY <2>4 DEF Take, Step, Goto
    <3>2. lastState <= got[t] /\ got[t] <= spotify
      BY <3>1 DEF Ordered
    <3>3. \A u \in Thread \ {t} : pc[u] \notin {"answer", "store"}
      BY <3>1, Zenon DEF LockHeld, InLock
    <3>4. /\ pc'[t] = "store" /\ result'[t].seen = got[t]
          /\ \A u \in Thread \ {t} : pc'[u] = pc[u] /\ result'[u] = result[u]
      BY <3>1 DEF TypeOK, AsSeen
    <3>5. stored.seen <= got[t] /\ \A u \in Thread : result'[u].seen <= got[t]
      BY <1>0, <3>2, <3>4, Numbers
    <3>6. \A u \in Thread : /\ pc'[u] # "answer"
                            /\ pc'[u] = "store" => result'[u].seen = lastState'
      BY <3>1, <3>3, <3>4
    <3> QED BY <3>1, <3>2, <3>5, <3>6 DEF Ordered
  <2>5. CASE Store(t) \/ StoreAgain(t)
    <3>1. /\ stored' = result[t] /\ UNCHANGED <<spotify, lastState, got, result>>
          /\ \E step \in Steps \ {"answer", "store"} : pc' = [pc EXCEPT ![t] = step]
      BY <2>5, Zenon DEF Store, StoreAgain, StoreSet, Goto, Steps, service, asked
    <3> QED BY <1>0, <3>1, OrderedKept
  <2> QED BY <1>3, <2>1, <2>2, <2>3, <2>4, <2>5 DEF Proceed
<1>4. CASE Listen
  <2>1. PICK w \in Worker :
          pc' = [pc EXCEPT ![w] = IF pc[w] = "wait in" THEN "release" ELSE "idle"]
    BY <1>4, ListenStep, Zenon
  <2>2. UNCHANGED <<spotify, lastState, stored, got, result>>
    BY <1>4, Zenon DEF Listen, service, asked
  <2> QED BY <1>0, <2>1, <2>2, OrderedKept, Zenon DEF Steps
<1>5. CASE EditRead
  <2>1. /\ [stored EXCEPT !.edited = TRUE] \in Shown
        /\ [stored EXCEPT !.edited = TRUE].seen = stored.seen
    BY DEF TypeOK, Shown
  <2> QED BY <1>0, <1>5, <2>1, OrderedKept, Zenon DEF EditRead, Step, Goto, Steps, service
<1>6. CASE EditWrite
  <2>1. /\ stored' = result[Main] /\ UNCHANGED <<spotify, lastState, got, result>>
        /\ \E step \in Steps \ {"answer", "store"} : pc' = [pc EXCEPT ![Main] = step]
    BY <1>6, Zenon DEF EditWrite, StoreSet, Goto, Steps, service, asked
  <2> QED BY <1>0, <2>1, OrderedKept
<1>7. CASE Change
  <2>1. /\ spotify' = spotify + 1
        /\ UNCHANGED <<lastState, stored, pc, got, result>>
    BY <1>7 DEF Change, service, asked
  <2>2. \A t \in Thread : pc'[t] = "answer" => lastState <= got[t] /\ got[t] <= spotify + 1
    BY <2>1, Numbers DEF Ordered
  <2>3. lastState <= spotify + 1
    BY Numbers DEF Ordered
  <2> QED BY <2>1, <2>2, <2>3 DEF Ordered
<1>8. CASE Expire \/ UNCHANGED vars
  BY <1>8 DEF Expire, vars, Ordered, service, asked
<1> QED BY <1>1, <1>2, <1>3, <1>4, <1>5, <1>6, <1>7, <1>8 DEF Next

-----------------------------------------------------------------------------
\* The inductive invariant holds when the service starts.
LEMMA IInvInit == Init => IInv
<1> SUFFICES ASSUME Init PROVE IInv
  OBVIOUS
<1>1. LockHeld
  BY DEF Init, LockHeld, InLock
<1>2. QueueWaits
  BY DEF Init, QueueWaits
<1>3. Ordered
  BY DEF Init, Ordered, AsSeen
<1> QED BY <1>1, <1>2, <1>3, TypeInit DEF IInv

\* Every step of a thread keeps the inductive invariant.
LEMMA IInvNext == IInv /\ [Next]_vars => IInv'
BY TypeNext, LockNext, QueueNext, OrderedNext DEF IInv

\* The inductive invariant holds in every behaviour of the service.
LEMMA IInvHolds == Spec => []IInv
BY IInvInit, IInvNext, PTL DEF Spec

\* What get_current_playback stores under its lock is never older than what
\* the store shows.
THEOREM PlaybackStoredInOrder == Spec => []StoredInOrder
<1>1. IInv => StoredInOrder
  <2> SUFFICES ASSUME IInv, NEW t \in Thread, pc[t] = "store"
               PROVE  result[t].seen >= stored.seen
    BY DEF StoredInOrder
  <2>1. result[t].seen = lastState /\ stored.seen <= lastState
    BY DEF IInv, Ordered
  <2> QED BY <2>1, Numbers DEF IInv
<1> QED BY <1>1, IInvHolds, PTL

\* Only an answer replaces the cached state, and the lock is held from the
\* request to the answer: no answer overtakes another one.
THEOREM PlaybackNeverGoesBack == Spec => ServiceNeverGoesBack
<1>1. IInv /\ [Next]_vars => [lastState' >= lastState]_vars
  <2> SUFFICES ASSUME IInv, Next PROVE lastState' >= lastState
    BY DEF IInv
  <2>1. lastState \in Int
    BY Numbers DEF IInv
  <2>2. CASE \E t \in Thread : Take(t)
    <3>1. PICK t \in Thread : Take(t)
      BY <2>2
    <3>2. lastState' = got[t] /\ lastState <= got[t]
      BY <3>1 DEF Take, Step, IInv, Ordered
    <3> QED BY <2>1, <3>2, Numbers DEF IInv
  <2>3. CASE \A t \in Thread : ~ Take(t)
    <3>1. lastState' = lastState
      BY <2>3, Zenon
      DEF Next, Begin, Ask, AskDevices, Reply, Proceed, FromCache, Request, NoReply,
          Store, Release, StoreAgain, RequestDevices, TakeDevices, Listen, EditRead,
          EditWrite, Change, Expire, service
    <3> QED BY <2>1, <3>1
  <2> QED BY <2>2, <2>3
<1> QED BY <1>1, IInvHolds, PTL DEF Spec, ServiceNeverGoesBack

-----------------------------------------------------------------------------
(* The queue of the device: loops *)

\* A set of numbers that is not empty has a least element.
LEMMA LeastNumber ==
    ASSUME NEW T, T \subseteq Nat, T # {}
    PROVE  \E x \in T: \A y \in T: x <= y
<1>1. \E x \in T: \A y \in T: ~(<<y, x>> \in OpToRel(<, Nat))
  BY NatLessThanWellFounded, WFMin, Zenon
<1>2. PICK x \in T: \A y \in T: ~(<<y, x>> \in OpToRel(<, Nat))
  BY <1>1, Zenon
<1>3. ASSUME NEW y \in T PROVE x <= y
  <2>1. ~(y < x)
    BY <1>2, x \in Nat, y \in Nat DEF OpToRel
  <2> QED
    BY <2>1, x \in Nat, y \in Nat
<1> QED
  BY <1>3

\* Induction over the natural numbers, for a set of them.
LEMMA AllNumbers ==
    ASSUME NEW T, 0 \in T, \A n \in Nat: n \in T => n + 1 \in T
    PROVE  Nat \subseteq T
<1> SUFFICES ASSUME Nat \ T # {} PROVE FALSE
  OBVIOUS
<1>1. PICK x \in Nat \ T: \A y \in Nat \ T: x <= y
  BY LeastNumber
<1>2. x # 0 /\ x - 1 \in Nat /\ x - 1 \in T
  BY <1>1
<1> QED
  BY <1>1, <1>2

\* What a loop computes from x: after its turn i, step i of what it had before.
Loops(S, x, n, step) ==
    \E f \in [0..n -> S]: f[0] = x /\ \A i \in 1..n: f[i] = step[i][f[i - 1]]

\* A function that starts with a value and goes on by steps exists on every
\* interval of indices.
LEMMA Iterated ==
    ASSUME NEW S, NEW x \in S, NEW n \in Nat, NEW step \in [1..n -> [S -> S]]
    PROVE  Loops(S, x, n, step)
<1> DEFINE Is(f, m) == f \in [0..m -> S] /\ f[0] = x /\ \A i \in 1..m: f[i] = step[i][f[i - 1]]
           T == {m \in Nat: m <= n => \E f: Is(f, m)}
<1>1. 0 \in T
  <2>1. Is([i \in 0..0 |-> x], 0)
    OBVIOUS
  <2> QED
    BY <2>1
<1>2. ASSUME NEW m \in Nat, m \in T PROVE m + 1 \in T
  <2> SUFFICES ASSUME m + 1 <= n PROVE \E f: Is(f, m + 1)
    OBVIOUS
  <2>1. PICK f: Is(f, m)
    BY <1>2
  <2> DEFINE g == [i \in 0..(m + 1) |-> IF i = m + 1 THEN step[m + 1][f[m]] ELSE f[i]]
  <2>2. g \in [0..(m + 1) -> S]
    <3>1. f[m] \in S /\ step[m + 1] \in [S -> S]
      BY <2>1
    <3>2. step[m + 1][f[m]] \in S
      BY <3>1
    <3>3. \A i \in 0..(m + 1): i # m + 1 => f[i] \in S
      BY <2>1
    <3> QED
      BY <3>2, <3>3
  <2>3. g[0] = x
    BY <2>1
  <2>4. ASSUME NEW i \in 1..(m + 1) PROVE g[i] = step[i][g[i - 1]]
    <3>1. CASE i = m + 1
      <4>1. g[i - 1] = f[m] /\ g[i] = step[m + 1][f[m]]
        BY <3>1, m \in 0..(m + 1), m + 1 \in 0..(m + 1)
      <4> QED
        BY <4>1, <3>1
    <3>2. CASE i # m + 1
      <4>1. i \in 1..m /\ g[i - 1] = f[i - 1] /\ g[i] = f[i]
        BY <3>2
      <4> QED
        BY <4>1, <2>1
    <3> QED
      BY <3>1, <3>2
  <2>5. Is(g, m + 1)
    BY <2>2, <2>3, <2>4
  <2> HIDE DEF g, Is
  <2> QED
    BY <2>5
<1>3. Nat \subseteq T
  <2> HIDE DEF T
  <2> QED
    BY <1>1, <1>2, AllNumbers
<1> QED
  BY <1>3 DEF Loops

\* A function on the first numbers is a list.
LEMMA FunctionList ==
  ASSUME NEW S, NEW m \in Nat, NEW f \in [1 .. m -> S]
  PROVE  f \in Seq(S) /\ Len(f) = m /\ DOMAIN f = 1 .. m
OBVIOUS

USE Bounds, Services, Handovers

\* What a client sends may be longer than the limits, not shorter than nothing.
LEMMA Limits ==
  NextLimit \in Nat /\ MaxNext <= NextLimit /\ PrevLimit \in Nat /\ MaxPrev <= PrevLimit
BY Clients DEF NextLimit, PrevLimit

\* What a list of tracks that holds each of its positions once is.
Numbered(tracks) == {tracks[i].at : i \in DOMAIN tracks} = 0 .. Len(tracks) - 1

\* The swaps of a shuffle exchange positions that the list has.
Fits(c) ==
  c.swaps # <<>> => /\ c.first < Len(c.tracks)
                    /\ \A k \in DOMAIN c.swaps : c.swaps[k] < Len(c.tracks)

\* A context to play from, and the default one.
WholeContexts == {c \in Contexts : Fits(c) /\ Numbered(c.tracks)}

\* The states in which the lists are sound, whether the last step met an error
\* or not: what every operator keeps.
Sound ==
  {s \in States : Len(s.next) <= NextLimit /\ Len(s.prev) <= PrevLimit /\ s.ctx["Default"] \in WholeContexts}

\* Each field may be set to what it may be.
LEMMA SoundFields ==
  ASSUME NEW s \in Sound
  PROVE  /\ s.track \in Tracks /\ s.prev \in Seq(Tracks) /\ s.next \in Seq(Tracks) /\ s.index \in Places
         /\ s.shuffle \in BOOLEAN /\ s.context \in BOOLEAN /\ s.repeat \in BOOLEAN
         /\ s.ctx \in [Kinds -> Contexts] /\ s.active \in Kinds /\ s.fill \in Kinds
         /\ s.uri \in DOMAIN Pages \cup {"none"} /\ s.bad \in SUBSET Names
         /\ s.fixed \in BOOLEAN /\ s.initial \in Names /\ s.ok \in BOOLEAN
         /\ Len(s.next) \in 0 .. NextLimit /\ Len(s.prev) \in 0 .. PrevLimit
         /\ s.ctx["Default"] \in WholeContexts /\ s.ctx["Autoplay"] \in Contexts
BY Limits DEF Sound, States, Kinds

\* An error keeps what has been changed.
LEMMA FailSound ==
  ASSUME NEW s \in Sound
  PROVE  /\ Fail(s) \in Sound
         /\ Fail(s).track = s.track /\ Fail(s).prev = s.prev /\ Fail(s).next = s.next
         /\ Fail(s).active = s.active /\ Fail(s).fill = s.fill /\ Fail(s).ctx = s.ctx
         /\ Fail(s).ok = FALSE
BY DEF Fail, Sound, States

-----------------------------------------------------------------------------
(* Contexts *)

\* A context of the state may be replaced by another one.
LEMMA ContextSet ==
  ASSUME NEW s \in Sound, NEW k \in Kinds, NEW c \in Contexts, k = "Default" => c \in WholeContexts
  PROVE  /\ [s EXCEPT !.ctx[k] = c] \in Sound
         /\ [s EXCEPT !.ctx[k] = c] = [s EXCEPT !.ctx = [s.ctx EXCEPT ![k] = c]]
         /\ [s EXCEPT !.ctx[k] = c].ctx = [s.ctx EXCEPT ![k] = c]
<1>1. s.ctx \in [Kinds -> Contexts] /\ s.ctx["Default"] \in WholeContexts
  BY SoundFields
<1> DEFINE x == [s.ctx EXCEPT ![k] = c]
<1>2. x \in [Kinds -> Contexts] /\ x[k] = c /\ \A j \in Kinds \ {k} : x[j] = s.ctx[j]
  BY <1>1
<1>3. x["Default"] \in WholeContexts
  BY <1>1, <1>2 DEF Kinds
<1>4. [s EXCEPT !.ctx[k] = c] = [s EXCEPT !.ctx = x]
  OBVIOUS
<1> HIDE DEF x
<1>5. [s EXCEPT !.ctx = x] \in Sound /\ [s EXCEPT !.ctx = x].ctx = x
  BY <1>2, <1>3 DEF Sound, States
<1> QED
  BY <1>2, <1>4, <1>5 DEF x

\* The position to go on from.
LEMMA ContextIndex ==
  ASSUME NEW c \in Contexts, NEW i \in Places
  PROVE  /\ [c EXCEPT !.index = i] \in Contexts
         /\ [c EXCEPT !.index = i].tracks = c.tracks /\ [c EXCEPT !.index = i].index = i
         /\ c \in WholeContexts => [c EXCEPT !.index = i] \in WholeContexts
BY DEF Contexts, WholeContexts, Fits

\* The track that is not played again.
LEMMA ContextInitial ==
  ASSUME NEW c \in Contexts, NEW n \in Names
  PROVE  /\ [c EXCEPT !.initial = n] \in Contexts
         /\ [c EXCEPT !.initial = n].tracks = c.tracks /\ [c EXCEPT !.initial = n].index = c.index
         /\ c \in WholeContexts => [c EXCEPT !.initial = n] \in WholeContexts
BY DEF Contexts, WholeContexts, Fits

\* There is no context yet.
LEMMA NoContextWhole == NoContext \in WholeContexts /\ NoContext.index = Nowhere
BY DEF NoContext, WholeContexts, Contexts, Fits, Numbered, Places, Names, Nowhere

\* Two states with the same lists and the same place in them.
Alike(r, s) ==
  /\ r.track = s.track /\ r.prev = s.prev /\ r.next = s.next /\ r.index = s.index
  /\ r.active = s.active /\ r.fill = s.fill /\ r.ok = s.ok

\* A new position in a context changes that alone.
LEMMA IndexSet ==
  ASSUME NEW s \in Sound, NEW k \in Kinds, NEW i \in Places
  PROVE  /\ SetIndex(s, k, i) \in Sound
         /\ Alike(SetIndex(s, k, i), s)
         /\ \A j \in Kinds : /\ SetIndex(s, k, i).ctx[j].tracks = s.ctx[j].tracks
                             /\ SetIndex(s, k, i).ctx[j].index = IF j = k THEN i ELSE s.ctx[j].index
                             /\ SetIndex(s, k, i).ctx[j].initial = s.ctx[j].initial
<1> DEFINE c == [s.ctx[k] EXCEPT !.index = i]
<1>1. s.ctx \in [Kinds -> Contexts] /\ s.ctx["Default"] \in WholeContexts
  BY SoundFields
<1>2. c \in Contexts /\ c.tracks = s.ctx[k].tracks /\ c.index = i /\ c.initial = s.ctx[k].initial
      /\ (s.ctx[k] \in WholeContexts => c \in WholeContexts)
  BY <1>1, ContextIndex DEF Contexts
<1>3. SetIndex(s, k, i) = [s EXCEPT !.ctx[k] = c]
  BY DEF SetIndex
<1>4. k = "Default" => c \in WholeContexts
  BY <1>1, <1>2
<1> HIDE DEF c
<1>5. /\ [s EXCEPT !.ctx[k] = c] \in Sound
      /\ [s EXCEPT !.ctx[k] = c] = [s EXCEPT !.ctx = [s.ctx EXCEPT ![k] = c]]
      /\ [s EXCEPT !.ctx[k] = c].ctx = [s.ctx EXCEPT ![k] = c]
  BY <1>2, <1>4, ContextSet
<1>6. SetIndex(s, k, i).ctx = [s.ctx EXCEPT ![k] = c]
  BY <1>3, <1>5
<1> DEFINE x == [s.ctx EXCEPT ![k] = c]
<1>7. Alike(SetIndex(s, k, i), s)
  <2> HIDE DEF x
  <2>1. SetIndex(s, k, i) = [s EXCEPT !.ctx = x]
    BY <1>3, <1>5 DEF x
  <2> QED
    BY <2>1 DEF Sound, States, Alike
<1>8. \A j \in Kinds : [s.ctx EXCEPT ![k] = c][j] = IF j = k THEN c ELSE s.ctx[j]
  BY <1>1
<1> QED
  BY <1>2, <1>3, <1>5, <1>6, <1>7, <1>8

\* What the turns of a loop keep, its result has.
LEMMA Stays ==
  ASSUME NEW S, NEW n \in Nat, NEW f, f[0] \in S, \A i \in 1 .. n : f[i - 1] \in S => f[i] \in S
  PROVE  \A i \in 0 .. n : f[i] \in S
<1> DEFINE T == {i \in Nat : i <= n => f[i] \in S}
<1>1. 0 \in T
  OBVIOUS
<1>2. ASSUME NEW i \in Nat, i \in T PROVE i + 1 \in T
  <2> SUFFICES ASSUME i + 1 <= n PROVE f[i + 1] \in S
    OBVIOUS
  <2>1. i + 1 \in 1 .. n /\ (i + 1) - 1 = i /\ f[i] \in S
    BY <1>2
  <2> QED
    BY <2>1
<1>3. Nat \subseteq T
  <2> HIDE DEF T
  <2> QED
    BY <1>1, <1>2, AllNumbers
<1> QED
  BY <1>3

\* What a function of counts has at the count before one it knows.
LEMMA Before ==
  ASSUME NEW S, NEW n \in Nat, NEW f \in [0 .. n -> S], NEW k \in 1 .. n
  PROVE  f[k - 1] \in S
<1>1. k - 1 \in 0 .. n
  OBVIOUS
<1> QED
  BY <1>1

\* What a list keeps when its tracks change places.
Same(v) ==
  {w \in Seq(Tracks) : Len(w) = Len(v) /\ {w[i].at : i \in DOMAIN w} = {v[i].at : i \in DOMAIN v}}

\* An exchange of two tracks of a list changes their places alone.
LEMMA SwappedSame ==
  ASSUME NEW v \in Seq(Tracks), NEW i \in 0 .. Len(v) - 1, NEW j \in 0 .. Len(v) - 1
  PROVE  Swapped(v, i, j) \in Same(v)
<1> DEFINE w == Swapped(v, i, j)
<1>1. /\ w \in Seq(Tracks) /\ Len(w) = Len(v) /\ DOMAIN w = DOMAIN v /\ DOMAIN v = 1 .. Len(v)
      /\ w[i + 1] = v[j + 1] /\ w[j + 1] = v[i + 1]
      /\ \A k \in DOMAIN v \ {i + 1, j + 1} : w[k] = v[k]
  <2> DEFINE a == i + 1
             b == j + 1
             x == v[a]
             y == v[b]
  <2>1. w = [v EXCEPT ![a] = y, ![b] = x]
    BY DEF Swapped
  <2>2. a \in 1 .. Len(v) /\ b \in 1 .. Len(v) /\ DOMAIN v = 1 .. Len(v)
    OBVIOUS
  <2>3. x \in Tracks /\ y \in Tracks /\ (a = b => x = y)
    BY <2>2
  <2>4. x = v[i + 1] /\ y = v[j + 1] /\ a = i + 1 /\ b = j + 1
    OBVIOUS
  <2> HIDE DEF a, b, x, y, w
  <2>5. DOMAIN w = DOMAIN v /\ w[b] = x /\ w[a] = y /\ \A k \in DOMAIN v \ {a, b} : w[k] = v[k]
    BY <2>1, <2>2, <2>3
  <2>6. w \in [1 .. Len(v) -> Tracks]
    BY <2>1, <2>2, <2>3
  <2>7. Len(v) \in Nat
    OBVIOUS
  <2>8. w \in Seq(Tracks) /\ Len(w) = Len(v)
    BY <2>6, <2>7, FunctionList, Zenon
  <2> QED
    BY <2>2, <2>4, <2>5, <2>8
<1>2. i + 1 \in DOMAIN v /\ j + 1 \in DOMAIN v
  BY <1>1
<1> HIDE DEF w
<1>3. {w[k].at : k \in DOMAIN w} = {v[k].at : k \in DOMAIN v}
  <2>1. ASSUME NEW k \in DOMAIN v PROVE \E m \in DOMAIN v : w[m].at = v[k].at
    BY <1>1, <1>2
  <2>2. ASSUME NEW k \in DOMAIN v PROVE \E m \in DOMAIN v : v[m].at = w[k].at
    BY <1>1, <1>2
  <2>3. {w[k].at : k \in DOMAIN v} \subseteq {v[k].at : k \in DOMAIN v}
    BY <2>2, Zenon
  <2>4. {v[k].at : k \in DOMAIN v} \subseteq {w[k].at : k \in DOMAIN v}
    BY <2>1, Zenon
  <2> QED
    BY <1>1, <2>3, <2>4
<1> QED
  BY <1>1, <1>3 DEF w, Same

\* What is the same as what is the same is the same.
LEMMA SameAgain ==
  ASSUME NEW v \in Seq(Tracks), NEW w \in Same(v)
  PROVE  w \in Seq(Tracks) /\ Len(w) = Len(v) /\ Same(w) = Same(v) /\ (Numbered(v) => Numbered(w))
BY DEF Same, Numbered

\* And so do exchanges one after the other.
LEMMA AllSwappedSame ==
  ASSUME NEW v \in Seq(Tracks), NEW pairs \in Seq((0 .. Len(v) - 1) \X (0 .. Len(v) - 1))
  PROVE  AllSwapped(v, pairs) \in Same(v)
<1> DEFINE n == Len(pairs)
           step == [k \in 1 .. n |-> [w \in Same(v) |-> Swapped(w, pairs[k][1], pairs[k][2])]]
           Runs(f) == f = [k \in 0 .. n |-> IF k = 0 THEN v ELSE Swapped(f[k - 1], pairs[k][1], pairs[k][2])]
<1>1. n \in Nat /\ \A k \in 1 .. n : pairs[k][1] \in 0 .. Len(v) - 1 /\ pairs[k][2] \in 0 .. Len(v) - 1
  OBVIOUS
<1>2. ASSUME NEW k \in 1 .. n, NEW w \in Same(v) PROVE Swapped(w, pairs[k][1], pairs[k][2]) \in Same(v)
  <2>1. w \in Seq(Tracks) /\ Len(w) = Len(v) /\ Same(w) = Same(v)
    BY SameAgain
  <2> QED
    BY <1>1, <2>1, SwappedSame
<1>3. step \in [1 .. n -> [Same(v) -> Same(v)]]
  BY <1>2
<1>4. v \in Same(v)
  BY DEF Same
<1>5. Loops(Same(v), v, n, step)
  <2> HIDE DEF step, n
  <2> QED
    BY <1>1, <1>3, <1>4, Iterated
<1>6. PICK f \in [0 .. n -> Same(v)] : f[0] = v /\ \A k \in 1 .. n : f[k] = step[k][f[k - 1]]
  BY <1>5 DEF Loops
<1>7. ASSUME NEW k \in 1 .. n PROVE f[k] = Swapped(f[k - 1], pairs[k][1], pairs[k][2])
  <2>1. f[k - 1] \in Same(v)
    BY <1>1
  <2> QED
    BY <1>6, <2>1
<1>8. Runs(f)
  BY <1>6, <1>7
<1>9. Runs(CHOOSE g : Runs(g))
  <2> HIDE DEF Runs
  <2> QED
    BY <1>8
<1>10. AllSwapped(v, pairs) = (CHOOSE g : Runs(g))[n]
  BY DEF AllSwapped
<1> DEFINE h == CHOOSE g : Runs(g)
<1>11. AllSwapped(v, pairs) = h[n] /\ h = [k \in 0 .. n |-> IF k = 0 THEN v ELSE Swapped(h[k - 1], pairs[k][1], pairs[k][2])]
  BY <1>9, <1>10
<1> HIDE DEF h
<1>12. h[0] = v /\ \A k \in 1 .. n : h[k] = Swapped(h[k - 1], pairs[k][1], pairs[k][2])
  <2> HIDE DEF n
  <2> QED
    BY <1>1, <1>11
<1>13. \A k \in 1 .. n : h[k - 1] \in Same(v) => h[k] \in Same(v)
  BY <1>2, <1>12
<1>14. \A k \in 0 .. n : h[k] \in Same(v)
  <2> HIDE DEF n
  <2> QED
    BY <1>1, <1>4, <1>12, <1>13, Stays
<1>15. n \in 0 .. n
  BY <1>1
<1> HIDE DEF n, Runs
<1> QED
  BY <1>11, <1>14, <1>15

\* A context whose tracks changed places is still one.
LEMMA SameContext ==
  ASSUME NEW c \in WholeContexts, NEW w \in Same(c.tracks), NEW swaps \in Seq(Nat), NEW first \in Places,
         swaps # <<>> => first < Len(w) /\ \A k \in DOMAIN swaps : swaps[k] < Len(w)
  PROVE  [c EXCEPT !.swaps = swaps, !.first = first, !.tracks = w] \in WholeContexts
<1>1. c.tracks \in Seq(Tracks) /\ Numbered(c.tracks) /\ c \in Contexts
  BY DEF WholeContexts, Contexts
<1>2. w \in Seq(Tracks) /\ Len(w) = Len(c.tracks) /\ Numbered(w)
  BY <1>1, SameAgain
<1> DEFINE x == [c EXCEPT !.swaps = swaps, !.first = first, !.tracks = w]
<1>3. x \in Contexts /\ x.tracks = w /\ x.swaps = swaps /\ x.first = first
  BY <1>1, <1>2 DEF Contexts
<1> HIDE DEF x
<1>4. x \in WholeContexts
  BY <1>2, <1>3 DEF WholeContexts, Fits
<1> QED
  BY <1>4 DEF x

\* Undoing a shuffle changes the places of the tracks alone.
LEMMA UnshuffledWhole ==
  ASSUME NEW c \in WholeContexts
  PROVE  /\ Unshuffled(c) \in WholeContexts /\ Unshuffled(c).tracks \in Same(c.tracks)
         /\ Unshuffled(c).index = c.index /\ Unshuffled(c).initial = c.initial
<1> DEFINE n == Len(c.tracks)
           back == IF c.first = Nowhere THEN c.tracks ELSE Swapped(c.tracks, 0, c.first)
           pairs == [i \in 1 .. n - 1 |-> <<c.swaps[n - i], i>>]
           w == IF Len(c.swaps) # n - 1 THEN back ELSE AllSwapped(back, pairs)
<1>1. /\ c \in Contexts /\ c.tracks \in Seq(Tracks) /\ c.swaps \in Seq(Nat) /\ c.first \in Places /\ n \in Nat
      /\ c.tracks \in Same(c.tracks)
  BY DEF WholeContexts, Contexts, Same
<1>2. CASE c.swaps = <<>>
  BY <1>1, <1>2 DEF Unshuffled
<1>3. CASE c.swaps # <<>>
  <2>1. c.first < n /\ \A k \in DOMAIN c.swaps : c.swaps[k] < n
    BY <1>3 DEF WholeContexts, Fits
  <2>2. back \in Same(c.tracks)
    <3>1. CASE c.first = Nowhere
      BY <1>1, <3>1
    <3>2. CASE c.first # Nowhere
      <4>1. c.first \in 0 .. n - 1 /\ 0 \in 0 .. n - 1
        BY <1>1, <2>1, <3>2 DEF Places, Nowhere
      <4> QED
        BY <1>1, <3>2, <4>1, SwappedSame
    <3> QED
      BY <3>1, <3>2
  <2>3. back \in Seq(Tracks) /\ Len(back) = n /\ Same(back) = Same(c.tracks)
    BY <1>1, <2>2, SameAgain
  <2>4. ASSUME Len(c.swaps) = n - 1 PROVE pairs \in Seq((0 .. n - 1) \X (0 .. n - 1))
    <3>1. ASSUME NEW i \in 1 .. n - 1 PROVE pairs[i] \in (0 .. n - 1) \X (0 .. n - 1)
      <4>1. n - i \in DOMAIN c.swaps
        BY <1>1, <2>4
      <4>2. c.swaps[n - i] \in 0 .. n - 1 /\ i \in 0 .. n - 1
        BY <1>1, <2>1, <4>1
      <4>3. pairs[i] = <<c.swaps[n - i], i>>
        OBVIOUS
      <4> HIDE DEF n, pairs
      <4> QED
        BY <4>2, <4>3
    <3> HIDE DEF n
    <3>2. n - 1 \in Nat
      BY <1>1, <2>4
    <3> QED
      BY <3>1, <3>2, <1>1
  <2>5. w \in Same(c.tracks)
    <3> HIDE DEF back, pairs
    <3> QED
      BY <2>2, <2>3, <2>4, AllSwappedSame
  <2>6. Unshuffled(c) = [c EXCEPT !.swaps = <<>>, !.first = Nowhere, !.tracks = w]
    BY <1>3, <1>1 DEF Unshuffled, Contexts
  <2> HIDE DEF w
  <2>7. <<>> \in Seq(Nat) /\ Nowhere \in Places
    BY DEF Places
  <2>8. Unshuffled(c) \in WholeContexts
    <3>1. <<>> # <<>> => Nowhere < Len(w) /\ \A k \in DOMAIN <<>> : <<>>[k] < Len(w)
      OBVIOUS
    <3>2. [c EXCEPT !.swaps = <<>>, !.first = Nowhere, !.tracks = w] \in WholeContexts
      BY <2>5, <2>7, <3>1, SameContext, Zenon
    <3> QED
      BY <2>6, <3>2
  <2> QED
    BY <1>1, <2>5, <2>6, <2>8 DEF Contexts
<1> QED
  BY <1>2, <1>3

\* Where a uri is found, there is a track that has it.
LEMMA FindIndexIs ==
  ASSUME NEW v \in Seq(Tracks), NEW uri
  PROVE  /\ FindIndex(v, uri) \in Places
         /\ FindIndex(v, uri) = Nowhere <=> \A i \in DOMAIN v : v[i].uri # uri
         /\ FindIndex(v, uri) # Nowhere =>
              FindIndex(v, uri) \in 0 .. Len(v) - 1 /\ v[FindIndex(v, uri) + 1].uri = uri
<1>1. CASE \A i \in DOMAIN v : v[i].uri # uri
  BY <1>1 DEF FindIndex, Places
<1>2. CASE \E i \in DOMAIN v : v[i].uri = uri
  <2> DEFINE T == {i \in DOMAIN v : v[i].uri = uri}
  <2>1. T \subseteq Nat /\ T # {} /\ DOMAIN v = 1 .. Len(v)
    BY <1>2
  <2>2. PICK x \in T : \A y \in T : x <= y
    <3> HIDE DEF T
    <3> QED
      BY <2>1, LeastNumber
  <2>3. x \in DOMAIN v /\ v[x].uri = uri /\ \A j \in 1 .. x - 1 : v[j].uri # uri
    <3>1. x \in 1 .. Len(v) /\ v[x].uri = uri
      BY <2>1
    <3>2. ASSUME NEW j \in 1 .. x - 1 PROVE v[j].uri # uri
      <4>1. j \in DOMAIN v /\ ~ (x <= j)
        BY <3>1, <2>1
      <4> QED
        BY <4>1, <2>2
    <3> QED
      BY <2>1, <3>1, <3>2
  <2> DEFINE First(i) == v[i].uri = uri /\ \A j \in 1 .. i - 1 : v[j].uri # uri
             y == CHOOSE i \in DOMAIN v : First(i)
  <2>4. y \in DOMAIN v /\ First(y)
    <3>1. \E i \in DOMAIN v : First(i)
      BY <2>3
    <3> HIDE DEF First
    <3> QED
      BY <3>1
  <2>5. FindIndex(v, uri) = y - 1
    BY <1>2 DEF FindIndex
  <2> HIDE DEF y
  <2> QED
    BY <1>2, <2>1, <2>4, <2>5 DEF Places, Nowhere
<1> QED
  BY <1>1, <1>2

\* A shuffle changes the places of the tracks alone, and its swaps fit.
LEMMA ShuffledWhole ==
  ASSUME NEW c \in WholeContexts, NEW draw \in Draws, NEW initial
  PROVE  /\ Shuffled(c, draw, initial) \in WholeContexts
         /\ Shuffled(c, draw, initial).index = c.index
<1> DEFINE n == Len(c.tracks)
           swaps == [k \in 1 .. n - 1 |-> draw[(k % Len(draw)) + 1] % (n - k + 1)]
           pairs == [k \in 1 .. n - 1 |-> <<n - k, swaps[k]>>]
           mixed == AllSwapped(Unshuffled(c).tracks, pairs)
           first == FindIndex(mixed, initial)
           w == IF first = Nowhere THEN mixed ELSE Swapped(mixed, 0, first)
<1>1. /\ c \in Contexts /\ c.tracks \in Seq(Tracks) /\ n \in Nat
      /\ draw \in Seq(Nat) /\ Len(draw) \in Nat \ {0}
  BY DEF WholeContexts, Contexts
<1>2. CASE n <= 1
  BY <1>1, <1>2 DEF Shuffled
<1>3. CASE n > 1
  <2>1. ASSUME NEW k \in 1 .. n - 1 PROVE swaps[k] \in 0 .. n - 1
    <3>1. (k % Len(draw)) + 1 \in 1 .. Len(draw)
      BY <1>1
    <3>2. draw[(k % Len(draw)) + 1] \in Nat
      BY <1>1, <3>1
    <3> DEFINE d == draw[(k % Len(draw)) + 1]
           m == n - k + 1
    <3>3. m \in Nat \ {0} /\ m - 1 <= n - 1
      BY <1>1
    <3>4. d % m \in 0 .. m - 1
      <4> HIDE DEF d, m
      <4>1. d \in Nat
        BY <3>2 DEF d
      <4> QED
        BY <3>3, <4>1
    <3>5. swaps[k] = d % m
      OBVIOUS
    <3> HIDE DEF n, d, m, swaps
    <3> QED
      BY <3>3, <3>4, <3>5, <1>1
  <2>2. swaps \in Seq(Nat) /\ DOMAIN swaps = 1 .. n - 1
    <3>1. \A k \in 1 .. n - 1 : swaps[k] \in Nat
      <4> HIDE DEF n, swaps
      <4> QED
        BY <2>1, <1>1
    <3>2. n - 1 \in Nat
      BY <1>1, <1>3
    <3>3. swaps \in [1 .. n - 1 -> Nat]
      BY <3>1, Zenon
    <3> HIDE DEF swaps, n
    <3> QED
      BY <3>2, <3>3, FunctionList
  <2>3. Unshuffled(c).tracks \in Same(c.tracks)
    BY UnshuffledWhole
  <2>4. Unshuffled(c).tracks \in Seq(Tracks) /\ Len(Unshuffled(c).tracks) = n /\ Same(Unshuffled(c).tracks) = Same(c.tracks)
    BY <1>1, <2>3, SameAgain
  <2>5. pairs \in Seq((0 .. n - 1) \X (0 .. n - 1))
    <3> HIDE DEF n, swaps
    <3>1. n - 1 \in Nat
      BY <1>1, <1>3
    <3>2. ASSUME NEW k \in 1 .. n - 1 PROVE <<n - k, swaps[k]>> \in (0 .. n - 1) \X (0 .. n - 1)
      <4>1. n - k \in 0 .. n - 1 /\ swaps[k] \in 0 .. n - 1
        BY <1>1, <2>1
      <4> QED
        BY <4>1
    <3>3. pairs \in [1 .. n - 1 -> (0 .. n - 1) \X (0 .. n - 1)]
      BY <3>2, Zenon
    <3> HIDE DEF pairs
    <3> QED
      BY <3>1, <3>3, FunctionList
  <2>6. mixed \in Same(c.tracks)
    <3> HIDE DEF pairs, n
    <3> QED
      BY <2>4, <2>5, AllSwappedSame
  <2>7. mixed \in Seq(Tracks) /\ Len(mixed) = n /\ Same(mixed) = Same(c.tracks)
    <3> HIDE DEF mixed
    <3> QED
      BY <1>1, <2>6, SameAgain
  <2>8. first \in Places /\ (first # Nowhere => first \in 0 .. n - 1) /\ first < n
    <3> HIDE DEF mixed, n
    <3> QED
      BY <1>1, <1>3, <2>7, FindIndexIs DEF Nowhere
  <2>9. w \in Same(c.tracks)
    <3> HIDE DEF mixed, n, first
    <3>1. CASE first = Nowhere
      BY <2>6, <3>1
    <3>2. CASE first # Nowhere
      <4>1. first \in 0 .. n - 1 /\ 0 \in 0 .. n - 1
        BY <1>1, <1>3, <2>8, <3>2
      <4> QED
        BY <2>7, <3>2, <4>1, SwappedSame
    <3> QED
      BY <3>1, <3>2
  <2>10. Shuffled(c, draw, initial) = [c EXCEPT !.swaps = swaps, !.first = first, !.tracks = w]
    <3>1. ~ (n <= 1)
      BY <1>1, <1>3
    <3> QED
      BY <3>1, Zenon DEF Shuffled
  <2>11. Len(w) = n
    <3> HIDE DEF w, n
    <3> QED
      BY <1>1, <2>9, SameAgain DEF n
  <2> HIDE DEF w, swaps, first, n
  <2>12. first < Len(w) /\ \A k \in DOMAIN swaps : swaps[k] < Len(w)
    BY <1>1, <2>1, <2>2, <2>8, <2>11
  <2>13. Shuffled(c, draw, initial) \in WholeContexts
    <3>1. [c EXCEPT !.swaps = swaps, !.first = first, !.tracks = w] \in WholeContexts
      BY <2>2, <2>8, <2>9, <2>12, SameContext, Zenon
    <3> QED
      BY <2>10, <3>1
  <2>14. Shuffled(c, draw, initial).index = c.index
    BY <1>1, <2>10 DEF Contexts
  <2> QED
    BY <2>13, <2>14
<1> QED
  BY <1>1, <1>2, <1>3

-----------------------------------------------------------------------------
(* Tracks and lists of them *)

\* What a track is made of.
LEMMA TracksAre ==
  /\ NoTrack \in Tracks /\ Delimiter \in Tracks
  /\ \A s \in Sound, uri \in Names, by \in {"context", "queue", "autoplay"}, at \in Places :
       ProvidedTrack(s, uri, by, at) \in Tracks /\ ProvidedTrack(s, uri, by, at).at = at
BY DEF NoTrack, Delimiter, ProvidedTrack, Track, Tracks, Places, Names

\* The uris of the service and of the clients are names of tracks.
LEMMA PageUris ==
  ASSUME NEW page \in Seq(Uris), NEW i \in 1 .. Len(page)
  PROVE  page[i] \in Names
BY DEF Names

\* A page becomes a context of its tracks; numbered from the start it is one to
\* play from.
LEMMA PageContext ==
  ASSUME NEW s \in Sound, NEW page \in Seq(Uris), NEW by \in {"context", "autoplay"}, NEW from \in Places
  PROVE  /\ ContextFromPage(s, page, by, from) \in Contexts
         /\ ContextFromPage(s, page, by, from).index = 0
         /\ ContextFromPage(s, page, by, from).initial = "none"
         /\ Len(ContextFromPage(s, page, by, from).tracks) = Len(page)
         /\ from # Nowhere => \A i \in 1 .. Len(page) :
              ContextFromPage(s, page, by, from).tracks[i].at = from + i - 1
         /\ from = 0 => ContextFromPage(s, page, by, from) \in WholeContexts
<1> DEFINE c == ContextFromPage(s, page, by, from)
           place(i) == IF from = Nowhere THEN Nowhere ELSE from + i - 1
           tracks == [i \in 1 .. Len(page) |-> ProvidedTrack(s, page[i], by, place(i))]
<1>1. Len(page) \in Nat /\ \A i \in 1 .. Len(page) : place(i) \in Places
  BY DEF Places, Nowhere
<1>2. ASSUME NEW i \in 1 .. Len(page)
      PROVE  ProvidedTrack(s, page[i], by, place(i)) \in Tracks
             /\ ProvidedTrack(s, page[i], by, place(i)).at = place(i)
  <2> HIDE DEF place
  <2> QED
    BY <1>1, TracksAre, PageUris
<1>3. tracks \in [1 .. Len(page) -> Tracks]
  <2> HIDE DEF place
  <2> QED
    BY <1>2, Zenon
<1>4. tracks \in Seq(Tracks) /\ Len(tracks) = Len(page) /\ DOMAIN tracks = 1 .. Len(page)
  <2> HIDE DEF tracks
  <2> QED
    BY <1>1, <1>3, FunctionList
<1>5. \A i \in 1 .. Len(page) : tracks[i].at = place(i)
  <2> HIDE DEF place
  <2> QED
    BY <1>2
<1>6. c = [NoContext EXCEPT !.index = 0, !.tracks = tracks]
  BY Zenon DEF ContextFromPage
<1>7. /\ c.index = 0 /\ c.initial = "none" /\ c.tracks = tracks /\ c.swaps = <<>> /\ c.first = Nowhere
      /\ c \in Contexts
  <2> HIDE DEF tracks, c
  <2>1. c = [tracks |-> tracks, swaps |-> <<>>, first |-> Nowhere, initial |-> "none", index |-> 0]
    BY <1>6 DEF NoContext
  <2>2. <<>> \in Seq(Nat) /\ Nowhere \in Places /\ 0 \in Places /\ "none" \in Names
    BY DEF Places, Names
  <2> QED
    BY <1>4, <2>1, <2>2 DEF Contexts
<1>8. ASSUME from = 0 PROVE c \in WholeContexts
  <2> HIDE DEF c
  <2>1. \A i \in DOMAIN tracks : tracks[i].at = i - 1
    BY <1>4, <1>5, <1>8 DEF Nowhere
  <2> HIDE DEF tracks
  <2>2. {tracks[i].at : i \in DOMAIN tracks} = 0 .. Len(tracks) - 1
    <3>1. \A i \in DOMAIN tracks : tracks[i].at \in 0 .. Len(tracks) - 1
      BY <1>1, <1>4, <2>1
    <3>2. ASSUME NEW k \in 0 .. Len(tracks) - 1 PROVE \E i \in DOMAIN tracks : tracks[i].at = k
      <4>1. k + 1 \in DOMAIN tracks /\ (k + 1) - 1 = k
        BY <1>1, <1>4
      <4> QED
        BY <2>1, <4>1
    <3>3. {tracks[i].at : i \in DOMAIN tracks} \subseteq 0 .. Len(tracks) - 1
      BY <3>1, Zenon
    <3>4. 0 .. Len(tracks) - 1 \subseteq {tracks[i].at : i \in DOMAIN tracks}
      BY <3>2, Zenon
    <3> QED
      BY <3>3, <3>4, Zenon
  <2> QED
    BY <1>7, <2>2 DEF WholeContexts, Fits, Numbered
<1> HIDE DEF c, tracks
<1>9. from # Nowhere => \A i \in 1 .. Len(page) : c.tracks[i].at = from + i - 1
  BY <1>5, <1>7
<1> QED
  BY <1>4, <1>7, <1>8, <1>9 DEF c

USE Limits

\* The newest of the tracks fit into the list, and the last is among them.
LEMMA NewestIs ==
  ASSUME NEW q \in Seq(Tracks), NEW n \in Nat
  PROVE  /\ Newest(q, n) \in Seq(Tracks) /\ Len(Newest(q, n)) \in 0 .. n
         /\ Len(q) <= n => Newest(q, n) = q
BY DEF Newest

\* What is too much is left out.
LEMMA CappedIs ==
  ASSUME NEW q \in Seq(Tracks)
  PROVE  Capped(q) \in Seq(Tracks) /\ Len(Capped(q)) \in 0 .. MaxNext
BY DEF Capped

\* The queued tracks at the head of a list are a part of it.
LEMMA QueuePrefixIs ==
  ASSUME NEW q \in Seq(Tracks)
  PROVE  QueuePrefix(q) \in Seq(Tracks) /\ Len(QueuePrefix(q)) \in 0 .. Len(q)
<1> DEFINE T == {i \in DOMAIN q : \A j \in 1 .. i : IsQueue(q[j])}
<1>1. T \subseteq 1 .. Len(q) /\ Len(q) \in Nat
  OBVIOUS
<1>2. IsFiniteSet(1 .. Len(q)) /\ Cardinality(1 .. Len(q)) = Len(q)
  <2> DEFINE n == Len(q)
  <2>1. n \in Nat /\ 1 \in Int /\ n \in Int
    BY <1>1
  <2> HIDE DEF n
  <2>2. IsFiniteSet(1 .. n) /\ Cardinality(1 .. n) = IF 1 > n THEN 0 ELSE n - 1 + 1
    BY <2>1, FS_Interval
  <2>3. IsFiniteSet(1 .. n) /\ Cardinality(1 .. n) = n
    BY <2>1, <2>2
  <2> QED
    BY <2>3 DEF n
<1>3. IsFiniteSet(T) /\ Cardinality(T) <= Len(q)
  BY <1>1, <1>2, FS_Subset
<1>4. Cardinality(T) \in 0 .. Len(q)
  BY <1>1, <1>3, FS_CardinalityType
<1>5. QueuePrefix(q) = SubSeq(q, 1, Cardinality(T))
  BY DEF QueuePrefix
<1> HIDE DEF T
<1> QED
  BY <1>4, <1>5

-----------------------------------------------------------------------------
(* Small steps *)

\* The lists may be set to any that are short enough.
LEMMA PrevSet ==
  ASSUME NEW s \in Sound, NEW p \in Seq(Tracks), Len(p) <= PrevLimit
  PROVE  [s EXCEPT !.prev = p] \in Sound /\ [s EXCEPT !.prev = p].prev = p
BY DEF Sound, States

LEMMA NextSet ==
  ASSUME NEW s \in Sound, NEW q \in Seq(Tracks), Len(q) <= NextLimit
  PROVE  [s EXCEPT !.next = q] \in Sound /\ [s EXCEPT !.next = q].next = q
BY DEF Sound, States

\* Clearing leaves the queued tracks in the list.
LEMMA ClearSound ==
  ASSUME NEW s \in Sound
  PROVE  /\ ClearNextTracks(s) \in Sound
         /\ ClearNextTracks(s).track = s.track /\ ClearNextTracks(s).prev = s.prev
         /\ ClearNextTracks(s).index = s.index /\ ClearNextTracks(s).active = s.active
         /\ ClearNextTracks(s).fill = s.fill /\ ClearNextTracks(s).ctx = s.ctx /\ ClearNextTracks(s).ok = s.ok
<1>1. s.next \in Seq(Tracks) /\ Len(s.next) \in 0 .. NextLimit
  BY SoundFields
<1>2. QueuePrefix(s.next) \in Seq(Tracks) /\ Len(QueuePrefix(s.next)) <= NextLimit
  BY <1>1, QueuePrefixIs
<1> QED
  BY <1>2 DEF ClearNextTracks, Sound, States

\* What a client may not do is not part of what is played.
LEMMA RestrictionsSound ==
  ASSUME NEW s \in Sound
  PROVE  /\ UpdateRestrictions(s) \in Sound
         /\ Alike(UpdateRestrictions(s), s) /\ UpdateRestrictions(s).ctx = s.ctx
BY DEF UpdateRestrictions, Sound, States, Alike

\* Another context becomes the active one.
LEMMA ActiveSound ==
  ASSUME NEW s \in Sound, NEW ty \in Kinds
  PROVE  SetActiveContext(s, ty) \in Sound
BY DEF SetActiveContext, Sound, States

\* The list has room for one more.
LEMMA PushSound ==
  ASSUME NEW s \in Sound, NEW t \in Tracks, Len(s.next) < MaxNext
  PROVE  Push(s, t) \in Sound
<1>1. s.next \in Seq(Tracks) /\ Len(s.next) \in 0 .. NextLimit
  BY SoundFields
<1> DEFINE q == Append(s.next, t)
<1>2. q \in Seq(Tracks) /\ Len(q) <= NextLimit
  BY <1>1
<1>3. Push(s, t) = [s EXCEPT !.next = q]
  BY DEF Push
<1> HIDE DEF q
<1> QED
  BY <1>2, <1>3 DEF Sound, States

\* The oldest of the previous tracks makes room for a new one.
LEMMA PushPrevSound ==
  ASSUME NEW s \in Sound, NEW t \in Tracks
  PROVE  PushPrev(s, t) \in Sound /\ Last(PushPrev(s, t).prev) = t /\ Len(PushPrev(s, t).prev) >= 1
<1> DEFINE p == Append(IF Len(s.prev) >= MaxPrev THEN Tail(s.prev) ELSE s.prev, t)
<1>1. s.prev \in Seq(Tracks) /\ Len(s.prev) \in 0 .. PrevLimit
  BY SoundFields
<1>2. p \in Seq(Tracks) /\ Len(p) \in 1 .. PrevLimit /\ p[Len(p)] = t
  <2>1. CASE Len(s.prev) >= MaxPrev
    BY <1>1, <2>1
  <2>2. CASE Len(s.prev) < MaxPrev
    BY <1>1, <2>2
  <2> QED
    BY <1>1, <2>1, <2>2
<1>3. PushPrev(s, t) = [s EXCEPT !.prev = p]
  BY DEF PushPrev
<1> HIDE DEF p
<1>4. PushPrev(s, t) \in Sound /\ PushPrev(s, t).prev = p
  BY <1>2, <1>3, PrevSet
<1> QED
  BY <1>2, <1>4 DEF Last

-----------------------------------------------------------------------------
(* Filling the list up *)

\* What filling the list up leaves alone: what plays, what was played, and the
\* tracks of the contexts.
Filled(s) ==
  {r \in Sound : /\ r.track = s.track /\ r.prev = s.prev /\ r.index = s.index /\ r.active = s.active /\ r.ok = s.ok
                 /\ \A k \in Kinds : /\ r.ctx[k].tracks = s.ctx[k].tracks
                                     /\ r.ctx[k].index = Nowhere <=> s.ctx[k].index = Nowhere}

\* The states of the loop: it goes on in a context that there is.
Filling(s) ==
  {w \in [s : Filled(s), i : Nat, round : Nat] : w.s.ctx[w.s.fill].index # Nowhere}

\* A state that differs in the next tracks from a filled one is one.
LEMMA FilledPush ==
  ASSUME NEW s \in Sound, NEW r \in Filled(s), NEW t \in Tracks, Len(r.next) < MaxNext
  PROVE  Push(r, t) \in Filled(s) /\ Push(r, t).fill = r.fill /\ Push(r, t).ctx = r.ctx
<1>1. r \in Sound
  BY DEF Filled
<1>2. Push(r, t) \in Sound
  BY <1>1, PushSound
<1>3. /\ Push(r, t).track = r.track /\ Push(r, t).prev = r.prev /\ Push(r, t).index = r.index
      /\ Push(r, t).active = r.active /\ Push(r, t).ok = r.ok /\ Push(r, t).fill = r.fill /\ Push(r, t).ctx = r.ctx
  BY <1>1 DEF Push, Sound, States
<1> QED
  BY <1>2, <1>3 DEF Filled

\* So is one that differs in where to go on.
LEMMA FilledIndex ==
  ASSUME NEW s \in Sound, NEW r \in Filled(s), NEW k \in Kinds, NEW i \in Nat, r.ctx[k].index # Nowhere
  PROVE  /\ SetIndex(r, k, i) \in Filled(s)
         /\ SetIndex(r, k, i).fill = r.fill /\ SetIndex(r, k, i).next = r.next
         /\ \A j \in Kinds : SetIndex(r, k, i).ctx[j].index = IF j = k THEN i ELSE r.ctx[j].index
<1>1. r \in Sound
  BY DEF Filled
<1>2. i \in Places /\ i # Nowhere
  BY DEF Places, Nowhere
<1>3. /\ SetIndex(r, k, i) \in Sound
      /\ Alike(SetIndex(r, k, i), r)
      /\ \A j \in Kinds : /\ SetIndex(r, k, i).ctx[j].tracks = r.ctx[j].tracks
                          /\ SetIndex(r, k, i).ctx[j].index = IF j = k THEN i ELSE r.ctx[j].index
  BY <1>1, <1>2, IndexSet
<1> DEFINE x == SetIndex(r, k, i)
<1> HIDE DEF x
<1>4. /\ x.track = r.track /\ x.prev = r.prev /\ x.index = r.index
      /\ x.active = r.active /\ x.ok = r.ok /\ x.fill = r.fill /\ x.next = r.next
  BY <1>3 DEF Alike, x
<1>5. \A j \in Kinds : x.ctx[j].tracks = r.ctx[j].tracks /\ (x.ctx[j].index = Nowhere <=> r.ctx[j].index = Nowhere)
  BY <1>2, <1>3 DEF x
<1>6. x \in Sound
  BY <1>3 DEF x
<1>7. x \in Filled(s)
  BY <1>4, <1>5, <1>6 DEF Filled
<1> QED
  BY <1>3, <1>4, <1>7 DEF x

\* So is one that goes on in another context.
LEMMA FilledFill ==
  ASSUME NEW s \in Sound, NEW r \in Filled(s), NEW k \in Kinds
  PROVE  /\ [r EXCEPT !.fill = k] \in Filled(s) /\ [r EXCEPT !.fill = k].fill = k
         /\ [r EXCEPT !.fill = k].next = r.next /\ [r EXCEPT !.fill = k].ctx = r.ctx
<1>1. r \in Sound
  BY DEF Filled
<1> DEFINE x == [r EXCEPT !.fill = k]
<1>2. /\ x \in Sound /\ x.fill = k /\ x.next = r.next /\ x.ctx = r.ctx
      /\ x.track = r.track /\ x.prev = r.prev /\ x.index = r.index /\ x.active = r.active /\ x.ok = r.ok
  BY <1>1 DEF Sound, States
<1> HIDE DEF x
<1>3. x \in Filled(s)
  BY <1>2 DEF Filled
<1> QED
  BY <1>2, <1>3 DEF x

\* A turn leads from one state of the loop to another.
LEMMA TurnFills ==
  ASSUME NEW s \in Sound, NEW w \in Filling(s)
  PROVE  FillTurn(w) \in Filling(s)
<1> DEFINE r == w.s
           tracks == r.ctx[r.fill].tracks
           skipped == tracks[w.i + 1].by = "unavailable" \/ IsSkipTrack(r, tracks[w.i + 1], w.round)
<1>1. /\ w \in [s : Filled(s), i : Nat, round : Nat] /\ r \in Filled(s) /\ w.i \in Nat /\ w.round \in Nat
      /\ r.ctx[r.fill].index # Nowhere
  BY DEF Filling
<1>2. r \in Sound
  BY <1>1 DEF Filled
<1>3. /\ r.fill \in Kinds /\ r.ctx \in [Kinds -> Contexts] /\ Len(r.next) \in 0 .. NextLimit /\ r.context \in BOOLEAN
      /\ tracks \in Seq(Tracks)
  BY <1>2, SoundFields DEF Contexts
<1>4. CASE Len(r.next) >= MaxNext
  <2>1. ~ (Len(r.next) < MaxNext)
    BY <1>3, <1>4
  <2>2. FillTurn(w) = w
    BY <1>4, <2>1, Zenon DEF FillTurn
  <2> QED
    BY <2>2
<1>5. CASE Len(r.next) < MaxNext /\ w.i < Len(tracks)
  <2>1. ~ (Len(r.next) >= MaxNext) /\ ~ (w.i >= Len(tracks))
    BY <1>1, <1>3, <1>5
  <2> DEFINE x == IF skipped THEN r ELSE Push(r, tracks[w.i + 1])
  <2>2. FillTurn(w) = [w EXCEPT !.s = x, !.i = @ + 1]
    BY <1>5, <2>1, Zenon DEF FillTurn
  <2>3. tracks[w.i + 1] \in Tracks
    BY <1>1, <1>3, <1>5
  <2> HIDE DEF skipped
  <2>4. Push(r, tracks[w.i + 1]) \in Filled(s) /\ Push(r, tracks[w.i + 1]).fill = r.fill /\ Push(r, tracks[w.i + 1]).ctx = r.ctx
    BY <1>1, <1>5, <2>3, FilledPush
  <2>5. x \in Filled(s) /\ x.fill = r.fill /\ x.ctx = r.ctx
    BY <1>1, <2>4
  <2> HIDE DEF x
  <2>6. /\ [w EXCEPT !.s = x, !.i = @ + 1] \in [s : Filled(s), i : Nat, round : Nat]
        /\ [w EXCEPT !.s = x, !.i = @ + 1].s = x
    <3>1. w.i + 1 \in Nat
      BY <1>1
    <3>2. [w EXCEPT !.s = x, !.i = @ + 1] = [w EXCEPT !.s = x, !.i = w.i + 1]
      BY <1>1
    <3>3. /\ [w EXCEPT !.s = x, !.i = w.i + 1] \in [s : Filled(s), i : Nat, round : Nat]
          /\ [w EXCEPT !.s = x, !.i = w.i + 1].s = x
      BY <1>1, <2>5, <3>1
    <3> QED
      BY <3>2, <3>3
  <2> QED
    BY <1>1, <2>2, <2>5, <2>6 DEF Filling
<1>6. CASE Len(r.next) < MaxNext /\ w.i >= Len(tracks) /\ r.context
  <2>1. ~ (Len(r.next) >= MaxNext) /\ ~ (w.i < Len(tracks))
    BY <1>1, <1>3, <1>6
  <2>2. FillTurn(w) = [s |-> Push(r, Delimiter), i |-> 0, round |-> w.round + 1]
    BY <1>6, <2>1, Zenon DEF FillTurn
  <2>3. Push(r, Delimiter) \in Filled(s) /\ Push(r, Delimiter).fill = r.fill /\ Push(r, Delimiter).ctx = r.ctx
    BY <1>1, <1>6, TracksAre, FilledPush
  <2> DEFINE x == Push(r, Delimiter)
  <2> HIDE DEF x
  <2>4. [s |-> x, i |-> 0, round |-> w.round + 1] \in [s : Filled(s), i : Nat, round : Nat]
    BY <1>1, <2>3 DEF x
  <2> QED
    BY <1>1, <2>2, <2>3, <2>4 DEF Filling, x
<1>7. CASE Len(r.next) < MaxNext /\ w.i >= Len(tracks) /\ ~ r.context
  <2>1. ~ (Len(r.next) >= MaxNext) /\ ~ (w.i < Len(tracks))
    BY <1>1, <1>3, <1>7
  <2> DEFINE enters == r.fill = "Default" /\ HasContext(r, "Autoplay")
             y == SetIndex(r, "Default", w.i)
             z == [y EXCEPT !.fill = "Autoplay"]
             x == Push(z, Delimiter)
  <2>2. FillTurn(w) = IF enters THEN [w EXCEPT !.s = x, !.i = r.ctx["Autoplay"].index] ELSE w
    BY <1>7, <2>1, Zenon DEF FillTurn
  <2>3. CASE ~ enters
    BY <2>2, <2>3
  <2>4. CASE enters
    <3>1. r.ctx["Autoplay"].index \in Nat
      BY <1>3, <2>4 DEF HasContext, Contexts, Places, Kinds
    <3>2. /\ y \in Filled(s) /\ y.next = r.next
          /\ y.ctx["Autoplay"].index = r.ctx["Autoplay"].index
      BY <1>1, <2>4, FilledIndex DEF Kinds
    <3> HIDE DEF y
    <3>3. z \in Filled(s) /\ z.fill = "Autoplay" /\ z.next = r.next /\ z.ctx = y.ctx
      BY <3>2, FilledFill DEF Kinds
    <3> HIDE DEF z
    <3>4. x \in Filled(s) /\ x.fill = "Autoplay" /\ x.ctx = y.ctx
      BY <1>7, <3>3, TracksAre, FilledPush
    <3> HIDE DEF x
    <3>5. x.ctx[x.fill].index # Nowhere
      BY <2>4, <3>2, <3>4 DEF HasContext
    <3>6. /\ [w EXCEPT !.s = x, !.i = r.ctx["Autoplay"].index] \in [s : Filled(s), i : Nat, round : Nat]
          /\ [w EXCEPT !.s = x, !.i = r.ctx["Autoplay"].index].s = x
      BY <1>1, <3>1, <3>4
    <3> QED
      BY <2>2, <2>4, <3>5, <3>6 DEF Filling
  <2> QED
    BY <2>3, <2>4
<1> QED
  BY <1>1, <1>3, <1>4, <1>5, <1>6, <1>7

\* There are turns.
LEMMA TurnsAre ==
  ASSUME NEW s \in Sound
  PROVE  Turns(s) \in Nat
<1>1. s.ctx["Default"].tracks \in Seq(Tracks) /\ s.ctx["Autoplay"].tracks \in Seq(Tracks)
  BY SoundFields DEF Contexts, Kinds
<1> DEFINE a == IF s.context /\ Len(s.next) < MaxNext THEN MaxNext - Len(s.next) ELSE 1
           b == Len(s.ctx["Default"].tracks) + Len(s.ctx["Autoplay"].tracks) + 1
<1>2. a \in Nat
  <2> DEFINE n == Len(s.next)
  <2>1. n \in 0 .. NextLimit
    BY SoundFields
  <2> HIDE DEF n
  <2>2. n < MaxNext => MaxNext - n \in Nat
    BY <2>1, Bounds
  <2> QED
    BY <2>2 DEF n
<1>3. b \in Nat
  <2> DEFINE d == Len(s.ctx["Default"].tracks)
             e == Len(s.ctx["Autoplay"].tracks)
  <2>1. d \in Nat /\ e \in Nat
    BY <1>1
  <2> HIDE DEF d, e
  <2>2. d + e + 1 \in Nat
    BY <2>1
  <2> QED
    BY <2>2 DEF d, e
<1>4. Turns(s) = a * b
  BY DEF Turns
<1> HIDE DEF a, b
<1> QED
  BY <1>2, <1>3, <1>4

\* Filling the list up leaves what plays, what was played and the contexts
\* alone, and is an error only where there is no context to fill it from.
LEMMA FillUpSound ==
  ASSUME NEW s \in Sound
  PROVE  /\ s.ctx[s.fill].index # Nowhere =>
              /\ FillUpNextTracks(s) \in Filled(s)
              /\ FillUpNextTracks(s).ctx[FillUpNextTracks(s).fill].index # Nowhere
         /\ s.ctx[s.fill].index = Nowhere => FillUpNextTracks(s) = Fail(s)
         /\ FillUpNextTracks(s) \in Sound
<1>1. s.fill \in Kinds /\ s.ctx \in [Kinds -> Contexts] /\ Fail(s) \in Sound
  BY SoundFields, FailSound
<1>2. CASE s.ctx[s.fill].index = Nowhere
  <2>1. FillUpNextTracks(s) = Fail(s)
    BY <1>2, Zenon DEF FillUpNextTracks, HasContext
  <2> QED
    BY <1>1, <1>2, <2>1
<1>3. CASE s.ctx[s.fill].index # Nowhere
  <2> DEFINE n == Turns(s)
             x == [s |-> s, i |-> s.ctx[s.fill].index, round |-> 0]
             step == [k \in 1 .. n |-> [w \in Filling(s) |-> FillTurn(w)]]
             Runs(f) == f = [k \in 0 .. n |-> IF k = 0 THEN x ELSE FillTurn(f[k - 1])]
  <2>1. n \in Nat
    BY TurnsAre
  <2>2. x \in Filling(s)
    <3>1. s.ctx[s.fill].index \in Nat
      BY <1>1, <1>3 DEF Contexts, Places
    <3>2. s \in Filled(s)
      BY DEF Filled
    <3> QED
      BY <1>3, <3>1, <3>2 DEF Filling
  <2>3. step \in [1 .. n -> [Filling(s) -> Filling(s)]]
    BY TurnFills
  <2>4. Loops(Filling(s), x, n, step)
    <3> HIDE DEF step, n, x
    <3> QED
      BY <2>1, <2>2, <2>3, Iterated
  <2>5. PICK f \in [0 .. n -> Filling(s)] : f[0] = x /\ \A k \in 1 .. n : f[k] = step[k][f[k - 1]]
    BY <2>4 DEF Loops
  <2>6. ASSUME NEW k \in 1 .. n PROVE f[k] = FillTurn(f[k - 1])
    <3>1. f[k - 1] \in Filling(s)
      <4> HIDE DEF n
      <4> QED
        BY <2>1
    <3> QED
      BY <2>5, <3>1
  <2>7. Runs(f)
    <3> HIDE DEF n, x
    <3> QED
      BY <2>1, <2>5, <2>6
  <2>8. Runs(CHOOSE g : Runs(g))
    <3> HIDE DEF Runs
    <3> QED
      BY <2>7
  <2> DEFINE h == CHOOSE g : Runs(g)
  <2>9. FillUpNextTracks(s) = SetIndex(h[n].s, h[n].s.fill, h[n].i)
    BY <1>3, Zenon DEF FillUpNextTracks, HasContext
  <2>10. h = [k \in 0 .. n |-> IF k = 0 THEN x ELSE FillTurn(h[k - 1])]
    BY <2>8
  <2> HIDE DEF h
  <2>11. h[0] = x /\ \A k \in 1 .. n : h[k] = FillTurn(h[k - 1])
    <3> HIDE DEF n, x
    <3> QED
      BY <2>1, <2>10
  <2>12. \A k \in 1 .. n : h[k - 1] \in Filling(s) => h[k] \in Filling(s)
    BY <2>11, TurnFills
  <2>13. h[n] \in Filling(s)
    <3> HIDE DEF n, x
    <3>1. \A k \in 0 .. n : h[k] \in Filling(s)
      BY <2>1, <2>2, <2>11, <2>12, Stays
    <3> QED
      BY <2>1, <3>1
  <2> DEFINE w == h[n]
  <2> HIDE DEF w, n
  <2>14. w.s \in Filled(s) /\ w.i \in Nat /\ w.s.ctx[w.s.fill].index # Nowhere
    BY <2>13 DEF Filling, w
  <2>15. w.s.fill \in Kinds
    BY <2>14, SoundFields DEF Filled
  <2>16. /\ SetIndex(w.s, w.s.fill, w.i) \in Filled(s)
         /\ SetIndex(w.s, w.s.fill, w.i).fill = w.s.fill
         /\ SetIndex(w.s, w.s.fill, w.i).ctx[w.s.fill].index = w.i
    BY <2>14, <2>15, FilledIndex
  <2>17. FillUpNextTracks(s) = SetIndex(w.s, w.s.fill, w.i)
    BY <2>9 DEF w
  <2> QED
    BY <1>3, <2>14, <2>16, <2>17 DEF Filled, Nowhere
<1> QED
  BY <1>2, <1>3

-----------------------------------------------------------------------------
(* Where to play from *)

\* The current track is one of the active context.
LEMMA CurrentSound ==
  ASSUME NEW s \in Sound, NEW i \in Nat
  PROVE  /\ SetCurrentTrack(s, i) \in Sound
         /\ SetCurrentTrack(s, i).active = s.active /\ SetCurrentTrack(s, i).ctx = s.ctx
         /\ SetCurrentTrack(s, i).fill = s.fill
         /\ \/ SetCurrentTrack(s, i).track = s.track
            \/ /\ i < Len(s.ctx[s.active].tracks)
               /\ SetCurrentTrack(s, i).track = s.ctx[s.active].tracks[i + 1]
<1> DEFINE tracks == s.ctx[s.active].tracks
<1>1. tracks \in Seq(Tracks)
  BY SoundFields DEF Contexts
<1>2. CASE i < Len(tracks)
  <2> DEFINE t == tracks[i + 1]
  <2>1. t \in Tracks /\ i \in Places
    BY <1>1, <1>2 DEF Places
  <2>2. SetCurrentTrack(s, i) = [s EXCEPT !.track = t, !.index = i]
    BY <1>2, Zenon DEF SetCurrentTrack
  <2> HIDE DEF t
  <2>3. /\ [s EXCEPT !.track = t, !.index = i] \in Sound
        /\ [s EXCEPT !.track = t, !.index = i].active = s.active /\ [s EXCEPT !.track = t, !.index = i].ctx = s.ctx
        /\ [s EXCEPT !.track = t, !.index = i].track = t /\ [s EXCEPT !.track = t, !.index = i].fill = s.fill
    BY <2>1 DEF Sound, States
  <2> QED
    BY <1>2, <2>2, <2>3 DEF t
<1>3. CASE ~ (i < Len(tracks))
  <2>1. SetCurrentTrack(s, i) = Fail(s)
    BY <1>3, Zenon DEF SetCurrentTrack
  <2> QED
    BY <2>1, FailSound
<1> QED
  BY <1>2, <1>3

\* The same active context, and the same tracks in each.
SameContexts(s) ==
  {r \in Sound : r.active = s.active /\ \A k \in Kinds : r.ctx[k].tracks = s.ctx[k].tracks}

\* Playing from a position keeps the contexts; the track there becomes the
\* current one, unless the current one stays.
LEMMA ResetPlaybackSound ==
  ASSUME NEW s \in Sound, NEW i \in Nat
  PROVE  /\ ResetPlaybackToPosition(s, i) \in SameContexts(s)
         /\ \/ ResetPlaybackToPosition(s, i).track = s.track
            \/ /\ i < Len(s.ctx[s.active].tracks)
               /\ ResetPlaybackToPosition(s, i).track = s.ctx[s.active].tracks[i + 1]
<1> DEFINE here == [s EXCEPT !.index = i]
           from == [SetIndex(here, s.active, i + 1) EXCEPT !.fill = s.active]
           stays == IsQueue(s.track) \/ IsSkipTrack(s, s.track, 0)
           tracks == s.ctx[s.active].tracks
           before == IF i > Len(tracks) THEN <<>> ELSE Newest(SubSeq(tracks, 1, i), MaxPrev)
           a == IF stays THEN from ELSE SetCurrentTrack(from, i)
           c == ClearNextTracks([a EXCEPT !.prev = before])
           b == IF a.ok THEN FillUpNextTracks(c) ELSE a
           d == IF b.ok THEN UpdateRestrictions(b) ELSE b
           r == ResetPlaybackToPosition(s, i)
           Fine(x) == /\ x \in SameContexts(s)
                      /\ \/ x.track = s.track
                         \/ i < Len(tracks) /\ x.track = tracks[i + 1]
<1>1. r = IF ~ HasContext(s, s.active) THEN Fail(here) ELSE d
  BY Zenon DEF ResetPlaybackToPosition, Then
<1>2. s.active \in Kinds /\ i \in Places /\ i + 1 \in Places /\ tracks \in Seq(Tracks)
  BY SoundFields DEF Places, Contexts
<1>3. here \in Sound /\ here.track = s.track /\ here.active = s.active /\ here.ctx = s.ctx
  BY <1>2 DEF Sound, States
<1>4. Fine(Fail(here))
  <2> HIDE DEF here
  <2> QED
    BY <1>3, FailSound DEF SameContexts
<1>5. Fine(from)
  <2> DEFINE y == SetIndex(here, s.active, i + 1)
  <2>1. /\ y \in Sound /\ Alike(y, here)
        /\ \A k \in Kinds : y.ctx[k].tracks = s.ctx[k].tracks
    <3> HIDE DEF here
    <3> DEFINE j == i + 1
    <3>2. here \in Sound /\ s.active \in Kinds /\ j \in Places
      BY <1>2, <1>3
    <3>1. /\ SetIndex(here, s.active, i + 1) \in Sound
          /\ Alike(SetIndex(here, s.active, i + 1), here)
          /\ \A k \in Kinds : SetIndex(here, s.active, i + 1).ctx[k].tracks = here.ctx[k].tracks
      <4> HIDE DEF j
      <4>1. SetIndex(here, s.active, j) \in Sound
        BY <3>2, IndexSet
      <4>2. Alike(SetIndex(here, s.active, j), here)
        BY <3>2, IndexSet
      <4>3. \A k \in Kinds : SetIndex(here, s.active, j).ctx[k].tracks = here.ctx[k].tracks
        BY <3>2, IndexSet
      <4> QED
        BY <4>1, <4>2, <4>3 DEF j
    <3> QED
      BY <1>3, <3>1
  <2>2. y.track = s.track /\ y.active = s.active
    <3> HIDE DEF y
    <3> QED
      BY <1>3, <2>1 DEF Alike
  <2> HIDE DEF y
  <2>3. [y EXCEPT !.fill = s.active] \in Sound /\ [y EXCEPT !.fill = s.active].ctx = y.ctx
        /\ [y EXCEPT !.fill = s.active].track = y.track /\ [y EXCEPT !.fill = s.active].active = y.active
    BY <1>2, <2>1 DEF Sound, States
  <2> QED
    BY <2>1, <2>2, <2>3 DEF SameContexts, y
<1>6. Fine(a)
  <2>1. CASE stays
    BY <1>5, <2>1
  <2>2. CASE ~ stays
    <3> HIDE DEF from
    <3>1. from \in Sound /\ from.active = s.active /\ from.ctx[s.active].tracks = tracks
          /\ \A k \in Kinds : from.ctx[k].tracks = s.ctx[k].tracks
      BY <1>2, <1>5 DEF SameContexts
    <3> DEFINE x == SetCurrentTrack(from, i)
    <3> HIDE DEF x
    <3>2. /\ SetCurrentTrack(from, i) \in Sound
          /\ SetCurrentTrack(from, i).active = from.active /\ SetCurrentTrack(from, i).ctx = from.ctx
          /\ \/ SetCurrentTrack(from, i).track = from.track
             \/ /\ i < Len(from.ctx[from.active].tracks)
                /\ SetCurrentTrack(from, i).track = from.ctx[from.active].tracks[i + 1]
      BY <3>1, CurrentSound
    <3>3. Fine(x)
      <4>1. x \in Sound /\ x.active = s.active /\ x.ctx = from.ctx
            /\ (x.track = from.track \/ (i < Len(tracks) /\ x.track = tracks[i + 1]))
        BY <3>1, <3>2 DEF x
      <4> QED
        BY <1>5, <3>1, <4>1 DEF SameContexts
    <3> QED
      BY <2>2, <3>3 DEF x
  <2> QED
    BY <2>1, <2>2
<1> HIDE DEF a
<1>7. before \in Seq(Tracks) /\ Len(before) <= PrevLimit
  <2>1. CASE i > Len(tracks)
    BY <2>1
  <2>2. CASE ~ (i > Len(tracks))
    <3>1. SubSeq(tracks, 1, i) \in Seq(Tracks)
      BY <1>2, <2>2
    <3>2. before = Newest(SubSeq(tracks, 1, i), MaxPrev)
      BY <2>2
    <3> HIDE DEF before, tracks
    <3>3. Newest(SubSeq(tracks, 1, i), MaxPrev) \in Seq(Tracks) /\ Len(Newest(SubSeq(tracks, 1, i), MaxPrev)) \in 0 .. MaxPrev
      BY <3>1, NewestIs
    <3> QED
      BY <3>2, <3>3
  <2> QED
    BY <2>1, <2>2
<1> HIDE DEF before
<1>8. Fine(c)
  <2> DEFINE y == [a EXCEPT !.prev = before]
  <2>1. a \in Sound
    BY <1>6 DEF SameContexts
  <2>2. y \in Sound /\ y.track = a.track /\ y.active = a.active /\ y.ctx = a.ctx
    BY <1>7, <2>1 DEF Sound, States
  <2> HIDE DEF y
  <2> DEFINE x == ClearNextTracks(y)
  <2>3. x \in Sound /\ x.track = y.track /\ x.active = y.active /\ x.ctx = y.ctx
    BY <2>2, ClearSound
  <2>4. c = x
    BY DEF y
  <2> HIDE DEF c, x
  <2> QED
    BY <1>6, <2>2, <2>3, <2>4 DEF SameContexts
<1> HIDE DEF c
<1>9. Fine(FillUpNextTracks(c))
  <2> DEFINE x == FillUpNextTracks(c)
  <2>1. c \in Sound
    BY <1>8 DEF SameContexts
  <2>2. x \in Filled(c) \/ x = Fail(c)
    BY <2>1, FillUpSound
  <2>3. x \in Sound /\ x.track = c.track /\ x.active = c.active /\ \A k \in Kinds : x.ctx[k].tracks = c.ctx[k].tracks
    <3> HIDE DEF x
    <3> QED
      BY <2>1, <2>2, FailSound DEF Filled
  <2> HIDE DEF x
  <2>4. Fine(x)
    BY <1>8, <2>3 DEF SameContexts
  <2> QED
    BY <2>4 DEF x
<1>10. Fine(b)
  BY <1>6, <1>9
<1> HIDE DEF b
<1>11. Fine(UpdateRestrictions(b))
  <2> DEFINE x == UpdateRestrictions(b)
  <2>1. b \in Sound
    BY <1>10 DEF SameContexts
  <2>2. x \in Sound /\ Alike(x, b) /\ x.ctx = b.ctx
    BY <2>1, RestrictionsSound
  <2> HIDE DEF x
  <2>3. x.track = b.track /\ x.active = b.active
    BY <2>2 DEF Alike
  <2>4. Fine(x)
    BY <1>10, <2>2, <2>3 DEF SameContexts
  <2> QED
    BY <2>4 DEF x
<1>12. Fine(d)
  BY <1>10, <1>11
<1> HIDE DEF d, r, here
<1> QED
  BY <1>1, <1>4, <1>12 DEF r

\* A reset ends in the default context and keeps the lists.
LEMMA ResetContextSound ==
  ASSUME NEW s \in Sound, NEW how \in {"Completely", "DefaultIndex", "Same"}
  PROVE  /\ ResetContext(s, how) \in Sound
         /\ ResetContext(s, how).track = s.track /\ ResetContext(s, how).ok = s.ok
         /\ ResetContext(s, how).active = "Default" /\ ResetContext(s, how).fill = "Default"
<1> DEFINE u == [Unshuffled(s.ctx["Default"]) EXCEPT !.initial = "none"]
           plain == [s EXCEPT !.ctx["Default"] = u]
           Rewound(c) == IF c.index = Nowhere THEN c ELSE [c EXCEPT !.index = 0]
           empty == [plain EXCEPT !.ctx = New.ctx, !.uri = "none"]
           again == [plain EXCEPT !.ctx = [k \in Kinds |-> Rewound(plain.ctx[k])]]
           Fine(x) == x \in Sound /\ x.track = s.track /\ x.ok = s.ok
           Ends(x) == UpdateRestrictions(SetActiveContext([x EXCEPT !.fill = "Default"], "Default"))
<1>1. s.ctx \in [Kinds -> Contexts] /\ s.ctx["Default"] \in WholeContexts /\ "Default" \in Kinds /\ "Autoplay" \in Kinds
  BY SoundFields DEF Kinds
<1>2. u \in WholeContexts /\ u \in Contexts
  <2>1. Unshuffled(s.ctx["Default"]) \in WholeContexts
    BY <1>1, UnshuffledWhole
  <2>2. Unshuffled(s.ctx["Default"]) \in Contexts /\ "none" \in Names
    BY <2>1 DEF WholeContexts, Names
  <2>3. u \in WholeContexts
    BY <2>1, <2>2, ContextInitial
  <2> QED
    BY <2>3 DEF WholeContexts
<1> HIDE DEF u
<1>3. Fine(plain) /\ plain.ctx \in [Kinds -> Contexts] /\ plain.ctx["Default"] \in WholeContexts
  <2>1. plain \in Sound
    BY <1>1, <1>2, ContextSet
  <2>2. plain.track = s.track /\ plain.ok = s.ok
    BY DEF Sound, States
  <2> QED
    BY <2>1, <2>2, SoundFields
<1> HIDE DEF plain
<1>4. Fine(empty)
  <2>1. New.ctx = [k \in Kinds |-> NoContext]
    BY DEF New
  <2>2. New.ctx \in [Kinds -> Contexts] /\ New.ctx["Default"] \in WholeContexts
    BY <1>1, <2>1, NoContextWhole DEF WholeContexts
  <2> DEFINE x == New.ctx
  <2> HIDE DEF x
  <2>3. x \in [Kinds -> Contexts] /\ x["Default"] \in WholeContexts
    BY <2>2 DEF x
  <2>4. Fine([plain EXCEPT !.ctx = x, !.uri = "none"])
    BY <1>3, <2>3 DEF Sound, States
  <2> QED
    BY <2>4 DEF x
<1>5. Fine(again)
  <2> DEFINE x == [k \in Kinds |-> Rewound(plain.ctx[k])]
  <2>1. ASSUME NEW c \in Contexts PROVE Rewound(c) \in Contexts /\ (c \in WholeContexts => Rewound(c) \in WholeContexts)
    <3>1. 0 \in Places
      BY DEF Places
    <3> QED
      BY <3>1, ContextIndex
  <2>2. x \in [Kinds -> Contexts] /\ x["Default"] \in WholeContexts
    <3> HIDE DEF Rewound
    <3> QED
      BY <1>1, <1>3, <2>1
  <2> HIDE DEF x
  <2>3. Fine([plain EXCEPT !.ctx = x])
    BY <1>3, <2>2 DEF Sound, States
  <2> QED
    BY <2>3 DEF x
<1> HIDE DEF empty, again
<1>6. ASSUME NEW x, Fine(x) PROVE Fine(Ends(x)) /\ Ends(x).active = "Default" /\ Ends(x).fill = "Default"
  <2> DEFINE y == SetActiveContext([x EXCEPT !.fill = "Default"], "Default")
  <2>1. y \in Sound /\ y.track = s.track /\ y.ok = s.ok /\ y.active = "Default" /\ y.fill = "Default"
    BY <1>1, <1>6 DEF SetActiveContext, Sound, States
  <2> HIDE DEF y
  <2>2. UpdateRestrictions(y) \in Sound /\ Alike(UpdateRestrictions(y), y)
    BY <2>1, RestrictionsSound
  <2> QED
    BY <2>1, <2>2 DEF Alike, y
<1>7. CASE how = "Completely"
  <2>1. ResetContext(s, how) = Ends(empty)
    BY <1>7 DEF ResetContext, empty, plain, u
  <2> HIDE DEF Ends
  <2> QED
    BY <1>4, <1>6, <2>1
<1>8. CASE how = "DefaultIndex"
  <2>1. ResetContext(s, how) = Ends(again)
    BY <1>8 DEF ResetContext, again, plain, u
  <2> HIDE DEF Ends
  <2> QED
    BY <1>5, <1>6, <2>1
<1>9. CASE how = "Same"
  <2>1. ResetContext(s, how) = Ends(plain)
    BY <1>9 DEF ResetContext, plain, u
  <2> HIDE DEF Ends
  <2> QED
    BY <1>3, <1>6, <2>1
<1> QED
  BY <1>7, <1>8, <1>9

\* A shuffle keeps the current track.
LEMMA ShuffleSound ==
  ASSUME NEW s \in Sound, NEW draw \in Draws, NEW initial \in Names
  PROVE  Shuffle(s, draw, initial) \in Sound /\ Shuffle(s, draw, initial).track = s.track
<1> DEFINE p == [s EXCEPT !.prev = <<>>]
           c == ClearNextTracks(p)
           reset == ResetContext(c, "DefaultIndex")
           d == [Shuffled(reset.ctx["Default"], draw, initial) EXCEPT !.initial = initial]
           y == [reset EXCEPT !.ctx["Default"] = d]
<1>1. p \in Sound /\ p.track = s.track
  <2>1. <<>> \in Seq(Tracks) /\ Len(<<>>) <= PrevLimit
    OBVIOUS
  <2>2. p \in Sound
    BY <2>1, PrevSet
  <2> QED
    BY <2>2 DEF Sound, States
<1> HIDE DEF p
<1>2. c \in Sound /\ c.track = s.track
  BY <1>1, ClearSound
<1> HIDE DEF c
<1>3. reset \in Sound /\ reset.track = s.track
  BY <1>2, ResetContextSound
<1> HIDE DEF reset
<1>4. CASE ~ HasContext(s, "Default")
  <2>1. Shuffle(s, draw, initial) = Fail(reset)
    BY <1>4, Zenon DEF Shuffle, reset, c, p
  <2> QED
    BY <1>3, <2>1, FailSound
<1>5. CASE HasContext(s, "Default")
  <2>1. Shuffle(s, draw, initial) = FillUpNextTracks(y)
    BY <1>5, Zenon DEF Shuffle, reset, c, p
  <2>2. d \in WholeContexts /\ d \in Contexts
    <3>1. reset.ctx["Default"] \in WholeContexts
      BY <1>3, SoundFields
    <3>2. Shuffled(reset.ctx["Default"], draw, initial) \in WholeContexts
      BY <3>1, ShuffledWhole
    <3>3. Shuffled(reset.ctx["Default"], draw, initial) \in Contexts
      BY <3>2 DEF WholeContexts
    <3>4. d \in WholeContexts
      BY <3>2, <3>3, ContextInitial
    <3> QED
      BY <3>4 DEF WholeContexts
  <2> HIDE DEF d
  <2>3. y \in Sound
    BY <1>3, <2>2, ContextSet DEF Kinds
  <2>4. y.track = s.track
    BY <1>3 DEF Sound, States
  <2> HIDE DEF y
  <2>5. FillUpNextTracks(y) \in Sound /\ (FillUpNextTracks(y) \in Filled(y) \/ FillUpNextTracks(y) = Fail(y))
    BY <2>3, FillUpSound
  <2> QED
    BY <2>1, <2>3, <2>4, <2>5, FailSound DEF Filled
<1> QED
  BY <1>4, <1>5

\* So does one that the restrictions may forbid.
LEMMA ShuffleNewSound ==
  ASSUME NEW s \in Sound, NEW draw \in Draws
  PROVE  ShuffleNew(s, draw) \in Sound /\ ShuffleNew(s, draw).track = s.track
<1>1. s.track.uri \in Names
  BY SoundFields DEF Tracks
<1> QED
  BY <1>1, ShuffleSound, FailSound DEF ShuffleNew

\* Stopping goes to the start of the active context.
LEMMA StopSound ==
  ASSUME NEW s \in Sound
  PROVE  HandleStop(s) \in Sound
<1>1. ClearNextTracks(s) \in Sound
  BY ClearSound
<1>2. ResetPlaybackToPosition(ClearNextTracks(s), 0) \in Sound
  BY <1>1, ResetPlaybackSound DEF SameContexts
<1> QED
  BY <1>2 DEF HandleStop, Sound, States

-----------------------------------------------------------------------------
(* On to the next track *)

\* So many delimiters in a row.
Delimiters(d) == [i \in 1 .. d |-> Delimiter]

\* The track that is left becomes a previous one, if it is of a context.
LEMMA ToPrevSound ==
  ASSUME NEW s \in Sound
  PROVE  /\ ToPrev(s) \in Sound
         /\ ToPrev(s).ctx = s.ctx /\ ToPrev(s).fill = s.fill /\ ToPrev(s).ok = s.ok /\ ToPrev(s).next = s.next
         /\ ToPrev(s).active = s.active
         /\ s.track.by \in {"context", "autoplay"} =>
              Len(ToPrev(s).prev) \in 1 .. PrevLimit /\ Last(ToPrev(s).prev) = s.track
<1>1. s.track \in Tracks
  BY SoundFields
<1>2. PushPrev(s, s.track) \in Sound /\ Last(PushPrev(s, s.track).prev) = s.track /\ Len(PushPrev(s, s.track).prev) >= 1
  BY <1>1, PushPrevSound
<1>3. Len(PushPrev(s, s.track).prev) \in 1 .. PrevLimit
  BY <1>2, SoundFields
<1>4. /\ PushPrev(s, s.track).ctx = s.ctx /\ PushPrev(s, s.track).fill = s.fill /\ PushPrev(s, s.track).ok = s.ok
      /\ PushPrev(s, s.track).next = s.next /\ PushPrev(s, s.track).active = s.active
  BY DEF PushPrev, Sound, States
<1> QED
  BY <1>2, <1>3, <1>4 DEF ToPrev

\* How many previous tracks there is room for.
Room(s) == IF Len(s.prev) > MaxPrev THEN Len(s.prev) ELSE MaxPrev

\* It is between the limit and what a client may have sent.
LEMMA RoomIs ==
  ASSUME NEW s \in Sound
  PROVE  Room(s) \in MaxPrev .. PrevLimit
<1> DEFINE n == Len(s.prev)
<1>1. n \in 0 .. PrevLimit
  BY SoundFields
<1> HIDE DEF n
<1>2. (IF n > MaxPrev THEN n ELSE MaxPrev) \in MaxPrev .. PrevLimit
  BY <1>1, Bounds
<1> QED
  BY <1>2 DEF Room, n

\* What cannot be played goes from the head of the list; what stands there
\* afterwards can.
LEMMA SkipHeadSound ==
  ASSUME NEW s \in Sound
  PROVE  /\ SkipHead(s) \in Sound
         /\ SkipHead(s).track = s.track /\ SkipHead(s).ctx = s.ctx /\ SkipHead(s).fill = s.fill
         /\ SkipHead(s).ok = s.ok /\ SkipHead(s).active = s.active
         /\ \E d \in Nat : SkipHead(s).prev = Newest(s.prev \o Delimiters(d), Room(s))
<1> DEFINE n == Len(s.next)
           Plays(t) == t # Delimiter /\ t.by # "unavailable"
           Is(i) == /\ i <= n => Plays(s.next[i])
                    /\ \A j \in 1 .. i - 1 : ~ Plays(s.next[j])
           first == CHOOSE i \in 1 .. n + 1 : Is(i)
           T == {i \in 1 .. first - 1 : s.next[i] = Delimiter}
           p == Newest(s.prev \o Delimiters(Cardinality(T)), Room(s))
           q == SubSeq(s.next, first, n)
<1>1. s.next \in Seq(Tracks) /\ s.prev \in Seq(Tracks) /\ n \in Nat /\ n <= NextLimit
  BY SoundFields
<1>2. \E i \in 1 .. n + 1 : Is(i)
  <2> DEFINE S == {i \in 1 .. n : Plays(s.next[i])}
  <2>1. CASE S = {}
    <3>0. ASSUME NEW j \in 1 .. n PROVE ~ Plays(s.next[j])
      <4> HIDE DEF Plays, n
      <4> QED
        BY <2>1
    <3>1. Is(n + 1) /\ n + 1 \in 1 .. n + 1
      <4> HIDE DEF Plays, n
      <4>1. n \in Nat /\ (n + 1) - 1 = n /\ ~ (n + 1 <= n)
        BY <1>1
      <4> QED
        BY <3>0, <4>1
    <3> HIDE DEF Is
    <3> QED
      BY <3>1
  <2>2. CASE S # {}
    <3>1. S \subseteq Nat
      OBVIOUS
    <3>2. PICK i \in S : \A j \in S : i <= j
      <4> HIDE DEF S
      <4> QED
        BY <2>2, <3>1, LeastNumber
    <3>3. i \in 1 .. n + 1 /\ Plays(s.next[i])
      <4> HIDE DEF Plays, n
      <4> QED
        BY <1>1
    <3>4. ASSUME NEW j \in 1 .. i - 1 PROVE ~ Plays(s.next[j])
      <4>1. j \in 1 .. n /\ ~ (i <= j)
        <5> HIDE DEF Plays, n
        <5> QED
          BY <1>1
      <4>2. j \notin S
        <5> HIDE DEF S
        <5> QED
          BY <3>2, <4>1
      <4> QED
        BY <4>1, <4>2
    <3>5. Is(i)
      <4> HIDE DEF Plays, n
      <4> QED
        BY <3>3, <3>4
    <3> HIDE DEF Is, S
    <3> QED
      BY <3>3, <3>5
  <2> QED
    BY <2>1, <2>2
<1>3. first \in 1 .. n + 1
  <2> HIDE DEF Is
  <2> QED
    BY <1>2
<1>4. SkipHead(s) = [s EXCEPT !.next = q, !.prev = p]
  BY Zenon DEF SkipHead, Delimiters, Room
<1> HIDE DEF first
<1>5. Cardinality(T) \in Nat
  <2> DEFINE m == first - 1
  <2>1. 1 \in Int /\ m \in Int
    BY <1>1, <1>3
  <2> HIDE DEF m
  <2>2. IsFiniteSet(1 .. m)
    BY <2>1, FS_Interval
  <2>3. T \subseteq 1 .. m
    BY DEF m
  <2> HIDE DEF T
  <2> QED
    BY <2>2, <2>3, FS_Subset, FS_CardinalityType
<1>6. p \in Seq(Tracks) /\ Len(p) <= PrevLimit
  <2> DEFINE d == Cardinality(T)
  <2> HIDE DEF T
  <2>1. d \in Nat
    BY <1>5
  <2> HIDE DEF d
  <2>2. Delimiters(d) \in Seq(Tracks)
    <3>1. Delimiters(d) \in [1 .. d -> Tracks]
      BY TracksAre DEF Delimiters
    <3> QED
      BY <2>1, <3>1, FunctionList
  <2>3. s.prev \o Delimiters(d) \in Seq(Tracks)
    BY <1>1, <2>2
  <2> DEFINE all == s.prev \o Delimiters(d)
  <2>5. all \in Seq(Tracks) /\ p = Newest(all, Room(s))
    BY <2>3 DEF d
  <2> HIDE DEF all, p
  <2> QED
    BY <2>5, NewestIs, RoomIs
<1>7. q \in Seq(Tracks) /\ Len(q) <= NextLimit
  <2> HIDE DEF n
  <2>1. n = Len(s.next)
    BY DEF n
  <2> QED
    BY <1>1, <1>3, <2>1
<1>8. \E d \in Nat : p = Newest(s.prev \o Delimiters(d), Room(s))
  BY <1>5
<1> HIDE DEF p, q
<1>9. /\ [s EXCEPT !.next = q, !.prev = p] \in Sound
      /\ [s EXCEPT !.next = q, !.prev = p].prev = p
      /\ [s EXCEPT !.next = q, !.prev = p].track = s.track
      /\ [s EXCEPT !.next = q, !.prev = p].ctx = s.ctx
      /\ [s EXCEPT !.next = q, !.prev = p].fill = s.fill
      /\ [s EXCEPT !.next = q, !.prev = p].ok = s.ok
      /\ [s EXCEPT !.next = q, !.prev = p].active = s.active
  BY <1>6, <1>7 DEF Sound, States
<1> QED
  BY <1>4, <1>8, <1>9

\* Another active context leaves the lists alone.
LEMMA ActiveKeeps ==
  ASSUME NEW s \in Sound, NEW ty \in Kinds
  PROVE  /\ SetActiveContext(s, ty) \in Sound
         /\ SetActiveContext(s, ty).track = s.track /\ SetActiveContext(s, ty).prev = s.prev
         /\ SetActiveContext(s, ty).next = s.next /\ SetActiveContext(s, ty).index = s.index
         /\ SetActiveContext(s, ty).ctx = s.ctx /\ SetActiveContext(s, ty).fill = s.fill
         /\ SetActiveContext(s, ty).ok = s.ok /\ SetActiveContext(s, ty).active = ty
BY DEF SetActiveContext, Sound, States

\* A track becomes the current one.
Entered(s, t, i) == UpdateRestrictions([s EXCEPT !.track = t, !.index = i])

\* A track that is entered, in the active context or in another one, changes
\* neither what was played before nor what the lists are filled from.
LEMMA EnterSound ==
  ASSUME NEW s \in Sound, NEW t \in Tracks, NEW i \in Places, NEW a, a = s \/ \E ty \in Kinds : a = SetActiveContext(s, ty)
  PROVE  /\ Entered(a, t, i) \in Sound /\ Entered(a, t, i).track = t
         /\ Entered(a, t, i).prev = s.prev /\ Entered(a, t, i).ctx = s.ctx
         /\ Entered(a, t, i).fill = s.fill /\ Entered(a, t, i).ok = s.ok
<1> DEFINE b == [a EXCEPT !.track = t, !.index = i]
<1>1. a \in Sound /\ a.prev = s.prev /\ a.ctx = s.ctx /\ a.fill = s.fill /\ a.ok = s.ok
  BY ActiveKeeps
<1>2. b \in Sound /\ b.track = t /\ b.prev = s.prev /\ b.ctx = s.ctx /\ b.fill = s.fill /\ b.ok = s.ok
  BY <1>1 DEF Sound, States
<1> HIDE DEF b
<1>3. /\ UpdateRestrictions(b) \in Sound /\ UpdateRestrictions(b).track = t /\ UpdateRestrictions(b).prev = s.prev
      /\ UpdateRestrictions(b).ctx = s.ctx /\ UpdateRestrictions(b).ok = s.ok
  BY <1>2, RestrictionsSound DEF Alike
<1>4. UpdateRestrictions(b).fill = s.fill
  BY <1>2, RestrictionsSound DEF Alike
<1> QED
  BY <1>3, <1>4 DEF b, Entered

\* The list is filled, and then the track is entered: that is how both steps,
\* to the next track and to the one before, end.
AfterFill(s, a, t, i) == IF FillUpNextTracks(s).ok THEN Entered(a, t, i) ELSE FillUpNextTracks(s)

\* The track that is entered is the current one, unless there was nothing to
\* fill the list from.
LEMMA FillThenEnter ==
  ASSUME NEW s \in Sound, NEW t \in Tracks, NEW i \in Places, NEW a,
         a = FillUpNextTracks(s) \/ \E ty \in Kinds : a = SetActiveContext(FillUpNextTracks(s), ty)
  PROVE  /\ AfterFill(s, a, t, i) \in Sound
         /\ AfterFill(s, a, t, i).ok =>
              /\ AfterFill(s, a, t, i).ctx[AfterFill(s, a, t, i).fill].index # Nowhere
              /\ AfterFill(s, a, t, i).prev = s.prev /\ AfterFill(s, a, t, i).track = t
         /\ s.ok /\ s.ctx[s.fill].index # Nowhere => AfterFill(s, a, t, i).ok
<1> DEFINE f == FillUpNextTracks(s)
           r == AfterFill(s, a, t, i)
           e == Entered(a, t, i)
<1>0. (f.ok => r = e) /\ (~ f.ok => r = f)
  BY DEF AfterFill
<1> HIDE DEF r
<1>1. f \in Sound
  BY FillUpSound
<1>2. e \in Sound /\ e.track = t /\ e.prev = f.prev /\ e.ctx = f.ctx /\ e.fill = f.fill /\ e.ok = f.ok
  BY <1>1, EnterSound
<1> HIDE DEF e, f
<1>3. CASE s.ctx[s.fill].index # Nowhere
  <2>1. f \in Filled(s) /\ f.ctx[f.fill].index # Nowhere
    BY <1>3, FillUpSound DEF f
  <2>2. f.prev = s.prev /\ f.ok = s.ok
    BY <2>1 DEF Filled
  <2> QED
    BY <1>0, <1>1, <1>2, <2>1, <2>2 DEF r
<1>4. CASE s.ctx[s.fill].index = Nowhere
  <2>1. f = Fail(s)
    BY <1>4, FillUpSound DEF f
  <2>2. f.ok = FALSE
    BY <2>1, FailSound
  <2> QED
    BY <1>0, <1>1, <1>4, <2>2 DEF r
<1> QED
  BY <1>3, <1>4

\* What a step to the next track leaves behind it: the track that was left, and
\* the delimiters that were passed.
LEMMA NextTrackSound ==
  ASSUME NEW s \in Sound
  PROVE  LET r == NextTrack(s)
         IN /\ r \in Sound
            /\ r.ok /\ r.track # NoTrack =>
                 /\ r.ctx[r.fill].index # Nowhere
                 /\ s.track.by \in {"context", "autoplay"} =>
                      \E p \in Seq(Tracks), d \in Nat :
                        /\ Len(p) \in 1 .. PrevLimit /\ Last(p) = s.track
                        /\ \E m \in MaxPrev .. PrevLimit : r.prev = Newest(p \o Delimiters(d), m)
<1> DEFINE u == [s EXCEPT !.repeat = FALSE]
           v == ToPrev(u)
           w == [v EXCEPT !.track = NoTrack]
           ready == SkipHead(w)
           new == Head(ready.next)
           rest == [ready EXCEPT !.next = Tail(@)]
           f == FillUpNextTracks(rest)
           a == IF new.by = "autoplay" THEN SetActiveContext(f, "Autoplay") ELSE f
           i == IF new.by \in {"queue", "autoplay"} THEN Nowhere ELSE new.at
           e == IF f.ok THEN Entered(a, new, i) ELSE f
           r == NextTrack(s)
<1>1. r = IF ready.next = <<>> THEN ready ELSE e
  BY Zenon DEF NextTrack, Then, Entered
<1>2. u \in Sound /\ u.track = s.track
  BY DEF Sound, States
<1> HIDE DEF u
<1>3. /\ v \in Sound
      /\ s.track.by \in {"context", "autoplay"} => Len(v.prev) \in 1 .. PrevLimit /\ Last(v.prev) = s.track
  BY <1>2, ToPrevSound
<1> HIDE DEF v
<1>4. w \in Sound /\ w.prev = v.prev /\ w.track = NoTrack
  BY <1>3, TracksAre DEF Sound, States
<1> HIDE DEF w
<1>5. /\ ready \in Sound /\ ready.track = NoTrack
      /\ \E d \in Nat : ready.prev = Newest(v.prev \o Delimiters(d), Room(v))
  <2>1. Room(w) = Room(v)
    BY <1>4 DEF Room
  <2> QED
    BY <1>4, <2>1, SkipHeadSound
<1> HIDE DEF ready
<1>6. CASE ready.next = <<>>
  BY <1>1, <1>5, <1>6
<1>7. CASE ready.next # <<>>
  <2>1. ready.next \in Seq(Tracks) /\ Len(ready.next) <= NextLimit
    BY <1>5, SoundFields
  <2>2. new \in Tracks /\ Tail(ready.next) \in Seq(Tracks) /\ Len(Tail(ready.next)) <= NextLimit
    BY <2>1, <1>7
  <2>3. rest \in Sound /\ rest.prev = ready.prev
    BY <1>5, <2>2 DEF Sound, States
  <2>4. i \in Places
    BY <2>2 DEF Tracks, Places, Nowhere
  <2>5. a = f \/ \E ty \in Kinds : a = SetActiveContext(f, ty)
    BY DEF Kinds
  <2>6. r = AfterFill(rest, a, new, i)
    BY <1>1, <1>7, Zenon DEF AfterFill
  <2> HIDE DEF r, a, i, new, rest, e
  <2>7. /\ r \in Sound
        /\ r.ok => r.ctx[r.fill].index # Nowhere /\ r.prev = rest.prev
    BY <2>2, <2>3, <2>4, <2>5, <2>6, FillThenEnter
  <2>8. v.prev \in Seq(Tracks)
    BY <1>3, SoundFields
  <2>9. ASSUME r.ok, s.track.by \in {"context", "autoplay"}
        PROVE  \E p \in Seq(Tracks), d \in Nat :
                 /\ Len(p) \in 1 .. PrevLimit /\ Last(p) = s.track
                 /\ \E m \in MaxPrev .. PrevLimit : r.prev = Newest(p \o Delimiters(d), m)
    <3>1. r.prev = ready.prev
      BY <2>3, <2>7, <2>9
    <3> QED
      BY <1>3, <1>5, <2>8, <2>9, <3>1, RoomIs, Zenon
  <2> QED
    BY <2>7, <2>9 DEF r
<1> QED
  BY <1>6, <1>7

\* The track to go back to: the last one that was played, over one delimiter.
Behind(s) == IF s.prev # <<>> /\ Last(s.prev) = Delimiter THEN Front(s.prev) ELSE s.prev

\* A step back leads to that track, if there are tracks to fill up with.
LEMMA PrevTrackSound ==
  ASSUME NEW s \in Sound
  PROVE  /\ PrevTrack(s) \in Sound
         /\ s.ok /\ s.ctx[s.fill].index # Nowhere /\ Behind(s) # <<>> => PrevTrack(s).track = Last(Behind(s))
<1> DEFINE back == IF s.track.by \in {"context", "autoplay"} THEN <<s.track>> \o s.next ELSE s.next
           overDelimiter == s.prev # <<>> /\ Last(s.prev) = Delimiter
           ahead == IF overDelimiter
                    THEN <<Delimiter>> \o (IF Len(back) >= MaxNext THEN Front(back) ELSE back)
                    ELSE back
           behind == Behind(s)
           q == Capped(ahead)
           moved == [s EXCEPT !.track = NoTrack, !.prev = behind, !.next = q]
           new == Last(behind)
           home == IF s.active = "Autoplay" /\ new.by = "context" THEN SetActiveContext(moved, "Default") ELSE moved
           rest == [home EXCEPT !.prev = Front(@)]
           f == FillUpNextTracks(rest)
           i == IndexBack(f.index)
           e == IF f.ok THEN Entered(f, new, i) ELSE f
           r == PrevTrack(s)
<1>1. r = IF behind = <<>> THEN moved ELSE e
  BY Zenon DEF PrevTrack, Then, Behind, Entered
<1>2. s.track \in Tracks /\ s.prev \in Seq(Tracks) /\ s.next \in Seq(Tracks) /\ Len(s.prev) <= PrevLimit
  BY SoundFields
<1>3. back \in Seq(Tracks)
  BY <1>2
<1>4. ahead \in Seq(Tracks)
  <2> HIDE DEF back
  <2>1. (IF Len(back) >= MaxNext THEN Front(back) ELSE back) \in Seq(Tracks)
    <3>1. CASE Len(back) >= MaxNext
      <4>1. Len(back) >= 1
        BY <1>3, <3>1
      <4> QED
        BY <1>3, <3>1, <4>1 DEF Front
    <3> QED
      BY <1>3, <3>1
  <2>2. <<Delimiter>> \in Seq(Tracks)
    BY TracksAre
  <2> QED
    BY <1>3, <2>1, <2>2
<1>5. q \in Seq(Tracks) /\ Len(q) <= NextLimit
  <2> HIDE DEF ahead
  <2> QED
    BY <1>4, CappedIs
<1> HIDE DEF q
<1>6. behind \in Seq(Tracks) /\ Len(behind) <= PrevLimit
  BY <1>2 DEF Behind, Front
<1> HIDE DEF behind
<1>7. moved \in Sound /\ moved.prev = behind /\ moved.ok = s.ok /\ moved.ctx = s.ctx /\ moved.fill = s.fill
  BY <1>5, <1>6, TracksAre DEF Sound, States
<1> HIDE DEF moved
<1>8. CASE behind = <<>>
  BY <1>1, <1>7, <1>8 DEF behind
<1>9. CASE behind # <<>>
  <2>1. home \in Sound /\ home.prev = behind /\ home.ok = s.ok /\ home.ctx = s.ctx /\ home.fill = s.fill
    BY <1>7, ActiveKeeps DEF Kinds
  <2> HIDE DEF home
  <2>2. Front(behind) \in Seq(Tracks) /\ Len(Front(behind)) <= PrevLimit /\ new \in Tracks
    BY <1>6, <1>9 DEF Front, Last
  <2>3. rest \in Sound /\ rest.ok = s.ok /\ rest.ctx = s.ctx /\ rest.fill = s.fill
    BY <2>1, <2>2 DEF Sound, States
  <2> HIDE DEF rest
  <2>4. f \in Sound
    BY <2>3, FillUpSound
  <2>5. i \in Places
    <3>1. f.index \in Places
      BY <2>4, SoundFields
    <3> HIDE DEF f
    <3> QED
      BY <3>1 DEF Places, Nowhere, IndexBack
  <2>6. r = AfterFill(rest, f, new, i)
    BY <1>1, <1>9, Zenon DEF AfterFill
  <2> HIDE DEF r, i, new, e
  <2>7. /\ r \in Sound
        /\ r.ok => r.track = new
        /\ rest.ok /\ rest.ctx[rest.fill].index # Nowhere => r.ok
    BY <2>2, <2>3, <2>5, <2>6, FillThenEnter
  <2> QED
    BY <2>3, <2>7 DEF r, new, behind
<1> QED
  BY <1>8, <1>9

\* The last of the newest tracks are the last of all, as many as fit.
LEMMA NewestLast ==
  ASSUME NEW q \in Seq(Tracks), NEW n \in Nat, NEW k \in 0 .. n - 1, k < Len(q)
  PROVE  k < Len(Newest(q, n)) /\ Newest(q, n)[Len(Newest(q, n)) - k] = q[Len(q) - k]
<1>1. CASE Len(q) > n
  <2> DEFINE m == Len(q) - n
             r == SubSeq(q, m + 1, Len(q))
  <2>1. Newest(q, n) = r
    BY <1>1 DEF Newest
  <2>5. m + 1 \in 1 .. Len(q) + 1 /\ Len(q) - (m + 1) + 1 = n /\ n - k \in 1 .. n
    BY <1>1
  <2>2. Len(r) = n /\ n - k \in 1 .. n /\ r[n - k] = q[m + (n - k)]
    <3>1. Len(r) = n
      BY <1>1, <2>5
    <3>2. \A i \in 1 .. n : r[i] = q[m + i]
      BY <1>1, <2>5
    <3> QED
      BY <2>5, <3>1, <3>2
  <2>3. m + (n - k) = Len(q) - k
    OBVIOUS
  <2> HIDE DEF r, m
  <2> QED
    BY <2>1, <2>2, <2>3
<1>2. CASE ~ (Len(q) > n)
  BY <1>2 DEF Newest
<1> QED
  BY <1>1, <1>2

\* Two delimiters are more than one.
LEMMA TwoRounds ==
  ASSUME NEW q \in Seq(Tracks), NEW i \in DOMAIN q, NEW j \in DOMAIN q, i # j, q[i] = Delimiter, q[j] = Delimiter
  PROVE  ~ Cardinality({k \in DOMAIN q : q[k] = Delimiter}) <= 1
<1> DEFINE T == {k \in DOMAIN q : q[k] = Delimiter}
<1>1. IsFiniteSet(T)
  <2> DEFINE n == Len(q)
  <2>1. 1 \in Int /\ n \in Int /\ DOMAIN q = 1 .. n
    OBVIOUS
  <2> HIDE DEF n
  <2>2. IsFiniteSet(1 .. n)
    BY <2>1, FS_Interval
  <2>3. T \subseteq 1 .. n
    BY <2>1
  <2> HIDE DEF T
  <2> QED
    BY <2>2, <2>3, FS_Subset
<1>2. {i, j} \subseteq T
  OBVIOUS
<1>3. Cardinality({i, j}) = 2
  <2>1. {i} \cup {j} = {i, j} /\ j \notin {i}
    OBVIOUS
  <2>2. IsFiniteSet({i}) /\ Cardinality({i}) = 1
    BY FS_Singleton
  <2>3. Cardinality({i} \cup {j}) = Cardinality({i}) + 1
    BY <2>1, <2>2, FS_AddElement
  <2>4. Cardinality({i, j}) = Cardinality({i}) + 1
    BY <2>1, <2>3, Zenon
  <2> QED
    BY <2>2, <2>4
<1> HIDE DEF T
<1>4. Cardinality({i, j}) <= Cardinality(T) /\ Cardinality(T) \in Nat
  BY <1>1, <1>2, FS_Subset, FS_CardinalityType
<1>5. ~ Cardinality(T) <= 1
  BY <1>3, <1>4
<1> QED
  BY <1>5 DEF T

\* The end of a list that goes on with the same track.
LEMMA Concatenated ==
  ASSUME NEW T, NEW p \in Seq(T), NEW d \in Nat, NEW r \in Seq(T), Len(r) = d, Len(p) >= 1
  PROVE  /\ p \o r \in Seq(T) /\ Len(p \o r) = Len(p) + d
         /\ \A i \in 1 .. d : (p \o r)[Len(p) + i] = r[i]
         /\ (p \o r)[Len(p)] = Last(p)
<1>1. p \o r \in Seq(T)
  OBVIOUS
<1>2. Len(p \o r) = Len(p) + d
  <2>1. Len(p \o r) = Len(p) + Len(r)
    BY ConcatProperties
  <2> QED
    BY <2>1
<1>3. \A i \in 1 .. d : (p \o r)[Len(p) + i] = r[i]
  OBVIOUS
<1>4. (p \o r)[Len(p)] = Last(p)
  BY DEF Last
<1> QED
  BY <1>1, <1>2, <1>3, <1>4

\* Behind a list of played tracks that at most one delimiter follows stands the
\* last of them.
LEMMA BehindIs ==
  ASSUME NEW s \in Sound, NEW p \in Seq(Tracks), NEW d \in Nat, Len(p) \in 1 .. PrevLimit, Last(p) # Delimiter,
         NEW m \in MaxPrev .. PrevLimit, s.prev = Newest(p \o Delimiters(d), m), MaxPrev # 1,
         Cardinality({i \in DOMAIN s.prev : s.prev[i] = Delimiter}) <= 1
  PROVE  Behind(s) # <<>> /\ Last(Behind(s)) = Last(p)
<1> DEFINE q == p \o Delimiters(d)
           n == Len(s.prev)
<1>1. /\ Delimiters(d) \in Seq(Tracks) /\ Len(Delimiters(d)) = d
      /\ \A i \in 1 .. d : Delimiters(d)[i] = Delimiter
  <2>1. Delimiters(d) \in [1 .. d -> Tracks]
    BY TracksAre DEF Delimiters
  <2>2. \A i \in 1 .. d : Delimiters(d)[i] = Delimiter
    BY DEF Delimiters
  <2> QED
    BY <2>1, <2>2, FunctionList
<1>2. /\ q \in Seq(Tracks) /\ Len(q) = Len(p) + d
      /\ \A i \in 1 .. d : q[Len(p) + i] = Delimiter
      /\ q[Len(p)] = Last(p)
  <2> DEFINE r == Delimiters(d)
             x == Delimiter
  <2>1. r \in Seq(Tracks) /\ Len(r) = d /\ \A i \in 1 .. d : r[i] = x
    BY <1>1
  <2>2. p \in Seq(Tracks) /\ Len(p) \in Nat /\ Len(p) >= 1
    OBVIOUS
  <2> HIDE DEF r, x
  <2>6. r \in Seq(Tracks) /\ Len(r) = d
    BY <2>1
  <2>3. /\ p \o r \in Seq(Tracks) /\ Len(p \o r) = Len(p) + d
        /\ \A i \in 1 .. d : (p \o r)[Len(p) + i] = r[i]
        /\ (p \o r)[Len(p)] = Last(p)
    BY <2>2, <2>6, Concatenated
  <2> QED
    BY <2>1, <2>3 DEF r, x
<1> HIDE DEF q
<1>3. s.prev \in Seq(Tracks) /\ n \in Nat /\ DOMAIN s.prev = 1 .. n
  BY SoundFields
<1>4. \A k \in 0 .. m - 1 : k < Len(q) => k < n /\ s.prev[n - k] = q[Len(q) - k]
  <2> DEFINE w == p \o Delimiters(d)
  <2>1. w \in Seq(Tracks) /\ w = q /\ s.prev = Newest(w, m) /\ m \in Nat
    BY <1>2, Limits DEF q
  <2> HIDE DEF w
  <2> QED
    BY <2>1, NewestLast
<1> HIDE DEF n
<1>5. m \in Nat /\ 0 \in 0 .. m - 1 /\ 1 \in 0 .. m - 1
  OBVIOUS
<1>6. CASE d = 0
  <2>1. Len(q) = Len(p) /\ 0 < Len(q)
    BY <1>2, <1>6
  <2>2. n > 0 /\ s.prev[n] = Last(p)
    BY <1>2, <1>3, <1>4, <1>5, <2>1
  <2> QED
    BY <1>3, <2>2 DEF Behind, n, Last
<1>7. CASE d = 1
  <2>1. Len(q) = Len(p) + 1 /\ 1 < Len(q) /\ 0 < Len(q)
    BY <1>2, <1>7
  <2>2. n > 1 /\ s.prev[n] = q[Len(q)] /\ s.prev[n - 1] = q[Len(q) - 1]
    BY <1>2, <1>3, <1>4, <1>5, <2>1
  <2>3. q[Len(q)] = Delimiter /\ q[Len(q) - 1] = Last(p)
    <3>1. q[Len(p) + 1] = Delimiter
      BY <1>2, <1>7
    <3>2. Len(q) - 1 = Len(p)
      BY <1>2, <1>7
    <3> QED
      BY <1>2, <2>1, <3>1, <3>2
  <2>4. s.prev # <<>> /\ Last(s.prev) = Delimiter
    BY <1>3, <2>2, <2>3 DEF n, Last
  <2>5. Behind(s) = Front(s.prev)
    BY <2>4 DEF Behind
  <2>6. Front(s.prev) # <<>> /\ Last(Front(s.prev)) = s.prev[n - 1]
    <3> DEFINE x == Front(s.prev)
    <3>1. x \in Seq(Tracks) /\ Len(x) = n - 1 /\ x[n - 1] = s.prev[n - 1]
      BY <1>3, <2>2 DEF n, Front
    <3> HIDE DEF x
    <3>2. x # <<>> /\ Last(x) = x[n - 1]
      BY <1>3, <2>2, <3>1 DEF Last
    <3> QED
      BY <3>1, <3>2 DEF x
  <2> QED
    BY <2>2, <2>3, <2>5, <2>6
<1>8. CASE d > 1
  <2>1. Len(q) = Len(p) + d /\ 1 < Len(q) /\ 0 < Len(q)
    BY <1>2, <1>8
  <2>2. n > 1 /\ s.prev[n] = q[Len(q)] /\ s.prev[n - 1] = q[Len(q) - 1]
    BY <1>2, <1>3, <1>4, <1>5, <2>1
  <2>3. q[Len(q)] = Delimiter /\ q[Len(q) - 1] = Delimiter
    <3>1. d \in 1 .. d /\ d - 1 \in 1 .. d
      BY <1>8
    <3>2. Len(p) + d = Len(q) /\ Len(p) + (d - 1) = Len(q) - 1
      BY <1>2
    <3>3. q[Len(p) + d] = Delimiter /\ q[Len(p) + (d - 1)] = Delimiter
      BY <1>2, <3>1
    <3> QED
      BY <3>2, <3>3
  <2>4. n \in DOMAIN s.prev /\ n - 1 \in DOMAIN s.prev /\ n # n - 1
    BY <1>3, <2>2
  <2> QED
    BY <1>3, <2>2, <2>3, <2>4, TwoRounds
<1> QED
  BY <1>6, <1>7, <1>8

\* One step back undoes one step on.
LEMMA BackAgain ==
  ASSUME NEW s \in Sound, s.track.by \in {"context", "autoplay"}, s.track # Delimiter, MaxPrev # 1,
         NextTrack(s).ok, NextTrack(s).track # NoTrack,
         Cardinality({i \in DOMAIN NextTrack(s).prev : NextTrack(s).prev[i] = Delimiter}) <= 1
  PROVE  PrevTrack(NextTrack(s)).track = s.track
<1> DEFINE n == NextTrack(s)
<1>1. n \in Sound /\ n.ctx[n.fill].index # Nowhere
  BY NextTrackSound
<1>2. PICK p \in Seq(Tracks), d \in Nat, m \in MaxPrev .. PrevLimit :
        Len(p) \in 1 .. PrevLimit /\ Last(p) = s.track /\ n.prev = Newest(p \o Delimiters(d), m)
  BY NextTrackSound
<1> HIDE DEF n
<1>3. Behind(n) # <<>> /\ Last(Behind(n)) = s.track
  BY <1>1, <1>2, BehindIs DEF n
<1> QED
  BY <1>1, <1>3, PrevTrackSound DEF n

-----------------------------------------------------------------------------
(* What arrives: queued tracks, contexts, transfers *)

\* A queued track goes into the list, and what is too much leaves it.
LEMMA AddToQueueSound ==
  ASSUME NEW s \in Sound, NEW uri \in Names
  PROVE  AddToQueue(s, uri) \in Sound /\ AddToQueue(s, uri).track = s.track
<1> DEFINE n == Len(QueuePrefix(s.next))
           queued == Track(uri, "queue", Nowhere, FALSE)
           longer == SubSeq(s.next, 1, n) \o <<queued>> \o SubSeq(s.next, n + 1, Len(s.next))
           q == Capped(longer)
           r == [s EXCEPT !.next = q]
<1>1. AddToQueue(s, uri) = UpdateRestrictions(r)
  BY Zenon DEF AddToQueue
<1>2. s.next \in Seq(Tracks) /\ n \in 0 .. Len(s.next)
  BY SoundFields, QueuePrefixIs
<1>3. queued \in Tracks
  BY DEF Track, Tracks, Places
<1> HIDE DEF n, queued
<1>4. longer \in Seq(Tracks)
  <2>1. SubSeq(s.next, 1, n) \in Seq(Tracks) /\ SubSeq(s.next, n + 1, Len(s.next)) \in Seq(Tracks)
    BY <1>2
  <2>2. <<queued>> \in Seq(Tracks)
    BY <1>3
  <2> QED
    BY <2>1, <2>2
<1> HIDE DEF longer
<1>5. q \in Seq(Tracks) /\ Len(q) <= NextLimit
  BY <1>4, CappedIs
<1> HIDE DEF q
<1>6. r \in Sound /\ r.track = s.track
  BY <1>5 DEF Sound, States
<1> HIDE DEF r
<1> QED
  BY <1>1, <1>6, RestrictionsSound DEF Alike

\* Where to go on in a context that came again is a position.
LEMMA LastIndexIs ==
  ASSUME NEW s \in Sound, NEW tracks \in Seq(Tracks)
  PROVE  FindLastIndex(s, tracks)[1] \in Places
<1> DEFINE played == {i \in DOMAIN s.prev : FindIndex(tracks, s.prev[i].uri) # Nowhere}
           p == s.prev[CHOOSE i \in played : \A j \in played : j <= i].uri
           d == s.ctx["Default"].index
           at == CASE d >= MaxNext -> d - MaxNext
                   [] d < MaxNext /\ ~ IsQueue(s.track) -> FindIndex(tracks, s.track.uri)
                   [] d < MaxNext /\ IsQueue(s.track) ->
                        IF played = {} THEN Nowhere
                        ELSE FindIndex(tracks, p)
<1>1. FindLastIndex(s, tracks) = IF at # Nowhere THEN <<at + 1, TRUE>> ELSE <<IF s.index = Nowhere THEN 0 ELSE s.index, FALSE>>
  BY Zenon DEF FindLastIndex
<1>2. d \in Places /\ s.index \in Places
  BY SoundFields DEF Contexts, WholeContexts
<1>3. FindIndex(tracks, s.track.uri) \in Places /\ FindIndex(tracks, p) \in Places
  BY FindIndexIs
<1> HIDE DEF p, played, d
<1>4. at \in Places
  <2>1. CASE d >= MaxNext
    BY <1>2, <2>1 DEF Places, Nowhere
  <2>2. CASE ~ (d >= MaxNext) /\ ~ IsQueue(s.track)
    <3>1. d < MaxNext
      BY <1>2, <2>2 DEF Places, Nowhere
    <3> QED
      BY <1>3, <2>2, <3>1
  <2>3. CASE ~ (d >= MaxNext) /\ IsQueue(s.track)
    <3>1. d < MaxNext
      BY <1>2, <2>3 DEF Places, Nowhere
    <3> QED
      BY <1>3, <2>3, <3>1 DEF Places
  <2> QED
    BY <2>1, <2>2, <2>3
<1> HIDE DEF at
<1> QED
  BY <1>1, <1>2, <1>4 DEF Places, Nowhere

\* The default context is replaced by what arrived.
LEMMA UpdateDefaultSound ==
  ASSUME NEW s \in Sound, NEW uri \in DOMAIN Pages, NEW page \in Seq(Uris)
  PROVE  UpdateDefault(s, uri, page) \in Sound /\ UpdateDefault(s, uri, page).track = s.track
<1> DEFINE new == ContextFromPage(s, page, "context", 0)
           found == FindLastIndex(s, new.tracks)
           again == s.uri = uri /\ HasContext(s, "Default")
           i == IF found[2] THEN s.index ELSE Nowhere
           a == s.ctx["Autoplay"]
           j == IF a.index = Nowhere THEN a.index ELSE 0
           x == [s.ctx EXCEPT !["Autoplay"] = [a EXCEPT !.index = j]]
           moved == [s EXCEPT !.index = i, !.ctx = x]
           base == IF again THEN ClearNextTracks(moved) ELSE s
           c == IF again THEN [new EXCEPT !.index = found[1]] ELSE new
           y == [base.ctx EXCEPT !["Default"] = c]
           r == [base EXCEPT !.ctx = y, !.uri = uri]
<1>1. 0 \in Places /\ s.ctx \in [Kinds -> Contexts] /\ s.index \in Places /\ Nowhere \in Places
  BY SoundFields DEF Places
<1>2. new \in WholeContexts /\ new \in Contexts
  BY <1>1, PageContext DEF Nowhere
<1>3. found[1] \in Places
  <2>1. new.tracks \in Seq(Tracks)
    BY <1>2 DEF Contexts
  <2> HIDE DEF new
  <2> QED
    BY <2>1, LastIndexIs
<1>4. c \in WholeContexts /\ c \in Contexts
  <2> HIDE DEF new, found
  <2> QED
    BY <1>2, <1>3, ContextIndex
<1>5. a \in Contexts /\ j \in Places
  BY <1>1 DEF Contexts, Kinds
<1>6. x \in [Kinds -> Contexts] /\ x["Default"] = s.ctx["Default"]
  <2> DEFINE b == [a EXCEPT !.index = j]
  <2> HIDE DEF a, j
  <2>1. b \in Contexts
    BY <1>5, ContextIndex
  <2> HIDE DEF b
  <2>2. [s.ctx EXCEPT !["Autoplay"] = b] \in [Kinds -> Contexts]
    BY <1>1, <2>1
  <2>3. [s.ctx EXCEPT !["Autoplay"] = b]["Default"] = s.ctx["Default"]
    BY <1>1 DEF Kinds
  <2> QED
    BY <2>2, <2>3 DEF b
<1>7. UpdateDefault(s, uri, page) = r
  <2>1. /\ [s EXCEPT !.index = IF found[2] THEN @ ELSE Nowhere,
                     !.ctx["Autoplay"].index = IF @ = Nowhere THEN @ ELSE 0] = moved
    BY Zenon
  <2>2. UpdateDefault(s, uri, page) =
          [(IF again THEN ClearNextTracks([s EXCEPT !.index = IF found[2] THEN @ ELSE Nowhere,
                     !.ctx["Autoplay"].index = IF @ = Nowhere THEN @ ELSE 0]) ELSE s) EXCEPT
             !.ctx["Default"] = IF again THEN [new EXCEPT !.index = found[1]] ELSE new, !.uri = uri]
    BY Zenon DEF UpdateDefault
  <2>3. UpdateDefault(s, uri, page) = [base EXCEPT !.ctx["Default"] = c, !.uri = uri]
    BY <2>1, <2>2, Zenon
  <2> HIDE DEF base, c
  <2> QED
    BY <2>3
<1>8. i \in Places
  BY <1>1
<1> HIDE DEF i, x, c
<1>9. moved \in Sound /\ moved.track = s.track
  BY <1>6, <1>8 DEF Sound, States
<1> HIDE DEF moved
<1>10. base \in Sound /\ base.track = s.track
  BY <1>9, ClearSound
<1> HIDE DEF base
<1>11. y \in [Kinds -> Contexts] /\ y["Default"] \in WholeContexts
  <2>1. base.ctx \in [Kinds -> Contexts]
    BY <1>10, SoundFields
  <2> QED
    BY <1>4, <2>1 DEF Kinds
<1> HIDE DEF y
<1>12. r \in Sound /\ r.track = s.track
  BY <1>10, <1>11 DEF Sound, States
<1> QED
  BY <1>7, <1>12

\* More positions at the end, numbered on, are each there once.
LEMMA AppendedWhole ==
  ASSUME NEW c \in WholeContexts, NEW m \in Seq(Tracks), \A i \in 1 .. Len(m) : m[i].at = Len(c.tracks) + i - 1
  PROVE  [c EXCEPT !.tracks = c.tracks \o m] \in WholeContexts
<1> DEFINE n == Len(c.tracks)
           w == c.tracks \o m
<1>1. /\ c.tracks \in Seq(Tracks) /\ n \in Nat /\ DOMAIN c.tracks = 1 .. n
      /\ c.first \in Places /\ c.swaps \in Seq(Nat) /\ c \in Contexts
      /\ Numbered(c.tracks) /\ Fits(c)
  BY DEF WholeContexts, Contexts
<1>2. w \in Seq(Tracks) /\ Len(w) = n + Len(m) /\ DOMAIN w = 1 .. n + Len(m)
  <2>1. w \in Seq(Tracks) /\ Len(w) = n + Len(m)
    BY <1>1, ConcatProperties
  <2> HIDE DEF w
  <2> QED
    BY <2>1
<1>3. /\ \A i \in 1 .. n : w[i] = c.tracks[i]
      /\ \A i \in 1 .. Len(m) : w[n + i] = m[i]
  <2>1. \A i \in 1 .. n : w[i] = c.tracks[i]
    BY <1>1
  <2>2. \A i \in 1 .. Len(m) : w[n + i] = m[i]
    BY <1>1
  <2> QED
    BY <2>1, <2>2
<1>4. Len(m) \in Nat
  OBVIOUS
<1> HIDE DEF w, n
<1>5. \A i \in 1 .. Len(m) : m[i].at = n + i - 1
  BY DEF n
<1>6. {w[i].at : i \in DOMAIN w} = 0 .. Len(w) - 1
  <2>0. {c.tracks[i].at : i \in 1 .. n} = 0 .. n - 1
    BY <1>1 DEF Numbered, n
  <2>1. ASSUME NEW i \in DOMAIN w PROVE w[i].at \in 0 .. Len(w) - 1
    <3>1. CASE i \in 1 .. n
      <4>1. w[i].at \in 0 .. n - 1
        BY <1>3, <2>0, <3>1
      <4> QED
        BY <1>1, <1>2, <1>4, <4>1
    <3>2. CASE i \notin 1 .. n
      <4> DEFINE k == i - n
      <4>1. k \in 1 .. Len(m) /\ i = n + k
        BY <1>1, <1>2, <1>4, <3>2
      <4> HIDE DEF k
      <4>2. w[i].at = n + k - 1
        BY <1>3, <1>5, <4>1
      <4> QED
        BY <1>1, <1>2, <1>4, <4>1, <4>2
    <3> QED
      BY <3>1, <3>2
  <2>2. ASSUME NEW k \in 0 .. Len(w) - 1 PROVE \E i \in DOMAIN w : w[i].at = k
    <3>1. CASE k < n
      <4>1. k \in 0 .. n - 1
        BY <1>1, <3>1
      <4>2. PICK i \in 1 .. n : c.tracks[i].at = k
        BY <2>0, <4>1
      <4>3. i \in DOMAIN w
        BY <1>1, <1>2, <1>4
      <4> QED
        BY <1>3, <4>2, <4>3
    <3>2. CASE ~ (k < n)
      <4> DEFINE j == k - n + 1
      <4>1. j \in 1 .. Len(m) /\ n + j \in DOMAIN w /\ n + j - 1 = k
        BY <1>1, <1>2, <1>4, <3>2
      <4> HIDE DEF j
      <4> QED
        BY <1>3, <1>5, <4>1
    <3> QED
      BY <3>1, <3>2
  <2>3. {w[i].at : i \in DOMAIN w} \subseteq 0 .. Len(w) - 1
    BY <2>1, Zenon
  <2>4. 0 .. Len(w) - 1 \subseteq {w[i].at : i \in DOMAIN w}
    BY <2>2, Zenon
  <2> QED
    BY <2>3, <2>4, Zenon
<1>7. Numbered(w)
  BY <1>6 DEF Numbered
<1>8. c.swaps # <<>> => c.first < Len(w) /\ \A k \in DOMAIN c.swaps : c.swaps[k] < Len(w)
  <2>1. c.swaps # <<>> => c.first < n /\ \A k \in DOMAIN c.swaps : c.swaps[k] < n
    BY <1>1 DEF Fits, n
  <2>2. n <= Len(w) /\ Len(w) \in Nat
    BY <1>1, <1>2, <1>4
  <2>3. c.first \in Int /\ \A k \in DOMAIN c.swaps : c.swaps[k] \in Int
    BY <1>1 DEF Places, Nowhere
  <2> QED
    BY <1>1, <2>1, <2>2, <2>3
<1>9. [c EXCEPT !.tracks = w] \in WholeContexts
  BY <1>1, <1>2, <1>7, <1>8 DEF WholeContexts, Contexts, Fits
<1> QED
  BY <1>9 DEF w

\* More tracks at the end of the default context.
LEMMA FillContextSound ==
  ASSUME NEW s \in Sound, NEW page \in Seq(Uris)
  PROVE  FillContextFromPage(s, page) \in Sound /\ FillContextFromPage(s, page).track = s.track
         /\ FillContextFromPage(s, page).active = s.active
<1> DEFINE c == s.ctx["Default"]
           m == ContextFromPage(s, page, "context", Len(c.tracks)).tracks
           d == [c EXCEPT !.tracks = c.tracks \o m]
<1>1. CASE HasContext(s, "Default")
  <2>1. c \in WholeContexts /\ c \in Contexts /\ Len(c.tracks) \in Nat
    BY SoundFields DEF Kinds, WholeContexts, Contexts
  <2>2. Len(c.tracks) \in Places /\ Len(c.tracks) # Nowhere
    BY <2>1 DEF Places, Nowhere
  <2>3. m \in Seq(Tracks) /\ \A i \in 1 .. Len(m) : m[i].at = Len(c.tracks) + i - 1
    <3> DEFINE n == Len(c.tracks)
    <3> HIDE DEF n, c
    <3>1. n \in Places /\ n # Nowhere
      BY <2>2 DEF n
    <3>2. /\ ContextFromPage(s, page, "context", n) \in Contexts
          /\ Len(ContextFromPage(s, page, "context", n).tracks) = Len(page)
          /\ \A i \in 1 .. Len(page) : ContextFromPage(s, page, "context", n).tracks[i].at = n + i - 1
      BY <3>1, PageContext
    <3>3. ContextFromPage(s, page, "context", n).tracks \in Seq(Tracks)
      BY <3>2 DEF Contexts
    <3> QED
      BY <3>2, <3>3 DEF n
  <2> HIDE DEF m
  <2>4. d \in WholeContexts /\ d \in Contexts
    <3>1. d \in WholeContexts
      BY <2>1, <2>3, AppendedWhole
    <3> QED
      BY <3>1 DEF WholeContexts
  <2>5. FillContextFromPage(s, page) = [s EXCEPT !.ctx["Default"] = d]
    BY <1>1 DEF FillContextFromPage, m
  <2> HIDE DEF d, c
  <2>6. [s EXCEPT !.ctx["Default"] = d] \in Sound
    BY <2>4, ContextSet DEF Kinds
  <2>7. [s EXCEPT !.ctx["Default"] = d].track = s.track /\ [s EXCEPT !.ctx["Default"] = d].active = s.active
    BY DEF Sound, States
  <2> QED
    BY <2>5, <2>6, <2>7
<1>2. CASE ~ HasContext(s, "Default")
  <2>1. FillContextFromPage(s, page) = Fail(s)
    BY <1>2 DEF FillContextFromPage
  <2> QED
    BY <2>1, FailSound
<1> QED
  BY <1>1, <1>2

\* Each of the uris goes into the queue.
LEMMA AllQueuedSound ==
  ASSUME NEW s \in Sound, NEW uris \in Seq(Names)
  PROVE  AllQueued(s, uris) \in Sound
<1> DEFINE n == Len(uris)
           step == [k \in 1 .. n |-> [w \in Sound |-> AddToQueue(w, uris[k])]]
           Runs(f) == f = [i \in 0 .. n |-> IF i = 0 THEN s ELSE AddToQueue(f[i - 1], uris[i])]
<1>1. n \in Nat /\ \A k \in 1 .. n : uris[k] \in Names
  OBVIOUS
<1>2. ASSUME NEW k \in 1 .. n, NEW w \in Sound PROVE AddToQueue(w, uris[k]) \in Sound
  BY <1>1, AddToQueueSound
<1>3. step \in [1 .. n -> [Sound -> Sound]]
  BY <1>2
<1>4. Loops(Sound, s, n, step)
  <2> HIDE DEF step, n
  <2> QED
    BY <1>1, <1>3, Iterated
<1>5. PICK f \in [0 .. n -> Sound] : f[0] = s /\ \A k \in 1 .. n : f[k] = step[k][f[k - 1]]
  BY <1>4 DEF Loops
<1>6. ASSUME NEW k \in 1 .. n PROVE f[k] = AddToQueue(f[k - 1], uris[k])
  <2>1. f[k - 1] \in Sound
    <3> HIDE DEF n, step
    <3> QED
      BY <1>1, Before
  <2> QED
    BY <1>5, <2>1
<1>7. Runs(f)
  <2> HIDE DEF n
  <2> QED
    BY <1>1, <1>5, <1>6
<1>8. Runs(CHOOSE g : Runs(g))
  <2> HIDE DEF Runs
  <2> QED
    BY <1>7
<1> DEFINE h == CHOOSE g : Runs(g)
<1>9. AllQueued(s, uris) = h[n]
  BY Zenon DEF AllQueued
<1>10. h = [i \in 0 .. n |-> IF i = 0 THEN s ELSE AddToQueue(h[i - 1], uris[i])]
  BY <1>8
<1> HIDE DEF h
<1>11. h[0] = s /\ \A k \in 1 .. n : h[k] = AddToQueue(h[k - 1], uris[k])
  <2> HIDE DEF n
  <2> QED
    BY <1>1, <1>10
<1>12. \A k \in 1 .. n : h[k - 1] \in Sound => h[k] \in Sound
  BY <1>2, <1>11
<1>13. \A k \in 0 .. n : h[k] \in Sound
  <2> HIDE DEF n
  <2> QED
    BY <1>1, <1>11, <1>12, Stays
<1> HIDE DEF n
<1>14. n \in 0 .. n
  BY <1>1
<1>15. h[n] \in Sound
  BY <1>13, <1>14
<1> QED
  BY <1>9, <1>15

\* What another device hands over is what the state may hold.
LEMMA HandedOver ==
  ASSUME NEW t \in Transfers
  PROVE  /\ t.track \in Names /\ t.uri \in DOMAIN Pages /\ t.queued \in BOOLEAN /\ t.uid \in Names
         /\ t.auto \in BOOLEAN /\ t.queue \in Seq(Names) /\ t.shuffle \in BOOLEAN /\ t.context \in BOOLEAN
         /\ t.repeat \in BOOLEAN /\ t.initial \in Names
<1>1. t \in [track : Uris, uri : DOMAIN Pages, queued : BOOLEAN, uid : Names, auto : BOOLEAN, queue : Seq(Uris),
             shuffle : BOOLEAN, context : BOOLEAN, repeat : BOOLEAN, initial : Names]
  BY DEF Handovers
<1>2. Uris \subseteq Names
  BY DEF Names
<1>3. t.queue \in Seq(Uris)
  BY <1>1
<1>4. t.queue \in Seq(Names)
  BY <1>2, <1>3, SeqMonotonic
<1> QED
  BY <1>1, <1>2, <1>4

\* What is handed over at once.
LEMMA InitialTransferSound ==
  ASSUME NEW s \in Sound, NEW t \in Transfers
  PROVE  HandleInitialTransfer(s, t) \in Sound
<1> DEFINE r == [s EXCEPT !.prev = <<>>, !.uri = t.uri, !.shuffle = t.shuffle,
                   !.context = t.context, !.repeat = t.repeat, !.initial = t.initial]
<1>1. HandleInitialTransfer(s, t) = ClearNextTracks(r)
  BY Zenon DEF HandleInitialTransfer
<1>2. r \in Sound
  <2>1. /\ t.uri \in DOMAIN Pages /\ t.shuffle \in BOOLEAN /\ t.context \in BOOLEAN
        /\ t.repeat \in BOOLEAN /\ t.initial \in Names
    BY HandedOver
  <2>2. <<>> \in Seq(Tracks) /\ Len(<<>>) <= PrevLimit
    OBVIOUS
  <2> QED
    BY <2>1, <2>2 DEF Sound, States
<1> HIDE DEF r
<1> QED
  BY <1>1, <1>2, ClearSound

\* The track it starts with.
LEMMA TransferTrack ==
  ASSUME NEW s \in Sound, NEW t \in Transfers
  PROVE  TrackFromTransfer(s, t) \in Tracks
<1> DEFINE by == IF t.queued THEN "queue" ELSE "context"
           p == ProvidedTrack(s, t.track, by, Nowhere)
<1>1. TrackFromTransfer(s, t) = [p EXCEPT !.auto = t.auto]
  BY Zenon DEF TrackFromTransfer
<1>2. by \in {"context", "queue", "autoplay"} /\ Nowhere \in Places
  BY DEF Places
<1> HIDE DEF by
<1>3. p \in Tracks
  BY <1>2, TracksAre, HandedOver
<1> HIDE DEF p
<1>4. t.auto \in BOOLEAN
  BY HandedOver
<1>5. [p EXCEPT !.auto = t.auto] \in Tracks
  BY <1>3, <1>4 DEF Tracks
<1> QED
  BY <1>1, <1>5

\* The shuffle that a transfer asks for, once its track plays.
ShuffleAfter(v, draw) ==
  IF v.fixed THEN Fail(v)
  ELSE Shuffle([v EXCEPT !.initial = "none"], draw, IF v.initial = "none" THEN v.track.uri ELSE v.initial)

\* It keeps the lists sound.
LEMMA ShuffleAfterSound ==
  ASSUME NEW v \in Sound, NEW draw \in Draws
  PROVE  ShuffleAfter(v, draw) \in Sound
<1> DEFINE initial == IF v.initial = "none" THEN v.track.uri ELSE v.initial
           r == [v EXCEPT !.initial = "none"]
<1>1. initial \in Names
  BY SoundFields DEF Tracks
<1>2. r \in Sound
  BY DEF Sound, States, Names
<1>3. ShuffleAfter(v, draw) = IF v.fixed THEN Fail(v) ELSE Shuffle(r, draw, initial)
  BY DEF ShuffleAfter
<1> HIDE DEF r, initial
<1>4. Shuffle(r, draw, initial) \in Sound /\ Fail(v) \in Sound
  BY <1>1, <1>2, ShuffleSound, FailSound
<1> QED
  BY <1>3, <1>4

\* The rest of a transfer, once its context is there.
LEMMA FinishTransferSound ==
  ASSUME NEW s \in Sound, NEW t \in Transfers, NEW draw \in Draws
  PROVE  FinishTransfer(s, t, draw) \in Sound
<1> DEFINE track == IF s.track = NoTrack THEN TrackFromTransfer(s, t) ELSE s.track
           ty == IF s.track.auto THEN "Autoplay" ELSE "Default"
           here == [SetActiveContext(s, ty) EXCEPT !.fill = ty]
           tracks == s.ctx[ty].tracks
           u == FindIndex(tracks, t.uid)
           at == IF IsQueue(track) THEN (IF u > 0 THEN u - 1 ELSE u) ELSE FindIndex(tracks, track.uri)
           i == IF at = Nowhere THEN here.index ELSE at
           set == [here EXCEPT !.track = track, !.index = i]
           full == AllQueued(set, t.queue)
           start == IF at = Nowhere THEN 0 ELSE at
           v == SetCurrentTrack(full, start)
           w == IF ~ s.shuffle THEN ResetPlaybackToPosition(full, start)
                ELSE IF v.ok THEN ShuffleAfter(v, draw) ELSE v
           r == FinishTransfer(s, t, draw)
<1>1. r = IF ~ HasContext(s, ty) THEN Fail(here) ELSE IF w.ok THEN UpdateRestrictions(w) ELSE w
  BY Zenon DEF FinishTransfer, Then, ShuffleAfter
<1>2. ty \in Kinds /\ track \in Tracks
  BY SoundFields, TransferTrack DEF Kinds
<1>3. tracks \in Seq(Tracks)
  BY <1>2, SoundFields DEF Contexts
<1> HIDE DEF ty, track
<1>4. here \in Sound
  <2> DEFINE a == SetActiveContext(s, ty)
  <2>1. a \in Sound
    BY <1>2, ActiveKeeps
  <2> HIDE DEF a
  <2>2. [a EXCEPT !.fill = ty] \in Sound
    BY <1>2, <2>1 DEF Sound, States
  <2> QED
    BY <2>2 DEF a, here
<1> HIDE DEF here, tracks
<1>5. at \in Places
  <2>1. u \in Places /\ FindIndex(tracks, track.uri) \in Places
    BY <1>3, FindIndexIs
  <2> HIDE DEF u
  <2> QED
    BY <2>1 DEF Places, Nowhere
<1> HIDE DEF at
<1>6. i \in Places /\ start \in Nat
  BY <1>4, <1>5, SoundFields DEF Places, Nowhere
<1> HIDE DEF i, start
<1>7. set \in Sound
  BY <1>2, <1>4, <1>6 DEF Sound, States
<1> HIDE DEF set
<1>8. full \in Sound
  BY <1>7, HandedOver, AllQueuedSound
<1> HIDE DEF full
<1>9. v \in Sound /\ ResetPlaybackToPosition(full, start) \in Sound
  BY <1>6, <1>8, CurrentSound, ResetPlaybackSound DEF SameContexts
<1> HIDE DEF v
<1>10. w \in Sound
  BY <1>9, ShuffleAfterSound
<1> HIDE DEF w
<1>11. Fail(here) \in Sound /\ UpdateRestrictions(w) \in Sound
  BY <1>4, <1>10, FailSound, RestrictionsSound
<1> QED
  BY <1>1, <1>10, <1>11

-----------------------------------------------------------------------------
(* The resolver *)

\* An error that is logged and forgotten.
Logged(s) == [s EXCEPT !.ok = TRUE]

\* It changes nothing else.
LEMMA LoggedSound ==
  ASSUME NEW s \in Sound
  PROVE  /\ Logged(s) \in Sound /\ Logged(s).ok = TRUE
         /\ Logged(s).track = s.track /\ Logged(s).ctx = s.ctx /\ Logged(s).active = s.active
BY DEF Logged, Sound, States

\* A queue of items that is no shorter.
Longer(q) == {w \in Seq(Items) : Len(w) >= Len(q)}

\* What is asked of the service can be asked for.
LEMMA ItemIs ==
  ASSUME NEW uri \in DOMAIN Pages, NEW fallback \in Names \cup DOMAIN Pages, NEW update \in Kinds,
         NEW action \in {"Replace", "Append"}
  PROVE  Item(uri, fallback, update, action) \in Items
<1>1. Pages[uri] \in Seq(Seq(Uris)) /\ Pages[uri] # <<>>
  BY DEF Services
<1>2. 1 \in DOMAIN Pages[uri]
  BY <1>1
<1> QED
  BY <1>2 DEF Item, Items

\* The pages of a context are lists of uris.
LEMMA PageIs ==
  ASSUME NEW uri \in DOMAIN Pages, NEW p \in DOMAIN Pages[uri]
  PROVE  Pages[uri][p] \in Seq(Uris) /\ 1 \in DOMAIN Pages[uri] /\ p \in Nat /\ Pages[uri][1] \in Seq(Uris)
<1>1. Pages[uri] \in Seq(Seq(Uris)) /\ Pages[uri] # <<>>
  BY DEF Services
<1> QED
  BY <1>1

\* Another item makes the queue no shorter.
LEMMA AddedLonger ==
  ASSUME NEW q \in Seq(Items), NEW w \in Longer(q), NEW item \in Items
  PROVE  Added(w, item) \in Longer(q)
<1>1. w \in Seq(Items) /\ Len(w) >= Len(q)
  BY DEF Longer
<1>2. Append(w, item) \in Seq(Items) /\ Len(Append(w, item)) = Len(w) + 1
  BY <1>1
<1>3. Append(w, item) \in Longer(q)
  BY <1>1, <1>2 DEF Longer
<1> QED
  BY <1>3 DEF Added

\* Nor does asking for autoplay.
LEMMA AutoplayLonger ==
  ASSUME NEW s \in Sound, NEW q \in Seq(Items), NEW w \in Longer(q)
  PROVE  AddAutoplayResolving(s, w) \in Longer(q)
<1> DEFINE action == IF s.ctx["Autoplay"].tracks # <<>> THEN "Append" ELSE "Replace"
           item == Item(s.uri, s.track.uri, "Autoplay", action)
<1>1. AddAutoplayResolving(s, w) = IF Len(s.next) < Threshold /\ s.uri # "none" THEN Added(w, item) ELSE w
  BY Zenon DEF AddAutoplayResolving
<1>2. CASE s.uri # "none"
  <2>1. s.uri \in DOMAIN Pages /\ s.track.uri \in Names
    BY <1>2, SoundFields DEF Tracks
  <2>2. item \in Items
    BY <2>1, ItemIs DEF Kinds
  <2> HIDE DEF item
  <2>3. Added(w, item) \in Longer(q)
    BY <2>2, AddedLonger
  <2> QED
    BY <1>1, <2>3
<1>3. CASE s.uri = "none"
  BY <1>1, <1>3
<1> QED
  BY <1>2, <1>3

\* Nor do the rest of the pages of a context.
LEMMA RemainingLonger ==
  ASSUME NEW q \in Seq(Items), NEW item \in Items
  PROVE  Remaining(q, item) \in Longer(q)
<1> DEFINE n == Len(Pages[item.uri])
           next == [p \in 1 .. n |-> [Item(item.uri, "none", "Default", "Append") EXCEPT !.page = p]]
           x == q
           step == [k \in 1 .. n |-> [w \in Longer(q) |-> IF k = 1 THEN x ELSE Added(w, next[k])]]
           Runs(f) == f = [p \in 1 .. n |-> IF p = 1 THEN q
                             ELSE Added(f[p - 1], [Item(item.uri, "none", "Default", "Append") EXCEPT !.page = p])]
<1>1. item.uri \in DOMAIN Pages
  BY DEF Items
<1>2. n \in Nat /\ n >= 1 /\ DOMAIN Pages[item.uri] = 1 .. n
  <2>1. Pages[item.uri] \in Seq(Seq(Uris)) /\ Pages[item.uri] # <<>>
    BY <1>1 DEF Services
  <2> QED
    BY <2>1
<1>3. \A p \in 1 .. n : next[p] \in Items
  <2> DEFINE i == Item(item.uri, "none", "Default", "Append")
  <2>1. i \in Items /\ i.update = "Default" /\ i.uri = item.uri
    BY <1>1, ItemIs DEF Item, Names, Kinds
  <2> HIDE DEF i
  <2>2. ASSUME NEW p \in 1 .. n PROVE [i EXCEPT !.page = p] \in Items
    <3> DEFINE d == DOMAIN Pages[item.uri]
               j == [i EXCEPT !.page = p]
    <3>1. p \in d /\ p \in Nat
      BY <1>2
    <3>2. i \in [uri : DOMAIN Pages, fallback : Names \cup DOMAIN Pages, update : Kinds, action : {"Replace", "Append"}, page : Nat]
      BY <2>1 DEF Items
    <3>3. /\ j \in [uri : DOMAIN Pages, fallback : Names \cup DOMAIN Pages, update : Kinds, action : {"Replace", "Append"}, page : Nat]
          /\ j.page = p /\ j.uri = i.uri
      BY <3>1, <3>2
    <3> HIDE DEF j
    <3>4. j.page \in DOMAIN Pages[j.uri]
      BY <2>1, <3>1, <3>3
    <3>5. j \in Items
      BY <3>3, <3>4 DEF Items
    <3> QED
      BY <3>5 DEF j
  <2> QED
    BY <2>2 DEF i
<1>4. q \in Longer(q)
  BY DEF Longer
<1> HIDE DEF n
<1>5. \A k \in 1 .. n : next[k] = [Item(item.uri, "none", "Default", "Append") EXCEPT !.page = k]
  OBVIOUS
<1> HIDE DEF next
<1>6. ASSUME NEW k \in 1 .. n, NEW w \in Longer(q) PROVE Added(w, next[k]) \in Longer(q)
  BY <1>3, AddedLonger
<1>7. step \in [1 .. n -> [Longer(q) -> Longer(q)]]
  <2> HIDE DEF n
  <2> QED
    BY <1>4, <1>6
<1>8. Loops(Longer(q), x, n, step)
  <2> HIDE DEF step
  <2> QED
    BY <1>2, <1>4, <1>7, Iterated
<1>9. PICK f \in [0 .. n -> Longer(q)] : f[0] = x /\ \A k \in 1 .. n : f[k] = step[k][f[k - 1]]
  BY <1>8 DEF Loops
<1> DEFINE g == [p \in 1 .. n |-> f[p]]
<1>10. ASSUME NEW k \in 1 .. n PROVE g[k] = IF k = 1 THEN q ELSE Added(g[k - 1], next[k])
  <2>1. f[k - 1] \in Longer(q)
    BY <1>2
  <2>2. f[k] = IF k = 1 THEN q ELSE Added(f[k - 1], next[k])
    BY <1>9, <2>1
  <2>3. k # 1 => k - 1 \in 1 .. n
    BY <1>2
  <2> QED
    BY <2>2, <2>3
<1>11. Runs(g)
  <2>1. g = [p \in 1 .. n |-> g[p]]
    OBVIOUS
  <2> HIDE DEF g
  <2>2. \A p \in 1 .. n : g[p] = IF p = 1 THEN q
                          ELSE Added(g[p - 1], [Item(item.uri, "none", "Default", "Append") EXCEPT !.page = p])
    BY <1>5, <1>10
  <2> QED
    BY <2>1, <2>2, Zenon
<1>12. Runs(CHOOSE h : Runs(h))
  <2> HIDE DEF Runs, g
  <2> QED
    BY <1>11
<1> DEFINE h == CHOOSE h : Runs(h)
<1>13. Remaining(q, item) = IF item.action = "Replace" /\ item.update = "Default" THEN h[n] ELSE q
  BY Zenon DEF Remaining, n
<1>14. h = [p \in 1 .. n |-> IF p = 1 THEN q
               ELSE Added(h[p - 1], [Item(item.uri, "none", "Default", "Append") EXCEPT !.page = p])]
  BY <1>12
<1> HIDE DEF h
<1>15. \A k \in 1 .. n : h[k] = IF k = 1 THEN q ELSE Added(h[k - 1], next[k])
  BY <1>5, <1>14
<1> DEFINE e == [k \in 0 .. n |-> IF k = 0 THEN q ELSE h[k]]
<1>16. e[0] = q /\ \A k \in 1 .. n : e[k] = h[k]
  BY <1>2
<1>17. ASSUME NEW k \in 1 .. n, e[k - 1] \in Longer(q) PROVE e[k] \in Longer(q)
  <2>1. CASE k = 1
    BY <1>4, <1>15, <1>16, <2>1
  <2>2. CASE k # 1
    <3>1. k - 1 \in 1 .. n
      BY <1>2, <2>2
    <3>2. e[k] = Added(e[k - 1], next[k])
      BY <1>15, <1>16, <2>2, <3>1
    <3> QED
      BY <1>6, <1>17, <3>2
  <2> QED
    BY <2>1, <2>2
<1>18. \A k \in 0 .. n : e[k] \in Longer(q)
  <2> HIDE DEF e
  <2> QED
    BY <1>2, <1>4, <1>16, <1>17, Stays
<1>19. h[n] \in Longer(q)
  BY <1>2, <1>16, <1>18
<1> QED
  BY <1>4, <1>13, <1>19

\* What the service answers goes into the state; it does not change the track.
LEMMA ApplyNextSound ==
  ASSUME NEW s \in Sound, NEW item \in Items
  PROVE  ApplyNext(s, item) \in Sound /\ ApplyNext(s, item).track = s.track
<1> DEFINE page == IF item.update = "Autoplay" THEN Radio ELSE Pages[item.uri][item.page]
           c == ContextFromPage(s, Radio, "autoplay", Nowhere)
<1>1. item.uri \in DOMAIN Pages /\ item.update \in Kinds /\ (item.update = "Default" => item.page \in DOMAIN Pages[item.uri])
  BY DEF Items
<1>2. 1 \in DOMAIN Pages[item.uri]
  BY <1>1 DEF Services
<1>3. Radio \in Seq(Uris) /\ Pages[item.uri][1] \in Seq(Uris)
  BY <1>1, <1>2, PageIs DEF Services
<1>4. page \in Seq(Uris)
  BY <1>1, <1>3, PageIs DEF Kinds
<1> HIDE DEF page
<1>5. CASE item.action = "Append"
  <2>1. ApplyNext(s, item) = FillContextFromPage(s, page)
    BY <1>5 DEF ApplyNext, page
  <2> QED
    BY <1>4, <2>1, FillContextSound
<1>6. CASE item.action # "Append" /\ item.update = "Autoplay"
  <2>1. ApplyNext(s, item) = [s EXCEPT !.ctx["Autoplay"] = c]
    BY <1>6 DEF ApplyNext
  <2>2. c \in Contexts
    BY <1>3, PageContext DEF Places
  <2> HIDE DEF c
  <2>3. [s EXCEPT !.ctx["Autoplay"] = c] \in Sound
    BY <2>2, ContextSet DEF Kinds
  <2>4. [s EXCEPT !.ctx["Autoplay"] = c].track = s.track
    BY DEF Sound, States
  <2> QED
    BY <2>1, <2>3, <2>4
<1>7. CASE item.action # "Append" /\ item.update # "Autoplay"
  <2> DEFINE u == item.uri
             p == Pages[item.uri][1]
  <2>1. ApplyNext(s, item) = UpdateDefault(s, u, p)
    BY <1>7 DEF ApplyNext
  <2>2. u \in DOMAIN Pages /\ p \in Seq(Uris)
    BY <1>1, <1>3
  <2> HIDE DEF u, p
  <2>3. UpdateDefault(s, u, p) \in Sound /\ UpdateDefault(s, u, p).track = s.track
    BY <2>2, UpdateDefaultSound
  <2> QED
    BY <2>1, <2>3
<1> QED
  BY <1>5, <1>6, <1>7

\* A state in which the track of another one still plays, if it is in the
\* context that is played.
StillPlays(s) ==
  {r \in Sound : FindIndex(r.ctx[r.active].tracks, s.track.uri) # Nowhere => r.track.uri = s.track.uri}

\* An answer sets playback up; without a transfer that waits, the track that
\* plays is found again.
LEMMA TryFinishSound ==
  ASSUME NEW s \in Sound, NEW t \in Transfers \cup {NoTransfer}, NEW update \in Kinds, NEW draw \in Draws
  PROVE  /\ TryFinish(s, t, update, draw) \in Sound
         /\ t = NoTransfer => TryFinish(s, t, update, draw) \in StillPlays(s)
<1> DEFINE active == s.ctx[s.active]
           at == FindIndex(active.tracks, s.track.uri)
           i == IF at = Nowhere THEN 0 ELSE at
           set == CASE t # NoTransfer -> FinishTransfer(s, t, draw)
                    [] t = NoTransfer /\ s.shuffle /\ update = "Default" -> ShuffleNew(s, draw)
                    [] t = NoTransfer /\ ~ (s.shuffle /\ update = "Default") ->
                         IF active.index = 0 THEN ResetPlaybackToPosition(s, i)
                         ELSE FillUpNextTracks(s)
           r == TryFinish(s, t, update, draw)
<1>1. r = UpdateRestrictions(Logged(set))
  BY Zenon DEF TryFinish, Logged
<1>2. active.tracks \in Seq(Tracks)
  BY SoundFields DEF Contexts
<1>3. at \in Places /\ i \in Nat
  BY <1>2, FindIndexIs DEF Places, Nowhere
<1>4. set \in Sound
  <2>1. t # NoTransfer => FinishTransfer(s, t, draw) \in Sound
    BY FinishTransferSound
  <2>2. ShuffleNew(s, draw) \in Sound /\ ResetPlaybackToPosition(s, i) \in Sound /\ FillUpNextTracks(s) \in Sound
    <3> HIDE DEF i
    <3> QED
      BY <1>3, ShuffleNewSound, ResetPlaybackSound, FillUpSound DEF SameContexts
  <2> HIDE DEF i
  <2> QED
    BY <2>1, <2>2
<1>5. ASSUME t = NoTransfer PROVE set \in StillPlays(s)
  <2>1. ShuffleNew(s, draw).track = s.track /\ FillUpNextTracks(s).track = s.track
    BY ShuffleNewSound, FillUpSound, FailSound DEF Filled
  <2>2. ResetPlaybackToPosition(s, i) \in StillPlays(s)
    <3> DEFINE p == ResetPlaybackToPosition(s, i)
    <3>1. p \in SameContexts(s)
      BY <1>3, ResetPlaybackSound
    <3>2. p.track = s.track \/ (i < Len(active.tracks) /\ p.track = active.tracks[i + 1])
      BY <1>3, ResetPlaybackSound
    <3>3. p.ctx[p.active].tracks = active.tracks
      <4> HIDE DEF p
      <4> QED
        BY <3>1, SoundFields DEF SameContexts
    <3>4. at # Nowhere => i = at /\ active.tracks[i + 1].uri = s.track.uri
      BY <1>2, FindIndexIs
    <3> HIDE DEF p, i
    <3>5. p \in Sound
      BY <3>1 DEF SameContexts
    <3> HIDE DEF active
    <3> QED
      BY <3>2, <3>3, <3>4, <3>5 DEF StillPlays, p
  <2> DEFINE a == ShuffleNew(s, draw)
             f == FillUpNextTracks(s)
             p == ResetPlaybackToPosition(s, i)
  <2>3. a \in StillPlays(s) /\ f \in StillPlays(s)
    <3>1. a \in Sound /\ f \in Sound
      BY ShuffleNewSound, FillUpSound
    <3> HIDE DEF a, f
    <3> QED
      BY <2>1, <3>1 DEF StillPlays, a, f
  <2>4. set = IF s.shuffle /\ update = "Default" THEN a ELSE IF active.index = 0 THEN p ELSE f
    <3> HIDE DEF a, f, p
    <3>1. FinishTransfer(s, t, draw) = FinishTransfer(s, t, draw)
      OBVIOUS
    <3> QED
      BY <1>5 DEF a, f, p
  <2> HIDE DEF set, a, f, p
  <2> QED
    BY <2>2, <2>3, <2>4 DEF p
<1> HIDE DEF set
<1>6. /\ Logged(set) \in Sound
      /\ Logged(set).track = set.track /\ Logged(set).ctx = set.ctx /\ Logged(set).active = set.active
  BY <1>4, LoggedSound
<1>7. /\ UpdateRestrictions(Logged(set)) \in Sound
      /\ UpdateRestrictions(Logged(set)).track = set.track /\ UpdateRestrictions(Logged(set)).ctx = set.ctx
      /\ UpdateRestrictions(Logged(set)).active = set.active
  BY <1>6, RestrictionsSound DEF Alike
<1> QED
  BY <1>1, <1>5, <1>7 DEF StillPlays

\* An answer to the head of the queue of the resolver, in all.
LEMMA HandledSound ==
  ASSUME NEW s \in Sound, NEW q \in Seq(Items), q # <<>>, NEW t \in Transfers \cup {NoTransfer}, NEW draw \in Draws
  PROVE  /\ Handled(s, q, t, draw)[1] \in Sound /\ Handled(s, q, t, draw)[2] \in Seq(Items)
         /\ Handled(s, q, t, draw)[3] \in Transfers \cup {NoTransfer}
         /\ t = NoTransfer => Handled(s, q, t, draw)[1] \in StillPlays(s)
<1> DEFINE item == Head(q)
           applied == Logged(ApplyNext(s, item))
           longer == IF ApplyNext(s, item).ok THEN Remaining(q, item) ELSE q
           finishes == LastOfItsKind(longer) /\ (item.update = "Autoplay" \/ applied.active = "Default")
           set == TryFinish(applied, t, item.update, draw)
           w == AddAutoplayResolving(set, longer)
           r == Handled(s, q, t, draw)
<1>1. r = IF finishes THEN <<set, Tail(w), NoTransfer>> ELSE <<applied, Tail(longer), t>>
  BY Zenon DEF Handled, Logged
<1>2. item \in Items /\ item.update \in Kinds
  <2>1. item \in Items
    OBVIOUS
  <2> HIDE DEF item
  <2> QED
    BY <2>1 DEF Items
<1>3. applied \in Sound /\ applied.track = s.track
  BY <1>2, ApplyNextSound, LoggedSound
<1>4. longer \in Longer(q)
  <2>1. q \in Longer(q)
    BY DEF Longer
  <2>2. Remaining(q, item) \in Longer(q)
    <3> HIDE DEF item
    <3> QED
      BY <1>2, RemainingLonger
  <2> QED
    BY <2>1, <2>2, Zenon
<1> HIDE DEF item, applied, longer
<1>5. set \in Sound /\ (t = NoTransfer => set \in StillPlays(applied))
  BY <1>2, <1>3, TryFinishSound
<1> HIDE DEF set
<1>6. w \in Longer(q)
  BY <1>4, <1>5, AutoplayLonger
<1> HIDE DEF w, finishes
<1>7. \A x \in Longer(q) : Tail(x) \in Seq(Items)
  <2> SUFFICES ASSUME NEW x \in Longer(q) PROVE Tail(x) \in Seq(Items)
    OBVIOUS
  <2>1. x \in Seq(Items) /\ Len(x) >= 1
    BY DEF Longer
  <2> QED
    BY <2>1
<1>8. Tail(w) \in Seq(Items) /\ Tail(longer) \in Seq(Items)
  BY <1>4, <1>6, <1>7
<1>9. t = NoTransfer => set \in StillPlays(s) /\ applied \in StillPlays(s)
  BY <1>3, <1>5 DEF StillPlays
<1>10. CASE finishes
  <2>1. r[1] = set /\ r[2] = Tail(w) /\ r[3] = NoTransfer
    BY <1>1, <1>10
  <2> QED
    BY <1>5, <1>8, <1>9, <2>1
<1>11. CASE ~ finishes
  <2>1. r[1] = applied /\ r[2] = Tail(longer) /\ r[3] = t
    BY <1>1, <1>11
  <2> QED
    BY <1>3, <1>8, <1>9, <2>1
<1> QED
  BY <1>10, <1>11

-----------------------------------------------------------------------------
(* The handlers of the event loop *)

\* A turn on the way to a track.
Onward(n, target) == IF ~ n.ok \/ target \in {"none", n.track.uri} THEN n ELSE NextTrack(n)

\* The way to a track goes from one state to the next.
LEMMA NextUntilSound ==
  ASSUME NEW s \in Sound, NEW target
  PROVE  NextUntil(s, target) \in Sound
<1> DEFINE x == NextTrack(s)
           n == Len(s.next)
           step == [k \in 1 .. n |-> [w \in Sound |-> Onward(w, target)]]
           Runs(f) == f = [k \in 0 .. n |-> IF k = 0 THEN NextTrack(s) ELSE Onward(f[k - 1], target)]
<1>1. n \in Nat
  BY SoundFields
<1>2. x \in Sound /\ \A w \in Sound : Onward(w, target) \in Sound
  BY NextTrackSound DEF Onward
<1>3. NextUntil(s, target) = (CHOOSE h : Runs(h))[n]
  BY Zenon DEF NextUntil, Onward
<1> HIDE DEF x, n
<1>4. step \in [1 .. n -> [Sound -> Sound]]
  BY <1>2
<1>5. Loops(Sound, x, n, step)
  <2> HIDE DEF step
  <2> QED
    BY <1>1, <1>2, <1>4, Iterated
<1>6. PICK f \in [0 .. n -> Sound] : f[0] = x /\ \A k \in 1 .. n : f[k] = step[k][f[k - 1]]
  BY <1>5 DEF Loops
<1>7. Runs(f)
  <2>1. ASSUME NEW k \in 0 .. n PROVE f[k] = IF k = 0 THEN x ELSE Onward(f[k - 1], target)
    <3>1. CASE k = 0
      BY <1>6, <3>1
    <3>2. CASE k # 0
      <4>1. k \in 1 .. n /\ k - 1 \in 0 .. n
        BY <1>1, <3>2
      <4>2. f[k - 1] \in Sound
        BY <4>1
      <4> QED
        BY <1>6, <3>2, <4>1, <4>2
    <3> QED
      BY <3>1, <3>2
  <2>2. f = [k \in 0 .. n |-> f[k]]
    OBVIOUS
  <2> QED
    BY <2>1, <2>2, Zenon DEF x
<1> DEFINE h == CHOOSE g : Runs(g)
<1>8. Runs(h)
  <2> HIDE DEF Runs
  <2> QED
    BY <1>7
<1>9. h = [k \in 0 .. n |-> IF k = 0 THEN x ELSE Onward(h[k - 1], target)]
  BY <1>8 DEF x
<1> HIDE DEF h
<1>10. h[0] = x /\ \A k \in 1 .. n : h[k] = Onward(h[k - 1], target)
  <2>1. \A k \in 0 .. n : h[k] = IF k = 0 THEN x ELSE Onward(h[k - 1], target)
    BY <1>9
  <2>2. 0 \in 0 .. n /\ \A k \in 1 .. n : k \in 0 .. n /\ k # 0
    BY <1>1
  <2> QED
    BY <2>1, <2>2
<1>11. ASSUME NEW k \in 1 .. n, h[k - 1] \in Sound PROVE h[k] \in Sound
  BY <1>2, <1>10, <1>11
<1>12. \A k \in 0 .. n : h[k] \in Sound
  BY <1>1, <1>2, <1>10, <1>11, Stays
<1> QED
  BY <1>1, <1>3, <1>12 DEF h

\* The step to the next track, or to the one that was asked for.
LEMMA HandleNextSound ==
  ASSUME NEW s \in Sound, NEW q \in Seq(Items), NEW target
  PROVE  HandleNext(s, q, target)[1] \in Sound /\ HandleNext(s, q, target)[2] \in Seq(Items)
<1> DEFINE n == IF target # "none" /\ s.track.uri = target THEN s ELSE NextUntil(s, target)
           w == AddAutoplayResolving(n, q)
           r == HandleNext(s, q, target)
<1>1. r = IF ~ n.ok THEN <<n, q>> ELSE IF n.track # NoTrack THEN <<n, w>> ELSE <<HandleStop(n), q>>
  BY Zenon DEF HandleNext
<1>2. n \in Sound
  BY NextUntilSound
<1> HIDE DEF n
<1>3. w \in Seq(Items)
  <2>1. q \in Longer(q)
    BY DEF Longer
  <2>2. w \in Longer(q)
    BY <1>2, <2>1, AutoplayLonger
  <2> QED
    BY <2>2 DEF Longer
<1>4. HandleStop(n) \in Sound
  BY <1>2, StopSound
<1> HIDE DEF w
<1>5. CASE ~ n.ok
  <2>1. r[1] = n /\ r[2] = q
    BY <1>1, <1>5
  <2> QED
    BY <1>2, <2>1
<1>6. CASE n.ok /\ n.track # NoTrack
  <2>1. r[1] = n /\ r[2] = w
    BY <1>1, <1>6
  <2> QED
    BY <1>2, <1>3, <2>1
<1>7. CASE n.ok /\ n.track = NoTrack
  <2>1. r[1] = HandleStop(n) /\ r[2] = q
    BY <1>1, <1>7
  <2> QED
    BY <1>4, <2>1
<1> QED
  BY <1>5, <1>6, <1>7

\* A list without a track is a list, and no longer.
LEMMA WithoutIs ==
  ASSUME NEW q \in Seq(Tracks), NEW uri
  PROVE  Without(q, uri) \in Seq(Tracks) /\ Len(Without(q, uri)) <= Len(q)
<1> DEFINE n == Len(q)
           Kept(w, t) == IF t.uri = uri THEN w ELSE Append(w, t)
           step == [k \in 1 .. n |-> [w \in Seq(Tracks) |-> Kept(w, q[k])]]
           Runs(f) == f = [i \in 0 .. n |-> IF i = 0 THEN <<>> ELSE Kept(f[i - 1], q[i])]
<1>1. n \in Nat /\ \A k \in 1 .. n : q[k] \in Tracks
  OBVIOUS
<1>2. <<>> \in Seq(Tracks) /\ Len(<<>>) = 0
  OBVIOUS
<1>3. ASSUME NEW k \in 1 .. n, NEW w \in Seq(Tracks)
      PROVE  Kept(w, q[k]) \in Seq(Tracks) /\ Len(Kept(w, q[k])) <= Len(w) + 1
  BY <1>1
<1> HIDE DEF Kept
<1>4. step \in [1 .. n -> [Seq(Tracks) -> Seq(Tracks)]]
  BY <1>3
<1>5. Loops(Seq(Tracks), <<>>, n, step)
  <2> HIDE DEF step, n
  <2> QED
    BY <1>1, <1>2, <1>4, Iterated
<1>6. PICK f \in [0 .. n -> Seq(Tracks)] : f[0] = <<>> /\ \A k \in 1 .. n : f[k] = step[k][f[k - 1]]
  BY <1>5 DEF Loops
<1>7. ASSUME NEW k \in 1 .. n PROVE f[k] = Kept(f[k - 1], q[k])
  <2>1. f[k - 1] \in Seq(Tracks)
    <3> HIDE DEF n, step
    <3> QED
      BY <1>1, Before
  <2> QED
    BY <1>6, <2>1
<1>8. Runs(f)
  <2> HIDE DEF n
  <2> QED
    BY <1>1, <1>6, <1>7
<1>9. Runs(CHOOSE g : Runs(g))
  <2> HIDE DEF Runs
  <2> QED
    BY <1>8
<1> DEFINE h == CHOOSE g : Runs(g)
<1>10. Without(q, uri) = h[n]
  BY Zenon DEF Without, Kept
<1>11. h = [i \in 0 .. n |-> IF i = 0 THEN <<>> ELSE Kept(h[i - 1], q[i])]
  BY <1>9
<1> HIDE DEF h
<1>12. h[0] = <<>> /\ \A k \in 1 .. n : h[k] = Kept(h[k - 1], q[k])
  <2> HIDE DEF n
  <2> QED
    BY <1>1, <1>11
<1>13. \A k \in 1 .. n : h[k - 1] \in Seq(Tracks) => h[k] \in Seq(Tracks)
  <2> TAKE k \in 1 .. n
  <2> HAVE h[k - 1] \in Seq(Tracks)
  <2>1. h[k] = Kept(h[k - 1], q[k])
    BY <1>12
  <2> HIDE DEF n
  <2> QED
    BY <1>3, <2>1, Zenon
<1>14. \A k \in 0 .. n : h[k] \in Seq(Tracks)
  <2> DEFINE S == Seq(Tracks)
  <2>1. h[0] \in S /\ \A k \in 1 .. n : h[k - 1] \in S => h[k] \in S
    BY <1>2, <1>12, <1>13
  <2> HIDE DEF n, S
  <2>2. \A k \in 0 .. n : h[k] \in S
    BY <1>1, <2>1, Stays
  <2> QED
    BY <2>2 DEF S
<1> DEFINE T == {i \in Nat : i <= n => Len(h[i]) <= i}
<1>15. 0 \in T
  BY <1>2, <1>12
<1>16. ASSUME NEW i \in Nat, i \in T PROVE i + 1 \in T
  <2> HIDE DEF n
  <2> SUFFICES ASSUME i + 1 <= n PROVE Len(h[i + 1]) <= i + 1
    OBVIOUS
  <2>1. i + 1 \in 1 .. n /\ (i + 1) - 1 = i /\ i \in 0 .. n /\ i + 1 \in 0 .. n
    BY <1>1
  <2>2. h[i] \in Seq(Tracks) /\ h[i + 1] \in Seq(Tracks) /\ h[i + 1] = Kept(h[i], q[i + 1])
    BY <1>12, <1>14, <2>1
  <2>3. Len(h[i + 1]) <= Len(h[i]) + 1
    BY <1>3, <2>1, <2>2
  <2>4. Len(h[i]) <= i
    BY <1>16, <2>1
  <2>5. Len(h[i]) \in Nat /\ Len(h[i + 1]) \in Nat
    BY <2>2
  <2> QED
    BY <2>3, <2>4, <2>5
<1>17. Nat \subseteq T
  <2> HIDE DEF T
  <2> QED
    BY <1>15, <1>16, AllNumbers
<1>18. n \in T /\ n \in 0 .. n
  BY <1>1, <1>17
<1> HIDE DEF n
<1>19. h[n] \in Seq(Tracks) /\ Len(h[n]) <= n
  BY <1>1, <1>14, <1>18
<1> QED
  BY <1>10, <1>19 DEF n

\* A track that could not be played leaves the lists.
LEMMA MarkSound ==
  ASSUME NEW s \in Sound, NEW uri \in Names
  PROVE  MarkUnavailable(s, uri) \in Sound
<1> DEFINE q == Without(s.next, uri)
           p == Without(s.prev, uri)
           b == s.bad \cup {uri}
           r == [s EXCEPT !.next = q, !.prev = p, !.bad = b]
<1>1. MarkUnavailable(s, uri) = FillUpNextTracks(r)
  BY Zenon DEF MarkUnavailable
<1>2. s.next \in Seq(Tracks) /\ s.prev \in Seq(Tracks) /\ Len(s.next) \in 0 .. NextLimit /\ Len(s.prev) \in 0 .. PrevLimit
      /\ s.bad \in SUBSET Names
  BY SoundFields
<1>3. q \in Seq(Tracks) /\ p \in Seq(Tracks) /\ Len(q) <= Len(s.next) /\ Len(p) <= Len(s.prev)
  BY <1>2, WithoutIs
<1> HIDE DEF q, p
<1>4. Len(q) <= NextLimit /\ Len(p) <= PrevLimit
  <2>1. Len(q) \in Nat /\ Len(p) \in Nat
    BY <1>3
  <2> QED
    BY <1>2, <1>3, <2>1 DEF Bounds
<1>5. b \in SUBSET Names
  BY <1>2
<1> HIDE DEF b
<1>6. r \in Sound
  BY <1>3, <1>4, <1>5 DEF Sound, States
<1> QED
  BY <1>1, <1>6, FillUpSound

\* What a context that was loaded starts with.
LEMMA StartLoadedSound ==
  ASSUME NEW l, l[1] \in Sound, l[2] \in Seq(Items), NEW pick \in Names, NEW o \in Options, NEW draw \in Draws
  PROVE  /\ StartLoaded(l, pick, o, draw)[1] \in Sound /\ StartLoaded(l, pick, o, draw)[2] \in Seq(Items)
         /\ StartLoaded(l, pick, o, draw)[3] = l[3]
<1> DEFINE z == l[1]
           q == l[2]
           c == ClearNextTracks(SetActiveContext(z, "Default"))
           s == [c EXCEPT !.shuffle = o.shuffle, !.context = o.context, !.repeat = o.repeat]
           tracks == s.ctx["Default"].tracks
           found == FindIndex(tracks, pick)
           at == IF found = Nowhere THEN 0 ELSE found
           random == IF pick = "none" /\ o.shuffle /\ tracks # <<>> THEN draw[1] % Len(tracks) ELSE at
           current == IF HasContext(s, "Default") THEN SetCurrentTrack(s, random) ELSE Fail(s)
           on == IF ~ o.shuffle THEN ResetPlaybackToPosition(current, at)
                 ELSE IF q # <<>> THEN current ELSE ShuffleNew(current, draw)
           ready == IF current.ok THEN on ELSE current
           waits == ~ ready.ok \/ (o.shuffle /\ q # <<>>)
           more == AddAutoplayResolving(ready, q)
           r == StartLoaded(l, pick, o, draw)
<1>1. r = <<ready, IF waits THEN q ELSE more, l[3]>>
  BY Zenon DEF StartLoaded, Then
<1> HIDE DEF z, q
<1>0. z \in Sound /\ q \in Seq(Items)
  BY DEF z, q
<1>2. SetActiveContext(z, "Default") \in Sound
  BY <1>0, ActiveSound DEF Kinds
<1>3. c \in Sound
  BY <1>2, ClearSound
<1> HIDE DEF c
<1>4. s \in Sound
  BY <1>3 DEF Sound, States, Options
<1> HIDE DEF s
<1>5. tracks \in Seq(Tracks)
  <2>1. s.ctx \in [Kinds -> Contexts]
    BY <1>4, SoundFields
  <2> QED
    BY <2>1 DEF Contexts, Kinds
<1> HIDE DEF tracks
<1>6. at \in Nat
  BY <1>5, FindIndexIs DEF Places, Nowhere
<1>7. random \in Nat
  <2>1. draw \in Seq(Nat) /\ draw # <<>>
    BY DEF Services
  <2>2. draw[1] \in Nat
    BY <2>1
  <2>3. tracks # <<>> => Len(tracks) \in Nat /\ Len(tracks) > 0
    BY <1>5
  <2> HIDE DEF at
  <2> QED
    BY <1>6, <2>2, <2>3
<1> HIDE DEF at, random
<1>8. current \in Sound
  BY <1>4, <1>7, CurrentSound, FailSound
<1> HIDE DEF current
<1>9. ResetPlaybackToPosition(current, at) \in Sound /\ ShuffleNew(current, draw) \in Sound
  BY <1>6, <1>8, ResetPlaybackSound, ShuffleNewSound DEF SameContexts
<1>10. ready \in Sound
  BY <1>8, <1>9
<1> HIDE DEF ready
<1>11. more \in Seq(Items)
  <2>1. q \in Longer(q)
    BY <1>0 DEF Longer
  <2>2. more \in Longer(q)
    BY <1>0, <1>10, <2>1, AutoplayLonger
  <2> QED
    BY <2>2 DEF Longer
<1> HIDE DEF more, waits
<1> QED
  BY <1>0, <1>1, <1>10, <1>11

-----------------------------------------------------------------------------
(* The invariant *)

\* The lists are sound after every handler; what is asked of the service it
\* can be asked for.
QueueInv == ConnectTypeOK /\ cs \in Sound

\* What there is at first.
LEMMA NewSound ==
  New \in Sound /\ New.ok
<1>1. [k \in Kinds |-> NoContext] \in [Kinds -> Contexts] /\ [k \in Kinds |-> NoContext]["Default"] \in WholeContexts
  BY NoContextWhole DEF WholeContexts, Kinds
<1> DEFINE x == [k \in Kinds |-> NoContext]
<1> HIDE DEF x
<1>2. x \in [Kinds -> Contexts] /\ x["Default"] \in WholeContexts
  BY <1>1 DEF x
<1>3. New = [track |-> NoTrack, prev |-> <<>>, next |-> <<>>, index |-> Nowhere,
   shuffle |-> FALSE, context |-> FALSE, repeat |-> FALSE,
   ctx |-> x, active |-> "Default", fill |-> "Default",
   uri |-> "none", bad |-> {}, fixed |-> FALSE, initial |-> "none", ok |-> TRUE]
  BY DEF New, x
<1>4. NoTrack \in Tracks /\ Nowhere \in Places /\ "none" \in Names /\ "Default" \in Kinds
  BY TracksAre DEF Places, Names, Kinds
<1>5. <<>> \in Seq(Tracks) /\ Len(<<>>) <= NextLimit /\ Len(<<>>) <= PrevLimit
  BY DEF Bounds
<1> HIDE DEF NoTrack
<1> QED
  BY <1>2, <1>3, <1>4, <1>5 DEF Sound, States

\* It holds at first.
LEMMA QueueInvInit ==
  ConnectInit => QueueInv
<1> SUFFICES ASSUME ConnectInit PROVE QueueInv
  OBVIOUS
<1>1. cs \in Sound /\ cs.ok
  BY NewSound DEF ConnectInit
<1>2. todo \in Seq(Items) /\ refused \subseteq Items /\ transfer \in Transfers \cup {NoTransfer}
  BY DEF ConnectInit
<1>3. left \in 0 .. Commands
  BY DEF ConnectInit, Bounds
<1> QED
  BY <1>1, <1>2, <1>3 DEF QueueInv, ConnectTypeOK, Sound

\* A handler that ends in a sound state keeps it.
LEMMA SetKeeps ==
  ASSUME NEW s \in Sound, NEW q \in Seq(Items), NEW t \in Transfers \cup {NoTransfer}, Set(s, q, t),
         refused' \subseteq Items, left' \in 0 .. Commands
  PROVE  QueueInv' /\ cs'.track = s.track /\ cs'.ctx = s.ctx /\ cs'.active = s.active
<1>1. cs' = Logged(s) /\ todo' = q /\ transfer' = t
  BY DEF Set, Logged
<1>2. cs' \in Sound /\ cs'.ok /\ cs'.track = s.track /\ cs'.ctx = s.ctx /\ cs'.active = s.active
  BY <1>1, LoggedSound
<1> QED
  BY <1>1, <1>2 DEF QueueInv, ConnectTypeOK, Sound

\* Nor do commands that are bounded run out twice.
LEMMA TakesOne ==
  ASSUME QueueInv, Takes
  PROVE  left' \in 0 .. Commands
BY DEF QueueInv, ConnectTypeOK, Takes, Bounds

\* A handler of the state alone.
LEMMA OnStateKeeps ==
  ASSUME QueueInv, NEW s \in Sound, OnState(s)
  PROVE  QueueInv' /\ cs'.track = s.track /\ cs'.ctx = s.ctx /\ cs'.active = s.active
<1>1. left' \in 0 .. Commands /\ Set(s, todo, transfer) /\ refused' = refused
  BY TakesOne DEF OnState
<1>2. todo \in Seq(Items) /\ transfer \in Transfers \cup {NoTransfer} /\ refused' \subseteq Items
  BY <1>1 DEF QueueInv, ConnectTypeOK
<1> QED
  BY <1>1, <1>2, SetKeeps

-----------------------------------------------------------------------------
(* Each handler keeps the invariant *)

\* What the invariant says of the parts of the state.
LEMMA InvParts ==
  ASSUME QueueInv
  PROVE  /\ cs \in Sound /\ cs.ok /\ todo \in Seq(Items) /\ refused \subseteq Items
         /\ transfer \in Transfers \cup {NoTransfer} /\ left \in 0 .. Commands
BY DEF QueueInv, ConnectTypeOK

\* The state a load or a transfer starts over from.
LEMMA WhenDifferentIs ==
  ASSUME NEW s, NEW uri
  PROVE  (IF uri = "web" THEN "Completely" ELSE WhenDifferent(s, uri)) \in {"Completely", "DefaultIndex", "Same"}
BY DEF WhenDifferent

\* The context that a load needs: a list of tracks, the context there is, or
\* what the service answers.
LEMMA LoadedSound ==
  ASSUME QueueInv, NEW s \in Sound, NEW uri \in DOMAIN Pages, NEW ty \in Kinds, NEW draw \in Draws, NEW answered \in BOOLEAN
  PROVE  /\ Loaded(s, uri, ty, draw, answered)[1] \in Sound /\ Loaded(s, uri, ty, draw, answered)[2] \in Seq(Items)
         /\ Loaded(s, uri, ty, draw, answered)[3] \in Transfers \cup {NoTransfer}
<1> DEFINE item == Item(uri, uri, ty, "Replace")
           here == SetActiveContext(s, ty)
           q == <<item>>
           h == Handled(here, q, transfer, draw)
           p == Pages["web"][1]
           u == UpdateDefault(s, "web", p)
           r == Loaded(s, uri, ty, draw, answered)
<1>1. r = CASE uri = "web" -> <<u, todo, transfer>>
            [] uri # "web" /\ s.uri = uri -> <<here, todo, transfer>>
            [] uri # "web" /\ s.uri # uri -> IF item \notin refused /\ answered THEN h ELSE <<here, <<>>, transfer>>
  BY Zenon DEF Loaded
<1>2. todo \in Seq(Items) /\ transfer \in Transfers \cup {NoTransfer}
  BY InvParts
<1>3. u \in Sound
  <2> DEFINE web == "web"
  <2>1. web \in DOMAIN Pages /\ 1 \in DOMAIN Pages[web]
    BY DEF Services
  <2>2. p \in Seq(Uris)
    BY <2>1, PageIs
  <2> HIDE DEF p
  <2> QED
    BY <2>1, <2>2, UpdateDefaultSound
<1>4. item \in Items
  BY ItemIs DEF Kinds
<1>11. here \in Sound
  BY ActiveSound
<1> HIDE DEF item, u, here
<1>5. q \in Seq(Items) /\ q # <<>>
  BY <1>4
<1> HIDE DEF q
<1>6. h[1] \in Sound /\ h[2] \in Seq(Items) /\ h[3] \in Transfers \cup {NoTransfer}
  BY <1>2, <1>5, <1>11, HandledSound
<1> HIDE DEF h
<1>7. <<>> \in Seq(Items)
  OBVIOUS
<1>8. CASE uri = "web"
  <2>1. r = <<u, todo, transfer>>
    BY <1>1, <1>8
  <2> HIDE DEF r
  <2> QED
    BY <1>2, <1>3, <2>1 DEF r
<1>9. CASE uri # "web" /\ s.uri = uri
  <2>1. r = <<here, todo, transfer>>
    BY <1>1, <1>9
  <2> HIDE DEF r
  <2> QED
    BY <1>2, <1>11, <2>1 DEF r
<1>10. CASE uri # "web" /\ s.uri # uri
  <2>1. r = h \/ r = <<here, <<>>, transfer>>
    BY <1>1, <1>10
  <2> DEFINE e == <<>>
  <2>2. e \in Seq(Items)
    BY <1>7
  <2> HIDE DEF r, e
  <2>3. CASE r = h
    BY <1>6, <2>3 DEF r
  <2>4. CASE r = <<here, e, transfer>>
    <3>1. r[1] = here /\ r[2] = e /\ r[3] = transfer
      BY <2>4
    <3> QED
      BY <1>2, <1>11, <2>2, <3>1 DEF r
  <2> QED
    BY <2>1, <2>3, <2>4 DEF e
<1> QED
  BY <1>8, <1>9, <1>10

\* Loading a context.
LEMMA LoadKeeps ==
  ASSUME QueueInv, NEW uri \in DOMAIN Pages, NEW pick \in Names, NEW o \in Options, NEW draw \in Draws,
         NEW answered \in BOOLEAN, Load(uri, pick, o, draw, answered)
  PROVE  QueueInv'
<1> DEFINE how == IF uri = "web" THEN "Completely" ELSE WhenDifferent(cs, uri)
           c == ResetContext(cs, how)
           reset == [c EXCEPT !.shuffle = FALSE, !.context = FALSE, !.repeat = FALSE]
           ty == IF o.auto THEN "Autoplay" ELSE "Default"
           l == Loaded(reset, uri, ty, draw, answered)
           done == StartLoaded(l, pick, o, draw)
           item == Item(uri, uri, ty, "Replace")
<1>1. /\ Takes
      /\ Set(done[1], done[2], done[3])
      /\ refused' = refused \cup {item} \/ refused' = refused
  BY Zenon DEF Load
<1>8. ty \in Kinds
  BY DEF Kinds
<1> HIDE DEF ty
<1>2. c \in Sound
  <2> HIDE DEF how
  <2>1. how \in {"Completely", "DefaultIndex", "Same"}
    BY WhenDifferentIs DEF how
  <2> QED
    BY <2>1, InvParts, ResetContextSound
<1> HIDE DEF c
<1>3. reset \in Sound
  BY <1>2 DEF Sound, States
<1> HIDE DEF reset
<1>4. l[1] \in Sound /\ l[2] \in Seq(Items) /\ l[3] \in Transfers \cup {NoTransfer}
  BY <1>3, <1>8, LoadedSound
<1> HIDE DEF l
<1>5. done[1] \in Sound /\ done[2] \in Seq(Items) /\ done[3] = l[3]
  BY <1>4, StartLoadedSound, Zenon
<1> HIDE DEF done
<1>6. item \in Items
  BY <1>8, ItemIs
<1> HIDE DEF item
<1>7. refused' \subseteq Items /\ left' \in 0 .. Commands
  BY <1>1, <1>6, InvParts, TakesOne
<1> QED
  BY <1>1, <1>4, <1>5, <1>7, SetKeeps

\* A transfer from another device.
LEMMA TransferKeeps ==
  ASSUME QueueInv, NEW t \in Transfers, TransferTo(t)
  PROVE  QueueInv'
<1> DEFINE how == IF t.uri = "web" THEN "Completely" ELSE WhenDifferent(cs, t.uri)
           c == ResetContext(cs, how)
           track == TrackFromTransfer(cs, t)
           reset == [c EXCEPT !.track = track]
           p == Pages["web"][1]
           loaded == IF t.uri = "web" THEN UpdateDefault(reset, "web", p) ELSE reset
           i == HandleInitialTransfer(loaded, t)
           there == [i EXCEPT !.active = "Default"]
           at == FindIndex(there.ctx["Default"].tracks, t.track)
           s == IF at = Nowhere THEN there ELSE ResetPlaybackToPosition(there, at)
           q == Added(todo, Item(t.uri, t.track, "Default", "Replace"))
<1>1. /\ Takes /\ refused' = refused
      /\ Set(s, todo, transfer) \/ Set(there, q, t)
  BY Zenon DEF TransferTo
<1>2. cs \in Sound /\ todo \in Seq(Items) /\ transfer \in Transfers \cup {NoTransfer} /\ refused \subseteq Items
  BY InvParts
<1>3. c \in Sound
  <2> HIDE DEF how
  <2>1. how \in {"Completely", "DefaultIndex", "Same"}
    BY WhenDifferentIs DEF how
  <2> QED
    BY <1>2, <2>1, ResetContextSound
<1> HIDE DEF c
<1>4. track \in Tracks
  BY <1>2, TransferTrack
<1> HIDE DEF track
<1>5. reset \in Sound
  BY <1>3, <1>4 DEF Sound, States
<1> HIDE DEF reset
<1>6. loaded \in Sound
  <2> DEFINE web == "web"
  <2>1. web \in DOMAIN Pages /\ 1 \in DOMAIN Pages[web]
    BY DEF Services
  <2>2. p \in Seq(Uris)
    BY <2>1, PageIs
  <2> HIDE DEF p
  <2>3. UpdateDefault(reset, web, p) \in Sound
    BY <1>5, <2>1, <2>2, UpdateDefaultSound
  <2> QED
    BY <1>5, <2>3
<1> HIDE DEF loaded
<1>7. i \in Sound
  BY <1>6, InitialTransferSound
<1> HIDE DEF i
<1>8. there \in Sound
  BY <1>7 DEF Sound, States, Kinds
<1> HIDE DEF there
<1>9. s \in Sound
  <2>1. there.ctx["Default"].tracks \in Seq(Tracks)
    BY <1>8, SoundFields DEF WholeContexts, Contexts
  <2>2. at \in Places
    BY <2>1, FindIndexIs
  <2> HIDE DEF at
  <2>3. at # Nowhere => at \in Nat
    BY <2>2 DEF Places
  <2> QED
    BY <1>8, <2>3, ResetPlaybackSound DEF SameContexts
<1> HIDE DEF s
<1>10. q \in Seq(Items)
  <2> DEFINE item == Item(t.uri, t.track, "Default", "Replace")
  <2>1. item \in Items
    BY HandedOver, ItemIs DEF Kinds
  <2> HIDE DEF item
  <2>2. todo \in Longer(todo)
    BY <1>2 DEF Longer
  <2>3. Added(todo, item) \in Longer(todo)
    BY <1>2, <2>1, <2>2, AddedLonger
  <2> QED
    BY <2>3 DEF item, Longer
<1> HIDE DEF q
<1>11. refused' \subseteq Items /\ left' \in 0 .. Commands
  BY <1>1, <1>2, TakesOne
<1> QED
  BY <1>1, <1>2, <1>8, <1>9, <1>10, <1>11, SetKeeps

\* An answer of the service.
LEMMA ResolveKeeps ==
  ASSUME QueueInv, NEW draw \in Draws, Resolve(draw)
  PROVE  QueueInv' /\ (transfer = NoTransfer => cs' \in StillPlays(cs))
<1> DEFINE r == Handled(cs, todo, transfer, draw)
<1>1. todo # <<>> /\ Set(r[1], r[2], r[3]) /\ refused' = refused /\ left' = left
  BY DEF Resolve
<1>2. /\ cs \in Sound /\ todo \in Seq(Items) /\ transfer \in Transfers \cup {NoTransfer}
      /\ refused' \subseteq Items /\ left' \in 0 .. Commands
  BY <1>1, InvParts
<1>3. /\ r[1] \in Sound /\ r[2] \in Seq(Items) /\ r[3] \in Transfers \cup {NoTransfer}
      /\ transfer = NoTransfer => r[1] \in StillPlays(cs)
  BY <1>1, <1>2, HandledSound
<1> HIDE DEF r
<1>4. QueueInv' /\ cs'.track = r[1].track /\ cs'.ctx = r[1].ctx /\ cs'.active = r[1].active
  BY <1>1, <1>2, <1>3, SetKeeps
<1>5. cs' \in Sound
  BY <1>4 DEF QueueInv
<1> QED
  BY <1>3, <1>4, <1>5 DEF StillPlays

\* A step on, for whatever reason.
LEMMA MovesKeeps ==
  ASSUME QueueInv, NEW r, r[1] \in Sound, r[2] \in Seq(Items), Moves(r)
  PROVE  QueueInv'
<1>1. left' \in 0 .. Commands /\ Set(r[1], r[2], transfer) /\ refused' \subseteq Items
      /\ transfer \in Transfers \cup {NoTransfer}
  BY TakesOne, InvParts DEF Moves
<1> QED
  BY <1>1, SetKeeps

\* The step to the track before.
LEMMA SkipPrevKeeps ==
  ASSUME QueueInv, SkipPrev
  PROVE  QueueInv'
<1> DEFINE p == PrevTrack(cs)
           start == ResetPlaybackToPosition(p, 0)
           stop == HandleStop(start)
           s == IF ~ p.ok \/ p.track # NoTrack THEN p ELSE IF cs.context \/ ~ start.ok THEN start ELSE stop
<1>1. OnState(s)
  BY Zenon DEF SkipPrev
<1>2. p \in Sound
  BY InvParts, PrevTrackSound
<1> HIDE DEF p
<1>3. start \in Sound
  BY <1>2, ResetPlaybackSound DEF SameContexts
<1> HIDE DEF start
<1>4. stop \in Sound
  BY <1>3, StopSound
<1> HIDE DEF stop
<1>5. s \in Sound
  BY <1>2, <1>3, <1>4
<1> HIDE DEF s
<1> QED
  BY <1>1, <1>5, OnStateKeeps

\* Shuffling, and putting the context in order again.
LEMMA HandleShuffleKeeps ==
  ASSUME QueueInv, NEW on \in BOOLEAN, NEW draw \in Draws, HandleShuffle(on, draw)
  PROVE  QueueInv'
<1> DEFINE set == [cs EXCEPT !.shuffle = on]
           reset == ResetContext(set, "DefaultIndex")
           at == IF cs.track.at # Nowhere THEN cs.track.at ELSE FindIndex(reset.ctx["Default"].tracks, cs.track.uri)
           mixed == ShuffleNew(set, draw)
           sorted == ResetPlaybackToPosition(reset, at)
           s == IF on THEN mixed ELSE IF cs.track = NoTrack \/ at = Nowhere THEN reset ELSE sorted
<1>1. OnState(s)
  BY Zenon DEF HandleShuffle
<1>2. cs \in Sound
  BY InvParts
<1>3. set \in Sound
  BY <1>2 DEF Sound, States
<1> HIDE DEF set
<1>4. mixed \in Sound /\ reset \in Sound
  BY <1>3, ShuffleNewSound, ResetContextSound
<1> HIDE DEF mixed, reset
<1>5. at \in Places
  <2>1. cs.track.at \in Places
    BY <1>2, SoundFields DEF Tracks
  <2>2. reset.ctx["Default"].tracks \in Seq(Tracks)
    BY <1>4, SoundFields DEF WholeContexts, Contexts
  <2>3. FindIndex(reset.ctx["Default"].tracks, cs.track.uri) \in Places
    BY <2>2, FindIndexIs
  <2> QED
    BY <2>1, <2>3
<1> HIDE DEF at
<1>6. at # Nowhere => sorted \in Sound
  BY <1>4, <1>5, ResetPlaybackSound DEF Places, SameContexts
<1> HIDE DEF sorted
<1>7. s \in Sound
  BY <1>4, <1>6
<1> HIDE DEF s
<1> QED
  BY <1>1, <1>7, OnStateKeeps

\* Repeating the context, which finds the track that plays again.
LEMMA RepeatContextKeeps ==
  ASSUME QueueInv, NEW on \in BOOLEAN, HandleRepeatContext(on)
  PROVE  /\ QueueInv'
         /\ cs.active = "Default" \/ FindIndex(cs.ctx["Default"].tracks, cs.track.uri) = Nowhere
              => cs'.track.uri = cs.track.uri
<1> DEFINE fill == IF on THEN "Default" ELSE cs.fill
           set == [cs EXCEPT !.context = on, !.fill = fill]
           tracks == cs.ctx["Default"].tracks
           at == FindIndex(tracks, cs.track.uri)
           found == ResetPlaybackToPosition(set, at)
           s == IF at = Nowhere THEN set ELSE found
<1>1. cs \in Sound
  BY InvParts
<1>2. fill \in Kinds
  BY <1>1, SoundFields DEF Kinds
<1>3. OnState(s)
  <2>1. [cs EXCEPT !.context = on, !.fill = IF on THEN "Default" ELSE @] = set
    BY Zenon
  <2>2. set.ctx = cs.ctx
    BY <1>1 DEF Sound, States
  <2> QED
    BY <2>1, <2>2, Zenon DEF HandleRepeatContext
<1> HIDE DEF fill
<1>4. set \in Sound /\ set.ctx = cs.ctx /\ set.track = cs.track /\ set.active = cs.active
  BY <1>1, <1>2 DEF Sound, States
<1> HIDE DEF set
<1>5. tracks \in Seq(Tracks)
  BY <1>1, SoundFields DEF WholeContexts, Contexts
<1>6. at \in Places /\ (at # Nowhere => at \in Nat /\ tracks[at + 1].uri = cs.track.uri)
  BY <1>5, FindIndexIs DEF Places
<1> HIDE DEF at
<1>7. ASSUME at # Nowhere
      PROVE  /\ found \in Sound
             /\ found.track = set.track \/ found.track = set.ctx[set.active].tracks[at + 1]
  <2>1. at \in Nat
    BY <1>6, <1>7
  <2> QED
    BY <1>4, <2>1, ResetPlaybackSound DEF SameContexts
<1> HIDE DEF found
<1>8. s \in Sound
  BY <1>4, <1>7
<1>9. cs.active = "Default" \/ at = Nowhere => s.track.uri = cs.track.uri
  BY <1>4, <1>6, <1>7
<1> HIDE DEF s
<1>10. QueueInv' /\ cs'.track = s.track
  BY <1>3, <1>8, OnStateKeeps
<1> QED
  BY <1>9, <1>10 DEF at

\* The list that comes back has a track less, or two exchanged.
LEMMA RearrangedIs ==
  ASSUME QueueInv, NEW l \in Rearranged
  PROVE  l.next \in Seq(Tracks) /\ Len(l.next) <= NextLimit /\ l.prev \in Seq(Tracks) /\ Len(l.prev) <= PrevLimit
<1> DEFINE v == cs.next
           n == Len(v)
<1>1. v \in Seq(Tracks) /\ n \in 0 .. NextLimit /\ cs.prev \in Seq(Tracks) /\ Len(cs.prev) <= PrevLimit
  BY InvParts, SoundFields
<1>2. ASSUME NEW i \in DOMAIN v PROVE RemoveAt(v, i) \in Seq(Tracks) /\ Len(RemoveAt(v, i)) <= NextLimit
  <2> DEFINE a == SubSeq(v, 1, i - 1)
             b == SubSeq(v, i + 1, n)
  <2> HIDE DEF v
  <2>0. i \in 1 .. Len(v) /\ v \in Seq(Tracks)
    BY <1>1
  <2>5. a \in Seq(Tracks) /\ Len(a) = i - 1
    BY <2>0
  <2>6. b \in Seq(Tracks) /\ Len(b) = n - i
    <3>1. i + 1 \in 1 .. n + 1 /\ n \in Nat /\ n - (i + 1) + 1 = n - i /\ n <= Len(v)
      BY <2>0
    <3>2. b \in Seq(Tracks)
      BY <2>0, <3>1
    <3>3. Len(b) = IF i + 1 <= n THEN n - (i + 1) + 1 ELSE 0
      BY <2>0, <3>1
    <3> QED
      BY <2>0, <3>1, <3>2, <3>3
  <2>1. a \in Seq(Tracks) /\ b \in Seq(Tracks) /\ Len(a) = i - 1 /\ Len(b) = n - i
    BY <2>5, <2>6
  <2>2. a \o b \in Seq(Tracks) /\ Len(a \o b) = Len(a) + Len(b)
    <3> HIDE DEF a, b
    <3> QED
      BY <2>1, ConcatProperties, Zenon
  <2>3. RemoveAt(v, i) = a \o b
    BY DEF RemoveAt
  <2>4. n \in Nat /\ n <= NextLimit /\ i \in Nat /\ (i - 1) + (n - i) <= n
    BY <1>1, <2>0
  <2> HIDE DEF a, b, n
  <2> QED
    BY <2>1, <2>2, <2>3, <2>4
<1>3. ASSUME NEW i \in DOMAIN v, NEW j \in DOMAIN v
      PROVE  Swapped(v, i - 1, j - 1) \in Seq(Tracks) /\ Len(Swapped(v, i - 1, j - 1)) <= NextLimit
  <2> HIDE DEF v
  <2>0. i \in 1 .. n /\ j \in 1 .. n
    BY <1>1
  <2>1. i - 1 \in 0 .. Len(v) - 1 /\ j - 1 \in 0 .. Len(v) - 1
    BY <1>1, <2>0
  <2>2. Swapped(v, i - 1, j - 1) \in Same(v)
    BY <1>1, <2>1, SwappedSame
  <2> QED
    BY <1>1, <2>2 DEF Same
<1>4. /\ l.prev = cs.prev
      /\ \/ \E i \in DOMAIN v : l.next = RemoveAt(v, i)
         \/ \E i, j \in DOMAIN v : l.next = Swapped(v, i - 1, j - 1)
  BY DEF Rearranged
<1> HIDE DEF v, n
<1> QED
  BY <1>1, <1>2, <1>3, <1>4

\* What a client sends takes the place of the lists.
LEMMA SetQueueKeeps ==
  ASSUME QueueInv, NEW l \in ClientLists \cup Rearranged, SetQueue(l)
  PROVE  QueueInv' /\ cs'.track = cs.track
<1> DEFINE n == Len(l.next)
           q == [i \in DOMAIN l.next |-> Received(l.next[i], i \in l.queued)]
           p == l.prev
           s == [cs EXCEPT !.next = q, !.prev = p]
<1>1. OnState(s)
  BY Zenon DEF SetQueue
<1>2. cs \in Sound /\ cs.track \in Tracks
  BY InvParts, SoundFields
<1>3. l.next \in Seq(Tracks) /\ n <= NextLimit /\ p \in Seq(Tracks) /\ Len(p) <= PrevLimit
  <2>1. CASE l \in Rearranged
    BY <2>1, RearrangedIs
  <2>2. CASE l \in ClientLists
    <3>1. /\ l.next \in Seq(Tracks) /\ Len(l.next) <= Longest /\ Len(l.next) \in Nat
          /\ l.prev \in Seq(Tracks) /\ Len(l.prev) <= Longest /\ Len(l.prev) \in Nat
      BY <2>2, Clients
    <3>2. Longest \in Nat /\ Longest <= NextLimit /\ Longest <= PrevLimit
      BY Clients DEF NextLimit, PrevLimit
    <3> QED
      BY <3>1, <3>2
  <2> QED
    BY <2>1, <2>2
<1>4. ASSUME NEW t \in Tracks, NEW queued \in BOOLEAN PROVE Received(t, queued) \in Tracks
  <2> DEFINE uri == IF t.uri = "none" THEN cs.track.uri ELSE t.uri
             by == IF queued THEN "queue" ELSE t.by
  <2>1. uri \in Names /\ by \in {"none", "context", "queue", "autoplay", "unavailable"}
    BY <1>2 DEF Tracks
  <2>2. Received(t, queued) = [t EXCEPT !.uri = uri, !.by = by]
    BY DEF Received, Tracks
  <2> HIDE DEF uri, by
  <2> QED
    BY <2>1, <2>2 DEF Tracks
<1>5. ASSUME NEW i \in 1 .. n PROVE Received(l.next[i], i \in l.queued) \in Tracks
  <2> DEFINE t == l.next[i]
             queued == i \in l.queued
  <2>1. t \in Tracks /\ queued \in BOOLEAN
    BY <1>3
  <2> HIDE DEF t, queued
  <2>2. Received(t, queued) \in Tracks
    BY <1>4, <2>1
  <2> QED
    BY <2>2 DEF t, queued
<1>6. q \in Seq(Tracks) /\ Len(q) = n
  <2>1. DOMAIN l.next = 1 .. n /\ n \in Nat
    BY <1>3
  <2>2. q \in [1 .. n -> Tracks]
    <3> DEFINE f(i) == Received(l.next[i], i \in l.queued)
    <3>1. q = [i \in 1 .. n |-> f(i)]
      BY <2>1
    <3>2. \A i \in 1 .. n : f(i) \in Tracks
      BY <1>5
    <3> HIDE DEF f
    <3> QED
      BY <3>1, <3>2
  <2> HIDE DEF q, n
  <2> QED
    BY <2>1, <2>2, FunctionList
<1> HIDE DEF q, p, n
<1>7. s \in Sound /\ s.track = cs.track
  BY <1>2, <1>3, <1>6 DEF Sound, States
<1> HIDE DEF s
<1> QED
  BY <1>1, <1>7, OnStateKeeps

\* A track that the player could not load.
LEMMA UnavailableKeeps ==
  ASSUME QueueInv, NEW uri \in Names, Unavailable(uri)
  PROVE  QueueInv'
<1> DEFINE marked == MarkUnavailable(cs, uri)
           r == HandleNext(marked, todo, "none")
<1>1. Moves(r) \/ OnState(marked)
  BY Zenon DEF Unavailable
<1>2. marked \in Sound /\ todo \in Seq(Items)
  BY InvParts, MarkSound
<1> HIDE DEF marked
<1>3. r[1] \in Sound /\ r[2] \in Seq(Items)
  BY <1>2, HandleNextSound
<1> HIDE DEF r
<1> QED
  BY <1>1, <1>2, <1>3, MovesKeeps, OnStateKeeps

\* A context that is asked for again.
LEMMA ContextChangedKeeps ==
  ASSUME QueueInv, NEW fallback \in Names, ContextChanged(fallback)
  PROVE  QueueInv'
<1> DEFINE item == Item(cs.uri, fallback, "Default", "Replace")
<1>1. cs.uri \in DOMAIN Pages /\ todo' = Added(todo, item) /\ cs' = cs /\ refused' = refused /\ transfer' = transfer
      /\ left' \in 0 .. Commands
  BY TakesOne DEF ContextChanged
<1>2. item \in Items
  BY <1>1, ItemIs DEF Kinds
<1> HIDE DEF item
<1>3. todo \in Longer(todo)
  BY InvParts DEF Longer
<1>4. todo' \in Seq(Items)
  BY <1>1, <1>2, <1>3, InvParts, AddedLonger DEF Longer
<1> QED
  BY <1>1, <1>4 DEF QueueInv, ConnectTypeOK

\* Another device takes over.
LEMMA InactiveKeeps ==
  ASSUME QueueInv, BecameInactive
  PROVE  QueueInv'
<1> DEFINE n == [New EXCEPT !.bad = cs.bad, !.initial = cs.initial]
           c == ResetContext(n, "Completely")
           s == HandleStop(c)
<1>1. left' \in 0 .. Commands /\ Set(s, <<>>, transfer) /\ refused' = refused
  BY TakesOne DEF BecameInactive
<1>2. n \in Sound
  <2> DEFINE new == New
  <2>1. new \in Sound
    BY NewSound
  <2>2. cs.bad \in SUBSET Names /\ cs.initial \in Names
    BY InvParts, SoundFields
  <2> HIDE DEF new
  <2>3. [new EXCEPT !.bad = cs.bad, !.initial = cs.initial] \in Sound
    BY <2>1, <2>2 DEF Sound, States
  <2> QED
    BY <2>3 DEF new
<1> HIDE DEF n
<1>3. c \in Sound
  BY <1>2, ResetContextSound
<1> HIDE DEF c
<1>4. s \in Sound
  BY <1>3, StopSound
<1> HIDE DEF s
<1>5. <<>> \in Seq(Items) /\ transfer \in Transfers \cup {NoTransfer} /\ refused' \subseteq Items
  BY <1>1, InvParts
<1> QED
  BY <1>1, <1>4, <1>5, SetKeeps

\* What a client may queue has a name.
LEMMA QueuedNames ==
  ASSUME NEW uri \in Extra
  PROVE  uri \in Names
<1>2. uri \in Uris
  BY DEF Uris
<1> QED
  BY <1>2 DEF Names

\* An edit of the queue or of what is repeated.
LEMMA EditKeeps ==
  ASSUME QueueInv
  PROVE  /\ \A on \in BOOLEAN : HandleRepeatTrack(on) => QueueInv' /\ cs'.track = cs.track
         /\ \A uri \in Extra : Queue(uri) => QueueInv' /\ cs'.track = cs.track
<1>1. cs \in Sound
  BY InvParts
<1>2. ASSUME NEW on \in BOOLEAN, HandleRepeatTrack(on) PROVE QueueInv' /\ cs'.track = cs.track
  <2> DEFINE s == [cs EXCEPT !.repeat = on]
  <2>1. s \in Sound /\ s.track = cs.track
    BY <1>1 DEF Sound, States
  <2>2. OnState(s)
    BY <1>2, Zenon DEF HandleRepeatTrack
  <2> HIDE DEF s
  <2> QED
    BY <2>1, <2>2, OnStateKeeps
<1>3. ASSUME NEW uri \in Extra, Queue(uri) PROVE QueueInv' /\ cs'.track = cs.track
  <2> DEFINE s == AddToQueue(cs, uri)
  <2>1. uri \in Names
    BY QueuedNames
  <2>2. s \in Sound /\ s.track = cs.track
    BY <1>1, <2>1, AddToQueueSound
  <2>3. OnState(s)
    BY <1>3 DEF Queue
  <2> HIDE DEF s
  <2> QED
    BY <2>2, <2>3, OnStateKeeps
<1> QED
  BY <1>2, <1>3

\* Every step keeps the invariant.
LEMMA QueueInvStep ==
  ASSUME QueueInv, [ConnectNext]_connectVars
  PROVE  QueueInv'
<1>1. CASE UNCHANGED connectVars
  BY <1>1 DEF QueueInv, ConnectTypeOK, connectVars
<1>2. \A uri \in Uris \cup {"none"} : uri \in Names
  BY DEF Names
<1>3. ASSUME Edits PROVE QueueInv'
  <2>1. \A on \in BOOLEAN : HandleRepeatContext(on) => QueueInv'
    BY RepeatContextKeeps
  <2>2. \A on \in BOOLEAN : HandleRepeatTrack(on) => QueueInv'
    BY EditKeeps
  <2>3. \A on \in BOOLEAN, draw \in Draws : HandleShuffle(on, draw) => QueueInv'
    BY HandleShuffleKeeps
  <2>4. \A uri \in Extra : Queue(uri) => QueueInv'
    BY EditKeeps
  <2>5. \A l \in ClientLists \cup Rearranged : SetQueue(l) => QueueInv'
    BY SetQueueKeeps
  <2>6. \A fallback \in {"none", cs.track.uri} : ContextChanged(fallback) => QueueInv'
    <3>1. cs.track.uri \in Names /\ "none" \in Names
      BY InvParts, SoundFields DEF Tracks, Names
    <3> QED
      BY <3>1, ContextChangedKeeps
  <2> QED
    BY <1>3, <2>1, <2>2, <2>3, <2>4, <2>5, <2>6, Zenon DEF Edits
<1>4. ASSUME NEW uri \in DOMAIN Pages, NEW pick \in {"none"} \cup Range(Pages[uri][1])
      PROVE  pick \in Names
  <2>1. Pages[uri] \in Seq(Seq(Uris)) /\ Pages[uri] # <<>>
    BY Services
  <2>2. Pages[uri][1] \in Seq(Uris)
    BY <2>1
  <2>3. Range(Pages[uri][1]) \subseteq Uris
    BY <2>2 DEF Range
  <2> QED
    BY <2>3 DEF Names
<1>5. \A t \in Transfers : TransferTo(t) => QueueInv'
  BY TransferKeeps
<1>6. \A draw \in Draws : Resolve(draw) => QueueInv'
  BY ResolveKeeps
<1>7. ASSUME ResolveFails PROVE QueueInv'
  <2>1. /\ cs' = cs /\ todo' = Tail(todo) /\ transfer' = transfer /\ todo # <<>>
        /\ refused' = refused \cup {Head(todo)} /\ left' \in 0 .. Commands
    BY <1>7, TakesOne DEF ResolveFails
  <2>2. todo \in Seq(Items) /\ refused \subseteq Items
    BY InvParts
  <2>3. Tail(todo) \in Seq(Items) /\ Head(todo) \in Items
    BY <2>1, <2>2
  <2> QED
    BY <2>1, <2>2, <2>3 DEF QueueInv, ConnectTypeOK
<1>8. ASSUME NEW item \in refused, Retry(item) PROVE QueueInv'
  <2>1. cs' = cs /\ todo' = todo /\ transfer' = transfer /\ refused' \subseteq refused /\ left' \in 0 .. Commands
    BY <1>8, TakesOne DEF Retry
  <2> QED
    BY <2>1 DEF QueueInv, ConnectTypeOK
<1>9. ASSUME NEW target, SkipNext(target) PROVE QueueInv'
  <2> DEFINE r == HandleNext(cs, todo, target)
  <2>1. Moves(r)
    BY <1>9 DEF SkipNext
  <2>2. r[1] \in Sound /\ r[2] \in Seq(Items)
    BY InvParts, HandleNextSound
  <2> HIDE DEF r
  <2> QED
    BY <2>1, <2>2, MovesKeeps
<1>10. ASSUME EndOfTrack PROVE QueueInv'
  <2> DEFINE target == IF cs.repeat THEN cs.track.uri ELSE "none"
             r == HandleNext(cs, todo, target)
  <2>1. Moves(r)
    BY <1>10, Zenon DEF EndOfTrack
  <2> HIDE DEF target
  <2>2. r[1] \in Sound /\ r[2] \in Seq(Items)
    BY InvParts, HandleNextSound
  <2> HIDE DEF r
  <2> QED
    BY <2>1, <2>2, MovesKeeps
<1>11. SkipPrev => QueueInv'
  BY SkipPrevKeeps
<1>12. ASSUME Stop PROVE QueueInv'
  <2> DEFINE s == HandleStop(cs)
  <2>1. OnState(s)
    BY <1>12 DEF Stop
  <2>2. s \in Sound
    BY InvParts, StopSound
  <2> HIDE DEF s
  <2> QED
    BY <2>1, <2>2, OnStateKeeps
<1>13. \A uri \in Uris : Unavailable(uri) => QueueInv'
  BY <1>2, UnavailableKeeps
<1>14. BecameInactive => QueueInv'
  BY InactiveKeeps
<1>15. CASE ConnectNext
  <2>1. ASSUME \E uri \in DOMAIN Pages, o \in Options, draw \in Draws, answered \in BOOLEAN :
                 \E pick \in {"none"} \cup Range(Pages[uri][1]) : Load(uri, pick, o, draw, answered)
        PROVE  QueueInv'
    <3>1. PICK uri \in DOMAIN Pages, o \in Options, draw \in Draws, answered \in BOOLEAN :
            \E pick \in {"none"} \cup Range(Pages[uri][1]) : Load(uri, pick, o, draw, answered)
      BY <2>1
    <3>2. PICK pick \in {"none"} \cup Range(Pages[uri][1]) : Load(uri, pick, o, draw, answered)
      BY <3>1
    <3>3. pick \in Names
      BY <1>4
    <3> QED
      BY <3>2, <3>3, LoadKeeps
  <2>2. ASSUME \E target \in Uris \cup {"none"} : SkipNext(target) PROVE QueueInv'
    BY <1>9, <2>2
  <2>3. ASSUME \E item \in refused : Retry(item) PROVE QueueInv'
    BY <1>8, <2>3
  <2>4. ASSUME \E uri \in Uris : Unavailable(uri) PROVE QueueInv'
    BY <1>13, <2>4
  <2>5. ASSUME (\E t \in Transfers : TransferTo(t)) \/ (\E draw \in Draws : Resolve(draw)) PROVE QueueInv'
    BY <1>5, <1>6, <2>5
  <2> QED
    BY <1>3, <1>7, <1>10, <1>11, <1>12, <1>14, <1>15, <2>1, <2>2, <2>3, <2>4, <2>5 DEF ConnectNext
<1> QED
  BY <1>1, <1>15

\* The invariant holds throughout.
LEMMA QueueInvariant ==
  ConnectSpec => []QueueInv
<1>1. ConnectInit => QueueInv
  BY QueueInvInit
<1>2. QueueInv /\ [ConnectNext]_connectVars => QueueInv'
  BY QueueInvStep
<1> QED
  BY <1>1, <1>2, PTL DEF ConnectSpec

\* However long the way back and forth, the lists never outgrow their limits
\* but by what clients send, and shuffling, restoring and appending lose or double no position of the
\* context: for all pages, radios, limits, draws and transfers.
THEOREM QueueStaysSound ==
  ConnectSpec => []ListsSound
<1>1. QueueInv => ListsSound
  <2> SUFFICES ASSUME QueueInv PROVE ListsSound
    OBVIOUS
  <2>1. cs \in Sound
    BY InvParts
  <2>2. PositionsOnce
    BY <2>1 DEF PositionsOnce, Sound, WholeContexts, Numbered
  <2>3. Bounded
    BY <2>1 DEF Bounded, Sound
  <2> QED
    BY <2>2, <2>3 DEF ListsSound, QueueInv
<1> QED
  BY <1>1, QueueInvariant, PTL

\* Going back after going on returns to the track that was left, where at least
\* two played tracks are kept.
THEOREM BackUndoesOn ==
  ASSUME MaxPrev # 1
  PROVE  ConnectSpec => []PrevUndoesNext
<1>1. QueueInv => PrevUndoesNext
  <2> SUFFICES ASSUME QueueInv,
                      NextTrack(cs).ok, NextTrack(cs).track # NoTrack,
                      Cardinality({i \in DOMAIN NextTrack(cs).prev : NextTrack(cs).prev[i] = Delimiter}) <= 1,
                      cs.track.by \in {"context", "autoplay"}, cs.track # Delimiter
               PROVE  PrevTrack(NextTrack(cs)).track = cs.track
    BY Zenon DEF PrevUndoesNext
  <2>1. cs \in Sound
    BY InvParts
  <2> QED
    BY <2>1, BackAgain
<1> QED
  BY <1>1, QueueInvariant, PTL

\* Editing the queue, toggling repeat and a context that arrives do not change
\* what plays, but for the cases that the property names.
THEOREM EditsKeepTrack ==
  ConnectSpec => CurrentKept
<1> DEFINE A == cs'.track.uri # cs.track.uri =>
                  ~ (\/ \E on \in BOOLEAN : HandleRepeatTrack(on)
                     \/ /\ cs.active = "Default" \/ FindIndex(cs.ctx["Default"].tracks, cs.track.uri) = Nowhere
                        /\ \E on \in BOOLEAN : HandleRepeatContext(on)
                     \/ \E uri \in Extra : Queue(uri)
                     \/ \E l \in ClientLists \cup Rearranged : SetQueue(l)
                     \/ /\ transfer = NoTransfer
                        /\ FindIndex(cs'.ctx[cs'.active].tracks, cs.track.uri) # Nowhere
                        /\ \E draw \in Draws : Resolve(draw))
<1>1. QueueInv /\ [ConnectNext]_connectVars => [A]_connectVars
  <2> SUFFICES ASSUME QueueInv PROVE A
    OBVIOUS
  <2>1. ASSUME NEW on \in BOOLEAN, HandleRepeatTrack(on) PROVE cs'.track.uri = cs.track.uri
    BY <2>1, EditKeeps
  <2>2. ASSUME NEW on \in BOOLEAN, HandleRepeatContext(on),
               cs.active = "Default" \/ FindIndex(cs.ctx["Default"].tracks, cs.track.uri) = Nowhere
        PROVE  cs'.track.uri = cs.track.uri
    BY <2>2, RepeatContextKeeps
  <2>3. ASSUME NEW uri \in Extra, Queue(uri) PROVE cs'.track.uri = cs.track.uri
    BY <2>3, EditKeeps
  <2>4. ASSUME NEW l \in ClientLists \cup Rearranged, SetQueue(l) PROVE cs'.track.uri = cs.track.uri
    BY <2>4, SetQueueKeeps
  <2>5. ASSUME NEW draw \in Draws, Resolve(draw), transfer = NoTransfer,
               FindIndex(cs'.ctx[cs'.active].tracks, cs.track.uri) # Nowhere
        PROVE  cs'.track.uri = cs.track.uri
    BY <2>5, ResolveKeeps DEF StillPlays
  <2> QED
    BY <2>1, <2>2, <2>3, <2>4, <2>5, Zenon
<1>2. ConnectSpec => [][A]_connectVars
  <2> HIDE DEF A
  <2> QED
    BY <1>1, QueueInvariant, PTL DEF ConnectSpec
<1> QED
  BY <1>2 DEF CurrentKept
=============================================================================

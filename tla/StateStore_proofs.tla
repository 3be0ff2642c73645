-------------------------- MODULE StateStore_proofs --------------------------
(***************************************************************************)
(* Theorems about StateStore, for every set of keys, values, listeners and *)
(* worker threads: its types; that no worker waits for the event loop with *)
(* the store's lock in its hands; and that the state file follows memory.  *)
(***************************************************************************)
EXTENDS StateStore, TLAPS

\* The main thread runs a callback only when it has taken one.
CallbackTaken == pc[Main] = "callback" => current \in Callback

\* The lock belongs to the thread that saves or is in an update(), and to no
\* other; an update() only meets the keys that callers pass to it.
InLock == {"open", "dump", "next"}

LockHeld ==
    \A t \in Thread :
        /\ lock = t <=> pc[t] \in InLock
        /\ updating[t] => pc[t] \in InLock
        /\ pc[t] = "next" => updating[t]
        /\ \A a \in rest[t] : a.key \in UpdateKey
        /\ updating[t] /\ pc[t] # "next" => arg[t].key \in UpdateKey

\* The workers whose callbacks are queued or running wait for them, and each
\* has one of these only.
OneCallbackEach ==
    /\ \A i \in 1 .. Len(queue) : pc[queue[i].by] = "waiting"
    /\ \A i, j \in 1 .. Len(queue) : queue[i].by = queue[j].by => i = j
    /\ pc[Main] = "callback" =>
          /\ pc[current.by] = "waiting"
          /\ \A i \in 1 .. Len(queue) : queue[i].by # current.by

\* Outside a save, and unless the last one failed, the file is torn or holds what
\* memory holds.
SavedOutsideSave ==
    (\A t \in Thread : pc[t] \notin {"open", "dump"}) /\ disk.state = "ok" /\ ~ failed
        => disk.data = Project(state)

IType == TypeOK /\ CallbackTaken
IInv  == IType /\ LockHeld /\ OneCallbackEach /\ SavedOutsideSave

USE ValuesOK, KeysOK, ListenersOK, ThreadsOK, MaxCallsNat DEF file

-----------------------------------------------------------------------------
\* The facts about the parameters the steps below need.
LEMMA Basics ==
    /\ Main \in Thread /\ Worker \subseteq Thread
    /\ Reader \subseteq Listener /\ Shower \subseteq Listener
    /\ \A l \in Listener : Topic[l] \in Key
    /\ AnyArg \in Arg
BY DEF Thread, Listener, AnyArg, Arg

\* Publish keeps the types of what it sets.
LEMMA PublishType ==
    ASSUME TypeOK, NEW t \in Thread, NEW k \in Key, Publish(t, k)
    PROVE  /\ pc' \in [Thread -> Steps]
           /\ notify' \in [Thread -> SUBSET Listener]
           /\ pc'[t] \in {"next", "idle", "publish"}
           /\ pc' = [pc EXCEPT ![t] = pc'[t]]
           /\ pc'[t] = "next" => updating[t]
           /\ pc'[t] = "idle" => ~ updating[t]
BY DEF TypeOK, Publish, Goto, AfterPublish, Steps, Listener

\* Assign keeps the types of what it sets, and moves its own thread only.
LEMMA AssignType ==
    ASSUME TypeOK, NEW t \in Thread, NEW a \in Arg, Assign(t, a)
    PROVE  /\ state' \in [Key -> Value]
           /\ lock' \in Thread \cup {NoOne}
           /\ pc' \in [Thread -> Steps]
           /\ arg' \in [Thread -> Arg]
           /\ notify' \in [Thread -> SUBSET Listener]
           /\ pc'[t] \in {"next", "idle", "publish", "open"}
           /\ pc' = [pc EXCEPT ![t] = pc'[t]]
<1>1. CASE SameValue(t, a)
  BY <1>1 DEF SameValue, TypeOK, Goto, AfterPublish, Steps
<1>2. CASE NewValue(t, a)
  <2>1. /\ state' \in [Key -> Value]
        /\ lock' \in Thread \cup {NoOne}
        /\ arg' \in [Thread -> Arg]
    BY <1>2 DEF NewValue, TypeOK, Arg
  <2>2. CASE a.key \in Persistent
    BY <1>2, <2>1, <2>2 DEF NewValue, TypeOK, Goto, Steps
  <2>3. CASE a.key \notin Persistent
    <3>1. a.key \in Key /\ Publish(t, a.key)
      BY <1>2, <2>3 DEF NewValue, Arg
    <3> QED BY <2>1, <3>1, PublishType
  <2> QED BY <2>2, <2>3
<1> QED BY <1>1, <1>2 DEF Assign

\* The store and its threads start with their types.
LEMMA TypeInit == Init => IType
<1> SUFFICES ASSUME Init PROVE IType
  OBVIOUS
<1>1. /\ state \in [Key -> Value]
      /\ lock \in Thread \cup {NoOne}
      /\ disk \in [state : {"ok", "torn"}, data : [Persistent -> Value]]
      /\ calls \in Nat /\ failed \in BOOLEAN
  BY DEF Init, Unset, Project
<1>2. /\ pc \in [Thread -> Steps]
      /\ arg \in [Thread -> Arg]
      /\ rest \in [Thread -> SUBSET Arg]
      /\ updating \in [Thread -> BOOLEAN]
      /\ notify \in [Thread -> SUBSET Listener]
  BY Basics DEF Init, Steps
<1>3. /\ queue \in Seq(Callback)
      /\ current \in Callback \cup {NoCallback}
      /\ subscribed \in SUBSET Listener
      /\ shown \in [Listener -> Value]
  BY DEF Init
<1>4. CallbackTaken
  BY Basics DEF Init, CallbackTaken
<1> QED BY <1>1, <1>2, <1>3, <1>4 DEF IType, TypeOK

\* Every step of a thread keeps the types.
LEMMA TypeNext == IType /\ [Next]_vars => IType'
<1> SUFFICES ASSUME IType, [Next]_vars PROVE IType'
  OBVIOUS
<1> USE Basics
<1>0. TypeOK /\ CallbackTaken
  BY DEF IType
<1>1. ASSUME NEW t \in Thread, Start(t) PROVE IType'
  <2>1. CASE \E k \in Key, v \in Value : SetCall(t, k, v)
    BY <1>0, <2>1 DEF SetCall, IType, TypeOK, CallbackTaken, Call, Goto, Steps, Arg, loop
  <2>2. CASE \E f \in Updates : UpdateCall(t, f)
    <3>1. \A f \in Updates : f \in SUBSET Arg
      BY DEF Updates, Arg
    <3> QED
      BY <1>0, <2>2, <3>1 DEF UpdateCall, IType, TypeOK, CallbackTaken, Call, Goto, Steps, loop
  <2> QED BY <1>1, <2>1, <2>2 DEF Start
<1>2. ASSUME NEW t \in Thread, Proceed(t) PROVE IType'
  <2>1. CASE SetEnter(t)
    <3>1. arg[t] \in Arg /\ Assign(t, arg[t])
      BY <1>0, <2>1 DEF SetEnter, TypeOK
    <3>2. UNCHANGED <<disk, failed, rest, updating, queue, current, subscribed, shown, calls>>
      BY <2>1 DEF SetEnter, loop
    <3>3. TypeOK'
      BY <1>0, <3>1, <3>2, AssignType DEF TypeOK
    <3>4. CallbackTaken'
      BY <1>0, <3>1, <3>2, AssignType DEF TypeOK, CallbackTaken
    <3> QED BY <3>3, <3>4 DEF IType
  <2>2. CASE SaveOpen(t)
    BY <1>0, <2>2 DEF SaveOpen, IType, TypeOK, CallbackTaken, Goto, Steps, loop
  <2>3. CASE SaveDump(t)
    <3>1. arg[t].key \in Key /\ Publish(t, arg[t].key)
      BY <1>0, <2>3 DEF SaveDump, TypeOK, Arg
    <3>2. /\ disk' \in [state : {"ok", "torn"}, data : [Persistent -> Value]]
          /\ lock' \in Thread \cup {NoOne}
          /\ failed' \in BOOLEAN
      BY <1>0, <2>3 DEF SaveDump, TypeOK, Project
    <3>3. UNCHANGED <<state, arg, rest, updating, queue, current, subscribed, shown, calls>>
      BY <2>3 DEF SaveDump, loop
    <3>4. TypeOK'
      BY <1>0, <3>1, <3>2, <3>3, PublishType DEF TypeOK
    <3>5. CallbackTaken'
      BY <1>0, <3>1, <3>3, PublishType DEF TypeOK, CallbackTaken
    <3> QED BY <3>4, <3>5 DEF IType
  <2>4. CASE UpdateEnter(t)
    BY <1>0, <2>4 DEF UpdateEnter, IType, TypeOK, CallbackTaken, Goto, Steps, loop
  <2>5. CASE UpdateNext(t)
    <3>1. PICK a \in rest[t] : rest' = [rest EXCEPT ![t] = @ \ {a}] /\ Assign(t, a)
      BY <2>5 DEF UpdateNext
    <3>2. a \in Arg /\ rest' \in [Thread -> SUBSET Arg]
      BY <1>0, <3>1 DEF TypeOK
    <3>3. UNCHANGED <<disk, failed, updating, queue, current, subscribed, shown, calls>>
      BY <2>5 DEF UpdateNext, loop
    <3>4. TypeOK'
      BY <1>0, <3>1, <3>2, <3>3, AssignType DEF TypeOK
    <3>5. CallbackTaken'
      BY <1>0, <3>1, <3>2, <3>3, AssignType DEF TypeOK, CallbackTaken
    <3> QED BY <3>4, <3>5 DEF IType
  <2>6. CASE UpdateLeave(t)
    BY <1>0, <2>6 DEF UpdateLeave, IType, TypeOK, CallbackTaken, Goto, Steps, loop
  <2>7. CASE SaveFails(t)
    <3>1. arg[t].key \in Key /\ Publish(t, arg[t].key)
      BY <1>0, <2>7 DEF SaveFails, TypeOK, Arg
    <3>2. lock' \in Thread \cup {NoOne} /\ failed' \in BOOLEAN
      BY <1>0, <2>7 DEF SaveFails, TypeOK
    <3>3. UNCHANGED <<state, disk, arg, rest, updating, queue, current, subscribed, shown, calls>>
      BY <2>7 DEF SaveFails, loop
    <3>4. TypeOK'
      BY <1>0, <3>1, <3>2, <3>3, PublishType DEF TypeOK
    <3>5. CallbackTaken'
      BY <1>0, <3>1, <3>3, PublishType DEF TypeOK, CallbackTaken
    <3> QED BY <3>4, <3>5 DEF IType
  <2> QED BY <1>2, <2>1, <2>2, <2>3, <2>4, <2>5, <2>6, <2>7 DEF Proceed
<1>3. ASSUME NEW t \in Worker, PublishByWorker(t) PROVE IType'
  <2>1. PICK l \in notify[t] :
           /\ queue' = Append(queue, [by |-> t, listener |-> l, value |-> arg[t].value])
           /\ notify' = [notify EXCEPT ![t] = @ \ {l}]
    BY <1>3 DEF PublishByWorker
  <2>2. [by |-> t, listener |-> l, value |-> arg[t].value] \in Callback
    BY <1>0 DEF TypeOK, Callback, Arg
  <2>3. queue' \in Seq(Callback)
    BY <1>0, <2>1, <2>2 DEF TypeOK
  <2> QED
    BY <1>0, <1>3, <2>1, <2>3 DEF PublishByWorker, IType, TypeOK, CallbackTaken, Goto, Steps
<1>4. CASE MainProceeds
  <2>1. CASE PublishOnMain
    <3>1. PICK l \in notify[Main] :
             /\ Show(Main, l, arg[Main].value)
             /\ notify' = [notify EXCEPT ![Main] = @ \ {l}]
             /\ Goto(Main, IF notify[Main] = {l} THEN AfterPublish(Main) ELSE "publish")
      BY <2>1 DEF PublishOnMain
    <3>2. shown' \in [Listener -> Value]
      BY <1>0, <3>1 DEF Show, TypeOK, Arg
    <3> QED
      BY <1>0, <2>1, <3>1, <3>2
      DEF PublishOnMain, IType, TypeOK, CallbackTaken, Goto, AfterPublish, Steps, loop
  <2>2. CASE LoopTake
    <3>1. Head(queue) \in Callback /\ Tail(queue) \in Seq(Callback)
      BY <1>0, <2>2 DEF TypeOK, LoopTake
    <3> QED
      BY <1>0, <2>2, <3>1 DEF LoopTake, IType, TypeOK, CallbackTaken, Goto, Steps
  <2>3. CASE LoopRun
    <3>1. current \in Callback
      BY <1>0, <2>3 DEF LoopRun, CallbackTaken
    <3>2. current.by \in Worker /\ current.listener \in Listener /\ current.value \in Value
      BY <3>1 DEF Callback
    <3>3. shown' \in [Listener -> Value]
      BY <1>0, <2>3, <3>2 DEF LoopRun, Show, TypeOK
    <3>4. pc' \in [Thread -> Steps] /\ pc'[Main] = "idle"
      BY <1>0, <2>3, <3>2 DEF LoopRun, TypeOK, AfterPublish, Steps
    <3> QED
      BY <1>0, <2>3, <3>3, <3>4 DEF LoopRun, IType, TypeOK, CallbackTaken
  <2>4. CASE SubscribeShow
    BY <1>0, <2>4 DEF SubscribeShow, IType, TypeOK, CallbackTaken, Goto, Steps, loop
  <2> QED BY <1>4, <2>1, <2>2, <2>3, <2>4 DEF MainProceeds
<1>5. ASSUME NEW l \in Listener, Subscribe(l) PROVE IType'
  BY <1>0, <1>5 DEF Subscribe, IType, TypeOK, CallbackTaken, Call, Goto, Steps, loop
<1>6. CASE Restart
  <2>1. state' \in [Key -> Value]
    BY <1>0, <1>6 DEF Restart, TypeOK
  <2>2. /\ pc' \in [Thread -> Steps]
        /\ arg' \in [Thread -> Arg]
        /\ rest' \in [Thread -> SUBSET Arg]
        /\ updating' \in [Thread -> BOOLEAN]
        /\ notify' \in [Thread -> SUBSET Listener]
        /\ pc'[Main] = "idle"
    BY <1>6 DEF Restart, Steps
  <2>3. /\ lock' \in Thread \cup {NoOne}
        /\ queue' \in Seq(Callback)
        /\ current' \in Callback \cup {NoCallback}
        /\ subscribed' \in SUBSET Listener
        /\ shown' \in [Listener -> Value]
    BY <1>0, <1>6 DEF Restart, TypeOK
  <2>4. calls' \in Nat
    BY <1>0, <1>6 DEF Restart, TypeOK
  <2>5. failed' = FALSE /\ disk' = disk
    BY <1>6 DEF Restart
  <2> QED BY <1>0, <2>1, <2>2, <2>3, <2>4, <2>5 DEF IType, TypeOK, CallbackTaken
<1>7. CASE UNCHANGED vars
  BY <1>0, <1>7 DEF IType, TypeOK, CallbackTaken, Callback, NoCallback, vars, thread, loop
<1> QED BY <1>1, <1>2, <1>3, <1>4, <1>5, <1>6, <1>7 DEF Next

\* Every variable of the store, its threads and the event loop keeps its type.
THEOREM StoreTypeCorrect == Spec => []TypeOK
<1>1. Spec => []IType
  BY TypeInit, TypeNext, PTL DEF Spec
<1>2. IType => TypeOK
  BY DEF IType
<1> QED BY <1>1, <1>2, PTL
-----------------------------------------------------------------------------
\* Nobody listens to a key that update() sets: publishing it is over at once.
LEMMA PublishQuiet ==
    ASSUME TypeOK, NEW t \in Thread, NEW k \in UpdateKey, Publish(t, k)
    PROVE  pc'[t] = AfterPublish(t)
BY UpdatesQuiet DEF Publish, Goto, TypeOK, Listener

\* Whether a set() stands alone or in an update(), after the assignment its
\* thread has the lock exactly when it saves or is in the update().
LEMMA AssignLock ==
    ASSUME TypeOK, NEW t \in Thread, NEW a \in Arg, Assign(t, a),
           updating[t] => a.key \in UpdateKey,
           lock = t <=> updating[t]
    PROVE  /\ lock' = t <=> pc'[t] \in InLock
           /\ \A u \in Thread \ {t} : lock' = u <=> lock = u
           /\ updating[t] => pc'[t] \in InLock
           /\ pc'[t] = "next" => updating[t]
           /\ updating[t] /\ pc'[t] # "next" => arg'[t].key \in UpdateKey
           /\ \A u \in Thread \ {t} : arg'[u] = arg[u]
<1> USE Basics
<1>0. Free(t)
  BY DEF Assign
<1>1. CASE SameValue(t, a)
  BY <1>0, <1>1 DEF SameValue, TypeOK, Goto, AfterPublish, InLock
<1>2. CASE NewValue(t, a)
  <2>1. arg' = [arg EXCEPT ![t] = a]
    BY <1>2 DEF NewValue
  <2>2. arg'[t] = a /\ \A u \in Thread \ {t} : arg'[u] = arg[u]
    BY <2>1 DEF TypeOK
  <2>3. CASE a.key \in Persistent
    <3>1. lock' = t /\ pc' = [pc EXCEPT ![t] = "open"]
      BY <1>2, <2>3 DEF NewValue, Goto
    <3> QED BY <1>0, <2>2, <3>1 DEF TypeOK, InLock, Free
  <2>4. CASE a.key \notin Persistent
    <3>1. lock' = lock /\ Publish(t, a.key) /\ a.key \in Key
      BY <1>2, <2>4 DEF NewValue, Arg
    <3>2. /\ pc'[t] \in {"next", "idle", "publish"}
          /\ pc'[t] = "next" => updating[t]
      BY <3>1, PublishType
    <3>3. updating[t] => pc'[t] = "next"
      BY <3>1, PublishQuiet DEF AfterPublish
    <3> QED BY <1>0, <2>2, <3>1, <3>2, <3>3 DEF InLock
  <2> QED BY <2>3, <2>4
<1> QED BY <1>1, <1>2 DEF Assign

\* The steps of one thread that neither take nor give the lock.
LEMMA LockKept ==
    ASSUME TypeOK, LockHeld, NEW t \in Thread, NEW step \in Steps \ InLock,
           pc' = [pc EXCEPT ![t] = step], pc[t] \notin InLock,
           UNCHANGED <<lock, updating>>,
           \A u \in Thread : updating[u] => arg'[u] = arg[u],
           \A u \in Thread : \A a \in rest'[u] : a.key \in UpdateKey
    PROVE  LockHeld'
BY DEF LockHeld, TypeOK, InLock

\* The lock is held by the thread that is inside its section, after every step.
LEMMA LockNext ==
    IType /\ LockHeld /\ OneCallbackEach /\ [Next]_vars => LockHeld'
<1> SUFFICES ASSUME IType, LockHeld, OneCallbackEach, [Next]_vars
             PROVE  LockHeld'
  OBVIOUS
<1> USE Basics
<1>0. TypeOK /\ CallbackTaken
  BY DEF IType
<1>1. ASSUME NEW t \in Thread, Start(t) PROVE LockHeld'
  <2>1. CASE \E k \in Key, v \in Value : SetCall(t, k, v)
    BY <1>0, <2>1, LockKept DEF SetCall, Call, Goto, LockHeld, InLock, Steps, TypeOK
  <2>2. CASE \E f \in Updates : UpdateCall(t, f)
    <3>1. PICK f \in Updates : UpdateCall(t, f)
      BY <2>2
    <3>2. \A a \in f : a.key \in UpdateKey
      BY DEF Updates
    <3>3. \A u \in Thread : \A a \in rest'[u] : a.key \in UpdateKey
      BY <1>0, <3>1, <3>2 DEF UpdateCall, TypeOK, LockHeld
    <3> QED BY <1>0, <3>1, <3>3, LockKept DEF UpdateCall, Call, Goto, InLock, Steps
  <2> QED BY <1>1, <2>1, <2>2 DEF Start
<1>2. ASSUME NEW t \in Thread, Proceed(t) PROVE LockHeld'
  <2>1. CASE SetEnter(t)
    <3>1. arg[t] \in Arg /\ Assign(t, arg[t]) /\ UNCHANGED <<rest, updating>>
      BY <1>0, <2>1 DEF SetEnter, TypeOK
    <3>2. ~ updating[t] /\ lock # t
      BY <2>1 DEF SetEnter, LockHeld, InLock
    <3>3. \A u \in Thread \ {t} : pc'[u] = pc[u]
      BY <1>0, <3>1, AssignType DEF TypeOK
    <3> QED BY <1>0, <3>1, <3>2, <3>3, AssignLock DEF LockHeld
  <2>2. CASE SaveOpen(t)
    BY <1>0, <2>2 DEF SaveOpen, LockHeld, InLock, TypeOK, Goto
  <2>3. CASE SaveDump(t)
    <3>1. /\ arg[t].key \in Key /\ Publish(t, arg[t].key)
          /\ lock' = IF updating[t] THEN t ELSE NoOne
          /\ UNCHANGED <<arg, rest, updating>>
          /\ lock = t
      BY <1>0, <2>3 DEF SaveDump, TypeOK, Arg, LockHeld, InLock
    <3>2. updating[t] => arg[t].key \in UpdateKey
      BY <2>3 DEF SaveDump, LockHeld
    <3>3. updating[t] => pc'[t] = "next"
      BY <1>0, <3>1, <3>2, PublishQuiet DEF AfterPublish
    <3>4. /\ \A u \in Thread \ {t} : pc'[u] = pc[u]
          /\ pc'[t] \in {"next", "idle", "publish"}
          /\ pc'[t] = "next" => updating[t]
      BY <1>0, <3>1, PublishType DEF TypeOK
    <3> QED BY <3>1, <3>3, <3>4 DEF LockHeld, InLock
  <2>4. CASE UpdateEnter(t)
    BY <1>0, <2>4 DEF UpdateEnter, LockHeld, InLock, TypeOK, Goto, Free
  <2>5. CASE UpdateNext(t)
    <3>1. PICK a \in rest[t] : rest' = [rest EXCEPT ![t] = @ \ {a}] /\ Assign(t, a)
      BY <2>5 DEF UpdateNext
    <3>2. a \in Arg /\ a.key \in UpdateKey
      BY <1>0, <3>1 DEF TypeOK, LockHeld
    <3>3. updating[t] /\ lock = t /\ updating' = updating
      BY <2>5 DEF UpdateNext, LockHeld, InLock
    <3>4. \A u \in Thread : \A b \in rest'[u] : b.key \in UpdateKey
      BY <1>0, <3>1 DEF TypeOK, LockHeld
    <3>5. \A u \in Thread \ {t} : pc'[u] = pc[u]
      BY <1>0, <3>1, <3>2, AssignType DEF TypeOK
    <3> QED BY <1>0, <3>1, <3>2, <3>3, <3>4, <3>5, AssignLock DEF LockHeld
  <2>6. CASE UpdateLeave(t)
    BY <1>0, <2>6 DEF UpdateLeave, LockHeld, InLock, TypeOK, Goto
  <2>7. CASE SaveFails(t)
    <3>1. /\ arg[t].key \in Key /\ Publish(t, arg[t].key)
          /\ lock' = IF updating[t] THEN t ELSE NoOne
          /\ UNCHANGED <<arg, rest, updating>>
          /\ lock = t
      BY <1>0, <2>7 DEF SaveFails, TypeOK, Arg, LockHeld, InLock
    <3>2. updating[t] => arg[t].key \in UpdateKey
      BY <2>7 DEF SaveFails, LockHeld
    <3>3. updating[t] => pc'[t] = "next"
      BY <1>0, <3>1, <3>2, PublishQuiet DEF AfterPublish
    <3>4. /\ \A u \in Thread \ {t} : pc'[u] = pc[u]
          /\ pc'[t] \in {"next", "idle", "publish"}
          /\ pc'[t] = "next" => updating[t]
      BY <1>0, <3>1, PublishType DEF TypeOK
    <3> QED BY <3>1, <3>3, <3>4 DEF LockHeld, InLock
  <2> QED BY <1>2, <2>1, <2>2, <2>3, <2>4, <2>5, <2>6, <2>7 DEF Proceed
<1>3. ASSUME NEW t \in Worker, PublishByWorker(t) PROVE LockHeld'
  <2>1. /\ pc' = [pc EXCEPT ![t] = "waiting"] /\ pc[t] = "publish"
        /\ UNCHANGED <<lock, updating, arg, rest>>
    BY <1>3 DEF PublishByWorker, Goto
  <2> QED BY <1>0, <2>1, LockKept DEF LockHeld, InLock, Steps
<1>4. CASE MainProceeds
  <2>1. CASE PublishOnMain
    <3>1. PICK step \in {"publish", AfterPublish(Main)} : Goto(Main, step)
      BY <2>1 DEF PublishOnMain
    <3>2. pc[Main] = "publish" /\ UNCHANGED <<lock, updating, arg, rest>>
      BY <2>1 DEF PublishOnMain
    <3>3. step \in Steps \ InLock
      BY <3>1, <3>2 DEF LockHeld, InLock, AfterPublish, Steps
    <3> QED BY <1>0, <3>1, <3>2, <3>3, LockKept DEF Goto, LockHeld, InLock
  <2>2. CASE LoopTake
    BY <1>0, <2>2, LockKept DEF LoopTake, Goto, LockHeld, InLock, Steps
  <2>3. CASE LoopRun
    <3>1. current.by \in Worker /\ pc[current.by] = "waiting"
      BY <1>0, <2>3 DEF LoopRun, CallbackTaken, Callback, OneCallbackEach
    <3>2. ~ updating[current.by] /\ pc[Main] \notin InLock
      BY <2>3, <3>1 DEF LoopRun, LockHeld, InLock
    <3>3. /\ pc' = [pc EXCEPT ![Main] = "idle",
                              ![current.by] = IF notify[current.by] = {}
                                              THEN "idle" ELSE "publish"]
          /\ UNCHANGED <<lock, updating, arg, rest>>
      BY <2>3, <3>2 DEF LoopRun, AfterPublish
    <3> QED BY <1>0, <3>1, <3>2, <3>3 DEF LockHeld, InLock, TypeOK
  <2>4. CASE SubscribeShow
    BY <1>0, <2>4, LockKept DEF SubscribeShow, Goto, LockHeld, InLock, Steps
  <2> QED BY <1>4, <2>1, <2>2, <2>3, <2>4 DEF MainProceeds
<1>5. ASSUME NEW l \in Listener, Subscribe(l) PROVE LockHeld'
  BY <1>0, <1>5, LockKept DEF Subscribe, Call, Goto, LockHeld, InLock, Steps
<1>6. CASE Restart
  BY <1>6 DEF Restart, LockHeld, InLock
<1>7. CASE UNCHANGED vars
  BY <1>7 DEF LockHeld, vars, thread
<1> QED BY <1>1, <1>2, <1>3, <1>4, <1>5, <1>6, <1>7 DEF Next

-----------------------------------------------------------------------------
\* The queue holds callbacks, of worker threads.
LEMMA QueueMembers ==
    TypeOK => /\ Len(queue) \in Nat
              /\ \A i \in 1 .. Len(queue) : queue[i].by \in Worker
<1> SUFFICES ASSUME TypeOK PROVE /\ Len(queue) \in Nat
                                 /\ \A i \in 1 .. Len(queue) : queue[i].by \in Worker
  OBVIOUS
<1>1. queue \in Seq(Callback)
  BY DEF TypeOK
<1>2. Len(queue) \in Nat /\ \A i \in 1 .. Len(queue) : queue[i] \in Callback
  BY <1>1
<1> QED BY <1>2 DEF Callback

\* A thread that does not wait may go anywhere but into a callback.
LEMMA CallbackKept ==
    ASSUME IType, OneCallbackEach, NEW t \in Thread, NEW step \in Steps,
           pc' = [pc EXCEPT ![t] = step], pc[t] # "waiting",
           step # "callback", UNCHANGED loop
    PROVE  OneCallbackEach'
<1>1. queue' = queue /\ current' = current
  BY DEF loop
<1>2. \A u \in Thread : pc[u] = "waiting" => pc'[u] = "waiting"
  BY DEF IType, TypeOK
<1>3. \A i \in 1 .. Len(queue) : queue[i].by \in Thread /\ pc[queue[i].by] = "waiting"
  BY QueueMembers, Basics DEF OneCallbackEach, IType
<1>4. ASSUME pc'[Main] = "callback"
      PROVE  pc[Main] = "callback" /\ current.by \in Thread
  <2>1. pc[Main] = "callback"
    BY <1>4, Basics DEF IType, TypeOK
  <2> QED BY <2>1, Basics DEF IType, CallbackTaken, Callback
<1> QED BY <1>1, <1>2, <1>3, <1>4 DEF OneCallbackEach

\* A set() or a publication moves a thread that does not wait.
LEMMA CallbackNext ==
    IType /\ OneCallbackEach /\ [Next]_vars => OneCallbackEach'
<1> SUFFICES ASSUME IType, OneCallbackEach, [Next]_vars
             PROVE  OneCallbackEach'
  OBVIOUS
<1> USE Basics
<1>0. TypeOK /\ CallbackTaken
  BY DEF IType
<1>1. ASSUME NEW t \in Thread, Start(t) PROVE OneCallbackEach'
  BY <1>0, <1>1, CallbackKept DEF Start, SetCall, UpdateCall, Call, Goto, Steps
<1>2. ASSUME NEW t \in Thread, Proceed(t) PROVE OneCallbackEach'
  <2>1. CASE SetEnter(t)
    <3>1. arg[t] \in Arg /\ Assign(t, arg[t]) /\ pc[t] = "set" /\ UNCHANGED loop
      BY <1>0, <2>1 DEF SetEnter, TypeOK
    <3> QED BY <1>0, <3>1, AssignType, CallbackKept DEF Steps
  <2>2. CASE SaveOpen(t)
    BY <1>0, <2>2, CallbackKept DEF SaveOpen, Goto, Steps
  <2>3. CASE SaveDump(t)
    <3>1. arg[t].key \in Key /\ Publish(t, arg[t].key) /\ pc[t] = "dump" /\ UNCHANGED loop
      BY <1>0, <2>3 DEF SaveDump, TypeOK, Arg
    <3> QED BY <1>0, <3>1, PublishType, CallbackKept DEF Steps
  <2>4. CASE UpdateEnter(t)
    BY <1>0, <2>4, CallbackKept DEF UpdateEnter, Goto, Steps
  <2>5. CASE UpdateNext(t)
    <3>1. PICK a \in rest[t] : Assign(t, a)
      BY <2>5 DEF UpdateNext
    <3>2. a \in Arg /\ pc[t] = "next" /\ UNCHANGED loop
      BY <1>0, <2>5, <3>1 DEF UpdateNext, TypeOK
    <3> QED BY <1>0, <3>1, <3>2, AssignType, CallbackKept DEF Steps
  <2>6. CASE UpdateLeave(t)
    BY <1>0, <2>6, CallbackKept DEF UpdateLeave, Goto, Steps
  <2>7. CASE SaveFails(t)
    <3>1. /\ arg[t].key \in Key /\ Publish(t, arg[t].key) /\ pc[t] \in {"open", "dump"}
          /\ UNCHANGED loop
      BY <1>0, <2>7 DEF SaveFails, TypeOK, Arg
    <3> QED BY <1>0, <3>1, PublishType, CallbackKept DEF Steps
  <2> QED BY <1>2, <2>1, <2>2, <2>3, <2>4, <2>5, <2>6, <2>7 DEF Proceed
<1>3. ASSUME NEW t \in Worker, PublishByWorker(t) PROVE OneCallbackEach'
  <2>1. PICK l \in notify[t] :
           queue' = Append(queue, [by |-> t, listener |-> l, value |-> arg[t].value])
    BY <1>3 DEF PublishByWorker
  <2>2. /\ pc[t] = "publish" /\ pc' = [pc EXCEPT ![t] = "waiting"]
        /\ current' = current
    BY <1>3 DEF PublishByWorker, Goto
  <2>3. \A i \in 1 .. Len(queue) : queue[i].by # t /\ queue[i].by \in Thread
    BY <1>0, <2>2, QueueMembers DEF OneCallbackEach
  <2>4. /\ Len(queue') = Len(queue) + 1
        /\ \A i \in 1 .. Len(queue) : queue'[i] = queue[i]
        /\ queue'[Len(queue) + 1].by = t
        /\ Len(queue) \in Nat
    BY <1>0, <2>1 DEF TypeOK
  <2>5. \A i \in 1 .. Len(queue') : i \in 1 .. Len(queue) \/ i = Len(queue) + 1
    BY <2>4
  <2>6. \A i \in 1 .. Len(queue') : pc'[queue'[i].by] = "waiting"
    BY <1>0, <2>2, <2>3, <2>4, <2>5 DEF OneCallbackEach, TypeOK
  <2>7. \A i, j \in 1 .. Len(queue') : queue'[i].by = queue'[j].by => i = j
    BY <2>3, <2>4, <2>5 DEF OneCallbackEach
  <2>8. ASSUME pc'[Main] = "callback"
        PROVE  /\ pc'[current'.by] = "waiting"
               /\ \A i \in 1 .. Len(queue') : queue'[i].by # current'.by
    <3>1. pc[Main] = "callback" /\ current.by \in Thread
      BY <1>0, <2>2, <2>8 DEF CallbackTaken, Callback, TypeOK
    <3>2. pc[current.by] = "waiting" /\ current.by # t
      BY <2>2, <3>1 DEF OneCallbackEach
    <3> QED BY <1>0, <2>2, <2>4, <2>5, <3>1, <3>2 DEF OneCallbackEach, TypeOK
  <2> QED BY <2>6, <2>7, <2>8 DEF OneCallbackEach
<1>4. CASE MainProceeds
  <2>1. CASE PublishOnMain
    <3>1. PICK step \in {"publish", AfterPublish(Main)} : Goto(Main, step)
      BY <2>1 DEF PublishOnMain
    <3>2. pc[Main] = "publish" /\ UNCHANGED loop
      BY <2>1 DEF PublishOnMain
    <3> QED BY <1>0, <3>1, <3>2, CallbackKept DEF Goto, AfterPublish, Steps
  <2>2. CASE LoopTake
    <3>1. /\ current' = queue[1] /\ queue' = Tail(queue) /\ queue # <<>>
          /\ pc[Main] = "idle" /\ pc' = [pc EXCEPT ![Main] = "callback"]
      BY <1>0, <2>2 DEF LoopTake, TypeOK, Goto
    <3>2. /\ Len(queue) \in Nat \ {0}
          /\ Len(queue') = Len(queue) - 1
          /\ \A i \in 1 .. Len(queue') : queue'[i] = queue[i + 1]
      BY <1>0, <3>1 DEF TypeOK
    <3>3. \A i \in 1 .. Len(queue) : queue[i].by # Main /\ queue[i].by \in Thread
      BY <1>0, <3>1, QueueMembers DEF OneCallbackEach
    <3>4. \A i \in 1 .. Len(queue') : i + 1 \in 1 .. Len(queue) /\ i + 1 # 1
      BY <3>2
    <3>5. \A i \in 1 .. Len(queue) : pc'[queue[i].by] = "waiting"
      BY <1>0, <3>1, <3>3 DEF OneCallbackEach, TypeOK
    <3>6. 1 \in 1 .. Len(queue)
      BY <3>2
    <3>7. \A i \in 1 .. Len(queue') : pc'[queue'[i].by] = "waiting"
      BY <3>2, <3>4, <3>5
    <3>8. \A i, j \in 1 .. Len(queue') : queue'[i].by = queue'[j].by => i = j
      BY <3>2, <3>4 DEF OneCallbackEach
    <3>9. \A i \in 1 .. Len(queue') : queue'[i].by # current'.by
      BY <3>1, <3>2, <3>4, <3>6 DEF OneCallbackEach
    <3>10. pc'[current'.by] = "waiting"
      BY <3>1, <3>5, <3>6
    <3> QED BY <3>7, <3>8, <3>9, <3>10 DEF OneCallbackEach
  <2>3. CASE LoopRun
    <3>1. current.by \in Worker /\ pc[Main] = "callback"
      BY <1>0, <2>3 DEF LoopRun, CallbackTaken, Callback
    <3>2. /\ queue' = queue
          /\ \A u \in Thread \ {Main, current.by} : pc'[u] = pc[u]
          /\ pc'[Main] = "idle"
      BY <1>0, <2>3, <3>1 DEF LoopRun, TypeOK
    <3>3. \A i \in 1 .. Len(queue) :
             queue[i].by \in Thread /\ queue[i].by # current.by /\ queue[i].by # Main
      BY <1>0, <3>1, QueueMembers DEF OneCallbackEach
    <3> QED BY <3>2, <3>3 DEF OneCallbackEach
  <2>4. CASE SubscribeShow
    BY <1>0, <2>4, CallbackKept DEF SubscribeShow, Goto, Steps
  <2> QED BY <1>4, <2>1, <2>2, <2>3, <2>4 DEF MainProceeds
<1>5. ASSUME NEW l \in Listener, Subscribe(l) PROVE OneCallbackEach'
  BY <1>0, <1>5, CallbackKept DEF Subscribe, Call, Goto, Steps
<1>6. CASE Restart
  BY <1>6 DEF Restart, OneCallbackEach
<1>7. CASE UNCHANGED vars
  BY <1>7 DEF OneCallbackEach, vars, thread, loop
<1> QED BY <1>1, <1>2, <1>3, <1>4, <1>5, <1>6, <1>7 DEF Next

-----------------------------------------------------------------------------
\* Every step that is not a save, an assignment or a restart.
LEMMA SaveKept ==
    ASSUME SavedOutsideSave, UNCHANGED <<state, file>>,
           \A u \in Thread : pc[u] \in {"open", "dump"} => pc'[u] = pc[u]
    PROVE  SavedOutsideSave'
BY DEF SavedOutsideSave, Project

\* An assignment saves the key unless the file does not depend on it.
LEMMA AssignSave ==
    ASSUME TypeOK, SavedOutsideSave, NEW t \in Thread, NEW a \in Arg, Assign(t, a),
           pc[t] \notin {"open", "dump"}, UNCHANGED file
    PROVE  SavedOutsideSave'
<1>1. \A u \in Thread : u # t => pc'[u] = pc[u]
  BY AssignType DEF TypeOK
<1>2. CASE SameValue(t, a)
  BY <1>1, <1>2, SaveKept DEF SameValue
<1>3. CASE NewValue(t, a)
  <2>1. CASE a.key \in Persistent
    <3>1. pc'[t] = "open"
      BY <1>3, <2>1 DEF NewValue, Goto, TypeOK
    <3> QED BY <3>1 DEF SavedOutsideSave
  <2>2. CASE a.key \notin Persistent
    <3>1. Project(state') = Project(state)
      BY <1>3, <2>2 DEF NewValue, Project, TypeOK
    <3>2. (\A u \in Thread : pc'[u] \notin {"open", "dump"})
             => \A u \in Thread : pc[u] \notin {"open", "dump"}
      BY <1>1
    <3> QED BY <3>1, <3>2 DEF SavedOutsideSave, Project
  <2> QED BY <2>1, <2>2
<1> QED BY <1>2, <1>3 DEF Assign

\* The file holds the store's saved part whenever no thread is saving, after every
\* step.
LEMMA SaveNext ==
    IType /\ OneCallbackEach /\ SavedOutsideSave /\ [Next]_vars
        => SavedOutsideSave'
<1> SUFFICES ASSUME IType, OneCallbackEach, SavedOutsideSave, [Next]_vars
             PROVE  SavedOutsideSave'
  OBVIOUS
<1> USE Basics
<1>0. TypeOK /\ CallbackTaken
  BY DEF IType
<1>1. ASSUME NEW t \in Thread, Start(t) PROVE SavedOutsideSave'
  BY <1>0, <1>1, SaveKept DEF Start, SetCall, UpdateCall, Call, Goto, TypeOK
<1>2. ASSUME NEW t \in Thread, Proceed(t) PROVE SavedOutsideSave'
  <2>1. CASE SetEnter(t)
    <3>1. arg[t] \in Arg /\ Assign(t, arg[t]) /\ pc[t] = "set" /\ UNCHANGED file
      BY <1>0, <2>1 DEF SetEnter, TypeOK
    <3> QED BY <1>0, <3>1, AssignSave
  <2>2. CASE SaveOpen(t)
    <3>1. pc'[t] = "dump"
      BY <1>0, <2>2 DEF SaveOpen, Goto, TypeOK
    <3> QED BY <3>1 DEF SavedOutsideSave
  <2>3. CASE SaveDump(t)
    <3>1. disk'.data = Project(state) /\ state' = state
      BY <2>3 DEF SaveDump
    <3> QED BY <3>1 DEF SavedOutsideSave, Project
  <2>4. CASE UpdateEnter(t)
    BY <1>0, <2>4, SaveKept DEF UpdateEnter, Goto, TypeOK
  <2>5. CASE UpdateNext(t)
    <3>1. PICK a \in rest[t] : Assign(t, a)
      BY <2>5 DEF UpdateNext
    <3>2. a \in Arg /\ pc[t] = "next" /\ UNCHANGED file
      BY <1>0, <2>5, <3>1 DEF UpdateNext, TypeOK
    <3> QED BY <1>0, <3>1, <3>2, AssignSave
  <2>6. CASE UpdateLeave(t)
    BY <1>0, <2>6, SaveKept DEF UpdateLeave, Goto, TypeOK
  <2>7. CASE SaveFails(t)
    BY <2>7 DEF SaveFails, SavedOutsideSave
  <2> QED BY <1>2, <2>1, <2>2, <2>3, <2>4, <2>5, <2>6, <2>7 DEF Proceed
<1>3. ASSUME NEW t \in Worker, PublishByWorker(t) PROVE SavedOutsideSave'
  BY <1>0, <1>3, SaveKept DEF PublishByWorker, Goto, TypeOK
<1>4. CASE MainProceeds
  <2>1. CASE PublishOnMain
    BY <1>0, <2>1, SaveKept DEF PublishOnMain, Goto, TypeOK
  <2>2. CASE LoopTake
    BY <1>0, <2>2, SaveKept DEF LoopTake, Goto, TypeOK
  <2>3. CASE LoopRun
    <3>1. /\ current.by \in Worker /\ pc[current.by] = "waiting"
          /\ pc[Main] = "callback"
      BY <1>0, <2>3 DEF LoopRun, CallbackTaken, Callback, OneCallbackEach
    <3>2. \A u \in Thread \ {Main, current.by} : pc'[u] = pc[u]
      BY <1>0, <2>3, <3>1 DEF LoopRun, TypeOK
    <3>3. UNCHANGED <<state, file>>
      BY <2>3 DEF LoopRun
    <3> QED BY <3>1, <3>2, <3>3, SaveKept
  <2>4. CASE SubscribeShow
    BY <1>0, <2>4, SaveKept DEF SubscribeShow, Goto, TypeOK
  <2> QED BY <1>4, <2>1, <2>2, <2>3, <2>4 DEF MainProceeds
<1>5. ASSUME NEW l \in Listener, Subscribe(l) PROVE SavedOutsideSave'
  BY <1>0, <1>5, SaveKept DEF Subscribe, Call, Goto, TypeOK
<1>6. CASE Restart
  <2>1. ASSUME disk.state = "ok" PROVE Project(state') = disk.data
    <3>1. disk.data \in [Persistent -> Value]
      BY <1>0 DEF TypeOK
    <3>2. \A k \in Persistent : state'[k] = disk.data[k]
      BY <1>6, <2>1 DEF Restart
    <3> QED BY <3>1, <3>2 DEF Project
  <2>2. disk' = disk
    BY <1>6 DEF Restart
  <2> QED BY <2>1, <2>2 DEF SavedOutsideSave, Project
<1>7. CASE UNCHANGED vars
  BY <1>7, SaveKept DEF vars, thread
<1> QED BY <1>1, <1>2, <1>3, <1>4, <1>5, <1>6, <1>7 DEF Next

-----------------------------------------------------------------------------
\* The inductive invariant holds when the store starts.
LEMMA InvInit == Init => IInv
<1> SUFFICES ASSUME Init PROVE IInv
  OBVIOUS
<1>1. IType
  BY TypeInit
<1>2. LockHeld /\ OneCallbackEach
  BY Basics DEF Init, LockHeld, InLock, OneCallbackEach
<1>3. SavedOutsideSave
  BY DEF Init, SavedOutsideSave
<1> QED BY <1>1, <1>2, <1>3 DEF IInv

\* The inductive invariant holds in every behaviour of the store.
LEMMA InvHolds == Spec => []IInv
<1>1. IInv /\ [Next]_vars => IInv'
  BY TypeNext, LockNext, CallbackNext, SaveNext DEF IInv
<1> QED BY InvInit, <1>1, PTL DEF Spec

\* No worker ever waits for the event loop with the store's lock in its hands,
\* so a listener that reads the store again cannot block the loop for ever.
THEOREM StoreNoHoldAndWait == Spec => []NoHoldAndWait
<1>1. IInv => NoHoldAndWait
  BY Basics DEF IInv, LockHeld, InLock, NoHoldAndWait
<1> QED BY InvHolds, <1>1, PTL

\* Whenever the lock is free, a state file that can be parsed holds the
\* persistent part of the state, unless the last save failed.
THEOREM StoreDiskMatches == Spec => []DiskMatches
<1>1. ASSUME IInv, lock = NoOne PROVE \A t \in Thread : pc[t] \notin {"open", "dump"}
  BY <1>1 DEF IInv, LockHeld, InLock
<1>2. IInv => DiskMatches
  BY <1>1 DEF IInv, SavedOutsideSave, DiskMatches
<1> QED BY InvHolds, <1>2, PTL

-----------------------------------------------------------------------------
\* A thread has listeners to tell only between the steps that collect them and
\* the last of them; a callback is current only while it runs; and the main
\* thread subscribes one listener at a time.
OnTheirWay ==
    /\ \A t \in Thread : notify[t] # {} => pc[t] \in {"publish", "waiting", "subscribe"}
    /\ pc[Main] # "callback" => current = NoCallback
    /\ pc[Main] = "subscribe" => \E l \in Listener : notify[Main] = {l}

\* A thread that moves from one step to another with nothing to tell.
LEMMA OnTheirWayKept ==
    ASSUME TypeOK, OnTheirWay, NEW t \in Thread, NEW step \in Steps \ {"subscribe"},
           pc' = [pc EXCEPT ![t] = step],
           \A u \in Thread \ {t} : notify'[u] = notify[u],
           notify'[t] # {} => step \in {"publish", "waiting"},
           current' = current,
           t = Main => pc[t] # "callback"
    PROVE  OnTheirWay'
BY Basics DEF OnTheirWay, TypeOK

\* set() assigns when it has nothing to tell, and then tells or returns.
LEMMA AssignOnTheirWay ==
    ASSUME TypeOK, OnTheirWay, NEW t \in Thread, NEW a \in Arg, Assign(t, a),
           pc[t] \in {"set", "next"}, current' = current
    PROVE  OnTheirWay'
<1>1. notify[t] = {}
  BY DEF OnTheirWay
<1>2. CASE SameValue(t, a)
  BY <1>1, <1>2, OnTheirWayKept DEF SameValue, Goto, AfterPublish, Steps
<1>3. CASE NewValue(t, a)
  <2>1. CASE a.key \in Persistent
    BY <1>1, <1>3, <2>1, OnTheirWayKept DEF NewValue, Goto, Steps
  <2>2. CASE a.key \notin Persistent
    <3>1. Publish(t, a.key)
      BY <1>3, <2>2 DEF NewValue
    <3>2. PICK step \in {"next", "idle", "publish"} :
             /\ pc' = [pc EXCEPT ![t] = step]
             /\ notify'[t] # {} => step = "publish"
             /\ \A u \in Thread \ {t} : notify'[u] = notify[u]
      BY <3>1 DEF Publish, Goto, AfterPublish, TypeOK
    <3> QED BY <3>2, OnTheirWayKept DEF Steps
  <2> QED BY <2>1, <2>2
<1> QED BY <1>2, <1>3 DEF Assign

\* Only a thread that publishes or subscribes has listeners left to tell, after
\* every step.
LEMMA OnTheirWayNext ==
    IType /\ OneCallbackEach /\ OnTheirWay /\ [Next]_vars => OnTheirWay'
<1> SUFFICES ASSUME IType, OneCallbackEach, OnTheirWay, [Next]_vars
             PROVE  OnTheirWay'
  OBVIOUS
<1> USE Basics
<1>0. TypeOK /\ CallbackTaken
  BY DEF IType
<1>1. ASSUME NEW t \in Thread, Start(t) PROVE OnTheirWay'
  <2>1. PICK step \in {"set", "update"} :
           /\ pc' = [pc EXCEPT ![t] = step] /\ pc[t] = "idle"
           /\ notify' = notify /\ current' = current
    BY <1>1 DEF Start, SetCall, UpdateCall, Call, Goto, loop
  <2> QED BY <1>0, <2>1, OnTheirWayKept DEF OnTheirWay, Steps
<1>2. ASSUME NEW t \in Thread, Proceed(t) PROVE OnTheirWay'
  <2>1. CASE SetEnter(t)
    <3>1. arg[t] \in Arg /\ Assign(t, arg[t]) /\ pc[t] = "set" /\ current' = current
      BY <1>0, <2>1 DEF SetEnter, TypeOK, loop
    <3> QED BY <1>0, <3>1, AssignOnTheirWay
  <2>2. CASE SaveOpen(t)
    BY <1>0, <2>2, OnTheirWayKept DEF SaveOpen, OnTheirWay, Goto, Steps, loop
  <2>3. CASE SaveDump(t)
    <3>1. Publish(t, arg[t].key) /\ pc[t] = "dump" /\ current' = current
      BY <2>3 DEF SaveDump, loop
    <3>2. PICK step \in {"next", "idle", "publish"} :
             /\ pc' = [pc EXCEPT ![t] = step]
             /\ notify'[t] # {} => step = "publish"
             /\ \A u \in Thread \ {t} : notify'[u] = notify[u]
      BY <1>0, <3>1 DEF Publish, Goto, AfterPublish, TypeOK
    <3> QED BY <1>0, <3>1, <3>2, OnTheirWayKept DEF Steps
  <2>4. CASE UpdateEnter(t)
    BY <1>0, <2>4, OnTheirWayKept DEF UpdateEnter, OnTheirWay, Goto, Steps, loop
  <2>5. CASE UpdateNext(t)
    <3>1. PICK a \in rest[t] : Assign(t, a)
      BY <2>5 DEF UpdateNext
    <3>2. a \in Arg /\ pc[t] = "next" /\ current' = current
      BY <1>0, <2>5, <3>1 DEF UpdateNext, TypeOK, loop
    <3> QED BY <1>0, <3>1, <3>2, AssignOnTheirWay
  <2>6. CASE UpdateLeave(t)
    BY <1>0, <2>6, OnTheirWayKept DEF UpdateLeave, OnTheirWay, Goto, Steps, loop
  <2>7. CASE SaveFails(t)
    <3>1. Publish(t, arg[t].key) /\ pc[t] \in {"open", "dump"} /\ current' = current
      BY <2>7 DEF SaveFails, loop
    <3>2. PICK step \in {"next", "idle", "publish"} :
             /\ pc' = [pc EXCEPT ![t] = step]
             /\ notify'[t] # {} => step = "publish"
             /\ \A u \in Thread \ {t} : notify'[u] = notify[u]
      BY <1>0, <3>1 DEF Publish, Goto, AfterPublish, TypeOK
    <3> QED BY <1>0, <3>1, <3>2, OnTheirWayKept DEF Steps
  <2> QED BY <1>2, <2>1, <2>2, <2>3, <2>4, <2>5, <2>6, <2>7 DEF Proceed
<1>3. ASSUME NEW t \in Worker, PublishByWorker(t) PROVE OnTheirWay'
  <2>1. /\ pc' = [pc EXCEPT ![t] = "waiting"] /\ current' = current
        /\ \A u \in Thread \ {t} : notify'[u] = notify[u]
    BY <1>0, <1>3 DEF PublishByWorker, Goto, TypeOK
  <2> QED BY <1>0, <2>1, OnTheirWayKept DEF Steps
<1>4. CASE MainProceeds
  <2>1. CASE PublishOnMain
    <3>1. PICK step \in {"publish", "next", "idle"} :
             /\ pc' = [pc EXCEPT ![Main] = step]
             /\ notify'[Main] # {} => step = "publish"
             /\ \A u \in Thread \ {Main} : notify'[u] = notify[u]
      BY <1>0, <2>1 DEF PublishOnMain, Goto, AfterPublish, TypeOK
    <3>2. pc[Main] = "publish" /\ current' = current
      BY <2>1 DEF PublishOnMain, loop
    <3> QED BY <1>0, <3>1, <3>2, OnTheirWayKept DEF Steps
  <2>2. CASE LoopTake
    BY <1>0, <2>2 DEF LoopTake, OnTheirWay, Goto, TypeOK
  <2>3. CASE LoopRun
    <3>1. current.by \in Worker /\ pc[current.by] = "waiting" /\ pc[Main] = "callback"
      BY <1>0, <2>3 DEF LoopRun, CallbackTaken, Callback, OneCallbackEach
    <3>2. /\ pc'[Main] = "idle" /\ current' = NoCallback /\ notify' = notify
          /\ \A u \in Thread \ {Main, current.by} : pc'[u] = pc[u]
          /\ notify[current.by] # {} => pc'[current.by] = "publish"
      BY <1>0, <2>3, <3>1 DEF LoopRun, TypeOK
    <3> QED BY <3>1, <3>2 DEF OnTheirWay
  <2>4. CASE SubscribeShow
    <3>1. /\ pc' = [pc EXCEPT ![Main] = "idle"] /\ pc[Main] = "subscribe"
          /\ notify' = [notify EXCEPT ![Main] = {}] /\ current' = current
      BY <2>4 DEF SubscribeShow, Goto, loop
    <3> QED BY <1>0, <3>1, OnTheirWayKept DEF Steps, TypeOK
  <2> QED BY <1>4, <2>1, <2>2, <2>3, <2>4 DEF MainProceeds
<1>5. ASSUME NEW l \in Listener, Subscribe(l) PROVE OnTheirWay'
  BY <1>0, <1>5 DEF Subscribe, Call, Goto, OnTheirWay, TypeOK, loop
<1>6. CASE Restart
  BY <1>6 DEF Restart, OnTheirWay
<1>7. CASE UNCHANGED vars
  BY <1>7 DEF OnTheirWay, vars, thread, loop
<1> QED BY <1>1, <1>2, <1>3, <1>4, <1>5, <1>6, <1>7 DEF Next

\* A step that changes neither the state nor what is shown, and loses nothing
\* of what is on its way.
LEMMA ReadersKept ==
    ASSUME ReaderConverges, UNCHANGED <<state, subscribed, shown>>,
           \A l \in Reader : Pending(l) => Pending(l)'
    PROVE  ReaderConverges'
BY DEF ReaderConverges

\* ... such as a step of a thread that is not in the middle of a save.
LEMMA PendingKept ==
    ASSUME UNCHANGED <<notify, loop>>,
           \A u \in Thread : pc[u] \in {"open", "dump"} =>
               pc'[u] \in {"open", "dump"} /\ arg'[u] = arg[u]
    PROVE  \A l \in Reader : Pending(l) => Pending(l)'
BY DEF Pending, loop

\* The publication of a key puts all of its listeners on their way, and what
\* another thread has on its way stays there.
LEMMA PublishPending ==
    ASSUME IType, OnTheirWay, NEW t \in Thread, NEW k \in Key, Publish(t, k),
           pc[t] \in {"set", "next", "open", "dump"}, UNCHANGED <<loop, subscribed>>,
           pc[t] \in {"open", "dump"} => k = arg[t].key,
           \A u \in Thread \ {t} : arg'[u] = arg[u]
    PROVE  \A l \in Reader \cap subscribed : Topic[l] = k \/ Pending(l) => Pending(l)'
<1>1. /\ notify'[t] = {l \in subscribed : Topic[l] = k}
      /\ \A u \in Thread \ {t} : notify'[u] = notify[u] /\ pc'[u] = pc[u]
  BY DEF Publish, Goto, IType, TypeOK
<1>2. notify[t] = {} /\ queue' = queue /\ current' = current
  BY DEF OnTheirWay, loop
<1> SUFFICES ASSUME NEW l \in Reader \cap subscribed, Topic[l] = k \/ Pending(l)
             PROVE  Pending(l)'
  OBVIOUS
<1>3. CASE Topic[l] = k
  BY <1>1, <1>3 DEF Pending
<1>4. CASE Topic[l] # k
  BY <1>1, <1>2, <1>4 DEF Pending
<1> QED BY <1>3, <1>4

\* A set() that changes the state puts the listeners of its key on their way.
LEMMA AssignConverges ==
    ASSUME IType, OnTheirWay, ReaderConverges, NEW t \in Thread, NEW a \in Arg,
           Assign(t, a), pc[t] \in {"set", "next"}, UNCHANGED <<loop, subscribed, shown>>
    PROVE  ReaderConverges'
<1>0. TypeOK
  BY DEF IType
<1>1. CASE SameValue(t, a)
  <2>1. state' = state /\ arg' = arg /\ notify' = notify
    BY <1>1 DEF SameValue
  <2>2. \A u \in Thread : pc[u] \in {"open", "dump"} => pc'[u] = pc[u]
    BY <1>0, AssignType DEF TypeOK
  <2> QED BY <2>1, <2>2, PendingKept, ReadersKept
<1>2. CASE NewValue(t, a)
  <2>1. /\ a.key \in Key
        /\ \A k \in Key \ {a.key} : state'[k] = state[k]
        /\ arg'[t] = a /\ \A u \in Thread \ {t} : arg'[u] = arg[u]
        /\ \A u \in Thread \ {t} : pc'[u] = pc[u]
    BY <1>0, <1>2, AssignType DEF NewValue, Arg, TypeOK
  <2>2. \A l \in Reader \cap subscribed : Topic[l] = a.key \/ Pending(l) => Pending(l)'
    <3>1. CASE a.key \in Persistent
      <4>1. pc'[t] = "open" /\ notify' = notify
        BY <1>0, <1>2, <3>1 DEF NewValue, Goto, TypeOK
      <4> QED BY <2>1, <4>1 DEF Pending, loop
    <3>2. CASE a.key \notin Persistent
      <4>1. Publish(t, a.key)
        BY <1>2, <3>2 DEF NewValue
      <4> QED BY <2>1, <4>1, PublishPending
    <3> QED BY <3>1, <3>2
  <2> QED BY <2>1, <2>2, Basics DEF ReaderConverges
<1> QED BY <1>1, <1>2 DEF Assign

\* A reader that is told shows what it reads, and no other is disturbed.
LEMMA ShowReads ==
    ASSUME TypeOK, NEW t, NEW l \in Listener, NEW v, Show(t, l, v)
    PROVE  /\ l \in Reader => shown'[l] = state[Topic[l]]
           /\ \A m \in Listener \ {l} : shown'[m] = shown[m]
BY ListenersOK DEF Show, TypeOK

\* A reader that has nothing under way shows the store's value, after every step.
LEMMA ReaderNext ==
    IType /\ OneCallbackEach /\ OnTheirWay /\ ReaderConverges /\ [Next]_vars
        => ReaderConverges'
<1> SUFFICES ASSUME IType, OneCallbackEach, OnTheirWay, ReaderConverges, [Next]_vars
             PROVE  ReaderConverges'
  OBVIOUS
<1> USE Basics
<1>0. TypeOK /\ CallbackTaken
  BY DEF IType
<1>1. ASSUME NEW t \in Thread, Start(t) PROVE ReaderConverges'
  <2>1. /\ UNCHANGED <<state, subscribed, shown, notify, loop>>
        /\ \A u \in Thread : pc[u] \in {"open", "dump"} =>
               pc'[u] = pc[u] /\ arg'[u] = arg[u]
    BY <1>0, <1>1 DEF Start, SetCall, UpdateCall, Call, Goto, TypeOK
  <2> QED BY <2>1, PendingKept, ReadersKept
<1>2. ASSUME NEW t \in Thread, Proceed(t) PROVE ReaderConverges'
  <2>1. CASE SetEnter(t)
    <3>1. /\ arg[t] \in Arg /\ Assign(t, arg[t]) /\ pc[t] = "set"
          /\ UNCHANGED <<loop, subscribed, shown>>
      BY <1>0, <2>1 DEF SetEnter, TypeOK
    <3> QED BY <3>1, AssignConverges
  <2>2. CASE SaveOpen(t)
    BY <1>0, <2>2, PendingKept, ReadersKept DEF SaveOpen, Goto, TypeOK
  <2>3. CASE SaveDump(t)
    <3>1. /\ arg[t].key \in Key /\ Publish(t, arg[t].key) /\ pc[t] = "dump"
          /\ UNCHANGED <<arg, state, subscribed, shown, loop>>
      BY <1>0, <2>3 DEF SaveDump, TypeOK, Arg
    <3>2. \A l \in Reader \cap subscribed : Pending(l) => Pending(l)'
      BY <3>1, PublishPending
    <3> QED BY <3>1, <3>2 DEF ReaderConverges
  <2>4. CASE UpdateEnter(t)
    BY <1>0, <2>4, PendingKept, ReadersKept DEF UpdateEnter, Goto, TypeOK
  <2>5. CASE UpdateNext(t)
    <3>1. PICK a \in rest[t] : Assign(t, a)
      BY <2>5 DEF UpdateNext
    <3>2. /\ a \in Arg /\ pc[t] = "next"
          /\ UNCHANGED <<loop, subscribed, shown>>
      BY <1>0, <2>5, <3>1 DEF UpdateNext, TypeOK
    <3> QED BY <3>1, <3>2, AssignConverges
  <2>6. CASE UpdateLeave(t)
    BY <1>0, <2>6, PendingKept, ReadersKept DEF UpdateLeave, Goto, TypeOK
  <2>7. CASE SaveFails(t)
    <3>1. /\ arg[t].key \in Key /\ Publish(t, arg[t].key) /\ pc[t] \in {"open", "dump"}
          /\ UNCHANGED <<arg, state, subscribed, shown, loop>>
      BY <1>0, <2>7 DEF SaveFails, TypeOK, Arg
    <3>2. \A l \in Reader \cap subscribed : Pending(l) => Pending(l)'
      BY <3>1, PublishPending
    <3> QED BY <3>1, <3>2 DEF ReaderConverges
  <2> QED BY <1>2, <2>1, <2>2, <2>3, <2>4, <2>5, <2>6, <2>7 DEF Proceed
<1>3. ASSUME NEW t \in Worker, PublishByWorker(t) PROVE ReaderConverges'
  <2>1. PICK l \in notify[t] :
           /\ queue' = Append(queue, [by |-> t, listener |-> l, value |-> arg[t].value])
           /\ notify' = [notify EXCEPT ![t] = @ \ {l}]
    BY <1>3 DEF PublishByWorker
  <2>2. /\ UNCHANGED <<state, arg, subscribed, shown, current>>
        /\ \A u \in Thread : pc[u] \in {"open", "dump"} => pc'[u] = pc[u]
    BY <1>0, <1>3 DEF PublishByWorker, Goto, TypeOK
  <2>3. /\ Len(queue) \in Nat /\ Len(queue') = Len(queue) + 1
        /\ \A i \in 1 .. Len(queue) : queue'[i] = queue[i]
        /\ queue'[Len(queue) + 1].listener = l
    BY <1>0, <2>1 DEF TypeOK
  <2>4. ASSUME NEW m \in Reader, Pending(m) PROVE Pending(m)'
    <3>1. CASE m = l
      <4>1. Len(queue) + 1 \in 1 .. Len(queue')
        BY <2>3
      <4> QED BY <2>3, <3>1, <4>1 DEF Pending
    <3>2. CASE \E u \in Thread : m \in notify[u] /\ m # l
      BY <1>0, <2>1, <3>2 DEF Pending, TypeOK
    <3>3. CASE \E u \in Thread : pc[u] \in {"open", "dump"} /\ arg[u].key = Topic[m]
      BY <2>2, <3>3 DEF Pending
    <3>4. CASE \E i \in 1 .. Len(queue) : queue[i].listener = m
      <4>1. PICK i \in 1 .. Len(queue) : queue[i].listener = m
        BY <3>4
      <4>2. i \in 1 .. Len(queue') /\ queue'[i].listener = m
        BY <2>3, <4>1
      <4> QED BY <4>2 DEF Pending
    <3>5. CASE current # NoCallback /\ current.listener = m
      BY <2>2, <3>5 DEF Pending
    <3> QED BY <2>4, <3>1, <3>2, <3>3, <3>4, <3>5 DEF Pending
  <2> QED BY <2>2, <2>4, ReadersKept
<1>4. CASE MainProceeds
  <2>1. CASE PublishOnMain
    <3>1. PICK l \in notify[Main] :
             /\ Show(Main, l, arg[Main].value)
             /\ notify' = [notify EXCEPT ![Main] = @ \ {l}]
      BY <2>1 DEF PublishOnMain
    <3>2. /\ l \in Listener
          /\ UNCHANGED <<state, arg, subscribed, queue, current>>
          /\ \A u \in Thread : pc[u] \in {"open", "dump"} => pc'[u] = pc[u]
      BY <1>0, <2>1, <3>1 DEF PublishOnMain, Goto, TypeOK, loop
    <3>3. \A m \in Reader : m # l /\ Pending(m) => Pending(m)'
      BY <1>0, <3>1, <3>2 DEF Pending, TypeOK
    <3>4. /\ l \in Reader => shown'[l] = state[Topic[l]]
          /\ \A m \in Listener \ {l} : shown'[m] = shown[m]
      BY <1>0, <3>1, <3>2, ShowReads
    <3> QED BY <3>2, <3>3, <3>4 DEF ReaderConverges
  <2>2. CASE LoopTake
    <3>1. /\ current' = queue[1] /\ queue' = Tail(queue) /\ queue # <<>>
          /\ pc[Main] = "idle" /\ pc' = [pc EXCEPT ![Main] = "callback"]
          /\ UNCHANGED <<state, arg, notify, subscribed, shown>>
      BY <1>0, <2>2 DEF LoopTake, TypeOK, Goto
    <3>2. /\ Len(queue) \in Nat \ {0}
          /\ Len(queue') = Len(queue) - 1
          /\ \A i \in 1 .. Len(queue') : queue'[i] = queue[i + 1]
          /\ queue[1] \in Callback
      BY <1>0, <3>1 DEF TypeOK
    <3>3. current' # NoCallback /\ current = NoCallback
      BY <3>1, <3>2 DEF Callback, NoCallback, OnTheirWay
    <3>4. \A u \in Thread : pc[u] \in {"open", "dump"} => pc'[u] = pc[u]
      BY <1>0, <3>1 DEF TypeOK
    <3>5. ASSUME NEW m \in Reader, NEW i \in 1 .. Len(queue), queue[i].listener = m
          PROVE  Pending(m)'
      <4>1. CASE i = 1
        BY <3>1, <3>3, <3>5, <4>1 DEF Pending
      <4>2. CASE i # 1
        <5>1. i - 1 \in 1 .. Len(queue') /\ queue'[i - 1] = queue[i]
          BY <3>2, <4>2
        <5> QED BY <3>5, <5>1 DEF Pending
      <4> QED BY <4>1, <4>2
    <3>6. ASSUME NEW m \in Reader, Pending(m) PROVE Pending(m)'
      BY <3>1, <3>3, <3>4, <3>5, <3>6 DEF Pending
    <3> QED BY <3>1, <3>6, ReadersKept
  <2>3. CASE LoopRun
    <3>1. /\ current.by \in Worker /\ pc[current.by] = "waiting"
          /\ current.listener \in Listener /\ pc[Main] = "callback"
      BY <1>0, <2>3 DEF LoopRun, CallbackTaken, Callback, OneCallbackEach
    <3>2. \A u \in Thread : pc[u] \in {"open", "dump"} => pc'[u] = pc[u]
      BY <1>0, <2>3, <3>1 DEF LoopRun, TypeOK
    <3>3. /\ Show(Main, current.listener, current.value)
          /\ UNCHANGED <<state, arg, notify, queue, subscribed>>
      BY <2>3 DEF LoopRun
    <3>4. \A m \in Reader : m # current.listener /\ Pending(m) => Pending(m)'
      BY <3>2, <3>3 DEF Pending
    <3>5. /\ current.listener \in Reader =>
                 shown'[current.listener] = state[Topic[current.listener]]
          /\ \A m \in Listener \ {current.listener} : shown'[m] = shown[m]
      BY <1>0, <3>1, <3>3, ShowReads
    <3> QED BY <3>3, <3>4, <3>5 DEF ReaderConverges
  <2>4. CASE SubscribeShow
    <3>1. PICK l \in Listener : notify[Main] = {l}
      BY <2>4 DEF SubscribeShow, OnTheirWay
    <3>2. /\ notify' = [notify EXCEPT ![Main] = {}]
          /\ shown' = [shown EXCEPT ![l] = state[Topic[l]]]
          /\ UNCHANGED <<state, arg, subscribed, queue, current>>
          /\ \A u \in Thread : pc[u] \in {"open", "dump"} => pc'[u] = pc[u]
      BY <1>0, <2>4, <3>1 DEF SubscribeShow, Goto, TypeOK, loop
    <3>3. \A m \in Reader : m # l /\ Pending(m) => Pending(m)'
      BY <1>0, <3>1, <3>2 DEF Pending, TypeOK
    <3>4. /\ shown'[l] = state[Topic[l]]
          /\ \A m \in Listener \ {l} : shown'[m] = shown[m]
      BY <1>0, <3>2 DEF TypeOK
    <3> QED BY <3>2, <3>3, <3>4 DEF ReaderConverges
  <2> QED BY <1>4, <2>1, <2>2, <2>3, <2>4 DEF MainProceeds
<1>5. ASSUME NEW l \in Listener, Subscribe(l) PROVE ReaderConverges'
  <2>1. /\ pc[Main] = "idle" /\ pc' = [pc EXCEPT ![Main] = "subscribe"]
        /\ subscribed' = subscribed \cup {l}
        /\ notify' = [notify EXCEPT ![Main] = {l}]
        /\ UNCHANGED <<state, arg, queue, current, shown>>
    BY <1>5 DEF Subscribe, Call, Goto, loop
  <2>2. /\ notify[Main] = {} /\ l \in notify'[Main]
        /\ \A u \in Thread \ {Main} : notify'[u] = notify[u] /\ pc'[u] = pc[u]
    BY <1>0, <2>1 DEF OnTheirWay, TypeOK
  <2>3. \A m \in Reader : m = l \/ Pending(m) => Pending(m)'
    BY <2>1, <2>2 DEF Pending
  <2> QED BY <2>1, <2>3 DEF ReaderConverges
<1>6. CASE Restart
  BY <1>6 DEF Restart, ReaderConverges
<1>7. CASE UNCHANGED vars
  BY <1>7, PendingKept, ReadersKept DEF vars, thread
<1> QED BY <1>1, <1>2, <1>3, <1>4, <1>5, <1>6, <1>7 DEF Next

\* A widget that reads the store again in its listener shows the current value
\* once no notification is on its way to it, however the publications of the
\* threads, the event loop and a late subscription were interleaved.
THEOREM StoreReaderConverges == Spec => []ReaderConverges
<1>1. Init => OnTheirWay /\ ReaderConverges
  BY Basics DEF Init, OnTheirWay, ReaderConverges
<1>2. IInv /\ OnTheirWay /\ ReaderConverges /\ [Next]_vars
         => OnTheirWay' /\ ReaderConverges'
  BY OnTheirWayNext, ReaderNext DEF IInv
<1> QED BY InvHolds, <1>1, <1>2, PTL DEF Spec
=============================================================================

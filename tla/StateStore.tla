----------------------------- MODULE StateStore -----------------------------
(***************************************************************************)
(* The reactive store of src/src/state/store.py, with the two kinds of     *)
(* listener the widgets subscribe and the Textual event loop that runs     *)
(* them.                                                                   *)
(*                                                                         *)
(* A worker thread that publishes hands each listener to the event loop    *)
(* with App.call_from_thread and waits until the loop has run it; the main *)
(* thread runs its listeners itself.  The store's re-entrant lock protects *)
(* the state and the state file, so what happens under it is split only    *)
(* where another thread or a crash can see the difference.                 *)
(***************************************************************************)
EXTENDS Integers, FiniteSets, Sequences

CONSTANTS
    Key, Value,     \* state keys and the values they take
    Default,        \* the value every key starts with
    Persistent,     \* _persistent_keys
    UpdateKey,      \* the keys some caller passes to update()
    Worker, Main,   \* worker threads, and the thread of the event loop
    Reader,         \* listeners that read the store again (status bar)
    Shower,         \* listeners that show the published value (now playing)
    Topic,          \* the key each listener subscribes to
    NoOne,          \* the lock's owner when it is free
    MaxCalls        \* bound of the model: calls made in one run

Thread   == Worker \cup {Main}
Listener == Reader \cup Shower

ASSUME ValuesOK    == Default \in Value
ASSUME KeysOK      == Key # {} /\ Persistent \subseteq Key /\ UpdateKey \subseteq Key
ASSUME ListenersOK == Topic \in [Listener -> Key] /\ Reader \cap Shower = {}
ASSUME ThreadsOK   == Main \notin Worker /\ NoOne \notin Thread
ASSUME MaxCallsNat == MaxCalls \in Nat
\* No widget listens to a key that is set through update() while it runs.
ASSUME UpdatesQuiet == \A l \in Reader \cup Shower : Topic[l] \notin UpdateKey

VARIABLES
    state,      \* self._state
    lock,       \* the owner of self._state_lock
    disk,       \* the state file
    pc,         \* the step each thread is at
    arg,        \* the key and value of the set() the thread is in
    rest,       \* the keys its update() has still to set
    updating,   \* the set() is nested in an update()
    notify,     \* the listeners it has still to notify
    queue,      \* what call_from_thread gave the event loop
    current,    \* the callback the main thread is running
    subscribed, \* the listeners of the topics
    shown,      \* what each widget shows
    calls,      \* calls made so far
    failed      \* history: the last save of the state file failed

thread == <<pc, arg, rest, updating, notify>>
loop   == <<queue, current>>
file   == <<disk, failed>>
vars   == <<state, lock, file, thread, loop, subscribed, shown, calls>>

\* What _save_persistent_state writes.
Project(s) == [k \in Persistent |-> s[k]]

Steps == {"idle", "set", "open", "dump", "publish", "waiting",
          "update", "next", "subscribe", "callback"}

Callback == [by : Worker, listener : Listener, value : Value]
NoCallback == [by |-> NoOne]
Arg == [key : Key, value : Value]

TypeOK ==
    /\ state \in [Key -> Value]
    /\ lock \in Thread \cup {NoOne}
    /\ disk \in [state : {"ok", "torn"}, data : [Persistent -> Value]]
    /\ pc \in [Thread -> Steps]
    /\ arg \in [Thread -> Arg]
    /\ rest \in [Thread -> SUBSET Arg]
    /\ updating \in [Thread -> BOOLEAN]
    /\ notify \in [Thread -> SUBSET Listener]
    /\ queue \in Seq(Callback)
    /\ current \in Callback \cup {NoCallback}
    /\ subscribed \in SUBSET Listener
    /\ shown \in [Listener -> Value]
    /\ calls \in Nat
    /\ failed \in BOOLEAN

AnyArg == [key |-> CHOOSE k \in Key : TRUE, value |-> Default]
Unset  == [k \in Key |-> Default]

Init ==
    /\ state = Unset
    /\ disk = [state |-> "ok", data |-> Project(Unset)]
    /\ lock = NoOne
    /\ pc = [t \in Thread |-> "idle"]
    /\ arg = [t \in Thread |-> AnyArg]
    /\ rest = [t \in Thread |-> {}]
    /\ updating = [t \in Thread |-> FALSE]
    /\ notify = [t \in Thread |-> {}]
    /\ queue = <<>>
    /\ current = NoCallback
    /\ subscribed = {}
    /\ shown = [l \in Listener |-> Default]
    /\ calls = 0
    /\ failed = FALSE

-----------------------------------------------------------------------------
Goto(t, step) == pc' = [pc EXCEPT ![t] = step]

\* The lock is re-entrant.
Free(t) == lock \in {NoOne, t}

Call(t, step) ==
    /\ pc[t] = "idle"
    /\ calls < MaxCalls
    /\ calls' = calls + 1
    /\ Goto(t, step)

\* After the notifications a set() returns, to its update() if it has one.
AfterPublish(t) == IF updating[t] THEN "next" ELSE "idle"

\* The publication is over at once when nobody listens to the topic.
Publish(t, k) ==
    LET to == {l \in subscribed : Topic[l] = k} IN
    /\ notify' = [notify EXCEPT ![t] = to]
    /\ Goto(t, IF to = {} THEN AfterPublish(t) ELSE "publish")

\* set(key, value) under the lock: nothing when the value is the current one;
\* else the assignment, and a persistent key keeps the lock for the save.
SameValue(t, a) ==
    /\ state[a.key] = a.value
    /\ Goto(t, AfterPublish(t))
    /\ UNCHANGED <<state, lock, arg, notify>>

\* Mutant: the save comes after the "with" block.
NewValueSavedUnlocked(t, a) ==
    /\ state[a.key] # a.value
    /\ state' = [state EXCEPT ![a.key] = a.value]
    /\ arg' = [arg EXCEPT ![t] = a]
    /\ UNCHANGED lock
    /\ \/ a.key \in Persistent /\ Goto(t, "open") /\ UNCHANGED notify
       \/ a.key \notin Persistent /\ Publish(t, a.key)

NewValue(t, a) ==
    /\ state[a.key] # a.value
    /\ state' = [state EXCEPT ![a.key] = a.value]
    /\ arg' = [arg EXCEPT ![t] = a]
    /\ \/ a.key \in Persistent /\ lock' = t /\ Goto(t, "open") /\ UNCHANGED notify
       \/ a.key \notin Persistent /\ Publish(t, a.key) /\ UNCHANGED lock

Assign(t, a) == Free(t) /\ (SameValue(t, a) \/ NewValue(t, a))

SetCall(t, k, v) ==
    /\ Call(t, "set")
    /\ arg' = [arg EXCEPT ![t] = [key |-> k, value |-> v]]
    /\ UNCHANGED <<state, lock, file, rest, updating, notify, loop,
                   subscribed, shown>>

SetEnter(t) ==
    /\ pc[t] = "set"
    /\ Assign(t, arg[t])
    /\ UNCHANGED <<file, rest, updating, loop, subscribed, shown, calls>>

\* _save_persistent_state: open("w") empties the file, dump fills it; then
\* the lock is released, unless an update() holds it, and listeners are told.
SaveOpen(t) ==
    /\ pc[t] = "open"
    /\ disk' = [disk EXCEPT !.state = "torn"]
    /\ Goto(t, "dump")
    /\ UNCHANGED <<state, lock, arg, rest, updating, notify, loop, subscribed,
                   shown, calls, failed>>

\* Mutant: the listeners are told inside the "with" block.
SaveDumpPublishLocked(t) ==
    /\ pc[t] = "dump"
    /\ disk' = [state |-> "ok", data |-> Project(state)]
    /\ failed' = FALSE
    /\ Publish(t, arg[t].key)
    /\ UNCHANGED <<state, lock, arg, rest, updating, loop, subscribed, shown,
                   calls>>

SaveDump(t) ==
    /\ pc[t] = "dump"
    /\ disk' = [state |-> "ok", data |-> Project(state)]
    /\ failed' = FALSE
    /\ lock' = IF updating[t] THEN t ELSE NoOne
    /\ Publish(t, arg[t].key)
    /\ UNCHANGED <<state, arg, rest, updating, loop, subscribed, shown, calls>>

\* Creating the directory, open or dump raises, and the error is dropped: the
\* file is the old one, or truncated, and set() goes on as after a save.
SaveFails(t) ==
    /\ pc[t] \in {"open", "dump"}
    /\ failed' = TRUE
    /\ lock' = IF updating[t] THEN t ELSE NoOne
    /\ Publish(t, arg[t].key)
    /\ UNCHANGED <<state, disk, arg, rest, updating, loop, subscribed, shown,
                   calls>>

\* update(**kwargs): the lock is held around one set() per key.
UpdateCall(t, f) ==
    /\ Call(t, "update")
    /\ rest' = [rest EXCEPT ![t] = f]
    /\ UNCHANGED <<state, lock, file, arg, updating, notify, loop, subscribed,
                   shown>>

UpdateEnter(t) ==
    /\ pc[t] = "update"
    /\ Free(t)
    /\ lock' = t
    /\ updating' = [updating EXCEPT ![t] = TRUE]
    /\ Goto(t, "next")
    /\ UNCHANGED <<state, file, arg, rest, notify, loop, subscribed, shown,
                   calls>>

UpdateNext(t) ==
    /\ pc[t] = "next"
    /\ \E a \in rest[t] :
          /\ rest' = [rest EXCEPT ![t] = @ \ {a}]
          /\ Assign(t, a)
    /\ UNCHANGED <<file, updating, loop, subscribed, shown, calls>>

UpdateLeave(t) ==
    /\ pc[t] = "next" /\ rest[t] = {}
    /\ lock' = NoOne
    /\ updating' = [updating EXCEPT ![t] = FALSE]
    /\ Goto(t, "idle")
    /\ UNCHANGED <<state, file, arg, rest, notify, loop, subscribed, shown,
                   calls>>

-----------------------------------------------------------------------------
\* Mutant: the status bar shows the value it is given.
ShowGiven(t, l, v) == Free(t) /\ shown' = [shown EXCEPT ![l] = v]

\* A reader takes the lock to read the key again; a shower needs no lock.
Show(t, l, v) ==
    \/ l \in Shower /\ shown' = [shown EXCEPT ![l] = v]
    \/ l \in Reader /\ Free(t) /\ shown' = [shown EXCEPT ![l] = state[Topic[l]]]

\* The main thread runs its listeners itself.
PublishOnMain ==
    /\ pc[Main] = "publish"
    /\ \E l \in notify[Main] :
          /\ Show(Main, l, arg[Main].value)
          /\ notify' = [notify EXCEPT ![Main] = @ \ {l}]
          /\ Goto(Main, IF notify[Main] = {l} THEN AfterPublish(Main)
                                             ELSE "publish")
    /\ UNCHANGED <<state, lock, file, arg, rest, updating, loop, subscribed,
                   calls>>

\* A worker gives the listener to the event loop and waits.
PublishByWorker(t) ==
    /\ pc[t] = "publish"
    /\ \E l \in notify[t] :
          /\ queue' = Append(queue, [by |-> t, listener |-> l,
                                     value |-> arg[t].value])
          /\ notify' = [notify EXCEPT ![t] = @ \ {l}]
    /\ Goto(t, "waiting")
    /\ UNCHANGED <<state, lock, file, arg, rest, updating, current, subscribed,
                   shown, calls>>

\* The event loop, between two handlers, takes the oldest callback ...
LoopTake ==
    /\ pc[Main] = "idle"
    /\ queue # <<>>
    /\ current' = Head(queue)
    /\ queue' = Tail(queue)
    /\ Goto(Main, "callback")
    /\ UNCHANGED <<state, lock, file, arg, rest, updating, notify, subscribed,
                   shown, calls>>

\* ... and runs it, blocking while a worker holds the lock it needs; then the
\* worker that waited goes on.
LoopRun ==
    LET by == current.by IN
    /\ pc[Main] = "callback"
    /\ Show(Main, current.listener, current.value)
    /\ pc' = [pc EXCEPT ![Main] = "idle",
                        ![by] = IF notify[by] = {} THEN AfterPublish(by)
                                                   ELSE "publish"]
    /\ current' = NoCallback
    /\ UNCHANGED <<state, lock, file, arg, rest, updating, notify, queue,
                   subscribed, calls>>

\* subscribe(key, callback), from on_mount: the listener joins the topic, then
\* it is called with the value read under the lock.
Subscribe(l) ==
    /\ Call(Main, "subscribe")
    /\ l \notin subscribed
    /\ subscribed' = subscribed \cup {l}
    /\ notify' = [notify EXCEPT ![Main] = {l}]
    /\ UNCHANGED <<state, lock, file, arg, rest, updating, loop, shown>>

SubscribeShow ==
    /\ pc[Main] = "subscribe"
    /\ Free(Main)
    /\ \E l \in notify[Main] : shown' = [shown EXCEPT ![l] = state[Topic[l]]]
    /\ notify' = [notify EXCEPT ![Main] = {}]
    /\ Goto(Main, "idle")
    /\ UNCHANGED <<state, lock, file, arg, rest, updating, loop, subscribed,
                   calls>>

\* The process ends anywhere and a new one reads the file: _load_persistent_state
\* keeps the defaults when it cannot be parsed.
Restart ==
    /\ calls < MaxCalls
    /\ calls' = calls + 1
    /\ state' = [k \in Key |->
                    IF k \in Persistent /\ disk.state = "ok" THEN disk.data[k]
                                                             ELSE Default]
    /\ lock' = NoOne
    /\ pc' = [t \in Thread |-> "idle"]
    /\ arg' = [t \in Thread |-> AnyArg]
    /\ rest' = [t \in Thread |-> {}]
    /\ updating' = [t \in Thread |-> FALSE]
    /\ notify' = [t \in Thread |-> {}]
    /\ queue' = <<>>
    /\ current' = NoCallback
    /\ subscribed' = {}
    /\ shown' = [l \in Listener |-> Default]
    /\ failed' = FALSE
    /\ UNCHANGED disk

Proceed(t) ==
    \/ SetEnter(t) \/ SaveOpen(t) \/ SaveDump(t) \/ SaveFails(t)
    \/ UpdateEnter(t) \/ UpdateNext(t) \/ UpdateLeave(t)

MainProceeds == PublishOnMain \/ LoopTake \/ LoopRun \/ SubscribeShow

Updates == {{[key |-> k, value |-> v] : k \in UpdateKey} : v \in Value}

Start(t) ==
    \/ \E k \in Key, v \in Value : SetCall(t, k, v)
    \/ \E f \in Updates : UpdateCall(t, f)

Next ==
    \/ \E t \in Thread : Start(t) \/ Proceed(t)
    \/ \E t \in Worker : PublishByWorker(t)
    \/ MainProceeds
    \/ \E l \in Listener : Subscribe(l)
    \/ Restart

Spec == Init /\ [][Next]_vars

\* Every thread that can run is scheduled, and the event loop keeps running.
Fairness ==
    /\ \A t \in Thread : WF_vars(Proceed(t))
    /\ \A t \in Worker : WF_vars(PublishByWorker(t))
    /\ WF_vars(MainProceeds)

FairSpec == Spec /\ Fairness

-----------------------------------------------------------------------------
\* A notification of l is on its way.
Pending(l) ==
    \/ \E t \in Thread : \/ l \in notify[t]
                         \/ pc[t] \in {"open", "dump"} /\ arg[t].key = Topic[l]
    \/ \E i \in 1 .. Len(queue) : queue[i].listener = l
    \/ current # NoCallback /\ current.listener = l

\* A worker that waits for the event loop never holds the store's lock, so a
\* listener that the loop runs in the meantime can take it (set() publishes
\* after its "with" block; update() relies on nobody listening to its keys).
NoHoldAndWait == \A t \in Worker : pc[t] = "waiting" => lock # t

\* Whenever the lock is free, a state file that can be parsed holds the
\* persistent keys as they are in memory: set() saves before it lets another
\* set() in, so saves cannot overtake each other.  A save that fails
\* (store.py:100-101) leaves the file behind until the next one that succeeds,
\* which repairs it.
DiskMatches ==
    lock = NoOne /\ disk.state = "ok" /\ ~ failed => disk.data = Project(state)

\* A widget that reads the store again in its listener (the status bar) shows
\* the current value once no notification is on its way, in whatever order
\* the notifications of several threads arrived and whenever it subscribed.
ReaderConverges ==
    \A l \in Reader \cap subscribed :
        ~ Pending(l) => shown[l] = state[Topic[l]]

\* Every call on the store returns, callbacks included: no thread waits for
\* ever on the lock, and no worker for ever on the event loop.
EveryCallReturns == \A t \in Thread : []<>(pc[t] = "idle")
=============================================================================

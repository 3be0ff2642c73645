------------------------------ MODULE Playback ------------------------------
(***************************************************************************)
(* The playback state of src/src/network/playback_service.py: the cached   *)
(* answer, the service's lock, the copy in the store, and the threads that *)
(* ask for it (heartbeat, commands, the main thread).                      *)
(*                                                                         *)
(* Spotify's playback state is a version number that grows.  A version in  *)
(* Silent is an empty session, which the API reports as None, like a       *)
(* request the gate drops.  Store.set assigns at once and, in a worker,    *)
(* waits until the event loop has run the listeners (module StateStore):   *)
(* the state and the device's name that goes with it are one such wait.    *)
(***************************************************************************)
EXTENDS Integers, Sequences

CONSTANTS
    Updater,     \* workers that run useUpdateNowPlaying
    Caller,      \* workers that ask the service for something else's sake
    Main,        \* the thread of the event loop
    MainAsks,    \* whether a handler of the event loop asks the service itself
    NoOne,       \* the lock's owner when it is free
    MaxVersion,  \* bound of the model: Spotify's state changes so often
    Silent       \* the versions in which there is no session

Worker == Updater \cup Caller
Thread == Worker \cup {Main}

ASSUME ThreadsOK == Main \notin Worker /\ NoOne \notin Thread
ASSUME BoundsOK  == MainAsks \in BOOLEAN /\ MaxVersion \in Nat /\ Silent \subseteq Nat

VARIABLES
    spotify,    \* the state at Spotify
    lastState,  \* _last_playback_state
    fresh,      \* the cached state is within its time to live
    stored,     \* the store's current_playback
    lock,       \* the owner of self._lock
    pc,         \* the step each thread is at
    forced,     \* the force argument
    got,        \* the answer a thread holds
    result,     \* the state get_current_playback returned to it
    queue       \* the workers that wait for the event loop, in order

service == <<lastState, fresh>>
asked   == <<forced, got, result>>
vars    == <<spotify, service, stored, lock, pc, asked, queue>>

Version == 0 .. MaxVersion
\* What the store holds: a version, and whether a command has edited it.
Shown == [seen : Version, edited : BOOLEAN]
AsSeen(v) == [seen |-> v, edited |-> FALSE]

Steps == {"idle", "lock", "call", "answer", "store", "wait in", "release",
          "again", "wait out", "lock devices", "devices", "edit"}

TypeOK ==
    /\ spotify \in Version
    /\ lastState \in Version
    /\ fresh \in BOOLEAN
    /\ stored \in Shown
    /\ lock \in Thread \cup {NoOne}
    /\ pc \in [Thread -> Steps]
    /\ forced \in [Thread -> BOOLEAN]
    /\ got \in [Thread -> Version]
    /\ result \in [Thread -> Shown]
    /\ queue \in Seq(Worker)

Init ==
    /\ spotify = 0
    /\ lastState = 0
    /\ fresh = FALSE
    /\ stored = AsSeen(0)
    /\ lock = NoOne
    /\ pc = [t \in Thread |-> "idle"]
    /\ forced = [t \in Thread |-> FALSE]
    /\ got = [t \in Thread |-> 0]
    /\ result = [t \in Thread |-> AsSeen(0)]
    /\ queue = <<>>

Goto(t, step) == pc' = [pc EXCEPT ![t] = step]

Step(t, from, to) == pc[t] = from /\ Goto(t, to)

\* Where get_current_playback returns to.
AfterGet(t) == IF t \in Updater THEN "again" ELSE "idle"

Asks(t) == t \in Worker \/ MainAsks

-----------------------------------------------------------------------------
\* get_current_playback(force).
Ask(t, force) ==
    /\ Asks(t)
    /\ Step(t, "idle", "lock")
    /\ forced' = [forced EXCEPT ![t] = force]
    /\ UNCHANGED <<spotify, service, stored, lock, got, result, queue>>

\* Mutant: the cached state is returned whatever its age.
FromCacheOld(t) ==
    /\ pc[t] = "lock" /\ lock = NoOne
    /\ ~ forced[t]
    /\ result' = [result EXCEPT ![t] = AsSeen(lastState)]
    /\ Goto(t, AfterGet(t))
    /\ UNCHANGED <<spotify, service, stored, lock, forced, got, queue>>

\* The lock is taken; a state within its time to live is returned at once.
FromCache(t) ==
    /\ pc[t] = "lock" /\ lock = NoOne
    /\ fresh /\ ~ forced[t]
    /\ result' = [result EXCEPT ![t] = AsSeen(lastState)]
    /\ Goto(t, AfterGet(t))
    /\ UNCHANGED <<spotify, service, stored, lock, forced, got, queue>>

\* Mutant: the lock is not held during the request.
RequestUnlocked(t) ==
    /\ lock = NoOne
    /\ ~ fresh \/ forced[t]
    /\ Step(t, "lock", "call")
    /\ UNCHANGED <<spotify, service, stored, lock, asked, queue>>

Request(t) ==
    /\ lock = NoOne
    /\ ~ fresh \/ forced[t]
    /\ lock' = t
    /\ Step(t, "lock", "call")
    /\ UNCHANGED <<spotify, service, stored, asked, queue>>

\* Spotify answers with the state it is in ...
Reply(t) ==
    /\ Step(t, "call", "answer")
    /\ spotify \notin Silent
    /\ got' = [got EXCEPT ![t] = spotify]
    /\ UNCHANGED <<spotify, service, stored, lock, forced, result, queue>>

\* ... or there is no answer, or no session: the cached state is returned.
NoReply(t) ==
    /\ Step(t, "call", "release")
    /\ result' = [result EXCEPT ![t] = AsSeen(lastState)]
    /\ UNCHANGED <<spotify, service, stored, lock, forced, got, queue>>

Take(t) ==
    /\ Step(t, "answer", "store")
    /\ lastState' = got[t]
    /\ fresh' = TRUE
    /\ result' = [result EXCEPT ![t] = AsSeen(got[t])]
    /\ UNCHANGED <<spotify, stored, lock, forced, got, queue>>

\* Store.set("current_playback", value): a worker that changes it waits for the
\* listeners, the main thread runs them itself.  The same version may be a
\* change as well: the track's progress is predicted.
StoreSet(t, value, waiting, done) ==
    /\ stored' = value
    /\ \/ /\ t # Main
          /\ queue' = Append(queue, t)
          /\ Goto(t, waiting)
       \/ /\ stored = value \/ t = Main
          /\ Goto(t, done)
          /\ UNCHANGED queue

Store(t) ==
    /\ pc[t] = "store"
    /\ StoreSet(t, result[t], "wait in", "release")
    /\ UNCHANGED <<spotify, service, lock, asked>>

Release(t) ==
    /\ Step(t, "release", AfterGet(t))
    /\ lock' = NoOne
    /\ UNCHANGED <<spotify, service, stored, asked, queue>>

\* useUpdateNowPlaying stores what it got once more, without the lock.
StoreAgain(t) ==
    /\ pc[t] = "again"
    /\ StoreSet(t, result[t], "wait out", "idle")
    /\ UNCHANGED <<spotify, service, lock, asked>>

\* get_devices: the same lock around its request; nobody listens to devices.
AskDevices(t) ==
    /\ Asks(t)
    /\ Step(t, "idle", "lock devices")
    /\ UNCHANGED <<spotify, service, stored, lock, asked, queue>>

RequestDevices(t) ==
    /\ lock = NoOne
    /\ lock' = t
    /\ Step(t, "lock devices", "devices")
    /\ UNCHANGED <<spotify, service, stored, asked, queue>>

TakeDevices(t) ==
    /\ Step(t, "devices", "idle")
    /\ lock' = NoOne
    /\ UNCHANGED <<spotify, service, stored, asked, queue>>

-----------------------------------------------------------------------------
\* The event loop, between two handlers, runs the listeners of the worker that
\* has waited longest.
Listen ==
    LET w == Head(queue) IN
    /\ pc[Main] = "idle"
    /\ queue # <<>>
    /\ queue' = Tail(queue)
    /\ Goto(w, IF pc[w] = "wait in" THEN "release" ELSE "idle")
    /\ UNCHANGED <<spotify, service, stored, lock, asked>>

\* The commands edit the stored state before Spotify has answered them: they
\* read it and write it back.
EditRead ==
    /\ Step(Main, "idle", "edit")
    /\ result' = [result EXCEPT ![Main] = [stored EXCEPT !.edited = TRUE]]
    /\ UNCHANGED <<spotify, service, stored, lock, forced, got, queue>>

EditWrite ==
    /\ pc[Main] = "edit"
    /\ StoreSet(Main, result[Main], "wait out", "idle")
    /\ UNCHANGED <<spotify, service, lock, asked>>

\* Spotify's state changes, and the cached one grows old.
Change ==
    /\ spotify < MaxVersion
    /\ spotify' = spotify + 1
    /\ UNCHANGED <<service, stored, lock, pc, asked, queue>>

Expire ==
    /\ fresh
    /\ fresh' = FALSE
    /\ UNCHANGED <<spotify, lastState, stored, lock, pc, asked, queue>>

Proceed(t) ==
    \/ FromCache(t) \/ Request(t) \/ NoReply(t) \/ Take(t) \/ Store(t)
    \/ Release(t) \/ StoreAgain(t) \/ RequestDevices(t) \/ TakeDevices(t)

Begin(t) == (\E force \in BOOLEAN : Ask(t, force)) \/ AskDevices(t)

Next ==
    \/ \E t \in Thread : Begin(t) \/ Reply(t) \/ Proceed(t)
    \/ Listen \/ EditRead \/ EditWrite \/ Change \/ Expire

Spec == Init /\ [][Next]_vars

\* A request ends; the lock, handed over in no order, reaches every thread that
\* wants it time and again; the event loop returns to its queue; the heartbeat
\* asks for ever, time passes, and some of the requests are answered.
Fairness ==
    /\ \A t \in Thread : /\ SF_vars(FromCache(t) \/ Request(t) \/ RequestDevices(t))
                         /\ SF_vars(Reply(t))
                         /\ WF_vars(Reply(t) \/ Proceed(t))
    /\ \A u \in Updater : SF_vars(Ask(u, FALSE))
    /\ SF_vars(Listen) /\ WF_vars(EditWrite) /\ WF_vars(Expire)

FairSpec == Spec /\ Fairness

-----------------------------------------------------------------------------
\* The state the service keeps never goes back to an older answer, although
\* several threads ask and Spotify's state changes between question and answer.
ServiceNeverGoesBack == [][lastState' >= lastState]_vars

\* The store holds Spotify's state time and again, whatever stale results and
\* edits were stored before: the heartbeat repairs them.
StoreCatchesUp == []<>(spotify \in Silent \/ stored.seen = spotify)

\* What get_current_playback stores itself is never older than what is stored
\* already, commands' edits and second assignments apart.
StoredInOrder ==
    \A t \in Thread : pc[t] = "store" => result[t].seen >= stored.seen
=============================================================================

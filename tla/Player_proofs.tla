---------------------------- MODULE Player_proofs ----------------------------
(* Theorems about Player, for every set of tracks and loading threads, every  *)
(* length and whether gapless or not: its types, and that the decoder, the    *)
(* listener, the sink and the last request stay together.                     *)
EXTENDS Player, TLAPS

USE PlayerAssumption

StateType   == [kind: StateKinds, track: MaybeTrack, id: MaybeId, play: BOOLEAN,
                loader: Loader \cup {NoLoader}, loaded: MaybeLoaded,
                suggested: BOOLEAN]
PreloadType == [kind: {"None", "Loading", "Ready"}, track: MaybeTrack,
                loader: Loader \cup {NoLoader}, loaded: MaybeLoaded]
ThreadType  == [out: {"idle", "running", "ok", "failed"}, track: MaybeTrack,
                from: Nat, pos: Place]
HeardType   == [id: MaybeId, kind: HeardKinds, req: MaybeId, track: MaybeTrack]
AskedType   == [id: MaybeId, track: MaybeTrack, pos: Nat, play: BOOLEAN]
StartedType == [id: MaybeId, track: MaybeTrack, pos: Place, play: BOOLEAN]

\* The types of what handle_command and the stages of poll work on.
Typed ==
    /\ state \in StateType
    /\ preload \in PreloadType
    /\ loads \in [Loader -> ThreadType]
    /\ sink \in SinkStatus
    /\ nextId \in Nat
    /\ heard \in HeardType
    /\ asked \in AskedType
    /\ started \in StartedType

\* A thread of load_track that loads track t from position p.
LoadsFor(thread, t, p) ==
    /\ thread.track = t
    /\ thread.out = "running" => thread.from = p
    /\ thread.out = "ok" => /\ thread.pos \in {LoadsAt(p), SeeksTo(p)}
                            /\ t \in Local => thread.pos = SeeksTo(p)

\* The state has the decoder of its track, or the thread that loads it from
\* where it was asked for; while it loads, nothing else has been asked.
StateSound ==
    /\ state.kind \notin {"Stopped", "Invalid"} => state.track \in Track
    /\ HasDecoder \/ state.kind = "EndOfTrack" => state.loaded.track = state.track
    /\ state.loader # NoLoader =>
          /\ state.kind = "Loading"
          /\ LoadsFor(loads[state.loader], state.track, asked.pos)
    /\ state.kind = "Loading" =>
          /\ asked.id = state.id /\ asked.track = state.track
          /\ asked.play = state.play
          /\ started = Never

\* The preload has the decoder of its track, or the thread that loads it from
\* its start.
PreloadSound ==
    /\ preload.kind # "None" => preload.track \in Track
    /\ preload.kind = "Ready" => preload.loaded.track = preload.track
    /\ preload.kind = "Loading" <=> preload.loader # NoLoader
    /\ preload.loader # NoLoader => LoadsFor(loads[preload.loader], preload.track, 0)

\* A player that is paused or stopped has closed the sink.
SinkClosed == state.kind \in {"Paused", "Stopped"} => sink = "Closed"

\* What holds between any two commands or stages ...
Core ==
    /\ Typed /\ StateSound /\ PreloadSound
    /\ HeardIsState /\ StartedAsAsked /\ SinkClosed

\* ... and where the poll loop is: it passes no stage over that a playing
\* player needs, and never waits while it plays.
Rounds ==
    /\ open \in BOOLEAN /\ pc \in Stages /\ busy \in BOOLEAN
    /\ state.kind = "Playing" /\ pc \in {"suggest", "command"} => sink = "Running"
    /\ pc = "pending" => state.kind # "Playing"

IInv == Core /\ Rounds

-----------------------------------------------------------------------------
\* The states that the operators of Player make.
LEMMA StateShapes ==
    /\ Stopped.kind = "Stopped" /\ Stopped.loader = NoLoader
    /\ Invalid.kind = "Invalid" /\ Invalid.loader = NoLoader
    /\ \A t, i, play, l :
          LET st == LoadingOf(t, i, play, l) IN
          /\ st.kind = "Loading" /\ st.track = t /\ st.id = i
          /\ st.play = play /\ st.loader = l
    /\ \A t, i, d :
          LET st == PlayingOf(t, i, d) IN
          /\ st.kind = "Playing" /\ st.track = t /\ st.id = i
          /\ st.loader = NoLoader /\ st.loaded = d
    /\ \A t, i, d :
          LET st == PausedOf(t, i, d) IN
          /\ st.kind = "Paused" /\ st.track = t /\ st.id = i
          /\ st.loader = NoLoader /\ st.loaded = d
<1>1. Stopped.kind = "Stopped" /\ Stopped.loader = NoLoader
  BY DEF Stopped
<1>2. Invalid.kind = "Invalid" /\ Invalid.loader = NoLoader
  BY DEF Invalid, Stopped
<1>3. ASSUME NEW t, NEW i, NEW play, NEW l
      PROVE  LET st == LoadingOf(t, i, play, l) IN
             /\ st.kind = "Loading" /\ st.track = t /\ st.id = i
             /\ st.play = play /\ st.loader = l
  BY DEF LoadingOf, Stopped
<1>4. ASSUME NEW t, NEW i, NEW d
      PROVE  LET st == PlayingOf(t, i, d) IN
             /\ st.kind = "Playing" /\ st.track = t /\ st.id = i
             /\ st.loader = NoLoader /\ st.loaded = d
  BY DEF PlayingOf, Stopped
<1>5. ASSUME NEW t, NEW i, NEW d
      PROVE  LET st == PausedOf(t, i, d) IN
             /\ st.kind = "Paused" /\ st.track = t /\ st.id = i
             /\ st.loader = NoLoader /\ st.loaded = d
  BY DEF PausedOf, PlayingOf, Stopped
<1> QED BY <1>1, <1>2, <1>3, <1>4, <1>5

\* The three shapes of a preload, and which of them have a loader or a track.
LEMMA PreloadShapes ==
    /\ NoPreload.kind = "None" /\ NoPreload.loader = NoLoader
    /\ \A t, l :
          LET pre == PreloadingOf(t, l) IN
          pre.kind = "Loading" /\ pre.track = t /\ pre.loader = l
    /\ \A t, d :
          LET pre == ReadyOf(t, d) IN
          /\ pre.kind = "Ready" /\ pre.track = t
          /\ pre.loader = NoLoader /\ pre.loaded = d
<1>1. NoPreload.kind = "None" /\ NoPreload.loader = NoLoader
  BY DEF NoPreload
<1>2. ASSUME NEW t, NEW l
      PROVE  LET pre == PreloadingOf(t, l) IN
             pre.kind = "Loading" /\ pre.track = t /\ pre.loader = l
  BY DEF PreloadingOf, NoPreload
<1>3. ASSUME NEW t, NEW d
      PROVE  LET pre == ReadyOf(t, d) IN
             /\ pre.kind = "Ready" /\ pre.track = t
             /\ pre.loader = NoLoader /\ pre.loaded = d
  BY DEF ReadyOf, NoPreload
<1> QED BY <1>1, <1>2, <1>3

\* The types of what there is when there is nothing ...
LEMMA NoneTypes ==
    /\ NoLoaded \in MaybeLoaded /\ NoId \in MaybeId /\ NoTrack \in MaybeTrack
    /\ Stopped \in StateType /\ Invalid \in StateType /\ NoPreload \in PreloadType
    /\ Idle \in ThreadType /\ Never \in StartedType /\ Never \in AskedType
    /\ Track \subseteq MaybeTrack
<1>1. /\ NoLoaded \in MaybeLoaded /\ NoId \in MaybeId /\ NoTrack \in MaybeTrack
      /\ Track \subseteq MaybeTrack
  BY DEF NoLoaded, MaybeLoaded, MaybeId, MaybeTrack, Place
<1>2. Stopped \in StateType
  BY <1>1 DEF Stopped, StateType, StateKinds
<1>3. Invalid \in StateType
  BY <1>2 DEF Invalid, StateType, StateKinds
<1>4. NoPreload \in PreloadType
  BY <1>1 DEF NoPreload, PreloadType
<1>5. Idle \in ThreadType /\ Never \in StartedType /\ Never \in AskedType
  BY <1>1 DEF Idle, Never, ThreadType, StartedType, AskedType, Place
<1> QED BY <1>1, <1>2, <1>3, <1>4, <1>5

\* ... and of the states that are made with what there is.
LEMMA StateTypes ==
    ASSUME NEW t \in MaybeTrack, NEW i \in MaybeId
    PROVE  /\ \A play \in BOOLEAN, l \in Loader : LoadingOf(t, i, play, l) \in StateType
           /\ \A d \in MaybeLoaded : /\ PlayingOf(t, i, d) \in StateType
                                     /\ PausedOf(t, i, d) \in StateType
           /\ \A l \in Loader : PreloadingOf(t, l) \in PreloadType
           /\ \A d \in MaybeLoaded : ReadyOf(t, d) \in PreloadType
<1>1. ASSUME NEW play \in BOOLEAN, NEW l \in Loader
      PROVE  LoadingOf(t, i, play, l) \in StateType
  BY NoneTypes DEF LoadingOf, StateType, StateKinds
<1>2. ASSUME NEW d \in MaybeLoaded PROVE PlayingOf(t, i, d) \in StateType
  BY NoneTypes DEF PlayingOf, StateType, StateKinds
<1>3. ASSUME NEW d \in MaybeLoaded PROVE PausedOf(t, i, d) \in StateType
  BY <1>2 DEF PausedOf, StateType, StateKinds
<1>4. ASSUME NEW l \in Loader PROVE PreloadingOf(t, l) \in PreloadType
  BY NoneTypes DEF PreloadingOf, PreloadType
<1>5. ASSUME NEW d \in MaybeLoaded PROVE ReadyOf(t, d) \in PreloadType
  BY NoneTypes DEF ReadyOf, PreloadType
<1> QED BY <1>1, <1>2, <1>3, <1>4, <1>5

\* Where a decoder can be.
LEMMA PlaceTypes ==
    ASSUME NEW p \in Nat
    PROVE  LoadsAt(p) \in Place /\ SeeksTo(p) \in Place
BY DEF LoadsAt, SeeksTo, Place

\* A decoder that is moved keeps its track and is where it was asked to be.
LEMMA MovedTo ==
    ASSUME NEW d \in MaybeLoaded, NEW p \in Nat
    PROVE  /\ Moved(d, p) \in MaybeLoaded
           /\ Moved(d, p).track = d.track
           /\ Moved(d, p).pos = SeeksTo(p)
BY PlaceTypes DEF Moved, MaybeLoaded, SeeksTo, Place

\* Forgetting the threads that ended keeps those somebody waits for.
LEMMA DropKeeps ==
    ASSUME NEW threads \in [Loader -> ThreadType], NEW st, NEW pre
    PROVE  /\ Drop(threads, st, pre) \in [Loader -> ThreadType]
           /\ \A l \in Loader : l \in {st.loader, pre.loader} =>
                  Drop(threads, st, pre)[l] = threads[l]
BY NoneTypes DEF Drop

\* A sink that is stopped for good is closed.
LEMMA SinkStops ==
    ASSUME NEW s \in SinkStatus, NEW temporarily \in BOOLEAN
    PROVE  /\ SinkStopped(s, temporarily) \in SinkStatus
           /\ SinkStopped(s, FALSE) = "Closed"
           /\ s = "Closed" => SinkStopped(s, temporarily) = "Closed"
BY DEF SinkStopped, SinkStatus

\* What start_playback leaves behind, when it starts what was asked for last.
LEMMA StartsSound ==
    ASSUME NEW t \in Track, NEW i \in MaybeId, NEW d \in MaybeLoaded, d.track = t,
           NEW play \in BOOLEAN, NEW old, NEW s \in SinkStatus, NEW newId \in MaybeId,
           StartPlayback(t, i, d, play, old, s, newId),
           asked'.id = i, asked'.track = t, asked'.play = play,
           d.pos \in {LoadsAt(asked'.pos), SeeksTo(asked'.pos)},
           t \in Local => d.pos = SeeksTo(asked'.pos)
    PROVE  /\ state' \in StateType /\ state'.loader = NoLoader
           /\ sink' \in SinkStatus /\ heard' \in HeardType /\ started' \in StartedType
           /\ StateSound' /\ HeardIsState' /\ StartedAsAsked' /\ SinkClosed'
<1>1. t \in MaybeTrack
  BY NoneTypes
<1>2. /\ state'.kind = IF play THEN "Playing" ELSE "Paused"
      /\ state'.track = t /\ state'.id = i /\ state'.loaded = d
      /\ state'.loader = NoLoader /\ state' \in StateType
  <2>1. CASE play
    <3>1. state' = PlayingOf(t, i, d)
      BY <2>1 DEF StartPlayback
    <3> QED BY <1>1, <2>1, <3>1, StateShapes, StateTypes
  <2>2. CASE ~ play
    <3>1. state' = PausedOf(t, i, d)
      BY <2>2 DEF StartPlayback
    <3> QED BY <1>1, <2>2, <3>1, StateShapes, StateTypes
  <2> QED BY <2>1, <2>2
<1>3. sink' \in SinkStatus /\ (~ play => sink' = "Closed")
  BY SinkStops DEF StartPlayback, SinkStatus
<1>4. /\ heard' = [id |-> newId, kind |-> IF play THEN "Playing" ELSE "Paused",
                   req |-> i, track |-> t]
      /\ started' = [id |-> i, track |-> t, pos |-> d.pos, play |-> play]
  BY DEF StartPlayback
<1>5. heard' \in HeardType /\ started' \in StartedType
  BY <1>1, <1>4 DEF HeardType, HeardKinds, StartedType, MaybeLoaded
<1>6. StateSound'
  BY <1>2 DEF StateSound, HasDecoder
<1>7. HeardIsState'
  BY <1>2, <1>4 DEF HeardIsState, HasDecoder
<1>8. StartedAsAsked'
  BY <1>4 DEF StartedAsAsked
<1>9. SinkClosed'
  BY <1>2, <1>3 DEF SinkClosed
<1> QED BY <1>2, <1>3, <1>5, <1>6, <1>7, <1>8, <1>9

\* What is remembered of a load.
LEMMA AskSets ==
    ASSUME NEW c, c.track \in Track, c.pos \in Nat, c.play \in BOOLEAN,
           NEW i \in MaybeId, Ask(c, i)
    PROVE  /\ asked' \in AskedType
           /\ asked'.id = i /\ asked'.track = c.track
           /\ asked'.play = c.play /\ asked'.pos = c.pos
BY NoneTypes DEF Ask, AskedType

\* The preload that is dropped leaves nothing to keep.
LEMMA NoPreloadSound ==
    ASSUME preload' = NoPreload PROVE preload' \in PreloadType /\ PreloadSound'
BY NoneTypes, PreloadShapes DEF PreloadSound

\* Loading the track that is being played, from another position, keeps the core.
LEMMA LoadAgainSound ==
    ASSUME Core, NEW c, c.track \in Track, c.pos \in Nat, c.play \in BOOLEAN,
           NEW i \in MaybeId, NEW s \in SinkStatus,
           state.kind \in {"Paused", "Stopped"} => s = "Closed",
           LoadAgain(c, i, s), nextId' \in Nat
    PROVE  Core'
<1>0. Typed /\ StateSound /\ PreloadSound /\ HeardIsState /\ StartedAsAsked
  BY DEF Core
<1>1. /\ state.loaded \in MaybeLoaded /\ state.loaded.track = c.track
      /\ state.loader = NoLoader
  BY <1>0 DEF LoadAgain, Typed, StateType, StateSound, HasDecoder
<1>2. CASE /\ preload' = NoPreload
           /\ StartPlayback(c.track, i, Moved(state.loaded, c.pos), c.play, "Invalid", s, i)
           /\ loads' = Drop(loads, state', NoPreload)
           /\ Ask(c, i)
  <2>1. preload' \in PreloadType /\ PreloadSound'
    BY <1>2, NoPreloadSound
  <2>2. loads' \in [Loader -> ThreadType]
    BY <1>0, <1>2, DropKeeps DEF Typed
  <2>3. /\ asked' \in AskedType
        /\ asked'.id = i /\ asked'.track = c.track
        /\ asked'.play = c.play /\ asked'.pos = c.pos
    BY <1>2, AskSets
  <2>4. /\ Moved(state.loaded, c.pos) \in MaybeLoaded
        /\ Moved(state.loaded, c.pos).track = c.track
        /\ Moved(state.loaded, c.pos).pos = SeeksTo(c.pos)
    BY <1>1, MovedTo
  <2>5. /\ state' \in StateType /\ sink' \in SinkStatus
        /\ heard' \in HeardType /\ started' \in StartedType
        /\ StateSound' /\ HeardIsState' /\ StartedAsAsked' /\ SinkClosed'
    BY <1>2, <2>3, <2>4, StartsSound
  <2> QED BY <2>1, <2>2, <2>3, <2>5 DEF Core, Typed
<1>3. CASE /\ Keep(IF state.kind = "EndOfTrack" THEN Invalid ELSE state, preload)
           /\ heard' = [heard EXCEPT !.id = i]
           /\ sink' = s
           /\ UNCHANGED <<asked, started>>
  <2>1. /\ state' \in {state, Invalid} /\ preload' = preload
        /\ state'.kind # "EndOfTrack"
        /\ loads' = Drop(loads, state', preload)
        /\ state'.loader = NoLoader
    BY <1>1, <1>3, StateShapes DEF Keep
  <2>2. /\ loads' \in [Loader -> ThreadType]
        /\ preload.loader # NoLoader => loads'[preload.loader] = loads[preload.loader]
    BY <1>0, <2>1, DropKeeps DEF Typed, PreloadType
  <2>3. Typed'
    BY <1>0, <1>3, <2>1, <2>2, NoneTypes DEF Typed, HeardType
  <2>4. StateSound'
    BY <1>0, <1>3, <2>1, StateShapes DEF StateSound, HasDecoder, LoadAgain
  <2>5. PreloadSound'
    BY <1>0, <2>1, <2>2 DEF PreloadSound
  <2>6. /\ heard'.kind = heard.kind /\ heard'.req = heard.req
        /\ heard'.track = heard.track
    BY <1>0, <1>3 DEF Typed, HeardType
  <2>7. HeardIsState'
    BY <1>0, <2>1, <2>6, StateShapes DEF HeardIsState, HasDecoder
  <2>8. StartedAsAsked' /\ SinkClosed'
    BY <1>0, <1>3, <2>1, StateShapes DEF StartedAsAsked, SinkClosed
  <2> QED BY <2>3, <2>4, <2>5, <2>7, <2>8 DEF Core
<1> QED BY <1>2, <1>3 DEF LoadAgain

\* Starting on a track that has been preloaded keeps the core.
LEMMA LoadPreloadedSound ==
    ASSUME Core, NEW c, c.track \in Track, c.pos \in Nat, c.play \in BOOLEAN,
           NEW i \in MaybeId, NEW s \in SinkStatus,
           state.kind \in {"Paused", "Stopped"} => s = "Closed",
           LoadPreloaded(c, i, s), nextId' \in Nat
    PROVE  Core'
<1>0. /\ Typed /\ StateSound /\ PreloadSound /\ HeardIsState /\ StartedAsAsked
      /\ preload' = NoPreload
  BY DEF Core, LoadPreloaded
<1>1. preload.loaded \in MaybeLoaded /\ preload.loaded.track = c.track
  BY <1>0 DEF LoadPreloaded, Typed, PreloadType, PreloadSound
<1>2. preload' \in PreloadType /\ PreloadSound'
  BY <1>0, NoPreloadSound
<1>3. CASE /\ StartPlayback(c.track, i, Moved(preload.loaded, c.pos), c.play,
                            state.kind, s, i)
           /\ loads' = Drop(loads, state', NoPreload)
           /\ Ask(c, i)
  <2>1. loads' \in [Loader -> ThreadType]
    BY <1>0, <1>3, DropKeeps DEF Typed
  <2>2. /\ asked' \in AskedType
        /\ asked'.id = i /\ asked'.track = c.track
        /\ asked'.play = c.play /\ asked'.pos = c.pos
    BY <1>3, AskSets
  <2>3. /\ Moved(preload.loaded, c.pos) \in MaybeLoaded
        /\ Moved(preload.loaded, c.pos).track = c.track
        /\ Moved(preload.loaded, c.pos).pos = SeeksTo(c.pos)
    BY <1>1, MovedTo
  <2>4. /\ state' \in StateType /\ sink' \in SinkStatus
        /\ heard' \in HeardType /\ started' \in StartedType
        /\ StateSound' /\ HeardIsState' /\ StartedAsAsked' /\ SinkClosed'
    BY <1>3, <2>2, <2>3, StartsSound
  <2> QED BY <1>2, <2>1, <2>2, <2>4 DEF Core, Typed
<1>4. CASE /\ Keep(state, NoPreload)
           /\ heard' = [heard EXCEPT !.id = i]
           /\ sink' = s
           /\ UNCHANGED <<asked, started>>
  <2>1. state' = state /\ loads' = Drop(loads, state, NoPreload)
    BY <1>4 DEF Keep
  <2>2. /\ loads' \in [Loader -> ThreadType]
        /\ state.loader # NoLoader => loads'[state.loader] = loads[state.loader]
    BY <1>0, <2>1, DropKeeps DEF Typed, StateType
  <2>3. Typed'
    BY <1>0, <1>2, <1>4, <2>1, <2>2 DEF Typed, HeardType
  <2>4. StateSound'
    BY <1>0, <1>4, <2>1, <2>2 DEF StateSound, HasDecoder
  <2>5. /\ heard'.kind = heard.kind /\ heard'.req = heard.req
        /\ heard'.track = heard.track
    BY <1>0, <1>4 DEF Typed, HeardType
  <2>6. HeardIsState' /\ StartedAsAsked' /\ SinkClosed'
    BY <1>0, <1>4, <2>1, <2>5 DEF HeardIsState, HasDecoder, StartedAsAsked, SinkClosed
  <2> QED BY <1>2, <2>3, <2>4, <2>6 DEF Core
<1> QED BY <1>3, <1>4 DEF LoadPreloaded

\* A thread that was just spawned loads the track from its position, and the
\* others are left alone.
LEMMA Spawned ==
    ASSUME NEW threads \in [Loader -> ThreadType], NEW l \in Loader,
           NEW t \in Track, NEW p \in Nat
    PROVE  /\ Spawn(threads, l, t, p) \in [Loader -> ThreadType]
           /\ LoadsFor(Spawn(threads, l, t, p)[l], t, p)
           /\ \A k \in Loader \ {l} : Spawn(threads, l, t, p)[k] = threads[k]
<1>1. [out |-> "running", track |-> t, from |-> p, pos |-> 0] \in ThreadType
  BY NoneTypes DEF ThreadType, Place
<1> QED BY <1>1 DEF Spawn, LoadsFor

\* The thread of the next track is not that of the current one: what somebody
\* waits for is not free.
LEMMA FreeIsOther ==
    ASSUME NEW threads, NEW l \in Loader, Free(threads, l),
           NEW k \in Loader, threads[k].track \in Track
    PROVE  k # l
BY DEF Free, Idle

\* Loading a track from nothing keeps the core.
LEMMA LoadFreshSound ==
    ASSUME Core, NEW c, c.track \in Track, c.pos \in Nat, c.play \in BOOLEAN,
           NEW i \in MaybeId, NEW s \in SinkStatus,
           LoadFresh(c, i, s), nextId' \in Nat
    PROVE  Core'
<1>0. Typed /\ PreloadSound /\ c.track \in MaybeTrack
  BY NoneTypes DEF Core
<1>1. /\ Ask(c, i) /\ started' = Never /\ sink' = s
      /\ heard' = [id |-> i, kind |-> "Loading", req |-> i, track |-> c.track]
  BY DEF LoadFresh
<1>2. \E l \in Loader :
         /\ state' = LoadingOf(c.track, i, c.play, l)
         /\ preload' = NoPreload
         /\ loads' \in [Loader -> ThreadType]
         /\ LoadsFor(loads'[l], c.track, c.pos)
  <2>1. CASE TakesPreload(c)
    <3> DEFINE l == preload.loader
    <3>1. l \in Loader /\ LoadsFor(loads[l], c.track, c.pos)
      BY <1>0, <2>1 DEF TakesPreload, Typed, PreloadType, PreloadSound
    <3>2. /\ state' = LoadingOf(c.track, i, c.play, l)
          /\ preload' = NoPreload
          /\ loads' = Drop(loads, state', NoPreload)
      BY <2>1 DEF LoadFresh, Keep
    <3>3. state'.loader = l
      BY <3>2, StateShapes
    <3>4. loads' \in [Loader -> ThreadType] /\ loads'[l] = loads[l]
      BY <1>0, <3>1, <3>2, <3>3, DropKeeps DEF Typed
    <3> QED BY <3>1, <3>2, <3>4
  <2>2. CASE ~ TakesPreload(c)
    <3>1. PICK l \in Loader :
             /\ state' = LoadingOf(c.track, i, c.play, l)
             /\ preload' = NoPreload
             /\ loads' = Spawn(Drop(loads, Stopped, NoPreload), l, c.track, c.pos)
      BY <2>2 DEF LoadFresh
    <3>2. Drop(loads, Stopped, NoPreload) \in [Loader -> ThreadType]
      BY <1>0, DropKeeps DEF Typed
    <3> QED BY <3>1, <3>2, Spawned
  <2> QED BY <2>1, <2>2
<1>3. PICK l \in Loader :
         /\ state' = LoadingOf(c.track, i, c.play, l)
         /\ preload' = NoPreload
         /\ loads' \in [Loader -> ThreadType]
         /\ LoadsFor(loads'[l], c.track, c.pos)
  BY <1>2
<1>4. preload' \in PreloadType /\ PreloadSound'
  BY <1>3, NoPreloadSound
<1>5. /\ asked' \in AskedType
      /\ asked'.id = i /\ asked'.track = c.track
      /\ asked'.play = c.play /\ asked'.pos = c.pos
  BY <1>1, AskSets
<1>6. /\ state' \in StateType
      /\ state'.kind = "Loading" /\ state'.track = c.track /\ state'.id = i
      /\ state'.play = c.play /\ state'.loader = l
  BY <1>0, <1>3, StateShapes, StateTypes
<1>7. heard' \in HeardType
  BY <1>0, <1>1 DEF HeardType, HeardKinds
<1>8. Typed'
  BY <1>1, <1>3, <1>4, <1>5, <1>6, <1>7, NoneTypes DEF Typed
<1>9. StateSound'
  BY <1>1, <1>3, <1>5, <1>6 DEF StateSound, HasDecoder
<1>10. HeardIsState' /\ StartedAsAsked' /\ SinkClosed'
  BY <1>1, <1>6 DEF HeardIsState, HasDecoder, StartedAsAsked, SinkClosed
<1> QED BY <1>4, <1>8, <1>9, <1>10 DEF Core

\* handle_command_load with an id that is new or kept.
LEMMA LoadSound ==
    ASSUME Core, NEW c, c.track \in Track, c.pos \in Nat, c.play \in BOOLEAN,
           NEW i \in MaybeId, LoadWith(c, i)
    PROVE  Core'
<1>0. /\ Typed /\ nextId' \in Nat
      /\ StateSound /\ PreloadSound /\ HeardIsState /\ StartedAsAsked /\ SinkClosed
  BY DEF Core, LoadWith, Typed
<1> DEFINE s == IF Gapless THEN sink ELSE SinkStopped(sink, c.play)
<1>1. s \in SinkStatus /\ (state.kind \in {"Paused", "Stopped"} => s = "Closed")
  BY <1>0, SinkStops DEF Typed, SinkClosed
<1>2. CASE state.kind = "Invalid"
  <2>1. /\ heard' = [heard EXCEPT !.id = i]
        /\ sink' = s
        /\ UNCHANGED <<state, preload, loads, asked, started>>
    BY <1>2 DEF LoadWith
  <2>2. Typed'
    BY <1>0, <1>1, <2>1 DEF Typed, HeardType
  <2>3. StateSound' /\ PreloadSound'
    BY <1>0, <2>1 DEF StateSound, PreloadSound, HasDecoder
  <2>4. HeardIsState' /\ StartedAsAsked' /\ SinkClosed'
    BY <1>0, <1>2, <2>1 DEF HeardIsState, HasDecoder, StartedAsAsked, SinkClosed
  <2> QED BY <2>2, <2>3, <2>4 DEF Core
<1>3. CASE state.kind # "Invalid"
  <2>1. LoadAgain(c, i, s) \/ LoadPreloaded(c, i, s) \/ LoadFresh(c, i, s)
    BY <1>3 DEF LoadWith
  <2> HIDE DEF s
  <2> QED BY <1>0, <1>1, <2>1, LoadAgainSound, LoadPreloadedSound, LoadFreshSound
<1> QED BY <1>2, <1>3

\* handle_command_preload.
LEMMA PreloadCommandSound ==
    ASSUME Core, NEW c, c.track \in Track, Preload(c)
    PROVE  Core'
<1>0. /\ Typed /\ StateSound /\ PreloadSound
      /\ UNCHANGED <<sink, nextId, heard, asked, started>>
  BY DEF Core, Preload
<1>1. state' = state
  BY DEF Preload, Keep
<1>2. /\ preload' \in PreloadType /\ PreloadSound'
      /\ loads' \in [Loader -> ThreadType]
      /\ state.loader # NoLoader => loads'[state.loader] = loads[state.loader]
  <2>1. CASE \E pre \in {preload, NoPreload} : Keep(state, pre)
    <3>1. PICK pre \in {preload, NoPreload} : Keep(state, pre)
      BY <2>1
    <3>2. preload' = pre /\ loads' = Drop(loads, state, pre)
      BY <3>1 DEF Keep
    <3>3. /\ loads' \in [Loader -> ThreadType]
          /\ state.loader # NoLoader => loads'[state.loader] = loads[state.loader]
          /\ pre.loader # NoLoader => loads'[pre.loader] = loads[pre.loader]
      BY <1>0, <3>2, DropKeeps, PreloadShapes DEF Typed, StateType, PreloadType
    <3>4. preload' \in PreloadType /\ PreloadSound'
      BY <1>0, <3>2, <3>3, NoPreloadSound DEF Typed, PreloadSound
    <3> QED BY <3>3, <3>4
  <2>2. CASE \E l \in Loader :
                /\ Free(Drop(loads, state, NoPreload), l)
                /\ preload' = PreloadingOf(c.track, l)
                /\ loads' = Spawn(Drop(loads, state, NoPreload), l, c.track, 0)
    <3>1. PICK l \in Loader :
                /\ Free(Drop(loads, state, NoPreload), l)
                /\ preload' = PreloadingOf(c.track, l)
                /\ loads' = Spawn(Drop(loads, state, NoPreload), l, c.track, 0)
      BY <2>2
    <3> DEFINE threads == Drop(loads, state, NoPreload)
    <3>2. /\ threads \in [Loader -> ThreadType]
          /\ state.loader # NoLoader => threads[state.loader] = loads[state.loader]
      BY <1>0, DropKeeps DEF Typed, StateType
    <3> HIDE DEF threads
    <3>3. /\ loads' \in [Loader -> ThreadType]
          /\ LoadsFor(loads'[l], c.track, 0)
          /\ \A k \in Loader \ {l} : loads'[k] = threads[k]
      BY <3>1, <3>2, Spawned DEF threads
    <3>4. ASSUME state.loader # NoLoader PROVE state.loader \in Loader \ {l}
      <4>1. state.loader \in Loader /\ threads[state.loader].track \in Track
        BY <1>0, <3>2, <3>4 DEF Typed, StateType, StateSound, LoadsFor
      <4> QED BY <3>1, <4>1, FreeIsOther DEF threads
    <3>5. /\ preload' \in PreloadType
          /\ preload'.kind = "Loading" /\ preload'.track = c.track /\ preload'.loader = l
      BY <3>1, NoneTypes, StateTypes, PreloadShapes
    <3>6. PreloadSound'
      BY <3>3, <3>5 DEF PreloadSound
    <3> QED BY <3>2, <3>3, <3>4, <3>5, <3>6
  <2> QED BY <2>1, <2>2 DEF Preload
<1>3. Typed'
  BY <1>0, <1>1, <1>2 DEF Typed
<1>4. StateSound'
  BY <1>0, <1>1, <1>2 DEF StateSound, HasDecoder
<1>5. HeardIsState' /\ StartedAsAsked' /\ SinkClosed'
  BY <1>0, <1>1 DEF Core, HeardIsState, HasDecoder, StartedAsAsked, SinkClosed
<1> QED BY <1>2, <1>3, <1>4, <1>5 DEF Core

\* handle_command_seek.
LEMMA SeekSound ==
    ASSUME Core, NEW c, c.pos \in Nat, Seek(c)
    PROVE  Core'
<1>0. Typed /\ StateSound
  BY DEF Core
<1>1. CASE SeekLoading(c)
  <2> DEFINE again == [track |-> state.track, pos |-> c.pos, play |-> state.play]
  <2>1. state.track \in Track /\ state.play \in BOOLEAN /\ state.id \in MaybeId
    BY <1>0, <1>1 DEF SeekLoading, Typed, StateType, StateSound
  <2>2. again.track \in Track /\ again.pos \in Nat /\ again.play \in BOOLEAN
    BY <2>1
  <2>3. LoadWith(again, state.id)
    BY <1>1 DEF SeekLoading
  <2> HIDE DEF again
  <2> QED BY <2>1, <2>2, <2>3, LoadSound
<1>2. CASE SeekDecoder(c)
  <2>1. /\ UNCHANGED <<preload, loads, sink, nextId, heard, asked, started>>
        /\ state' \in {state, [state EXCEPT !.loaded.pos = SeeksTo(c.pos)]}
    BY <1>2 DEF SeekDecoder
  <2>2. /\ state' \in StateType
        /\ state'.kind = state.kind /\ state'.track = state.track
        /\ state'.id = state.id /\ state'.play = state.play
        /\ state'.loader = state.loader
        /\ state'.loaded.track = state.loaded.track
    BY <1>0, <2>1, PlaceTypes DEF Typed, StateType, MaybeLoaded
  <2>3. Typed' /\ PreloadSound'
    BY <2>1, <2>2 DEF Core, Typed, PreloadSound
  <2>4. StateSound'
    BY <1>0, <2>1, <2>2 DEF StateSound, HasDecoder
  <2>5. HeardIsState' /\ StartedAsAsked' /\ SinkClosed'
    BY <2>1, <2>2 DEF Core, HeardIsState, HasDecoder, StartedAsAsked, SinkClosed
  <2> QED BY <2>3, <2>4, <2>5 DEF Core
<1> QED BY <1>1, <1>2 DEF Seek

\* A step after which the player has the same track, decoder and threads, of
\* the same request, and either is in a state in which nothing loads or goes
\* on loading what is asked for.
LEMMA StateMoves ==
    ASSUME Core, UNCHANGED <<preload, loads, nextId, started>>,
           state' \in StateType, sink' \in SinkStatus, heard' \in HeardType,
           asked' \in AskedType,
           state'.track = state.track, state'.id = state.id,
           state'.loader = state.loader,
           state'.loaded.track = state.loaded.track,
           asked'.id = asked.id, asked'.track = asked.track, asked'.pos = asked.pos,
           \/ /\ state.kind = "Loading" /\ state'.kind = "Loading"
              /\ asked'.play = state'.play
           \/ /\ state.kind \in {"Playing", "Paused", "EndOfTrack"}
              /\ state'.kind \in {"Playing", "Paused", "EndOfTrack"}
              /\ asked' = asked
    PROVE  Typed' /\ StateSound' /\ PreloadSound' /\ StartedAsAsked'
<1>0. Typed /\ StateSound /\ PreloadSound /\ StartedAsAsked
  BY DEF Core
<1>1. Typed' /\ PreloadSound'
  BY <1>0 DEF Typed, PreloadSound
<1>2. StateSound'
  BY <1>0 DEF StateSound, HasDecoder
<1>3. StartedAsAsked'
  BY <1>0 DEF StartedAsAsked, StateSound
<1> QED BY <1>1, <1>2, <1>3

\* A step that leaves all of it alone.
LEMMA CoreKept ==
    ASSUME Core,
           UNCHANGED <<state, preload, loads, sink, nextId, heard, asked, started>>
    PROVE  Core'
BY DEF Core, Typed, StateSound, HasDecoder, PreloadSound, HeardIsState,
       StartedAsAsked, SinkClosed

\* What the listener is told.
LEMMA Told ==
    ASSUME Typed, NEW kind \in HeardKinds, Tell(kind, state.id, state.track)
    PROVE  /\ heard' \in HeardType
           /\ heard'.kind = kind /\ heard'.req = state.id /\ heard'.track = state.track
BY DEF Typed, StateType, HeardType, Tell

\* Play, in every state, keeps the core.
LEMMA PlaySound == Core /\ Play => Core'
<1> SUFFICES ASSUME Core, Play PROVE Core'
  OBVIOUS
<1>0. /\ Typed /\ StateSound /\ SinkClosed
      /\ UNCHANGED <<preload, loads, nextId, started>>
  BY DEF Core, Play
<1>1. CASE state.kind = "Paused"
  <2>1. /\ asked' = asked
        /\ \/ /\ sink' = "Running"
              /\ state' = [state EXCEPT !.kind = "Playing"]
              /\ Tell("Playing", state.id, state.track)
           \/ /\ sink' = SinkStopped(sink, FALSE)
              /\ state' = state
              /\ Tell("Paused", state.id, state.track)
    BY <1>1 DEF Play
  <2>2. /\ state' \in StateType /\ state'.kind \in {"Playing", "Paused"}
        /\ state'.track = state.track /\ state'.id = state.id
        /\ state'.loader = state.loader /\ state'.loaded = state.loaded
    BY <1>0, <1>1, <2>1 DEF Typed, StateType, StateKinds
  <2>3. /\ sink' \in SinkStatus
        /\ state'.kind = "Paused" => sink' = "Closed"
    BY <1>0, <1>1, <2>1, SinkStops DEF Typed, SinkStatus, StateType
  <2>4. /\ heard' \in HeardType
        /\ heard'.kind = state'.kind /\ heard'.req = state.id
        /\ heard'.track = state.track
    BY <1>0, <1>1, <2>1, Told DEF HeardKinds, Typed, StateType
  <2>5. Typed' /\ StateSound' /\ PreloadSound' /\ StartedAsAsked'
    BY <1>0, <1>1, <2>1, <2>2, <2>3, <2>4, StateMoves DEF Typed
  <2>6. HeardIsState' /\ SinkClosed'
    BY <2>2, <2>3, <2>4 DEF HeardIsState, HasDecoder, SinkClosed
  <2> QED BY <2>5, <2>6 DEF Core
<1>2. CASE state.kind = "Loading"
  <2>1. /\ state' = [state EXCEPT !.play = TRUE]
        /\ asked' = [asked EXCEPT !.play = TRUE]
        /\ UNCHANGED <<sink, heard>>
    BY <1>2 DEF Play
  <2>2. /\ state' \in StateType /\ state'.kind = "Loading" /\ state'.play = TRUE
        /\ state'.track = state.track /\ state'.id = state.id
        /\ state'.loader = state.loader /\ state'.loaded = state.loaded
    BY <1>0, <1>2, <2>1 DEF Typed, StateType
  <2>3. /\ asked' \in AskedType /\ asked'.id = asked.id /\ asked'.track = asked.track
        /\ asked'.pos = asked.pos /\ asked'.play = TRUE
    BY <1>0, <2>1 DEF Typed, AskedType
  <2>4. Typed' /\ StateSound' /\ PreloadSound' /\ StartedAsAsked'
    BY <1>0, <1>2, <2>1, <2>2, <2>3, StateMoves DEF Typed
  <2>5. HeardIsState' /\ SinkClosed'
    BY <1>2, <2>1, <2>2 DEF Core, HeardIsState, HasDecoder, SinkClosed
  <2> QED BY <2>4, <2>5 DEF Core
<1>3. CASE state.kind \notin {"Paused", "Loading"}
  BY <1>0, <1>3, CoreKept DEF Play
<1> QED BY <1>1, <1>2, <1>3

\* handle_pause, from the command and from a sink that fails.
LEMMA PauseSound ==
    ASSUME Core, PauseState, UNCHANGED <<preload, loads, nextId, started>>
    PROVE  Core'
<1>0. Typed /\ StateSound /\ SinkClosed
  BY DEF Core
<1>1. CASE state.kind \in {"Paused", "Playing"}
  <2>1. /\ asked' = asked /\ sink' = SinkStopped(sink, FALSE)
        /\ \/ state.kind = "Paused" /\ UNCHANGED <<state, heard>>
           \/ /\ state' = [state EXCEPT !.kind = "Paused"]
              /\ Tell("Paused", state.id, state.track)
    BY <1>1 DEF PauseState
  <2>2. /\ state' \in StateType /\ state'.kind = "Paused"
        /\ state'.track = state.track /\ state'.id = state.id
        /\ state'.loader = state.loader /\ state'.loaded = state.loaded
    BY <1>0, <1>1, <2>1 DEF Typed, StateType, StateKinds
  <2>3. sink' \in SinkStatus /\ sink' = "Closed"
    BY <1>0, <2>1, SinkStops DEF Typed
  <2>4. heard' \in HeardType /\ HeardIsState'
    <3>1. CASE state.kind = "Paused" /\ UNCHANGED <<state, heard>>
      BY <3>1 DEF Core, Typed, HeardIsState, HasDecoder
    <3>2. CASE Tell("Paused", state.id, state.track)
      BY <1>0, <2>2, <3>2, Told DEF HeardIsState, HasDecoder, HeardKinds
    <3> QED BY <2>1, <3>1, <3>2
  <2>5. Typed' /\ StateSound' /\ PreloadSound' /\ StartedAsAsked'
    BY <1>0, <1>1, <2>1, <2>2, <2>3, <2>4, StateMoves DEF Typed
  <2> QED BY <2>3, <2>4, <2>5 DEF Core, SinkClosed
<1>2. CASE state.kind = "Loading"
  <2>1. /\ state' = [state EXCEPT !.play = FALSE]
        /\ asked' = [asked EXCEPT !.play = FALSE]
        /\ UNCHANGED <<sink, heard>>
    BY <1>2 DEF PauseState
  <2>2. /\ state' \in StateType /\ state'.kind = "Loading" /\ state'.play = FALSE
        /\ state'.track = state.track /\ state'.id = state.id
        /\ state'.loader = state.loader /\ state'.loaded = state.loaded
    BY <1>0, <1>2, <2>1 DEF Typed, StateType
  <2>3. /\ asked' \in AskedType /\ asked'.id = asked.id /\ asked'.track = asked.track
        /\ asked'.pos = asked.pos /\ asked'.play = FALSE
    BY <1>0, <2>1 DEF Typed, AskedType
  <2>4. Typed' /\ StateSound' /\ PreloadSound' /\ StartedAsAsked'
    BY <1>0, <1>2, <2>1, <2>2, <2>3, StateMoves DEF Typed
  <2>5. HeardIsState' /\ SinkClosed'
    BY <1>2, <2>1, <2>2 DEF Core, HeardIsState, HasDecoder, SinkClosed
  <2> QED BY <2>4, <2>5 DEF Core
<1>3. CASE state.kind \notin {"Paused", "Playing", "Loading"}
  BY <1>3, CoreKept DEF PauseState
<1> QED BY <1>1, <1>2, <1>3

\* handle_player_stop.
LEMMA StopSound == Core /\ Stop => Core'
<1> SUFFICES ASSUME Core, Stop PROVE Core'
  OBVIOUS
<1>0. /\ Typed /\ StateSound /\ PreloadSound /\ StartedAsAsked
      /\ UNCHANGED <<nextId, asked, started>>
  BY DEF Core, Stop
<1>1. CASE state.kind \in {"Playing", "Paused", "EndOfTrack", "Loading"}
  <2>1. /\ sink' = SinkStopped(sink, FALSE)
        /\ Tell("Stopped", state.id, state.track)
        /\ state' = Stopped /\ preload' = preload
        /\ loads' = Drop(loads, Stopped, preload)
    BY <1>1 DEF Stop, Keep
  <2>2. /\ state' \in StateType /\ state'.kind = "Stopped" /\ state'.loader = NoLoader
    BY <2>1, NoneTypes, StateShapes
  <2>3. sink' \in SinkStatus /\ sink' = "Closed"
    BY <1>0, <2>1, SinkStops DEF Typed
  <2>4. heard' \in HeardType /\ heard'.kind = "Stopped"
    BY <1>0, <2>1, Told DEF HeardKinds
  <2>5. /\ loads' \in [Loader -> ThreadType]
        /\ preload.loader # NoLoader => loads'[preload.loader] = loads[preload.loader]
    BY <1>0, <2>1, DropKeeps DEF Typed, PreloadType
  <2>6. Typed'
    BY <1>0, <2>1, <2>2, <2>3, <2>4, <2>5 DEF Typed
  <2>7. StateSound' /\ PreloadSound'
    BY <1>0, <2>1, <2>2, <2>5 DEF StateSound, HasDecoder, PreloadSound
  <2>8. HeardIsState' /\ StartedAsAsked' /\ SinkClosed'
    BY <1>0, <2>2, <2>3, <2>4 DEF HeardIsState, HasDecoder, StartedAsAsked, SinkClosed
  <2> QED BY <2>6, <2>7, <2>8 DEF Core
<1>2. CASE state.kind \notin {"Playing", "Paused", "EndOfTrack", "Loading"}
  BY <1>0, <1>2, CoreKept DEF Stop
<1> QED BY <1>1, <1>2

\* A forbidden track is said to have ended.
LEMMA FilterSound == Core /\ Filter => Core'
<1> SUFFICES ASSUME Core, Filter PROVE Core'
  OBVIOUS
<1>0. /\ Typed /\ StateSound /\ PreloadSound /\ StartedAsAsked /\ SinkClosed
      /\ UNCHANGED <<state, preload, loads, sink, nextId, asked, started>>
  BY DEF Core, Filter
<1>1. CASE HasDecoder /\ Tell("EndOfTrack", state.id, state.track)
  <2>1. /\ heard' \in HeardType /\ heard'.kind = "EndOfTrack"
        /\ heard'.req = state.id /\ heard'.track = state.track
    BY <1>0, <1>1, Told DEF HeardKinds
  <2>2. Typed' /\ StateSound' /\ PreloadSound' /\ StartedAsAsked' /\ SinkClosed'
    BY <1>0, <2>1 DEF Typed, StateSound, HasDecoder, PreloadSound, StartedAsAsked, SinkClosed
  <2>3. HeardIsState'
    BY <1>0, <1>1, <2>1 DEF HeardIsState, HasDecoder
  <2> QED BY <2>2, <2>3 DEF Core
<1>2. CASE UNCHANGED heard
  BY <1>0, <1>2, CoreKept
<1> QED BY <1>1, <1>2 DEF Filter

-----------------------------------------------------------------------------
\* The commands and their parameters.
LEMMA CommandFields ==
    ASSUME NEW c \in Command
    PROVE  /\ c.op = "Load" =>
                 c.track \in Track /\ c.pos \in Nat /\ c.play \in BOOLEAN
           /\ c.op = "Preload" => c.track \in Track
           /\ c.op = "Seek" => c.pos \in Nat
BY DEF Command

\* Every command of the channel keeps the core.
LEMMA CommandSound ==
    ASSUME Core, NEW c \in Command, Sent(c),
           \/ c.op = "Load" /\ Load(c)
           \/ c.op = "Preload" /\ Preload(c)
           \/ c.op = "Seek" /\ Seek(c)
           \/ c.op = "Play" /\ Play
           \/ c.op = "Pause" /\ Pause
           \/ c.op = "Stop" /\ Stop
           \/ c.op = "Filter" /\ Filter
    PROVE  Core'
<1>1. CASE c.op = "Load" /\ Load(c)
  <2>1. nextId \in MaybeId
    BY <1>1 DEF Core, Typed, Sent, MaybeId, Ids
  <2> QED BY <1>1, <2>1, CommandFields, LoadSound DEF Load
<1>2. CASE c.op = "Preload" /\ Preload(c)
  BY <1>2, CommandFields, PreloadCommandSound
<1>3. CASE c.op = "Seek" /\ Seek(c)
  BY <1>3, CommandFields, SeekSound
<1>4. CASE Pause
  BY <1>4, PauseSound DEF Pause
<1> QED BY <1>1, <1>2, <1>3, <1>4, PlaySound, StopSound, FilterSound

\* A thread that ends still loads what it was spawned for.
LEMMA EndsFor ==
    ASSUME NEW thread \in ThreadType, thread.out = "running",
           NEW result \in LoadTrack(thread.track, thread.from)
    PROVE  LET ended == [track |-> thread.track, from |-> 0,
                         out |-> result.out, pos |-> result.pos]
           IN  /\ ended \in ThreadType
               /\ \A t \in MaybeTrack, p \in Nat :
                      LoadsFor(thread, t, p) => LoadsFor(ended, t, p)
<1>1. thread.from \in Nat /\ thread.track \in MaybeTrack
  BY DEF ThreadType
<1>2. /\ LoadsAt(thread.from) \in Place /\ SeeksTo(thread.from) \in Place
      /\ 0 \in Place
  BY <1>1, PlaceTypes DEF Place
<1>3. CASE thread.track \in Local
  <2>1. \/ result.out = "failed" /\ result.pos = 0
        \/ result.out = "ok" /\ result.pos = SeeksTo(thread.from)
    BY <1>3 DEF LoadTrack, LoadLocalTrack, LoadFails
  <2> QED BY <1>1, <1>2, <2>1 DEF ThreadType, LoadsFor
<1>4. CASE thread.track \notin Local
  <2>1. \/ result.out = "failed" /\ result.pos = 0
        \/ result.out = "ok" /\ result.pos = LoadsAt(thread.from)
    BY <1>4 DEF LoadTrack, LoadRemoteTrack, LoadFails
  <2> QED BY <1>1, <1>2, <1>4, <2>1 DEF ThreadType, LoadsFor
<1> QED BY <1>3, <1>4

\* A loader that ends, with or without a track, keeps the core.
LEMMA LoadTrackEndsSound ==
    ASSUME Core, NEW l \in Loader, LoadTrackEnds(l) PROVE Core'
<1>0. /\ Typed /\ StateSound /\ PreloadSound
      /\ UNCHANGED <<state, preload, sink, nextId, heard, asked, started>>
  BY DEF Core, LoadTrackEnds
<1>1. loads[l] \in ThreadType /\ loads[l].out = "running"
  BY <1>0 DEF Typed, LoadTrackEnds
<1>2. PICK result \in LoadTrack(loads[l].track, loads[l].from) :
         loads' = Drop([loads EXCEPT ![l] = [track |-> @.track, from |-> 0,
                                             out |-> result.out, pos |-> result.pos]],
                       state, preload)
  BY DEF LoadTrackEnds
<1> DEFINE ended == [track |-> loads[l].track, from |-> 0,
                     out |-> result.out, pos |-> result.pos]
           threads == [loads EXCEPT ![l] = ended]
<1>3. /\ ended \in ThreadType
      /\ \A t \in MaybeTrack, p \in Nat :
            LoadsFor(loads[l], t, p) => LoadsFor(ended, t, p)
  BY <1>1, EndsFor
<1> HIDE DEF ended
<1>4. /\ threads \in [Loader -> ThreadType]
      /\ threads[l] = ended /\ \A k \in Loader \ {l} : threads[k] = loads[k]
  BY <1>0, <1>3 DEF Typed
<1>5. loads' = Drop(threads, state, preload)
  BY <1>2 DEF ended
<1> HIDE DEF threads
<1>6. /\ loads' \in [Loader -> ThreadType]
      /\ state.loader # NoLoader => loads'[state.loader] = threads[state.loader]
      /\ preload.loader # NoLoader => loads'[preload.loader] = threads[preload.loader]
  BY <1>0, <1>4, <1>5, DropKeeps DEF Typed, StateType, PreloadType
<1>7. \A k \in Loader, t \in MaybeTrack, p \in Nat :
         LoadsFor(loads[k], t, p) => LoadsFor(threads[k], t, p)
  BY <1>3, <1>4
<1>8. Typed'
  BY <1>0, <1>6 DEF Typed
<1>9. state.track \in MaybeTrack /\ asked.pos \in Nat /\ preload.track \in MaybeTrack
      /\ state.loader \in Loader \cup {NoLoader}
      /\ preload.loader \in Loader \cup {NoLoader} /\ 0 \in Nat
  BY <1>0 DEF Typed, StateType, AskedType, PreloadType
<1>10. StateSound'
  BY <1>0, <1>6, <1>7, <1>9 DEF StateSound, HasDecoder
<1>11. PreloadSound'
  BY <1>0, <1>6, <1>7, <1>9 DEF PreloadSound
<1>12. HeardIsState' /\ StartedAsAsked' /\ SinkClosed'
  BY <1>0 DEF Core, HeardIsState, HasDecoder, StartedAsAsked, SinkClosed
<1> QED BY <1>8, <1>10, <1>11, <1>12 DEF Core

\* Polling the loader of the current track keeps the core.
LEMMA PollLoadingSound == Core /\ PollLoading => Core'
<1> SUFFICES ASSUME Core, PollLoading PROVE Core'
  OBVIOUS
<1>0. /\ Typed /\ StateSound /\ PreloadSound /\ HeardIsState
      /\ UNCHANGED <<preload, nextId, asked>>
  BY DEF Core, PollLoading
<1>1. CASE state.loader = NoLoader \/ loads[state.loader].out \notin {"ok", "failed"}
  BY <1>0, <1>1, CoreKept DEF PollLoading
<1>2. CASE state.loader # NoLoader /\ loads[state.loader].out = "ok"
  <2> DEFINE l == state.loader
  <2>1. /\ l \in Loader /\ loads[l] \in ThreadType
        /\ state.kind = "Loading" /\ LoadsFor(loads[l], state.track, asked.pos)
        /\ state.track \in Track /\ state.id \in MaybeId /\ state.play \in BOOLEAN
        /\ asked.id = state.id /\ asked.track = state.track /\ asked.play = state.play
    BY <1>0, <1>2 DEF Typed, StateType, StateSound
  <2>2. /\ StartPlayback(state.track, state.id, Result(l), state.play,
                         "Loading", sink, heard.id)
        /\ loads' = Drop(loads, state', preload)
    BY <1>2 DEF PollLoading
  <2>3. /\ Result(l) \in MaybeLoaded /\ Result(l).track = state.track
        /\ Result(l).pos \in {LoadsAt(asked.pos), SeeksTo(asked.pos)}
        /\ state.track \in Local => Result(l).pos = SeeksTo(asked.pos)
    BY <1>2, <2>1 DEF Result, ThreadType, MaybeLoaded, LoadsFor
  <2>4. sink \in SinkStatus /\ heard.id \in MaybeId
    BY <1>0 DEF Typed, HeardType
  <2>5. /\ state' \in StateType
        /\ sink' \in SinkStatus /\ heard' \in HeardType /\ started' \in StartedType
        /\ StateSound' /\ HeardIsState' /\ StartedAsAsked' /\ SinkClosed'
    <3> HIDE DEF l
    <3> QED BY <1>0, <2>1, <2>2, <2>3, <2>4, StartsSound
  <2>6. /\ loads' \in [Loader -> ThreadType]
        /\ preload.loader # NoLoader => loads'[preload.loader] = loads[preload.loader]
    BY <1>0, <2>2, DropKeeps DEF Typed, PreloadType
  <2>7. Typed' /\ PreloadSound'
    BY <1>0, <2>5, <2>6 DEF Typed, PreloadSound
  <2> QED BY <2>5, <2>7 DEF Core
<1>3. CASE state.loader # NoLoader /\ loads[state.loader].out = "failed"
  <2>1. /\ Tell("Unavailable", state.id, state.track)
        /\ state' = [state EXCEPT !.loader = NoLoader]
        /\ loads' = Drop(loads, state', preload)
        /\ UNCHANGED <<sink, started>>
    BY <1>3 DEF PollLoading, Keep
  <2>2. /\ state.kind = "Loading" /\ state' \in StateType
        /\ state'.kind = "Loading" /\ state'.track = state.track
        /\ state'.id = state.id /\ state'.play = state.play
        /\ state'.loader = NoLoader
    BY <1>0, <1>3, <2>1 DEF Typed, StateType, StateSound
  <2>3. /\ heard' \in HeardType /\ heard'.kind = "Unavailable"
        /\ heard'.req = state.id /\ heard'.track = state.track
    BY <1>0, <2>1, Told DEF HeardKinds
  <2>4. /\ loads' \in [Loader -> ThreadType]
        /\ preload.loader # NoLoader => loads'[preload.loader] = loads[preload.loader]
    BY <1>0, <2>1, DropKeeps DEF Typed, PreloadType
  <2>5. Typed' /\ PreloadSound'
    BY <1>0, <2>1, <2>2, <2>3, <2>4 DEF Typed, PreloadSound
  <2>6. StateSound'
    BY <1>0, <2>1, <2>2 DEF StateSound, HasDecoder
  <2>7. HeardIsState' /\ StartedAsAsked' /\ SinkClosed'
    BY <1>0, <2>1, <2>2, <2>3 DEF Core, HeardIsState, HasDecoder, StartedAsAsked, SinkClosed
  <2> QED BY <2>5, <2>6, <2>7 DEF Core
<1> QED BY <1>1, <1>2, <1>3

\* Polling the loader of the next track keeps the core.
LEMMA PollPreloadSound == Core /\ PollPreload => Core'
<1> SUFFICES ASSUME Core, PollPreload PROVE Core'
  OBVIOUS
<1>0. /\ Typed /\ StateSound /\ PreloadSound
      /\ UNCHANGED <<sink, nextId, asked, started>>
  BY DEF Core, PollPreload
<1>1. CASE preload.loader = NoLoader \/ loads[preload.loader].out \notin {"ok", "failed"}
  BY <1>0, <1>1, CoreKept DEF PollPreload
<1>2. CASE preload.loader # NoLoader /\ loads[preload.loader].out \in {"ok", "failed"}
  <2> DEFINE l == preload.loader
  <2>1. /\ l \in Loader /\ loads[l] \in ThreadType
        /\ loads[l].track = preload.track /\ preload.track \in Track
    BY <1>0, <1>2 DEF Typed, PreloadType, PreloadSound, LoadsFor
  <2>2. PICK pre \in {ReadyOf(preload.track, Result(l)), NoPreload} : Keep(state, pre)
    BY <1>2 DEF PollPreload
  <2>3. state' = state /\ preload' = pre /\ loads' = Drop(loads, state, pre)
    BY <2>2 DEF Keep
  <2>4. Result(l) \in MaybeLoaded /\ Result(l).track = preload.track
    BY <2>1 DEF Result, ThreadType, MaybeLoaded
  <2>5. preload.track \in MaybeTrack /\ NoId \in MaybeId
    BY <2>1, NoneTypes
  <2>6. preload' \in PreloadType /\ PreloadSound'
    <3>1. CASE pre = NoPreload
      BY <2>3, <3>1, NoPreloadSound
    <3>2. CASE pre = ReadyOf(preload.track, Result(l))
      <4>1. /\ preload' \in PreloadType /\ preload'.kind = "Ready"
            /\ preload'.track = preload.track /\ preload'.loader = NoLoader
            /\ preload'.loaded = Result(l)
        <5> HIDE DEF l
        <5> QED BY <2>3, <2>4, <2>5, <3>2, PreloadShapes, StateTypes
      <4> QED BY <2>1, <2>4, <4>1 DEF PreloadSound
    <3> QED BY <3>1, <3>2
  <2>7. /\ loads' \in [Loader -> ThreadType]
        /\ state.loader # NoLoader => loads'[state.loader] = loads[state.loader]
    BY <1>0, <2>3, DropKeeps DEF Typed, StateType
  <2>8. heard' = heard \/ (HasDecoder /\ Tell("Unavailable", state.id, preload.track))
    BY <1>2 DEF PollPreload, HasDecoder, Tell
  <2>9. heard' \in HeardType /\ HeardIsState'
    <3>1. CASE heard' = heard
      BY <2>3, <3>1 DEF Core, Typed, HeardIsState, HasDecoder
    <3>2. CASE HasDecoder /\ Tell("Unavailable", state.id, preload.track)
      <4>1. state.id \in MaybeId
        BY <1>0 DEF Typed, StateType
      <4>2. /\ heard' \in HeardType
            /\ heard'.kind = "Unavailable" /\ heard'.req = state.id
        BY <1>0, <2>5, <3>2, <4>1 DEF Tell, HeardKinds, HeardType, Typed
      <4> QED BY <2>3, <3>2, <4>2 DEF HeardIsState, HasDecoder
    <3> QED BY <2>8, <3>1, <3>2
  <2>10. Typed' /\ StateSound'
    BY <1>0, <2>3, <2>6, <2>7, <2>9 DEF Typed, StateSound, HasDecoder
  <2>11. StartedAsAsked' /\ SinkClosed'
    BY <1>0, <2>3 DEF Core, StartedAsAsked, SinkClosed
  <2> QED BY <2>6, <2>9, <2>10, <2>11 DEF Core
<1> QED BY <1>1, <1>2

\* A packet reaches the sink, or the sink refuses it and the player pauses.
LEMMA PacketPlayedSound == Core /\ PacketPlayed => Core'
<1> SUFFICES ASSUME Core, PacketPlayed PROVE Core'
  OBVIOUS
<1>0. /\ Typed /\ StateSound /\ HeardIsState
      /\ state.kind = "Playing" /\ state.loaded.pos < Length
      /\ UNCHANGED <<preload, loads, nextId, asked, started>>
  BY DEF Core, PacketPlayed
<1> DEFINE on == [state EXCEPT !.loaded.pos = @ + 1]
<1>1. state.loaded.pos + 1 \in Place
  BY <1>0 DEF Typed, StateType, MaybeLoaded, Place
<1>2. /\ on \in StateType /\ on.kind = "Playing"
      /\ on.track = state.track /\ on.id = state.id
      /\ on.loader = state.loader /\ on.loaded.track = state.loaded.track
  BY <1>0, <1>1 DEF Typed, StateType, MaybeLoaded
<1>3. \/ state' = on /\ sink' = "Running" /\ heard' = heard
      \/ /\ state' = [on EXCEPT !.kind = "Paused"] /\ sink' = "Closed"
         /\ Tell("Paused", on.id, on.track)
  BY DEF PacketPlayed, WritePacket
<1> HIDE DEF on
<1>4. /\ state' \in StateType /\ state'.kind \in {"Playing", "Paused"}
      /\ state'.kind = "Paused" => sink' = "Closed"
      /\ state'.track = state.track /\ state'.id = state.id
      /\ state'.loader = state.loader /\ state'.loaded.track = state.loaded.track
  BY <1>2, <1>3 DEF StateType, StateKinds
<1>5. heard' \in HeardType /\ HeardIsState'
  <2>1. CASE state' = on /\ heard' = heard
    BY <1>0, <1>2, <2>1 DEF HeardIsState, HasDecoder, Typed
  <2>2. CASE state' = [on EXCEPT !.kind = "Paused"] /\ Tell("Paused", on.id, on.track)
    <3>1. state'.kind = "Paused"
      BY <1>2, <2>2 DEF StateType
    <3>2. /\ heard' \in HeardType /\ heard'.kind = "Paused"
          /\ heard'.req = state.id /\ heard'.track = state.track
      BY <1>0, <1>2, <2>2, Told DEF HeardKinds
    <3> QED BY <1>4, <3>1, <3>2 DEF HeardIsState, HasDecoder
  <2> QED BY <1>3, <2>1, <2>2
<1>6. sink' \in SinkStatus /\ asked' \in AskedType
  BY <1>0, <1>3 DEF SinkStatus, Typed
<1>7. Typed' /\ StateSound' /\ PreloadSound' /\ StartedAsAsked'
  BY <1>0, <1>4, <1>5, <1>6, StateMoves
<1> QED BY <1>4, <1>5, <1>7 DEF Core, SinkClosed

\* The end of the track is told, whether or not the player goes on.
LEMMA PacketEndsSound == Core /\ (PacketFails \/ PacketLast) => Core'
<1> SUFFICES ASSUME Core, PacketFails \/ PacketLast PROVE Core'
  OBVIOUS
<1>0. /\ Typed /\ state.kind = "Playing" /\ sink' = "Running"
      /\ Tell("EndOfTrack", state.id, state.track)
      /\ state' \in {state, ToEndOfTrack}
      /\ UNCHANGED <<preload, loads, nextId, asked, started>>
  BY DEF Core, PacketFails, PacketLast
<1>1. /\ state' \in StateType /\ state'.kind \in {"Playing", "EndOfTrack"}
      /\ state'.track = state.track /\ state'.id = state.id
      /\ state'.loader = state.loader /\ state'.loaded.track = state.loaded.track
  BY <1>0 DEF Typed, StateType, StateKinds, ToEndOfTrack
<1>2. /\ heard' \in HeardType /\ heard'.kind = "EndOfTrack"
      /\ heard'.req = state.id /\ heard'.track = state.track
  BY <1>0, Told DEF HeardKinds
<1>3. sink' \in SinkStatus /\ asked' \in AskedType
  BY <1>0 DEF SinkStatus, Typed
<1>4. Typed' /\ StateSound' /\ PreloadSound' /\ StartedAsAsked'
  BY <1>0, <1>1, <1>2, <1>3, StateMoves
<1>5. HeardIsState' /\ SinkClosed'
  BY <1>1, <1>2 DEF HeardIsState, HasDecoder, SinkClosed
<1> QED BY <1>4, <1>5 DEF Core

\* The suggestion to preload changes a flag of the state.
LEMMA SuggestSound == Core /\ Suggest => Core' /\ state'.kind = state.kind
<1> SUFFICES ASSUME Core, Suggest PROVE Core' /\ state'.kind = state.kind
  OBVIOUS
<1>0. /\ Typed
      /\ \/ state' = state
         \/ HasDecoder /\ \E toEnd \in BOOLEAN : state' = [state EXCEPT !.suggested = toEnd]
      /\ UNCHANGED <<preload, loads, sink, nextId, heard, asked, started>>
  BY DEF Core, Suggest
<1>1. CASE state' = state
  BY <1>0, <1>1, CoreKept
<1>2. CASE HasDecoder /\ \E toEnd \in BOOLEAN : state' = [state EXCEPT !.suggested = toEnd]
  <2>1. /\ state' \in StateType /\ state'.kind = state.kind
        /\ state'.track = state.track /\ state'.id = state.id
        /\ state'.loader = state.loader /\ state'.loaded.track = state.loaded.track
    BY <1>0, <1>2 DEF Typed, StateType
  <2>2. Typed' /\ StateSound' /\ PreloadSound' /\ StartedAsAsked'
    BY <1>0, <1>2, <2>1, StateMoves DEF Typed, HasDecoder
  <2>3. HeardIsState' /\ SinkClosed'
    BY <1>0, <2>1 DEF Core, HeardIsState, HasDecoder, SinkClosed
  <2> QED BY <2>1, <2>2, <2>3 DEF Core
<1> QED BY <1>0, <1>1, <1>2

-----------------------------------------------------------------------------
\* A round passes no packet over while the player plays.
LEMMA StageFromStage ==
    ASSUME NEW n \in 1 .. 3, NEW st, NEW pre
    PROVE  /\ StageFrom(n, st, pre) \in {"loading", "preload", "packet", "suggest"}
           /\ StageFrom(n, st, pre) = "suggest" => st.kind # "Playing"
BY DEF StageFrom

\* The inductive invariant holds when the player starts.
LEMMA InvInit == Init => IInv
<1> SUFFICES ASSUME Init PROVE IInv
  OBVIOUS
<1>1. heard \in HeardType
  BY NoneTypes DEF Init, HeardType, HeardKinds
<1>2. loads \in [Loader -> ThreadType]
  BY NoneTypes DEF Init
<1>3. Typed
  BY <1>1, <1>2, NoneTypes DEF Init, Typed, SinkStatus
<1>4. StateSound /\ PreloadSound
  BY StateShapes, PreloadShapes DEF Init, StateSound, HasDecoder, PreloadSound
<1>5. HeardIsState /\ StartedAsAsked /\ SinkClosed
  BY StateShapes DEF Init, HeardIsState, HasDecoder, StartedAsAsked, SinkClosed
<1>6. Rounds
  BY StateShapes DEF Init, Rounds, Stages
<1> QED BY <1>3, <1>4, <1>5, <1>6 DEF IInv, Core

\* Every turn of the player, and of what surrounds it, keeps the inductive
\* invariant.
LEMMA InvNext == IInv /\ [Next]_vars => IInv'
<1> SUFFICES ASSUME IInv, [Next]_vars PROVE IInv'
  OBVIOUS
<1> USE DEF Stages
<1>0. Core /\ Rounds
  BY DEF IInv
<1>1. CASE Close \/ SinkDoesNotStop \/ UNCHANGED vars
  <2>1. Core'
    BY <1>0, <1>1, CoreKept DEF Close, SinkDoesNotStop, vars
  <2>2. Rounds'
    BY <1>0, <1>1 DEF Close, SinkDoesNotStop, vars, Rounds
  <2> QED BY <2>1, <2>2 DEF IInv
<1>2. ASSUME NEW l \in Loader, LoadTrackEnds(l) PROVE IInv'
  <2>1. Rounds'
    BY <1>0, <1>2 DEF LoadTrackEnds, Rounds
  <2> QED BY <1>0, <1>2, <2>1, LoadTrackEndsSound DEF IInv
<1>3. CASE TakeCommand
  <2>1. Core'
    BY <1>0, <1>3, CommandSound DEF TakeCommand
  <2>2. Rounds'
    BY <1>0, <1>3, StageFromStage DEF TakeCommand, Rounds
  <2> QED BY <2>1, <2>2 DEF IInv
<1>4. CASE NoCommand \/ Disconnected \/ Join \/ PacketInvalid \/ Wake
  <2>1. Core'
    BY <1>0, <1>4, CoreKept DEF NoCommand, Disconnected, Join, PacketInvalid, Wake
  <2>2. CASE NoCommand
    <3>1. /\ pc' \in {"loading", "preload", "packet", "suggest"}
          /\ pc' = "suggest" => state.kind # "Playing"
      BY <2>2, StageFromStage DEF NoCommand
    <3>2. Rounds'
      BY <1>0, <2>2, <3>1 DEF NoCommand, Rounds
    <3> QED BY <2>1, <3>2 DEF IInv
  <2>3. CASE Disconnected \/ Join \/ PacketInvalid \/ Wake
    BY <1>0, <2>1, <2>3 DEF Disconnected, Join, PacketInvalid, Wake, Rounds, IInv
  <2> QED BY <1>4, <2>2, <2>3
<1>5. CASE PollLoading
  <2>1. Rounds'
    BY <1>0, <1>5, StageFromStage DEF PollLoading, Rounds
  <2> QED BY <1>0, <1>5, <2>1, PollLoadingSound DEF IInv
<1>6. CASE PollPreload
  <2>1. Rounds'
    BY <1>0, <1>6, StageFromStage DEF PollPreload, Rounds
  <2> QED BY <1>0, <1>6, <2>1, PollPreloadSound DEF IInv
<1>7. CASE SinkRefuses
  <2>1. Rounds'
    BY <1>0, <1>7 DEF SinkRefuses, Rounds
  <2> QED BY <1>0, <1>7, <2>1, PauseSound DEF SinkRefuses, IInv
<1>8. CASE PacketPlayed
  <2>1. state.kind = "Playing" /\ Typed
    BY <1>0, <1>8 DEF PacketPlayed, Core
  <2>2. state'.kind = "Playing" => sink' = "Running"
    BY <1>8, <2>1 DEF PacketPlayed, WritePacket, Typed, StateType
  <2>3. Rounds'
    BY <1>0, <1>8, <2>2 DEF PacketPlayed, Rounds
  <2> QED BY <1>0, <1>8, <2>3, PacketPlayedSound DEF IInv
<1>9. CASE PacketFails \/ PacketLast
  <2>1. Rounds'
    BY <1>0, <1>9 DEF PacketFails, PacketLast, Rounds
  <2> QED BY <1>0, <1>9, <2>1, PacketEndsSound DEF IInv
<1>10. CASE Suggest
  <2>1. Core' /\ state'.kind = state.kind
    BY <1>0, <1>10, SuggestSound
  <2>2. Rounds'
    BY <1>0, <1>10, <2>1 DEF Suggest, Rounds
  <2> QED BY <2>1, <2>2 DEF IInv
<1> QED BY <1>1, <1>2, <1>3, <1>4, <1>5, <1>6, <1>7, <1>8, <1>9, <1>10 DEF Next, Round

\* The inductive invariant holds in every behaviour of the player.
LEMMA InvHolds == Spec => []IInv
BY InvInit, InvNext, PTL DEF Spec

\* Every variable of the player keeps its type, for any tracks and lengths.
THEOREM PlayerTypeCorrect == Spec => []TypeOK
<1>1. IInv => TypeOK
  BY DEF IInv, Core, Typed, Rounds, TypeOK, StateType, PreloadType, ThreadType,
         HeardType, AskedType, StartedType
<1> QED BY InvHolds, <1>1, PTL

\* The decoder that is played, kept at its end or preloaded, and the thread that
\* is waited for, are those of the track they are kept for.
THEOREM PlayerDecoderIsTracks == Spec => []DecoderIsTracks
<1>1. IInv /\ TypeOK => DecoderIsTracks
  BY DEF IInv, Core, StateSound, HasDecoder, PreloadSound, LoadsFor, DecoderIsTracks
<1> QED BY InvHolds, PlayerTypeCorrect, <1>1, PTL

\* The listener and the sink see the state the player is in, whichever step of
\* a command or of the poll loop failed.
THEOREM PlayerOutsideIsState == Spec => []OutsideIsState
<1>1. IInv => OutsideIsState
  BY DEF IInv, Core, Rounds, SinkClosed, OutsideIsState, SinkFollowsState
<1> QED BY InvHolds, <1>1, PTL

\* What starts is what was asked for last: the track, the position and whether
\* to play, whichever of the decoders is used.
THEOREM PlayerStartedAsAsked == Spec => []StartedAsAsked
<1>1. IInv => StartedAsAsked
  BY DEF IInv, Core
<1> QED BY InvHolds, <1>1, PTL
=============================================================================

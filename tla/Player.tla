------------------------------- MODULE Player -------------------------------
(* librespot's player (librespot_src/playback/src/player.rs): the thread that *)
(* owns the decoder and the sink.  It is written as a future whose poll is a  *)
(* loop: one command, the loader of the current track, the loader of the next *)
(* one, one packet, one suggestion to preload.  Each of these is a step here; *)
(* commands and the threads that load tracks arrive between any two of them.  *)
EXTENDS Integers, Sequences, FiniteSets

CONSTANTS Track,      \* the tracks that may be loaded
          NoTrack,    \* no track
          Explicit,   \* those the explicit filter forbids
          Local,      \* those that are files of the user
          Loader,     \* the threads that load_track spawns, by slot
          NoLoader,   \* no such thread
          Length,     \* a track's duration, in packets
          Window,     \* PRELOAD_NEXT_TRACK_BEFORE_END_DURATION_MS, in packets
          Position,   \* the positions that loads and seeks ask for
          Gapless,    \* PlayerConfig::gapless
          MaxId       \* bound: play request ids given out

ASSUME PlayerAssumption ==
    /\ NoTrack \notin Track
    /\ Local \subseteq Track
    /\ Explicit \subseteq Track \ Local
    /\ NoLoader \notin Loader
    /\ Length \in Nat \ {0}
    /\ Window \in Nat
    /\ Position \subseteq Nat
    /\ Gapless \in BOOLEAN
    /\ MaxId \in Nat

VARIABLES
    open,      \* a Player handle exists: commands can be sent
    pc,        \* where the poll loop is
    busy,      \* not all_futures_completed_or_not_ready
    state,     \* PlayerState
    preload,   \* PlayerPreload
    loads,     \* the threads of load_handles and their one-shot channels
    sink,      \* sink_status
    nextId,    \* play_request_id_generator
    heard,     \* what the last events told a listener
    asked,     \* history: what the latest load asked for
    started    \* history: how playback was last started

vars == <<open, pc, busy, state, preload, loads, sink, nextId,
          heard, asked, started>>

Ids == 0 .. MaxId
NoId == -1

\* The positions a decoder can be at.
Place == 0 .. Length

Command ==
         [op: {"Load"}, track: Track, pos: Position, play: BOOLEAN]
    \cup [op: {"Preload"}, track: Track]
    \cup [op: {"Seek"}, pos: Position]
    \cup [op: {"Play", "Pause", "Stop", "Filter"}]

Stages == {"command", "loading", "preload", "packet", "suggest", "pending",
           "exited", "joining", "gone"}

\* PlayerLoadedTrackData: the decoder of a track, at a position.
NoLoaded == [track |-> NoTrack, pos |-> 0]

Stopped == [kind |-> "Stopped", track |-> NoTrack, id |-> NoId, play |-> FALSE,
            loader |-> NoLoader, loaded |-> NoLoaded, suggested |-> FALSE]
Invalid == [Stopped EXCEPT !.kind = "Invalid"]
LoadingOf(t, i, play, l) ==
    [Stopped EXCEPT !.kind = "Loading", !.track = t, !.id = i, !.play = play,
                    !.loader = l]
PlayingOf(t, i, d) ==
    [Stopped EXCEPT !.kind = "Playing", !.track = t, !.id = i, !.loaded = d]
PausedOf(t, i, d) == [PlayingOf(t, i, d) EXCEPT !.kind = "Paused"]

NoPreload == [kind |-> "None", track |-> NoTrack, loader |-> NoLoader,
              loaded |-> NoLoaded]
PreloadingOf(t, l) ==
    [NoPreload EXCEPT !.kind = "Loading", !.track = t, !.loader = l]
ReadyOf(t, d) == [NoPreload EXCEPT !.kind = "Ready", !.track = t, !.loaded = d]

Idle == [out |-> "idle", track |-> NoTrack, from |-> 0, pos |-> 0]

Never == [id |-> NoId, track |-> NoTrack, pos |-> 0, play |-> FALSE]

HasDecoder == state.kind \in {"Playing", "Paused"}

-----------------------------------------------------------------------------
(* Where a decoder ends: the loader of a remote track starts an invalid       *)
(* position over; a seek of a decoder saturates.                              *)
LoadsAt(p) == IF p > Length THEN 0 ELSE p
SeeksTo(p) == IF p > Length THEN Length ELSE p

\* load_track: a thread of its own, whose receiver the caller keeps.
Spawn(threads, l, t, p) ==
    [threads EXCEPT ![l] = [out |-> "running", track |-> t, from |-> p, pos |-> 0]]

\* Which slot a new thread takes does not matter.
Free(threads, l) ==
    threads[l] = Idle /\ l = CHOOSE k \in Loader : threads[k] = Idle

\* A thread that has ended is forgotten once nobody holds its receiver.
Drop(threads, st, pre) ==
    [l \in Loader |->
        IF threads[l].out # "running" /\ l \notin {st.loader, pre.loader}
        THEN Idle ELSE threads[l]]

Keep(st, pre) ==
    /\ state' = st
    /\ preload' = pre
    /\ loads' = Drop(loads, st, pre)

\* ensure_sink_stopped, when the sink does stop.
SinkStopped(s, temporarily) ==
    CASE s = "Running"               -> IF temporarily THEN "TemporarilyClosed"
                                                       ELSE "Closed"
      [] s = "TemporarilyClosed"     -> IF temporarily THEN s ELSE "Closed"
      [] OTHER                       -> s

\* send_event, for the events that say which state the player is in.
Tell(kind, i, t) ==
    heard' = [heard EXCEPT !.kind = kind, !.req = i, !.track = t]

\* start_playback from a state old: TrackChanged, the sink, then the state.
\* A sink that does not start makes handle_pause act on the state it finds.
StartPlayback(t, i, d, play, old, s, newId) ==
    /\ IF play
       THEN /\ \E starts \in BOOLEAN :
                 sink' = CASE s = "Running" \/ starts -> "Running"
                           [] old \in {"Playing", "Paused"} ->
                                SinkStopped(s, FALSE)
                           [] OTHER -> s
            /\ state' = PlayingOf(t, i, d)
       ELSE /\ sink' = SinkStopped(s, FALSE)
            /\ state' = PausedOf(t, i, d)
    /\ heard' = [id |-> newId, kind |-> IF play THEN "Playing" ELSE "Paused",
                 req |-> i, track |-> t]
    /\ started' = [id |-> i, track |-> d.track, pos |-> d.pos, play |-> play]

-----------------------------------------------------------------------------
(* handle_command_load.  The decoder of the same track is used again where it *)
(* is: at its end, playing, or preloaded; otherwise a thread loads the track. *)
(* The id is announced first, whatever comes of the load.                     *)

Ask(c, i) ==
    asked' = [id |-> i, track |-> c.track, pos |-> c.pos, play |-> c.play]

\* A new decoder position, or the position the decoder is at already.
Moved(d, p) == [d EXCEPT !.pos = IF p = d.pos THEN p ELSE SeeksTo(p)]

\* The decoder of the same track, at its end or being played.
LoadAgain(c, i, s) ==
    /\ state.kind \in {"EndOfTrack", "Playing", "Paused"}
    /\ state.track = c.track
    /\ \/ /\ preload' = NoPreload
          /\ StartPlayback(c.track, i, Moved(state.loaded, c.pos), c.play,
                           "Invalid", s, i)
          /\ loads' = Drop(loads, state', NoPreload)
          /\ Ask(c, i)
       \/ \* The seek fails: at the end of a track the state was taken already.
          /\ c.pos # state.loaded.pos
          /\ Keep(IF state.kind = "EndOfTrack" THEN Invalid ELSE state, preload)
          /\ heard' = [heard EXCEPT !.id = i]
          /\ sink' = s
          /\ UNCHANGED <<asked, started>>

\* The track that was preloaded.
LoadPreloaded(c, i, s) ==
    /\ ~ (state.kind \in {"EndOfTrack", "Playing", "Paused"} /\ state.track = c.track)
    /\ preload.kind = "Ready" /\ preload.track = c.track
    /\ preload' = NoPreload
    /\ \/ /\ StartPlayback(c.track, i, Moved(preload.loaded, c.pos), c.play,
                           state.kind, s, i)
          /\ loads' = Drop(loads, state', NoPreload)
          /\ Ask(c, i)
       \/ /\ c.pos # preload.loaded.pos
          /\ Keep(state, NoPreload)
          /\ heard' = [heard EXCEPT !.id = i]
          /\ sink' = s
          /\ UNCHANGED <<asked, started>>

\* Mutant: whatever is being preloaded is taken over.
MTakesAnyPreload(c) == preload.kind = "Loading" /\ c.pos = 0

\* The preload's thread is taken over if it loads this track from its start.
TakesPreload(c) ==
    preload.kind = "Loading" /\ preload.track = c.track /\ c.pos = 0

\* Otherwise the track is loaded by a thread of its own.
LoadFresh(c, i, s) ==
    /\ ~ (state.kind \in {"EndOfTrack", "Playing", "Paused"} /\ state.track = c.track)
    /\ ~ (preload.kind = "Ready" /\ preload.track = c.track)
    /\ IF TakesPreload(c)
       THEN Keep(LoadingOf(c.track, i, c.play, preload.loader), NoPreload)
       ELSE \E l \in Loader :
              LET threads == Drop(loads, Stopped, NoPreload) IN
              /\ Free(threads, l)
              /\ state' = LoadingOf(c.track, i, c.play, l)
              /\ preload' = NoPreload
              /\ loads' = Spawn(threads, l, c.track, c.pos)
    /\ heard' = [id |-> i, kind |-> "Loading", req |-> i, track |-> c.track]
    /\ sink' = s
    /\ Ask(c, i)
    /\ started' = Never

\* A generated id is used up even when the caller gives the id to keep.
LoadWith(c, i) ==
    /\ nextId' = nextId + 1
    /\ LET s == IF Gapless THEN sink ELSE SinkStopped(sink, c.play) IN
       IF state.kind = "Invalid"
       THEN /\ heard' = [heard EXCEPT !.id = i]
            /\ sink' = s
            /\ UNCHANGED <<state, preload, loads, asked, started>>
       ELSE LoadAgain(c, i, s) \/ LoadPreloaded(c, i, s) \/ LoadFresh(c, i, s)

Load(c) == LoadWith(c, nextId)

\* handle_command_preload: not what is loaded, or being preloaded, already.
Preload(c) ==
    LET same == preload.kind # "None" /\ preload.track = c.track
        here == /\ state.kind \in {"Playing", "Paused", "EndOfTrack"}
                /\ state.track = c.track
    IN  /\ IF same \/ here
           THEN Keep(state, IF same THEN preload ELSE NoPreload)
           ELSE \E l \in Loader :
                  LET threads == Drop(loads, state, NoPreload) IN
                  /\ Free(threads, l)
                  /\ state' = state
                  /\ preload' = PreloadingOf(c.track, l)
                  /\ loads' = Spawn(threads, l, c.track, 0)
        /\ UNCHANGED <<sink, nextId, heard, asked, started>>

\* handle_command_seek while a track is loading: the load starts over.
SeekLoading(c) ==
    /\ state.kind = "Loading"
    /\ LoadWith([track |-> state.track, pos |-> c.pos, play |-> state.play],
                state.id)

\* handle_command_seek with a decoder, which may refuse; nothing otherwise.
SeekDecoder(c) ==
    /\ state.kind # "Loading"
    /\ \/ /\ HasDecoder
          /\ state' = [state EXCEPT !.loaded.pos = SeeksTo(c.pos)]
       \/ UNCHANGED state
    /\ UNCHANGED <<preload, loads, sink, nextId, heard, asked, started>>

Seek(c) == SeekLoading(c) \/ SeekDecoder(c)

\* handle_play.  A sink that does not start pauses the player again.
Play ==
    /\ CASE state.kind = "Paused" ->
              /\ \/ /\ sink' = "Running"
                    /\ state' = [state EXCEPT !.kind = "Playing"]
                    /\ Tell("Playing", state.id, state.track)
                 \/ /\ sink # "Running"
                    /\ sink' = SinkStopped(sink, FALSE)
                    /\ state' = state
                    /\ Tell("Paused", state.id, state.track)
              /\ UNCHANGED asked
         [] state.kind = "Loading" ->
              /\ state' = [state EXCEPT !.play = TRUE]
              /\ asked' = [asked EXCEPT !.play = TRUE]
              /\ UNCHANGED <<sink, heard>>
         [] OTHER -> UNCHANGED <<state, sink, heard, asked>>
    /\ UNCHANGED <<preload, loads, nextId, started>>

\* handle_pause, called by the command and by a sink that fails.
PauseState ==
    CASE state.kind = "Paused" ->
           /\ sink' = SinkStopped(sink, FALSE)
           /\ UNCHANGED <<state, heard, asked>>
      [] state.kind = "Playing" ->
           /\ sink' = SinkStopped(sink, FALSE)
           /\ state' = [state EXCEPT !.kind = "Paused"]
           /\ Tell("Paused", state.id, state.track)
           /\ UNCHANGED asked
      [] state.kind = "Loading" ->
           /\ state' = [state EXCEPT !.play = FALSE]
           /\ asked' = [asked EXCEPT !.play = FALSE]
           /\ UNCHANGED <<sink, heard>>
      [] OTHER -> UNCHANGED <<state, sink, heard, asked>>

\* Mutant: a track that is loading is not told of the pause.
MPauseForgotten ==
    /\ \/ state.kind # "Loading" /\ PauseState
       \/ /\ state.kind = "Loading"
          /\ asked' = [asked EXCEPT !.play = FALSE]
          /\ UNCHANGED <<state, sink, heard>>
    /\ UNCHANGED <<preload, loads, nextId, started>>

Pause == PauseState /\ UNCHANGED <<preload, loads, nextId, started>>

\* Mutant: stopping is not announced.
MStopsSilently ==
    /\ sink' = SinkStopped(sink, FALSE)
    /\ Keep(Stopped, preload)
    /\ UNCHANGED <<heard, nextId, asked, started>>

\* handle_player_stop.
Stop ==
    /\ IF state.kind \in {"Playing", "Paused", "EndOfTrack", "Loading"}
       THEN /\ sink' = SinkStopped(sink, FALSE)
            /\ Tell("Stopped", state.id, state.track)
            /\ Keep(Stopped, preload)
       ELSE UNCHANGED <<sink, heard, state, preload, loads>>
    /\ UNCHANGED <<nextId, asked, started>>

\* EmitFilterExplicitContentChangedEvent(true): a forbidden track is said to
\* have ended; the player goes on until it is given another one.
Filter ==
    /\ IF HasDecoder /\ state.track \in Explicit
       THEN Tell("EndOfTrack", state.id, state.track)
       ELSE UNCHANGED heard
    /\ UNCHANGED <<state, preload, loads, sink, nextId, asked, started>>

-----------------------------------------------------------------------------
(* A stage of poll that finds nothing to do is passed over.                   *)
StageFrom(n, st, pre) ==
    CASE n <= 1 /\ st.loader # NoLoader              -> "loading"
      [] n <= 2 /\ pre.loader # NoLoader             -> "preload"
      [] st.kind \in {"Playing", "Invalid"}          -> "packet"
      [] OTHER                                       -> "suggest"

\* Player::drop: the channel closes, and the caller waits for the thread.
Close ==
    /\ open /\ pc # "exited"
    /\ open' = FALSE
    /\ UNCHANGED <<pc, busy, state, preload, loads, sink, nextId,
                   heard, asked, started>>

\* poll, the command: handle_command.  The channel is not kept: its one reader
\* takes commands in the order they were sent, so sending one is taking it.
Sent(c) == c \in Command /\ (nextId > MaxId => c.op \notin {"Load", "Seek"})

TakeCommand ==
    /\ pc \in {"command", "pending"} /\ open
    /\ \E c \in Command :
       /\ Sent(c)
       /\ \/ c.op = "Load" /\ Load(c)
          \/ c.op = "Preload" /\ Preload(c)
          \/ c.op = "Seek" /\ Seek(c)
          \/ c.op = "Play" /\ Play
          \/ c.op = "Pause" /\ Pause
          \/ c.op = "Stop" /\ Stop
          \/ c.op = "Filter" /\ Filter
    /\ busy' = TRUE
    /\ pc' = StageFrom(1, state', preload')
    /\ UNCHANGED open

NoCommand ==
    /\ pc = "command" /\ open
    /\ busy' = FALSE
    /\ pc' = StageFrom(1, state, preload)
    /\ UNCHANGED <<open, state, preload, loads, sink, nextId, heard,
                   asked, started>>

\* The client has disconnected: the future is done and is dropped.
Disconnected ==
    /\ pc = "command" /\ ~open
    /\ pc' = "joining"
    /\ UNCHANGED <<open, busy, state, preload, loads, sink, nextId,
                   heard, asked, started>>

\* PlayerInternal::drop: every thread of load_handles is joined.
Join ==
    /\ pc = "joining"
    /\ \A l \in Loader : loads[l].out # "running"
    /\ pc' = "gone"
    /\ UNCHANGED <<open, busy, state, preload, loads, sink, nextId,
                   heard, asked, started>>

\* Nothing comes of a load: there is no such item, neither it nor one of its
\* alternatives is available, or none of its files has a format that is played.
LoadFails == [out |-> "failed", pos |-> 0]

\* The file is opened, with a key or without; a cached one that does not decode
\* is removed from the cache and loaded once more.
LoadRemoteTrack(p) == {LoadFails, [out |-> "ok", pos |-> LoadsAt(p)]}

\* The user's file: it may be gone, or shorter than a second, which ends the
\* thread in a division by zero.
LoadLocalTrack(p) == {LoadFails, [out |-> "ok", pos |-> SeeksTo(p)]}

LoadTrack(t, p) == IF t \in Local THEN LoadLocalTrack(p) ELSE LoadRemoteTrack(p)

\* A thread of load_track ends: its one-shot channel is used, or dropped.
LoadTrackEnds(l) ==
    /\ pc # "exited"
    /\ loads[l].out = "running"
    /\ \E result \in LoadTrack(loads[l].track, loads[l].from) :
         loads' = Drop([loads EXCEPT ![l] = [track |-> @.track, from |-> 0,
                                             out |-> result.out, pos |-> result.pos]],
                       state, preload)
    /\ UNCHANGED <<open, pc, busy, state, preload, sink, nextId,
                   heard, asked, started>>

Result(l) == [track |-> loads[l].track, pos |-> loads[l].pos]

\* poll, the loader of the current track.  After a failure its receiver is
\* terminated and the state stays as it is until another command.
PollLoading ==
    /\ pc = "loading"
    /\ LET l == state.loader
           out == IF l = NoLoader THEN "none" ELSE loads[l].out
       IN  CASE out = "ok" ->
                  /\ StartPlayback(state.track, state.id, Result(l), state.play,
                                   "Loading", sink, heard.id)
                  /\ loads' = Drop(loads, state', preload)
             [] out = "failed" ->
                  /\ Tell("Unavailable", state.id, state.track)
                  /\ Keep([state EXCEPT !.loader = NoLoader], preload)
                  /\ UNCHANGED <<sink, started>>
             [] OTHER -> UNCHANGED <<state, loads, sink, heard, started>>
    /\ pc' = StageFrom(2, state', preload)
    /\ UNCHANGED <<open, busy, preload, nextId, asked>>

\* poll, the loader of the next track.  That it failed is told with the id of
\* the request that is being played, if there is one.
PollPreload ==
    /\ pc = "preload"
    /\ LET l == preload.loader
           out == IF l = NoLoader THEN "none" ELSE loads[l].out
       IN  /\ CASE out = "ok" -> Keep(state, ReadyOf(preload.track, Result(l)))
                [] out = "failed" -> Keep(state, NoPreload)
                [] OTHER -> UNCHANGED <<state, preload, loads>>
           /\ IF out = "failed" /\ HasDecoder
                THEN Tell("Unavailable", state.id, preload.track)
                ELSE UNCHANGED heard
    /\ pc' = StageFrom(3, state', preload')
    /\ UNCHANGED <<open, busy, sink, nextId, asked, started>>

\* poll, is_playing in the state a failed seek has left: exit(1).
PacketInvalid ==
    /\ pc = "packet" /\ state.kind = "Invalid"
    /\ pc' = "exited"
    /\ UNCHANGED <<open, busy, state, preload, loads, sink, nextId,
                   heard, asked, started>>

\* ensure_sink_running fails: handle_pause, then exit(1) for the state it left.
SinkRefuses ==
    /\ pc = "packet" /\ state.kind = "Playing" /\ sink # "Running"
    /\ PauseState
    /\ pc' = "exited"
    /\ UNCHANGED <<open, busy, preload, loads, nextId, started>>

\* handle_packet: the sink takes the packet, or refuses it and is stopped.
WritePacket(on) ==
    \/ /\ state' = on
       /\ sink' = "Running"
       /\ UNCHANGED heard
    \/ /\ state' = [on EXCEPT !.kind = "Paused"]
       /\ sink' = "Closed"
       /\ Tell("Paused", on.id, on.track)

\* A packet is decoded; the position is that of the packet.
PacketPlayed ==
    /\ pc = "packet" /\ state.kind = "Playing"
    /\ state.loaded.pos < Length
    /\ WritePacket([state EXCEPT !.loaded.pos = @ + 1])
    /\ pc' = "suggest"
    /\ UNCHANGED <<open, busy, preload, loads, nextId, asked, started>>

\* next_packet fails: the listener is told that the track has ended, and the
\* player tries the next packet.
PacketFails ==
    /\ pc = "packet" /\ state.kind = "Playing"
    /\ sink' = "Running"
    /\ Tell("EndOfTrack", state.id, state.track)
    /\ pc' = "suggest"
    /\ UNCHANGED <<open, busy, state, preload, loads, nextId, asked,
                   started>>

\* playing_to_end_of_track keeps the decoder for the same track's next load.
ToEndOfTrack == [state EXCEPT !.kind = "EndOfTrack", !.suggested = FALSE]

\* There is no more packet.
PacketLast ==
    /\ pc = "packet" /\ state.kind = "Playing"
    /\ state.loaded.pos = Length
    /\ state' = ToEndOfTrack
    /\ sink' = "Running"
    /\ Tell("EndOfTrack", state.id, state.track)
    /\ pc' = "suggest"
    /\ UNCHANGED <<open, busy, preload, loads, nextId, asked, started>>

\* poll, TimeToPreloadNextTrack when the rest of the file is there, and the
\* end of the round: go on, or wait for a waker.
Suggest ==
    /\ pc = "suggest"
    /\ IF /\ HasDecoder /\ ~state.suggested
          /\ Length - state.loaded.pos < Window
       THEN \E toEnd \in BOOLEAN : state' = [state EXCEPT !.suggested = toEnd]
       ELSE UNCHANGED state
    /\ pc' = IF state.kind # "Playing" /\ ~busy THEN "pending" ELSE "command"
    /\ UNCHANGED <<open, busy, preload, loads, sink, nextId, heard,
                   asked, started>>

\* Mutant: a sender that is dropped wakes nobody.
MWakesOnSuccess(l) == l # NoLoader /\ loads[l].out = "ok"

\* A receiver that has been polled wakes the thread when its sender is used or
\* dropped, as do the channel's end and, in TakeCommand, its next command.
Ready(l) == l # NoLoader /\ loads[l].out \in {"ok", "failed"}

Wake ==
    /\ pc = "pending"
    /\ ~open \/ Ready(state.loader) \/ Ready(preload.loader)
    /\ pc' = "command"
    /\ UNCHANGED <<open, busy, state, preload, loads, sink, nextId,
                   heard, asked, started>>

\* ensure_sink_stopped: a running sink that does not stop ends the process.
StopsSink(c) ==
    \/ c.op = "Load" /\ ~Gapless
    \/ c.op = "Stop" /\ state.kind # "Stopped"
    \/ c.op = "Pause" /\ state.kind \in {"Playing", "Paused"}

SinkDoesNotStop ==
    /\ sink = "Running"
    /\ \/ /\ pc \in {"command", "pending"} /\ open
          /\ \E c \in Command : Sent(c) /\ StopsSink(c)
       \/ pc = "loading" /\ Ready(state.loader) /\ ~state.play
       \/ pc = "packet" /\ state.kind = "Playing"
    /\ pc' = "exited"
    /\ UNCHANGED <<open, busy, state, preload, loads, sink, nextId,
                   heard, asked, started>>

\* What the loop does by itself.
Round ==
    \/ NoCommand \/ Disconnected \/ Join
    \/ PollLoading \/ PollPreload
    \/ PacketInvalid \/ SinkRefuses \/ PacketPlayed \/ PacketFails \/ PacketLast
    \/ Suggest \/ Wake

\* Player::new.
Init ==
    /\ open = TRUE
    /\ pc = "command"
    /\ busy = FALSE
    /\ state = Stopped
    /\ preload = NoPreload
    /\ loads = [l \in Loader |-> Idle]
    /\ sink = "Closed"
    /\ nextId = 0
    /\ heard = [id |-> NoId, kind |-> "Stopped", req |-> NoId,
                track |-> NoTrack]
    /\ asked = Never
    /\ started = Never

Next ==
    \/ Close
    \/ \E l \in Loader : LoadTrackEnds(l)
    \/ TakeCommand
    \/ Round
    \/ SinkDoesNotStop

\* The thread is scheduled.  That every load ends is an assumption: some of the
\* requests it makes have no time limit.
Spec ==
    /\ Init /\ [][Next]_vars
    /\ WF_vars(Round)
    /\ \A l \in Loader : WF_vars(LoadTrackEnds(l))

-----------------------------------------------------------------------------
(* Properties.                                                                *)

StateKinds == {"Stopped", "Loading", "Paused", "Playing", "EndOfTrack", "Invalid"}
SinkStatus == {"Running", "Closed", "TemporarilyClosed"}
HeardKinds == {"Stopped", "Loading", "Playing", "Paused", "EndOfTrack", "Unavailable"}
MaybeTrack == Track \cup {NoTrack}
MaybeId == Ids \cup {NoId}
MaybeLoaded == [track: MaybeTrack, pos: Place]

\* Every variable has its type.
TypeOK ==
    /\ open \in BOOLEAN
    /\ pc \in Stages
    /\ busy \in BOOLEAN
    /\ state \in [kind: StateKinds, track: MaybeTrack, id: MaybeId,
                  play: BOOLEAN, loader: Loader \cup {NoLoader},
                  loaded: MaybeLoaded, suggested: BOOLEAN]
    /\ preload \in [kind: {"None", "Loading", "Ready"}, track: MaybeTrack,
                    loader: Loader \cup {NoLoader}, loaded: MaybeLoaded]
    /\ loads \in [Loader -> [out: {"idle", "running", "ok", "failed"},
                             track: MaybeTrack, from: Nat, pos: Place]]
    /\ sink \in SinkStatus
    /\ nextId \in Nat
    /\ heard \in [id: MaybeId, kind: HeardKinds, req: MaybeId,
                  track: MaybeTrack]
    /\ asked \in [id: MaybeId, track: MaybeTrack, pos: Nat, play: BOOLEAN]
    /\ started \in [id: MaybeId, track: MaybeTrack, pos: Place, play: BOOLEAN]

\* Told: what the listener was told last is the state the player is in, of the
\* same request and track.  What is told of a track that goes on is its end, when
\* a packet fails, and that the track to come after it is not available.
HeardIsState ==
    /\ state.kind # "Invalid" =>
         heard.kind \in (CASE HasDecoder -> {state.kind, "EndOfTrack", "Unavailable"}
                           [] state.kind = "Loading" -> {"Loading", "Unavailable"}
                           [] OTHER -> {state.kind})
    /\ state.kind \notin {"Stopped", "Invalid"} =>
         /\ heard.req = state.id
         /\ heard.track = state.track \/ (HasDecoder /\ heard.kind = "Unavailable")

\* The decoder that is played, kept at its end or preloaded is that of the
\* track it is kept for, wherever its loader was started.
DecoderIsTracks ==
    /\ TypeOK
    /\ state.kind \in {"Playing", "Paused", "EndOfTrack"} =>
         state.loaded.track = state.track
    /\ preload.kind = "Ready" => preload.loaded.track = preload.track
    /\ state.loader # NoLoader => loads[state.loader].track = state.track
    /\ preload.loader # NoLoader => loads[preload.loader].track = preload.track

\* What starts is what was asked for last: the track, the position and whether
\* to play, whichever of the decoders is used and whatever the listener changed
\* while the track was loading.
StartedAsAsked ==
    started # Never =>
        /\ started.id = asked.id
        /\ started.track = asked.track
        /\ started.play = asked.play
        /\ started.pos \in {LoadsAt(asked.pos), SeeksTo(asked.pos)}
        /\ started.track \in Local => started.pos = SeeksTo(asked.pos)

\* The sink runs while packets are written and is closed when the player is
\* paused or stopped, through gapless changes and failures to start.
SinkFollowsState ==
    /\ state.kind \in {"Paused", "Stopped"} /\ pc # "exited" => sink = "Closed"
    /\ state.kind = "Playing" /\ pc \in {"suggest", "command"} => sink = "Running"

\* Seen from outside, by the listener (send_event) and by the sink, the player
\* is in the state it is in, whichever step of handle_command or poll failed.
OutsideIsState == HeardIsState /\ SinkFollowsState

\* A load is answered: playback starts, or the track is unavailable, unless it
\* is asked for again or the player ends.
LoadAnswered ==
    (state.kind = "Loading" /\ state.loader # NoLoader)
        ~> \/ state.kind # "Loading" \/ state.loader = NoLoader
           \/ pc \in {"exited", "joining", "gone"}

\* Dropping the player ends its thread, which joins the threads that load.
CloseEnds == ~open ~> pc \in {"gone", "exited"}

\* Nobody waits for ever: not the listener for a load's answer, and not the
\* drop of the player (player.rs:2487-2505) for a thread that needs its lock.
NothingHangs == LoadAnswered /\ CloseEnds

=============================================================================

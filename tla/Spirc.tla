-------------------------------- MODULE Spirc --------------------------------
(* SpircTask (librespot_src/connect/src/spirc.rs): the task that drives the   *)
(* player for Spotify Connect.  It selects over the dealer's messages, the    *)
(* user's commands, the player's events and two timers.  It sends commands to *)
(* the player and never waits for them: what it believes of the player comes  *)
(* back as events, and what the other devices see of it are the states that   *)
(* it puts to the server, each of which may fail.  The lists of tracks are    *)
(* those of module ConnectState; here they are one context, played in order.  *)
EXTENDS Integers, Sequences

CONSTANTS Size,       \* the tracks of a context, 1 .. Size
          Unreadable, \* those whose uri cannot be read
          Volumes,    \* the highest volume, with a step of one
          MaxInputs,  \* bound: messages, commands and mixer changes from outside
          MaxFails    \* bound: requests to the server that fail

ASSUME SpircAssumption ==
    /\ Size \in Nat \ {0} /\ Unreadable \subseteq 1 .. Size
    /\ Volumes \in Nat
    /\ MaxInputs \in Nat
    /\ MaxFails \in Nat

VARIABLES
    task,     \* the fields of SpircTask and of its ConnectState
    out,      \* the channel of commands to the player
    player,   \* what plays: the player's state, its request id and track
    events,   \* the channel of the player's events
    loop,     \* whether the task runs
    inputs,   \* inputs so far
    fails     \* failures so far

spircVars == <<task, out, player, events, loop, inputs, fails>>

NoTrack == 0
Tracks == 1 .. Size
NoId == 0
Playing == {"LoadingPlay", "Playing"}
Statuses == Playing \cup {"Stopped", "LoadingPause", "Paused"}

\* What a put state tells of this device.
View(s) == [active |-> s.active, shown |-> s.shown, track |-> s.track, volume |-> s.volume]

\* history, until the next load: why the status or the track is not the
\* player's.  The first three leave music on with the status Stopped, the others
\* change the track and leave the status.
LeftOn == {"told", "failed", "ended"}
LeftBy == {"no", "noCluster", "unread"} \cup LeftOn

\* A handler's result: the task's state, the commands sent to the player, and
\* whether the handler ended without an error.
Does(s) == [s |-> s, send |-> <<>>, ok |-> TRUE]
Sends(s, command) == [s |-> s, send |-> <<command>>, ok |-> TRUE]
After(r, s) == [r EXCEPT !.s = s]
Fails(s) == [s |-> [s EXCEPT !.left = IF @ = "no" /\ s.status # "Stopped" THEN "unread" ELSE @],
             send |-> <<>>, ok |-> FALSE]

Load(t, play) == [op |-> "Load", track |-> t, play |-> play]
Order(op) == [op |-> op, track |-> NoTrack, play |-> FALSE]

--------------------------------------------------------------------------------
(* The helpers of the handlers. *)

\* What set_status makes of the status; is_playing() reads it back, later.
SetStatus(s) == [s EXCEPT !.shown = IF s.status \in Playing THEN "playing" ELSE "paused"]

\* A put of the state; one that fails is not repeated.
Put(s, ok) == IF ok THEN [s EXCEPT !.told = View(s)] ELSE [s EXCEPT !.missed = "put"]
\* history: what was missed is made up for by the next put that succeeds.
Again(s) == [s EXCEPT !.missed = "no"]
Notify(s, ok) == Put(Again(SetStatus(s)), ok)
\* A handler that ends by an error puts nothing of what it has changed.
Unput(s) == [s EXCEPT !.missed = IF View(s) = View(task) THEN @ ELSE "error"]
Notified(r, ok) == After(r, IF r.ok THEN Notify(r.s, ok) ELSE Unput(r.s))

ToStart(s) == [s EXCEPT !.track = IF s.context THEN 1 ELSE @]
HandleStop(s) == Sends(ToStart(s), Order("Stop"))

LoadTrack(s, play) ==
  CASE s.track = NoTrack -> HandleStop(s)
    [] s.track \in Unreadable -> Fails(s)
    [] OTHER -> Sends(SetStatus([s EXCEPT !.status = IF play THEN "LoadingPlay" ELSE "LoadingPause",
                                          !.crossed = "no", !.left = "no"]),
                      Load(s.track, play))

SetVolume(s, v) ==
  IF s.volume = v /\ s.mixer = v THEN s
  ELSE [s EXCEPT !.volume = v, !.mixer = v, !.updateVolume = TRUE]

HandlePlay(s) ==
  CASE s.status = "Paused" ->
         Sends(SetVolume([s EXCEPT !.status = "Playing"], s.mixer), Order("Play"))
    [] s.status = "LoadingPause" ->
         Sends(SetVolume([s EXCEPT !.status = "LoadingPlay"], s.mixer), Order("Play"))
    [] OTHER -> Does(s)

\* A mutant: the player is not told.
MPausesUntold(s) ==
  IF s.status \in Playing
  THEN Does([s EXCEPT !.status = IF s.status = "Playing" THEN "Paused" ELSE "LoadingPause"]) ELSE Does(s)
HandlePause(s) ==
  CASE s.status = "Playing" -> Sends([s EXCEPT !.status = "Paused"], Order("Pause"))
    [] s.status = "LoadingPlay" -> Sends([s EXCEPT !.status = "LoadingPause"], Order("Pause"))
    [] OTHER -> Does(s)

HandlePlayPause(s) == IF s.status \in Playing THEN HandlePause(s) ELSE HandlePlay(s)
HandleSeek(s) == Sends(s, Order("Seek"))

\* is_playing() is what was last shown, not the status.
HandleNext(s) ==
  IF s.context /\ s.track \in 1 .. Size - 1
  THEN LoadTrack([s EXCEPT !.track = @ + 1], s.shown = "playing")
  ELSE HandleStop([s EXCEPT !.track = NoTrack])

\* Within the first three seconds to the previous track, else to the start.
HandlePrev(s, early) ==
  CASE ~early -> HandleSeek(s)
    [] early /\ s.track > 1 -> LoadTrack([s EXCEPT !.track = @ - 1], s.shown = "playing")
    [] OTHER -> HandleStop(s)

HandleActivate(s) == [s EXCEPT !.active = TRUE]

MLeavesSilently(s, ok) ==
  [s EXCEPT !.active = FALSE, !.shown = "none", !.track = NoTrack, !.context = FALSE]
BecameInactive(s, ok) ==
  LET reset == [s EXCEPT !.active = FALSE, !.shown = "none", !.track = NoTrack, !.context = FALSE]
  IN Put(Again(reset), ok)

\* Both puts may fail; after the first failure the device stays active.
HandleDisconnect(s, first, second) ==
  LET stopped == Notify([s EXCEPT !.status = "Stopped"], first)
  IN IF first THEN BecameInactive(stopped, second) ELSE stopped
\* It stops nothing: what plays plays on, unless it was paused before.
Leaves(s, why, first, second) ==
  LET gone == HandleDisconnect(s, first, second)
  IN [gone EXCEPT !.left = IF s.status \in Playing THEN why ELSE @]

--------------------------------------------------------------------------------
(* What moves the task. *)

Initially ==
  [status |-> "Stopped", track |-> NoTrack, context |-> FALSE, active |-> FALSE,
   shown |-> "none", id |-> NoId, update |-> FALSE, updateVolume |-> FALSE,
   volume |-> Volumes, mixer |-> Volumes, established |-> FALSE,
   told |-> [active |-> FALSE, shown |-> "none", track |-> NoTrack, volume |-> Volumes],
   missed |-> "no", crossed |-> "no", left |-> "no"]

Running == loop = "running"
Input == Running /\ inputs < MaxInputs /\ inputs' = inputs + 1
\* A request to the server has an outcome; failures are bounded.
Outcome(ok) == /\ ok \/ fails < MaxFails
               /\ fails' = IF ok THEN fails ELSE fails + 1
Becomes(r) == task' = r.s /\ out' = out \o r.send
Quietly == UNCHANGED <<player, events, loop>>

\* The new device is announced; without an answer the loop ends.  A cluster
\* that no device leads may hand over what it played last; if that cannot be
\* loaded the loop ends as well.
ConnectionId(ok, t, play) ==
  /\ Running /\ Outcome(ok)
  /\ IF ok /\ t = NoTrack /\ ~task.established THEN UNCHANGED inputs ELSE Input
  /\ LET there == [Put(task, ok) EXCEPT !.established = ok \/ task.established]
         r == IF ok /\ t # NoTrack
              THEN LoadTrack([HandleActivate(there) EXCEPT !.track = t, !.context = TRUE], play)
              ELSE Does(there)
     IN Becomes(r) /\ loop' = IF ok /\ r.ok THEN loop ELSE "broken"
  /\ UNCHANGED <<player, events>>

\* Another device leads: this one disconnects, then stops the player, whatever
\* it did.  A put that fails ends the handler there.
OtherDeviceActive(first, second) ==
  /\ Input /\ Outcome(first /\ second) /\ Quietly
  /\ task.active
  /\ Becomes(IF first /\ second
             THEN HandleStop([HandleDisconnect(task, TRUE, TRUE) EXCEPT !.left = "no", !.crossed = "no"])
             ELSE Does(Leaves(task, "failed", first, second)))

\* Another device's update, or one without a cluster.
ClusterUpdate == /\ Input /\ Quietly /\ task.active
                 /\ task' = [task EXCEPT !.update = TRUE]
                 /\ UNCHANGED <<out, fails>>
ClusterMissing(ok) == /\ Input /\ Outcome(ok) /\ Quietly /\ task.active
                      /\ task' = [BecameInactive(task, ok) EXCEPT
                                    !.left = IF task.status # "Stopped" THEN "noCluster" ELSE @]
                      /\ UNCHANGED out

\* A request that is done is answered at once, and the state put a little later.
Later(r) == After(r, IF r.ok THEN [r.s EXCEPT !.update = TRUE] ELSE Unput(r.s))
Request(r) == Input /\ Becomes(Later(r)) /\ Quietly /\ UNCHANGED fails

RequestPlay(t, play) ==
  Request(LoadTrack([HandleActivate(task) EXCEPT !.track = t, !.context = TRUE], play))
\* The context cannot be had, by a request or a command: what was changed before
\* stays, nothing is put.
RequestPlayFails ==
  /\ Input /\ Outcome(FALSE) /\ Quietly
  /\ task' = Unput([HandleActivate(task) EXCEPT !.context = FALSE])
  /\ UNCHANGED out
RequestTransfer(t, play, ok) ==
  /\ Input /\ Quietly
  /\ LET r == LoadTrack([HandleActivate(task) EXCEPT !.track = t, !.context = TRUE], play)
     IN Outcome(ok \/ ~r.ok) /\ Becomes(Notified(r, ok))
RequestResume == Request(IF task.status = "Stopped" THEN LoadTrack(task, TRUE) ELSE HandlePlay(task))
RequestPause == Request(HandlePause(task))
RequestSkip == Request(HandleNext(task))
RequestBack(early) == (task.status = "Stopped" => early) /\ Request(HandlePrev(task, early))
RequestSeek == Request(HandleSeek(task))
RequestVolume(v) == Input /\ Becomes(Does(SetVolume(task, v))) /\ Quietly /\ UNCHANGED fails
MixerMoves(v) == /\ Input /\ Quietly /\ v # task.mixer
                 /\ task' = [task EXCEPT !.mixer = v]
                 /\ UNCHANGED <<out, fails>>

\* A command of the user is followed by a put, unless it ends by an error.
Command(r, ok) ==
  /\ Input /\ Outcome(ok \/ ~r.ok) /\ Quietly
  /\ task.established /\ task.active
  /\ Becomes(Notified(r, ok))

CommandLoad(t, play, ok) == Command(LoadTrack([task EXCEPT !.track = t, !.context = TRUE], play), ok)
CommandPlayPause(ok) == Command(HandlePlayPause(task), ok)
CommandPlay(ok) == Command(HandlePlay(task), ok)
CommandPause(ok) == Command(HandlePause(task), ok)
CommandNext(ok) == Command(HandleNext(task), ok)
CommandPrev(early, ok) ==
  (task.status = "Stopped" => early) /\ Command(HandlePrev(task, early), ok)
CommandVolume(up, ok) ==
  Command(Does(SetVolume(task, IF up THEN IF task.volume < Volumes THEN task.volume + 1 ELSE Volumes
                               ELSE IF task.volume > 0 THEN task.volume - 1 ELSE 0)), ok)
CommandActivate(ok) ==
  /\ Input /\ Outcome(ok) /\ Quietly
  /\ task.established /\ ~task.active
  /\ Becomes(Does(Notify(HandleActivate(task), ok)))
CommandDisconnect(pause, first, second) ==
  /\ Input /\ Outcome(first /\ second) /\ Quietly
  /\ task.established /\ task.active
  /\ LET r == IF pause THEN HandlePause(task) ELSE Does(task)
     IN Becomes(After(r, Leaves(r.s, "told", first, second)))

\* Shutting down disconnects first; if that fails the loop goes on.
CommandShutdown(first, second) ==
  /\ Input /\ Outcome(first /\ second) /\ task.established
  /\ LET r == HandlePause(task)
         gone == Leaves(r.s, "told", first, second)
     IN Becomes(After(r, IF first /\ second THEN Notify(gone, TRUE) ELSE gone))
  /\ loop' = IF first /\ second THEN "shutdown" ELSE loop
  /\ UNCHANGED <<player, events>>

\* The timers; they are restarted whenever another branch is taken first.
MUpdateStays(ok) == /\ Running /\ task.update /\ Outcome(ok) /\ Quietly
                    /\ task' = Notify(task, ok)
                    /\ UNCHANGED <<out, inputs>>
UpdateState(ok) ==
  /\ Running /\ task.update /\ Outcome(ok) /\ Quietly
  /\ task' = Notify([task EXCEPT !.update = FALSE], ok)
  /\ UNCHANGED <<out, inputs>>
UpdateVolume(ok) ==
  /\ Running /\ task.updateVolume /\ Outcome(ok) /\ Quietly
  /\ task' = Notify([task EXCEPT !.updateVolume = FALSE], ok)  \* the second put tells all that the first did
  /\ UNCHANGED <<out, inputs>>

\* The session is invalid: the loop is left.
SessionEnds == Input /\ loop' = "broken" /\ UNCHANGED <<task, out, player, events, fails>>

\* After the loop: a task that was not shut down disconnects, and stops nothing.
Ends(first, second) ==
  /\ loop \in {"broken", "shutdown"} /\ loop' = "ended"
  /\ Outcome(first /\ second)
  /\ task' = IF loop = "broken" /\ task.active
             THEN Leaves(task, "ended", first, second) ELSE task
  /\ UNCHANGED <<out, player, events, inputs>>

--------------------------------------------------------------------------------
(* The player's events. *)

\* The status after an event of the current request, and whether it is put.
Playing_(s) ==
  IF s.status \in {"LoadingPlay", "LoadingPause", "Playing"}
  THEN [s EXCEPT !.status = "Playing", !.update = TRUE] ELSE s
Paused_(s) ==
  IF s.status # "Stopped" THEN [s EXCEPT !.status = "Paused", !.update = TRUE] ELSE s
Stopped_(s) ==
  IF s.status # "Stopped" THEN [s EXCEPT !.status = "Stopped", !.update = TRUE] ELSE s

Meaning(s, e) ==
  CASE e.kind = "Playing" -> Does(Playing_(s))
    [] e.kind = "Paused" -> Does(Paused_(s))
    [] e.kind = "Stopped" -> Does(Stopped_(s))
    [] e.kind \in {"Loading", "Seeked"} -> Does([s EXCEPT !.update = TRUE])
    [] e.kind = "EndOfTrack" -> Later(HandleNext(s))
    [] e.kind = "Unavailable" -> Later(IF s.track = e.track THEN HandleNext(s) ELSE Does(s))

\* history, until the next load or stop: an event changed the status that the
\* player had sent before it saw the last command, or before its present track.
Crosses(e) == \/ out # <<>> \/ e.old
              \/ \E i \in DOMAIN events : events[i].kind = "PlayRequestIdChanged"
Noted(s, e) == IF s.status = "Stopped" THEN s
               ELSE [s EXCEPT !.crossed = IF Crosses(e) THEN "crossed" ELSE @]

HandlePlayerEvent ==
  /\ Running /\ events # <<>>
  /\ events' = Tail(events)
  /\ LET e == Head(events)
     IN Becomes(CASE e.kind = "TrackChanged" -> Does([task EXCEPT !.update = TRUE])
                  [] e.kind = "PlayRequestIdChanged" -> Does([task EXCEPT !.id = e.id])
                  [] e.kind \notin {"TrackChanged", "PlayRequestIdChanged"} /\ e.id = task.id ->
                       Meaning(Noted(task, e), e)
                  [] OTHER -> Does(task))
  /\ UNCHANGED <<player, loop, inputs, fails>>

--------------------------------------------------------------------------------
(* The player, as its thread and module Player have it. *)

Event(kind, p) == [kind |-> kind, id |-> p.id, track |-> p.track, old |-> FALSE]
Started(p) == [p EXCEPT !.mode = IF p.play THEN "Playing" ELSE "Paused"]
StartEvents(p) == <<Event("TrackChanged", p), Event(Started(p).mode, p)>>

Says(p, said) == player' = p /\ events' = events \o said
\* What was said before a command was taken is old.
Answers(p, said) == player' = p /\ events' = [i \in DOMAIN events |-> [events[i] EXCEPT !.old = TRUE]] \o said

PlayerTakes ==
  /\ out # <<>> /\ out' = Tail(out)
  /\ LET c == Head(out)
         fresh == [mode |-> "Loading", id |-> player.id + 1, track |-> c.track, play |-> c.play]
         begins == <<Event("PlayRequestIdChanged", fresh)>>
     IN \/ c.op = "Load" /\ Answers(fresh, begins \o <<Event("Loading", fresh)>>)
        \/ c.op = "Load" /\ Answers(Started(fresh), begins \o StartEvents(fresh))
        \/ /\ c.op \in {"Play", "Pause"} /\ player.mode = "Loading"
           /\ Answers([player EXCEPT !.play = (c.op = "Play")], <<>>)
        \/ /\ c.op = "Play" /\ player.mode = "Paused"
           /\ Answers([player EXCEPT !.mode = "Playing", !.play = TRUE], <<Event("Playing", player)>>)
        \/ /\ c.op = "Pause" /\ player.mode = "Playing"
           /\ Answers([player EXCEPT !.mode = "Paused", !.play = FALSE], <<Event("Paused", player)>>)
        \/ /\ c.op = "Stop" /\ player.mode # "Stopped"
           /\ Answers([player EXCEPT !.mode = "Stopped"], <<Event("Stopped", player)>>)
        \/ /\ c.op = "Seek" /\ player.mode \in {"Playing", "Paused"}
           /\ Answers(player, <<Event("Seeked", player)>>)
        \/ /\ \/ c.op = "Play" /\ player.mode \notin {"Loading", "Paused"}
              \/ c.op = "Pause" /\ player.mode \notin {"Loading", "Playing"}
              \/ c.op = "Stop" /\ player.mode = "Stopped"
              \/ c.op = "Seek" /\ player.mode \notin {"Playing", "Paused"}
           /\ Answers(player, <<>>)
  /\ UNCHANGED <<task, loop, inputs, fails>>

PlayerStarts == /\ player.mode = "Loading" /\ Says(Started(player), StartEvents(player))
                /\ UNCHANGED <<task, out, loop, inputs, fails>>
PlayerFails == /\ player.mode = "Loading" /\ fails < MaxFails /\ fails' = fails + 1
               /\ Says([player EXCEPT !.mode = "Failed"], <<Event("Unavailable", player)>>)
               /\ UNCHANGED <<task, out, loop, inputs>>
PlayerEnds == /\ player.mode = "Playing"
              /\ Says([player EXCEPT !.mode = "EndOfTrack"], <<Event("EndOfTrack", player)>>)
              /\ UNCHANGED <<task, out, loop, inputs, fails>>

--------------------------------------------------------------------------------
SpircInit ==
  /\ task = Initially
  /\ out = <<>> /\ events = <<>>
  /\ player = [mode |-> "Stopped", id |-> NoId, track |-> NoTrack, play |-> FALSE]
  /\ loop = "running" /\ inputs = 0 /\ fails = 0

SpircNext ==
  \/ \E ok \in BOOLEAN, t \in Tracks \cup {NoTrack}, play \in BOOLEAN : ConnectionId(ok, t, play)
  \/ \E first, second \in BOOLEAN : (first \/ second) /\ OtherDeviceActive(first, second)
  \/ ClusterUpdate
  \/ \E ok \in BOOLEAN : ClusterMissing(ok)
  \/ \E t \in Tracks, play \in BOOLEAN : RequestPlay(t, play)
  \/ RequestPlayFails
  \/ \E t \in Tracks, play, ok \in BOOLEAN : RequestTransfer(t, play, ok)
  \/ RequestResume \/ RequestPause \/ RequestSkip \/ RequestSeek
  \/ \E early \in BOOLEAN : RequestBack(early)
  \/ \E v \in 0 .. Volumes : RequestVolume(v) \/ MixerMoves(v)
  \/ \E t \in Tracks, play, ok \in BOOLEAN : CommandLoad(t, play, ok)
  \/ \E ok \in BOOLEAN : CommandPlay(ok) \/ CommandPause(ok) \/ CommandPlayPause(ok) \/ CommandNext(ok)
  \/ \E early, ok \in BOOLEAN : CommandPrev(early, ok)
  \/ \E up, ok \in BOOLEAN : CommandVolume(up, ok)
  \/ \E ok \in BOOLEAN : CommandActivate(ok)
  \/ \E pause, first, second \in BOOLEAN : (first \/ second) /\ CommandDisconnect(pause, first, second)
  \/ \E first, second \in BOOLEAN : (first \/ second) /\ CommandShutdown(first, second)
  \/ \E ok \in BOOLEAN : UpdateState(ok) \/ UpdateVolume(ok)
  \/ SessionEnds
  \/ \E first, second \in BOOLEAN : (first \/ second) /\ Ends(first, second)
  \/ HandlePlayerEvent
  \/ PlayerTakes \/ PlayerStarts \/ PlayerFails \/ PlayerEnds

\* The task and the player run whenever they can; nobody has to ask anything.
Fairness ==
  /\ WF_spircVars(HandlePlayerEvent)
  /\ WF_spircVars(\E ok \in BOOLEAN : UpdateState(ok))
  /\ WF_spircVars(\E ok \in BOOLEAN : UpdateVolume(ok))
  /\ WF_spircVars(\E first, second \in BOOLEAN : Ends(first, second))
  /\ WF_spircVars(PlayerTakes)
  /\ WF_spircVars(PlayerStarts)

SpircSpec == SpircInit /\ [][SpircNext]_spircVars /\ Fairness

--------------------------------------------------------------------------------
Views == [active: BOOLEAN, shown: {"none", "playing", "paused"},
          track: Tracks \cup {NoTrack}, volume: 0 .. Volumes]

\* Type invariant: the status, the view that was put and the player's state are
\* of their kinds, whatever handlers ran.
SpircTypeOK ==
  /\ task.status \in Statuses
  /\ View(task) \in Views /\ task.told \in Views
  /\ task.mixer \in 0 .. Volumes
  /\ task.id \in Nat /\ task.crossed \in {"no", "crossed"}
  /\ task.left \in LeftBy /\ task.missed \in {"no", "put", "error"}
  /\ \A f \in {"context", "established", "update", "updateVolume"} : task[f] \in BOOLEAN
  /\ player.mode \in {"Stopped", "Loading", "Playing", "Paused", "EndOfTrack", "Failed"}
  /\ loop \in {"running", "broken", "shutdown", "ended"}

\* Nothing is under way between the task and the player.
Settled == out = <<>> /\ events = <<>> /\ player.mode # "Loading"

\* Once nothing is under way, the task believes of the player what is so.
StatusAgrees ==
  CASE player.mode = "Playing" -> task.status = "Playing"
    [] player.mode = "Paused" -> task.status \in {"Stopped", "Paused"}
    [] player.mode = "Stopped" -> task.status = "Stopped"
    [] OTHER -> TRUE
TrackAgrees ==
  player.mode \in {"Playing", "Paused"} /\ task.status # "Stopped" => task.track = player.track

\* The status is what the player does, however commands, loads, puts that fail
\* and events are interleaved; the track is the player's as well, and a device
\* that is not the active one plays nothing.  The code lets it be otherwise in
\* these cases, and in no other, until the next load:
\*   crossed     an event and a command crossed (spirc.rs:773), until a stop too;
\*   "told"      the user disconnected without a pause (730-735);
\*   "failed"    a put failed when another device took over (1002);
\*   "ended"     the loop ended with the device active (592-597);
\*   "noCluster" a cluster update without a cluster (1011-1013): track and active;
\*   "unread"    a track's uri could not be read (1880): the track.
StatusFollowsPlayer ==
  /\ SpircTypeOK
  /\ Settled /\ task.crossed = "no" /\ task.left \notin LeftOn =>
       /\ StatusAgrees
       /\ task.left = "no" => TrackAgrees
       /\ player.mode = "Playing" => task.active \/ task.left = "noCluster"

\* When no timer runs the server has been told how things are: status, track,
\* volume and who is active.  It has not only where the last put failed (540), or
\* where a handler changed something and then ended by an error before its put
\* (788, 1074-1118), and only until the next notify succeeds.
ServerKnows ==
  Running /\ Settled /\ task.established /\ ~task.update /\ ~task.updateVolume /\ task.missed = "no"
  => task.told.active = task.active
     /\ (task.active => task.told = View(SetStatus(task)))

\* When no more comes from outside, events and timers come to rest.
ComesToRest == []<>(loop = "ended" \/ (Settled /\ ~task.update /\ ~task.updateVolume))
================================================================================

------------------------------ MODULE AppMain -------------------------------
(* librespot's main task (src/main.rs from 1882): it starts discovery, keeps   *)
(* one Spirc with the credentials that came last, reconnects when Spirc ends   *)
(* by itself, and shuts down on ctrl-c. With it: the discovery server and its  *)
(* zeroconf service (discovery/src), which bring credentials, and the thread   *)
(* that runs the event program (src/player_event_handler.rs).                  *)
(*                                                                             *)
(* The tasks share one thread: an arm of main's select! runs to its next await *)
(* in one step. While main awaits Spirc::new none of its arms is polled. After *)
(* main has left its last await it drops what it holds, and that blocks.       *)
EXTENDS Naturals, Sequences, FiniteSets

CONSTANTS
    Users,          \* credentials
    NoUser,         \* none
    MaxSpircs,      \* bound: Spircs made
    MaxQueue,       \* bound: events in discovery's channel
    RateLimit,      \* RECONNECT_RATE_LIMIT (5 in the code)
    OnEvent,        \* an event program is configured
    Avahi           \* the zeroconf service is avahi's daemon, not a responder here

ASSUME MainAssumption ==
    /\ NoUser \notin Users /\ "error" \notin Users
    /\ {MaxSpircs, MaxQueue, RateLimit} \subseteq Nat /\ {OnEvent, Avahi} \subseteq BOOLEAN

VARIABLES
    main,       \* its await, the variables of its select! loop, the preconditions
    session,    \* the session main holds: its number, whether it is valid
    inst,       \* the Spircs made so far: see Inst
    player,     \* valid, whether a load is asked of it or runs, the session it uses
    queue,      \* discovery's event_rx
    disc,       \* discovery: the server, the zeroconf service, the active user
    handler     \* the event thread: events it has not handled, whether one runs

vars == <<main, session, inst, player, queue, disc, handler>>

Ids == 1..MaxSpircs
Awaits == {"launching", "loop", "dialing", "closing", "dropping", "exited", "failed"}
Inst == [state: {"none", "run", "ended"}, told: BOOLEAN, user: Users \cup {NoUser},
         session: Nat]
Mains == [at: Awaits, last: Users \cup {NoUser}, connecting: BOOLEAN,
          spirc: 0..MaxSpircs, task: BOOLEAN, times: 0..(RateLimit + 2), dead: BOOLEAN]
Discs == [server: {"off", "run", "stopped"},
          zero: {"off", "waiting", "published", "stopped"}, active: Users \cup {NoUser}]
NoInst == [state |-> "none", told |-> FALSE, user |-> NoUser, session |-> 0]

Init ==
    /\ \E u \in Users \cup {NoUser} :
         main = [at |-> "launching", last |-> u, connecting |-> FALSE, spirc |-> 0,
                 task |-> FALSE, times |-> 0, dead |-> FALSE]
    /\ session = [id |-> 1, valid |-> TRUE]
    /\ inst = [i \in Ids |-> NoInst]
    /\ player = [valid |-> TRUE, loads |-> FALSE, session |-> 1]
    /\ queue = <<>>
    /\ disc = [server |-> "off", zero |-> "off", active |-> NoUser]
    /\ handler = [events |-> 0, runs |-> FALSE]

Live == main.at \in {"loop", "dialing", "closing"}
Started == disc.server # "off"
Made == {i \in Ids : inst[i].state # "none"}
Running(i) == inst[i].state = "run"
Exit == main' = [main EXCEPT !.at = "failed"]
\* select! is entered, and looks then whether the player is invalid.
Selects(m) == [m EXCEPT !.at = "loop", !.dead = ~player.valid]

-----------------------------------------------------------------------------
(* The start.                                                                  *)

\* A failure to launch discovery is tried again only while the machine has just booted (which repeats the same step);
\* then main goes on without. What it needs is a way to get credentials.
Enter(on) ==
    IF main.last # NoUser THEN main' = Selects([main EXCEPT !.connecting = TRUE])
    ELSE IF on THEN main' = Selects(main)
    ELSE Exit

\* Builder::launch: the server is bound first, its port goes to the service.
Launched == [disc EXCEPT !.server = "run", !.zero = "waiting"]

Launch ==
    /\ main.at = "launching"
    /\ \/ disc' = Launched /\ Enter(TRUE)
       \/ Enter(FALSE) /\ UNCHANGED disc
    /\ UNCHANGED <<session, inst, player, queue, handler>>

-----------------------------------------------------------------------------
(* Discovery.                                                                  *)

\* handle_add_user: a request whose MAC is right sends the credentials and then
\* names the user; the receiver is there until discovery has shut down.
AddUser(u) ==
    /\ Live /\ disc.server = "run"
    /\ Len(queue) < MaxQueue
    /\ queue' = Append(queue, u)
    /\ disc' = [disc EXCEPT !.active = u]
    /\ UNCHANGED <<main, session, inst, player, handler>>

\* avahi_task: published once the daemon is there, again when it comes back; a
\* collision or an error of the bus ends it and the stream of credentials.
\* dns-sd and libmdns register once, wait for the shutdown and can fail only
\* before.
CanFail == IF Avahi THEN {"waiting", "published"} ELSE {"waiting"}

Publish ==
    /\ Live /\ disc.zero = "waiting"
    /\ disc' = [disc EXCEPT !.zero = "published"]
    /\ UNCHANGED <<main, session, inst, player, queue, handler>>

AvahiDisappears ==
    /\ Live /\ Avahi /\ disc.zero = "published"
    /\ disc' = [disc EXCEPT !.zero = "waiting"]
    /\ UNCHANGED <<main, session, inst, player, queue, handler>>

ZeroconfFails ==
    /\ Live /\ disc.zero \in CanFail /\ Len(queue) < MaxQueue
    /\ disc' = [disc EXCEPT !.zero = "stopped"]
    /\ queue' = Append(queue, "error")
    /\ UNCHANGED <<main, session, inst, player, handler>>

\* The two halves of Discovery::shutdown, which main joins.
ServerStops ==
    /\ main.at = "closing" /\ disc.server = "run"
    /\ disc' = [disc EXCEPT !.server = "stopped"]
    /\ UNCHANGED <<main, session, inst, player, queue, handler>>

ZeroconfStops ==
    /\ main.at = "closing" /\ disc.zero \in {"waiting", "published"}
    /\ disc' = [disc EXCEPT !.zero = "stopped"]
    /\ UNCHANGED <<main, session, inst, player, queue, handler>>

-----------------------------------------------------------------------------
(* main's select! loop.                                                        *)

Shutdown(s) == [s EXCEPT !.valid = FALSE]
MTell(k, i) == k
Tell(k, i) == IF i = 0 THEN k ELSE [k EXCEPT ![i].told = TRUE]

\* Credentials of discovery: the Spirc is told to shut down and continues in a
\* task of its own.
MTakeOver == inst
TakeOver == Tell(inst, main.spirc)

Discovered ==
    /\ main.at = "loop" /\ queue # <<>>
    /\ queue' = Tail(queue)
    /\ IF Head(queue) = "error"
       THEN Exit /\ UNCHANGED <<session, inst>>
       ELSE /\ main' = Selects([main EXCEPT !.last = Head(queue), !.times = 0, !.spirc = 0,
                                            !.task = FALSE, !.connecting = TRUE])
            /\ inst' = TakeOver
            /\ session' = Shutdown(session)
    /\ UNCHANGED <<player, disc, handler>>

\* Spirc::new, with a new session if the old one is invalid.
DialSession == IF session.valid THEN session ELSE [id |-> session.id + 1, valid |-> TRUE]

MDial ==
    /\ main.at = "loop" /\ main.connecting /\ main.last # NoUser
    /\ Cardinality(Made) < MaxSpircs
    /\ session' = DialSession
    /\ main' = [main EXCEPT !.at = "dialing"]
    /\ UNCHANGED <<inst, player, queue, disc, handler>>
Dial ==
    /\ main.at = "loop" /\ main.connecting /\ main.last # NoUser
    /\ Cardinality(Made) < MaxSpircs
    /\ session' = DialSession
    /\ player' = [player EXCEPT !.session = DialSession.id]
    /\ main' = [main EXCEPT !.at = "dialing"]
    /\ UNCHANGED <<inst, queue, disc, handler>>

Dialed ==
    /\ main.at = "dialing"
    /\ LET i == Cardinality(Made) + 1
       IN /\ inst' = [inst EXCEPT ![i] =
                        [state |-> "run", told |-> FALSE, user |-> main.last,
                         session |-> session.id]]
          /\ main' = Selects([main EXCEPT !.connecting = FALSE, !.spirc = i, !.task = TRUE])
    /\ UNCHANGED <<session, player, queue, disc, handler>>

DialFails ==
    /\ main.at = "dialing" /\ Exit
    /\ UNCHANGED <<session, inst, player, queue, disc, handler>>

\* The Spirc in main's hands has ended by itself. (The window of times is
\* checked before this time is added to it.)
ExceedsLimit == main.times > RateLimit

MEndedMain == Selects([main EXCEPT !.task = FALSE, !.times = @ + 1])
EndedMain == Selects([main EXCEPT !.task = FALSE, !.times = @ + 1, !.connecting = TRUE])

SpircEnded ==
    /\ main.at = "loop" /\ main.task /\ ~main.connecting /\ ~Running(main.spirc)
    /\ IF main.last # NoUser /\ ~ExceedsLimit
       THEN main' = EndedMain /\ session' = Shutdown(session)
       ELSE Exit /\ UNCHANGED session
    /\ UNCHANGED <<inst, player, queue, disc, handler>>

PlayerInvalid ==
    /\ main.at = "loop" /\ main.dead /\ Exit
    /\ UNCHANGED <<session, inst, player, queue, disc, handler>>

\* ctrl-c: the Spirc is told, its task and discovery's shutdown are joined.
CtrlC ==
    /\ main.at = "loop"
    /\ main' = [main EXCEPT !.at = "closing"]
    /\ inst' = Tell(inst, main.spirc)
    /\ UNCHANGED <<session, player, queue, disc, handler>>

AllJoined ==
    /\ main.task => ~Running(main.spirc)
    /\ Started => disc.server = "stopped" /\ disc.zero = "stopped"

\* The join, or a second ctrl-c.
Leave ==
    /\ main.at = "closing" /\ main' = [main EXCEPT !.at = "dropping"]
    /\ UNCHANGED <<session, inst, player, queue, disc, handler>>

JoinAll == AllJoined /\ Leave
CtrlCAgain == Leave

\* What main holds is dropped, then what the tasks hold.  The last holder of the
\* player joins its thread, which joins the threads that load: main waits for
\* them.  With an event program main first joins the event thread, which ends when
\* the player's has; a Spirc task holds the player, and this thread, which would
\* poll it, is the one that waits.
Holders == {i \in Ids : Running(i)}

Dropped ==
    /\ main.at = "dropping" /\ ~player.loads
    /\ OnEvent => /\ Holders = {} \/ ~player.valid
                  /\ handler.events = 0 /\ ~handler.runs
    /\ main' = [main EXCEPT !.at = "exited"]
    /\ UNCHANGED <<session, inst, player, queue, disc, handler>>

-----------------------------------------------------------------------------
(* The others: the Spircs, the window of time, the player, the event thread.   *)

\* A Spirc ends when it is told, or by itself (its session or dealer is lost).
SpircEnds(i) ==
    /\ Live /\ Running(i)
    /\ inst' = [inst EXCEPT ![i].state = "ended"]
    /\ UNCHANGED <<main, session, player, queue, disc, handler>>

SessionLost ==
    /\ Live /\ session.valid
    /\ session' = Shutdown(session)
    /\ UNCHANGED <<main, inst, player, queue, disc, handler>>

\* The oldest automatic reconnection leaves the window of 10 minutes.
WindowPasses ==
    /\ main.at = "loop" /\ main.times > 0
    /\ main' = [main EXCEPT !.times = @ - 1]
    /\ UNCHANGED <<session, inst, player, queue, disc, handler>>

\* A Spirc sends the player a command that loads a track; the load waits for
\* servers, without a time limit, and for connections that only main's thread
\* serves, and goes on after main's last await.
LoadBegins ==
    /\ Live /\ Made # {} /\ player.valid /\ ~player.loads
    /\ player' = [player EXCEPT !.loads = TRUE]
    /\ UNCHANGED <<main, session, inst, queue, disc, handler>>

LoadEnds ==
    /\ main.at \notin {"exited", "failed"} /\ player.loads
    /\ player' = [player EXCEPT !.loads = FALSE]
    /\ UNCHANGED <<main, session, inst, queue, disc, handler>>

\* (A thread that panics joins its loads before it is invalid.)
PlayerDies ==
    /\ Live /\ player.valid
    /\ player' = [player EXCEPT !.valid = FALSE, !.loads = FALSE]
    /\ UNCHANGED <<main, session, inst, queue, disc, handler>>

PlayerEvent ==
    /\ Live /\ OnEvent /\ handler.events = 0 /\ player.valid
    /\ handler' = [handler EXCEPT !.events = @ + 1]
    /\ UNCHANGED <<main, session, inst, player, queue, disc>>

\* The thread runs one program at a time and waits for it; an event that is of
\* no use to a program runs none.
RunProgram ==
    /\ main.at \notin {"exited", "failed"} /\ handler.events > 0 /\ ~handler.runs
    /\ \E useful \in BOOLEAN :
         handler' = [events |-> handler.events - 1, runs |-> useful]
    /\ UNCHANGED <<main, session, inst, player, queue, disc>>

ProgramEnds ==
    /\ handler.runs
    /\ handler' = [handler EXCEPT !.runs = FALSE]
    /\ UNCHANGED <<main, session, inst, player, queue, disc>>

-----------------------------------------------------------------------------

Next ==
    \/ Launch \/ Discovered \/ Dial \/ Dialed \/ DialFails
    \/ SpircEnded \/ PlayerInvalid \/ CtrlC \/ CtrlCAgain \/ JoinAll \/ Dropped
    \/ \E u \in Users : AddUser(u)
    \/ Publish \/ AvahiDisappears \/ ZeroconfFails \/ ServerStops \/ ZeroconfStops
    \/ \E i \in Ids : SpircEnds(i)
    \/ SessionLost \/ WindowPasses \/ LoadBegins \/ LoadEnds \/ PlayerDies
    \/ PlayerEvent \/ RunProgram \/ ProgramEnds

\* main and the tasks are polled, and select! takes its arms in random order, so
\* that each arm that stays ready is taken; discovery stops when it is told, and
\* the event program ends.  Nothing is assumed of what waits for Spotify without a
\* time limit: Spirc::new, a Spirc that is told to shut down, a load.
Fairness ==
    /\ WF_vars(Discovered) /\ WF_vars(Dial)
    /\ WF_vars(SpircEnded) /\ WF_vars(PlayerInvalid) /\ WF_vars(JoinAll) /\ WF_vars(Dropped)
    /\ WF_vars(ServerStops) /\ WF_vars(ZeroconfStops)
    /\ WF_vars(RunProgram) /\ WF_vars(ProgramEnds)

Spec == Init /\ [][Next]_vars /\ Fairness

-----------------------------------------------------------------------------
(* Properties.                                                                 *)

TypeOK ==
    /\ main \in Mains
    /\ session \in [id: Nat, valid: BOOLEAN]
    /\ inst \in [Ids -> Inst]
    /\ player \in [valid: BOOLEAN, loads: BOOLEAN, session: Nat]
    /\ queue \in Seq(Users \cup {"error"}) /\ Len(queue) <= MaxQueue
    /\ disc \in Discs
    /\ handler \in [events: 0..1, runs: BOOLEAN]

\* Of the Spircs that run, which share the player and the mixer, at most one has
\* not been told to shut down: the one in main's hands (main.rs 2023-2031,
\* 2068-2091).
OneSpirc ==
    \A i \in Ids : Running(i) /\ ~inst[i].told => i = main.spirc /\ main.task

\* What main does last is what was asked last: once the channel is empty, the
\* credentials it uses are those of the user discovery names as active, and the
\* Spirc in its hands uses them, with the session that the player uses.
LastUserWins ==
    /\ disc.active # NoUser /\ queue = <<>> /\ main.at \in {"loop", "dialing"}
       => main.last = disc.active
    /\ main.at = "loop" /\ ~main.connecting /\ main.task
       => inst[main.spirc].user = main.last /\ inst[main.spirc].session = player.session

\* main is not for ever without a Spirc that runs once it has had one, whether
\* that ended by itself or was replaced (main.rs 2023-2091): either one is there
\* again, or main has ended, or it waits in Spirc::new, where nothing limits how
\* long the login takes.
WithoutSpirc ==
    /\ main.at \in {"loop", "dialing"} /\ Made # {}
    /\ main.spirc # 0 => ~Running(main.spirc)

SpircComesBack ==
    \/ []<>~WithoutSpirc
    \/ <>[](main.at = "dialing")
    \/ <>[](Cardinality(Made) = MaxSpircs)

\* After ctrl-c main comes to its end (main.rs 2106-2126, player.rs 687-697,
\* 2487-2505, player_event_handler.rs 280-289).  It hangs in three cases: a Spirc
\* that is told to shut down does not, which a second ctrl-c ends; a track is
\* being loaded that never comes; or, with an event program, a Spirc task outlives
\* the join, one that was replaced before, or any after a second ctrl-c.
JoinsSpirc ==
    main.at = "closing" /\ main.task /\ Running(main.spirc) /\ inst[main.spirc].told
JoinsPlayer ==
    main.at = "dropping" /\ (player.loads \/ (OnEvent /\ Holders # {} /\ player.valid))

ShutdownEnds ==
    \/ []<>(main.at \notin {"closing", "dropping"})
    \/ <>[]JoinsSpirc
    \/ <>[]JoinsPlayer
=============================================================================

---------------------------- MODULE Tasks_proofs ----------------------------
(***************************************************************************)
(* Two of librespot's tasks, for all values of the constants: the one of   *)
(* its main program, and the one that fetches a file.                      *)
(*                                                                         *)
(* The main task (module AppMain), for every set of users and every bound: *)
(* it keeps at most one Spirc in charge, with the credentials that came    *)
(* last.  The induction adds that main holds no Spirc while it connects    *)
(* one, that Spirc::new and the player have the same session, and what     *)
(* discovery's channel ends with.                                          *)
(*                                                                         *)
(* The range sets (module RangeSet), for every pair of lists: the          *)
(* algorithms on sorted lists of ranges are addition, subtraction,         *)
(* intersection and lookup of the sets of positions, and keep the lists    *)
(* sorted and apart.  A loop is a recursive function of how far it is,     *)
(* shown to exist and followed turn by turn with an induction over the     *)
(* least number that would be an exception.                                *)
(*                                                                         *)
(* The fetched file (module AudioFetch), for every size of file, number of *)
(* requests and failures: reads are real, each requested block is brought  *)
(* once, and a blocking fetch that has been woken has something to wait    *)
(* for.  The induction says where each requested block is: what a request  *)
(* has not brought, what waits in the channel, or what has been written.   *)
(***************************************************************************)
EXTENDS AppMain, AudioFetch, FiniteSetTheorems, WellFoundedInduction, TLAPS
-----------------------------------------------------------------------------
(* The main task.                                                              *)

\* main has no Spirc while it connects, and awaits Spirc::new only then.
Connecting ==
    /\ main.connecting \/ main.at = "launching" => ~main.task
    /\ main.at = "dialing" => main.connecting /\ Cardinality(Made) < MaxSpircs
    /\ main.at = "dialing" => session.id = player.session

\* The Spirc that main holds has its credentials, and its session.
InCharge == main.task =>
    /\ main.spirc \in Ids
    /\ inst[main.spirc].user = main.last
    /\ inst[main.spirc].session = player.session

\* The last of discovery's events is of the active user, or an error, after
\* which main goes no further.
ChannelEnds ==
    /\ main.at = "launching" => disc.active = NoUser /\ queue = <<>>
    /\ main.at \in {"loop", "dialing"} /\ disc.active # NoUser =>
          IF queue = <<>> THEN main.last = disc.active
          ELSE queue[Len(queue)] \in {disc.active, "error"}

\* Every start of the main loop has the types of TypeOK.
LEMMA TypeInit == Init => TypeOK
<1> SUFFICES ASSUME Init PROVE TypeOK
    OBVIOUS
<1>1. RateLimit \in Nat /\ MaxSpircs \in Nat /\ MaxQueue \in Nat
    BY MainAssumption
<1>2. PICK u \in Users \cup {NoUser} :
         main = [at |-> "launching", last |-> u, connecting |-> FALSE, spirc |-> 0,
                 task |-> FALSE, times |-> 0, dead |-> FALSE]
    BY DEF Init
<1>3. main \in Mains
    BY <1>1, <1>2 DEF Awaits, Mains
<1>4. inst \in [Ids -> Inst]
    BY DEF Init, Inst, NoInst
<1>5. queue \in Seq(Users \cup {"error"}) /\ Len(queue) <= MaxQueue
    BY <1>1 DEF Init
<1>6. session \in [id: Nat, valid: BOOLEAN] /\ player \in [valid: BOOLEAN, loads: BOOLEAN, session: Nat]
    BY DEF Init
<1>7. /\ disc \in Discs
      /\ handler \in [events: 0..1, runs: BOOLEAN]
    BY DEF Init, Discs
<1> QED BY <1>3, <1>4, <1>5, <1>6, <1>7 DEF TypeOK

\* To enter select! changes main's await and its precondition only.
LEMMA SelectsIs ==
    ASSUME NEW m, m \in Mains, TypeOK
    PROVE  /\ Selects(m) \in Mains /\ Selects(m).at = "loop" /\ Selects(m).last = m.last
           /\ Selects(m).connecting = m.connecting /\ Selects(m).spirc = m.spirc
           /\ Selects(m).task = m.task
<1>0. player.valid \in BOOLEAN /\ "loop" \in Awaits
    BY DEF TypeOK, Awaits
<1>1. (~player.valid) \in BOOLEAN /\ "loop" \in Awaits
    BY <1>0, Zenon
<1> DEFINE m1 == [m EXCEPT !.at = "loop"]
           m2 == [m1 EXCEPT !.dead = ~player.valid]
<1>2. /\ m1 \in Mains /\ m1.at = "loop" /\ m1.last = m.last /\ m1.connecting = m.connecting
      /\ m1.spirc = m.spirc /\ m1.task = m.task
    BY <1>1 DEF Mains
<1> HIDE DEF m1
<1>3. /\ m2 \in Mains /\ m2.at = m1.at /\ m2.last = m1.last /\ m2.connecting = m1.connecting
      /\ m2.spirc = m1.spirc /\ m2.task = m1.task
    BY <1>1, <1>2 DEF Mains
<1>4. Selects(m) = m2
    BY DEF Selects, m1
<1> HIDE DEF m2
<1> QED BY <1>2, <1>3, <1>4

\* What main takes over from discovery, what Spirc::new leaves in its hands, and
\* how it goes on after its Spirc has ended.
Taken == [main EXCEPT !.last = Head(queue), !.times = 0, !.spirc = 0, !.task = FALSE,
                      !.connecting = TRUE]
Connected(i) == [main EXCEPT !.connecting = FALSE, !.spirc = i, !.task = TRUE]
Reconnects == [main EXCEPT !.task = FALSE, !.times = @ + 1, !.connecting = TRUE]

\* The credentials that came and no Spirc.
LEMMA TakenIs ==
    ASSUME TypeOK, Head(queue) \in Users
    PROVE  /\ Taken \in Mains /\ Taken.task = FALSE /\ Taken.last = Head(queue)
           /\ Taken.connecting = TRUE
<1>0. main \in Mains /\ 0 \in 0..MaxSpircs /\ 0 \in 0..(RateLimit + 2)
    BY MainAssumption DEF TypeOK
<1> DEFINE m1 == [main EXCEPT !.last = Head(queue)]
           m2 == [m1 EXCEPT !.times = 0]
           m3 == [m2 EXCEPT !.spirc = 0]
           m4 == [m3 EXCEPT !.task = FALSE]
           m5 == [m4 EXCEPT !.connecting = TRUE]
<1>1. m1 \in Mains /\ m1.last = Head(queue)
    BY <1>0 DEF Mains
<1> HIDE DEF m1
<1>2. m2 \in Mains /\ m2.last = Head(queue)
    BY <1>0, <1>1 DEF Mains
<1> HIDE DEF m2
<1>3. m3 \in Mains /\ m3.last = Head(queue)
    BY <1>0, <1>2 DEF Mains
<1> HIDE DEF m3
<1>4. m4 \in Mains /\ m4.last = Head(queue) /\ m4.task = FALSE
    BY <1>3 DEF Mains
<1> HIDE DEF m4
<1>5. m5 \in Mains /\ m5.last = Head(queue) /\ m5.task = FALSE /\ m5.connecting = TRUE
    BY <1>4 DEF Mains
<1>6. Taken = m5
    BY DEF Taken, m1, m2, m3, m4
<1> HIDE DEF m5
<1> QED BY <1>5, <1>6

\* The new Spirc in main's hands.
LEMMA ConnectedIs ==
    ASSUME TypeOK, NEW i \in 0..MaxSpircs
    PROVE  /\ Connected(i) \in Mains /\ Connected(i).task = TRUE /\ Connected(i).spirc = i
           /\ Connected(i).connecting = FALSE /\ Connected(i).last = main.last
<1>0. main \in Mains
    BY DEF TypeOK
<1> DEFINE m1 == [main EXCEPT !.connecting = FALSE]
           m2 == [m1 EXCEPT !.spirc = i]
           m3 == [m2 EXCEPT !.task = TRUE]
<1>1. m1 \in Mains /\ m1.connecting = FALSE /\ m1.last = main.last
    BY <1>0 DEF Mains
<1> HIDE DEF m1
<1>2. m2 \in Mains /\ m2.connecting = FALSE /\ m2.last = main.last /\ m2.spirc = i
    BY <1>1 DEF Mains
<1> HIDE DEF m2
<1>3. /\ m3 \in Mains /\ m3.connecting = FALSE /\ m3.last = main.last /\ m3.spirc = i
      /\ m3.task = TRUE
    BY <1>2 DEF Mains
<1>4. Connected(i) = m3
    BY DEF Connected, m1, m2
<1> HIDE DEF m3
<1> QED BY <1>3, <1>4

\* No Spirc, and one more time in the window.
LEMMA ReconnectsIs ==
    ASSUME TypeOK, ~ExceedsLimit
    PROVE  /\ Reconnects \in Mains /\ Reconnects.task = FALSE
           /\ Reconnects.last = main.last
<1>0. main \in Mains /\ RateLimit \in Nat
    BY MainAssumption DEF TypeOK
<1>1. main.times + 1 \in 0..(RateLimit + 2)
    BY <1>0 DEF ExceedsLimit, Mains
<1> DEFINE m1 == [main EXCEPT !.task = FALSE]
           m2 == [m1 EXCEPT !.times = main.times + 1]
           m3 == [m2 EXCEPT !.connecting = TRUE]
<1>2. m1 \in Mains /\ m1.task = FALSE /\ m1.last = main.last
    BY <1>0 DEF Mains
<1> HIDE DEF m1
<1>3. m2 \in Mains /\ m2.task = FALSE /\ m2.last = main.last
    BY <1>1, <1>2 DEF Mains
<1> HIDE DEF m2
<1>4. m3 \in Mains /\ m3.task = FALSE /\ m3.last = main.last
    BY <1>3 DEF Mains
<1>5. Reconnects = m3
    BY DEF Reconnects, m1, m2
<1> HIDE DEF m3
<1> QED BY <1>4, <1>5

\* The two ways from the launch of discovery into the loop, or the end.
LEMMA EnterIs ==
    ASSUME TypeOK, NEW on \in BOOLEAN, Enter(on)
    PROVE  /\ main' \in Mains /\ main'.at \in {"loop", "failed"}
           /\ main'.task = main.task /\ main'.spirc = main.spirc /\ main'.last = main.last
<1>0. main \in Mains /\ "failed" \in Awaits
    BY DEF TypeOK, Awaits
<1>1. CASE main.last # NoUser
  <2> DEFINE m == [main EXCEPT !.connecting = TRUE]
  <2>1. m \in Mains /\ m.task = main.task /\ m.spirc = main.spirc /\ m.last = main.last
    BY <1>0 DEF Mains
  <2>2. main' = Selects(m)
    BY <1>1 DEF Enter
  <2> HIDE DEF m
  <2> QED BY <2>1, <2>2, SelectsIs
<1>2. CASE main.last = NoUser /\ on
  <2>1. main' = Selects(main)
    BY <1>2 DEF Enter
  <2> QED BY <1>0, <2>1, SelectsIs
<1>3. CASE main.last = NoUser /\ ~on
  <2>1. main' = [main EXCEPT !.at = "failed"]
    BY <1>3 DEF Enter, Exit
  <2> QED BY <1>0, <2>1 DEF Mains
<1> QED BY <1>1, <1>2, <1>3

\* The Spirc that is being connected is one more.
LEMMA NextIsId == Connecting /\ main.at = "dialing" => Cardinality(Made) + 1 \in Ids
<1>1. MaxSpircs \in Nat
    BY MainAssumption
<1>2. IsFiniteSet(Ids)
    BY <1>1, FS_Interval DEF Ids
<1>3. Cardinality(Made) \in Nat
    BY <1>2, FS_Subset, FS_CardinalityType DEF Made
<1> QED BY <1>1, <1>3 DEF Connecting, Ids

\* Telling one instance to shut down changes nothing but its own mark.
LEMMA ToldType ==
    ASSUME TypeOK, NEW i \in 0..MaxSpircs
    PROVE  /\ Tell(inst, i) \in [Ids -> Inst]
           /\ \A j \in Ids : /\ Tell(inst, i)[j].state = inst[j].state
                             /\ Tell(inst, i)[j].user = inst[j].user
                             /\ Tell(inst, i)[j].session = inst[j].session
                             /\ (~Tell(inst, i)[j].told => ~inst[j].told /\ i # j)
<1>0. inst \in [Ids -> Inst] /\ 0 \notin Ids /\ (i # 0 => i \in Ids)
    BY MainAssumption DEF Ids, TypeOK
<1>1. CASE i = 0
    BY <1>0, <1>1 DEF Tell, Inst
<1>2. CASE i # 0
  <2> DEFINE q == [inst[i] EXCEPT !.told = TRUE]
  <2>1. inst[i] \in Inst
    BY <1>0, <1>2
  <2>2. q \in Inst
    BY <2>1 DEF Inst
  <2>3. q.state = inst[i].state /\ q.user = inst[i].user /\ q.session = inst[i].session
    BY <2>1 DEF Inst
  <2>4. q.told
    BY <2>1 DEF Inst
  <2>5. Tell(inst, i) = [inst EXCEPT ![i] = q]
    BY <1>2 DEF Tell
  <2>6. \A j \in Ids : inst[j].told \in BOOLEAN
    BY <1>0 DEF Inst
  <2> HIDE DEF q
  <2>7. \A j \in Ids : Tell(inst, i)[j] = IF i = j THEN q ELSE inst[j]
    BY <1>0, <2>5
  <2>8. Tell(inst, i) \in [Ids -> Inst]
    BY <1>0, <2>2, <2>5
  <2>9. ASSUME NEW j \in Ids
        PROVE  /\ Tell(inst, i)[j].state = inst[j].state
               /\ Tell(inst, i)[j].user = inst[j].user
               /\ Tell(inst, i)[j].session = inst[j].session
               /\ (~Tell(inst, i)[j].told => ~inst[j].told /\ i # j)
    <3>1. CASE i = j
      BY <2>3, <2>4, <2>7, <3>1
    <3>2. CASE i # j
      BY <2>7, <3>2, <2>6
    <3> QED BY <3>1, <3>2
  <2> QED BY <2>8, <2>9
<1> QED BY <1>1, <1>2

\* The steps of main, which change it.
LEMMA MainTypes ==
    ASSUME TypeOK, Connecting,
           \/ Launch \/ Discovered \/ Dial \/ Dialed \/ DialFails \/ SpircEnded
           \/ PlayerInvalid \/ CtrlC \/ CtrlCAgain \/ JoinAll \/ Dropped \/ WindowPasses
    PROVE  main' \in Mains
<1> USE DEF Mains, Awaits
<1>0. /\ main \in Mains /\ MaxSpircs \in Nat /\ RateLimit \in Nat
      /\ queue \in Seq(Users \cup {"error"})
    BY MainAssumption DEF TypeOK
<1>1. \A a \in Awaits : [main EXCEPT !.at = a] \in Mains
    BY <1>0
<1>2. CASE Launch
  <2>1. Enter(TRUE) \/ Enter(FALSE)
    BY <1>2 DEF Launch
  <2> QED BY <2>1, EnterIs
<1>3. CASE Discovered
  <2>1. CASE Head(queue) = "error"
    <3>1. main' = [main EXCEPT !.at = "failed"]
      BY <1>3, <2>1 DEF Discovered, Exit
    <3> QED BY <1>1, <3>1
  <2>2. CASE Head(queue) # "error"
    <3>1. Head(queue) \in Users
      BY <1>0, <1>3, <2>2 DEF Discovered
    <3>2. main' = Selects(Taken)
      BY <1>3, <2>2 DEF Discovered, Taken
    <3> QED BY <3>1, <3>2, TakenIs, SelectsIs
  <2> QED BY <2>1, <2>2
<1>4. CASE Dial
    BY <1>1, <1>4 DEF Dial
<1>5. CASE Dialed
  <2> DEFINE i == Cardinality(Made) + 1
  <2>1. i \in 0..MaxSpircs
    BY <1>0, <1>5, NextIsId DEF Ids, Dialed
  <2>2. main' = Selects(Connected(i))
    BY <1>5 DEF Dialed, Connected
  <2> HIDE DEF i
  <2> QED BY <2>1, <2>2, ConnectedIs, SelectsIs
<1>6. CASE SpircEnded
  <2>1. CASE main.last # NoUser /\ ~ExceedsLimit
    <3>1. main' = Selects(Reconnects)
      BY <1>6, <2>1 DEF SpircEnded, EndedMain, Reconnects
    <3> QED BY <2>1, <3>1, ReconnectsIs, SelectsIs
  <2>2. CASE ~(main.last # NoUser /\ ~ExceedsLimit)
    BY <1>1, <1>6, <2>2 DEF SpircEnded, Exit
  <2> QED BY <2>1, <2>2
<1>7. CASE DialFails \/ PlayerInvalid \/ CtrlC \/ CtrlCAgain \/ JoinAll \/ Dropped
    BY <1>1, <1>7 DEF DialFails, PlayerInvalid, CtrlC, CtrlCAgain, JoinAll, Leave, Dropped, Exit
<1>8. CASE WindowPasses
  <2>1. main.times - 1 \in 0..(RateLimit + 2)
    BY <1>0, <1>8 DEF WindowPasses
  <2> QED BY <1>0, <1>8, <2>1 DEF WindowPasses
<1> QED BY <1>2, <1>3, <1>4, <1>5, <1>6, <1>7, <1>8

\* What Spirc::new leaves: a Spirc that runs, in main's hands.
LEMMA DialedInst ==
    ASSUME TypeOK, Connecting, Dialed, NEW i, i = Cardinality(Made) + 1
    PROVE  /\ i \in Ids /\ inst' \in [Ids -> Inst]
           /\ inst'[i].user = main.last /\ inst'[i].session = session.id
           /\ \A j \in Ids \ {i} : inst'[j] = inst[j]
           /\ main'.spirc = i /\ main'.task /\ ~main'.connecting /\ main'.at = "loop"
           /\ main'.last = main.last
<1>0. /\ main \in Mains /\ inst \in [Ids -> Inst] /\ session.id \in Nat
      /\ main.last \in Users \cup {NoUser}
    BY DEF Mains, TypeOK
<1>1. i \in Ids
    BY NextIsId DEF Dialed
<1> DEFINE q == [state |-> "run", told |-> FALSE, user |-> main.last, session |-> session.id]
<1>2. q \in Inst /\ q.user = main.last /\ q.session = session.id
    BY <1>0 DEF Inst
<1>3. inst' = [inst EXCEPT ![i] = q]
    BY DEF Dialed
<1> HIDE DEF q
<1>4. /\ inst' \in [Ids -> Inst] /\ inst'[i] = q
      /\ \A j \in Ids \ {i} : inst'[j] = inst[j]
    BY <1>0, <1>1, <1>2, <1>3
<1>5. main' = Selects(Connected(i))
    BY DEF Dialed, Connected
<1>6. /\ main'.spirc = i /\ main'.at = "loop" /\ main'.last = main.last
      /\ main'.task = TRUE /\ main'.connecting = FALSE
  <2>1. i \in 0..MaxSpircs
    BY <1>1, MainAssumption DEF Ids
  <2> QED BY <1>5, <2>1, ConnectedIs, SelectsIs
<1> QED BY <1>1, <1>2, <1>4, <1>6

\* A Spirc that ends keeps the rest of what it was.
LEMMA EndedInst ==
    ASSUME TypeOK, NEW i \in Ids, SpircEnds(i)
    PROVE  /\ inst' \in [Ids -> Inst] /\ inst[i].state = "run" /\ inst'[i].state = "ended"
           /\ inst'[i].user = inst[i].user /\ inst'[i].session = inst[i].session
           /\ inst'[i].told = inst[i].told
           /\ \A j \in Ids \ {i} : inst'[j] = inst[j]
<1>0. inst \in [Ids -> Inst] /\ inst[i] \in Inst
    BY DEF TypeOK
<1> DEFINE q == [inst[i] EXCEPT !.state = "ended"]
<1>1. q \in Inst /\ q.state = "ended"
    BY <1>0 DEF Inst
<1>2. q.user = inst[i].user /\ q.session = inst[i].session
    BY <1>0 DEF Inst
<1>3. q.told = inst[i].told
    BY <1>0 DEF Inst
<1>4. inst' = [inst EXCEPT ![i] = q] /\ inst[i].state = "run"
    BY DEF SpircEnds, Running
<1> HIDE DEF q
<1> QED BY <1>0, <1>1, <1>2, <1>3, <1>4

\* Every step keeps the types, as long as main connects for no Spirc beyond the
\* bound.
LEMMA TypeStep == TypeOK /\ Connecting /\ [Next]_vars => TypeOK'
<1> SUFFICES ASSUME TypeOK, Connecting, [Next]_vars PROVE TypeOK'
    OBVIOUS
<1>0. /\ main \in Mains /\ session \in [id: Nat, valid: BOOLEAN] /\ inst \in [Ids -> Inst]
      /\ player \in [valid: BOOLEAN, loads: BOOLEAN, session: Nat]
      /\ queue \in Seq(Users \cup {"error"}) /\ Len(queue) <= MaxQueue
      /\ disc \in Discs /\ handler \in [events: 0..1, runs: BOOLEAN]
    BY DEF TypeOK
<1>1. Shutdown(session) \in [id: Nat, valid: BOOLEAN]
    BY <1>0 DEF Shutdown
<1>2. main.spirc \in 0..MaxSpircs
    BY <1>0 DEF Mains
<1>3. CASE Launch
  <2>1. disc' \in Discs
    <3> DEFINE d == [disc EXCEPT !.server = "run"]
    <3>1. d \in Discs
      BY <1>0 DEF Discs
    <3>2. [d EXCEPT !.zero = "waiting"] \in Discs
      BY <3>1 DEF Discs
    <3>3. disc' = [d EXCEPT !.zero = "waiting"] \/ disc' = disc
      BY <1>3 DEF Launch, Launched
    <3> QED BY <1>0, <3>2, <3>3
  <2> QED BY <1>0, <1>3, <2>1, MainTypes DEF Launch, Launched, TypeOK
<1>4. CASE Discovered
  <2>1. queue' \in Seq(Users \cup {"error"}) /\ Len(queue') <= MaxQueue
    BY <1>0, <1>4, MainAssumption DEF Discovered
  <2>2. inst' \in [Ids -> Inst]
    BY <1>0, <1>2, <1>4, ToldType DEF Discovered, TakeOver
  <2>3. session' \in [id: Nat, valid: BOOLEAN]
    BY <1>0, <1>1, <1>4 DEF Discovered
  <2>4. main' \in Mains
    BY <1>4, MainTypes
  <2> QED BY <1>0, <1>4, <2>1, <2>2, <2>3, <2>4 DEF Discovered, TypeOK
<1>5. CASE Dial
  <2>1. DialSession \in [id: Nat, valid: BOOLEAN] /\ DialSession.id \in Nat
    BY <1>0 DEF DialSession
  <2>2. session' = DialSession /\ player' = [player EXCEPT !.session = DialSession.id]
    BY <1>5 DEF Dial
  <2>3. player' \in [valid: BOOLEAN, loads: BOOLEAN, session: Nat]
    BY <1>0, <2>1, <2>2
  <2> QED BY <1>0, <1>5, <2>1, <2>2, <2>3, MainTypes DEF Dial, TypeOK
<1>6. CASE Dialed
    BY <1>0, <1>6, DialedInst, MainTypes DEF Dialed, TypeOK
<1>7. CASE SpircEnded
  <2>1. session' \in [id: Nat, valid: BOOLEAN]
    BY <1>0, <1>1, <1>7 DEF SpircEnded
  <2> QED BY <1>0, <1>7, <2>1, MainTypes DEF SpircEnded, TypeOK
<1>8. CASE CtrlC
    BY <1>0, <1>2, <1>8, ToldType, MainTypes DEF CtrlC, TypeOK
<1>9. CASE DialFails \/ PlayerInvalid \/ CtrlCAgain \/ JoinAll \/ Dropped \/ WindowPasses
  <2>1. UNCHANGED <<session, inst, player, queue, disc, handler>>
    BY <1>9 DEF DialFails, PlayerInvalid, CtrlCAgain, JoinAll, Leave, Dropped, WindowPasses
  <2> QED BY <1>0, <1>9, <2>1, MainTypes DEF TypeOK
<1>10. ASSUME NEW u \in Users, AddUser(u) PROVE TypeOK'
  <2>1. queue' \in Seq(Users \cup {"error"}) /\ Len(queue') <= MaxQueue
    BY <1>0, <1>10, MainAssumption DEF AddUser
  <2>2. disc' \in Discs
    BY <1>0, <1>10 DEF AddUser, Discs
  <2> QED BY <1>0, <1>10, <2>1, <2>2 DEF AddUser, TypeOK
<1>11. CASE ZeroconfFails
  <2>1. queue' \in Seq(Users \cup {"error"}) /\ Len(queue') <= MaxQueue
    BY <1>0, <1>11, MainAssumption DEF ZeroconfFails
  <2>2. disc' \in Discs
    BY <1>0, <1>11 DEF ZeroconfFails, Discs
  <2> QED BY <1>0, <1>11, <2>1, <2>2 DEF ZeroconfFails, TypeOK
<1>12. CASE Publish \/ AvahiDisappears \/ ServerStops \/ ZeroconfStops
  <2>1. disc' \in Discs
    BY <1>0, <1>12 DEF Publish, AvahiDisappears, ServerStops, ZeroconfStops, Discs
  <2> QED BY <1>0, <1>12, <2>1 DEF Publish, AvahiDisappears, ServerStops, ZeroconfStops, TypeOK
<1>13. ASSUME NEW i \in Ids, SpircEnds(i) PROVE TypeOK'
    BY <1>0, <1>13, EndedInst DEF SpircEnds, TypeOK
<1>14. CASE SessionLost
    BY <1>0, <1>1, <1>14 DEF SessionLost, TypeOK
<1>15. CASE PlayerDies \/ LoadBegins \/ LoadEnds
  <2>1. player' \in [valid: BOOLEAN, loads: BOOLEAN, session: Nat]
    <3>1. CASE PlayerDies
      <4> DEFINE p == [player EXCEPT !.valid = FALSE]
      <4>1. p \in [valid: BOOLEAN, loads: BOOLEAN, session: Nat]
        BY <1>0
      <4>2. player' = [p EXCEPT !.loads = FALSE]
        BY <3>1 DEF PlayerDies
      <4> HIDE DEF p
      <4> QED BY <4>1, <4>2
    <3>2. CASE LoadBegins \/ LoadEnds
      BY <1>0, <3>2 DEF LoadBegins, LoadEnds
    <3> QED BY <1>15, <3>1, <3>2
  <2> QED BY <1>0, <1>15, <2>1 DEF PlayerDies, LoadBegins, LoadEnds, TypeOK
<1>16. CASE PlayerEvent \/ RunProgram \/ ProgramEnds
  <2>1. handler' \in [events: 0..1, runs: BOOLEAN]
    <3>1. CASE PlayerEvent
      BY <1>0, <3>1 DEF PlayerEvent
    <3>2. CASE RunProgram
      BY <1>0, <3>2 DEF RunProgram
    <3>3. CASE ProgramEnds
      BY <1>0, <3>3 DEF ProgramEnds
    <3> QED BY <1>16, <3>1, <3>2, <3>3
  <2> QED BY <1>0, <1>16, <2>1 DEF PlayerEvent, RunProgram, ProgramEnds, TypeOK
<1>17. CASE UNCHANGED vars
    BY <1>0, <1>17 DEF vars, TypeOK
<1> QED BY <1>3, <1>4, <1>5, <1>6, <1>7, <1>8, <1>9, <1>10, <1>11, <1>12, <1>13, <1>14,
           <1>15, <1>16, <1>17 DEF Next

-----------------------------------------------------------------------------
Chosen == TypeOK /\ Connecting /\ OneSpirc /\ InCharge

\* The steps that leave main's variables but its await, the Spircs' identities
\* and their number as they are.
LEMMA MadeKept ==
    ASSUME \A i \in Ids : (inst'[i].state = "none") <=> (inst[i].state = "none")
    PROVE  Made' = Made
BY DEF Made

\* Who is in charge when a step keeps main and the session of the player.
LEMMA ChosenKept ==
    ASSUME Chosen,
           \/ main' = main
           \/ /\ main'.at \notin {"dialing", "launching"}
              /\ main'.task = main.task
              /\ main'.connecting = main.connecting
              /\ main'.spirc = main.spirc /\ main'.last = main.last,
           session'.id = session.id, player'.session = player.session,
           \A i \in Ids :
               /\ (inst'[i].state = "none") <=> (inst[i].state = "none")
               /\ inst'[i].state = "run" => inst[i].state = "run"
               /\ ~inst'[i].told => ~inst[i].told
               /\ inst'[i].user = inst[i].user /\ inst'[i].session = inst[i].session
    PROVE  Connecting' /\ OneSpirc' /\ InCharge'
<1>1. Made' = Made
    BY MadeKept
<1>2. Connecting'
    BY <1>1 DEF Chosen, Connecting
<1>3. OneSpirc'
    BY DEF Chosen, OneSpirc, Running
<1>4. InCharge'
    BY DEF Chosen, InCharge
<1> QED BY <1>2, <1>3, <1>4

\* Main has at most the one Spirc it holds, with its credentials and its session,
\* after every step.
LEMMA ChosenStep == Chosen /\ [Next]_vars => Connecting' /\ OneSpirc' /\ InCharge'
<1> SUFFICES ASSUME Chosen, [Next]_vars PROVE Connecting' /\ OneSpirc' /\ InCharge'
    OBVIOUS
<1>0. /\ TypeOK /\ main \in Mains /\ main.spirc \in 0..MaxSpircs /\ inst \in [Ids -> Inst]
      /\ session \in [id: Nat, valid: BOOLEAN] /\ player \in [valid: BOOLEAN, loads: BOOLEAN, session: Nat]
    BY DEF Chosen, TypeOK, Mains
<1>1. Shutdown(session).id = session.id
    BY <1>0 DEF Shutdown
<1>2. CASE Launch
  <2>1. UNCHANGED <<session, inst, player>> /\ main.at = "launching"
    BY <1>2 DEF Launch
  <2>2. Enter(TRUE) \/ Enter(FALSE)
    BY <1>2 DEF Launch
  <2>3. /\ main'.at \in {"loop", "failed"} /\ main'.task = main.task
        /\ main'.spirc = main.spirc /\ main'.last = main.last
    BY <1>0, <2>2, EnterIs
  <2> QED BY <2>1, <2>3 DEF Chosen, Connecting, OneSpirc, InCharge, Running
<1>3. CASE Discovered
  <2>1. CASE Head(queue) = "error"
    <3>1. /\ UNCHANGED <<session, inst, player>>
          /\ main'.at \notin {"dialing", "launching"} /\ main'.task = main.task /\ main'.spirc = main.spirc
          /\ main'.last = main.last /\ main'.connecting = main.connecting
      BY <1>0, <1>3, <2>1 DEF Discovered, Exit, Mains
    <3> QED BY <3>1, ChosenKept
  <2>2. CASE Head(queue) # "error"
    <3>1. main' = Selects(Taken) /\ Head(queue) \in Users
      BY <1>0, <1>3, <2>2 DEF Discovered, Taken, TypeOK
    <3>2. main.at = "loop" /\ inst' = Tell(inst, main.spirc)
      BY <1>3, <2>2 DEF Discovered, TakeOver
    <3>3. main'.at = "loop" /\ ~main'.task
      BY <1>0, <3>1, TakenIs, SelectsIs
    <3>4. OneSpirc'
      <4>1. \A j \in Ids : /\ inst'[j].state = inst[j].state
                           /\ ~inst'[j].told => ~inst[j].told /\ j # main.spirc
        BY <1>0, <3>2, ToldType
      <4>2. \A j \in Ids : inst[j].state = "run" /\ ~inst[j].told => j = main.spirc
        BY DEF Chosen, OneSpirc, Running
      <4>3. \A j \in Ids : ~(inst'[j].state = "run" /\ ~inst'[j].told)
        BY <4>1, <4>2
      <4> QED BY <4>3 DEF OneSpirc, Running
    <3> QED BY <3>3, <3>4 DEF Connecting, InCharge
  <2> QED BY <2>1, <2>2
<1>4. CASE Dial
  <2>1. /\ main.connecting /\ Cardinality(Made) < MaxSpircs
        /\ UNCHANGED inst /\ main' = [main EXCEPT !.at = "dialing"]
        /\ session' = DialSession /\ player' = [player EXCEPT !.session = DialSession.id]
    BY <1>4 DEF Dial
  <2>2. /\ main'.task = main.task /\ main'.connecting = main.connecting
        /\ main'.spirc = main.spirc /\ main'.last = main.last
    BY <1>0, <2>1 DEF Mains
  <2>3. session'.id = player'.session
    BY <1>0, <2>1
  <2>4. ~main.task
    BY <2>1 DEF Chosen, Connecting
  <2>5. Made' = Made
    BY <2>1 DEF Made
  <2> QED BY <2>1, <2>2, <2>3, <2>4, <2>5 DEF Chosen, Connecting, OneSpirc, InCharge, Running
<1>5. CASE Dialed
  <2> DEFINE i == Cardinality(Made) + 1
  <2>1. /\ i \in Ids /\ inst'[i].user = main.last /\ inst'[i].session = session.id
        /\ \A j \in Ids \ {i} : inst'[j] = inst[j]
        /\ main'.spirc = i /\ main'.task /\ ~main'.connecting /\ main'.at = "loop"
        /\ main'.last = main.last
    BY <1>0, <1>5, DialedInst DEF Chosen
  <2> HIDE DEF i
  <2>2. ~main.task /\ session.id = player.session /\ UNCHANGED player
    BY <1>5 DEF Dialed, Chosen, Connecting
  <2> QED BY <2>1, <2>2 DEF Chosen, Connecting, OneSpirc, InCharge, Running
<1>6. CASE SpircEnded
  <2>1. CASE main.last # NoUser /\ ~ExceedsLimit
    <3>1. main' = Selects(Reconnects)
      BY <1>6, <2>1 DEF SpircEnded, EndedMain, Reconnects
    <3>2. main.at = "loop" /\ main.task /\ ~Running(main.spirc) /\ UNCHANGED inst
      BY <1>6 DEF SpircEnded
    <3>3. main'.at = "loop" /\ ~main'.task
      BY <1>0, <2>1, <3>1, ReconnectsIs, SelectsIs
    <3>4. OneSpirc'
      BY <3>2 DEF Chosen, OneSpirc, Running
    <3> QED BY <3>3, <3>4 DEF Connecting, InCharge
  <2>2. CASE ~(main.last # NoUser /\ ~ExceedsLimit)
    <3>1. /\ UNCHANGED <<session, inst, player>>
          /\ main'.at \notin {"dialing", "launching"} /\ main'.task = main.task /\ main'.spirc = main.spirc
          /\ main'.last = main.last /\ main'.connecting = main.connecting
      BY <1>0, <1>6, <2>2 DEF SpircEnded, Exit, Mains
    <3> QED BY <3>1, ChosenKept
  <2> QED BY <2>1, <2>2
<1>7. CASE CtrlC
  <2>1. /\ UNCHANGED <<session, player>> /\ inst' = Tell(inst, main.spirc)
        /\ main'.at \notin {"dialing", "launching"} /\ main'.task = main.task /\ main'.spirc = main.spirc
        /\ main'.last = main.last /\ main'.connecting = main.connecting
    BY <1>0, <1>7 DEF CtrlC, Mains
  <2> QED BY <1>0, <2>1, ToldType, ChosenKept
<1>8. CASE DialFails \/ PlayerInvalid \/ CtrlCAgain \/ JoinAll \/ Dropped \/ WindowPasses
  <2>1. /\ UNCHANGED <<session, inst, player>>
        /\ main'.at \notin {"dialing", "launching"} /\ main'.task = main.task /\ main'.spirc = main.spirc
        /\ main'.last = main.last /\ main'.connecting = main.connecting
    BY <1>0, <1>8 DEF DialFails, PlayerInvalid, CtrlCAgain, JoinAll, Leave, Dropped, WindowPasses,
                      Exit, Mains
  <2> QED BY <2>1, ChosenKept
<1>9. ASSUME NEW i \in Ids, SpircEnds(i) PROVE Connecting' /\ OneSpirc' /\ InCharge'
  <2>1. UNCHANGED <<main, session, player>>
    BY <1>9 DEF SpircEnds
  <2>2. /\ inst[i].state = "run" /\ inst'[i].state = "ended"
        /\ inst'[i].user = inst[i].user /\ inst'[i].session = inst[i].session
        /\ inst'[i].told = inst[i].told
        /\ \A j \in Ids \ {i} : inst'[j] = inst[j]
    BY <1>0, <1>9, EndedInst
  <2> QED BY <2>1, <2>2, ChosenKept
<1>10. CASE SessionLost \/ PlayerDies \/ LoadBegins \/ LoadEnds
  <2>1. UNCHANGED <<main, inst>> /\ session'.id = session.id /\ player'.session = player.session
    BY <1>0, <1>1, <1>10 DEF SessionLost, PlayerDies, LoadBegins, LoadEnds
  <2> QED BY <2>1, ChosenKept
<1>11. CASE UNCHANGED <<main, session, inst, player>>
    BY <1>11, ChosenKept
<1>12. ASSUME NEW u \in Users, AddUser(u) PROVE Connecting' /\ OneSpirc' /\ InCharge'
    BY <1>11, <1>12 DEF AddUser
<1>13. CASE Publish \/ AvahiDisappears \/ ZeroconfFails \/ ServerStops \/ ZeroconfStops
            \/ PlayerEvent \/ RunProgram \/ ProgramEnds \/ UNCHANGED vars
    BY <1>11, <1>13 DEF Publish, AvahiDisappears, ZeroconfFails, ServerStops, ZeroconfStops,
                        PlayerEvent, RunProgram, ProgramEnds, vars
<1> QED BY <1>2, <1>3, <1>4, <1>5, <1>6, <1>7, <1>8, <1>9, <1>10, <1>12, <1>13 DEF Next

-----------------------------------------------------------------------------
\* One step per action that reads or writes discovery's channel.
LEMMA ChannelStep == TypeOK /\ Connecting /\ ChannelEnds /\ [Next]_vars => ChannelEnds'
<1> SUFFICES ASSUME TypeOK, Connecting, ChannelEnds, [Next]_vars PROVE ChannelEnds'
    OBVIOUS
<1>0. /\ main \in Mains /\ queue \in Seq(Users \cup {"error"}) /\ disc \in Discs
      /\ main.at \in Awaits
    BY DEF TypeOK, Mains
<1>1. CASE Launch
  <2>1. disc'.active = NoUser
    BY <1>0, <1>1 DEF Launch, Launched, ChannelEnds, Discs
  <2>2. main'.at # "launching"
    <3>1. Enter(TRUE) \/ Enter(FALSE)
      BY <1>1 DEF Launch
    <3> QED BY <3>1, EnterIs
  <2> QED BY <2>1, <2>2 DEF ChannelEnds
<1>2. CASE Discovered
  <2>1. CASE Head(queue) = "error"
    <3>1. main'.at = "failed"
      BY <1>0, <1>2, <2>1 DEF Discovered, Exit, Mains
    <3> QED BY <3>1 DEF ChannelEnds
  <2>2. CASE Head(queue) # "error"
    <3>1. main' = Selects(Taken) /\ Head(queue) \in Users
      BY <1>0, <1>2, <2>2 DEF Discovered, Taken
    <3>2. main.at = "loop" /\ queue # <<>> /\ queue' = Tail(queue) /\ UNCHANGED disc
      BY <1>2 DEF Discovered
    <3>3. main'.at = "loop"
      BY <3>1, TakenIs, SelectsIs
    <3>4. main'.last = Head(queue)
      BY <3>1, TakenIs, SelectsIs
    <3>5. ASSUME disc.active # NoUser, queue' = <<>> PROVE Head(queue) = disc.active
      <4>1. Len(queue) = 1
        <5>1. Len(Tail(queue)) = Len(queue) - 1 /\ Len(queue) \in Nat
          BY <1>0, <3>2
        <5>2. Tail(queue) = <<>>
          BY <3>2, <3>5
        <5>3. Len(<<>>) = 0
          OBVIOUS
        <5>4. Len(Tail(queue)) = 0
          BY <5>2, <5>3, Zenon
        <5> QED BY <5>1, <5>4
      <4>2. queue[Len(queue)] = Head(queue)
        BY <1>0, <3>2, <4>1
      <4> QED BY <2>2, <3>2, <3>5, <4>2 DEF ChannelEnds
    <3>6. ASSUME queue' # <<>> PROVE queue'[Len(queue')] = queue[Len(queue)]
      BY <1>0, <3>2, <3>6
    <3> QED BY <3>2, <3>3, <3>4, <3>5, <3>6 DEF ChannelEnds
  <2> QED BY <2>1, <2>2
<1>3. ASSUME NEW u \in Users, AddUser(u) PROVE ChannelEnds'
  <2>1. queue' = Append(queue, u) /\ UNCHANGED main /\ main.at # "launching"
    BY <1>3 DEF AddUser, Live
  <2>2. queue' # <<>> /\ queue'[Len(queue')] = u
    BY <1>0, <2>1
  <2>3. disc'.active = u
    BY <1>0, <1>3 DEF AddUser, Discs
  <2> QED BY <2>1, <2>2, <2>3 DEF ChannelEnds
<1>4. CASE ZeroconfFails
  <2>1. queue' = Append(queue, "error") /\ UNCHANGED main /\ main.at # "launching"
    BY <1>4 DEF ZeroconfFails, Live
  <2>2. queue' # <<>> /\ queue'[Len(queue')] = "error"
    BY <1>0, <2>1
  <2> QED BY <2>1, <2>2 DEF ChannelEnds
<1>5. ASSUME UNCHANGED queue, disc'.active = disc.active,
             \/ main' = main
             \/ main'.at \notin {"launching", "loop", "dialing"}
             \/ main.at \in {"loop", "dialing"} /\ main'.last = main.last
                /\ main'.at # "launching"
      PROVE  ChannelEnds'
    BY <1>5 DEF ChannelEnds
<1>6. CASE Dial \/ WindowPasses
  <2>1. UNCHANGED <<queue, disc>> /\ main.at \in {"loop", "dialing"}
    BY <1>6 DEF Dial, WindowPasses
  <2>2. main'.last = main.last /\ main'.at # "launching"
    BY <1>0, <1>6 DEF Dial, WindowPasses, Mains
  <2> QED BY <1>5, <2>1, <2>2
<1>11. CASE Dialed
  <2>1. UNCHANGED <<queue, disc>> /\ main.at = "dialing"
    BY <1>11 DEF Dialed
  <2>2. main'.last = main.last /\ main'.at = "loop"
    BY <1>11, DialedInst
  <2> QED BY <1>5, <2>1, <2>2
<1>12. CASE SpircEnded
  <2>1. UNCHANGED <<queue, disc>> /\ main.at = "loop"
    BY <1>12 DEF SpircEnded
  <2>2. CASE main.last # NoUser /\ ~ExceedsLimit
    <3>1. main' = Selects(Reconnects)
      BY <1>12, <2>2 DEF SpircEnded, EndedMain, Reconnects
    <3>2. main'.last = main.last /\ main'.at = "loop"
      BY <2>2, <3>1, ReconnectsIs, SelectsIs
    <3> QED BY <1>5, <2>1, <3>2
  <2>3. CASE ~(main.last # NoUser /\ ~ExceedsLimit)
    <3>1. main'.at = "failed"
      BY <1>0, <1>12, <2>3 DEF SpircEnded, Exit, Mains
    <3> QED BY <1>5, <2>1, <3>1
  <2> QED BY <2>2, <2>3
<1>7. CASE DialFails \/ PlayerInvalid \/ CtrlC \/ CtrlCAgain \/ JoinAll \/ Dropped
  <2>1. UNCHANGED <<queue, disc>> /\ main'.at \notin {"launching", "loop", "dialing"}
    BY <1>0, <1>7 DEF DialFails, PlayerInvalid, CtrlC, CtrlCAgain, JoinAll, Leave, Dropped, Exit, Mains
  <2> QED BY <1>5, <2>1
<1>8. CASE Publish \/ AvahiDisappears \/ ServerStops \/ ZeroconfStops
  <2>1. UNCHANGED <<queue, main>> /\ disc'.active = disc.active
    BY <1>0, <1>8 DEF Publish, AvahiDisappears, ServerStops, ZeroconfStops, Discs
  <2> QED BY <1>5, <2>1
<1>9. ASSUME NEW i \in Ids, SpircEnds(i) PROVE ChannelEnds'
    BY <1>5, <1>9 DEF SpircEnds
<1>10. CASE SessionLost \/ PlayerDies \/ LoadBegins \/ LoadEnds \/ PlayerEvent \/ RunProgram
            \/ ProgramEnds \/ UNCHANGED vars
    BY <1>5, <1>10 DEF SessionLost, PlayerDies, LoadBegins, LoadEnds, PlayerEvent, RunProgram,
                       ProgramEnds, vars
<1> QED BY <1>1, <1>2, <1>3, <1>4, <1>6, <1>7, <1>8, <1>9, <1>10, <1>11, <1>12 DEF Next

IInv == Chosen /\ ChannelEnds

\* The three facts of the induction hold in every behaviour of the main loop.
LEMMA Inductive == Spec => []IInv
<1>1. Init => IInv
  <2> SUFFICES ASSUME Init PROVE IInv
      OBVIOUS
  <2>1. main.at = "launching" /\ main.task = FALSE /\ main.connecting = FALSE
    BY DEF Init
  <2>2. \A i \in Ids : inst[i].state = "none"
    BY DEF Init, NoInst
  <2>3. disc.active = NoUser /\ queue = <<>>
    BY DEF Init
  <2> QED BY <2>1, <2>2, <2>3, TypeInit
          DEF IInv, Chosen, Connecting, OneSpirc, Running, InCharge, ChannelEnds
<1>2. IInv /\ [Next]_vars => IInv'
    BY TypeStep, ChosenStep, ChannelStep DEF IInv, Chosen
<1> QED BY <1>1, <1>2, PTL DEF Spec

\* Every variable keeps its type.
THEOREM TypeCorrect == Spec => []TypeOK
<1>1. IInv => TypeOK
    BY DEF IInv, Chosen
<1> QED BY <1>1, Inductive, PTL

\* However often main takes over new credentials or reconnects, at most one of
\* the Spircs that run has not been told to shut down, and main holds it.
THEOREM OneInCharge == Spec => []OneSpirc
<1>1. IInv => OneSpirc
    BY DEF IInv, Chosen
<1> QED BY <1>1, Inductive, PTL

\* Once the channel is empty main uses the credentials of the active user, and
\* so does the Spirc it holds, with the player's session.
THEOREM LastUserCorrect == Spec => []LastUserWins
<1>1. IInv => LastUserWins
    BY DEF IInv, Chosen, InCharge, ChannelEnds, LastUserWins
<1> QED BY <1>1, Inductive, PTL

-----------------------------------------------------------------------------
(* Sets of ranges.                                                             *)

\* A set of numbers that is not empty has a least element.
LEMMA LeastNumber ==
    ASSUME NEW T, T \subseteq Nat, T # {}
    PROVE  \E x \in T: \A y \in T: x <= y
<1>1. \E x \in T: \A y \in T: ~(<<y, x>> \in OpToRel(<, Nat))
  BY NatLessThanWellFounded, WFMin
<1>2. PICK x \in T: \A y \in T: ~(<<y, x>> \in OpToRel(<, Nat))
  BY <1>1
<1>3. ASSUME NEW y \in T PROVE x <= y
  <2>1. ~(y < x)
    BY <1>2, x \in Nat, y \in Nat DEF OpToRel
  <2> QED
    BY <2>1, x \in Nat, y \in Nat
<1> QED
  BY <1>3

\* Induction over the natural numbers, for a set of them.
LEMMA AllNumbers ==
    ASSUME NEW T, 0 \in T, \A n \in Nat: n \in T => n + 1 \in T
    PROVE  Nat \subseteq T
<1> SUFFICES ASSUME Nat \ T # {} PROVE FALSE
  OBVIOUS
<1>1. PICK x \in Nat \ T: \A y \in Nat \ T: x <= y
  BY LeastNumber
<1>2. x # 0 /\ x - 1 \in Nat /\ x - 1 \in T
  BY <1>1
<1> QED
  BY <1>1, <1>2

\* What a loop computes from x: after its turn i, step i of what it had before.
Loops(S, x, n, step) ==
    \E f \in [0..n -> S]: f[0] = x /\ \A i \in 1..n: f[i] = step[i][f[i - 1]]

\* A function that starts with a value and goes on by steps exists on every
\* interval of indices.
LEMMA Iterated ==
    ASSUME NEW S, NEW x \in S, NEW n \in Nat, NEW step \in [1..n -> [S -> S]]
    PROVE  Loops(S, x, n, step)
<1> DEFINE Is(f, m) == f \in [0..m -> S] /\ f[0] = x /\ \A i \in 1..m: f[i] = step[i][f[i - 1]]
           T == {m \in Nat: m <= n => \E f: Is(f, m)}
<1>1. 0 \in T
  <2>1. Is([i \in 0..0 |-> x], 0)
    OBVIOUS
  <2> QED
    BY <2>1
<1>2. ASSUME NEW m \in Nat, m \in T PROVE m + 1 \in T
  <2> SUFFICES ASSUME m + 1 <= n PROVE \E f: Is(f, m + 1)
    OBVIOUS
  <2>1. PICK f: Is(f, m)
    BY <1>2
  <2> DEFINE g == [i \in 0..(m + 1) |-> IF i = m + 1 THEN step[m + 1][f[m]] ELSE f[i]]
  <2>2. g \in [0..(m + 1) -> S]
    <3>1. f[m] \in S /\ step[m + 1] \in [S -> S]
      BY <2>1
    <3>2. step[m + 1][f[m]] \in S
      BY <3>1
    <3>3. \A i \in 0..(m + 1): i # m + 1 => f[i] \in S
      BY <2>1
    <3> QED
      BY <3>2, <3>3
  <2>3. g[0] = x
    BY <2>1
  <2>4. ASSUME NEW i \in 1..(m + 1) PROVE g[i] = step[i][g[i - 1]]
    <3>1. CASE i = m + 1
      <4>1. g[i - 1] = f[m] /\ g[i] = step[m + 1][f[m]]
        BY <3>1, m \in 0..(m + 1), m + 1 \in 0..(m + 1)
      <4> QED
        BY <4>1, <3>1
    <3>2. CASE i # m + 1
      <4>1. i \in 1..m /\ g[i - 1] = f[i - 1] /\ g[i] = f[i]
        BY <3>2
      <4> QED
        BY <4>1, <2>1
    <3> QED
      BY <3>1, <3>2
  <2>5. Is(g, m + 1)
    BY <2>2, <2>3, <2>4
  <2> HIDE DEF g, Is
  <2> QED
    BY <2>5
<1>3. Nat \subseteq T
  <2> HIDE DEF T
  <2> QED
    BY <1>1, <1>2, AllNumbers
<1> QED
  BY <1>3 DEF Loops

RangeType == [start: Nat, length: Nat]
Lists == {rs \in Seq(RangeType): Canonical(rs)}

\* The first of a set of indices is the least of them.
LEMMA FirstIs ==
    ASSUME NEW n \in Nat, NEW T \in SUBSET (1..n)
    PROVE  /\ First(T, n) \in T \cup {n + 1}
           /\ First(T, n) \in 1..(n + 1)
           /\ \A k \in T: First(T, n) <= k
<1> DEFINE U == T \cup {n + 1}
<1>1. U \subseteq Nat /\ U # {}
  OBVIOUS
<1>2. \E x \in U: \A y \in U: x <= y
  <2> HIDE DEF U
  <2> QED
    BY <1>1, LeastNumber
<1>3. First(T, n) \in U /\ \A y \in U: First(T, n) <= y
  BY <1>2 DEF First, Min
<1> DEFINE f == First(T, n)
<1> HIDE DEF f
<1>4. f \in U /\ \A y \in U: f <= y
  BY <1>3 DEF f
<1>5. f \in T \cup {n + 1} /\ f \in 1..(n + 1) /\ \A k \in T: f <= k
  BY <1>4
<1> QED
  BY <1>5 DEF f

\* A number of a set that none exceeds is its maximum.
LEMMA MaxIs ==
    ASSUME NEW T \in SUBSET Nat, NEW x \in T, \A y \in T: y <= x
    PROVE  Max(T) = x
<1>1. Max(T) \in T /\ \A y \in T: Max(T) >= y
  BY DEF Max
<1> DEFINE m == Max(T)
<1> HIDE DEF m
<1>2. m \in T /\ \A y \in T: m >= y
  BY <1>1 DEF m
<1>3. m = x
  BY <1>2
<1> QED
  BY <1>3 DEF m

\* A number of a set that exceeds none is its minimum.
LEMMA MinIs ==
    ASSUME NEW T \in SUBSET Nat, NEW x \in T, \A y \in T: x <= y
    PROVE  Min(T) = x
<1>1. Min(T) \in T /\ \A y \in T: Min(T) <= y
  BY DEF Min
<1> DEFINE m == Min(T)
<1> HIDE DEF m
<1>2. m \in T /\ \A y \in T: m <= y
  BY <1>1 DEF m
<1>3. m = x
  BY <1>2
<1> QED
  BY <1>3 DEF m

\* The elements of a list of ranges.
LEMMA ListElements ==
    ASSUME NEW rs \in Lists
    PROVE  /\ Len(rs) \in Nat /\ DOMAIN rs = 1..Len(rs)
           /\ \A i \in DOMAIN rs: /\ rs[i] \in RangeType
                                  /\ rs[i].start \in Nat /\ rs[i].length \in Nat
                                  /\ rs[i].length > 0 /\ End(rs[i]) \in Nat
                                  /\ rs[i].start < End(rs[i])
<1>1. rs \in Seq(RangeType) /\ Canonical(rs)
  BY DEF Lists
<1>2. Len(rs) \in Nat /\ DOMAIN rs = 1..Len(rs) /\ \A i \in DOMAIN rs: rs[i] \in RangeType
  BY <1>1
<1>3. ASSUME NEW i \in DOMAIN rs
      PROVE  /\ rs[i].start \in Nat /\ rs[i].length \in Nat
             /\ rs[i].length > 0 /\ End(rs[i]) \in Nat
             /\ rs[i].start < End(rs[i])
  <2>1. rs[i].start \in Nat /\ rs[i].length \in Nat
    BY <1>2 DEF RangeType
  <2>2. rs[i].length > 0
    BY <1>1 DEF Canonical
  <2> QED
    BY <2>1, <2>2 DEF End
<1> QED
  BY <1>2, <1>3

\* The ranges of a canonical list follow each other with gaps between them.
LEMMA Ordered ==
    ASSUME NEW rs \in Lists, NEW i \in DOMAIN rs, NEW j \in DOMAIN rs, i < j
    PROVE  End(rs[i]) < rs[j].start
<1> DEFINE T == {n \in Nat: n \in DOMAIN rs /\ i < n => End(rs[i]) < rs[n].start}
<1>1. 0 \in T
  BY ListElements
<1>2. ASSUME NEW n \in Nat, n \in T PROVE n + 1 \in T
  <2> SUFFICES ASSUME n + 1 \in DOMAIN rs, i < n + 1
               PROVE  End(rs[i]) < rs[n + 1].start
    OBVIOUS
  <2>1. n \in 1..(Len(rs) - 1) /\ n \in DOMAIN rs /\ i \in Nat
    BY ListElements
  <2>2. End(rs[n]) < rs[n + 1].start
    BY <2>1 DEF Lists, Canonical
  <2>3. CASE i = n
    BY <2>2, <2>3
  <2>4. CASE i < n
    <3>1. End(rs[i]) < rs[n].start
      BY <2>1, <2>4, <1>2
    <3> QED
      BY <2>1, <2>2, <3>1, ListElements
  <2> QED
    BY <2>1, <2>3, <2>4
<1> HIDE DEF T
<1>3. Nat \subseteq T
  BY <1>1, <1>2, AllNumbers
<1>4. j \in T
  BY <1>3, ListElements
<1> QED
  BY <1>4 DEF T

\* What a list covers, range by range.
LEMMA CoveredIs ==
    ASSUME NEW rs \in Lists
    PROVE  /\ Covered(rs) \subseteq Nat
           /\ \A v \in Nat: v \in Covered(rs) <=> \E k \in DOMAIN rs: rs[k].start <= v /\ v < End(rs[k])
<1>1. \A k \in DOMAIN rs: Positions(rs[k]) = {v \in Nat: rs[k].start <= v /\ v < End(rs[k])}
  BY ListElements DEF Positions
<1> QED
  BY <1>1 DEF Covered

\* A part of a sequence.
LEMMA PartOf ==
    ASSUME NEW S, NEW s \in Seq(S), NEW i \in Nat \ {0}, NEW j \in Nat, i <= j + 1, j <= Len(s)
    PROVE  /\ SubSeq(s, i, j) \in Seq(S) /\ Len(SubSeq(s, i, j)) = j - i + 1
           /\ DOMAIN SubSeq(s, i, j) = 1..(j - i + 1)
           /\ \A k \in 1..(j - i + 1): SubSeq(s, i, j)[k] = s[i + k - 1]
OBVIOUS

\* A sequence whose elements from i to j - 1 are replaced by one.
Splice(s, i, j, x) == SubSeq(s, 1, i - 1) \o <<x>> \o SubSeq(s, j, Len(s))

\* What such a sequence is, element by element.
Spliced(t, s, i, j, x) ==
    /\ Len(t) = i + Len(s) - j + 1 /\ DOMAIN t = 1..(i + Len(s) - j + 1)
    /\ \A k \in 1..(i - 1): t[k] = s[k]
    /\ t[i] = x
    /\ \A k \in (i + 1)..(i + Len(s) - j + 1): t[k] = s[k + j - i - 1]

\* What a replaced part leaves: the elements before it, the one for it, those behind it.
LEMMA SpliceIs ==
    ASSUME NEW S, NEW s \in Seq(S), NEW i \in 1..(Len(s) + 1), NEW j \in i..(Len(s) + 1), NEW x \in S
    PROVE  Splice(s, i, j, x) \in Seq(S) /\ Spliced(Splice(s, i, j, x), s, i, j, x)
<1> DEFINE a == SubSeq(s, 1, i - 1)
           b == SubSeq(s, j, Len(s))
           c == a \o <<x>>
           n == Len(s)
<1>n. n \in Nat /\ i \in Nat /\ j \in Nat /\ 1 <= i /\ i <= j /\ j <= n + 1
  OBVIOUS
<1>1. a \in Seq(S) /\ Len(a) = i - 1 /\ \A k \in 1..(i - 1): a[k] = s[k]
  OBVIOUS
<1>2. b \in Seq(S) /\ Len(b) = n - j + 1 /\ \A k \in 1..(n - j + 1): b[k] = s[k + j - 1]
  OBVIOUS
<1> HIDE DEF a, b
<1>3. c \in Seq(S) /\ Len(c) = i /\ c[i] = x /\ \A k \in 1..(i - 1): c[k] = s[k]
  BY <1>1
<1> HIDE DEF c, n
<1> DEFINE t == c \o b
<1>4. /\ t \in Seq(S) /\ Len(t) = Len(c) + Len(b) /\ DOMAIN t = 1..(Len(c) + Len(b))
      /\ \A k \in 1..Len(c): t[k] = c[k]
      /\ \A k \in (Len(c) + 1)..(Len(c) + Len(b)): t[k] = b[k - Len(c)]
  <2>1. c \in Seq(S) /\ b \in Seq(S)
    BY <1>2, <1>3
  <2> QED
    BY <2>1
<1> HIDE DEF t
<1>5. t \in Seq(S) /\ Len(t) = i + n - j + 1 /\ DOMAIN t = 1..(i + n - j + 1)
  BY <1>2, <1>3, <1>4, <1>n
<1>6. \A k \in 1..i: t[k] = c[k]
  BY <1>3, <1>4
<1>7. ASSUME NEW k \in (i + 1)..(i + n - j + 1) PROVE t[k] = s[k + j - i - 1]
  <2>1. k \in (Len(c) + 1)..(Len(c) + Len(b)) /\ k - i \in 1..(n - j + 1)
    BY <1>n, <1>2, <1>3
  <2>2. t[k] = b[k - i]
    BY <2>1, <1>3, <1>4
  <2>3. b[k - i] = s[(k - i) + j - 1]
    BY <1>2, <2>1
  <2>4. (k - i) + j - 1 = k + j - i - 1
    BY <1>n
  <2> QED
    BY <2>2, <2>3, <2>4
<1>8. t[i] = x /\ \A k \in 1..(i - 1): t[k] = s[k]
  BY <1>n, <1>3, <1>6
<1> QED
  BY <1>5, <1>7, <1>8 DEF Splice, Spliced, t, c, a, b, n
\* Merge in a canonical list: the ranges from i on that the new one reaches are
\* the ones that start no later than it ends, since gaps follow each range.
LEMMA MergeIs ==
    ASSUME NEW rs \in Lists, NEW r \in RangeType, NEW i \in 1..(Len(rs) + 1)
    PROVE  \E next \in i..(Len(rs) + 1), m \in RangeType:
              /\ \A k \in i..(next - 1): rs[k].start <= End(r)
              /\ next <= Len(rs) => End(r) < rs[next].start
              /\ m.start = IF next > i /\ rs[i].start < r.start THEN rs[i].start ELSE r.start
              /\ End(m) = IF next > i /\ End(r) < End(rs[next - 1]) THEN End(rs[next - 1]) ELSE End(r)
              /\ Merge(rs, r, i) = Splice(rs, i, next, m)
<1> DEFINE n == Len(rs)
           reach(k) == {End(r)} \cup {End(rs[m]): m \in i..(k - 1)}
           P == {k \in i..n: Max(reach(k)) < rs[k].start}
           Q == {k \in i..n: End(r) < rs[k].start}
           next == First(Q, n)
           merged == {r} \cup {rs[k]: k \in i..(next - 1)}
           start == IF next > i /\ rs[i].start < r.start THEN rs[i].start ELSE r.start
           end == IF next > i /\ End(r) < End(rs[next - 1]) THEN End(rs[next - 1]) ELSE End(r)
<1>n. n \in Nat /\ i \in Nat /\ 1 <= i /\ i <= n + 1 /\ DOMAIN rs = 1..n
  BY ListElements
<1>r. r.start \in Nat /\ r.length \in Nat /\ End(r) \in Nat /\ r.start <= End(r)
  BY DEF RangeType, End
<1>e. \A k \in i..n: /\ rs[k].start \in Nat /\ End(rs[k]) \in Nat /\ rs[k].start < End(rs[k])
                     /\ \A m \in i..(k - 1): End(rs[m]) < rs[k].start
  <2> TAKE k \in i..n
  <2>1. rs[k].start \in Nat /\ End(rs[k]) \in Nat /\ rs[k].start < End(rs[k])
    BY <1>n, ListElements
  <2>2. ASSUME NEW m \in i..(k - 1) PROVE End(rs[m]) < rs[k].start
    BY <1>n, Ordered
  <2> QED
    BY <2>1, <2>2
<1>1. P = Q
  <2> SUFFICES ASSUME NEW k \in i..n PROVE Max(reach(k)) < rs[k].start <=> End(r) < rs[k].start
    OBVIOUS
  <2>1. reach(k) \in SUBSET Nat
    BY <1>n, <1>r, <1>e
  <2>2. PICK x \in reach(k): /\ \A y \in reach(k): y <= x
                             /\ x = End(r) \/ x < rs[k].start
                             /\ End(r) <= x
    <3>1. CASE k = i
      BY <1>n, <1>r, <3>1
    <3>2. CASE k > i
      <4>1. k - 1 \in i..n /\ End(rs[k - 1]) \in reach(k) /\ End(rs[k - 1]) < rs[k].start
        BY <1>n, <1>e, <3>2
      <4>2. ASSUME NEW m \in i..(k - 1) PROVE End(rs[m]) <= End(rs[k - 1])
        <5>1. CASE m = k - 1
          BY <4>1, <5>1, <1>e
        <5>2. CASE m < k - 1
          <6>1. m \in i..((k - 1) - 1) /\ m \in i..n
            BY <1>n, <5>2
          <6>2. End(rs[m]) < rs[k - 1].start /\ rs[k - 1].start < End(rs[k - 1])
            BY <1>e, <4>1, <6>1
          <6> QED
            BY <6>1, <6>2, <4>1, <1>e
        <5> QED
          BY <1>n, <5>1, <5>2
      <4>3. CASE End(r) <= End(rs[k - 1])
        <5>1. \A y \in reach(k): y <= End(rs[k - 1])
          BY <4>2, <4>3
        <5> QED
          BY <4>1, <4>3, <5>1
      <4>4. CASE ~(End(r) <= End(rs[k - 1]))
        <5>1. End(rs[k - 1]) < End(r)
          BY <4>1, <4>4, <1>r, <1>e
        <5>2. \A m \in i..(k - 1): End(rs[m]) <= End(r)
          BY <4>1, <4>2, <5>1, <1>r, <1>e, <1>n
        <5>3. \A y \in reach(k): y <= End(r)
          BY <5>2, <1>r
        <5> QED
          BY <5>3, <1>r
      <4> QED
        BY <4>3, <4>4
    <3> QED
      BY <1>n, <3>1, <3>2
  <2> HIDE DEF reach
  <2>3. Max(reach(k)) = x
    BY <2>1, <2>2, MaxIs
  <2>4. x \in Nat /\ rs[k].start \in Nat
    BY <2>1, <2>2, <1>e
  <2> QED
    BY <2>2, <2>3, <2>4, <1>r
<1>2. next \in Q \cup {n + 1} /\ next \in i..(n + 1) /\ \A k \in Q: next <= k
  <2>1. Q \in SUBSET (1..n)
    BY <1>n
  <2> HIDE DEF Q
  <2>2. next \in Q \cup {n + 1} /\ next \in 1..(n + 1) /\ \A k \in Q: next <= k
    BY <1>n, <2>1, FirstIs
  <2> QED
    BY <1>n, <2>2 DEF Q
<1> HIDE DEF next
<1>3. /\ \A k \in i..(next - 1): rs[k].start <= End(r)
      /\ next <= n => End(r) < rs[next].start
  <2>1. ASSUME NEW k \in i..(next - 1) PROVE rs[k].start <= End(r)
    <3>1. k \in i..n /\ k \notin Q
      BY <1>n, <1>2
    <3> QED
      BY <3>1, <1>e, <1>r
  <2> QED
    BY <2>1, <1>2, <1>n
<1>4. Min({x.start: x \in merged}) = start
  <2>0. \A x \in merged: x = r \/ \E k \in i..(next - 1): x = rs[k]
    OBVIOUS
  <2>1. {x.start: x \in merged} \in SUBSET Nat
    BY <1>n, <1>r, <1>e, <1>2, <2>0
  <2>2. next > i => i \in i..(next - 1) /\ rs[i].start \in Nat /\ rs[i] \in merged
    BY <1>n, <1>2, <1>e
  <2>3. start \in {x.start: x \in merged}
    BY <2>2
  <2>4. ASSUME NEW x \in merged PROVE start <= x.start
    <3>1. CASE x = r
      BY <3>1, <2>2, <1>r
    <3>2. ASSUME NEW k \in i..(next - 1), x = rs[k] PROVE start <= x.start
      <4>1. next > i /\ k \in i..n /\ i \in i..n /\ rs[k].start \in Nat
        BY <1>n, <1>2, <1>e
      <4>2. rs[i].start <= rs[k].start
        <5>1. CASE k = i
          BY <4>1, <5>1
        <5>2. CASE k > i
          <6>1. i \in i..(k - 1)
            BY <1>n, <5>2
          <6>2. End(rs[i]) < rs[k].start /\ rs[i].start < End(rs[i])
            BY <4>1, <6>1, <1>e
          <6> QED
            BY <4>1, <6>2, <1>e
        <5> QED
          BY <1>n, <5>1, <5>2
      <4> QED
        BY <3>2, <4>1, <4>2, <2>2, <1>r
    <3> QED
      BY <2>0, <3>1, <3>2
  <2> HIDE DEF start, merged
  <2>5. \A y \in {x.start: x \in merged}: start <= y
    BY <2>4
  <2> QED
    BY <2>1, <2>3, <2>5, MinIs
<1>5. Max({End(x): x \in merged}) = end
  <2>0. \A x \in merged: x = r \/ \E k \in i..(next - 1): x = rs[k]
    OBVIOUS
  <2>1. {End(x): x \in merged} \in SUBSET Nat
    BY <1>n, <1>r, <1>e, <1>2, <2>0
  <2>2. next > i => next - 1 \in i..(next - 1) /\ next - 1 \in i..n /\ End(rs[next - 1]) \in Nat /\ rs[next - 1] \in merged
    BY <1>n, <1>2, <1>e
  <2>3. end \in {End(x): x \in merged}
    BY <2>2
  <2>4. ASSUME NEW x \in merged PROVE End(x) <= end
    <3>1. CASE x = r
      BY <3>1, <2>2, <1>r
    <3>2. ASSUME NEW k \in i..(next - 1), x = rs[k] PROVE End(x) <= end
      <4>1. next > i /\ k \in i..n /\ End(rs[k]) \in Nat
        BY <1>n, <1>2, <1>e
      <4>2. End(rs[k]) <= End(rs[next - 1])
        <5>1. CASE k = next - 1
          BY <4>1, <5>1
        <5>2. CASE k < next - 1
          <6>1. k \in i..((next - 1) - 1)
            BY <1>n, <1>2, <5>2
          <6>2. End(rs[k]) < rs[next - 1].start /\ rs[next - 1].start < End(rs[next - 1])
            BY <2>2, <4>1, <6>1, <1>e
          <6> QED
            BY <2>2, <4>1, <6>2, <1>e
        <5> QED
          BY <1>n, <1>2, <5>1, <5>2
      <4> QED
        BY <3>2, <4>1, <4>2, <2>2, <1>r
    <3> QED
      BY <2>0, <3>1, <3>2
  <2> HIDE DEF end, merged
  <2>5. \A y \in {End(x): x \in merged}: y <= end
    BY <2>4
  <2> QED
    BY <2>1, <2>3, <2>5, MaxIs
<1>6. /\ start \in Nat /\ end \in Nat /\ start <= end
  <2>1. CASE next > i
    <3>1. i \in i..n /\ next - 1 \in i..n
      BY <1>n, <1>2, <2>1
    <3> QED
      BY <3>1, <1>e, <1>r
  <2>2. CASE ~(next > i)
    BY <2>2, <1>r
  <2> QED
    BY <2>1, <2>2
<1> DEFINE m == Span(start, end - start)
<1>7. m \in RangeType /\ m.start = start /\ End(m) = end
  <2> HIDE DEF start, end
  <2> QED
    BY <1>6 DEF Span, End, RangeType
<1>8. Merge(rs, r, i) = Splice(rs, i, next, m)
  <2>1. Merge(rs, r, i) =
           LET nx == First(P, n)
               mg == {r} \cup {rs[k]: k \in i..(nx - 1)}
               st == Min({x.start: x \in mg})
               en == Max({End(x): x \in mg})
           IN SubSeq(rs, 1, i - 1) \o <<Span(st, en - st)>> \o SubSeq(rs, nx, n)
    BY DEF Merge
  <2>2. First(P, n) = next
    BY <1>1 DEF next
  <2> HIDE DEF P, n, start, end
  <2>3. Merge(rs, r, i) = SubSeq(rs, 1, i - 1) \o
           <<Span(Min({x.start: x \in merged}), Max({End(x): x \in merged}) - Min({x.start: x \in merged}))>>
           \o SubSeq(rs, next, n)
    BY <2>1, <2>2
  <2> HIDE DEF merged
  <2> QED
    BY <2>3, <1>4, <1>5 DEF Splice, n
<1> HIDE DEF m
<1> QED
  BY <1>2, <1>3, <1>7, <1>8

\* Adding a range to a canonical list gives a canonical list of what is in either.
THEOREM AddRangeIsUnion ==
    ASSUME NEW rs \in Lists, NEW r \in RangeType
    PROVE  AddRange(rs, r) \in Lists /\ Covered(AddRange(rs, r)) = Covered(rs) \cup Positions(r)
<1> DEFINE n == Len(rs)
           Q == {k \in DOMAIN rs: r.start <= End(rs[k])}
           i == First(Q, n)
<1>n. n \in Nat /\ DOMAIN rs = 1..n
  BY ListElements
<1>r. /\ r.start \in Nat /\ r.length \in Nat /\ End(r) \in Nat /\ End(r) = r.start + r.length
      /\ Positions(r) = {v \in Nat: r.start <= v /\ v < End(r)}
  BY DEF RangeType, End, Positions
<1>e. \A k \in 1..n: /\ rs[k] \in RangeType /\ rs[k].length > 0
                     /\ rs[k].start \in Nat /\ End(rs[k]) \in Nat /\ rs[k].start < End(rs[k])
                     /\ \A j \in 1..(k - 1): End(rs[j]) < rs[k].start
  <2> TAKE k \in 1..n
  <2>1. ASSUME NEW j \in 1..(k - 1) PROVE End(rs[j]) < rs[k].start
    BY <1>n, Ordered
  <2> QED
    BY <1>n, <2>1, ListElements
<1>1. CASE r.length = 0
  <2>1. Positions(r) = {}
    BY <1>1, <1>r
  <2> QED
    BY <1>1, <2>1 DEF AddRange
<1>2. CASE r.length # 0
  <2>1. /\ i \in 1..(n + 1)
        /\ i <= n => r.start <= End(rs[i])
        /\ \A k \in 1..(i - 1): End(rs[k]) < r.start
    <3>1. Q \in SUBSET (1..n)
      BY <1>n
    <3>2. i \in Q \cup {n + 1} /\ i \in 1..(n + 1) /\ \A k \in Q: i <= k
      <4> HIDE DEF Q, n
      <4> QED
        BY <1>n, <3>1, FirstIs
    <3> HIDE DEF i
    <3>3. ASSUME NEW k \in 1..(i - 1) PROVE End(rs[k]) < r.start
      <4>1. k \in 1..n /\ k \notin Q
        BY <1>n, <3>2
      <4> QED
        BY <4>1, <1>n, <1>r, <1>e
    <3> QED
      BY <1>n, <3>2, <3>3
  <2>2. AddRange(rs, r) = Merge(rs, r, i)
    BY <1>2 DEF AddRange
  <2> HIDE DEF i
  <2>3. PICK next \in i..(n + 1), m \in RangeType:
              /\ \A k \in i..(next - 1): rs[k].start <= End(r)
              /\ next <= n => End(r) < rs[next].start
              /\ m.start = IF next > i /\ rs[i].start < r.start THEN rs[i].start ELSE r.start
              /\ End(m) = IF next > i /\ End(r) < End(rs[next - 1]) THEN End(rs[next - 1]) ELSE End(r)
              /\ Merge(rs, r, i) = Splice(rs, i, next, m)
    BY <2>1, MergeIs
  <2> DEFINE t == Splice(rs, i, next, m)
             last == i + n - next + 1
  <2>4. AddRange(rs, r) = t
    BY <2>2, <2>3
  <2>5. /\ t \in Seq(RangeType) /\ Len(t) = last /\ DOMAIN t = 1..last
        /\ \A k \in 1..(i - 1): t[k] = rs[k]
        /\ t[i] = m
        /\ \A k \in (i + 1)..last: t[k] = rs[k + next - i - 1]
    <3>1. rs \in Seq(RangeType)
      BY DEF Lists
    <3>2. i \in 1..(Len(rs) + 1) /\ next \in i..(Len(rs) + 1)
      BY <2>1, <2>3
    <3>3. t \in Seq(RangeType) /\ Spliced(t, rs, i, next, m)
      <4> HIDE DEF n
      <4> QED
        BY <3>1, <3>2, SpliceIs
    <3> HIDE DEF t
    <3> QED
      BY <3>3 DEF Spliced
  <2> HIDE DEF t
  <2>6. /\ i \in Nat /\ next \in Nat /\ 1 <= i /\ i <= next /\ next <= n + 1 /\ last \in Nat /\ i <= last
    BY <1>n, <2>1, <2>3
  <2>7. /\ m.start \in Nat /\ m.length \in Nat /\ End(m) = m.start + m.length /\ End(m) \in Nat
        /\ m.start <= r.start /\ End(r) <= End(m)
        /\ next > i => /\ i \in 1..n /\ next - 1 \in 1..n
                       /\ m.start <= rs[i].start /\ End(rs[next - 1]) <= End(m)
    <3>1. m.start \in Nat /\ m.length \in Nat /\ End(m) = m.start + m.length /\ End(m) \in Nat
      BY DEF RangeType, End
    <3>2. CASE next > i
      <4>1. i \in 1..n /\ next - 1 \in 1..n
        BY <1>n, <2>6, <3>2
      <4>2. rs[i].start \in Nat /\ End(rs[next - 1]) \in Nat
        BY <4>1, <1>e
      <4>3. m.start = IF rs[i].start < r.start THEN rs[i].start ELSE r.start
        BY <2>3, <3>2
      <4>4. End(m) = IF End(r) < End(rs[next - 1]) THEN End(rs[next - 1]) ELSE End(r)
        BY <2>3, <3>2
      <4>5. m.start <= r.start /\ m.start <= rs[i].start
        BY <4>2, <4>3, <1>r
      <4>6. End(r) <= End(m) /\ End(rs[next - 1]) <= End(m)
        BY <4>2, <4>4, <1>r
      <4> QED
        BY <3>1, <4>1, <4>5, <4>6
    <3>3. CASE ~(next > i)
      BY <3>1, <3>3, <2>3, <1>r
    <3> QED
      BY <3>2, <3>3
  <2>8. \A k \in (i + 1)..last: k + next - i - 1 \in next..n
    BY <1>n, <2>6
  <2>9. Canonical(t)
    <3>1. ASSUME NEW k \in DOMAIN t PROVE t[k].length > 0
      <4>1. CASE k < i
        <5>1. k \in 1..(i - 1) /\ k \in 1..n
          BY <1>n, <2>5, <2>6, <4>1
        <5> QED
          BY <5>1, <2>5, <1>e
      <4>2. CASE k = i
        <5>1. r.start < End(r)
          BY <1>r, <1>2
        <5>2. m.start < End(m)
          BY <5>1, <2>7, <1>r
        <5>3. m.length > 0
          BY <5>2, <2>7
        <5> QED
          BY <4>2, <5>3, <2>5
      <4>3. CASE k > i
        <5>1. k \in (i + 1)..last
          BY <2>5, <2>6, <4>3
        <5>2. k + next - i - 1 \in 1..n
          BY <5>1, <2>6, <2>8
        <5> QED
          BY <5>1, <5>2, <2>5, <1>e
      <4> QED
        BY <4>1, <4>2, <4>3, <2>5, <2>6
    <3>2. ASSUME NEW k \in 1..(Len(t) - 1) PROVE End(t[k]) < t[k + 1].start
      <4>0. k \in Nat /\ 1 <= k /\ k < last /\ k + 1 <= last
        BY <2>5, <2>6
      <4>1. CASE k + 1 < i
        <5>1. k \in 1..(i - 1) /\ k + 1 \in 1..(i - 1) /\ k + 1 \in 1..n /\ k \in 1..((k + 1) - 1)
          BY <1>n, <2>6, <4>0, <4>1
        <5>2. End(rs[k]) < rs[k + 1].start
          BY <5>1, <1>e
        <5> QED
          BY <5>1, <5>2, <2>5
      <4>2. CASE k + 1 = i
        <5>1. k \in 1..(i - 1) /\ k \in 1..n
          BY <1>n, <2>6, <4>0, <4>2
        <5>2. End(rs[k]) < r.start
          BY <5>1, <2>1
        <5>3. next > i => End(rs[k]) < rs[i].start
          BY <5>1, <2>7, <1>e
        <5>4. End(rs[k]) < m.start
          BY <5>2, <5>3, <2>3
        <5> QED
          BY <5>1, <5>4, <4>2, <2>5
      <4>3. CASE k = i
        <5>1. k + 1 \in (i + 1)..last /\ (k + 1) + next - i - 1 = next /\ next \in 1..n
          BY <1>n, <2>6, <4>0, <4>3
        <5>2. t[k + 1] = rs[next]
          BY <5>1, <2>5
        <5>3. End(r) < rs[next].start
          BY <5>1, <2>3
        <5>4. next > i => End(rs[next - 1]) < rs[next].start
          <6>1. next > i => next - 1 \in 1..(next - 1)
            BY <2>6
          <6> QED
            BY <5>1, <6>1, <1>e
        <5>5. End(m) < rs[next].start
          BY <5>3, <5>4, <2>3
        <5> QED
          BY <4>3, <5>2, <5>5, <2>5
      <4>4. CASE k > i
        <5> DEFINE p == k + next - i - 1
        <5>1. k \in (i + 1)..last /\ k + 1 \in (i + 1)..last /\ (k + 1) + next - i - 1 = p + 1
          BY <2>6, <4>0, <4>4
        <5>2. t[k] = rs[p] /\ t[k + 1] = rs[p + 1]
          BY <5>1, <2>5
        <5>3. p + 1 \in 1..n /\ p \in 1..((p + 1) - 1)
          BY <1>n, <2>6, <4>0, <4>4
        <5>4. End(rs[p]) < rs[p + 1].start
          BY <5>3, <1>e
        <5> QED
          BY <5>2, <5>4
      <4> QED
        BY <4>0, <2>6, <4>1, <4>2, <4>3, <4>4
    <3> QED
      BY <3>1, <3>2 DEF Canonical
  <2>10. t \in Lists
    BY <2>5, <2>9 DEF Lists
  <2>11. ASSUME NEW v \in Covered(rs) \cup Positions(r) PROVE v \in Covered(t)
    <3>0. v \in Nat
      BY CoveredIs, <1>r
    <3> SUFFICES \E k \in 1..last: t[k].start <= v /\ v < End(t[k])
      BY <2>5, <2>10, <3>0, CoveredIs
    <3>i. i \in 1..last
      BY <2>6
    <3>1. CASE v \in Positions(r)
      <4>1. m.start <= v /\ v < End(m)
        BY <3>0, <3>1, <2>7, <1>r
      <4> QED
        BY <4>1, <3>i, <2>5
    <3>2. CASE v \in Covered(rs)
      <4>1. PICK k \in 1..n: rs[k].start <= v /\ v < End(rs[k])
        BY <3>0, <3>2, <1>n, CoveredIs
      <4>2. CASE k < i
        <5>1. k \in 1..(i - 1) /\ k \in 1..last
          BY <2>6, <4>2
        <5> QED
          BY <4>1, <5>1, <2>5
      <4>3. CASE i <= k /\ k < next
        <5>1. next > i /\ k \in i..(next - 1)
          BY <2>6, <4>3
        <5>2. rs[i].start <= rs[k].start
          <6>1. CASE k = i
            BY <6>1, <1>e
          <6>2. CASE k # i
            <7>1. i \in 1..(k - 1)
              BY <2>6, <4>3, <6>2
            <7>2. End(rs[i]) < rs[k].start /\ rs[i].start < End(rs[i])
              BY <7>1, <5>1, <2>7, <1>e
            <7> QED
              BY <7>2, <5>1, <2>7, <1>e
          <6> QED
            BY <6>1, <6>2
        <5>3. End(rs[k]) <= End(rs[next - 1])
          <6>1. CASE k = next - 1
            BY <6>1, <1>e
          <6>2. CASE k # next - 1
            <7>1. k \in 1..((next - 1) - 1)
              BY <2>6, <4>3, <6>2
            <7>2. End(rs[k]) < rs[next - 1].start /\ rs[next - 1].start < End(rs[next - 1])
              BY <7>1, <5>1, <2>7, <1>e
            <7>3. next - 1 \in 1..n /\ End(rs[k]) \in Nat /\ rs[next - 1].start \in Nat /\ End(rs[next - 1]) \in Nat
              BY <5>1, <2>7, <1>e
            <7> QED
              BY <7>2, <7>3
          <6> QED
            BY <6>1, <6>2
        <5>4. m.start <= v /\ v < End(m)
          <6>1. i \in 1..n /\ next - 1 \in 1..n /\ m.start <= rs[i].start /\ End(rs[next - 1]) <= End(m)
            BY <5>1, <2>7
          <6>2. /\ rs[i].start \in Nat /\ rs[k].start \in Nat /\ End(rs[k]) \in Nat /\ End(rs[next - 1]) \in Nat
                /\ m.start \in Nat /\ End(m) \in Nat
            BY <6>1, <1>e, <2>7
          <6>3. m.start <= v
            BY <6>1, <6>2, <5>2, <4>1, <3>0
          <6>4. v < End(m)
            BY <6>1, <6>2, <5>3, <4>1, <3>0
          <6> QED
            BY <6>3, <6>4
        <5> QED
          BY <5>4, <3>i, <2>5
      <4>4. CASE next <= k
        <5> DEFINE q == k + i + 1 - next
        <5>1. q \in (i + 1)..last /\ q \in 1..last /\ q + next - i - 1 = k
          BY <1>n, <2>6, <4>4
        <5>2. t[q] = rs[k]
          BY <5>1, <2>5
        <5> QED
          BY <4>1, <5>1, <5>2
      <4> QED
        BY <2>6, <4>2, <4>3, <4>4
    <3> QED
      BY <3>1, <3>2
  <2>12. ASSUME NEW v \in Covered(t) PROVE v \in Covered(rs) \cup Positions(r)
    <3>0. v \in Nat
      BY <2>10, CoveredIs
    <3>1. PICK k \in 1..last: t[k].start <= v /\ v < End(t[k])
      BY <2>5, <2>10, <3>0, CoveredIs
    <3>2. (\E q \in 1..n: rs[q].start <= v /\ v < End(rs[q])) => v \in Covered(rs)
      BY <1>n, <3>0, CoveredIs
    <3>3. CASE k < i
      <4>1. k \in 1..(i - 1) /\ k \in 1..n
        BY <1>n, <2>6, <3>3
      <4> QED
        BY <4>1, <3>1, <3>2, <2>5
    <3>4. CASE k = i
      <4>1. m.start <= v /\ v < End(m)
        BY <3>1, <3>4, <2>5
      <4>2. CASE v < r.start
        <5>1. next > i /\ rs[i].start <= v /\ i \in 1..n
          <6>1. m.start # r.start
            BY <4>1, <4>2, <3>0, <1>r
          <6>2. next > i /\ m.start = rs[i].start
            BY <6>1, <2>3
          <6> QED
            BY <6>2, <4>1, <2>7
        <5>2. r.start <= End(rs[i])
          BY <5>1, <2>1
        <5>3. v < End(rs[i])
          BY <5>1, <5>2, <4>2, <3>0, <1>r, <1>e
        <5> QED
          BY <5>1, <5>3, <3>2
      <4>3. CASE End(r) <= v
        <5>1. next > i /\ v < End(rs[next - 1]) /\ next - 1 \in 1..n /\ next - 1 \in i..(next - 1)
          BY <4>1, <4>3, <3>0, <2>3, <2>6, <2>7, <1>r
        <5>2. rs[next - 1].start <= End(r)
          BY <5>1, <2>3
        <5>3. rs[next - 1].start <= v
          BY <5>1, <5>2, <4>3, <3>0, <1>r, <1>e
        <5> QED
          BY <5>1, <5>3, <3>2
      <4> QED
        BY <4>2, <4>3, <3>0, <1>r
    <3>5. CASE k > i
      <4>1. k \in (i + 1)..last /\ k + next - i - 1 \in 1..n
        BY <1>n, <2>6, <3>5
      <4>2. t[k] = rs[k + next - i - 1]
        BY <4>1, <2>5
      <4> QED
        BY <4>1, <4>2, <3>1, <3>2
    <3> QED
      BY <3>3, <3>4, <3>5, <2>6
  <2> QED
    BY <2>4, <2>10, <2>11, <2>12
<1> QED
  BY <1>1, <1>2

\* What SubtractRange leaves of a canonical list: the parts before r of the
\* ranges up to last, which start before it, and the parts behind r of the
\* ranges from next on, which end behind it; the ranges between lie in r.
LEMMA SubtractRangeIs ==
    ASSUME NEW rs \in Lists, NEW r \in RangeType, r.length # 0
    PROVE  \E last \in 0..Len(rs), next \in 1..(Len(rs) + 1):
              /\ last <= next
              /\ \A k \in 1..last: /\ rs[k].start < r.start
                                   /\ k # next => End(rs[k]) <= End(r)
              /\ \A k \in (last + 1)..Len(rs): r.start <= rs[k].start
              /\ \A k \in (last + 1)..(next - 1): End(rs[k]) <= End(r)
              /\ \A k \in next..Len(rs): End(r) < End(rs[k])
              /\ SubtractRange(rs, r) \in Seq(RangeType)
              /\ Len(SubtractRange(rs, r)) = last + Len(rs) - next + 1
              /\ \A k \in 1..last: SubtractRange(rs, r)[k] = Before(rs[k], r)
              /\ \A k \in (last + 1)..(last + Len(rs) - next + 1):
                    SubtractRange(rs, r)[k] = Behind(rs[k - last + next - 1], r)
<1> DEFINE n == Len(rs)
           Q == {k \in DOMAIN rs: r.start <= rs[k].start \/ End(r) < End(rs[k])}
           i == First(Q, n)
           P == {k \in i..n: End(r) <= rs[i].start \/ End(r) < End(rs[k])}
           next == First(P, n)
           last == IF i <= n /\ rs[i].start < r.start THEN i ELSE i - 1
           before == [k \in 1..last |-> Before(rs[k], r)]
           behind == IF next <= n THEN <<Behind(rs[next], r)>> ELSE <<>>
           rest == SubSeq(rs, next + 1, n)
<1>n. n \in Nat /\ DOMAIN rs = 1..n /\ rs \in Seq(RangeType)
  BY ListElements DEF Lists
<1>r. r.start \in Nat /\ r.length \in Nat /\ End(r) \in Nat /\ End(r) = r.start + r.length /\ r.start < End(r)
  BY DEF RangeType, End
<1>e. \A k \in 1..n: /\ rs[k] \in RangeType /\ rs[k].length > 0
                     /\ rs[k].start \in Nat /\ End(rs[k]) \in Nat /\ rs[k].start < End(rs[k])
                     /\ End(rs[k]) = rs[k].start + rs[k].length
                     /\ \A j \in 1..(k - 1): End(rs[j]) < rs[k].start
  <2> TAKE k \in 1..n
  <2>1. ASSUME NEW j \in 1..(k - 1) PROVE End(rs[j]) < rs[k].start
    BY <1>n, Ordered
  <2> QED
    BY <1>n, <2>1, ListElements DEF End
<1>o. ASSUME NEW k \in 1..n, NEW j \in 1..n, j < k
      PROVE  rs[j].start < rs[k].start /\ End(rs[j]) < End(rs[k]) /\ End(rs[j]) < rs[k].start
  <2>1. j \in 1..(k - 1)
    BY <1>n, <1>o
  <2>2. End(rs[j]) < rs[k].start
    BY <2>1, <1>e
  <2>3. rs[j].start \in Nat /\ End(rs[j]) \in Nat /\ rs[j].start < End(rs[j])
    BY <1>e
  <2>4. rs[k].start \in Nat /\ End(rs[k]) \in Nat /\ rs[k].start < End(rs[k])
    BY <1>e
  <2> QED
    BY <2>2, <2>3, <2>4
<1>1. /\ i \in 1..(n + 1)
      /\ i <= n => r.start <= rs[i].start \/ End(r) < End(rs[i])
      /\ \A k \in 1..(i - 1): rs[k].start < r.start /\ End(rs[k]) <= End(r)
  <2>1. Q \in SUBSET (1..n)
    BY <1>n
  <2>2. i \in Q \cup {n + 1} /\ i \in 1..(n + 1) /\ \A k \in Q: i <= k
    <3> HIDE DEF Q, n
    <3> QED
      BY <1>n, <2>1, FirstIs
  <2> HIDE DEF i
  <2>3. ASSUME NEW k \in 1..(i - 1) PROVE rs[k].start < r.start /\ End(rs[k]) <= End(r)
    <3>1. k \in 1..n /\ k \notin Q
      BY <1>n, <2>2
    <3> QED
      BY <3>1, <1>n, <1>r, <1>e
  <2> QED
    BY <1>n, <2>2, <2>3
<1> HIDE DEF i
<1>2. /\ next \in i..(n + 1)
      /\ next <= n => End(r) < End(rs[next])
      /\ \A k \in i..(next - 1): End(rs[k]) <= End(r)
  <2>1. P \in SUBSET (1..n)
    BY <1>n, <1>1
  <2>2. next \in P \cup {n + 1} /\ next \in 1..(n + 1) /\ \A k \in P: next <= k
    <3> HIDE DEF P, n
    <3> QED
      BY <1>n, <2>1, FirstIs
  <2> HIDE DEF next
  <2>3. next \in i..(n + 1)
    BY <1>n, <1>1, <2>2
  <2>4. ASSUME next <= n PROVE End(r) < End(rs[next])
    <3>1. next \in P /\ i \in 1..n /\ next \in 1..n /\ i <= next
      BY <2>2, <2>3, <2>4, <1>n, <1>1
    <3>2. rs[i].start <= rs[next].start
      <4>1. CASE i = next
        BY <4>1, <3>1, <1>e
      <4>2. CASE i < next
        BY <4>2, <3>1, <1>o, <1>e
      <4> QED
        BY <3>1, <4>1, <4>2
    <3>3. rs[i].start \in Nat /\ rs[next].start \in Nat /\ End(rs[next]) \in Nat /\ rs[next].start < End(rs[next])
      BY <3>1, <1>e
    <3> QED
      BY <3>1, <3>2, <3>3, <1>r
  <2>5. ASSUME NEW k \in i..(next - 1) PROVE End(rs[k]) <= End(r)
    <3>1. k \in i..n /\ k \in 1..n /\ k \notin P
      BY <1>n, <1>1, <2>2, <2>3
    <3>2. End(rs[k]) \in Nat /\ ~(End(r) < End(rs[k]))
      BY <3>1, <1>e
    <3> QED
      BY <3>2, <1>r
  <2> QED
    BY <2>3, <2>4, <2>5
<1> HIDE DEF next
<1>3. SubtractRange(rs, r) = before \o behind \o rest
  BY DEF SubtractRange, i, next
<1>4. /\ i \in Nat /\ next \in Nat /\ 1 <= i /\ i <= next /\ next <= n + 1
      /\ last \in 0..n /\ (last = i \/ last = i - 1)
      /\ last = i => i <= n /\ rs[i].start < r.start /\ next = i
      /\ last = i - 1 => (i <= n => r.start <= rs[i].start)
  <2>1. i \in Nat /\ next \in Nat /\ 1 <= i /\ i <= next /\ next <= n + 1
    BY <1>n, <1>1, <1>2
  <2>2. CASE i <= n /\ rs[i].start < r.start
    <3>1. i \in 1..n /\ rs[i].start \in Nat /\ End(rs[i]) \in Nat
      BY <2>1, <2>2, <1>n, <1>e
    <3>2. End(r) < End(rs[i])
      BY <3>1, <2>2, <1>1, <1>r
    <3>3. next = i
      <4> SUFFICES ASSUME next # i PROVE FALSE
        OBVIOUS
      <4>1. i \in i..(next - 1)
        BY <2>1
      <4>2. End(rs[i]) <= End(r)
        BY <4>1, <1>2
      <4> QED
        BY <4>2, <3>1, <3>2, <1>r
    <3> QED
      BY <2>1, <2>2, <3>1, <3>3
  <2>3. CASE ~(i <= n /\ rs[i].start < r.start)
    <3>1. last = i - 1 /\ last \in 0..n
      BY <2>1, <2>3, <1>n
    <3>2. i <= n => r.start <= rs[i].start
      <4> SUFFICES ASSUME i <= n PROVE r.start <= rs[i].start
        OBVIOUS
      <4>1. i \in 1..n
        BY <2>1, <1>n
      <4>2. rs[i].start \in Nat
        BY <4>1, <1>e
      <4> QED
        BY <2>3, <4>2, <1>r
    <3> QED
      BY <2>1, <3>1, <3>2
  <2> QED
    BY <2>2, <2>3
<1> HIDE DEF last
<1>5. \A k \in 1..last: rs[k].start < r.start /\ (k # next => End(rs[k]) <= End(r))
  <2> TAKE k \in 1..last
  <2>1. CASE k < i
    <3>1. k \in 1..(i - 1)
      BY <2>1, <1>4
    <3> QED
      BY <3>1, <1>1
  <2>2. CASE k = i
    BY <2>2, <1>4
  <2> QED
    BY <2>1, <2>2, <1>4
<1>6. \A k \in (last + 1)..n: r.start <= rs[k].start
  <2> TAKE k \in (last + 1)..n
  <2>k. k \in 1..n /\ i \in 1..n /\ i <= k
    BY <1>4, <1>n
  <2>t. rs[k].start \in Nat /\ rs[i].start \in Nat /\ End(rs[i]) \in Nat
    BY <2>k, <1>e
  <2>1. CASE last = i
    <3>1. i < k /\ End(r) < End(rs[i])
      BY <2>1, <2>k, <1>4, <1>2
    <3>2. End(rs[i]) < rs[k].start
      BY <3>1, <2>k, <1>o
    <3> QED
      BY <3>1, <3>2, <2>t, <1>r
  <2>2. CASE last = i - 1
    <3>1. r.start <= rs[i].start
      BY <2>2, <2>k, <1>4
    <3>2. rs[i].start <= rs[k].start
      <4>1. CASE k = i
        BY <4>1, <2>t
      <4>2. CASE i < k
        BY <4>2, <2>k, <2>t, <1>o
      <4> QED
        BY <2>k, <4>1, <4>2
    <3> QED
      BY <3>1, <3>2, <2>t, <1>r
  <2> QED
    BY <2>1, <2>2, <1>4
<1>7. \A k \in (last + 1)..(next - 1): End(rs[k]) <= End(r)
  <2> TAKE k \in (last + 1)..(next - 1)
  <2>1. k \in i..(next - 1)
    BY <1>4
  <2> QED
    BY <2>1, <1>2
<1>8. \A k \in next..n: End(r) < End(rs[k])
  <2> TAKE k \in next..n
  <2>1. next \in 1..n /\ k \in 1..n /\ next <= k /\ End(r) < End(rs[next])
    BY <1>4, <1>2, <1>n
  <2>2. End(rs[next]) \in Nat /\ End(rs[k]) \in Nat
    BY <2>1, <1>e
  <2>3. CASE k = next
    BY <2>1, <2>3
  <2>4. CASE next < k
    <3>1. End(rs[next]) < End(rs[k])
      BY <2>1, <2>4, <1>o
    <3> QED
      BY <2>1, <2>2, <3>1, <1>r
  <2> QED
    BY <2>1, <2>3, <2>4
<1>9. \A k \in 1..last: Before(rs[k], r) \in RangeType
  <2> TAKE k \in 1..last
  <2>1. k \in 1..n /\ rs[k].start < r.start
    BY <1>4, <1>5, <1>n
  <2> QED
    BY <2>1, <1>r, <1>e DEF Before, Span, RangeType
<1>10. \A k \in next..n: Behind(rs[k], r) \in RangeType
  <2> TAKE k \in next..n
  <2>1. k \in 1..n /\ End(r) < End(rs[k])
    BY <1>4, <1>8, <1>n
  <2> QED
    BY <2>1, <1>r, <1>e DEF Behind, Span, RangeType
<1> DEFINE tail == behind \o rest
           t == before \o tail
<1>11. before \in Seq(RangeType) /\ Len(before) = last /\ \A k \in 1..last: before[k] = Before(rs[k], r)
  <2>1. last \in Nat /\ before \in [1..last -> RangeType]
    BY <1>4, <1>9, <1>n
  <2> QED
    BY <2>1
<1>12. tail \in Seq(RangeType) /\ Len(tail) = n - next + 1 /\ \A k \in 1..(n - next + 1): tail[k] = Behind(rs[k + next - 1], r)
  <2>1. CASE next <= n
    <3>1. rest \in Seq(RangeType) /\ Len(rest) = n - next /\ \A k \in 1..(n - next): rest[k] = rs[k + next]
      <4>1. next + 1 \in Nat \ {0} /\ next + 1 <= n + 1 /\ n <= Len(rs) /\ n \in Nat
        BY <1>n, <1>4, <2>1
      <4>2. /\ rest \in Seq(RangeType) /\ Len(rest) = n - (next + 1) + 1
            /\ \A k \in 1..(n - (next + 1) + 1): rest[k] = rs[(next + 1) + k - 1]
        <5> HIDE DEF n
        <5> QED
          BY <4>1, <1>n, PartOf
      <4>3. n - (next + 1) + 1 = n - next /\ \A k \in 1..(n - next): (next + 1) + k - 1 = k + next
        BY <4>1, <1>4
      <4> HIDE DEF rest, n
      <4> QED
        BY <4>2, <4>3
    <3> DEFINE b == Behind(rs[next], r)
    <3>2. behind = <<b>> /\ b \in RangeType
      BY <2>1, <1>4, <1>10, <1>n
    <3> HIDE DEF rest, b
    <3>3. <<b>> \o rest \in Seq(RangeType) /\ Len(<<b>> \o rest) = n - next + 1
      <4>1. <<b>> \in Seq(RangeType) /\ Len(<<b>>) = 1
        BY <3>2
      <4>2. <<b>> \o rest \in Seq(RangeType) /\ Len(<<b>> \o rest) = 1 + Len(rest)
        BY <4>1, <3>1
      <4>3. 1 + (n - next) = n - next + 1
        BY <1>n, <1>4
      <4> QED
        BY <4>2, <4>3, <3>1
    <3>4. (<<b>> \o rest)[1] = b /\ \A k \in 2..(n - next + 1): (<<b>> \o rest)[k] = rest[k - 1]
      BY <3>1, <3>2, <1>n, <1>4
    <3>5. ASSUME NEW k \in 1..(n - next + 1) PROVE (<<b>> \o rest)[k] = Behind(rs[k + next - 1], r)
      <4>1. CASE k = 1
        <5>1. k + next - 1 = next
          BY <4>1, <1>4
        <5> QED
          BY <4>1, <5>1, <3>4 DEF b
      <4>2. CASE k # 1
        <5>1. k \in 2..(n - next + 1) /\ k - 1 \in 1..(n - next) /\ (k - 1) + next = k + next - 1
          BY <4>2, <1>4, <1>n
        <5>2. (<<b>> \o rest)[k] = rs[k + next - 1]
          BY <5>1, <3>1, <3>4
        <5> DEFINE q == k + next - 1
        <5>3. q \in 1..n /\ next \in 1..n /\ next < q
          BY <5>1, <2>1, <1>4, <1>n
        <5>4. End(rs[next]) < rs[q].start /\ End(r) < End(rs[next])
          BY <5>3, <1>o, <1>2
        <5>5. ~(rs[q].start < End(r))
          <6>1. rs[q].start \in Nat /\ End(rs[next]) \in Nat
            BY <5>3, <1>e
          <6> HIDE DEF q
          <6> QED
            BY <5>4, <6>1, <1>r
        <5> QED
          BY <5>2, <5>5 DEF Behind
      <4> QED
        BY <4>1, <4>2
    <3> QED
      BY <3>2, <3>3, <3>5
  <2>2. CASE ~(next <= n)
    <3>1. next = n + 1 /\ behind = <<>>
      BY <1>n, <1>4, <2>2
    <3>2. rest = <<>>
      BY <3>1, <1>n
    <3>3. tail = <<>>
      BY <3>1, <3>2
    <3> HIDE DEF tail
    <3> QED
      BY <3>1, <3>3, <1>n
  <2> QED
    BY <2>1, <2>2
<1>13. SubtractRange(rs, r) = t
  <2>1. behind \in Seq(RangeType) /\ rest \in Seq(RangeType)
    <3>1. behind \in Seq(RangeType)
      BY <1>10, <1>4, <1>n
    <3>2. rest \in Seq(RangeType)
      BY <1>4, <1>n
    <3> QED
      BY <3>1, <3>2
  <2> HIDE DEF before, behind, rest
  <2> QED
    BY <2>1, <1>3, <1>11
<1> HIDE DEF before, tail
<1>14. /\ t \in Seq(RangeType) /\ Len(t) = last + n - next + 1
       /\ \A k \in 1..last: t[k] = Before(rs[k], r)
       /\ \A k \in (last + 1)..(last + n - next + 1): t[k] = Behind(rs[k - last + next - 1], r)
  <2>1. t \in Seq(RangeType) /\ Len(t) = Len(before) + Len(tail)
    BY <1>11, <1>12
  <2>2. \A k \in 1..Len(before): t[k] = before[k]
    BY <1>11, <1>12
  <2>3. \A k \in (Len(before) + 1)..(Len(before) + Len(tail)): t[k] = tail[k - Len(before)]
    BY <1>11, <1>12
  <2> HIDE DEF t
  <2>4. last \in Nat /\ next \in Nat /\ next <= n + 1
    BY <1>4, <1>n
  <2>5. ASSUME NEW k \in (last + 1)..(last + n - next + 1) PROVE t[k] = Behind(rs[k - last + next - 1], r)
    <3>1. k \in (Len(before) + 1)..(Len(before) + Len(tail)) /\ k - last \in 1..(n - next + 1)
      BY <1>n, <2>4, <1>11, <1>12
    <3>2. t[k] = tail[k - last]
      BY <3>1, <2>3, <1>11
    <3> QED
      BY <3>1, <3>2, <1>12
  <2>6. Len(t) = last + n - next + 1
    BY <2>1, <2>4, <1>n, <1>11, <1>12
  <2> QED
    BY <2>1, <2>2, <2>5, <2>6, <1>11
<1> HIDE DEF t
<1> QED
  <2>1. last \in 0..n /\ next \in 1..(n + 1)
    BY <1>4, <1>n
  <2>2. last <= next
    BY <1>4, <1>n
  <2> QED
    BY <2>1, <2>2, <1>5, <1>6, <1>7, <1>8, <1>13, <1>14

\* Subtracting a range from a canonical list leaves a canonical list of what is
\* in the list and not in the range.
THEOREM SubtractRangeIsDifference ==
    ASSUME NEW rs \in Lists, NEW r \in RangeType
    PROVE  SubtractRange(rs, r) \in Lists /\ Covered(SubtractRange(rs, r)) = Covered(rs) \ Positions(r)
<1> DEFINE n == Len(rs)
           t == SubtractRange(rs, r)
<1>n. n \in Nat /\ DOMAIN rs = 1..n
  BY ListElements
<1>r. /\ r.start \in Nat /\ r.length \in Nat /\ End(r) \in Nat /\ End(r) = r.start + r.length
      /\ Positions(r) = {v \in Nat: r.start <= v /\ v < End(r)}
  BY DEF RangeType, End, Positions
<1>1. CASE r.length = 0
  <2>1. Positions(r) = {}
    BY <1>1, <1>r
  <2> QED
    BY <1>1, <2>1 DEF SubtractRange
<1>2. CASE r.length # 0
  <2>r. r.start < End(r)
    BY <1>2, <1>r
  <2>e. \A k \in 1..n: /\ rs[k].start \in Nat /\ End(rs[k]) \in Nat /\ rs[k].start < End(rs[k])
                       /\ End(rs[k]) = rs[k].start + rs[k].length
                       /\ \A j \in 1..(k - 1): End(rs[j]) < rs[k].start
    <3> TAKE k \in 1..n
    <3>1. ASSUME NEW j \in 1..(k - 1) PROVE End(rs[j]) < rs[k].start
      BY <1>n, Ordered
    <3> QED
      BY <1>n, <3>1, ListElements DEF End
  <2>1. PICK last \in 0..n, next \in 1..(n + 1):
              /\ last <= next
              /\ \A k \in 1..last: /\ rs[k].start < r.start
                                   /\ k # next => End(rs[k]) <= End(r)
              /\ \A k \in (last + 1)..n: r.start <= rs[k].start
              /\ \A k \in (last + 1)..(next - 1): End(rs[k]) <= End(r)
              /\ \A k \in next..n: End(r) < End(rs[k])
              /\ t \in Seq(RangeType)
              /\ Len(t) = last + n - next + 1
              /\ \A k \in 1..last: t[k] = Before(rs[k], r)
              /\ \A k \in (last + 1)..(last + n - next + 1):
                    t[k] = Behind(rs[k - last + next - 1], r)
    BY <1>2, SubtractRangeIs
  <2> DEFINE size == last + n - next + 1
             from(k) == k - last + next - 1
  <2>2. /\ last \in Nat /\ last <= n /\ next \in Nat /\ 1 <= next /\ next <= n + 1 /\ last <= next
        /\ size \in Nat /\ last <= size /\ DOMAIN t = 1..size
        /\ \A k \in (last + 1)..size: from(k) \in next..n /\ from(k) \in 1..n
    <3>1. last \in Nat /\ last <= n /\ next \in Nat /\ 1 <= next /\ next <= n + 1 /\ last <= next
      BY <1>n, <2>1
    <3>2. t \in Seq(RangeType) /\ Len(t) = size
      BY <2>1
    <3>3. DOMAIN t = 1..size
      <4> HIDE DEF t, size
      <4> QED
        BY <3>2
    <3> QED
      BY <1>n, <3>1, <3>3
  <2> HIDE DEF t
  <2>3. ASSUME NEW k \in 1..last
        PROVE  /\ t[k].start = rs[k].start
               /\ End(t[k]) = IF r.start < End(rs[k]) THEN r.start ELSE End(rs[k])
               /\ t[k].length > 0 /\ k \in 1..n
               /\ t[k].start \in Nat /\ End(t[k]) \in Nat
               /\ End(t[k]) <= r.start /\ End(t[k]) <= End(rs[k])
    <3>1. t[k] = Before(rs[k], r) /\ k \in 1..n /\ rs[k].start < r.start
      BY <2>1, <2>2, <1>n
    <3>2. rs[k].start \in Nat /\ End(rs[k]) \in Nat /\ rs[k].start < End(rs[k]) /\ End(rs[k]) = rs[k].start + rs[k].length
      BY <3>1, <2>e
    <3>3. rs[k].length > 0
      BY <3>1, <1>n, ListElements
    <3>4. CASE r.start < End(rs[k])
      <4>1. t[k] = Span(rs[k].start, r.start - rs[k].start)
        BY <3>1, <3>4 DEF Before
      <4>2. t[k].start = rs[k].start /\ t[k].length = r.start - rs[k].start
        BY <4>1 DEF Span
      <4>3. End(t[k]) = r.start
        BY <4>2, <3>2, <1>r DEF End
      <4> QED
        BY <4>2, <4>3, <3>1, <3>2, <3>4, <1>r
    <3>5. CASE ~(r.start < End(rs[k]))
      <4>1. t[k] = rs[k]
        BY <3>1, <3>5 DEF Before
      <4> QED
        BY <4>1, <3>1, <3>2, <3>3, <3>5, <1>r
    <3> QED
      BY <3>4, <3>5
  <2>4. ASSUME NEW k \in (last + 1)..size
        PROVE  /\ t[k].start = IF rs[from(k)].start < End(r) THEN End(r) ELSE rs[from(k)].start
               /\ End(t[k]) = End(rs[from(k)])
               /\ t[k].length > 0 /\ from(k) \in 1..n /\ from(k) \in next..n
               /\ t[k].start \in Nat /\ End(t[k]) \in Nat
               /\ End(r) <= t[k].start /\ rs[from(k)].start <= t[k].start
    <3> DEFINE q == from(k)
    <3>1. t[k] = Behind(rs[q], r) /\ q \in 1..n /\ q \in next..n
      BY <2>1, <2>2
    <3> HIDE DEF q
    <3>2. End(r) < End(rs[q])
      BY <3>1, <2>1
    <3>3. rs[q].start \in Nat /\ End(rs[q]) \in Nat /\ rs[q].start < End(rs[q]) /\ End(rs[q]) = rs[q].start + rs[q].length
      BY <3>1, <2>e
    <3>4. rs[q].length > 0
      BY <3>1, <1>n, ListElements
    <3>5. CASE rs[q].start < End(r)
      <4>1. t[k] = Span(End(r), End(rs[q]) - End(r))
        BY <3>1, <3>5 DEF Behind
      <4>2. t[k].start = End(r) /\ t[k].length = End(rs[q]) - End(r)
        BY <4>1 DEF Span
      <4>3. End(t[k]) = End(rs[q])
        <5>1. End(t[k]) = t[k].start + t[k].length
          BY DEF End
        <5> QED
          BY <5>1, <4>2, <3>3, <1>r
      <4>4. t[k].length > 0
        BY <4>2, <3>2, <3>3, <1>r
      <4>5. rs[q].start <= t[k].start /\ End(r) <= t[k].start
        BY <4>2, <3>3, <3>5, <1>r
      <4> QED
        BY <4>2, <4>3, <4>4, <4>5, <3>1, <3>3, <3>5, <1>r DEF q
    <3>6. CASE ~(rs[q].start < End(r))
      <4>1. t[k] = rs[q]
        BY <3>1, <3>6 DEF Behind
      <4>2. End(r) <= rs[q].start
        BY <3>3, <3>6, <1>r
      <4> QED
        BY <4>1, <4>2, <3>1, <3>3, <3>4, <3>6 DEF q
    <3> QED
      BY <3>5, <3>6
  <2>5. Canonical(t)
    <3>1. ASSUME NEW k \in DOMAIN t PROVE t[k].length > 0
      <4>1. k \in 1..last \/ k \in (last + 1)..size
        BY <2>2
      <4> QED
        BY <4>1, <2>3, <2>4
    <3>2. ASSUME NEW k \in 1..(Len(t) - 1) PROVE End(t[k]) < t[k + 1].start
      <4>0. k \in Nat /\ 1 <= k /\ k + 1 <= size /\ k < size
        BY <2>1, <2>2
      <4>1. CASE k + 1 <= last
        <5>1. k \in 1..last /\ k + 1 \in 1..last /\ k \in 1..((k + 1) - 1) /\ k + 1 \in 1..n
          BY <4>0, <4>1, <2>2, <1>n
        <5>2. End(rs[k]) < rs[k + 1].start
          BY <5>1, <2>e
        <5>3. t[k + 1].start = rs[k + 1].start /\ End(t[k]) <= End(rs[k]) /\ End(t[k]) \in Nat
          BY <5>1, <2>3
        <5>4. rs[k + 1].start \in Nat /\ End(rs[k]) \in Nat
          BY <5>1, <2>3, <2>e
        <5>5. \A a, b, c \in Nat : a <= b /\ b < c => a < c
          OBVIOUS
        <5> HIDE DEF t
        <5> QED
          BY <5>2, <5>3, <5>4, <5>5
      <4>2. CASE k = last
        <5>1. k \in 1..last /\ k + 1 \in (last + 1)..size
          BY <4>0, <4>2
        <5>2. End(t[k]) <= r.start /\ End(r) <= t[k + 1].start /\ End(t[k]) \in Nat /\ t[k + 1].start \in Nat
          BY <5>1, <2>3, <2>4
        <5>3. r.start \in Nat /\ End(r) \in Nat /\ r.start < End(r)
          BY <2>r, <1>r
        <5>4. \A a, b, c, d \in Nat : a <= b /\ b < c /\ c <= d => a < d
          OBVIOUS
        <5> HIDE DEF t
        <5> QED
          BY <5>2, <5>3, <5>4
      <4>3. CASE k > last
        <5>1. k \in (last + 1)..size /\ k + 1 \in (last + 1)..size /\ from(k + 1) = from(k) + 1 /\ from(k) \in Int
          BY <4>0, <4>3, <2>2
        <5>2. from(k) \in 1..n /\ from(k + 1) \in 1..n /\ from(k) \in 1..(from(k + 1) - 1)
          BY <5>1, <2>2
        <5>3. End(rs[from(k)]) < rs[from(k + 1)].start
          BY <5>2, <2>e
        <5>4. End(t[k]) = End(rs[from(k)]) /\ rs[from(k + 1)].start <= t[k + 1].start /\ End(t[k]) \in Nat /\ t[k + 1].start \in Nat
          BY <5>1, <2>4
        <5>5. rs[from(k + 1)].start \in Nat
          BY <5>2, <2>e
        <5> HIDE DEF from
        <5> QED
          BY <5>3, <5>4, <5>5
      <4> QED
        BY <4>0, <4>1, <4>2, <4>3, <2>2
    <3> QED
      BY <3>1, <3>2 DEF Canonical
  <2>6. t \in Lists
    BY <2>1, <2>5 DEF Lists
  <2>7. ASSUME NEW v \in Covered(t) PROVE v \in Covered(rs) \ Positions(r)
    <3>0. v \in Nat
      BY <2>6, CoveredIs
    <3>1. PICK k \in 1..size: t[k].start <= v /\ v < End(t[k])
      BY <2>2, <2>6, <3>0, CoveredIs
    <3>2. CASE k \in 1..last
      <4>1. k \in 1..n /\ t[k].start = rs[k].start /\ End(t[k]) <= r.start /\ End(t[k]) <= End(rs[k]) /\ End(t[k]) \in Nat
        BY <3>2, <2>3
      <4>2. rs[k].start <= v /\ v < End(rs[k]) /\ v < r.start
        BY <3>0, <3>1, <4>1, <2>e, <1>r
      <4>3. v \in Covered(rs)
        BY <3>0, <4>1, <4>2, <1>n, CoveredIs
      <4> QED
        BY <3>0, <4>2, <4>3, <1>r
    <3>3. CASE k \in (last + 1)..size
      <4> DEFINE q == from(k)
      <4>1. q \in 1..n /\ rs[q].start <= t[k].start /\ End(r) <= t[k].start /\ End(t[k]) = End(rs[q]) /\ t[k].start \in Nat
        BY <3>3, <2>4
      <4> HIDE DEF q
      <4>2. rs[q].start <= v /\ v < End(rs[q]) /\ End(r) <= v
        <5>1. rs[q].start \in Nat /\ End(rs[q]) \in Nat
          BY <4>1, <2>e
        <5>2. t[k].start <= v /\ t[k].start \in Nat
          BY <3>1, <4>1
        <5>3. rs[q].start <= v
          BY <3>0, <4>1, <5>1, <5>2
        <5>4. End(r) <= v
          BY <3>0, <4>1, <5>2, <1>r
        <5>5. v < End(rs[q])
          BY <3>1, <4>1
        <5> QED
          BY <5>3, <5>4, <5>5
      <4>3. v \in Covered(rs)
        BY <3>0, <4>1, <4>2, <1>n, CoveredIs
      <4> QED
        BY <3>0, <4>2, <4>3, <1>r
    <3> QED
      BY <3>2, <3>3, <2>2
  <2>8. ASSUME NEW v \in Covered(rs) \ Positions(r) PROVE v \in Covered(t)
    <3>0. v \in Nat
      BY CoveredIs
    <3>1. PICK k \in 1..n: rs[k].start <= v /\ v < End(rs[k])
      BY <3>0, <1>n, CoveredIs
    <3>2. v < r.start \/ End(r) <= v
      BY <3>0, <1>r
    <3>e. rs[k].start \in Nat /\ End(rs[k]) \in Nat
      BY <2>e
    <3> SUFFICES \E q \in 1..size: t[q].start <= v /\ v < End(t[q])
      BY <2>2, <2>6, <3>0, CoveredIs
    <3>3. ASSUME k \in next..n, End(r) <= v, NEW q \in Nat, q = k + last - next + 1, last + 1 <= q
          PROVE  \E p \in 1..size: t[p].start <= v /\ v < End(t[p])
      <4>1. q \in (last + 1)..size /\ q \in 1..size /\ from(q) = k
        BY <3>3, <2>2, <1>n
      <4>2. t[q].start = (IF rs[k].start < End(r) THEN End(r) ELSE rs[k].start) /\ End(t[q]) = End(rs[k])
        BY <4>1, <2>4
      <4>3. t[q].start <= v /\ v < End(t[q])
        BY <4>2, <3>1, <3>3
      <4> QED
        BY <4>1, <4>3
    <3>4. CASE k \in 1..last
      <4>1. t[k].start = rs[k].start /\ End(t[k]) = IF r.start < End(rs[k]) THEN r.start ELSE End(rs[k])
        BY <3>4, <2>3
      <4>2. CASE v < r.start
        <5>1. t[k].start <= v /\ v < End(t[k])
          BY <4>1, <4>2, <3>1
        <5>2. k \in 1..size
          BY <3>4, <2>2
        <5> QED
          BY <5>1, <5>2
      <4>3. CASE End(r) <= v
        <5>1. k = next
          <6>1. k # next => End(rs[k]) <= End(r)
            BY <3>4, <2>1
          <6> QED
            BY <6>1, <4>3, <3>0, <3>1, <3>e, <1>r
        <5>2. k \in next..n /\ k + last - next + 1 = last + 1
          BY <5>1, <2>2, <1>n
        <5> QED
          BY <5>2, <4>3, <3>3, <2>2
      <4> QED
        BY <4>2, <4>3, <3>2
    <3>5. CASE k \in (last + 1)..n
      <4>1. r.start <= rs[k].start
        BY <3>5, <2>1
      <4>2. End(r) <= v
        BY <4>1, <3>0, <3>1, <3>2, <3>e, <1>r
      <4>3. k \in next..n
        <5> SUFFICES ASSUME k < next PROVE FALSE
          BY <2>2, <1>n
        <5>1. k \in (last + 1)..(next - 1)
          BY <3>5, <2>2
        <5>2. End(rs[k]) <= End(r)
          BY <5>1, <2>1
        <5> QED
          BY <5>2, <4>2, <3>0, <3>1, <3>e, <1>r
      <4>4. k + last - next + 1 \in Nat /\ last + 1 <= k + last - next + 1
        BY <4>3, <2>2, <1>n
      <4> QED
        BY <4>2, <4>3, <4>4, <3>3
    <3> QED
      BY <3>4, <3>5, <2>2
  <2> QED
    BY <2>6, <2>7, <2>8 DEF t
<1> QED
  BY <1>1, <1>2

\* A lookup finds whether a position is covered, and how far from it on.
THEOREM LookupIs ==
    ASSUME NEW rs \in Lists, NEW v \in Nat
    PROVE  /\ Contains(rs, v) <=> v \in Covered(rs)
           /\ ContainedLengthFrom(rs, v) \in Nat
           /\ ContainedLengthFrom(rs, v) > 0 <=> v \in Covered(rs)
           /\ v .. (v + ContainedLengthFrom(rs, v) - 1) \subseteq Covered(rs)
           /\ v + ContainedLengthFrom(rs, v) \notin Covered(rs)
<1> DEFINE n == Len(rs)
           Q == {k \in DOMAIN rs: v < rs[k].start \/ v < End(rs[k])}
           i == Reaching(rs, v)
           c == ContainedLengthFrom(rs, v)
<1>n. n \in Nat /\ DOMAIN rs = 1..n
  BY ListElements
<1>e. \A k \in 1..n: rs[k].start \in Nat /\ End(rs[k]) \in Nat /\ rs[k].start < End(rs[k])
  BY <1>n, ListElements
<1>1. /\ i \in 1..(n + 1)
      /\ i <= n => v < End(rs[i])
      /\ \A k \in 1..(i - 1): End(rs[k]) <= v
  <2>1. Q \in SUBSET (1..n) /\ i = First(Q, n)
    BY <1>n DEF Reaching
  <2> HIDE DEF i
  <2>2. i \in Q \cup {n + 1} /\ i \in 1..(n + 1) /\ \A k \in Q: i <= k
    <3> HIDE DEF Q, n
    <3> QED
      BY <1>n, <2>1, FirstIs
  <2>3. ASSUME NEW k \in 1..(i - 1) PROVE End(rs[k]) <= v
    <3>1. k \in 1..n /\ k \notin Q
      BY <1>n, <2>2
    <3>2. End(rs[k]) \in Nat /\ ~(v < End(rs[k]))
      BY <3>1, <1>n, <1>e
    <3> QED
      BY <3>2
  <2>4. ASSUME i <= n PROVE v < End(rs[i])
    <3>1. i \in Q /\ i \in 1..n
      BY <2>2, <2>4, <1>n
    <3>2. rs[i].start \in Nat /\ End(rs[i]) \in Nat /\ rs[i].start < End(rs[i])
      BY <3>1, <1>e
    <3> QED
      BY <3>1, <3>2
  <2> QED
    BY <2>2, <2>3, <2>4
<1>c. Contains(rs, v) <=> i <= n /\ rs[i].start <= v
  BY DEF Contains
<1>d. c = IF Contains(rs, v) THEN End(rs[i]) - v ELSE 0
  BY DEF ContainedLengthFrom
<1> HIDE DEF i, c
<1>2. ASSUME NEW w \in Nat, v <= w
      PROVE  w \in Covered(rs) <=> \E k \in i..n: rs[k].start <= w /\ w < End(rs[k])
  <2>1. w \in Covered(rs) <=> \E k \in 1..n: rs[k].start <= w /\ w < End(rs[k])
    BY <1>n, CoveredIs
  <2>2. ASSUME NEW k \in 1..n, w < End(rs[k]) PROVE k \in i..n
    <3> SUFFICES ASSUME k \in 1..(i - 1) PROVE FALSE
      BY <1>1, <1>n
    <3>1. End(rs[k]) <= v /\ End(rs[k]) \in Nat
      BY <1>1, <1>e
    <3> QED
      BY <3>1, <2>2, <1>2
  <2>3. i..n \subseteq 1..n
    BY <1>1, <1>n
  <2> QED
    BY <2>1, <2>2, <2>3
<1>3. CASE Contains(rs, v)
  <2>1. i \in 1..n /\ i \in i..n /\ rs[i].start <= v /\ v < End(rs[i]) /\ c = End(rs[i]) - v
    BY <1>1, <1>c, <1>d, <1>3, <1>n
  <2>2. rs[i].start \in Nat /\ End(rs[i]) \in Nat
    BY <2>1, <1>e
  <2>3. c \in Nat /\ c > 0 /\ v + c = End(rs[i])
    BY <2>1, <2>2
  <2>4. ASSUME NEW w \in v..(v + c - 1) PROVE w \in Covered(rs)
    <3>1. w \in Nat /\ v <= w /\ rs[i].start <= w /\ w < End(rs[i])
      BY <2>1, <2>2, <2>3
    <3> QED
      BY <3>1, <1>2, <2>1
  <2>5. v \in Covered(rs)
    BY <2>3, <2>4
  <2>6. v + c \notin Covered(rs)
    <3> SUFFICES ASSUME v + c \in Covered(rs) PROVE FALSE
      OBVIOUS
    <3>1. PICK k \in i..n: rs[k].start <= v + c /\ v + c < End(rs[k])
      BY <1>2, <2>3
    <3>2. k \in 1..n /\ rs[k].start \in Nat
      BY <2>1, <1>e, <1>n
    <3>3. k # i
      BY <3>1, <2>2, <2>3
    <3>4. i < k
      BY <3>3, <2>1, <1>n
    <3>5. End(rs[i]) < rs[k].start
      BY <3>2, <3>4, <2>1, <1>n, Ordered
    <3> QED
      BY <3>1, <3>2, <3>5, <2>2, <2>3
  <2> QED
    BY <1>3, <2>3, <2>4, <2>5, <2>6 DEF c
<1>4. CASE ~Contains(rs, v)
  <2>1. c = 0
    BY <1>4, <1>d
  <2>2. v \notin Covered(rs)
    <3> SUFFICES ASSUME v \in Covered(rs) PROVE FALSE
      OBVIOUS
    <3>1. PICK k \in i..n: rs[k].start <= v /\ v < End(rs[k])
      BY <1>2
    <3>2. i \in 1..n /\ k \in 1..n /\ i <= n /\ i <= k
      BY <1>1, <1>n
    <3>3. ~(rs[i].start <= v)
      BY <1>c, <1>4, <3>2
    <3>4. rs[i].start \in Nat /\ rs[k].start \in Nat /\ End(rs[i]) \in Nat /\ rs[i].start < End(rs[i])
      BY <3>2, <1>e
    <3>5. CASE k = i
      BY <3>1, <3>3, <3>5
    <3>6. CASE i < k
      <4>1. End(rs[i]) < rs[k].start
        BY <3>2, <3>6, <1>n, Ordered
      <4> QED
        BY <4>1, <3>1, <3>3, <3>4
    <3> QED
      BY <3>2, <3>5, <3>6
  <2>3. v..(v + c - 1) = {} /\ v + c = v
    BY <2>1
  <2> QED
    BY <1>4, <2>1, <2>2, <2>3 DEF c
<1> QED
  BY <1>3, <1>4

\* The length of a list is a number.
LEMMA TotalLengthIs ==
    ASSUME NEW rs \in Lists
    PROVE  TotalLength(rs) \in Nat
<1> DEFINE n == Len(rs)
           step == [i \in 1..n |-> [m \in Nat |-> m + rs[i].length]]
           Sum(f) == f = [i \in 0..n |-> IF i = 0 THEN 0 ELSE f[i - 1] + rs[i].length]
<1>1. n \in Nat /\ \A i \in 1..n: rs[i].length \in Nat
  BY ListElements
<1>2. step \in [1..n -> [Nat -> Nat]]
  BY <1>1
<1>3. Loops(Nat, 0, n, step)
  <2> HIDE DEF step, n
  <2> QED
    BY <1>1, <1>2, Iterated
<1>4. PICK f \in [0..n -> Nat]: f[0] = 0 /\ \A i \in 1..n: f[i] = step[i][f[i - 1]]
  BY <1>3 DEF Loops
<1>5. ASSUME NEW i \in 1..n PROVE f[i] = f[i - 1] + rs[i].length
  <2>1. i - 1 \in 0..n
    BY <1>1
  <2>2. f[i - 1] \in Nat
    BY <2>1
  <2>3. step[i][f[i - 1]] = f[i - 1] + rs[i].length
    BY <2>2
  <2> QED
    BY <1>4, <2>3
<1>6. Sum(f)
  BY <1>4, <1>5
<1>7. Sum(CHOOSE g: Sum(g))
  <2> HIDE DEF Sum
  <2> QED
    BY <1>6
<1>8. TotalLength(rs) = (CHOOSE g: Sum(g))[n]
  BY DEF TotalLength
<1> DEFINE h == CHOOSE g: Sum(g)
<1>9. TotalLength(rs) = h[n] /\ h = [i \in 0..n |-> IF i = 0 THEN 0 ELSE h[i - 1] + rs[i].length]
  BY <1>7, <1>8
<1> HIDE DEF h
<1>10. h[0] = 0 /\ \A i \in 1..n: h[i] = h[i - 1] + rs[i].length
  BY <1>1, <1>9
<1> DEFINE T == {i \in Nat: i <= n => h[i] \in Nat}
<1>11. 0 \in T
  BY <1>10
<1>12. ASSUME NEW i \in Nat, i \in T PROVE i + 1 \in T
  <2> SUFFICES ASSUME i + 1 <= n PROVE h[i + 1] \in Nat
    OBVIOUS
  <2>1. i <= n /\ i + 1 \in 1..n /\ (i + 1) - 1 = i
    BY <1>1
  <2>2. h[i] \in Nat /\ h[i + 1] = h[i] + rs[i + 1].length
    BY <2>1, <1>12, <1>10
  <2> QED
    BY <2>1, <2>2, <1>1
<1>13. Nat \subseteq T
  <2> HIDE DEF T
  <2> QED
    BY <1>11, <1>12, AllNumbers
<1> QED
  BY <1>1, <1>9, <1>13

\* The ranges of a list, added one after the other.
LEMMA AddRangeSetIsUnion ==
    ASSUME NEW rs \in Lists, NEW other \in Lists
    PROVE  AddRangeSet(rs, other) \in Lists /\ Covered(AddRangeSet(rs, other)) = Covered(rs) \cup Covered(other)
<1> DEFINE n == Len(other)
           step == [i \in 1..n |-> [a \in Lists |-> AddRange(a, other[i])]]
           Turns(f) == f = [i \in 0..n |-> IF i = 0 THEN rs ELSE AddRange(f[i - 1], other[i])]
<1>1. n \in Nat /\ DOMAIN other = 1..n /\ \A i \in 1..n: other[i] \in RangeType
  BY ListElements
<1>2. step \in [1..n -> [Lists -> Lists]]
  BY <1>1, AddRangeIsUnion
<1>3. Loops(Lists, rs, n, step)
  <2> HIDE DEF step, n
  <2> QED
    BY <1>1, <1>2, Iterated
<1>4. PICK f \in [0..n -> Lists]: f[0] = rs /\ \A i \in 1..n: f[i] = step[i][f[i - 1]]
  BY <1>3 DEF Loops
<1>5. ASSUME NEW i \in 1..n PROVE f[i] = AddRange(f[i - 1], other[i])
  <2>1. i - 1 \in 0..n
    BY <1>1
  <2>2. f[i - 1] \in Lists
    BY <2>1
  <2>3. step[i][f[i - 1]] = AddRange(f[i - 1], other[i])
    BY <2>2
  <2> QED
    BY <1>4, <2>3
<1>6. Turns(f)
  BY <1>4, <1>5
<1>7. Turns(CHOOSE g: Turns(g))
  <2> HIDE DEF Turns
  <2> QED
    BY <1>6
<1>8. AddRangeSet(rs, other) = (CHOOSE g: Turns(g))[n]
  BY DEF AddRangeSet
<1> DEFINE h == CHOOSE g: Turns(g)
<1>9. AddRangeSet(rs, other) = h[n] /\ h = [i \in 0..n |-> IF i = 0 THEN rs ELSE AddRange(h[i - 1], other[i])]
  BY <1>7, <1>8
<1> HIDE DEF h
<1>10. h[0] = rs /\ \A i \in 1..n: h[i] = AddRange(h[i - 1], other[i])
  BY <1>1, <1>9
<1> DEFINE done(i) == UNION {Positions(other[k]): k \in 1..i}
           T == {i \in Nat: i <= n => h[i] \in Lists /\ Covered(h[i]) = Covered(rs) \cup done(i)}
<1>11. 0 \in T
  <2>1. done(0) = {}
    OBVIOUS
  <2> QED
    BY <1>10, <2>1
<1>12. ASSUME NEW i \in Nat, i \in T PROVE i + 1 \in T
  <2> SUFFICES ASSUME i + 1 <= n
               PROVE  h[i + 1] \in Lists /\ Covered(h[i + 1]) = Covered(rs) \cup done(i + 1)
    OBVIOUS
  <2>1. i <= n /\ i + 1 \in 1..n /\ (i + 1) - 1 = i
    BY <1>1
  <2>2. h[i] \in Lists /\ Covered(h[i]) = Covered(rs) \cup done(i)
    BY <2>1, <1>12
  <2>3. h[i + 1] = AddRange(h[i], other[i + 1]) /\ other[i + 1] \in RangeType
    BY <2>1, <1>1, <1>10
  <2>4. h[i + 1] \in Lists /\ Covered(h[i + 1]) = Covered(h[i]) \cup Positions(other[i + 1])
    BY <2>2, <2>3, AddRangeIsUnion
  <2>5. done(i + 1) = done(i) \cup Positions(other[i + 1])
    <3>1. 1..(i + 1) = (1..i) \cup {i + 1}
      OBVIOUS
    <3> QED
      BY <3>1
  <2> HIDE DEF done
  <2> QED
    BY <2>2, <2>4, <2>5
<1>13. Nat \subseteq T
  <2> HIDE DEF T
  <2> QED
    BY <1>11, <1>12, AllNumbers
<1>14. h[n] \in Lists /\ Covered(h[n]) = Covered(rs) \cup done(n)
  <2>1. n \in T
    <3> HIDE DEF T, n
    <3> QED
      BY <1>1, <1>13
  <2>2. n <= n
    BY <1>1
  <2> HIDE DEF n, done
  <2> QED
    BY <2>1, <2>2
<1>15. done(n) = Covered(other)
  BY <1>1 DEF Covered
<1> QED
  BY <1>9, <1>14, <1>15

\* The ranges of a list, subtracted one after the other.
LEMMA SubtractRangeSetIsDifference ==
    ASSUME NEW rs \in Lists, NEW other \in Lists
    PROVE  SubtractRangeSet(rs, other) \in Lists /\ Covered(SubtractRangeSet(rs, other)) = Covered(rs) \ Covered(other)
<1> DEFINE n == Len(other)
           step == [i \in 1..n |-> [a \in Lists |-> SubtractRange(a, other[i])]]
           Turns(f) == f = [i \in 0..n |-> IF i = 0 THEN rs ELSE SubtractRange(f[i - 1], other[i])]
<1>1. n \in Nat /\ DOMAIN other = 1..n /\ \A i \in 1..n: other[i] \in RangeType
  BY ListElements
<1>2. step \in [1..n -> [Lists -> Lists]]
  BY <1>1, SubtractRangeIsDifference
<1>3. Loops(Lists, rs, n, step)
  <2> HIDE DEF step, n
  <2> QED
    BY <1>1, <1>2, Iterated
<1>4. PICK f \in [0..n -> Lists]: f[0] = rs /\ \A i \in 1..n: f[i] = step[i][f[i - 1]]
  BY <1>3 DEF Loops
<1>5. ASSUME NEW i \in 1..n PROVE f[i] = SubtractRange(f[i - 1], other[i])
  <2>1. i - 1 \in 0..n
    BY <1>1
  <2>2. f[i - 1] \in Lists
    BY <2>1
  <2>3. step[i][f[i - 1]] = SubtractRange(f[i - 1], other[i])
    BY <2>2
  <2> QED
    BY <1>4, <2>3
<1>6. Turns(f)
  BY <1>4, <1>5
<1>7. Turns(CHOOSE g: Turns(g))
  <2> HIDE DEF Turns
  <2> QED
    BY <1>6
<1>8. SubtractRangeSet(rs, other) = (CHOOSE g: Turns(g))[n]
  BY DEF SubtractRangeSet
<1> DEFINE h == CHOOSE g: Turns(g)
<1>9. SubtractRangeSet(rs, other) = h[n] /\ h = [i \in 0..n |-> IF i = 0 THEN rs ELSE SubtractRange(h[i - 1], other[i])]
  BY <1>7, <1>8
<1> HIDE DEF h
<1>10. h[0] = rs /\ \A i \in 1..n: h[i] = SubtractRange(h[i - 1], other[i])
  BY <1>1, <1>9
<1> DEFINE done(i) == UNION {Positions(other[k]): k \in 1..i}
           T == {i \in Nat: i <= n => h[i] \in Lists /\ Covered(h[i]) = Covered(rs) \ done(i)}
<1>11. 0 \in T
  <2>1. done(0) = {}
    OBVIOUS
  <2> QED
    BY <1>10, <2>1
<1>12. ASSUME NEW i \in Nat, i \in T PROVE i + 1 \in T
  <2> SUFFICES ASSUME i + 1 <= n
               PROVE  h[i + 1] \in Lists /\ Covered(h[i + 1]) = Covered(rs) \ done(i + 1)
    OBVIOUS
  <2>1. i <= n /\ i + 1 \in 1..n /\ (i + 1) - 1 = i
    BY <1>1
  <2>2. h[i] \in Lists /\ Covered(h[i]) = Covered(rs) \ done(i)
    BY <2>1, <1>12
  <2>3. h[i + 1] = SubtractRange(h[i], other[i + 1]) /\ other[i + 1] \in RangeType
    BY <2>1, <1>1, <1>10
  <2>4. h[i + 1] \in Lists /\ Covered(h[i + 1]) = Covered(h[i]) \ Positions(other[i + 1])
    BY <2>2, <2>3, SubtractRangeIsDifference
  <2>5. done(i + 1) = done(i) \cup Positions(other[i + 1])
    <3>1. 1..(i + 1) = (1..i) \cup {i + 1}
      OBVIOUS
    <3> QED
      BY <3>1
  <2> HIDE DEF done
  <2> QED
    BY <2>2, <2>4, <2>5
<1>13. Nat \subseteq T
  <2> HIDE DEF T
  <2> QED
    BY <1>11, <1>12, AllNumbers
<1>14. h[n] \in Lists /\ Covered(h[n]) = Covered(rs) \ done(n)
  <2>1. n \in T
    <3> HIDE DEF T, n
    <3> QED
      BY <1>1, <1>13
  <2>2. n <= n
    BY <1>1
  <2> HIDE DEF n, done
  <2> QED
    BY <2>1, <2>2
<1>15. done(n) = Covered(other)
  BY <1>1 DEF Covered
<1> QED
  BY <1>9, <1>14, <1>15

\* The walk through two lists: where it is in each, and what it has found. It
\* has found the positions of two ranges of which one is behind it.
In(x, v) == x.start <= v /\ v < End(x)
Walks(a, b) == [i: 1..(Len(a) + 1), j: 1..(Len(b) + 1), result: Lists]
Found(a, b, walk) ==
    \A v \in Nat: v \in Covered(walk.result) <=>
        \E p \in DOMAIN a, q \in DOMAIN b: In(a[p], v) /\ In(b[q], v) /\ (p < walk.i \/ q < walk.j)

\* A turn leaves behind a range that no range from the other's on reaches
\* beyond what the turn has found.
LEMMA TurnIs ==
    ASSUME NEW a \in Lists, NEW b \in Lists, NEW walk \in Walks(a, b)
    PROVE  LET turn == IntersectionTurn(a, b, walk)
           IN /\ turn \in Walks(a, b)
              /\ Found(a, b, walk) => Found(a, b, turn)
              /\ walk.i <= Len(a) /\ walk.j <= Len(b) => turn.i + turn.j = walk.i + walk.j + 1
              /\ ~(walk.i <= Len(a) /\ walk.j <= Len(b)) => turn = walk
<1> DEFINE turn == IntersectionTurn(a, b, walk)
           x == a[walk.i]
           y == b[walk.j]
           start == Max({x.start, y.start})
           end == Min({End(x), End(y)})
           overlap == Span(start, end - start)
<1>a. /\ Len(a) \in Nat /\ DOMAIN a = 1..Len(a) /\ Len(b) \in Nat /\ DOMAIN b = 1..Len(b)
      /\ \A k \in DOMAIN a: a[k].start \in Nat /\ End(a[k]) \in Nat /\ a[k].start < End(a[k])
      /\ \A k \in DOMAIN b: b[k].start \in Nat /\ End(b[k]) \in Nat /\ b[k].start < End(b[k])
  BY ListElements
<1>w. walk.i \in 1..(Len(a) + 1) /\ walk.j \in 1..(Len(b) + 1) /\ walk.result \in Lists
  BY DEF Walks
<1>1. CASE ~(walk.i <= Len(a) /\ walk.j <= Len(b))
  <2>1. walk.i > Len(a) \/ walk.j > Len(b)
    BY <1>1, <1>a, <1>w
  <2>2. turn = walk
    BY <2>1 DEF IntersectionTurn
  <2> QED
    BY <1>1, <2>2
<1>2. CASE walk.i <= Len(a) /\ walk.j <= Len(b)
  <2>0. ~(walk.i > Len(a) \/ walk.j > Len(b))
    BY <1>2, <1>a, <1>w
  <2>x. /\ walk.i \in DOMAIN a /\ x.start \in Nat /\ End(x) \in Nat /\ x.start < End(x)
        /\ walk.j \in DOMAIN b /\ y.start \in Nat /\ End(y) \in Nat /\ y.start < End(y)
    BY <1>2, <1>a, <1>w
  <2>a. ASSUME NEW p \in DOMAIN a, walk.i < p PROVE End(x) < a[p].start
    BY <2>a, <2>x, Ordered
  <2>b. ASSUME NEW q \in DOMAIN b, walk.j < q PROVE End(y) < b[q].start
    BY <2>b, <2>x, Ordered
  <2>l. ASSUME NEW v \in Nat, NEW q \in DOMAIN b, walk.j <= q, In(b[q], v)
        PROVE  y.start <= v /\ (q # walk.j => End(y) < v)
    <3>1. b[q].start <= v /\ b[q].start \in Nat
      BY <2>l, <1>a DEF In
    <3>2. CASE q = walk.j
      BY <3>1, <3>2
    <3>3. CASE q # walk.j
      <4>1. walk.j < q
        BY <3>3, <2>l, <1>a, <1>w
      <4>2. End(y) < b[q].start
        BY <4>1, <2>b
      <4> HIDE DEF y
      <4>3. End(y) < v /\ y.start <= v
        BY <4>2, <3>1, <2>x
      <4> QED
        BY <4>3
    <3> QED
      BY <3>2, <3>3
  <2>k. ASSUME NEW v \in Nat, NEW p \in DOMAIN a, walk.i <= p, In(a[p], v)
        PROVE  x.start <= v /\ (p # walk.i => End(x) < v)
    <3>1. a[p].start <= v /\ a[p].start \in Nat
      BY <2>k, <1>a DEF In
    <3>2. CASE p = walk.i
      BY <3>1, <3>2
    <3>3. CASE p # walk.i
      <4>1. walk.i < p
        BY <3>3, <2>k, <1>a, <1>w
      <4>2. End(x) < a[p].start
        BY <4>1, <2>a
      <4> HIDE DEF x
      <4>3. End(x) < v /\ x.start <= v
        BY <4>2, <3>1, <2>x
      <4> QED
        BY <4>3
    <3> QED
      BY <3>2, <3>3
  <2> HIDE DEF x, y
  <2> DEFINE nextA == [walk EXCEPT !.i = @ + 1]
             nextB == [walk EXCEPT !.j = @ + 1]
  <2>A. /\ nextA \in Walks(a, b) /\ nextA.i = walk.i + 1 /\ nextA.j = walk.j /\ nextA.result = walk.result
    BY <1>2, <1>a, <1>w DEF Walks
  <2>B. /\ nextB \in Walks(a, b) /\ nextB.j = walk.j + 1 /\ nextB.i = walk.i /\ nextB.result = walk.result
    BY <1>2, <1>a, <1>w DEF Walks
  <2>t. turn = IF End(x) <= y.start THEN nextA
               ELSE IF End(y) <= x.start THEN nextB
               ELSE [IF End(x) <= End(y) THEN nextA ELSE nextB EXCEPT !.result = AddRange(@, overlap)]
    BY <2>0 DEF IntersectionTurn, x, y
  <2> HIDE DEF turn, nextA, nextB
  <2> DEFINE FoundBy(res, i, j) ==
                \A v \in Nat: v \in Covered(res) <=>
                    \E p \in DOMAIN a, q \in DOMAIN b: In(a[p], v) /\ In(b[q], v) /\ (p < i \/ q < j)
  <2>p. ASSUME NEW p \in DOMAIN a PROVE p < walk.i + 1 <=> p < walk.i \/ p = walk.i
    BY <1>a, <1>w
  <2>q. ASSUME NEW q \in DOMAIN b PROVE q < walk.j + 1 <=> q < walk.j \/ q = walk.j
    BY <1>a, <1>w
  <2>c. \A q \in DOMAIN b: q < walk.j \/ walk.j <= q
    BY <1>a, <1>w
  <2>d. \A p \in DOMAIN a: p < walk.i \/ walk.i <= p
    BY <1>a, <1>w
  <2>1. CASE End(x) <= y.start
    <3>1. turn = nextA
      BY <2>1, <2>t
    <3>2. ASSUME NEW v \in Nat, NEW q \in DOMAIN b, In(x, v), In(b[q], v) PROVE q < walk.j
      <4> SUFFICES ASSUME walk.j <= q PROVE FALSE
        BY <2>c
      <4>1. y.start <= v
        BY <3>2, <2>l
      <4> QED
        BY <4>1, <3>2, <2>1, <2>x DEF In
    <3>3. FoundBy(walk.result, walk.i, walk.j) => FoundBy(walk.result, walk.i + 1, walk.j)
      BY <3>2, <2>p DEF x
    <3> QED
      BY <3>1, <3>3, <2>A, <1>2, <1>w DEF Found, turn
  <2>2. CASE ~(End(x) <= y.start) /\ End(y) <= x.start
    <3>1. turn = nextB
      BY <2>2, <2>t
    <3>2. ASSUME NEW v \in Nat, NEW p \in DOMAIN a, In(a[p], v), In(y, v) PROVE p < walk.i
      <4> SUFFICES ASSUME walk.i <= p PROVE FALSE
        BY <2>d
      <4>1. x.start <= v
        BY <3>2, <2>k
      <4> QED
        BY <4>1, <3>2, <2>2, <2>x DEF In
    <3>3. FoundBy(walk.result, walk.i, walk.j) => FoundBy(walk.result, walk.i, walk.j + 1)
      BY <3>2, <2>q DEF y
    <3> QED
      <4>1. turn.i + turn.j = walk.i + walk.j + 1
        BY <3>1, <2>B, <1>w
      <4>2. Found(a, b, walk) => Found(a, b, turn)
        BY <3>1, <3>3, <2>B DEF Found
      <4> QED
        BY <4>1, <4>2, <3>1, <2>B, <1>2 DEF turn
  <2>3. CASE ~(End(x) <= y.start) /\ ~(End(y) <= x.start)
    <3>1. start = IF x.start <= y.start THEN y.start ELSE x.start
      <4>1. {x.start, y.start} \in SUBSET Nat
        BY <2>x
      <4> DEFINE m == IF x.start <= y.start THEN y.start ELSE x.start
      <4>2. m \in {x.start, y.start} /\ \A z \in {x.start, y.start}: z <= m
        BY <2>x
      <4> HIDE DEF m
      <4>3. Max({x.start, y.start}) = m
        BY <4>1, <4>2, MaxIs
      <4> QED
        BY <4>3 DEF m
    <3>2. end = IF End(x) <= End(y) THEN End(x) ELSE End(y)
      <4>1. {End(x), End(y)} \in SUBSET Nat
        BY <2>x
      <4> DEFINE m == IF End(x) <= End(y) THEN End(x) ELSE End(y)
      <4>2. m \in {End(x), End(y)} /\ \A z \in {End(x), End(y)}: m <= z
        BY <2>x
      <4> HIDE DEF m
      <4>3. Min({End(x), End(y)}) = m
        BY <4>1, <4>2, MinIs
      <4> QED
        BY <4>3 DEF m
    <3> HIDE DEF start, end
    <3>3. start \in Nat /\ end \in Nat /\ start < end
      BY <3>1, <3>2, <2>x, <2>3
    <3>4. overlap \in RangeType /\ overlap.start = start /\ End(overlap) = end
      BY <3>3 DEF Span, RangeType, End
    <3>5. \A v \in Nat: v \in Positions(overlap) <=> In(x, v) /\ In(y, v)
      <4> TAKE v \in Nat
      <4>1. v \in Positions(overlap) <=> start <= v /\ v < end
        BY <3>3, <3>4 DEF Positions
      <4>2. start <= v <=> x.start <= v /\ y.start <= v
        BY <3>1, <2>x
      <4>3. v < end <=> v < End(x) /\ v < End(y)
        BY <3>2, <2>x
      <4> QED
        BY <4>1, <4>2, <4>3 DEF In
    <3> HIDE DEF overlap
    <3> DEFINE res == AddRange(walk.result, overlap)
    <3>6. res \in Lists /\ Covered(res) = Covered(walk.result) \cup Positions(overlap)
      BY <3>4, <1>w, AddRangeIsUnion
    <3> HIDE DEF res
    <3>7. CASE End(x) <= End(y)
      <4>1. turn = [nextA EXCEPT !.result = AddRange(@, overlap)]
        BY <2>3, <3>7, <2>t
      <4>2. turn \in Walks(a, b) /\ turn.i = walk.i + 1 /\ turn.j = walk.j /\ turn.result = res
        BY <4>1, <2>A, <3>6 DEF Walks, res
      <4>3. ASSUME NEW v \in Nat, NEW q \in DOMAIN b, In(x, v), In(b[q], v) PROVE q <= walk.j
        <5> SUFFICES ASSUME walk.j <= q, q # walk.j PROVE FALSE
          BY <1>a, <1>w
        <5>1. End(y) < v
          BY <4>3, <2>l
        <5> QED
          BY <5>1, <4>3, <3>7, <2>x DEF In
      <4>4. ASSUME NEW v \in Nat, NEW q \in DOMAIN b, In(x, v), In(b[q], v) PROVE q < walk.j \/ In(y, v)
        <5>1. q < walk.j \/ q = walk.j
          BY <4>3, <4>4, <1>a, <1>w
        <5> QED
          BY <5>1, <4>4 DEF y
      <4>5. FoundBy(walk.result, walk.i, walk.j) => FoundBy(res, walk.i + 1, walk.j)
        <5> SUFFICES ASSUME FoundBy(walk.result, walk.i, walk.j), NEW v \in Nat
                     PROVE  v \in Covered(res) <=>
                              \E p \in DOMAIN a, q \in DOMAIN b:
                                 In(a[p], v) /\ In(b[q], v) /\ (p < walk.i + 1 \/ q < walk.j)
          OBVIOUS
        <5>1. v \in Covered(res) <=> v \in Covered(walk.result) \/ (In(x, v) /\ In(y, v))
          BY <3>5, <3>6
        <5>2. v \in Covered(walk.result) <=>
                 \E p \in DOMAIN a, q \in DOMAIN b: In(a[p], v) /\ In(b[q], v) /\ (p < walk.i \/ q < walk.j)
          OBVIOUS
        <5>3. ASSUME NEW p \in DOMAIN a, NEW q \in DOMAIN b, In(a[p], v), In(b[q], v), p < walk.i + 1 \/ q < walk.j
              PROVE  (p < walk.i \/ q < walk.j) \/ (In(x, v) /\ In(y, v))
          BY <5>3, <4>4, <2>p DEF x
        <5>4. ASSUME In(x, v), In(y, v)
              PROVE  \E p \in DOMAIN a, q \in DOMAIN b:
                        In(a[p], v) /\ In(b[q], v) /\ (p < walk.i + 1 \/ q < walk.j)
          <6>1. In(a[walk.i], v) /\ In(b[walk.j], v) /\ walk.i \in DOMAIN a /\ walk.j \in DOMAIN b /\ walk.i < walk.i + 1
            BY <5>4, <2>x, <1>w DEF x, y
          <6> QED
            BY <6>1
        <5>5. \A p \in DOMAIN a: p < walk.i => p < walk.i + 1
          BY <2>p
        <5> HIDE DEF FoundBy
        <5> QED
          BY <5>1, <5>2, <5>3, <5>4, <5>5
      <4> QED
        BY <4>2, <4>5, <1>2, <1>w DEF Found, turn
    <3>8. CASE ~(End(x) <= End(y))
      <4>1. turn = [nextB EXCEPT !.result = AddRange(@, overlap)]
        BY <2>3, <3>8, <2>t
      <4>2. turn \in Walks(a, b) /\ turn.i = walk.i /\ turn.j = walk.j + 1 /\ turn.result = res
        BY <4>1, <2>B, <3>6 DEF Walks, res
      <4>3. ASSUME NEW v \in Nat, NEW p \in DOMAIN a, In(a[p], v), In(y, v) PROVE p <= walk.i
        <5> SUFFICES ASSUME walk.i <= p, p # walk.i PROVE FALSE
          BY <1>a, <1>w
        <5>1. End(x) < v
          BY <4>3, <2>k
        <5> QED
          BY <5>1, <4>3, <3>8, <2>x DEF In
      <4>4. ASSUME NEW v \in Nat, NEW p \in DOMAIN a, In(a[p], v), In(y, v) PROVE p < walk.i \/ In(x, v)
        <5>1. p < walk.i \/ p = walk.i
          BY <4>3, <4>4, <1>a, <1>w
        <5> QED
          BY <5>1, <4>4 DEF x
      <4>5. FoundBy(walk.result, walk.i, walk.j) => FoundBy(res, walk.i, walk.j + 1)
        <5> SUFFICES ASSUME FoundBy(walk.result, walk.i, walk.j), NEW v \in Nat
                     PROVE  v \in Covered(res) <=>
                              \E p \in DOMAIN a, q \in DOMAIN b:
                                 In(a[p], v) /\ In(b[q], v) /\ (p < walk.i \/ q < walk.j + 1)
          OBVIOUS
        <5>1. v \in Covered(res) <=> v \in Covered(walk.result) \/ (In(x, v) /\ In(y, v))
          BY <3>5, <3>6
        <5>2. v \in Covered(walk.result) <=>
                 \E p \in DOMAIN a, q \in DOMAIN b: In(a[p], v) /\ In(b[q], v) /\ (p < walk.i \/ q < walk.j)
          OBVIOUS
        <5>3. ASSUME NEW p \in DOMAIN a, NEW q \in DOMAIN b, In(a[p], v), In(b[q], v), p < walk.i \/ q < walk.j + 1
              PROVE  (p < walk.i \/ q < walk.j) \/ (In(x, v) /\ In(y, v))
          BY <5>3, <4>4, <2>q DEF y
        <5>4. ASSUME In(x, v), In(y, v)
              PROVE  \E p \in DOMAIN a, q \in DOMAIN b:
                        In(a[p], v) /\ In(b[q], v) /\ (p < walk.i \/ q < walk.j + 1)
          <6>1. In(a[walk.i], v) /\ In(b[walk.j], v) /\ walk.i \in DOMAIN a /\ walk.j \in DOMAIN b /\ walk.j < walk.j + 1
            BY <5>4, <2>x, <1>w DEF x, y
          <6> QED
            BY <6>1
        <5>5. \A q \in DOMAIN b: q < walk.j => q < walk.j + 1
          BY <2>q
        <5> HIDE DEF FoundBy
        <5> QED
          BY <5>1, <5>2, <5>3, <5>4, <5>5
      <4> QED
        <5>1. turn.i + turn.j = walk.i + walk.j + 1
          BY <4>2, <1>w
        <5>2. Found(a, b, walk) => Found(a, b, turn)
          BY <4>2, <4>5 DEF Found
        <5> QED
          BY <4>2, <5>1, <5>2, <1>2 DEF turn
    <3> QED
      BY <3>7, <3>8
  <2> QED
    BY <2>1, <2>2, <2>3
<1> QED
  BY <1>1, <1>2

\* The intersection of two canonical lists is a canonical list of what is in both.
THEOREM IntersectionIs ==
    ASSUME NEW a \in Lists, NEW b \in Lists
    PROVE  Intersection(a, b) \in Lists /\ Covered(Intersection(a, b)) = Covered(a) \cap Covered(b)
<1> DEFINE n == Len(a) + Len(b)
           init == [i |-> 1, j |-> 1, result |-> <<>>]
           step == [k \in 1..n |-> [w \in Walks(a, b) |-> IntersectionTurn(a, b, w)]]
           Turns(f) == f = [k \in 0..n |-> IF k = 0 THEN init ELSE IntersectionTurn(a, b, f[k - 1])]
<1>1. /\ Len(a) \in Nat /\ Len(b) \in Nat /\ n \in Nat
      /\ DOMAIN a = 1..Len(a) /\ DOMAIN b = 1..Len(b)
  BY ListElements
<1>e. <<>> \in Lists /\ Covered(<<>>) = {}
  BY DEF Lists, Canonical, Covered
<1>i. init \in Walks(a, b) /\ Found(a, b, init)
  <2>1. init \in Walks(a, b)
    BY <1>1, <1>e DEF Walks
  <2>2. Found(a, b, init)
    BY <1>1, <1>e DEF Found
  <2> QED
    BY <2>1, <2>2
<1>2. step \in [1..n -> [Walks(a, b) -> Walks(a, b)]]
  BY TurnIs
<1>3. Loops(Walks(a, b), init, n, step)
  <2> HIDE DEF step, n, init
  <2> QED
    BY <1>1, <1>2, <1>i, Iterated
<1>4. PICK f \in [0..n -> Walks(a, b)]: f[0] = init /\ \A k \in 1..n: f[k] = step[k][f[k - 1]]
  BY <1>3 DEF Loops
<1>5. ASSUME NEW k \in 1..n PROVE f[k] = IntersectionTurn(a, b, f[k - 1])
  <2>1. k - 1 \in 0..n
    BY <1>1
  <2>2. f[k - 1] \in Walks(a, b)
    BY <2>1
  <2>3. step[k][f[k - 1]] = IntersectionTurn(a, b, f[k - 1])
    BY <2>2
  <2> QED
    BY <1>4, <2>3
<1>6. Turns(f)
  <2> HIDE DEF init
  <2> QED
    BY <1>4, <1>5
<1>7. Turns(CHOOSE g: Turns(g))
  <2> HIDE DEF Turns
  <2> QED
    BY <1>6
<1>8. Intersection(a, b) = (CHOOSE g: Turns(g))[n].result
  BY DEF Intersection
<1> DEFINE h == CHOOSE g: Turns(g)
<1>9. Intersection(a, b) = h[n].result
      /\ h = [k \in 0..n |-> IF k = 0 THEN init ELSE IntersectionTurn(a, b, h[k - 1])]
  BY <1>7, <1>8
<1> HIDE DEF h, init
<1>10. h[0] = init /\ \A k \in 1..n: h[k] = IntersectionTurn(a, b, h[k - 1])
  BY <1>1, <1>9
<1> DEFINE over(w) == ~(w.i <= Len(a) /\ w.j <= Len(b))
           T == {k \in Nat: k <= n => /\ h[k] \in Walks(a, b) /\ Found(a, b, h[k])
                                      /\ over(h[k]) \/ h[k].i + h[k].j = k + 2}
<1>11. 0 \in T
  <2>1. init.i + init.j = 0 + 2
    BY DEF init
  <2> QED
    BY <2>1, <1>10, <1>i
<1>12. ASSUME NEW k \in Nat, k \in T PROVE k + 1 \in T
  <2> SUFFICES ASSUME k + 1 <= n
               PROVE  /\ h[k + 1] \in Walks(a, b) /\ Found(a, b, h[k + 1])
                      /\ over(h[k + 1]) \/ h[k + 1].i + h[k + 1].j = (k + 1) + 2
    OBVIOUS
  <2>1. k <= n /\ k + 1 \in 1..n /\ (k + 1) - 1 = k
    BY <1>1
  <2> DEFINE w == h[k]
             u == h[k + 1]
  <2>2. w \in Walks(a, b) /\ Found(a, b, w) /\ (over(w) \/ w.i + w.j = k + 2)
    BY <2>1, <1>12
  <2>3. u = IntersectionTurn(a, b, w)
    BY <2>1, <1>10
  <2> HIDE DEF w, u
  <2>4. /\ u \in Walks(a, b) /\ Found(a, b, u)
        /\ ~over(w) => u.i + u.j = w.i + w.j + 1
        /\ over(w) => u = w
    BY <2>2, <2>3, TurnIs
  <2>5. CASE over(w)
    BY <2>2, <2>4, <2>5 DEF u
  <2>6. CASE ~over(w)
    <3>1. u.i + u.j = (k + 2) + 1
      BY <2>2, <2>4, <2>6
    <3>2. (k + 2) + 1 = (k + 1) + 2
      OBVIOUS
    <3> QED
      BY <2>4, <3>1, <3>2 DEF u
  <2> QED
    BY <2>5, <2>6
<1>13. Nat \subseteq T
  <2> HIDE DEF T
  <2> QED
    BY <1>11, <1>12, AllNumbers
<1>14. h[n] \in Walks(a, b) /\ Found(a, b, h[n]) /\ (over(h[n]) \/ h[n].i + h[n].j = n + 2)
  <2>1. n \in T /\ n <= n
    <3> HIDE DEF T, n
    <3> QED
      BY <1>1, <1>13
  <2> HIDE DEF n, over
  <2> QED
    BY <2>1
<1> DEFINE w == h[n]
<1>15. w.i \in 1..(Len(a) + 1) /\ w.j \in 1..(Len(b) + 1) /\ w.result \in Lists
  BY <1>14 DEF Walks
<1>16. over(w)
  <2> HIDE DEF w
  <2> SUFFICES ASSUME w.i <= Len(a), w.j <= Len(b), w.i + w.j = n + 2 PROVE FALSE
    BY <1>14 DEF w
  <2> QED
    BY <1>15, <1>1
<1> HIDE DEF w, n
<1>17. ASSUME NEW v \in Nat PROVE v \in Covered(w.result) <=> v \in Covered(a) /\ v \in Covered(b)
  <2>1. v \in Covered(a) <=> \E p \in DOMAIN a: In(a[p], v)
    BY CoveredIs DEF In
  <2>2. v \in Covered(b) <=> \E q \in DOMAIN b: In(b[q], v)
    BY CoveredIs DEF In
  <2>3. v \in Covered(w.result) <=>
           \E p \in DOMAIN a, q \in DOMAIN b: In(a[p], v) /\ In(b[q], v) /\ (p < w.i \/ q < w.j)
    BY <1>14 DEF Found, w
  <2>4. \A p \in DOMAIN a, q \in DOMAIN b: p < w.i \/ q < w.j
    BY <1>1, <1>15, <1>16
  <2> QED
    BY <2>1, <2>2, <2>3, <2>4
<1>18. Covered(w.result) \subseteq Nat /\ Covered(a) \subseteq Nat
  BY <1>15, CoveredIs
<1> QED
  BY <1>9, <1>15, <1>17, <1>18 DEF w

-----------------------------------------------------------------------------
(* The streamed file: its types and its invariant.                             *)

DataType == [kind: {"Data", "Measure"}, range: RangeType]
CmdType == [kind: {"Fetch", "Close"}, range: RangeType]
UserType == [at: {"idle", "checks", "asleep", "woken", "seeks"}, what: {"none", "read", "fetch"},
             start: Nat, length: Nat, result: {"none", "data", "end", "broken", "timeout"},
             real: BOOLEAN, again: BOOLEAN]
TaskType == [start: Nat, length: Nat, got: Nat, at: {"queued", "runs", "ends"}]

\* What a request has not brought.
Rest(t) == (t.start + t.got) .. (End(t) - 1)

\* The types of what the actions work on: the lists are canonical and lie, like
\* all ranges under way, in the file; nothing happens before it has been opened.
Typed ==
    /\ loop \in {"opening", "runs", "prefetch", "complete", "closed", "failed"}
    /\ urls \in 0..MaxUrls /\ streaming \in BOOLEAN /\ position \in 0..FileSize
    /\ requested \in Lists /\ Covered(requested) \subseteq Blocks
    /\ downloaded \in Lists /\ Covered(downloaded) \subseteq Blocks
    /\ user \in UserType /\ user.start + user.length <= FileSize
    /\ cmds \in Seq(CmdType) /\ \A i \in DOMAIN cmds: cmds[i].range.start <= FileSize
    /\ data \in Seq(DataType) /\ \A i \in DOMAIN data: data[i].kind = "Measure" => data[i].range.length = 0
    /\ \A t \in tasks: /\ t \in TaskType /\ t.length > 0 /\ End(t) <= FileSize /\ t.got <= t.length
                       /\ t.at # "ends" => t.got = 0
    /\ file \subseteq Blocks /\ complete \in BOOLEAN /\ fails \in 0..MaxFails /\ slow \in BOOLEAN
    /\ loop = "opening" => requested = <<>> /\ downloaded = <<>> /\ tasks = {} /\ user.at = "idle"

\* What has been received and waits to be written.
Coming(ds) == UNION {Positions(ds[i].range): i \in DOMAIN ds}

\* What requests have not brought is requested, once; what they have brought is
\* requested, and is in the file or on its way to it.
Apart ==
    /\ \A t \in tasks: /\ Rest(t) \subseteq Covered(requested) \ Covered(downloaded)
                       /\ Rest(t) \cap Coming(data) = {}
                       /\ \A u \in tasks \ {t}: Rest(t) \cap Rest(u) = {}
    /\ Coming(data) \subseteq Covered(requested)

Arrives == Listening => \A t \in tasks: t.at = "ends" =>
    Positions(t) \ Rest(t) \subseteq Covered(downloaded) \cup Coming(data)

\* A blocking fetch that sleeps again misses a block that is requested, or will
\* be when the commands have been handled.
Awaited(b) ==
    \/ b \in Covered(requested)
    \/ \E i \in DOMAIN cmds: cmds[i].kind = "Fetch" /\ b \in Positions(cmds[i].range)

Persists == user.at = "asleep" /\ user.what = "fetch" /\ user.again /\ Listening =>
    \E b \in user.start .. (user.start + user.length - 1): b \notin Covered(downloaded) /\ Awaited(b)

\* RequestedIsComing, in terms of sets.
Comes == Listening =>
    Covered(requested) \subseteq Covered(downloaded) \cup Coming(data) \cup UNION {Positions(t): t \in tasks}

FetchInv == Typed /\ Apart /\ Arrives /\ Comes /\ ReadsAreReal /\ Persists

\* The empty list, and a list of one range.
LEMMA SmallLists ==
    /\ <<>> \in Lists /\ Covered(<<>>) = {}
    /\ \A r \in RangeType: r.length > 0 => <<r>> \in Lists /\ Covered(<<r>>) = Positions(r)
<1>1. <<>> \in Lists /\ Covered(<<>>) = {}
  BY DEF Lists, Canonical, Covered
<1>2. ASSUME NEW r \in RangeType, r.length > 0
      PROVE  <<r>> \in Lists /\ Covered(<<r>>) = Positions(r)
  <2>1. <<r>> \in Seq(RangeType) /\ Len(<<r>>) = 1 /\ DOMAIN <<r>> = {1} /\ <<r>>[1] = r
    OBVIOUS
  <2>2. Canonical(<<r>>)
    BY <2>1, <1>2 DEF Canonical
  <2>3. Covered(<<r>>) = Positions(r)
    BY <2>1 DEF Covered
  <2> QED
    BY <2>1, <2>2, <2>3 DEF Lists
<1> QED
  BY <1>1, <1>2

\* The positions of a range with numbers for its start and length.
LEMMA PositionsOf ==
    ASSUME NEW r, r.start \in Nat, r.length \in Nat
    PROVE  /\ End(r) \in Nat /\ End(r) = r.start + r.length
           /\ Positions(r) \subseteq Nat
           /\ \A v \in Nat: v \in Positions(r) <=> r.start <= v /\ v < r.start + r.length
BY DEF End, Positions

\* A range made of a start and a length.
LEMMA SpanIs ==
    ASSUME NEW s \in Nat, NEW l \in Nat
    PROVE  /\ Span(s, l) \in RangeType /\ Span(s, l).start = s /\ Span(s, l).length = l
           /\ Positions(Span(s, l)) = {v \in Nat: s <= v /\ v < s + l}
           /\ Positions(Span(s, l)) = s..(s + l - 1)
BY DEF Span, RangeType, Positions, End

\* A range of a list that lies in the file does, and meets no other of the list.
LEMMA RangesOf ==
    ASSUME NEW rs \in Lists, Covered(rs) \subseteq Blocks, NEW i \in DOMAIN rs
    PROVE  /\ rs[i] \in RangeType /\ rs[i].start \in Nat /\ rs[i].length \in Nat /\ rs[i].length > 0
           /\ rs[i].start < FileSize /\ End(rs[i]) <= FileSize
           /\ Positions(rs[i]) \subseteq Covered(rs)
           /\ \A j \in DOMAIN rs: i # j => Positions(rs[i]) \cap Positions(rs[j]) = {}
<1>1. /\ rs[i] \in RangeType /\ rs[i].start \in Nat /\ rs[i].length \in Nat /\ rs[i].length > 0
      /\ End(rs[i]) \in Nat /\ rs[i].start < End(rs[i])
  BY ListElements
<1>2. Positions(rs[i]) \subseteq Covered(rs)
  BY DEF Covered
<1>3. rs[i].start \in Positions(rs[i]) /\ End(rs[i]) - 1 \in Positions(rs[i])
  BY <1>1 DEF Positions
<1>4. rs[i].start < FileSize /\ End(rs[i]) <= FileSize
  BY <1>1, <1>2, <1>3, FetchAssumption DEF Blocks
<1>5. ASSUME NEW j \in DOMAIN rs, NEW k \in DOMAIN rs, j < k
      PROVE  Positions(rs[j]) \cap Positions(rs[k]) = {}
  <2>1. End(rs[j]) < rs[k].start
    BY <1>5, Ordered
  <2>2. rs[j].start \in Nat /\ End(rs[j]) \in Nat /\ rs[k].start \in Nat /\ End(rs[k]) \in Nat
    BY ListElements
  <2> QED
    BY <2>1, <2>2 DEF Positions
<1>6. ASSUME NEW j \in DOMAIN rs, i # j PROVE Positions(rs[i]) \cap Positions(rs[j]) = {}
  <2>1. i \in Nat /\ j \in Nat
    BY ListElements
  <2>2. i < j \/ j < i
    BY <2>1, <1>6
  <2> QED
    BY <2>2, <1>5
<1> QED
  BY <1>1, <1>2, <1>4, <1>6

\* What is missing of a list.
LEMMA MissingIs ==
    ASSUME NEW rs \in Lists, NEW d \in Lists, NEW r \in Lists
    PROVE  LET missing == SubtractRangeSet(SubtractRangeSet(rs, d), r)
           IN missing \in Lists /\ Covered(missing) = (Covered(rs) \ Covered(d)) \ Covered(r)
<1>1. SubtractRangeSet(rs, d) \in Lists /\ Covered(SubtractRangeSet(rs, d)) = Covered(rs) \ Covered(d)
  BY SubtractRangeSetIsDifference
<1> QED
  BY <1>1, SubtractRangeSetIsDifference

\* download_range asks for what is missing of the range it is given, and for
\* nothing that is there or coming.
LEMMA WantedIs ==
    ASSUME downloaded \in Lists, requested \in Lists, streaming \in BOOLEAN,
           NEW offset \in 0..FileSize, NEW length \in Nat, NEW throughput \in Throughputs
    PROVE  LET wanted == Wanted(offset, length, throughput)
           IN /\ wanted \in Lists
              /\ Covered(wanted) \subseteq (Blocks \ Covered(downloaded)) \ Covered(requested)
              /\ \A b \in Blocks: offset <= b /\ b < offset + length =>
                    b \in Covered(downloaded) \cup Covered(requested) \cup Covered(wanted)
<1> DEFINE wanted == Wanted(offset, length, throughput)
           least == Maximum(length, MinDownload)
           most == IF streaming THEN Maximum(least, throughput) ELSE least
           clipped == IF offset + most > FileSize THEN FileSize - offset ELSE most
           all == AddRange(<<>>, Span(offset, clipped))
<1>1. MinDownload \in Nat /\ throughput \in Nat /\ FileSize \in Nat /\ offset \in Nat /\ offset <= FileSize
  BY FetchAssumption
<1>2. least \in Nat /\ length <= least
  BY <1>1 DEF Maximum
<1>3. most \in Nat /\ length <= most
  <2> HIDE DEF least
  <2> QED
    BY <1>1, <1>2 DEF Maximum
<1>4. clipped \in Nat /\ offset + clipped <= FileSize
      /\ \A b \in Nat: b < FileSize /\ b < offset + length => b < offset + clipped
  <2> HIDE DEF most
  <2> QED
    BY <1>1, <1>3
<1> HIDE DEF clipped
<1>5. all \in Lists /\ Covered(all) = Positions(Span(offset, clipped))
  <2> DEFINE range == Span(offset, clipped)
             none == <<>>
  <2>1. range \in RangeType
    BY <1>1, <1>4, SpanIs
  <2>2. none \in Lists /\ Covered(none) = {}
    BY SmallLists
  <2>3. all = AddRange(none, range)
    OBVIOUS
  <2> HIDE DEF range, none, all
  <2>4. AddRange(none, range) \in Lists /\ Covered(AddRange(none, range)) = Covered(none) \cup Positions(range)
    BY <2>1, <2>2, AddRangeIsUnion
  <2>5. all \in Lists /\ Covered(all) = Positions(range)
    BY <2>2, <2>3, <2>4
  <2> QED
    BY <2>5 DEF range
<1>6. Covered(all) = {v \in Nat: offset <= v /\ v < offset + clipped}
  BY <1>1, <1>4, <1>5, SpanIs
<1>7. wanted = SubtractRangeSet(SubtractRangeSet(all, downloaded), requested)
  BY DEF Wanted, clipped
<1> HIDE DEF all, wanted
<1>8. wanted \in Lists /\ Covered(wanted) = (Covered(all) \ Covered(downloaded)) \ Covered(requested)
  BY <1>5, <1>7, MissingIs
<1>9. Covered(all) \subseteq Blocks
  BY <1>1, <1>4, <1>6 DEF Blocks
<1>10. \A b \in Blocks: b \in Nat /\ b < FileSize
  BY <1>1 DEF Blocks
<1>11. \A b \in Blocks: offset <= b /\ b < offset + length => b \in Covered(all)
  BY <1>4, <1>6, <1>10
<1> QED
  BY <1>8, <1>9, <1>11 DEF wanted

\* What download_range adds: requests that wait for the slot, for blocks that
\* are neither there nor requested, each by one of them, and nothing else.
Asked(new) ==
    /\ tasks' = tasks \cup new
    /\ requested' \in Lists /\ Covered(requested') \subseteq Blocks
    /\ Covered(requested) \subseteq Covered(requested')
    /\ \A t \in new: /\ t \in TaskType /\ t.at = "queued" /\ t.got = 0 /\ t.length > 0 /\ End(t) <= FileSize
                     /\ Positions(t) \subseteq Covered(requested')
                     /\ Positions(t) \cap Covered(downloaded) = {}
                     /\ Positions(t) \cap Covered(requested) = {}
                     /\ \A u \in new \ {t}: Positions(t) \cap Positions(u) = {}
    /\ \A b \in Covered(requested'): b \in Covered(requested) \/ \E t \in new: b \in Positions(t)

\* A new request of a range has its positions.
LEMMA TaskIs ==
    ASSUME NEW r \in RangeType
    PROVE  LET t == Task(r, "queued")
           IN /\ t \in TaskType /\ t.at = "queued" /\ t.got = 0 /\ t.start = r.start /\ t.length = r.length
              /\ End(t) = End(r) /\ Positions(t) = Positions(r)
<1> DEFINE t == Task(r, "queued")
<1>1. /\ t \in TaskType /\ t.at = "queued" /\ t.got = 0 /\ t.start = r.start /\ t.length = r.length
  BY DEF Task, RangeType, TaskType
<1> HIDE DEF t
<1>2. End(t) = End(r)
  BY <1>1 DEF End
<1>3. Positions(t) = Positions(r)
  BY <1>1, <1>2 DEF Positions
<1> QED
  BY <1>1, <1>2, <1>3 DEF t

\* download_range only adds requests as above, and asks for what is missing of
\* the range it is given.
LEMMA Downloads ==
    ASSUME downloaded \in Lists, requested \in Lists, streaming \in BOOLEAN,
           Covered(requested) \subseteq Blocks,
           NEW offset \in 0..FileSize, NEW length \in Nat, DownloadRange(offset, length)
    PROVE  /\ \E new: Asked(new)
           /\ \A b \in Blocks: offset <= b /\ b < offset + length =>
                 b \in Covered(downloaded) \cup Covered(requested')
<1>1. PICK throughput \in Throughputs:
          /\ tasks' = tasks \cup {Task(Wanted(offset, length, throughput)[i], "queued"):
                                    i \in DOMAIN Wanted(offset, length, throughput)}
          /\ requested' = AddRangeSet(requested, Wanted(offset, length, throughput))
  BY DEF DownloadRange
<1> DEFINE wanted == Wanted(offset, length, throughput)
           new == {Task(wanted[i], "queued"): i \in DOMAIN wanted}
<1>2. /\ wanted \in Lists
      /\ Covered(wanted) \subseteq (Blocks \ Covered(downloaded)) \ Covered(requested)
      /\ \A b \in Blocks: offset <= b /\ b < offset + length =>
            b \in Covered(downloaded) \cup Covered(requested) \cup Covered(wanted)
  BY WantedIs
<1>3. tasks' = tasks \cup new /\ requested' = AddRangeSet(requested, wanted)
  BY <1>1
<1> HIDE DEF wanted
<1>4. requested' \in Lists /\ Covered(requested') = Covered(requested) \cup Covered(wanted)
  BY <1>2, <1>3, AddRangeSetIsUnion
<1>5. Covered(wanted) \subseteq Blocks
  BY <1>2
<1>6. ASSUME NEW i \in DOMAIN wanted
      PROVE  LET t == Task(wanted[i], "queued")
             IN /\ t \in TaskType /\ t.at = "queued" /\ t.got = 0 /\ t.length > 0 /\ End(t) <= FileSize
                /\ Positions(t) \subseteq Covered(wanted) /\ Positions(t) = Positions(wanted[i])
  <2>1. /\ wanted[i] \in RangeType /\ wanted[i].length > 0 /\ End(wanted[i]) <= FileSize
        /\ Positions(wanted[i]) \subseteq Covered(wanted)
    BY <1>2, <1>5, RangesOf
  <2> QED
    BY <2>1, TaskIs
<1>7. ASSUME NEW i \in DOMAIN wanted, NEW j \in DOMAIN wanted, Task(wanted[i], "queued") # Task(wanted[j], "queued")
      PROVE  Positions(Task(wanted[i], "queued")) \cap Positions(Task(wanted[j], "queued")) = {}
  <2>1. Positions(wanted[i]) \cap Positions(wanted[j]) = {}
    BY <1>2, <1>5, <1>7, RangesOf
  <2> QED
    BY <2>1, <1>6
<1>8. ASSUME NEW b \in Covered(wanted) PROVE \E t \in new: b \in Positions(t)
  <2>1. PICK i \in DOMAIN wanted: b \in Positions(wanted[i])
    BY DEF Covered
  <2>2. Task(wanted[i], "queued") \in new
    OBVIOUS
  <2> QED
    BY <2>1, <2>2, <1>6
<1>9. \A t \in new: /\ t \in TaskType /\ t.at = "queued" /\ t.got = 0 /\ t.length > 0 /\ End(t) <= FileSize
                    /\ Positions(t) \subseteq Covered(wanted)
  BY <1>6
<1>10. \A t \in new: \A u \in new \ {t}: Positions(t) \cap Positions(u) = {}
  BY <1>7
<1> HIDE DEF new
<1>11. Asked(new)
  BY <1>2, <1>3, <1>4, <1>5, <1>8, <1>9, <1>10 DEF Asked
<1> QED
  BY <1>2, <1>4, <1>11

\* What a call of the thread, and a wait of it, may be.
LEMMA UserTypes ==
    /\ Nobody \in UserType /\ Nobody.start = 0 /\ Nobody.length = 0 /\ Nobody.at = "idle" /\ Nobody.real
    /\ \A result \in {"none", "data", "end", "broken", "timeout"}:
          Result(result) \in UserType /\ Result(result).start = 0 /\ Result(result).length = 0
          /\ Result(result).at = "idle" /\ Result(result).real
    /\ \A u \in UserType: /\ Notified(u) \in UserType /\ Notified(u).start = u.start
                          /\ Notified(u).length = u.length /\ Notified(u).real = u.real
                          /\ Notified(u).at # "asleep" /\ (u.at = "idle" => Notified(u).at = "idle")
<1>1. /\ Nobody \in UserType /\ Nobody.start = 0 /\ Nobody.length = 0 /\ Nobody.at = "idle" /\ Nobody.real
  BY DEF Nobody, UserType
<1>2. ASSUME NEW result \in {"none", "data", "end", "broken", "timeout"}
      PROVE  Result(result) \in UserType /\ Result(result).start = 0 /\ Result(result).length = 0
             /\ Result(result).at = "idle" /\ Result(result).real
  BY DEF Nobody, Result, UserType
<1>3. ASSUME NEW u \in UserType
      PROVE  /\ Notified(u) \in UserType /\ Notified(u).start = u.start
             /\ Notified(u).length = u.length /\ Notified(u).real = u.real
             /\ Notified(u).at # "asleep" /\ (u.at = "idle" => Notified(u).at = "idle")
  BY DEF Notified, UserType
<1> QED
  BY <1>1, <1>2, <1>3

\* The commands that wait, after some more have been sent or not.
CmdsOK(cs) == cs \in Seq(CmdType) /\ \A i \in DOMAIN cs: cs[i].range.start <= FileSize

\* A command to fetch a range that starts in the file.
LEMMA FetchIs ==
    ASSUME NEW r \in RangeType
    PROVE  Fetch(r) \in CmdType /\ Fetch(r).kind = "Fetch" /\ Fetch(r).range = r
BY DEF Fetch, CmdType

\* Sent commands are behind those that wait, when somebody listens.
LEMMA Sends ==
    ASSUME CmdsOK(cmds), NEW cs, CmdsOK(cs), Send(cs)
    PROVE  /\ CmdsOK(cmds')
           /\ \A i \in DOMAIN cmds: \E j \in DOMAIN cmds': cmds'[j] = cmds[i]
           /\ Listening => \A i \in DOMAIN cs: \E j \in DOMAIN cmds': cmds'[j] = cs[i]
<1>1. cmds \in Seq(CmdType) /\ cs \in Seq(CmdType)
  BY DEF CmdsOK
<1>2. CASE Listening
  <2>1. cmds' = cmds \o cs
    BY <1>2 DEF Send, Listening
  <2>2. /\ cmds' \in Seq(CmdType) /\ Len(cmds') = Len(cmds) + Len(cs)
        /\ Len(cmds) \in Nat /\ Len(cs) \in Nat
        /\ \A i \in 1..(Len(cmds) + Len(cs)): cmds'[i] = IF i <= Len(cmds) THEN cmds[i] ELSE cs[i - Len(cmds)]
    BY <1>1, <2>1
  <2>3. ASSUME NEW i \in DOMAIN cmds PROVE i \in DOMAIN cmds' /\ cmds'[i] = cmds[i]
    BY <1>1, <2>2
  <2>4. ASSUME NEW i \in DOMAIN cs PROVE (Len(cmds) + i) \in DOMAIN cmds' /\ cmds'[Len(cmds) + i] = cs[i]
    <3>1. i \in 1..Len(cs)
      BY <1>1
    <3>2. Len(cmds) + i \in 1..(Len(cmds) + Len(cs)) /\ ~(Len(cmds) + i <= Len(cmds)) /\ (Len(cmds) + i) - Len(cmds) = i
      BY <2>2, <3>1
    <3>3. DOMAIN cmds' = 1..(Len(cmds) + Len(cs))
      BY <2>2
    <3> QED
      BY <2>2, <3>2, <3>3
  <2>5. ASSUME NEW i \in DOMAIN cmds' PROVE cmds'[i].range.start <= FileSize
    <3>1. i \in 1..(Len(cmds) + Len(cs))
      BY <2>2
    <3>2. CASE i <= Len(cmds)
      <4>1. i \in DOMAIN cmds /\ cmds'[i] = cmds[i]
        BY <1>1, <2>2, <3>1, <3>2
      <4> QED
        BY <4>1 DEF CmdsOK
    <3>3. CASE ~(i <= Len(cmds))
      <4>1. i - Len(cmds) \in 1..Len(cs) /\ cmds'[i] = cs[i - Len(cmds)]
        BY <2>2, <3>1, <3>3
      <4>2. i - Len(cmds) \in DOMAIN cs
        BY <1>1, <4>1
      <4> QED
        BY <4>1, <4>2 DEF CmdsOK
    <3> QED
      BY <3>2, <3>3
  <2>6. CmdsOK(cmds')
    BY <2>2, <2>5 DEF CmdsOK
  <2> QED
    BY <2>3, <2>4, <2>6
<1>3. CASE ~Listening
  <2>1. cmds' = cmds
    BY <1>3 DEF Send, Listening
  <2> QED
    BY <1>3, <2>1
<1> QED
  BY <1>2, <1>3

\* A call of the thread that reads asks for what is missing of a range.
LEMMA Asks ==
    ASSUME NEW missing \in Lists, Covered(missing) \subseteq Blocks
    PROVE  CmdsOK([i \in DOMAIN missing |-> Fetch(missing[i])])
<1> DEFINE cs == [i \in DOMAIN missing |-> Fetch(missing[i])]
<1>1. Len(missing) \in Nat /\ DOMAIN missing = 1..Len(missing)
  BY ListElements
<1>2. ASSUME NEW i \in DOMAIN missing
      PROVE  cs[i] \in CmdType /\ cs[i].range.start <= FileSize
  <2>1. missing[i] \in RangeType /\ missing[i].start < FileSize /\ missing[i].start \in Nat
    BY RangesOf
  <2>2. cs[i] = Fetch(missing[i])
    OBVIOUS
  <2>3. cs[i] \in CmdType /\ cs[i].range = missing[i]
    BY <2>1, <2>2, FetchIs
  <2> QED
    BY <2>1, <2>3, FetchAssumption
<1>3. cs \in Seq(CmdType) /\ DOMAIN cs = DOMAIN missing
  BY <1>1, <1>2
<1> QED
  BY <1>2, <1>3 DEF CmdsOK

Opened == loop # "opening"

\* The thread's steps keep the types: what is sent lies in the file, and what is
\* waited for too.
LEMMA PlayingTyped == Typed /\ (Playing \/ Waiting) => Typed'
<1> SUFFICES ASSUME Typed, Playing \/ Waiting PROVE Typed'
  OBVIOUS
<1> USE FetchAssumption
<1>1. /\ FileSize \in Nat /\ position \in Nat /\ position <= FileSize
      /\ user \in UserType /\ user.start \in Nat /\ user.length \in Nat /\ user.start + user.length <= FileSize
      /\ CmdsOK(cmds)
  BY DEF Typed, UserType, CmdsOK
<1>2. ASSUME CmdsOK(cmds'), user' \in UserType, user'.start + user'.length <= FileSize, position' \in 0..FileSize,
             streaming' \in BOOLEAN, fails' \in 0..MaxFails, slow' \in BOOLEAN,
             loop # "opening" \/ user'.at = "idle",
             UNCHANGED <<loop, urls, status, data, tasks, file, complete>>
      PROVE  Typed'
  BY <1>2 DEF Typed, CmdsOK, status
<1>3. ASSUME NEW n \in Lengths, Read(n) PROVE Typed'
  <2> DEFINE length == Minimum(n, FileSize - position)
             wanted == IF streaming THEN Minimum(length + ReadAhead, FileSize - position) ELSE length
             missing == SubtractRangeSet(SubtractRangeSet(<<Span(position, wanted)>>, downloaded), requested)
  <2>1. /\ Ready
        /\ UNCHANGED <<loop, urls, streaming, status, position, data, tasks, file, complete, history>>
        /\ \/ user' = Result("end") /\ UNCHANGED cmds
           \/ user' = Result("broken") /\ UNCHANGED cmds
           \/ /\ position < FileSize
              /\ Send([i \in DOMAIN missing |-> Fetch(missing[i])])
              /\ user' = [Nobody EXCEPT !.at = "checks", !.what = "read",
                                        !.start = position, !.length = length]
    BY <1>1, <1>3 DEF Read
  <2>2. CASE user' \in {Result("end"), Result("broken")} /\ UNCHANGED cmds
    <3>1. user' \in UserType /\ user'.start = 0 /\ user'.length = 0 /\ user'.at = "idle"
      BY <2>2, UserTypes
    <3> QED
      BY <1>1, <1>2, <2>1, <2>2, <3>1 DEF Typed, history, CmdsOK
  <2>3. CASE /\ position < FileSize
             /\ Send([i \in DOMAIN missing |-> Fetch(missing[i])])
             /\ user' = [Nobody EXCEPT !.at = "checks", !.what = "read",
                                       !.start = position, !.length = length]
    <3>1. n \in Nat /\ n > 0 /\ ReadAhead \in Nat /\ FileSize - position \in Nat /\ FileSize - position > 0
      BY <1>1, <2>3
    <3>2. length \in Nat /\ length > 0 /\ length <= FileSize - position
      BY <3>1 DEF Minimum
    <3>3. wanted \in Nat /\ wanted > 0 /\ wanted <= FileSize - position
      <4> HIDE DEF length
      <4> QED
        BY <3>1, <3>2 DEF Minimum
    <3>4. /\ Span(position, wanted) \in RangeType /\ Span(position, wanted).length > 0
          /\ Positions(Span(position, wanted)) \subseteq Blocks
      <4> HIDE DEF wanted
      <4>1. /\ Span(position, wanted) \in RangeType /\ Span(position, wanted).length = wanted
            /\ Positions(Span(position, wanted)) = position..(position + wanted - 1)
        BY <1>1, <3>3, SpanIs
      <4>2. position..(position + wanted - 1) \subseteq Blocks
        BY <1>1, <3>3 DEF Blocks
      <4> QED
        BY <3>3, <4>1, <4>2
    <3>5. /\ <<Span(position, wanted)>> \in Lists
          /\ Covered(<<Span(position, wanted)>>) \subseteq Blocks
      <4> HIDE DEF wanted
      <4> QED
        BY <3>4, SmallLists
    <3>6. missing \in Lists /\ Covered(missing) \subseteq Blocks
      <4> HIDE DEF wanted
      <4>1. downloaded \in Lists /\ requested \in Lists
        BY DEF Typed
      <4> QED
        BY <3>5, <4>1, MissingIs
    <3>7. CmdsOK(cmds')
      <4> HIDE DEF missing
      <4>1. CmdsOK([i \in DOMAIN missing |-> Fetch(missing[i])])
        BY <3>6, Asks
      <4> QED
        BY <1>1, <2>3, <4>1, Sends
    <3>8. user' \in UserType /\ user'.start = position /\ user'.length = length
      <4> HIDE DEF length
      <4> QED
        BY <1>1, <2>3, <3>2 DEF UserType, Nobody
    <3>9. user'.start + user'.length <= FileSize
      <4> HIDE DEF length
      <4> QED
        BY <1>1, <3>2, <3>8
    <3>10. loop # "opening"
      BY <2>1 DEF Ready
    <3> HIDE DEF length, wanted, missing
    <3> QED
      BY <1>2, <2>1, <3>7, <3>8, <3>9, <3>10 DEF Typed, history
  <2> QED
    BY <2>1, <2>2, <2>3
<1>4. ASSUME NEW n \in Lengths, NEW wait \in Lengths, FetchNextAndWait(n, wait) PROVE Typed'
  <2> DEFINE clipped == IF position >= FileSize THEN 0 ELSE Minimum(wait, FileSize - position)
  <2>1. /\ Ready
        /\ Send(<<Fetch(Span(position, n)), Fetch(Span(position, clipped))>>)
        /\ user' = [Nobody EXCEPT !.at = "checks", !.what = "fetch", !.start = position, !.length = clipped]
        /\ UNCHANGED <<loop, urls, streaming, status, position, data, tasks, file, complete, history>>
    BY <1>4 DEF FetchNextAndWait
  <2>2. n \in Nat /\ wait \in Nat
    OBVIOUS
  <2>3. clipped \in Nat /\ position + clipped <= FileSize
    BY <1>1, <2>2 DEF Minimum
  <2> HIDE DEF clipped
  <2>4. CmdsOK(<<Fetch(Span(position, n)), Fetch(Span(position, clipped))>>)
    <3>1. Span(position, n) \in RangeType /\ Span(position, clipped) \in RangeType
          /\ Span(position, n).start = position /\ Span(position, clipped).start = position
      BY <1>1, <2>2, <2>3, SpanIs
    <3>2. /\ Fetch(Span(position, n)) \in CmdType /\ Fetch(Span(position, n)).range.start <= FileSize
          /\ Fetch(Span(position, clipped)) \in CmdType /\ Fetch(Span(position, clipped)).range.start <= FileSize
      BY <1>1, <3>1, FetchIs
    <3> QED
      BY <3>2 DEF CmdsOK
  <2>5. CmdsOK(cmds')
    BY <1>1, <2>1, <2>4, Sends
  <2>6. user' \in UserType /\ user'.start = position /\ user'.length = clipped
    BY <1>1, <2>1, <2>3 DEF UserType, Nobody
  <2>7. loop # "opening"
    BY <2>1 DEF Ready
  <2> QED
    BY <1>2, <2>1, <2>3, <2>5, <2>6, <2>7 DEF Typed, history
<1>5. CASE Served
  <2>1. /\ user.at \in {"checks", "woken"}
        /\ UNCHANGED <<loop, urls, streaming, status, cmds, data, tasks, file, complete, history>>
    BY <1>5 DEF Served
  <2>2. position' \in 0..FileSize
    <3>1. ReadLength(user.start, user.length) \in Nat /\ ReadLength(user.start, user.length) <= user.length
      <4>1. ContainedLengthFrom(downloaded, user.start) \in Nat
        BY <1>1, LookupIs DEF Typed
      <4> QED
        BY <1>1, <4>1 DEF ReadLength, Minimum
    <3>2. position' = position \/ position' = user.start + ReadLength(user.start, user.length)
      BY <1>5 DEF Served
    <3> QED
      BY <1>1, <3>1, <3>2
  <2>3. user' \in UserType /\ user'.start = 0 /\ user'.length = 0 /\ user'.at = "idle"
    <3>1. Result("data") \in UserType /\ Result("data").start = 0 /\ Result("data").length = 0 /\ Result("data").at = "idle"
      BY UserTypes
    <3>2. \/ user' = Result("data")
          \/ \E real \in BOOLEAN: user' = [Result("data") EXCEPT !.real = real]
      BY <1>5 DEF Served
    <3> QED
      BY <3>1, <3>2 DEF UserType
  <2> QED
    BY <1>1, <1>2, <2>1, <2>2, <2>3 DEF Typed, history, CmdsOK
<1>6. CASE Sleeps
  <2>1. /\ user.at \in {"checks", "woken"}
        /\ user' = [user EXCEPT !.at = "asleep", !.again = user.at = "woken"]
        /\ UNCHANGED <<loop, urls, streaming, status, position, data, tasks, file, complete, history>>
        /\ \/ Send(<<Fetch(Span(user.start, user.length))>>)
           \/ UNCHANGED cmds
    BY <1>6 DEF Sleeps
  <2>2. CmdsOK(cmds')
    <3>1. Span(user.start, user.length) \in RangeType /\ Span(user.start, user.length).start = user.start
      BY <1>1, SpanIs
    <3>2. /\ Fetch(Span(user.start, user.length)) \in CmdType
          /\ Fetch(Span(user.start, user.length)).range.start <= FileSize
      BY <1>1, <3>1, FetchIs
    <3>3. CmdsOK(<<Fetch(Span(user.start, user.length))>>)
      BY <3>2 DEF CmdsOK
    <3> QED
      BY <1>1, <2>1, <3>3, Sends DEF CmdsOK
  <2>3. user' \in UserType /\ user'.start = user.start /\ user'.length = user.length
    BY <1>1, <2>1 DEF UserType
  <2>4. loop # "opening"
    BY <2>1 DEF Typed
  <2> QED
    BY <1>1, <1>2, <2>1, <2>2, <2>3, <2>4 DEF Typed, history
<1>7. CASE WaitTimeout
  <2>1. /\ UNCHANGED <<loop, urls, streaming, status, position, cmds, data, tasks, file, complete>>
        /\ user' = [Result("timeout") EXCEPT !.what = user.what]
        /\ UNCHANGED history \/ (Fails /\ slow' = TRUE)
    BY <1>7 DEF WaitTimeout
  <2>2. user' \in UserType /\ user'.start = 0 /\ user'.length = 0 /\ user'.at = "idle"
    <3>1. user.what \in {"none", "read", "fetch"}
      BY <1>1 DEF UserType
    <3>2. user' = [at |-> "idle", what |-> user.what, start |-> 0, length |-> 0,
                   result |-> "timeout", real |-> TRUE, again |-> FALSE]
      BY <2>1 DEF Result, Nobody
    <3> QED
      BY <3>1, <3>2 DEF UserType
  <2>3. fails' \in 0..MaxFails /\ slow' \in BOOLEAN
    <3>1. fails \in 0..MaxFails /\ slow \in BOOLEAN /\ MaxFails \in Nat
      BY DEF Typed
    <3>2. CASE UNCHANGED history
      BY <3>1, <3>2 DEF history
    <3>3. CASE Fails /\ slow' = TRUE
      BY <3>1, <3>3 DEF Fails
    <3> QED
      BY <2>1, <3>2, <3>3
  <2> QED
    BY <1>1, <1>2, <2>1, <2>2, <2>3 DEF Typed, CmdsOK
<1>8. ASSUME NEW p \in 0..FileSize, Seek(p) PROVE Typed'
  <2>1. /\ Ready /\ UNCHANGED <<loop, urls, status, cmds, data, tasks, file, complete, history>>
        /\ \/ /\ streaming' = FALSE /\ UNCHANGED position
              /\ user' = [Nobody EXCEPT !.at = "seeks", !.start = p]
           \/ position' = p /\ user' = Nobody /\ UNCHANGED streaming
    BY <1>8 DEF Seek
  <2>2. user' \in UserType /\ user'.start + user'.length <= FileSize
    <3>1. p \in Nat /\ p <= FileSize
      BY <1>1
    <3>2. CASE user' = [Nobody EXCEPT !.at = "seeks", !.start = p]
      <4>1. user' = [at |-> "seeks", what |-> "none", start |-> p, length |-> 0,
                     result |-> "none", real |-> TRUE, again |-> FALSE]
        BY <3>2 DEF Nobody
      <4>2. user' \in UserType /\ user'.start = p /\ user'.length = 0
        BY <3>1, <4>1 DEF UserType
      <4> QED
        BY <1>1, <3>1, <4>2
    <3>3. CASE user' = Nobody
      BY <1>1, <3>3, UserTypes
    <3> QED
      BY <2>1, <3>2, <3>3
  <2>3. position' \in 0..FileSize /\ streaming' \in BOOLEAN /\ loop # "opening"
    BY <1>1, <2>1 DEF Typed, Ready
  <2> QED
    BY <1>1, <1>2, <2>1, <2>2, <2>3 DEF Typed, history, CmdsOK
<1>9. CASE SeekEnds
  <2>1. position' \in 0..FileSize
    BY <1>1, <1>9 DEF SeekEnds
  <2> QED
    BY <1>1, <1>2, <1>9, <2>1, UserTypes DEF Typed, SeekEnds, history, CmdsOK
<1>10. ASSUME NEW m \in BOOLEAN, SetMode(m) PROVE Typed'
  BY <1>1, <1>2, <1>10, UserTypes DEF Typed, SetMode, history, CmdsOK
<1>11. CASE CloseFile
  <2>1. CmdsOK(<<Close>>)
    <3>1. Close \in CmdType /\ Close.range.start = 0
      BY SpanIs DEF Close, CmdType
    <3> QED
      BY <3>1 DEF CmdsOK
  <2>2. CmdsOK(cmds')
    BY <1>1, <1>11, <2>1, Sends DEF CloseFile
  <2> QED
    BY <1>1, <1>2, <1>11, <2>2, UserTypes DEF Typed, CloseFile, history
<1> QED
  BY <1>3, <1>4, <1>5, <1>6, <1>7, <1>8, <1>9, <1>10, <1>11 DEF Playing, Waiting

\* What waits in a queue when its first element has been taken is in it.
LEMMA Tails ==
    ASSUME NEW S, NEW s \in Seq(S), s # <<>>
    PROVE  /\ Tail(s) \in Seq(S) /\ 1 \in DOMAIN s /\ Head(s) = s[1] /\ Head(s) \in S
           /\ \A i \in DOMAIN Tail(s): i + 1 \in DOMAIN s /\ Tail(s)[i] = s[i + 1]
           /\ \A i \in DOMAIN s: i # 1 => i - 1 \in DOMAIN Tail(s) /\ Tail(s)[i - 1] = s[i]
<1>1. Len(s) \in Nat /\ Len(s) > 0 /\ DOMAIN s = 1..Len(s)
  OBVIOUS
<1>2. Tail(s) \in Seq(S) /\ Len(Tail(s)) = Len(s) - 1 /\ DOMAIN Tail(s) = 1..(Len(s) - 1)
      /\ \A i \in 1..(Len(s) - 1): Tail(s)[i] = s[i + 1]
  BY <1>1
<1>3. 1 \in DOMAIN s /\ Head(s) = s[1] /\ s[1] \in S
  BY <1>1
<1>4. ASSUME NEW i \in DOMAIN s, i # 1 PROVE i - 1 \in DOMAIN Tail(s) /\ Tail(s)[i - 1] = s[i]
  <2>1. i - 1 \in 1..(Len(s) - 1) /\ (i - 1) + 1 = i
    BY <1>1, <1>4
  <2> QED
    BY <1>2, <2>1
<1> QED
  BY <1>1, <1>2, <1>3, <1>4

\* Typed without what only requests and the lists have.
RequestsOK(ts) ==
    \A t \in ts: /\ t \in TaskType /\ t.length > 0 /\ End(t) <= FileSize /\ t.got <= t.length
                 /\ t.at # "ends" => t.got = 0

DataOK(ds) == ds \in Seq(DataType) /\ \A i \in DOMAIN ds: ds[i].kind = "Measure" => ds[i].range.length = 0

\* What is added to the channel of data is behind what waits in it.
LEMMA Appends ==
    ASSUME NEW ds, DataOK(ds), NEW d \in DataType, d.kind = "Measure" => d.range.length = 0
    PROVE  /\ DataOK(Append(ds, d))
           /\ Len(ds) + 1 \in DOMAIN Append(ds, d) /\ Append(ds, d)[Len(ds) + 1] = d
           /\ \A i \in DOMAIN ds: i \in DOMAIN Append(ds, d) /\ Append(ds, d)[i] = ds[i]
           /\ \A i \in DOMAIN Append(ds, d): (i \in DOMAIN ds /\ Append(ds, d)[i] = ds[i]) \/ Append(ds, d)[i] = d
<1> DEFINE all == Append(ds, d)
<1>1. ds \in Seq(DataType) /\ Len(ds) \in Nat /\ DOMAIN ds = 1..Len(ds)
  BY DEF DataOK
<1>2. all \in Seq(DataType) /\ DOMAIN all = 1..(Len(ds) + 1) /\ all[Len(ds) + 1] = d
      /\ \A i \in 1..Len(ds): all[i] = ds[i]
  BY <1>1
<1> HIDE DEF all
<1>3. ASSUME NEW i \in DOMAIN all PROVE (i \in DOMAIN ds /\ all[i] = ds[i]) \/ all[i] = d
  <2>1. i \in 1..Len(ds) \/ i = Len(ds) + 1
    BY <1>1, <1>2
  <2> QED
    BY <1>1, <1>2, <2>1
<1>4. Len(ds) + 1 \in DOMAIN all /\ \A i \in DOMAIN ds: i \in DOMAIN all /\ all[i] = ds[i]
  BY <1>1, <1>2
<1>5. DataOK(all)
  BY <1>2, <1>3 DEF DataOK
<1> QED
  BY <1>2, <1>3, <1>4, <1>5 DEF all

\* The steps of the requests keep the types.
LEMMA RequestingTyped ==
    ASSUME Typed, NEW t \in tasks,
           Acquire(t) \/ TaskEnds(t) \/ RequestFails(t) \/ \E n \in 0..t.length: Receive(t, n)
    PROVE  Typed'
<1> USE FetchAssumption
<1>1. /\ t \in TaskType /\ t.length > 0 /\ End(t) <= FileSize /\ t.got <= t.length
      /\ t.at # "ends" => t.got = 0
      /\ t.start \in Nat /\ t.length \in Nat /\ t.got \in Nat /\ End(t) = t.start + t.length
      /\ requested \in Lists /\ Covered(requested) \subseteq Blocks /\ user \in UserType
      /\ user.start + user.length <= FileSize /\ loop # "opening"
      /\ fails \in 0..MaxFails
  BY DEF Typed, TaskType, End
<1>2. RequestsOK(tasks) /\ DataOK(data)
  BY DEF Typed, RequestsOK, DataOK
<1>3. ASSUME RequestsOK(tasks'), DataOK(data'), fails' \in 0..MaxFails,
             requested' \in Lists, Covered(requested') \subseteq Blocks,
             user' \in UserType, user'.start + user'.length <= FileSize,
             UNCHANGED <<loop, urls, streaming, downloaded, position, cmds, file, complete, slow>>
      PROVE  Typed'
  <2>1. loop' # "opening"
    BY <1>1, <1>3
  <2> QED
    BY <1>3, <2>1 DEF Typed, RequestsOK, DataOK
<1>4. CASE Acquire(t)
  <2>1. /\ t.at = "queued" /\ tasks' = (tasks \ {t}) \cup {[t EXCEPT !.at = "runs"]}
        /\ UNCHANGED <<loop, urls, streaming, status, position, user, cmds, data, file, complete, history>>
    BY <1>4 DEF Acquire
  <2>2. RequestsOK({[t EXCEPT !.at = "runs"]})
    BY <1>1, <2>1 DEF RequestsOK, TaskType, End
  <2>3. RequestsOK(tasks')
    BY <1>2, <2>1, <2>2 DEF RequestsOK
  <2> QED
    BY <1>1, <1>2, <1>3, <2>1, <2>3 DEF status, history
<1>5. CASE RequestFails(t)
  <2>1. /\ t.at = "runs" /\ Fails /\ tasks' = (tasks \ {t}) \cup {[t EXCEPT !.at = "ends"]}
        /\ UNCHANGED <<loop, urls, streaming, status, position, user, cmds, data, file, complete, slow>>
    BY <1>5 DEF RequestFails
  <2>2. RequestsOK({[t EXCEPT !.at = "ends"]})
    BY <1>1, <2>1 DEF RequestsOK, TaskType, End
  <2>3. RequestsOK(tasks')
    BY <1>2, <2>1, <2>2 DEF RequestsOK
  <2>4. fails' \in 0..MaxFails
    BY <1>1, <2>1 DEF Fails
  <2> QED
    BY <1>1, <1>2, <1>3, <2>1, <2>3, <2>4 DEF status
<1>6. ASSUME NEW n \in 0..t.length, Receive(t, n) PROVE Typed'
  <2>1. /\ t.at = "runs"
        /\ fails' = fails \/ Fails
        /\ \/ /\ data' = Append(data, [kind |-> "Data", range |-> Span(t.start, n)])
              /\ tasks' = (tasks \ {t}) \cup {[t EXCEPT !.at = "ends", !.got = n]}
           \/ tasks' = tasks \ {t} /\ UNCHANGED data
        /\ UNCHANGED <<loop, urls, streaming, status, position, user, cmds, file, complete, slow>>
    BY <1>6 DEF Receive, history
  <2>2. fails' \in 0..MaxFails
    BY <1>1, <2>1 DEF Fails
  <2>3. n \in Nat /\ n <= t.length
    BY <1>1
  <2>4. RequestsOK({[t EXCEPT !.at = "ends", !.got = n]})
    BY <1>1, <2>1, <2>3 DEF RequestsOK, TaskType, End
  <2>5. RequestsOK(tasks')
    BY <1>2, <2>1, <2>4 DEF RequestsOK
  <2>6. DataOK(data')
    <3>1. Span(t.start, n) \in RangeType
      BY <1>1, <2>3, SpanIs
    <3>2. /\ [kind |-> "Data", range |-> Span(t.start, n)] \in DataType
          /\ [kind |-> "Data", range |-> Span(t.start, n)].kind = "Data"
      BY <3>1 DEF DataType
    <3>3. DataOK(Append(data, [kind |-> "Data", range |-> Span(t.start, n)]))
      BY <1>2, <3>2, Appends
    <3> QED
      BY <1>2, <2>1, <3>3
  <2> QED
    BY <1>1, <1>2, <1>3, <2>1, <2>2, <2>5, <2>6 DEF status
<1>7. CASE TaskEnds(t)
  <2>1. /\ tasks' = tasks \ {t}
        /\ data' = Append(data, [kind |-> "Measure", range |-> Span(0, 0)]) \/ data' = data
        /\ requested' = SubtractRange(requested, Span(t.start + t.got, t.length - t.got)) \/ requested' = requested
        /\ user' = Notified(user) \/ user' = user
        /\ UNCHANGED <<loop, urls, streaming, downloaded, position, cmds, file, complete, history>>
    BY <1>7 DEF TaskEnds
  <2>2. RequestsOK(tasks')
    BY <1>2, <2>1 DEF RequestsOK
  <2>3. DataOK(data')
    <3>1. Span(0, 0) \in RangeType /\ Span(0, 0).length = 0
      BY SpanIs
    <3>2. /\ [kind |-> "Measure", range |-> Span(0, 0)] \in DataType
          /\ [kind |-> "Measure", range |-> Span(0, 0)].range.length = 0
      BY <3>1 DEF DataType
    <3>3. DataOK(Append(data, [kind |-> "Measure", range |-> Span(0, 0)]))
      BY <1>2, <3>2, Appends
    <3> QED
      BY <1>2, <2>1, <3>3
  <2>4. requested' \in Lists /\ Covered(requested') \subseteq Blocks
    <3>1. t.start + t.got \in Nat /\ t.length - t.got \in Nat
      BY <1>1
    <3>2. Span(t.start + t.got, t.length - t.got) \in RangeType
      BY <3>1, SpanIs
    <3> QED
      BY <1>1, <2>1, <3>2, SubtractRangeIsDifference
  <2>5. user' \in UserType /\ user'.start + user'.length <= FileSize
    BY <1>1, <2>1, UserTypes
  <2> QED
    BY <1>1, <1>3, <2>1, <2>2, <2>3, <2>4, <2>5 DEF history
<1> QED
  BY <1>4, <1>5, <1>6, <1>7

\* The first list of blocks that nobody is bringing is a list, in the file.
LEMMA FirstMissingIs ==
    ASSUME Typed
    PROVE  FirstMissing \in Lists /\ Covered(FirstMissing) \subseteq Blocks
<1> USE FetchAssumption
<1> DEFINE all == Span(0, FileSize)
           missing == SubtractRangeSet(SubtractRangeSet(<<all>>, downloaded), requested)
           behind == Span(position, FileSize - position)
           none == <<>>
           tail == Intersection(AddRange(none, behind), missing)
<1>1. /\ FileSize \in Nat /\ FileSize > 0 /\ position \in Nat /\ FileSize - position \in Nat
      /\ downloaded \in Lists /\ requested \in Lists
  BY DEF Typed
<1>2. <<all>> \in Lists /\ Covered(<<all>>) = Positions(all) /\ Positions(all) = 0..(0 + FileSize - 1)
  <2>1. all \in RangeType /\ all.length = FileSize /\ Positions(all) = 0..(0 + FileSize - 1)
    BY <1>1, SpanIs
  <2> QED
    BY <1>1, <2>1, SmallLists
<1>3. Covered(<<all>>) \subseteq Blocks
  BY <1>1, <1>2 DEF Blocks
<1>4. behind \in RangeType
  BY <1>1, SpanIs
<1>5. none \in Lists
  BY SmallLists
<1>6. FirstMissing = IF tail # <<>> THEN tail ELSE missing
  BY DEF FirstMissing
<1> HIDE DEF all, behind, none
<1>7. missing \in Lists /\ Covered(missing) \subseteq Blocks
  BY <1>1, <1>2, <1>3, MissingIs
<1> HIDE DEF missing
<1>8. tail \in Lists /\ Covered(tail) \subseteq Blocks
  <2>1. AddRange(none, behind) \in Lists
    BY <1>4, <1>5, AddRangeIsUnion
  <2> QED
    BY <1>7, <2>1, IntersectionIs
<1> HIDE DEF tail
<1> QED
  BY <1>6, <1>7, <1>8

\* Handling a Fetch, and prefetching, ask for a range that starts in the file.
LEMMA Asking ==
    ASSUME Typed, HandleCommand \/ Prefetch
    PROVE  \/ UNCHANGED <<tasks, requested>>
           \/ \E offset \in 0..FileSize, length \in Nat: DownloadRange(offset, length)
<1> USE FetchAssumption
<1>1. CASE HandleCommand
  <2>1. CASE Head(cmds).kind = "Close"
    BY <1>1, <2>1 DEF HandleCommand
  <2>2. CASE Head(cmds).kind # "Close"
    <3>1. cmds # <<>> /\ DownloadRange(Head(cmds).range.start, Head(cmds).range.length)
      BY <1>1, <2>2 DEF HandleCommand
    <3>2. 1 \in DOMAIN cmds /\ Head(cmds) = cmds[1] /\ Head(cmds) \in CmdType
      BY <3>1, Tails DEF Typed
    <3>3. Head(cmds).range.start \in 0..FileSize /\ Head(cmds).range.length \in Nat
      BY <3>2 DEF Typed, CmdType, RangeType
    <3> QED
      BY <3>1, <3>3
  <2> QED
    BY <2>1, <2>2
<1>2. CASE Prefetch
  <2> DEFINE pending == TotalLength(SubtractRangeSet(requested, downloaded))
  <2>1. SUFFICES ASSUME ~UNCHANGED <<tasks, requested>>
                 PROVE  \E offset \in 0..FileSize, length \in Nat: DownloadRange(offset, length)
    OBVIOUS
  <2>2. /\ FirstMissing # <<>>
        /\ \E desired \in (pending + 1)..MaxDesired:
              DownloadRange(Head(FirstMissing).start, Minimum(Head(FirstMissing).length, desired - pending))
    BY <1>2, <2>1 DEF Prefetch
  <2>3. pending \in Nat
    <3>1. SubtractRangeSet(requested, downloaded) \in Lists
      BY SubtractRangeSetIsDifference DEF Typed
    <3> QED
      BY <3>1, TotalLengthIs
  <2> HIDE DEF pending
  <2>4. PICK desired \in (pending + 1)..MaxDesired:
              DownloadRange(Head(FirstMissing).start, Minimum(Head(FirstMissing).length, desired - pending))
    BY <2>2
  <2>5. FirstMissing \in Lists /\ Covered(FirstMissing) \subseteq Blocks
    BY FirstMissingIs
  <2>6. FirstMissing \in Seq(RangeType)
    BY <2>5 DEF Lists
  <2>7. 1 \in DOMAIN FirstMissing /\ Head(FirstMissing) = FirstMissing[1]
    BY <2>2, <2>6, Tails
  <2>8. /\ Head(FirstMissing).start \in Nat /\ Head(FirstMissing).length \in Nat
        /\ Head(FirstMissing).start < FileSize
    BY <2>5, <2>7, RangesOf
  <2>9. Head(FirstMissing).start \in 0..FileSize
    BY <2>8
  <2>10. desired - pending \in Nat
    BY <2>3
  <2>11. Minimum(Head(FirstMissing).length, desired - pending) \in Nat
    BY <2>8, <2>10 DEF Minimum
  <2> QED
    BY <2>4, <2>9, <2>11
<1> QED
  BY <1>1, <1>2

\* What asks for a range, or changes no request, keeps the types of both.
LEMMA AskingTyped ==
    ASSUME Typed, UNCHANGED <<tasks, requested>> \/ \E new: Asked(new)
    PROVE  RequestsOK(tasks') /\ requested' \in Lists /\ Covered(requested') \subseteq Blocks
<1>1. CASE UNCHANGED <<tasks, requested>>
  BY <1>1 DEF Typed, RequestsOK
<1>2. CASE \E new: Asked(new)
  <2>1. PICK new: Asked(new)
    BY <1>2
  <2>2. RequestsOK(tasks) /\ RequestsOK(new)
    <3>1. RequestsOK(tasks)
      BY DEF Typed, RequestsOK
    <3>2. \A t \in new: t.got <= t.length
      BY <2>1 DEF Asked, TaskType
    <3>3. RequestsOK(new)
      BY <2>1, <3>2 DEF RequestsOK, Asked
    <3> QED
      BY <3>1, <3>3
  <2>3. RequestsOK(tasks')
    BY <2>1, <2>2 DEF RequestsOK, Asked
  <2> QED
    BY <2>1, <2>3 DEF Asked
<1> QED
  BY <1>1, <1>2

\* The steps of the fetching task keep the types.
LEMMA FetchingTyped == Typed /\ Apart /\ (Fetching \/ LoopFails) => Typed'
<1> SUFFICES ASSUME Typed, Apart, Fetching \/ LoopFails PROVE Typed'
  OBVIOUS
<1> USE FetchAssumption
<1>1. /\ downloaded \in Lists /\ Covered(downloaded) \subseteq Blocks /\ requested \in Lists
      /\ Covered(requested) \subseteq Blocks
      /\ streaming \in BOOLEAN /\ user \in UserType /\ user.start + user.length <= FileSize
      /\ CmdsOK(cmds) /\ DataOK(data) /\ RequestsOK(tasks) /\ file \subseteq Blocks
      /\ fails \in 0..MaxFails
  BY DEF Typed, CmdsOK, DataOK, RequestsOK
<1>2. ASSUME loop' \in {"runs", "prefetch", "complete", "closed", "failed"},
             RequestsOK(tasks'), DataOK(data'), CmdsOK(cmds'),
             requested' \in Lists, Covered(requested') \subseteq Blocks,
             downloaded' \in Lists, Covered(downloaded') \subseteq Blocks,
             user' \in UserType, user'.start + user'.length <= FileSize,
             file' \subseteq Blocks, complete' \in BOOLEAN, fails' \in 0..MaxFails,
             UNCHANGED <<urls, streaming, position, slow>>
      PROVE  Typed'
  BY <1>2 DEF Typed, RequestsOK, DataOK, CmdsOK
<1>3. <<>> \in Seq(CmdType) /\ CmdsOK(<<>>) /\ DataOK(<<>>)
  BY DEF CmdsOK, DataOK
<1>4. cmds # <<>> => CmdsOK(Tail(cmds))
  BY <1>1, Tails DEF CmdsOK
<1>5. data # <<>> => /\ DataOK(Tail(data)) /\ 1 \in DOMAIN data /\ Head(data) = data[1]
                     /\ Head(data) \in DataType
  BY <1>1, Tails DEF DataOK
<1>6. ASSUME HandleCommand \/ Prefetch
      PROVE  RequestsOK(tasks') /\ requested' \in Lists /\ Covered(requested') \subseteq Blocks
  <2>1. \/ UNCHANGED <<tasks, requested>>
        \/ \E offset \in 0..FileSize, length \in Nat: DownloadRange(offset, length)
    BY <1>6, Asking
  <2>2. CASE \E offset \in 0..FileSize, length \in Nat: DownloadRange(offset, length)
    BY <1>1, <2>2, Downloads, AskingTyped
  <2>3. CASE UNCHANGED <<tasks, requested>>
    BY <2>3, AskingTyped
  <2> QED
    BY <2>1, <2>2, <2>3
<1>7. CASE HandleCommand
  <2>1. /\ cmds # <<>>
        /\ UNCHANGED <<urls, streaming, downloaded, position, user, file, complete, history>>
        /\ \/ loop' = "closed" /\ cmds' = <<>> /\ data' = <<>>
           \/ loop' = "prefetch" /\ cmds' = Tail(cmds) /\ data' = data
    BY <1>7 DEF HandleCommand, LoopEnds
  <2>2. complete' \in BOOLEAN /\ CmdsOK(cmds') /\ DataOK(data')
    BY <1>1, <1>3, <1>4, <2>1 DEF Typed
  <2> QED
    BY <1>1, <1>2, <1>6, <1>7, <2>1, <2>2 DEF history
<1>8. CASE HandleMeasure
  <2>1. complete' \in BOOLEAN /\ CmdsOK(cmds') /\ DataOK(data') /\ RequestsOK(tasks')
    BY <1>1, <1>5, <1>8 DEF Typed, HandleMeasure
  <2> QED
    BY <1>1, <1>2, <1>8, <2>1 DEF HandleMeasure, history, status
<1>9. CASE HandleData
  <2>1. /\ data # <<>>
        /\ file' = file \cup Positions(Head(data).range)
        /\ downloaded' = AddRange(downloaded, Head(data).range)
        /\ user' = Notified(user)
        /\ complete' = Full(downloaded')
        /\ \/ loop' = "complete" /\ cmds' = <<>> /\ data' = <<>>
           \/ loop' = "prefetch" /\ cmds' = cmds /\ data' = Tail(data)
        /\ UNCHANGED <<urls, streaming, requested, position, tasks, history>>
    BY <1>9 DEF HandleData, LoopEnds, Told
  <2>2. Head(data).range \in RangeType /\ Positions(Head(data).range) \subseteq Blocks
    <3>1. Head(data).range \in RangeType
      BY <1>5, <2>1 DEF DataType
    <3>2. Positions(Head(data).range) \subseteq Covered(requested)
      BY <1>5, <2>1 DEF Apart, Coming
    <3> QED
      BY <1>1, <3>1, <3>2
  <2>3. downloaded' \in Lists /\ Covered(downloaded') \subseteq Blocks
    BY <1>1, <2>1, <2>2, AddRangeIsUnion
  <2>4. user' \in UserType /\ user'.start + user'.length <= FileSize
    BY <1>1, <2>1, UserTypes
  <2>5. CmdsOK(cmds') /\ DataOK(data') /\ RequestsOK(tasks') /\ file' \subseteq Blocks
    BY <1>1, <1>3, <1>5, <2>1, <2>2
  <2>6. complete' \in BOOLEAN
    BY <2>1 DEF Full
  <2>7. loop' \in {"runs", "prefetch", "complete", "closed", "failed"}
    BY <2>1
  <2> QED
    BY <1>1, <1>2, <2>1, <2>3, <2>4, <2>5, <2>6, <2>7 DEF history
<1>10. CASE Prefetch
  <2>1. complete' \in BOOLEAN /\ CmdsOK(cmds') /\ DataOK(data')
    BY <1>1, <1>10 DEF Typed, Prefetch
  <2> QED
    BY <1>1, <1>2, <1>6, <1>10, <2>1 DEF Prefetch, history
<1>11. CASE LoopFails
  <2>1. fails' \in 0..MaxFails
    BY <1>1, <1>11 DEF LoopFails, Fails
  <2>2. complete' \in BOOLEAN /\ CmdsOK(cmds') /\ DataOK(data') /\ RequestsOK(tasks')
    BY <1>1, <1>3, <1>11 DEF Typed, LoopFails, LoopEnds
  <2> QED
    BY <1>1, <1>2, <1>11, <2>1, <2>2 DEF LoopFails, LoopEnds, status
<1> QED
  BY <1>7, <1>8, <1>9, <1>10, <1>11 DEF Fetching

\* Opening a file keeps the types, and asks for its first range.
LEMMA OpeningTyped ==
    ASSUME Typed, UrlFails \/ UrlAnswers
    PROVE  Typed' /\ (UrlAnswers => \E new: Asked(new))
<1> USE FetchAssumption
<1>1. /\ requested = <<>> /\ downloaded = <<>> /\ tasks = {} /\ user.at = "idle" /\ loop = "opening"
      /\ urls \in 0..MaxUrls /\ urls > 0
  BY DEF Typed, UrlFails, UrlAnswers
<1>2. CASE UrlFails
  <2>1. urls' \in 0..MaxUrls /\ loop' \in {"opening", "failed"}
    BY <1>1, <1>2 DEF UrlFails
  <2>2. ~UrlAnswers
    BY <1>1, <1>2 DEF UrlFails, UrlAnswers
  <2> QED
    BY <1>1, <1>2, <2>1, <2>2 DEF Typed, UrlFails, status, history
<1>3. CASE UrlAnswers
  <2> DEFINE first == Span(0, MinDownload)
  <2>1. /\ loop' = "runs" /\ urls' = 1 /\ requested' = AddRange(requested, first)
        /\ tasks' = {Task(first, "queued")}
        /\ UNCHANGED <<streaming, downloaded, position, user, cmds, data, file, complete, history>>
    BY <1>3 DEF UrlAnswers
  <2>2. /\ first \in RangeType /\ first.length = MinDownload /\ first.start = 0
        /\ Positions(first) = 0..(0 + MinDownload - 1)
    BY SpanIs
  <2>3. Positions(first) \subseteq Blocks
    BY <2>2 DEF Blocks
  <2>4. End(first) <= FileSize
    BY <2>2 DEF End
  <2> HIDE DEF first
  <2> DEFINE task == Task(first, "queued")
             new == {task}
  <2>5. /\ task \in TaskType /\ task.at = "queued" /\ task.got = 0 /\ task.length = MinDownload
        /\ End(task) = End(first) /\ Positions(task) = Positions(first)
    BY <2>2, TaskIs
  <2>6. tasks' = tasks \cup new
    BY <1>1, <2>1
  <2> HIDE DEF task
  <2>7. requested \in Lists /\ Covered(requested) = {} /\ Covered(downloaded) = {}
    BY <1>1, SmallLists
  <2>8. requested' \in Lists /\ Covered(requested') = Covered(requested) \cup Positions(first)
    BY <2>1, <2>2, <2>7, AddRangeIsUnion
  <2>9. Asked(new)
    BY <2>3, <2>4, <2>5, <2>6, <2>7, <2>8 DEF Asked
  <2>10. RequestsOK(tasks') /\ requested' \in Lists /\ Covered(requested') \subseteq Blocks
    BY <2>9, AskingTyped
  <2>11. urls' \in 0..MaxUrls /\ loop' # "opening"
    BY <1>1, <2>1
  <2>12. Typed'
    BY <2>1, <2>10, <2>11 DEF Typed, RequestsOK, history
  <2> QED
    BY <2>9, <2>12
<1> QED
  BY <1>2, <1>3

\* What the model says of each requested block, said of sets.
LEMMA ComesIs ==
    /\ Typed => (RequestedIsComing <=> Comes)
    /\ Typed' => (RequestedIsComing' <=> Comes')
<1>1. ASSUME Typed PROVE RequestedIsComing <=> Comes
  <2>1. Covered(requested) \subseteq Nat
    BY <1>1, CoveredIs DEF Typed
  <2>2. \A b \in Covered(requested): Contains(downloaded, b) <=> b \in Covered(downloaded)
    BY <1>1, <2>1, LookupIs DEF Typed
  <2> QED
    BY <2>2 DEF RequestedIsComing, Comes, Coming
<1>2. ASSUME Typed' PROVE RequestedIsComing' <=> Comes'
  <2>1. Covered(requested') \subseteq Nat
    BY <1>2, CoveredIs DEF Typed
  <2>2. \A b \in Covered(requested'): Contains(downloaded', b) <=> b \in Covered(downloaded')
    BY <1>2, <2>1, LookupIs DEF Typed
  <2> QED
    BY <2>2 DEF RequestedIsComing, Comes, Coming
<1> QED
  BY <1>1, <1>2

\* A step that leaves the lists and what is under way alone keeps what relates them.
LEMMA Unrelated ==
    ASSUME Apart, Arrives, Comes, UNCHANGED <<loop, status, data, tasks>>
    PROVE  Apart' /\ Arrives' /\ Comes'
BY DEF Apart, Arrives, Comes, Listening, status

\* What is downloaded is real when it is read.
LEMMA ServedIsReal == Typed /\ ReadsAreReal /\ Served => user'.real
<1> SUFFICES ASSUME Typed, ReadsAreReal, Served PROVE user'.real
  OBVIOUS
<1>1. user.start \in Nat /\ user.length \in Nat /\ downloaded \in Lists
  BY DEF Typed, UserType
<1>2. Result("data").real /\ Result("data") \in UserType
  BY UserTypes
<1>3. CASE user' = Result("data")
  BY <1>2, <1>3
<1>4. CASE user' = [Result("data") EXCEPT !.real =
                      (user.start .. (user.start + ReadLength(user.start, user.length) - 1)) \subseteq file]
  <2> DEFINE there == ContainedLengthFrom(downloaded, user.start)
             n == ReadLength(user.start, user.length)
  <2>1. there \in Nat /\ user.start .. (user.start + there - 1) \subseteq Covered(downloaded)
    BY <1>1, LookupIs
  <2>2. n = Minimum(user.length, there)
    BY DEF ReadLength
  <2> HIDE DEF there, n
  <2>3. n \in Nat /\ n <= there
    BY <1>1, <2>1, <2>2 DEF Minimum
  <2>4. user.start .. (user.start + n - 1) \subseteq user.start .. (user.start + there - 1)
    BY <1>1, <2>1, <2>3
  <2>5. (user.start .. (user.start + n - 1)) \subseteq file
    BY <2>1, <2>4 DEF ReadsAreReal
  <2>6. user' = [Result("data") EXCEPT !.real = (user.start .. (user.start + n - 1)) \subseteq file]
    BY <1>4 DEF n
  <2>7. user'.real = ((user.start .. (user.start + n - 1)) \subseteq file)
    BY <1>2, <2>6 DEF UserType
  <2> QED
    BY <2>5, <2>7
<1> QED
  BY <1>3, <1>4 DEF Served

\* A blocking fetch that sleeps on after it was woken misses a block that is
\* requested, or it has just asked for it again.
LEMMA SleepsOnPersists == Typed /\ Sleeps => Persists'
<1> SUFFICES ASSUME Typed, Sleeps, (user.at = "asleep" /\ user.what = "fetch" /\ user.again /\ Listening)'
             PROVE  \E b \in user'.start .. (user'.start + user'.length - 1):
                        b \notin Covered(downloaded') /\ Awaited(b)'
  BY DEF Persists
<1> DEFINE there == ContainedLengthFrom(downloaded, user.start)
           first == user.start + there
<1>1. /\ user \in UserType /\ user.start \in Nat /\ user.length \in Nat
      /\ downloaded \in Lists /\ requested \in Lists /\ CmdsOK(cmds)
      /\ user.start + user.length <= FileSize
  BY DEF Typed, UserType, CmdsOK
<1>2. /\ user' = [user EXCEPT !.at = "asleep", !.again = user.at = "woken"]
      /\ UNCHANGED <<loop, urls, streaming, status, position, data, tasks, file, complete, history>>
  BY DEF Sleeps
<1>3. /\ user'.what = user.what /\ user'.start = user.start /\ user'.length = user.length
      /\ user'.again = (user.at = "woken") /\ user.at = "woken" /\ user.what = "fetch" /\ Listening
  BY <1>1, <1>2 DEF UserType, Listening
<1>4. /\ user.length > there
      /\ IF AsksAgain THEN Send(<<Fetch(Span(user.start, user.length))>>) ELSE UNCHANGED cmds
  BY <1>3 DEF Sleeps
<1>5. there \in Nat /\ first \notin Covered(downloaded)
  BY <1>1, LookupIs
<1> HIDE DEF there
<1>6. PICK b \in Nat: /\ user.start <= b /\ b < user.start + user.length
                      /\ b \notin Covered(downloaded)
  BY <1>1, <1>4, <1>5
<1> HIDE DEF first
<1>7. b \in user'.start .. (user'.start + user'.length - 1) /\ b \notin Covered(downloaded')
  BY <1>1, <1>2, <1>3, <1>6 DEF status
<1>8. CASE AsksAgain
  <2> DEFINE range == Span(user.start, user.length)
             sent == <<Fetch(range)>>
  <2>1. range \in RangeType /\ range.start = user.start /\ Positions(range) = {v \in Nat: user.start <= v /\ v < user.start + user.length}
    BY <1>1, SpanIs
  <2>2. sent \in Seq({Fetch(range)}) /\ DOMAIN sent = {1} /\ sent[1] = Fetch(range)
    OBVIOUS
  <2>3. Send(sent)
    BY <1>4, <1>8
  <2> HIDE DEF range
  <2>4. Fetch(range) \in CmdType /\ Fetch(range).kind = "Fetch" /\ Fetch(range).range = range
    BY <2>1, FetchIs
  <2>5. CmdsOK(sent)
    BY <1>1, <2>1, <2>4, FetchAssumption DEF CmdsOK
  <2> HIDE DEF sent
  <2>6. PICK j \in DOMAIN cmds': cmds'[j] = sent[1]
    BY <1>1, <1>3, <2>2, <2>3, <2>5, Sends
  <2>7. cmds'[j].kind = "Fetch" /\ b \in Positions(cmds'[j].range)
    BY <1>6, <2>1, <2>2, <2>4, <2>6
  <2>8. Awaited(b)'
    BY <2>7 DEF Awaited
  <2> QED
    BY <1>7, <2>8
<1>9. CASE ~AsksAgain
  <2> DEFINE either == AddRangeSet(downloaded, requested)
             coming == ContainedLengthFrom(either, user.start)
  <2>1. either \in Lists /\ Covered(either) = Covered(downloaded) \cup Covered(requested)
    BY <1>1, AddRangeSetIsUnion
  <2>2. coming \in Nat /\ user.start .. (user.start + coming - 1) \subseteq Covered(either)
    <3> HIDE DEF either
    <3> QED
      BY <1>1, <2>1, LookupIs
  <2>3. ~(user.length > coming)
    BY <1>3, <1>9 DEF AsksAgain
  <2> HIDE DEF either, coming
  <2>4. b \in user.start .. (user.start + coming - 1)
    BY <1>1, <1>6, <2>2, <2>3
  <2>5. b \in Covered(requested)
    BY <1>6, <2>1, <2>2, <2>4
  <2>6. Awaited(b)'
    BY <1>2, <2>5 DEF Awaited, status
  <2> QED
    BY <1>7, <2>6
<1> QED
  BY <1>8, <1>9

\* The steps of the thread keep the invariant.
LEMMA PlayingKeeps == FetchInv /\ (Playing \/ Waiting) => FetchInv'
<1> SUFFICES ASSUME FetchInv, Playing \/ Waiting PROVE FetchInv'
  OBVIOUS
<1>1. Typed'
  BY PlayingTyped DEF FetchInv
<1>2. UNCHANGED <<loop, status, data, tasks, file, complete>>
  BY DEF Playing, Waiting, Read, FetchNextAndWait, Seek, SetMode, CloseFile, Served, Sleeps, SeekEnds, WaitTimeout
<1>3. Apart' /\ Arrives' /\ Comes'
  BY <1>2, Unrelated DEF FetchInv
<1>4. user'.real /\ Persists'
  <2>1. user.real /\ user \in UserType
    BY DEF FetchInv, ReadsAreReal, Typed
  <2>2. CASE Served
    <3>1. user'.at = "idle"
      <4>1. Result("data") \in UserType /\ Result("data").at = "idle"
        BY UserTypes
      <4> QED
        BY <2>2, <4>1 DEF Served, UserType
    <3> QED
      BY <2>2, <3>1, ServedIsReal DEF FetchInv, Persists
  <2>3. CASE Sleeps
    <3>1. user' = [user EXCEPT !.at = "asleep", !.again = user.at = "woken"]
      BY <2>3 DEF Sleeps
    <3>2. user'.real
      BY <2>1, <3>1 DEF UserType
    <3> QED
      BY <2>3, <3>2, SleepsOnPersists DEF FetchInv
  <2>4. CASE SeekEnds
    BY <2>4, UserTypes DEF SeekEnds, Persists
  <2>5. CASE WaitTimeout
    <3>1. user' = [Result("timeout") EXCEPT !.what = user.what]
      BY <2>5 DEF WaitTimeout
    <3>2. user'.real /\ user'.at = "idle"
      BY <3>1 DEF Result, Nobody
    <3> QED
      BY <3>2 DEF Persists
  <2>6. CASE Playing
    <3>1. user'.real /\ user'.at # "asleep"
      <4>1. ASSUME NEW n \in Lengths, Read(n) PROVE user'.real /\ user'.at # "asleep"
        <5>1. \/ user' \in {Result("end"), Result("broken")}
              \/ \E start, length: user' = [Nobody EXCEPT !.at = "checks", !.what = "read", !.start = start, !.length = length]
          BY <4>1 DEF Read
        <5> QED
          BY <5>1 DEF Result, Nobody
      <4>2. ASSUME NEW n \in Lengths, NEW w \in Lengths, FetchNextAndWait(n, w) PROVE user'.real /\ user'.at # "asleep"
        <5>1. \E start, length: user' = [Nobody EXCEPT !.at = "checks", !.what = "fetch", !.start = start, !.length = length]
          BY <4>2 DEF FetchNextAndWait
        <5> QED
          BY <5>1 DEF Nobody
      <4>3. ASSUME NEW p \in 0..FileSize, Seek(p) PROVE user'.real /\ user'.at # "asleep"
        <5>1. user' = Nobody \/ \E start: user' = [Nobody EXCEPT !.at = "seeks", !.start = start]
          BY <4>3 DEF Seek
        <5>2. CASE \E start: user' = [Nobody EXCEPT !.at = "seeks", !.start = start]
          BY <5>2 DEF Nobody
        <5>3. CASE user' = Nobody
          BY <5>3 DEF Nobody
        <5> QED
          BY <5>1, <5>2, <5>3
      <4>4. ASSUME NEW m \in BOOLEAN, SetMode(m) PROVE user'.real /\ user'.at # "asleep"
        BY <4>4 DEF SetMode, Nobody
      <4>5. CASE CloseFile
        BY <4>5 DEF CloseFile, Nobody
      <4> QED
        BY <2>6, <4>1, <4>2, <4>3, <4>4, <4>5 DEF Playing
    <3> QED
      BY <3>1 DEF Persists
  <2> QED
    BY <2>2, <2>3, <2>4, <2>5, <2>6 DEF Waiting
<1>5. ReadsAreReal'
  BY <1>2, <1>4 DEF FetchInv, ReadsAreReal, status
<1> QED
  BY <1>1, <1>3, <1>4, <1>5 DEF FetchInv

\* What is asked for joins what is requested and under way.
LEMMA AskedKeeps ==
    ASSUME Typed, Apart, Arrives, Comes, NEW new, Asked(new), UNCHANGED <<downloaded, data>>,
           Listening \/ (tasks = {} /\ requested = <<>>)
    PROVE  Apart' /\ Arrives' /\ Comes'
<1> USE DEF Asked
<1>1. \A t \in new: Rest(t) = Positions(t)
  <2>1. ASSUME NEW t \in new PROVE Rest(t) = Positions(t)
    <3>1. t \in TaskType /\ t.got = 0
      OBVIOUS
    <3>2. t.start \in Nat /\ t.start + t.got = t.start
      BY <3>1 DEF TaskType
    <3> QED
      BY <3>2 DEF Rest, Positions
  <2> QED
    BY <2>1
<1>2. ASSUME NEW t \in tasks'
      PROVE  /\ Rest(t) \subseteq Covered(requested') \ Covered(downloaded')
             /\ Rest(t) \cap Coming(data') = {}
             /\ \A u \in tasks' \ {t}: Rest(t) \cap Rest(u) = {}
  <2>1. CASE t \in tasks
    BY <1>1, <2>1 DEF Apart
  <2>2. CASE t \in new
    <3>1. Rest(t) = Positions(t) /\ Rest(t) \cap Covered(requested) = {}
      BY <1>1, <2>2
    <3>2. Rest(t) \cap Coming(data) = {} /\ \A u \in tasks: Rest(t) \cap Rest(u) = {}
      BY <3>1 DEF Apart
    <3>3. \A u \in new \ {t}: Rest(t) \cap Rest(u) = {}
      BY <1>1, <2>2
    <3> QED
      BY <2>2, <3>1, <3>2, <3>3
  <2> QED
    BY <2>1, <2>2
<1>3. Apart'
  BY <1>2 DEF Apart
<1>4. Arrives'
  <2>1. \A t \in new: t.at # "ends"
    OBVIOUS
  <2> QED
    BY <2>1 DEF Arrives
<1>5. Comes'
  <2>1. ASSUME NEW b \in Covered(requested')
        PROVE  b \in Covered(downloaded) \cup Coming(data) \cup UNION {Positions(t): t \in tasks'}
    <3>1. CASE \E t \in new: b \in Positions(t)
      BY <3>1
    <3>2. CASE b \in Covered(requested)
      <4>1. Listening
        BY <3>2, SmallLists
      <4> QED
        BY <3>2, <4>1 DEF Comes
    <3> QED
      BY <2>1, <3>1, <3>2
  <2> QED
    BY <2>1 DEF Comes
<1> QED
  BY <1>3, <1>4, <1>5

\* A task that has gone on stands for the same range; what it has brought is
\* requested, and on its way.
LEMMA ReplacedKeeps ==
    ASSUME Typed, Apart, Arrives, Comes, NEW t \in tasks, NEW next,
           tasks' = (tasks \ {t}) \cup {next},
           Positions(next) = Positions(t), Rest(next) \subseteq Rest(t), Rest(t) = Positions(t),
           Coming(data) \subseteq Coming(data'),
           Coming(data') \subseteq Coming(data) \cup (Rest(t) \ Rest(next)),
           next.at = "ends" => Positions(t) \ Rest(next) \subseteq Coming(data'),
           UNCHANGED <<loop, requested, downloaded>>
    PROVE  Apart' /\ Arrives' /\ Comes'
<1>1. ASSUME NEW u \in tasks'
      PROVE  /\ Rest(u) \subseteq Covered(requested') \ Covered(downloaded')
             /\ Rest(u) \cap Coming(data') = {}
             /\ \A v \in tasks' \ {u}: Rest(u) \cap Rest(v) = {}
  <2>1. CASE u = next
    BY <2>1 DEF Apart
  <2>2. CASE u \in tasks \ {t}
    BY <2>2 DEF Apart
  <2> QED
    BY <2>1, <2>2
<1>2. Coming(data') \subseteq Covered(requested')
  BY DEF Apart
<1>3. Apart'
  BY <1>1, <1>2 DEF Apart
<1>4. Arrives'
  BY DEF Arrives, Listening
<1>5. Comes'
  <2>1. UNION {Positions(u): u \in tasks} \subseteq UNION {Positions(u): u \in tasks'}
    OBVIOUS
  <2> QED
    BY <2>1 DEF Comes, Listening
<1> QED
  BY <1>3, <1>4, <1>5

\* What waits in the channel of data, after one more or one less.
LEMMA ComingIs ==
    ASSUME NEW ds, DataOK(ds)
    PROVE  /\ \A d \in DataType: (d.kind = "Measure" => d.range.length = 0) =>
                 Coming(Append(ds, d)) = Coming(ds) \cup Positions(d.range)
           /\ ds # <<>> => Coming(ds) = Positions(Head(ds).range) \cup Coming(Tail(ds))
<1>1. ASSUME NEW d \in DataType, d.kind = "Measure" => d.range.length = 0
      PROVE  Coming(Append(ds, d)) = Coming(ds) \cup Positions(d.range)
  <2> DEFINE all == Append(ds, d)
  <2>1. /\ Len(ds) + 1 \in DOMAIN all /\ all[Len(ds) + 1] = d
        /\ \A i \in DOMAIN ds: i \in DOMAIN all /\ all[i] = ds[i]
        /\ \A i \in DOMAIN all: (i \in DOMAIN ds /\ all[i] = ds[i]) \/ all[i] = d
    BY <1>1, Appends
  <2> HIDE DEF all
  <2>2. Coming(all) \subseteq Coming(ds) \cup Positions(d.range)
    BY <2>1 DEF Coming
  <2>3. Coming(ds) \cup Positions(d.range) \subseteq Coming(all)
    BY <2>1 DEF Coming
  <2> QED
    BY <2>2, <2>3 DEF all
<1>2. ASSUME ds # <<>> PROVE Coming(ds) = Positions(Head(ds).range) \cup Coming(Tail(ds))
  <2>1. /\ 1 \in DOMAIN ds /\ Head(ds) = ds[1]
        /\ \A i \in DOMAIN Tail(ds): i + 1 \in DOMAIN ds /\ Tail(ds)[i] = ds[i + 1]
        /\ \A i \in DOMAIN ds: i # 1 => i - 1 \in DOMAIN Tail(ds) /\ Tail(ds)[i - 1] = ds[i]
    BY <1>2, Tails DEF DataOK
  <2> DEFINE rest == Tail(ds)
             head == Head(ds)
  <2> HIDE DEF rest, head
  <2>2. /\ 1 \in DOMAIN ds /\ head = ds[1]
        /\ \A i \in DOMAIN rest: i + 1 \in DOMAIN ds /\ rest[i] = ds[i + 1]
        /\ \A i \in DOMAIN ds: i # 1 => i - 1 \in DOMAIN rest /\ rest[i - 1] = ds[i]
    BY <2>1 DEF rest, head
  <2>3. Coming(ds) \subseteq Positions(head.range) \cup Coming(rest)
    <3>1. ASSUME NEW i \in DOMAIN ds PROVE Positions(ds[i].range) \subseteq Positions(head.range) \cup Coming(rest)
      <4>1. CASE i = 1
        BY <2>2, <4>1
      <4>2. CASE i # 1
        BY <2>2, <4>2 DEF Coming
      <4> QED
        BY <4>1, <4>2
    <3> QED
      BY <3>1 DEF Coming
  <2>4. Positions(head.range) \cup Coming(rest) \subseteq Coming(ds)
    BY <2>2 DEF Coming
  <2> QED
    BY <2>3, <2>4 DEF rest, head
<1> QED
  BY <1>1, <1>2

\* A report of the throughput brings nothing.
LEMMA MeasureIs ==
    ASSUME NEW d \in DataType, d.range.length = 0
    PROVE  Positions(d.range) = {}
<1>1. d.range.start \in Nat /\ d.range.length = 0
  BY DEF DataType, RangeType
<1> QED
  BY <1>1 DEF Positions, End

\* The steps of the requests keep the invariant.
LEMMA RequestingKeeps ==
    ASSUME FetchInv, NEW t \in tasks,
           Acquire(t) \/ TaskEnds(t) \/ RequestFails(t) \/ \E n \in 0..t.length: Receive(t, n)
    PROVE  FetchInv'
<1>1. Typed /\ Apart /\ Arrives /\ Comes /\ ReadsAreReal /\ Persists
  BY DEF FetchInv
<1>2. Typed'
  BY <1>1, RequestingTyped
<1>3. /\ t \in TaskType /\ t.length > 0 /\ t.got <= t.length
      /\ t.at # "ends" => t.got = 0
      /\ t.start \in Nat /\ t.length \in Nat /\ t.got \in Nat /\ End(t) = t.start + t.length
      /\ user \in UserType /\ requested \in Lists /\ DataOK(data)
  BY <1>1 DEF Typed, TaskType, End, DataOK
<1>4. ASSUME Apart', Arrives', Comes', user' = user, UNCHANGED <<loop, requested, downloaded, cmds, file, complete>>
      PROVE  FetchInv'
  <2>1. ReadsAreReal'
    BY <1>1, <1>4 DEF ReadsAreReal
  <2>2. Persists'
    BY <1>1, <1>4 DEF Persists, Awaited, Listening
  <2> QED
    BY <1>2, <1>4, <2>1, <2>2 DEF FetchInv
<1>5. ASSUME t.at # "ends" PROVE Rest(t) = Positions(t)
  <2>1. t.start + t.got = t.start
    BY <1>3, <1>5
  <2> QED
    BY <2>1 DEF Rest, Positions
<1>6. CASE Acquire(t)
  <2> DEFINE next == [t EXCEPT !.at = "runs"]
  <2>1. /\ t.at = "queued" /\ tasks' = (tasks \ {t}) \cup {next}
        /\ UNCHANGED <<loop, urls, streaming, status, position, user, cmds, data, file, complete, history>>
    BY <1>6 DEF Acquire
  <2>2. next.start = t.start /\ next.length = t.length /\ next.got = t.got /\ next.at = "runs"
    BY <1>3 DEF TaskType
  <2> HIDE DEF next
  <2>3. Positions(next) = Positions(t) /\ Rest(next) = Rest(t)
    BY <2>2 DEF Positions, Rest, End
  <2>4. Apart' /\ Arrives' /\ Comes'
    BY <1>1, <1>5, <2>1, <2>2, <2>3, ReplacedKeeps DEF status
  <2> QED
    BY <1>4, <2>1, <2>4 DEF status
<1>7. CASE RequestFails(t)
  <2> DEFINE next == [t EXCEPT !.at = "ends"]
  <2>1. /\ t.at = "runs" /\ tasks' = (tasks \ {t}) \cup {next}
        /\ UNCHANGED <<loop, urls, streaming, status, position, user, cmds, data, file, complete, slow>>
    BY <1>7 DEF RequestFails
  <2>2. next.start = t.start /\ next.length = t.length /\ next.got = t.got
    BY <1>3 DEF TaskType
  <2> HIDE DEF next
  <2>3. Positions(next) = Positions(t) /\ Rest(next) = Rest(t)
    BY <2>2 DEF Positions, Rest, End
  <2>4. Positions(t) \ Rest(next) = {}
    BY <1>5, <2>1, <2>3
  <2>5. Apart' /\ Arrives' /\ Comes'
    BY <1>1, <1>5, <2>1, <2>3, <2>4, ReplacedKeeps DEF status
  <2> QED
    BY <1>4, <2>1, <2>5 DEF status
<1>8. ASSUME NEW n \in 0..t.length, Receive(t, n) PROVE FetchInv'
  <2> DEFINE next == [t EXCEPT !.at = "ends", !.got = n]
             range == Span(t.start, n)
             d == [kind |-> "Data", range |-> range]
  <2>1. /\ t.at = "runs"
        /\ IF Listening THEN data' = Append(data, d) /\ tasks' = (tasks \ {t}) \cup {next}
                        ELSE tasks' = tasks \ {t} /\ data' = data
        /\ UNCHANGED <<loop, urls, streaming, status, position, user, cmds, file, complete>>
    BY <1>8 DEF Receive
  <2>2. n \in Nat /\ n <= t.length
    BY <1>3
  <2>3. CASE Listening
    <3>1. next.start = t.start /\ next.length = t.length /\ next.got = n /\ next.at = "ends"
      BY <1>3 DEF TaskType
    <3>2. range \in RangeType /\ Positions(range) = t.start..(t.start + n - 1)
      BY <1>3, <2>2, SpanIs
    <3>3. d \in DataType /\ d.kind = "Data" /\ d.range = range
      BY <3>2 DEF DataType
    <3> HIDE DEF next, range, d
    <3>4. Coming(data') = Coming(data) \cup Positions(range)
      BY <1>3, <2>1, <2>3, <3>3, ComingIs
    <3>5. Positions(next) = Positions(t) /\ Positions(t) = t.start..(t.start + t.length - 1)
          /\ Rest(next) = (t.start + n)..(t.start + t.length - 1)
      BY <1>3, <3>1 DEF Positions, Rest, End
    <3>6. /\ Rest(next) \subseteq Positions(t) /\ Positions(range) \subseteq Positions(t) \ Rest(next)
          /\ Positions(t) \ Rest(next) \subseteq Positions(range)
      BY <1>3, <2>2, <3>2, <3>5
    <3>7. Rest(t) = Positions(t)
      BY <1>5, <2>1
    <3>8. Apart' /\ Arrives' /\ Comes'
      BY <1>1, <2>1, <2>3, <3>4, <3>5, <3>6, <3>7, ReplacedKeeps DEF status
    <3> QED
      BY <1>4, <2>1, <3>8 DEF status
  <2>4. CASE ~Listening
    <3>1. Apart' /\ Arrives' /\ Comes'
      BY <1>1, <2>1, <2>4 DEF Apart, Arrives, Comes, Listening, status
    <3> QED
      BY <1>4, <2>1, <3>1 DEF status
  <2> QED
    BY <2>3, <2>4
<1>9. CASE TaskEnds(t)
  <2> DEFINE short == t.got < t.length /\ (t.got > 0 => Listening)
             range == Span(t.start + t.got, t.length - t.got)
             d == [kind |-> "Measure", range |-> Span(0, 0)]
  <2>1. /\ t.at = "ends" /\ tasks' = tasks \ {t}
        /\ data' = Append(data, d) \/ data' = data
        /\ requested' = IF short THEN SubtractRange(requested, range) ELSE requested
        /\ user' = IF short THEN Notified(user) ELSE user
        /\ UNCHANGED <<loop, urls, streaming, downloaded, position, cmds, file, complete, history>>
    BY <1>9 DEF TaskEnds
  <2>2. range \in RangeType /\ Positions(range) = Rest(t)
    <3>1. t.start + t.got \in Nat /\ t.length - t.got \in Nat
      BY <1>3
    <3>2. range \in RangeType /\ Positions(range) = (t.start + t.got)..((t.start + t.got) + (t.length - t.got) - 1)
      BY <3>1, SpanIs
    <3>3. (t.start + t.got) + (t.length - t.got) - 1 = End(t) - 1
      BY <1>3
    <3> HIDE DEF range
    <3>4. Positions(range) = (t.start + t.got)..(End(t) - 1)
      BY <3>2, <3>3
    <3> QED
      BY <3>2, <3>4 DEF Rest
  <2>3. d \in DataType /\ d.range.length = 0
    <3>1. Span(0, 0) \in RangeType /\ Span(0, 0).length = 0
      BY SpanIs
    <3> QED
      BY <3>1 DEF DataType
  <2> HIDE DEF range, d
  <2>4. Coming(data') = Coming(data)
    <3>1. Positions(d.range) = {}
      BY <2>3, MeasureIs
    <3>2. Coming(Append(data, d)) = Coming(data) \cup Positions(d.range)
      BY <1>3, <2>3, ComingIs
    <3> QED
      BY <2>1, <3>1, <3>2
  <2>5. Covered(requested') = IF short THEN Covered(requested) \ Rest(t) ELSE Covered(requested)
    BY <1>3, <2>1, <2>2, SubtractRangeIsDifference
  <2>6. Listening /\ ~short => Rest(t) = {}
    <3>1. ASSUME Listening, ~short PROVE Rest(t) = {}
      <4>1. t.got = t.length
        BY <1>3, <3>1
      <4> QED
        BY <1>3, <4>1 DEF Rest
    <3> QED
      BY <3>1
  <2> HIDE DEF short
  <2>7. Apart'
    <3>1. \A u \in tasks': /\ u \in tasks /\ Rest(u) \cap Rest(t) = {}
                           /\ Rest(u) \subseteq Covered(requested) \ Covered(downloaded)
                           /\ Rest(u) \cap Coming(data) = {}
                           /\ \A v \in tasks' \ {u}: Rest(u) \cap Rest(v) = {}
      BY <1>1, <2>1 DEF Apart
    <3>2. Coming(data) \subseteq Covered(requested) /\ Rest(t) \cap Coming(data) = {}
      BY <1>1 DEF Apart
    <3>3. Covered(requested) \ Rest(t) \subseteq Covered(requested')
      BY <2>5
    <3>4. Coming(data') \subseteq Covered(requested')
      BY <2>4, <3>2, <3>3
    <3>5. \A u \in tasks': /\ Rest(u) \subseteq Covered(requested') \ Covered(downloaded')
                           /\ Rest(u) \cap Coming(data') = {}
      BY <2>1, <2>4, <3>1, <3>3
    <3> QED
      BY <3>1, <3>4, <3>5 DEF Apart
  <2>8. Arrives'
    BY <1>1, <2>1, <2>4 DEF Arrives, Listening
  <2>9. Comes'
    <3>1. ASSUME Listening, NEW b \in Covered(requested')
          PROVE  b \in Covered(downloaded) \cup Coming(data) \cup UNION {Positions(u): u \in tasks'}
      <4>1. b \in Covered(requested) /\ b \notin Rest(t)
        BY <2>5, <2>6, <3>1
      <4>2. b \in Positions(t) => b \in Covered(downloaded) \cup Coming(data)
        BY <1>1, <2>1, <3>1, <4>1 DEF Arrives
      <4>3. b \in Covered(downloaded) \cup Coming(data) \cup UNION {Positions(u): u \in tasks}
        BY <1>1, <3>1, <4>1 DEF Comes
      <4> QED
        BY <2>1, <4>2, <4>3
    <3>2. Listening' <=> Listening
      BY <2>1 DEF Listening
    <3> QED
      BY <2>1, <2>4, <3>1, <3>2 DEF Comes
  <2>10. ReadsAreReal'
    <3>1. user'.real
      BY <1>1, <1>3, <2>1, UserTypes DEF ReadsAreReal
    <3> QED
      BY <1>1, <2>1, <3>1 DEF ReadsAreReal
  <2>11. Persists'
    <3>1. CASE short
      <4>1. user'.at # "asleep"
        BY <1>3, <2>1, <3>1, UserTypes
      <4> QED
        BY <4>1 DEF Persists
    <3>2. CASE ~short
      BY <1>1, <2>1, <3>2 DEF Persists, Awaited, Listening
    <3> QED
      BY <3>1, <3>2
  <2> QED
    BY <1>2, <2>7, <2>8, <2>9, <2>10, <2>11 DEF FetchInv
<1> QED
  BY <1>6, <1>7, <1>8, <1>9

\* The steps of the fetching task keep the invariant.
LEMMA FetchingKeeps == FetchInv /\ (Fetching \/ LoopFails) => FetchInv'
<1> SUFFICES ASSUME FetchInv, Fetching \/ LoopFails PROVE FetchInv'
  OBVIOUS
<1>1. Typed /\ Apart /\ Arrives /\ Comes /\ ReadsAreReal /\ Persists
  BY DEF FetchInv
<1>2. Typed'
  BY <1>1, FetchingTyped
<1>3. /\ user \in UserType /\ requested \in Lists /\ downloaded \in Lists /\ DataOK(data) /\ streaming \in BOOLEAN
      /\ Covered(requested) \subseteq Blocks /\ cmds \in Seq(CmdType) /\ FileSize \in Nat /\ FileSize > 0
      /\ user.start \in Nat /\ user.length \in Nat /\ user.start + user.length <= FileSize
      /\ \A i \in DOMAIN cmds: cmds[i].range.start <= FileSize
  BY <1>1, FetchAssumption DEF Typed, DataOK, UserType
<1>4. ASSUME ~Listening', Apart', UNCHANGED <<user, downloaded, file, complete>>
      PROVE  FetchInv'
  BY <1>1, <1>2, <1>4 DEF FetchInv, Arrives, Comes, Persists, ReadsAreReal
<1>5. ASSUME data' = <<>>, UNCHANGED <<tasks, requested, downloaded>> PROVE Apart'
  <2>1. Coming(data') = {}
    BY <1>5 DEF Coming
  <2> QED
    BY <1>1, <1>5, <2>1 DEF Apart
<1>6. CASE LoopFails
  <2>1. ~Listening' /\ data' = <<>> /\ UNCHANGED <<user, requested, downloaded, file, complete, tasks>>
    BY <1>6 DEF LoopFails, LoopEnds, Listening, status
  <2> QED
    BY <1>4, <1>5, <2>1
<1>7. CASE HandleMeasure
  <2>1. /\ data # <<>> /\ Head(data).kind = "Measure" /\ data' = Tail(data) /\ loop = "runs" /\ loop' = "prefetch"
        /\ UNCHANGED <<urls, streaming, status, position, user, cmds, tasks, file, complete, history>>
    BY <1>7 DEF HandleMeasure
  <2>2. Coming(data') = Coming(data)
    <3>1. Head(data) = data[1] /\ 1 \in DOMAIN data /\ Head(data) \in DataType
      BY <1>3, <2>1, Tails DEF DataOK
    <3>2. Head(data).range.length = 0
      BY <1>3, <2>1, <3>1 DEF DataOK
    <3>3. Positions(Head(data).range) = {}
      BY <3>1, <3>2, MeasureIs
    <3>4. Coming(data) = Positions(Head(data).range) \cup Coming(Tail(data))
      BY <1>3, <2>1, ComingIs
    <3> QED
      BY <2>1, <3>3, <3>4
  <2>3. Listening /\ Listening'
    BY <2>1 DEF Listening
  <2>4. Apart' /\ Arrives' /\ Comes'
    BY <1>1, <2>1, <2>2, <2>3 DEF Apart, Arrives, Comes, status
  <2>5. ReadsAreReal' /\ Persists'
    BY <1>1, <2>1, <2>3 DEF ReadsAreReal, Persists, Awaited, status
  <2> QED
    BY <1>2, <2>4, <2>5 DEF FetchInv
<1>8. CASE HandleData
  <2> DEFINE head == Head(data).range
  <2>1. /\ data # <<>> /\ loop = "runs"
        /\ file' = file \cup Positions(head)
        /\ downloaded' = AddRange(downloaded, head)
        /\ user' = Notified(user)
        /\ complete' = Full(downloaded')
        /\ \/ loop' = "complete" /\ data' = <<>>
           \/ loop' = "prefetch" /\ data' = Tail(data)
        /\ UNCHANGED <<urls, streaming, requested, position, tasks, history>>
    BY <1>8 DEF HandleData, LoopEnds, Told
  <2>2. head \in RangeType
    <3>1. Head(data) \in DataType
      BY <1>3, <2>1, Tails DEF DataOK
    <3> QED
      BY <3>1 DEF DataType
  <2>3. Coming(data) = Positions(head) \cup Coming(Tail(data))
    BY <1>3, <2>1, ComingIs
  <2> HIDE DEF head
  <2>4. Covered(downloaded') = Covered(downloaded) \cup Positions(head)
    BY <1>3, <2>1, <2>2, AddRangeIsUnion
  <2>5. Coming(data') \subseteq Coming(data) /\ (Listening' => Coming(data) = Positions(head) \cup Coming(data'))
    <3>1. Coming(<<>>) = {}
      BY DEF Coming
    <3> QED
      BY <2>1, <2>3, <3>1 DEF Listening
  <2>6. Apart'
    <3>1. Positions(head) \subseteq Coming(data)
      BY <2>3
    <3>2. \A t \in tasks: Rest(t) \cap Covered(downloaded') = {} /\ Rest(t) \cap Coming(data') = {}
      BY <1>1, <2>4, <2>5, <3>1 DEF Apart
    <3> QED
      BY <1>1, <2>1, <2>5, <3>2 DEF Apart
  <2>7. Listening
    BY <2>1 DEF Listening
  <2>8. Arrives' /\ Comes'
    <3>1. Listening' => Covered(downloaded) \cup Coming(data) \subseteq Covered(downloaded') \cup Coming(data')
      BY <2>4, <2>5
    <3> QED
      BY <1>1, <2>1, <2>7, <3>1 DEF Arrives, Comes
  <2>9. Persists'
    BY <1>3, <2>1, UserTypes DEF Persists
  <2>10. ReadsAreReal'
    <3>1. user'.real
      BY <1>1, <1>3, <2>1, UserTypes DEF ReadsAreReal
    <3>2. Covered(downloaded') \subseteq file'
      BY <1>1, <2>1, <2>4 DEF ReadsAreReal
    <3>3. ASSUME complete' PROVE file' = Blocks
      <4> DEFINE there == ContainedLengthFrom(downloaded', 0)
      <4>1. there >= FileSize
        BY <2>1, <3>3 DEF Full
      <4>2. downloaded' \in Lists /\ file' \subseteq Blocks
        BY <1>2 DEF Typed
      <4>3. there \in Nat /\ 0..(0 + there - 1) \subseteq Covered(downloaded')
        BY <4>2, LookupIs
      <4> HIDE DEF there
      <4>4. Blocks \subseteq 0..(0 + there - 1)
        BY <1>3, <4>1, <4>3 DEF Blocks
      <4> QED
        BY <3>2, <4>2, <4>3, <4>4
    <3> QED
      BY <3>1, <3>2, <3>3 DEF ReadsAreReal
  <2> QED
    BY <1>2, <2>6, <2>8, <2>9, <2>10 DEF FetchInv
<1>9. ASSUME HandleCommand \/ Prefetch, UNCHANGED <<data, downloaded, user, file, complete>>, Listening, Listening'
      PROVE  Apart' /\ Arrives' /\ Comes' /\ ReadsAreReal' /\ Covered(requested) \subseteq Covered(requested')
  <2>1. ReadsAreReal'
    BY <1>1, <1>9 DEF ReadsAreReal
  <2>2. \/ UNCHANGED <<tasks, requested>>
        \/ \E offset \in 0..FileSize, length \in Nat: DownloadRange(offset, length)
    BY <1>1, <1>9, Asking
  <2>3. CASE UNCHANGED <<tasks, requested>>
    BY <1>1, <1>9, <2>1, <2>3 DEF Apart, Arrives, Comes
  <2>4. CASE \E offset \in 0..FileSize, length \in Nat: DownloadRange(offset, length)
    <3>1. PICK new: Asked(new)
      BY <1>3, <2>4, Downloads
    <3>2. Covered(requested) \subseteq Covered(requested')
      BY <3>1 DEF Asked
    <3> QED
      BY <1>1, <1>9, <2>1, <3>1, <3>2, AskedKeeps
  <2> QED
    BY <2>2, <2>3, <2>4
<1>10. CASE Prefetch
  <2>1. /\ loop = "prefetch" /\ loop' = "runs"
        /\ UNCHANGED <<urls, streaming, downloaded, position, user, cmds, data, file, complete, history>>
    BY <1>10 DEF Prefetch
  <2>2. Listening /\ Listening'
    BY <2>1 DEF Listening
  <2>3. Apart' /\ Arrives' /\ Comes' /\ ReadsAreReal' /\ Covered(requested) \subseteq Covered(requested')
    BY <1>9, <1>10, <2>1, <2>2
  <2>4. Persists'
    BY <1>1, <2>1, <2>2, <2>3 DEF Persists, Awaited
  <2> QED
    BY <1>2, <2>3, <2>4 DEF FetchInv
<1>11. CASE HandleCommand
  <2>1. /\ cmds # <<>> /\ loop = "runs"
        /\ UNCHANGED <<urls, streaming, downloaded, position, user, file, complete, history>>
    BY <1>11 DEF HandleCommand
  <2>2. CASE Head(cmds).kind = "Close"
    <3>1. ~Listening' /\ data' = <<>> /\ UNCHANGED <<tasks, requested>>
      BY <1>11, <2>2 DEF HandleCommand, LoopEnds, Listening
    <3> QED
      BY <1>4, <1>5, <2>1, <3>1
  <2>3. CASE Head(cmds).kind # "Close"
    <3> DEFINE range == Head(cmds).range
    <3>1. /\ loop' = "prefetch" /\ cmds' = Tail(cmds) /\ data' = data
          /\ DownloadRange(range.start, range.length)
      BY <1>11, <2>3 DEF HandleCommand
    <3>2. Listening /\ Listening'
      BY <2>1, <3>1 DEF Listening
    <3>3. Apart' /\ Arrives' /\ Comes' /\ ReadsAreReal' /\ Covered(requested) \subseteq Covered(requested')
      BY <1>9, <1>11, <2>1, <3>1, <3>2
    <3>4. /\ 1 \in DOMAIN cmds /\ Head(cmds) = cmds[1] /\ Head(cmds) \in CmdType
          /\ \A i \in DOMAIN cmds: i # 1 => i - 1 \in DOMAIN Tail(cmds) /\ Tail(cmds)[i - 1] = cmds[i]
      BY <1>3, <2>1, Tails
    <3>5. range.start \in Nat /\ range.length \in Nat /\ range.start <= FileSize
      BY <1>3, <3>4 DEF CmdType, RangeType
    <3>6. range.start \in 0..FileSize
      BY <1>3, <3>5
    <3>7. \A b \in Blocks: range.start <= b /\ b < range.start + range.length =>
             b \in Covered(downloaded) \cup Covered(requested')
      BY <1>3, <3>1, <3>5, <3>6, Downloads
    <3>8. cmds[1].range = range
      BY <3>4
    <3> HIDE DEF range
    <3>9. ASSUME (user.at = "asleep" /\ user.what = "fetch" /\ user.again /\ Listening)'
          PROVE  \E b \in user'.start .. (user'.start + user'.length - 1): b \notin Covered(downloaded') /\ Awaited(b)'
      <4>1. PICK b \in user.start .. (user.start + user.length - 1): b \notin Covered(downloaded) /\ Awaited(b)
        BY <1>1, <2>1, <3>2, <3>9 DEF Persists
      <4>2. b \in Nat /\ b < FileSize /\ b \in Blocks
        BY <1>3 DEF Blocks
      <4>3. CASE b \in Covered(requested)
        BY <2>1, <3>3, <4>1, <4>3 DEF Awaited
      <4>4. ASSUME NEW i \in DOMAIN cmds, cmds[i].kind = "Fetch", b \in Positions(cmds[i].range)
            PROVE  Awaited(b)'
        <5>1. CASE i = 1
          <6>1. range.start <= b /\ b < range.start + range.length
            BY <3>5, <3>8, <4>2, <4>4, <5>1, PositionsOf
          <6>2. b \in Covered(requested')
            BY <3>7, <4>1, <4>2, <6>1
          <6> QED
            BY <6>2 DEF Awaited
        <5>2. CASE i # 1
          <6>1. i - 1 \in DOMAIN cmds' /\ cmds'[i - 1] = cmds[i]
            BY <3>1, <3>4, <5>2
          <6> QED
            BY <4>4, <6>1 DEF Awaited
        <5> QED
          BY <5>1, <5>2
      <4>5. Awaited(b)'
        BY <4>1, <4>3, <4>4, <3>3 DEF Awaited
      <4> QED
        BY <2>1, <4>1, <4>5
    <3>10. Persists'
      BY <3>9 DEF Persists
    <3> QED
      BY <1>2, <3>3, <3>10 DEF FetchInv
  <2> QED
    BY <2>2, <2>3
<1> QED
  BY <1>6, <1>7, <1>8, <1>10, <1>11 DEF Fetching

\* Opening a file keeps the invariant.
LEMMA OpeningKeeps == FetchInv /\ (UrlFails \/ UrlAnswers) => FetchInv'
<1> SUFFICES ASSUME FetchInv, UrlFails \/ UrlAnswers PROVE FetchInv'
  OBVIOUS
<1>1. Typed /\ Apart /\ Arrives /\ Comes /\ ReadsAreReal /\ Persists
  BY DEF FetchInv
<1>2. Typed' /\ (UrlAnswers => \E new: Asked(new))
  BY <1>1, OpeningTyped
<1>3. user' = user /\ user.at = "idle" /\ requested = <<>> /\ tasks = {} /\ UNCHANGED <<downloaded, data, file, complete>>
  BY <1>1 DEF Typed, UrlFails, UrlAnswers, status
<1>4. ReadsAreReal' /\ Persists'
  BY <1>1, <1>3 DEF ReadsAreReal, Persists
<1>5. CASE UrlFails
  <2>1. ~Listening' /\ UNCHANGED <<requested, tasks>>
    BY <1>5 DEF UrlFails, Listening, status
  <2>2. Apart' /\ Arrives' /\ Comes'
    BY <1>1, <1>3, <2>1 DEF Apart, Arrives, Comes
  <2> QED
    BY <1>2, <1>4, <2>2 DEF FetchInv
<1>6. CASE UrlAnswers
  <2>1. Apart' /\ Arrives' /\ Comes'
    BY <1>1, <1>2, <1>3, <1>6, AskedKeeps
  <2> QED
    BY <1>2, <1>4, <2>1 DEF FetchInv
<1> QED
  BY <1>5, <1>6

\* The invariant holds before the file is opened.
LEMMA Starts == FetchInit => FetchInv
<1> SUFFICES ASSUME FetchInit PROVE FetchInv
  OBVIOUS
<1> USE FetchAssumption
<1>1. requested \in Lists /\ downloaded \in Lists /\ Covered(requested) = {} /\ Covered(downloaded) = {}
  BY SmallLists DEF FetchInit
<1>2. user \in UserType /\ user.start = 0 /\ user.length = 0 /\ user.at = "idle" /\ user.real
  BY UserTypes DEF FetchInit
<1>3. cmds \in Seq(CmdType) /\ data \in Seq(DataType) /\ DOMAIN cmds = {} /\ DOMAIN data = {}
  BY DEF FetchInit
<1>4. Typed
  <2>1. /\ loop = "opening" /\ urls \in 0..MaxUrls /\ streaming \in BOOLEAN /\ position \in 0..FileSize
        /\ tasks = {} /\ file \subseteq Blocks /\ complete \in BOOLEAN /\ fails \in 0..MaxFails /\ slow \in BOOLEAN
        /\ requested = <<>> /\ downloaded = <<>>
    <3>1. /\ MaxUrls \in Nat /\ MaxFails \in Nat /\ FileSize \in Nat
          /\ loop = "opening" /\ urls = MaxUrls /\ streaming = FALSE /\ position = 0
          /\ tasks = {} /\ file = {} /\ complete = FALSE /\ fails = 0 /\ slow = FALSE
          /\ requested = <<>> /\ downloaded = <<>>
      BY DEF FetchInit
    <3>2. urls \in 0..MaxUrls /\ position \in 0..FileSize /\ fails \in 0..MaxFails
      BY <3>1
    <3>3. streaming \in BOOLEAN /\ complete \in BOOLEAN /\ slow \in BOOLEAN
      BY <3>1
    <3> QED
      BY <3>1, <3>2, <3>3
  <2>2. user.start + user.length <= FileSize
    BY <1>2
  <2>3. \A t \in tasks: FALSE
    BY <2>1
  <2> QED
    BY <1>1, <1>2, <1>3, <2>1, <2>2, <2>3 DEF Typed
<1>5. Coming(data) = {}
  BY <1>3 DEF Coming
<1>6. Apart /\ Arrives /\ Comes
  BY <1>1, <1>5 DEF FetchInit, Apart, Arrives, Comes, Listening
<1>7. ReadsAreReal /\ Persists
  BY <1>1, <1>2 DEF FetchInit, ReadsAreReal, Persists
<1> QED
  BY <1>4, <1>6, <1>7 DEF FetchInv

\* Every step keeps the invariant.
LEMMA Keeps == FetchInv /\ [FetchNext]_fetchVars => FetchInv'
<1> SUFFICES ASSUME FetchInv, [FetchNext]_fetchVars PROVE FetchInv'
  OBVIOUS
<1>1. CASE UNCHANGED fetchVars
  <2>1. Typed'
    BY <1>1 DEF FetchInv, Typed, fetchVars
  <2>2. Apart' /\ Arrives' /\ Comes'
    BY <1>1, Unrelated DEF FetchInv, fetchVars, status
  <2>3. ReadsAreReal' /\ Persists'
    BY <1>1 DEF FetchInv, ReadsAreReal, Persists, Awaited, Listening, fetchVars
  <2> QED
    BY <2>1, <2>2, <2>3 DEF FetchInv
<1>2. CASE Requesting
  BY <1>2, RequestingKeeps DEF Requesting
<1> QED
  BY <1>1, <1>2, PlayingKeeps, FetchingKeeps, OpeningKeeps DEF FetchNext

\* The invariant holds in every state that is reached.
THEOREM FetchInvariant == FetchSpec => []FetchInv
<1>1. FetchInit => FetchInv
  BY Starts
<1>2. FetchInv /\ [FetchNext]_fetchVars => FetchInv'
  BY Keeps
<1> QED
  BY <1>1, <1>2, PTL DEF FetchSpec

\* The types: what is requested, there or under way lies in the file.
THEOREM FetchTypesCorrect == FetchSpec => []FetchTypeOK
<1>1. FetchInv => FetchTypeOK
  <2> SUFFICES ASSUME FetchInv PROVE FetchTypeOK
    OBVIOUS
  <2> USE FetchAssumption
  <2>1. Typed
    BY DEF FetchInv
  <2>2. user.at \in {"idle", "checks", "asleep", "woken", "seeks"}
        /\ user.result \in {"none", "data", "end", "broken", "timeout"}
    BY <2>1 DEF Typed, UserType
  <2>3. ASSUME NEW t \in tasks
        PROVE  /\ t.at \in {"queued", "runs", "ends"} /\ t.got \in 0..t.length
               /\ t.length > 0 /\ Positions(t) \subseteq Blocks
    <3>1. /\ t.at \in {"queued", "runs", "ends"} /\ t.got \in Nat /\ t.length \in Nat /\ t.start \in Nat
          /\ t.length > 0 /\ t.got <= t.length /\ End(t) <= FileSize /\ End(t) = t.start + t.length
      BY <2>1 DEF Typed, TaskType, End
    <3>2. Positions(t) \subseteq Blocks
      BY <3>1 DEF Positions, Blocks
    <3> QED
      BY <3>1, <3>2
  <2> QED
    BY <2>1, <2>2, <2>3 DEF Typed, FetchTypeOK
<1> QED
  BY <1>1, FetchInvariant, PTL

\* range_set.rs: whatever is fetched, brought and lost in whichever order, the
\* two lists of the download status stay sorted and apart, and subtraction,
\* intersection and union of them are those of the sets they stand for.
THEOREM ListsAreSets == FetchSpec => []RangesAreSets
<1>1. FetchInv /\ FetchTypeOK => RangesAreSets
  <2> SUFFICES ASSUME FetchInv, FetchTypeOK PROVE RangesAreSets
    OBVIOUS
  <2>1. requested \in Lists /\ downloaded \in Lists
    BY DEF FetchInv, Typed
  <2>2. Canonical(requested) /\ Canonical(downloaded)
    BY <2>1 DEF Lists
  <2> QED
    BY <2>1, <2>2, SubtractRangeSetIsDifference, IntersectionIs, AddRangeSetIsUnion DEF RangesAreSets
<1> QED
  BY <1>1, FetchInvariant, FetchTypesCorrect, PTL

\* What is handed to the decoder has been written to the file, and what is
\* handed to the cache is the whole file.
THEOREM OnlyRealReads == FetchSpec => []ReadsAreReal
<1>1. FetchInv => ReadsAreReal
  BY DEF FetchInv
<1> QED
  BY <1>1, FetchInvariant, PTL

\* Each requested block is being brought, by one request, until it is there.
THEOREM BroughtOnce == FetchSpec => []FetchedOnce
<1>1. FetchInv => FetchedOnce
  <2> SUFFICES ASSUME FetchInv PROVE FetchedOnce
    OBVIOUS
  <2>1. RequestedIsComing
    BY ComesIs DEF FetchInv
  <2>2. ASSUME NEW t \in tasks, t.at # "ends" PROVE Positions(t) = Rest(t)
    <3>1. t \in TaskType /\ t.got = 0
      BY <2>2 DEF FetchInv, Typed
    <3>2. t.start + t.got = t.start
      BY <3>1 DEF TaskType
    <3> QED
      BY <3>2 DEF Positions, Rest
  <2>3. NotTwice
    BY <2>2 DEF FetchInv, Apart, NotTwice
  <2> QED
    BY <2>1, <2>3 DEF FetchedOnce
<1> QED
  BY <1>1, FetchInvariant, PTL

\* A blocking fetch that sleeps on after it was woken has something to wait for.
THEOREM FetchesPersist == FetchSpec => []FetchPersists
<1>1. FetchInv => FetchPersists
  <2> SUFFICES ASSUME FetchInv, user.at = "asleep", user.what = "fetch", user.again, Listening, Stuck PROVE FALSE
    BY DEF FetchPersists
  <2>1. PICK b \in user.start .. (user.start + user.length - 1): b \notin Covered(downloaded) /\ Awaited(b)
    BY DEF FetchInv, Persists
  <2>2. tasks = {} /\ data = <<>> /\ cmds = <<>>
    BY DEF Stuck
  <2>3. b \in Covered(requested)
    BY <2>1, <2>2 DEF Awaited
  <2>4. Coming(data) = {}
    BY <2>2 DEF Coming
  <2> QED
    BY <2>1, <2>2, <2>3, <2>4 DEF FetchInv, Comes
<1> QED
  BY <1>1, FetchInvariant, PTL
=============================================================================

---------------------------- MODULE ConnectState ----------------------------
(***************************************************************************)
(* The queue of librespot's connect device (connect/src/state, with the    *)
(* resolver of contexts): the current track, the previous and the next     *)
(* ones, the context they are filled from, the autoplay context that       *)
(* follows it, shuffle and repeat.  The handlers of the event loop run one *)
(* at a time, each to its end, so an action is a whole handler; a context  *)
(* page that is still to be fetched arrives between any two of them.       *)
(*                                                                         *)
(* Tracks are told apart by their uri; uids, metadata, hidden flags and    *)
(* the restrictions that only tell a client what to grey out are left out, *)
(* but for the one that forbids shuffling, which the device itself obeys.  *)
(***************************************************************************)
EXTENDS Integers, Sequences, FiniteSets, SequencesExt

CONSTANTS
  Pages,      \* context uri -> its pages, each a sequence of track uris
  Radio,      \* what the service answers for autoplay: a sequence of uris
  MaxNext,    \* SPOTIFY_MAX_NEXT_TRACKS_SIZE
  MaxPrev,    \* SPOTIFY_MAX_PREV_TRACKS_SIZE
  Draws,      \* the draws of the random generator: sequences of numbers
  Transfers,  \* the states another device may hand over
  Extra,      \* the uris a client puts into the queue
  ClientLists,\* the next and previous tracks a client may send
  Longest,    \* the longest list among them
  Threshold,  \* CONTEXT_FETCH_THRESHOLD
  Commands    \* bound: commands and events taken

ASSUME Bounds ==
  MaxNext \in Nat \ {0} /\ MaxPrev \in Nat \ {0} /\ Commands \in Nat /\ Threshold \in Nat

Uris == (UNION {UNION {Range(Pages[c][p]) : p \in DOMAIN Pages[c]} : c \in DOMAIN Pages}) \cup Range(Radio) \cup Extra
Names == Uris \cup {"none", "delimiter"}

Nowhere == -1
Places == {Nowhere} \cup Nat
Tracks == [uri : Names, by : {"none", "context", "queue", "autoplay", "unavailable"}, at : Places, auto : BOOLEAN]

\* `queued` are the positions of the tracks marked as from a queue; a track
\* named "none" comes without a uri.
ASSUME Clients ==
  /\ Longest \in Nat
  /\ \A l \in ClientLists : /\ l.next \in Seq(Tracks) /\ Len(l.next) <= Longest
                             /\ l.prev \in Seq(Tracks) /\ Len(l.prev) <= Longest

\* A context has at least one page, and a list of tracks ("web") no other.
ASSUME Services ==
  /\ Radio \in Seq(Uris) /\ "web" \in DOMAIN Pages
  /\ \A c \in DOMAIN Pages : Pages[c] \in Seq(Seq(Uris)) /\ Pages[c] # <<>>
  /\ Draws \subseteq Seq(Nat) \ {<<>>}

ASSUME Handovers ==
  Transfers \subseteq [track : Uris, uri : DOMAIN Pages, queued : BOOLEAN, uid : Names, auto : BOOLEAN, queue : Seq(Uris),
                      shuffle : BOOLEAN, context : BOOLEAN, repeat : BOOLEAN, initial : Names]

VARIABLES
  cs,        \* the ConnectState
  todo,      \* the queue of the context resolver
  refused,   \* its unavailable_contexts
  transfer,  \* the TransferState that waits for its context
  left       \* commands that may still be taken

connectVars == <<cs, todo, refused, transfer, left>>

Kinds == {"Default", "Autoplay"}
NoTransfer == [track |-> "none"]

-----------------------------------------------------------------------------
(* Tracks and contexts *)

Track(uri, by, at, auto) == [uri |-> uri, by |-> by, at |-> at, auto |-> auto]
NoTrack == Track("none", "none", Nowhere, FALSE)
Delimiter == Track("delimiter", "context", Nowhere, FALSE)

\* What a track becomes here; one that was reported unavailable stays so.
ProvidedTrack(s, uri, by, at) ==
  Track(uri, IF uri \in s.bad THEN "unavailable" ELSE by, at, by = "autoplay")

NoContext == [tracks |-> <<>>, swaps |-> <<>>, first |-> Nowhere, initial |-> "none", index |-> Nowhere]
HasContext(s, ty) == s.ctx[ty].index # Nowhere

ContextFromPage(s, page, by, from) ==
  [NoContext EXCEPT !.index = 0,
    !.tracks = [i \in 1 .. Len(page) |->
      ProvidedTrack(s, page[i], by, IF from = Nowhere THEN Nowhere ELSE from + i - 1)]]

\* The first position (from 0) of a uri in a sequence of tracks.
FindIndex(tracks, uri) ==
  IF \E i \in DOMAIN tracks : tracks[i].uri = uri
  THEN (CHOOSE i \in DOMAIN tracks :
          tracks[i].uri = uri /\ \A j \in 1 .. i - 1 : tracks[j].uri # uri) - 1
  ELSE Nowhere

Swapped(v, i, j) == [v EXCEPT ![i + 1] = v[j + 1], ![j + 1] = v[i + 1]]

\* One exchange after the other.
AllSwapped(v, pairs) ==
  LET after[k \in 0 .. Len(pairs)] ==
        IF k = 0 THEN v ELSE Swapped(after[k - 1], pairs[k][1], pairs[k][2])
  IN after[Len(pairs)]

\* The swaps undo those of the shuffle only if the length is still the same.
Unshuffled(c) ==
  LET n == Len(c.tracks)
      back == IF c.first = Nowhere THEN c.tracks ELSE Swapped(c.tracks, 0, c.first)
  IN IF c.swaps = <<>> THEN c
     ELSE [c EXCEPT !.swaps = <<>>, !.first = Nowhere,
            !.tracks = IF Len(c.swaps) # n - 1 THEN back
                       ELSE AllSwapped(back, [i \in 1 .. n - 1 |-> <<c.swaps[n - i], i>>])]

Shuffled(c, draw, initial) ==
  LET n == Len(c.tracks)
      swaps == [k \in 1 .. n - 1 |-> draw[(k % Len(draw)) + 1] % (n - k + 1)]
      mixed == AllSwapped(Unshuffled(c).tracks, [k \in 1 .. n - 1 |-> <<n - k, swaps[k]>>])
      first == FindIndex(mixed, initial)
  IN IF n <= 1 THEN c
     ELSE [c EXCEPT !.swaps = swaps, !.first = first,
            !.tracks = IF first = Nowhere THEN mixed ELSE Swapped(mixed, 0, first)]

-----------------------------------------------------------------------------
(* The state: every operator takes one and returns the next one.  `ok` is  *)
(* the Result: a handler that meets an error keeps what it has changed.    *)

New ==
  [track |-> NoTrack, prev |-> <<>>, next |-> <<>>, index |-> Nowhere,
   shuffle |-> FALSE, context |-> FALSE, repeat |-> FALSE,
   ctx |-> [k \in Kinds |-> NoContext], active |-> "Default", fill |-> "Default",
   uri |-> "none", bad |-> {}, fixed |-> FALSE, initial |-> "none", ok |-> TRUE]

Fail(s) == [s EXCEPT !.ok = FALSE]
Then(s, Op(_)) == IF s.ok THEN Op(s) ELSE s

IsQueue(t) == t.by = "queue"

\* `fixed`: the restriction that forbids to shuffle while autoplay plays.
UpdateRestrictions(s) == [s EXCEPT !.fixed = (s.track.by = "autoplay")]
SetActiveContext(s, ty) == [s EXCEPT !.active = ty, !.fixed = FALSE]

\* The track the shuffle started from is not played again in its first round.
IsSkipTrack(s, t, iteration) == s.ctx[s.active].initial = t.uri /\ iteration = 0

SetIndex(s, ty, i) == [s EXCEPT !.ctx[ty].index = i]
Push(s, t) == [s EXCEPT !.next = Append(@, t)]
\* A mutant: a full list is not shifted.
MKeepsOldest(s, t) == IF Len(s.prev) < MaxPrev THEN [s EXCEPT !.prev = Append(@, t)] ELSE s
PushPrev(s, t) ==
  [s EXCEPT !.prev = Append(IF Len(@) >= MaxPrev THEN Tail(@) ELSE @, t)]
Newest(q, n) == IF Len(q) > n THEN SubSeq(q, Len(q) - n + 1, Len(q)) ELSE q
Capped(q) == IF Len(q) > MaxNext THEN SubSeq(q, 1, MaxNext) ELSE q

\* The queued tracks at the head of the list outlive a clearing.
QueuePrefix(q) ==
  SubSeq(q, 1, Cardinality({i \in DOMAIN q : \A j \in 1 .. i : IsQueue(q[j])}))
ClearNextTracks(s) == [s EXCEPT !.next = QueuePrefix(@)]

\* One turn of the loop that fills the list, at position i of the context in
\* use; a turn that changes nothing is the end of it.
FillTurn(w) ==
  LET s == w.s
      tracks == s.ctx[s.fill].tracks
      skipped == tracks[w.i + 1].by = "unavailable" \/ IsSkipTrack(s, tracks[w.i + 1], w.round)
  IN CASE Len(s.next) >= MaxNext -> w
       [] Len(s.next) < MaxNext /\ w.i < Len(tracks) ->
            [w EXCEPT !.s = IF skipped THEN s ELSE Push(s, tracks[w.i + 1]), !.i = @ + 1]
       [] Len(s.next) < MaxNext /\ w.i >= Len(tracks) /\ s.context ->
            [s |-> Push(s, Delimiter), i |-> 0, round |-> w.round + 1]
       [] Len(s.next) < MaxNext /\ w.i >= Len(tracks) /\ ~ s.context ->
            IF s.fill = "Default" /\ HasContext(s, "Autoplay")
            THEN [w EXCEPT !.s = Push([SetIndex(s, "Default", w.i) EXCEPT !.fill = "Autoplay"], Delimiter),
                           !.i = s.ctx["Autoplay"].index]
            ELSE w

\* Enough of them: a context that is repeated puts a delimiter into the list in
\* every round.
Turns(s) ==
  (IF s.context /\ Len(s.next) < MaxNext THEN MaxNext - Len(s.next) ELSE 1) * (Len(s.ctx["Default"].tracks) + Len(s.ctx["Autoplay"].tracks) + 1)

FillUpNextTracks(s) ==
  LET turn[k \in 0 .. Turns(s)] ==
        IF k = 0 THEN [s |-> s, i |-> s.ctx[s.fill].index, round |-> 0] ELSE FillTurn(turn[k - 1])
      filled == turn[Turns(s)]
  IN IF HasContext(s, s.fill) THEN SetIndex(filled.s, filled.s.fill, filled.i) ELSE Fail(s)

SetCurrentTrack(s, i) ==
  IF i < Len(s.ctx[s.active].tracks)
  THEN [s EXCEPT !.track = s.ctx[s.active].tracks[i + 1], !.index = i]
  ELSE Fail(s)

\* Plays from position i of the active context on.  Behind the end the number of
\* tracks to leave out (`len - new_index`) wraps around, and none is left.
ResetPlaybackToPosition(s, i) ==
  LET here == [s EXCEPT !.index = i]
      from == [SetIndex(here, s.active, i + 1) EXCEPT !.fill = s.active]
      stays == IsQueue(s.track) \/ IsSkipTrack(s, s.track, 0)
      tracks == s.ctx[s.active].tracks
      before == IF i > Len(tracks) THEN <<>> ELSE Newest(SubSeq(tracks, 1, i), MaxPrev)
      Refilled(t) ==
        FillUpNextTracks(ClearNextTracks(
          [t EXCEPT !.prev = before]))
  IN IF ~ HasContext(s, s.active) THEN Fail(here)
     ELSE Then(Then(IF stays THEN from ELSE SetCurrentTrack(from, i), Refilled), UpdateRestrictions)

ResetContext(s, how) ==
  LET plain == [s EXCEPT !.ctx["Default"] = [Unshuffled(@) EXCEPT !.initial = "none"]]
      Rewound(c) == IF c.index = Nowhere THEN c ELSE [c EXCEPT !.index = 0]
      reset == CASE how = "Completely" -> [plain EXCEPT !.ctx = New.ctx, !.uri = "none"]
                 [] how = "DefaultIndex" -> [plain EXCEPT !.ctx = [k \in Kinds |-> Rewound(@[k])]]
                 [] how = "Same" -> plain
  IN UpdateRestrictions(SetActiveContext([reset EXCEPT !.fill = "Default"], "Default"))

WhenDifferent(s, uri) == IF s.uri # uri THEN "Completely" ELSE "Same"

Shuffle(s, draw, initial) ==
  LET reset == ResetContext(ClearNextTracks([s EXCEPT !.prev = <<>>]), "DefaultIndex")
  IN IF ~ HasContext(s, "Default") THEN Fail(reset)
     ELSE FillUpNextTracks([reset EXCEPT !.ctx["Default"] = [Shuffled(@, draw, initial) EXCEPT !.initial = initial]])

ShuffleNew(s, draw) == IF s.fixed THEN Fail(s) ELSE Shuffle(s, draw, s.track.uri)

-----------------------------------------------------------------------------
(* Moving along the queue *)

ToPrev(s) == IF s.track.by \in {"context", "autoplay"} THEN PushPrev(s, s.track) ELSE s

\* Drops what cannot be played from the head of the next tracks; delimiters
\* become previous ones, each in place of the oldest when there is no room (a
\* list that a client sent too long stays as long).
SkipHead(s) ==
  LET n == Len(s.next)
      Plays(t) == t # Delimiter /\ t.by # "unavailable"
      first == CHOOSE i \in 1 .. n + 1 : /\ i <= n => Plays(s.next[i])
                                        /\ \A j \in 1 .. i - 1 : ~ Plays(s.next[j])
      rounds == Cardinality({i \in 1 .. first - 1 : s.next[i] = Delimiter})
      room == IF Len(s.prev) > MaxPrev THEN Len(s.prev) ELSE MaxPrev
  IN [s EXCEPT !.next = SubSeq(@, first, n), !.prev = Newest(@ \o [i \in 1 .. rounds |-> Delimiter], room)]

\* Without a next track there is no current one either.
NextTrack(s) ==
  LET ready == SkipHead([ToPrev([s EXCEPT !.repeat = FALSE]) EXCEPT !.track = NoTrack])
      new == Head(ready.next)
      Enter(t) ==
        UpdateRestrictions([(IF new.by = "autoplay" THEN SetActiveContext(t, "Autoplay") ELSE t)
          EXCEPT !.track = new, !.index = IF new.by \in {"queue", "autoplay"} THEN Nowhere ELSE new.at])
  IN IF ready.next = <<>> THEN ready
     ELSE Then(FillUpNextTracks([ready EXCEPT !.next = Tail(@)]), Enter)

IndexBack(i) == IF i > 0 THEN i - 1 ELSE i

PrevTrack(s) ==
  LET back == IF s.track.by \in {"context", "autoplay"} THEN <<s.track>> \o s.next ELSE s.next
      overDelimiter == s.prev # <<>> /\ Last(s.prev) = Delimiter
      ahead == IF overDelimiter
               THEN <<Delimiter>> \o (IF Len(back) >= MaxNext THEN Front(back) ELSE back)
               ELSE back
      behind == IF overDelimiter THEN Front(s.prev) ELSE s.prev
      moved == [s EXCEPT !.track = NoTrack, !.prev = behind, !.next = Capped(ahead)]
      new == Last(behind)
      home == IF s.active = "Autoplay" /\ new.by = "context" THEN SetActiveContext(moved, "Default") ELSE moved
      Enter(t) == UpdateRestrictions([t EXCEPT !.track = new, !.index = IndexBack(@)])
  IN IF behind = <<>> THEN moved
     ELSE Then(FillUpNextTracks([home EXCEPT !.prev = Front(@)]), Enter)

AddToQueue(s, uri) ==
  LET n == Len(QueuePrefix(s.next))
      queued == Track(uri, "queue", Nowhere, FALSE)
      longer == SubSeq(s.next, 1, n) \o <<queued>> \o SubSeq(s.next, n + 1, Len(s.next))
  IN UpdateRestrictions([s EXCEPT !.next = Capped(longer)])

AllQueued(s, uris) ==
  LET with[i \in 0 .. Len(uris)] == IF i = 0 THEN s ELSE AddToQueue(with[i - 1], uris[i])
  IN with[Len(uris)]

\* Errors of the refill are logged.
HandleStop(s) == [ResetPlaybackToPosition(ClearNextTracks(s), 0) EXCEPT !.ok = TRUE]

-----------------------------------------------------------------------------
(* The contexts: what the service answered is put into the state *)

\* Where to go on in a context that came again: after the current track, or
\* after the last played one of it; <<position, known>>.
FindLastIndex(s, tracks) ==
  LET played == {i \in DOMAIN s.prev : FindIndex(tracks, s.prev[i].uri) # Nowhere}
      at == CASE s.ctx["Default"].index >= MaxNext -> s.ctx["Default"].index - MaxNext
              [] s.ctx["Default"].index < MaxNext /\ ~ IsQueue(s.track) -> FindIndex(tracks, s.track.uri)
              [] s.ctx["Default"].index < MaxNext /\ IsQueue(s.track) ->
                   IF played = {} THEN Nowhere
                   ELSE FindIndex(tracks, s.prev[CHOOSE i \in played : \A j \in played : j <= i].uri)
  IN IF at # Nowhere THEN <<at + 1, TRUE>> ELSE <<IF s.index = Nowhere THEN 0 ELSE s.index, FALSE>>

UpdateDefault(s, uri, page) ==
  LET new == ContextFromPage(s, page, "context", 0)
      found == FindLastIndex(s, new.tracks)
      again == s.uri = uri /\ HasContext(s, "Default")
      kept == ClearNextTracks([s EXCEPT
                !.index = IF found[2] THEN @ ELSE Nowhere,
                !.ctx["Autoplay"].index = IF @ = Nowhere THEN @ ELSE 0])
  IN [(IF again THEN kept ELSE s) EXCEPT
        !.ctx["Default"] = IF again THEN [new EXCEPT !.index = found[1]] ELSE new, !.uri = uri]

\* A mutant: the tracks of every page are numbered from the start.
MFromZero(s, page) ==
  IF HasContext(s, "Default")
  THEN [s EXCEPT !.ctx["Default"].tracks = @ \o ContextFromPage(s, page, "context", 0).tracks]
  ELSE Fail(s)

\* More tracks go to the end of the default context, whatever was asked for.
FillContextFromPage(s, page) ==
  IF HasContext(s, "Default")
  THEN [s EXCEPT !.ctx["Default"].tracks = @ \o ContextFromPage(s, page, "context", Len(@)).tracks]
  ELSE Fail(s)

HandleInitialTransfer(s, t) ==
  ClearNextTracks([s EXCEPT !.prev = <<>>, !.uri = t.uri, !.shuffle = t.shuffle,
    !.context = t.context, !.repeat = t.repeat, !.initial = t.initial])

\* The track a transfer starts with keeps the autoplay mark of its metadata.
TrackFromTransfer(s, t) ==
  [ProvidedTrack(s, t.track, IF t.queued THEN "queue" ELSE "context", Nowhere) EXCEPT !.auto = t.auto]

FinishTransfer(s, t, draw) ==
  LET track == IF s.track = NoTrack THEN TrackFromTransfer(s, t) ELSE s.track
      ty == IF s.track.auto THEN "Autoplay" ELSE "Default"
      here == [SetActiveContext(s, ty) EXCEPT !.fill = ty]
      tracks == s.ctx[ty].tracks
      at == IF IsQueue(track)
            THEN LET i == FindIndex(tracks, t.uid) IN IF i > 0 THEN i - 1 ELSE i
            ELSE FindIndex(tracks, track.uri)
      set == [here EXCEPT !.track = track, !.index = IF at = Nowhere THEN @ ELSE at]
      full == AllQueued(set, t.queue)
      start == IF at = Nowhere THEN 0 ELSE at
  IN IF ~ HasContext(s, ty) THEN Fail(here)
     ELSE Then(IF ~ s.shuffle THEN ResetPlaybackToPosition(full, start)
               ELSE Then(SetCurrentTrack(full, start), LAMBDA v :
                      IF v.fixed THEN Fail(v)
                      ELSE Shuffle([v EXCEPT !.initial = "none"], draw,
                                   IF v.initial = "none" THEN v.track.uri ELSE v.initial)),
               UpdateRestrictions)

-----------------------------------------------------------------------------
(* The resolver *)

Item(uri, fallback, update, action) ==
  [uri |-> uri, fallback |-> fallback, update |-> update, action |-> action, page |-> 1]

Added(q, item) == IF item \in refused \/ item \in Range(q) THEN q ELSE Append(q, item)

\* Autoplay is asked for when the queue runs short.
AddAutoplayResolving(s, q) ==
  IF Len(s.next) < Threshold /\ s.uri # "none"
  THEN Added(q, Item(s.uri, s.track.uri, "Autoplay",
                     IF s.ctx["Autoplay"].tracks # <<>> THEN "Append" ELSE "Replace"))
  ELSE q

\* What the answer to the item does to the state; the rest of a context of
\* several pages is asked for page by page.
ApplyNext(s, item) ==
  IF item.action = "Append"
  THEN FillContextFromPage(s, IF item.update = "Autoplay" THEN Radio ELSE Pages[item.uri][item.page])
  ELSE IF item.update = "Autoplay"
       THEN [s EXCEPT !.ctx["Autoplay"] = ContextFromPage(s, Radio, "autoplay", Nowhere)]
       ELSE UpdateDefault(s, item.uri, Pages[item.uri][1])

Remaining(q, item) ==
  LET last == Len(Pages[item.uri])
      added[p \in 1 .. last] ==
        IF p = 1 THEN q
        ELSE Added(added[p - 1], [Item(item.uri, "none", "Default", "Append") EXCEPT !.page = p])
  IN IF item.action = "Replace" /\ item.update = "Default" THEN added[last] ELSE q

LastOfItsKind(q) == \A i \in DOMAIN q : q[i].update = Head(q).update => i = 1

\* Errors of the set-up are logged.
TryFinish(s, t, update, draw) ==
  LET active == s.ctx[s.active]
      at == FindIndex(active.tracks, s.track.uri)
      set == CASE t # NoTransfer -> FinishTransfer(s, t, draw)
               [] t = NoTransfer /\ s.shuffle /\ update = "Default" -> ShuffleNew(s, draw)
               [] t = NoTransfer /\ ~ (s.shuffle /\ update = "Default") ->
                    IF active.index = 0 THEN ResetPlaybackToPosition(s, IF at = Nowhere THEN 0 ELSE at)
                    ELSE FillUpNextTracks(s)
  IN UpdateRestrictions([set EXCEPT !.ok = TRUE])

\* handle_next_context on the answer to the head of q: <<state, queue, transfer>>.
Handled(s, q, t, draw) ==
  LET item == Head(q)
      applied == [ApplyNext(s, item) EXCEPT !.ok = TRUE]
      longer == IF ApplyNext(s, item).ok THEN Remaining(q, item) ELSE q
      finishes == LastOfItsKind(longer) /\ (item.update = "Autoplay" \/ applied.active = "Default")
      set == TryFinish(applied, t, item.update, draw)
  IN IF finishes THEN <<set, Tail(AddAutoplayResolving(set, longer)), NoTransfer>>
     ELSE <<applied, Tail(longer), t>>

-----------------------------------------------------------------------------
(* The handlers of the event loop *)

\* On, up to the target; each turn takes a track from the list that has it.
NextUntil(s, target) ==
  LET On(n) == IF ~ n.ok \/ target \in {"none", n.track.uri} THEN n ELSE NextTrack(n)
      turn[k \in 0 .. Len(s.next)] == IF k = 0 THEN NextTrack(s) ELSE On(turn[k - 1])
  IN turn[Len(s.next)]

\* handle_next: <<state, resolver's queue>>.
HandleNext(s, q, target) ==
  LET n == IF target # "none" /\ s.track.uri = target THEN s ELSE NextUntil(s, target)
  IN IF ~ n.ok THEN <<n, q>>
     ELSE IF n.track # NoTrack THEN <<n, AddAutoplayResolving(n, q)>>
     ELSE <<HandleStop(n), q>>

Without(q, uri) ==
  LET kept[i \in 0 .. Len(q)] ==
        IF i = 0 THEN <<>> ELSE IF q[i].uri = uri THEN kept[i - 1] ELSE Append(kept[i - 1], q[i])
  IN kept[Len(q)]

MarkUnavailable(s, uri) ==
  FillUpNextTracks([s EXCEPT !.next = Without(@, uri), !.prev = Without(@, uri), !.bad = @ \cup {uri}])

\* What handle_load does once it has a context; r is <<state, queue, transfer>>.
StartLoaded(r, pick, o, draw) ==
  LET s == [ClearNextTracks(SetActiveContext(r[1], "Default"))
              EXCEPT !.shuffle = o.shuffle, !.context = o.context, !.repeat = o.repeat]
      tracks == s.ctx["Default"].tracks
      found == FindIndex(tracks, pick)
      at == IF found = Nowhere THEN 0 ELSE found
      random == IF pick = "none" /\ o.shuffle /\ tracks # <<>> THEN draw[1] % Len(tracks) ELSE at
      current == IF HasContext(s, "Default") THEN SetCurrentTrack(s, random) ELSE Fail(s)
      ready == Then(current, LAMBDA v :
                 IF ~ o.shuffle THEN ResetPlaybackToPosition(v, at)
                 ELSE IF r[2] # <<>> THEN v ELSE ShuffleNew(v, draw))
      waits == ~ ready.ok \/ (o.shuffle /\ r[2] # <<>>)
  IN <<ready, IF waits THEN r[2] ELSE AddAutoplayResolving(ready, r[2]), r[3]>>

-----------------------------------------------------------------------------
(* Actions *)

Set(s, q, t) == cs' = [s EXCEPT !.ok = TRUE] /\ todo' = q /\ transfer' = t
Takes == left > 0 /\ left' = left - 1
OnState(s) == Takes /\ Set(s, todo, transfer) /\ UNCHANGED refused

ConnectInit ==
  /\ cs = New
  /\ todo = <<>>
  /\ refused = {}
  /\ transfer = NoTransfer
  /\ left = Commands

\* A list of tracks ("web") needs no resolving; a context that fails to
\* resolve is not asked for again, and loading goes on without one.
Loaded(s, uri, ty, draw, answered) ==
  LET item == Item(uri, uri, ty, "Replace")
      here == SetActiveContext(s, ty)
  IN CASE uri = "web" -> <<UpdateDefault(s, "web", Pages["web"][1]), todo, transfer>>
       [] uri # "web" /\ s.uri = uri -> <<here, todo, transfer>>
       [] uri # "web" /\ s.uri # uri ->
            IF item \notin refused /\ answered THEN Handled(here, <<item>>, transfer, draw) ELSE <<here, <<>>, transfer>>

Load(uri, pick, o, draw, answered) ==
  LET ty == IF o.auto THEN "Autoplay" ELSE "Default"
      reset == [ResetContext(cs, IF uri = "web" THEN "Completely" ELSE WhenDifferent(cs, uri))
                  EXCEPT !.shuffle = FALSE, !.context = FALSE, !.repeat = FALSE]
      done == StartLoaded(Loaded(reset, uri, ty, draw, answered), pick, o, draw)
  IN /\ Takes
     /\ answered \/ uri \notin {"web", cs.uri}
     /\ o.auto => uri # "web"
     /\ Set(done[1], done[2], done[3])
     /\ refused' = IF uri \notin {"web", reset.uri} /\ ~ answered
                   THEN refused \cup {Item(uri, uri, ty, "Replace")} ELSE refused

\* Another device hands its playback over.
TransferTo(t) ==
  LET reset == [ResetContext(cs, IF t.uri = "web" THEN "Completely" ELSE WhenDifferent(cs, t.uri))
                  EXCEPT !.track = TrackFromTransfer(cs, t)]
      loaded == IF t.uri = "web" THEN UpdateDefault(reset, "web", Pages["web"][1]) ELSE reset
      there == [HandleInitialTransfer(loaded, t) EXCEPT !.active = "Default"]
      at == FindIndex(there.ctx["Default"].tracks, t.track)
  IN /\ Takes
     /\ UNCHANGED refused
     /\ IF t.uri = "web"
        THEN Set(IF at = Nowhere THEN there ELSE ResetPlaybackToPosition(there, at), todo, transfer)
        ELSE Set(there, Added(todo, Item(t.uri, t.track, "Default", "Replace")), t)

\* The service answers for the head of the queue, or does not.
Resolve(draw) ==
  /\ todo # <<>>
  /\ LET r == Handled(cs, todo, transfer, draw) IN Set(r[1], r[2], r[3])
  /\ UNCHANGED <<refused, left>>

ResolveFails ==
  /\ todo # <<>>
  /\ Takes
  /\ refused' = refused \cup {Head(todo)}
  /\ todo' = Tail(todo)
  /\ UNCHANGED <<cs, transfer>>

\* After RETRY_UNAVAILABLE a context may be asked for again.
Retry(item) ==
  /\ item \in refused
  /\ Takes
  /\ refused' = refused \ {item}
  /\ UNCHANGED <<cs, todo, transfer>>

Moves(r) == Takes /\ Set(r[1], r[2], transfer) /\ UNCHANGED refused

\* A client may only skip to a track it has been shown.
SkipNext(target) ==
  /\ target = "none" \/ \E i \in DOMAIN cs.next : cs.next[i].uri = target /\ cs.next[i].by # "unavailable"
  /\ Moves(HandleNext(cs, todo, target))

EndOfTrack == Moves(HandleNext(cs, todo, IF cs.repeat THEN cs.track.uri ELSE "none"))

SkipPrev ==
  LET p == PrevTrack(cs)
      start == ResetPlaybackToPosition(p, 0)
  IN OnState(IF ~ p.ok \/ p.track # NoTrack THEN p
             ELSE IF cs.context \/ ~ start.ok THEN start ELSE HandleStop(start))

Stop == OnState(HandleStop(cs))

HandleShuffle(on, draw) ==
  LET set == [cs EXCEPT !.shuffle = on]
      reset == ResetContext(set, "DefaultIndex")
      at == IF cs.track.at # Nowhere THEN cs.track.at ELSE FindIndex(reset.ctx["Default"].tracks, cs.track.uri)
  IN OnState(IF on THEN ShuffleNew(set, draw)
             ELSE IF cs.track = NoTrack \/ at = Nowhere THEN reset ELSE ResetPlaybackToPosition(reset, at))

\* A mutant: every toggle starts over.
MRestarts(on) == OnState(ResetPlaybackToPosition([cs EXCEPT !.context = on, !.fill = IF on THEN "Default" ELSE @], 0))

HandleRepeatContext(on) ==
  LET set == [cs EXCEPT !.context = on, !.fill = IF on THEN "Default" ELSE @]
      at == FindIndex(set.ctx["Default"].tracks, cs.track.uri)
  IN OnState(IF at = Nowhere THEN set ELSE ResetPlaybackToPosition(set, at))

HandleRepeatTrack(on) == OnState([cs EXCEPT !.repeat = on])

Queue(uri) == OnState(AddToQueue(cs, uri))

\* A client may also send back the lists it was shown, with one of the next
\* tracks taken out, or two exchanged.
Rearranged ==
  {[next |-> q, queued |-> {}, prev |-> cs.prev] :
     q \in {RemoveAt(cs.next, i) : i \in DOMAIN cs.next}
           \cup {Swapped(cs.next, i - 1, j - 1) : i, j \in DOMAIN cs.next}}

\* What a client sends takes the place of both lists, however long it is.
Received(t, queued) ==
  [t EXCEPT !.uri = IF @ = "none" THEN cs.track.uri ELSE @, !.by = IF queued THEN "queue" ELSE @]

SetQueue(l) ==
  OnState([cs EXCEPT !.next = [i \in DOMAIN l.next |-> Received(l.next[i], i \in l.queued)], !.prev = l.prev])

\* The player could not load a track, the current one or the preloaded one.
Unavailable(uri) ==
  /\ uri # "delimiter"
  /\ \/ cs.track # NoTrack /\ uri = cs.track.uri
     \/ cs.next # <<>> /\ uri = Head(cs.next).uri
  /\ LET marked == MarkUnavailable(cs, uri)
     IN IF marked.ok /\ cs.track.uri = uri
        THEN Moves(HandleNext(marked, todo, "none"))
        ELSE OnState(marked)

\* The playlist was changed, or a client sent its context again.
ContextChanged(fallback) ==
  /\ cs.uri \in DOMAIN Pages \ {"web"}
  /\ Takes
  /\ todo' = Added(todo, Item(cs.uri, fallback, "Default", "Replace"))
  /\ UNCHANGED <<cs, refused, transfer>>

\* Another device became the active one.
BecameInactive ==
  /\ Takes
  /\ Set(HandleStop(ResetContext([New EXCEPT !.bad = cs.bad, !.initial = cs.initial], "Completely")), <<>>, transfer)
  /\ UNCHANGED refused

\* A context is loaded with options, or as its autoplay variant.
Options == {o \in [shuffle : BOOLEAN, context : BOOLEAN, repeat : {FALSE}, auto : BOOLEAN] : o.auto => ~ (o.shuffle \/ o.context)}

Edits ==
  \/ \E on \in BOOLEAN : HandleRepeatContext(on) \/ HandleRepeatTrack(on)
  \/ \E on \in BOOLEAN, draw \in Draws : HandleShuffle(on, draw)
  \/ \E uri \in Extra : Queue(uri)
  \/ \E l \in ClientLists \cup Rearranged : SetQueue(l)
  \/ \E fallback \in {"none", cs.track.uri} : ContextChanged(fallback)

ConnectNext ==
  \/ Edits
  \/ \E uri \in DOMAIN Pages, o \in Options, draw \in Draws, answered \in BOOLEAN :
       \E pick \in {"none"} \cup Range(Pages[uri][1]) : Load(uri, pick, o, draw, answered)
  \/ \E t \in Transfers : TransferTo(t)
  \/ \E draw \in Draws : Resolve(draw)
  \/ ResolveFails
  \/ \E item \in refused : Retry(item)
  \/ \E target \in Uris \cup {"none"} : SkipNext(target)
  \/ EndOfTrack
  \/ SkipPrev
  \/ Stop
  \/ \E uri \in Uris : Unavailable(uri)
  \/ BecameInactive

ConnectSpec == ConnectInit /\ [][ConnectNext]_connectVars

-----------------------------------------------------------------------------
(* Properties *)

Contexts == [tracks : Seq(Tracks), swaps : Seq(Nat), first : Places, initial : Names, index : Places]
States ==
  [track : Tracks, prev : Seq(Tracks), next : Seq(Tracks), index : Places,
   shuffle : BOOLEAN, context : BOOLEAN, repeat : BOOLEAN,
   ctx : [Kinds -> Contexts], active : Kinds, fill : Kinds,
   uri : DOMAIN Pages \cup {"none"}, bad : SUBSET Names, fixed : BOOLEAN, initial : Names, ok : BOOLEAN]
Items ==
  {item \in [uri : DOMAIN Pages, fallback : Names \cup DOMAIN Pages, update : Kinds, action : {"Replace", "Append"}, page : Nat] :
     item.update = "Default" => item.page \in DOMAIN Pages[item.uri]}

\* Every list holds tracks and every position is one or none, and what is asked
\* of the service it can be asked for.
ConnectTypeOK ==
  /\ cs \in States /\ cs.ok
  /\ todo \in Seq(Items) /\ refused \subseteq Items
  /\ transfer \in Transfers \cup {NoTransfer}
  /\ left \in 0 .. Commands

\* The lists that are sent to the service never outgrow the limits that are
\* essential for the web player, whatever is queued, moved or refilled, but by
\* what a client sends: set_next_tracks and set_prev_tracks do not cut it, and
\* no later step makes such a list longer still.
NextLimit == IF Longest > MaxNext THEN Longest ELSE MaxNext
PrevLimit == IF Longest > MaxPrev THEN Longest ELSE MaxPrev
Bounded == Len(cs.next) <= NextLimit /\ Len(cs.prev) <= PrevLimit

\* Whatever was shuffled, restored and appended, the default context holds
\* every position it was given exactly once: no track of it is lost or doubled.
PositionsOnce ==
  LET tracks == cs.ctx["Default"].tracks
  IN {tracks[i].at : i \in DOMAIN tracks} = 0 .. Len(tracks) - 1

\* However long the way back and forth, what is shuffled and what is sent stay
\* whole.
ListsSound == ConnectTypeOK /\ PositionsOnce /\ Bounded

\* Going back after going on returns to the track that was left, if no more
\* than one round of the context ended in between.  (Of two delimiters in a
\* row prev_track takes one over and makes the other the current track.)
PrevUndoesNext ==
  LET n == NextTrack(cs)
      rounds == {i \in DOMAIN n.prev : n.prev[i] = Delimiter}
      moved == n.ok /\ n.track # NoTrack /\ Cardinality(rounds) <= 1
  IN moved /\ cs.track.by \in {"context", "autoplay"} /\ cs.track # Delimiter
     => PrevTrack(n).track = cs.track

\* Editing the queue does not change what plays, nor does toggling repeat, but
\* for repeating the context while autoplay plays a track that is in both (the
\* position in the one is then taken for one in the other); nor does a context
\* that arrives and has the current track, unless a transfer waits for it.
CurrentKept ==
  [][cs'.track.uri # cs.track.uri =>
      ~ (\/ \E on \in BOOLEAN : HandleRepeatTrack(on)
         \/ /\ cs.active = "Default" \/ FindIndex(cs.ctx["Default"].tracks, cs.track.uri) = Nowhere
            /\ \E on \in BOOLEAN : HandleRepeatContext(on)
         \/ \E uri \in Extra : Queue(uri)
         \/ \E l \in ClientLists \cup Rearranged : SetQueue(l)
         \/ /\ transfer = NoTransfer
            /\ FindIndex(cs'.ctx[cs'.active].tracks, cs.track.uri) # Nowhere
            /\ \E draw \in Draws : Resolve(draw))]_connectVars

=============================================================================

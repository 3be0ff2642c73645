# NeoTune and librespot in TLA+

A verification project for this repository: NeoTune, a terminal client for
Spotify written in Python (`app.py`, `src/src/`), and librespot, the Spotify
Connect device in Rust that NeoTune builds and runs as its player
(`src/librespot_src/`). Every module is translated from the source. A path such
as `cache.py:149` or `spirc.rs:773` names a file and its line; `PROJECT.json`
maps every definition to the lines it stands for.

The two halves are hard to test for different reasons. NeoTune has a thread for
every request and poll, and shares its state through singletons, partly under
locks; widgets are reached from worker threads by blocking on the event loop.
librespot is mostly one thread of tasks that never block, so what goes wrong
there goes wrong between two awaits: an answer that is late, an event that
crosses a command, a task that outlives the connection it served.

1. [Inventory](#inventory)
2. [The modules and the code](#the-modules-and-the-code)
3. [The runs](#the-runs)
4. [Fairness](#fairness)
5. [The proofs](#the-proofs)
6. [What was found while modelling](#what-was-found-while-modelling)
7. [What is abstracted](#what-is-abstracted)
8. [Not modelled](#not-modelled)

Running: `tlc -config X.cfg M` in this directory with the module and the
configuration of the table of runs; `tlapm M_proofs.tla` for the theorems.

## Inventory

### NeoTune

| part | state | operations | hard | right when | module |
|---|---|---|---|---|---|
| **Cache store** (`core/cache.py`) | a dictionary with an expiry per entry, the size limit, the save timer, the file | `set`, `get`, `delete`, `clear`, the load, the debounced save | read and written by every thread without a lock; a save that has begun cannot be cancelled | the size stays bounded, no change is lost by the debounce | `CacheStore` |
| **State store** (`state/store.py`, `pubsub.py`) | a dictionary, its persistent part on disk, the listeners | `get`, `set`, `update`, `subscribe` | notifications are published outside the lock, and a worker waits in them for the event loop | no deadlock, the file follows memory, widgets end with the current value | `StateStore` |
| **API gate** (`network/base.py`, the status bar's timer) | end of the global pause, last call per endpoint, failure count | `_safe_api_call`, `_update_connectivity`, the countdown | several requests in flight share class attributes, part of them under a lock | requests to one endpoint are spaced, offline is reported when it is so | `ApiGate` |
| **Playback state** (`network/playback_service.py`, `hooks/useUpdateNowPlaying.py`, edits in `core/command_service.py`) | cached answer, devices, a lock; a copy in the store | `get_current_playback`, `get_devices`, the polls, the edits | the lock is held across a request and across a wait for the event loop; the answer is stored twice | answers do not overtake each other, the display recovers | `Playback` |
| **Session** (`app.py`, `network/auth_*.py`, `config/client_config.py`, `core/di.py`, `actions/auth_actions.py`) | keyring, token file, configuration, the container, the web server's queue | launch, set-up, forms and callbacks, login, refresh, logout | singletons are registered again after they were handed out; several launches | what the start looks up exists | `Session` |

### librespot

| part | state | operations | hard | right when | module |
|---|---|---|---|---|---|
| **Player** (`playback/src/player.rs`, the seek of `decoder/symphonia_decoder.rs`) | the state with its decoder, the preload, the loading threads, the sink | load, preload, play, pause, stop, seek, the explicit filter; poll; drop | commands and loading threads arrive between the steps of one poll; any of seek, packet and sink may fail in the middle | listener, sink and decoder agree with the state; what starts is what was asked last; the drop ends | `Player` |
| **Queue of the device** (`connect/src/state/`, `context_resolver.rs`, `shuffle_vec.rs`) | current, previous and next tracks, two contexts, shuffle and repeat | next, prev, queue, set queue, shuffle, repeat, transfer, autoplay, pages of contexts | tracks of four origins and delimiters move between lists; pages arrive after the order was changed | no track is lost or doubled, limits hold, back undoes forth | `ConnectState` |
| **Connect task** (`connect/src/spirc.rs`) | status, volume, activity, timers, what the server was told | the `select!` over dealer messages, commands, player events, timers | commands to the player are not answered; puts fail and are not repeated | the status is what the player does; the server knows; an inactive device is silent | `Spirc` |
| **Session** (`core/src/session.rs`, `connection/`, `mercury/`, `audio_key.rs`) | validity, keep-alive state and timer, packets under way, pending requests, subscriptions | connect, login, dispatch, keep-alive, send, request, subscribe, shutdown | timers race packets; callers in another thread race shutdown | silence ends it, nobody waits for ever | `CoreSession`, `SessionPromise` |
| **Identifiers** (`core/src/spotify_id.rs`, `spotify_uri.rs`) | | parse and print | arithmetic by words, overflow | texts and values correspond | `SpotifyId`, `SpotifyUri` |
| **Streamed file** (`audio/src/fetch/`, `range_set.rs`, `core/src/cdn_url.rs`) | requested and downloaded ranges, the sparse file, requests under way | open, read, seek, fetch, close; commands, data, prefetch | three threads ask for what is missing at different times; requests fail or are short | reads give written data, nothing is fetched twice or lost, whole files only are cached | `AudioFetch`, `RangeSet` |
| **Cache on disk** (`core/src/cache.rs`) | the files, the limiter's queue, sizes and sum | start, save, open, remove | every call of the disk may fail between two updates | the sum is right and below the limit, the least recently used file goes | `FileCache` |
| **HTTPS** (`apresolve.rs`, `spclient.rs`, `login5.rs`, `http_client.rs`) | addresses, tokens, the shared access point, the rate limit | resolve, client token, login, request with retries | nested retry loops; state read before an await and used after it | every call ends, nobody is left without an address | `Web` |
| **Dealer** (`core/src/dealer/`, `util.rs`) | the connection with its two tasks, timers of dropped tasks, requests, the tries of handlers and subscribers | start, connect, reconnect, ping, dispatch, reply, close | tasks outlive their connection, replies come late | no task is left behind, a dead connection is left, close returns | `Dealer`, `UriMaps` |
| **Main task** (`src/main.rs` from 1882, `discovery/src/`, `player_event_handler.rs`) | credentials, the Spirc in charge, discovery's channel, the event thread | discovery, connecting, reconnecting, shutdown | Spircs share one player; credentials come while one is being connected | one Spirc in charge, the last user's; main ends | `AppMain` |

### How they interact

* In NeoTune a request goes `hook/command → SpotifyNetwork → service → ApiGate →
  CacheStore / Spotify`; the gate's failures end in the state store.
* `StateStore.set` in a worker calls the listeners, which call
  `App.call_from_thread` and **block until the event loop has run them**;
  `PlaybackService` does so while it holds its own lock.
* NeoTune and librespot share no state: NeoTune starts and stops the process and
  otherwise talks to Spotify's web API, which talks to librespot's `Spirc`.
* `AppMain` makes a `Session` and a `Spirc` and gives the player the session.
* `Spirc` owns the `ConnectState`, sends commands to the `Player` over a channel
  and hears its events over another; it puts its state through `SpClient`
  (`Web`) and is driven by the `Dealer`'s messages.
* The `Player`'s loading threads call the session (audio keys: `CoreSession`),
  `SpClient` and open an `AudioFetch`, whose complete files go to the
  `FileCache`. The dealer takes its address and token from `Web`, and `Web`
  the stored credentials of the session.

The modules are checked apart, because their product is out of TLC's reach. Their
seams were matched by reading: what one module leaves open as environment is at
least what the other can do. `Spirc`'s player (load, events,
failure) is `Player` without its decoder; `CoreSession`'s answers to audio keys
include the silence that makes a load of `Player` fail; a `Dealer` whose
`get_url` fails is `Web`'s `url` goal ending in an error; `AppMain`'s Spirc that
ends by itself is `Spirc`'s loop ending with its session or dealer.

## The modules and the code

Each component has a module, and an `MC` module where TLC needs definitions for
constants. The theorems are in `_proofs` modules:

| module | theorems about |
|---|---|
| `CacheStore_proofs`, `StateStore_proofs`, `Player_proofs` | the module of that name |
| `Playback_proofs` | `Playback` and `ConnectState`: what the app shows as playing, and the queue of the device |
| `Network_proofs` | `ApiGate`, and `Session` as the instance `S` |
| `Connect_proofs` | `CoreSession` and `Spirc`, the two ends of the device in the Connect network |
| `Servers_proofs` | `Dealer` and `Web` |
| `Tasks_proofs` | `AppMain`, librespot's main task, and `AudioFetch` with `RangeSet`, the task that fetches a file |

`Spirc`, `Web` and `AudioFetch` share a module with another component there, so
their `vars`, `Init`, `Next`, specification and type invariant carry a prefix
(`SpircNext`, `WebSpec`, `FetchTypeOK`).

**CacheStore.** One step is one bytecode-atomic access of the dictionary: the
membership test of `get` (`GetCall`) and its read (`GetRead`) are two steps,
`_evict_expired` is a scan and one deletion at a time. An entry is the time at
which it expires. A scan may raise when another thread changes the dictionary
under it. A timer that has fired is a saver of its own, which copies, truncates
and writes, and may fail at any of the three, which the code swallows;
`Restart` ends the process at any step.

**StateStore.** The lock is explicit, and what happens under it is split where a
crash or another thread can see it: the assignment, the truncation, the write;
the last two may fail, and `set` goes on. *Readers* read the store again (status
bar), *showers* show the value they are given (now playing). A worker that
publishes queues a callback and waits; the main thread takes callbacks between
its own calls, and may itself be waiting for the lock.

**ApiGate.** A request is the sequence of its steps in `_safe_api_call`; for a
429 the pause, the store and the failure count are three assignments. The status
bar's timer reads and resets the store's copy in two steps.

**Playback.** Spotify's state is a growing version; an empty session is reported
as `None`, as a dropped request is. The lock is taken by `Request` and given
back by `Release`; between them the answer is kept (`Take`) and stored
(`Store`), where the thread may wait for the event loop.

**Session.** The main thread from `main` to the running application over several
launches; the browser, the web server's queue, the keyring's failures and the
token's hour are its environment. It is proved about and not run (see
[proofs](#the-proofs)).

**Player.** `poll` is a loop of stages (`pc`: command, loading, preload, packet,
suggest), one step each; a preload that failed announces its track as
unavailable, which the listener hears of the current request. `TakeCommand` has
a disjunct per command (`Load`, `Preload`, `Play`, `Pause`, `Stop`, `Seek`,
`Filter`), each with the outcomes of the sink's and the decoder's failures;
`Load` tries the decoder in use, the preloaded one, the loader in progress and a
new thread, in the code's order. A loading thread ends with a decoder at a
position (`LoadRemoteTrack`, `LoadLocalTrack`) or with nothing. `exit(1)` is the
stage `exited`. `heard` is what a listener knows from the events, `asked` and
`started` remember the last load.

**ConnectState.** An action is a whole handler. A track is its uri, its
provider, its position in the context and whether autoplay gave it. What a
client sends with `set_queue` replaces the lists as it is: any of `ClientLists`,
uncut, or the own ones with a track moved to the front. The code's
shuffle, with its recorded draws and its undoing, is translated as it is; the
resolver's queue (`todo`) delivers pages between any two handlers. A loop of the
code is a recursive function of its turns (`FillTurn` under `FillUpNextTracks`,
`AllSwapped`, `AllQueued`, `NextUntil`), so that theorems can speak of it.

**Spirc.** One action per arm of the `select!`; a handler is an operator from
the task's record to its next one and the commands it sends. A put of the state
is a Boolean choice. The player at the other end of the channels takes a
command, starts, fails, ends a track. Tracks are a context that is played in
order, because the lists are `ConnectState`'s; some cannot be read
(`Unreadable`), at which a handler ends with an error. Three history fields say
why outside and inside disagree: `crossed`, `left` (one value for each of five
causes) and `missed` (a put that failed, or an error before it).

**CoreSession** counts time in units of 20 seconds (`Tick`): `left` until the
keep-alive's timer fires, `quiet` since the server was last heard. The
dispatcher, the sender and main share one thread and are a step per poll; the
two halves of shutdown are separate, because a caller in the player's thread may
come between. **SessionPromise** is the abstract specification that
`CoreSession` implements.

**AudioFetch** counts in blocks. Each critical section of the download status is
a step; the ranges are the code's sorted lists, with the algorithms of
`range_set.rs` in **RangeSet**. A loop of those that stops at an index is the
first index with the condition it stops at; one over a second list is a
recursive function of how many elements it has done.

**Web** has callers of two kinds, tasks of main's thread and the player's loading
threads. Each critical section is a step: the check of a list of addresses, the
fetch, the take; the look at the shared access point; a token's; the check of
the rate limit. `pc` is where a call is, `need` what it goes on with. Servers
answer anything or nothing.

**Dealer** has a record per connection (link, channel, the two tasks and who
holds them) and one per request, with its `Responder`: its `sent` flag, what it
does when it is dropped, and the call that silences it. **AppMain** has a record
per Spirc; the end of main goes on until what it holds is dropped, with the joins
of the player's thread, of the loads and of the event thread.

Four modules are functions of the code without a state machine, and are compared
with a definition that does not follow the code, over all small inputs, by an
`ASSUME` of the `MC` module that instantiates them:

| module | code | what is compared | evaluated with |
|---|---|---|---|
| `UriMaps` | the tries of `dealer/maps.rs` | after every insertion and removal, what is found equals what a set of entries says: handlers never compete, a message reaches the subscribers nearest to the root, the dead ones are forgotten, no empty branch stays | `dealer` |
| `FileCache` | the limiter and the calls of `cache.rs` | after every sequence of calls and failures the sum equals the sizes and is within the limit, it counts what is there as long as nothing failed, and the least recently used files go | `audio_fetch` |
| `SpotifyId` | the base 62 of `spotify_id.rs`, by words with carries | both directions for every number and every text, at two small sizes with the proportions of 4 × 32 bits and 22 digits | `core_session` |
| `SpotifyUri` | `spotify_uri.rs` | what is parsed prints as itself, what is behind a URI is ignored, exactly the local files whose fields have colons do not survive | `core_session` |

## The runs

Twelve runs, all of which pass.

| run | instance | checks | states |
|---|---|---|---|
| `cache_saving` | 2 keys, 2 threads, limit 1, one save at a time, saves that fail, expiry, restarts | `NoLostSave`: an entry set is on disk, or a save that will try to write it is coming, unless a save that had copied it failed; `SizeBound`: the limit is exceeded by at most one entry per other thread inside `set`, plus what the load added | 2.5 million |
| `store_threads` | 3 keys, 2 values, 2 workers and the main thread, both kinds of listener, 4 calls, saves that fail, restarts | `DiskMatches`: a readable file equals the persistent part of memory whenever the lock is free, unless the last save failed; `ReaderConverges`: a widget that reads again ends with the current value; `EveryCallReturns` | 480 thousand |
| `api_gate` | 2 threads, one endpoint that is throttled or forced, clock to 5, 4 requests | `OfflineReported`: the application is offline when its failures say so, and says it | 1.5 million |
| `playback_polls` | heartbeat, a command's worker and the main thread, 3 versions, one of them silent | `ServiceNeverGoesBack`; `StoreCatchesUp`: the store shows Spotify's state time and again, whatever stale answers were stored | 25 thousand |
| `player` | 2 tracks (one explicit, one local), 2 loading threads, 2 loads, any commands, any failures | `OutsideIsState`: listener and sink agree with the state, whichever step failed; `DecoderIsTracks`; `StartedAsAsked`: what starts is the last load's, at its position; `NothingHangs`: if loads end, a load is answered and the drop ends | 663 thousand |
| `connect_state` | a context of two pages, one of one track, an autoplay, 3 transfers, 4 commands, lists of 3 and 2, a client's of up to 4 | `ListsSound`: nothing is lost or doubled through shuffle and pages, the lists outgrow their limits only by what a client sends, no step panics; `PrevUndoesNext`; `CurrentKept`: edits and late contexts do not change what plays | 205 thousand |
| `spirc` | 3 tracks, one unreadable, 2 inputs, 2 failed puts | `StatusFollowsPlayer`: when nothing is under way the status is what the player does, its track the player's, and an inactive device is silent, but for a crossing and five named causes; `ServerKnows`: the server's view is the device's unless the last put failed or a handler ended by an error; `ComesToRest` | 232 thousand |
| `core_session` | a subscription and a key, 3 access points, one packet at a time | `SilenceEnds`, `NobodyWaits`, `NothingHangs`, and `PromiseKept`: it implements `SessionPromise`; the identifiers and URIs | 267 thousand |
| `audio_fetch` | 3 blocks, 2 URLs, one failure | `RangesAreSets`: the lists stand for sets and the algorithms compute what they should; `ReadsAreReal`; `FetchedOnce`; `FetchPersists`; the cache on disk | 516 thousand |
| `web` | 2 callers, tries, logins and addresses as below | `ResolverAnswers`: who is told that there is no address was overtaken by another; `EveryCallEnds`: but for an answer that never comes and challenges without end; `ClientTokenTolerated` | 1.3 million |
| `dealer` | 2 connections, a request, 2 URIs, one above the other | `NoTaskIsLost`, `AnsweredOnce`, `LostIsLeft`, `CloseEnds`, `RequestsAnswered`; the tries | 223 thousand |
| `app_main` | 2 users, 2 Spircs, an event program, avahi | `OneSpirc`, `LastUserWins`, `SpircComesBack` (unless `Spirc::new` hangs), `ShutdownEnds` (but for three waits, which it names) | 635 thousand |

Why the bounds are enough.

* The hazards of NeoTune need two threads besides the main one, and two values
  or versions to tell an older from a newer. `MaxCalls`, `MaxClock`, `MaxTime`
  and `MaxVersion` bound what the code does not; four calls are two sets by
  different threads with a subscription and a restart between.
* `Player`: two tracks and two loading threads are the one that plays and the
  one that is preloaded or replaces it; positions are the start and one past the
  end (of a saturated seek); one track is explicit, one local. `MaxId` = 1 is two
  loads: what an older load's thread may spoil is the newer one.
* `ConnectState`: an album of two pages has a page to append, a list of one
  track a context to leave, a radio of two an autoplay to enter, one of whose
  tracks is on the album as well. Lists of 3 and 2 tracks instead of 80 and 10
  reach the truncations, and a client's list of 4 is longer than either; four
  commands reach shuffle, page, next, prev.
* `Spirc`: two inputs and two failures, because crossings take one command and
  one event; the third track is the unreadable one, which the second's end
  leads to; events of the player are not bounded.
* `CoreSession`: `MaxRetries` and the states of the keep-alive are the code's;
  three access points instead of six tries.
* `AudioFetch`: three blocks are a first, a last and a gap between; one failure
  per behaviour, at any point, includes slow answers.
* `Web`: two tries, and an access point that is dropped after each failed one
  (`Trials` = 1 instead of 3), so that a try meets the one before; two logins,
  one try for a client token, and a count that wraps around at 2 instead of 256;
  one address at a time and one call per interval, so that two callers compete
  for both.
* `Dealer`: two connections are a loss and what comes after; a URI and a longer
  one are the cases of the handlers' tree.
* `AppMain`: two Spircs and two users are one that replaces another; whether a
  load runs is all that the end of main sees of it.

Deadlock is checked in `cache_saving` and `playback_polls`. In the others
something is bounded (calls, commands, inputs, Spircs, time) or the program ends
(`Player` after its drop, `Dealer` after close, `AppMain` at exit,
`CoreSession` after shutdown, `AudioFetch` after close), so that their last
states are not deadlocks; what must not wait there is asked by
`EveryCallReturns`, `NothingHangs`, `CloseEnds`, `EveryCallEnds` and
`ShutdownEnds`.

Each property has a mutant of the code's definitions in `PROJECT.json`: a
dropped guard, a missing reset, a swapped order. TLC finds the property violated
in each.

## Fairness

* `StateStore`: weak fairness of each thread inside a call and of the event
  loop; the lock goes to some waiting thread, and calls are bounded. No fairness
  of starting a call, of restarts or of time.
* `Playback`: the lock is handed over in no order, so a thread that asks for it
  time and again needs strong fairness. This is an assumption on
  `threading.Lock` under contention by three threads that sleep between their
  attempts, not a guarantee of Python's. The run has `MainAsks = FALSE`: a
  handler of the event loop that asks the service stops the program (see
  [below](#what-was-found-while-modelling)). The heartbeat asks again
  (`terminal_renderer.py:97`), the cached answer expires, and some requests are
  answered: without that no display can recover.
* `Player`: the thread is scheduled, and every load ends. The second is an
  assumption: the requests a load makes over HTTPS have no time limit (an audio
  key's and a read's have). Commands owe nothing.
* `Spirc`: the task takes events and timers, the player takes commands and loads
  start or fail. Inputs from outside owe nothing. An arm of the `select!` that
  stays ready is taken, since tokio polls arms in random order.
* `CoreSession`: tasks and timers of the runtime; callers go on with what they
  have begun; dialling ends (the system ends it, and the code the handshake after
  5 seconds, `connection/mod.rs:65-72`). The server owes nothing: it need never
  ping, close, or answer. The resolver's answer (`session.rs:215`) and the
  access point's to the login (`connection/mod.rs:160`) have no time limit, so
  `NothingHangs` has these two waits as the ways in which `connect` may not end.
* `Web`: callers run. No server owes an answer, as no request has a time limit.
* `Dealer`: tasks are polled, timers fire, connection attempts end, and the
  handler's owner replies or wants no answer. A connection may stay silent for
  ever. That attempts end is an assumption: `get_url` and the connect of
  `mod.rs:708` and `:516-518` have no time limit of their own; the second is
  ended by the system, the first is a request of `Web`.
* `AppMain`: main and the tasks are polled, discovery stops when it is told
  to, the event program ends. Nothing is assumed of what waits for Spotify:
  `Spirc::new`, a Spirc that is told to shut down, a load.
* `CacheStore`, `ApiGate`, `Session`, `ConnectState`, `AudioFetch` have safety
  properties only, and no fairness.

## The proofs

TLC shows the properties for the instances above; the theorems hold for every
value of the constants that satisfies the named assumptions of the modules.

| theorem | states | argument |
|---|---|---|
| `CacheTypeCorrect`, `StoreTypeCorrect`, `GateTypeCorrect`, `PlaybackTypeCorrect`, `SessionTypeCorrect`, `PlayerTypeCorrect`, and `TypeCorrect` of `Connect_proofs` (`CoreSession`), `Servers_proofs` (`Dealer`), `Tasks_proofs` (`AppMain`), and `FetchTypesCorrect` there (`AudioFetch`) | `TypeOK` | one step per action; `StateStore` needs that the callback being run was taken, `Session` that a configuration being saved came from a form, `CoreSession` that the attempts left are within bounds. `Web`'s and `Spirc`'s are parts of `ResolverAnswers` and `StatusFollowsPlayer` |
| `CacheSizeBounded` | `SizeBound`: at most `MaxSize` entries, plus one per other thread inside `set`, plus what the load added | counting on the cardinalities of the entries held and of the threads about to insert: a deletion frees a place before its thread takes it |
| `CacheNoLostSave` | `NoLostSave`, with one saver at a time | `Covered`: for every entry in memory that is accounted for, a save is armed, about to be, or has not copied yet (`SaveDue`), or the copy being written, or else the file, has it; a save that fails takes the entries it had copied out of account, and no others. Two saves that overlap can write the older copy last; the theorem assumes that they do not (`\E me : Saver = {me}`), as the run does |
| `StoreNoHoldAndWait` | no worker waits for the event loop with the store's lock | the lock belongs exactly to the thread that saves or is inside `update`, which publishes only keys nobody listens to (`UpdatesQuiet`) |
| `StoreDiskMatches` | when the lock is free, a readable file equals the persistent part of memory, unless the last save failed | outside a save the file is torn, current, or behind a failed save, and the next one that succeeds makes it current |
| `StoreReaderConverges` | `ReaderConverges` | `OnTheirWay`: who has listeners left to tell is publishing or subscribing, and a callback in progress is the main thread's; a change of a key leaves each of its readers told by somebody after it |
| `GatePauseOneCaller` | with one thread, no request passes during an announced pause | no request is in flight during a pause, so the pause in force is the latest |
| `GateOfflineReported` | `OfflineReported` | `OfflineComing`: enough failures, the last of the results being one, have taken the gate offline, or the thread that counted them is about to |
| `PlaybackNeverGoesBack`, `PlaybackStoredInOrder` | the cached answer never goes back; what is stored under the lock is not older than what the store shows | the lock's holder, the event loop's queue (each waiting worker once), and that an answer on its way to be kept is at least as new as the kept one |
| `QueueStaysSound` | `ListsSound`: types, limits (the code's, or the longest list a client sends), and the default context has every position it was given exactly once | see below |
| `BackUndoesOn` | `PrevUndoesNext`, where at least two played tracks are kept (the code keeps 10) | with one, a delimiter that is passed pushes the track that was left out of the list, and the property is false; otherwise the last two previous tracks after `next_track` are followed by cases |
| `EditsKeepTrack` | `CurrentKept` | what each handler does to the current track; a context that arrives with the current track in it starts from it |
| `SessionStartFindsServices` | the look-ups at the start never raise | before the second `setup_spotify` the player is registered or a login has just left a fresh token; no network without a configuration. It assumes that no pair of credentials is the value for none |
| `PlayerOutsideIsState`, `PlayerDecoderIsTracks`, `PlayerStartedAsAsked` | the three invariants of the run `player`, for any tracks, lengths, loads, and with gapless playback on, too | `Core`, what holds between any two commands or stages: the state, the preload and the threads belong together, and the listener and the sink know the state; `Rounds`, where the poll loop is: it passes over no stage that a playing player needs, and never waits while it plays. Every command, load and stage is shown to keep `Core` by itself |
| `StatusIsThePlayers`, `ServerIsTold` | `StatusFollowsPlayer`, `ServerKnows` | see below |
| `SilenceNotKept` | `SilenceEnds`: a session that is valid has heard from the server within 80 s | `Budget`: the silence so far plus the timer is within the time limit of the keep-alive's state; it is re-established by each of the three states' transitions and kept by time |
| `NobodyLeftWaiting` | `NobodyWaits` | `Entries`: whoever waits without an answer has an entry, through the moment between entry and wait; `Emptied`: the entries are gone once shutdown has been through the managers, and none can be made afterwards |
| `SessionKeepsPromise` | `CoreSession` implements `SessionPromise` | initial states map to initial states; every action maps to `GoLive`, `Wait`, `Finish`, `End` or a stutter, with the two invariants before |
| `AddressForAll`, `TokenTolerated` | `ResolverAnswers`, `ClientTokenTolerated` | every step of a caller but one is `Good`: it leaves the caller well formed, and about to take an address only where it has just seen or fetched one (`AuthGood`, `ClientGood`, `RequestGood`); the one, which takes an address, marks the others that are about to take from a list it has emptied (`TakeKeeps`) |
| `NeverTwice` | `AnsweredOnce` | `Unanswered`: a request that is at the server or the handler has no answer and a `Responder` that has not sent; each way to use a `Responder` up (reply, silence, drop, connection gone) is followed through the drop after it |
| `NoneLeftBehind` | `NoTaskIsLost` | tasks of every connection but the current one are ended or have their timer |
| `OneInCharge` | `OneSpirc` | `Chosen` adds that main connects only when the Spirc before was told to end or has ended |
| `LastUserCorrect` | `LastUserWins` | `ChannelEnds`: the last event in discovery's channel is of the active user or an error, and what main used last is the active user once the channel is empty |
| `AddRangeIsUnion`, `SubtractRangeIsDifference`, `IntersectionIs`, `LookupIs` | the algorithms of `range_set.rs` are those on sets, and keep lists sorted and apart, for all lists | see below |
| `ListsAreSets` | `RangesAreSets` | the lists of the status are canonical (`Typed`), and the four theorems above |
| `FetchInvariant`, `BroughtOnce`, `OnlyRealReads`, `FetchesPersist` | the inductive invariant of `AudioFetch`; `FetchedOnce`, `ReadsAreReal`, `FetchPersists` | see below |

The longest argument is `Spirc`'s. Its two properties speak of the moments at
which nothing is under way; the invariant has to speak of all others, when
commands are in one channel and events in the other. It has three parts.

* `Believes`: the task's status is what the player *will* do. Of the commands in
  the channel the last one that decides tells whether it will play
  (`WillPlay`), the last load which track it will have (`WillHave`); if none
  loads, the events of the player's current request that are still to be
  handled will bring the status to where the player is. A command that the
  player ignores in its present state was one the status does not depend on.
* `Saying`, with `Announced`: every announcement under way is followed by the
  start of its request, the last one names the player's request, and what the
  task will not filter out (`Current`) is of that request. This is what the
  filter at `spirc.rs:769` relies on.
* `Ready`: types; `Away`, a device that is not active has no track and has
  stopped, unless a cluster update without a cluster made it inactive;
  `Reported`, what the server has not been told is due: by the timer, by an event
  under way, or because the last put failed (`missed`); a handler that ends by
  an error changed nothing that is shown, or is marked.

The task has some thirty actions, but what one can do to the belief is one of
few `Moves` (load afresh, play, pause, stop, seek, nothing; the track kept, or
the cause of its change in `left`), and each action is shown to make one of them
(`...Conducts`). The player's steps and the events that it sends are then taken
one by one against the belief (`PlayerTakesKeeps`, `EventKeeps`). After a
crossing, recorded in `crossed`, or when the device left its music on and calls
itself stopped (`LeftOn`), nothing is claimed (`Known`), until the next load
restores the belief (`FreshBelieves`).

`ConnectState`'s handlers are compositions of a dozen operators on the state of
the queue, and many go on after an error with what has been changed so far. So
the invariant `QueueInv` is about single states: `Sound` are those whose fields
have their types, whose lists are within their limits or a client's and whose
default context is whole (`WholeContexts`): its tracks have the positions from
0 on, each once (`Numbered`), and the recorded exchanges of a shuffle lie inside
it (`Fits`). `Fits` is what makes the invariant inductive: undoing a shuffle
exchanges tracks at recorded places, and loses none only if the list still has
them. Each operator has a lemma that it leads from `Sound` to `Sound`, whether
it meets an error or not, and what it keeps besides (`Filled`, `SameContexts`);
a loop is a function of its turns that `Iterated` shows to exist, and every turn
of it is sound. `EditsKeepTrack` needs more of two operators: playing from where
a context has the current track leaves the current track
(`ResetPlaybackToPosition`), and so does finishing a context that has arrived
(`TryFinish`).

`RangeSet`'s algorithms are proved for all lists. The loop of `add_range` finds
the first index at which it stops (`First`), and what it takes up from there is
a part of the list (`SpliceIs`, `MergeIs`); `subtract_range` leaves what lies
before the range, and what lies behind (`SubtractRangeIs`). The functions that
go through a second list are recursive functions of the turn: `Iterated` shows
that such a function exists, and what each turn keeps is then kept by all: else
there were a least turn that breaks it (`LeastNumber`). For the intersection, a
turn has found all positions of two ranges one of which is behind the walk
(`Found`).

`AudioFetch`'s invariant `FetchInv` says where a requested block is. What a
request has not brought (`Rest`) is requested, not downloaded, not in the
channel and not with another request (`Apart`); what one that is about to end
has brought is in the channel or written (`Arrives`); with both, a request that
ends short takes back its own blocks and nobody else's. That every requested
block is downloaded, in the channel or with a request (`Comes`) is
`RequestedIsComing` in terms of sets. `Asked` is what any download adds, `Keeps`
that every step keeps the invariant. For `FetchPersists` the invariant names the
block that a sleeping fetch misses and that is requested, or will be when the
commands have been handled (`Persists`): a short request that would take it
back notifies the sleeper, too.

Each inductive invariant was checked by TLC before it was proved. Assumed are
only the named `ASSUME`s, which the configurations satisfy. The ones with
content: `UpdatesQuiet` (no widget subscribes to a key that is passed to
`update()` while the program runs, which is so in this repository; `update()`
publishes under the lock, and without the assumption `NoHoldAndWait` is false),
and that `MaxSpircs` and the like are numbers: they bound the models only, and
the theorems hold for every such number.

Model-checked only:

* liveness (`EveryCallReturns`, `StoreCatchesUp`, `NothingHangs`, `ComesToRest`,
  `EveryCallEnds`, `CloseEnds`, `SpircComesBack` and the like), which is beyond
  the prover;
* the comparisons of `UriMaps`, `FileCache`, `SpotifyId` and `SpotifyUri`, which
  are computed by recursive operators, about which the prover can show nothing;
* `NoLostSave` where saves overlap, which is false there.

## What was found while modelling

Behaviours of the code that the models have, and that a reader of the code might
not expect. None of the properties of the runs claims the contrary; where a
property says "unless", it is one of these. Those marked * were seen as
counterexamples of a stronger property; the others by reading the code for the
model.

NeoTune:

* \* `CacheStore`: another thread's eviction between `cache.py:149` and `:152`
  makes `get` raise `KeyError` instead of returning `None`.
* \* `StateStore`: two workers that set a key publish in the opposite order
  (`store.py:130` is outside the lock); a widget that shows the value it was
  given keeps the older one. `ReaderConverges` is about those that read again.
* A save of either store that fails is swallowed (`cache.py:93`, `store.py:100`):
  the entries or values are lost with the process unless a later change saves
  again. `NoLostSave` and `DiskMatches` say that nothing else loses them.
* \* `ApiGate`: a second 429 with a shorter `Retry-After` ends the announced
  pause early (`base.py:143`); `GatePauseOneCaller` is what holds.
* \* `ApiGate`: successes are never counted, so any third failure takes the
  application offline (`base.py:54`, against the dampening of `base.py:44`);
  `OfflineReported` is what holds.
* \* `Playback`: a handler of the event loop that asks the playback service
  while the heartbeat, holding the service's lock, waits for the event loop
  stops the program (`playback_service.py:65`, `useAutoPlay.py:18`).
  `MainAsks = TRUE` shows it.
* \* `Session`: after a failed login the container keeps the first network
  (`di.py:26`, `auth_server.py:67`); credentials edited afterwards never
  complete a login.

Player and Connect:

* A decode error or an explicit track makes the player send `EndOfTrack` in
  every round of `poll` until somebody reacts (`player.rs:1566`, `:2408`).
* A seek that fails while a load reuses the decoder leaves the state `Invalid`,
  and the next use of it ends the process (`player.rs:2012`, `:2126`); so does a
  sink that fails inside the packet loop (`:1457`, `:1577`).
* A local file shorter than a second divides by zero in the loading thread
  (`player.rs:1306`); the load counts as failed.
* A position past the end starts a new decoder over, but saturates in one that
  is reused: the two values of `StartedAsAsked`.
* A loading thread that ends before its handle is stored leaves the handle in
  the table (`player.rs:2452`); it is joined at the end.
* \* `Spirc`: an event that crosses a command leaves the status wrong, though the
  comment at `spirc.rs:773-776` has it filtered; `StatusFollowsPlayer` claims
  nothing after a crossing (`crossed`), until the next load or stop.
* \* `ConnectState`: after a page was appended, unshuffling leaves the order as it
  is (`shuffle_vec.rs:105`), and the current track is not found again as
  `spirc.rs:347-349` expects.
* \* `ConnectState`: toggling the repetition of the context while autoplay plays
  a track that the default context has, too, takes the position in the one for a
  position in the other (`handle.rs:53-55`, `state.rs:395`): another track
  becomes the current one. `CurrentKept` excludes it.
* \* `ConnectState`: if the current track is a queued one then, and its position
  in the default context is past the end of autoplay's, `context.tracks.len() -
  new_index` (`state.rs:415`) underflows: a panic in a debug build, and in a
  release build the list of previous tracks is empty, as modelled.
* `ConnectState`: `handle_next` with a target that is not in the queue never
  ends (`spirc.rs:1725`); the model asks for targets that are there. Tracks of
  the context are not marked unavailable, only those in the lists; `set_queue`
  puts in what a client sends without cutting it (`tracks.rs:235-263`), past the
  limits that keep the web player from overload (`state.rs:39`); going back
  drops queued tracks; a delimiter may become the current track; the shuffle
  flag is set before the shuffle is refused; an empty context makes the random
  choice of a track panic; a resolved context starts from its first track.
* `Spirc`: `is_playing` is stale for 200 ms after a remote pause; a volume update
  is obeyed by an inactive device.
* \* `Spirc`: music goes on without a device that owns up to it in three cases,
  until the next load: the user disconnects without a pause (`spirc.rs:730`), a
  put fails when another device takes over (`:1002`), the loop ends with the
  device active (`:592-597`). A cluster update without a cluster makes the
  device inactive and leaves its status (`:1011-1013`). A uri that cannot be
  read ends `load_track` with the new track shown and the old one playing
  (`:1880`). These are the causes in `left`.
* \* `Spirc`: a request to play that fails after it has changed the state ends by
  `?` before its notify (`:1074-1118`, `:1163`), as an event does whose load fails
  (`:788`): the server is not told until the next notify that succeeds (`missed`).

Core:

* \* The login waits for the access point without a time limit
  (`connection/mod.rs:160`), and main with it; the 5 seconds of
  `connection/mod.rs:65-72` are for the handshake only. So does `connect` for
  the resolver (`session.rs:215`).
* `fetch_blocking` asks for its range before it waits: a request that fails in
  between notifies nobody and the wait runs into its time limit
  (`fetch/mod.rs:229`, `:250`). `FetchPersists` holds once a notification was
  heard.
* `SeekFrom::End(n)` seeks to `n + 1` bytes before the end, where the standard
  library's trait has `n` bytes behind it (`fetch/mod.rs:635`).
* Files that the limiter gives up and cannot remove stay on the disk, uncounted,
  until the next start; a copy that fails leaves part of a file; `save_file`
  succeeds for a file that is larger than the limit and gone again
  (`cache.rs:420`).
* With `--ap-port` other than 443 the resolver drops the addresses of dealer and
  client and their fallbacks too (`apresolve.rs:51-120`): the assumption
  `FallbackFits` of `ResolverAnswers`.
* \* A loading thread may take the last address between another caller's look at
  the list, its fetch and its own take (`apresolve.rs:127`, `:100`, `:131`): that
  one is told that there is no address, although the fallback fits.
* \* "Keep trying current access point three times" (`spclient.rs:537`) holds for
  one caller: the counts are each call's own and the access point is shared, so
  that one call's third failure drops an address that another has just
  resolved, after one try.
* \* A client token server that answers each solved challenge with another one
  keeps the call for ever (`spclient.rs:313-317` does not look at the count),
  which is the exception in `EveryCallEnds`; the count is a `u8` that panics in a
  debug build at the 256th response.
* After a first answer with a bad status or header a file is not opened, though
  other URLs are left (`fetch/mod.rs:487-501`); only the errors before it try the
  next one.
* `from_base16` takes a leading `+` (`spotify_id.rs:46`).
* The dealer: an error of `get_url` ends its loop for good; a start that fails
  loses the builder, so that it cannot be started again; a subscriber nearer to
  the root hides those below it, and a dead one counts as having handled a
  message (`maps.rs:133`).
* \* Main: after ctrl-c the process may hang for ever in one of three waits, the
  exceptions in `ShutdownEnds`: for a Spirc that does not end when it is told (a
  second ctrl-c leaves it); when the player is dropped, for a thread that loads a
  track, whose requests have no time limit and whose pooled connections are
  served by the runtime that has stopped (`player.rs:687-697`, `:2487-2505`);
  with an event program, for the player's thread while a Spirc task holds the
  player (`player_event_handler.rs:280-289`).
* Main: six reconnections pass although the limit is five; discovery's active
  user is never reset; a Spirc that was replaced may stop the shared player
  after the new one has loaded (`main.rs:2030`).

## What is abstracted

* Cache entries of NeoTune are their expiry times; store values are compared and
  copied, never looked into; Spotify's playback state is a version; pauses are
  in ticks, with the 30 s buffer inside `RetryAfter` (one that is not an integer
  makes the handler raise and is left out).
* A pair of credentials is saved whole or not at all.
* The decoder is a position and a track; audio, normalisation, volume curves and
  the events that only pass a value on are left out.
* The table of loading threads of the player is the set of those that run; its
  mutex, which the drop gives back before it joins them (`player.rs:2491-2499`),
  is not a lock of the model.
* The options of a page and of an autoplay context when contexts are merged
  change uids and metadata only, and are left out with them.
* Tracks have no metadata and no uid; contexts are lists of uris; random draws
  are given sequences.
* Ranges of files are blocks; estimates of ping time and throughput are values
  of a small set; expiry dates of URLs are not parsed.
* Packets have a kind and the call they answer; tokens are there or not;
  addresses are counted; payloads are not decoded.
* A subscription of the dealer that ends while messages come is in `UriMaps`,
  not in `Dealer`.
* Calls of two threads on the `FileCache` that overlap: a file that one saves
  while the other prunes it may be counted though it is gone.
* Textual's scheduling of exclusive workers is the library's: in `Playback`
  every worker may run or not.

## Not modelled

* NeoTune: the virtual queue (its unlocked save and the panel's refresh through
  a cached queue), navigation and paging, the local player's process handle,
  refresh, retry and prefetch, device choice and volume, the activity history,
  the search modals. They are state machines of the same kind as those modelled
  (workers that overlap, a copy that is older than it seems) and are the next
  ones to add; `PROJECT.json` says of each what its question is. The commands
  they share with the modelled parts are in `Playback`.
* NeoTune: discovery service, forms and keys, Lua preferences, debug log,
  models, themes: no state of their own that decides anything.
* librespot: audio backends, mixers, converters, dither and resampling (signal
  processing; of a sink `Player` sees that it starts, refuses or stops);
  decoders and decryption; metadata and protocol (parsing, generated code);
  `channel.rs`, from which nothing in the repository allocates; the options of
  `get_setup` (1,600 lines that fill a record) and OAuth in the browser; the key
  exchange and the ciphers.
* In `Web`: login with a password (only for mobile systems), the wait after a
  429 inside `HttpClient` (it repeats the same request), `token.rs` (only an
  example calls it). In `CoreSession`: the data that packets only store, and the
  exit for accounts that are not premium.
* Build files.

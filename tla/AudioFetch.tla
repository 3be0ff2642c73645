------------------------------ MODULE AudioFetch ------------------------------
(* librespot's streamed audio file (audio/src/fetch): the thread that plays    *)
(* reads, seeks and waits for ranges of a file that is being downloaded; the   *)
(* fetching task takes its commands and the data of the requests, writes the   *)
(* file and prefetches; each request is a task of its own, of which one at a   *)
(* time has the download slot. The mutex of the download status makes a step   *)
(* of each critical section, its condition variable wakes who waits.           *)
(* Positions are counted in blocks. The CDN is the environment.                *)
EXTENDS Naturals, Sequences, FiniteSets, RangeSet

CONSTANTS
    FileSize,       \* blocks of the file
    MinDownload,    \* minimum_download_size
    ReadAhead,      \* read_ahead_during_playback
    Throughputs,    \* the estimates that may be current
    MaxDesired,     \* bound: desired_pending_bytes
    Lengths,        \* bound: how much is read or waited for at once
    MaxUrls,        \* bound: URLs of a file
    MaxCmds,        \* bound: commands that wait when the thread makes its next call
    MaxFails        \* bound: failures of requests, a slow server among them

ASSUME FetchAssumption ==
    /\ FileSize \in Nat \ {0} /\ MinDownload \in 1..FileSize
    /\ ReadAhead \in Nat /\ MaxDesired \in Nat /\ MaxUrls \in Nat /\ MaxCmds \in Nat /\ MaxFails \in Nat
    /\ Throughputs \subseteq Nat /\ Lengths \subseteq Nat \ {0}

VARIABLES
    loop,       \* audio_file_fetch: how far it is, and how it has ended
    urls,       \* AudioFileStreaming::open: URLs that are left to try (1 when one did)
    streaming,  \* download_streaming
    requested, downloaded,  \* AudioFileDownloadStatus
    position,   \* of the reader; readPos is what the others see of it
    user,       \* the thread that plays: what it waits for, what its last call
                \* gave, and whether that was in the file
    cmds,       \* the channel of commands
    data,       \* the channel of received data
    tasks,      \* the requests (receive_data)
    file,       \* the blocks that have been written
    complete,   \* complete_tx has been given the file
    fails, slow \* history: failures, and whether a wait ended for slowness

fetchVars == <<loop, urls, streaming, requested, downloaded, position, user, cmds, data,
               tasks, file, complete, fails, slow>>
status == <<requested, downloaded>>
history == <<fails, slow>>

Blocks == 0..(FileSize - 1)
Minimum(a, b) == IF a < b THEN a ELSE b
Maximum(a, b) == IF a > b THEN a ELSE b
Nobody == [at |-> "idle", what |-> "none", start |-> 0, length |-> 0, result |-> "none", real |-> TRUE, again |-> FALSE]

FetchInit ==
    /\ loop = "opening" /\ urls = MaxUrls
    /\ streaming = FALSE
    /\ requested = <<>> /\ downloaded = <<>>
    /\ position = 0
    /\ user = Nobody
    /\ cmds = <<>> /\ data = <<>> /\ tasks = {}
    /\ file = {} /\ complete = FALSE
    /\ fails = 0 /\ slow = FALSE

Fetch(r) == [kind |-> "Fetch", range |-> r]
Close == [kind |-> "Close", range |-> Span(0, 0)]

\* The channel is closed when the loop has ended.
Send(cs) == cmds' = IF loop \in {"runs", "prefetch"} THEN cmds \o cs ELSE cmds
Listening == loop \in {"runs", "prefetch"}

\* notify_all wakes who waits on the condition variable.
Notified(u) == IF u.at = "asleep" THEN [u EXCEPT !.at = "woken"] ELSE u

Task(r, at) == [start |-> r.start, length |-> r.length, got |-> 0, at |-> at]
SlotFree == \A t \in tasks: t.at = "queued"
Fails == fails < MaxFails /\ fails' = fails + 1

-----------------------------------------------------------------------------
(* Opening                                                                     *)

\* A URL that expires or does not answer within its time: the next, if any. After
\* an answer with a bad status or header those that are left are not tried.
UrlFails ==
    /\ loop = "opening" /\ urls > 0
    /\ urls' \in {urls - 1, 0}
    /\ loop' = IF urls' = 0 THEN "failed" ELSE loop
    /\ UNCHANGED <<streaming, status, position, user, cmds, data, tasks, file, complete, history>>

\* The first answer tells the size of the file; its body is taken up by a task.
UrlAnswers ==
    /\ loop = "opening" /\ urls > 0
    /\ LET first == Span(0, MinDownload) IN
       /\ requested' = AddRange(requested, first)
       /\ tasks' = {Task(first, "queued")}
    /\ loop' = "runs" /\ urls' = 1
    /\ UNCHANGED <<streaming, downloaded, position, user, cmds, data, file, complete, history>>

-----------------------------------------------------------------------------
(* The thread that plays                                                       *)

\* The thread has a file (the opening has not failed) and is not in a call.
Ready == user.at = "idle" /\ loop # "opening" /\ urls > 0 /\ Len(cmds) <= MaxCmds

Result(r) == [Nobody EXCEPT !.result = r]

\* AudioFileStreaming::read up to the wait: what is missing is asked for.
Read(n) ==
    /\ Ready
    /\ LET length == Minimum(n, FileSize - position)
           wanted == IF streaming THEN Minimum(length + ReadAhead, FileSize - position) ELSE length
           missing == SubtractRangeSet(SubtractRangeSet(<<Span(position, wanted)>>, downloaded), requested)
       IN CASE position >= FileSize -> user' = Result("end") /\ UNCHANGED cmds
            [] position < FileSize /\ missing # <<>> /\ ~Listening -> user' = Result("broken") /\ UNCHANGED cmds
            [] OTHER -> /\ Send([i \in DOMAIN missing |-> Fetch(missing[i])])
                        /\ user' = [Nobody EXCEPT !.at = "checks", !.what = "read",
                                                  !.start = position, !.length = length]
    /\ UNCHANGED <<loop, urls, streaming, status, position, data, tasks, file, complete, history>>

\* fetch_next_and_wait: one range is asked for and a part of it waited for.
FetchNextAndWait(n, wait) ==
    /\ Ready
    /\ LET clipped == IF position >= FileSize THEN 0 ELSE Minimum(wait, FileSize - position) IN
       /\ Send(<<Fetch(Span(position, n)), Fetch(Span(position, clipped))>>)
       /\ user' = [Nobody EXCEPT !.at = "checks", !.what = "fetch", !.start = position, !.length = clipped]
    /\ UNCHANGED <<loop, urls, streaming, status, position, data, tasks, file, complete, history>>

\* A mutant: the rest of what was asked for is taken to be there too.
MReadLength(start, length) == length

\* A read gives what is there without a gap, and no more than asked for.
ReadLength(start, length) == Minimum(length, ContainedLengthFrom(downloaded, start))

\* The condition of the wait holds: the data is taken from the file.
Served ==
    /\ user.at \in {"checks", "woken"}
    /\ \/ /\ user.what = "read" /\ Contains(downloaded, user.start)
          /\ LET n == ReadLength(user.start, user.length) IN
             /\ position' = user.start + n
             /\ user' = [Result("data") EXCEPT !.real = (user.start .. (user.start + n - 1)) \subseteq file]
       \/ /\ user.what = "fetch" /\ user.length <= ContainedLengthFrom(downloaded, user.start)
          /\ user' = Result("data")
          /\ UNCHANGED position
    /\ UNCHANGED <<loop, urls, streaming, status, cmds, data, tasks, file, complete, history>>

\* A mutant: the thread just sleeps on.
MAsksAgain == FALSE

AsksAgain == /\ user.at = "woken"
             /\ user.length > ContainedLengthFrom(AddRangeSet(downloaded, requested), user.start)

\* It does not: the thread sleeps. After it was woken, a blocking fetch asks
\* again for what nobody is bringing any more; a read does not.
Sleeps ==
    /\ user.at \in {"checks", "woken"}
    /\ \/ user.what = "read" /\ ~Contains(downloaded, user.start) /\ UNCHANGED cmds
       \/ /\ user.what = "fetch" /\ user.length > ContainedLengthFrom(downloaded, user.start)
          /\ IF AsksAgain THEN Send(<<Fetch(Span(user.start, user.length))>>) ELSE UNCHANGED cmds
    /\ user' = [user EXCEPT !.at = "asleep", !.again = user.at = "woken"]
    /\ UNCHANGED <<loop, urls, streaming, status, position, data, tasks, file, complete, history>>

\* Nothing is under way that could wake the thread.
Stuck == tasks = {} /\ data = <<>> /\ cmds = <<>> /\ loop # "prefetch"

\* download_timeout without a notification: nothing comes, or it comes too late.
WaitTimeout ==
    /\ user.at = "asleep"
    /\ \/ Stuck /\ UNCHANGED history
       \/ ~Stuck /\ Fails /\ slow' = TRUE
    /\ user' = [Result("timeout") EXCEPT !.what = user.what]
    /\ UNCHANGED <<loop, urls, streaming, status, position, cmds, data, tasks, file, complete>>

\* AudioFileStreaming::seek: the download mode is random access while the
\* position moves to what is not there.
Seek(p) ==
    /\ Ready /\ p # position
    /\ IF streaming /\ ~Contains(downloaded, p)
       THEN /\ streaming' = FALSE
            /\ user' = [Nobody EXCEPT !.at = "seeks", !.start = p]
            /\ UNCHANGED position
       ELSE position' = p /\ user' = Nobody /\ UNCHANGED streaming
    /\ UNCHANGED <<loop, urls, status, cmds, data, tasks, file, complete, history>>

SeekEnds ==
    /\ user.at = "seeks"
    /\ position' = user.start /\ streaming' = TRUE
    /\ user' = Nobody
    /\ UNCHANGED <<loop, urls, status, cmds, data, tasks, file, complete, history>>

\* set_stream_mode and set_random_access_mode.
SetMode(m) ==
    /\ Ready /\ streaming # m
    /\ streaming' = m /\ user' = Nobody
    /\ UNCHANGED <<loop, urls, status, position, cmds, data, tasks, file, complete, history>>

\* StreamLoaderController::close.
CloseFile ==
    /\ Ready /\ Listening
    /\ Send(<<Close>>) /\ user' = Nobody
    /\ UNCHANGED <<loop, urls, streaming, status, position, data, tasks, file, complete, history>>

-----------------------------------------------------------------------------
(* The requests                                                                *)

\* A request waits for the slot.
Acquire(t) ==
    /\ t.at = "queued" /\ SlotFree
    /\ tasks' = (tasks \ {t}) \cup {[t EXCEPT !.at = "runs"]}
    /\ UNCHANGED <<loop, urls, streaming, status, position, user, cmds, data, file, complete, history>>

\* The body arrives, whole or short. When nobody listens the task just ends.
Receive(t, n) ==
    /\ t.at = "runs"
    /\ IF n < t.length THEN Fails /\ UNCHANGED slow ELSE UNCHANGED history
    /\ IF Listening
       THEN /\ data' = Append(data, [kind |-> "Data", range |-> Span(t.start, n)])
            /\ tasks' = (tasks \ {t}) \cup {[t EXCEPT !.at = "ends", !.got = n]}
       ELSE tasks' = tasks \ {t} /\ UNCHANGED data
    /\ UNCHANGED <<loop, urls, streaming, status, position, user, cmds, file, complete>>

\* The request fails before its body: an error, or a status that is not 206.
RequestFails(t) ==
    /\ t.at = "runs" /\ Fails
    /\ tasks' = (tasks \ {t}) \cup {[t EXCEPT !.at = "ends"]}
    /\ UNCHANGED <<loop, urls, streaming, status, position, user, cmds, data, file, complete, slow>>

\* A mutant: what a failed request has not brought stays requested.
MTaskEnds(t) ==
    /\ t.at = "ends"
    /\ tasks' = tasks \ {t}
    /\ data' = IF Listening /\ t.got > 0 THEN Append(data, [kind |-> "Measure", range |-> Span(0, 0)]) ELSE data
    /\ user' = IF t.got < t.length THEN Notified(user) ELSE user
    /\ UNCHANGED <<loop, urls, streaming, status, position, cmds, file, complete, history>>

\* The end of receive_data: the throughput is reported (nothing more is done
\* when nobody listens), what did not come is no longer requested, and whoever
\* waits is told; the slot is free again.
TaskEnds(t) ==
    /\ t.at = "ends"
    /\ tasks' = tasks \ {t}
    /\ LET short == t.got < t.length /\ (t.got > 0 => Listening) IN
       /\ data' = IF Listening /\ t.got > 0 THEN Append(data, [kind |-> "Measure", range |-> Span(0, 0)]) ELSE data
       /\ requested' = IF short THEN SubtractRange(requested, Span(t.start + t.got, t.length - t.got)) ELSE requested
       /\ user' = IF short THEN Notified(user) ELSE user
    /\ UNCHANGED <<loop, urls, streaming, downloaded, position, cmds, file, complete, history>>

-----------------------------------------------------------------------------
(* The fetching task                                                           *)

\* What download_range asks for: at least the minimum, in streaming mode the
\* throughput of a second, inside the file, and nothing that is there or coming.
Wanted(offset, length, throughput) ==
    LET least == Maximum(length, MinDownload)
        most == IF streaming THEN Maximum(least, throughput) ELSE least
        clipped == IF offset + most > FileSize THEN FileSize - offset ELSE most
    IN SubtractRangeSet(SubtractRangeSet(AddRange(<<>>, Span(offset, clipped)), downloaded), requested)

DownloadRange(offset, length) ==
    \E throughput \in Throughputs:
        LET wanted == Wanted(offset, length, throughput) IN
        /\ tasks' = tasks \cup {Task(wanted[i], "queued"): i \in DOMAIN wanted}
        /\ requested' = AddRangeSet(requested, wanted)

\* The loop ends, and with it its ends of the two channels.
LoopEnds(how) == loop' = how /\ cmds' = <<>> /\ data' = <<>>

HandleCommand ==
    /\ loop = "runs" /\ cmds # <<>>
    /\ IF Head(cmds).kind = "Close"
       THEN LoopEnds("closed") /\ UNCHANGED <<tasks, requested>>
       ELSE /\ loop' = "prefetch" /\ cmds' = Tail(cmds) /\ UNCHANGED data
            /\ DownloadRange(Head(cmds).range.start, Head(cmds).range.length)
    /\ UNCHANGED <<urls, streaming, downloaded, position, user, file, complete, history>>

\* Throughput and ResponseTime: the estimates change.
HandleMeasure ==
    /\ loop = "runs" /\ data # <<>> /\ Head(data).kind = "Measure"
    /\ data' = Tail(data)
    /\ loop' = "prefetch"
    /\ UNCHANGED <<urls, streaming, status, position, user, cmds, tasks, file, complete, history>>

Told(u) == Notified(u)

Full(rs) == ContainedLengthFrom(rs, 0) >= FileSize

\* Data is written, entered, and whoever waits is told; a full file is handed
\* to the cache and the loop ends.
HandleData ==
    /\ loop = "runs" /\ data # <<>> /\ Head(data).kind = "Data"
    /\ file' = file \cup Positions(Head(data).range)
    /\ downloaded' = AddRange(downloaded, Head(data).range)
    /\ user' = Told(user)
    /\ complete' = Full(downloaded')
    /\ IF Full(downloaded') THEN LoopEnds("complete")
       ELSE loop' = "prefetch" /\ data' = Tail(data) /\ UNCHANGED cmds
    /\ UNCHANGED <<urls, streaming, requested, position, tasks, history>>

\* pre_fetch_more_data: what is missing behind the read position comes first.
FirstMissing ==
    LET missing == SubtractRangeSet(SubtractRangeSet(<<Span(0, FileSize)>>, downloaded), requested)
        tail == Intersection(AddRange(<<>>, Span(position, FileSize - position)), missing)
    IN IF tail # <<>> THEN tail ELSE missing

\* After every message, in streaming mode and with the slot free, more is asked
\* for when less than desired is under way (the desired amount is an estimate:
\* any up to the bound).
Prefetch ==
    /\ loop = "prefetch"
    /\ loop' = "runs"
    /\ LET pending == TotalLength(SubtractRangeSet(requested, downloaded)) IN
       \/ /\ streaming /\ SlotFree /\ FirstMissing # <<>>
          /\ \E desired \in (pending + 1)..MaxDesired:
                DownloadRange(Head(FirstMissing).start, Minimum(Head(FirstMissing).length, desired - pending))
       \/ UNCHANGED <<tasks, requested>>
    /\ UNCHANGED <<urls, streaming, downloaded, position, user, cmds, data, file, complete, history>>

\* A request that cannot be made, or a disk that is full, ends the loop.
LoopFails ==
    /\ loop = "runs" /\ (cmds # <<>> \/ data # <<>>)
    /\ Fails /\ UNCHANGED slow
    /\ LoopEnds("failed")
    /\ UNCHANGED <<urls, streaming, status, position, user, tasks, file, complete>>

-----------------------------------------------------------------------------
Fetching == HandleCommand \/ HandleMeasure \/ HandleData \/ Prefetch

Requesting == \E t \in tasks: \/ Acquire(t) \/ TaskEnds(t) \/ RequestFails(t)
                              \/ \E n \in 0..t.length: Receive(t, n)

Waiting == Served \/ Sleeps \/ SeekEnds \/ WaitTimeout

Playing == \/ \E n \in Lengths: Read(n)
           \/ \E n, w \in Lengths: FetchNextAndWait(n, w)
           \/ \E p \in 0..FileSize: Seek(p)
           \/ \E m \in BOOLEAN: SetMode(m)
           \/ CloseFile

FetchNext == UrlFails \/ UrlAnswers \/ Playing \/ Waiting \/ Requesting \/ Fetching \/ LoopFails

FetchSpec == FetchInit /\ [][FetchNext]_fetchVars
-----------------------------------------------------------------------------
(* Properties                                                                  *)

FetchTypeOK ==
    /\ loop \in {"opening", "runs", "prefetch", "complete", "closed", "failed"}
    /\ urls \in 0..MaxUrls /\ streaming \in BOOLEAN /\ position \in 0..FileSize
    /\ user.at \in {"idle", "checks", "asleep", "woken", "seeks"}
    /\ user.result \in {"none", "data", "end", "broken", "timeout"}
    /\ \A t \in tasks: /\ t.at \in {"queued", "runs", "ends"} /\ t.got \in 0..t.length
                       /\ t.length > 0 /\ Positions(t) \subseteq Blocks
    /\ Covered(requested) \cup Covered(downloaded) \subseteq Blocks
    /\ file \subseteq Blocks /\ complete \in BOOLEAN /\ fails \in 0..MaxFails /\ slow \in BOOLEAN

\* The ranges of the code stand for sets: they stay sorted and apart through
\* every addition and subtraction, so that lookups that stop at the first range
\* behind a value, and the length that the prefetch counts, are right.
RangesAreSets ==
    /\ FetchTypeOK
    /\ Canonical(requested) /\ Canonical(downloaded)
    /\ Covered(SubtractRangeSet(requested, downloaded)) = Covered(requested) \ Covered(downloaded)
    /\ Covered(Intersection(requested, downloaded)) = Covered(requested) \cap Covered(downloaded)
    /\ Covered(AddRangeSet(requested, downloaded)) = Covered(requested) \cup Covered(downloaded)

\* Neither the decoder nor the cache is given blocks of the sparse file that
\* have not been written, whatever arrives in which order.
ReadsAreReal ==
    /\ Covered(downloaded) \subseteq file /\ user.real
    /\ complete => file = Blocks

\* A block that counts as requested is being brought by somebody. Nobody asks
\* for a requested block again, so one that nobody brings is lost until the
\* track is loaded anew.
RequestedIsComing == Listening =>
    \A b \in Covered(requested):
        \/ Contains(downloaded, b)
        \/ \E t \in tasks: b \in Positions(t)
        \/ \E i \in DOMAIN data: b \in Positions(data[i].range)

\* No block is on its way twice.
NotTwice ==
    \A t \in tasks: t.at # "ends" =>
        /\ Positions(t) \cap Covered(downloaded) = {}
        /\ \A u \in tasks \ {t}: u.at # "ends" => Positions(t) \cap Positions(u) = {}

\* The reader, the prefetch and the blocking fetches, which see what is missing
\* at different times, together have each block that counts as requested
\* brought exactly once.
FetchedOnce == RequestedIsComing /\ NotTwice

\* A blocking fetch that has been woken does not sleep on for nothing: whatever
\* fails while it sleeps, something is under way that will wake it.
FetchPersists ==
    (user.at = "asleep" /\ user.what = "fetch" /\ user.again /\ Listening) => ~Stuck

=============================================================================

----------------------------- MODULE FileCache ------------------------------
(* librespot's cache of audio files (core/src/cache.rs): the files on disk and *)
(* the limiter that counts their sizes and gives up the least recently used.   *)
(* The counter and the two maps of the limiter are changed apart from each     *)
(* other, and the disk apart from them; every call on the disk may fail. Calls *)
(* follow each other: those of two threads that overlap are not modelled.      *)
EXTENDS Naturals, FiniteSetsExt, Functions

CONSTANTS Files,   \* the files
          Sizes,   \* the sizes they may have
          Limit,   \* size_limit
          Calls    \* bound: calls in a row that are checked

-----------------------------------------------------------------------------
(* SizeLimiter.                                                                *)

Nothing == [f \in {} |-> 0]
Empty == [queue |-> Nothing, sizes |-> Nothing, inUse |-> 0]

With(map, f, v) == [g \in DOMAIN map \cup {f} |-> IF g = f THEN v ELSE map[g]]
Less(map, f) == [g \in DOMAIN map \ {f} |-> map[g]]

\* The new size is counted before the old one is taken off.
Add(l, f, size, time) ==
    [queue |-> With(l.queue, f, time),
     sizes |-> With(l.sizes, f, size),
     inUse |-> l.inUse + size - (IF f \in DOMAIN l.sizes THEN l.sizes[f] ELSE 0)]

ExceedsLimit(l) == l.inUse > Limit

Remove(l, f) ==
    IF f \notin DOMAIN l.queue THEN l
    ELSE [queue |-> Less(l.queue, f), sizes |-> Less(l.sizes, f),
          inUse |-> l.inUse - (IF f \in DOMAIN l.sizes THEN l.sizes[f] ELSE 0)]

\* Of several files of the oldest time, the heap gives any.
Oldest(l) == {f \in DOMAIN l.queue : \A g \in DOMAIN l.queue : l.queue[f] <= l.queue[g]}

Update(l, f, time) ==
    IF f \in DOMAIN l.queue THEN [l EXCEPT !.queue[f] = time] ELSE l

-----------------------------------------------------------------------------
(* The cache: the limiter, the disk, and of its history when each file was     *)
(* last used, what the last call gave up and whether all calls went well.      *)

\* Files are popped while the limit is exceeded; one that cannot be removed from
\* the disk is popped all the same, and only reported at the end.
RECURSIVE Prune(_)
Prune(c) ==
    IF ~ExceedsLimit(c.limiter) \/ c.limiter.queue = Nothing THEN {c}
    ELSE UNION {LET popped == [c EXCEPT !.limiter = Remove(@, f), !.gone = @ \cup {f}]
                IN Prune([popped EXCEPT !.disk = Less(@, f)])
                   \cup Prune([popped EXCEPT !.ok = FALSE])
                : f \in Oldest(c.limiter)}

\* init_dir counts the files that it can read, with their access times; then
\* prune. There is no cache when a file cannot be removed.
Start(disk, accessed, found) ==
    LET counted == found \cap DOMAIN disk
        limiter == FoldSet(LAMBDA f, l : Add(l, f, disk[f], accessed[f]), Empty, counted)
        pruned == Prune([limiter |-> limiter, disk |-> disk, used |-> accessed,
                         gone |-> {}, ok |-> TRUE])
    IN {[c EXCEPT !.ok = (counted = DOMAIN disk)] : c \in {d \in pruned : d.ok}}

\* The size of what a copy that fails leaves, of which nothing depends.
Part == 0

\* save_file: a copy that fails leaves a part of the file, uncounted.
SaveFile(c, f, size, time) ==
    Prune([c EXCEPT !.disk = With(@, f, size), !.limiter = Add(@, f, size, time),
                    !.used[f] = time])
    \cup {[c EXCEPT !.ok = FALSE], [c EXCEPT !.ok = FALSE, !.disk = With(@, f, Part)]}

\* file: a file that can be opened has been used.
OpenFile(c, f, time) ==
    IF f \in DOMAIN c.disk THEN {[c EXCEPT !.limiter = Update(@, f, time), !.used[f] = time], c} ELSE {c}

\* remove_file: the limiter forgets the file only once it is gone.
RemoveFile(c, f) ==
    {[c EXCEPT !.ok = FALSE]}
    \cup (IF f \in DOMAIN c.disk
          THEN {[c EXCEPT !.disk = Less(@, f), !.limiter = Remove(@, f)]} ELSE {})

-----------------------------------------------------------------------------
(* What it promises, after every sequence of calls.                            *)

Disks == UNION {[fs -> Sizes] : fs \in SUBSET Files}
Call(c, time) ==
    UNION {SaveFile(c, f, s, time) : f \in Files, s \in Sizes}
    \cup UNION {OpenFile(c, f, time) \cup RemoveFile(c, f) : f \in Files}

\* The caches after at most n calls, each at a later time than all before it.
Starts == UNION {Start(d, a, fs) : d \in Disks, a \in [Files -> 0 .. 1], fs \in SUBSET Files}
RECURSIVE After(_)
After(n) ==
    IF n = 0 THEN Starts
    ELSE LET before == After(n - 1)
         IN before \cup UNION {Call([c EXCEPT !.gone = {}], n + 1) : c \in before}

Total(sizes) == FoldFunction(LAMBDA s, sum : s + sum, 0, sizes)

\* The counter is the sum of the sizes of the files that can be popped.
Counts(c) ==
    /\ DOMAIN c.limiter.queue = DOMAIN c.limiter.sizes
    /\ c.limiter.inUse = Total(c.limiter.sizes)
    /\ c.limiter.inUse <= Limit

\* As long as no call on the disk has failed, the limiter counts what is there.
Agrees(c) == c.ok => c.disk = c.limiter.sizes

\* What is given up was used before everything that stays.
Lru(c) ==
    \A f \in c.gone, g \in DOMAIN c.limiter.sizes : c.used[f] <= c.used[g]

\* Whatever is saved, read, removed and fails, the counter stays right and below
\* the limit, and prune takes the least recently used.
CacheKeepsPromise ==
    \A c \in After(Calls) : Counts(c) /\ Agrees(c) /\ Lru(c)
=============================================================================

---------------------------- MODULE MCCacheStore ----------------------------
(* CacheStore for TLC: threads are interchangeable, and so are keys.  The   *)
(* view leaves out what no step and no property of the run reads again: how *)
(* a call ended, the key of a call that only schedules a save, the content  *)
(* of a file that is not readable, and the history of a key that is gone.   *)
EXTENDS CacheStore, TLC

Symmetry == Permutations(Thread) \cup Permutations(Key)

KeyInUse == [t \in Thread |-> IF pc[t] \in {"idle", "schedule"} THEN {} ELSE {key[t]}]

Readable == IF disk.state = "ok" THEN disk.data ELSE Empty

View ==
    <<store, clock, pc, KeyInUse, ttl, todo, enabled, saves, disk.state, Readable,
      tracked \cap Held(store), loaded>>
=============================================================================

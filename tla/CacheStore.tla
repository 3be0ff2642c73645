----------------------------- MODULE CacheStore -----------------------------
(***************************************************************************)
(* The process-wide cache of src/src/core/cache.py: a dictionary with a    *)
(* time-to-live per entry, a size limit enforced before an insertion, and  *)
(* a debounced copy on disk.                                               *)
(*                                                                         *)
(* The dictionary is read and written by every worker thread without the   *)
(* class's own lock (only the saver takes it, and only to copy), so one    *)
(* step here is one bytecode-atomic access of the dictionary: a membership *)
(* test, a scan, a deletion, an insertion.  An entry is abstracted to the  *)
(* time at which it expires; Absent stands for a missing key.              *)
(***************************************************************************)
EXTENDS Integers, FiniteSets

CONSTANTS
    Key,        \* cache keys
    Thread,     \* the threads that call the cache
    Saver,      \* saves that can be running at the same time
    TTL,        \* times-to-live the callers pass
    MaxSize,    \* CacheStore.max_size
    MaxClock    \* bound of the model: the clock stops here

ASSUME KeysFinite    == IsFiniteSet(Key) /\ Key # {}
ASSUME ThreadsFinite == IsFiniteSet(Thread)
ASSUME TTLsPositive  == TTL \subseteq Nat \ {0} /\ TTL # {}
ASSUME MaxSizePos    == MaxSize \in Nat \ {0}
ASSUME MaxClockNat   == MaxClock \in Nat

VARIABLES
    store,      \* self._store: the expiry time of each key, or Absent
    clock,      \* time.time()
    pc,         \* the step each thread is at
    key, ttl,   \* the arguments of the call each thread is in
    todo,       \* keys the thread decided to remove
    result,     \* how the thread's last call ended
    enabled,    \* self.enable_disk
    timer,      \* a save timer is armed
    saver, copy,\* the running saves and the dictionary each one copied
    disk,       \* the cache file
    tracked,    \* history: keys inserted since the disk was enabled, but for
                \* those whose save failed
    loaded      \* history: entries the load added to the memory

calls == <<pc, key, ttl, todo, result>>
saves == <<timer, saver, copy>>
vars  == <<store, clock, calls, enabled, saves, disk, tracked, loaded>>

Absent == -1
Entry == Nat \cup {Absent}
Dictionary == [Key -> Entry]
Empty == [k \in Key |-> Absent]

Held(dict) == {k \in Key : dict[k] # Absent}
Size == Cardinality(Held(store))

\* The file: "ok" with its content, or one that json.load rejects (a file that
\* was never written is the empty dictionary to its reader).
File == [state : {"ok", "torn"}, data : Dictionary]

SetSteps == {"evict", "drop", "enforce", "victim", "insert"}
GetSteps == {"read", "expire"}
Steps == {"idle", "del", "schedule"} \cup SetSteps \cup GetSteps
Results == {"ok", "get_error", "set_error", "delete_error"}

TypeOK ==
    /\ store \in Dictionary
    /\ clock \in Nat
    /\ pc \in [Thread -> Steps]
    /\ key \in [Thread -> Key]
    /\ ttl \in [Thread -> TTL]
    /\ todo \in [Thread -> SUBSET Key]
    /\ result \in [Thread -> Results]
    /\ enabled \in BOOLEAN
    /\ timer \in BOOLEAN
    /\ saver \in [Saver -> {"idle", "fired", "copied", "open"}]
    /\ copy \in [Saver -> Dictionary]
    /\ disk \in File
    /\ tracked \in SUBSET Key
    /\ loaded \in Nat

\* A thread outside a call keeps no argument.
AnyKey == CHOOSE k \in Key : TRUE
AnyTTL == CHOOSE d \in TTL : TRUE

Init ==
    /\ store = Empty
    /\ clock = 0
    /\ pc = [t \in Thread |-> "idle"]
    /\ key = [t \in Thread |-> AnyKey]
    /\ ttl = [t \in Thread |-> AnyTTL]
    /\ todo = [t \in Thread |-> {}]
    /\ result = [t \in Thread |-> "ok"]
    /\ enabled = FALSE
    /\ timer = FALSE
    /\ saver = [s \in Saver |-> "idle"]
    /\ copy = [s \in Saver |-> Empty]
    /\ disk = [state |-> "ok", data |-> Empty]
    /\ tracked = {}
    /\ loaded = 0

-----------------------------------------------------------------------------
Expired(e) == e # Absent /\ clock > e

\* min(..., key=expires_at); the dictionary's order breaks a tie
Oldest == {k \in Held(store) : \A o \in Held(store) : store[k] <= store[o]}

Mutating(t) ==
    \/ pc[t] = "drop" /\ todo[t] # {}
    \/ pc[t] \in {"victim", "insert", "expire", "del"}

Goto(t, step) == pc' = [pc EXCEPT ![t] = step]

\* The call returns, or raises when r is an error.
Return(t, r) ==
    /\ Goto(t, "idle")
    /\ key' = [key EXCEPT ![t] = AnyKey]
    /\ ttl' = [ttl EXCEPT ![t] = AnyTTL]
    /\ todo' = [todo EXCEPT ![t] = {}]
    /\ result' = [result EXCEPT ![t] = r]

\* The call goes on to another step, with `keys` to remove.
Continue(t, step, keys) ==
    /\ Goto(t, step)
    /\ todo' = [todo EXCEPT ![t] = keys]
    /\ UNCHANGED <<key, ttl, result>>

Remove(k) == store' = [store EXCEPT ![k] = Absent]

\* `del self._store[k]`: KeyError when another thread removed k first
DelItem(t, k, step, keys, error) ==
    \/ /\ store[k] # Absent
       /\ Remove(k)
       /\ Continue(t, step, keys)
    \/ /\ store[k] = Absent
       /\ Return(t, error)
       /\ UNCHANGED store

outside == <<clock, enabled, saves, disk, loaded>>

-----------------------------------------------------------------------------
\* set(key, value, ttl)
SetCall(t, k, d) ==
    /\ pc[t] = "idle"
    /\ Goto(t, "evict")
    /\ key' = [key EXCEPT ![t] = k]
    /\ ttl' = [ttl EXCEPT ![t] = d]
    /\ UNCHANGED <<store, todo, result, tracked, outside>>

\* _evict_expired: the scan, then one deletion at a time
SetEvictScan(t) ==
    /\ pc[t] = "evict"
    /\ Continue(t, "drop", {k \in Key : Expired(store[k])})
    /\ UNCHANGED <<store, tracked, outside>>

SetEvictDrop(t) ==
    /\ pc[t] = "drop"
    /\ \/ \E k \in todo[t] : DelItem(t, k, "drop", todo[t] \ {k}, "set_error")
       \/ todo[t] = {} /\ Continue(t, "enforce", {}) /\ UNCHANGED store
    /\ UNCHANGED <<tracked, outside>>

\* variant: the limit is off by one
SetEnforceScanLate(t) ==
    /\ pc[t] = "enforce"
    /\ \/ Size > MaxSize /\ \E k \in Oldest : Continue(t, "victim", {k})
       \/ Size <= MaxSize /\ Continue(t, "insert", {})
    /\ UNCHANGED <<store, tracked, outside>>

\* _enforce_size: at the limit, the entry that expires first goes
SetEnforceScan(t) ==
    /\ pc[t] = "enforce"
    /\ \/ Size >= MaxSize /\ \E k \in Oldest : Continue(t, "victim", {k})
       \/ Size < MaxSize /\ Continue(t, "insert", {})
    /\ UNCHANGED <<store, tracked, outside>>

SetEnforceDrop(t) ==
    /\ pc[t] = "victim"
    /\ \E k \in todo[t] : DelItem(t, k, "insert", {}, "set_error")
    /\ UNCHANGED <<tracked, outside>>

\* Either scan raises RuntimeError or KeyError when the dictionary changes
\* under it, which another thread inside a mutating step can do.
SetScanRaises(t) ==
    /\ pc[t] \in {"evict", "enforce"}
    /\ \E u \in Thread \ {t} : Mutating(u)
    /\ Return(t, "set_error")
    /\ UNCHANGED <<store, tracked, outside>>

SetInsert(t) ==
    /\ pc[t] = "insert"
    /\ store' = [store EXCEPT ![key[t]] = clock + ttl[t]]
    /\ tracked' = IF enabled THEN tracked \cup {key[t]} ELSE tracked
    /\ Continue(t, "schedule", {})
    /\ UNCHANGED outside

\* variant: no timer is armed while a save runs
ScheduleUnlessSaving(t) ==
    /\ pc[t] = "schedule"
    /\ timer' = (timer \/ (enabled /\ \A s \in Saver : saver[s] = "idle"))
    /\ Return(t, "ok")
    /\ UNCHANGED <<store, clock, enabled, saver, copy, disk, tracked, loaded>>

\* `if self.enable_disk: self._save_to_disk()`: the timer is cancelled and
\* armed again; cancelling does not stop a save that has already begun.
Schedule(t) ==
    /\ pc[t] = "schedule"
    /\ timer' = (timer \/ enabled)
    /\ Return(t, "ok")
    /\ UNCHANGED <<store, clock, enabled, saver, copy, disk, tracked, loaded>>

\* get(key, ignore_ttl)
GetCall(t, k) ==
    /\ pc[t] = "idle"
    /\ \/ /\ store[k] = Absent
          /\ Return(t, "ok")
       \/ /\ store[k] # Absent
          /\ key' = [key EXCEPT ![t] = k]
          /\ Goto(t, "read")
          /\ UNCHANGED <<ttl, todo, result>>
    /\ UNCHANGED <<store, tracked, outside>>

GetRead(t, ignore_ttl) ==
    LET entry == store[key[t]] IN
    /\ pc[t] = "read"
    /\ \/ entry = Absent /\ Return(t, "get_error")
       \/ /\ entry # Absent
          /\ ~ignore_ttl /\ Expired(entry)
          /\ Continue(t, "expire", {})
       \/ /\ entry # Absent
          /\ ignore_ttl \/ ~Expired(entry)
          /\ Return(t, "ok")
    /\ UNCHANGED <<store, tracked, outside>>

GetExpire(t) ==
    /\ pc[t] = "expire"
    /\ \/ store[key[t]] = Absent /\ Return(t, "get_error")
       \/ store[key[t]] # Absent /\ Return(t, "ok")
    /\ Remove(key[t])
    /\ UNCHANGED <<tracked, outside>>

\* delete(key): the save is scheduled whether or not the key was there
DeleteCall(t, k) ==
    /\ pc[t] = "idle"
    /\ key' = [key EXCEPT ![t] = k]
    /\ Goto(t, IF store[k] = Absent THEN "schedule" ELSE "del")
    /\ UNCHANGED <<store, ttl, todo, result, tracked, outside>>

DeleteDrop(t) ==
    /\ pc[t] = "del"
    /\ DelItem(t, key[t], "schedule", {}, "delete_error")
    /\ UNCHANGED <<tracked, outside>>

\* clear()
ClearCall(t) ==
    /\ pc[t] = "idle"
    /\ store' = Empty
    /\ Goto(t, "schedule")
    /\ UNCHANGED <<key, ttl, todo, result, tracked, outside>>

\* CacheStore(enable_disk=True) after the first construction: the flag is
\* raised and the file is read into the memory, over what is there.
EnableDisk(t) ==
    LET fresh == {k \in Key : disk.data[k] > clock}
        read  == IF disk.state = "ok" THEN fresh ELSE {}
    IN
    /\ pc[t] = "idle"
    /\ ~enabled
    /\ enabled' = TRUE
    /\ store' = [k \in Key |-> IF k \in read THEN disk.data[k] ELSE store[k]]
    /\ loaded' = Cardinality(read \ Held(store))
    /\ UNCHANGED <<clock, calls, saves, disk, tracked>>

-----------------------------------------------------------------------------
\* threading.Timer: the armed timer becomes a save of its own
TimerFires(s) ==
    /\ timer /\ saver[s] = "idle"
    /\ timer' = FALSE
    /\ saver' = [saver EXCEPT ![s] = "fired"]
    /\ UNCHANGED <<store, clock, calls, enabled, copy, disk, tracked, loaded>>

\* _save_to_disk_immediate: copy, open("w"), dump and close
SaverCopy(s) ==
    /\ saver[s] = "fired"
    /\ saver' = [saver EXCEPT ![s] = "copied"]
    /\ copy' = [copy EXCEPT ![s] = store]
    /\ UNCHANGED <<store, clock, calls, enabled, timer, disk, tracked, loaded>>

SaverOpen(s) ==
    /\ saver[s] = "copied"
    /\ saver' = [saver EXCEPT ![s] = "open"]
    /\ disk' = [disk EXCEPT !.state = "torn"]
    /\ UNCHANGED <<store, clock, calls, enabled, timer, copy, tracked, loaded>>

\* Two files open at once can leave a mixture of the two texts.
SaverWrite(s) ==
    LET alone == \A o \in Saver \ {s} : saver[o] # "open" IN
    /\ saver[s] = "open"
    /\ saver' = [saver EXCEPT ![s] = "idle"]
    /\ \E state \in (IF alone THEN {"ok"} ELSE {"ok", "torn"}) :
          disk' = [state |-> state, data |-> copy[s]]
    /\ copy' = [copy EXCEPT ![s] = Empty]
    /\ UNCHANGED <<store, clock, calls, enabled, timer, tracked, loaded>>

\* What the file gives of k is what the memory holds.
OnDisk(k) == disk.state = "ok" /\ disk.data[k] = store[k]

\* Creating the directory, open or dump raises; the error is logged, and what
\* was opened stays truncated.  Nothing arms another save for what this one had.
SaverFails(s) ==
    /\ saver[s] \in {"copied", "open"}
    /\ saver' = [saver EXCEPT ![s] = "idle"]
    /\ copy' = [copy EXCEPT ![s] = Empty]
    /\ tracked' = tracked \ {k \in Key : copy[s][k] = store[k] /\ ~OnDisk(k)}
    /\ UNCHANGED <<store, clock, calls, enabled, timer, disk, loaded>>

-----------------------------------------------------------------------------
Tick ==
    /\ clock < MaxClock
    /\ clock' = clock + 1
    /\ UNCHANGED <<store, calls, enabled, saves, disk, tracked, loaded>>

\* The process ends at any step (timers and savers are daemon threads) and a
\* new one starts with what is on the disk.
Restart ==
    /\ store' = Empty
    /\ pc' = [t \in Thread |-> "idle"]
    /\ key' = [t \in Thread |-> AnyKey]
    /\ ttl' = [t \in Thread |-> AnyTTL]
    /\ todo' = [t \in Thread |-> {}]
    /\ result' = [t \in Thread |-> "ok"]
    /\ enabled' = FALSE
    /\ timer' = FALSE
    /\ saver' = [s \in Saver |-> "idle"]
    /\ copy' = [s \in Saver |-> Empty]
    /\ tracked' = {}
    /\ loaded' = 0
    /\ UNCHANGED <<clock, disk>>

\* The steps a thread is sure to take once it is inside a call
Proceed(t) ==
    \/ SetEvictScan(t) \/ SetEvictDrop(t)
    \/ SetEnforceScan(t) \/ SetEnforceDrop(t)
    \/ SetScanRaises(t)
    \/ SetInsert(t)
    \/ Schedule(t)
    \/ \E ignore_ttl \in BOOLEAN : GetRead(t, ignore_ttl)
    \/ GetExpire(t)
    \/ DeleteDrop(t)

Call(t) ==
    \/ \E k \in Key : GetCall(t, k) \/ DeleteCall(t, k)
    \/ \E k \in Key, d \in TTL : SetCall(t, k, d)
    \/ ClearCall(t)
    \/ EnableDisk(t)

Save(s) == TimerFires(s) \/ SaverCopy(s) \/ SaverOpen(s) \/ SaverWrite(s) \/ SaverFails(s)

Next ==
    \/ \E t \in Thread : Call(t) \/ Proceed(t)
    \/ \E s \in Saver : Save(s)
    \/ Tick
    \/ Restart

Spec == Init /\ [][Next]_vars

-----------------------------------------------------------------------------
(* Properties *)

\* Threads that passed _enforce_size and have not inserted yet
Pending == {t \in Thread : pc[t] = "insert"}

\* The memory holds at most max_size entries, plus one for every other thread
\* that went through _enforce_size at the same time, plus what the load from
\* the disk put on top: set() (cache.py:129-134) never gives back more.
SizeBound ==
    Size + Cardinality(Pending)
        <= MaxSize + (Cardinality(Thread) - 1) + loaded

SaveComing(k) ==
    \/ timer
    \/ \E t \in Thread : pc[t] = "schedule"
    \/ \E s \in Saver : \/ saver[s] = "fired"
                        \/ /\ saver[s] \in {"copied", "open"}
                           /\ copy[s][k] = store[k]

\* An entry set while the disk is enabled is on the disk or a save that tries
\* to write it is armed, due or running: cancelling the timer (cache.py:103-109)
\* never drops the only save that knows of a change.  Only an error of the save
\* itself (cache.py:93-94) loses entries, those that it had copied; what was set
\* after its copy is still to be saved.
NoLostSave ==
    \A k \in tracked : store[k] # Absent => OnDisk(k) \/ SaveComing(k)

=============================================================================

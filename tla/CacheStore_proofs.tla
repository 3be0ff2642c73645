-------------------------- MODULE CacheStore_proofs --------------------------
(***************************************************************************)
(* For every number of keys, threads and saves: the cache's state is well  *)
(* typed and its size obeys SizeBound.  The induction for SizeBound counts *)
(* the threads about to insert together with the entries already held, so  *)
(* that the insertion itself keeps the sum.                                *)
(***************************************************************************)
EXTENDS CacheStore, FiniteSetTheorems, TLAPS

\* What a deletion does to the state's types
LEMMA DelItemType ==
    ASSUME TypeOK, NEW t \in Thread, NEW k \in Key,
           NEW step \in Steps, NEW keys \in SUBSET Key, NEW error \in Results,
           DelItem(t, k, step, keys, error)
    PROVE  /\ store' \in Dictionary
           /\ pc' \in [Thread -> Steps] /\ key' \in [Thread -> Key]
           /\ ttl' \in [Thread -> TTL] /\ todo' \in [Thread -> SUBSET Key]
           /\ result' \in [Thread -> Results]
<1>1. AnyKey \in Key /\ AnyTTL \in TTL
    BY KeysFinite, TTLsPositive DEF AnyKey, AnyTTL
<1>2. CASE Remove(k) /\ Continue(t, step, keys)
    BY <1>2 DEF TypeOK, Remove, Continue, Goto, Dictionary, Entry
<1>3. CASE Return(t, error) /\ UNCHANGED store
    BY <1>1, <1>3 DEF TypeOK, Return, Goto, Steps
<1> QED BY <1>2, <1>3 DEF DelItem

\* A store that has just been made has its types.
LEMMA TypeInit == Init => TypeOK
<1> SUFFICES ASSUME Init PROVE TypeOK
    OBVIOUS
<1>1. AnyKey \in Key /\ AnyTTL \in TTL
    BY KeysFinite, TTLsPositive DEF AnyKey, AnyTTL
<1>2. Empty \in Dictionary
    BY DEF Empty, Dictionary, Entry
<1>3. [state |-> "ok", data |-> Empty] \in File
    BY <1>2 DEF File
<1>4. "idle" \in Steps /\ "ok" \in Results
    BY DEF Steps, Results
<1>5. store \in Dictionary /\ copy \in [Saver -> Dictionary] /\ disk \in File
    BY <1>2, <1>3 DEF Init
<1>6. /\ pc \in [Thread -> Steps] /\ result \in [Thread -> Results]
      /\ key \in [Thread -> Key] /\ ttl \in [Thread -> TTL]
      /\ todo \in [Thread -> SUBSET Key]
    BY <1>1, <1>4 DEF Init
<1> QED BY <1>5, <1>6 DEF Init, TypeOK

\* One step per action of Next
LEMMA TypeStep == TypeOK /\ [Next]_vars => TypeOK'
<1> SUFFICES ASSUME TypeOK, [Next]_vars PROVE TypeOK'
    OBVIOUS
<1> USE DEF TypeOK, outside, saves, calls
<1>0. AnyKey \in Key /\ AnyTTL \in TTL
    BY KeysFinite, TTLsPositive DEF AnyKey, AnyTTL
<1>a. /\ \A t \in Thread : store[key[t]] \in Entry
      /\ \A k \in Key : Held(store) \in SUBSET Key /\ store[k] \in Entry
    BY DEF Dictionary, Held
<1>1. ASSUME NEW t \in Thread, NEW k \in Key, NEW d \in TTL, SetCall(t, k, d)
      PROVE  TypeOK'
    BY <1>1 DEF SetCall, Goto, Steps, SetSteps
<1>2. ASSUME NEW t \in Thread, SetEvictScan(t) PROVE TypeOK'
    BY <1>2 DEF SetEvictScan, Continue, Goto, Steps, SetSteps
<1>3. ASSUME NEW t \in Thread, SetEvictDrop(t) PROVE TypeOK'
  <2>1. CASE \E k \in todo[t] :
                DelItem(t, k, "drop", todo[t] \ {k}, "set_error")
    <3> PICK k \in todo[t] : DelItem(t, k, "drop", todo[t] \ {k}, "set_error")
        BY <2>1
    <3>1. /\ k \in Key /\ todo[t] \ {k} \in SUBSET Key
          /\ "drop" \in Steps /\ "set_error" \in Results
        BY DEF Steps, SetSteps, Results
    <3> QED BY <1>3, <3>1, DelItemType DEF SetEvictDrop
  <2>2. CASE todo[t] = {} /\ Continue(t, "enforce", {}) /\ UNCHANGED store
    BY <1>3, <2>2 DEF SetEvictDrop, Continue, Goto, Steps, SetSteps
  <2> QED BY <1>3, <2>1, <2>2 DEF SetEvictDrop
<1>4. ASSUME NEW t \in Thread, SetEnforceScan(t) PROVE TypeOK'
  <2>1. Oldest \in SUBSET Key
    BY DEF Oldest, Held
  <2> QED BY <1>4, <2>1 DEF SetEnforceScan, Continue, Goto, Steps, SetSteps
<1>5. ASSUME NEW t \in Thread, SetEnforceDrop(t) PROVE TypeOK'
  <2> PICK k \in todo[t] : DelItem(t, k, "insert", {}, "set_error")
      BY <1>5 DEF SetEnforceDrop
  <2>1. k \in Key /\ "insert" \in Steps /\ "set_error" \in Results
      BY DEF Steps, SetSteps, Results
  <2> QED BY <1>5, <2>1, DelItemType DEF SetEnforceDrop
<1>6. ASSUME NEW t \in Thread, SetScanRaises(t) PROVE TypeOK'
    BY <1>6, <1>0 DEF SetScanRaises, Return, Goto, Steps, Results
<1>7. ASSUME NEW t \in Thread, SetInsert(t) PROVE TypeOK'
  <2>0. clock \in Nat /\ ttl[t] \in TTL
    OBVIOUS
  <2>a. \A c \in Nat, d \in TTL : c + d \in Nat
    BY ONLY TTLsPositive
  <2>1. clock + ttl[t] \in Entry
    BY <2>0, <2>a DEF Entry
  <2>2. store' \in Dictionary
    BY <1>7, <2>1 DEF SetInsert, Dictionary
  <2> QED BY <1>7, <2>2 DEF SetInsert, Continue, Goto, Steps
<1>8. ASSUME NEW t \in Thread, Schedule(t) PROVE TypeOK'
    BY <1>8, <1>0 DEF Schedule, Return, Goto, Steps, Results
<1>9. ASSUME NEW t \in Thread, NEW k \in Key, GetCall(t, k) PROVE TypeOK'
    BY <1>9, <1>0 DEF GetCall, Return, Goto, Steps, GetSteps, Results
<1>10. ASSUME NEW t \in Thread, NEW ignore_ttl \in BOOLEAN,
              GetRead(t, ignore_ttl)
       PROVE  TypeOK'
    BY <1>10, <1>0
       DEF GetRead, Return, Continue, Goto, Steps, GetSteps, Results
<1>11. ASSUME NEW t \in Thread, GetExpire(t) PROVE TypeOK'
  <2>1. store' \in Dictionary
    BY <1>11 DEF GetExpire, Remove, Dictionary, Entry
  <2> QED BY <1>11, <1>0, <2>1 DEF GetExpire, Return, Goto, Steps, Results
<1>12. ASSUME NEW t \in Thread, NEW k \in Key, DeleteCall(t, k) PROVE TypeOK'
    BY <1>12 DEF DeleteCall, Goto, Steps
<1>13. ASSUME NEW t \in Thread, DeleteDrop(t) PROVE TypeOK'
  <2>1. "schedule" \in Steps /\ "delete_error" \in Results
      BY DEF Steps, Results
  <2> QED BY <1>13, <2>1, DelItemType DEF DeleteDrop
<1>14. ASSUME NEW t \in Thread, ClearCall(t) PROVE TypeOK'
    BY <1>14 DEF ClearCall, Goto, Steps, Empty, Dictionary, Entry
<1>15. ASSUME NEW t \in Thread, EnableDisk(t) PROVE TypeOK'
  <2> DEFINE fresh == {k \in Key : disk.data[k] > clock}
             read == IF disk.state = "ok" THEN fresh ELSE {}
  <2>1. IsFiniteSet(read \ Held(store))
    BY KeysFinite, FS_Subset
  <2>2. loaded' \in Nat
    BY <1>15, <2>1, FS_CardinalityType DEF EnableDisk
  <2>3. store' \in Dictionary
    BY <1>15 DEF EnableDisk, Dictionary, File
  <2> QED BY <1>15, <2>2, <2>3 DEF EnableDisk
<1>16. ASSUME NEW s \in Saver, Save(s) PROVE TypeOK'
  <2>1. Empty \in Dictionary
    BY DEF Empty, Dictionary, Entry
  <2>2. CASE TimerFires(s)
    BY <2>2 DEF TimerFires
  <2>3. CASE SaverCopy(s)
    BY <2>3 DEF SaverCopy
  <2>4. CASE SaverOpen(s)
    BY <2>4 DEF SaverOpen, File
  <2>5. CASE SaverWrite(s)
    BY <2>1, <2>5 DEF SaverWrite, File
  <2>6. CASE SaverFails(s)
    BY <2>1, <2>6 DEF SaverFails
  <2> QED BY <1>16, <2>2, <2>3, <2>4, <2>5, <2>6 DEF Save
<1>17. CASE Tick
    BY <1>17 DEF Tick
<1>18. CASE Restart
    BY <1>18, <1>0 DEF Restart, Empty, Dictionary, Entry, Steps, Results
<1>19. CASE UNCHANGED vars
    BY <1>19 DEF vars
<1> QED
    BY <1>1, <1>2, <1>3, <1>4, <1>5, <1>6, <1>7, <1>8, <1>9, <1>10, <1>11,
       <1>12, <1>13, <1>14, <1>15, <1>16, <1>17, <1>18, <1>19
       DEF Next, Call, Proceed

\* The cache's variables keep their types: memory and file map every key to an
\* expiry time or to Absent, whatever the threads and the saves interleave.
THEOREM CacheTypeCorrect == Spec => []TypeOK
<1> QED BY TypeInit, TypeStep, PTL DEF Spec

-----------------------------------------------------------------------------
\* The entries of a dictionary are finitely many.
LEMMA HeldFinite ==
    ASSUME NEW d
    PROVE  IsFiniteSet(Held(d)) /\ Cardinality(Held(d)) \in Nat
<1>1. IsFiniteSet(Held(d))
    BY KeysFinite, FS_Subset DEF Held
<1> QED BY <1>1, FS_CardinalityType

\* Storing one entry adds at most one to the size, removing a present one takes
\* one away, and removing an absent one changes nothing.
LEMMA HeldPut ==
    ASSUME NEW d \in Dictionary, NEW k \in Key, NEW e \in Entry
    PROVE  Cardinality(Held([d EXCEPT ![k] = e])) <= Cardinality(Held(d)) + 1
<1>1. Held([d EXCEPT ![k] = e]) \subseteq Held(d) \cup {k}
    BY DEF Held, Dictionary
<1>a. IsFiniteSet(Held(d)) /\ Cardinality(Held(d)) \in Nat
    BY HeldFinite
<1>b. /\ IsFiniteSet(Held(d) \cup {k})
      /\ Cardinality(Held(d) \cup {k}) =
            IF k \in Held(d) THEN Cardinality(Held(d))
                             ELSE Cardinality(Held(d)) + 1
    BY <1>a, FS_AddElement
<1>2. /\ IsFiniteSet(Held(d) \cup {k})
      /\ Cardinality(Held(d) \cup {k}) <= Cardinality(Held(d)) + 1
    BY <1>a, <1>b
<1>3. Cardinality(Held([d EXCEPT ![k] = e]))
          <= Cardinality(Held(d) \cup {k})
    BY <1>1, <1>2, FS_Subset
<1> QED BY <1>2, <1>3, HeldFinite, FS_CardinalityType

\* Taking a key out of the dictionary leaves one entry fewer, if it was there.
LEMMA HeldRemove ==
    ASSUME NEW d \in Dictionary, NEW k \in Key
    PROVE  Cardinality(Held([d EXCEPT ![k] = Absent])) =
               IF d[k] # Absent THEN Cardinality(Held(d)) - 1
                                ELSE Cardinality(Held(d))
<1>1. Held([d EXCEPT ![k] = Absent]) = Held(d) \ {k}
    BY DEF Held, Dictionary
<1>2. d[k] # Absent <=> k \in Held(d)
    BY DEF Held
<1>3. Cardinality(Held(d) \ {k}) =
          IF k \in Held(d) THEN Cardinality(Held(d)) - 1
                           ELSE Cardinality(Held(d))
    BY HeldFinite, FS_RemoveElement
<1> QED BY <1>1, <1>2, <1>3

\* How one thread's move changes the number of pending insertions
LEMMA PendingMove ==
    ASSUME TypeOK, NEW t \in Thread, NEW step, Goto(t, step)
    PROVE  /\ Cardinality(Pending) \in Nat /\ Cardinality(Pending') \in Nat
           /\ Cardinality(Pending') <= Cardinality(Thread)
           /\ step # "insert" => Cardinality(Pending') <= Cardinality(Pending)
           /\ step # "insert" /\ pc[t] = "insert"
                => Cardinality(Pending') = Cardinality(Pending) - 1
           /\ Cardinality(Pending') <= Cardinality(Pending) + 1
<1>1. /\ IsFiniteSet(Pending) /\ IsFiniteSet(Pending')
      /\ Cardinality(Pending') <= Cardinality(Thread)
    BY ThreadsFinite, FS_Subset DEF Pending
<1>2. Cardinality(Pending) \in Nat /\ Cardinality(Pending') \in Nat
    BY <1>1, FS_CardinalityType
<1>3. CASE step = "insert"
  <2>1. Pending' = Pending \cup {t}
    BY <1>3 DEF Goto, Pending, TypeOK
  <2> QED BY <1>1, <1>2, <1>3, <2>1, FS_AddElement
<1>4. CASE step # "insert"
  <2>1. Pending' = Pending \ {t}
    BY <1>4 DEF Goto, Pending, TypeOK
  <2>2. t \in Pending <=> pc[t] = "insert"
    BY DEF Pending
  <2> QED BY <1>1, <1>2, <1>4, <2>1, <2>2, FS_RemoveElement
<1> QED BY <1>3, <1>4

\* Both counts are naturals, and so is everything SizeBound adds up.
LEMMA Counts ==
    ASSUME TypeOK
    PROVE  /\ Size \in Nat /\ Cardinality(Pending) \in Nat
           /\ Cardinality(Thread) \in Nat /\ loaded \in Nat /\ MaxSize \in Nat
<1>1. IsFiniteSet(Pending)
    BY ThreadsFinite, FS_Subset DEF Pending
<1> QED BY <1>1, HeldFinite, ThreadsFinite, FS_CardinalityType, MaxSizePos
           DEF Size, TypeOK

\* A step of one thread that goes anywhere but to the insertion keeps the bound
\* when it stores nothing new.
LEMMA SizeKept ==
    ASSUME TypeOK, SizeBound, NEW t \in Thread, NEW step, Goto(t, step),
           step # "insert", UNCHANGED loaded,
           \/ UNCHANGED store
           \/ store' = Empty
           \/ \E k \in Key : Remove(k)
    PROVE  SizeBound'
<1>1. Size' <= Size /\ Size' \in Nat
  <2>1. CASE UNCHANGED store
    BY <2>1, Counts DEF Size, Held
  <2>2. CASE store' = Empty
    <3>1. Held(store') = {}
      BY <2>2 DEF Held, Empty
    <3> QED BY <3>1, FS_EmptySet, Counts DEF Size
  <2>3. CASE \E k \in Key : Remove(k)
    <3> PICK k \in Key : Remove(k)
      BY <2>3
    <3>1. store \in Dictionary /\ Absent \in Entry
      BY DEF TypeOK, Entry
    <3>2. Size' = IF store[k] # Absent THEN Size - 1 ELSE Size
      BY <3>1, HeldRemove DEF Remove, Size
    <3>3. Size \in Nat /\ Size' \in Nat
      BY HeldFinite DEF Size
    <3> QED BY <3>2, <3>3
  <2> QED BY <2>1, <2>2, <2>3
<1>2. Cardinality(Pending') <= Cardinality(Pending) /\ Cardinality(Pending') \in Nat
    BY PendingMove
<1> QED BY <1>1, <1>2, Counts DEF SizeBound

\* A deletion inside a call frees a place before the thread takes it.
LEMMA DelItemSize ==
    ASSUME TypeOK, SizeBound, NEW t \in Thread, NEW k \in Key,
           NEW step, NEW keys, NEW error,
           DelItem(t, k, step, keys, error), UNCHANGED loaded
    PROVE  SizeBound'
<1>1. CASE Return(t, error) /\ UNCHANGED store
    BY <1>1, SizeKept DEF Return
<1>2. CASE store[k] # Absent /\ Remove(k) /\ Continue(t, step, keys)
  <2>1. store \in Dictionary /\ Absent \in Entry
    BY DEF TypeOK, Entry
  <2>2. Size' = Size - 1 /\ Size' \in Nat
    BY <1>2, <2>1, HeldRemove, HeldFinite DEF Remove, Size
  <2>3. /\ Cardinality(Pending') <= Cardinality(Pending) + 1
        /\ Cardinality(Pending') \in Nat
    BY <1>2, PendingMove DEF Continue
  <2> QED BY <2>2, <2>3, Counts DEF SizeBound
<1> QED BY <1>1, <1>2 DEF DelItem

\* The size of two disjoint finite sets together is the sum of their sizes.
LEMMA DisjointUnion ==
    ASSUME NEW S, NEW T, IsFiniteSet(S), IsFiniteSet(T), S \cap T = {}
    PROVE  /\ IsFiniteSet(S \cup T)
           /\ Cardinality(S \cup T) = Cardinality(S) + Cardinality(T)
<1>1. Cardinality(S) \in Nat /\ Cardinality(T) \in Nat
    BY FS_CardinalityType
<1>2. Cardinality(S \cap T) = 0
    BY FS_EmptySet
<1>3. /\ IsFiniteSet(S \cup T)
      /\ Cardinality(S \cup T) =
            Cardinality(S) + Cardinality(T) - Cardinality(S \cap T)
    BY FS_Union
<1> QED BY <1>1, <1>2, <1>3

\* The file is read once in the life of a process.
LoadedOnce == ~enabled => loaded = 0

\* The inductive invariant
IInv == TypeOK /\ SizeBound /\ LoadedOnce

\* The new store, with what it may load, is within its size.
LEMMA SizeInit == Init => SizeBound
<1> SUFFICES ASSUME Init PROVE SizeBound
    OBVIOUS
<1>1. Held(store) = {} /\ Pending = {} /\ loaded = 0
    BY DEF Init, Held, Empty, Pending
<1>2. Cardinality(Thread) \in Nat
    BY ThreadsFinite, FS_CardinalityType
<1> QED BY <1>1, <1>2, FS_EmptySet, MaxSizePos DEF SizeBound, Size

\* One step per action of Next
LEMMA SizeStep == IInv /\ [Next]_vars => SizeBound'
<1> SUFFICES ASSUME TypeOK, SizeBound, LoadedOnce, [Next]_vars
             PROVE  SizeBound'
    BY DEF IInv
<1> USE DEF outside, saves, calls
<1>1. ASSUME NEW t \in Thread, NEW k \in Key, NEW d \in TTL, SetCall(t, k, d)
      PROVE  SizeBound'
    BY <1>1, SizeKept DEF SetCall
<1>2. ASSUME NEW t \in Thread, SetEvictScan(t) PROVE SizeBound'
    BY <1>2, SizeKept DEF SetEvictScan, Continue
<1>3. ASSUME NEW t \in Thread, SetEvictDrop(t) PROVE SizeBound'
  <2>1. todo[t] \in SUBSET Key /\ UNCHANGED loaded
    BY <1>3 DEF TypeOK, SetEvictDrop
  <2>2. CASE \E k \in todo[t] :
                DelItem(t, k, "drop", todo[t] \ {k}, "set_error")
    BY <2>1, <2>2, DelItemSize
  <2>3. CASE Continue(t, "enforce", {}) /\ UNCHANGED store
    BY <2>1, <2>3, SizeKept DEF Continue
  <2> QED BY <1>3, <2>2, <2>3 DEF SetEvictDrop
<1>4. ASSUME NEW t \in Thread, SetEnforceScan(t) PROVE SizeBound'
  <2>1. CASE \E k \in Oldest : Continue(t, "victim", {k})
    BY <1>4, <2>1, SizeKept DEF SetEnforceScan, Continue
  <2>2. CASE Size < MaxSize /\ Continue(t, "insert", {})
    \* every thread may now be pending, but the dictionary has a free place
    <3>1. /\ Cardinality(Pending') <= Cardinality(Thread)
          /\ Cardinality(Pending') \in Nat
      BY <2>2, PendingMove DEF Continue
    <3>2. Size' = Size /\ loaded' = loaded
      BY <1>4 DEF SetEnforceScan, Size, Held
    <3> QED BY <2>2, <3>1, <3>2, Counts DEF SizeBound
  <2> QED BY <1>4, <2>1, <2>2 DEF SetEnforceScan
<1>5. ASSUME NEW t \in Thread, SetEnforceDrop(t) PROVE SizeBound'
  <2>1. todo[t] \in SUBSET Key
    BY DEF TypeOK
  <2> QED BY <1>5, <2>1, DelItemSize DEF SetEnforceDrop
<1>6. ASSUME NEW t \in Thread, SetScanRaises(t) PROVE SizeBound'
    BY <1>6, SizeKept DEF SetScanRaises, Return
<1>7. ASSUME NEW t \in Thread, SetInsert(t) PROVE SizeBound'
  <2>1. key[t] \in Key /\ clock + ttl[t] \in Entry /\ store \in Dictionary
    <3>1. clock \in Nat /\ ttl[t] \in TTL
      BY DEF TypeOK
    <3>2. \A c \in Nat, d \in TTL : c + d \in Nat
      BY ONLY TTLsPositive
    <3> QED BY <3>1, <3>2 DEF TypeOK, Entry
  <2>2. Size' <= Size + 1 /\ Size' \in Nat
    BY <1>7, <2>1, HeldPut, HeldFinite DEF SetInsert, Size
  <2>3. /\ Cardinality(Pending') = Cardinality(Pending) - 1
        /\ Cardinality(Pending') \in Nat
    BY <1>7, PendingMove DEF SetInsert, Continue
  <2>4. loaded' = loaded
    BY <1>7 DEF SetInsert
  <2> QED BY <2>2, <2>3, <2>4, Counts DEF SizeBound
<1>8. ASSUME NEW t \in Thread, Schedule(t) PROVE SizeBound'
    BY <1>8, SizeKept DEF Schedule, Return
<1>9. ASSUME NEW t \in Thread, NEW k \in Key, GetCall(t, k) PROVE SizeBound'
    BY <1>9, SizeKept DEF GetCall, Return
<1>10. ASSUME NEW t \in Thread, NEW ignore_ttl \in BOOLEAN,
              GetRead(t, ignore_ttl)
       PROVE  SizeBound'
    BY <1>10, SizeKept DEF GetRead, Return, Continue
<1>11. ASSUME NEW t \in Thread, GetExpire(t) PROVE SizeBound'
  <2>1. key[t] \in Key
    BY DEF TypeOK
  <2> QED BY <1>11, <2>1, SizeKept DEF GetExpire, Return
<1>12. ASSUME NEW t \in Thread, NEW k \in Key, DeleteCall(t, k)
       PROVE  SizeBound'
    BY <1>12, SizeKept DEF DeleteCall
<1>13. ASSUME NEW t \in Thread, DeleteDrop(t) PROVE SizeBound'
  <2>1. key[t] \in Key
    BY DEF TypeOK
  <2> QED BY <1>13, <2>1, DelItemSize DEF DeleteDrop
<1>14. ASSUME NEW t \in Thread, ClearCall(t) PROVE SizeBound'
    BY <1>14, SizeKept DEF ClearCall
<1>15. ASSUME NEW t \in Thread, EnableDisk(t) PROVE SizeBound'
  <2> DEFINE fresh == {k \in Key : disk.data[k] > clock}
             read == IF disk.state = "ok" THEN fresh ELSE {}
             new == read \ Held(store)
  <2>1. Held(store') \subseteq Held(store) \cup new
    BY <1>15 DEF EnableDisk, Held
  <2>2. IsFiniteSet(new) /\ Cardinality(new) \in Nat
    BY KeysFinite, FS_Subset, FS_CardinalityType DEF Held
  <2>3. /\ IsFiniteSet(Held(store) \cup new)
        /\ Cardinality(Held(store) \cup new) = Size + Cardinality(new)
    <3>1. Held(store) \cap new = {}
      OBVIOUS
    <3>2. IsFiniteSet(Held(store)) /\ Cardinality(Held(store)) \in Nat
      BY HeldFinite
    <3> QED BY <2>2, <3>1, <3>2, DisjointUnion DEF Size
  <2>4. Size' <= Size + loaded' /\ Size' \in Nat /\ loaded' \in Nat
    <3>1. Cardinality(Held(store')) <= Cardinality(Held(store) \cup new)
      BY <2>1, <2>3, FS_Subset
    <3>2. loaded' = Cardinality(new)
      BY <1>15 DEF EnableDisk
    <3> QED BY <2>2, <2>3, <3>1, <3>2, HeldFinite DEF Size
  <2>5. Pending' = Pending /\ loaded = 0
    BY <1>15 DEF EnableDisk, Pending, LoadedOnce
  <2> QED BY <2>4, <2>5, Counts DEF SizeBound
<1>16. ASSUME NEW s \in Saver, Save(s) PROVE SizeBound'
    BY <1>16 DEF Save, TimerFires, SaverCopy, SaverOpen, SaverWrite,
                 SaverFails, SizeBound, Size, Held, Pending
<1>17. CASE Tick
    BY <1>17 DEF Tick, SizeBound, Size, Held, Pending
<1>18. CASE Restart
  <2>1. Held(store') = {} /\ Pending' = {} /\ loaded' = 0
    BY <1>18 DEF Restart, Held, Empty, Pending
  <2>2. Size' = 0 /\ Cardinality(Pending') = 0
    BY <2>1, FS_EmptySet DEF Size
  <2> QED BY <2>1, <2>2, Counts, MaxSizePos DEF SizeBound
<1>19. CASE UNCHANGED vars
    BY <1>19 DEF vars, SizeBound, Size, Held, Pending
<1> QED
    BY <1>1, <1>2, <1>3, <1>4, <1>5, <1>6, <1>7, <1>8, <1>9, <1>10, <1>11,
       <1>12, <1>13, <1>14, <1>15, <1>16, <1>17, <1>18, <1>19
       DEF Next, Call, Proceed

\* A disk that is disabled has loaded nothing, after every step.
LEMMA LoadedStep == LoadedOnce /\ [Next]_vars => LoadedOnce'
<1> SUFFICES ASSUME LoadedOnce, [Next]_vars PROVE LoadedOnce'
    OBVIOUS
<1>1. CASE Restart
    BY <1>1 DEF Restart, LoadedOnce
<1>2. ASSUME NEW t \in Thread, EnableDisk(t) PROVE LoadedOnce'
    BY <1>2 DEF EnableDisk, LoadedOnce
<1>3. ASSUME UNCHANGED <<enabled, loaded>> PROVE LoadedOnce'
    BY <1>3 DEF LoadedOnce
<1>4. ASSUME NEW s \in Saver, Save(s) PROVE UNCHANGED <<enabled, loaded>>
    BY <1>4 DEF Save, TimerFires, SaverCopy, SaverOpen, SaverWrite, SaverFails
<1>5. ASSUME NEW t \in Thread, Call(t), ~EnableDisk(t)
      PROVE  UNCHANGED <<enabled, loaded>>
    BY <1>5 DEF Call, SetCall, GetCall, DeleteCall, ClearCall, outside
<1>6. ASSUME NEW t \in Thread, Proceed(t) PROVE UNCHANGED <<enabled, loaded>>
    BY <1>6 DEF Proceed, SetEvictScan, SetEvictDrop, SetEnforceScan,
                SetEnforceDrop, SetScanRaises, SetInsert, Schedule, GetRead,
                GetExpire, DeleteDrop, outside
<1>7. CASE Tick \/ UNCHANGED vars
    BY <1>3, <1>7 DEF Tick, vars
<1> QED BY <1>1, <1>2, <1>3, <1>4, <1>5, <1>6, <1>7 DEF Next

\* The memory never holds more than max_size entries, plus one per other
\* thread inside set(), plus what the load from the disk added (cache.py:
\* 129-134, 62-77), however the threads interleave.
THEOREM CacheSizeBounded == Spec => []SizeBound
<1>1. Init => IInv
    BY TypeInit, SizeInit DEF IInv, Init, LoadedOnce
<1>2. IInv /\ [Next]_vars => IInv'
    BY TypeStep, SizeStep, LoadedStep DEF IInv
<1>3. IInv => SizeBound
    BY DEF IInv
<1> QED BY <1>1, <1>2, <1>3, PTL DEF Spec
-----------------------------------------------------------------------------
\* A save that has not copied the memory yet is armed, or about to be.
SaveDue ==
    \/ timer
    \/ \E t \in Thread : pc[t] = "schedule"
    \/ \E s \in Saver : saver[s] = "fired"

\* An entry is in the copy of the save that runs, or on the disk if none does.
Written(k) ==
    \A s \in Saver : IF saver[s] = "idle" THEN OnDisk(k) ELSE copy[s][k] = store[k]

Covered == \A k \in tracked : store[k] # Absent => SaveDue \/ Written(k)

\* Only an enabled disk's entries are accounted for.
TrackedEnabled == ~ enabled => tracked = {}

\* A step that leaves the saves alone, stores nothing and forgets no call that
\* is about to arm the timer.
LEMMA CoveredKept ==
    ASSUME Covered, TrackedEnabled,
           UNCHANGED <<timer, saver, copy, disk, tracked, enabled>>,
           \A k \in tracked : store'[k] = store[k] \/ store'[k] = Absent,
           \A t \in Thread : pc[t] = "schedule" => pc'[t] = "schedule"
    PROVE  Covered' /\ TrackedEnabled'
<1>1. SaveDue => SaveDue'
    BY DEF SaveDue
<1>2. ASSUME NEW k \in tracked, store'[k] # Absent, Written(k) PROVE Written(k)'
    BY <1>2 DEF Written, OnDisk
<1> QED BY <1>1, <1>2 DEF Covered, TrackedEnabled

\* Every change that is not on the disk yet has a save to come, when one saver runs
\* at a time.
LEMMA CoveredNext ==
    ASSUME TypeOK, Covered, TrackedEnabled, [Next]_vars, NEW me, Saver = {me}
    PROVE  Covered' /\ TrackedEnabled'
<1> USE DEF outside, saves, calls
<1>0. tracked \subseteq Key /\ \A k \in Key : store[k] \in Entry
    BY DEF TypeOK, Dictionary
<1>1. ASSUME NEW t \in Thread, Call(t) PROVE Covered' /\ TrackedEnabled'
  <2>1. CASE \E k \in Key : GetCall(t, k)
    BY <2>1, <1>0, CoveredKept DEF GetCall, Return, Goto, TypeOK
  <2>2. CASE \E k \in Key : DeleteCall(t, k)
    BY <2>2, <1>0, CoveredKept DEF DeleteCall, Goto, TypeOK
  <2>3. CASE \E k \in Key, d \in TTL : SetCall(t, k, d)
    BY <2>3, <1>0, CoveredKept DEF SetCall, Goto, TypeOK
  <2>4. CASE ClearCall(t)
    BY <2>4, <1>0, CoveredKept DEF ClearCall, Empty, Goto, TypeOK
  <2>5. CASE EnableDisk(t)
    <3>1. tracked = {} /\ tracked' = {}
      BY <2>5 DEF EnableDisk, TrackedEnabled
    <3> QED BY <3>1 DEF Covered, TrackedEnabled
  <2> QED BY <1>1, <2>1, <2>2, <2>3, <2>4, <2>5 DEF Call
<1>2. ASSUME NEW t \in Thread, Proceed(t) PROVE Covered' /\ TrackedEnabled'
  <2>1. CASE SetInsert(t)
    <3>1. pc'[t] = "schedule"
      BY <2>1 DEF SetInsert, Continue, Goto, TypeOK
    <3>2. tracked' # tracked => enabled
      BY <2>1 DEF SetInsert
    <3> QED BY <2>1, <3>1, <3>2 DEF SetInsert, Covered, SaveDue, TrackedEnabled
  <2>2. CASE Schedule(t)
    <3>1. tracked # {} => timer'
      BY <2>2 DEF Schedule, TrackedEnabled
    <3> QED BY <2>2, <3>1 DEF Schedule, Covered, SaveDue, TrackedEnabled
  <2>3. CASE SetEvictScan(t) \/ SetEnforceScan(t) \/ SetScanRaises(t)
    BY <2>3, <1>0, CoveredKept
       DEF SetEvictScan, SetEnforceScan, SetScanRaises, Continue, Return, Goto, TypeOK
  <2>4. CASE SetEvictDrop(t) \/ SetEnforceDrop(t) \/ DeleteDrop(t)
    <3>1. /\ \A k \in Key : store'[k] = store[k] \/ store'[k] = Absent
          /\ \A u \in Thread : pc[u] = "schedule" => pc'[u] = "schedule"
      BY <2>4
         DEF SetEvictDrop, SetEnforceDrop, DeleteDrop, DelItem, Remove, Continue,
             Return, Goto, TypeOK, Dictionary
    <3> QED BY <2>4, <3>1, <1>0, CoveredKept DEF SetEvictDrop, SetEnforceDrop, DeleteDrop
  <2>5. CASE \E ignore_ttl \in BOOLEAN : GetRead(t, ignore_ttl)
    BY <2>5, <1>0, CoveredKept DEF GetRead, Continue, Return, Goto, TypeOK
  <2>6. CASE GetExpire(t)
    <3>1. /\ \A k \in Key : store'[k] = store[k] \/ store'[k] = Absent
          /\ \A u \in Thread : pc[u] = "schedule" => pc'[u] = "schedule"
      BY <2>6 DEF GetExpire, Remove, Return, Goto, TypeOK, Dictionary
    <3> QED BY <2>6, <3>1, <1>0, CoveredKept DEF GetExpire
  <2> QED BY <1>2, <2>1, <2>2, <2>3, <2>4, <2>5, <2>6 DEF Proceed
<1>3. ASSUME NEW s \in Saver, Save(s) PROVE Covered' /\ TrackedEnabled'
  <2>0. s = me /\ UNCHANGED <<store, pc, enabled>> /\ tracked' \subseteq tracked
    BY <1>3 DEF Save, TimerFires, SaverCopy, SaverOpen, SaverWrite, SaverFails
  <2>1. CASE TimerFires(s)
    BY <2>0, <2>1 DEF TimerFires, TypeOK, Covered, SaveDue, TrackedEnabled
  <2>2. CASE SaverCopy(s)
    <3>1. saver'[me] = "copied" /\ copy'[me] = store
      BY <2>0, <2>2 DEF SaverCopy, TypeOK
    <3> QED BY <2>0, <3>1 DEF Covered, Written, TrackedEnabled
  <2>3. CASE SaverOpen(s)
    <3>1. /\ saver[me] = "copied" /\ saver'[me] = "open"
          /\ copy' = copy /\ timer' = timer
      BY <2>0, <2>3 DEF SaverOpen, TypeOK
    <3>2. SaveDue => SaveDue'
      BY <2>0, <3>1 DEF SaveDue
    <3> QED BY <2>0, <3>1, <3>2 DEF Covered, Written, TrackedEnabled
  <2>4. CASE SaverWrite(s)
    <3>1. /\ saver[me] = "open" /\ saver'[me] = "idle" /\ timer' = timer
          /\ disk' = [state |-> "ok", data |-> copy[me]]
      BY <2>0, <2>4 DEF SaverWrite, TypeOK
    <3>2. SaveDue => SaveDue'
      BY <2>0, <3>1 DEF SaveDue
    <3> QED BY <2>0, <3>1, <3>2 DEF Covered, Written, OnDisk, TrackedEnabled
  <2>5. CASE SaverFails(s)
    <3>1. /\ saver[me] \in {"copied", "open"} /\ saver'[me] = "idle"
          /\ timer' = timer /\ disk' = disk
          /\ tracked' = tracked \ {k \in Key : copy[me][k] = store[k] /\ ~OnDisk(k)}
      BY <2>0, <2>5 DEF SaverFails, TypeOK
    <3>2. SaveDue => SaveDue'
      BY <2>0, <3>1 DEF SaveDue
    <3>3. ASSUME NEW k \in tracked', store'[k] # Absent, ~SaveDue PROVE Written(k)'
      <4>1. k \in Key /\ k \in tracked /\ store[k] # Absent
        BY <1>0, <2>0, <3>3
      <4>2. Written(k)
        BY <3>3, <4>1 DEF Covered
      <4>3. copy[me][k] = store[k]
        BY <3>1, <4>2 DEF Written
      <4>4. OnDisk(k)
        BY <3>1, <3>3, <4>1, <4>3
      <4>5. OnDisk(k)'
        BY <2>0, <3>1, <4>4 DEF OnDisk
      <4> QED BY <3>1, <4>5 DEF Written
    <3> QED BY <2>0, <3>2, <3>3 DEF Covered, TrackedEnabled
  <2> QED BY <1>3, <2>1, <2>2, <2>3, <2>4, <2>5 DEF Save
<1>4. CASE Tick
    BY <1>4, CoveredKept DEF Tick
<1>5. CASE Restart
    BY <1>5 DEF Restart, Covered, TrackedEnabled
<1>6. CASE UNCHANGED vars
    BY <1>6, CoveredKept DEF vars
<1> QED BY <1>1, <1>2, <1>3, <1>4, <1>5, <1>6 DEF Next

\* With saves that never overlap (each one is over within the two seconds of
\* the debounce), an entry set while the disk is enabled is on the disk or a
\* save that will write it is on its way, whatever the threads do meanwhile and
\* whichever saves fail, but for what a save that failed had copied.
THEOREM CacheNoLostSave ==
    ASSUME \E me : Saver = {me}
    PROVE  Spec => []NoLostSave
<1>1. Init => Covered /\ TrackedEnabled
    BY DEF Init, Covered, TrackedEnabled
<1>2. TypeOK /\ Covered /\ TrackedEnabled /\ [Next]_vars
          => Covered' /\ TrackedEnabled'
    BY CoveredNext
<1>3. TypeOK /\ Covered => NoLostSave
  <2> SUFFICES ASSUME TypeOK, Covered, NEW k \in tracked, store[k] # Absent
               PROVE  OnDisk(k) \/ SaveComing(k)
      BY DEF NoLostSave
  <2>1. CASE SaveDue
    BY <2>1 DEF SaveDue, SaveComing
  <2>2. CASE Written(k)
    <3>1. PICK me \in Saver : TRUE
      OBVIOUS
    <3>2. saver[me] \in {"idle", "fired", "copied", "open"}
      BY DEF TypeOK
    <3> QED BY <2>2, <3>2 DEF Written, SaveComing
  <2> QED BY <2>1, <2>2 DEF Covered
<1> QED BY <1>1, <1>2, <1>3, CacheTypeCorrect, PTL DEF Spec
=============================================================================

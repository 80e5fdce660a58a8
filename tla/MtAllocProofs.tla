--------- MODULE MtAllocProofs ----------------------------
(***************************************************************************)
(* Proofs about MtAlloc, for any number of threads, records and blocks.    *)
(***************************************************************************)
EXTENDS MtSerial, FiniteSetTheorems, TLAPS

Locked == {"alloc_locked", "dealloc_locked"}
Chained == {"dealloc_lock", "dealloc_locked"}
Holding == {"alloc_used", "dealloc", "dealloc_lock", "dealloc_locked",
            "dealloc_load", "dealloc_store", "fault"}
Outside == {"idle", "once", "init", "alloc_id"}
SinglePc == {"idle", "init", "alloc_id", "alloc", "alloc_chunk"}

\* The thread inside a critical section holds the mutex, and what it has read
\* of the global list is still true.
Locking ==
  \A t \in Thread :
    /\ pc[t] \in Locked <=> mutex = t
    /\ pc[t] \in Locked => seen[t] = first[0]

\* What a thread has in its hands, and whose list it may use, follows from
\* where it is.
Progress ==
  \A t \in Thread :
    /\ blk[t] # NoBlock <=> pc[t] \in Holding
    /\ chain[t] # {} => pc[t] \in Chained
    /\ pc[t] \in {"alloc_locked", "alloc_chunk"} => first[MyId(t)] = {}
    /\ Active /\ pc[t] \notin Outside => key[t] # 0
    /\ ~Active => pc[t] \in SinglePc /\ key[t] = 0

\* The state of the initialisation.
Initialisation ==
  /\ ~S_init => heap = Block /\ \A t \in Thread : key[t] = 0
  /\ Active /\ once = "new" => ~S_init /\ \A t \in Thread : pc[t] # "init"
  /\ Active /\ once = "done" => S_init
  /\ InitOnce

\* Every id is on the list of free records or in use by a thread.
Records ==
  Active /\ S_init =>
    \A id \in Id : id \in thread_freelist \/ \E t \in Thread : key[t] = id

IInv == /\ TypeOK /\ Locking /\ Progress /\ Initialisation
        /\ ThreadIdsExclusive /\ Records
        /\ OnePlace /\ NoBlockLost /\ FreeCountExact /\ OwnerRecorded

-----------------------------------------------------------------------------

\* Slot 0 is the global pool, the others are the thread ids.
LEMMA Slots == 0 \in Slot /\ Slot = Id \cup {0} /\ 0 \notin Id
BY ThreadAssumption DEF Slot, Id

\* A wrapped counter is a size_t.
LEMMA Words == \A n \in Int : Word(n) \in Size
BY TuneAssumption DEF Word, Size

\* Sets of blocks are finite.
LEMMA Finiteness ==
  \A S \in SUBSET Block : IsFiniteSet(S) /\ Cardinality(S) \in Nat
BY FS_Subset, FS_CardinalityType, BlockAssumption

\* Without libpthread there is one thread.
LEMMA OneThread ==
  ASSUME ~Active, NEW t \in Thread, NEW u \in Thread
  PROVE  t = u
<1>1. Cardinality({t, u}) <= 1
  BY FS_Subset, FS_CardinalityType, ThreadAssumption
<1>2. IsFiniteSet({t}) /\ Cardinality({t}) = 1 BY FS_Singleton
<1>3. t # u => Cardinality({t} \cup {u}) = 2 BY <1>2, FS_AddElement
<1>4. {t, u} = {t} \cup {u} OBVIOUS
<1> QED BY <1>1, <1>3, <1>4

\* Lengths of the lists that the operations build.
LEMMA Counting ==
  /\ Cardinality({}) = 0
  /\ \A S \in SUBSET Block : Cardinality(S) \in Nat
  /\ \A S \in SUBSET Block : \A b \in S :
       Cardinality(S \ {b}) = Cardinality(S) - 1
  /\ \A S \in SUBSET Block : \A b \in Block \ S :
       Cardinality(S \cup {b}) = Cardinality(S) + 1
  /\ \A S, C \in SUBSET Block : C \subseteq S =>
       Cardinality(S \ C) = Cardinality(S) - Cardinality(C)
  /\ \A S, C \in SUBSET Block : S \cap C = {} =>
       Cardinality(C \cup S) = Cardinality(S) + Cardinality(C)
<1>1. Cardinality({}) = 0 BY FS_EmptySet
<1>2. \A S \in SUBSET Block : \A b \in S :
        Cardinality(S \ {b}) = Cardinality(S) - 1
  BY Finiteness, FS_RemoveElement
<1>3. \A S \in SUBSET Block : \A b \in Block \ S :
        Cardinality(S \cup {b}) = Cardinality(S) + 1
  BY Finiteness, FS_AddElement
<1>4. ASSUME NEW S \in SUBSET Block, NEW C \in SUBSET Block, C \subseteq S
      PROVE  Cardinality(S \ C) = Cardinality(S) - Cardinality(C)
  <2>1. S \cap C = C BY <1>4
  <2> QED BY <2>1, Finiteness, FS_Difference
<1>5. ASSUME NEW S \in SUBSET Block, NEW C \in SUBSET Block, S \cap C = {}
      PROVE  Cardinality(C \cup S) = Cardinality(S) + Cardinality(C)
  <2>1. C \cap S = {} BY <1>5
  <2>2. Cardinality(C \cup S) =
          Cardinality(C) + Cardinality(S) - Cardinality(C \cap S)
    BY Finiteness, FS_Union
  <2> QED BY <1>1, <2>1, <2>2, Finiteness
<1> QED BY <1>1, <1>2, <1>3, <1>4, <1>5, Finiteness

\* What may be used where a thread is.
LEMMA Hands ==
  ASSUME IInv, NEW t \in Thread
  PROVE  /\ MyId(t) \in Slot
         /\ pc[t] \notin SinglePc => Active
         /\ Active /\ pc[t] \notin Outside => key[t] \in Id
         /\ pc[t] \in Holding => blk[t] \in Block
<1> USE DEF IInv, TypeOK, Progress
<1>1. MyId(t) \in Slot BY Slots DEF MyId
<1>2. pc[t] \in Holding => blk[t] \in Block OBVIOUS
<1>3. Active /\ pc[t] \notin Outside => key[t] \in Id BY Slots
<1> QED BY <1>1, <1>2, <1>3, ThreadAssumption

\* The number of records to hand back is an integer.
LEMMA RemovedInt ==
  ASSUME IInv, NEW t \in Thread
  PROVE  Removed(t) \in Int
<1>1. free[key[t]] \in Int /\ used[key[t]] \in Int
  BY DEF IInv, TypeOK, Size
<1>2. free[key[t]] * Headroom - used[key[t]] \in Int
  BY <1>1, TuneAssumption
<1> DEFINE w == Word(free[key[t]] * Headroom - used[key[t]])
<1>3. w \in Int BY <1>2, Words DEF Size
<1>4. ToLong(w) \in Int BY <1>3, TuneAssumption DEF ToLong
<1> QED BY <1>4, TuneAssumption DEF Removed, Remove

\* Every step keeps TypeOK: the types.
LEMMA TypeOKStep ==
  ASSUME IInv, [Next]_vars
  PROVE  TypeOK'
<1> USE DEF Goto, TypeOK, Pc, SinglePc, Outside, Holding
<1>i. IInv OBVIOUS
<1>0. CASE UNCHANGED <<once, S_init, thread_freelist, key, heap, first, free,
  used, thread_id, mutex, live, pc, blk, chain, seen, reg>>
  BY <1>0, <1>i DEF IInv
<1> SUFFICES ASSUME NEW t \in Thread, Begin(t) \/ Continue(t)
             PROVE  TypeOK'
  BY <1>0 DEF Next, vars
<1>1. CASE AllocCall(t)
  BY <1>1, <1>i, Hands, Slots, Words, Finiteness, RemovedInt, BlockAssumption,
    TuneAssumption DEF IInv, AllocCall
<1>2. CASE OnceRun(t)
  BY <1>2, <1>i, Hands, Slots, Words, Finiteness, RemovedInt, BlockAssumption,
    TuneAssumption DEF IInv, OnceRun
<1>3. CASE OncePass(t)
  BY <1>3, <1>i, Hands, Slots, Words, Finiteness, RemovedInt, BlockAssumption,
    TuneAssumption DEF IInv, OncePass
<1>4. CASE Initialize(t)
  BY <1>4, <1>i, Hands, Slots, Words, Finiteness, RemovedInt, BlockAssumption,
    TuneAssumption DEF IInv, Initialize, Size
<1>25. CASE InitializeThrows(t)
  BY <1>25, <1>i, Hands, Slots, Words, Finiteness, RemovedInt, BlockAssumption,
    TuneAssumption DEF IInv, InitializeThrows, Id, Slot
<1>5. CASE AllocId(t)
  BY <1>5, <1>i, Hands, Slots, Words, Finiteness, RemovedInt, BlockAssumption,
    TuneAssumption DEF IInv, AllocId, GetThreadId
<1>6. CASE AllocLock(t)
  BY <1>6, <1>i, Hands, Slots, Words, Finiteness, RemovedInt, BlockAssumption,
    TuneAssumption DEF IInv, AllocLock
<1>7. CASE AllocUnlock(t)
  BY <1>7, <1>i, Hands, Slots, Words, Finiteness, RemovedInt, BlockAssumption,
    TuneAssumption DEF IInv, AllocUnlock
<1>8. CASE Grab(t)
  BY <1>8, <1>i, Hands, Slots, Words, Finiteness, RemovedInt, BlockAssumption,
    TuneAssumption DEF IInv, Grab, Subsets
<1>9. CASE AllocSingle(t)
  BY <1>9, <1>i, Hands, Slots, Words, Finiteness, RemovedInt, BlockAssumption,
    TuneAssumption DEF IInv, AllocSingle
<1>10. CASE NewChunk(t)
  BY <1>10, <1>i, Hands, Slots, Words, Finiteness, RemovedInt, BlockAssumption,
    TuneAssumption DEF IInv, NewChunk, Subsets
<1>11. CASE BadAlloc(t)
  BY <1>11, <1>i, Hands, Slots, Words, Finiteness, RemovedInt, BlockAssumption,
    TuneAssumption DEF IInv, BadAlloc
<1>12. CASE Take(t)
  BY <1>12, <1>i, Hands, Slots, Words, Finiteness, RemovedInt, BlockAssumption,
    TuneAssumption DEF IInv, Take, Size
<1>13. CASE AllocReturn(t)
  BY <1>13, <1>i, Hands, Slots, Words, Finiteness, RemovedInt, BlockAssumption,
    TuneAssumption DEF IInv, AllocReturn, Size
<1>14. CASE TakeSingle(t)
  BY <1>14, <1>i, Hands, Slots, Words, Finiteness, RemovedInt, BlockAssumption,
    TuneAssumption DEF IInv, TakeSingle
<1>15. CASE KeepAll(t)
  BY <1>15, <1>i, Hands, Slots, Words, Finiteness, RemovedInt, BlockAssumption,
    TuneAssumption DEF IInv, KeepAll
<1>16. CASE Detach(t)
  BY <1>16, <1>i, Hands, Slots, Words, Finiteness, RemovedInt, BlockAssumption,
    TuneAssumption DEF IInv, Detach, Subsets
<1>17. CASE WalkOff(t)
  BY <1>17, <1>i, Hands, Slots, Words, Finiteness, RemovedInt, BlockAssumption,
    TuneAssumption DEF IInv, WalkOff
<1>18. CASE SpliceLock(t)
  BY <1>18, <1>i, Hands, Slots, Words, Finiteness, RemovedInt, BlockAssumption,
    TuneAssumption DEF IInv, SpliceLock
<1>19. CASE Splice(t)
  BY <1>19, <1>i, Hands, Slots, Words, Finiteness, RemovedInt, BlockAssumption,
    TuneAssumption DEF IInv, Splice
<1>20. CASE DeallocLoad(t)
  BY <1>20, <1>i, Hands, Slots, Words, Finiteness, RemovedInt, BlockAssumption,
    TuneAssumption DEF IInv, DeallocLoad, Size
<1>21. CASE DeallocReturn(t)
  BY <1>21, <1>i, Hands, Slots, Words, Finiteness, RemovedInt, BlockAssumption,
    TuneAssumption DEF IInv, DeallocReturn, Size
<1>22. CASE ThreadExit(t)
  BY <1>22, <1>i, Hands, Slots, Words, Finiteness, RemovedInt, BlockAssumption,
    TuneAssumption DEF IInv, ThreadExit
<1>23. ASSUME NEW b \in Block, DeallocCall(t, b) PROVE TypeOK'
  BY <1>23, <1>i, Hands, Slots, Words, Finiteness, RemovedInt, BlockAssumption,
    TuneAssumption DEF IInv, DeallocCall, GetThreadId
<1>24. ASSUME NEW b \in Block, DeallocSingle(t, b) PROVE TypeOK'
  BY <1>24, <1>i, Hands, Slots, Words, Finiteness, RemovedInt, BlockAssumption,
    TuneAssumption DEF IInv, DeallocSingle
<1> QED BY <1>1, <1>2, <1>3, <1>4, <1>5, <1>6, <1>7, <1>8, <1>9, <1>10, <1>11,
  <1>12, <1>13, <1>14, <1>15, <1>16, <1>17, <1>18, <1>19, <1>20, <1>21, <1>22,
  <1>23, <1>24, <1>25 DEF Begin, Continue

\* Every step keeps Locking: the mutex and the snapshot of the global list.
LEMMA LockingStep ==
  ASSUME IInv, [Next]_vars
  PROVE  Locking'
<1> USE DEF Goto, TypeOK, Locking, Locked, Progress, SinglePc, Outside,
  Initialisation, InitOnce, MyId
<1>i. IInv OBVIOUS
<1>0. CASE UNCHANGED <<pc, mutex, seen, first>>
  BY <1>0, <1>i DEF IInv
<1> SUFFICES ASSUME NEW t \in Thread, Begin(t) \/ Continue(t)
             PROVE  Locking'
  BY <1>0 DEF Next, vars
<1>1. CASE AllocCall(t)
  BY <1>1, <1>i, Hands, Slots, ThreadAssumption DEF IInv, AllocCall
<1>2. CASE OnceRun(t)
  BY <1>2, <1>i, Hands, Slots, ThreadAssumption DEF IInv, OnceRun
<1>3. CASE OncePass(t)
  BY <1>3, <1>i, Hands, Slots, ThreadAssumption DEF IInv, OncePass
<1>4. CASE Initialize(t)
  BY <1>4, <1>i, Hands, Slots, ThreadAssumption DEF IInv, Initialize
<1>25. CASE InitializeThrows(t)
  BY <1>25, <1>i, Hands, Slots, ThreadAssumption DEF IInv, InitializeThrows
<1>5. CASE AllocId(t)
  BY <1>5, <1>i, Hands, Slots, ThreadAssumption DEF IInv, AllocId, GetThreadId
<1>6. CASE AllocLock(t)
  BY <1>6, <1>i, Hands, Slots, ThreadAssumption DEF IInv, AllocLock
<1>7. CASE AllocUnlock(t)
  BY <1>7, <1>i, Hands, Slots, ThreadAssumption DEF IInv, AllocUnlock
<1>8. CASE Grab(t)
  BY <1>8, <1>i, Hands, Slots, ThreadAssumption DEF IInv, Grab, Subsets
<1>9. CASE AllocSingle(t)
  BY <1>9, <1>i, Hands, Slots, ThreadAssumption DEF IInv, AllocSingle
<1>10. CASE NewChunk(t)
  BY <1>10, <1>i, Hands, Slots, ThreadAssumption DEF IInv, NewChunk, Subsets
<1>11. CASE BadAlloc(t)
  BY <1>11, <1>i, Hands, Slots, ThreadAssumption DEF IInv, BadAlloc
<1>12. CASE Take(t)
  BY <1>12, <1>i, Hands, Slots, ThreadAssumption DEF IInv, Take
<1>13. CASE AllocReturn(t)
  BY <1>13, <1>i, Hands, Slots, ThreadAssumption DEF IInv, AllocReturn
<1>14. CASE TakeSingle(t)
  BY <1>14, <1>i, Hands, Slots, ThreadAssumption DEF IInv, TakeSingle
<1>15. CASE KeepAll(t)
  BY <1>15, <1>i, Hands, Slots, ThreadAssumption DEF IInv, KeepAll
<1>16. CASE Detach(t)
  BY <1>16, <1>i, Hands, Slots, ThreadAssumption DEF IInv, Detach, Subsets
<1>17. CASE WalkOff(t)
  BY <1>17, <1>i, Hands, Slots, ThreadAssumption DEF IInv, WalkOff
<1>18. CASE SpliceLock(t)
  BY <1>18, <1>i, Hands, Slots, ThreadAssumption DEF IInv, SpliceLock
<1>19. CASE Splice(t)
  BY <1>19, <1>i, Hands, Slots, ThreadAssumption DEF IInv, Splice
<1>20. CASE DeallocLoad(t)
  BY <1>20, <1>i, Hands, Slots, ThreadAssumption DEF IInv, DeallocLoad
<1>21. CASE DeallocReturn(t)
  BY <1>21, <1>i, Hands, Slots, ThreadAssumption DEF IInv, DeallocReturn
<1>22. ASSUME NEW b \in Block, DeallocCall(t, b) PROVE Locking'
  BY <1>22, <1>i, Hands, Slots, ThreadAssumption DEF IInv, DeallocCall,
    GetThreadId
<1>23. ASSUME NEW b \in Block, DeallocSingle(t, b) PROVE Locking'
  BY <1>23, <1>i, Hands, Slots, ThreadAssumption DEF IInv, DeallocSingle
<1>24. ASSUME ThreadExit(t)
      PROVE  Locking'
  BY <1>24, <1>0 DEF ThreadExit
<1> QED BY <1>1, <1>2, <1>3, <1>4, <1>5, <1>6, <1>7, <1>8, <1>9, <1>10, <1>11,
  <1>12, <1>13, <1>14, <1>15, <1>16, <1>17, <1>18, <1>19, <1>20, <1>21, <1>22,
  <1>23, <1>24, <1>25 DEF Begin, Continue

\* Every step keeps Progress: what a thread holds.
LEMMA ProgressStep ==
  ASSUME IInv, [Next]_vars
  PROVE  Progress'
<1> USE DEF Goto, TypeOK, Progress, Locking, Locked, ThreadIdsExclusive,
  Holding, Chained, Outside, SinglePc, MyId
<1>i. IInv OBVIOUS
<1>0. CASE UNCHANGED <<pc, blk, chain, key, first, mutex>>
  BY <1>0, <1>i DEF IInv
<1> SUFFICES ASSUME NEW t \in Thread, Begin(t) \/ Continue(t)
             PROVE  Progress'
  BY <1>0 DEF Next, vars
<1>1. CASE AllocCall(t)
  BY <1>1, <1>i, Hands, Slots, OneThread, BlockAssumption DEF IInv, AllocCall
<1>2. CASE OnceRun(t)
  BY <1>2, <1>i, Hands, Slots, OneThread, BlockAssumption DEF IInv, OnceRun
<1>3. CASE OncePass(t)
  BY <1>3, <1>i, Hands, Slots, OneThread, BlockAssumption DEF IInv, OncePass
<1>4. CASE Initialize(t)
  BY <1>4, <1>i, Hands, Slots, OneThread, BlockAssumption DEF IInv, Initialize
<1>25. CASE InitializeThrows(t)
  BY <1>25, <1>i, Hands, Slots, OneThread, BlockAssumption
    DEF IInv, InitializeThrows
<1>5. CASE AllocId(t)
  BY <1>5, <1>i, Hands, Slots, OneThread, BlockAssumption DEF IInv, AllocId,
    GetThreadId
<1>6. CASE AllocLock(t)
  BY <1>6, <1>i, Hands, Slots, OneThread, BlockAssumption DEF IInv, AllocLock
<1>7. CASE AllocUnlock(t)
  BY <1>7, <1>i, Hands, Slots, OneThread, BlockAssumption DEF IInv, AllocUnlock
<1>8. CASE Grab(t)
  BY <1>8, <1>i, Hands, Slots, OneThread, BlockAssumption DEF IInv, Grab,
    Subsets
<1>9. CASE AllocSingle(t)
  BY <1>9, <1>i, Hands, Slots, OneThread, BlockAssumption DEF IInv, AllocSingle
<1>10. CASE NewChunk(t)
  BY <1>10, <1>i, Hands, Slots, OneThread, BlockAssumption DEF IInv, NewChunk,
    Subsets
<1>11. CASE BadAlloc(t)
  BY <1>11, <1>i, Hands, Slots, OneThread, BlockAssumption DEF IInv, BadAlloc
<1>12. CASE Take(t)
  BY <1>12, <1>i, Hands, Slots, OneThread, BlockAssumption DEF IInv, Take
<1>13. CASE AllocReturn(t)
  BY <1>13, <1>i, Hands, Slots, OneThread, BlockAssumption DEF IInv,
    AllocReturn
<1>14. CASE TakeSingle(t)
  BY <1>14, <1>i, Hands, Slots, OneThread, BlockAssumption DEF IInv, TakeSingle
<1>15. CASE KeepAll(t)
  BY <1>15, <1>i, Hands, Slots, OneThread, BlockAssumption DEF IInv, KeepAll
<1>16. CASE Detach(t)
  BY <1>16, <1>i, Hands, Slots, OneThread, BlockAssumption DEF IInv, Detach,
    Subsets
<1>17. CASE WalkOff(t)
  BY <1>17, <1>i, Hands, Slots, OneThread, BlockAssumption DEF IInv, WalkOff
<1>18. CASE SpliceLock(t)
  BY <1>18, <1>i, Hands, Slots, OneThread, BlockAssumption DEF IInv, SpliceLock
<1>19. CASE Splice(t)
  BY <1>19, <1>i, Hands, Slots, OneThread, BlockAssumption DEF IInv, Splice
<1>20. CASE DeallocLoad(t)
  BY <1>20, <1>i, Hands, Slots, OneThread, BlockAssumption DEF IInv,
    DeallocLoad
<1>21. CASE DeallocReturn(t)
  BY <1>21, <1>i, Hands, Slots, OneThread, BlockAssumption DEF IInv,
    DeallocReturn
<1>22. CASE ThreadExit(t)
  BY <1>22, <1>i, Hands, Slots, OneThread, BlockAssumption DEF IInv, ThreadExit
<1>23. ASSUME NEW b \in Block, DeallocCall(t, b) PROVE Progress'
  BY <1>23, <1>i, Hands, Slots, OneThread, BlockAssumption DEF IInv,
    DeallocCall, GetThreadId
<1>24. ASSUME NEW b \in Block, DeallocSingle(t, b) PROVE Progress'
  BY <1>24, <1>i, Hands, Slots, OneThread, BlockAssumption DEF IInv,
    DeallocSingle
<1> QED BY <1>1, <1>2, <1>3, <1>4, <1>5, <1>6, <1>7, <1>8, <1>9, <1>10, <1>11,
  <1>12, <1>13, <1>14, <1>15, <1>16, <1>17, <1>18, <1>19, <1>20, <1>21, <1>22,
  <1>23, <1>24, <1>25 DEF Begin, Continue

\* Every step keeps Initialisation: the initialisation.
LEMMA InitialisationStep ==
  ASSUME IInv, [Next]_vars
  PROVE  Initialisation'
<1> USE DEF Goto, TypeOK, Initialisation, InitOnce, OnePlace, Progress,
  SinglePc
<1>i. IInv OBVIOUS
<1>0. CASE UNCHANGED <<pc, once, S_init, key, heap>>
  BY <1>0, <1>i DEF IInv
<1> SUFFICES ASSUME NEW t \in Thread, Begin(t) \/ Continue(t)
             PROVE  Initialisation'
  BY <1>0 DEF Next, vars
<1>1. CASE AllocCall(t)
  BY <1>1, <1>i, Hands, Slots, OneThread, BlockAssumption DEF IInv, AllocCall
<1>2. CASE OnceRun(t)
  BY <1>2, <1>i, Hands, Slots, OneThread, BlockAssumption DEF IInv, OnceRun
<1>3. CASE OncePass(t)
  BY <1>3, <1>i, Hands, Slots, OneThread, BlockAssumption DEF IInv, OncePass
<1>4. CASE Initialize(t)
  BY <1>4, <1>i, Hands, Slots, OneThread, BlockAssumption DEF IInv, Initialize
<1>25. CASE InitializeThrows(t)
  BY <1>25, <1>i, Hands, Slots, OneThread, BlockAssumption
    DEF IInv, InitializeThrows
<1>5. CASE AllocId(t)
  BY <1>5, <1>i, Hands, Slots, OneThread, BlockAssumption DEF IInv, AllocId,
    GetThreadId
<1>6. CASE AllocLock(t)
  BY <1>6, <1>i, Hands, Slots, OneThread, BlockAssumption DEF IInv, AllocLock
<1>7. CASE AllocUnlock(t)
  BY <1>7, <1>i, Hands, Slots, OneThread, BlockAssumption DEF IInv, AllocUnlock
<1>8. CASE Grab(t)
  BY <1>8, <1>i, Hands, Slots, OneThread, BlockAssumption DEF IInv, Grab,
    Subsets
<1>9. CASE AllocSingle(t)
  BY <1>9, <1>i, Hands, Slots, OneThread, BlockAssumption DEF IInv, AllocSingle
<1>10. CASE NewChunk(t)
  BY <1>10, <1>i, Hands, Slots, OneThread, BlockAssumption DEF IInv, NewChunk,
    Subsets
<1>11. CASE BadAlloc(t)
  BY <1>11, <1>i, Hands, Slots, OneThread, BlockAssumption DEF IInv, BadAlloc
<1>12. CASE Take(t)
  BY <1>12, <1>i, Hands, Slots, OneThread, BlockAssumption DEF IInv, Take
<1>13. CASE AllocReturn(t)
  BY <1>13, <1>i, Hands, Slots, OneThread, BlockAssumption DEF IInv,
    AllocReturn
<1>14. CASE TakeSingle(t)
  BY <1>14, <1>i, Hands, Slots, OneThread, BlockAssumption DEF IInv, TakeSingle
<1>15. CASE KeepAll(t)
  BY <1>15, <1>i, Hands, Slots, OneThread, BlockAssumption DEF IInv, KeepAll
<1>16. CASE Detach(t)
  BY <1>16, <1>i, Hands, Slots, OneThread, BlockAssumption DEF IInv, Detach,
    Subsets
<1>17. CASE WalkOff(t)
  BY <1>17, <1>i, Hands, Slots, OneThread, BlockAssumption DEF IInv, WalkOff
<1>18. CASE SpliceLock(t)
  BY <1>18, <1>i, Hands, Slots, OneThread, BlockAssumption DEF IInv, SpliceLock
<1>19. CASE Splice(t)
  BY <1>19, <1>i, Hands, Slots, OneThread, BlockAssumption DEF IInv, Splice
<1>20. CASE DeallocLoad(t)
  BY <1>20, <1>i, Hands, Slots, OneThread, BlockAssumption DEF IInv,
    DeallocLoad
<1>21. CASE DeallocReturn(t)
  BY <1>21, <1>i, Hands, Slots, OneThread, BlockAssumption DEF IInv,
    DeallocReturn
<1>22. CASE ThreadExit(t)
  BY <1>22, <1>i, Hands, Slots, OneThread, BlockAssumption DEF IInv, ThreadExit
<1>23. ASSUME NEW b \in Block, DeallocCall(t, b) PROVE Initialisation'
  BY <1>23, <1>i, Hands, Slots, OneThread, BlockAssumption DEF IInv,
    DeallocCall, GetThreadId
<1>24. ASSUME (\E b \in Block : DeallocSingle(t, b))
      PROVE  Initialisation'
  BY <1>24, <1>0 DEF DeallocSingle
<1> QED BY <1>1, <1>2, <1>3, <1>4, <1>5, <1>6, <1>7, <1>8, <1>9, <1>10, <1>11,
  <1>12, <1>13, <1>14, <1>15, <1>16, <1>17, <1>18, <1>19, <1>20, <1>21, <1>22,
  <1>23, <1>24, <1>25 DEF Begin, Continue

\* Every step keeps ThreadIdsExclusive: the records.
LEMMA ThreadIdsExclusiveStep ==
  ASSUME IInv, [Next]_vars
  PROVE  ThreadIdsExclusive'
<1> USE DEF Goto, TypeOK, ThreadIdsExclusive, Initialisation, InitOnce
<1>i. IInv OBVIOUS
<1>0. CASE UNCHANGED <<key, thread_freelist>>
  BY <1>0, <1>i DEF IInv
<1> SUFFICES ASSUME NEW t \in Thread, Begin(t) \/ Continue(t)
             PROVE  ThreadIdsExclusive'
  BY <1>0 DEF Next, vars
<1>1. CASE Initialize(t)
  BY <1>1, <1>i, Hands, Slots DEF IInv, Initialize
<1>6. CASE InitializeThrows(t)
  BY <1>6, <1>i, Slots DEF IInv, Initialisation, InitOnce, InitializeThrows
<1>2. CASE AllocId(t)
  BY <1>2, <1>i, Hands, Slots DEF IInv, AllocId, GetThreadId
<1>3. CASE ThreadExit(t)
  BY <1>3, <1>i, Hands, Slots DEF IInv, ThreadExit
<1>4. ASSUME NEW b \in Block, DeallocCall(t, b) PROVE ThreadIdsExclusive'
  BY <1>4, <1>i, Hands, Slots DEF IInv, DeallocCall, GetThreadId
<1>5. ASSUME AllocCall(t) \/ OnceRun(t) \/ OncePass(t) \/ AllocLock(t) \/
            AllocUnlock(t) \/ Grab(t) \/ AllocSingle(t) \/ NewChunk(t) \/
            BadAlloc(t) \/ Take(t) \/ AllocReturn(t) \/ TakeSingle(t) \/
            KeepAll(t) \/ Detach(t) \/ WalkOff(t) \/ SpliceLock(t) \/ Splice(t)
            \/ DeallocLoad(t) \/ DeallocReturn(t) \/ (\E b \in Block :
            DeallocSingle(t, b))
      PROVE  ThreadIdsExclusive'
  BY <1>5, <1>0 DEF AllocCall, OnceRun, OncePass, AllocLock, AllocUnlock, Grab,
    AllocSingle, NewChunk, BadAlloc, Take, AllocReturn, TakeSingle, KeepAll,
    Detach, WalkOff, SpliceLock, Splice, DeallocLoad, DeallocReturn,
    DeallocSingle
<1> QED BY <1>1, <1>2, <1>3, <1>4, <1>5, <1>6 DEF Begin, Continue

\* Every step keeps Records: the records.
LEMMA RecordsStep ==
  ASSUME IInv, [Next]_vars
  PROVE  Records'
<1> USE DEF Goto, TypeOK, Records, ThreadIdsExclusive, Progress, Outside
<1>i. IInv OBVIOUS
<1>0. CASE UNCHANGED <<key, thread_freelist, S_init>>
  BY <1>0, <1>i DEF IInv
<1> SUFFICES ASSUME NEW t \in Thread, Begin(t) \/ Continue(t)
             PROVE  Records'
  BY <1>0 DEF Next, vars
<1>1. CASE Initialize(t)
  BY <1>1, <1>i, Hands, Slots DEF IInv, Initialize
<1>6. CASE InitializeThrows(t)
  BY <1>6, <1>i, Slots DEF IInv, Initialisation, InitOnce, InitializeThrows
<1>2. CASE AllocId(t)
  BY <1>2, <1>i, Hands, Slots DEF IInv, AllocId, GetThreadId
<1>3. CASE ThreadExit(t)
  BY <1>3, <1>i, Hands, Slots DEF IInv, ThreadExit
<1>4. ASSUME NEW b \in Block, DeallocCall(t, b) PROVE Records'
  BY <1>4, <1>i, Hands, Slots DEF IInv, DeallocCall, GetThreadId
<1>5. ASSUME AllocCall(t) \/ OnceRun(t) \/ OncePass(t) \/ AllocLock(t) \/
            AllocUnlock(t) \/ Grab(t) \/ AllocSingle(t) \/ NewChunk(t) \/
            BadAlloc(t) \/ Take(t) \/ AllocReturn(t) \/ TakeSingle(t) \/
            KeepAll(t) \/ Detach(t) \/ WalkOff(t) \/ SpliceLock(t) \/ Splice(t)
            \/ DeallocLoad(t) \/ DeallocReturn(t) \/ (\E b \in Block :
            DeallocSingle(t, b))
      PROVE  Records'
  BY <1>5, <1>0 DEF AllocCall, OnceRun, OncePass, AllocLock, AllocUnlock, Grab,
    AllocSingle, NewChunk, BadAlloc, Take, AllocReturn, TakeSingle, KeepAll,
    Detach, WalkOff, SpliceLock, Splice, DeallocLoad, DeallocReturn,
    DeallocSingle
<1> QED BY <1>1, <1>2, <1>3, <1>4, <1>5, <1>6 DEF Begin, Continue

\* Every step keeps OnePlace: where a block is.
LEMMA OnePlaceStep ==
  ASSUME IInv, [Next]_vars
  PROVE  OnePlace'
<1> USE DEF Goto, TypeOK, OnePlace, Progress, Holding, Chained, Outside,
  SinglePc, Locking, Locked, MyId
<1>i. IInv OBVIOUS
<1>0. CASE UNCHANGED <<first, live, heap, chain, blk>>
  BY <1>0, <1>i DEF IInv
<1> SUFFICES ASSUME NEW t \in Thread, Begin(t) \/ Continue(t)
             PROVE  OnePlace'
  BY <1>0 DEF Next, vars
<1>1. CASE Initialize(t)
  BY <1>1, <1>i, Hands, Slots, BlockAssumption DEF IInv, Initialize
<1>2. CASE Grab(t)
  <2>1. Active /\ key[t] \in Id /\ key[t] # 0
    BY <1>2, <1>i, Hands, Slots DEF Grab
  <2>2. first[key[t]] = {} /\ seen[t] = first[0] BY <1>2, <1>i DEF IInv, Grab
  <2>3. \E C \in SUBSET first[0] :
          first' = [first EXCEPT ![key[t]] = C, ![0] = first[0] \ C]
    <3>1. CASE first' = [first EXCEPT ![key[t]] = seen[t], ![0] = {}]
      BY <3>1, <2>2
    <3>2. CASE \E C \in Subsets(seen[t], BlockCount) :
                 first' = [first EXCEPT ![key[t]] = C, ![0] = seen[t] \ C]
      BY <3>2, <2>2 DEF Subsets
    <3> QED BY <1>2, <3>1, <3>2 DEF Grab
  <2>4. UNCHANGED <<heap, live, blk, chain>> BY <1>2 DEF Grab
  <2>5. PICK C \in SUBSET first[0] :
          first' = [first EXCEPT ![key[t]] = C, ![0] = first[0] \ C]
    BY <2>3
  <2>6. /\ first'[key[t]] = C /\ first'[0] = first[0] \ C
        /\ \A s \in Slot \ {0, key[t]} : first'[s] = first[s]
    BY <2>1, <2>5, <1>i, Slots DEF IInv
  <2>7. \A s1, s2 \in Slot : s1 # s2 => first'[s1] \cap first'[s2] = {}
    BY <2>1, <2>6, <1>i, Slots DEF IInv
  <2>8. \A s \in Slot : 
          first'[s] \subseteq first[s] \/ first'[s] \subseteq first[0]
    BY <2>6
  <2> QED BY <2>4, <2>7, <2>8, <1>i, Slots DEF IInv
<1>3. CASE NewChunk(t)
  BY <1>3, <1>i, Hands, Slots, BlockAssumption DEF IInv, NewChunk, Subsets
<1>4. CASE Take(t)
  BY <1>4, <1>i, Hands, Slots, BlockAssumption DEF IInv, Take
<1>5. CASE AllocReturn(t)
  BY <1>5, <1>i, Hands, Slots, BlockAssumption DEF IInv, AllocReturn
<1>6. CASE TakeSingle(t)
  BY <1>6, <1>i, Hands, Slots, BlockAssumption DEF IInv, TakeSingle
<1>7. CASE Detach(t)
  BY <1>7, <1>i, Hands, Slots, BlockAssumption DEF IInv, Detach, Subsets
<1>8. CASE Splice(t)
  BY <1>8, <1>i, Hands, Slots, BlockAssumption DEF IInv, Splice
<1>9. CASE DeallocReturn(t)
  BY <1>9, <1>i, Hands, Slots, BlockAssumption DEF IInv, DeallocReturn
<1>10. ASSUME NEW b \in Block, DeallocCall(t, b) PROVE OnePlace'
  BY <1>10, <1>i, Hands, Slots, BlockAssumption DEF IInv, DeallocCall,
    GetThreadId
<1>11. ASSUME NEW b \in Block, DeallocSingle(t, b) PROVE OnePlace'
  BY <1>11, <1>i, Hands, Slots, BlockAssumption DEF IInv, DeallocSingle
<1>12. ASSUME AllocCall(t) \/ OnceRun(t) \/ OncePass(t) \/ InitializeThrows(t) \/
            AllocId(t) \/
            AllocLock(t) \/ AllocUnlock(t) \/ AllocSingle(t) \/ BadAlloc(t) \/
            KeepAll(t) \/ WalkOff(t) \/ SpliceLock(t) \/ DeallocLoad(t) \/
            ThreadExit(t)
      PROVE  OnePlace'
  BY <1>12, <1>0 DEF AllocCall, OnceRun, OncePass, InitializeThrows,
    AllocId, AllocLock,
    AllocUnlock, AllocSingle, BadAlloc, KeepAll, WalkOff, SpliceLock,
    DeallocLoad, ThreadExit
<1> QED BY <1>1, <1>2, <1>3, <1>4, <1>5, <1>6, <1>7, <1>8, <1>9, <1>10, <1>11,
  <1>12 DEF Begin, Continue

\* Every step keeps NoBlockLost: where a block is.
LEMMA NoBlockLostStep ==
  ASSUME IInv, [Next]_vars
  PROVE  NoBlockLost'
<1> USE DEF Goto, TypeOK, NoBlockLost, OnePlace, Progress, Holding, Chained,
  SinglePc, Outside, Initialisation, InitOnce, Locking, Locked, MyId
<1>i. IInv OBVIOUS
<1>0. CASE UNCHANGED <<first, live, heap, chain, blk>>
  BY <1>0, <1>i DEF IInv
<1> SUFFICES ASSUME NEW t \in Thread, Begin(t) \/ Continue(t)
             PROVE  NoBlockLost'
  BY <1>0 DEF Next, vars
<1>1. CASE Initialize(t)
  BY <1>1, <1>i, Hands, Slots, BlockAssumption DEF IInv, Initialize
<1>2. CASE Grab(t)
  <2>1. Active /\ key[t] \in Id /\ key[t] # 0
    BY <1>2, <1>i, Hands, Slots DEF Grab
  <2>2. first[key[t]] = {} /\ seen[t] = first[0] BY <1>2, <1>i DEF IInv, Grab
  <2>3. \E C \in SUBSET first[0] :
          first' = [first EXCEPT ![key[t]] = C, ![0] = first[0] \ C]
    <3>1. CASE first' = [first EXCEPT ![key[t]] = seen[t], ![0] = {}]
      BY <3>1, <2>2
    <3>2. CASE \E C \in Subsets(seen[t], BlockCount) :
                 first' = [first EXCEPT ![key[t]] = C, ![0] = seen[t] \ C]
      BY <3>2, <2>2 DEF Subsets
    <3> QED BY <1>2, <3>1, <3>2 DEF Grab
  <2>4. UNCHANGED <<heap, live, blk, chain>> BY <1>2 DEF Grab
  <2> QED BY <2>1, <2>2, <2>3, <2>4, <1>i, Slots DEF IInv
<1>3. CASE NewChunk(t)
  BY <1>3, <1>i, Hands, Slots, BlockAssumption DEF IInv, NewChunk, Subsets
<1>4. CASE Take(t)
  <2>1. key[t] \in Slot /\ blk[t] = NoBlock
    BY <1>4, <1>i, Hands, Slots DEF IInv, Take
  <2>2. PICK b \in first[key[t]] :
          /\ first' = [first EXCEPT ![key[t]] = @ \ {b}]
          /\ blk' = [blk EXCEPT ![t] = b]
    BY <1>4 DEF Take
  <2>3. UNCHANGED <<heap, live, chain>> BY <1>4 DEF Take
  <2>4. b = blk'[t] BY <2>2, <1>i DEF IInv
  <2> QED BY <2>1, <2>2, <2>3, <2>4, <1>i, BlockAssumption DEF IInv
<1>5. CASE AllocReturn(t)
  BY <1>5, <1>i, Hands, Slots, BlockAssumption DEF IInv, AllocReturn
<1>6. CASE TakeSingle(t)
  BY <1>6, <1>i, Hands, Slots, BlockAssumption DEF IInv, TakeSingle
<1>7. CASE Detach(t)
  <2>1. key[t] \in Slot /\ chain[t] = {}
    BY <1>7, <1>i, Hands, Slots DEF IInv, Detach
  <2>2. PICK C \in SUBSET first[key[t]] :
          /\ first' = [first EXCEPT ![key[t]] = @ \ C]
          /\ chain' = [chain EXCEPT ![t] = C]
    BY <1>7 DEF Detach, Subsets
  <2>3. UNCHANGED <<heap, live, blk>> BY <1>7 DEF Detach
  <2>4. chain'[t] = C BY <2>2, <1>i DEF IInv
  <2> QED BY <2>1, <2>2, <2>3, <2>4, <1>i DEF IInv
<1>8. CASE Splice(t)
  BY <1>8, <1>i, Hands, Slots, BlockAssumption DEF IInv, Splice
<1>9. CASE DeallocReturn(t)
  BY <1>9, <1>i, Hands, Slots, BlockAssumption DEF IInv, DeallocReturn
<1>10. ASSUME NEW b \in Block, DeallocCall(t, b) PROVE NoBlockLost'
  BY <1>10, <1>i, Hands, Slots, BlockAssumption DEF IInv, DeallocCall,
    GetThreadId
<1>11. ASSUME NEW b \in Block, DeallocSingle(t, b) PROVE NoBlockLost'
  BY <1>11, <1>i, Hands, Slots, BlockAssumption DEF IInv, DeallocSingle
<1>12. ASSUME AllocCall(t) \/ OnceRun(t) \/ OncePass(t) \/ InitializeThrows(t) \/
            AllocId(t) \/
            AllocLock(t) \/ AllocUnlock(t) \/ AllocSingle(t) \/ BadAlloc(t) \/
            KeepAll(t) \/ WalkOff(t) \/ SpliceLock(t) \/ DeallocLoad(t) \/
            ThreadExit(t)
      PROVE  NoBlockLost'
  BY <1>12, <1>0 DEF AllocCall, OnceRun, OncePass, InitializeThrows,
    AllocId, AllocLock,
    AllocUnlock, AllocSingle, BadAlloc, KeepAll, WalkOff, SpliceLock,
    DeallocLoad, ThreadExit
<1> QED BY <1>1, <1>2, <1>3, <1>4, <1>5, <1>6, <1>7, <1>8, <1>9, <1>10, <1>11,
  <1>12 DEF Begin, Continue

\* Every step keeps FreeCountExact: the lists and their lengths.
LEMMA FreeCountExactStep ==
  ASSUME IInv, [Next]_vars
  PROVE  FreeCountExact'
<1> USE DEF Goto, TypeOK, FreeCountExact, Progress, Locking, Locked, Chained,
  Holding, Outside, SinglePc, OnePlace, MyId
<1>i. IInv OBVIOUS
<1>0. CASE UNCHANGED <<first, free>>
  BY <1>0, <1>i DEF IInv
<1> SUFFICES ASSUME NEW t \in Thread, Begin(t) \/ Continue(t)
             PROVE  FreeCountExact'
  BY <1>0 DEF Next, vars
<1>1. CASE Initialize(t)
  BY <1>1, <1>i, Hands, Slots, Counting DEF IInv, Initialize
<1>2. CASE Grab(t)
  <2>1. Active /\ key[t] \in Id /\ key[t] # 0
    BY <1>2, <1>i, Hands, Slots DEF Grab
  <2>2. free[0] = Cardinality(first[0]) /\ seen[t] = first[0]
    BY <1>2, <1>i, <2>1, Slots DEF IInv, Grab
  <2>3. CASE BlockCount >= free[0]
    <3>1. /\ first' = [first EXCEPT ![key[t]] = seen[t], ![0] = {}]
          /\ free' = [free EXCEPT ![key[t]] = free[0], ![0] = 0]
      BY <1>2, <1>i, <2>2, <2>3, Counting, BlockAssumption, Slots DEF IInv, Grab
    <3> QED BY <2>1, <2>2, <3>1, <1>i, Slots, Counting DEF IInv
  <2>4. CASE BlockCount < free[0]
    <3>1. PICK C \in Subsets(first[0], BlockCount) :
            /\ first' = [first EXCEPT ![key[t]] = C, ![0] = first[0] \ C]
            /\ free' = [free EXCEPT ![key[t]] = BlockCount,
                                    ![0] = free[0] - BlockCount]
      BY <1>2, <1>i, <2>2, <2>4, Counting, BlockAssumption, Slots DEF IInv, Grab
    <3>2. C \subseteq first[0] /\ Cardinality(C) = BlockCount BY DEF Subsets
    <3>3. Cardinality(first[0] \ C) = free[0] - BlockCount
      BY <3>2, <2>2, <1>i, Slots, Counting DEF IInv
    <3> QED BY <2>1, <2>2, <3>1, <3>2, <3>3, <1>i, Slots DEF IInv
  <2> QED BY <2>2, <2>3, <2>4, <1>i, Slots, Counting, BlockAssumption DEF IInv
<1>3. CASE NewChunk(t)
  BY <1>3, <1>i, Hands, Slots, Counting DEF IInv, NewChunk, Subsets
<1>4. CASE Take(t)
  <2>1. Active /\ key[t] \in Slot BY <1>4, <1>i, Hands, Slots DEF Take
  <2>2. PICK b \in first[key[t]] : first' = [first EXCEPT ![key[t]] = @ \ {b}]
    BY <1>4 DEF Take
  <2>3. free' = [free EXCEPT ![key[t]] = @ - 1] BY <1>4 DEF Take
  <2>4. Cardinality(first[key[t]] \ {b}) = Cardinality(first[key[t]]) - 1
    BY <2>1, <1>i, Counting DEF IInv
  <2> QED BY <2>1, <2>2, <2>3, <2>4, <1>i DEF IInv
<1>5. CASE TakeSingle(t)
  BY <1>5, <1>i, Hands, Slots, Counting DEF IInv, TakeSingle
<1>6. CASE Detach(t)
  <2>1. Active /\ key[t] \in Slot BY <1>6, <1>i, Hands, Slots DEF Detach
  <2>2. PICK C \in Subsets(first[key[t]], Removed(t)) :
          first' = [first EXCEPT ![key[t]] = @ \ C]
    BY <1>6 DEF Detach
  <2>3. free' = [free EXCEPT ![key[t]] = @ - Removed(t)] BY <1>6 DEF Detach
  <2>4. /\ first[key[t]] \in SUBSET Block /\ C \in SUBSET Block
        /\ C \subseteq first[key[t]] /\ Cardinality(C) = Removed(t)
    BY <2>1, <1>i DEF IInv, Subsets
  <2>5. Cardinality(first[key[t]] \ C) = Cardinality(first[key[t]]) - Removed(t)
    BY <2>4, Counting
  <2> QED BY <2>1, <2>2, <2>3, <2>5, <1>i DEF IInv
<1>7. CASE Splice(t)
  <2>1. Active BY <1>7, <1>i, Hands DEF Splice
  <2>2. first' = [first EXCEPT ![0] = chain[t] \cup first[0]]
    BY <1>7, <1>i DEF IInv, Splice
  <2>3. free' = [free EXCEPT ![0] = @ + Cardinality(chain[t])]
    BY <1>7 DEF Splice
  <2>4. /\ first[0] \cap chain[t] = {}
        /\ first[0] \in SUBSET Block /\ chain[t] \in SUBSET Block
    BY <1>i, Slots DEF IInv
  <2>5. Cardinality(chain[t] \cup first[0]) =
          Cardinality(first[0]) + Cardinality(chain[t])
    BY <2>4, Counting
  <2> QED BY <2>1, <2>2, <2>3, <2>5, <1>i, Slots DEF IInv
<1>8. CASE DeallocReturn(t)
  <2>1. Active /\ key[t] \in Slot BY <1>8, <1>i, Hands, Slots DEF DeallocReturn
  <2>2. /\ first' = [first EXCEPT ![key[t]] = @ \cup {blk[t]}]
        /\ free' = [free EXCEPT ![key[t]] = @ + 1]
    BY <1>8 DEF DeallocReturn
  <2>3. blk[t] \in Block \ first[key[t]]
    BY <1>8, <1>i, <2>1, Hands DEF IInv, DeallocReturn
  <2>4. Cardinality(first[key[t]] \cup {blk[t]}) =
          Cardinality(first[key[t]]) + 1
    BY <2>1, <2>3, <1>i, Counting DEF IInv
  <2> QED BY <2>1, <2>2, <2>4, <1>i DEF IInv
<1>9. ASSUME NEW b \in Block, DeallocSingle(t, b) PROVE FreeCountExact'
  BY <1>9, <1>i, Hands, Slots, Counting DEF IInv, DeallocSingle
<1>10. ASSUME AllocCall(t) \/ OnceRun(t) \/ OncePass(t) \/ InitializeThrows(t) \/
            AllocId(t) \/
            AllocLock(t) \/ AllocUnlock(t) \/ AllocSingle(t) \/ BadAlloc(t) \/
            AllocReturn(t) \/ KeepAll(t) \/ WalkOff(t) \/ SpliceLock(t) \/
            DeallocLoad(t) \/ ThreadExit(t) \/ (\E b \in Block : DeallocCall(t,
            b))
      PROVE  FreeCountExact'
  BY <1>10, <1>0 DEF AllocCall, OnceRun, OncePass, InitializeThrows,
    AllocId, AllocLock,
    AllocUnlock, AllocSingle, BadAlloc, AllocReturn, KeepAll, WalkOff,
    SpliceLock, DeallocLoad, ThreadExit, DeallocCall
<1> QED BY <1>1, <1>2, <1>3, <1>4, <1>5, <1>6, <1>7, <1>8, <1>9, <1>10 DEF
  Begin, Continue

\* Every step keeps OwnerRecorded: the owners of the blocks in use.
LEMMA OwnerRecordedStep ==
  ASSUME IInv, [Next]_vars
  PROVE  OwnerRecorded'
<1> USE DEF Goto, TypeOK, OwnerRecorded, OnePlace, Progress, Holding, Outside,
  SinglePc, MyId
<1>i. IInv OBVIOUS
<1>0. CASE UNCHANGED <<live, blk, thread_id>>
  BY <1>0, <1>i DEF IInv
<1> SUFFICES ASSUME NEW t \in Thread, Begin(t) \/ Continue(t)
             PROVE  OwnerRecorded'
  BY <1>0 DEF Next, vars
<1>1. CASE Take(t)
  BY <1>1, <1>i, Hands, Slots, BlockAssumption DEF IInv, Take
<1>2. CASE AllocReturn(t)
  BY <1>2, <1>i, Hands, Slots, BlockAssumption DEF IInv, AllocReturn
<1>3. CASE TakeSingle(t)
  BY <1>3, <1>i, Hands, Slots, BlockAssumption DEF IInv, TakeSingle
<1>4. CASE DeallocReturn(t)
  BY <1>4, <1>i, Hands, Slots, BlockAssumption DEF IInv, DeallocReturn
<1>5. ASSUME NEW b \in Block, DeallocCall(t, b) PROVE OwnerRecorded'
  BY <1>5, <1>i, Hands, Slots, BlockAssumption DEF IInv, DeallocCall,
    GetThreadId
<1>6. ASSUME NEW b \in Block, DeallocSingle(t, b) PROVE OwnerRecorded'
  BY <1>6, <1>i, Hands, Slots, BlockAssumption DEF IInv, DeallocSingle
<1>7. ASSUME AllocCall(t) \/ OnceRun(t) \/ OncePass(t) \/ InitializeThrows(t) \/
            Initialize(t) \/
            AllocId(t) \/ AllocLock(t) \/ AllocUnlock(t) \/ Grab(t) \/
            AllocSingle(t) \/ NewChunk(t) \/ BadAlloc(t) \/ KeepAll(t) \/
            Detach(t) \/ WalkOff(t) \/ SpliceLock(t) \/ Splice(t) \/
            DeallocLoad(t) \/ ThreadExit(t)
      PROVE  OwnerRecorded'
  BY <1>7, <1>0 DEF AllocCall, OnceRun, OncePass, InitializeThrows,
    Initialize, AllocId,
    AllocLock, AllocUnlock, Grab, AllocSingle, NewChunk, BadAlloc, KeepAll,
    Detach, WalkOff, SpliceLock, Splice, DeallocLoad, ThreadExit
<1> QED BY <1>1, <1>2, <1>3, <1>4, <1>5, <1>6, <1>7 DEF Begin, Continue

-----------------------------------------------------------------------------

\* The initial states satisfy the inductive invariant.
LEMMA InitInv == Init => IInv
<1> SUFFICES ASSUME Init PROVE IInv
  OBVIOUS
<1> USE Slots, ThreadAssumption, BlockAssumption DEF Init
<1>1. TypeOK
  <2>1. 0 \in Size BY TuneAssumption DEF Size
  <2>2. used \in [Slot -> Size] /\ reg \in [Thread -> Size] BY <2>1
  <2>3. key \in [Thread -> Slot] /\ thread_id \in [Block -> Slot] OBVIOUS
  <2>4. /\ first \in [Slot -> SUBSET Block] /\ free \in [Slot -> Int]
        /\ chain \in [Thread -> SUBSET Block]
        /\ seen \in [Thread -> SUBSET Block]
        /\ blk \in [Thread -> Block \cup {NoBlock}] /\ pc \in [Thread -> Pc]
    BY DEF Pc
  <2> QED BY <2>2, <2>3, <2>4 DEF TypeOK
<1>2. Locking BY DEF Locking, Locked
<1>3. Progress
  BY DEF Progress, Holding, Chained, Outside, SinglePc
<1>4. Initialisation BY DEF Initialisation, InitOnce
<1>5. ThreadIdsExclusive BY DEF ThreadIdsExclusive
<1>6. Records BY DEF Records
<1>7. OnePlace BY DEF OnePlace
<1>8. NoBlockLost BY DEF NoBlockLost
<1>9. FreeCountExact BY Counting DEF FreeCountExact
<1>10. OwnerRecorded BY DEF OwnerRecorded
<1> QED BY <1>1, <1>2, <1>3, <1>4, <1>5, <1>6, <1>7, <1>8, <1>9, <1>10 DEF IInv

\* The inductive invariant holds in every reachable state.
THEOREM InvariantHolds == Spec => []IInv
<1>1. IInv /\ [Next]_vars => IInv'
  BY TypeOKStep, LockingStep, ProgressStep, InitialisationStep,
     ThreadIdsExclusiveStep, RecordsStep, OnePlaceStep, NoBlockLostStep,
     FreeCountExactStep, OwnerRecordedStep DEF IInv
<1> QED BY InitInv, <1>1, PTL DEF Spec

\* Every variable keeps its type.
THEOREM TypeCorrect == Spec => []TypeOK
<1>1. IInv => TypeOK BY DEF IInv
<1> QED BY <1>1, InvariantHolds, PTL

\* A block is never in two places: no two callers of allocate share a block.
THEOREM BlocksExclusive == Spec => []OnePlace
<1>1. IInv => OnePlace BY DEF IInv
<1> QED BY <1>1, InvariantHolds, PTL

\* No block is lost, whatever the threads do and whenever they exit.
THEOREM BlocksKept == Spec => []NoBlockLost
<1>1. IInv => NoBlockLost BY DEF IInv
<1> QED BY <1>1, InvariantHolds, PTL

\* _M_free is exactly the length of the free list, in every slot.
THEOREM ListLengthsExact == Spec => []FreeCountExact
<1>1. IInv => FreeCountExact BY DEF IInv
<1> QED BY <1>1, InvariantHolds, PTL

\* No two threads work under one thread id.
THEOREM RecordsExclusive == Spec => []ThreadIdsExclusive
<1>1. IInv => ThreadIdsExclusive BY DEF IInv
<1> QED BY <1>1, InvariantHolds, PTL

\* _S_initialize has one thread in it at a time, succeeds once, and has done so
\* before any thread works on the bins, however often it has thrown before.
THEOREM InitialisedOnce == Spec => []InitOnce
<1>1. IInv => InitOnce BY DEF IInv, Initialisation
<1> QED BY <1>1, InvariantHolds, PTL

\* Every block in use carries the id of a thread record.
THEOREM OwnersKnown == Spec => []OwnerRecorded
<1>1. IInv => OwnerRecorded BY DEF IInv
<1> QED BY <1>1, InvariantHolds, PTL

\* The pigeonhole behind "the list can never be empty": the ids in use by the
\* other threads are fewer than all ids.
LEMMA IdLeft ==
  ASSUME key \in [Thread -> Slot], NEW t \in Thread
  PROVE  \E id \in Id : \A u \in Thread \ {t} : key[u] # id
<1> DEFINE Others == Thread \ {t}
<1> DEFINE Taken == {key[u] : u \in Others}
<1>1. IsFiniteSet(Others) /\ Cardinality(Others) = Cardinality(Thread) - 1
  BY ThreadAssumption, FS_RemoveElement
<1>2. IsFiniteSet(Taken) /\ Cardinality(Taken) <= Cardinality(Others)
  <2> DEFINE f == [u \in Others |-> key[u]]
  <2>1. f \in Surjection(Others, Taken) BY DEF Surjection
  <2> QED BY <1>1, <2>1, FS_Surjection
<1>3. Cardinality(Id) = MaxThreads /\ IsFiniteSet(Id)
  BY FS_Interval, ThreadAssumption DEF Id
<1>4. ~(Id \subseteq Taken)
  <2>1. SUFFICES ASSUME Id \subseteq Taken PROVE FALSE OBVIOUS
  <2>2. Cardinality(Id) <= Cardinality(Taken) BY <1>2, <2>1, FS_Subset
  <2>3. /\ Cardinality(Taken) \in Nat /\ Cardinality(Others) \in Nat
        /\ Cardinality(Thread) \in Nat
    BY <1>1, <1>2, FS_CardinalityType, ThreadAssumption
  <2> QED BY <1>1, <1>2, <1>3, <2>2, <2>3, ThreadAssumption
<1> QED BY <1>4

\* "the list can never be empty": a thread without a record finds one, for
\* any number of threads up to _M_max_threads.
THEOREM RecordsSuffice == Spec => []RecordAvailable
<1>1. IInv => RecordAvailable
  <2> SUFFICES ASSUME IInv, Active, S_init, NEW t \in Thread, key[t] = 0
               PROVE  thread_freelist # {}
    BY DEF RecordAvailable
  <2>1. PICK id \in Id : \A u \in Thread \ {t} : key[u] # id
    BY IdLeft DEF IInv, TypeOK
  <2>2. \A u \in Thread : key[u] # id BY <2>1, Slots
  <2> QED BY <2>2 DEF IInv, Records
<1> QED BY <1>1, InvariantHolds, PTL

\* The list and the count of a thread's id change in its own steps only.
THEOREM OwnListsPrivate == Spec => OwnListPrivate
<1> DEFINE Kept(t) ==
      key[t] # 0 /\ pc'[t] = pc[t] /\ key'[t] = key[t] =>
        first'[key[t]] = first[key[t]] /\ free'[key[t]] = free[key[t]]
<1>1. ASSUME IInv, [Next]_vars, NEW t \in Thread PROVE Kept(t)
  <2>i. IInv BY <1>1
  <2>0. CASE UNCHANGED <<first, free>> BY <2>0
  <2> SUFFICES ASSUME NEW u \in Thread, Begin(u) \/ Continue(u) PROVE Kept(t)
    BY <1>1, <2>0 DEF Next, vars
  <2> USE DEF Goto, TypeOK, ThreadIdsExclusive, Progress, Outside, SinglePc,
              MyId, Initialisation, InitOnce
  <2>1. CASE Initialize(u) BY <2>1, <2>i, Slots DEF IInv, Initialize
  <2>2. CASE Grab(u) BY <2>2, <2>i, Slots, Hands DEF IInv, Grab
  <2>3. CASE NewChunk(u) BY <2>3, <2>i, Slots, Hands DEF IInv, NewChunk
  <2>4. CASE Take(u) BY <2>4, <2>i, Slots, Hands DEF IInv, Take
  <2>5. CASE TakeSingle(u) BY <2>5, <2>i, Slots, Hands DEF IInv, TakeSingle
  <2>6. CASE Detach(u) BY <2>6, <2>i, Slots, Hands DEF IInv, Detach
  <2>7. CASE Splice(u) BY <2>7, <2>i, Slots, Hands DEF IInv, Splice
  <2>8. CASE DeallocReturn(u)
    BY <2>8, <2>i, Slots, Hands DEF IInv, DeallocReturn
  <2>9. ASSUME NEW b \in Block, DeallocSingle(u, b) PROVE Kept(t)
    BY <2>9, <2>i, Slots, Hands DEF IInv, DeallocSingle
  <2>10. ASSUME AllocCall(u) \/ OnceRun(u) \/ OncePass(u) \/ InitializeThrows(u)
                \/ AllocId(u)
                \/ AllocLock(u) \/ AllocUnlock(u) \/ AllocSingle(u)
                \/ BadAlloc(u) \/ AllocReturn(u) \/ KeepAll(u) \/ WalkOff(u)
                \/ SpliceLock(u) \/ DeallocLoad(u) \/ ThreadExit(u)
                \/ \E b \in Block : DeallocCall(u, b)
         PROVE  Kept(t)
    BY <2>10, <2>0 DEF AllocCall, OnceRun, OncePass, InitializeThrows,
      AllocId, AllocLock,
      AllocUnlock, AllocSingle, BadAlloc, AllocReturn, KeepAll, WalkOff,
      SpliceLock, DeallocLoad, ThreadExit, DeallocCall
  <2> QED BY <2>1, <2>2, <2>3, <2>4, <2>5, <2>6, <2>7, <2>8, <2>9, <2>10
          DEF Begin, Continue
<1>2. IInv /\ [Next]_vars => [\A t \in Thread : Kept(t)]_vars BY <1>1
<1> QED BY <1>2, InvariantHolds, PTL DEF Spec, OwnListPrivate

\* What is not with the program is inside the allocator.
LEMMA InsideIsRest == IInv => Inside = Block \ live
<1> SUFFICES ASSUME IInv PROVE Inside = Block \ live OBVIOUS
<1> USE DEF IInv, TypeOK, OnePlace, NoBlockLost, Inside
<1>1. ASSUME NEW b \in Inside PROVE b \in Block /\ b \notin live
  BY <1>1, BlockAssumption
<1>2. ASSUME NEW b \in Block \ live PROVE b \in Inside
  BY <1>2, BlockAssumption
<1> QED BY <1>1, <1>2

\* The allocator implements the pool of blocks its users know.
THEOREM PoolImplemented == Spec => ImplementsPool
<1>1. Init => Pool!Init
  <2> SUFFICES ASSUME Init PROVE Inside = Block /\ live = {} BY DEF Pool!Init
  <2>1. IInv BY InitInv
  <2> QED BY <2>1, InsideIsRest DEF Init
<1>2. ASSUME IInv, [Next]_vars, IInv' PROVE [Pool!Next]_<<live, Inside>>
  <2>i. IInv BY <1>2
  <2>a. Inside = Block \ live BY <1>2, InsideIsRest
  <2>b. Inside' = Block \ live'
    <3>1. (Inside = Block \ live)' BY <1>2, InsideIsRest, PTL
    <3> QED BY <3>1
  <2>0. CASE UNCHANGED live BY <2>0, <2>a, <2>b
  <2> SUFFICES ASSUME NEW t \in Thread, Begin(t) \/ Continue(t)
               PROVE  [Pool!Next]_<<live, Inside>>
    BY <1>2, <2>0 DEF Next, vars
  <2> USE DEF Pool!Next, Pool!allocate, Pool!deallocate
  <2>c. ASSUME NEW b \in Block \ live, live' = live \cup {b} PROVE Pool!Next
    <3>1. b \in Inside /\ Inside' = Inside \ {b} BY <2>c, <2>a, <2>b
    <3> QED BY <2>c, <3>1
  <2>d. ASSUME NEW b \in Block, b \in live, live' = live \ {b} PROVE Pool!Next
    <3>1. Inside' = Inside \cup {b} BY <2>d, <2>a, <2>b
    <3> QED BY <2>d, <3>1
  <2>1. CASE AllocReturn(t)
    <3>1. blk[t] \in Block \ live /\ live' = live \cup {blk[t]}
      BY <2>1, <2>i, Hands DEF IInv, OnePlace, AllocReturn, Goto, Holding
    <3> QED BY <3>1, <2>c
  <2>2. CASE TakeSingle(t)
    <3>1. \E b \in Block \ live : live' = live \cup {b}
      BY <2>2, <2>i, Slots DEF IInv, TypeOK, OnePlace, TakeSingle
    <3> QED BY <3>1, <2>c
  <2>3. ASSUME NEW b \in Block, DeallocCall(t, b) \/ DeallocSingle(t, b)
        PROVE  Pool!Next
    <3>1. b \in live /\ live' = live \ {b} BY <2>3 DEF DeallocCall, DeallocSingle
    <3> QED BY <3>1, <2>d
  <2>4. ASSUME AllocCall(t) \/ OnceRun(t) \/ OncePass(t) \/ InitializeThrows(t)
               \/ Initialize(t)
               \/ AllocId(t) \/ AllocLock(t) \/ AllocUnlock(t) \/ Grab(t)
               \/ AllocSingle(t) \/ NewChunk(t) \/ BadAlloc(t) \/ Take(t)
               \/ KeepAll(t) \/ Detach(t) \/ WalkOff(t) \/ SpliceLock(t)
               \/ Splice(t) \/ DeallocLoad(t) \/ DeallocReturn(t)
               \/ ThreadExit(t)
        PROVE  [Pool!Next]_<<live, Inside>>
    BY <2>4, <2>0 DEF AllocCall, OnceRun, OncePass, InitializeThrows,
      Initialize, AllocId,
      AllocLock, AllocUnlock, Grab, AllocSingle, NewChunk, BadAlloc, Take,
      KeepAll, Detach, WalkOff, SpliceLock, Splice, DeallocLoad,
      DeallocReturn, ThreadExit
  <2> QED BY <2>1, <2>2, <2>3, <2>4 DEF Begin, Continue
<1> QED BY <1>1, <1>2, InvariantHolds, PTL DEF Spec, Pool!Spec, ImplementsPool

-----------------------------------------------------------------------------
(* Threads that take turns. *)

Busy == {"dealloc", "dealloc_lock", "dealloc_locked", "dealloc_load",
         "dealloc_store"}

\* The blocks of an id that are in use, or that deallocate has not counted yet.
InUse(id) ==
  {b \in Block : /\ thread_id[b] = id
                 /\ b \in live \/ \E t \in Thread : pc[t] \in Busy /\ blk[t] = b}

Counted ==
  Active /\ S_init => \A id \in Id : used[id] = Cardinality(InUse(id))

\* The counter that a call has loaded is still what it was.
Loaded ==
  \A t \in Thread :
    /\ pc[t] = "alloc_used" =>
         thread_id[blk[t]] = key[t] /\ reg[t] = used[key[t]]
    /\ pc[t] = "dealloc_store" => reg[t] = used[thread_id[blk[t]]]

Turns == \A t, u \in Thread : t # u => pc[t] = "idle" \/ pc[u] = "idle"

SerialInv == Turns /\ Loaded /\ Counted /\ NoWalkOff

\* There are fewer blocks than half a size_t has values.
Roomy == 2 * Cardinality(Block) <= WordSize

\* Counters up to that are what they count.
LEMMA NoWrap ==
  ASSUME Roomy, NEW n \in Nat, n <= Cardinality(Block)
  PROVE  Word(n) = n
<1>1. Cardinality(Block) \in Nat
  BY Finiteness
<1>2. n < WordSize
  BY <1>1, TuneAssumption DEF Roomy
<1> QED BY <1>2, TuneAssumption DEF Word

\* A step that moves no block and no counter.
LEMMA Quiet ==
  ASSUME IInv, Counted, UNCHANGED <<S_init, live, thread_id, used, blk>>,
         NEW t \in Thread, \A u \in Thread : u # t => pc'[u] = pc[u],
         pc[t] \in Busy <=> pc'[t] \in Busy
  PROVE  Counted'
<1>1. \A u \in Thread : pc[u] \in Busy <=> pc'[u] \in Busy
  OBVIOUS
<1>2. \A id \in Id : InUse(id)' = InUse(id)
  BY <1>1 DEF InUse
<1> QED BY <1>2 DEF Counted

\* While threads take turns, the number to hand back is at most what there is.
LEMMA RemovedFits ==
  ASSUME IInv, Counted, Roomy, NEW t \in Thread, pc[t] = "dealloc"
  PROVE  Removed(t) <= Cardinality(first[key[t]])
<1> DEFINE f == free[key[t]]
           n == used[key[t]]
           W == WordSize
<1>1. Active /\ key[t] \in Id /\ S_init
  BY Hands DEF SinglePc, Outside, IInv, Initialisation, InitOnce
<1>2. f = Cardinality(first[key[t]]) /\ f \in Nat
  BY <1>1, Slots, Finiteness DEF IInv, FreeCountExact, TypeOK
<1>3. n \in Nat /\ 2 * n <= W
  <2>1. InUse(key[t]) \subseteq Block
    BY DEF InUse
  <2>2. Cardinality(InUse(key[t])) <= Cardinality(Block)
    BY <2>1, FS_Subset, BlockAssumption
  <2>3. Cardinality(InUse(key[t])) \in Nat /\ Cardinality(Block) \in Nat
    BY <2>1, Finiteness
  <2>4. n = Cardinality(InUse(key[t]))
    BY <1>1 DEF Counted
  <2> QED BY <2>2, <2>3, <2>4, TuneAssumption DEF Roomy
<1> PICK d \in Nat : d = f * Headroom
  BY <1>2, TuneAssumption
<1>4. W \in Nat /\ W > 1
  BY TuneAssumption
<1>5. Remove(t) <= d /\ Remove(t) \in Int
  <2> HIDE DEF f, n, W
  <2>1. Remove(t) = ToLong(Word(d - n))
    BY DEF Remove, f, n
  <2>2. PICK m \in 0 .. W - 1 : m = (d - n) % W
    BY <1>3, <1>4
  <2>3. Remove(t) = IF m >= W \div 2 THEN m - W ELSE m
    BY <2>1, <2>2 DEF Word, ToLong, W
  <2>4. CASE d >= n
    <3>1. m <= d - n
      <4>1. PICK k \in Nat : k = d - n
        BY <1>3, <2>4
      <4>2. k % W <= k
        BY <1>4
      <4> QED BY <2>2, <4>1, <4>2
    <3> QED BY <1>3, <1>4, <2>3, <3>1
  <2>5. CASE d < n
    <3>1. m = d - n + W
      <4>1. d - n + W \in 0 .. W - 1
        BY <1>3, <1>4, <2>5
      <4>2. (d - n) % W = d - n + W
        BY <1>3, <1>4, <2>5, <4>1
      <4> QED BY <2>2, <4>2
    <3>2. m >= W \div 2
      BY <1>3, <1>4, <2>5, <3>1
    <3> QED BY <1>3, <1>4, <2>3, <2>5, <3>1, <3>2
  <2> QED BY <1>3, <2>4, <2>5
<1>6. Remove(t) \div Headroom <= f
  <2> PICK r \in Int : r = Remove(t)
    BY <1>5
  <2> PICK q \in Int : q = r \div Headroom
    BY TuneAssumption
  <2>1. q * Headroom <= r
    BY TuneAssumption
  <2>2. q * Headroom <= f * Headroom
    BY <1>2, <1>5, <2>1, TuneAssumption
  <2> HIDE DEF f
  <2>3. q > f => q * Headroom > f * Headroom
    BY <1>2, TuneAssumption
  <2> QED BY <1>2, <2>2, <2>3, TuneAssumption
<1> QED BY <1>2, <1>6 DEF Removed

\* Every step of the one thread that is in a call keeps SerialInv.
LEMMA SerialStep ==
  ASSUME IInv, IInv', SerialInv, Roomy, NEW t \in Thread,
         \A u \in Thread : u # t => pc[u] = "idle",
         Begin(t) \/ Continue(t)
  PROVE  SerialInv'
<1>i. IInv
  OBVIOUS
<1>c. Counted /\ Loaded /\ NoWalkOff
  BY DEF SerialInv
<1>1. /\ pc'[t] \in Pc
      /\ \A u \in Thread : u # t => pc'[u] = "idle"
  <2>1. pc' \in [Thread -> Pc]
    BY DEF IInv, TypeOK
  <2>2. \A u \in Thread : u # t => pc'[u] = pc[u]
    BY <1>i DEF IInv, TypeOK, Begin, Continue, Goto, AllocCall, OnceRun, OncePass, InitializeThrows,
      
      Initialize, AllocId, AllocLock, AllocUnlock, Grab, AllocSingle, NewChunk,
      BadAlloc, Take, AllocReturn, TakeSingle, KeepAll, Detach, WalkOff,
      SpliceLock, Splice, DeallocLoad, DeallocReturn, DeallocCall, DeallocSingle,
      ThreadExit
  <2> QED BY <2>1, <2>2
<1>2. Turns'
  BY <1>1 DEF Turns
<1>o. \A u \in Thread : u # t => pc'[u] = pc[u]
  BY <1>1
<1>f. \A u \in Thread : u # t => pc[u] \notin Busy /\ pc'[u] \notin Busy
  BY <1>1 DEF Busy
<1>3. Loaded' /\ NoWalkOff'
  <2> SUFFICES /\ pc'[t] # "fault"
               /\ pc'[t] = "alloc_used" => (thread_id[blk[t]] = key[t] /\ reg[t] = used[key[t]])'
               /\ pc'[t] = "dealloc_store" => (reg[t] = used[thread_id[blk[t]]])'
    BY <1>1 DEF Loaded, NoWalkOff
  <2> USE DEF IInv, TypeOK, Goto
  <2>1. ASSUME WalkOff(t) PROVE FALSE
    <3>1. pc[t] = "dealloc" /\ Removed(t) > Cardinality(first[key[t]])
      BY <2>1 DEF WalkOff
    <3>2. Removed(t) <= Cardinality(first[key[t]])
      BY <1>i, <1>c, <3>1, RemovedFits
    <3>3. Removed(t) \in Int /\ Cardinality(first[key[t]]) \in Int
      BY <1>i, RemovedInt, Finiteness
    <3> HIDE DEF IInv, TypeOK
    <3> QED BY <3>1, <3>2, <3>3
  <2>2. CASE Take(t)
    BY <1>i, <2>2, Hands, Slots DEF Take
  <2>3. CASE DeallocLoad(t)
    BY <1>i, <2>3, Hands DEF DeallocLoad
  <2>4. CASE ThreadExit(t)
    BY <1>i, <2>4 DEF ThreadExit
  <2>5. ASSUME NEW b \in Block, DeallocCall(t, b) \/ DeallocSingle(t, b)
        PROVE  pc'[t] \notin {"fault", "alloc_used", "dealloc_store"}
    BY <1>i, <2>5 DEF DeallocCall, DeallocSingle
  <2>6. ASSUME AllocCall(t) \/ OnceRun(t) \/ OncePass(t) \/ InitializeThrows(t)
               \/ Initialize(t)
               \/ AllocId(t) \/ AllocLock(t) \/ AllocUnlock(t) \/ Grab(t)
               \/ AllocSingle(t) \/ NewChunk(t) \/ BadAlloc(t) \/ AllocReturn(t)
               \/ TakeSingle(t) \/ KeepAll(t) \/ Detach(t) \/ SpliceLock(t)
               \/ Splice(t) \/ DeallocReturn(t)
        PROVE  pc'[t] \notin {"fault", "alloc_used", "dealloc_store"}
    BY <1>i, <2>6 DEF AllocCall, OnceRun, OncePass, InitializeThrows,
      Initialize, AllocId, AllocLock,
      AllocUnlock, Grab, AllocSingle, NewChunk, BadAlloc, AllocReturn, TakeSingle,
      KeepAll, Detach, SpliceLock, Splice, DeallocReturn
  <2> HIDE DEF IInv, TypeOK, Goto
  <2> QED BY <2>1, <2>2, <2>3, <2>4, <2>5, <2>6 DEF Begin, Continue
<1>4. Counted'
  <2> USE DEF Goto, Busy
  <2>t. pc \in [Thread -> Pc] /\ S_init' \in BOOLEAN
    BY <1>i DEF IInv, TypeOK
  <2>1. CASE \/ AllocCall(t) \/ OnceRun(t) \/ OncePass(t) \/ InitializeThrows(t)
             \/ AllocId(t)
             \/ AllocLock(t) \/ AllocUnlock(t) \/ Grab(t) \/ AllocSingle(t)
             \/ NewChunk(t) \/ BadAlloc(t) \/ KeepAll(t) \/ Detach(t)
             \/ SpliceLock(t) \/ Splice(t) \/ DeallocLoad(t)
    <3>1. /\ UNCHANGED <<S_init, live, thread_id, used, blk>>
          /\ pc[t] \in Busy <=> pc'[t] \in Busy
      BY <2>t, <2>1 DEF AllocCall, OnceRun, OncePass, InitializeThrows,
        AllocId, AllocLock, AllocUnlock,
        Grab, AllocSingle, NewChunk, BadAlloc, KeepAll, Detach, SpliceLock, Splice,
        DeallocLoad
    <3> QED BY <1>i, <1>c, <1>o, <3>1, Quiet
  <2>2. CASE ThreadExit(t)
    <3>1. UNCHANGED <<S_init, live, thread_id, used, blk, pc>>
      BY <2>2 DEF ThreadExit
    <3> QED BY <1>i, <1>c, <3>1, Quiet
  <2>3. CASE TakeSingle(t) \/ \E b \in Block : DeallocSingle(t, b)
    <3>1. ~Active
      BY <2>3 DEF TakeSingle, DeallocSingle
    <3> QED BY <3>1 DEF Counted
  <2>4. ASSUME WalkOff(t) PROVE FALSE
    BY <1>3, <2>4, <2>t DEF WalkOff, NoWalkOff
  <2>5. CASE Initialize(t)
    <3>1. live' = {}
      <4>1. live \cap Block = {} /\ live \subseteq Block
        BY <1>i, <2>5 DEF IInv, TypeOK, OnePlace, Initialisation, InitOnce, Initialize
      <4> QED BY <2>5, <4>1 DEF Initialize
    <3>2. pc'[t] \notin Busy
      BY <2>5, <2>t DEF Initialize
    <3>3. \A id \in Id : InUse(id)' = {}
      BY <1>f, <3>1, <3>2 DEF InUse
    <3>4. \A id \in Id : used'[id] = 0
      BY <2>5, Slots DEF Initialize
    <3> QED BY <3>3, <3>4, Counting DEF Counted
  <2>6. CASE Take(t)
    <3>1. PICK b \in first[key[t]] : thread_id' = [thread_id EXCEPT ![b] = key[t]]
      BY <2>6 DEF Take
    <3>2. UNCHANGED <<S_init, live, used>>
      BY <2>6 DEF Take
    <3>3. b \in Block /\ b \notin live
      BY <1>i, <2>6, <3>1, Hands, Slots DEF IInv, TypeOK, OnePlace, Outside, SinglePc, Take
    <3>4. pc[t] \notin Busy /\ pc'[t] \notin Busy
      BY <2>6, <2>t DEF Take
    <3>5. \A c \in Block : c # b => thread_id'[c] = thread_id[c]
      BY <1>i, <3>1 DEF IInv, TypeOK
    <3>6. \A id \in Id : InUse(id)' = InUse(id)
      BY <1>f, <3>2, <3>3, <3>4, <3>5 DEF InUse
    <3> QED BY <1>c, <3>2, <3>6 DEF Counted
  <2>7. CASE AllocReturn(t)
    <3> PICK b : b = blk[t]
      OBVIOUS
    <3> PICK k : k = key[t]
      OBVIOUS
    <3>1. /\ Active /\ k \in Id /\ b \in Block
          /\ thread_id[b] = k /\ reg[t] = used[k]
      BY <1>i, <1>c, <2>7, Hands DEF Loaded, AllocReturn, SinglePc, Outside, Holding
    <3>2. b \notin live
      BY <1>i DEF IInv, OnePlace
    <3>3. /\ UNCHANGED <<S_init, thread_id>> /\ live' = live \cup {b}
          /\ used' = [used EXCEPT ![k] = Word(reg[t] + 1)]
      BY <2>7 DEF AllocReturn
    <3>4. pc[t] \notin Busy /\ pc'[t] \notin Busy
      BY <2>7, <2>t DEF AllocReturn
    <3>5. InUse(k)' = InUse(k) \cup {b} /\ b \notin InUse(k)
      <4>1. b \notin InUse(k)
        BY <1>f, <3>2, <3>4 DEF InUse
      <4>2. ASSUME NEW c \in Block
            PROVE  c \in InUse(k)' <=> c \in InUse(k) \/ c = b
        BY <1>f, <3>1, <3>3, <3>4 DEF InUse
      <4>3. InUse(k) \subseteq Block /\ InUse(k)' \subseteq Block
        BY DEF InUse
      <4> QED BY <3>1, <4>1, <4>2, <4>3
    <3>6. \A id \in Id : id # k => InUse(id)' = InUse(id)
      BY <1>f, <3>1, <3>3, <3>4 DEF InUse
    <3>7. Cardinality(InUse(k)') = Cardinality(InUse(k)) + 1
      <4>1. InUse(k) \subseteq Block
        BY DEF InUse
      <4> QED BY <3>1, <3>5, <4>1, Counting
    <3>8. ASSUME S_init PROVE Word(reg[t] + 1) = Cardinality(InUse(k)')
      <4>1. InUse(k)' \subseteq Block
        BY DEF InUse
      <4>2. /\ Cardinality(InUse(k)') <= Cardinality(Block)
            /\ Cardinality(InUse(k)') \in Nat
        BY <4>1, Finiteness, FS_Subset, BlockAssumption
      <4>3. reg[t] + 1 = Cardinality(InUse(k)')
        BY <1>c, <3>1, <3>7, <3>8 DEF Counted
      <4> QED BY <4>2, <4>3, NoWrap
    <3>9. used \in [Slot -> Size]
      BY <1>i DEF IInv, TypeOK
    <3>10. ASSUME NEW j \in Id, S_init PROVE used'[j] = Cardinality(InUse(j)')
      <4>1. CASE j = k
        BY <3>1, <3>3, <3>8, <3>9, <3>10, <4>1, Slots
      <4>2. CASE j # k
        BY <1>c, <3>1, <3>3, <3>6, <3>9, <3>10, <4>2, Slots DEF Counted
      <4> QED BY <4>1, <4>2
    <3> QED BY <3>3, <3>10 DEF Counted
  <2>8. ASSUME NEW b \in Block, DeallocCall(t, b) PROVE Counted'
    <3>1. /\ UNCHANGED <<S_init, thread_id, used>> /\ live' = live \ {b} /\ b \in live
          /\ pc'[t] = "dealloc" /\ pc[t] = "idle"
      BY <2>8, <2>t DEF DeallocCall
    <3>2. blk'[t] = b
      BY <1>i, <2>8 DEF IInv, TypeOK, DeallocCall
    <3>3. \A id \in Id : InUse(id)' = InUse(id)
      BY <1>f, <3>1, <3>2 DEF InUse
    <3> QED BY <1>c, <3>1, <3>3 DEF Counted
  <2>9. CASE DeallocReturn(t)
    <3> PICK b : b = blk[t]
      OBVIOUS
    <3> PICK id : id = thread_id[b]
      OBVIOUS
    <3>1. Active /\ key[t] \in Id /\ b \in Block
      BY <1>i, <2>9, Hands DEF DeallocReturn, SinglePc, Outside, Holding
    <3>2. id \in Id /\ b \notin live
      BY <1>i, <3>1, BlockAssumption DEF IInv, OnePlace, OwnerRecorded
    <3>3. /\ UNCHANGED <<S_init, live>> /\ thread_id' = [thread_id EXCEPT ![b] = 0]
          /\ used' = [used EXCEPT ![id] = Word(reg[t] - 1)]
          /\ reg[t] = used[id]
      BY <1>c, <2>9 DEF DeallocReturn, Loaded
    <3>4. pc[t] = "dealloc_store" /\ pc'[t] = "idle"
      BY <2>9, <2>t DEF DeallocReturn
    <3>5. thread_id'[b] = 0 /\ \A c \in Block : c # b => thread_id'[c] = thread_id[c]
      BY <1>i, <3>1, <3>3 DEF IInv, TypeOK
    <3>6. \A j \in Id : InUse(j)' = InUse(j) \ {b}
      BY <1>f, <3>2, <3>3, <3>4, <3>5, Slots DEF InUse
    <3>7. b \in InUse(id) /\ \A j \in Id : j # id => b \notin InUse(j)
      BY <3>1, <3>2, <3>4 DEF InUse
    <3>8. \A j \in Id : j # id => InUse(j)' = InUse(j)
      BY <3>6, <3>7
    <3>9. ASSUME S_init PROVE Word(reg[t] - 1) = Cardinality(InUse(id)')
      <4>1. InUse(id) \subseteq Block
        BY DEF InUse
      <4>2. Cardinality(InUse(id) \ {b}) = Cardinality(InUse(id)) - 1
        BY <3>7, <4>1, Counting
      <4>3. /\ Cardinality(InUse(id)) <= Cardinality(Block)
            /\ Cardinality(Block) \in Nat /\ Cardinality(InUse(id)) \in Nat
            /\ Cardinality(InUse(id) \ {b}) \in Nat
        BY <4>1, Finiteness, FS_Subset, BlockAssumption
      <4>4. reg[t] = Cardinality(InUse(id))
        BY <1>c, <3>1, <3>2, <3>3, <3>9 DEF Counted
      <4>5. InUse(id)' = InUse(id) \ {b}
        BY <3>2, <3>6
      <4> QED BY <4>2, <4>3, <4>4, <4>5, NoWrap
    <3>10. used \in [Slot -> Size]
      BY <1>i DEF IInv, TypeOK
    <3>11. ASSUME NEW j \in Id, S_init PROVE used'[j] = Cardinality(InUse(j)')
      <4>1. CASE j = id
        BY <3>2, <3>3, <3>9, <3>10, <3>11, <4>1, Slots
      <4>2. CASE j # id
        BY <1>c, <3>1, <3>3, <3>8, <3>10, <3>11, <4>2, Slots DEF Counted
      <4> QED BY <4>1, <4>2
    <3> QED BY <3>3, <3>11 DEF Counted
  <2> QED BY <2>1, <2>2, <2>3, <2>4, <2>5, <2>6, <2>7, <2>8, <2>9 DEF Begin, Continue
<1> QED BY <1>2, <1>3, <1>4 DEF SerialInv

\* A step of either program is one of the allocator's.
LEMMA SerialIsNext ==
  [SerialNext]_<<vars, serial>> => [Next]_vars /\ serial' = serial
BY DEF SerialNext, Next

ByTurns == serial \in BOOLEAN /\ (serial => SerialInv)

\* Turn by turn, everything in SerialInv is kept, as is IInv.
LEMMA SerialInvariant ==
  ASSUME Roomy PROVE SerialSpec => [](IInv /\ ByTurns)
<1>1. SerialInit => IInv /\ ByTurns
  <2> SUFFICES ASSUME SerialInit PROVE IInv /\ SerialInv
    BY DEF ByTurns, SerialInit
  <2>1. IInv
    BY InitInv DEF SerialInit
  <2>2. Turns /\ Loaded /\ Counted /\ NoWalkOff
    BY DEF SerialInit, Init, Turns, Loaded, Counted, NoWalkOff
  <2> QED BY <2>1, <2>2 DEF SerialInv
<1>2. IInv /\ [SerialNext]_<<vars, serial>> => IInv'
  BY SerialIsNext, TypeOKStep, LockingStep, ProgressStep, InitialisationStep,
    ThreadIdsExclusiveStep, RecordsStep, OnePlaceStep, NoBlockLostStep,
    FreeCountExactStep, OwnerRecordedStep DEF IInv
<1>3. IInv /\ ByTurns /\ [SerialNext]_<<vars, serial>> => ByTurns'
  <2>1. ASSUME IInv, SerialInv, serial, [SerialNext]_<<vars, serial>>
        PROVE  SerialInv'
    <3>1. CASE UNCHANGED <<vars, serial>>
      BY <2>1, <3>1 DEF vars, SerialInv, Turns, Loaded, Counted, InUse, NoWalkOff
    <3>2. ASSUME NEW t \in Thread, \A u \in Thread \ {t} : pc[u] = "idle",
                 Begin(t) \/ Continue(t)
          PROVE  SerialInv'
      BY <1>2, <2>1, <3>2, SerialStep
    <3> QED BY <2>1, <3>1, <3>2 DEF SerialNext
  <2>2. [SerialNext]_<<vars, serial>> => serial' = serial
    BY SerialIsNext
  <2> QED BY <2>1, <2>2 DEF ByTurns
<1> QED BY <1>1, <1>2, <1>3, PTL DEF SerialSpec

\* _M_used counts the blocks in use of each id, when threads take turns,
\* whatever they give back for each other and whoever inherits the id.
THEOREM UsedCountsExact == ASSUME Roomy PROVE SerialSpec => []UsedCountExactSerial
<1>1. ASSUME IInv, SerialInv PROVE UsedCountExact
  <2> SUFFICES ASSUME Active, S_init, \A t \in Thread : pc[t] = "idle", NEW id \in Id
               PROVE  used[id] = Cardinality({b \in live : thread_id[b] = id})
    BY DEF UsedCountExact
  <2>1. InUse(id) = {b \in live : thread_id[b] = id}
    BY <1>1 DEF InUse, Busy, IInv, TypeOK
  <2> QED BY <1>1, <2>1 DEF SerialInv, Counted
<1>2. IInv /\ ByTurns => UsedCountExactSerial
  BY <1>1 DEF ByTurns, UsedCountExactSerial
<1> QED BY <1>2, SerialInvariant, PTL

\* Nor does the walk in deallocate leave the list then.
THEOREM WalkStays == ASSUME Roomy PROVE SerialSpec => []NoWalkOffSerial
<1>1. IInv /\ ByTurns => NoWalkOffSerial
  BY DEF ByTurns, SerialInv, NoWalkOffSerial
<1> QED BY <1>1, SerialInvariant, PTL
=============================================================================

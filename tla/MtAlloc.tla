------------------------------- MODULE MtAlloc -------------------------------
(***************************************************************************)
(* One bin of the multi-thread allocator __gnu_cxx::__mt_alloc             *)
(* (ext/mt_allocator.h): a free list for every thread id, the global free  *)
(* list of slot 0 behind the bin's mutex, the unlocked counters _M_free    *)
(* and _M_used, the list of thread records, and the one-time               *)
(* initialisation behind __gthread_once.                                   *)
(*                                                                         *)
(* All bins run this code on disjoint state, so one bin is modelled; a     *)
(* request above _M_max_bytes, or with _M_force_new, goes straight to      *)
(* operator new and never reaches a bin.  A free list is the set of its    *)
(* blocks: the code is indifferent to their order.                         *)
(*                                                                         *)
(* A step is atomic up to its one access to memory that another thread     *)
(* writes: the mutex, the global list, a counter of _M_used.               *)
(***************************************************************************)
EXTENDS Integers, FiniteSets

CONSTANTS
  Thread,      \* threads of the program; one that exits may be started again
  Block,       \* the blocks that operator new can supply for this bin
  MaxThreads,  \* _M_max_threads: how many thread records there are
  BlockCount,  \* __block_count: blocks in one chunk
  Headroom,    \* _M_freelist_headroom
  Slack,       \* 100 * (_S_bin_size - __which)
  WordSize,    \* 2^w for the w bits of a size_t and of a long
  Active,      \* __gthread_active_p(): libpthread is linked in
  NoBlock, NoThread

ASSUME ThreadAssumption ==
  /\ IsFiniteSet(Thread)
  /\ NoThread \notin Thread
  /\ MaxThreads \in Nat \ {0}
  /\ Cardinality(Thread) <= MaxThreads
  /\ Active \in BOOLEAN
  /\ Active \/ Cardinality(Thread) = 1

ASSUME BlockAssumption ==
  /\ IsFiniteSet(Block)
  /\ NoBlock \notin Block
  /\ BlockCount \in Nat \ {0}

ASSUME TuneAssumption ==
  /\ Headroom \in Nat \ {0}
  /\ Slack \in Nat \ {0}
  /\ WordSize \in Nat \ {0, 1}

VARIABLES
  once,             \* _S_once, the control word of __gthread_once
  S_init,           \* _S_init
  thread_freelist,  \* ids on _S_thread_freelist_first
  key,              \* key[t]: id in the record at _S_thread_key, 0 for NULL
  heap,             \* blocks operator new has not handed out yet
  first,            \* _M_first: the free list of each slot
  free,             \* _M_free: the recorded length of each free list
  used,             \* _M_used: the recorded number of blocks in use per id
  thread_id,        \* _M_thread_id of a block, 0 once _M_next overwrites it
  mutex,            \* holder of the bin's _M_mutex
  live,             \* blocks in the hands of the program
  pc,               \* where each thread is
  blk,              \* __block of the thread's call
  chain,            \* the records from __first to __tmp, cut off the list
  seen,             \* the global list as read inside the critical section
  reg               \* the counter of _M_used as loaded, before it is stored

vars == <<once, S_init, thread_freelist, key, heap, first, free, used,
          thread_id, mutex, live, pc, blk, chain, seen, reg>>

Id == 1 .. MaxThreads
Slot == 0 .. MaxThreads
Size == 0 .. (WordSize - 1)

\* The value of a size_t.
Word(n) == n % WordSize

\* What _S_get_thread_id returns once the key is set.
MyId(t) == IF Active THEN key[t] ELSE 0

\* The conversion of a size_t to a long.
ToLong(n) == IF n >= WordSize \div 2 THEN n - WordSize ELSE n

Subsets(S, n) == {C \in SUBSET S : Cardinality(C) = n}

Goto(t, from, to) == pc[t] = from /\ pc' = [pc EXCEPT ![t] = to]

-----------------------------------------------------------------------------

Init ==
  /\ once = "new"
  /\ S_init = FALSE
  /\ thread_freelist = {}
  /\ key = [t \in Thread |-> 0]
  /\ heap = Block
  /\ first = [s \in Slot |-> {}]
  /\ free = [s \in Slot |-> 0]
  /\ used = [s \in Slot |-> 0]
  /\ thread_id = [b \in Block |-> 0]
  /\ mutex = NoThread
  /\ live = {}
  /\ pc = [t \in Thread |-> "idle"]
  /\ blk = [t \in Thread |-> NoBlock]
  /\ chain = [t \in Thread |-> {}]
  /\ seen = [t \in Thread |-> {}]
  /\ reg = [t \in Thread |-> 0]

\* allocate: the unlocked test of _S_init.
AllocCall(t) ==
  /\ Goto(t, "idle", CASE S_init -> "alloc_id"
                       [] ~S_init /\ Active -> "once"
                       [] ~S_init /\ ~Active -> "init")
  /\ UNCHANGED <<once, S_init, thread_freelist, key, heap, first, free, used,
                 thread_id, mutex, live, blk, chain, seen, reg>>

\* __gthread_once: the first caller runs _S_initialize ...
OnceRun(t) ==
  /\ Goto(t, "once", "init")
  /\ once = "new"
  /\ once' = "running"
  /\ UNCHANGED <<S_init, thread_freelist, key, heap, first, free, used,
                 thread_id, mutex, live, blk, chain, seen, reg>>

\* ... and the others wait until it has; allocate then tests _S_init again.
OncePass(t) ==
  /\ Goto(t, "once", IF S_init THEN "alloc_id" ELSE "init")
  /\ once = "done"
  /\ UNCHANGED <<once, S_init, thread_freelist, key, heap, first, free, used,
                 thread_id, mutex, live, blk, chain, seen, reg>>

\* Faulty variant: the control word is never set to done.
InitializeNotDone(t) ==
  /\ Goto(t, "init", "alloc_id")
  /\ thread_freelist' = IF Active THEN Id ELSE {}
  /\ S_init' = TRUE
  /\ UNCHANGED <<once, key, heap, first, free, used, thread_id, mutex, live,
                 blk, chain, seen, reg>>

Initialize(t) ==
  /\ Goto(t, "init", "alloc_id")
  /\ thread_freelist' = IF Active THEN Id ELSE {}
  /\ first' = [s \in Slot |-> {}]
  /\ free' = [s \in Slot |-> 0]
  /\ used' = [s \in Slot |-> 0]
  /\ S_init' = TRUE
  /\ once' = IF Active THEN "done" ELSE once
  /\ UNCHANGED <<key, heap, thread_id, mutex, live, blk, chain, seen, reg>>

\* operator new throws out of _S_initialize, before or after the thread records
\* were made.  Under __gthread_once, which is C and has no handler, the control
\* word stays "running"; without libpthread the next call tries again.
InitializeThrows(t) ==
  /\ Goto(t, "init", "idle")
  /\ thread_freelist' \in {thread_freelist, IF Active THEN Id ELSE {}}
  /\ UNCHANGED <<once, S_init, key, heap, first, free, used, thread_id, mutex,
                 live, blk, chain, seen, reg>>

\* Faulty variant: the record taken stays on the list.
GetThreadIdKeepsRecord(t) ==
  IF Active /\ key[t] = 0
  THEN /\ \E id \in thread_freelist : key' = [key EXCEPT ![t] = id]
       /\ UNCHANGED thread_freelist
  ELSE UNCHANGED <<key, thread_freelist>>

\* _S_get_thread_id: under its mutex, take the first free thread record.
GetThreadId(t) ==
  IF Active /\ key[t] = 0
  THEN \E id \in thread_freelist :
         /\ key' = [key EXCEPT ![t] = id]
         /\ thread_freelist' = thread_freelist \ {id}
  ELSE UNCHANGED <<key, thread_freelist>>

AllocId(t) ==
  /\ Goto(t, "alloc_id", "alloc")
  /\ GetThreadId(t)
  /\ UNCHANGED <<once, S_init, heap, first, free, used, thread_id, mutex,
                 live, blk, chain, seen, reg>>

\* Own list empty: lock the bin and read the global list.
AllocLock(t) ==
  /\ Active
  /\ Goto(t, "alloc", "alloc_locked")
  /\ first[MyId(t)] = {}
  /\ mutex = NoThread
  /\ mutex' = t
  /\ seen' = [seen EXCEPT ![t] = first[0]]
  /\ UNCHANGED <<once, S_init, thread_freelist, key, heap, first, free, used,
                 thread_id, live, blk, chain, reg>>

\* The global list is empty too: unlock and go for a new chunk.
AllocUnlock(t) ==
  /\ Goto(t, "alloc_locked", "alloc_chunk")
  /\ seen[t] = {}
  /\ mutex' = NoThread
  /\ UNCHANGED <<once, S_init, thread_freelist, key, heap, first, free, used,
                 thread_id, live, blk, chain, seen, reg>>

\* Faulty variant: taking the whole global list does not reset it.
GrabKeepsGlobal(t) ==
  /\ Goto(t, "alloc_locked", "alloc")
  /\ seen[t] # {}
  /\ first' = [first EXCEPT ![key[t]] = seen[t]]
  /\ free' = [free EXCEPT ![key[t]] = free[0], ![0] = 0]
  /\ mutex' = NoThread
  /\ seen' = [seen EXCEPT ![t] = {}]
  /\ UNCHANGED <<once, S_init, thread_freelist, key, heap, used, thread_id,
                 live, blk, chain, reg>>

\* Move the whole global list, or its first __block_count blocks, to the
\* thread's own list.
Grab(t) ==
  /\ Goto(t, "alloc_locked", "alloc")
  /\ seen[t] # {}
  /\ \/ /\ BlockCount >= free[0]
        /\ first' = [first EXCEPT ![key[t]] = seen[t], ![0] = {}]
        /\ free' = [free EXCEPT ![key[t]] = free[0], ![0] = 0]
     \/ /\ BlockCount < free[0]
        /\ \E C \in Subsets(seen[t], BlockCount) :
             first' = [first EXCEPT ![key[t]] = C, ![0] = seen[t] \ C]
        /\ free' = [free EXCEPT ![key[t]] = BlockCount,
                                ![0] = free[0] - BlockCount]
  /\ mutex' = NoThread
  /\ seen' = [seen EXCEPT ![t] = {}]
  /\ UNCHANGED <<once, S_init, thread_freelist, key, heap, used, thread_id,
                 live, blk, chain, reg>>

\* Without libpthread the test of the one list leads straight to operator new.
AllocSingle(t) ==
  /\ ~Active
  /\ Goto(t, "alloc", "alloc_chunk")
  /\ first[0] = {}
  /\ UNCHANGED <<once, S_init, thread_freelist, key, heap, first, free, used,
                 thread_id, mutex, live, blk, chain, seen, reg>>

\* operator new supplies a chunk, all of it for the thread's own list.
NewChunk(t) ==
  /\ Goto(t, "alloc_chunk", "alloc")
  /\ \E C \in Subsets(heap, BlockCount) :
       /\ heap' = heap \ C
       /\ first' = [first EXCEPT ![MyId(t)] = C]
  /\ free' = IF Active THEN [free EXCEPT ![key[t]] = BlockCount] ELSE free
  /\ UNCHANGED <<once, S_init, thread_freelist, key, used, thread_id, mutex,
                 live, blk, chain, seen, reg>>

\* operator new throws bad_alloc out of allocate.
BadAlloc(t) ==
  /\ Goto(t, "alloc_chunk", "idle")
  /\ UNCHANGED <<once, S_init, thread_freelist, key, heap, first, free, used,
                 thread_id, mutex, live, blk, chain, seen, reg>>

\* Unlink the first block, record its owner, count it off _M_free and load
\* the counter of _M_used.
Take(t) ==
  /\ Active
  /\ Goto(t, "alloc", "alloc_used")
  /\ \E b \in first[key[t]] :
       /\ first' = [first EXCEPT ![key[t]] = @ \ {b}]
       /\ blk' = [blk EXCEPT ![t] = b]
       /\ thread_id' = [thread_id EXCEPT ![b] = key[t]]
  /\ free' = [free EXCEPT ![key[t]] = @ - 1]
  /\ reg' = [reg EXCEPT ![t] = used[key[t]]]
  /\ UNCHANGED <<once, S_init, thread_freelist, key, heap, used, mutex, live,
                 chain, seen>>

\* Store the incremented counter and return the block.
AllocReturn(t) ==
  /\ Goto(t, "alloc_used", "idle")
  /\ used' = [used EXCEPT ![key[t]] = Word(reg[t] + 1)]
  /\ live' = live \cup {blk[t]}
  /\ blk' = [blk EXCEPT ![t] = NoBlock]
  /\ reg' = [reg EXCEPT ![t] = 0]
  /\ UNCHANGED <<once, S_init, thread_freelist, key, heap, first, free,
                 thread_id, mutex, chain, seen>>

\* Faulty variant: the block is not unlinked.
TakeSingleKeeps(t) ==
  /\ ~Active
  /\ Goto(t, "alloc", "idle")
  /\ \E b \in first[0] : live' = live \cup {b}
  /\ UNCHANGED <<once, S_init, thread_freelist, key, heap, first, free, used,
                 thread_id, mutex, blk, chain, seen, reg>>

\* Without libpthread: unlink the first block and return it.
TakeSingle(t) ==
  /\ ~Active
  /\ Goto(t, "alloc", "idle")
  /\ \E b \in first[0] :
       /\ first' = [first EXCEPT ![0] = @ \ {b}]
       /\ live' = live \cup {b}
  /\ UNCHANGED <<once, S_init, thread_freelist, key, heap, free, used,
                 thread_id, mutex, blk, chain, seen, reg>>

-----------------------------------------------------------------------------

\* deallocate, by any thread, of a block the program holds.
DeallocCall(t, b) ==
  /\ Active
  /\ Goto(t, "idle", "dealloc")
  /\ b \in live
  /\ live' = live \ {b}
  /\ blk' = [blk EXCEPT ![t] = b]
  /\ GetThreadId(t)
  /\ UNCHANGED <<once, S_init, heap, first, free, used, thread_id, mutex,
                 chain, seen, reg>>

\* Without libpthread: back to the one list.
DeallocSingle(t, b) ==
  /\ ~Active
  /\ pc[t] = "idle"
  /\ b \in live
  /\ live' = live \ {b}
  /\ first' = [first EXCEPT ![0] = @ \cup {b}]
  /\ UNCHANGED <<once, S_init, thread_freelist, key, heap, free, used,
                 thread_id, mutex, pc, blk, chain, seen, reg>>

\* Faulty variant: the difference stays a size_t, where a deficit is huge.
RemoveUnsigned(t) == Word(free[key[t]] * Headroom - used[key[t]])

\* __remove, before its division by the headroom.
Remove(t) ==
  ToLong(Word(free[key[t]] * Headroom - used[key[t]]))

TooManyFree(t) ==
  /\ Remove(t) > Slack * Headroom
  /\ Remove(t) > free[key[t]]

Removed(t) == Remove(t) \div Headroom

KeepAll(t) ==
  /\ Goto(t, "dealloc", "dealloc_load")
  /\ ~TooManyFree(t)
  /\ UNCHANGED <<once, S_init, thread_freelist, key, heap, first, free, used,
                 thread_id, mutex, live, blk, chain, seen, reg>>

\* Cut __removed records off the thread's own list.
Detach(t) ==
  /\ Goto(t, "dealloc", "dealloc_lock")
  /\ TooManyFree(t)
  /\ \E C \in Subsets(first[key[t]], Removed(t)) :
       /\ first' = [first EXCEPT ![key[t]] = @ \ C]
       /\ chain' = [chain EXCEPT ![t] = C]
  /\ free' = [free EXCEPT ![key[t]] = @ - Removed(t)]
  /\ UNCHANGED <<once, S_init, thread_freelist, key, heap, used, thread_id,
                 mutex, live, blk, seen, reg>>

\* There are fewer: the walk along _M_next dereferences NULL.
WalkOff(t) ==
  /\ Goto(t, "dealloc", "fault")
  /\ TooManyFree(t)
  /\ Removed(t) > Cardinality(first[key[t]])
  /\ UNCHANGED <<once, S_init, thread_freelist, key, heap, first, free, used,
                 thread_id, mutex, live, blk, chain, seen, reg>>

\* Lock the bin and link the chain in front of the global list ...
SpliceLock(t) ==
  /\ Goto(t, "dealloc_lock", "dealloc_locked")
  /\ mutex = NoThread
  /\ mutex' = t
  /\ seen' = [seen EXCEPT ![t] = first[0]]
  /\ UNCHANGED <<once, S_init, thread_freelist, key, heap, first, free, used,
                 thread_id, live, blk, chain, reg>>

\* Faulty variants: the bin stays locked; the old global list is not linked
\* behind the chain; its recorded length is not raised.
SpliceUnlockOmitted(t) ==
  /\ Goto(t, "dealloc_locked", "dealloc_load")
  /\ first' = [first EXCEPT ![0] = chain[t] \cup seen[t]]
  /\ free' = [free EXCEPT ![0] = @ + Cardinality(chain[t])]
  /\ chain' = [chain EXCEPT ![t] = {}]
  /\ seen' = [seen EXCEPT ![t] = {}]
  /\ UNCHANGED <<once, S_init, thread_freelist, key, heap, used, thread_id,
                 mutex, live, blk, reg>>

SpliceDropsGlobal(t) ==
  /\ Goto(t, "dealloc_locked", "dealloc_load")
  /\ first' = [first EXCEPT ![0] = chain[t]]
  /\ free' = [free EXCEPT ![0] = @ + Cardinality(chain[t])]
  /\ mutex' = NoThread
  /\ chain' = [chain EXCEPT ![t] = {}]
  /\ seen' = [seen EXCEPT ![t] = {}]
  /\ UNCHANGED <<once, S_init, thread_freelist, key, heap, used, thread_id,
                 live, blk, reg>>

SpliceUncounted(t) ==
  /\ Goto(t, "dealloc_locked", "dealloc_load")
  /\ first' = [first EXCEPT ![0] = chain[t] \cup seen[t]]
  /\ mutex' = NoThread
  /\ chain' = [chain EXCEPT ![t] = {}]
  /\ seen' = [seen EXCEPT ![t] = {}]
  /\ UNCHANGED <<once, S_init, thread_freelist, key, heap, free, used,
                 thread_id, live, blk, reg>>

\* ... make it the global list and unlock.
Splice(t) ==
  /\ Goto(t, "dealloc_locked", "dealloc_load")
  /\ first' = [first EXCEPT ![0] = chain[t] \cup seen[t]]
  /\ free' = [free EXCEPT ![0] = @ + Cardinality(chain[t])]
  /\ mutex' = NoThread
  /\ chain' = [chain EXCEPT ![t] = {}]
  /\ seen' = [seen EXCEPT ![t] = {}]
  /\ UNCHANGED <<once, S_init, thread_freelist, key, heap, used, thread_id,
                 live, blk, reg>>

\* Load the counter of the id that allocated the block ...
DeallocLoad(t) ==
  /\ Goto(t, "dealloc_load", "dealloc_store")
  /\ reg' = [reg EXCEPT ![t] = used[thread_id[blk[t]]]]
  /\ UNCHANGED <<once, S_init, thread_freelist, key, heap, first, free, used,
                 thread_id, mutex, live, blk, chain, seen>>

\* Faulty variant: the counter of the freeing thread is stored.
DeallocReturnOwnCounter(t) ==
  /\ Goto(t, "dealloc_store", "idle")
  /\ used' = [used EXCEPT ![key[t]] = Word(reg[t] - 1)]
  /\ thread_id' = [thread_id EXCEPT ![blk[t]] = 0]
  /\ first' = [first EXCEPT ![key[t]] = @ \cup {blk[t]}]
  /\ free' = [free EXCEPT ![key[t]] = @ + 1]
  /\ blk' = [blk EXCEPT ![t] = NoBlock]
  /\ reg' = [reg EXCEPT ![t] = 0]
  /\ UNCHANGED <<once, S_init, thread_freelist, key, heap, mutex, live, chain,
                 seen>>

\* ... store it decremented, and put the block on the thread's own list.
DeallocReturn(t) ==
  /\ Goto(t, "dealloc_store", "idle")
  /\ used' = [used EXCEPT ![thread_id[blk[t]]] = Word(reg[t] - 1)]
  /\ thread_id' = [thread_id EXCEPT ![blk[t]] = 0]
  /\ first' = [first EXCEPT ![key[t]] = @ \cup {blk[t]}]
  /\ free' = [free EXCEPT ![key[t]] = @ + 1]
  /\ blk' = [blk EXCEPT ![t] = NoBlock]
  /\ reg' = [reg EXCEPT ![t] = 0]
  /\ UNCHANGED <<once, S_init, thread_freelist, key, heap, mutex, live, chain,
                 seen>>

\* Faulty variant: the record of a dead thread is not returned.
ThreadExitLosesRecord(t) ==
  /\ pc[t] = "idle"
  /\ key[t] # 0
  /\ key' = [key EXCEPT ![t] = 0]
  /\ UNCHANGED <<once, S_init, thread_freelist, heap, first, free, used,
                 thread_id, mutex, live, pc, blk, chain, seen, reg>>

\* A thread dies outside the allocator: _S_destroy_thread_key.
ThreadExit(t) ==
  /\ pc[t] = "idle"
  /\ key[t] # 0
  /\ thread_freelist' = thread_freelist \cup {key[t]}
  /\ key' = [key EXCEPT ![t] = 0]
  /\ UNCHANGED <<once, S_init, heap, first, free, used, thread_id, mutex,
                 live, pc, blk, chain, seen, reg>>

-----------------------------------------------------------------------------

\* The steps a call takes once it has begun.
Continue(t) ==
  \/ OnceRun(t) \/ OncePass(t) \/ Initialize(t) \/ InitializeThrows(t)
  \/ AllocId(t) \/ AllocLock(t) \/ AllocUnlock(t) \/ Grab(t)
  \/ AllocSingle(t) \/ NewChunk(t) \/ BadAlloc(t) \/ Take(t)
  \/ AllocReturn(t) \/ TakeSingle(t) \/ KeepAll(t) \/ Detach(t) \/ WalkOff(t)
  \/ SpliceLock(t) \/ Splice(t) \/ DeallocLoad(t) \/ DeallocReturn(t)

\* The calls a thread may begin, and its exit.
Begin(t) ==
  \/ AllocCall(t)
  \/ \E b \in Block : DeallocCall(t, b) \/ DeallocSingle(t, b)
  \/ ThreadExit(t)

Next == \E t \in Thread : Begin(t) \/ Continue(t)

Spec == Init /\ [][Next]_vars

\* A running thread is scheduled; no thread is obliged to make a call.
FairSpec == Spec /\ \A t \in Thread : WF_vars(Continue(t))

-----------------------------------------------------------------------------

Pc == {"idle", "once", "init", "alloc_id", "alloc", "alloc_locked",
       "alloc_chunk", "alloc_used", "dealloc", "dealloc_lock",
       "dealloc_locked", "dealloc_load", "dealloc_store", "fault"}

\* The type invariant.
TypeOK ==
  /\ once \in {"new", "running", "done"}
  /\ S_init \in BOOLEAN
  /\ thread_freelist \in SUBSET Id
  /\ key \in [Thread -> Slot]
  /\ heap \in SUBSET Block
  /\ first \in [Slot -> SUBSET Block]
  /\ free \in [Slot -> Int]
  /\ used \in [Slot -> Size]
  /\ thread_id \in [Block -> Slot]
  /\ mutex \in Thread \cup {NoThread}
  /\ live \in SUBSET Block
  /\ pc \in [Thread -> Pc]
  /\ blk \in [Thread -> Block \cup {NoBlock}]
  /\ chain \in [Thread -> SUBSET Block]
  /\ seen \in [Thread -> SUBSET Block]
  /\ reg \in [Thread -> Size]

\* A block is in one place at a time: on one free list, with the program,
\* cut off in one thread's chain, in one thread's hands, or not yet obtained.
\* Were it in two, allocate would give it to two callers.
OnePlace ==
  /\ \A s1, s2 \in Slot : s1 # s2 => first[s1] \cap first[s2] = {}
  /\ \A s \in Slot : first[s] \cap (live \cup heap) = {}
  /\ live \cap heap = {}
  /\ \A t \in Thread :
       /\ chain[t] \cap (live \cup heap) = {}
       /\ blk[t] \notin live \cup heap
       /\ \A s \in Slot : blk[t] \notin first[s] /\ chain[t] \cap first[s] = {}
       /\ \A u \in Thread : blk[t] \notin chain[u]
  /\ \A t, u \in Thread : t # u =>
       /\ chain[t] \cap chain[u] = {}
       /\ blk[t] = blk[u] => blk[t] = NoBlock

\* No block is ever lost: moving lists between a thread and the global list,
\* the death of a thread and the reuse of its id all keep every block.
NoBlockLost ==
  \A b \in Block :
    \/ b \in heap \cup live
    \/ \E s \in Slot : b \in first[s]
    \/ \E t \in Thread : b = blk[t] \/ b \in chain[t]

\* _M_free is the length of the list it stands for, in every slot: allocate
\* walks the global list _M_free[0] long without looking for its end, and
\* deallocate takes the number to return from it.
FreeCountExact ==
  Active => \A s \in Slot : free[s] = Cardinality(first[s])

\* A thread record serves one thread at a time, which is what makes the lists
\* and counters of an id safe to use without a lock.
ThreadIdsExclusive ==
  /\ \A t, u \in Thread : t # u /\ key[t] = key[u] => key[t] = 0
  /\ \A t \in Thread : key[t] \notin thread_freelist

\* "the list can never be empty" (_S_get_thread_id): with at least as many
\* records as threads there is a record for every thread that wants one.
RecordAvailable ==
  Active /\ S_init =>
    \A t \in Thread : key[t] = 0 => thread_freelist # {}

\* The bins are initialised by one thread at a time, never again once that has
\* succeeded, and no thread works on them before, in spite of the unlocked test
\* of _S_init and of the calls in which the initialisation throws.
InitOnce ==
  /\ \A t \in Thread : pc[t] = "init" => ~S_init
  /\ \A t, u \in Thread : pc[t] = "init" /\ pc[u] = "init" => t = u
  /\ \A t \in Thread : pc[t] \notin {"idle", "once", "init"} => S_init

\* deallocate finds a real id in _M_thread_id of every block that is in use,
\* although the field shares its storage with _M_next.
OwnerRecorded ==
  Active =>
    /\ \A b \in live : thread_id[b] \in Id
    /\ \A t \in Thread : blk[t] # NoBlock => thread_id[blk[t]] \in Id

\* No step of another thread changes the list or the _M_free of a thread's id:
\* the unlocked half of allocate and deallocate works on private state.
OwnListPrivate ==
  [][\A t \in Thread :
       key[t] # 0 /\ pc'[t] = pc[t] /\ key'[t] = key[t] =>
         first'[key[t]] = first[key[t]] /\ free'[key[t]] = free[key[t]]]_vars

\* The blocks inside the allocator, wherever they are.
Inside ==
  {b \in Block : \/ b \in heap
                 \/ \E s \in Slot : b \in first[s]
                 \/ \E t \in Thread : b = blk[t] \/ b \in chain[t]}

\* To its users the bin is an allocator like any other: a block that it hands
\* out it no longer has, anywhere, and it has every block it is given back.
Pool == INSTANCE BlockPool WITH avail <- Inside
ImplementsPool == Pool!Spec

\* _M_used is the number of blocks in use that the id has allocated, whenever
\* no call is under way.
UsedCountExact ==
  Active /\ S_init /\ (\A t \in Thread : pc[t] = "idle") =>
    \A id \in Id : used[id] = Cardinality({b \in live : thread_id[b] = id})

\* deallocate never hands back more records than its free list holds.
NoWalkOff == \A t \in Thread : pc[t] # "fault"

\* A thread that locks the bin unlocks it, on every path.
MutexReleased == mutex # NoThread ~> mutex = NoThread

\* The initialisation has thrown out of __gthread_once: nobody passes that now.
Abandoned ==
  once = "running" /\ ~S_init /\ \A t \in Thread : pc[t] # "init"

\* A thread held up in __gthread_once gets past the initialisation, unless that
\* has thrown: then, and only then, it and all later callers wait for ever.
OnceWaitersPass ==
  \A t \in Thread : pc[t] = "once" ~> pc[t] = "alloc_id" \/ Abandoned
=============================================================================

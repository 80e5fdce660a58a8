# Verification of the run-time headers of the arm-hismall-linux tool chain

The repository is a cross tool chain (GCC 3.4.3, uClibc 0.9.28, uClibc++ 0.2.0,
Linux 2.6 headers) for an ARM system. Almost all of it is binary: compiler,
linker, libraries. The program logic that is there in source is what the
*headers* hold: the templates and inline functions of libstdc++, which become
part of every C++ program built with the tool chain, a few inline protocols in
the kernel headers, and small scripts. `HDR` below stands for
`src/gcc-3.4.3-uClibc-0.9.28/include/c++/3.4.3`, `LNX` for
`src/gcc-3.4.3-uClibc-0.9.28/usr/include/linux`.

## Inventory

| Component | State | Operations | Hard because of | Correct means |
|---|---|---|---|---|
| `__mt_alloc` (`HDR/ext/mt_allocator.h`) | per bin: a free list, `_M_free`, `_M_used` for every thread id, a global list and a mutex; thread records; `_S_once`, `_S_init` | allocate, deallocate, once-initialisation, thread id on first use, thread exit | lists used without a lock, blocks freed by another thread, ids reused after a thread's death, counters updated by several threads | a block has one holder; none is lost; lengths are exact; ids are exclusive |
| `__pool_alloc` (`ext/pool_allocator.h`, `bits/concurrence.h`) | sixteen free lists, one mutex, `_S_force_new` | allocate, deallocate | the decision for operator new is taken by racing threads | a block goes back to where it came from |
| `bitmap_allocator` (`ext/bitmap_allocator.h`) | super blocks with a bit map, use counts, `_S_last_request`, a store of freed super blocks | allocate/deallocate of one object, of many; get from and return to the store | a block is found through cached positions; blocks vanish when they are empty | as for any allocator |
| `basic_string` (`bits/basic_string.h/.tcc`) | `_M_p` of a string; `_Rep` with length, capacity, `_M_refcount` | constructors, destructor, assign, append, insert, replace, erase, reserve, swap, operator[] | strings of different threads share a `_Rep`; `_M_refcount` is read without a lock; references into a string live on; arguments may point into the string that is edited | every string is a value of its own |
| RCU lists (`LNX/list.h`, `LNX/rcupdate.h`) | `next` and `prev` of the entries of a list_head or hlist | add, add behind, remove, replace, each with smp_wmb; traversal under rcu_read_lock; call_rcu | readers walk the list while its pointers are stored one by one, and stand on entries that have been removed | a reader meets no freed entry, misses none that stays, meets none twice |
| debug-mode list (`HDR/debug/list`, `debug/safe_*.h`) | the elements; two chains of iterators per list; of an iterator, its list, version and position | those of std::list, each with what it does to iterators | iterators outlive elements and lists, and move between lists with their element | an iterator is singular exactly when its element is gone |
| `basic_filebuf` (`bits/fstream.tcc`) | get and put area, reading/writing mode, put-back buffer, file position | underflow, overflow, pbackfail, xsgetn, xsputn, seekoff, sync, setbuf, imbue, open, close | one buffer and one position for reading and writing, a put-back character in front of it | reads and writes as on a file without a buffer |
| containers (`bits/stl_deque.h`, `stl_tree.h`, `stl_list.h`, `stl_vector.h`, `ext/hashtable.h`, `ext/rope*`) | their data | those of the standard | exceptions between two steps; the deque's map when it is full | sequences, sets, maps |
| algorithms (`bits/stl_algo.h`, `stl_heap.h`) | none | sorting, heaps, searches | boundaries | what the standard says |
| streams and locales | buffers, flags, facets | formatting, parsing | wording, not state | not a subject here |
| uClibc++ | as libstdc++, without sharing | as libstdc++ | single-threaded | not a subject here |
| other kernel headers (`LNX`) | sequence counters, tasklet and NAPI state bits, reference counts | inline halves of the kernel's protocols | concurrent readers, interrupts | the protocols' promises |
| scripts, compiler wrappers, binaries, documents | none | set options, create links | nothing | nothing to model |

How they interact: strings and containers call an allocator and are indifferent
to which (`BlockPool` states what they may rely on). The allocators and the
debug mode use the mutex and `__gthread_once` of `gthr-posix.h`, which calls
libpthread when it is linked in and does nothing otherwise; strings and
`__pool_alloc` use the atomic additions of `bits/atomicity.h`. A filebuf calls
read, write and lseek. All of that is in binary libraries and is modelled by its
meaning. The RCU lists call the kernel's call_rcu, which is modelled by what
`rcupdate.h` says of it.

## Assumptions common to all modules

* Memory is sequentially consistent (but for RcuList, where the stores on one
  side of an smp_wmb become visible in any order), as it is on the single-core
  ARM the tool chain is for: threads interleave, but every access to a shared word takes
  effect at once. A plain `++x` is a load and a store, and other threads may
  run in between. A step of a model ends before its second access to memory
  that another thread may be writing at the time.
* A mutex, `__gthread_once`, `__exchange_and_add` and `__atomic_add` do what
  their names say. operator new may fail at any call, by an exception, in an
  initialisation as well. Where a function is declared not to throw, an exception
  ends the program, which is no step of a model (so in `_S_insert_free_list` of the
  bitmap allocator, whose vector may have to grow).
* A program uses these classes as it may: it gives back only blocks it was
  given, once, and does not use a string from one thread while another changes
  it. Strings (or blocks) that happen to share memory are not its concern.
* A free list is a set: no code depends on the order of its blocks. The
  allocators' set is finite (memory is).

## Modules

A definition whose comment begins "Faulty variant" is no part of a model: it is
the definition after it with a plausible mistake, with which the property it was
written for is seen to fail.

### MtAlloc, MtSerial, BlockPool, MtAllocProofs, MCMtAlloc, MCMtSerial

`MtAlloc` is one bin of `__mt_alloc`. Its variables carry the names of the
members (`first` is `_M_first`, `free` is `_M_free`, `used` is `_M_used`,
`key[t]` is the id in the record behind `_S_thread_key`); `pc`, `blk`, `chain`,
`seen` and `reg` are the local variables of a call under way. `allocate` is
AllocCall, then OnceRun or OncePass and Initialize or InitializeThrows when
`_S_init` was not set,
AllocId (`_S_get_thread_id`), then either Take and AllocReturn, or first
AllocLock with Grab, or AllocUnlock with NewChunk or BadAlloc. `deallocate` is
DeallocCall, KeepAll or Detach (or WalkOff, see the findings), SpliceLock,
Splice, DeallocLoad, DeallocReturn. AllocSingle, TakeSingle and DeallocSingle
are the paths of a program without libpthread. ThreadExit is
`_S_destroy_thread_key`; a thread that exits may be started again and gets
whichever record is free.

`WordSize` is 2^w for the width of `size_t`: `__remove` is computed modulo
`WordSize` and then read as a signed number, as in the code.

`BlockPool` is the promise of an allocator: every block is with the allocator
(`avail`) or with the program (`live`); allocate moves one over, deallocate moves
it back, and nothing else happens to any. `ImplementsPool` says that a module
keeps it. In `MtAlloc` the blocks that the allocator has are those of the heap,
on a list, or in the hands of a call (`Inside`); a block that were on a list and
with the program at once would break it.

InitializeThrows is an operator new of `_S_initialize` that throws. Without
libpthread the next call tries again. With it the exception leaves
`pthread_once`, which is C and has no handler, so that its control word stays as
it is and whoever calls later waits for ever (`Abandoned`).

`MtSerial` is the same allocator with one more choice: if `serial`, threads take
turns, and a call begins when no other is under way.

### PoolAlloc, PoolAllocProofs, MCPoolAlloc

`PoolAlloc` is `__pool_alloc`. `force_new[y]` is the static `_S_force_new` of the
instance for type `y`; the lists belong to all. `allocate` is AllocateCall, Decide
when nothing was decided, Choose, and then New, or Take, Refill; `deallocate` is
Deallocate and then Delete or Give. Each of the accesses to `_S_force_new` is a
step. What happens under the mutex is one step, because it waits for nothing.
`room` and `source` say of a block how large it is and where it was obtained:
the code does not record it, and relies on the size it is told.

### BitmapAlloc, MCBitmapAlloc, BitmapAllocProofs

`BitmapAlloc` is `bitmap_allocator`. `mem_blocks[y]`, `last_request[y]`,
`last_dealloc[y]`, `block_size[y]` and `mut[y]` are the statics of the instance
for `y`; `free_list` and `bfl_mutex` the store that all instances share. A super
block `s` has `size[s]` words, is divided into `count[s]` objects, of which
`use_count[s]` are in use; `free[s]` are the positions whose bit is set. Bit map
`b` is the positions from `b * Bits` on. `_S_allocate_single_object` is
AllocateAhead (the search from the last request), AllocateFirstFit, or
AllocateRefill followed by GetStored or by GetNew, HandlerReset, NewSucceeds or
NewFails, then Push or PushFails. `_S_deallocate_single_object` is Deallocate and,
when the super block has become empty, Insert and Erase. Clear, Restore and
Handled are `_S_handle_oom_proc`, run by the thread whose operator new failed,
here or anywhere else in the program (ElsewhereFails). The steps of a call end
where the store, operator new or the new-handler come in, since only they are
shared beyond `_S_mut`.

`Bits`, 32 in the code, `MaxStore`, 64 in the code, and `Words`, the size of an
object, are parameters. `OutOfMemory` lets operator new fail when a super block is
wanted, `PushThrows` when `_S_mem_blocks` grows. When libpthread is not linked in
(`Enabled` is FALSE) there is one thread at most.

### CowString, StringValues, StringEdit, MCCowString, MCStrings, CowStringProofs, StringEditProofs

`CowString` is the `basic_string` whose representations are shared. `str[s]` is
what `_M_p` of the string `s` points into, `rep[r]` a `_Rep` with its counter,
capacity and characters. A call takes the steps of the code: Grab and Refcopy or
Clone for `_M_grab`; Mutate for `_M_mutate` up to the disposal; Dispose (one
`__exchange_and_add`) and Free; Fill for what follows in `_M_mutate` and
`_M_replace_safe`; Leak for `_M_leak_hard`. `ptr` is where `__s` points to when
`append` has located its argument. `ref` holds the strings into which the program
has a valid reference or iterator, through which it may write (put).

`StringValues` is the promise: every string has a value, a call changes that of
its own string, at once, and of no other. The mapping takes the characters of
the string's `_Rep`, and while a call is changing a string, the value it had
before (`before`, a history variable that no action's guard reads).

`Aliasing` says whether the program may call `s.append(s)`.

`MCStrings` runs one of three programs: two threads whose calls overlap, two that
take turns (and append strings to themselves), and one that edits a string.

`StringEdit` is one string, cell by cell, and the functions that are given a
pointer into it: Inserted, Replaced, Assigned and Appended are insert, replace,
assign and append of `n` characters at `_M_data() + q`, Mutated is `_M_mutate` and
ReplacedSafe `_M_replace_safe`. A copy between overlapping ranges writes Junk, as
memcpy may. `value` is what the standard says the string is after the same calls,
with the argument taken by value.

Appended includes its reserve, which frees what the argument points to unless it is
shared. Two kinds of calls go wrong in the code: assign of all of a full string's
characters with the terminator (`AssignsPast` says whether the program does it), and
append of its own characters, or terminator, by a string that has no room for them
and does not share (`AppendsGrown`).

### RcuList, KeyedList, MCRcuList, RcuListProofs

`RcuList` is a list_head or an hlist that is traversed while it changes. An
operation computes its stores: `early` are those ahead of its smp_wmb, `late` the
others; StoreAside and StorePublish make them visible, the early ones first and
otherwise in any order. StorePublish is the store to the `next` of a linked
entry, at which readers see the operation. Return ends the operation; the writers'
lock is what lets one at a time be under way. A removed entry is given to
call_rcu, and Callback frees it when the sections that were open then have ended.
A reader takes its loop apart: Fetch reads `pos->next`, Advance goes there, so
that list_for_each_safe_rcu, which fetches early, is covered too. `must` and
`seen` are history: what a traversal has to meet, and what it has met.

`KeyedList` is what the writers rely on: a sequence, to which an operation does
one thing at one instant between its call and its return, and that at the place its
arguments name: add at an end, or before or after an entry, removal or replacement
of that very entry. `RcuList` maps the sequence to the chain of `next` pointers:
`Along` follows them for as many steps as there are entries, and `Entries` is the
sequence of those it comes to before the head. `call`, a history variable, is what
was called with which arguments, until the one store at which it happens.

### FileBuf, FileStream, MCFileBuf, FileBufProofs

`FileBuf` is `basic_filebuf<char>` over a regular file, with a facet that does not
convert. `fb` is the object and its file: `get`, `next` (eback to egptr, gptr),
`put`, `room` (pbase to pptr, epptr), `pback` and `taken` (the put-back buffer),
`reading`, `writing`, `off` (the position of the file). The functions are
operators from an `fb` to the next, named after the code's, since they call each
other; an action is a call of the program. `ret` is its result. `PastEnd` says
whether the program makes a large sgetn that reads past the buffer, gets some
characters and meets the end of the file before it has all (`Partial`).

`FileStream` is the promise: a file with one position and no buffer, where one
character can be put back over what the file has. In the mapping (`Pos`, `Over`,
`Content` and `Dir`, at the end of `FileBuf`) the position of the program is that
of the file without what is unread, and what the put area holds counts as written.

### SafeList, Iterators, MCSafeList, SafeListProofs

`SafeList` is `debug/list`: `elems[l]` are a list's elements, `it[i]` an
iterator's `_M_sequence`, whether its version is the sequence's, and where it is.
The actions are the list's member functions; their guards are the checks of the
debug mode, because a call that these refuse ends the program. `Invalidate`,
`Transfer`, `DetachSingular` and `RevalidateSingular` are the functions of the
safe sequence. Values are left out: sort may lead to any order, merge to any in
which the elements of both lists keep theirs (`Merged`).

Two calls that the checks accept leave iterators attached to the wrong list: a merge
with iterators into the list that it empties (`MergesHeld` says whether the program
makes it), and a swap with iterators at an end (`SwapsEnds`).

`Iterators` is the promise: an iterator names its element until that is gone, and
is singular afterwards. The mapping (`Where`) takes a singular iterator for one
that names nothing.

## Properties, and what would break them

MtAlloc: NoBlockLost (a block has exactly one place), FreeCountExact (`_M_free` is
the length of the list, on which the unchecked walk in `allocate` relies),
RecordAvailable ("the list can never be empty"), OwnListPrivate (an action property:
no step of another thread touches what a thread uses without a lock),
ImplementsPool, UsedCountExactSerial and NoWalkOffSerial (where threads take turns);
under fairness MutexReleased and OnceWaitersPass. OnePlace, ThreadIdsExclusive,
InitOnce and OwnerRecorded are proved.

PoolAlloc: RoomEnough (a block has the bytes it was asked for), DeletedFromNew
(memory goes back to where it came from), ImplementsPool. OnePlace and
ListedFromChunk are proved.

BitmapAlloc: SuperExclusive and SuperKept (a super block has exactly one place, on
its way between types, store and system), UseCountExact (bits, counts and what the
program holds agree), CachesSound (the cached positions after an erasure),
BlockSizeExact (doubling and halving balance), LargeEnough and StoreOrdered (a
super block that changes its type is large enough), ImplementsPool,
HandlerRestored, ClearPossible; under fairness CallEnds.

Strings: RefCountExact (the comment on the three states of `_M_refcount`, at
every moment, calls under way included), NoUseAfterFree, LeakedAlone (what can
be written through a reference is not shared), ValuesIsolated, which is the
refinement of StringValues, and EditsExact (an edit does what it would do with a
copy of its argument, within the capacity and without overlapping copies; it
fails if the program makes either of the two calls named above).

RcuList: ReadersSafe (a reader is at entries only that are filled in and not
freed, and about to go to such), SeesAll (it misses nothing that is there all the
while), SeesOnce (and meets nothing twice, replacements included),
ImplementsList (the one effect that an operation has is the one it was called for,
between its call and its return). Each needs a reader and several stores of one or
more writers to go wrong, the last a store that reaches a wrong neighbour.

FileBuf: OneBuffer (the buffer is the get area or the put area, within its size,
and the flags say which), GetAreaFresh (what can be read from the buffer is what
the file has there), Synced, ImplementsStream.

SafeList: ChecksSound (what the checks let pass is a use of an element that is
there, in the right list; it fails after either of the two calls named above),
ImplementsIterators (and nothing else is refused).

## Runs

| Run | Instance | Shows |
|---|---|---|
| mt_two | 2 threads, 4 blocks, chunks of 2 | the safety properties but the two about `_M_used`, and both action properties. Two threads suffice for every race between the owner of a list and another thread; four blocks for the global list to be both grabbed whole and in part; the headroom is small enough that deallocate returns blocks. |
| mt_live | 2 threads, 3 blocks in one chunk, fair; calls overlap, or threads take turns | the mutex is released by each of the three critical sections: after Grab, AllocUnlock and Splice; waiters of the once-initialisation pass, unless it has thrown. Where threads take turns `_M_used` is exact and the walk stays on the list, also when blocks change hands and threads come back with another id. With three blocks and a slack of 1 a deallocate does detach records. |
| mt_single | 1 thread without libpthread, 4 blocks, chunks of 2 | the single-list paths keep the promise of a pool |
| mt_walk | 2 threads | deallocate walks off its list (finding) |
| pool_lists | 2 threads, 2 types, 3 blocks, sizes 12, 16, 128, 136 | everything, without GLIBCXX_FORCE_NEW. The sizes round up, share a class, and lie at and above the limit. |
| bm_two | 2 threads, 2 types, 2 super blocks, up to 2 of a type, a store of 1, failing operator new | super blocks have one place and enough room, and the pool's promise is kept |
| bm_alone | 1 thread without libpthread, 2 types, maps of 2 bits, super blocks of 1 and 2 maps, a store of 2, operator new and push_back fail; fair | the search inside and across bit maps, erasures with the caches in every position, the order of the store; the new-handler is put back; every call ends. SuperKept is not checked where push_back throws: a super block is lost then. |
| bm_oom | 2 threads, failing operator new | a thread waits for itself (finding) |
| strings | 2 threads, 2 strings, 4 representations, length 2, calls that overlap or take turns; or one string of up to 4 characters that is edited | everything. Four representations are enough for both strings and both calls under way; length 2 gives full and spare capacity. With turns, reserve before locating the argument is what makes self-append right. Four characters are enough for an argument that the gap splits with room on both sides, terminator included. |
| rcu | 1 reader, 3 entries, 3 items, list and hlist | everything. Three entries give the one that is removed a neighbour on both sides, or one to be removed after it; readers do not affect each other but through the grace period, which waits for all. |
| filebuf | buffers of 1 (unbuffered), 2 and 3, a file of up to 4 characters, writes of up to 3, writes from 2 on direct | everything, for all sequences of calls and changes of the buffer's size between files |
| safelist | 2 lists, 3 elements, 2 iterators and a const_iterator | everything |

The word width matters to MtAlloc only through `__remove`, a difference that may
wrap and is then read as signed. With words of 8 values (mt_two, mt_live) it lies
between -4 and 3 before its division by the headroom, and 3 is more than what
deallocate keeps, Slack * Headroom = 2: Detach, Splice and Grab all occur. A larger
difference reads as a negative one, and nothing is detached, as in the code beyond
half the range of a `size_t`. In mt_walk, whose subject is that number, words have
32 values, and the difference, 8 at most, never leaves the range. WalkStays proves
for every width what NoWalkOffSerial checks for one.

mt_live is checked with the blocks interchangeable. That is sound under its fairness:
the fairness of a thread names no block, a step of a call changes `pc`, so that two
states which differ by a permutation of blocks allow the same fair continuations,
and MutexReleased speaks of no block.

CHECK_DEADLOCK is FALSE where a run can stop: mt_two, mt_live and mt_walk end in
`fault` when deallocate walks off its list, and stop when all threads wait for an
initialisation that has thrown; bm_two stops in the deadlock that bm_oom finds.

Fairness (`FairSpec`, and `SerialFairSpec` in mt_live): a thread that has begun a
call goes on with it, as under any scheduler that does not starve a runnable thread;
no thread has to begin one. Waiting for a mutex needs no more than that here,
because only one other thread can hold it and it is not asked to be obtained, only
to be released.

## What is proved

`MtAllocProofs` proves for any number of threads, ids and blocks, any chunk
size, headroom and word width (under the assumptions of `MtAlloc`: finitely many
threads and blocks, at least as many records as threads, and one thread when
libpthread is not linked in):

* InvariantHolds: `Spec => []IInv`. From it TypeCorrect, BlocksExclusive,
  BlocksKept, ListLengthsExact, RecordsExclusive, InitialisedOnce (also when it
  throws), OwnersKnown;
* RecordsSuffice: `_S_get_thread_id` never finds the list of records empty. Every
  id is free or some thread's (Records), no two threads have the same, so if
  all were taken there would be more threads than ids with one to spare;
* OwnListsPrivate, the action property, from the same invariant;
* PoolImplemented: the allocator implements BlockPool;
* UsedCountsExact and WalkStays, where threads take turns and there are at most half
  as many blocks as a `size_t` has values (`Roomy`; a block takes several bytes).

The safety properties are not inductive alone. `IInv` adds: Locking (the thread in
a critical section has the mutex, and `seen`, the global list it has read, is
still the global list: else Splice would lose what another thread put there);
Progress (which threads have a block or a chain in their hands, and that a
thread past `_S_get_thread_id` has an id; that NewChunk's list is empty: else it
would lose a list); Initialisation (before `_S_init` there is nothing to lose:
all blocks are in the heap); Records. Every conjunct has a lemma of its own of the
form IInv /\ [Next]_vars => conjunct', with one step per action that can
disturb it. The pc arguments are by Zenon and Z3; the cardinalities come from
the lemmas Counting and Finiteness. With threads that take turns, SerialInv adds
that `_M_used` is the number of blocks in use and of those that a deallocate under
way has not counted yet (Counted), and that a loaded counter is still what it was
(Loaded). RemovedFits follows: with a counter below half the range of a `size_t`,
`__remove`, whether it wraps or not, is at most the length of the list.

`PoolAllocProofs` proves for any threads, types, sizes and blocks: TypeCorrect,
BlocksExclusive and PoolImplemented, for either setting of the environment, from
PlaceInv (OnePlace; every block the program has carries its request; only small
blocks are on their way to a list); and, when GLIBCXX_FORCE_NEW is not set,
RoomSuffices, ListsFromChunks and DeletesFromNew, from SourceInv. SourceInv adds
that `_S_force_new` is never positive, so that a block is treated alike when it
is allocated and when it is given back, and that every block in somebody's hands
has the room and the origin that its size calls for (Sound).

`RcuListProofs` proves for any entries, items and readers: TypeCorrect,
ReadersAreSafe, TraversalComplete, TraversalOnce and, if the entries are finitely
many, ListImplemented. What has to be kept is a property of chains of pointers: from
wherever a reader can be, on the list or on an entry removed from it, `next` leads
to the head, and past everything on the list that comes after it. Recursion along
the chain is out of the prover's reach; IInv says it with two things that no
variable holds: a rank, which puts the linked entries in the order of the list and
which an entry keeps when it is unlinked, and for each unlinked entry the readers
that were inside at the time. The chain from any place a reader can be at goes
upwards in rank, skips no linked entry, and what the reader has met of what it must
is exactly what lies behind it (CursorInv); an unlinked entry still points to
somewhere its readers may go (GoneInv); and the stores that are pending are those of
one operation between neighbours (WorkInv). Invariance has one lemma for each
action, and for each store of each operation. That the list is a sequence to which
each operation does one thing is a second invariant, LineInv: there is a sequence of
the linked entries, without repetitions, along which `next` leads from the head and
back to it (Lined). All steps but StorePublish leave it as it is (CalmSteps); that
one inserts, removes or replaces one element (LineGrows, LineShrinks, LineSwaps).
That this element is the one that the arguments name is AskedInv: for as long as an
operation has not happened, its late store to a `next` is where its call says,
before, behind, or in place of which entry (one lemma for each operation, AddAsked,
DelAsked, ReplaceAsked). EntriesAre shows that the walk of the mapping finds this
very sequence, by induction obtained as for FileBuf below.

`CowStringProofs` proves for any characters, representations and maximal length and
for finitely many strings and threads, when no string is appended to itself
(`~Aliasing`; it is false without, see the limits): TypeCorrect, CountsExact,
FreedUnused, ReferencesAlone and ValuesKeptApart, the refinement of StringValues.
That `_M_refcount` is exact does not preserve itself. A call that has found a
representation unshared writes to it some steps later (Unshared); one that has
found it shareable increments it later (Sharing); of two calls that give one up,
one only frees it (FreedOnce); a reference stays valid during certain calls of its
own string only (Leaked); what is being built in `tmp` has the characters and the
room that the rest of the call needs (Values, Fits); and the static empty
representation, whose counter says nothing, must not change (EmptyKept). For the
refinement, one lemma for each place where a call can be says that the step leaves
all values alone or is the operation's one step in StringValues.

`StringEditProofs` proves EditsCorrect for all characters and lengths, one edit
after another, when the program makes neither of the two kinds of calls that go
wrong (`~AssignsPast`, `~AppendsGrown`, see the limits): each of the four functions,
given a piece of the string itself, leaves what it would have left given a copy.
`Spliced` says of a result, cell by cell, what was before it, and holds of every
path through the functions: argument before the gap, behind it, divided by it,
overlapping its copy, and reallocation when the string is shared or full. The
invariant is that the string ends within its capacity.

`BitmapAllocProofs` proves for any threads, types, super blocks, bits per map, object
sizes and store sizes: TypeCorrect, OneOwner, CountsExact, StoreSorted, SizesSuffice,
CachesSurvive, NextSizeExact and Implements, the refinement of BlockPool; where
`_S_mem_blocks` can always grow, NothingLost; and without threads, HandlerPutBack.
IInv puts all of them in one invariant, because each needs the others: a cached
position can be trusted if the super blocks are where they should be, the counts if
the positions can. It adds what calls under way have in their hands (Calls), that
nobody's super block has no marks (Blanks), that an empty one is on its way to the
store (Emptied), and the number of doublings in `_S_block_size` (Sizes), which
halving undoes exactly. Arithmetic with 2^k is by counting subsets, and the first
free position and the place that lower_bound finds are least elements of
sets, since both are beyond what the prover knows. NothingLost and HandlerPutBack
have invariants of their own (Everywhere, Handlers).

`SafeListProofs` proves for any lists, elements and iterators, when the program makes
neither of the two calls that leave iterators with the wrong list (`~MergesHeld`,
`~SwapsEnds`; ChecksSound is false with either, see the limits), TypeCorrect,
ChecksAreSound and PromiseKept, the refinement of Iterators. The invariant is that an
element has one place in one list and that a usable iterator is at an element of
its list or at that list's end; the work is in the sequences: what stays of a list when some
elements go is in the same order (KeptRanks, by counting), and for each operation of
the list what it does to the lists and to the iterators, together.

`FileBufProofs` proves for any characters and buffer sizes and files of any length,
when a large sgetn does not meet the end of the file half way (`~PastEnd`;
GetAreaFresh is false without, see the limits): OneArea, AreaFresh, WrittenOut, and
SeesTheFile, the refinement of FileStream. Good, the invariant of the object, says
more than the properties in three places: a character can be put back only over one
of the get area that is still to be read (else destroying it would count it twice),
there is room to write only in a file open for that and in a mode (else sputc would
write into the buffer without going through overflow), and reading excludes both
pending output and the writing mode. The loops of xsgetn and xsputn are recursive
functions on an interval; Climb, obtained from the library's theorem about
well-founded sets of subsets, gives the induction, and the invariant of each loop is
that the calls so far amount to one longer get or put. Files are compared character
by character, since what is written may end inside the file or extend it. Each call
has a lemma that names the step of FileStream that it is, by itself, with the state
and the result.

Not proved, only model-checked:

* the liveness properties (MutexReleased, OnceWaitersPass, CallEnds): the proof
  system does not do ENABLED;
* the findings, which are traces.

## Findings

* `_M_used` and `deallocate` (mt_walk): `mt_allocator.h:470` decrements the counter
  of another thread's id without a lock; an update is lost and the counter stays
  wrong. `__remove` is computed from it, can exceed the list, and the walk at 456
  dereferences NULL. It takes one lost increment only when lists are short; with
  the default tuning (`100 * (_S_bin_size - __which)`) it takes a drift of that
  order.
* `_S_clear` (bm_oom): `_S_get_free_list` holds `_S_bfl_mutex` while operator new
  runs with a handler that locks it: out of memory ends in a thread that waits for
  itself instead of in memory given back.

Limits that no comment excludes, or that no run states:

* `_S_force_new` (`pool_allocator.h:199`): with GLIBCXX_FORCE_NEW, threads that
  race through their first requests of a type bring it to 2, which means the
  opposite of 1. RoomEnough and DeletedFromNew fail with ForceNew = TRUE: blocks
  of operator new go to a list and are handed out as larger.
* `append` (`basic_string.tcc:610`) reserves when the capacity is too small, but not
  when the representation is shared. Self-append of a shared string then reads from
  a representation that another thread may have freed: NoUseAfterFree fails with
  Aliasing = TRUE and calls that overlap. insert, assign and replace of a shared
  string's own characters do the same.
* `_S_handle_oom_proc` can run in threads that do not hold the mutex, and its last
  store can then reach the next `_OOM_handler` object, which does not restore the
  program's handler (HandlerRestored holds for one thread, and not for two).
* `assign` (`basic_string.tcc:283`) writes `s.assign(s.data(), n)` in place without
  comparing n with the capacity, which the terminator of a full string exceeds: the
  new terminator is written behind the memory. EditsExact fails with AssignsPast = TRUE.
* `append(const _CharT*, n)` (`basic_string.tcc:641`) reserves, and so frees an
  argument that lies in the string, if the string is not shared and has no room.
  EditsExact fails with AppendsGrown = TRUE.
* `xsgetn` (`fstream.tcc:550`): after a direct read that gets some, but not all, of the
  characters, neither branch is taken: get area and reading mode stay as they were,
  so that a seek or a write afterwards is at the wrong place, unlike what 552-554
  say. GetAreaFresh and ImplementsStream fail with PastEnd = TRUE.
* `basic_string.h:1078` marks the representation as leaked even if it is the static
  empty one, so that copies of empty strings allocate until the mark goes.
* `list::merge` (`debug/list:424`) attaches a temporary to the other list where it
  should transfer its iterators. They stay attached to the emptied list, which takes
  them for dereferenceable. ChecksSound fails with MergesHeld = TRUE.
* `list::swap` (`debug/list:284`) takes the iterators at the ends along, which stay
  where they are: each is attached to a list whose end it is not, and passes for
  dereferenceable. ChecksSound fails with SwapsEnds = TRUE.
* a sungetc or sputbackc at the start of the file, or a seek to before it, fails and
  loses the position; FileStream allows it to.
* an exception out of `_S_initialize` (`mt_allocator.h:538`) leaves the once-control
  unfinished, and every thread that allocates afterwards waits for ever: what
  OnceWaitersPass says after `\/`.

## Plan

Written, checked and proved: MtAlloc, PoolAlloc, RcuList, CowString, StringEdit,
BitmapAlloc, SafeList, FileBuf, with their refinements of BlockPool, KeyedList,
StringValues, Iterators and FileStream. Every safety property of a passing run is a
theorem.

Left to model, in this order:

1. kernel protocols: sequence locks (readers see consistent data), tasklets
   (scheduled once, never run twice at a time), NAPI polling, reference counts;
2. FileBuf with reads and writes that fail or are short, and with facets that
   convert;
3. the other sequences of the debug mode; the deque's map, heaps.

## Not modelled

* Whatever is in the binary libraries: `_M_refill` and `_M_allocate_chunk` of
  `__pool_alloc`, the tree's rebalancing, the attaching of safe iterators,
  libpthread, the kernel. What the headers call of it is modelled by what their
  comments say.
* Algorithms, numerics, traits, containers but for the debug list, ropes, formatting
  and locales: single-threaded data structures and pure functions of which each
  has a specification in the standard, most of them templates over types that a
  model would have to make up.
* uClibc++, the uClibc headers and the kernel headers but for the lists:
  declarations for the most part, or a second implementation without the sharing
  that makes libstdc++'s hard.
* The scripts, documents and binaries.

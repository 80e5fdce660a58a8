----------------------------- MODULE BitmapAlloc -----------------------------
(***************************************************************************)
(* bitmap_allocator (ext/bitmap_allocator.h): every value type has super   *)
(* blocks that a bit map divides into objects, searched from the place of  *)
(* the last request; empty super blocks go to a store that all types       *)
(* share.                                                                  *)
(*                                                                         *)
(* Lists are numbered from 1 where the code's vectors begin with 0, so     *)
(* that 0 stands for its index -1.  The words of memory are unsigned ints. *)
(* Everything under _S_mut of a type is one step up to the next use of     *)
(* what types share: the store and its mutex, operator new, the            *)
(* new-handler.                                                            *)
(***************************************************************************)
EXTENDS Integers, FiniteSets, SequencesExt

CONSTANTS
  Thread,
  Type,          \* value types: instances of the class template
  Words,         \* Words[y]: sizeof(value_type) in words
  Super,         \* memory areas that operator new can supply
  Bits,          \* _Bits_Per_Block
  MaxBlocks,     \* bound: super blocks of one type
  MaxStore,      \* __max_size of the store
  Enabled,       \* __threads_enabled
  OutOfMemory,   \* operator new may fail when a super block is wanted,
  PushThrows,    \* and when _S_mem_blocks has to grow
  NoThread, NoSuper, NoType

ASSUME BitmapAssumption ==
  /\ NoThread \notin Thread /\ NoSuper \notin Super /\ NoType \notin Type
  /\ Words \in [Type -> Nat \ {0}]
  /\ Bits \in Nat \ {0}
  /\ MaxBlocks \in Nat /\ MaxStore \in Nat \ {0}
  /\ Enabled \in BOOLEAN /\ OutOfMemory \in BOOLEAN /\ PushThrows \in BOOLEAN
  /\ Enabled \/ \A t, u \in Thread : t = u

VARIABLES
  mem_blocks,    \* _S_mem_blocks of each type
  count,         \* how many objects a super block is divided into
  use_count,     \* the word before its bit maps: how many are in use
  free,          \* the positions whose bit says free
  size,          \* the word before that: the size it was obtained with
  last_request,  \* _S_last_request: an index, and a bit map of a super block
  last_dealloc,  \* _S_last_dealloc_index
  block_size,    \* _S_block_size
  mut,           \* holder of each _S_mut
  free_list,     \* the store's _S_free_list
  bfl_mutex,     \* holder of _S_bfl_mutex
  new_handler,   \* the program's std::new_handler, or _S_handle_oom_proc
  old_handler,   \* _OOM_handler::_S_old_handler
  handled_oom,   \* _OOM_handler::_S_handled_oom
  heap,          \* memory that nobody has obtained
  live,          \* objects in the hands of the program
  pc,            \* where each thread is
  call           \* the type and the super block of the thread's call

blockVars == <<mem_blocks, count, use_count, free, last_request, last_dealloc,
               block_size, mut, live>>
handlerVars == <<new_handler, old_handler, handled_oom>>
vars == <<blockVars, size, free_list, bfl_mutex, handlerVars, heap, pc, call>>

NoCall == [type |-> NoType, super |-> NoSuper]

Goto(t, from, to) == pc[t] = from /\ pc' = [pc EXCEPT ![t] = to]

\* _Lock: a thread waits for a mutex, its own included.
Unlocked(m) == ~Enabled \/ m = NoThread
Locker(t) == IF Enabled THEN t ELSE NoThread

BitMaps(s) == 0 .. (count[s] \div Bits - 1)
FreeIn(s, b) == {p \in free[s] : p \div Bits = b}

\* Position i of the list, at the first bit map; _M_finished for i = 0.
ResetTo(blocks, i) ==
  [index |-> i, super |-> IF i = 0 THEN NoSuper ELSE blocks[i], bitmap |-> 0]

Finished(y) == last_request[y].super = NoSuper

\* The bit maps with a free bit, as pairs of index and number, from the last
\* request on.  The one under the cursor is reached by pointer.
Ahead(y) ==
  LET at == last_request[y]
      blocks == mem_blocks[y]
  IN IF Finished(y) THEN {}
     ELSE {<<at.index, b>> : b \in {b \in BitMaps(at.super) :
                               b >= at.bitmap /\ FreeIn(at.super, b) # {}}}
          \cup UNION {{<<i, b>> : b \in {b \in BitMaps(blocks[i]) :
                                           FreeIn(blocks[i], b) # {}}} :
                        i \in (at.index + 1) .. Len(blocks)}

\* The super blocks that the first fit accepts.
Fitting(y) ==
  {i \in 1 .. Len(mem_blocks[y]) :
     LET s == mem_blocks[y][i] IN use_count[s] # count[s] /\ free[s] # {}}

FirstOf(S) == CHOOSE c \in S : \A d \in S :
                c[1] < d[1] \/ (c[1] = d[1] /\ c[2] <= d[2])

\* sizeof of a super block for n objects: its use count, objects, bit maps.
Needed(y, n) == 1 + n * Words[y] + n \div Bits

\* _S_should_i_give.
ShouldGive(have, required) ==
  have >= required /\ (((have - required) * 100) \div have) < 36

-----------------------------------------------------------------------------

Init ==
  /\ mem_blocks = [y \in Type |-> <<>>]
  /\ count = [s \in Super |-> 0]
  /\ use_count = [s \in Super |-> 0]
  /\ free = [s \in Super |-> {}]
  /\ size = [s \in Super |-> 0]
  /\ last_request = [y \in Type |-> ResetTo(<<>>, 0)]
  /\ last_dealloc = [y \in Type |-> 1]
  /\ block_size = [y \in Type |-> Bits]
  /\ mut = [y \in Type |-> NoThread]
  /\ free_list = <<>>
  /\ bfl_mutex = NoThread
  /\ new_handler = "program"
  /\ old_handler = "program"
  /\ handled_oom = FALSE
  /\ heap = Super
  /\ live = {}
  /\ pc = [t \in Thread |-> "idle"]
  /\ call = [t \in Thread |-> NoCall]

\* Faulty variant: the object is not counted.
GiveUncounted(y, s, b, c) ==
  LET p == Min(FreeIn(s, b)) IN
    /\ free' = [free EXCEPT ![s] = @ \ {p}]
    /\ live' = live \cup {<<y, c, p>>}
    /\ UNCHANGED use_count

\* The object at the lowest free bit of bit map b, reached through super
\* block s of the cursor, and counted in super block c.
Give(y, s, b, c) ==
  LET p == Min(FreeIn(s, b)) IN
    /\ free' = [free EXCEPT ![s] = @ \ {p}]
    /\ use_count' = [use_count EXCEPT ![c] = @ + 1]
    /\ live' = live \cup {<<y, c, p>>}

\* _S_allocate_single_object: the first free bit from the last request on ...
AllocateAhead(t, y) ==
  /\ pc[t] = "idle" /\ Unlocked(mut[y])
  /\ Ahead(y) # {}
  /\ LET c == FirstOf(Ahead(y))
         s == IF c[1] = last_request[y].index THEN last_request[y].super
              ELSE mem_blocks[y][c[1]]
     IN /\ Give(y, s, c[2], mem_blocks[y][c[1]])
        /\ last_request' = [last_request EXCEPT ![y] =
             [index |-> c[1], super |-> s, bitmap |-> c[2]]]
  /\ UNCHANGED <<mem_blocks, count, size, last_dealloc, block_size, mut,
                 free_list, bfl_mutex, handlerVars, heap, pc, call>>

\* ... or else the first fit ...
AllocateFirstFit(t, y) ==
  /\ pc[t] = "idle" /\ Unlocked(mut[y])
  /\ Ahead(y) = {} /\ Fitting(y) # {}
  /\ LET i == Min(Fitting(y))
         s == mem_blocks[y][i]
     IN /\ Give(y, s, Min({b \in BitMaps(s) : FreeIn(s, b) # {}}), s)
        /\ last_request' = [last_request EXCEPT ![y] = ResetTo(mem_blocks[y], i)]
  /\ UNCHANGED <<mem_blocks, count, size, last_dealloc, block_size, mut,
                 free_list, bfl_mutex, handlerVars, heap, pc, call>>

\* Faulty variant: _S_mut is not held while the store is asked.
AllocateRefillUnlocked(t, y) ==
  /\ Goto(t, "idle", "get")
  /\ Unlocked(mut[y])
  /\ Ahead(y) = {} /\ Fitting(y) = {}
  /\ Len(mem_blocks[y]) < MaxBlocks
  /\ call' = [call EXCEPT ![t] = [type |-> y, super |-> NoSuper]]
  /\ UNCHANGED <<blockVars, size, free_list, bfl_mutex, handlerVars, heap>>

\* ... or else _S_refill_pool, with the cursor past the end.
AllocateRefill(t, y) ==
  /\ Goto(t, "idle", "get")
  /\ Unlocked(mut[y])
  /\ Ahead(y) = {} /\ Fitting(y) = {}
  /\ Len(mem_blocks[y]) < MaxBlocks
  /\ mut' = [mut EXCEPT ![y] = Locker(t)]
  /\ call' = [call EXCEPT ![t] = [type |-> y, super |-> NoSuper]]
  /\ last_request' =
       IF Finished(y) THEN last_request
       ELSE [last_request EXCEPT ![y] = [ResetTo(<<>>, 0) EXCEPT
                                           !.index = Len(mem_blocks[y]) + 1]]
  /\ UNCHANGED <<mem_blocks, count, use_count, free, size, last_dealloc,
                 block_size, live, free_list, bfl_mutex, handlerVars, heap>>

Required(t) == Needed(call[t].type, block_size[call[t].type])

\* Position that lower_bound finds for a size in the store.
LowerBound(n) ==
  Min({i \in 1 .. Len(free_list) : size[free_list[i]] >= n}
        \cup {Len(free_list) + 1})

\* The store gives its smallest super block that is large enough, unless it
\* would be wasted.
StoreGives(n) ==
  LET i == LowerBound(n) IN
    i <= Len(free_list) /\ ShouldGive(size[free_list[i]], n)

\* Faulty variant: the super block stays in the store.
GetStoredKeeps(t) ==
  /\ Goto(t, "get", "push")
  /\ Unlocked(bfl_mutex)
  /\ StoreGives(Required(t))
  /\ call' = [call EXCEPT ![t].super = free_list[LowerBound(Required(t))]]
  /\ UNCHANGED <<blockVars, size, free_list, bfl_mutex, handlerVars, heap>>

GetStored(t) ==
  /\ Goto(t, "get", "push")
  /\ Unlocked(bfl_mutex)
  /\ StoreGives(Required(t))
  /\ LET i == LowerBound(Required(t)) IN
       /\ call' = [call EXCEPT ![t].super = free_list[i]]
       /\ free_list' = RemoveAt(free_list, i)
  /\ UNCHANGED <<blockVars, size, bfl_mutex, handlerVars, heap>>

\* Or operator new is called with the store locked and a new-handler set.
GetNew(t) ==
  /\ Goto(t, "get", "handler")
  /\ Unlocked(bfl_mutex)
  /\ ~StoreGives(Required(t))
  /\ bfl_mutex' = Locker(t)
  /\ old_handler' = new_handler
  /\ new_handler' = "oom"
  /\ UNCHANGED <<blockVars, size, free_list, handled_oom, heap, call>>

HandlerReset(t) ==
  /\ Goto(t, "handler", "new")
  /\ handled_oom' = FALSE
  /\ UNCHANGED <<blockVars, size, free_list, bfl_mutex, new_handler,
                 old_handler, heap, call>>

\* Faulty variant: the destructor does nothing.
HandlerKept == new_handler' = new_handler /\ bfl_mutex' = NoThread

\* The destructor of _OOM_handler, and of the lock.
HandlerDone ==
  /\ new_handler' = IF handled_oom THEN new_handler ELSE old_handler
  /\ bfl_mutex' = NoThread

NewSucceeds(t) ==
  /\ Goto(t, "new", "push")
  /\ \E s \in heap :
       /\ heap' = heap \ {s}
       /\ size' = [size EXCEPT ![s] = Required(t)]
       /\ call' = [call EXCEPT ![t].super = s]
  /\ HandlerDone
  /\ UNCHANGED <<blockVars, free_list, old_handler, handled_oom>>

\* operator new fails: it calls the handler, or throws if there is none but
\* the program's; allocate gives up and unlocks everything.
NewFails(t) ==
  /\ OutOfMemory
  /\ IF new_handler = "oom"
     THEN /\ Goto(t, "new", "clear")
          /\ UNCHANGED <<mut, new_handler, bfl_mutex, call>>
     ELSE /\ Goto(t, "new", "idle")
          /\ mut' = [mut EXCEPT ![call[t].type] = NoThread]
          /\ call' = [call EXCEPT ![t] = NoCall]
          /\ HandlerDone
  /\ UNCHANGED <<mem_blocks, count, use_count, free, size, last_request,
                 last_dealloc, block_size, live, free_list, old_handler,
                 handled_oom, heap>>

\* A thread runs out of memory somewhere else while that handler is set.
ElsewhereFails(t) ==
  /\ OutOfMemory
  /\ new_handler = "oom"
  /\ Goto(t, "idle", "clear")
  /\ UNCHANGED <<blockVars, size, free_list, bfl_mutex, handlerVars, heap, call>>

\* operator delete.
Delete(S) ==
  /\ heap' = heap \cup S
  /\ size' = [s \in Super |-> IF s \in S THEN 0 ELSE size[s]]

\* _S_handle_oom_proc: _S_clear under the store's mutex ...
Clear(t) ==
  /\ Goto(t, "clear", "restore")
  /\ Unlocked(bfl_mutex)
  /\ Delete(Range(free_list))
  /\ free_list' = <<>>
  /\ UNCHANGED <<blockVars, bfl_mutex, handlerVars, call>>

\* Faulty variant: the handler stays, and operator new calls it again.
RestoreOmitted(t) ==
  /\ Goto(t, "restore", "handled")
  /\ UNCHANGED <<blockVars, size, free_list, bfl_mutex, handlerVars, heap, call>>

\* ... set_new_handler ...
Restore(t) ==
  /\ Goto(t, "restore", "handled")
  /\ new_handler' = old_handler
  /\ UNCHANGED <<blockVars, size, free_list, bfl_mutex, old_handler,
                 handled_oom, heap, call>>

\* ... and back to operator new, or to what else ran out of memory.
Handled(t) ==
  /\ Goto(t, "handled", IF call[t] = NoCall THEN "idle" ELSE "new")
  /\ handled_oom' = TRUE
  /\ UNCHANGED <<blockVars, size, free_list, bfl_mutex, new_handler,
                 old_handler, heap, call>>

\* The rest of _S_refill_pool: the super block is divided into n objects, and
\* used of them counted.  The first is given to the program.
Divide(t, n, used) ==
  /\ Goto(t, "push", "idle")
  /\ LET y == call[t].type
         s == call[t].super
         blocks == Append(mem_blocks[y], s)
     IN /\ mem_blocks' = [mem_blocks EXCEPT ![y] = blocks]
        /\ count' = [count EXCEPT ![s] = n]
        /\ free' = [free EXCEPT ![s] = 1 .. (n - 1)]
        /\ use_count' = [use_count EXCEPT ![s] = used]
        /\ live' = live \cup {<<y, s, 0>>}
        /\ last_request' =
             [last_request EXCEPT ![y] = ResetTo(blocks, Len(blocks))]
        /\ block_size' = [block_size EXCEPT ![y] = 2 * @]
        /\ mut' = [mut EXCEPT ![y] = NoThread]
  /\ call' = [call EXCEPT ![t] = NoCall]
  /\ UNCHANGED <<size, last_dealloc, free_list, bfl_mutex, handlerVars, heap>>

\* Faulty variant: the use count begins with the size of the block.
PushCountsAll(t) ==
  Divide(t, block_size[call[t].type], block_size[call[t].type] + 1)

Push(t) == Divide(t, block_size[call[t].type], 1)

\* _S_mem_blocks.push_back throws: the new super block is forgotten.
PushFails(t) ==
  /\ PushThrows
  /\ Goto(t, "push", "idle")
  /\ use_count' = [use_count EXCEPT ![call[t].super] = 0]
  /\ mut' = [mut EXCEPT ![call[t].type] = NoThread]
  /\ call' = [call EXCEPT ![t] = NoCall]
  /\ UNCHANGED <<mem_blocks, count, free, size, last_request, last_dealloc,
                 block_size, live, free_list, bfl_mutex, handlerVars, heap>>

-----------------------------------------------------------------------------

\* Where _S_deallocate_single_object finds the super block of an object.
IndexOf(y, s) ==
  IF last_dealloc[y] \in DOMAIN mem_blocks[y] /\ mem_blocks[y][last_dealloc[y]] = s
  THEN last_dealloc[y]
  ELSE CHOOSE i \in DOMAIN mem_blocks[y] : mem_blocks[y][i] = s

\* Faulty variants: the size of the next super block is not halved; the bit is
\* not set.
DeallocateNoHalving(t, y, s, p) ==
  /\ pc[t] = "idle" /\ Unlocked(mut[y])
  /\ <<y, s, p>> \in live
  /\ live' = live \ {<<y, s, p>>}
  /\ free' = [free EXCEPT ![s] = @ \cup {p}]
  /\ use_count' = [use_count EXCEPT ![s] = @ - 1]
  /\ last_dealloc' = [last_dealloc EXCEPT ![y] = IndexOf(y, s)]
  /\ IF use_count[s] = 1
     THEN /\ mut' = [mut EXCEPT ![y] = Locker(t)]
          /\ pc' = [pc EXCEPT ![t] = "insert"]
          /\ call' = [call EXCEPT ![t] = [type |-> y, super |-> s]]
     ELSE UNCHANGED <<mut, pc, call>>
  /\ UNCHANGED <<mem_blocks, count, size, last_request, block_size, free_list,
                 bfl_mutex, handlerVars, heap>>

DeallocateNoBit(t, y, s, p) ==
  /\ pc[t] = "idle" /\ Unlocked(mut[y])
  /\ <<y, s, p>> \in live
  /\ use_count[s] > 1
  /\ live' = live \ {<<y, s, p>>}
  /\ use_count' = [use_count EXCEPT ![s] = @ - 1]
  /\ UNCHANGED <<mem_blocks, count, free, size, last_request, last_dealloc,
                 block_size, mut, pc, call, free_list, bfl_mutex, handlerVars,
                 heap>>

\* _S_deallocate_single_object, up to a super block that becomes empty.
Deallocate(t, y, s, p) ==
  /\ pc[t] = "idle" /\ Unlocked(mut[y])
  /\ <<y, s, p>> \in live
  /\ live' = live \ {<<y, s, p>>}
  /\ free' = [free EXCEPT ![s] = @ \cup {p}]
  /\ use_count' = [use_count EXCEPT ![s] = @ - 1]
  /\ last_dealloc' = [last_dealloc EXCEPT ![y] = IndexOf(y, s)]
  /\ IF use_count[s] = 1
     THEN /\ block_size' = [block_size EXCEPT ![y] = @ \div 2]
          /\ mut' = [mut EXCEPT ![y] = Locker(t)]
          /\ pc' = [pc EXCEPT ![t] = "insert"]
          /\ call' = [call EXCEPT ![t] = [type |-> y, super |-> s]]
     ELSE UNCHANGED <<block_size, mut, pc, call>>
  /\ UNCHANGED <<mem_blocks, count, size, last_request, free_list, bfl_mutex,
                 handlerVars, heap>>

\* Faulty variants: the last super block of a full store is dropped and not
\* deleted; the new one goes to the end.
InsertDrops(t) ==
  /\ Goto(t, "insert", "erase")
  /\ Unlocked(bfl_mutex)
  /\ free_list' = IF Len(free_list) >= MaxStore
                  THEN Append(Front(free_list), call[t].super)
                  ELSE Append(free_list, call[t].super)
  /\ UNCHANGED <<blockVars, size, bfl_mutex, handlerVars, heap, call>>

InsertLast(t) ==
  /\ Goto(t, "insert", "erase")
  /\ Unlocked(bfl_mutex)
  /\ IF Len(free_list) >= MaxStore
     THEN Delete({call[t].super}) /\ UNCHANGED free_list
     ELSE free_list' = Append(free_list, call[t].super) /\ Delete({})
  /\ UNCHANGED <<blockVars, bfl_mutex, handlerVars, call>>

\* _S_insert_free_list: the store keeps the MaxStore smallest, in order.  What
\* the super block was divided into is of no interest any more.
\* It is declared not to throw: when the store's vector has to grow and operator
\* new fails, the program ends, which is no step.
Insert(t) ==
  /\ Goto(t, "insert", "erase")
  /\ Unlocked(bfl_mutex)
  /\ LET s == call[t].super
         full == Len(free_list) >= MaxStore
         kept == IF full THEN Front(free_list) ELSE free_list
         i == Min({j \in 1 .. Len(kept) : size[kept[j]] >= size[s]}
                    \cup {Len(kept) + 1})
     IN /\ count' = [count EXCEPT ![s] = 0]
        /\ free' = [free EXCEPT ![s] = {}]
        /\ IF full /\ size[s] >= size[Last(free_list)]
           THEN Delete({s}) /\ UNCHANGED free_list
           ELSE /\ Delete(IF full THEN {Last(free_list)} ELSE {})
                /\ free_list' = InsertAt(kept, i, s)
  /\ UNCHANGED <<mem_blocks, use_count, last_request, last_dealloc, block_size,
                 mut, live, bfl_mutex, handlerVars, call>>

\* Faulty variant: _S_last_request is left alone.
EraseKeepsCursor(t) ==
  /\ Goto(t, "erase", "idle")
  /\ LET y == call[t].type
         blocks == RemoveAt(mem_blocks[y], IndexOf(y, call[t].super))
     IN /\ mem_blocks' = [mem_blocks EXCEPT ![y] = blocks]
        /\ last_dealloc' = [last_dealloc EXCEPT ![y] = 1]
        /\ mut' = [mut EXCEPT ![y] = NoThread]
  /\ call' = [call EXCEPT ![t] = NoCall]
  /\ UNCHANGED <<count, use_count, free, size, last_request, block_size, live,
                 free_list, bfl_mutex, handlerVars, heap>>

\* Then it leaves the list of its type, and both cached indices are put right.
Erase(t) ==
  /\ Goto(t, "erase", "idle")
  /\ LET y == call[t].type
         d == IndexOf(y, call[t].super)
         blocks == RemoveAt(mem_blocks[y], d)
     IN /\ mem_blocks' = [mem_blocks EXCEPT ![y] = blocks]
        /\ last_request' =
             IF last_request[y].index >= d
             THEN [last_request EXCEPT ![y] = ResetTo(blocks, d - 1)]
             ELSE last_request
        /\ last_dealloc' =
             IF last_dealloc[y] > Len(blocks)
             THEN [last_dealloc EXCEPT ![y] = IF d = 1 THEN 1 ELSE d - 1]
             ELSE last_dealloc
        /\ mut' = [mut EXCEPT ![y] = NoThread]
  /\ call' = [call EXCEPT ![t] = NoCall]
  /\ UNCHANGED <<count, use_count, free, size, block_size, live, free_list,
                 bfl_mutex, handlerVars, heap>>

-----------------------------------------------------------------------------

Continue(t) ==
  \/ GetStored(t) \/ GetNew(t) \/ HandlerReset(t) \/ NewSucceeds(t)
  \/ NewFails(t) \/ Clear(t) \/ Restore(t) \/ Handled(t) \/ Push(t)
  \/ PushFails(t) \/ Insert(t) \/ Erase(t)

Begin(t) ==
  \/ \E y \in Type : AllocateAhead(t, y) \/ AllocateFirstFit(t, y)
                       \/ AllocateRefill(t, y)
  \/ \E o \in live : Deallocate(t, o[1], o[2], o[3])
  \/ ElsewhereFails(t)

Next == \E t \in Thread : Begin(t) \/ Continue(t)

Spec == Init /\ [][Next]_vars

\* A thread that has begun a call is scheduled.
FairSpec == Spec /\ \A t \in Thread : WF_vars(Continue(t))

-----------------------------------------------------------------------------

Pc == {"idle", "get", "handler", "new", "clear", "restore", "handled", "push",
       "insert", "erase"}

\* The type invariant.
TypeOK ==
  /\ mem_blocks \in [Type -> Seq(Super)]
  /\ \A y \in Type : Len(mem_blocks[y]) <= MaxBlocks
  /\ last_request \in [Type -> [index : 0 .. (MaxBlocks + 1),
                               super : Super \cup {NoSuper}, bitmap : Nat]]
  /\ last_dealloc \in [Type -> 1 .. (MaxBlocks + 1)]
  /\ block_size \in [Type -> Nat \ {0}]
  /\ mut \in [Type -> Thread \cup {NoThread}]
  /\ count \in [Super -> Nat]
  /\ use_count \in [Super -> Nat]
  /\ size \in [Super -> Nat]
  /\ free \in [Super -> SUBSET Nat]
  /\ \A s \in Super : use_count[s] <= count[s] /\ free[s] \subseteq 0 .. (count[s] - 1)
  /\ live \subseteq Type \X Super \X Nat
  /\ free_list \in Seq(Super)
  /\ bfl_mutex \in Thread \cup {NoThread}
  /\ {new_handler, old_handler} \subseteq {"program", "oom"}
  /\ handled_oom \in BOOLEAN
  /\ heap \subseteq Super
  /\ pc \in [Thread -> Pc]
  /\ call \in [Thread -> [type : Type \cup {NoType}, super : Super \cup {NoSuper}]]

\* The super blocks of a type.  Between Insert and Erase one is still in the
\* list although the store, or another type, may have it already.
Owned(y) ==
  {s \in Range(mem_blocks[y]) :
     \A t \in Thread : pc[t] = "erase" => call[t] # [type |-> y, super |-> s]}

Arriving == {call[t].super : t \in {t \in Thread : pc[t] = "push"}}

Leaving(y) ==
  {t \in Thread : pc[t] \in {"insert", "erase"} /\ call[t].type = y}

NoDuplicates(l) == \A i, j \in DOMAIN l : l[i] = l[j] => i = j

\* A super block serves one type, or waits in the store, or belongs to nobody:
\* two types that had the same memory would overwrite each other's objects,
\* and one of them would find its bit maps destroyed.
SuperExclusive ==
  /\ \A y, z \in Type : y # z => Owned(y) \cap Owned(z) = {}
  /\ \A y \in Type : /\ NoDuplicates(mem_blocks[y])
                     /\ Owned(y) \cap (Range(free_list) \cup heap \cup Arriving) = {}
  /\ NoDuplicates(free_list)
  /\ Range(free_list) \cap (heap \cup Arriving) = {}
  /\ heap \cap Arriving = {}
  /\ \A t, u \in Thread :
       pc[t] = "push" /\ pc[u] = "push" /\ t # u => call[t].super # call[u].super

\* As long as _S_mem_blocks can grow, no super block is lost on its way between
\* the types, the store and operator delete.
SuperKept ==
  Super = heap \cup Range(free_list) \cup Arriving \cup UNION {Owned(y) : y \in Type}

Held(y, s) == {p \in 0 .. (count[s] - 1) : <<y, s, p>> \in live}

\* The bits and the use count of a super block say which of its objects the
\* program holds, so that a block is returned when, and only when, it is
\* empty; and every object the program holds lies in a block of its type.
UseCountExact ==
  /\ \A y \in Type : \A s \in Owned(y) :
       /\ use_count[s] = Cardinality(Held(y, s))
       /\ free[s] = (0 .. (count[s] - 1)) \ Held(y, s)
       /\ use_count[s] = 0 => Leaving(y) # {}
  /\ \A o \in live : o[2] \in Owned(o[1]) /\ o[3] < count[o[2]]

\* The cached positions survive the erasure of super blocks: once it is done,
\* _S_last_request is finished or at a bit map of the block its index names,
\* and _S_last_dealloc_index is inside the list.
CachesSound ==
  \A y \in {y \in Type : Leaving(y) = {}} :
    /\ Finished(y) \/ /\ last_request[y].index \in DOMAIN mem_blocks[y]
                      /\ mem_blocks[y][last_request[y].index] = last_request[y].super
                      /\ last_request[y].bitmap \in BitMaps(last_request[y].super)
    /\ mem_blocks[y] # <<>> => last_dealloc[y] \in DOMAIN mem_blocks[y]

\* _S_block_size doubles with every super block a type has, and never runs
\* down to 0 when blocks come and go in any order.
BlockSizeExact ==
  \A y \in Type :
    block_size[y] = Bits * 2 ^ (Len(mem_blocks[y]) - Cardinality(Leaving(y)))

\* A super block that came from another type is large enough for the bit maps
\* and objects it is divided into.
LargeEnough ==
  \A y \in Type : \A s \in Owned(y) : size[s] >= Needed(y, count[s])

\* The store is ordered by size, as its binary search needs, and bounded.
StoreOrdered ==
  /\ Len(free_list) <= MaxStore
  /\ \A i, j \in DOMAIN free_list : i < j => size[free_list[i]] <= size[free_list[j]]

\* To its users it is an allocator like any other.  It has every object but
\* those that the bit map of their super block shows as taken.
Object == Type \X Super \X (0 .. (Bits * 2 ^ MaxBlocks))

Taken(y) ==
  {o \in Object : /\ o[1] = y /\ o[2] \in Owned(y)
                  /\ o[3] < count[o[2]] /\ o[3] \notin free[o[2]]}

Pool ==
  INSTANCE BlockPool WITH
    Block <- Object,
    avail <- Object \ UNION {Taken(y) : y \in Type}

ImplementsPool == Pool!Spec

\* "This function just clears the internal Free List, and gives back all the
\* memory": when operator new calls it, it gets the mutex it asks for.
ClearPossible == \A t \in Thread : pc[t] = "clear" /\ Enabled => bfl_mutex # t

\* A new-handler that was installed for one call of operator new is gone after
\* it, whether it was called or not.
HandlerRestored ==
  (\A t \in Thread : pc[t] \notin {"handler", "new", "clear", "restore", "handled"})
    => new_handler = "program"

\* Without threads every call ends: when memory has run out, operator new calls
\* the handler once, and the next failure throws.
CallEnds == \A t \in Thread : pc[t] # "idle" ~> pc[t] = "idle"
=============================================================================

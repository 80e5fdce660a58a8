------------------------------ MODULE PoolAlloc ------------------------------
(***************************************************************************)
(* __pool_alloc (ext/pool_allocator.h): one free list for every size class *)
(* of small blocks, shared by all value types behind one mutex, unless the *)
(* environment wants every block from operator new.  Each value type finds *)
(* that out for itself, with its first request, in _S_force_new.           *)
(*                                                                         *)
(* What happens under the mutex (class lock of bits/concurrence.h) waits   *)
(* for nothing and is one step.  _M_refill and _M_allocate_chunk, which    *)
(* fill an empty list, are in the library's binary.                        *)
(***************************************************************************)
EXTENDS Integers

CONSTANTS
  Thread,
  Type,       \* value types: instances of the class template
  Bytes,      \* Bytes[y]: the sizes __n * sizeof(_Tp) of the requests for y
  Block,      \* memory areas that operator new or a chunk can supply
  ForceNew,   \* GLIBCXX_FORCE_NEW is in the environment
  NoBlock

Align == 8
MaxBytes == 128

ASSUME PoolAssumption ==
  /\ Bytes \in [Type -> SUBSET (Nat \ {0})]
  /\ ForceNew \in BOOLEAN
  /\ NoBlock \notin Block

VARIABLES
  force_new,   \* _S_force_new of each type
  free_list,   \* _S_free_list, by size class
  heap,        \* blocks that nobody has obtained
  room,        \* bytes that a block has
  source,      \* where it was obtained: "new", "chunk"
  live,        \* blocks in the hands of the program,
  asked,       \* and the type and size they were asked for
  pc,          \* where each thread is
  call         \* type, size and block of the thread's call

vars == <<force_new, free_list, heap, room, source, live, asked, pc, call>>

\* _M_round_up: the sizes of the lists.
RoundUp(n) == ((n + Align - 1) \div Align) * Align
Class == {Align * k : k \in 1 .. (MaxBytes \div Align)}

Request == [type : Type, bytes : UNION {Bytes[y] : y \in Type}, block : Block \cup {NoBlock}]
NoCall == [type |-> "none", bytes |-> 0, block |-> NoBlock]

Init ==
  /\ force_new = [y \in Type |-> 0]
  /\ free_list = [c \in Class |-> {}]
  /\ heap = Block
  /\ room = [b \in Block |-> 0]
  /\ source = [b \in Block |-> "heap"]
  /\ live = {}
  /\ asked = [b \in Block |-> NoCall]
  /\ pc = [t \in Thread |-> "idle"]
  /\ call = [t \in Thread |-> NoCall]

\* allocate looks whether it is decided where memory comes from ...
AllocateCall(t, y, n) ==
  /\ pc[t] = "idle"
  /\ n \in Bytes[y]
  /\ call' = [call EXCEPT ![t] = [type |-> y, bytes |-> n, block |-> NoBlock]]
  /\ pc' = [pc EXCEPT ![t] = IF force_new[y] = 0 THEN "decide" ELSE "choose"]
  /\ UNCHANGED <<force_new, free_list, heap, room, source, live, asked>>

\* ... and decides by the environment ...
Decide(t) ==
  /\ pc[t] = "decide"
  /\ force_new' = [force_new EXCEPT ![call[t].type] =
                     IF ForceNew THEN @ + 1 ELSE @ - 1]
  /\ pc' = [pc EXCEPT ![t] = "choose"]
  /\ UNCHANGED <<free_list, heap, room, source, live, asked, call>>

\* Does the allocator leave a block of n bytes to operator new and delete?
FromNew(y, n) == n > MaxBytes \/ force_new[y] = 1

\* ... then reads the decision.
Choose(t) ==
  /\ pc[t] = "choose"
  /\ pc' = [pc EXCEPT ![t] =
              IF FromNew(call[t].type, call[t].bytes) THEN "new" ELSE "pool"]
  /\ UNCHANGED <<force_new, free_list, heap, room, source, live, asked, call>>

\* The call returns block b.
Return(t, b) ==
  /\ live' = live \cup {b}
  /\ asked' = [asked EXCEPT ![b] = call[t]]
  /\ pc' = [pc EXCEPT ![t] = "idle"]
  /\ call' = [call EXCEPT ![t] = NoCall]

New(t) ==
  /\ pc[t] = "new"
  /\ \E b \in heap :
       /\ heap' = heap \ {b}
       /\ room' = [room EXCEPT ![b] = call[t].bytes]
       /\ source' = [source EXCEPT ![b] = "new"]
       /\ Return(t, b)
  /\ UNCHANGED <<force_new, free_list>>

\* Faulty variant: the block stays on the list.
TakeKeeps(t) ==
  /\ pc[t] = "pool"
  /\ \E b \in free_list[RoundUp(call[t].bytes)] : Return(t, b)
  /\ UNCHANGED <<force_new, free_list, heap, room, source>>

Take(t) ==
  /\ pc[t] = "pool"
  /\ LET c == RoundUp(call[t].bytes) IN
       \E b \in free_list[c] :
         /\ free_list' = [free_list EXCEPT ![c] = @ \ {b}]
         /\ Return(t, b)
  /\ UNCHANGED <<force_new, heap, room, source>>

\* Faulty variant: the size is passed on without rounding it up.
RefillUnrounded(t) ==
  /\ pc[t] = "pool"
  /\ LET c == RoundUp(call[t].bytes) IN
       /\ free_list[c] = {}
       /\ \E S \in SUBSET heap : \E b \in S :
            /\ heap' = heap \ S
            /\ room' = [x \in Block |-> IF x \in S THEN call[t].bytes ELSE room[x]]
            /\ source' = [x \in Block |-> IF x \in S THEN "chunk" ELSE source[x]]
            /\ free_list' = [free_list EXCEPT ![c] = S \ {b}]
            /\ Return(t, b)
  /\ UNCHANGED force_new

\* _M_refill divides a chunk into blocks, returns one and lists the others.
Refill(t) ==
  /\ pc[t] = "pool"
  /\ LET c == RoundUp(call[t].bytes) IN
       /\ free_list[c] = {}
       /\ \E S \in SUBSET heap : \E b \in S :
            /\ heap' = heap \ S
            /\ room' = [x \in Block |-> IF x \in S THEN c ELSE room[x]]
            /\ source' = [x \in Block |-> IF x \in S THEN "chunk" ELSE source[x]]
            /\ free_list' = [free_list EXCEPT ![c] = S \ {b}]
            /\ Return(t, b)
  /\ UNCHANGED force_new

\* operator new throws, or _M_refill does, or it returns 0.
BadAlloc(t) ==
  /\ \/ pc[t] = "new"
     \/ pc[t] = "pool" /\ free_list[RoundUp(call[t].bytes)] = {}
  /\ pc' = [pc EXCEPT ![t] = "idle"]
  /\ call' = [call EXCEPT ![t] = NoCall]
  /\ UNCHANGED <<force_new, free_list, heap, room, source, live, asked>>

\* Faulty variant: the list is chosen by size alone.
DeallocateIgnoresMode(t, b) ==
  /\ pc[t] = "idle"
  /\ b \in live
  /\ live' = live \ {b}
  /\ asked' = [asked EXCEPT ![b] = NoCall]
  /\ call' = [call EXCEPT ![t] = [asked[b] EXCEPT !.block = b]]
  /\ pc' = [pc EXCEPT ![t] =
              IF asked[b].bytes >= MaxBytes THEN "delete" ELSE "give"]
  /\ UNCHANGED <<force_new, free_list, heap, room, source>>

\* deallocate reads the decision again, for a block of the size it was
\* allocated with.
Deallocate(t, b) ==
  /\ pc[t] = "idle"
  /\ b \in live
  /\ live' = live \ {b}
  /\ asked' = [asked EXCEPT ![b] = NoCall]
  /\ call' = [call EXCEPT ![t] = [asked[b] EXCEPT !.block = b]]
  /\ pc' = [pc EXCEPT ![t] =
              IF FromNew(asked[b].type, asked[b].bytes) THEN "delete" ELSE "give"]
  /\ UNCHANGED <<force_new, free_list, heap, room, source>>

Delete(t) ==
  /\ pc[t] = "delete"
  /\ heap' = heap \cup {call[t].block}
  /\ room' = [room EXCEPT ![call[t].block] = 0]
  /\ source' = [source EXCEPT ![call[t].block] = "heap"]
  /\ pc' = [pc EXCEPT ![t] = "idle"]
  /\ call' = [call EXCEPT ![t] = NoCall]
  /\ UNCHANGED <<force_new, free_list, live, asked>>

Give(t) ==
  /\ pc[t] = "give"
  /\ free_list' = [free_list EXCEPT ![RoundUp(call[t].bytes)] =
                     @ \cup {call[t].block}]
  /\ pc' = [pc EXCEPT ![t] = "idle"]
  /\ call' = [call EXCEPT ![t] = NoCall]
  /\ UNCHANGED <<force_new, heap, room, source, live, asked>>

Next ==
  \E t \in Thread :
    \/ \E y \in Type : \E n \in Bytes[y] : AllocateCall(t, y, n)
    \/ Decide(t) \/ Choose(t) \/ New(t) \/ Take(t) \/ Refill(t) \/ BadAlloc(t)
    \/ \E b \in live : Deallocate(t, b)
    \/ Delete(t) \/ Give(t)

Spec == Init /\ [][Next]_vars

-----------------------------------------------------------------------------

\* The type invariant.
TypeOK ==
  /\ force_new \in [Type -> Int]
  /\ free_list \in [Class -> SUBSET Block]
  /\ heap \subseteq Block
  /\ room \in [Block -> Nat]
  /\ source \in [Block -> {"heap", "new", "chunk"}]
  /\ live \subseteq Block
  /\ asked \in [Block -> Request \cup {NoCall}]
  /\ pc \in [Thread -> {"idle", "decide", "choose", "new", "pool", "delete", "give"}]
  /\ call \in [Thread -> Request \cup {NoCall}]
  /\ \A t \in Thread : pc[t] # "idle" => call[t] \in Request

\* The block that a call to deallocate has taken back and not yet put away.
Hands == {t \in Thread : pc[t] \in {"delete", "give"}}

\* A block is obtained by nobody, on one list, with the program, or in the hands
\* of one thread.
OnePlace ==
  /\ heap \cap live = {}
  /\ \A c \in Class : /\ free_list[c] \cap (heap \cup live) = {}
                       /\ \A d \in Class \ {c} : free_list[c] \cap free_list[d] = {}
  /\ \A t \in Hands :
       /\ call[t].block \in Block \ (heap \cup live)
       /\ \A c \in Class : call[t].block \notin free_list[c]
       /\ \A u \in Hands \ {t} : call[u].block # call[t].block

\* A block has the bytes it was asked for, although the lists are shared by
\* requests of different types and sizes and deallocate is told a size and not
\* where the block came from.
RoomEnough == \A b \in live : asked[b] \in Request /\ asked[b].bytes <= room[b]

\* Whatever is on a list was cut from a chunk, for that size, and can stay in the
\* pool for good.
ListedFromChunk ==
  \A c \in Class : \A b \in free_list[c] : source[b] = "chunk" /\ room[b] = c

\* operator delete gets only what operator new has given.
DeletedFromNew ==
  [][\A b \in heap' \ heap : source[b] = "new"]_vars

\* It is an allocator like any other.
Pool ==
  INSTANCE BlockPool WITH
    avail <- {b \in Block :
                \/ b \in heap
                \/ \E c \in Class : b \in free_list[c]
                \/ \E t \in Hands : call[t].block = b}

ImplementsPool == Pool!Spec

=============================================================================

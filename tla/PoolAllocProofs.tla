--------------------------- MODULE PoolAllocProofs ---------------------------
(***************************************************************************)
(* Proofs about PoolAlloc, for any threads, types, sizes and blocks.       *)
(***************************************************************************)
EXTENDS PoolAlloc, TLAPS

\* Sizes.

LEMMA NoCallIsNone == NoCall \notin Request
  BY PoolAssumption DEF NoCall, Request

LEMMA Sizes == \A r \in Request : r.bytes \in Nat \ {0}
  BY PoolAssumption DEF Request

LEMMA Rounding ==
  \A n \in Nat \ {0} : /\ RoundUp(n) \in Nat
                       /\ n <= RoundUp(n)
                       /\ n <= MaxBytes => RoundUp(n) \in Class
<1> SUFFICES ASSUME NEW n \in Nat \ {0}
    PROVE  /\ RoundUp(n) \in Nat /\ n <= RoundUp(n)
           /\ n <= MaxBytes => RoundUp(n) \in Class
  OBVIOUS
<1> DEFINE k == (n + 7) \div 8
<1>1. k \in Nat /\ n <= 8 * k /\ (n <= 128 => k \in 1 .. 16)
  OBVIOUS
<1>2. RoundUp(n) = 8 * k
  BY <1>1 DEF RoundUp, Align
<1>3. Class = {8 * i : i \in 1 .. 16}
  BY DEF Class, Align, MaxBytes
<1> QED
  BY <1>1, <1>2, <1>3 DEF MaxBytes

LEMMA Requests ==
  ASSUME NEW y \in Type, NEW n \in Bytes[y], NEW b \in Block \cup {NoBlock}
  PROVE  [type |-> y, bytes |-> n, block |-> b] \in Request
  BY DEF Request

\* Every block has one place, whatever the environment says.  A block that the
\* program has carries the request it was made for.

PlaceInv ==
  /\ TypeOK
  /\ OnePlace
  /\ \A b \in live : asked[b] \in Request
  /\ \A t \in Thread : pc[t] \in {"pool", "give"} => call[t].bytes <= MaxBytes

LEMMA PlaceInit == Init => PlaceInv
  BY PoolAssumption DEF Init, PlaceInv, TypeOK, OnePlace, Hands

LEMMA PlaceNext == PlaceInv /\ [Next]_vars => PlaceInv'
<1> SUFFICES ASSUME PlaceInv, [Next]_vars PROVE PlaceInv'
  OBVIOUS
<1> USE PoolAssumption DEF PlaceInv, TypeOK, OnePlace, Hands
<1>1. ASSUME NEW t \in Thread, NEW y \in Type, NEW n \in Bytes[y],
             AllocateCall(t, y, n)
      PROVE  PlaceInv'
  <2>1. [type |-> y, bytes |-> n, block |-> NoBlock] \in Request
    BY Requests
  <2> QED
    BY <1>1, <2>1 DEF AllocateCall
<1>2. ASSUME NEW t \in Thread, Decide(t) PROVE PlaceInv'
  BY <1>2 DEF Decide, Request
<1>3. ASSUME NEW t \in Thread, Choose(t) PROVE PlaceInv'
  BY <1>3, Sizes DEF Choose, FromNew, MaxBytes
<1>4. ASSUME NEW t \in Thread, New(t) PROVE PlaceInv'
  BY <1>4, Sizes DEF New, Return
<1>5. ASSUME NEW t \in Thread, Take(t) PROVE PlaceInv'
  <2> DEFINE c == RoundUp(call[t].bytes)
  <2>1. c \in Class /\ call[t] \in Request
    BY <1>5, Sizes, Rounding DEF Take
  <2>2. PICK b \in free_list[c] :
          free_list' = [free_list EXCEPT ![c] = @ \ {b}] /\ Return(t, b)
    BY <1>5 DEF Take
  <2> HIDE DEF c
  <2> QED
    BY <1>5, <2>1, <2>2 DEF Take, Return
<1>6. ASSUME NEW t \in Thread, Refill(t) PROVE PlaceInv'
  <2> DEFINE c == RoundUp(call[t].bytes)
  <2>1. c \in Class /\ c \in Nat /\ call[t] \in Request
    BY <1>6, Sizes, Rounding DEF Refill
  <2>2. PICK S \in SUBSET heap : \E b \in S :
          /\ heap' = heap \ S
          /\ room' = [x \in Block |-> IF x \in S THEN c ELSE room[x]]
          /\ source' = [x \in Block |-> IF x \in S THEN "chunk" ELSE source[x]]
          /\ free_list' = [free_list EXCEPT ![c] = S \ {b}]
          /\ Return(t, b)
    BY <1>6 DEF Refill
  <2>3. free_list[c] = {} /\ force_new' = force_new /\ pc[t] = "pool"
    BY <1>6 DEF Refill
  <2> HIDE DEF c
  <2>4. TypeOK'
    BY <2>1, <2>2, <2>3 DEF Return
  <2>5. OnePlace'
    BY <2>1, <2>2, <2>3 DEF Return
  <2> QED
    BY <2>1, <2>2, <2>3, <2>4, <2>5 DEF Return
<1>7. ASSUME NEW t \in Thread, BadAlloc(t) PROVE PlaceInv'
  BY <1>7 DEF BadAlloc
<1>8. ASSUME NEW t \in Thread, NEW b \in live, Deallocate(t, b) PROVE PlaceInv'
  <2>1. [asked[b] EXCEPT !.block = b] \in Request
    BY DEF Request
  <2> QED
    BY <1>8, <2>1, Sizes DEF Deallocate, FromNew, MaxBytes
<1>9. ASSUME NEW t \in Thread, Delete(t) PROVE PlaceInv'
  BY <1>9 DEF Delete
<1>10. ASSUME NEW t \in Thread, Give(t) PROVE PlaceInv'
  <2> DEFINE c == RoundUp(call[t].bytes)
  <2>1. c \in Class /\ call[t] \in Request
    BY <1>10, Sizes, Rounding DEF Give
  <2> HIDE DEF c
  <2>2. free_list' = [free_list EXCEPT ![c] = @ \cup {call[t].block}]
    BY <1>10 DEF Give, c
  <2> QED
    BY <1>10, <2>1, <2>2 DEF Give
<1>11. CASE UNCHANGED vars
  BY <1>11 DEF vars
<1> QED
  BY <1>1, <1>2, <1>3, <1>4, <1>5, <1>6, <1>7, <1>8, <1>9, <1>10, <1>11 DEF Next

\* Every variable keeps its type.
THEOREM TypeCorrect == Spec => []TypeOK
<1>1. PlaceInv => TypeOK
  BY DEF PlaceInv
<1> QED
  BY <1>1, PlaceInit, PlaceNext, PTL DEF Spec

\* No block is in two places: the lists of the pool, which all types share, hold
\* none that the program or another list has.
THEOREM BlocksExclusive == Spec => []OnePlace
<1>1. PlaceInv => OnePlace
  BY DEF PlaceInv
<1> QED
  BY <1>1, PlaceInit, PlaceNext, PTL DEF Spec

-----------------------------------------------------------------------------

\* When the environment does not ask for operator new, no number of racing
\* threads brings _S_force_new to 1, and the size of a block alone tells where
\* it comes from.

\* Block b has what request r needs, from where it is given back to.
Sound(b, r) ==
  IF r.bytes > MaxBytes
  THEN source[b] = "new" /\ room[b] = r.bytes
  ELSE source[b] = "chunk" /\ room[b] = RoundUp(r.bytes)

SourceInv ==
  /\ PlaceInv
  /\ \A y \in Type : force_new[y] <= 0
  /\ \A t \in Thread : pc[t] \in {"new", "delete"} => call[t].bytes > MaxBytes
  /\ ListedFromChunk
  /\ \A b \in live : Sound(b, asked[b])
  /\ \A t \in Hands : Sound(call[t].block, call[t])

LEMMA SourceInit == Init => SourceInv
  BY PlaceInit DEF Init, SourceInv, ListedFromChunk, Hands

LEMMA SourceNext ==
  ASSUME ~ForceNew
  PROVE  SourceInv /\ [Next]_vars => SourceInv'
<1> SUFFICES ASSUME SourceInv, [Next]_vars PROVE SourceInv'
  OBVIOUS
<1>0. PlaceInv'
  BY PlaceNext DEF SourceInv
<1> USE <1>0 DEF SourceInv, PlaceInv, TypeOK, OnePlace, ListedFromChunk, Hands, Sound
<1>1. ASSUME NEW t \in Thread, NEW y \in Type, NEW n \in Bytes[y],
             AllocateCall(t, y, n)
      PROVE  SourceInv'
  BY <1>1 DEF AllocateCall
<1>2. ASSUME NEW t \in Thread, Decide(t) PROVE SourceInv'
  BY <1>2 DEF Decide, Request
<1>3. ASSUME NEW t \in Thread, Choose(t) PROVE SourceInv'
  BY <1>3, Sizes DEF Choose, FromNew, Request
<1>4. ASSUME NEW t \in Thread, New(t) PROVE SourceInv'
  BY <1>4, Sizes DEF New, Return
<1>5. ASSUME NEW t \in Thread, Take(t) PROVE SourceInv'
  <2> DEFINE c == RoundUp(call[t].bytes)
  <2>1. c \in Class /\ call[t] \in Request
    BY <1>5, Sizes, Rounding DEF Take
  <2>2. PICK b \in free_list[c] :
          free_list' = [free_list EXCEPT ![c] = @ \ {b}] /\ Return(t, b)
    BY <1>5 DEF Take
  <2> QED
    BY <1>5, <2>1, <2>2, Sizes DEF Take, Return, MaxBytes
<1>6. ASSUME NEW t \in Thread, Refill(t) PROVE SourceInv'
  <2> DEFINE c == RoundUp(call[t].bytes)
  <2>1. c \in Class /\ c \in Nat /\ call[t] \in Request
    BY <1>6, Sizes, Rounding DEF Refill
  <2>2. PICK S \in SUBSET heap : \E b \in S :
          /\ heap' = heap \ S
          /\ room' = [x \in Block |-> IF x \in S THEN c ELSE room[x]]
          /\ source' = [x \in Block |-> IF x \in S THEN "chunk" ELSE source[x]]
          /\ free_list' = [free_list EXCEPT ![c] = S \ {b}]
          /\ Return(t, b)
    BY <1>6 DEF Refill
  <2>3. free_list[c] = {} /\ force_new' = force_new /\ pc[t] = "pool"
    BY <1>6 DEF Refill
  <2> QED
    BY <2>1, <2>2, <2>3, Sizes DEF Return, MaxBytes
<1>7. ASSUME NEW t \in Thread, BadAlloc(t) PROVE SourceInv'
  BY <1>7 DEF BadAlloc
<1>8. ASSUME NEW t \in Thread, NEW b \in live, Deallocate(t, b) PROVE SourceInv'
  BY <1>8, Sizes DEF Deallocate, FromNew, Request
<1>9. ASSUME NEW t \in Thread, Delete(t) PROVE SourceInv'
  BY <1>9 DEF Delete
<1>10. ASSUME NEW t \in Thread, Give(t) PROVE SourceInv'
  <2> DEFINE c == RoundUp(call[t].bytes)
  <2>1. c \in Class /\ call[t] \in Request
    BY <1>10, Sizes, Rounding DEF Give
  <2>2. free_list' = [free_list EXCEPT ![c] = @ \cup {call[t].block}]
    BY <1>10 DEF Give
  <2>3. source[call[t].block] = "chunk" /\ room[call[t].block] = c
    BY <1>10, <2>1, Sizes DEF Give, MaxBytes
  <2> QED
    BY <1>10, <2>1, <2>2, <2>3 DEF Give
<1>11. CASE UNCHANGED vars
  BY <1>11 DEF vars
<1> QED
  BY <1>1, <1>2, <1>3, <1>4, <1>5, <1>6, <1>7, <1>8, <1>9, <1>10, <1>11 DEF Next

LEMMA SourceAlways == ASSUME ~ForceNew PROVE Spec => []SourceInv
  BY SourceInit, SourceNext, PTL DEF Spec

\* Every request gets a block of its size, whatever was asked for before with
\* the memory it is given.
THEOREM RoomSuffices == ASSUME ~ForceNew PROVE Spec => []RoomEnough
<1>1. SourceInv => RoomEnough
  BY Sizes, Rounding DEF SourceInv, PlaceInv, Sound, RoomEnough, MaxBytes
<1> QED
  BY <1>1, SourceAlways, PTL

\* Only what was cut from a chunk for the size of a list is on that list.
THEOREM ListsFromChunks == ASSUME ~ForceNew PROVE Spec => []ListedFromChunk
<1>1. SourceInv => ListedFromChunk
  BY DEF SourceInv
<1> QED
  BY <1>1, SourceAlways, PTL

\* Only what operator new has given is given to operator delete.
THEOREM DeletesFromNew == ASSUME ~ForceNew PROVE Spec => DeletedFromNew
<1>1. ASSUME SourceInv, [Next]_vars
      PROVE  [\A b \in heap' \ heap : source[b] = "new"]_vars
  <2>1. ASSUME NEW t \in Thread, Delete(t)
        PROVE  \A b \in heap' \ heap : source[b] = "new"
    BY <1>1, <2>1 DEF SourceInv, Hands, Sound, Delete
  <2>2. CASE heap' \subseteq heap
    BY <2>2
  <2> QED
    BY <1>1, <2>1, <2>2 DEF Next, vars, AllocateCall, Decide, Choose, New, Take,
      Refill, BadAlloc, Deallocate, Give, Return
<1> QED
  BY <1>1, SourceAlways, PTL DEF Spec, DeletedFromNew

-----------------------------------------------------------------------------

\* The blocks of the abstract pool.
Avail ==
  {b \in Block :
     \/ b \in heap
     \/ \E c \in Class : b \in free_list[c]
     \/ \E t \in Hands : call[t].block = b}

LEMMA PoolNext == PlaceInv /\ [Next]_vars => [Pool!Next]_<<live, Avail>>
<1> SUFFICES ASSUME PlaceInv, [Next]_vars
    PROVE  \/ live' = live /\ Avail' = Avail
           \/ \E b \in Block : Pool!allocate(b) \/ Pool!deallocate(b)
  BY DEF Pool!Next, Avail
<1>0. PlaceInv'
  BY PlaceNext
<1> USE DEF PlaceInv, TypeOK, OnePlace, Hands, Avail
<1>1. ASSUME NEW t \in Thread, NEW b \in Block, b \in Avail, Return(t, b),
             pc[t] \in {"new", "pool"}, Avail' = Avail \ {b}
      PROVE  Pool!allocate(b)
  BY <1>1 DEF Pool!allocate, Return
<1>2. ASSUME NEW t \in Thread, New(t) PROVE \E b \in Block : Pool!allocate(b)
  <2>1. PICK b \in heap : heap' = heap \ {b} /\ Return(t, b)
    BY <1>2 DEF New
  <2>2. Avail' = Avail \ {b}
    BY <1>2, <2>1 DEF New, Return
  <2> QED
    BY <1>1, <1>2, <2>1, <2>2 DEF New
<1>3. ASSUME NEW t \in Thread, Take(t) PROVE \E b \in Block : Pool!allocate(b)
  <2> DEFINE c == RoundUp(call[t].bytes)
  <2>1. c \in Class
    BY <1>3, Sizes, Rounding DEF Take
  <2>2. PICK b \in free_list[c] :
          free_list' = [free_list EXCEPT ![c] = @ \ {b}] /\ Return(t, b)
    BY <1>3 DEF Take
  <2> HIDE DEF c
  <2>3. Avail' = Avail \ {b}
    BY <1>3, <2>1, <2>2 DEF Take, Return
  <2> QED
    BY <1>1, <1>3, <2>1, <2>2, <2>3 DEF Take
<1>4. ASSUME NEW t \in Thread, Refill(t) PROVE \E b \in Block : Pool!allocate(b)
  <2> DEFINE c == RoundUp(call[t].bytes)
  <2>1. c \in Class
    BY <1>4, Sizes, Rounding DEF Refill
  <2>2. PICK S \in SUBSET heap : \E b \in S :
          /\ heap' = heap \ S
          /\ free_list' = [free_list EXCEPT ![c] = S \ {b}]
          /\ Return(t, b)
    BY <1>4 DEF Refill
  <2>3. PICK b \in S :
          free_list' = [free_list EXCEPT ![c] = S \ {b}] /\ Return(t, b)
    BY <2>2
  <2>4. free_list[c] = {} /\ pc[t] = "pool"
    BY <1>4 DEF Refill
  <2> HIDE DEF c
  <2>5. Avail' = Avail \ {b}
    BY <2>1, <2>2, <2>3, <2>4 DEF Return
  <2> QED
    BY <1>1, <2>3, <2>4, <2>5
<1>5. ASSUME NEW t \in Thread, NEW b \in live, Deallocate(t, b)
      PROVE  Pool!deallocate(b)
  BY <1>5, NoCallIsNone DEF Deallocate, Pool!deallocate, Request
<1>6. ASSUME NEW t \in Thread, Delete(t) PROVE live' = live /\ Avail' = Avail
  BY <1>6 DEF Delete
<1>7. ASSUME NEW t \in Thread, Give(t) PROVE live' = live /\ Avail' = Avail
  <2> DEFINE c == RoundUp(call[t].bytes)
  <2>1. c \in Class
    BY <1>7, Sizes, Rounding DEF Give
  <2>2. free_list' = [free_list EXCEPT ![c] = @ \cup {call[t].block}]
    BY <1>7 DEF Give
  <2> HIDE DEF c
  <2> QED
    BY <1>7, <2>1, <2>2 DEF Give
<1>8. ASSUME NEW t \in Thread,
             \/ \E y \in Type : \E n \in Bytes[y] : AllocateCall(t, y, n)
             \/ Decide(t) \/ Choose(t) \/ BadAlloc(t)
      PROVE  live' = live /\ Avail' = Avail
  BY <1>8 DEF AllocateCall, Decide, Choose, BadAlloc
<1>9. CASE UNCHANGED vars
  BY <1>9 DEF vars
<1> QED
  BY <1>2, <1>3, <1>4, <1>5, <1>6, <1>7, <1>8, <1>9 DEF Next

\* The pool is an allocator: every step hands out a block nobody has, takes one
\* back, or changes nothing that its users see.  That does not depend on the
\* environment.
THEOREM PoolImplemented == Spec => ImplementsPool
<1>1. Init => Pool!Init
  BY DEF Init, Pool!Init, Hands
<1>2. Spec => []PlaceInv
  BY PlaceInit, PlaceNext, PTL DEF Spec
<1>3. PlaceInv /\ [Next]_vars => [Pool!Next]_<<live, Avail>>
  BY PoolNext
<1> QED
  BY <1>1, <1>2, <1>3, PTL DEF Spec, ImplementsPool, Pool!Spec, Avail
=============================================================================

------------------------------ MODULE SafeList ------------------------------
(***************************************************************************)
(* The lists of the debug mode (debug/list) and their iterators, which     *)
(* know whether they can be used.  A list keeps its iterators in two       *)
(* chains, and an operation that removes elements makes the iterators to   *)
(* them singular; one that moves elements to another list moves the        *)
(* iterators to it.                                                        *)
(*                                                                         *)
(* Only the checks decide what a program may do: a call that they refuse   *)
(* ends the program and is no step.  The elements are what std::list makes *)
(* of them; attaching, detaching and swapping of the chains are in the     *)
(* library's binary and do what their comments in safe_base.h say.  A list *)
(* never changes its version, which is 1: an iterator's is 1 or 0.         *)
(*                                                                         *)
(* Two of the calls that the checks accept leave an iterator attached to a *)
(* list that it is not in: merge with iterators into the other list, and   *)
(* swap with iterators at an end.  MergesHeld and SwapsEnds say whether    *)
(* the program makes them.  What it then does through such an iterator, in *)
(* a list that the checks do not know of, is not followed.                 *)
(***************************************************************************)
EXTENDS Naturals, Sequences, FiniteSets, Functions

CONSTANTS
  List,       \* the lists; a list stands for its own end as well
  Node,       \* memory for elements
  Iter,       \* the program's iterators
  ConstIter,  \* those of them that are const_iterators
  MergesHeld, \* whether a list is merged that iterators point into
  SwapsEnds,  \* whether lists are swapped with iterators at an end
  NoList

ASSUME SafeListAssumption ==
  /\ List \cap Node = {} /\ NoList \notin List \cup Node
  /\ ConstIter \subseteq Iter
  /\ MergesHeld \in BOOLEAN /\ SwapsEnds \in BOOLEAN

VARIABLES
  elems,   \* the elements of a list, in order
  it       \* of an iterator: _M_sequence, whether _M_version is that of the
           \* sequence, and _M_current

vars == <<elems, it>>

Mutable == Iter \ ConstIter
Elements(l) == Range(elems[l])
Used == UNION {Elements(l) : l \in List}

\* Where p is, which may be the end.
Place(s, p) ==
  IF \E k \in DOMAIN s : s[k] = p THEN CHOOSE k \in DOMAIN s : s[k] = p
  ELSE Len(s) + 1

\* t goes in front of p.
Placed(s, p, t) ==
  SubSeq(s, 1, Place(s, p) - 1) \o t \o SubSeq(s, Place(s, p), Len(s))

\* s without the elements in N; the j-th that stays has j up to it that do.
Kept(s, N) == {k \in DOMAIN s : s[k] \notin N}
UpTo(K, k) == {i \in K : i <= k}
Without(s, N) ==
  [j \in 1..Cardinality(Kept(s, N)) |->
     s[CHOOSE k \in Kept(s, N) : Cardinality(UpTo(Kept(s, N), k)) = j]]

\* The same elements in any order.
Orders(s) ==
  {t \in [DOMAIN s -> Range(s)] : \A n \in Range(s) : \E k \in DOMAIN t : t[k] = n}

\* Two lists in one, which sorting by any values may lead to: the elements of
\* each stay in their order.
Merged(s, t) ==
  {u \in Orders(s \o t) : Without(u, Range(t)) = s /\ Without(u, Range(s)) = t}

-----------------------------------------------------------------------------
\* Iterators

Singular(i) == it[i].seq = NoList \/ ~it[i].ok
Dereferenceable(i) == ~Singular(i) /\ it[i].base # it[i].seq

\* The checks of a position at which to insert, and of one to erase.
CanInsert(i, l) == i \in Mutable /\ ~Singular(i) /\ it[i].seq = l
CanErase(i, l) == i \in Mutable /\ Dereferenceable(i) /\ it[i].seq = l

\* Iterator i is attached to l and designates p.
Set(its, i, l, p) == [its EXCEPT ![i] = [seq |-> l, ok |-> TRUE, base |-> p]]

\* Faulty variant: const_iterators are left out.
InvalidateMutable(its, l, N) ==
  [i \in Iter |-> IF i \in Mutable /\ its[i].seq = l /\ its[i].base \in N
                  THEN [its[i] EXCEPT !.ok = FALSE] ELSE its[i]]

\* _M_invalidate of all iterators of l to an element in N.
Invalidate(its, l, N) ==
  [i \in Iter |-> IF its[i].seq = l /\ its[i].base \in N
                  THEN [its[i] EXCEPT !.ok = FALSE] ELSE its[i]]

\* Faulty variant: iterators stay with the list that the element was in.
TransferNone(its, from, to, N) == its

\* _M_transfer_iter for each element in N.
Transfer(its, from, to, N) ==
  [i \in Iter |-> IF its[i].seq = from /\ its[i].ok /\ its[i].base \in N
                  THEN [its[i] EXCEPT !.seq = to] ELSE its[i]]

DetachAll(its, l) ==
  [i \in Iter |-> IF its[i].seq = l
                  THEN [its[i] EXCEPT !.seq = NoList, !.ok = FALSE]
                  ELSE its[i]]

\* Faulty variant: nothing is detached, so that all are there to be revived.
DetachSingularNone(its, l) == its

DetachSingular(its, l) ==
  [i \in Iter |-> IF its[i].seq = l /\ ~its[i].ok
                  THEN [its[i] EXCEPT !.seq = NoList] ELSE its[i]]

RevalidateSingular(its, l) ==
  [i \in Iter |-> IF its[i].seq = l THEN [its[i] EXCEPT !.ok = TRUE]
                  ELSE its[i]]

-----------------------------------------------------------------------------

Init ==
  /\ elems = [l \in List |-> << >>]
  /\ it = [i \in Iter |-> [seq |-> NoList, ok |-> FALSE, base |-> NoList]]

\* i = l.begin() or i = l.end()
Begin(i, l) ==
  /\ it' = Set(it, i, l, IF elems[l] = << >> THEN l ELSE elems[l][1])
  /\ UNCHANGED elems

End(i, l) == it' = Set(it, i, l, l) /\ UNCHANGED elems

\* i = j
Copy(i, j) ==
  /\ ~Singular(j)
  /\ j \in ConstIter => i \in ConstIter
  /\ it' = Set(it, i, it[j].seq, it[j].base)
  /\ UNCHANGED elems

\* i goes out of scope, and another comes into being in its place.
Renew(i) ==
  /\ it' = [it EXCEPT ![i] = [seq |-> NoList, ok |-> FALSE, base |-> NoList]]
  /\ UNCHANGED elems

\* ++i and --i follow the links of the element, in whichever list it is.
Increment(i) ==
  /\ Dereferenceable(i)
  /\ \E l \in List : \E k \in DOMAIN elems[l] :
       /\ it[i].base = elems[l][k]
       /\ it' = [it EXCEPT ![i].base = IF k = Len(elems[l]) THEN l
                                       ELSE elems[l][k + 1]]
  /\ UNCHANGED elems

Decrement(i) ==
  /\ ~Singular(i)
  /\ \E l \in List : \E k \in 2..(Len(elems[l]) + 1) :
       /\ it[i].base = IF k > Len(elems[l]) THEN l ELSE elems[l][k]
       /\ it' = [it EXCEPT ![i].base = elems[l][k - 1]]
  /\ UNCHANGED elems

\* k = l.insert(i, x), with a new element n
insert(l, i, n, k) ==
  /\ CanInsert(i, l) /\ k \in Mutable
  /\ n \in Node \ Used
  /\ elems' = [elems EXCEPT ![l] = Placed(@, it[i].base, <<n>>)]
  /\ it' = Set(it, k, l, n)

push_front(l, n) ==
  /\ n \in Node \ Used
  /\ elems' = [elems EXCEPT ![l] = <<n>> \o @]
  /\ UNCHANGED it

push_back(l, n) ==
  /\ n \in Node \ Used
  /\ elems' = [elems EXCEPT ![l] = Append(@, n)]
  /\ UNCHANGED it

\* The elements in N are invalidated and then erased.
Erase(l, N) ==
  /\ elems' = [elems EXCEPT ![l] = Without(@, N)]
  /\ it' = Invalidate(it, l, N)

pop_front(l) == elems[l] # << >> /\ Erase(l, {elems[l][1]})
pop_back(l) == elems[l] # << >> /\ Erase(l, {elems[l][Len(elems[l])]})

\* The elements of [i, j), which is a range of l.
Between(l, i, j) ==
  SubSeq(elems[l], Place(elems[l], it[i].base), Place(elems[l], it[j].base) - 1)

InRange(l, i, j) == Range(Between(l, i, j))

\* j can be reached from i, both of which the checks accept in l.
IsRange(l, i, j) ==
  /\ CanInsert(i, l) /\ CanInsert(j, l)
  /\ Place(elems[l], it[i].base) <= Place(elems[l], it[j].base)

\* k = l.erase(i), and k = l.erase(i, j)
erase(l, i, k) ==
  /\ CanErase(i, l) /\ k \in Mutable
  /\ LET s == elems[l]
         after == SubSeq(s, Place(s, it[i].base) + 1, Len(s))
     IN it' = Set(Invalidate(it, l, {it[i].base}), k, l,
                  IF after = << >> THEN l ELSE after[1])
  /\ elems' = [elems EXCEPT ![l] = Without(@, {it[i].base})]

erase_range(l, i, j, k) ==
  /\ IsRange(l, i, j) /\ k \in Mutable
  /\ it' = Set(Invalidate(it, l, InRange(l, i, j)), k, l, it[j].base)
  /\ elems' = [elems EXCEPT ![l] = Without(@, InRange(l, i, j))]

\* remove, remove_if and unique erase some of the elements, one by one.
remove(l, N) == N \subseteq Elements(l) /\ Erase(l, N)

\* clear, operator= and assign invalidate all iterators but those at the end.
\* The elements of the old list that are assigned to stay where they are.
Reassign(l, s) ==
  /\ \A k \in 1..Len(s) : IF k <= Len(elems[l]) THEN s[k] = elems[l][k]
                          ELSE s[k] \notin Used
  /\ \A j, k \in 1..Len(s) : s[j] = s[k] => j = k
  /\ elems' = [elems EXCEPT ![l] = s]
  /\ it' = Invalidate(it, l, Node)

\* resize to fewer elements, and to one more, for which there may be no memory.
resize(l, size) ==
  /\ size <= Len(elems[l])
  /\ LET N == {elems[l][k] : k \in (size + 1)..Len(elems[l])}
     IN /\ elems' = [elems EXCEPT ![l] = SubSeq(@, 1, size)]
        /\ it' = Invalidate(DetachSingular(it, l), l, N)

resize_up(l, n) ==
  /\ n \in Node \ Used
  /\ elems' = [elems EXCEPT ![l] = Append(@, n)]
  /\ it' = DetachSingular(it, l)

resize_throws(l) ==
  /\ it' = RevalidateSingular(DetachSingular(it, l), l)
  /\ UNCHANGED elems

\* The elements of s go from m to l, in front of p.
Splice(l, p, m, s) ==
  LET N == Range(s)
      rest == [elems EXCEPT ![m] = Without(@, N)]
  IN /\ elems' = IF p \in N THEN elems
                 ELSE [rest EXCEPT ![l] = Placed(@, p, s)]
     /\ it' = Transfer(it, m, l, N)

\* l.splice(i, m), of all elements of m
splice(l, i, m) ==
  CanInsert(i, l) /\ l # m /\ Splice(l, it[i].base, m, elems[m])

\* l.splice(i, m, j), of one element
splice_one(l, i, m, j) ==
  CanInsert(i, l) /\ CanErase(j, m) /\ Splice(l, it[i].base, m, <<it[j].base>>)

\* l.splice(i, m, j, k), of a range, in which i must not be
splice_range(l, i, m, j, k) ==
  /\ CanInsert(i, l) /\ IsRange(m, j, k)
  /\ l = m => it[i].base \notin InRange(m, j, k)
  /\ Splice(l, it[i].base, m, Between(m, j, k))

\* Iterators at an end go with the elements, and are not at an end any more.
swap(l, m) ==
  /\ SwapsEnds \/ \A i \in Iter : ~Singular(i) => it[i].base \notin {l, m}
  /\ elems' = [elems EXCEPT ![l] = elems[m], ![m] = elems[l]]
  /\ it' = [i \in Iter |->
              IF it[i].seq \notin {l, m} THEN it[i]
              ELSE [it[i] EXCEPT !.seq = IF @ = l THEN m ELSE l]]

\* Iterators into m stay attached to m: what is attached is a temporary.
merge(l, m) ==
  /\ l # m
  /\ MergesHeld \/ \A i \in Iter : it[i].seq = m /\ ~Singular(i) => it[i].base = m
  /\ \E s \in Merged(elems[l], elems[m]) :
       elems' = [elems EXCEPT ![l] = s, ![m] = << >>]
  /\ UNCHANGED it

\* sort and reverse put the elements in another order.
Reorder(l) ==
  /\ \E s \in Orders(elems[l]) : elems' = [elems EXCEPT ![l] = s]
  /\ UNCHANGED it

\* A list is destroyed, and another constructed in its place.
Recreate(l) ==
  /\ elems' = [elems EXCEPT ![l] = << >>]
  /\ it' = DetachAll(it, l)

Move ==
  \E i \in Iter : \/ \E l \in List : Begin(i, l) \/ End(i, l)
                  \/ \E j \in Iter : Copy(i, j)
                  \/ Renew(i) \/ Increment(i) \/ Decrement(i)

AtPlace(l) ==
  \E i, k \in Iter : \/ \E n \in Node : insert(l, i, n, k)
                     \/ erase(l, i, k)
                     \/ \E j \in Iter : erase_range(l, i, j, k)

Whole(l) ==
  \/ \E n \in Node : push_front(l, n) \/ push_back(l, n) \/ resize_up(l, n)
  \/ pop_front(l) \/ pop_back(l) \/ resize_throws(l)
  \/ Recreate(l) \/ Reorder(l)
  \/ \E N \in SUBSET Node : remove(l, N)
  \/ \E k \in 0..Len(elems[l]) : resize(l, k)
  \/ \E k \in 0..2 : \E s \in [1..k -> Node] : Reassign(l, s)

Both(l, m) ==
  \/ \E i \in Iter :
       \/ splice(l, i, m)
       \/ \E j \in Iter : splice_one(l, i, m, j)
       \/ \E j, k \in Iter : splice_range(l, i, m, j, k)
  \/ swap(l, m) \/ merge(l, m)

Next ==
  Move \/ \E l \in List : AtPlace(l) \/ Whole(l) \/ \E m \in List : Both(l, m)

Spec == Init /\ [][Next]_vars

-----------------------------------------------------------------------------

\* The type invariant; an element is in one place of one list.
TypeOK ==
  /\ elems \in [List -> Seq(Node)]
  /\ it \in [Iter -> [seq : List \cup {NoList}, ok : BOOLEAN,
                      base : Node \cup List \cup {NoList}]]
  /\ \A l \in List : \A j, k \in DOMAIN elems[l] :
       elems[l][j] = elems[l][k] => j = k
  /\ \A l, m \in List : l # m => Elements(l) \cap Elements(m) = {}

\* "This iterator is dereferenceable" says so of iterators to elements of the
\* list they are attached to, and of no other: what the checks let pass is
\* never a use of an element that is gone, or of another list's.
ChecksSound ==
  \A i \in Iter : ~Singular(i) =>
    it[i].base \in Elements(it[i].seq) \cup {it[i].seq}

\* What an iterator names, to the program.
Where == [i \in Iter |-> IF Singular(i) THEN NoList ELSE it[i].base]

Promise ==
  INSTANCE Iterators WITH Nowhere <- NoList, alive <- Used, where <- Where

\* An iterator is singular if, and only if, its element is gone: none is refused
\* while it can be used, and none that was singular is accepted again.
ImplementsIterators == Promise!Spec
=============================================================================

--------------------------- MODULE RcuListProofs ---------------------------
(***************************************************************************)
(* For every set of entries, items and readers: no reader meets an entry   *)
(* that is freed or half linked, and a traversal comes to each item that   *)
(* stays on the list, once; and the list is a sequence to which each       *)
(* operation does what its name and arguments say, at one store.           *)
(*                                                                         *)
(* The invariant speaks of two things that no variable holds.  rank puts   *)
(* the linked entries in the order of the list, and keeps for an entry     *)
(* that has been unlinked the place it had; an entry that replaces another *)
(* shares its rank.  R[n] is the set of readers that were inside when n    *)
(* was unlinked and have not left: only they can still come to n.          *)
(***************************************************************************)
EXTENDS RcuList, TLAPS, FiniteSetTheorems, SequenceTheorems,
        WellFoundedInduction

Linked == On \cup {ListHead}
Gone == {n \in Node : status[n] \in {"off", "dying"}}

\* The place of a cell that a cursor comes from.
From(rank, c) == IF c = ListHead THEN 0 ELSE rank[c]

\* x comes after the place k.
After(rank, k, x) == x = ListHead \/ k < rank[x]

\* m lies after the place k and before x.
Between(rank, k, m, x) == k < rank[m] /\ (x = ListHead \/ rank[m] < rank[x])

\* Reader r may come to c.
Reachable(R, r, c) == c \in Linked \/ (c \in Gone /\ r \in R[c])

\* The linked entries that r has to see.
Due(r) == {m \in On : item[m] \in must[r]}

RankInv(rank) ==
  /\ \A n \in Node : rank[n] > 0
  /\ \A m, n \in On : rank[m] = rank[n] => m = n
  /\ \A m \in On, n \in Gone : rank[m] = rank[n] => item[m] = item[n]

ChainInv(rank) ==
  \A c \in Linked :
    /\ next[c] \in Linked
    /\ After(rank, From(rank, c), next[c])
    /\ \A m \in On : ~Between(rank, From(rank, c), m, next[c])

GoneInv(rank, R) ==
  \A n \in Gone : \A r \in R[n] :
    /\ r \in in
    /\ status[n] = "dying" => r \in waits[n]
    /\ Reachable(R, r, next[n])
    /\ After(rank, rank[n], next[n])
    /\ \A m \in Due(r) : ~Between(rank, rank[n], m, next[n])
    /\ item[n] \in must[r] =>
         \E m \in On : rank[m] = rank[n] /\ item[m] = item[n]

CursorInv(rank, R) ==
  \A r \in in :
    /\ Reachable(R, r, at[r])
    /\ \A m \in Due(r) : item[m] \in seen[r] <=> rank[m] <= From(rank, at[r])
    /\ ahead[r] # NoNode =>
         /\ Reachable(R, r, ahead[r])
         /\ After(rank, From(rank, at[r]), ahead[r])
         /\ \A m \in Due(r) : ~Between(rank, From(rank, at[r]), m, ahead[r])

ItemInv ==
  /\ \A m, n \in On : item[m] = item[n] => m = n
  /\ \A r \in in : must[r] \subseteq {item[m] : m \in On}
  /\ \A n \in On \cup Gone : item[n] \in Item
  /\ \A r \in Reader \ in : at[r] = ListHead /\ ahead[r] = NoNode /\ seen[r] = {}

\* c has the way back that goes with the way forward.
Backed(c) == prev[c] \in Linked /\ next[prev[c]] = c

HasBack(c) == c = ListHead => kind = "list"

\* What the operation under way links p to, and q back to.
Forth(q) == IF coming # NoNode THEN coming ELSE q
Back(p) == IF coming # NoNode THEN coming ELSE p

\* Between operations.
RestInv ==
  /\ early = {} /\ late = {}
  /\ \A n \in Node : status[n] # "new"
  /\ \A c \in Linked : HasBack(c) => Backed(c)

\* An operation that links p to q, or to an entry between them.
WorkInv(p, q) ==
  /\ coming # NoNode \/ going # NoNode
  /\ p \in Linked /\ q \in Linked /\ p # going /\ q # going
  /\ coming # going /\ p # coming /\ q # coming
  /\ \A n \in Node : status[n] = "new" => n = coming
  /\ early \subseteq {NextStore(coming, q), PrevStore(coming, p)}
  /\ coming = NoNode => early = {}
  /\ late \subseteq {NextStore(p, Forth(q)), PrevStore(q, Back(p)),
                     PrevStore(going, Poison)}
  /\ \A c \in Linked \ {q, going, coming} : HasBack(c) => Backed(c)
  /\ HasBack(q) => PrevStore(q, Back(p)) \in late \/ prev[q] = Back(p)
  /\ PrevStore(q, Back(p)) \in late => HasBack(q)
  /\ coming # NoNode =>
       /\ NextStore(coming, q) \in early \/ next[coming] = q
       /\ PrevStore(coming, p) \in early \/ prev[coming] = p
  /\ \/ /\ NextStore(p, Forth(q)) \in late        \* nothing has happened yet
        /\ coming # NoNode => status[coming] = "new" /\ item[coming] \in Item
        /\ going # NoNode =>
             status[going] = "on" /\ next[p] = going /\ next[going] = q
        /\ going = NoNode =>
             next[p] = q /\ item[coming] \notin {item[m] : m \in On}
        /\ coming # NoNode /\ going # NoNode => item[coming] = item[going]
     \/ /\ NextStore(p, Forth(q)) \notin late     \* it has
        /\ early = {}
        /\ next[p] = Forth(q)
        /\ coming # NoNode => status[coming] = "on"
        /\ going # NoNode => status[going] = "off"

WriterInv ==
  \/ (coming = NoNode /\ going = NoNode /\ RestInv)
  \/ \E p, q \in Cell : WorkInv(p, q)

Places(rank, R) ==
  RankInv(rank) /\ ChainInv(rank) /\ GoneInv(rank, R) /\ CursorInv(rank, R)

PlaceInv ==
  \E rank \in [Node -> Nat], R \in [Node -> SUBSET Reader] : Places(rank, R)

IInv == TypeOK /\ ItemInv /\ WriterInv /\ PlaceInv

-----------------------------------------------------------------------------

\* The invariant holds at the start: the list is empty and nothing is under way.
LEMMA InitInv == Init => IInv
  <1> SUFFICES ASSUME Init PROVE IInv
    OBVIOUS
  <1> USE NodeAssumption
  <1>1. On = {} /\ Gone = {}
    BY DEF Init, On, Gone
  <1>2. TypeOK
    BY DEF Init, TypeOK, Cell, Calls
  <1>3. ItemInv
    BY <1>1 DEF Init, ItemInv
  <1>4. WriterInv
    BY <1>1 DEF Init, WriterInv, RestInv, Linked, HasBack, Backed, Cell
  <1>5. PlaceInv
    <2> DEFINE rank == [n \in Node |-> 1]
               R == [n \in Node |-> {}]
    <2>1. rank \in [Node -> Nat] /\ R \in [Node -> SUBSET Reader]
      OBVIOUS
    <2>2. RankInv(rank) /\ GoneInv(rank, R) /\ CursorInv(rank, R)
      BY <1>1 DEF Init, RankInv, GoneInv, CursorInv
    <2>3. ChainInv(rank)
      BY <1>1 DEF Init, ChainInv, Linked, After, Between, Cell
    <2> QED
      BY <2>1, <2>2, <2>3 DEF PlaceInv, Places
  <1> QED
    BY <1>2, <1>3, <1>4, <1>5 DEF IInv

\* A step that leaves the list, its pointers and its readers alone leaves the
\* places alone.
LEMMA Frame ==
  ASSUME NEW rank, NEW R, Places(rank, R), TypeOK,
         On' = On, Gone' = Gone,
         \A n \in Gone : status'[n] = status[n],
         \A c \in Linked \cup Gone : next'[c] = next[c],
         \A n \in On \cup Gone : item'[n] = item[n],
         UNCHANGED <<waits, in, at, ahead, must, seen>>
  PROVE  Places(rank, R)'
  <1>1. Linked' = Linked /\ \A r : Due(r)' = Due(r)
    BY DEF Linked, Due
  <1>2. RankInv(rank)'
    BY DEF Places, RankInv
  <1>3. ChainInv(rank)'
    BY <1>1 DEF Places, ChainInv, After, Between, From
  <1>4. GoneInv(rank, R)'
    BY <1>1 DEF Places, GoneInv, After, Between, From, Reachable
  <1>5. CursorInv(rank, R)'
    BY <1>1 DEF Places, CursorInv, After, Between, From, Reachable, Linked, Due
  <1> QED
    BY <1>2, <1>3, <1>4, <1>5 DEF Places

\* What the invariant says of a list on which no operation is under way.
LEMMA IdleInv == ASSUME IInv, Idle PROVE RestInv
  BY DEF IInv, WriterInv, WorkInv, Idle

\* The way back of a linked cell, and the way forward.
LEMMA Neighbours ==
  ASSUME IInv, NEW c \in Linked
  PROVE  /\ next[c] \in Linked
         /\ Idle /\ HasBack(c) =>
              prev[c] \in Linked /\ next[prev[c]] = c
  <1>1. next[c] \in Linked
    BY DEF IInv, PlaceInv, Places, ChainInv
  <1> QED
    BY <1>1, IdleInv DEF RestInv, Backed

\* Filling in a new entry keeps the invariant: nobody can reach the entry yet.
LEMMA LinkInv ==
  ASSUME IInv, NEW n \in Node, NEW i \in Item, NEW p \in Linked,
         NEW q \in Linked, next[p] = q, Link(n, i, p, q), call' \in Calls
  PROVE  IInv'
  <1> USE NodeAssumption
  <1>1. RestInv /\ TypeOK /\ ItemInv
    BY IdleInv DEF Link, IInv
  <1>2. /\ p \in Cell /\ q \in Cell /\ n \notin On /\ n \notin Gone
        /\ n # NoNode /\ n # p /\ n # q
    BY DEF Link, Linked, On, Gone, Cell
  <1>3. On' = On /\ Gone' = Gone
    BY <1>1 DEF Link, On, Gone, TypeOK
  <1>4. TypeOK'
    <2>1. early' \cup late' \subseteq
            {"next", "prev"} \X Cell \X (Cell \cup {Poison})
      BY <1>2 DEF Link, NextStore, PrevStore, BackStore, Cell
    <2> QED
      BY <1>1, <2>1 DEF Link, TypeOK, reader
  <1>5. \A m \in On \cup Gone : item'[m] = item[m] /\ status'[m] = status[m]
    BY <1>1, <1>2 DEF Link, TypeOK, On, Gone
  <1>6. ItemInv'
    BY <1>1, <1>3, <1>5 DEF Link, ItemInv, reader
  <1>7. WorkInv(p, q)'
    <2>1. coming' = n /\ going' = NoNode /\ n # NoNode
          /\ UNCHANGED <<kind, next, prev>>
      BY <1>1, <1>2 DEF Link, Idle
    <2>2. Linked' = Linked
      BY <1>3 DEF Linked
    <2>3. \A c \in Linked : HasBack(c)' => Backed(c)'
      BY <1>1, <2>1, <2>2 DEF RestInv, HasBack, Backed
    <2>4. \A m \in Node : status'[m] = "new" => m = n
      BY <1>1 DEF Link, RestInv, TypeOK
    <2>5. /\ status'[n] = "new" /\ item'[n] = i
          /\ i \notin {item'[m] : m \in On'}
      BY <1>1, <1>3, <1>5 DEF Link, TypeOK
    <2>6. /\ early' = {NextStore(n, q), PrevStore(n, p)}
          /\ late' = BackStore(q, n) \cup {NextStore(p, n)}
      BY DEF Link
    <2>7. Forth(q)' = n /\ Back(p)' = n
      BY <2>1 DEF Forth, Back
    <2>8. PrevStore(q, n) \in late' <=> HasBack(q)'
      BY <1>1, <2>1, <2>6 DEF BackStore, HasBack, PrevStore, NextStore, TypeOK
    <2>9. late' \subseteq {PrevStore(q, n), NextStore(p, n)}
      BY <2>6 DEF BackStore
    <2>10. p # NoNode /\ q # NoNode
      BY DEF Linked, On
    <2>11. NextStore(n, q)' = NextStore(n, q) /\ PrevStore(n, p)' = PrevStore(n, p)
           /\ NextStore(p, n)' = NextStore(p, n) /\ PrevStore(q, n)' = PrevStore(q, n)
      BY DEF NextStore, PrevStore
    <2> QED
      BY <2>1, <2>2, <2>3, <2>4, <2>5, <2>6, <2>7, <2>8, <2>9, <2>10, <2>11,
         <1>2, <1>3 DEF WorkInv
  <1>8. PlaceInv'
    <2> PICK rank \in [Node -> Nat], R \in [Node -> SUBSET Reader] :
             Places(rank, R)
      BY DEF IInv, PlaceInv
    <2>1. Places(rank, R)'
      BY <1>1, <1>3, <1>5, Frame DEF Link, reader
    <2> QED
      BY <2>1 DEF PlaceInv
  <1> QED
    BY <1>2, <1>4, <1>6, <1>7, <1>8 DEF IInv, WriterInv

\* Each of the five ways to add an entry is a Link between neighbours.
LEMMA AddInv ==
  ASSUME IInv, NEW n \in Node, NEW i \in Item, NEW m \in Node,
         \/ list_add_rcu(n, i) \/ list_add_tail_rcu(n, i)
         \/ hlist_add_head_rcu(n, i)
         \/ hlist_add_before_rcu(n, i, m) \/ hlist_add_after_rcu(m, n, i)
  PROVE  IInv'
  <1>1. Idle /\ ListHead \in Linked /\ (m \in On => m \in Linked)
    BY DEF list_add_rcu, list_add_tail_rcu, hlist_add_head_rcu,
           hlist_add_before_rcu, hlist_add_after_rcu, Link, Linked
  <1>a. call' \in Calls
    BY DEF list_add_rcu, list_add_tail_rcu, hlist_add_head_rcu,
           hlist_add_before_rcu, hlist_add_after_rcu, Calls
  <1>2. CASE list_add_rcu(n, i) \/ hlist_add_head_rcu(n, i)
    BY <1>1, <1>a, <1>2, Neighbours, LinkInv DEF list_add_rcu, hlist_add_head_rcu
  <1>3. CASE list_add_tail_rcu(n, i)
    <2>1. HasBack(ListHead)
      BY <1>3 DEF HasBack, list_add_tail_rcu
    <2>2. prev[ListHead] \in Linked /\ next[prev[ListHead]] = ListHead
      BY <1>1, <2>1, Neighbours
    <2> QED
      BY <1>1, <1>3, <1>a, <2>2, LinkInv DEF list_add_tail_rcu
  <1>4. CASE hlist_add_before_rcu(n, i, m)
    <2>1. HasBack(m) /\ m \in Linked
      BY <1>1, <1>4, NodeAssumption DEF HasBack, hlist_add_before_rcu
    <2>2. prev[m] \in Linked /\ next[prev[m]] = m
      BY <1>1, <2>1, Neighbours
    <2> QED
      BY <1>4, <1>a, <2>1, <2>2, LinkInv DEF hlist_add_before_rcu
  <1>5. CASE hlist_add_after_rcu(m, n, i)
    BY <1>1, <1>5, <1>a, Neighbours, LinkInv DEF hlist_add_after_rcu
  <1> QED
    BY <1>2, <1>3, <1>4, <1>5

\* A linked entry, its predecessor and its successor are three cells, the last
\* two of which may both be the head.
LEMMA Apart ==
  ASSUME IInv, NEW c \in On
  PROVE  next[c] # c /\ (prev[c] \in Linked /\ next[prev[c]] = c => prev[c] # c)
  <1> PICK rank \in [Node -> Nat], R \in [Node -> SUBSET Reader] :
           Places(rank, R)
    BY DEF IInv, PlaceInv
  <1>1. After(rank, From(rank, c), next[c]) /\ c # ListHead /\ rank[c] \in Nat
    BY NodeAssumption DEF Places, ChainInv, Linked, On
  <1> QED
    BY <1>1 DEF After, From

\* The start of a removal keeps the invariant: its stores are not visible yet.
LEMMA DelInv ==
  ASSUME IInv, NEW n \in Node, list_del_rcu(n)
  PROVE  IInv'
  <1> DEFINE p == prev[n]
             q == next[n]
  <1> USE NodeAssumption
  <1>1. RestInv /\ TypeOK /\ ItemInv /\ Idle
    BY IdleInv DEF list_del_rcu, IInv
  <1>2. n \in On /\ n \in Linked /\ n # ListHead /\ n # NoNode /\ HasBack(n)
    BY DEF list_del_rcu, Linked, HasBack
  <1>3. p \in Linked /\ q \in Linked /\ next[p] = n /\ p # n /\ q # n
    BY <1>1, <1>2, Neighbours, Apart
  <1>4. p \in Cell /\ q \in Cell /\ n \in Cell /\ p # NoNode /\ q # NoNode
    BY <1>3 DEF Linked, On, Cell
  <1>5. On' = On /\ Gone' = Gone /\ Linked' = Linked
    BY DEF list_del_rcu, On, Gone, Linked
  <1>6. TypeOK'
    <2>1. early' \cup late' \subseteq
            {"next", "prev"} \X Cell \X (Cell \cup {Poison})
      BY <1>1, <1>4 DEF list_del_rcu, NextStore, PrevStore, BackStore, Idle
    <2>2. call' \in Calls
      BY DEF list_del_rcu, Calls
    <2> QED
      BY <1>1, <2>1, <2>2 DEF list_del_rcu, TypeOK, reader
  <1>7. ItemInv'
    BY <1>1, <1>5 DEF list_del_rcu, ItemInv, reader
  <1>8. WorkInv(p, q)'
    <2>1. /\ coming' = NoNode /\ going' = n /\ early' = {}
          /\ UNCHANGED <<kind, next, prev, status, item>>
          /\ status[n] = "on"
      BY <1>1, <1>2 DEF list_del_rcu, Idle, On
    <2>2. Forth(q)' = q /\ Back(p)' = p
      BY <2>1 DEF Forth, Back
    <2>3. late' = BackStore(q, p) \cup {NextStore(p, q), PrevStore(n, Poison)}
      BY DEF list_del_rcu
    <2>4. PrevStore(q, p) \in late' <=> HasBack(q)'
      BY <1>1, <1>3, <2>1, <2>3
      DEF BackStore, HasBack, PrevStore, NextStore, TypeOK
    <2>5. late' \subseteq {NextStore(p, q), PrevStore(q, p), PrevStore(n, Poison)}
      BY <2>3 DEF BackStore
    <2>6. NextStore(p, q) \in late'
      BY <2>3
    <2>7. /\ \A c \in Linked : HasBack(c)' => Backed(c)'
          /\ \A m \in Node : status'[m] # "new"
      BY <1>1, <1>5, <2>1 DEF RestInv, HasBack, Backed
    <2>9. p' = p /\ q' = q
      BY <2>1
    <2> QED
      BY <1>2, <1>3, <1>4, <1>5, <2>1, <2>2, <2>4, <2>5, <2>6, <2>7, <2>9
      DEF WorkInv, NextStore, PrevStore
  <1>9. PlaceInv'
    <2> PICK rank \in [Node -> Nat], R \in [Node -> SUBSET Reader] :
             Places(rank, R)
      BY DEF IInv, PlaceInv
    <2>1. Places(rank, R)'
      BY <1>1, <1>5, Frame DEF list_del_rcu, reader
    <2> QED
      BY <2>1 DEF PlaceInv
  <1>10. p' \in Cell /\ q' \in Cell
    BY <1>4 DEF list_del_rcu
  <1> QED
    BY <1>6, <1>7, <1>8, <1>9, <1>10 DEF IInv, WriterInv

\* So does the start of a replacement.
LEMMA ReplaceInv ==
  ASSUME IInv, NEW old \in Node, NEW n \in Node, list_replace_rcu(old, n)
  PROVE  IInv'
  <1> DEFINE p == prev[old]
             q == next[old]
  <1> USE NodeAssumption
  <1>1. RestInv /\ TypeOK /\ ItemInv /\ Idle
    BY IdleInv DEF list_replace_rcu, IInv
  <1>2. /\ old \in On /\ old \in Linked /\ old # ListHead /\ old # NoNode
        /\ HasBack(old) /\ n \notin On /\ n \notin Gone /\ n # NoNode /\ n # old
        /\ n \notin Linked
    BY DEF list_replace_rcu, Linked, HasBack, On, Gone
  <1>3. /\ p \in Linked /\ q \in Linked /\ next[p] = old /\ p # old /\ q # old
        /\ p # n /\ q # n
    BY <1>1, <1>2, Neighbours, Apart
  <1>4. p \in Cell /\ q \in Cell /\ p # NoNode /\ q # NoNode
    BY <1>3 DEF Linked, On, Cell
  <1>5. On' = On /\ Gone' = Gone /\ Linked' = Linked
    BY <1>1 DEF list_replace_rcu, On, Gone, Linked, TypeOK
  <1>6. TypeOK'
    <2>1. early' \cup late' \subseteq
            {"next", "prev"} \X Cell \X (Cell \cup {Poison})
      BY <1>4 DEF list_replace_rcu, NextStore, PrevStore, Cell
    <2>2. call' \in Calls
      BY DEF list_replace_rcu, Calls
    <2> QED
      BY <1>1, <2>1, <2>2 DEF list_replace_rcu, TypeOK, reader
  <1>7. \A m \in On \cup Gone : item'[m] = item[m] /\ status'[m] = status[m]
    BY <1>1, <1>2 DEF list_replace_rcu, TypeOK, On, Gone
  <1>8. ItemInv'
    BY <1>1, <1>5, <1>7 DEF list_replace_rcu, ItemInv, reader
  <1>9. WorkInv(p, q)'
    <2>1. /\ coming' = n /\ going' = old
          /\ UNCHANGED <<kind, next, prev>>
          /\ kind = "list"
          /\ status'[old] = "on" /\ status'[n] = "new"
          /\ item'[n] = item[old] /\ item'[old] = item[old]
          /\ item[old] \in Item
      BY <1>1, <1>2, <1>7 DEF list_replace_rcu, Idle, On, TypeOK, ItemInv
    <2>2. Forth(q)' = n /\ Back(p)' = n
      BY <2>1, <1>2 DEF Forth, Back
    <2>3. /\ early' = {NextStore(n, q), PrevStore(n, p)}
          /\ late' = {PrevStore(q, n), NextStore(p, n)}
      BY DEF list_replace_rcu
    <2>4. \A c \in Linked : HasBack(c)' /\ Backed(c)'
      BY <1>1, <1>5, <2>1 DEF RestInv, HasBack, Backed
    <2>5. \A m \in Node : status'[m] = "new" => m = n
      BY <1>1 DEF list_replace_rcu, RestInv, TypeOK
    <2>6. p' = p /\ q' = q
      BY <2>1
    <2> QED
      BY <1>2, <1>3, <1>4, <1>5, <2>1, <2>2, <2>3, <2>4, <2>5, <2>6
      DEF WorkInv, NextStore, PrevStore
  <1>10. PlaceInv'
    <2> PICK rank \in [Node -> Nat], R \in [Node -> SUBSET Reader] :
             Places(rank, R)
      BY DEF IInv, PlaceInv
    <2>1. Places(rank, R)'
      BY <1>1, <1>5, <1>7, Frame DEF list_replace_rcu, reader
    <2> QED
      BY <2>1 DEF PlaceInv
  <1>11. p' \in Cell /\ q' \in Cell
    BY <1>4 DEF list_replace_rcu
  <1> QED
    BY <1>6, <1>8, <1>9, <1>10, <1>11 DEF IInv, WriterInv

\* The entries, their order and what they carry stay as they are.
Calm ==
  /\ On' = On
  /\ \A c \in Linked : next'[c] = next[c]
  /\ \A n \in On : item'[n] = item[n]

\* A store that changes no next pointer of a linked entry keeps the invariant.
LEMMA StoreAsideInv ==
  ASSUME IInv, NEW s \in early \cup late, StoreAside(s)
  PROVE  IInv' /\ Calm
  <1> USE NodeAssumption
  <1>1. TypeOK /\ ItemInv
    BY DEF IInv
  <1> PICK p \in Cell, q \in Cell : WorkInv(p, q)
    BY DEF IInv, WriterInv, RestInv
  <1>2. /\ UNCHANGED <<kind, coming, going, status, item>>
        /\ On' = On /\ Gone' = Gone /\ Linked' = Linked
        /\ Forth(q)' = Forth(q) /\ Back(p)' = Back(p)
    BY DEF StoreAside, On, Gone, Linked, Forth, Back
  <1>3. TypeOK'
    BY <1>1 DEF StoreAside, TypeOK, reader
  <1>4. ItemInv'
    BY <1>1, <1>2 DEF StoreAside, ItemInv, reader
  <1>5. ASSUME s[1] = "next"
        PROVE  s = NextStore(coming, q) /\ s \in early /\ coming \notin Linked
                 /\ coming \notin Gone /\ coming \in Node
                 /\ next' = [next EXCEPT ![coming] = q] /\ prev' = prev
    <2>1. s[2] = coming
      BY <1>5 DEF StoreAside
    <2>2. \A v : NextStore(p, v)[2] = p /\ NextStore(p, v)[1] = "next"
      BY DEF NextStore
    <2>3. \A c, v : PrevStore(c, v)[1] = "prev"
      BY DEF PrevStore
    <2>4. coming # p \/ NextStore(p, Forth(q)) \notin late
      BY <1>1 DEF WorkInv, Linked, On, TypeOK
    <2>5. s = NextStore(coming, q)
      BY <1>5, <2>1, <2>2, <2>3, <2>4 DEF WorkInv
    <2>6. s \in early
      BY <2>1, <2>2, <2>3, <2>4, <1>5 DEF WorkInv
    <2>7. status[coming] = "new" /\ coming \in Node
      BY <2>6, <1>1 DEF WorkInv, TypeOK, Linked, On
    <2> QED
      BY <1>5, <2>5, <2>6, <2>7 DEF StoreAside, Linked, On, Gone, NextStore
  <1>6. \A c \in Linked \cup Gone : next'[c] = next[c]
    BY <1>1, <1>5 DEF StoreAside, TypeOK
  <1>7. PlaceInv'
    <2> PICK rank \in [Node -> Nat], R \in [Node -> SUBSET Reader] :
             Places(rank, R)
      BY DEF IInv, PlaceInv
    <2>1. Places(rank, R)'
      BY <1>1, <1>2, <1>6, Frame DEF StoreAside, reader
    <2> QED
      BY <2>1 DEF PlaceInv
  <1>8. WorkInv(p, q)'
    <2>1. CASE s[1] = "next"
      <3>1. /\ s = NextStore(coming, q) /\ s \in early /\ coming \notin Linked
            /\ coming \in Node
            /\ next' = [next EXCEPT ![coming] = q] /\ prev' = prev
        BY <1>5, <2>1
      <3>2. early' = early \ {s} /\ late' = late
        <4>1. s \notin late
          BY <3>1, <1>1 DEF WorkInv, NextStore, PrevStore
        <4> QED
          BY <4>1 DEF StoreAside
      <3>3. \A c \in Linked : Backed(c) => Backed(c)'
        BY <1>1, <1>2, <3>1 DEF Backed, TypeOK
      <3>4. next'[coming] = q /\ \A c \in Cell : c # coming => next'[c] = next[c]
        BY <1>1, <3>1 DEF TypeOK, Cell
      <3>5. \A c : HasBack(c)' = HasBack(c)
        BY <1>2 DEF HasBack
      <3>6. p # coming /\ (going # NoNode => going # coming)
        BY <3>1 DEF WorkInv
      <3> QED
        BY <1>2, <3>1, <3>2, <3>3, <3>4, <3>5, <3>6 DEF WorkInv, NextStore, PrevStore
    <2>2. CASE s[1] # "next"
      <3>1. /\ next' = next /\ prev' = [prev EXCEPT ![s[2]] = s[3]]
            /\ early' = early \ {s} /\ late' = late \ {s} /\ s \in Pending
        BY <2>2, <1>1 DEF StoreAside, TypeOK
      <3>2. \/ s \in early /\ s = PrevStore(coming, p)
            \/ s \in late /\ s = PrevStore(q, Back(p))
            \/ s \in late /\ s = PrevStore(going, Poison)
        BY <2>2 DEF WorkInv, NextStore, PrevStore
      <3>3. NextStore(p, Forth(q)) \in late' <=> NextStore(p, Forth(q)) \in late
        BY <2>2, <3>1 DEF NextStore
      <3>4. NextStore(coming, q) \in early' <=> NextStore(coming, q) \in early
        BY <2>2, <3>1 DEF NextStore
      <3>5. \A c : HasBack(c)' = HasBack(c)
        BY <1>2 DEF HasBack
      <3>6. \A c \in Linked \ {q, going, coming} : Backed(c) => Backed(c)'
        BY <3>1, <3>2, <1>1, <1>2 DEF Backed, PrevStore, TypeOK, Linked, On, Cell
      <3>7. HasBack(q) => PrevStore(q, Back(p)) \in late' \/ prev'[q] = Back(p)
        <4>1. CASE s = PrevStore(q, Back(p))
          BY <3>1, <4>1, <1>1 DEF PrevStore, TypeOK
        <4>2. CASE s # PrevStore(q, Back(p))
          <5>1. s[2] # q \/ PrevStore(q, Back(p)) \in late
            BY <3>2, <4>2 DEF WorkInv, PrevStore, Linked, On
          <5> QED
            BY <3>1, <4>2, <5>1, <1>1 DEF WorkInv, TypeOK
        <4> QED
          BY <4>1, <4>2
      <3>8. coming # NoNode =>
              PrevStore(coming, p) \in early' \/ prev'[coming] = p
        <4>1. CASE s = PrevStore(coming, p)
          BY <3>1, <4>1, <1>1 DEF PrevStore, TypeOK, Cell
        <4>2. CASE s # PrevStore(coming, p)
          <5>1. coming # NoNode => s[2] # coming \/ PrevStore(coming, p) \in early
            BY <3>2, <4>2 DEF WorkInv, PrevStore, Linked, On
          <5> QED
            BY <3>1, <4>2, <5>1, <1>1 DEF WorkInv, TypeOK
        <4> QED
          BY <4>1, <4>2
      <3>9. /\ NextStore(p, Forth(q))' = NextStore(p, Forth(q))
            /\ PrevStore(q, Back(p))' = PrevStore(q, Back(p))
            /\ NextStore(coming, q)' = NextStore(coming, q)
            /\ PrevStore(coming, p)' = PrevStore(coming, p)
            /\ PrevStore(going, Poison)' = PrevStore(going, Poison)
        BY <1>2 DEF NextStore, PrevStore
      <3> QED
        BY <1>2, <3>1, <3>3, <3>4, <3>5, <3>6, <3>7, <3>8, <3>9 DEF WorkInv
    <2> QED
      BY <2>1, <2>2
  <1>9. Calm
    BY <1>2, <1>6 DEF Calm
  <1> QED
    BY <1>3, <1>4, <1>7, <1>8, <1>9 DEF IInv, WriterInv

\* The places after n has been linked in between p and q: it gets one of its
\* own, and no reader that is inside has to see it.
LEMMA LinkPlaces ==
  ASSUME NEW rank \in [Node -> Nat], NEW R \in [Node -> SUBSET Reader],
         Places(rank, R), TypeOK, ItemInv,
         NEW n \in Node, NEW p \in Linked, NEW q \in Linked,
         n \notin Linked, n \notin Gone, next[p] = q, next[n] = q,
         item[n] \notin {item[m] : m \in On},
         next' = [next EXCEPT ![p] = n],
         On' = On \cup {n}, Gone' = Gone,
         \A m \in Gone : status'[m] = status[m],
         UNCHANGED <<item, waits, in, at, ahead, must, seen>>
  PROVE  PlaceInv'
  <1> USE NodeAssumption
  <1>1. /\ p \in Cell /\ q \in Cell /\ p # n /\ q # n
        /\ ListHead \notin Node /\ n # ListHead
        /\ Linked \subseteq Cell /\ Gone \subseteq Node /\ Gone \cap Linked = {}
        /\ Linked' = Linked \cup {n}
    BY DEF Linked, On, Gone, Cell
  <1>2. \A c \in Cell : From(rank, c) \in Nat
    BY DEF From, Linked, On, Cell
  <1> PICK new \in [Node -> Nat] :
             /\ new[n] = 2 * From(rank, p) + 1
             /\ \A m \in Node \ {n} : new[m] = 2 * rank[m]
    <2> DEFINE f == [m \in Node |-> IF m = n THEN 2 * From(rank, p) + 1
                                   ELSE 2 * rank[m]]
    <2>1. f \in [Node -> Nat]
      BY <1>1, <1>2
    <2> QED
      BY <2>1
  <1>3. /\ \A m \in Node \ {n} : rank[m] \in Nat
        /\ \A c \in Cell \ {n} : From(new, c) = 2 * From(rank, c)
        /\ From(new, n) = new[n]
    BY <1>1 DEF From, Cell
  <1>4. /\ next'[p] = n /\ next'[n] = q
        /\ \A c \in (Linked \cup Gone) \ {p} : next'[c] = next[c]
    BY <1>1 DEF TypeOK
  <1>5. \A r \in in : Due(r)' = Due(r) /\ n \notin Due(r)
    BY <1>1 DEF Due, ItemInv, Linked, On
  <1>6. RankInv(new)'
    BY <1>1, <1>2, <1>3 DEF Places, RankInv, Linked, On
  <1>7. \A c \in Linked : rank[p] > 0 \/ p = ListHead
    BY DEF Places, RankInv, Linked, On
  <1>8. ChainInv(new)'
    <2> SUFFICES ASSUME NEW c \in Linked \cup {n}
                 PROVE  /\ next'[c] \in Linked \cup {n}
                        /\ After(new, From(new, c), next'[c])
                        /\ \A m \in On \cup {n} :
                             ~Between(new, From(new, c), m, next'[c])
      BY <1>1 DEF ChainInv, After, Between, From
    <2>1. \A d \in Linked : /\ next[d] \in Linked
                            /\ After(rank, From(rank, d), next[d])
                            /\ \A m \in On :
                                 ~Between(rank, From(rank, d), m, next[d])
      BY DEF Places, ChainInv
    <2>2. \A m \in On : m \in Node \ {n} /\ m # ListHead
      BY <1>1 DEF On, Linked
    <2>3. CASE c = p
      BY <1>1, <1>2, <1>3, <1>4, <2>1, <2>2, <2>3 DEF After, Between, From
    <2>4. CASE c = n
      BY <1>1, <1>2, <1>3, <1>4, <2>1, <2>2, <2>4 DEF After, Between, From, Linked
    <2>5. CASE c \in Linked \ {p}
      <3>1. ~Between(rank, From(rank, c), p, next[c]) \/ p = ListHead
        BY <2>1, <2>5 DEF Linked
      <3>2. From(rank, c) # From(rank, p)
        BY <2>2, <2>5 DEF From, Places, RankInv, Linked
      <3>3. ~Between(new, From(new, c), n, next[c])
        BY <1>1, <1>2, <1>3, <2>1, <2>2, <2>5, <3>1, <3>2
        DEF After, Between, From, Linked
      <3> QED
        BY <1>1, <1>2, <1>3, <1>4, <2>1, <2>2, <2>5, <3>3
        DEF After, Between, Linked
    <2> QED
      BY <2>3, <2>4, <2>5
  <1>9. \A r \in in, c \in Cell : Reachable(R, r, c) => Reachable(R, r, c)'
    BY <1>1 DEF Reachable
  <1>10. \A m \in On \cup Gone : m \in Node \ {n}
    BY <1>1 DEF Linked, On
  <1>11. GoneInv(new, R)'
    <2> SUFFICES ASSUME NEW m \in Gone, NEW r \in R[m]
                 PROVE  /\ r \in in
                        /\ status'[m] = "dying" => r \in waits[m]
                        /\ Reachable(R, r, next[m])'
                        /\ After(new, new[m], next'[m])
                        /\ \A d \in Due(r)' : ~Between(new, new[m], d, next'[m])
                        /\ item[m] \in must[r] => \E d \in On \cup {n} :
                             new[d] = new[m] /\ item[d] = item[m]
      BY DEF GoneInv, After, Between
    <2>1. next'[m] = next[m]
      BY <1>1, <1>4
    <2>2. /\ r \in in /\ Reachable(R, r, next[m]) /\ After(rank, rank[m], next[m])
          /\ \A d \in Due(r) : ~Between(rank, rank[m], d, next[m])
          /\ item[m] \in must[r] =>
               \E d \in On : rank[d] = rank[m] /\ item[d] = item[m]
          /\ status[m] = "dying" => r \in waits[m]
      BY DEF Places, GoneInv
    <2>3. next[m] \in Cell \ {n}
      BY <1>1, <2>2 DEF Reachable, Cell
    <2>4. \A d \in Due(r)' : d \in Node \ {n} /\ d \in Due(r)
      BY <1>5, <1>10, <2>2 DEF Due
    <2>5. m \in Node \ {n} /\ new[m] = 2 * rank[m] /\ rank[m] \in Nat
      BY <1>3, <1>10
    <2>6. Reachable(R, r, next[m])'
      BY <1>9, <2>1, <2>2, <2>3
    <2>7. After(new, new[m], next'[m])
      BY <1>3, <2>1, <2>2, <2>3, <2>5 DEF After, Cell
    <2>8. \A d \in Due(r)' : ~Between(new, new[m], d, next'[m])
      BY <1>3, <2>1, <2>2, <2>3, <2>4, <2>5 DEF Between, Cell
    <2>9. item[m] \in must[r] =>
            \E d \in On \cup {n} : new[d] = new[m] /\ item[d] = item[m]
      BY <1>10, <2>2, <2>5
    <2> QED
      BY <2>2, <2>6, <2>7, <2>8, <2>9
  <1>12. CursorInv(new, R)'
    <2> SUFFICES ASSUME NEW r \in in
                 PROVE  /\ Reachable(R, r, at[r])'
                        /\ \A m \in Due(r) :
                             item[m] \in seen[r] <=> new[m] <= From(new, at[r])
                        /\ ahead[r] # NoNode =>
                             /\ Reachable(R, r, ahead[r])'
                             /\ After(new, From(new, at[r]), ahead[r])
                             /\ \A m \in Due(r) :
                                  ~Between(new, From(new, at[r]), m, ahead[r])
      BY <1>5 DEF CursorInv, After, Between, From
    <2>1. /\ Reachable(R, r, at[r])
          /\ \A m \in Due(r) :
               item[m] \in seen[r] <=> rank[m] <= From(rank, at[r])
          /\ ahead[r] # NoNode =>
               /\ Reachable(R, r, ahead[r])
               /\ After(rank, From(rank, at[r]), ahead[r])
               /\ \A m \in Due(r) :
                    ~Between(rank, From(rank, at[r]), m, ahead[r])
      BY DEF Places, CursorInv
    <2>2. at[r] \in Cell \ {n} /\ (ahead[r] # NoNode => ahead[r] \in Cell \ {n})
      BY <1>1, <2>1 DEF Reachable, Cell
    <2>3. \A m \in Due(r) : m \in Node \ {n}
      BY <1>10 DEF Due
    <2>4. Reachable(R, r, at[r])' /\ (ahead[r] # NoNode => Reachable(R, r, ahead[r])')
      BY <1>9, <2>1, <2>2 DEF Reachable
    <2> QED
      BY <1>1, <1>2, <1>3, <2>1, <2>2, <2>3, <2>4 DEF After, Between, Cell
  <1> QED
    BY <1>2, <1>6, <1>8, <1>11, <1>12 DEF PlaceInv, Places

\* The places after e has been unlinked from between p and q: the readers that
\* are inside may still come to it, and need not have seen its item.
LEMMA RemovePlaces ==
  ASSUME NEW rank \in [Node -> Nat], NEW R \in [Node -> SUBSET Reader],
         Places(rank, R), TypeOK, ItemInv,
         NEW e \in On, NEW p \in Linked, NEW q \in Linked,
         p # e, q # e, next[p] = e, next[e] = q,
         next' = [next EXCEPT ![p] = q],
         On' = On \ {e}, Gone' = Gone \cup {e},
         status'[e] = "off", \A m \in Gone : status'[m] = status[m],
         must' = [r \in Reader |-> must[r] \ {item[e]}],
         UNCHANGED <<item, waits, in, at, ahead, seen>>
  PROVE  PlaceInv'
  <1> USE NodeAssumption
  <1>1. /\ p \in Cell /\ q \in Cell /\ e \in Node /\ e # ListHead
        /\ Linked \subseteq Cell /\ Gone \subseteq Node /\ On \subseteq Node
        /\ Gone \cap Linked = {} /\ e \notin Gone
        /\ Linked' = Linked \ {e} /\ On \subseteq Linked
        /\ in \subseteq Reader
    BY DEF Linked, On, Gone, Cell, TypeOK
  <1> PICK S \in [Node -> SUBSET Reader] :
             S[e] = in /\ \A m \in Node \ {e} : S[m] = R[m]
    <2>1. [R EXCEPT ![e] = in] \in [Node -> SUBSET Reader]
      BY <1>1
    <2> QED
      BY <2>1, <1>1
  <1>2. next'[p] = q /\ \A c \in (Linked \cup Gone) \ {p} : next'[c] = next[c]
    BY <1>1 DEF TypeOK
  <1>3. \A r \in in : Due(r)' = Due(r) \ {e}
    BY <1>1 DEF Due, ItemInv
  <1>4. /\ \A c \in Linked : /\ next[c] \in Linked
                             /\ After(rank, From(rank, c), next[c])
                             /\ \A m \in On :
                                  ~Between(rank, From(rank, c), m, next[c])
        /\ \A m, d \in On : rank[m] = rank[d] => m = d
        /\ \A m \in Node : rank[m] > 0 /\ rank[m] \in Nat
        /\ \A c \in Cell : From(rank, c) \in Nat
    BY <1>1 DEF Places, ChainInv, RankInv, From, Cell
  <1>5. RankInv(rank)'
    BY <1>1, <1>4 DEF Places, RankInv
  <1>6. ChainInv(rank)'
    <2> SUFFICES ASSUME NEW c \in Linked \ {e}
                 PROVE  /\ next'[c] \in Linked \ {e}
                        /\ After(rank, From(rank, c), next'[c])
                        /\ \A m \in On \ {e} :
                             ~Between(rank, From(rank, c), m, next'[c])
      BY <1>1 DEF ChainInv, After, Between, From
    <2>1. CASE c = p
      <3>1. \A m \in On \ {e} : rank[m] < rank[e] \/ rank[e] < rank[m]
        BY <1>1, <1>4
      <3>2. From(rank, e) = rank[e]
        BY <1>1 DEF From
      <3> QED
        BY <1>1, <1>2, <1>4, <2>1, <3>1, <3>2 DEF After, Between, Linked
    <2>2. CASE c # p
      <3>1. From(rank, c) # From(rank, p)
        BY <1>1, <1>4, <2>2 DEF From, Linked
      <3>2. next[c] # e
        <4>1. ASSUME next[c] = e, From(rank, c) < From(rank, p) PROVE FALSE
          <5>1. p \in On /\ From(rank, p) = rank[p]
            BY <1>4, <4>1, <1>1 DEF From, Linked
          <5> QED
            BY <1>1, <1>4, <4>1, <5>1 DEF After, Between
        <4>2. ASSUME next[c] = e, From(rank, p) < From(rank, c) PROVE FALSE
          <5>1. c \in On /\ From(rank, c) = rank[c]
            BY <1>4, <4>2, <1>1 DEF From, Linked
          <5> QED
            BY <1>1, <1>4, <4>2, <5>1 DEF After, Between
        <4> QED
          BY <1>1, <1>4, <3>1, <4>1, <4>2
      <3> QED
        BY <1>1, <1>2, <1>4, <2>2, <3>2
    <2> QED
      BY <2>1, <2>2
  <1>7. \A r \in in, c \in Cell : Reachable(R, r, c) => Reachable(S, r, c)'
    BY <1>1 DEF Reachable
  <1>8. GoneInv(rank, S)'
    <2> SUFFICES ASSUME NEW m \in Gone', NEW r \in S[m]
                 PROVE  (/\ r \in in
                         /\ status[m] = "dying" => r \in waits[m]
                         /\ Reachable(S, r, next[m])
                         /\ After(rank, rank[m], next[m])
                         /\ \A d \in Due(r) : ~Between(rank, rank[m], d, next[m])
                         /\ item[m] \in must[r] => \E d \in On :
                              rank[d] = rank[m] /\ item[d] = item[m])'
      BY DEF GoneInv
    <2>1. next'[m] = next[m] /\ After(rank, rank[m], next[m])' = After(rank, rank[m], next[m])
          /\ \A d : Between(rank, rank[m], d, next[m])' = Between(rank, rank[m], d, next[m])
      BY <1>1, <1>2 DEF After, Between
    <2>2. CASE m = e
      <3>1. r \in in /\ From(rank, e) = rank[e] /\ Reachable(S, r, q)'
        BY <1>1, <2>2 DEF From, Reachable
      <3>2. item[m] \notin must'[r]
        BY <1>1, <2>2, <3>1
      <3>3. \A d \in Due(r)' : d \in On
        BY <1>3, <3>1 DEF Due
      <3> QED
        BY <1>1, <1>4, <2>1, <2>2, <3>1, <3>2, <3>3
    <2>3. CASE m \in Gone
      <3>1. r \in R[m]
        BY <1>1, <2>3
      <3>2. /\ r \in in /\ Reachable(R, r, next[m]) /\ After(rank, rank[m], next[m])
            /\ \A d \in Due(r) : ~Between(rank, rank[m], d, next[m])
            /\ item[m] \in must[r] =>
                 \E d \in On : rank[d] = rank[m] /\ item[d] = item[m]
            /\ status[m] = "dying" => r \in waits[m]
        BY <2>3, <3>1 DEF Places, GoneInv
      <3>3. Reachable(S, r, next[m])'
        BY <1>1, <1>7, <2>1, <3>2 DEF Reachable, Cell
      <3>4. must'[r] = must[r] \ {item[e]}
        BY <1>1, <3>2
      <3> QED
        BY <1>1, <1>3, <2>1, <2>3, <3>2, <3>3, <3>4
    <2> QED
      BY <2>2, <2>3
  <1>9. CursorInv(rank, S)'
    <2> SUFFICES ASSUME NEW r \in in
                 PROVE  /\ Reachable(S, r, at[r])'
                        /\ \A m \in Due(r)' :
                             item[m] \in seen[r] <=> rank[m] <= From(rank, at[r])
                        /\ ahead[r] # NoNode =>
                             /\ Reachable(S, r, ahead[r])'
                             /\ After(rank, From(rank, at[r]), ahead[r])
                             /\ \A m \in Due(r)' :
                                  ~Between(rank, From(rank, at[r]), m, ahead[r])
      BY DEF CursorInv, After, Between, From
    <2>1. /\ Reachable(R, r, at[r])
          /\ \A m \in Due(r) :
               item[m] \in seen[r] <=> rank[m] <= From(rank, at[r])
          /\ ahead[r] # NoNode =>
               /\ Reachable(R, r, ahead[r])
               /\ After(rank, From(rank, at[r]), ahead[r])
               /\ \A m \in Due(r) :
                    ~Between(rank, From(rank, at[r]), m, ahead[r])
      BY DEF Places, CursorInv
    <2>2. Reachable(S, r, at[r])' /\ (ahead[r] # NoNode => Reachable(S, r, ahead[r])')
      BY <1>1, <1>7, <2>1 DEF Reachable
    <2> QED
      BY <1>3, <2>1, <2>2
  <1> QED
    BY <1>5, <1>6, <1>8, <1>9 DEF PlaceInv, Places

\* The places after n has taken that of e between p and q, with its rank: who
\* has seen the one need not see the other.
LEMMA ReplacePlaces ==
  ASSUME NEW rank \in [Node -> Nat], NEW R \in [Node -> SUBSET Reader],
         Places(rank, R), TypeOK, ItemInv,
         NEW e \in On, NEW n \in Node, NEW p \in Linked, NEW q \in Linked,
         n \notin Linked, n \notin Gone, p # e, q # e,
         next[p] = e, next[e] = q, next[n] = q, item[n] = item[e],
         next' = [next EXCEPT ![p] = n],
         On' = (On \ {e}) \cup {n}, Gone' = Gone \cup {e},
         status'[e] = "off", \A m \in Gone : status'[m] = status[m],
         UNCHANGED <<item, waits, in, at, ahead, must, seen>>
  PROVE  PlaceInv'
  <1> USE NodeAssumption
  <1>1. /\ p \in Cell /\ q \in Cell /\ e \in Node /\ e # ListHead /\ n # e
        /\ n # ListHead /\ n # p /\ n # q
        /\ Linked \subseteq Cell /\ Gone \subseteq Node /\ On \subseteq Node
        /\ Gone \cap Linked = {} /\ e \notin Gone
        /\ Linked' = (Linked \ {e}) \cup {n} /\ On \subseteq Linked
        /\ in \subseteq Reader /\ n \notin On
    BY DEF Linked, On, Gone, Cell, TypeOK
  <1> PICK S \in [Node -> SUBSET Reader] :
             S[e] = in /\ \A m \in Node \ {e} : S[m] = R[m]
    <2>1. [R EXCEPT ![e] = in] \in [Node -> SUBSET Reader]
      BY <1>1
    <2> QED
      BY <2>1, <1>1
  <1> PICK new \in [Node -> Nat] :
             new[n] = rank[e] /\ \A m \in Node \ {n} : new[m] = rank[m]
    <2>1. [rank EXCEPT ![n] = rank[e]] \in [Node -> Nat]
      BY <1>1
    <2> QED
      BY <2>1, <1>1
  <1>2. /\ next'[p] = n /\ next'[n] = q
        /\ \A c \in (Linked \cup Gone) \ {p} : next'[c] = next[c]
    BY <1>1 DEF TypeOK
  <1>3. /\ \A c \in Linked : /\ next[c] \in Linked
                             /\ After(rank, From(rank, c), next[c])
                             /\ \A m \in On :
                                  ~Between(rank, From(rank, c), m, next[c])
        /\ \A m, d \in On : rank[m] = rank[d] => m = d
        /\ \A m \in On, d \in Gone : rank[m] = rank[d] => item[m] = item[d]
        /\ \A m \in Node : rank[m] > 0 /\ rank[m] \in Nat
        /\ \A c \in Cell : From(rank, c) \in Nat
    BY <1>1 DEF Places, ChainInv, RankInv, From, Cell
  <1>4. RankInv(new)'
    BY <1>1, <1>3 DEF RankInv
  <1>5. \A c \in Cell \ {n} : From(new, c) = From(rank, c)
    BY DEF From, Cell
  <1>6. ChainInv(new)'
    <2> SUFFICES ASSUME NEW c \in Linked'
                 PROVE  (/\ next[c] \in Linked
                         /\ After(new, From(new, c), next[c])
                         /\ \A m \in On : ~Between(new, From(new, c), m, next[c]))'
      BY DEF ChainInv
    <2>1. CASE c = p
      <3>1. From(new, c)' = From(rank, p)
        BY <1>1, <1>5, <2>1 DEF From
      <3> QED
        BY <1>1, <1>2, <1>3, <2>1, <3>1 DEF After, Between
    <2>2. CASE c = n
      <3>1. From(new, c)' = rank[e] /\ From(rank, e) = rank[e] /\ next'[c] = q
        BY <1>1, <1>2, <2>2 DEF From
      <3>2. q \in Linked' /\ (q = ListHead \/ new[q] = rank[q])
        BY <1>1 DEF Cell
      <3>3. After(rank, rank[e], q) /\ \A m \in On : ~Between(rank, rank[e], m, q)
        BY <1>1, <1>3, <3>1
      <3>4. \A m \in On' : new[m] = rank[e] \/ (m \in On /\ new[m] = rank[m])
        BY <1>1
      <3> QED
        BY <1>3, <3>1, <3>2, <3>3, <3>4 DEF After, Between
    <2>3. CASE c \in Linked \ {e, p}
      <3>1. From(rank, c) # From(rank, p)
        BY <1>1, <1>3, <2>3 DEF From, Linked
      <3>2. next[c] # e
        <4>1. ASSUME next[c] = e, From(rank, c) < From(rank, p) PROVE FALSE
          <5>1. p \in On /\ From(rank, p) = rank[p]
            BY <1>1, <1>3, <4>1, <2>3 DEF From, Linked
          <5> QED
            BY <1>1, <1>3, <4>1, <5>1, <2>3 DEF After, Between
        <4>2. ASSUME next[c] = e, From(rank, p) < From(rank, c) PROVE FALSE
          <5>1. c \in On /\ From(rank, c) = rank[c]
            BY <1>1, <1>3, <4>2, <2>3 DEF From, Linked
          <5> QED
            BY <1>1, <1>3, <4>2, <5>1 DEF After, Between
        <4> QED
          BY <1>1, <1>3, <2>3, <3>1, <4>1, <4>2
      <3>3. From(new, c)' = From(rank, c) /\ next'[c] = next[c] /\ next[c] # n
        BY <1>1, <1>2, <1>3, <1>5, <2>3 DEF From
      <3>4. next[c] \in Linked' /\ (next[c] = ListHead \/ new[next[c]] = rank[next[c]])
        BY <1>1, <1>3, <2>3, <3>2, <3>3 DEF Linked
      <3> QED
        BY <1>1, <1>3, <2>3, <3>3, <3>4 DEF After, Between
    <2> QED
      BY <1>1, <2>1, <2>2, <2>3
  <1>7. \A r \in in, c \in Cell : Reachable(R, r, c) => c # n /\ Reachable(S, r, c)'
    BY <1>1 DEF Reachable
  <1>8. \A r : \A m \in Due(r)' :
          \/ m \in Due(r) /\ m \in Node \ {n} /\ new[m] = rank[m]
          \/ m = n /\ e \in Due(r) /\ new[m] = rank[e] /\ item[m] = item[e]
    BY <1>1 DEF Due
  <1>9. GoneInv(new, S)'
    <2> SUFFICES ASSUME NEW m \in Gone', NEW r \in S[m]
                 PROVE  (/\ r \in in
                         /\ status[m] = "dying" => r \in waits[m]
                         /\ Reachable(S, r, next[m])
                         /\ After(new, new[m], next[m])
                         /\ \A d \in Due(r) : ~Between(new, new[m], d, next[m])
                         /\ item[m] \in must[r] => \E d \in On :
                              new[d] = new[m] /\ item[d] = item[m])'
      BY DEF GoneInv
    <2>1. next'[m] = next[m] /\ m \in Node \ {n} /\ new[m] = rank[m]
      BY <1>1, <1>2
    <2>2. CASE m = e
      <3>1. r \in in /\ From(rank, e) = rank[e] /\ Reachable(S, r, q)'
        BY <1>1, <2>2 DEF From, Reachable
      <3>2. q = ListHead \/ new[q] = rank[q]
        BY <1>1 DEF Cell
      <3>3. After(new, new[m], next[m])'
        BY <1>1, <1>3, <2>1, <2>2, <3>1, <3>2 DEF After
      <3>4. \A d \in Due(r)' : d # n => d \in On
        BY <1>8 DEF Due
      <3>5. \A d \in Due(r)' : ~Between(new, new[m], d, next[m])'
        BY <1>1, <1>3, <1>8, <2>1, <2>2, <3>1, <3>2, <3>4 DEF Between
      <3>6. new[n] = new[m] /\ item'[n] = item'[m] /\ n \in On'
        BY <1>1, <2>1, <2>2
      <3> QED
        BY <1>1, <2>1, <2>2, <3>1, <3>3, <3>5, <3>6
    <2>3. CASE m \in Gone
      <3>1. r \in R[m]
        BY <1>1, <2>3
      <3>2. /\ r \in in /\ Reachable(R, r, next[m]) /\ After(rank, rank[m], next[m])
            /\ \A d \in Due(r) : ~Between(rank, rank[m], d, next[m])
            /\ item[m] \in must[r] =>
                 \E d \in On : rank[d] = rank[m] /\ item[d] = item[m]
            /\ status[m] = "dying" => r \in waits[m]
        BY <2>3, <3>1 DEF Places, GoneInv
      <3>3. /\ Reachable(S, r, next[m])'
            /\ next[m] = ListHead \/ new[next[m]] = rank[next[m]]
        BY <1>1, <1>7, <2>1, <3>2 DEF Reachable, Cell
      <3>4. After(new, new[m], next[m])'
        BY <2>1, <3>2, <3>3 DEF After
      <3>5. \A d \in Due(r)' : ~Between(new, new[m], d, next[m])'
        BY <1>8, <2>1, <3>2, <3>3 DEF Between
      <3>6. (item[m] \in must[r] =>
               \E d \in On : new[d] = new[m] /\ item[d] = item[m])'
        BY <1>1, <2>1, <3>2
      <3> QED
        BY <2>3, <3>2, <3>3, <3>4, <3>5, <3>6
    <2> QED
      BY <2>2, <2>3
  <1>10. CursorInv(new, S)'
    <2> SUFFICES ASSUME NEW r \in in
                 PROVE  (/\ Reachable(S, r, at[r])
                         /\ \A m \in Due(r) :
                              item[m] \in seen[r] <=> new[m] <= From(new, at[r])
                         /\ ahead[r] # NoNode =>
                              /\ Reachable(S, r, ahead[r])
                              /\ After(new, From(new, at[r]), ahead[r])
                              /\ \A m \in Due(r) :
                                   ~Between(new, From(new, at[r]), m, ahead[r]))'
      BY DEF CursorInv
    <2>1. /\ Reachable(R, r, at[r])
          /\ \A m \in Due(r) :
               item[m] \in seen[r] <=> rank[m] <= From(rank, at[r])
          /\ ahead[r] # NoNode =>
               /\ Reachable(R, r, ahead[r])
               /\ After(rank, From(rank, at[r]), ahead[r])
               /\ \A m \in Due(r) :
                    ~Between(rank, From(rank, at[r]), m, ahead[r])
      BY DEF Places, CursorInv
    <2>2. /\ Reachable(S, r, at[r])' /\ at[r] \in Cell \ {n}
          /\ ahead[r] # NoNode => /\ Reachable(S, r, ahead[r])'
                                  /\ ahead[r] = ListHead \/ new[ahead[r]] = rank[ahead[r]]
      BY <1>1, <1>7, <2>1 DEF Reachable, Cell
    <2>3. From(new, at[r])' = From(rank, at[r])
      BY <1>5, <2>2 DEF From
    <2>4. \A m \in Due(r)' :
            item'[m] \in seen'[r] <=> new[m] <= From(rank, at[r])
      BY <1>8, <2>1
    <2>5. ahead[r] # NoNode => After(new, From(new, at[r]), ahead[r])'
      BY <2>1, <2>2, <2>3 DEF After
    <2>6. ahead[r] # NoNode =>
            \A m \in Due(r)' : ~Between(new, From(new, at[r]), m, ahead[r])'
      BY <1>8, <2>1, <2>2, <2>3 DEF Between
    <2> QED
      BY <2>2, <2>3, <2>4, <2>5, <2>6
  <1> QED
    BY <1>4, <1>6, <1>9, <1>10 DEF PlaceInv, Places

\* The operation happens, between p and q.
Happens(p, q) ==
  /\ p \in Linked
  /\ On' = (On \ {going}) \cup ({coming} \cap Node)
  /\ next' = [next EXCEPT ![p] = Forth(q)]
  /\ item' = item
  /\ coming # NoNode =>
       coming \in Node \ On /\ item[coming] \in Item /\ next[coming] = q
  /\ going # NoNode => going \in On /\ next[p] = going /\ next[going] = q
  /\ going = NoNode =>
       /\ coming # NoNode /\ next[p] = q
       /\ item[coming] \notin {item[m] : m \in On}
  /\ coming # NoNode /\ going # NoNode => item[coming] = item[going]

\* The store at which an operation happens keeps the invariant.
LEMMA StorePublishInv ==
  ASSUME IInv, NEW s \in early \cup late, StorePublish(s)
  PROVE  /\ IInv'
         /\ s \in late /\ s[1] = "next"
         /\ \E q \in Cell : s[2] \in Cell /\ Happens(s[2], q)
  <1> USE NodeAssumption
  <1>1. TypeOK /\ ItemInv
    BY DEF IInv
  <1> PICK p \in Cell, q \in Cell : WorkInv(p, q)
    BY DEF IInv, WriterInv, RestInv
  <1>2. /\ s = NextStore(p, Forth(q)) /\ s \in late /\ early = {}
        /\ NextStore(p, Forth(q)) \in late
    BY DEF StorePublish, Pending, WorkInv, NextStore, PrevStore
  <1>3. /\ next' = [next EXCEPT ![p] = Forth(q)]
        /\ early' = {} /\ late' = late \ {s}
        /\ UNCHANGED <<kind, prev, coming, going, item, waits, in, at, ahead, seen>>
        /\ s \notin late'
    BY <1>2 DEF StorePublish, NextStore, reader
  <1>4. /\ p \in Linked /\ q \in Linked /\ p \notin {going, coming}
        /\ q \notin {going, coming} /\ coming # going
        /\ coming # NoNode => /\ status[coming] = "new" /\ item[coming] \in Item
                              /\ next[coming] = q /\ coming \in Node
        /\ going # NoNode => /\ status[going] = "on" /\ next[p] = going
                             /\ next[going] = q /\ going \in Node
        /\ going = NoNode => /\ next[p] = q
                             /\ item[coming] \notin {item[m] : m \in On}
        /\ coming # NoNode /\ going # NoNode => item[coming] = item[going]
    BY <1>1, <1>2 DEF WorkInv, TypeOK, NextStore
  <1>5. /\ On' = (On \ {going}) \cup ({coming} \cap Node)
        /\ Gone' = Gone \cup ({going} \cap Node)
        /\ coming \notin On /\ coming \notin Gone /\ going \notin Gone
        /\ coming \notin Linked /\ going # ListHead
        /\ \A m \in Node \ {coming, going} : status'[m] = status[m]
        /\ coming # NoNode => status'[coming] = "on"
        /\ going # NoNode => status'[going] = "off" /\ going \in On
    BY <1>1, <1>4 DEF StorePublish, On, Gone, TypeOK, Linked
  <1>6. Forth(q) \in Cell /\ Forth(q)' = Forth(q) /\ Back(p)' = Back(p)
    BY <1>1, <1>3 DEF Forth, Back, TypeOK, Cell
  <1>7. TypeOK'
    <2>1. status' \in [Node -> {"spare", "new", "on", "off", "dying"}]
      BY <1>1 DEF StorePublish, TypeOK
    <2>2. must' \in [Reader -> SUBSET Item]
      BY <1>1 DEF StorePublish, TypeOK
    <2>3. next' \in [Cell -> Cell \cup {Poison}]
      BY <1>1, <1>3, <1>6 DEF TypeOK
    <2>4. call' \in Calls
      BY DEF StorePublish, Calls
    <2> QED
      BY <1>1, <1>3, <2>1, <2>2, <2>3, <2>4 DEF TypeOK
  <1>8. \A m \in On \cup Gone \cup {going} : m \in Node \/ m = NoNode
    BY <1>1 DEF On, Gone, TypeOK
  <1>9. ASSUME going = NoNode PROVE ItemInv' /\ PlaceInv'
    <2>1. /\ coming # NoNode /\ coming \in Node /\ going \notin Node
          /\ must' = must /\ Forth(q) = coming
          /\ On' = On \cup {coming} /\ Gone' = Gone
      BY <1>4, <1>5, <1>8, <1>9 DEF WorkInv, StorePublish, Forth, On
    <2>2. ItemInv'
      BY <1>1, <1>3, <1>4, <2>1 DEF ItemInv
    <2>3. PlaceInv'
      <3> PICK rank \in [Node -> Nat], R \in [Node -> SUBSET Reader] :
               Places(rank, R)
        BY DEF IInv, PlaceInv
      <3>1. \A m \in Gone : status'[m] = status[m]
        BY <1>5, <1>9, <2>1 DEF Gone
      <3> QED
        BY <1>1, <1>3, <1>4, <1>5, <1>9, <2>1, <3>1, LinkPlaces
    <2> QED
      BY <2>2, <2>3
  <1>10. ASSUME going # NoNode, coming = NoNode PROVE ItemInv' /\ PlaceInv'
    <2>1. /\ going \in Node /\ going \in On /\ coming \notin Node
          /\ must' = [r \in Reader |-> must[r] \ {item[going]}]
          /\ Forth(q) = q
          /\ On' = On \ {going} /\ Gone' = Gone \cup {going}
      BY <1>4, <1>5, <1>10 DEF StorePublish, Forth
    <2>2. ItemInv'
      <3>1. in \subseteq Reader
        BY <1>1 DEF TypeOK
      <3> QED
        BY <1>1, <1>3, <2>1, <3>1 DEF ItemInv
    <2>3. PlaceInv'
      <3> PICK rank \in [Node -> Nat], R \in [Node -> SUBSET Reader] :
               Places(rank, R)
        BY DEF IInv, PlaceInv
      <3>1. \A m \in Gone : status'[m] = status[m]
        BY <1>5, <2>1 DEF Gone
      <3>2. /\ p \in Linked /\ q \in Linked /\ p # going /\ q # going
            /\ next[p] = going /\ next[going] = q
            /\ next' = [next EXCEPT ![p] = q]
            /\ status'[going] = "off"
            /\ UNCHANGED <<item, waits, in, at, ahead, seen>>
        BY <1>3, <1>4, <1>5, <1>10, <2>1
      <3> QED
        BY <1>1, <2>1, <3>1, <3>2, RemovePlaces
    <2> QED
      BY <2>2, <2>3
  <1>11. ASSUME going # NoNode, coming # NoNode PROVE ItemInv' /\ PlaceInv'
    <2>1. /\ going \in Node /\ going \in On /\ coming \in Node
          /\ must' = must /\ Forth(q) = coming
          /\ On' = (On \ {going}) \cup {coming} /\ Gone' = Gone \cup {going}
      BY <1>4, <1>5, <1>11 DEF StorePublish, Forth
    <2>2. ItemInv'
      BY <1>1, <1>3, <1>4, <1>5, <1>11, <2>1 DEF ItemInv
    <2>3. PlaceInv'
      <3> PICK rank \in [Node -> Nat], R \in [Node -> SUBSET Reader] :
               Places(rank, R)
        BY DEF IInv, PlaceInv
      <3>1. \A m \in Gone : status'[m] = status[m]
        BY <1>5, <2>1 DEF Gone
      <3> QED
        BY <1>1, <1>3, <1>4, <1>5, <1>11, <2>1, <3>1, ReplacePlaces
    <2> QED
      BY <2>2, <2>3
  <1>12. WorkInv(p, q)'
    <2>1. /\ NextStore(p, Forth(q))' = s /\ PrevStore(q, Back(p))' = PrevStore(q, Back(p))
          /\ PrevStore(going, Poison)' = PrevStore(going, Poison)
          /\ s # PrevStore(q, Back(p))
      BY <1>2, <1>3, <1>6 DEF NextStore, PrevStore
    <2>2. p \in Linked' /\ q \in Linked'
      BY <1>4, <1>5 DEF Linked
    <2>3. \A m \in Node : status'[m] = "new" => m = coming
      BY <1>4, <1>5 DEF WorkInv
    <2>4. \A c \in Linked' \ {q, going, coming} : HasBack(c)' => Backed(c)'
      <3> SUFFICES ASSUME NEW c \in Linked' \ {q, going, coming}, HasBack(c)
                   PROVE  Backed(c)'
        BY <1>3 DEF HasBack
      <3>1. c \in Linked /\ c \in Cell
        BY <1>5 DEF Linked, On, Cell
      <3>2. prev[c] \in Linked /\ next[prev[c]] = c
        BY <1>3, <3>1 DEF WorkInv, Backed
      <3>3. prev[c] # p /\ prev[c] # going
        BY <1>4, <1>5, <1>8, <3>2 DEF Linked, On
      <3> QED
        BY <1>1, <1>3, <1>5, <3>2, <3>3 DEF Backed, Linked, TypeOK
    <2>5. HasBack(q)' => PrevStore(q, Back(p)) \in late' \/ prev'[q] = Back(p)
      BY <1>2, <1>3, <2>1 DEF HasBack, WorkInv
    <2>6. PrevStore(q, Back(p)) \in late' => HasBack(q)'
      BY <1>3 DEF HasBack, WorkInv
    <2>7. next'[p] = Forth(q) /\ (coming # NoNode =>
                                   next'[coming] = q /\ prev'[coming] = p)
      BY <1>1, <1>2, <1>3, <1>4 DEF WorkInv, TypeOK, PrevStore
    <2> QED
      BY <1>2, <1>3, <1>4, <1>5, <1>6, <2>1, <2>2, <2>3, <2>4, <2>5, <2>6, <2>7
      DEF WorkInv
  <1>13. Happens(p, q)
    <2>1. going = NoNode => coming # NoNode
      BY DEF WorkInv
    <2> QED
      BY <1>3, <1>4, <1>5, <2>1 DEF Happens
  <1> QED
    <2>1. IInv'
      BY <1>7, <1>9, <1>10, <1>11, <1>12 DEF IInv, WriterInv
    <2>2. s \in late /\ s[1] = "next" /\ s[2] = p
      BY <1>2 DEF NextStore
    <2> QED
      BY <1>13, <2>1, <2>2

\* So does the return of an operation.
LEMMA ReturnInv ==
  ASSUME IInv, Return
  PROVE  IInv'
  <1> USE NodeAssumption
  <1>1. TypeOK /\ ItemInv
    BY DEF IInv
  <1> PICK p \in Cell, q \in Cell : WorkInv(p, q)
    BY DEF IInv, WriterInv, RestInv, Return
  <1>2. /\ UNCHANGED <<kind, next, prev, early, late, status, item, waits, in,
                       at, ahead, must, seen>>
        /\ On' = On /\ Gone' = Gone /\ Linked' = Linked
        /\ coming' = NoNode /\ going' = NoNode /\ early = {} /\ late = {}
    BY DEF Return, On, Gone, Linked, reader
  <1>a. call' \in Calls
    BY DEF Return, Calls
  <1>3. TypeOK' /\ ItemInv'
    BY <1>1, <1>2, <1>a DEF TypeOK, ItemInv
  <1>4. PlaceInv'
    <2> PICK rank \in [Node -> Nat], R \in [Node -> SUBSET Reader] :
             Places(rank, R)
      BY DEF IInv, PlaceInv
    <2>1. Places(rank, R)'
      BY <1>1, <1>2, Frame
    <2> QED
      BY <2>1 DEF PlaceInv
  <1>5. \A n \in Node : status[n] # "new"
    BY <1>1, <1>2 DEF WorkInv, TypeOK
  <1>6. ASSUME NEW c \in Linked, HasBack(c) PROVE Backed(c)
    <2>1. next[p] = Forth(q) /\ (coming # NoNode => /\ next[coming] = q
                                                    /\ prev[coming] = p
                                                    /\ coming \in Linked)
      BY <1>1, <1>2 DEF WorkInv, TypeOK, Linked, On
    <2>2. going \notin Linked
      BY <1>1, <1>2 DEF WorkInv, TypeOK, Linked, On
    <2>3. CASE c = q
      BY <1>2, <1>6, <2>1, <2>3 DEF WorkInv, Backed, Forth, Back
    <2>4. CASE c = coming
      BY <2>1, <2>4 DEF WorkInv, Backed, Forth, Linked, On
    <2> QED
      BY <1>6, <2>2, <2>3, <2>4 DEF WorkInv
  <1>7. RestInv'
    BY <1>2, <1>5, <1>6 DEF RestInv, HasBack, Backed
  <1> QED
    BY <1>2, <1>3, <1>4, <1>7 DEF IInv, WriterInv

\* The steps that leave the pointers, the operation and the list alone leave
\* the writer's half of the invariant alone.
LEMMA WriterFrame ==
  ASSUME IInv, On' = On, \A n \in Node : status'[n] = "new" <=> status[n] = "new",
         coming # NoNode => status'[coming] = status[coming],
         going # NoNode => status'[going] = status[going],
         \A n \in On \cup ({coming, going} \ {NoNode}) : item'[n] = item[n],
         \A c \in Linked \cup ({coming, going} \ {NoNode}) :
           next'[c] = next[c] /\ prev'[c] = prev[c],
         UNCHANGED <<kind, early, late, coming, going>>
  PROVE  WriterInv'
  <1>1. Linked' = Linked /\ \A c : HasBack(c)' = HasBack(c)
    BY DEF Linked, HasBack
  <1>2. \A c \in Linked : Backed(c)' = Backed(c)
    BY <1>1 DEF Backed
  <1>3. CASE coming = NoNode /\ going = NoNode /\ RestInv
    BY <1>1, <1>2, <1>3 DEF RestInv, WriterInv
  <1>4. ASSUME NEW p \in Cell, NEW q \in Cell, WorkInv(p, q) PROVE WriterInv'
    <2>1. p \in Linked /\ q \in Linked
      BY <1>4 DEF WorkInv
    <2>2. /\ Forth(q)' = Forth(q) /\ Back(p)' = Back(p)
          /\ NextStore(p, Forth(q))' = NextStore(p, Forth(q))
          /\ PrevStore(q, Back(p))' = PrevStore(q, Back(p))
          /\ NextStore(coming, q)' = NextStore(coming, q)
          /\ PrevStore(coming, p)' = PrevStore(coming, p)
          /\ PrevStore(going, Poison)' = PrevStore(going, Poison)
      BY DEF Forth, Back, NextStore, PrevStore
    <2>3. {item'[m] : m \in On'} = {item[m] : m \in On}
      OBVIOUS
    <2>4. (\A c \in Linked \ {q, going, coming} : HasBack(c) => Backed(c))'
      BY <1>1, <1>2, <1>4 DEF WorkInv
    <2>5. (\A n \in Node : status[n] = "new" => n = coming)'
      BY <1>4 DEF WorkInv
    <2>6. WorkInv(p, q)'
      BY <1>1, <1>4, <2>1, <2>2, <2>3, <2>4, <2>5 DEF WorkInv
    <2> QED
      BY <2>6 DEF WriterInv
  <1> QED
    BY <1>3, <1>4 DEF IInv, WriterInv

\* call_rcu keeps the invariant: the callback waits for all who may be there.
LEMMA CallInv ==
  ASSUME IInv, NEW n \in Node, call_rcu(n)
  PROVE  IInv'
  <1> USE NodeAssumption
  <1>1. TypeOK /\ ItemInv
    BY DEF IInv
  <1>2. /\ On' = On /\ Gone' = Gone /\ Linked' = Linked /\ n \in Gone /\ n \notin On
        /\ \A m \in Node \ {n} : status'[m] = status[m] /\ waits'[m] = waits[m]
        /\ status'[n] = "dying" /\ waits'[n] = in /\ status[n] = "off"
        /\ UNCHANGED <<kind, next, prev, early, late, coming, going, item, call, in,
                       at, ahead, must, seen>>
    BY <1>1 DEF call_rcu, On, Gone, Linked, TypeOK, reader
  <1>3. TypeOK'
    <2>1. status' \in [Node -> {"spare", "new", "on", "off", "dying"}]
          /\ waits' \in [Node -> SUBSET Reader]
      BY <1>1 DEF call_rcu, TypeOK
    <2> QED
      BY <1>1, <1>2, <2>1 DEF TypeOK
  <1>4. ItemInv'
    BY <1>1, <1>2 DEF ItemInv
  <1>5. WriterInv'
    <2>1. n # coming /\ n # going
      <3>1. CASE \E p, q \in Cell : WorkInv(p, q)
        BY <1>2, <3>1 DEF WorkInv, call_rcu
      <3>2. CASE coming = NoNode /\ going = NoNode
        BY <3>2
      <3> QED
        BY <3>1, <3>2 DEF IInv, WriterInv
    <2>2. /\ coming # NoNode => coming \in Node
          /\ going # NoNode => going \in Node
      BY <1>1 DEF TypeOK
    <2> QED
      BY <1>2, <2>1, <2>2, WriterFrame
  <1>6. PlaceInv'
    <2> PICK rank \in [Node -> Nat], R \in [Node -> SUBSET Reader] :
             Places(rank, R)
      BY DEF IInv, PlaceInv
    <2>1. \A r : Due(r)' = Due(r) /\ \A c : Reachable(R, r, c)' = Reachable(R, r, c)
      BY <1>2 DEF Due, Reachable
    <2>2. RankInv(rank)' /\ ChainInv(rank)'
      BY <1>2 DEF Places, RankInv, ChainInv, After, Between, From
    <2>3. GoneInv(rank, R)'
      <3> SUFFICES ASSUME NEW m \in Gone, NEW r \in R[m]
                   PROVE  /\ r \in in
                          /\ status'[m] = "dying" => r \in waits'[m]
                          /\ Reachable(R, r, next[m])
                          /\ After(rank, rank[m], next[m])
                          /\ \A d \in Due(r) : ~Between(rank, rank[m], d, next[m])
                          /\ item[m] \in must[r] => \E d \in On :
                               rank[d] = rank[m] /\ item[d] = item[m]
        BY <1>2, <2>1 DEF GoneInv, After, Between
      <3>1. /\ r \in in /\ status[m] = "dying" => r \in waits[m]
        BY DEF Places, GoneInv
      <3>2. m \in Node
        BY DEF Gone
      <3> QED
        BY <1>2, <3>1, <3>2 DEF Places, GoneInv
    <2>4. CursorInv(rank, R)'
      BY <1>2, <2>1 DEF Places, CursorInv, After, Between, From
    <2> QED
      BY <2>2, <2>3, <2>4 DEF PlaceInv, Places
  <1> QED
    BY <1>3, <1>4, <1>5, <1>6 DEF IInv

\* The callback keeps the invariant: no reader is at the entry, or can get there.
LEMMA CallbackInv ==
  ASSUME IInv, NEW n \in Node, Callback(n)
  PROVE  IInv'
  <1> USE NodeAssumption
  <1>1. TypeOK /\ ItemInv
    BY DEF IInv
  <1>2. /\ On' = On /\ Gone' = Gone \ {n} /\ Linked' = Linked
        /\ n \in Gone /\ n \notin On /\ n \notin Linked
        /\ \A m \in Node \ {n} : status'[m] = status[m] /\ item'[m] = item[m]
        /\ \A c \in Cell \ {n} : next'[c] = next[c] /\ prev'[c] = prev[c]
        /\ status'[n] = "spare" /\ status[n] = "dying" /\ waits[n] = {}
        /\ UNCHANGED <<kind, early, late, coming, going, call, waits, in, at, ahead,
                       must, seen>>
    BY <1>1 DEF Callback, On, Gone, Linked, TypeOK, reader, Cell
  <1>3. TypeOK'
    <2>1. /\ status' \in [Node -> {"spare", "new", "on", "off", "dying"}]
          /\ item' \in [Node -> Item \cup {NoItem}]
          /\ next' \in [Cell -> Cell \cup {Poison}]
          /\ prev' \in [Cell -> Cell \cup {Poison}]
      BY <1>1 DEF Callback, TypeOK
    <2> QED
      BY <1>1, <1>2, <2>1 DEF TypeOK
  <1>4. On \subseteq Node \ {n} /\ Linked \subseteq Cell \ {n}
    BY <1>2 DEF On, Linked, Cell
  <1>5. ItemInv'
    <2>1. \A m \in (On \cup Gone)' : m \in On \cup Gone /\ m \in Node \ {n}
      BY <1>2, <1>4 DEF Gone
    <2>2. \A m \in (On \cup Gone)' : item'[m] = item[m]
      BY <1>2, <2>1
    <2> QED
      BY <1>1, <1>2, <1>4, <2>1, <2>2 DEF ItemInv
  <1>6. WriterInv'
    <2>1. n # coming /\ n # going
      <3>1. CASE \E p, q \in Cell : WorkInv(p, q)
        BY <1>2, <3>1 DEF WorkInv
      <3>2. CASE coming = NoNode /\ going = NoNode
        BY <3>2
      <3> QED
        BY <3>1, <3>2 DEF IInv, WriterInv
    <2>2. /\ coming # NoNode => coming \in Node /\ coming \in Cell
          /\ going # NoNode => going \in Node /\ going \in Cell
      BY <1>1 DEF TypeOK, Cell
    <2> QED
      BY <1>2, <1>4, <2>1, <2>2, WriterFrame
  <1>7. PlaceInv'
    <2> PICK rank \in [Node -> Nat], R \in [Node -> SUBSET Reader] :
             Places(rank, R)
      BY DEF IInv, PlaceInv
    <2>1. R[n] = {}
      BY <1>2 DEF Places, GoneInv
    <2>2. \A r : Due(r)' = Due(r) /\ \A c : Reachable(R, r, c) => Reachable(R, r, c)'
      BY <1>2, <1>4, <2>1 DEF Due, Reachable
    <2>3. RankInv(rank)' /\ ChainInv(rank)'
      BY <1>2, <1>4 DEF Places, RankInv, ChainInv, After, Between, From, Gone
    <2>4. GoneInv(rank, R)'
      <3> SUFFICES ASSUME NEW m \in Gone \ {n}, NEW r \in R[m]
                   PROVE  (/\ r \in in
                           /\ status[m] = "dying" => r \in waits[m]
                           /\ Reachable(R, r, next[m])
                           /\ After(rank, rank[m], next[m])
                           /\ \A d \in Due(r) : ~Between(rank, rank[m], d, next[m])
                           /\ item[m] \in must[r] => \E d \in On :
                                rank[d] = rank[m] /\ item[d] = item[m])'
        BY <1>2 DEF GoneInv
      <3>1. /\ m \in Node \ {n} /\ m \in Cell \ {n}
            /\ next'[m] = next[m] /\ item'[m] = item[m] /\ status'[m] = status[m]
        BY <1>2 DEF Gone, Cell
      <3>2. Reachable(R, r, next[m])'
        BY <2>2, <3>1 DEF Places, GoneInv, Reachable
      <3>3. /\ After(rank, rank[m], next[m])'
            /\ \A d \in Due(r)' : ~Between(rank, rank[m], d, next[m])'
        BY <2>2, <3>1 DEF Places, GoneInv, After, Between
      <3> QED
        BY <1>2, <1>4, <3>1, <3>2, <3>3 DEF Places, GoneInv
    <2>5. CursorInv(rank, R)'
      <3>1. \A m \in On : item'[m] = item[m]
        BY <1>2, <1>4
      <3>2. \A r \in in : Reachable(R, r, at[r])' /\
                          (ahead[r] # NoNode => Reachable(R, r, ahead[r])')
        BY <1>2, <2>1 DEF Places, CursorInv, Reachable
      <3> QED
        BY <1>2, <2>2, <3>1, <3>2 DEF Places, CursorInv, After, Between, From, Due
    <2> QED
      BY <2>3, <2>4, <2>5 DEF PlaceInv, Places
  <1> QED
    BY <1>3, <1>5, <1>6, <1>7 DEF IInv

\* A step of a reader leaves the writers' half alone.
LEMMA ReaderFrame ==
  ASSUME IInv, UNCHANGED writer
  PROVE  /\ WriterInv' /\ On' = On /\ Gone' = Gone /\ Linked' = Linked
         /\ \A R, r, c : Reachable(R, r, c)' = Reachable(R, r, c)
  <1>1. UNCHANGED <<kind, next, prev, early, late, coming, going, status, item, call>>
    BY DEF writer
  <1>2. /\ On' = On /\ Gone' = Gone /\ Linked' = Linked
        /\ \A R, r, c : Reachable(R, r, c)' = Reachable(R, r, c)
    BY <1>1 DEF On, Gone, Linked, Reachable
  <1> QED
    BY <1>1, <1>2, WriterFrame

\* The start of a traversal keeps the invariant.
LEMMA ReadLockInv ==
  ASSUME IInv, NEW r \in Reader, ReadLock(r)
  PROVE  IInv'
  <1> USE NodeAssumption
  <1>1. TypeOK /\ ItemInv
    BY DEF IInv
  <1>2. /\ r \notin in /\ in' = in \cup {r}
        /\ UNCHANGED <<writer, next, item, status, kind, waits, at, ahead, seen>>
        /\ must' = [must EXCEPT ![r] = {item[n] : n \in On}]
        /\ at[r] = ListHead /\ ahead[r] = NoNode /\ seen[r] = {}
    BY <1>1 DEF ReadLock, writer, ItemInv
  <1>3. TypeOK'
    BY <1>1, <1>2 DEF TypeOK, writer, ItemInv
  <1>4. WriterInv' /\ On' = On /\ Gone' = Gone /\ Linked' = Linked
        /\ \A R, u, c : Reachable(R, u, c)' = Reachable(R, u, c)
    BY <1>2, ReaderFrame
  <1>5. must'[r] = {item[n] : n \in On} /\ \A u \in Reader \ {r} : must'[u] = must[u]
    BY <1>1, <1>2 DEF TypeOK
  <1>6. ItemInv'
    BY <1>1, <1>2, <1>4, <1>5 DEF ItemInv, TypeOK
  <1>7. PlaceInv'
    <2> PICK rank \in [Node -> Nat], R \in [Node -> SUBSET Reader] :
             Places(rank, R)
      BY DEF IInv, PlaceInv
    <2>1. \A u \in in : Due(u)' = Due(u) /\ must'[u] = must[u]
      BY <1>1, <1>2, <1>4, <1>5 DEF Due, TypeOK
    <2>2. RankInv(rank)' /\ ChainInv(rank)'
      BY <1>2, <1>4 DEF Places, RankInv, ChainInv, After, Between, From
    <2>3. GoneInv(rank, R)'
      <3> SUFFICES ASSUME NEW m \in Gone, NEW u \in R[m]
                   PROVE  (/\ u \in in
                           /\ status[m] = "dying" => u \in waits[m]
                           /\ Reachable(R, u, next[m])
                           /\ After(rank, rank[m], next[m])
                           /\ \A d \in Due(u) : ~Between(rank, rank[m], d, next[m])
                           /\ item[m] \in must[u] => \E d \in On :
                                rank[d] = rank[m] /\ item[d] = item[m])'
        BY <1>4 DEF GoneInv
      <3>1. u \in in
        BY DEF Places, GoneInv
      <3>2. \A d : Between(rank, rank[m], d, next[m])' = Between(rank, rank[m], d, next[m])
        BY <1>2 DEF Between
      <3>3. After(rank, rank[m], next[m])' = After(rank, rank[m], next[m])
        BY <1>2 DEF After
      <3> QED
        BY <1>2, <1>4, <2>1, <3>1, <3>2, <3>3 DEF Places, GoneInv
    <2>4. CursorInv(rank, R)'
      <3>1. ASSUME NEW m \in Due(r)' PROVE ~(rank[m] <= 0) /\ item[m] \notin seen[r]
        BY <1>2, <1>4 DEF Due, Places, RankInv, On
      <3>2. Reachable(R, r, at[r])' /\ From(rank, at[r])' = 0
        BY <1>2 DEF Reachable, Linked, From
      <3>3. ASSUME NEW u \in in
            PROVE  (/\ Reachable(R, u, at[u])
                    /\ \A m \in Due(u) :
                         item[m] \in seen[u] <=> rank[m] <= From(rank, at[u])
                    /\ ahead[u] # NoNode =>
                         /\ Reachable(R, u, ahead[u])
                         /\ After(rank, From(rank, at[u]), ahead[u])
                         /\ \A m \in Due(u) :
                              ~Between(rank, From(rank, at[u]), m, ahead[u]))'
        BY <1>2, <1>4, <2>1 DEF Places, CursorInv, After, Between, From
      <3> QED
        BY <1>2, <3>1, <3>2, <3>3 DEF CursorInv
    <2> QED
      BY <2>2, <2>3, <2>4 DEF PlaceInv, Places
  <1> QED
    BY <1>3, <1>4, <1>6, <1>7 DEF IInv

\* Fetching a next pointer keeps the invariant.
LEMMA FetchInv ==
  ASSUME IInv, NEW r \in Reader, Fetch(r)
  PROVE  IInv'
  <1> USE NodeAssumption
  <1>1. TypeOK /\ ItemInv
    BY DEF IInv
  <1>2. /\ r \in in /\ ahead[r] = NoNode
        /\ ahead' = [ahead EXCEPT ![r] = next[at[r]]]
        /\ UNCHANGED <<writer, next, item, status, kind, waits, in, at, must, seen>>
    BY DEF Fetch, writer
  <1>3. /\ WriterInv' /\ On' = On /\ Gone' = Gone /\ Linked' = Linked
        /\ \A R, u, c : Reachable(R, u, c)' = Reachable(R, u, c)
        /\ \A u : Due(u)' = Due(u)
    BY <1>2, ReaderFrame DEF Due
  <1>4. ahead'[r] = next[at[r]] /\ \A u \in in \ {r} : ahead'[u] = ahead[u]
    BY <1>1, <1>2 DEF TypeOK
  <1> PICK rank \in [Node -> Nat], R \in [Node -> SUBSET Reader] :
           Places(rank, R)
    BY DEF IInv, PlaceInv
  <1>5. /\ Reachable(R, r, next[at[r]]) /\ next[at[r]] \in Cell
        /\ After(rank, From(rank, at[r]), next[at[r]])
        /\ \A m \in Due(r) : ~Between(rank, From(rank, at[r]), m, next[at[r]])
    <2>1. CASE at[r] \in Linked
      BY <2>1 DEF Places, ChainInv, Reachable, Due, Linked, On, Cell
    <2>2. CASE at[r] \in Gone /\ r \in R[at[r]]
      <3>1. From(rank, at[r]) = rank[at[r]]
        BY <2>2 DEF From, Gone
      <3> QED
        BY <2>2, <3>1 DEF Places, GoneInv, Reachable, Linked, On, Gone, Cell
    <2> QED
      BY <1>2, <2>1, <2>2 DEF Places, CursorInv, Reachable
  <1>6. TypeOK'
    BY <1>1, <1>2, <1>5 DEF TypeOK, writer
  <1>7. ItemInv'
    BY <1>1, <1>2, <1>3 DEF ItemInv, TypeOK
  <1>8. Places(rank, R)'
    <2>1. RankInv(rank)' /\ ChainInv(rank)'
      BY <1>2, <1>3 DEF Places, RankInv, ChainInv, After, Between, From
    <2>2. GoneInv(rank, R)'
      BY <1>2, <1>3 DEF Places, GoneInv, After, Between
    <2>3. CursorInv(rank, R)'
      BY <1>2, <1>3, <1>4, <1>5 DEF Places, CursorInv, After, Between, From
    <2> QED
      BY <2>1, <2>2, <2>3 DEF Places
  <1> QED
    BY <1>3, <1>6, <1>7, <1>8 DEF IInv, PlaceInv

\* Going to the entry that was fetched keeps the invariant.
LEMMA AdvanceInv ==
  ASSUME IInv, NEW r \in Reader, Advance(r)
  PROVE  /\ IInv'
         /\ item[at'[r]] \in must[r] => item[at'[r]] \notin seen[r]
  <1> USE NodeAssumption
  <1>1. TypeOK /\ ItemInv
    BY DEF IInv
  <1> DEFINE x == ahead[r]
  <1>2. /\ x \notin {NoNode, ListHead} /\ r \in in
        /\ at' = [at EXCEPT ![r] = x] /\ ahead' = [ahead EXCEPT ![r] = NoNode]
        /\ seen' = [seen EXCEPT ![r] = @ \cup {item[x]}]
        /\ UNCHANGED <<writer, next, item, status, kind, waits, in, must>>
    BY <1>1 DEF Advance, writer, ItemInv
  <1>3. /\ WriterInv' /\ On' = On /\ Gone' = Gone /\ Linked' = Linked
        /\ \A R, u, c : Reachable(R, u, c)' = Reachable(R, u, c)
        /\ \A u : Due(u)' = Due(u)
    BY <1>2, ReaderFrame DEF Due
  <1>4. /\ at'[r] = x /\ ahead'[r] = NoNode /\ seen'[r] = seen[r] \cup {item[x]}
        /\ \A u \in Reader \ {r} :
             at'[u] = at[u] /\ ahead'[u] = ahead[u] /\ seen'[u] = seen[u]
    BY <1>1, <1>2 DEF TypeOK
  <1> PICK rank \in [Node -> Nat], R \in [Node -> SUBSET Reader] :
           Places(rank, R)
    BY DEF IInv, PlaceInv
  <1>5. /\ Reachable(R, r, x) /\ x \in Node /\ From(rank, x) = rank[x]
        /\ From(rank, at[r]) < rank[x]
        /\ \A m \in Due(r) : ~Between(rank, From(rank, at[r]), m, x)
        /\ \A m \in Due(r) : item[m] \in seen[r] <=> rank[m] <= From(rank, at[r])
        /\ From(rank, at[r]) \in Nat
    BY <1>1, <1>2 DEF Places, CursorInv, From, After, TypeOK, Cell
  <1>6. \A m \in Due(r) : m \in On /\ rank[m] \in Nat /\ item[m] \in must[r]
    BY DEF Due, On
  <1>7. \A m \in Due(r) : rank[m] = rank[x] <=> item[m] = item[x]
    <2>1. CASE x \in On
      BY <1>1, <1>6, <2>1 DEF Places, RankInv, ItemInv
    <2>2. CASE x \in Gone /\ r \in R[x]
      <3>1. item[x] \in must[r] => \E m \in On : rank[m] = rank[x] /\ item[m] = item[x]
        BY <2>2 DEF Places, GoneInv
      <3> QED
        BY <1>1, <1>6, <2>2, <3>1 DEF Places, RankInv, ItemInv
    <2> QED
      BY <1>2, <1>5, <2>1, <2>2 DEF Reachable, Linked
  <1>8. item[x] \in must[r] => \E m \in Due(r) : item[m] = item[x]
    BY <1>1, <1>2 DEF ItemInv, Due
  <1>9. item[x] \in must[r] => item[x] \notin seen[r]
    BY <1>5, <1>6, <1>7, <1>8
  <1>10. TypeOK'
    <2>1. x \in On \cup Gone
      BY <1>2, <1>5 DEF Reachable, Linked
    <2>2. item[x] \in Item
      BY <1>1, <2>1 DEF ItemInv
    <2>3. seen' \in [Reader -> SUBSET Item] /\ at' \in [Reader -> Cell]
          /\ ahead' \in [Reader -> Cell \cup {NoNode}]
      BY <1>1, <1>2, <1>5, <2>2 DEF TypeOK, Cell
    <2> QED
      BY <1>1, <1>2, <2>3 DEF TypeOK, writer
  <1>11. ItemInv'
    BY <1>1, <1>2, <1>3, <1>4 DEF ItemInv, TypeOK
  <1>12. Places(rank, R)'
    <2>1. RankInv(rank)' /\ ChainInv(rank)'
      BY <1>2, <1>3 DEF Places, RankInv, ChainInv, After, Between, From
    <2>2. GoneInv(rank, R)'
      BY <1>2, <1>3 DEF Places, GoneInv, After, Between
    <2>3. \A m \in Due(r) : item[m] \in seen'[r] <=> rank[m] <= rank[x]
      BY <1>4, <1>5, <1>6, <1>7 DEF Between
    <2>4. CursorInv(rank, R)'
      <3>1. \A u \in in \ {r} : From(rank, at[u])' = From(rank, at[u])
        BY <1>1, <1>4 DEF From, TypeOK
      <3>2. From(rank, at[r])' = rank[x]
        BY <1>4, <1>5 DEF From
      <3> QED
        BY <1>1, <1>2, <1>3, <1>4, <1>5, <2>3, <3>1, <3>2
        DEF Places, CursorInv, After, Between, TypeOK
    <2> QED
      BY <2>1, <2>2, <2>4 DEF Places
  <1> QED
    BY <1>3, <1>4, <1>9, <1>10, <1>11, <1>12 DEF IInv, PlaceInv

\* The end of a traversal keeps the invariant.
LEMMA ReadUnlockInv ==
  ASSUME IInv, NEW r \in Reader, ReadUnlock(r)
  PROVE  IInv'
  <1> USE NodeAssumption
  <1>1. TypeOK /\ ItemInv
    BY DEF IInv
  <1>2. /\ in' = in \ {r}
        /\ UNCHANGED <<writer, next, item, status, kind>>
        /\ at' = [at EXCEPT ![r] = ListHead]
        /\ ahead' = [ahead EXCEPT ![r] = NoNode]
        /\ waits' = [n \in Node |-> waits[n] \ {r}]
        /\ must' = [must EXCEPT ![r] = {}]
        /\ seen' = [seen EXCEPT ![r] = {}]
    BY DEF ReadUnlock, writer
  <1>3. /\ WriterInv' /\ On' = On /\ Gone' = Gone /\ Linked' = Linked
    BY <1>2, ReaderFrame
  <1>4. /\ at'[r] = ListHead /\ ahead'[r] = NoNode /\ seen'[r] = {}
        /\ \A u \in Reader \ {r} : /\ at'[u] = at[u] /\ ahead'[u] = ahead[u]
                                   /\ seen'[u] = seen[u] /\ must'[u] = must[u]
    BY <1>1, <1>2 DEF TypeOK
  <1>5. TypeOK'
    <2>1. at' \in [Reader -> Cell] /\ ahead' \in [Reader -> Cell \cup {NoNode}]
      BY <1>1, <1>2 DEF TypeOK, Cell
    <2>2. /\ must' \in [Reader -> SUBSET Item] /\ seen' \in [Reader -> SUBSET Item]
          /\ in' \in SUBSET Reader
      BY <1>1, <1>2 DEF TypeOK
    <2>3. waits' \in [Node -> SUBSET Reader]
      BY <1>1, <1>2 DEF TypeOK
    <2> QED
      BY <1>1, <1>2, <2>1, <2>2, <2>3 DEF TypeOK, writer
  <1>6. ItemInv'
    BY <1>1, <1>2, <1>3, <1>4 DEF ItemInv, TypeOK
  <1>7. PlaceInv'
    <2> PICK rank \in [Node -> Nat], R \in [Node -> SUBSET Reader] :
             Places(rank, R)
      BY DEF IInv, PlaceInv
    <2> PICK S \in [Node -> SUBSET Reader] : \A n \in Node : S[n] = R[n] \ {r}
      <3> DEFINE W == [n \in Node |-> R[n] \ {r}]
      <3>1. W \in [Node -> SUBSET Reader] /\ \A n \in Node : W[n] = R[n] \ {r}
        OBVIOUS
      <3> QED
        BY <3>1
    <2>1. \A u \in Reader \ {r} : /\ Due(u)' = Due(u)
                                  /\ \A c : Reachable(R, u, c) => Reachable(S, u, c)'
      BY <1>2, <1>3, <1>4 DEF Due, Reachable, Gone
    <2>2. RankInv(rank)' /\ ChainInv(rank)'
      BY <1>2, <1>3 DEF Places, RankInv, ChainInv, After, Between, From
    <2>3. GoneInv(rank, S)'
      <3> SUFFICES ASSUME NEW m \in Gone, NEW u \in S[m]
                   PROVE  (/\ u \in in
                           /\ status[m] = "dying" => u \in waits[m]
                           /\ Reachable(S, u, next[m])
                           /\ After(rank, rank[m], next[m])
                           /\ \A d \in Due(u) : ~Between(rank, rank[m], d, next[m])
                           /\ item[m] \in must[u] => \E d \in On :
                                rank[d] = rank[m] /\ item[d] = item[m])'
        BY <1>3 DEF GoneInv
      <3>1. m \in Node /\ u \in R[m] /\ u # r /\ u \in in /\ u \in Reader
        BY <1>1 DEF Gone, Places, GoneInv, TypeOK
      <3>2. /\ u \in in' /\ (status'[m] = "dying" => u \in waits'[m])
            /\ Reachable(S, u, next[m])'
        BY <1>2, <2>1, <3>1 DEF Places, GoneInv
      <3>3. /\ After(rank, rank[m], next[m])'
            /\ \A d \in Due(u)' : ~Between(rank, rank[m], d, next[m])'
        BY <1>2, <2>1, <3>1 DEF Places, GoneInv, After, Between
      <3>4. item'[m] \in must'[u] => \E d \in On' :
               rank[d] = rank[m] /\ item'[d] = item'[m]
        BY <1>2, <1>3, <1>4, <3>1 DEF Places, GoneInv
      <3> QED
        BY <3>2, <3>3, <3>4
    <2>4. CursorInv(rank, S)'
      <3> SUFFICES ASSUME NEW u \in in \ {r}
                   PROVE  (/\ Reachable(S, u, at[u])
                           /\ \A m \in Due(u) :
                                item[m] \in seen[u] <=> rank[m] <= From(rank, at[u])
                           /\ ahead[u] # NoNode =>
                                /\ Reachable(S, u, ahead[u])
                                /\ After(rank, From(rank, at[u]), ahead[u])
                                /\ \A m \in Due(u) :
                                     ~Between(rank, From(rank, at[u]), m, ahead[u]))'
        BY <1>2 DEF CursorInv
      <3>1. u \in Reader /\ at'[u] = at[u] /\ ahead'[u] = ahead[u] /\ seen'[u] = seen[u]
        BY <1>1, <1>4 DEF TypeOK
      <3>2. From(rank, at[u])' = From(rank, at[u])
        BY <3>1 DEF From
      <3> QED
        BY <1>2, <2>1, <3>1, <3>2 DEF Places, CursorInv, After, Between
    <2> QED
      BY <2>2, <2>3, <2>4 DEF PlaceInv, Places
  <1> QED
    BY <1>3, <1>5, <1>6, <1>7 DEF IInv

\* A step that changes nothing, or history alone.
LEMMA StutterInv == IInv /\ UNCHANGED vars => IInv'
  <1> SUFFICES ASSUME IInv, UNCHANGED vars PROVE IInv'
    OBVIOUS
  <1>1. UNCHANGED <<kind, next, prev, early, late, coming, going, status, item,
                    call, waits, in, at, ahead, must, seen>>
    BY DEF vars, writer, reader
  <1>2. TypeOK' /\ ItemInv' /\ Linked' = Linked /\ On' = On /\ Gone' = Gone
    BY <1>1 DEF IInv, TypeOK, ItemInv, Linked, On, Gone
  <1>3. WriterInv'
    BY <1>1, ReaderFrame DEF writer
  <1>4. PlaceInv'
    <2> PICK rank \in [Node -> Nat], R \in [Node -> SUBSET Reader] :
             Places(rank, R)
      BY DEF IInv, PlaceInv
    <2>1. Places(rank, R)'
      BY <1>1, <1>2, Frame DEF IInv
    <2> QED
      BY <2>1 DEF PlaceInv
  <1> QED
    BY <1>2, <1>3, <1>4 DEF IInv

\* Every operation keeps the invariant.
LEMMA NextInv == IInv /\ [Next]_vars => IInv'
  <1> SUFFICES ASSUME IInv, [Next]_vars PROVE IInv'
    OBVIOUS
  <1>1. ASSUME NEW n \in Node, NEW i \in Item, NEW m \in Node,
               \/ list_add_rcu(n, i) \/ list_add_tail_rcu(n, i)
               \/ hlist_add_head_rcu(n, i)
               \/ hlist_add_before_rcu(n, i, m) \/ hlist_add_after_rcu(m, n, i)
        PROVE  IInv'
    BY <1>1, AddInv
  <1>2. ASSUME NEW n \in Node, list_del_rcu(n) PROVE IInv'
    BY <1>2, DelInv
  <1>3. ASSUME NEW n \in Node, NEW m \in Node, list_replace_rcu(n, m) PROVE IInv'
    BY <1>3, ReplaceInv
  <1>4. ASSUME NEW s \in early \cup late, StoreAside(s) PROVE IInv'
    BY <1>4, StoreAsideInv
  <1>5. ASSUME NEW s \in early \cup late, StorePublish(s) PROVE IInv'
    BY <1>5, StorePublishInv
  <1>6. CASE Return
    BY <1>6, ReturnInv
  <1>7. ASSUME NEW n \in Node, call_rcu(n) PROVE IInv'
    BY <1>7, CallInv
  <1>8. ASSUME NEW n \in Node, Callback(n) PROVE IInv'
    BY <1>8, CallbackInv
  <1>9. CASE Write
    BY <1>1, <1>2, <1>3, <1>4, <1>5, <1>6, <1>7, <1>8, <1>9 DEF Write
  <1>10. CASE Read
    BY <1>10, ReadLockInv, FetchInv, AdvanceInv, ReadUnlockInv DEF Read
  <1>11. CASE UNCHANGED vars
    BY <1>11, StutterInv
  <1> QED
    BY <1>9, <1>10, <1>11 DEF Next

\* In every state of every behaviour the invariant holds.
THEOREM Invariance == Spec => []IInv
  <1>1. Init => IInv
    BY InitInv
  <1>2. IInv /\ [Next]_vars => IInv'
    BY NextInv
  <1> QED
    BY <1>1, <1>2, PTL DEF Spec

-----------------------------------------------------------------------------

\* The pointers and the histories have their types.
THEOREM TypeCorrect == Spec => []TypeOK
  <1>1. IInv => TypeOK
    BY DEF IInv
  <1> QED
    BY <1>1, Invariance, PTL

\* No reader is at, or about to go to, an entry that is freed or half linked,
\* for any number of entries and readers.
THEOREM ReadersAreSafe == Spec => []ReadersSafe
  <1>1. IInv => ReadersSafe
    <2> SUFFICES ASSUME IInv, NEW r \in in,
                        NEW c \in {at[r], ahead[r]} \ {ListHead, NoNode}
                 PROVE  c \in Node /\ status[c] \in {"on", "off", "dying"}
      BY DEF ReadersSafe
    <2> PICK rank \in [Node -> Nat], R \in [Node -> SUBSET Reader] :
             Places(rank, R)
      BY DEF IInv, PlaceInv
    <2>1. Reachable(R, r, c)
      BY DEF Places, CursorInv
    <2> QED
      BY <2>1 DEF Reachable, Linked, On, Gone
  <1> QED
    BY <1>1, Invariance, PTL

\* A traversal that comes to the end has come to every item that stayed.
THEOREM TraversalComplete == Spec => []SeesAll
  <1>1. IInv => SeesAll
    <2> SUFFICES ASSUME IInv, NEW r \in in, ahead[r] = ListHead, NEW i \in must[r]
                 PROVE  i \in seen[r]
      BY DEF SeesAll
    <2> PICK rank \in [Node -> Nat], R \in [Node -> SUBSET Reader] :
             Places(rank, R)
      BY DEF IInv, PlaceInv
    <2>1. PICK m \in On : item[m] = i
      BY DEF IInv, ItemInv
    <2>2. m \in Due(r)
      BY <2>1 DEF Due
    <2>3. ~Between(rank, From(rank, at[r]), m, ListHead)
          /\ (item[m] \in seen[r] <=> rank[m] <= From(rank, at[r]))
      BY <2>2, NodeAssumption DEF Places, CursorInv
    <2>4. rank[m] \in Nat /\ From(rank, at[r]) \in Nat
      <3>1. at[r] \in Cell
        BY DEF IInv, TypeOK
      <3> QED
        BY <3>1 DEF From, Cell, On
    <2> QED
      BY <2>1, <2>3, <2>4 DEF Between
  <1> QED
    BY <1>1, Invariance, PTL

\* It comes to each of them once.
THEOREM TraversalOnce == Spec => SeesOnce
  <1> DEFINE Once == \A r \in Reader :
               at'[r] \notin {at[r], ListHead} /\ item[at'[r]] \in must[r] =>
                 item[at'[r]] \notin seen[r]
  <1>1. IInv /\ [Next]_vars => [Once]_vars
    <2> SUFFICES ASSUME IInv, Next, NEW r \in Reader,
                        at'[r] \notin {at[r], ListHead}, item[at'[r]] \in must[r]
                 PROVE  item[at'[r]] \notin seen[r]
      OBVIOUS
    <2>1. at \in [Reader -> Cell]
      BY DEF IInv, TypeOK
    <2>2. Advance(r)
      <3>1. CASE Write
        BY <3>1 DEF Write, list_add_rcu, list_add_tail_rcu, hlist_add_head_rcu,
             hlist_add_before_rcu, hlist_add_after_rcu, Link, list_del_rcu,
             list_replace_rcu, StoreAside, StorePublish, Return, call_rcu,
             Callback, reader
      <3>2. ASSUME NEW u \in Reader, ReadLock(u) \/ Fetch(u) PROVE FALSE
        BY <3>2 DEF ReadLock, Fetch
      <3>3. ASSUME NEW u \in Reader, Advance(u) PROVE u = r
        BY <2>1, <3>3 DEF Advance
      <3>4. ASSUME NEW u \in Reader, ReadUnlock(u) PROVE FALSE
        BY <2>1, <3>4 DEF ReadUnlock
      <3> QED
        BY <3>1, <3>2, <3>3, <3>4 DEF Next, Read
    <2> QED
      BY <2>2, AdvanceInv
  <1> QED
    BY <1>1, Invariance, PTL DEF Spec, SeesOnce

-----------------------------------------------------------------------------
(* The list as a sequence *)

\* A set of naturals that has 0, and n + 1 when it has n, is all of them: of the
\* intervals from 0 to a missing one, one contains no other.
LEMMA Climb ==
  ASSUME NEW S, 0 \in S, \A n \in Nat : n \in S => n + 1 \in S
  PROVE  Nat \subseteq S
  <1> SUFFICES ASSUME ~(Nat \subseteq S) PROVE FALSE
    OBVIOUS
  <1> DEFINE F == {0 .. x : x \in Nat \ S}
             R == StrictSubsetOrdering(Nat)
  <1>1. F # {} /\ F \subseteq FiniteSubsetsOf(Nat)
    <2>1. \A x \in Nat : IsFiniteSet(0 .. x) /\ 0 .. x \subseteq Nat
      BY FS_Interval
    <2> QED BY <2>1 DEF FiniteSubsetsOf
  <1>2. IsWellFoundedOn(R, FiniteSubsetsOf(Nat))
    BY FS_StrictSubsetOrderingWellFounded
  <1>3. PICK I \in F : \A J \in F : <<J, I>> \notin R
    <2> HIDE DEF F, R
    <2> QED BY <1>1, <1>2, WFMin
  <1>4. PICK x \in Nat \ S : I = 0 .. x
    OBVIOUS
  <1> PICK y : y = x - 1
    OBVIOUS
  <1>5. y \in Nat /\ x = y + 1
    BY <1>4
  <1>6. y \notin S
    BY <1>4, <1>5
  <1>7. 0 .. y \in F /\ 0 .. y \subseteq 0 .. x /\ x \in 0 .. x /\ x \notin 0 .. y
    BY <1>5, <1>6
  <1>8. 0 .. y # 0 .. x
    BY <1>7
  <1>9. 0 .. x \subseteq Nat
    OBVIOUS
  <1> QED BY <1>3, <1>4, <1>7, <1>8, <1>9 DEF StrictSubsetOrdering

\* Entry k of s, with the head before and behind them.
Nth(s, k) == IF k \in 1 .. Len(s) THEN s[k] ELSE ListHead

\* With the pointers nx the list is s, and has the entries O.
Lined(nx, s, O) ==
  /\ s \in Seq(Node)
  /\ \A k \in 0 .. Len(s) : nx[Nth(s, k)] = Nth(s, k + 1)
  /\ \A j, k \in 1 .. Len(s) : s[j] = s[k] => j = k
  /\ \A k \in 1 .. Len(s) : s[k] \in O
  /\ \A c \in O : \E k \in 1 .. Len(s) : s[k] = c

LineInv == \E s : Lined(next, s, On)

\* The sequence s with what its entries carry.
Carrying(it, s) == [k \in 1 .. Len(s) |-> <<s[k], it[s[k]]>>]

\* f is where nx leads, step by step.
Leads(f, nx, n) ==
  f = [k \in 0 .. n |-> IF k = 0 THEN nx[ListHead]
                        ELSE IF f[k - 1] = ListHead THEN ListHead ELSE nx[f[k - 1]]]

\* What Along finds.
LEMMA AlongIs ==
  ASSUME NodeAssumption, MemoryAssumption, NEW s, NEW O, Lined(next, s, O)
  PROVE  /\ \A k \in 0 .. Cardinality(Node) : Along[k] = Nth(s, k + 1)
         /\ DOMAIN Along = 0 .. Cardinality(Node) /\ Len(s) <= Cardinality(Node)
         /\ Cardinality(Node) \in Nat
  <1> DEFINE C == Cardinality(Node)
             n == Len(s)
             Walk(k) == Nth(s, k + 1)
  <1>1. C \in Nat /\ n \in Nat /\ s \in Seq(Node) /\ ListHead \notin Node
    BY FS_CardinalityType DEF Lined, NodeAssumption, MemoryAssumption
  <1>2. n <= C
    <2>1. s \in [1 .. n -> Node]
      BY <1>1
    <2>2. s \in Injection(1 .. n, Node)
      BY <2>1 DEF Lined, Injection, IsInjective
    <2>3. Cardinality(1 .. n) <= C
      BY <2>2, FS_Injection DEF MemoryAssumption
    <2> PICK a, b \in Int : a = 1 /\ b = n
      BY <1>1
    <2>4. Cardinality(a .. b) = IF a > b THEN 0 ELSE b - a + 1
      BY FS_Interval
    <2> QED BY <1>1, <2>3, <2>4
  <1> HIDE DEF C, n
  <1>3. \A k \in 1 .. n : s[k] \in Node
    BY <1>1 DEF n
  <1>4. ASSUME NEW k \in Nat
        PROVE  Walk(k) = IF k = 0 THEN next[ListHead]
                         ELSE IF Walk(k - 1) = ListHead THEN ListHead
                         ELSE next[Walk(k - 1)]
    <2>1. CASE k = 0
      <3>1. Nth(s, 0) = ListHead /\ 0 \in 0 .. n
        BY <1>1 DEF Nth, n
      <3>2. next[Nth(s, 0)] = Nth(s, 0 + 1)
        BY <3>1 DEF Lined, n
      <3> QED BY <2>1, <3>1, <3>2
    <2>2. CASE k \in 1 .. n
      <3>1. Nth(s, k) = s[k] /\ s[k] # ListHead
        BY <1>1, <1>3, <2>2 DEF Nth, n
      <3>2. next[Nth(s, k)] = Nth(s, k + 1) /\ (k - 1) + 1 = k
        BY <1>1, <2>2 DEF Lined, n
      <3> QED BY <2>2, <3>1, <3>2
    <2>3. CASE k > n /\ k # 0
      <3>1. Nth(s, k) = ListHead /\ Nth(s, k + 1) = ListHead /\ (k - 1) + 1 = k
        BY <1>1, <2>3 DEF Nth, n
      <3> QED BY <2>3, <3>1
    <2> QED BY <1>1, <2>1, <2>2, <2>3
  <1> HIDE DEF Walk
  <1>5. Leads([k \in 0 .. C |-> Walk(k)], next, C)
    <2>1. \A k \in 0 .. C : k # 0 => k - 1 \in 0 .. C
      BY <1>1
    <2>2. \A k \in 0 .. C : k \in Nat
      BY <1>1
    <2> PICK w : w = [k \in 0 .. C |-> Walk(k)]
      OBVIOUS
    <2>3. \A k \in 0 .. C : w[k] = Walk(k)
      OBVIOUS
    <2>4. \A k \in 0 .. C :
            Walk(k) = IF k = 0 THEN next[ListHead]
                      ELSE IF w[k - 1] = ListHead THEN ListHead ELSE next[w[k - 1]]
      BY <1>4, <2>1, <2>2, <2>3
    <2>5. w = [k \in 0 .. C |-> IF k = 0 THEN next[ListHead]
                 ELSE IF w[k - 1] = ListHead THEN ListHead ELSE next[w[k - 1]]]
      BY <2>4
    <2> QED BY <2>5 DEF Leads
  <1>6. Leads(Along, next, C)
    <2>1. Along = CHOOSE f : Leads(f, next, C)
      BY DEF Along, Leads, C
    <2> QED BY <1>5, <2>1
  <1> PICK f : f = Along
    OBVIOUS
  <1>7. /\ DOMAIN f = 0 .. C
        /\ \A k \in 0 .. C :
             f[k] = IF k = 0 THEN next[ListHead]
                    ELSE IF f[k - 1] = ListHead THEN ListHead ELSE next[f[k - 1]]
    BY <1>6 DEF Leads
  <1>8. \A k \in Nat : k <= C => f[k] = Walk(k)
    <2> DEFINE S == {k \in Nat : k <= C => f[k] = Walk(k)}
    <2>1. 0 \in S
      BY <1>1, <1>4, <1>7
    <2>2. ASSUME NEW k \in Nat, k \in S PROVE k + 1 \in S
      <3> SUFFICES ASSUME k + 1 <= C PROVE f[k + 1] = Walk(k + 1)
        OBVIOUS
      <3>1. k + 1 \in 0 .. C /\ k + 1 # 0 /\ (k + 1) - 1 = k /\ k + 1 \in Nat
        BY <1>1
      <3>2. f[k] = Walk(k)
        BY <1>1, <2>2
      <3> QED BY <1>4, <1>7, <3>1, <3>2
    <2> HIDE DEF S
    <2>3. Nat \subseteq S
      BY <2>1, <2>2, Climb
    <2> QED BY <2>3 DEF S
  <1> QED BY <1>1, <1>2, <1>7, <1>8 DEF C, n, Walk

\* Entries is the list.
LEMMA EntriesAre ==
  ASSUME NodeAssumption, MemoryAssumption, NEW s, NEW O, Lined(next, s, O)
  PROVE  Entries = Carrying(item, s)
  <1> PICK n \in Nat : n = Len(s) /\ s \in Seq(Node) /\ ListHead \notin Node
    BY DEF Lined, NodeAssumption
  <1> PICK f : f = Along
    OBVIOUS
  <1> PICK C \in Nat : C = Cardinality(Node)
    BY AlongIs
  <1>1. /\ \A k \in 0 .. C : f[k] = Nth(s, k + 1)
        /\ DOMAIN f = 0 .. C /\ n <= C
    BY AlongIs
  <1>2. \A k \in 1 .. n : s[k] \in Node
    OBVIOUS
  <1>3. {k \in DOMAIN f : f[k] # ListHead} = 0 .. n - 1
    <2>1. ASSUME NEW k \in 0 .. C PROVE f[k] # ListHead <=> k + 1 \in 1 .. n
      BY <1>1, <1>2 DEF Nth
    <2> QED BY <1>1, <2>1
  <1>4. Cardinality(0 .. n - 1) = n
    <2> PICK a, b \in Int : a = 0 /\ b = n - 1
      OBVIOUS
    <2>1. Cardinality(a .. b) = IF a > b THEN 0 ELSE b - a + 1
      BY FS_Interval
    <2> QED BY <2>1
  <1>5. Entries = [k \in 1 .. n |-> <<f[k - 1], item[f[k - 1]]>>]
    BY <1>3, <1>4 DEF Entries
  <1>6. \A k \in 1 .. n : f[k - 1] = s[k]
    <2> SUFFICES ASSUME NEW k \in 1 .. n PROVE f[k - 1] = s[k]
      OBVIOUS
    <2>1. k - 1 \in 0 .. C /\ (k - 1) + 1 = k
      BY <1>1
    <2> QED BY <1>1, <2>1 DEF Nth
  <1> QED BY <1>5, <1>6 DEF Carrying

\* An end of a sequence, its beginning or a part between.
LEMMA Part ==
  ASSUME NEW S, NEW l \in Seq(S), NEW m \in 1 .. Len(l) + 1, NEW n \in 0 .. Len(l), m <= n + 1
  PROVE  /\ SubSeq(l, m, n) \in Seq(S) /\ Len(SubSeq(l, m, n)) = n - m + 1
         /\ \A i \in 1 .. n - m + 1 : SubSeq(l, m, n)[i] = l[m + i - 1]
  <1>1. m \in Int /\ n \in Int /\ \A i \in m .. n : l[i] \in S
    OBVIOUS
  <1>2. /\ SubSeq(l, m, n) \in Seq(S)
        /\ Len(SubSeq(l, m, n)) = IF m <= n THEN n - m + 1 ELSE 0
        /\ \A i \in 1 .. n - m + 1 : SubSeq(l, m, n)[i] = l[m + i - 1]
    BY <1>1, SubSeqProperties
  <1> QED BY <1>2

\* A sequence without its element k.
LEMMA Removed ==
  ASSUME NEW S, NEW l \in Seq(S), NEW k \in 1 .. Len(l)
  PROVE  /\ List!RemoveAt(l, k) \in Seq(S)
         /\ Len(List!RemoveAt(l, k)) = Len(l) - 1
         /\ \A i \in 1 .. Len(l) - 1 :
              List!RemoveAt(l, k)[i] = IF i < k THEN l[i] ELSE l[i + 1]
  <1> DEFINE r == List!RemoveAt(l, k)
             n == Len(l)
             a == SubSeq(l, 1, k - 1)
             b == SubSeq(l, k + 1, n)
  <1>1. n \in Nat /\ k \in 1 .. n /\ DOMAIN l = 1 .. n
    OBVIOUS
  <1>2. a \in Seq(S) /\ Len(a) = k - 1 /\ \A i \in 1 .. k - 1 : a[i] = l[i]
    <2>1. /\ a \in Seq(S) /\ Len(a) = k - 1 - 1 + 1
          /\ \A i \in 1 .. k - 1 - 1 + 1 : a[i] = l[1 + i - 1]
      BY <1>1, Part
    <2> QED BY <1>1, <2>1
  <1>3. b \in Seq(S) /\ Len(b) = n - k /\ \A i \in 1 .. n - k : b[i] = l[k + i]
    <2> PICK m \in 1 .. n + 1 : m = k + 1
      BY <1>1
    <2>1. n \in 0 .. n /\ m <= n + 1
      BY <1>1
    <2>2. /\ b \in Seq(S) /\ Len(b) = n - m + 1
          /\ \A i \in 1 .. n - m + 1 : b[i] = l[m + i - 1]
      BY <2>1, Part
    <2>3. n - m + 1 = n - k /\ \A i \in 1 .. n - k : m + i - 1 = k + i
      BY <1>1
    <2> QED BY <2>2, <2>3
  <1>4. r = a \o b
    BY DEF List!RemoveAt
  <1> HIDE DEF a, b, r, n
  <1>5. /\ r \in Seq(S) /\ Len(r) = (k - 1) + (n - k)
        /\ \A i \in 1 .. (k - 1) + (n - k) :
             r[i] = IF i <= k - 1 THEN a[i] ELSE b[i - (k - 1)]
    BY <1>2, <1>3, <1>4, ConcatProperties
  <1>6. ASSUME NEW i \in 1 .. n - 1 PROVE r[i] = IF i < k THEN l[i] ELSE l[i + 1]
    <2>1. CASE i < k
      BY <1>1, <1>2, <1>5, <2>1
    <2>2. CASE i >= k
      <3>1. i - (k - 1) \in 1 .. n - k /\ k + (i - (k - 1)) = i + 1
        BY <1>1, <2>2
      <3> QED BY <1>1, <1>3, <1>5, <2>2, <3>1
    <2> QED BY <1>1, <2>1, <2>2
  <1> QED BY <1>1, <1>5, <1>6 DEF r, n

\* A sequence with e put in as element k.
LEMMA Inserted ==
  ASSUME NEW S, NEW l \in Seq(S), NEW e \in S, NEW k \in 1 .. Len(l) + 1
  PROVE  /\ List!InsertAt(l, k, e) \in Seq(S)
         /\ Len(List!InsertAt(l, k, e)) = Len(l) + 1
         /\ List!InsertAt(l, k, e)[k] = e
         /\ \A i \in 1 .. k - 1 : List!InsertAt(l, k, e)[i] = l[i]
         /\ \A i \in k + 1 .. Len(l) + 1 : List!InsertAt(l, k, e)[i] = l[i - 1]
  <1> DEFINE r == List!InsertAt(l, k, e)
             n == Len(l)
             a == SubSeq(l, 1, k - 1)
             b == SubSeq(l, k, n)
             c == a \o <<e>>
  <1>1. n \in Nat /\ k \in 1 .. n + 1 /\ DOMAIN l = 1 .. n /\ <<e>> \in Seq(S)
    OBVIOUS
  <1>2. a \in Seq(S) /\ Len(a) = k - 1 /\ \A i \in 1 .. k - 1 : a[i] = l[i]
    <2>1. /\ a \in Seq(S) /\ Len(a) = k - 1 - 1 + 1
          /\ \A i \in 1 .. k - 1 - 1 + 1 : a[i] = l[1 + i - 1]
      BY <1>1, Part
    <2> QED BY <1>1, <2>1
  <1>3. /\ b \in Seq(S) /\ Len(b) = n - k + 1
        /\ \A i \in 1 .. n - k + 1 : b[i] = l[k + i - 1]
    BY <1>1, Part
  <1>4. /\ c \in Seq(S) /\ Len(c) = k /\ c[k] = e
        /\ \A i \in 1 .. k - 1 : c[i] = l[i]
    <2>1. /\ a \o <<e>> \in Seq(S) /\ Len(a \o <<e>>) = Len(a) + Len(<<e>>)
          /\ \A i \in 1 .. Len(a) + Len(<<e>>) :
               (a \o <<e>>)[i] = IF i <= Len(a) THEN a[i] ELSE <<e>>[i - Len(a)]
      BY <1>1, <1>2, ConcatProperties
    <2> HIDE DEF a
    <2> QED BY SMTT(30), <1>1, <1>2, <2>1
  <1>5. r = c \o b
    BY DEF List!InsertAt
  <1> HIDE DEF a, b, c, r, n
  <1>6. /\ r \in Seq(S) /\ Len(r) = k + (n - k + 1)
        /\ \A i \in 1 .. k + (n - k + 1) : r[i] = IF i <= k THEN c[i] ELSE b[i - k]
    <2>1. /\ c \o b \in Seq(S) /\ Len(c \o b) = Len(c) + Len(b)
          /\ \A i \in 1 .. Len(c) + Len(b) :
               (c \o b)[i] = IF i <= Len(c) THEN c[i] ELSE b[i - Len(c)]
      BY <1>3, <1>4, ConcatProperties
    <2> QED BY <1>3, <1>4, <1>5, <2>1
  <1>7. ASSUME NEW i \in 1 .. n + 1
        PROVE  r[i] = IF i < k THEN l[i] ELSE IF i = k THEN e ELSE l[i - 1]
    <2>1. CASE i <= k
      BY <1>1, <1>4, <1>6, <2>1
    <2>2. CASE i > k
      <3>1. i - k \in 1 .. n - k + 1 /\ k + (i - k) - 1 = i - 1
        BY <1>1, <2>2
      <3> QED BY SMTT(30), <1>1, <1>3, <1>6, <2>2, <3>1
    <2> QED BY <1>1, <2>1, <2>2
  <1>8. k \in 1 .. n + 1 /\ k - 1 < n + 1
    BY <1>1
  <1> QED BY <1>1, <1>6, <1>7, <1>8 DEF r, n

\* What is carried along when an entry joins, leaves or takes another's place.
LEMMA CarryingOn ==
  ASSUME NEW it, NEW s \in Seq(Node)
  PROVE  /\ \A k \in 1 .. Len(s) + 1, c \in Node :
              Carrying(it, List!InsertAt(s, k, c)) =
                List!InsertAt(Carrying(it, s), k, <<c, it[c]>>)
         /\ \A k \in 1 .. Len(s) :
              Carrying(it, List!RemoveAt(s, k)) = List!RemoveAt(Carrying(it, s), k)
         /\ \A k \in 1 .. Len(s), c \in Node :
              Carrying(it, [s EXCEPT ![k] = c]) =
                [Carrying(it, s) EXCEPT ![k] = <<c, it[c]>>]
  <1> DEFINE S == {<<x, it[x]>> : x \in Node}
             n == Len(s)
  <1> PICK v : v = Carrying(it, s)
    OBVIOUS
  <1>1. n \in Nat /\ DOMAIN s = 1 .. n /\ \A k \in 1 .. n : s[k] \in Node
    OBVIOUS
  <1>2. /\ v \in Seq(S) /\ Len(v) = n /\ DOMAIN v = 1 .. n
        /\ \A k \in 1 .. n : v[k] = <<s[k], it[s[k]]>>
    <2>1. v = [k \in 1 .. n |-> <<s[k], it[s[k]]>>]
      BY DEF Carrying
    <2>2. \A k \in 1 .. n : <<s[k], it[s[k]]>> \in S
      BY <1>1
    <2> HIDE DEF n, S
    <2> QED BY <1>1, <2>1, <2>2
  <1>3. ASSUME NEW k \in 1 .. n + 1, NEW c \in Node
        PROVE  Carrying(it, List!InsertAt(s, k, c)) =
                 List!InsertAt(v, k, <<c, it[c]>>)
    <2> PICK t : t = List!InsertAt(s, k, c)
      OBVIOUS
    <2> PICK w : w = List!InsertAt(v, k, <<c, it[c]>>)
      OBVIOUS
    <2>1. /\ Len(t) = n + 1 /\ t \in Seq(Node) /\ t[k] = c
          /\ \A i \in 1 .. k - 1 : t[i] = s[i]
          /\ \A i \in k + 1 .. n + 1 : t[i] = s[i - 1]
      <3> PICK p \in 1 .. Len(s) + 1 : p = k
        OBVIOUS
      <3>1. /\ List!InsertAt(s, p, c) \in Seq(Node)
            /\ Len(List!InsertAt(s, p, c)) = Len(s) + 1
            /\ List!InsertAt(s, p, c)[p] = c
            /\ \A i \in 1 .. p - 1 : List!InsertAt(s, p, c)[i] = s[i]
            /\ \A i \in p + 1 .. Len(s) + 1 : List!InsertAt(s, p, c)[i] = s[i - 1]
        BY ONLY Inserted, s \in Seq(Node), c \in Node, p \in 1 .. Len(s) + 1
      <3> QED BY <3>1
    <2>2. <<c, it[c]>> \in S
      OBVIOUS
    <2> HIDE DEF S
    <2> PICK e \in S, p \in 1 .. Len(v) + 1 : e = <<c, it[c]>> /\ p = k
      BY <1>2, <2>2
    <2>3. /\ Len(w) = Len(v) + 1 /\ w \in Seq(S) /\ w[k] = <<c, it[c]>>
          /\ \A i \in 1 .. k - 1 : w[i] = v[i]
          /\ \A i \in k + 1 .. Len(v) + 1 : w[i] = v[i - 1]
      <3>1. /\ List!InsertAt(v, p, e) \in Seq(S)
            /\ Len(List!InsertAt(v, p, e)) = Len(v) + 1
            /\ List!InsertAt(v, p, e)[p] = e
            /\ \A i \in 1 .. p - 1 : List!InsertAt(v, p, e)[i] = v[i]
            /\ \A i \in p + 1 .. Len(v) + 1 : List!InsertAt(v, p, e)[i] = v[i - 1]
        <4>1. v \in Seq(S)
          BY <1>2
        <4> QED BY ONLY Inserted, <4>1, e \in S, p \in 1 .. Len(v) + 1
      <3> QED BY <3>1
    <2> HIDE DEF n
    <2>4. ASSUME NEW i \in 1 .. n + 1 PROVE w[i] = <<t[i], it[t[i]]>>
      <3>1. CASE i \in 1 .. k - 1
        <4>1. i \in 1 .. n
          BY <1>1, <3>1
        <4> QED BY <1>2, <2>1, <2>3, <3>1, <4>1
      <3>2. CASE i = k
        BY <2>1, <2>3, <3>2
      <3>3. CASE i \in k + 1 .. n + 1
        <4>1. i - 1 \in 1 .. n
          BY <1>1, <3>3
        <4> QED BY <1>2, <2>1, <2>3, <3>3, <4>1
      <3>4. i \in 1 .. k - 1 \/ i = k \/ i \in k + 1 .. n + 1
        BY <1>1
      <3> QED BY <3>1, <3>2, <3>3, <3>4
    <2>5. Carrying(it, t) = [i \in 1 .. n + 1 |-> <<t[i], it[t[i]]>>]
      BY <2>1 DEF Carrying
    <2>6. w = [i \in 1 .. n + 1 |-> w[i]]
      <3>1. Len(w) = n + 1 /\ w \in Seq(S)
        BY <1>1, <1>2, <2>3
      <3>2. w \in [1 .. Len(w) -> S]
        BY ONLY <3>1
      <3> QED BY ONLY <3>1, <3>2
    <2> QED BY <2>4, <2>5, <2>6
  <1>4. ASSUME NEW k \in 1 .. n
        PROVE  Carrying(it, List!RemoveAt(s, k)) = List!RemoveAt(v, k)
    <2> PICK t : t = List!RemoveAt(s, k)
      OBVIOUS
    <2> PICK w : w = List!RemoveAt(v, k)
      OBVIOUS
    <2>1. /\ Len(t) = n - 1 /\ t \in Seq(Node)
          /\ \A i \in 1 .. n - 1 : t[i] = IF i < k THEN s[i] ELSE s[i + 1]
      BY Removed
    <2> HIDE DEF S
    <2>3. /\ Len(w) = n - 1 /\ w \in Seq(S)
          /\ \A i \in 1 .. n - 1 : w[i] = IF i < k THEN v[i] ELSE v[i + 1]
      <3> PICK l \in Seq(S), j \in Nat : j \in 1 .. Len(l) /\ l = v /\ j = k
        BY <1>2
      <3>1. /\ List!RemoveAt(l, j) \in Seq(S)
            /\ Len(List!RemoveAt(l, j)) = Len(l) - 1
            /\ \A i \in 1 .. Len(l) - 1 :
                 List!RemoveAt(l, j)[i] = IF i < j THEN l[i] ELSE l[i + 1]
        BY Removed
      <3> QED BY <1>2, <3>1
    <2> HIDE DEF n
    <2>4. ASSUME NEW i \in 1 .. n - 1 PROVE w[i] = <<t[i], it[t[i]]>>
      <3>1. i \in 1 .. n /\ i + 1 \in 1 .. n
        BY <1>1
      <3> QED BY <1>2, <2>1, <2>3, <3>1
    <2>5. Carrying(it, t) = [i \in 1 .. n - 1 |-> <<t[i], it[t[i]]>>]
      BY <2>1 DEF Carrying
    <2>6. w = [i \in 1 .. n - 1 |-> w[i]]
      BY <1>1, <2>3
    <2> QED BY <2>4, <2>5, <2>6
  <1>5. ASSUME NEW k \in 1 .. n, NEW c \in Node
        PROVE  Carrying(it, [s EXCEPT ![k] = c]) = [v EXCEPT ![k] = <<c, it[c]>>]
    <2> PICK t : t = [s EXCEPT ![k] = c]
      OBVIOUS
    <2> PICK w : w = [v EXCEPT ![k] = <<c, it[c]>>]
      OBVIOUS
    <2>1. /\ Len(t) = n /\ DOMAIN t = 1 .. n
          /\ \A i \in 1 .. n : t[i] = IF i = k THEN c ELSE s[i]
      BY ExceptSeq
    <2> HIDE DEF n, S
    <2>2. DOMAIN w = 1 .. n /\ \A i \in 1 .. n : w[i] = <<t[i], it[t[i]]>>
      BY <1>1, <1>2, <2>1
    <2>3. Carrying(it, t) = [i \in 1 .. n |-> <<t[i], it[t[i]]>>]
      BY <2>1 DEF Carrying
    <2>4. w = [i \in 1 .. n |-> w[i]]
      BY <2>2
    <2> QED BY <2>2, <2>3, <2>4
  <1> QED BY <1>3, <1>4, <1>5

\* The cells of a list, from the head to the last entry, are all different.
LEMMA NthApart ==
  ASSUME ListHead \notin Node, NEW nx, NEW s, NEW O, O \subseteq Node, Lined(nx, s, O)
  PROVE  /\ s \in Seq(Node) /\ Len(s) \in Nat
         /\ Nth(s, 0) = ListHead /\ Nth(s, Len(s) + 1) = ListHead
         /\ \A k \in 1 .. Len(s) : Nth(s, k) = s[k] /\ s[k] \in O
         /\ \A j, k \in 0 .. Len(s) : Nth(s, j) = Nth(s, k) => j = k
         /\ \A k \in 0 .. Len(s) : Nth(s, k) \in O \cup {ListHead}
         /\ \A c \in O \cup {ListHead} : \E k \in 0 .. Len(s) : Nth(s, k) = c
  <1> PICK n \in Nat : n = Len(s) /\ s \in Seq(Node)
    BY DEF Lined
  <1>1. Nth(s, 0) = ListHead /\ Nth(s, n + 1) = ListHead
    BY DEF Nth
  <1>2. \A k \in 1 .. n : Nth(s, k) = s[k] /\ s[k] \in O /\ s[k] # ListHead
    BY DEF Nth, Lined
  <1>3. \A k \in 0 .. n : k = 0 \/ k \in 1 .. n
    OBVIOUS
  <1>4. \A j, k \in 0 .. n : Nth(s, j) = Nth(s, k) => j = k
    BY <1>1, <1>2, <1>3 DEF Lined
  <1>5. \A c \in O \cup {ListHead} : \E k \in 0 .. n : Nth(s, k) = c
    <2> TAKE c \in O \cup {ListHead}
    <2>1. CASE c = ListHead
      BY <1>1, <2>1
    <2>2. CASE c \in O
      <3> PICK k \in 1 .. n : s[k] = c
        BY <2>2 DEF Lined
      <3> QED BY <1>2
    <2> QED BY <2>1, <2>2
  <1> QED BY <1>1, <1>2, <1>3, <1>4, <1>5

\* An entry that is linked in between two cells joins the list there.
LEMMA LineGrows ==
  ASSUME ListHead \notin Node, NEW nx, NEW my, NEW s, NEW O, O \subseteq Node,
         Lined(nx, s, O), NEW c \in Node, c \notin O, NEW j \in 0 .. Len(s),
         my[Nth(s, j)] = c, my[c] = Nth(s, j + 1),
         \A d \in (O \cup {ListHead}) \ {Nth(s, j)} : my[d] = nx[d]
  PROVE  Lined(my, List!InsertAt(s, j + 1, c), O \cup {c})
  <1>0. PICK t : t = List!InsertAt(s, j + 1, c)
    OBVIOUS
  <1> PICK n \in Nat : n = Len(s) /\ j \in 0 .. n /\ s \in Seq(Node)
    BY NthApart
  <1>1. /\ t \in Seq(Node) /\ Len(t) = n + 1 /\ t[j + 1] = c
        /\ \A i \in 1 .. j : t[i] = s[i]
        /\ \A i \in j + 2 .. n + 1 : t[i] = s[i - 1]
    <2> PICK p \in 1 .. Len(s) + 1 : p = j + 1
      OBVIOUS
    <2>1. /\ List!InsertAt(s, p, c) \in Seq(Node)
          /\ Len(List!InsertAt(s, p, c)) = Len(s) + 1
          /\ List!InsertAt(s, p, c)[p] = c
          /\ \A i \in 1 .. p - 1 : List!InsertAt(s, p, c)[i] = s[i]
          /\ \A i \in p + 1 .. Len(s) + 1 : List!InsertAt(s, p, c)[i] = s[i - 1]
      <3>1. s \in Seq(Node)
        OBVIOUS
      <3> QED BY ONLY Inserted, <3>1, c \in Node, p \in 1 .. Len(s) + 1
    <2>2. p - 1 = j /\ p + 1 = j + 2
      OBVIOUS
    <2> QED BY <1>0, <2>1, <2>2
  <1>2. /\ Nth(s, 0) = ListHead /\ Nth(s, n + 1) = ListHead
        /\ \A k \in 1 .. n : Nth(s, k) = s[k] /\ s[k] \in O
        /\ \A i, k \in 0 .. n : Nth(s, i) = Nth(s, k) => i = k
        /\ \A k \in 0 .. n : Nth(s, k) \in O \cup {ListHead}
        /\ \A k \in 0 .. n : nx[Nth(s, k)] = Nth(s, k + 1)
        /\ \A d \in O : \E k \in 1 .. n : s[k] = d
    <2>1. Lined(nx, s, O)
      OBVIOUS
    <2>2. /\ \A k \in 0 .. n : nx[Nth(s, k)] = Nth(s, k + 1)
          /\ \A d \in O : \E k \in 1 .. n : s[k] = d
      BY ONLY <2>1, n = Len(s) DEF Lined
    <2> QED BY <2>2, NthApart
  <1>3. \A k \in 0 .. j : Nth(t, k) = Nth(s, k)
    BY <1>1, <1>2 DEF Nth
  <1>4. Nth(t, j + 1) = c
    BY <1>1 DEF Nth
  <1>5. \A k \in j + 1 .. n + 1 : Nth(t, k + 1) = Nth(s, k)
    <2> TAKE k \in j + 1 .. n + 1
    <2>1. CASE k = n + 1
      BY <1>1, <1>2, <2>1 DEF Nth
    <2>2. CASE k \in j + 1 .. n
      <3>1. k + 1 \in j + 2 .. n + 1 /\ (k + 1) - 1 = k /\ k \in 1 .. n /\ k + 1 \in 1 .. n + 1
        BY <2>2
      <3> QED BY <1>1, <3>1 DEF Nth
    <2> QED BY <2>1, <2>2
  <1>6. \A k \in 0 .. n + 1 : my[Nth(t, k)] = Nth(t, k + 1)
    <2> TAKE k \in 0 .. n + 1
    <2>1. CASE k < j
      <3>1. k \in 0 .. n /\ k # j /\ k \in 0 .. j /\ k + 1 \in 0 .. j /\ j \in 0 .. n
        BY <2>1
      <3> QED BY <1>2, <1>3, <3>1
    <2>2. CASE k = j
      BY <1>3, <1>4, <2>2
    <2>3. CASE k = j + 1
      <3>1. j + 1 \in j + 1 .. n + 1
        OBVIOUS
      <3>2. Nth(t, (j + 1) + 1) = Nth(s, j + 1)
        BY <1>5, <3>1
      <3> QED BY <1>4, <2>3, <3>2
    <2>4. CASE k > j + 1
      <3> PICK i \in j + 1 .. n : k = i + 1
        <4>1. k - 1 \in j + 1 .. n /\ k = (k - 1) + 1
          BY <2>4
        <4> QED BY <4>1
      <3>1. i \in 0 .. n /\ i # j /\ j \in 0 .. n /\ i \in j + 1 .. n + 1
            /\ i + 1 \in j + 1 .. n + 1
        OBVIOUS
      <3>2. Nth(t, k) = Nth(s, i) /\ Nth(t, k + 1) = Nth(s, i + 1)
        BY <1>5, <3>1
      <3> QED BY <1>2, <3>1, <3>2
    <2> QED BY <2>1, <2>2, <2>3, <2>4
  <1>7. \A k \in 1 .. n + 1 :
          \/ k \in 1 .. j /\ k \in 1 .. n
          \/ k = j + 1
          \/ k \in j + 2 .. n + 1 /\ k - 1 \in j + 1 .. n /\ k - 1 \in 1 .. n
    OBVIOUS
  <1>8. \A k \in 1 .. n + 1 : t[k] \in O \cup {c}
    <2> TAKE k \in 1 .. n + 1
    <2>1. CASE k \in 1 .. j /\ k \in 1 .. n
      BY <1>1, <1>2, <2>1
    <2>2. CASE k \in j + 2 .. n + 1 /\ k - 1 \in 1 .. n
      BY <1>1, <1>2, <2>2
    <2> QED BY <1>1, <1>7, <2>1, <2>2
  <1>9. \A i, k \in 1 .. n + 1 : t[i] = t[k] => i = k
    <2> DEFINE Old(i) == IF i \in 1 .. j THEN i ELSE i - 1
    <2>1. \A i \in 1 .. n + 1 : i # j + 1 => t[i] = s[Old(i)] /\ Old(i) \in 1 .. n
      BY <1>1, <1>7
    <2>2. \A i, k \in 1 .. n : s[i] = s[k] => i = k
      BY DEF Lined
    <2>3. \A i, k \in 1 .. n + 1 : i # j + 1 /\ k # j + 1 /\ Old(i) = Old(k) => i = k
      OBVIOUS
    <2> HIDE DEF Old
    <2>4. \A i \in 1 .. n + 1 : i # j + 1 => t[i] \in O
      BY <1>2, <2>1
    <2>5. t[j + 1] = c /\ c \notin O
      BY <1>1
    <2> TAKE i, k \in 1 .. n + 1
    <2> HAVE t[i] = t[k]
    <2>6. CASE i = j + 1 \/ k = j + 1
      BY <2>4, <2>5, <2>6
    <2>7. CASE i # j + 1 /\ k # j + 1
      <3>1. s[Old(i)] = s[Old(k)] /\ Old(i) \in 1 .. n /\ Old(k) \in 1 .. n
        BY <2>1, <2>7
      <3>2. Old(i) = Old(k)
        BY <2>2, <3>1
      <3> QED BY <2>3, <2>7, <3>2
    <2> QED BY <2>6, <2>7
  <1>10. \A d \in O \cup {c} : \E k \in 1 .. n + 1 : t[k] = d
    <2> TAKE d \in O \cup {c}
    <2>1. CASE d = c
      BY <1>1, <2>1
    <2>2. CASE d \in O
      <3> PICK k \in 1 .. n : s[k] = d
        BY <1>2, <2>2
      <3>1. CASE k <= j
        BY <1>1, <3>1
      <3>2. CASE k > j
        <4>1. k + 1 \in j + 2 .. n + 1 /\ k + 1 \in 1 .. n + 1 /\ (k + 1) - 1 = k
          BY <3>2
        <4> QED BY <1>1, <4>1
      <3> QED BY <3>1, <3>2
    <2> QED BY <2>1, <2>2
  <1>11. Lined(my, t, O \cup {c})
    BY <1>1, <1>6, <1>8, <1>9, <1>10 DEF Lined
  <1> QED BY <1>0, <1>11

\* The entry that the cell before it is linked past leaves the list.
LEMMA LineShrinks ==
  ASSUME ListHead \notin Node, NEW nx, NEW my, NEW s, NEW O, O \subseteq Node,
         Lined(nx, s, O), NEW j \in 1 .. Len(s),
         my[Nth(s, j - 1)] = Nth(s, j + 1),
         \A d \in (O \cup {ListHead}) \ {Nth(s, j - 1)} : my[d] = nx[d]
  PROVE  Lined(my, List!RemoveAt(s, j), O \ {s[j]})
  <1>0. PICK t : t = List!RemoveAt(s, j)
    OBVIOUS
  <1> PICK n \in Nat : n = Len(s) /\ j \in 1 .. n /\ s \in Seq(Node)
    BY NthApart
  <1>1. /\ t \in Seq(Node) /\ Len(t) = n - 1
        /\ \A i \in 1 .. n - 1 : t[i] = IF i < j THEN s[i] ELSE s[i + 1]
    BY <1>0, Removed
  <1>2. /\ Nth(s, 0) = ListHead /\ Nth(s, n + 1) = ListHead
        /\ \A k \in 1 .. n : Nth(s, k) = s[k] /\ s[k] \in O
        /\ \A i, k \in 0 .. n : Nth(s, i) = Nth(s, k) => i = k
        /\ \A k \in 0 .. n : Nth(s, k) \in O \cup {ListHead}
        /\ \A k \in 0 .. n : nx[Nth(s, k)] = Nth(s, k + 1)
        /\ \A d \in O : \E k \in 1 .. n : s[k] = d
    <2>1. Lined(nx, s, O)
      OBVIOUS
    <2>2. /\ \A k \in 0 .. n : nx[Nth(s, k)] = Nth(s, k + 1)
          /\ \A d \in O : \E k \in 1 .. n : s[k] = d
      BY ONLY <2>1, n = Len(s) DEF Lined
    <2> QED BY <2>2, NthApart
  <1>3. \A k \in 0 .. j - 1 : Nth(t, k) = Nth(s, k)
    <2> TAKE k \in 0 .. j - 1
    <2>1. CASE k = 0
      BY <1>1, <1>2, <2>1 DEF Nth
    <2>2. CASE k \in 1 .. j - 1
      <3>1. k \in 1 .. n - 1 /\ k < j /\ k \in 1 .. n
        BY <2>2
      <3> QED BY <1>1, <3>1 DEF Nth
    <2> QED BY <2>1, <2>2
  <1>4. \A k \in j .. n : Nth(t, k) = Nth(s, k + 1)
    <2> TAKE k \in j .. n
    <2>1. CASE k = n
      BY <1>1, <1>2, <2>1 DEF Nth
    <2>2. CASE k \in j .. n - 1
      <3>1. k \in 1 .. n - 1 /\ ~(k < j) /\ k + 1 \in 1 .. n
        BY <2>2
      <3> QED BY <1>1, <3>1 DEF Nth
    <2> QED BY <2>1, <2>2
  <1>5. \A k \in 0 .. n - 1 : my[Nth(t, k)] = Nth(t, k + 1)
    <2> TAKE k \in 0 .. n - 1
    <2>1. CASE k < j - 1
      <3>1. k \in 0 .. n /\ k # j - 1 /\ k \in 0 .. j - 1 /\ k + 1 \in 0 .. j - 1
            /\ j - 1 \in 0 .. n
        BY <2>1
      <3> QED BY <1>2, <1>3, <3>1
    <2>2. CASE k = j - 1
      <3>1. k \in 0 .. j - 1 /\ k + 1 = j /\ j \in j .. n
        BY <2>2
      <3>2. Nth(t, k) = Nth(s, j - 1) /\ Nth(t, j) = Nth(s, j + 1)
        BY <1>3, <1>4, <2>2, <3>1
      <3> QED BY <3>1, <3>2
    <2>3. CASE k > j - 1
      <3>1. k \in j .. n /\ k + 1 \in j .. n /\ k + 1 \in 0 .. n /\ k + 1 # j - 1
            /\ j - 1 \in 0 .. n
        BY <2>3
      <3> QED BY <1>2, <1>4, <3>1
    <2> QED BY <2>1, <2>2, <2>3
  <1> DEFINE Old(i) == IF i < j THEN i ELSE i + 1
  <1>7. \A i \in 1 .. n - 1 : t[i] = s[Old(i)] /\ Old(i) \in 1 .. n /\ Old(i) # j
    BY <1>1
  <1>8. \A i, k \in 1 .. n - 1 : Old(i) = Old(k) => i = k
    OBVIOUS
  <1>9. \A k \in 1 .. n : k # j => \E i \in 1 .. n - 1 : Old(i) = k
    <2> TAKE k \in 1 .. n
    <2>1. k < j => k \in 1 .. n - 1 /\ Old(k) = k
      OBVIOUS
    <2>2. k > j => k - 1 \in 1 .. n - 1 /\ Old(k - 1) = k
      OBVIOUS
    <2> HIDE DEF Old
    <2>3. k < j \/ k = j \/ k > j
      OBVIOUS
    <2> QED BY <2>1, <2>2, <2>3
  <1> HIDE DEF Old
  <1>10. \A i, k \in 1 .. n : s[i] = s[k] => i = k
    BY DEF Lined
  <1>11. \A i, k \in 1 .. n - 1 : t[i] = t[k] => i = k
    BY <1>7, <1>8, <1>10
  <1>12. \A k \in 1 .. n - 1 : t[k] \in O \ {s[j]}
    BY <1>2, <1>7, <1>10
  <1>13. \A d \in O \ {s[j]} : \E k \in 1 .. n - 1 : t[k] = d
    <2> TAKE d \in O \ {s[j]}
    <2>1. PICK k \in 1 .. n : s[k] = d /\ k # j
      BY <1>2
    <2>2. PICK i \in 1 .. n - 1 : Old(i) = k
      BY <1>9, <2>1
    <2> QED BY <1>7, <2>1, <2>2
  <1>14. Lined(my, t, O \ {s[j]})
    BY <1>1, <1>5, <1>11, <1>12, <1>13 DEF Lined
  <1> QED BY <1>0, <1>14

\* An entry takes the place of another.
LEMMA LineSwaps ==
  ASSUME ListHead \notin Node, NEW nx, NEW my, NEW s, NEW O, O \subseteq Node,
         Lined(nx, s, O), NEW c \in Node, c \notin O, NEW j \in 1 .. Len(s),
         my[Nth(s, j - 1)] = c, my[c] = Nth(s, j + 1),
         \A d \in (O \cup {ListHead}) \ {Nth(s, j - 1)} : my[d] = nx[d]
  PROVE  Lined(my, [s EXCEPT ![j] = c], (O \ {s[j]}) \cup {c})
  <1>0. PICK t : t = [s EXCEPT ![j] = c]
    OBVIOUS
  <1> PICK n \in Nat : n = Len(s) /\ j \in 1 .. n /\ s \in Seq(Node)
    BY NthApart
  <1>1. /\ t \in Seq(Node) /\ Len(t) = n
        /\ \A i \in 1 .. n : t[i] = IF i = j THEN c ELSE s[i]
    BY <1>0, ExceptSeq
  <1>2. /\ Nth(s, 0) = ListHead /\ Nth(s, n + 1) = ListHead
        /\ \A k \in 1 .. n : Nth(s, k) = s[k] /\ s[k] \in O
        /\ \A i, k \in 0 .. n : Nth(s, i) = Nth(s, k) => i = k
        /\ \A k \in 0 .. n : Nth(s, k) \in O \cup {ListHead}
        /\ \A k \in 0 .. n : nx[Nth(s, k)] = Nth(s, k + 1)
        /\ \A d \in O : \E k \in 1 .. n : s[k] = d
    <2>1. Lined(nx, s, O)
      OBVIOUS
    <2>2. /\ \A k \in 0 .. n : nx[Nth(s, k)] = Nth(s, k + 1)
          /\ \A d \in O : \E k \in 1 .. n : s[k] = d
      BY ONLY <2>1, n = Len(s) DEF Lined
    <2> QED BY <2>2, NthApart
  <1>3. \A k \in 0 .. n + 1 : Nth(t, k) = IF k = j THEN c ELSE Nth(s, k)
    BY <1>1 DEF Nth
  <1>4. \A k \in 0 .. n : my[Nth(t, k)] = Nth(t, k + 1)
    <2> TAKE k \in 0 .. n
    <2>1. k \in 0 .. n + 1 /\ k + 1 \in 0 .. n + 1 /\ j - 1 \in 0 .. n /\ j \in 0 .. n
      OBVIOUS
    <2>2. CASE k = j
      <3>1. k + 1 # j
        BY <2>2
      <3> QED BY <1>3, <2>1, <2>2, <3>1
    <2>3. CASE k = j - 1
      <3>1. k + 1 = j /\ k # j
        BY <2>3
      <3> QED BY <1>3, <2>1, <2>3, <3>1
    <2>4. CASE k # j /\ k # j - 1
      <3>1. k + 1 # j
        BY <2>4
      <3>2. Nth(s, k) # Nth(s, j - 1) /\ Nth(s, k) \in O \cup {ListHead}
        BY <1>2, <2>1, <2>4
      <3>3. Nth(t, k) = Nth(s, k) /\ Nth(t, k + 1) = Nth(s, k + 1)
        BY <1>3, <2>1, <2>4, <3>1
      <3> QED BY <1>2, <3>2, <3>3
    <2> QED BY <2>2, <2>3, <2>4
  <1>5. \A i, k \in 1 .. n : s[i] = s[k] => i = k
    BY DEF Lined
  <1>6. \A k \in 1 .. n : t[k] \in (O \ {s[j]}) \cup {c}
    BY <1>1, <1>2, <1>5
  <1>7. \A i, k \in 1 .. n : t[i] = t[k] => i = k
    BY <1>1, <1>2, <1>5
  <1>8. \A d \in (O \ {s[j]}) \cup {c} : \E k \in 1 .. n : t[k] = d
    BY <1>1, <1>2
  <1>9. Lined(my, t, (O \ {s[j]}) \cup {c})
    BY <1>1, <1>4, <1>6, <1>7, <1>8 DEF Lined
  <1> QED BY <1>0, <1>9

\* Every step but the one at which an operation happens leaves the list alone.
LEMMA CalmSteps ==
  ASSUME IInv, [Next]_vars, ~ \E s \in early \cup late : StorePublish(s)
  PROVE  Calm
  <1>1. TypeOK /\ NodeAssumption
    BY NodeAssumption DEF IInv
  <1>2. ASSUME NEW n \in Node, NEW i \in Item, NEW p, NEW q, Link(n, i, p, q)
        PROVE  Calm
    BY <1>1, <1>2 DEF Link, Calm, On, TypeOK
  <1>3. ASSUME NEW n \in Node, NEW i \in Item, NEW m \in Node,
               \/ list_add_rcu(n, i) \/ list_add_tail_rcu(n, i)
               \/ hlist_add_head_rcu(n, i)
               \/ hlist_add_before_rcu(n, i, m) \/ hlist_add_after_rcu(m, n, i)
        PROVE  Calm
    BY <1>2, <1>3 DEF list_add_rcu, list_add_tail_rcu, hlist_add_head_rcu,
                      hlist_add_before_rcu, hlist_add_after_rcu
  <1>4. ASSUME NEW n \in Node, list_del_rcu(n) PROVE Calm
    BY <1>4 DEF list_del_rcu, Calm, On
  <1>5. ASSUME NEW n \in Node, NEW m \in Node, list_replace_rcu(n, m) PROVE Calm
    BY <1>1, <1>5 DEF list_replace_rcu, Calm, On, TypeOK
  <1>6. ASSUME NEW s \in early \cup late, StoreAside(s) PROVE Calm
    BY <1>6, StoreAsideInv
  <1>7. CASE Return
    BY <1>7 DEF Return, Calm, On
  <1>8. ASSUME NEW n \in Node, call_rcu(n) PROVE Calm
    BY <1>1, <1>8 DEF call_rcu, Calm, On, TypeOK
  <1>9. ASSUME NEW n \in Node, Callback(n) PROVE Calm
    BY <1>1, <1>9 DEF Callback, Calm, On, Linked, TypeOK, Cell
  <1>10. CASE UNCHANGED writer
    BY <1>10 DEF writer, Calm, On
  <1>11. CASE Write
    BY <1>3, <1>4, <1>5, <1>6, <1>7, <1>8, <1>9, <1>11 DEF Write
  <1>12. CASE Read
    BY <1>10, <1>12 DEF Read, ReadLock, Fetch, Advance, ReadUnlock
  <1> QED BY <1>10, <1>11, <1>12 DEF Next, vars

\* Under such a step the list goes on to be the same sequence.
LEMMA CalmLine ==
  ASSUME IInv, NEW s, Lined(next, s, On), Calm
  PROVE  Lined(next', s, On') /\ Carrying(item', s) = Carrying(item, s)
  <1>1. ListHead \notin Node /\ On \subseteq Node
    BY NodeAssumption DEF On
  <1>2. /\ \A k \in 0 .. Len(s) : Nth(s, k) \in Linked
        /\ \A k \in 1 .. Len(s) : s[k] \in On
    BY <1>1, NthApart DEF Linked
  <1>3. \A k \in 0 .. Len(s) : next'[Nth(s, k)] = Nth(s, k + 1)
    BY <1>2 DEF Lined, Calm
  <1>4. Lined(next', s, On')
    BY <1>3 DEF Lined, Calm
  <1> QED BY <1>2, <1>4 DEF Carrying, Calm

\* What is carried names the entries of the list, and their items.
LEMMA CarriedIs ==
  ASSUME ListHead \notin Node, NEW nx, NEW it, NEW s, NEW O, O \subseteq Node,
         Lined(nx, s, O)
  PROVE  LET v == Carrying(it, s)
         IN /\ DOMAIN v = 1 .. Len(s) /\ Len(v) = Len(s)
            /\ \A k \in 1 .. Len(s) : v[k][1] = s[k] /\ v[k][2] = it[s[k]]
            /\ {v[k][1] : k \in DOMAIN v} = O
            /\ {v[k][2] : k \in DOMAIN v} = {it[c] : c \in O}
  <1> DEFINE v == Carrying(it, s)
  <1> PICK n \in Nat : n = Len(s)
    BY NthApart
  <1>1. v = [k \in 1 .. n |-> <<s[k], it[s[k]]>>]
    BY DEF Carrying
  <1>2. (\A k \in 1 .. n : s[k] \in O) /\ \A c \in O : \E k \in 1 .. n : s[k] = c
    BY DEF Lined
  <1> HIDE DEF v
  <1>3. DOMAIN v = 1 .. n /\ \A k \in 1 .. n : v[k] = <<s[k], it[s[k]]>>
    BY <1>1
  <1>4. Len(v) = n
    BY <1>1
  <1>5. \A k \in 1 .. n : v[k][1] = s[k] /\ v[k][2] = it[s[k]]
    BY <1>3
  <1>6. {v[k][1] : k \in 1 .. n} = O
    BY <1>2, <1>5
  <1>7. {v[k][2] : k \in 1 .. n} = {it[c] : c \in O}
    <2>1. \A k \in 1 .. n : v[k][2] \in {it[c] : c \in O}
      BY <1>2, <1>5
    <2>2. \A c \in O : \E k \in 1 .. n : v[k][2] = it[c]
      BY <1>2, <1>5
    <2> QED BY <2>1, <2>2
  <1> QED BY <1>3, <1>4, <1>5, <1>6, <1>7 DEF v

-----------------------------------------------------------------------------
(* The operation that was called *)

\* What was called for is under way, and is to happen at the store to p's next.
Asked(p) ==
  \/ /\ coming # NoNode /\ going = NoNode
     /\ \/ call = <<"head", coming, item[coming]>> /\ p = ListHead
        \/ call = <<"tail", coming, item[coming]>> /\ next[p] = ListHead
        \/ call = <<"before", coming, item[coming], next[p]>> /\ next[p] # ListHead
        \/ call = <<"after", coming, item[coming], p>> /\ p # ListHead
  \/ coming = NoNode /\ call = <<"del", going>>
  \/ coming # NoNode /\ going # NoNode /\ call = <<"replace", going, coming>>

AskedInv ==
  /\ call = NoCall <=> coming = NoNode /\ going = NoNode
  /\ \A s \in late : s[1] = "next" => Asked(s[2])
  /\ call \notin {NoCall, Done} => \E s \in late : s[1] = "next"

\* The store at which an operation is to happen is to a linked cell's next.
LEMMA LateNext ==
  ASSUME IInv, NEW s \in late, s[1] = "next"
  PROVE  s[2] \in Linked /\ s[2] # coming /\ (coming # NoNode => status[coming] = "new")
  <1> PICK p \in Cell, q \in Cell : WorkInv(p, q)
    BY DEF IInv, WriterInv, RestInv
  <1>1. s = NextStore(p, Forth(q))
    BY DEF WorkInv, PrevStore
  <1> QED BY <1>1 DEF WorkInv, NextStore

\* A new entry: the one store to a next is that to p's.
LEMMA LinkAsked ==
  ASSUME IInv, NEW n \in Node, NEW i, NEW p, NEW q, Link(n, i, p, q),
         call' \notin {NoCall, Done}, Asked(p)'
  PROVE  AskedInv'
  <1>1. coming' = n /\ n # NoNode
    BY NodeAssumption DEF Link
  <1>2. late' = BackStore(q, n) \cup {NextStore(p, n)}
    BY DEF Link
  <1>3. \A s \in BackStore(q, n) : s[1] = "prev"
    BY DEF BackStore, PrevStore
  <1>4. NextStore(p, n)[1] = "next" /\ NextStore(p, n)[2] = p
    BY DEF NextStore
  <1> QED BY <1>1, <1>2, <1>3, <1>4 DEF AskedInv

\* The five ways to add an entry put it where it is asked for.
LEMMA AddAsked ==
  ASSUME IInv, NEW n \in Node, NEW i \in Item, NEW m \in Node,
         \/ list_add_rcu(n, i) \/ list_add_tail_rcu(n, i)
         \/ hlist_add_head_rcu(n, i)
         \/ hlist_add_before_rcu(n, i, m) \/ hlist_add_after_rcu(m, n, i)
  PROVE  AskedInv'
  <1>1. /\ Idle /\ ListHead \in Linked /\ (m \in On => m \in Linked)
        /\ m # ListHead /\ ListHead \notin Node /\ NoNode \notin Node
    BY NodeAssumption DEF list_add_rcu, list_add_tail_rcu, hlist_add_head_rcu,
           hlist_add_before_rcu, hlist_add_after_rcu, Link, Linked
  <1>2. call' \notin {NoCall, Done}
    BY DEF list_add_rcu, list_add_tail_rcu, hlist_add_head_rcu, NoCall, Done,
           hlist_add_before_rcu, hlist_add_after_rcu
  <1>3. ASSUME NEW p, NEW q, Link(n, i, p, q)
        PROVE  coming' = n /\ going' = NoNode /\ item'[n] = i /\ next' = next /\ n # NoNode
    BY <1>1, <1>3 DEF Link, Idle, IInv, TypeOK
  <1>4. CASE list_add_rcu(n, i) \/ hlist_add_head_rcu(n, i)
    <2>1. Link(n, i, ListHead, next[ListHead]) /\ call' = <<"head", n, i>>
      BY <1>4 DEF list_add_rcu, hlist_add_head_rcu
    <2>2. Asked(ListHead)'
      BY <1>3, <2>1 DEF Asked
    <2> QED BY <1>2, <2>1, <2>2, LinkAsked
  <1>5. CASE list_add_tail_rcu(n, i)
    <2>1. next[prev[ListHead]] = ListHead
      BY <1>1, <1>5, Neighbours DEF HasBack, list_add_tail_rcu
    <2> PICK p : p = prev[ListHead]
      OBVIOUS
    <2>2. Link(n, i, p, ListHead) /\ call' = <<"tail", n, i>>
      BY <1>5 DEF list_add_tail_rcu
    <2>3. Asked(p)'
      BY <1>3, <2>1, <2>2 DEF Asked
    <2> QED BY <1>2, <2>2, <2>3, LinkAsked
  <1>6. CASE hlist_add_before_rcu(n, i, m)
    <2>1. next[prev[m]] = m
      BY <1>1, <1>6, Neighbours DEF HasBack, hlist_add_before_rcu
    <2> PICK p : p = prev[m]
      OBVIOUS
    <2>2. Link(n, i, p, m) /\ call' = <<"before", n, i, m>>
      BY <1>6 DEF hlist_add_before_rcu
    <2>3. Asked(p)'
      BY <1>1, <1>3, <2>1, <2>2 DEF Asked
    <2> QED BY <1>2, <2>2, <2>3, LinkAsked
  <1>7. CASE hlist_add_after_rcu(m, n, i)
    <2>1. Link(n, i, m, next[m]) /\ call' = <<"after", n, i, m>>
      BY <1>7 DEF hlist_add_after_rcu
    <2>2. Asked(m)'
      BY <1>1, <1>3, <2>1 DEF Asked
    <2> QED BY <1>2, <2>1, <2>2, LinkAsked
  <1> QED BY <1>4, <1>5, <1>6, <1>7

\* So do a removal and a replacement.
LEMMA DelAsked ==
  ASSUME IInv, NEW n \in Node, list_del_rcu(n)
  PROVE  AskedInv'
  <1>1. /\ coming' = NoNode /\ going' = n /\ n # NoNode /\ call' = <<"del", n>>
        /\ late' = BackStore(next[n], prev[n]) \cup
                     {NextStore(prev[n], next[n]), PrevStore(n, Poison)}
    BY NodeAssumption DEF list_del_rcu, Idle
  <1>2. \E s \in late' : s[1] = "next"
    <2> PICK x : x = NextStore(prev[n], next[n])
      OBVIOUS
    <2>1. x \in late' /\ x[1] = "next"
      BY <1>1 DEF NextStore
    <2> QED BY <2>1
  <1>3. \A c : Asked(c)'
    BY <1>1 DEF Asked
  <1>4. call' # NoCall
    BY <1>1 DEF NoCall
  <1> QED BY <1>1, <1>2, <1>3, <1>4 DEF AskedInv

LEMMA ReplaceAsked ==
  ASSUME IInv, NEW old \in Node, NEW n \in Node, list_replace_rcu(old, n)
  PROVE  AskedInv'
  <1>1. /\ coming' = n /\ going' = old /\ n # NoNode /\ old # NoNode
        /\ call' = <<"replace", old, n>>
        /\ late' = {PrevStore(next[old], n), NextStore(prev[old], n)}
    BY NodeAssumption DEF list_replace_rcu
  <1>2. \E s \in late' : s[1] = "next"
    <2> PICK x : x = NextStore(prev[old], n)
      OBVIOUS
    <2>1. x \in late' /\ x[1] = "next"
      BY <1>1 DEF NextStore
    <2> QED BY <2>1
  <1>3. \A c : Asked(c)'
    BY <1>1 DEF Asked
  <1>4. call' # NoCall
    BY <1>1 DEF NoCall
  <1> QED BY <1>1, <1>2, <1>3, <1>4 DEF AskedInv

\* A step that leaves the operation alone, with no other store to a next to come.
LEMMA AskedFrame ==
  ASSUME IInv, AskedInv, UNCHANGED <<coming, going, call>>,
         \A s \in late : s[1] = "next" => s \in late',
         late' \subseteq late,
         \A c \in Linked : next'[c] = next[c],
         coming # NoNode /\ status[coming] = "new" => item'[coming] = item[coming]
  PROVE  AskedInv'
  <1>1. ASSUME NEW s \in late, s[1] = "next" PROVE Asked(s[2])'
    <2>1. Asked(s[2]) /\ next'[s[2]] = next[s[2]]
      BY <1>1, LateNext DEF AskedInv
    <2>2. coming # NoNode => item'[coming] = item[coming]
      BY <1>1, LateNext
    <2> QED BY <2>1, <2>2 DEF Asked
  <1> QED BY <1>1 DEF AskedInv

\* What is called for is what is under way.
LEMMA AskedStays ==
  /\ Init => AskedInv
  /\ IInv /\ AskedInv /\ [Next]_vars => AskedInv'
  <1>1. Init => AskedInv
    BY DEF Init, AskedInv
  <1> SUFFICES ASSUME IInv, AskedInv, [Next]_vars PROVE AskedInv'
    BY <1>1
  <1>2. ASSUME NEW s \in early \cup late, StoreAside(s) PROVE AskedInv'
    <2>1. /\ UNCHANGED <<coming, going, call, item>> /\ late' = late \ {s}
          /\ \A c \in Linked : next'[c] = next[c]
      BY <1>2, StoreAsideInv DEF StoreAside, Calm
    <2>2. s \in late => s[1] # "next"
      BY <1>2, LateNext DEF StoreAside
    <2> QED BY <2>1, <2>2, AskedFrame
  <1>3. ASSUME NEW s \in early \cup late, StorePublish(s) PROVE AskedInv'
    <2>1. UNCHANGED <<coming, going>> /\ late' = late \ {s} /\ call' = Done
      BY <1>3 DEF StorePublish
    <2> PICK p \in Cell, q \in Cell : WorkInv(p, q)
      BY <1>3 DEF IInv, WriterInv, RestInv
    <2>2. \A x \in late : x[1] = "next" => x = NextStore(p, Forth(q))
      BY DEF WorkInv, PrevStore
    <2>3. s \in late /\ s[1] = "next"
      BY <1>3, StorePublishInv
    <2>4. \A x \in late' : x[1] # "next"
      BY <2>1, <2>2, <2>3
    <2>5. ~(coming = NoNode /\ going = NoNode)
      BY DEF WorkInv
    <2> QED BY <2>1, <2>4, <2>5 DEF AskedInv, Done, NoCall
  <1>4. CASE Return
    BY <1>4 DEF Return, AskedInv
  <1>5. ASSUME NEW n \in Node, call_rcu(n) PROVE AskedInv'
    <2>1. UNCHANGED <<coming, going, call, item, late, next>>
      BY <1>5 DEF call_rcu
    <2> QED BY <2>1, AskedFrame
  <1>6. ASSUME NEW n \in Node, Callback(n) PROVE AskedInv'
    <2>1. /\ UNCHANGED <<coming, going, call, late>> /\ status[n] = "dying"
          /\ item' = [item EXCEPT ![n] = NoItem] /\ next' = [next EXCEPT ![n] = Poison]
      BY <1>6 DEF Callback
    <2>2. \A c \in Linked : next'[c] = next[c]
      BY <2>1, NodeAssumption DEF Linked, On, IInv, TypeOK, Cell
    <2>3. coming # NoNode /\ status[coming] = "new" => item'[coming] = item[coming]
      BY <2>1 DEF IInv, TypeOK
    <2> QED BY <2>1, <2>2, <2>3, AskedFrame
  <1>7. CASE UNCHANGED writer
    <2>1. UNCHANGED <<coming, going, call, item, late, next>>
      BY <1>7 DEF writer
    <2> QED BY <2>1, AskedFrame
  <1>8. CASE Write
    BY <1>2, <1>3, <1>4, <1>5, <1>6, <1>8, AddAsked, DelAsked, ReplaceAsked DEF Write
  <1>9. CASE Read
    BY <1>7, <1>9 DEF Read, ReadLock, Fetch, Advance, ReadUnlock
  <1> QED BY <1>7, <1>8, <1>9 DEF Next, vars

\* The operation called takes the sequence v to w.
ListStep(v, w) ==
  \/ call[1] = "head" /\ w = List!InsertAt(v, 1, <<call[2], call[3]>>)
  \/ call[1] = "tail" /\ w = List!InsertAt(v, Len(v) + 1, <<call[2], call[3]>>)
  \/ \E k \in DOMAIN v :
       \/ /\ call[1] = "before" /\ v[k][1] = call[4]
          /\ w = List!InsertAt(v, k, <<call[2], call[3]>>)
       \/ /\ call[1] = "after" /\ v[k][1] = call[4]
          /\ w = List!InsertAt(v, k + 1, <<call[2], call[3]>>)
       \/ call[1] = "del" /\ v[k][1] = call[2] /\ w = List!RemoveAt(v, k)
       \/ /\ call[1] = "replace" /\ v[k][1] = call[2]
          /\ w = List!ReplaceAt(v, k, <<call[3], v[k][2]>>)

\* The store at which an operation happens is one such step.
LEMMA HappensLine ==
  ASSUME IInv, NEW s, Lined(next, s, On), NEW p \in Cell, NEW q \in Cell, Happens(p, q),
         Asked(p)
  PROVE  \E t : /\ Lined(next', t, On')
                /\ ListStep(Carrying(item, s), Carrying(item', t))
  <1>1. ListHead \notin Node /\ On \subseteq Node /\ NoNode \notin Node
    BY NodeAssumption DEF On
  <1>2. /\ next \in [Cell -> Cell \cup {Poison}] /\ coming \in Node \cup {NoNode}
        /\ going \in Node \cup {NoNode}
    BY DEF IInv, TypeOK
  <1> PICK n \in Nat : n = Len(s) /\ s \in Seq(Node)
    BY <1>1, NthApart
  <1>3. /\ Nth(s, 0) = ListHead /\ Nth(s, n + 1) = ListHead
        /\ \A k \in 1 .. n : Nth(s, k) = s[k] /\ s[k] \in On
        /\ \A i, k \in 0 .. n : Nth(s, i) = Nth(s, k) => i = k
        /\ \A k \in 0 .. n : Nth(s, k) \in On \cup {ListHead}
        /\ \A c \in On \cup {ListHead} : \E k \in 0 .. n : Nth(s, k) = c
    BY <1>1, NthApart
  <1>4. \A k \in 0 .. n : next[Nth(s, k)] = Nth(s, k + 1)
    BY DEF Lined
  <1>5. PICK j \in 0 .. n : Nth(s, j) = p
    BY <1>3 DEF Happens, Linked
  <1>6. next[p] = Nth(s, j + 1)
    BY <1>4, <1>5
  <1> PICK v : v = Carrying(item, s)
    OBVIOUS
  <1>7. /\ DOMAIN v = 1 .. n /\ Len(v) = n
        /\ \A k \in 1 .. n : v[k][1] = s[k] /\ v[k][2] = item[s[k]]
        /\ {v[k][1] : k \in DOMAIN v} = On
        /\ {v[k][2] : k \in DOMAIN v} = {item[c] : c \in On}
    BY <1>1, CarriedIs
  <1>8. /\ next' = [next EXCEPT ![p] = Forth(q)] /\ item' = item
        /\ On' = (On \ {going}) \cup ({coming} \cap Node)
        /\ \A d \in Cell \ {p} : next'[d] = next[d]
        /\ next'[p] = Forth(q)
        /\ On \cup {ListHead} \subseteq Cell
    BY <1>1, <1>2 DEF Happens, Cell
  <1>9. CASE going = NoNode
    <2>1. /\ coming \in Node /\ coming \notin On /\ item[coming] \in Item
          /\ next[coming] = q /\ next[p] = q /\ Forth(q) = coming
          /\ item[coming] \notin {item[m] : m \in On} /\ coming # p
          /\ On' = On \cup {coming}
      BY <1>1, <1>8, <1>9 DEF Happens, Forth, Linked
    <2>2. Lined(next', List!InsertAt(s, j + 1, coming), On \cup {coming})
      <3>1. /\ next'[Nth(s, j)] = coming /\ next'[coming] = Nth(s, j + 1)
            /\ \A d \in (On \cup {ListHead}) \ {Nth(s, j)} : next'[d] = next[d]
        BY <1>5, <1>6, <1>8, <2>1 DEF Cell
      <3> QED BY <1>1, <2>1, <3>1, LineGrows
    <2>3. Carrying(item, List!InsertAt(s, j + 1, coming)) =
            List!InsertAt(v, j + 1, <<coming, item[coming]>>)
      <3> PICK k \in 1 .. Len(s) + 1, c \in Node : k = j + 1 /\ c = coming
        BY <2>1
      <3>1. Carrying(item, List!InsertAt(s, k, c)) =
              List!InsertAt(Carrying(item, s), k, <<c, item[c]>>)
        BY CarryingOn
      <3> QED BY <3>1
    <2>4. j + 1 \in 1 .. Len(v) + 1
      BY <1>7
    <2>5. ListStep(v, Carrying(item, List!InsertAt(s, j + 1, coming)))
      <3> PICK w, e : w = Carrying(item, List!InsertAt(s, j + 1, coming))
                      /\ e = <<coming, item[coming]>>
        OBVIOUS
      <3>1. w = List!InsertAt(v, j + 1, e)
        BY <2>3
      <3>2. CASE call = <<"head", coming, item[coming]>> /\ p = ListHead
        <4>1. j + 1 = 1
          <5>1. 0 \in 0 .. n
            OBVIOUS
          <5>2. j = 0
            BY <1>3, <1>5, <3>2, <5>1
          <5> QED BY <5>2
        <4>2. call[1] = "head" /\ <<call[2], call[3]>> = e
          BY <3>2
        <4> QED BY <3>1, <4>1, <4>2 DEF ListStep
      <3>3. CASE call = <<"tail", coming, item[coming]>> /\ next[p] = ListHead
        <4>1. j + 1 = Len(v) + 1
          <5>1. j + 1 \notin 1 .. n
            BY <1>1, <1>3, <1>6, <3>3
          <5> QED BY <1>7, <5>1
        <4>2. call[1] = "tail" /\ <<call[2], call[3]>> = e
          BY <3>3
        <4> QED BY <3>1, <4>1, <4>2 DEF ListStep
      <3>4. CASE call = <<"before", coming, item[coming], next[p]>> /\ next[p] # ListHead
        <4>1. j + 1 \in DOMAIN v /\ v[j + 1][1] = next[p]
          <5>1. j + 1 # n + 1
            BY <1>3, <1>6, <3>4
          <5>2. j + 1 \in 1 .. n
            BY <5>1
          <5> QED BY <1>3, <1>6, <1>7, <5>2
        <4>2. call[1] = "before" /\ <<call[2], call[3]>> = e /\ call[4] = next[p]
          BY <3>4
        <4> QED BY <3>1, <4>1, <4>2 DEF ListStep
      <3>5. CASE call = <<"after", coming, item[coming], p>> /\ p # ListHead
        <4>1. j \in DOMAIN v /\ v[j][1] = p
          <5>1. j # 0
            BY <1>3, <1>5, <3>5
          <5>2. j \in 1 .. n
            BY <5>1
          <5> QED BY <1>3, <1>5, <1>7, <5>2
        <4>2. call[1] = "after" /\ <<call[2], call[3]>> = e /\ call[4] = p
          BY <3>5
        <4> QED BY <3>1, <4>1, <4>2 DEF ListStep
      <3>6. coming # NoNode
        BY <1>1, <2>1
      <3> QED BY <1>9, <3>2, <3>3, <3>4, <3>5, <3>6 DEF Asked
    <2> QED BY <1>8, <2>1, <2>2, <2>5
  <1>10. ASSUME going # NoNode
         PROVE  /\ j + 1 \in 1 .. n /\ s[j + 1] = going /\ going \in On
                /\ next[going] = Nth(s, (j + 1) + 1) /\ next[going] = q
                /\ (j + 1) - 1 = j
    <2>1. going \in On /\ next[p] = going /\ next[going] = q /\ going # ListHead
      BY <1>1, <1>10 DEF Happens
    <2>2. j + 1 \in 1 .. n
      <3>1. j + 1 # n + 1
        BY <1>3, <1>6, <2>1
      <3> QED BY <3>1
    <2>3. s[j + 1] = going /\ j + 1 \in 0 .. n
      BY <1>3, <1>6, <2>1, <2>2
    <2>4. next[going] = Nth(s, (j + 1) + 1)
      BY <1>3, <1>4, <2>2, <2>3
    <2> QED BY <2>1, <2>2, <2>3, <2>4
  <1>11. CASE going # NoNode /\ coming = NoNode
    <2> PICK k \in 1 .. n : k = j + 1
      BY <1>10, <1>11
    <2>1. /\ s[k] = going /\ next[going] = Nth(s, k + 1) /\ Nth(s, k - 1) = p
          /\ Forth(q) = Nth(s, k + 1) /\ On' = On \ {s[k]}
      BY <1>1, <1>5, <1>8, <1>10, <1>11 DEF Forth
    <2>2. Lined(next', List!RemoveAt(s, k), On \ {s[k]})
      <3>1. /\ next'[Nth(s, k - 1)] = Nth(s, k + 1)
            /\ \A d \in (On \cup {ListHead}) \ {Nth(s, k - 1)} : next'[d] = next[d]
        BY <1>8, <2>1
      <3> QED BY <1>1, <3>1, LineShrinks
    <2>3. Carrying(item, List!RemoveAt(s, k)) = List!RemoveAt(v, k)
      BY CarryingOn
    <2>4. ListStep(v, Carrying(item, List!RemoveAt(s, k)))
      <3>1. call = <<"del", going>>
        BY <1>11 DEF Asked
      <3>2. call[1] = "del" /\ call[2] = going
        BY <3>1
      <3>3. k \in DOMAIN v /\ v[k][1] = going
        BY <1>7, <2>1
      <3> QED BY <2>3, <3>2, <3>3 DEF ListStep
    <2> QED BY <1>8, <2>1, <2>2, <2>4
  <1>12. CASE going # NoNode /\ coming # NoNode
    <2> PICK k \in 1 .. n : k = j + 1
      BY <1>10, <1>12
    <2>1. /\ s[k] = going /\ next[going] = Nth(s, k + 1) /\ Nth(s, k - 1) = p
          /\ Forth(q) = coming /\ coming \in Node /\ coming \notin On
          /\ On' = (On \ {s[k]}) \cup {coming}
          /\ next[coming] = q /\ next[going] = q /\ coming # p
          /\ item[coming] = item[going]
      BY <1>1, <1>5, <1>8, <1>10, <1>12 DEF Forth, Happens, Linked
    <2>2. Lined(next', [s EXCEPT ![k] = coming], (On \ {s[k]}) \cup {coming})
      <3>1. /\ next'[Nth(s, k - 1)] = coming /\ next'[coming] = Nth(s, k + 1)
            /\ \A d \in (On \cup {ListHead}) \ {Nth(s, k - 1)} : next'[d] = next[d]
        BY <1>8, <2>1 DEF Cell
      <3>2. ListHead \notin Node /\ On \subseteq Node /\ Lined(next, s, On)
            /\ coming \in Node /\ coming \notin On /\ k \in 1 .. Len(s)
        BY <1>1, <2>1
      <3> PICK c \in Node, i \in 1 .. Len(s) : c = coming /\ i = k
        BY <3>2
      <3>3. Lined(next', [s EXCEPT ![i] = c], (On \ {s[i]}) \cup {c})
        BY ONLY <3>1, <3>2, LineSwaps, c = coming, i = k,
                c \in Node, i \in 1 .. Len(s)
      <3> QED BY <3>3
    <2>3. Carrying(item, [s EXCEPT ![k] = coming]) =
            [v EXCEPT ![k] = <<coming, item[coming]>>]
      <3> PICK c \in Node : c = coming
        BY <2>1
      <3>1. \A i \in 1 .. Len(s), d \in Node :
              Carrying(item, [s EXCEPT ![i] = d]) =
                [Carrying(item, s) EXCEPT ![i] = <<d, item[d]>>]
        <4>1. s \in Seq(Node)
          OBVIOUS
        <4> QED BY ONLY <4>1, CarryingOn
      <3> QED BY <3>1
    <2>4. [v EXCEPT ![k] = <<coming, item[coming]>>] =
            List!ReplaceAt(v, k, <<coming, v[k][2]>>)
      BY <1>7, <2>1 DEF List!ReplaceAt
    <2>5. ListStep(v, Carrying(item, [s EXCEPT ![k] = coming]))
      <3> PICK w : w = Carrying(item, [s EXCEPT ![k] = coming])
        OBVIOUS
      <3> PICK c \in Node : c = coming
        BY <2>1
      <3>1. k \in DOMAIN v /\ v[k][1] = going /\ w = List!ReplaceAt(v, k, <<c, v[k][2]>>)
        BY <1>7, <2>1, <2>3, <2>4
      <3>2. call = <<"replace", going, coming>>
        BY <1>12 DEF Asked
      <3>3. call[1] = "replace" /\ call[2] = going /\ call[3] = c
        BY <3>2
      <3> QED BY <3>1, <3>3 DEF ListStep
    <2> QED BY <1>8, <2>1, <2>2, <2>5
  <1> QED BY <1>9, <1>11, <1>12

\* The pointers lead along a sequence in the first state, and after each step.
LEMMA LineStays ==
  /\ Init => LineInv
  /\ IInv /\ AskedInv /\ LineInv /\ [Next]_vars => LineInv'
  <1>1. ASSUME Init PROVE Lined(next, << >>, On)
    <2>1. On = {} /\ next[ListHead] = ListHead
      BY <1>1 DEF Init, On, Cell
    <2>2. << >> \in Seq(Node) /\ Len(<< >>) = 0
      OBVIOUS
    <2>3. \A k \in 0 .. 1 : Nth(<< >>, k) = ListHead
      BY <2>2 DEF Nth
    <2>4. \A k \in 0 .. Len(<< >>) : k = 0 /\ k + 1 \in 0 .. 1
      BY <2>2
    <2> QED BY <2>1, <2>2, <2>3, <2>4 DEF Lined
  <1>2. ASSUME IInv, AskedInv, LineInv, [Next]_vars PROVE LineInv'
    <2> PICK s : Lined(next, s, On)
      BY <1>2 DEF LineInv
    <2>1. CASE \E x \in early \cup late : StorePublish(x)
      BY <1>2, <2>1, StorePublishInv, HappensLine DEF LineInv, AskedInv
    <2>2. CASE ~ \E x \in early \cup late : StorePublish(x)
      BY <1>2, <2>2, CalmSteps, CalmLine DEF LineInv
    <2> QED BY <2>1, <2>2
  <1> QED BY <1>1, <1>2 DEF LineInv

\* What Entries is before and after a step.
LEMMA EntriesBothTimes ==
  /\ \A s, O : Lined(next, s, O) => Entries = Carrying(item, s)
  /\ (\A s, O : Lined(next, s, O) => Entries = Carrying(item, s))'
  <1>1. \A s, O : Lined(next, s, O) => Entries = Carrying(item, s)
    BY EntriesAre, NodeAssumption, MemoryAssumption
  <1> QED BY <1>1, PTL

\* Another step calls an operation that the list O with the items I can be asked
\* for, or returns.
Begins(O, I) ==
  \/ call' = call
  \/ call = Done /\ call' = NoCall
  \/ /\ call = NoCall
     /\ \E n \in Node :
          \/ /\ n \notin O
             /\ \E i \in Item \ I :
                  \/ call' \in {<<"head", n, i>>, <<"tail", n, i>>}
                  \/ \E m \in O : call' \in {<<"before", n, i, m>>, <<"after", n, i, m>>}
          \/ n \in O /\ call' = <<"del", n>>
          \/ n \notin O /\ \E m \in O : call' = <<"replace", m, n>>

LEMMA OthersBegin ==
  ASSUME IInv, AskedInv, [Next]_vars, ~ \E s \in early \cup late : StorePublish(s)
  PROVE  Begins(On, {item[m] : m \in On})
  <1>1. Idle => call = NoCall
    BY DEF Idle, AskedInv
  <1>2. \A n \in Node : status[n] = "spare" => n \notin On
    BY DEF On
  <1>3. ASSUME NEW n \in Node, NEW i \in Item, NEW m \in Node,
               \/ list_add_rcu(n, i) \/ list_add_tail_rcu(n, i)
               \/ hlist_add_head_rcu(n, i)
               \/ hlist_add_before_rcu(n, i, m) \/ hlist_add_after_rcu(m, n, i)
        PROVE  Begins(On, {item[c] : c \in On})
    <2>1. call = NoCall /\ n \notin On /\ i \in Item \ {item[c] : c \in On}
      BY <1>1, <1>2, <1>3
      DEF list_add_rcu, list_add_tail_rcu, hlist_add_head_rcu,
          hlist_add_before_rcu, hlist_add_after_rcu, Link
    <2>2. \/ call' \in {<<"head", n, i>>, <<"tail", n, i>>}
          \/ m \in On /\ call' \in {<<"before", n, i, m>>, <<"after", n, i, m>>}
      BY <1>3
      DEF list_add_rcu, list_add_tail_rcu, hlist_add_head_rcu,
          hlist_add_before_rcu, hlist_add_after_rcu
    <2> QED BY <2>1, <2>2 DEF Begins
  <1>4. ASSUME NEW n \in Node, list_del_rcu(n) PROVE Begins(On, {item[c] : c \in On})
    BY <1>1, <1>4 DEF list_del_rcu, Begins
  <1>5. ASSUME NEW n \in Node, NEW m \in Node, list_replace_rcu(n, m)
        PROVE  Begins(On, {item[c] : c \in On})
    BY <1>1, <1>2, <1>5 DEF list_replace_rcu, Begins
  <1>6. CASE Return
    BY <1>6 DEF Return, AskedInv, Begins
  <1>7. CASE call' = call
    BY <1>7 DEF Begins
  <1>8. CASE Write
    BY <1>3, <1>4, <1>5, <1>6, <1>7, <1>8 DEF Write, StoreAside, call_rcu, Callback
  <1>9. CASE Read
    BY <1>7, <1>9 DEF Read, ReadLock, Fetch, Advance, ReadUnlock, writer
  <1> QED BY <1>7, <1>8, <1>9 DEF Next, vars, writer

\* "The old entry will be replaced with the new entry atomically", and so with
\* the other operations: for any number of entries, items and readers, the list
\* is a sequence that each operation changes in one instant between its call and
\* its return: the entry passed to it joins at the head, at the tail or next to
\* the entry that was named, or the one that was named goes or is replaced.
THEOREM ListImplemented == Spec => ImplementsList
  <1>1. Init => List!Init
    <2> SUFFICES ASSUME Init PROVE Entries = << >>
      BY DEF List!Init, Init, NoCall, List!NoCall
    <2>1. PICK s : Lined(next, s, On)
      BY LineStays DEF LineInv
    <2>2. Lined(next, s, {})
      <3>1. On = {}
        BY DEF Init, On
      <3> QED BY <2>1, <3>1
    <2>3. s \in Seq(Node) /\ ~ \E k \in 1 .. Len(s) : TRUE
      BY <2>2 DEF Lined
    <2>4. Carrying(item, s) = << >>
      <3>1. Len(s) = 0
        <4>1. Len(s) \in Nat /\ (Len(s) # 0 => 1 \in 1 .. Len(s))
          BY <2>3
        <4> QED BY <2>3, <4>1
      <3> QED BY <3>1 DEF Carrying
    <2> QED BY <2>1, <2>4, EntriesBothTimes
  <1>2. IInv /\ AskedInv /\ LineInv /\ [Next]_vars => [List!Next]_<<Entries, call>>
    <2> SUFFICES ASSUME IInv, AskedInv, LineInv, [Next]_vars
                 PROVE  UNCHANGED <<Entries, call>> \/ List!Next
      OBVIOUS
    <2> PICK s : Lined(next, s, On)
      BY DEF LineInv
    <2>1. Entries = Carrying(item, s)
      BY EntriesBothTimes
    <2>2. CASE \E x \in early \cup late : StorePublish(x)
      <3> PICK x \in early \cup late : StorePublish(x)
        BY <2>2
      <3>1. PICK t : /\ Lined(next', t, On')
                     /\ ListStep(Carrying(item, s), Carrying(item', t))
        BY StorePublishInv, HappensLine DEF AskedInv
      <3>2. Entries' = Carrying(item', t)
        BY <3>1, EntriesBothTimes
      <3>3. ListStep(Entries, Entries')
        BY <2>1, <3>1, <3>2
      <3>4. call' = List!Done
        BY DEF StorePublish, Done, List!Done
      <3> QED
        BY <3>3, <3>4
        DEF ListStep, List!Next, List!Insert, List!Delete, List!Replace, List!AddHead,
            List!AddTail, List!AddBefore, List!AddAfter
    <2>3. CASE ~ \E x \in early \cup late : StorePublish(x)
      <3>1. Lined(next', s, On') /\ Carrying(item', s) = Carrying(item, s)
        BY <2>3, CalmSteps, CalmLine
      <3>2. UNCHANGED Entries
        BY <2>1, <3>1, EntriesBothTimes
      <3>3. List!Nodes = On /\ List!Items = {item[m] : m \in On}
        <4> PICK v : v = Carrying(item, s)
          OBVIOUS
        <4>1. ListHead \notin Node /\ On \subseteq Node
          BY NodeAssumption DEF On
        <4>2. /\ {v[k][1] : k \in DOMAIN v} = On
              /\ {v[k][2] : k \in DOMAIN v} = {item[c] : c \in On}
          BY <4>1, CarriedIs
        <4> QED BY <2>1, <4>2 DEF List!Nodes, List!Items
      <3>4. Begins(List!Nodes, List!Items)
        BY <2>3, <3>3, OthersBegin
      <3>5. CASE call' = call
        BY <3>2, <3>5
      <3>6. CASE call = Done /\ call' = NoCall
        BY <3>2, <3>6 DEF NoCall, Done, List!NoCall, List!Done, List!Next, List!Return
      <3>7. ASSUME call = NoCall, NEW n \in Node, n \notin List!Nodes,
                   NEW i \in Item \ List!Items,
                   \/ call' \in {<<"head", n, i>>, <<"tail", n, i>>}
                   \/ \E m \in List!Nodes :
                        call' \in {<<"before", n, i, m>>, <<"after", n, i, m>>}
            PROVE  List!CallAdd(n, i)
        BY <3>2, <3>7 DEF NoCall, List!NoCall, List!Calls, List!CallAdd
      <3>8. ASSUME call = NoCall, NEW n \in List!Nodes, call' = <<"del", n>>
            PROVE  List!CallDel(n)
        BY <3>2, <3>8 DEF NoCall, List!NoCall, List!Calls, List!CallDel
      <3>9. ASSUME call = NoCall, NEW n \in Node, n \notin List!Nodes,
                   NEW m \in List!Nodes, call' = <<"replace", m, n>>
            PROVE  List!CallReplace(m, n)
        BY <3>2, <3>9 DEF NoCall, List!NoCall, List!Calls, List!CallReplace
      <3>10. List!Nodes \subseteq Node
        BY <3>3 DEF On
      <3> QED
        BY <3>4, <3>5, <3>6, <3>7, <3>8, <3>9, <3>10 DEF Begins, List!Next
    <2> QED BY <2>2, <2>3
  <1>3. Init => LineInv /\ AskedInv
    BY LineStays, AskedStays
  <1>4. IInv /\ AskedInv /\ LineInv /\ [Next]_vars => (LineInv /\ AskedInv)'
    BY LineStays, AskedStays
  <1>5. Spec => [](LineInv /\ AskedInv)
    BY <1>3, <1>4, Invariance, PTL DEF Spec
  <1> QED
    BY <1>1, <1>2, <1>5, Invariance, PTL DEF Spec, ImplementsList, List!Spec

=============================================================================

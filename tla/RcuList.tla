------------------------------ MODULE RcuList ------------------------------
(***************************************************************************)
(* A list of linux/list.h that is traversed under rcu_read_lock while it   *)
(* is changed: the circular list_head with list_add_rcu,                   *)
(* list_add_tail_rcu, list_del_rcu and list_replace_rcu, or the hlist with *)
(* its four _rcu operations.                                               *)
(*                                                                         *)
(* An hlist has NULL at its end and no pointer to its tail, and the pprev  *)
(* of a node is the address of the pointer to it.  With NULL read as the   *)
(* head, and that address as the node it lies in, both lists have one      *)
(* shape; only the prev of the head is missing in an hlist.                *)
(*                                                                         *)
(* Writers "must take whatever precautions are necessary" to exclude each  *)
(* other, so one operation is under way at a time.  Readers are not        *)
(* excluded, and see the stores of an operation one by one: those on       *)
(* either side of its smp_wmb in order, the others in any order.  RCU      *)
(* itself is not in the headers: call_rcu runs its callback, here the      *)
(* freeing of the node, when every section open at the call has ended.     *)
(***************************************************************************)
EXTENDS Naturals, Sequences, FiniteSets

CONSTANTS
  Node,       \* the entries that the program has memory for
  Item,       \* what an entry carries: no two on the list carry the same
  Reader,     \* CPUs that traverse the list
  ListHead, Poison, NoNode, NoItem

ASSUME NodeAssumption ==
  /\ ListHead \notin Node /\ Poison \notin Node /\ NoNode \notin Node
  /\ ListHead # Poison /\ ListHead # NoNode /\ Poison # NoNode
  /\ NoItem \notin Item

\* Memory has room for finitely many entries.
ASSUME MemoryAssumption == IsFiniteSet(Node)

VARIABLES
  kind,     \* "list" or "hlist"
  next,     \* the next pointers, that of ListHead being first for an hlist
  prev,     \* the prev or pprev pointers
  early,    \* stores of the operation under way ahead of its smp_wmb ...
  late,     \* ... and behind it, still invisible to others
  coming,   \* the entry that the operation is adding, or NoNode
  going,    \* the entry that it is removing, or NoNode
  status,   \* where an entry is in its life
  item,     \* what an entry carries
  call,     \* history: the operation called, until it happens, and then Done
  waits,    \* the sections whose end the callback of an entry waits for
  in,       \* the readers inside rcu_read_lock ... rcu_read_unlock
  at,       \* pos, the cursor of a reader
  ahead,    \* the pointer a reader has fetched to go to, or NoNode
  must,     \* history: items on the list ever since the traversal began
  seen      \* history: items the traversal has come to

writer == <<kind, next, prev, early, late, coming, going, status, item,
            call>>
reader == <<in, at, ahead>>
vars == <<writer, waits, reader, must, seen>>

Cell == Node \cup {ListHead}
On == {n \in Node : status[n] = "on"}
NoCall == <<"none">>
Done == <<"done">>

Idle == early = {} /\ late = {} /\ coming = NoNode /\ going = NoNode

\* p->next = v and p->prev = v
NextStore(p, v) == <<"next", p, v>>
PrevStore(p, v) == <<"prev", p, v>>

\* The way back to x goes to v; the head of an hlist has no way back.
BackStore(x, v) ==
  IF x = ListHead /\ kind = "hlist" THEN {} ELSE {PrevStore(x, v)}

-----------------------------------------------------------------------------

Init ==
  /\ kind \in {"list", "hlist"}
  /\ next = [c \in Cell |-> IF c = ListHead THEN ListHead ELSE Poison]
  /\ prev = [c \in Cell |->
               IF c = ListHead /\ kind = "list" THEN ListHead ELSE Poison]
  /\ early = {} /\ late = {}
  /\ coming = NoNode /\ going = NoNode
  /\ status = [n \in Node |-> "spare"]
  /\ item = [n \in Node |-> NoItem]
  /\ call = NoCall
  /\ waits = [n \in Node |-> {}]
  /\ in = {}
  /\ at = [r \in Reader |-> ListHead]
  /\ ahead = [r \in Reader |-> NoNode]
  /\ must = [r \in Reader |-> {}]
  /\ seen = [r \in Reader |-> {}]

\* Faulty variant: no smp_wmb between filling in the entry and linking it.
LinkNoBarrier(n, i, p, q) ==
  /\ Idle
  /\ status[n] = "spare"
  /\ i \notin {item[m] : m \in On}
  /\ early' = {NextStore(n, q), PrevStore(n, p), NextStore(p, n)}
  /\ late' = BackStore(q, n)
  /\ coming' = n
  /\ status' = [status EXCEPT ![n] = "new"]
  /\ item' = [item EXCEPT ![n] = i]
  /\ UNCHANGED <<kind, next, prev, going, waits, reader, must, seen>>

\* __list_add_rcu: a new entry between two that are next to each other.
Link(n, i, p, q) ==
  /\ Idle
  /\ status[n] = "spare"
  /\ i \notin {item[m] : m \in On}
  /\ early' = {NextStore(n, q), PrevStore(n, p)}
  /\ late' = BackStore(q, n) \cup {NextStore(p, n)}
  /\ coming' = n
  /\ status' = [status EXCEPT ![n] = "new"]
  /\ item' = [item EXCEPT ![n] = i]
  /\ UNCHANGED <<kind, next, prev, going, waits, reader, must, seen>>

list_add_rcu(n, i) ==
  /\ kind = "list" /\ call' = <<"head", n, i>>
  /\ Link(n, i, ListHead, next[ListHead])

\* Faulty variant: the entry goes behind the head, where list_add puts it.
list_add_tail_rcuAtHead(n, i) ==
  /\ kind = "list" /\ call' = <<"tail", n, i>>
  /\ Link(n, i, ListHead, next[ListHead])

list_add_tail_rcu(n, i) ==
  /\ kind = "list" /\ call' = <<"tail", n, i>>
  /\ Link(n, i, prev[ListHead], ListHead)

hlist_add_head_rcu(n, i) ==
  /\ kind = "hlist" /\ call' = <<"head", n, i>>
  /\ Link(n, i, ListHead, next[ListHead])

hlist_add_before_rcu(n, i, q) ==
  /\ kind = "hlist" /\ q \in On /\ call' = <<"before", n, i, q>>
  /\ Link(n, i, prev[q], q)

hlist_add_after_rcu(p, n, i) ==
  /\ kind = "hlist" /\ p \in On /\ call' = <<"after", n, i, p>>
  /\ Link(n, i, p, next[p])

\* Faulty variant: the entry is made one that is on no list, as by hlist_del_init.
list_del_rcuReset(n) ==
  /\ Idle
  /\ n \in On
  /\ late' = BackStore(next[n], prev[n]) \cup
               {NextStore(prev[n], next[n]),
                NextStore(n, IF kind = "hlist" THEN ListHead ELSE n),
                PrevStore(n, Poison)}
  /\ going' = n
  /\ call' = <<"del", n>>
  /\ UNCHANGED <<kind, next, prev, early, coming, status, item, waits, reader,
                 must, seen>>

\* list_del_rcu and hlist_del_rcu leave the entry's next alone.
list_del_rcu(n) ==
  /\ Idle
  /\ n \in On
  /\ late' = BackStore(next[n], prev[n]) \cup
               {NextStore(prev[n], next[n]), PrevStore(n, Poison)}
  /\ going' = n
  /\ call' = <<"del", n>>
  /\ UNCHANGED <<kind, next, prev, early, coming, status, item, waits, reader,
                 must, seen>>

\* Faulty variant: the new entry is put in front of the old one.
list_replace_rcuInFront(old, n) ==
  /\ kind = "list"
  /\ Idle
  /\ old \in On
  /\ status[n] = "spare"
  /\ early' = {NextStore(n, old), PrevStore(n, prev[old])}
  /\ late' = {PrevStore(next[old], n), NextStore(prev[old], n)}
  /\ coming' = n /\ going' = old
  /\ status' = [status EXCEPT ![n] = "new"]
  /\ item' = [item EXCEPT ![n] = item[old]]
  /\ call' = <<"replace", old, n>>
  /\ UNCHANGED <<kind, next, prev, waits, reader, must, seen>>

\* The new entry takes the old one's place; the old one keeps its pointers.
list_replace_rcu(old, n) ==
  /\ kind = "list"
  /\ Idle
  /\ old \in On
  /\ status[n] = "spare"
  /\ early' = {NextStore(n, next[old]), PrevStore(n, prev[old])}
  /\ late' = {PrevStore(next[old], n), NextStore(prev[old], n)}
  /\ coming' = n /\ going' = old
  /\ status' = [status EXCEPT ![n] = "new"]
  /\ item' = [item EXCEPT ![n] = item[old]]
  /\ call' = <<"replace", old, n>>
  /\ UNCHANGED <<kind, next, prev, waits, reader, must, seen>>

\* A store that others may see now.
Pending == IF early # {} THEN early ELSE late

\* A store to a prev, or to the next of the entry that is being filled in.
StoreAside(s) ==
  /\ s \in Pending
  /\ s[1] = "prev" \/ s[2] = coming
  /\ next' = IF s[1] = "next" THEN [next EXCEPT ![s[2]] = s[3]] ELSE next
  /\ prev' = IF s[1] = "prev" THEN [prev EXCEPT ![s[2]] = s[3]] ELSE prev
  /\ early' = early \ {s} /\ late' = late \ {s}
  /\ UNCHANGED <<kind, coming, going, status, item, call, waits, reader, must,
                 seen>>

\* The store to the next of a linked entry, at which the operation happens.
StorePublish(s) ==
  /\ s \in Pending
  /\ s[1] = "next" /\ s[2] # coming
  /\ next' = [next EXCEPT ![s[2]] = s[3]]
  /\ early' = early \ {s} /\ late' = late \ {s}
  /\ status' = [n \in Node |-> CASE n = coming -> "on"
                                 [] n = going -> "off"
                                 [] OTHER -> status[n]]
  /\ must' = IF going # NoNode /\ coming = NoNode
             THEN [r \in Reader |-> must[r] \ {item[going]}] ELSE must
  /\ call' = Done
  /\ UNCHANGED <<kind, prev, coming, going, item, waits, reader, seen>>

\* The operation returns, its stores visible: the caller lets go of the lock.
Return ==
  /\ early = {} /\ late = {}
  /\ coming # NoNode \/ going # NoNode
  /\ coming' = NoNode /\ going' = NoNode
  /\ call' = NoCall
  /\ UNCHANGED <<kind, next, prev, early, late, status, item, waits, reader,
                 must, seen>>

\* After the removal has returned its caller passes the entry to call_rcu.
call_rcu(n) ==
  /\ status[n] = "off" /\ n # going
  /\ status' = [status EXCEPT ![n] = "dying"]
  /\ waits' = [waits EXCEPT ![n] = in]
  /\ UNCHANGED <<kind, next, prev, early, late, coming, going, item, call,
                 reader, must, seen>>

\* The callback frees the entry, whose memory may then hold anything.
Callback(n) ==
  /\ status[n] = "dying"
  /\ waits[n] = {}
  /\ status' = [status EXCEPT ![n] = "spare"]
  /\ item' = [item EXCEPT ![n] = NoItem]
  /\ next' = [next EXCEPT ![n] = Poison]
  /\ prev' = [prev EXCEPT ![n] = Poison]
  /\ UNCHANGED <<kind, early, late, coming, going, call, waits, reader, must,
                 seen>>

-----------------------------------------------------------------------------

\* rcu_read_lock and the start of a loop.
ReadLock(r) ==
  /\ r \notin in
  /\ in' = in \cup {r}
  /\ must' = [must EXCEPT ![r] = {item[n] : n \in On}]
  /\ UNCHANGED <<writer, waits, at, ahead, seen>>

\* Fetch pos->next through rcu_dereference: as part of going there, or, in
\* list_for_each_safe_rcu, before the body of the loop.
Fetch(r) ==
  /\ r \in in
  /\ ahead[r] = NoNode
  /\ ahead' = [ahead EXCEPT ![r] = next[at[r]]]
  /\ UNCHANGED <<writer, waits, in, at, must, seen>>

\* Go on to the entry fetched, unless it is the head.
Advance(r) ==
  /\ ahead[r] \notin {NoNode, ListHead}
  /\ at' = [at EXCEPT ![r] = ahead[r]]
  /\ ahead' = [ahead EXCEPT ![r] = NoNode]
  /\ seen' = [seen EXCEPT ![r] = @ \cup {item[ahead[r]]}]
  /\ UNCHANGED <<writer, waits, in, must>>

\* The loop has come to the end, or the program leaves it; rcu_read_unlock.
ReadUnlock(r) ==
  /\ r \in in
  /\ in' = in \ {r}
  /\ at' = [at EXCEPT ![r] = ListHead]
  /\ ahead' = [ahead EXCEPT ![r] = NoNode]
  /\ waits' = [n \in Node |-> waits[n] \ {r}]
  /\ must' = [must EXCEPT ![r] = {}]
  /\ seen' = [seen EXCEPT ![r] = {}]
  /\ UNCHANGED writer

Write ==
  \/ \E n \in Node, i \in Item :
       \/ list_add_rcu(n, i) \/ list_add_tail_rcu(n, i)
       \/ hlist_add_head_rcu(n, i)
       \/ \E m \in Node : \/ hlist_add_before_rcu(n, i, m)
                          \/ hlist_add_after_rcu(m, n, i)
  \/ \E n \in Node : list_del_rcu(n) \/ \E m \in Node : list_replace_rcu(n, m)
  \/ \E s \in early \cup late : StoreAside(s) \/ StorePublish(s)
  \/ Return
  \/ \E n \in Node : call_rcu(n) \/ Callback(n)

Read ==
  \E r \in Reader : ReadLock(r) \/ Fetch(r) \/ Advance(r) \/ ReadUnlock(r)

Next == Write \/ Read

Spec == Init /\ [][Next]_vars

-----------------------------------------------------------------------------

\* The operations with their arguments.
Calls ==
  {NoCall, Done} \cup {"head", "tail"} \X Node \X Item
    \cup {"before", "after"} \X Node \X Item \X Node
    \cup {"del"} \X Node \cup {"replace"} \X Node \X Node

\* The type invariant.
TypeOK ==
  /\ kind \in {"list", "hlist"}
  /\ next \in [Cell -> Cell \cup {Poison}]
  /\ prev \in [Cell -> Cell \cup {Poison}]
  /\ early \cup late \subseteq
       {"next", "prev"} \X Cell \X (Cell \cup {Poison})
  /\ coming \in Node \cup {NoNode}
  /\ going \in Node \cup {NoNode}
  /\ status \in [Node -> {"spare", "new", "on", "off", "dying"}]
  /\ item \in [Node -> Item \cup {NoItem}]
  /\ call \in Calls
  /\ waits \in [Node -> SUBSET Reader]
  /\ in \in SUBSET Reader
  /\ at \in [Reader -> Cell]
  /\ ahead \in [Reader -> Cell \cup {NoNode}]
  /\ must \in [Reader -> SUBSET Item]
  /\ seen \in [Reader -> SUBSET Item]

\* "This list-traversal primitive may safely run concurrently with the _rcu
\* list-mutation primitives": the entry a reader is at, and the one it is
\* about to go to, hold valid pointers and are not freed under it.
ReadersSafe ==
  \A r \in in : \A c \in {at[r], ahead[r]} \ {ListHead, NoNode} :
    c \in Node /\ status[c] \in {"on", "off", "dying"}

\* A traversal that comes to the end has come to every item that was on the
\* list all the while, whatever was added, removed or replaced meanwhile.
SeesAll ==
  \A r \in in : ahead[r] = ListHead => must[r] \subseteq seen[r]

\* It comes to each of them once: "The old entry will be replaced with the new
\* entry atomically", so that no reader meets both.
SeesOnce ==
  [][\A r \in Reader :
       at'[r] \notin {at[r], ListHead} /\ item[at'[r]] \in must[r] =>
         item[at'[r]] \notin seen[r]]_vars

-----------------------------------------------------------------------------

\* Where next leads from the head in k + 1 steps, unless it is back there before.
Along[k \in 0 .. Cardinality(Node)] ==
  IF k = 0 THEN next[ListHead]
  ELSE IF Along[k - 1] = ListHead THEN ListHead ELSE next[Along[k - 1]]

\* The entries on the way, with what they carry.
Entries ==
  LET cells == Along
      length == Cardinality({k \in DOMAIN cells : cells[k] # ListHead})
  IN [k \in 1 .. length |-> <<cells[k - 1], item[cells[k - 1]]>>]

List == INSTANCE KeyedList WITH list <- Entries

\* Every operation does what was called for, at one store: a new entry comes to
\* the place that the operation's comment gives ("after the specified head",
\* "before the specified head", "before the specified node"), and the entry that
\* was named is removed or replaced, for writers that find their place by prev as
\* for readers that follow next.
ImplementsList == List!Spec
=============================================================================

----------------------------- MODULE KeyedList -----------------------------
(***************************************************************************)
(* What a list from linux/list.h promises its writers: a sequence of items *)
(* to which one operation at a time adds, from which it removes, and in    *)
(* which it replaces, each in a single instant between its call and its    *)
(* return, and each where its arguments say.  The sequence is of pairs of  *)
(* a node and the item the node carries.                                   *)
(***************************************************************************)
EXTENDS Sequences, SequencesExt

CONSTANTS Node, Item

VARIABLES
  list,
  call    \* the operation that was called and its arguments, until it happens

NoCall == <<"none">>
Done == <<"done">>

Nodes == {list[k][1] : k \in DOMAIN list}
Items == {list[k][2] : k \in DOMAIN list}

Init == list = << >> /\ call = NoCall

-----------------------------------------------------------------------------
\* Calls

Calls(c) == call = NoCall /\ call' = c /\ UNCHANGED list

\* A node that is not on the list is to join it with a new item: at one of the
\* ends, or next to a node that is on it.
CallAdd(n, i) ==
  /\ n \notin Nodes /\ i \notin Items
  /\ \/ Calls(<<"head", n, i>>) \/ Calls(<<"tail", n, i>>)
     \/ \E m \in Nodes : Calls(<<"before", n, i, m>>) \/ Calls(<<"after", n, i, m>>)

CallDel(n) == n \in Nodes /\ Calls(<<"del", n>>)

\* A node that is not on the list is to take the place of one that is.
CallReplace(old, n) == old \in Nodes /\ n \notin Nodes /\ Calls(<<"replace", old, n>>)

Return == call = Done /\ call' = NoCall /\ UNCHANGED list

-----------------------------------------------------------------------------
\* What the operations do

\* The node is there from now on, at place k.
Insert(k) == list' = InsertAt(list, k, <<call[2], call[3]>>) /\ call' = Done

AddHead == call[1] = "head" /\ Insert(1)
AddTail == call[1] = "tail" /\ Insert(Len(list) + 1)
AddBefore(k) == call[1] = "before" /\ list[k][1] = call[4] /\ Insert(k)
AddAfter(k) == call[1] = "after" /\ list[k][1] = call[4] /\ Insert(k + 1)

Delete(k) ==
  /\ call[1] = "del" /\ list[k][1] = call[2]
  /\ list' = RemoveAt(list, k) /\ call' = Done

\* The new node carries the item of the old one.
Replace(k) ==
  /\ call[1] = "replace" /\ list[k][1] = call[2]
  /\ list' = ReplaceAt(list, k, <<call[3], list[k][2]>>) /\ call' = Done

Next ==
  \/ \E n \in Node, i \in Item : CallAdd(n, i)
  \/ \E n \in Node : CallDel(n) \/ \E m \in Node : CallReplace(m, n)
  \/ AddHead \/ AddTail
  \/ \E k \in DOMAIN list : AddBefore(k) \/ AddAfter(k) \/ Delete(k) \/ Replace(k)
  \/ Return

Spec == Init /\ [][Next]_<<list, call>>
=============================================================================

----------------------------- MODULE Iterators -----------------------------
(***************************************************************************)
(* What the iterators of lists promise (of std::list): whatever happens to *)
(* the lists, an iterator names the same element until that element is     *)
(* gone, and is singular from then on until it is assigned to.             *)
(***************************************************************************)
CONSTANTS Iter, Node, List, Nowhere

VARIABLES
  alive,   \* the elements that are on a list
  where    \* what an iterator names: an element, the end of a list, or nothing

Init == alive = {} /\ where = [i \in Iter |-> Nowhere]

\* The program gives an iterator a value.
Assign(i) ==
  /\ \E p \in alive \cup List \cup {Nowhere} : where' = [where EXCEPT ![i] = p]
  /\ UNCHANGED alive

\* What an iterator names when the elements in gone are no more.
Left(i, gone) == IF where[i] \in gone THEN Nowhere ELSE where[i]

\* Elements come and go, and move from list to list.
Alter ==
  /\ alive' \in SUBSET Node
  /\ where' = [i \in Iter |-> Left(i, alive \ alive')]

\* The same, by a call whose result is assigned to iterator k.
AlterAndAssign(k) ==
  /\ alive' \in SUBSET Node
  /\ \E p \in alive' \cup List :
       where' = [i \in Iter |-> IF i = k THEN p ELSE Left(i, alive \ alive')]

\* A list is given new elements: iterators to the old ones are singular, those
\* at the end are not.
Replace(old) ==
  /\ old \subseteq alive
  /\ alive' \in SUBSET Node /\ alive \ old \subseteq alive'
  /\ where' = [i \in Iter |-> Left(i, old)]

\* A list is destroyed, with iterators to its end as well.
Destroy(l, old) ==
  /\ old \subseteq alive /\ alive' = alive \ old
  /\ where' = [i \in Iter |-> Left(i, old \cup {l})]

Next ==
  \/ Alter \/ \E i \in Iter : Assign(i) \/ AlterAndAssign(i)
  \/ \E old \in SUBSET alive : Replace(old) \/ \E l \in List : Destroy(l, old)

Spec == Init /\ [][Next]_<<alive, where>>
=============================================================================

----------------------------- MODULE MCRcuList -----------------------------
(***************************************************************************)
(* RcuList on a small instance.                                            *)
(***************************************************************************)
EXTENDS RcuList, TLC

CONSTANTS n1, n2, n3, i1, i2, i3, r1

ThreeNodes == {n1, n2, n3}
ThreeItems == {i1, i2, i3}
OneReader == {r1}

Symmetry == Permutations(Node) \cup Permutations(Item)
=============================================================================

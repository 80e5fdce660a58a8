----------------------------- MODULE MCSafeList -----------------------------
(***************************************************************************)
(* The instance of SafeList.                                               *)
(***************************************************************************)
EXTENDS SafeList, TLC

CONSTANTS l1, l2, n1, n2, n3, i1, i2, c1

TwoLists == {l1, l2}
ThreeNodes == {n1, n2, n3}
ThreeIters == {i1, i2, c1}
OneConst == {c1}

Symmetry == Permutations(List) \cup Permutations(Node) \cup Permutations({i1, i2})
=============================================================================

---------------------------- MODULE MCBitmapAlloc ----------------------------
(***************************************************************************)
(* BitmapAlloc on small instances: objects of one word and of two.         *)
(***************************************************************************)
EXTENDS BitmapAlloc

CONSTANTS t1, t2, small, large, s1, s2, s3

OneThread == {t1}
TwoThreads == {t1, t2}
OneType == {small}
TwoTypes == {small, large}
WordsOf == [y \in Type |-> IF y = small THEN 1 ELSE 2]
TwoSupers == {s1, s2}
ThreeSupers == {s1, s2, s3}

Symmetry == Permutations(Thread) \cup Permutations(Super)
=============================================================================

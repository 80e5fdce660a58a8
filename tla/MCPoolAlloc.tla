----------------------------- MODULE MCPoolAlloc -----------------------------
(***************************************************************************)
(* PoolAlloc on small instances: two types with requests of one size       *)
(* class, and one that is too large for the lists.                         *)
(***************************************************************************)
EXTENDS PoolAlloc, TLC

CONSTANTS t1, t2, chars, longs, b1, b2, b3

TwoThreads == {t1, t2}
TwoTypes == {chars, longs}
BytesOf == [y \in Type |-> IF y = chars THEN {12, 128, 136} ELSE {16}]
ThreeBlocks == {b1, b2, b3}

Symmetry == Permutations(Thread) \cup Permutations(Block)
=============================================================================

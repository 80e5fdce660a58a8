----------------------------- MODULE MCMtAlloc -----------------------------
(***************************************************************************)
(* MtAlloc on small instances.                                             *)
(***************************************************************************)
EXTENDS MtAlloc, TLC

CONSTANTS t1, t2, b1, b2, b3, b4

OneThread == {t1}
TwoThreads == {t1, t2}

ThreeBlocks == {b1, b2, b3}
FourBlocks == {b1, b2, b3, b4}

\* Threads and blocks are interchangeable.
Symmetry == Permutations(Thread) \cup Permutations(Block)

\* Fairness tells threads apart and says nothing of blocks, and a step of a
\* call always changes pc: what becomes of one block, liveness included, is what
\* becomes of another.
BlockSymmetry == Permutations(Block)
=============================================================================

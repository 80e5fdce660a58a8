---------------------------- MODULE MCCowString ----------------------------
(***************************************************************************)
(* CowString on small instances.                                           *)
(***************************************************************************)
EXTENDS CowString, TLC

CONSTANTS t1, t2, s1, s2, c1, c2, r1, r2, r3, r4

TwoThreads == {t1, t2}
TwoStrings == {s1, s2}
TwoChars == {c1, c2}
FourReps == {r1, r2, r3, r4}

Symmetry ==
  Permutations(Thread) \cup Permutations(Str) \cup Permutations(Char)
    \cup Permutations(Rep)
=============================================================================

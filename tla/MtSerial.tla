------------------------------ MODULE MtSerial ------------------------------
(***************************************************************************)
(* MtAlloc with threads whose calls overlap, or that take turns: a program *)
(* that gives its containers a mutex of its own, or has one thread that    *)
(* uses them.  Which of the two it is, is chosen at the start.             *)
(***************************************************************************)
EXTENDS MtAlloc

VARIABLE serial   \* threads take turns

SerialInit == serial \in BOOLEAN /\ Init

SerialNext ==
  /\ UNCHANGED serial
  /\ \E t \in Thread :
       /\ serial => \A u \in Thread \ {t} : pc[u] = "idle"
       /\ Begin(t) \/ Continue(t)

SerialSpec == SerialInit /\ [][SerialNext]_<<vars, serial>>

SerialFairSpec == SerialSpec /\ \A t \in Thread : WF_vars(Continue(t))

\* As long as threads take turns the counters of blocks in use are exact, with
\* blocks that change hands and threads that come back with another id.
UsedCountExactSerial == serial => UsedCountExact

\* Then no call to deallocate hands back more records than its list holds.
NoWalkOffSerial == serial => NoWalkOff
=============================================================================

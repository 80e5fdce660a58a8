------------------------------ MODULE MCStrings ------------------------------
(***************************************************************************)
(* Three programs with strings: CowString with two threads that overlap,   *)
(* and append no string to itself; the same with threads that take turns   *)
(* and may do so; and StringEdit.  One is chosen at the start.             *)
(***************************************************************************)
EXTENDS MCCowString, StringEdit

VARIABLE program

Alias == INSTANCE CowString WITH Aliasing <- TRUE

Edits ==
  EditNext /\ UNCHANGED vars

Shares ==
  /\ UNCHANGED editVars
  /\ \/ program = "overlap" /\ Next
     \/ /\ program = "turns"
        /\ \E t \in Thread :
             /\ \A u \in Thread \ {t} : pc[u] = "idle"
             /\ Alias!Begin(t) \/ Alias!Continue(t)

AllInit == program \in {"overlap", "turns", "edit"} /\ Init /\ EditInit

AllNext == UNCHANGED program /\ IF program = "edit" THEN Edits ELSE Shares

AllSpec == AllInit /\ [][AllNext]_<<vars, editVars, program>>
=============================================================================

------------------------------ MODULE BlockPool ------------------------------
(***************************************************************************)
(* What an allocator promises its users (ext/new_allocator.h): a block is  *)
(* with the allocator or with the program, allocate moves one to the       *)
(* program, deallocate moves it back, and nothing else moves any.          *)
(***************************************************************************)
CONSTANT Block    \* the blocks of one size

VARIABLES
  live,   \* blocks in the hands of the program
  avail   \* blocks the allocator has

Init == live = {} /\ avail = Block

allocate(b) ==
  /\ b \in avail
  /\ live' = live \cup {b}
  /\ avail' = avail \ {b}

deallocate(b) ==
  /\ b \in live
  /\ live' = live \ {b}
  /\ avail' = avail \cup {b}

Next == \E b \in Block : allocate(b) \/ deallocate(b)

Spec == Init /\ [][Next]_<<live, avail>>
=============================================================================

----------------------------- MODULE MCMtSerial -----------------------------
(***************************************************************************)
(* MtSerial on small instances.                                            *)
(***************************************************************************)
EXTENDS MCMtAlloc, MtSerial
=============================================================================

----------------------------- MODULE MCFileBuf -----------------------------
(***************************************************************************)
(* The instance of FileBuf.                                                *)
(***************************************************************************)
EXTENDS FileBuf

TwoChars == {"a", "b"}
Sizes == {1, 2, 3}
=============================================================================

----------------------------- MODULE MCFrontend -----------------------------
(***************************************************************************)
(* Six instructions in three pages, of which the second (4 and 6) may not  *)
(* be mapped; a branch; a misaligned target.                               *)
(***************************************************************************)
EXTENDS Frontend
=============================================================================

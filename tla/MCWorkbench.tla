----------------------------- MODULE MCWorkbench -----------------------------
(***************************************************************************)
(* Two machines, one of which gives its tickets a token.                   *)
(***************************************************************************)
EXTENDS Workbench, TLC

Symmetry == Permutations(Calls)
=============================================================================

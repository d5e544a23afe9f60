----------------------------- MODULE MCLauncher -----------------------------
(***************************************************************************)
(* Two launchers and one other program over two ports.                     *)
(***************************************************************************)
EXTENDS Launcher, TLC

Symmetry == Permutations(Launchers) \cup Permutations(Ports)
=============================================================================

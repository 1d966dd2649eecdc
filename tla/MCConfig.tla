------------------------------ MODULE MCConfig ------------------------------
(***************************************************************************)
(* Config for TLC.                                                         *)
(***************************************************************************)
EXTENDS Config, TLC

Symmetry == Permutations(Commands)

=============================================================================

------------------------------ MODULE MCSetup ------------------------------
(***************************************************************************)
(* Setup for TLC.                                                          *)
(***************************************************************************)
EXTENDS Setup, TLC

Symmetry == Permutations(Setups) \cup Permutations(Bundles)

=============================================================================

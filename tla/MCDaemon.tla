------------------------------ MODULE MCDaemon ------------------------------
(***************************************************************************)
(* Daemon for TLC.                                                         *)
(***************************************************************************)
EXTENDS Daemon, TLC

Symmetry == Permutations(Daemons)

=============================================================================

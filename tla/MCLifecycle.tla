----------------------------- MODULE MCLifecycle -----------------------------
(***************************************************************************)
(* MachineLifecycle for TLC.                                               *)
(***************************************************************************)
EXTENDS MachineLifecycle, TLC

\* Users and keys are interchangeable; not to be used with liveness.
Symmetry == Permutations(Procs) \cup Permutations(Keys)

=============================================================================

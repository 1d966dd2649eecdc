---------------------------- MODULE MCPortExposure ----------------------------
(***************************************************************************)
(* PortExposure for TLC.                                                   *)
(***************************************************************************)
EXTENDS PortExposure
=============================================================================

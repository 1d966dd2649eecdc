----------------------------- MODULE MCUDPProxy -----------------------------
(***************************************************************************)
(* UDPProxy for TLC: two IPv4 clients of one network, with the same port.  *)
(***************************************************************************)
EXTENDS UDPProxy

Neighbours == {[ip |-> <<10, 0, 0, 1>>, port |-> 53], [ip |-> <<10, 0, 0, 2>>, port |-> 53]}
=============================================================================

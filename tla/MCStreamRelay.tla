---------------------------- MODULE MCStreamRelay ----------------------------
(***************************************************************************)
(* StreamRelay for TLC: the protocols a run relays.                        *)
(***************************************************************************)
EXTENDS StreamRelay

TCPOnly == {"tcp"}
Both == {"tcp", "sctp"}
=============================================================================

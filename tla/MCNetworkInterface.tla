------------------------- MODULE MCNetworkInterface -------------------------
(* Two next hops that share two Ethernet addresses; ticks shorter than,      *)
(* between and longer than the two times to live.                            *)
EXTENDS NetworkInterface
=============================================================================

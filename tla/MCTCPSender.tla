---------------------------- MODULE MCTCPSender ----------------------------
(* Four bytes in segments of at most two, windows that are closed, smaller   *)
(* than a segment and larger than all of it, two retransmissions in a row.   *)
EXTENDS TCPSender
=============================================================================

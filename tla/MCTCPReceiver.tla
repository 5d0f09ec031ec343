--------------------------- MODULE MCTCPReceiver ---------------------------
(* A stream of 18 bytes in a sequence space of 16, so that numbers wrap      *)
(* around; a capacity of five, of which the window advertises up to four.    *)
EXTENDS TCPReceiver
=============================================================================

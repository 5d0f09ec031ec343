--------------------------- MODULE MCTCPConnection ---------------------------
(* Bytes one way, two or one, and the end of both streams. The client's      *)
(* sequence numbers wrap around within the handshake or behind it.           *)
EXTENDS TCPConnection

MCIsn    == (Client :> 13) @@ (Server :> 0)
MCOneWay == (Client :> 2) @@ (Server :> 0)
MCShort  == (Client :> 1) @@ (Server :> 0)
=============================================================================

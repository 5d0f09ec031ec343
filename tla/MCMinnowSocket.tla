--------------------------- MODULE MCMinnowSocket ---------------------------
EXTENDS MinnowSocket
=============================================================================

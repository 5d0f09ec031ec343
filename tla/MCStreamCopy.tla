---------------------------- MODULE MCStreamCopy ----------------------------
EXTENDS StreamCopy
=============================================================================

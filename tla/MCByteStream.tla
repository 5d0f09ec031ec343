---------------------------- MODULE MCByteStream ----------------------------
(* A ring of three bytes; strings shorter than, as long as and longer than   *)
(* the ring, so that pushes wrap, fill it and are cut.                       *)
EXTENDS ByteStream, SequencesExt

MCChunk == BoundedSeq(Byte, Capacity + 1)
MCReadLen == 0 .. Capacity + 1
=============================================================================

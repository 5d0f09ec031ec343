--------------------------- MODULE ByteStreamSpec ---------------------------
(***************************************************************************)
(* The promise of a ByteStream, as a state machine: one bounded FIFO, used *)
(* by a writer that pushes and closes and by a reader that reads or pops.  *)
(* out is the string the last read() delivered to the reader.              *)
(***************************************************************************)
EXTENDS StreamOps

CONSTANTS
    Byte,       \* the values a char can take
    Capacity,   \* the capacity the stream is constructed with
    Chunk,      \* the strings a writer pushes
    ReadLen     \* the lengths a reader asks for

VARIABLES stream, out

vars == <<stream, out>>

Init == stream = NewStream(Capacity) /\ out = <<>>

Push(data) == stream' = StreamPush(stream, data) /\ UNCHANGED out
Close      == stream' = StreamClose(stream) /\ UNCHANGED out
SetError   == stream' = StreamSetError(stream) /\ UNCHANGED out
Pop(len)   == stream' = StreamPop(stream, len) /\ UNCHANGED out
Read(len)  == stream' = StreamPop(stream, len) /\ out' = StreamRead(stream, len)

Next ==
    \/ \E data \in Chunk : Push(data)
    \/ Close
    \/ SetError
    \/ \E len \in ReadLen : Pop(len) \/ Read(len)

Spec == Init /\ [][Next]_vars
=============================================================================

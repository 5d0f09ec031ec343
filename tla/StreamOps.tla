----------------------------- MODULE StreamOps -----------------------------
(***************************************************************************)
(* What a ByteStream is to the code that uses one: a bounded FIFO of bytes *)
(* with a Writer's side (push, close) and a Reader's side (peek, pop).     *)
(* A stream is a record; every method of the classes Writer and Reader is  *)
(* an operator on it, so that the modules that own streams (Reassembler,   *)
(* TCPSender, TCPReceiver, TCPPeer) can call them as the code does.        *)
(* Module ByteStream shows that the ring buffer of byte_stream.cc          *)
(* implements these operators.                                             *)
(***************************************************************************)
EXTENDS Integers, Sequences

Least(a, b) == IF a <= b THEN a ELSE b

(* The bytes of a stream from index first on; byte i is the value i, so     *)
(* that a byte at a wrong place is told from the right one.                 *)
Bytes(first, len) == [j \in 1 .. len |-> first + j - 1]

(* Where the first bytes of a string end and the rest begins.              *)
Take(s, n) == SubSeq(s, 1, n)
Drop(s, n) == SubSeq(s, n + 1, Len(s))

Streams(Byte) ==
    [capacity : Nat, queue : Seq(Byte), popped : Nat, eof : BOOLEAN, error : BOOLEAN]

NewStream(capacity) ==
    [capacity |-> capacity, queue |-> <<>>, popped |-> 0, eof |-> FALSE, error |-> FALSE]

BytesBuffered(s)     == Len(s.queue)
AvailableCapacity(s) == s.capacity - Len(s.queue)
BytesPushed(s)       == s.popped + Len(s.queue)
IsClosed(s)          == s.eof
IsFinished(s)        == s.eof /\ s.queue = <<>>

(* Writer::push: as much of data as fits; nothing once the stream is closed. *)
StreamPush(s, data) ==
    IF s.eof THEN s
    ELSE [s EXCEPT !.queue = @ \o Take(data, Least(Len(data), AvailableCapacity(s)))]

StreamClose(s)    == [s EXCEPT !.eof = TRUE]
StreamSetError(s) == [s EXCEPT !.error = TRUE]

(* Reader::pop: up to len bytes.                                            *)
StreamPop(s, len) ==
    LET k == Least(len, Len(s.queue))
    IN  [s EXCEPT !.queue = Drop(@, k), !.popped = @ + k]

(* What the helper read() puts into its out string: it peeks and pops until *)
(* it has max_len bytes or the stream is empty.                             *)
StreamRead(s, max_len) == Take(s.queue, Least(max_len, Len(s.queue)))
=============================================================================

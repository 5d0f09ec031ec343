------------------------- MODULE FileDescriptorOps -------------------------
(***************************************************************************)
(* What a FileDescriptor remembers of the descriptor it wraps              *)
(* (src/util/file_descriptor.hh, .cc). counted stands for the two counters *)
(* of reads and writes, which are only ever compared with what they were   *)
(* before a callback: it holds the directions counted since.               *)
(***************************************************************************)
EXTENDS StreamOps

CONSTANT kReadBufferSize   \* how much read() asks for if its buffer is empty

NewFd == [eof |-> FALSE, closed |-> FALSE, counted |-> {}]

(* An empty buffer does not mean "nothing": it is given the default size.   *)
Wanted(len) == IF len = 0 THEN kReadBufferSize ELSE len

(* What ::read takes from the bytes that have arrived.                      *)
BytesRead(arrived, len) == Take(arrived, Least(Len(arrived), Wanted(len)))

(* read: with nothing to read and no end it would block, which counts for   *)
(* nothing; zero bytes otherwise are the end of file.                       *)
Read(fd, data, ended) ==
    IF data = <<>> /\ ~ended THEN fd
    ELSE [fd EXCEPT !.counted = @ \cup {"In"}, !.eof = @ \/ data = <<>>]

(* Fault: a write is not counted.                                           *)
WriteUncounted(fd) == fd

Write(fd) == [fd EXCEPT !.counted = @ \cup {"Out"}]

(* Socket::shutdown counts as a read or a write, too.                       *)
Shutdown(fd, directions) == [fd EXCEPT !.counted = @ \cup directions]

Close(fd) == [fd EXCEPT !.eof = TRUE, !.closed = TRUE]
=============================================================================

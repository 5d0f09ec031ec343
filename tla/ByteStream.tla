----------------------------- MODULE ByteStream -----------------------------
(***************************************************************************)
(* The ring buffer behind class ByteStream (src/src/byte_stream.hh, .cc):  *)
(* a vector of Capacity chars, the slots the next byte is read from and    *)
(* written to, and counters. available_capacity_ is kept beside the two    *)
(* slot indices because they cannot tell an empty ring from a full one.    *)
(*                                                                         *)
(* An action is a method of Writer or Reader, or the helper read().        *)
(***************************************************************************)
EXTENDS StreamOps

CONSTANTS
    Byte,       \* the values a char can take
    NUL,        \* the char that vector::resize fills the buffer with
    Capacity,   \* the capacity the stream is constructed with
    Chunk,      \* the strings a writer pushes
    ReadLen,    \* the lengths a reader asks for
    MaxBytes    \* bound: bytes pushed in a behaviour (byte_pushed_ is unbounded)

ASSUME ByteStreamAssumption ==
    /\ NUL \in Byte
    /\ Capacity \in Nat
    /\ Chunk \subseteq Seq(Byte)
    /\ ReadLen \subseteq Nat
    /\ MaxBytes \in Nat

VARIABLES buf, buf_start, buf_end, available_capacity, byte_pushed, byte_popped,
          eof, error,
          out   \* the string the last read() returned to its caller

vars == <<buf, buf_start, buf_end, available_capacity, byte_pushed, byte_popped,
          eof, error, out>>

Slots == 0 .. Capacity - 1

Buffered == Capacity - available_capacity

Init ==
    /\ buf = [s \in Slots |-> NUL]
    /\ buf_start = 0 /\ buf_end = 0
    /\ available_capacity = Capacity
    /\ byte_pushed = 0 /\ byte_popped = 0
    /\ eof = FALSE /\ error = FALSE
    /\ out = <<>>

(* How far slot s lies beyond slot t, going round the ring.                 *)
RingDistance(t, s) == (s + Capacity - t) % Capacity

(* The ring after the loop of Writer::push has stored the first len bytes   *)
(* of data from slot buf_end on.                                            *)
Stored(data, len) ==
    [s \in Slots |-> IF RingDistance(buf_end, s) < len
                     THEN data[RingDistance(buf_end, s) + 1]
                     ELSE buf[s]]

(* Fault: the write position is not taken modulo the capacity.              *)
EndUnwrapped(len) == buf_end + len

EndAfter(len) == (buf_end + len) % Capacity

Push(data) ==
    LET len == Least(Len(data), available_capacity)
    IN  /\ ~eof
        /\ len > 0
        /\ byte_pushed + len <= MaxBytes
        /\ buf' = Stored(data, len)
        /\ buf_end' = EndAfter(len)
        /\ available_capacity' = available_capacity - len
        /\ byte_pushed' = byte_pushed + len
        /\ UNCHANGED <<buf_start, byte_popped, eof, error, out>>

Close ==
    /\ eof' = TRUE
    /\ UNCHANGED <<buf, buf_start, buf_end, available_capacity, byte_pushed,
                   byte_popped, error, out>>

SetError ==
    /\ error' = TRUE
    /\ UNCHANGED <<buf, buf_start, buf_end, available_capacity, byte_pushed,
                   byte_popped, eof, out>>

(* Fault: the bytes popped are not clamped to the bytes buffered.           *)
PopUnclamped(len) ==
    /\ Buffered > 0
    /\ buf_start' = (buf_start + len) % Capacity
    /\ byte_popped' = byte_popped + len
    /\ available_capacity' = available_capacity + len

(* Reader::pop. read() ends in the same state: it pops one byte at a time   *)
(* until it has len bytes or the ring is empty.                             *)
PopBytes(len) ==
    LET k == Least(Buffered, len)
    IN  /\ Buffered > 0
        /\ buf_start' = (buf_start + k) % Capacity
        /\ byte_popped' = byte_popped + k
        /\ available_capacity' = available_capacity + k

Pop(len) ==
    /\ PopBytes(len)
    /\ UNCHANGED <<buf, buf_end, byte_pushed, eof, error, out>>

(* Fault: the byte shown does not move on.                                  *)
PeekFirst(i) == buf[buf_start]

(* The byte that peek() shows after i bytes have been popped.               *)
PeekAfter(i) == buf[(buf_start + i) % Capacity]

(* read(reader, len, out): clear out; while bytes are buffered and wanted,  *)
(* append the one byte peek() shows and pop it.                             *)
Read(len) ==
    /\ out' = [i \in 1 .. Least(Buffered, len) |-> PeekAfter(i - 1)]
    /\ \/ PopBytes(len)
       \/ Buffered = 0 /\ UNCHANGED <<buf_start, byte_popped, available_capacity>>
    /\ UNCHANGED <<buf, buf_end, byte_pushed, eof, error>>

Next ==
    \/ \E data \in Chunk : Push(data)
    \/ Close
    \/ SetError
    \/ \E len \in ReadLen : Pop(len)
    \/ \E len \in ReadLen : Read(len)

Spec == Init /\ [][Next]_vars

-----------------------------------------------------------------------------
(* Every slot index stays inside the vector, so that no access to buf_ is   *)
(* out of range, and the unsigned counters never go below zero.             *)
TypeOK ==
    /\ buf \in [Slots -> Byte]
    /\ buf_start \in Nat /\ (Capacity > 0 => buf_start \in Slots)
    /\ buf_end \in Nat /\ (Capacity > 0 => buf_end \in Slots)
    /\ available_capacity \in 0 .. Capacity
    /\ byte_pushed \in Nat /\ byte_popped \in Nat
    /\ eof \in BOOLEAN /\ error \in BOOLEAN
    /\ out \in Seq(Byte)

(* The three redundant records of how full the ring is agree: the counters  *)
(* that the receiver's ackno is computed from, available_capacity_ that its *)
(* window is computed from, and the two slot indices.                       *)
RingConsistent ==
    /\ byte_pushed - byte_popped = Buffered
    /\ buf_end = IF buf_start + Buffered < Capacity
                 THEN buf_start + Buffered
                 ELSE buf_start + Buffered - Capacity

(* The bytes the stream holds, oldest first.                                *)
Contents == [i \in 1 .. Buffered |-> PeekAfter(i - 1)]

Abstract ==
    INSTANCE ByteStreamSpec WITH
        stream <- [capacity |-> Capacity, queue |-> Contents, popped |-> byte_popped,
                   eof |-> eof, error |-> error]

(* The ring buffer is a bounded FIFO: whatever is read was pushed, in order,*)
(* once, none of it overwritten by a later push; a push stores as much as   *)
(* fits; nothing is pushed after close.                                     *)
ImplementsFifo == Abstract!Spec
=============================================================================

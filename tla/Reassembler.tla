---------------------------- MODULE Reassembler ----------------------------
(***************************************************************************)
(* A Reassembler that the substrings of one stream are inserted into, in   *)
(* any order, overlapping and repeated, while a reader takes bytes from    *)
(* its output. Byte i of the stream is the value i, so that a byte written *)
(* at a wrong place is told from the right one.                            *)
(***************************************************************************)
EXTENDS ReassemblerOps

CONSTANTS
    Capacity,   \* capacity of the output
    Length,     \* length of the stream
    Substring,  \* the substrings that may arrive: records [first, len, last]
    ReadLen     \* the lengths a reader asks for

ASSUME ReassemblerAssumption ==
    /\ Capacity \in Nat
    /\ Length \in Nat
    /\ \A sub \in Substring :
           /\ sub.first \in Nat /\ sub.len \in Nat /\ sub.last \in BOOLEAN
           /\ sub.first + sub.len <= Length
           /\ sub.last => sub.first + sub.len = Length
    /\ ReadLen \subseteq Nat

VARIABLE reassembler

vars == reassembler

Init == reassembler = NewReassembler(NewStream(Capacity))

(* The FIN comes with the stream's last byte, or alone and without bytes    *)
(* (tcp_sender.cc:102), and again just as it came first: never together     *)
(* with bytes that have all been written without it. (Bytes would not be    *)
(* looked at then, and the output stay open.)                               *)
EndAsSent(sub) ==
    sub.last /\ sub.len > 0 =>
        NextByteIndex(reassembler) < Length \/ IsClosed(reassembler.output)

Receive(sub) ==
    /\ EndAsSent(sub)
    /\ reassembler' = Insert(reassembler, sub.first, Bytes(sub.first, sub.len), sub.last)

Pop(len) == reassembler' = [reassembler EXCEPT !.output = StreamPop(@, len)]

Next ==
    \/ \E sub \in Substring : Receive(sub)
    \/ \E len \in ReadLen : Pop(len)

Spec == Init /\ [][Next]_vars

(* A substring that holds the next byte, or the end once there is no next   *)
(* byte: the one that the sender transmits again until it is acknowledged   *)
(* (tcp_sender.cc:217-231).                                                 *)
ReceiveNext ==
    \E sub \in Substring :
        /\ sub.first <= NextByteIndex(reassembler)
        /\ NextByteIndex(reassembler) < sub.first + sub.len \/ sub.last
        /\ Receive(sub)

(* While the next byte has room, or only the end is missing, the sender     *)
(* sends it again and at last it arrives; while bytes are buffered, the     *)
(* reader reads. (This is weak fairness with the condition of the action    *)
(* in place of ENABLED, which TLC takes long to evaluate.)                  *)
Awaited == ~IsClosed(reassembler.output)
               /\ (AvailableCapacity(reassembler.output) > 0 \/ NextByteIndex(reassembler) = Length)

Fairness ==
    /\ []<>(~Awaited) \/ []<><<ReceiveNext>>_vars
    /\ []<>(BytesBuffered(reassembler.output) = 0) \/ []<><<\E len \in ReadLen : Pop(len)>>_vars

FairSpec == Spec /\ Fairness

-----------------------------------------------------------------------------
Output  == reassembler.output
Pending == reassembler.pending

TypeOK ==
    /\ reassembler.output \in Streams(0 .. Length)
    /\ Output.capacity = Capacity /\ Len(Output.queue) <= Capacity
    /\ BytesPushed(Output) <= Length
    /\ reassembler.last_byte \in -1 .. Length
    /\ \A k \in DOMAIN Pending : Pending[k].first \in 0 .. Length

(* What is delivered are the bytes of the stream, each once and in order;   *)
(* what is stored are bytes of the stream at their places, all of them      *)
(* still to be written and inside the window (with those that are buffered  *)
(* they never exceed the capacity); blocks are sorted and apart, so that    *)
(* merging sees every overlap and begin() is the next to write.             *)
BytesInPlace ==
    /\ \A k \in DOMAIN Output.queue : Output.queue[k] = Output.popped + k - 1
    /\ CountBytesPending(reassembler) + Len(Output.queue) <= Capacity
    /\ \A k \in DOMAIN Pending :
        /\ Pending[k].data = Bytes(Pending[k].first, Len(Pending[k].data))
        /\ Pending[k].first > NextByteIndex(reassembler)
        /\ EndOf(Pending[k]) <= WindowEnd(reassembler)
        /\ k > 1 => EndOf(Pending[k - 1]) < Pending[k].first

Stored == UNION {Pending[k].first .. EndOf(Pending[k]) - 1 : k \in DOMAIN Pending}

Abstract ==
    INSTANCE ReassemblerSpec WITH
        written <- NextByteIndex(reassembler),
        popped  <- Output.popped,
        stored  <- Stored,
        last    <- IF IsClosed(Output) \/ reassembler.last_byte # NoLastByte THEN Length ELSE -1,
        closed  <- IsClosed(Output)

(* Storing, writing and closing are what the header promises, at every      *)
(* arrival.                                                                 *)
ImplementsSpec == Abstract!Spec

(* The reader gets to the end of the stream.                                *)
EventuallyFinished == <>(IsFinished(Output) /\ Output.popped = Length)
=============================================================================

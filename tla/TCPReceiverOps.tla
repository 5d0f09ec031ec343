--------------------------- MODULE TCPReceiverOps ---------------------------
(***************************************************************************)
(* Class TCPReceiver (src/src/tcp_receiver.hh, .cc) as operators on a      *)
(* record of its members.                                                  *)
(***************************************************************************)
EXTENDS WrappingIntegers, TCPMessages, ReassemblerOps

CONSTANT MaxWindow   \* the largest window a message can hold: UINT16_MAX

ASSUME ReceiverAssumption == MaxWindow \in Nat

NewReceiver(reassembler) == [reassembler |-> reassembler, isn |-> 0, isn_set |-> FALSE]

(* Fault: sequence numbers are unwrapped in the first cycle only.           *)
FirstCycle(c) == 0

(* The number that sequence numbers are unwrapped near to.                  *)
Checkpoint(c) == BytesPushed(c.reassembler.output)

(* The stream index of the first byte of a message's payload, in uint64_t.  *)
StreamIndex(c, msg) ==
    (Unwrap(msg.seqno, c.isn, Checkpoint(c)) - 1 + Flag(msg.SYN)) % WORD

(* Fault: the number after the SYN is taken for the ISN.                    *)
IsnAfterSyn(c, msg) ==
    IF msg.SYN /\ ~c.isn_set THEN [c EXCEPT !.isn = Wrap(1, msg.seqno), !.isn_set = TRUE] ELSE c

(* The first SYN sets the ISN.                                              *)
NoteSyn(c, msg) ==
    IF msg.SYN /\ ~c.isn_set THEN [c EXCEPT !.isn = msg.seqno, !.isn_set = TRUE] ELSE c

(* A message before the SYN is ignored.                                     *)
InsertPayload(c, msg) ==
    IF c.isn_set
    THEN [c EXCEPT !.reassembler = Insert(@, StreamIndex(c, msg), msg.payload, msg.FIN)]
    ELSE c

ReceiverReceive(c, msg) ==
    IF msg.RST THEN [c EXCEPT !.reassembler.output = StreamSetError(@)]
    ELSE InsertPayload(NoteSyn(c, msg), msg)

(* Fault: the FIN is acknowledged when it is known, before all bytes are.   *)
AckKnownFin(c) ==
    BytesPushed(c.reassembler.output) + 1 + Flag(c.reassembler.last_byte # NoLastByte)

(* The absolute number of the first byte or flag that is still to arrive.   *)
AbsAckno(c) == BytesPushed(c.reassembler.output) + 1 + Flag(IsClosed(c.reassembler.output))

(* Fault: the capacity is advertised although the message cannot hold it.   *)
WholeCapacity(c) == AvailableCapacity(c.reassembler.output)

(* Fault: bytes stored out of order are taken off the window a second time. *)
WindowLessStored(c) ==
    Least(AvailableCapacity(c.reassembler.output) - CountBytesPending(c.reassembler), MaxWindow)

WindowSize(c) == Least(AvailableCapacity(c.reassembler.output), MaxWindow)

ReceiverSend(c) ==
    ReceiverMessage(IF c.isn_set THEN Wrap(AbsAckno(c), c.isn) ELSE NoAckno,
                    WindowSize(c), c.reassembler.output.error)
=============================================================================

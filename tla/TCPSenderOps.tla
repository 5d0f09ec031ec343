---------------------------- MODULE TCPSenderOps ----------------------------
(***************************************************************************)
(* Class TCPSender (src/src/tcp_sender.hh, .cc) as operators on a record   *)
(* of its members. A method that is given a TransmitFunction yields the    *)
(* sender after the call and the messages transmitted by it, in order.     *)
(***************************************************************************)
EXTENDS WrappingIntegers, TCPMessages, SequencesExt

CONSTANTS
    MAX_PAYLOAD_SIZE,   \* TCPConfig::MAX_PAYLOAD_SIZE, 1000 in the program
    InitialRTO          \* initial_RTO_ms_, in units of the clock

ASSUME SenderAssumption ==
    /\ MAX_PAYLOAD_SIZE \in Nat \ {0}
    /\ InitialRTO \in Nat \ {0}

NewSender(input, isn) ==
    [input |-> input, isn |-> isn, next_seqno |-> isn, last_ackno |-> isn,
     current_RTO |-> InitialRTO, sender_syn |-> FALSE, fin_sent |-> FALSE,
     window_size |-> 1, timer_running |-> FALSE, timer_elapsed |-> 0,
     consecutive_retrans_count |-> 0, outstanding |-> <<>>]

Result(sender, sent) == [sender |-> sender, sent |-> sent]

SequenceNumbersInFlight(s) ==
    SumFunction([k \in DOMAIN s.outstanding |-> SequenceLength(s.outstanding[k])])

(* The absolute sequence number of the next byte or flag to be sent.        *)
NextAbs(s) == Flag(s.sender_syn) + s.input.popped + Flag(s.fin_sent)

StartTimer(s) == [s EXCEPT !.timer_running = TRUE, !.timer_elapsed = 0]

(* Fault: a timer that is off stays off.                                    *)
KeepTimer(s) == s

StartTimerIfIdle(s) == IF s.timer_running THEN s ELSE StartTimer(s)

(* Segments just made are outstanding, and a timer runs.                    *)
Track(s, segments) ==
    IF segments = <<>> THEN s
    ELSE StartTimerIfIdle([s EXCEPT !.outstanding = @ \o segments])

MakeEmptyMessage(s) ==
    SenderMessage(IF s.sender_syn THEN s.next_seqno ELSE s.isn,
                  FALSE, <<>>, FALSE, s.input.error)

-----------------------------------------------------------------------------
(* push, before the SYN has been sent: the SYN takes one of the window's    *)
(* sequence numbers (in uint64_t, so that a window of 0 becomes a huge      *)
(* one), bytes that wait go along, and so does the FIN of a stream that     *)
(* they finish.                                                             *)
PushSyn(s) ==
    LET effective == (s.window_size - 1) % WORD
        size  == Least(Least(MAX_PAYLOAD_SIZE, effective), BytesBuffered(s.input))
        input == StreamPop(s.input, size)
        fin   == IsFinished(input) /\ ~s.fin_sent
        msg   == SenderMessage(s.isn, TRUE, StreamRead(s.input, size), fin, FALSE)
        sent  == [s EXCEPT !.sender_syn = TRUE, !.input = input, !.fin_sent = @ \/ fin,
                           !.next_seqno = Wrap(SequenceLength(msg), s.isn)]
    IN  Result(Track(sent, <<msg>>), <<msg>>)

(* Fault: next_seqno_ is not advanced in the loop of push.                  *)
SameSeqno(s, skip) == s.next_seqno

SeqnoAfter(s, skip) == Wrap(skip, s.next_seqno)

(* The segments that the loop of push makes of the first size bytes that    *)
(* wait: all but the last hold MAX_PAYLOAD_SIZE; the last has the FIN, if   *)
(* there is one, and is the FIN alone if no bytes wait.                     *)
Segments(s, size, fin) ==
    LET full == size \div MAX_PAYLOAD_SIZE
        rest == size % MAX_PAYLOAD_SIZE
        count == IF rest > 0 \/ (size = 0 /\ fin) THEN full + 1 ELSE full
    IN  [k \in 1 .. count |->
            LET skip == (k - 1) * MAX_PAYLOAD_SIZE
            IN  SenderMessage(SeqnoAfter(s, skip), FALSE,
                              SubSeq(s.input.queue, skip + 1, Least(skip + MAX_PAYLOAD_SIZE, size)),
                              fin /\ k = count, FALSE)]

(* Fault: the FIN does not wait for the bytes the window has no room for.    *)
FinEarly(s, size, remaining) ==
    IsClosed(s.input) /\ ~s.fin_sent /\ size + 1 <= remaining + 1

(* Fault: the FIN is not counted against the window.                        *)
FinAnyway(s, size, remaining) ==
    IsClosed(s.input) /\ ~s.fin_sent /\ size = BytesBuffered(s.input)

FinFits(s, size, remaining) ==
    /\ IsClosed(s.input) /\ ~s.fin_sent
    /\ size = BytesBuffered(s.input)
    /\ size + 1 <= remaining

(* push, once the SYN has been sent: as many of the bytes that wait as the  *)
(* window has room for (a window of 0 counts as 1), then the FIN if the     *)
(* stream is closed, all of it is sent and there is room for it.            *)
PushData(s) ==
    LET in_flight == SequenceNumbersInFlight(s)
        window    == IF s.window_size > 0 THEN s.window_size ELSE 1
        remaining == window - in_flight
        size      == Least(remaining, BytesBuffered(s.input))
        fin       == FinFits(s, size, remaining)
        segments  == Segments(s, size, fin)
        sent      == [s EXCEPT !.input = StreamPop(@, size), !.fin_sent = @ \/ fin,
                               !.next_seqno = Wrap(size + Flag(fin), @)]
    IN  IF in_flight >= window THEN Result(s, <<>>)
        ELSE Result(Track(sent, segments), segments)

SenderPush(s) ==
    IF s.input.error
    THEN Result(s, <<MakeEmptyMessage(s)>>)
    ELSE IF s.sender_syn THEN PushData(s) ELSE PushSyn(s)

-----------------------------------------------------------------------------
(* receive. Sequence numbers are unwrapped with the next one to be sent as  *)
(* the checkpoint, and that one with 0.                                     *)
AbsNextSeqno(s) == Unwrap(s.next_seqno, s.isn, 0)
Abs(s, seqno)   == Unwrap(seqno, s.isn, AbsNextSeqno(s))

ValidAckno(s, ackno) == Abs(s, ackno) <= AbsNextSeqno(s)

(* Fault: a segment that is acknowledged in part is taken for acknowledged. *)
PartlyAcked(s, seg, ackno) == Abs(s, seg.seqno) < Abs(s, ackno)

FullyAcked(s, seg, ackno) == Abs(s, seg.seqno) + SequenceLength(seg) <= Abs(s, ackno)

(* Fault: the retransmission timeout stays backed off.                      *)
ResetCountOnly(s) == [s EXCEPT !.consecutive_retrans_count = 0]

ResetBackoff(s) == [s EXCEPT !.current_RTO = InitialRTO, !.consecutive_retrans_count = 0]

(* The segments that the loop of receive leaves outstanding.                *)
Unacked(s, ackno) ==
    LET left[k \in 0 .. Len(s.outstanding)] ==
            IF k = 0 THEN <<>>
            ELSE IF FullyAcked(s, s.outstanding[k], ackno) THEN left[k - 1]
            ELSE Append(left[k - 1], s.outstanding[k])
    IN  left[Len(s.outstanding)]

(* Segments that the ackno covers are no longer outstanding. If it is the   *)
(* highest yet, the timeout is back at its initial value and the timer      *)
(* starts again, or stops.                                                  *)
Acknowledge(s, ackno) ==
    LET unacked  == Unacked(s, ackno)
        kept     == [s EXCEPT !.outstanding = unacked]
        advanced == ResetBackoff([kept EXCEPT !.last_ackno = ackno])
    IN  IF ~ValidAckno(s, ackno) THEN s
        ELSE IF Abs(s, ackno) <= Abs(s, s.last_ackno) THEN kept
        ELSE IF unacked = <<>> THEN [advanced EXCEPT !.timer_running = FALSE]
        ELSE StartTimer(advanced)

SenderReceive(s, msg) ==
    LET updated == [s EXCEPT !.window_size = msg.window_size]
    IN  IF msg.RST THEN [s EXCEPT !.input = StreamSetError(@)]
        ELSE IF msg.ackno = NoAckno THEN updated
        ELSE Acknowledge(updated, msg.ackno)

(* The timeout doubles unless the window is zero, when a segment that is    *)
(* transmitted again is a probe.                                            *)
BackOff(s) ==
    IF s.window_size > 0
    THEN [s EXCEPT !.consecutive_retrans_count = @ + 1, !.current_RTO = 2 * @]
    ELSE s

Expired(s) == s.timer_running /\ s.timer_elapsed >= s.current_RTO /\ s.outstanding # <<>>

(* Fault: the segment that was sent last is transmitted again.              *)
Latest(s) == Last(s.outstanding)

Earliest(s) == Head(s.outstanding)

(* tick: once the timer has run for the timeout, the earliest outstanding   *)
(* segment is transmitted again.                                            *)
SenderTick(s, ms) ==
    LET later == [s EXCEPT !.timer_elapsed = @ + ms]
    IN  IF Expired(later)
        THEN Result(StartTimer(BackOff(later)), <<Earliest(later)>>)
        ELSE Result(later, <<>>)
=============================================================================

----------------------------- MODULE TCPSender -----------------------------
(***************************************************************************)
(* A TCPSender between an application that writes a stream and closes it,  *)
(* and a network that delivers messages of the peer's TCPReceiver: any     *)
(* ackno of what has been sent, old ones and repeated ones too, with any   *)
(* window. An action is one call of a public method.                       *)
(***************************************************************************)
EXTENDS TCPSenderOps

CONSTANTS
    SendCapacity,   \* TCPConfig::send_capacity
    MaxAge,         \* how far behind the next sequence number an old ackno may be
    Isn,            \* the ISNs the sender may be given
    Window,         \* the window sizes the peer advertises
    WriteLen,       \* lengths of the strings the application writes
    MaxBytes,       \* bound: bytes the application writes in a behaviour
    MaxElapsed,     \* bound: timer_elapsed_ (it also grows while the timer is off)
    MaxRetrans      \* bound: consecutive_retrans_count_

ASSUME EnvironmentAssumption ==
    /\ SendCapacity \in Nat /\ MaxAge \in Nat /\ MaxBytes \in Nat
    /\ MaxElapsed \in Nat /\ MaxRetrans \in Nat
    /\ Isn \subseteq Seqnos /\ Window \subseteq Nat /\ WriteLen \subseteq Nat

VARIABLES
    sender,
    transmitted,    \* what the last call gave to its TransmitFunction
    acked           \* the highest absolute ackno the sender was given

vars == <<sender, transmitted, acked>>

Init ==
    /\ \E isn \in Isn : sender = NewSender(NewStream(SendCapacity), isn)
    /\ transmitted = <<>>
    /\ acked = 0

(* outbound_writer().push and close.                                        *)
Write(len) ==
    /\ BytesPushed(sender.input) + len <= MaxBytes
    /\ sender' = [sender EXCEPT !.input = StreamPush(@, Bytes(BytesPushed(@), len))]
    /\ transmitted' = <<>>
    /\ UNCHANGED acked

Close ==
    /\ sender' = [sender EXCEPT !.input = StreamClose(@)]
    /\ transmitted' = <<>>
    /\ UNCHANGED acked

(* Writer::set_error, as the owner of the connection calls it to abort.     *)
Abort ==
    /\ sender' = [sender EXCEPT !.input = StreamSetError(@)]
    /\ transmitted' = <<>>
    /\ UNCHANGED acked

Push ==
    /\ sender' = SenderPush(sender).sender
    /\ transmitted' = SenderPush(sender).sent
    /\ UNCHANGED acked

(* A message with an ackno, the first ones of the peer without, or a reset. *)
ReceiveAckno(ackno, window) ==
    /\ sender' = SenderReceive(sender, ReceiverMessage(Wrap(ackno, sender.isn), window, FALSE))
    /\ transmitted' = <<>>
    /\ acked' = IF ackno > acked /\ ackno <= NextAbs(sender) THEN ackno ELSE acked

ReceiveWindow(window) ==
    /\ sender' = SenderReceive(sender, ReceiverMessage(NoAckno, window, FALSE))
    /\ transmitted' = <<>>
    /\ UNCHANGED acked

ReceiveReset ==
    /\ sender' = SenderReceive(sender, ReceiverMessage(NoAckno, 0, TRUE))
    /\ transmitted' = <<>>
    /\ UNCHANGED acked

Tick ==
    /\ sender.timer_elapsed < MaxElapsed
    /\ sender.consecutive_retrans_count < MaxRetrans
    /\ sender' = SenderTick(sender, 1).sender
    /\ transmitted' = SenderTick(sender, 1).sent
    /\ UNCHANGED acked

Next ==
    \/ \E len \in WriteLen : Write(len)
    \/ Close
    \/ Abort
    \/ Push
    \/ sender.sender_syn /\ \E ackno \in NextAbs(sender) - MaxAge .. NextAbs(sender) + 1, window \in Window :
                                ackno > 0 /\ ReceiveAckno(ackno, window)
    \/ ~sender.sender_syn /\ \E window \in Window : ReceiveWindow(window)
    \/ ReceiveReset
    \/ Tick

Spec == Init /\ [][Next]_vars

-----------------------------------------------------------------------------
Outstanding == sender.outstanding
InFlight    == SequenceNumbersInFlight(sender)

(* The absolute sequence number at which the k-th outstanding segment       *)
(* begins: the segments fill the space up to the next number to be sent.    *)
Start(k) ==
    NextAbs(sender)
        - SumFunctionOnSet([j \in DOMAIN Outstanding |-> SequenceLength(Outstanding[j])],
                           k .. Len(Outstanding))

(* The retransmission timer runs exactly while something is outstanding:    *)
(* neither is a lost segment forgotten nor does the timer fire for nothing. *)
TimerIffOutstanding == sender.timer_running <=> Outstanding # <<>>

(* Outstanding segments follow each other up to next_seqno_; a segment      *)
(* holds the SYN, the bytes and the FIN that belong at its sequence number  *)
(* and nothing else, however often the stream was written, pushed and       *)
(* acknowledged in part; the FIN comes behind the last byte of a closed     *)
(* stream.                                                                  *)
SegmentsHoldStream ==
    /\ sender.next_seqno = Wrap(NextAbs(sender), sender.isn)
    /\ sender.fin_sent => IsFinished(sender.input)
    /\ \A k \in DOMAIN Outstanding :
        LET seg == Outstanding[k]
        IN  /\ seg.seqno = Wrap(Start(k), sender.isn)
            /\ seg.SYN <=> Start(k) = 0
            /\ seg.payload = Bytes(Start(k) + Flag(seg.SYN) - 1, Len(seg.payload))
            /\ seg.FIN <=> (sender.fin_sent /\ k = Len(Outstanding))
            /\ SequenceLength(seg) > 0

(* A segment is outstanding exactly until an ackno covers all of it         *)
(* (tcp_sender.cc:179 "Remove fully acknowledged segments"); acknos that    *)
(* are old, repeated or of what was never sent change nothing.              *)
OutstandingIffUnacked ==
    IF Outstanding = <<>> THEN acked = NextAbs(sender)
    ELSE Start(1) <= acked /\ acked < Start(1) + SequenceLength(Head(Outstanding))

(* The timeout is the initial one, doubled for every retransmission since   *)
(* the last new acknowledgment; probes of a zero window do not count.       *)
ExponentialBackoff ==
    sender.current_RTO = InitialRTO * 2 ^ sender.consecutive_retrans_count

(* After the SYN, bytes and a FIN are sent only within the window that the  *)
(* peer last advertised, counting what is outstanding; a window of zero     *)
(* counts as one. (The SYN is sent without regard to a window.)             *)
WindowOrOne(s) == IF s.window_size > 0 THEN s.window_size ELSE 1

DataWithinWindow ==
    [][sender.sender_syn /\ NextAbs(sender') > NextAbs(sender)
           => SequenceNumbersInFlight(sender') <= WindowOrOne(sender)]_vars

(* What is transmitted again is the segment with the lowest number that no  *)
(* ackno has covered: the one the peer's receiver waits for.                *)
RetransmitsEarliest ==
    [][NextAbs(sender') = NextAbs(sender) /\ transmitted' # <<>> /\ ~sender.input.error =>
           \E a \in 0 .. acked :
               /\ Len(transmitted') = 1
               /\ transmitted'[1].seqno = Wrap(a, sender.isn)
               /\ acked < a + SequenceLength(transmitted'[1])]_vars
=============================================================================

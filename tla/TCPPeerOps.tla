----------------------------- MODULE TCPPeerOps -----------------------------
(***************************************************************************)
(* Class TCPPeer (src/util/tcp_peer.hh) as operators on a record of its    *)
(* members: a TCPSender and a TCPReceiver that share one segment, and what *)
(* decides when the connection is over. A message is what TCPSegment puts  *)
(* on the wire: a SenderMessage and a ReceiverMessage.                     *)
(***************************************************************************)
EXTENDS TCPSenderOps, TCPReceiverOps

CONSTANT LINGER   \* how many initial RTOs a peer lingers: 10 in the program

ASSUME PeerAssumption == LINGER \in Nat \ {0}

(* cumulative_time_ and time_of_last_receipt_ are only ever compared: idle  *)
(* is the time since the last receipt.                                      *)
NewPeer(send_capacity, recv_capacity, isn) ==
    [sender |-> NewSender(NewStream(send_capacity), isn),
     receiver |-> NewReceiver(NewReassembler(NewStream(recv_capacity))),
     need_send |-> FALSE,
     linger_after_streams_finish |-> TRUE,
     idle |-> 0]

(* How long a timer has run, how often it has expired and for how long a    *)
(* peer has lingered beyond the linger time: what only tells how long ago  *)
(* something was is left out by modules whose time is coarse.               *)
Coarse(p) ==
    [p EXCEPT !.sender.timer_elapsed = 0,
              !.sender.current_RTO = InitialRTO,
              !.sender.consecutive_retrans_count = 0,
              !.idle = Least(@, LINGER * InitialRTO)]

Inbound(p)  == p.receiver.reassembler.output
Outbound(p) == p.sender.input

(* TCPSegment has one RST flag for both halves of a message.                *)
Segment(sender_message, receiver_message) ==
    LET rst == sender_message.RST \/ receiver_message.RST
    IN  [sender |-> [sender_message EXCEPT !.RST = rst],
         receiver |-> [receiver_message EXCEPT !.RST = rst]]

PeerResult(p, sent) == [peer |-> p, sent |-> sent]

(* send, for every message in turn: each goes out with what the receiver    *)
(* has to say, and answers what asked for an answer.                        *)
PeerSend(p, messages) ==
    PeerResult([p EXCEPT !.need_send = @ /\ messages = <<>>],
               [k \in DOMAIN messages |-> Segment(messages[k], ReceiverSend(p.receiver))])

PeerPush(p) ==
    LET pushed == SenderPush(p.sender)
    IN  PeerSend([p EXCEPT !.sender = pushed.sender], pushed.sent)

PeerTick(p, ms) ==
    LET ticked == SenderTick(p.sender, ms)
    IN  PeerSend([p EXCEPT !.sender = ticked.sender, !.idle = @ + ms], ticked.sent)

(* Fault: what is in flight is not waited for.                              *)
UnsentOnly(p) == ~IsFinished(Outbound(p))

SenderActive(p) == SequenceNumbersInFlight(p.sender) > 0 \/ ~IsFinished(Outbound(p))

ReceiverActive(p) == ~IsClosed(Inbound(p))

Lingering(p) == p.linger_after_streams_finish /\ p.idle < LINGER * InitialRTO

HasErrors(p) == Inbound(p).error \/ Outbound(p).error

Active(p) == ~HasErrors(p) /\ (SenderActive(p) \/ ReceiverActive(p) \/ Lingering(p))

(* Fault: only a segment that moves the window on is answered.              *)
InOrderOnly(p, msg) ==
    /\ SequenceLength(msg.sender) > 0
    /\ p.receiver.isn_set => msg.sender.seqno = ReceiverSend(p.receiver).ackno

(* A segment that occupies sequence numbers is answered, and so is a        *)
(* "keep-alive", whose sequence number is one below the ackno.              *)
WantsReply(p, msg) ==
    \/ SequenceLength(msg.sender) > 0
    \/ p.receiver.isn_set /\ Wrap(1, msg.sender.seqno) = ReceiverSend(p.receiver).ackno

(* Fault: it does not matter which stream finishes first.                   *)
LingerNever(p) ==
    IF IsClosed(Inbound(p)) THEN [p EXCEPT !.linger_after_streams_finish = FALSE] ELSE p

(* If the inbound stream finishes first, the other side has to linger.      *)
NoteLinger(p) ==
    IF IsClosed(Inbound(p)) /\ ~IsFinished(Outbound(p))
    THEN [p EXCEPT !.linger_after_streams_finish = FALSE] ELSE p

PeerReceive(p, msg) ==
    LET received == [p EXCEPT !.idle = 0,
                              !.need_send = @ \/ WantsReply(p, msg),
                              !.receiver = ReceiverReceive(@, msg.sender),
                              !.sender = SenderReceive(@, msg.receiver)]
        pushed   == PeerPush(received)
        reply    == IF pushed.peer.need_send
                    THEN PeerSend(pushed.peer, <<MakeEmptyMessage(pushed.peer.sender)>>)
                    ELSE PeerResult(pushed.peer, <<>>)
    IN  IF ~Active(p) THEN PeerResult(p, <<>>)
        ELSE PeerResult(NoteLinger(reply.peer), pushed.sent \o reply.sent)
=============================================================================

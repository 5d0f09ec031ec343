---------------------------- MODULE TCPMessages ----------------------------
(***************************************************************************)
(* What a TCPSender and a TCPReceiver send to each other                   *)
(* (src/util/tcp_sender_message.hh, tcp_receiver_message.hh).              *)
(***************************************************************************)
EXTENDS StreamOps

(* std::optional<Wrap32> without a value.                                   *)
NoAckno == -1

SenderMessage(seqno, syn, payload, fin, rst) ==
    [seqno |-> seqno, SYN |-> syn, payload |-> payload, FIN |-> fin, RST |-> rst]

ReceiverMessage(ackno, window_size, rst) ==
    [ackno |-> ackno, window_size |-> window_size, RST |-> rst]

Flag(b) == IF b THEN 1 ELSE 0

SequenceLength(msg) == Flag(msg.SYN) + Len(msg.payload) + Flag(msg.FIN)
=============================================================================

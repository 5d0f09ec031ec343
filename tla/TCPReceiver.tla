---------------------------- MODULE TCPReceiver ----------------------------
(***************************************************************************)
(* A TCPReceiver that the messages of one TCPSender reach in any order,    *)
(* some of them often and some never, while a reader takes bytes from its  *)
(* output. Sequence numbers wrap around on the way; a message begins at    *)
(* most MaxAge below the ackno and not beyond the window (a message that   *)
(* probes a window of zero begins where the window ends).                  *)
(***************************************************************************)
EXTENDS TCPReceiverOps

CONSTANTS
    Capacity,   \* TCPConfig::recv_capacity
    Length,     \* length of the sender's stream
    Isn,        \* the ISNs the sender may have
    MaxPayload, \* bound: bytes in a message
    MaxAge,     \* how far below the ackno a message may begin
    ReadLen     \* the lengths a reader asks for

ASSUME EnvironmentAssumption ==
    /\ Capacity \in Nat /\ Length \in Nat /\ MaxPayload \in Nat
    /\ Isn \subseteq Seqnos
    /\ ReadLen \subseteq Nat
    /\ MaxAge \in Nat /\ 2 * MaxAge <= CYCLE
    /\ 2 * (Least(Capacity, MaxWindow) + 1) < CYCLE
    /\ Length + 1 < WORD

VARIABLES
    receiver,
    isn,       \* the sender's ISN
    arrived    \* the absolute numbers of the SYN, the bytes in the window and the FIN that have arrived

vars == <<receiver, isn, arrived>>

Init ==
    /\ isn \in Isn
    /\ receiver = NewReceiver(NewReassembler(NewStream(Capacity)))
    /\ arrived = {}

Output == receiver.reassembler.output

(* Where the window ends, in absolute numbers.                              *)
RightEdge(c) == AbsAckno(c) + WindowSize(c)

(* What the sender may send at first: the SYN is number 0, byte i of the    *)
(* stream is number i + 1 and the FIN number Length + 1.                    *)
Message(first, len, fin) ==
    SenderMessage(Wrap(first, isn), first = 0,
                  Bytes(first - 1 + Flag(first = 0), len), fin, FALSE)

Receive(first, len, fin) ==
    LET syn   == Flag(first = 0)
        limit == 1 + BytesPushed(Output) + AvailableCapacity(Output)
        bytes == {n \in first + syn .. first + syn + len - 1 : n < limit}
    IN  /\ first + syn + len <= Length + 1
        /\ fin => first + syn + len = Length + 1
        /\ receiver' = ReceiverReceive(receiver, Message(first, len, fin))
        /\ arrived' = IF receiver.isn_set \/ first = 0
                      THEN arrived \cup bytes \cup {n \in {0} : n = first}
                                   \cup {n \in {Length + 1} : fin}
                      ELSE arrived
        /\ UNCHANGED isn

ReceiveReset ==
    /\ receiver' = ReceiverReceive(receiver, SenderMessage(isn, FALSE, <<>>, FALSE, TRUE))
    /\ UNCHANGED <<isn, arrived>>

Pop(len) ==
    /\ receiver' = [receiver EXCEPT !.reassembler.output = StreamPop(@, len)]
    /\ UNCHANGED <<isn, arrived>>

Next ==
    \/ \E first \in AbsAckno(receiver) - MaxAge .. RightEdge(receiver),
          len \in 0 .. MaxPayload, fin \in BOOLEAN :
            first >= 0 /\ Receive(first, len, fin)
    \/ ReceiveReset
    \/ \E len \in ReadLen : Pop(len)

Spec == Init /\ [][Next]_vars

-----------------------------------------------------------------------------
Pending == receiver.reassembler.pending

TypeOK ==
    /\ receiver.isn_set => receiver.isn = isn
    /\ Output.popped + Len(Output.queue) <= Length
    /\ ReceiverSend(receiver).ackno \in Seqnos \cup {NoAckno}
    /\ ReceiverSend(receiver).window_size \in 0 .. Least(Capacity, MaxWindow)

(* However often sequence numbers have wrapped, a byte is written at the    *)
(* place in the stream that its sender gave it: unwrapping near the number  *)
(* of bytes pushed (tcp_receiver.cc:25) takes no old message for a new one. *)
ReaderGetsStream ==
    \A k \in DOMAIN Output.queue : Output.queue[k] = Output.popped + k - 1

(* The ackno acknowledges nothing that has not arrived: what the sender     *)
(* forgets because of it is never needed again.                             *)
AcksOnlyArrived == receiver.isn_set => 0 .. AbsAckno(receiver) - 1 \subseteq arrived

(* Bytes that arrived in the window are written or stored: what is below    *)
(* the ackno, or fills a gap above it, need not be sent again.              *)
Held == 1 .. BytesPushed(Output)
            \cup UNION {Pending[k].first + 1 .. EndOf(Pending[k]) : k \in DOMAIN Pending}

ArrivedIsHeld == arrived \ {0, Length + 1} \subseteq Held

(* The right edge of the window never moves back (RFC 9293 3.8.6), whatever *)
(* arrives and is read: the sender may rely on room it was once promised.   *)
RightEdgeNeverShrinks == [][RightEdge(receiver') >= RightEdge(receiver)]_vars
=============================================================================

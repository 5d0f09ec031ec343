---------------------------- MODULE TCPConnection ----------------------------
(***************************************************************************)
(* A client and a server, each a TCPPeer in the event loop of its          *)
(* TCPMinnowSocket (src/util/tcp_minnow_socket_impl.hh), and the network   *)
(* between them. The client connects; each owner writes a stream, closes   *)
(* it, and reads what the other one wrote. Datagrams are lost, duplicated  *)
(* and delivered out of order.                                             *)
(*                                                                         *)
(* Time is coarse: a tick lasts until the retransmission timer or the      *)
(* linger time runs out, and the two clocks are independent. What only     *)
(* tells how long that was (TCPPeerOps!Coarse) is not part of the state.   *)
(***************************************************************************)
EXTENDS TCPPeerOps

CONSTANTS
    Client, Server,
    SendCapacity,   \* TCPConfig::send_capacity
    RecvCapacity,   \* TCPConfig::recv_capacity
    Isn,            \* TCPConfig::isn, by peer
    Length,         \* how many bytes the owner of a peer writes
    WriteLen,       \* lengths of the strings the owners write
    MaxInFlight,    \* bound: datagrams on their way to a peer; more are lost
    MaxFaults       \* bound: datagrams lost, duplicated, overtaken or not waited for

Peers == {Client, Server}

ASSUME ConnectionAssumption ==
    /\ Client # Server
    /\ SendCapacity \in Nat /\ RecvCapacity \in Nat
    /\ Isn \in [Peers -> Seqnos] /\ Length \in [Peers -> Nat] /\ WriteLen \subseteq Nat
    /\ MaxInFlight \in Nat /\ MaxFaults \in Nat

Other(p) == IF p = Client THEN Server ELSE Client

VARIABLES
    peer,     \* the TCPPeer of each side
    network,  \* the datagrams on their way to a peer, in the order they were sent
    faults

vars == <<peer, network, faults>>

Init ==
    /\ peer = [p \in Peers |-> NewPeer(SendCapacity, RecvCapacity, Isn[p])]
    /\ network = [p \in Peers |-> <<>>]
    /\ faults = 0

(* A step of p after which the datagrams on their way to it are left, and   *)
(* that sends datagrams to the other peer.                                  *)
Step(p, result, left) ==
    /\ peer' = [peer EXCEPT ![p] = Coarse(result.peer)]
    /\ network' = [network EXCEPT
           ![p] = left,
           ![Other(p)] = Take(@ \o result.sent, Least(Len(@) + Len(result.sent), MaxInFlight))]

(* connect: the first push sends the SYN.                                   *)
Connect ==
    /\ ~peer[Client].sender.sender_syn
    /\ Step(Client, PeerPush(peer[Client]), network[Client])
    /\ UNCHANGED faults

(* connect and listen_and_accept return once the SYN has been acknowledged. *)
Connected(p) == peer[p].sender.sender_syn /\ peer[p].sender.last_ackno # peer[p].sender.isn

(* Rule 2 of the event loop: the outbound stream takes what the owner       *)
(* writes, as far as there is capacity, or is closed at its end.            *)
CanWrite(p) ==
    /\ Connected(p) /\ Active(peer[p])
    /\ ~IsClosed(Outbound(peer[p])) /\ AvailableCapacity(Outbound(peer[p])) > 0

Write(p, len) ==
    LET pushed == BytesPushed(Outbound(peer[p]))
    IN  /\ CanWrite(p)
        /\ len <= AvailableCapacity(Outbound(peer[p]))
        /\ pushed + len <= Length[p]
        /\ Step(p, PeerPush([peer[p] EXCEPT !.sender.input = StreamPush(@, Bytes(pushed, len))]),
                network[p])
        /\ UNCHANGED faults

Close(p) ==
    /\ CanWrite(p)
    /\ BytesPushed(Outbound(peer[p])) = Length[p]
    /\ Step(p, PeerPush([peer[p] EXCEPT !.sender.input = StreamClose(@)]), network[p])
    /\ UNCHANGED faults

(* Rule 3: one byte of the inbound stream, which is all that peek shows, is *)
(* written to the owner. The other side is not told that there is room.     *)
Read(p) ==
    /\ BytesBuffered(Inbound(peer[p])) > 0
    /\ peer' = [peer EXCEPT ![p].receiver.reassembler.output = StreamPop(@, 1)]
    /\ UNCHANGED <<network, faults>>

(* A socket that listens hears nothing but a SYN                            *)
(* (TCPOverIPv4Adapter::unwrap_tcp_in_ip).                                  *)
Hears(p, msg) ==
    p = Client \/ peer[p].receiver.isn_set \/ (msg.sender.SYN /\ ~msg.sender.RST)

(* Rule 1: a datagram is given to the TCPPeer.                              *)
Hear(p, msg, left) ==
    Step(p, IF Hears(p, msg) THEN PeerReceive(peer[p], msg) ELSE PeerResult(peer[p], <<>>), left)

Deliver(p) ==
    /\ network[p] # <<>>
    /\ Hear(p, Head(network[p]), Tail(network[p]))
    /\ UNCHANGED faults

(* The datagram has overtaken the ones before it, or another copy of it is  *)
(* still to come.                                                           *)
DeliverFaulty(p, k, duplicated) ==
    /\ faults < MaxFaults /\ faults' = faults + 1
    /\ k > 1 \/ duplicated
    /\ Hear(p, network[p][k], IF duplicated THEN network[p] ELSE RemoveAt(network[p], k))

Lose(p) ==
    /\ faults < MaxFaults /\ faults' = faults + 1
    /\ network[p] # <<>>
    /\ network' = [network EXCEPT ![p] = Tail(@)]
    /\ UNCHANGED peer

(* Nothing is on its way: what has not arrived by now never will.           *)
Quiet == \A p \in Peers : network[p] = <<>>

(* A retransmission timer expires sooner than a linger time, and neither    *)
(* expires before what is on its way arrives; anything else is a fault.     *)
InTime(p) ==
    /\ Quiet
    /\ peer[p].sender.timer_running
           \/ ~(peer[Other(p)].sender.timer_running /\ Active(peer[Other(p)]))

(* The loop ticks an active peer: until the timer expires, or else until it *)
(* has lingered.                                                            *)
CanTick(p) ==
    /\ Active(peer[p])
    /\ peer[p].sender.timer_running \/ peer[p].idle < LINGER * InitialRTO
    /\ InTime(p) \/ faults < MaxFaults

Tick(p) ==
    /\ CanTick(p)
    /\ faults' = IF InTime(p) THEN faults ELSE faults + 1
    /\ Step(p, PeerTick(peer[p], IF peer[p].sender.timer_running THEN InitialRTO
                                 ELSE LINGER * InitialRTO), network[p])

Next ==
    \/ Connect
    \/ \E p \in Peers :
        \/ \E len \in WriteLen : Write(p, len)
        \/ Close(p)
        \/ Read(p)
        \/ Deliver(p)
        \/ \E k \in DOMAIN network[p], duplicated \in BOOLEAN : DeliverFaulty(p, k, duplicated)
        \/ Lose(p)
        \/ Tick(p)

Spec == Init /\ [][Next]_vars

(* The event loop of each side serves every rule that is ready and ticks;   *)
(* the network delivers what it does not lose; the owners write, close and  *)
(* read. All of this is weak fairness. Behind Connect it is written with    *)
(* the action's condition in place of ENABLED, which TLC evaluates far too  *)
(* slowly: each action is enabled, and changes the state, exactly if the    *)
(* condition beside it fails.                                               *)
Fairness ==
    /\ WF_vars(Connect)
    /\ \A p \in Peers :
        /\ []<>(~CanWrite(p)) \/ []<><<(\E len \in WriteLen : Write(p, len)) \/ Close(p)>>_vars
        /\ []<>(BytesBuffered(Inbound(peer[p])) = 0) \/ []<><<Read(p)>>_vars
        /\ []<>(network[p] = <<>>) \/ []<><<Deliver(p)>>_vars
        /\ []<>(~CanTick(p)) \/ []<><<Tick(p)>>_vars

FairSpec == Spec /\ Fairness

-----------------------------------------------------------------------------
(* What an owner reads is what the other one wrote: every byte, once, in    *)
(* order, and the end of the stream only behind the last of them.           *)
StreamsIntact ==
    \A p \in Peers :
        LET inbound == Inbound(peer[p])
        IN  /\ \A k \in DOMAIN inbound.queue : inbound.queue[k] = inbound.popped + k - 1
            /\ BytesPushed(inbound) <= BytesPushed(Outbound(peer[Other(p)]))
            /\ IsClosed(inbound) => /\ IsClosed(Outbound(peer[Other(p)]))
                                    /\ BytesPushed(inbound) = Length[Other(p)]

(* A peer is no longer active only when both streams have come through: the *)
(* other side has everything that this side sent, and the other way round.  *)
(* Nothing is lost by leaving, whichever side closes first.                 *)
NothingLostByLeaving ==
    \A p \in Peers :
        ~Active(peer[p]) => \A q \in Peers : IsClosed(Inbound(peer[q]))

(* What a sender believes to be acknowledged has been received: SYN, bytes  *)
(* and FIN that it will never send again are with its peer.                 *)
Received(p) ==
    LET receiver == peer[p].receiver
    IN  Flag(receiver.isn_set) + BytesPushed(Inbound(peer[p])) + Flag(IsClosed(Inbound(peer[p])))

AckedIsReceived ==
    \A p \in Peers :
        peer[p].sender.sender_syn =>
            Abs(peer[p].sender, peer[p].sender.last_ackno) <= Received(Other(p))

(* Both streams come through, although the window closes and nobody says    *)
(* when it opens again, segments and acknowledgments are lost and either    *)
(* side may leave.                                                          *)
EventuallyDelivered ==
    <>(\A p \in Peers : IsFinished(Inbound(peer[p]))
                            /\ Inbound(peer[p]).popped = Length[Other(p)])

(* Neither side stays behind: both are inactive in the end, and             *)
(* wait_until_closed returns. With two faults that does not hold: the last  *)
(* acknowledgment may be lost and its sender gone, and the other side then  *)
(* has only giving up to end with (README.md:49 "Maximum Retransmissions: 8 *)
(* attempts before connection failure").                                    *)
EventuallyInactive == <>(\A p \in Peers : ~Active(peer[p]))

(* With at most one fault it does hold: whichever side lingers, in case the *)
(* other needs its last acknowledgment again, leaves at last, and so does   *)
(* the other.                                                               *)
EventuallyBothLeave == <>(faults > 1) \/ EventuallyInactive
=============================================================================

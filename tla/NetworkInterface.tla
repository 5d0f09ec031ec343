-------------------------- MODULE NetworkInterface --------------------------
(***************************************************************************)
(* A NetworkInterface between an owner that sends datagrams by way of      *)
(* several next hops and an Ethernet on which hosts ask, answer, change    *)
(* their Ethernet addresses or keep silent. The datagrams are numbered in  *)
(* the order they are sent.                                                *)
(***************************************************************************)
EXTENDS NetworkInterfaceOps

CONSTANTS
    OwnIP, OwnEthernet,
    Hop,            \* the IP addresses of the next hops
    Ethernet,       \* the Ethernet addresses that they may have
    TickMs,         \* how long a tick may last
    MaxDatagrams,   \* bound: datagrams sent
    MaxReceived     \* bound: datagrams received

ASSUME EnvironmentAssumption ==
    /\ NoIP \notin Hop
    /\ TickMs \subseteq Nat
    /\ MaxReceived \in Nat

VARIABLES
    interface,
    frames,     \* what the last call transmitted
    next_hop,   \* the next hop of each datagram sent so far
    heard,      \* by hop: the address its last ARP message gave, and how long ago
    asked       \* by hop: how long ago it was asked for; RequestTTL or more at first

vars == <<interface, frames, next_hop, heard, asked>>

Garbled == [opcode |-> "unknown", sender_ethernet_address |-> NoEthernet, sender_ip_address |-> NoIP,
            target_ethernet_address |-> NoEthernet, target_ip_address |-> NoIP]

(* A datagram from the wire.                                                *)
FromAbroad == 0

Init ==
    /\ interface = NewInterface(OwnEthernet, OwnIP)
    /\ frames = <<>>
    /\ next_hop = <<>>
    /\ heard = [ip \in Hop |-> [ethernet_addr |-> NoEthernet, age |-> EntryTTL]]
    /\ asked = [ip \in Hop |-> RequestTTL]

Effect(result) == interface' = result.interface /\ frames' = result.frames

Send(hop) ==
    /\ Len(next_hop) < MaxDatagrams
    /\ next_hop' = Append(next_hop, hop)
    /\ Effect(SendDatagram(interface, Len(next_hop) + 1, hop))
    /\ asked' = IF frames' # <<>> /\ frames'[1].type = "ARP"
                THEN [asked EXCEPT ![hop] = 0] ELSE asked
    /\ UNCHANGED heard

HearARP(dst, opcode, ip, ethernet, target) ==
    /\ Effect(RecvFrame(interface,
           ARPFrame(ethernet, dst, ARPMessage(opcode, ethernet, ip, NoEthernet, target))))
    /\ heard' = IF dst \in {OwnEthernet, Broadcast}
                THEN [heard EXCEPT ![ip] = [ethernet_addr |-> ethernet, age |-> 0]]
                ELSE heard
    /\ UNCHANGED <<next_hop, asked>>

(* An ARP message that cannot be parsed: its fields keep their zeros.       *)
HearGarbledARP ==
    /\ Effect(RecvFrame(interface, ARPFrame(NoEthernet, Broadcast, Garbled)))
    /\ UNCHANGED <<next_hop, heard, asked>>

HearIPv4(dst) ==
    /\ Len(interface.datagrams_received) < MaxReceived
    /\ Effect(RecvFrame(interface, IPv4Frame(NoEthernet, dst, FromAbroad)))
    /\ UNCHANGED <<next_hop, heard, asked>>

Tick(ms) ==
    /\ Effect(InterfaceResult(InterfaceTick(interface, ms), <<>>))
    /\ heard' = [ip \in Hop |-> [heard[ip] EXCEPT !.age = IF @ + ms < EntryTTL THEN @ + ms ELSE EntryTTL]]
    /\ asked' = [ip \in Hop |-> IF asked[ip] + ms < RequestTTL THEN asked[ip] + ms ELSE RequestTTL]
    /\ UNCHANGED next_hop

Next ==
    \/ \E hop \in Hop : Send(hop)
    \/ \E dst \in {OwnEthernet, Broadcast, NoEthernet}, opcode \in {"request", "reply"},
          ip \in Hop, ethernet \in Ethernet, target \in Hop \cup {OwnIP} :
            HearARP(dst, opcode, ip, ethernet, target)
    \/ HearGarbledARP
    \/ \E dst \in {OwnEthernet, NoEthernet} : HearIPv4(dst)
    \/ \E ms \in TickMs : Tick(ms)

Spec == Init /\ [][Next]_vars

-----------------------------------------------------------------------------
TypeOK ==
    /\ DOMAIN interface.arp_table \subseteq Hop \cup {NoIP}
    /\ \A ip \in DOMAIN interface.arp_table : interface.arp_table[ip].time_elapsed \in 0 .. EntryTTL - 1
    /\ \A ip \in DOMAIN interface.pending_arp_requests :
           ip \in Hop /\ interface.pending_arp_requests[ip] \in 0 .. RequestTTL - 1
    /\ Len(interface.datagrams_received) <= MaxReceived

IsQueued(i, n) ==
    \E ip \in DOMAIN i.pending_datagrams :
        \E k \in DOMAIN i.pending_datagrams[ip] : i.pending_datagrams[ip][k] = n

Carries(frame, n) == frame.type = "IPv4" /\ frame.payload = n

Transmits(sent, n) == \E k \in DOMAIN sent : Carries(sent[k], n)

(* A datagram that waits is waiting for something: an answer to a request   *)
(* that is pending, or else the end of that request. None is left in a      *)
(* queue that nobody will look at again.                                    *)
WaitsForAnswer ==
    /\ DOMAIN interface.pending_datagrams \subseteq DOMAIN interface.pending_arp_requests
    /\ \A ip \in DOMAIN interface.pending_datagrams :
        /\ interface.pending_datagrams[ip] # <<>>
        /\ \A k \in DOMAIN interface.pending_datagrams[ip] :
               next_hop[interface.pending_datagrams[ip][k]] = ip

(* No address is asked for twice within RequestTTL, although a reply        *)
(* forgets the request and the mapping it brought may change or expire.     *)
RequestsSpaced ==
    [][\A ip \in Hop : asked'[ip] = 0 /\ frames' # <<>> /\ frames'[1] = ARPRequest(interface, ip)
           => asked[ip] >= RequestTTL]_vars

(* A datagram is transmitted once, when it is sent or when it leaves its    *)
(* queue; without being transmitted it leaves the queue only if nobody has  *)
(* answered for RequestTTL, and is never lost before (a mapping that        *)
(* expires, network_interface.cc:183, takes no datagram with it).           *)
OnceOrUnanswered ==
    [][\A n \in DOMAIN next_hop' :
        /\ Transmits(frames', n) => /\ IsQueued(interface, n) \/ n \notin DOMAIN next_hop
                                    /\ ~IsQueued(interface', n)
        /\ IsQueued(interface, n) /\ ~IsQueued(interface', n) /\ ~Transmits(frames', n)
               => asked'[next_hop[n]] >= RequestTTL
        /\ n \notin DOMAIN next_hop => Transmits(frames', n) \/ IsQueued(interface', n)]_vars

(* A datagram goes to the Ethernet address that its next hop announced      *)
(* last, and only if that was less than EntryTTL ago.                       *)
SentWhereHeard ==
    [][\A n \in DOMAIN next_hop', k \in DOMAIN frames' :
        Carries(frames'[k], n) =>
            /\ frames'[k].dst = heard'[next_hop'[n]].ethernet_addr
            /\ heard'[next_hop'[n]].age < EntryTTL]_vars
=============================================================================

------------------------- MODULE NetworkInterfaceOps -------------------------
(***************************************************************************)
(* Class NetworkInterface (src/src/network_interface.hh, .cc) as operators *)
(* on a record of its members; its maps are functions on the IP addresses  *)
(* they have an entry for. A method yields the interface after the call    *)
(* and the frames it transmitted, in order.                                *)
(***************************************************************************)
EXTENDS Integers, Sequences

CONSTANTS
    NoIP, NoEthernet,   \* 0.0.0.0 and the Ethernet address of six zeros
    Broadcast,          \* ETHERNET_BROADCAST
    EntryTTL,           \* how long a mapping is kept: 30000 ms in the program
    RequestTTL          \* how long an ARP request stays pending: 5000 ms

ASSUME InterfaceAssumption ==
    /\ EntryTTL \in Nat /\ RequestTTL \in Nat
    /\ 0 < RequestTTL /\ RequestTTL < EntryTTL

NewInterface(ethernet_address, ip_address) ==
    [ethernet_address |-> ethernet_address, ip_address |-> ip_address,
     arp_table |-> <<>>, pending_datagrams |-> <<>>, pending_arp_requests |-> <<>>,
     datagrams_received |-> <<>>]

InterfaceResult(i, frames) == [interface |-> i, frames |-> frames]

(* map[key] = value and map.erase of all these keys.                        *)
Put(map, key, value) ==
    [k \in DOMAIN map \cup {key} |-> IF k = key THEN value ELSE map[k]]

Erase(map, keys) == [k \in DOMAIN map \ keys |-> map[k]]

IPv4Frame(src, dst, dgram) == [type |-> "IPv4", src |-> src, dst |-> dst, payload |-> dgram]
ARPFrame(src, dst, arp)    == [type |-> "ARP", src |-> src, dst |-> dst, payload |-> arp]

ARPMessage(opcode, sender_ethernet, sender_ip, target_ethernet, target_ip) ==
    [opcode |-> opcode, sender_ethernet_address |-> sender_ethernet, sender_ip_address |-> sender_ip,
     target_ethernet_address |-> target_ethernet, target_ip_address |-> target_ip]

ARPRequest(i, target_ip) ==
    ARPFrame(i.ethernet_address, Broadcast,
             ARPMessage("request", i.ethernet_address, i.ip_address, NoEthernet, target_ip))

ARPReply(i, arp) ==
    ARPFrame(i.ethernet_address, arp.sender_ethernet_address,
             ARPMessage("reply", i.ethernet_address, i.ip_address,
                        arp.sender_ethernet_address, arp.sender_ip_address))

Queued(i, ip) == IF ip \in DOMAIN i.pending_datagrams THEN i.pending_datagrams[ip] ELSE <<>>

(* Fault: a request that is pending does not count.                         *)
AlwaysAsk(i, ip) == TRUE

MustAsk(i, ip) == ip \notin DOMAIN i.pending_arp_requests

(* send_datagram: to the Ethernet address of the next hop, if it is known;  *)
(* otherwise the datagram waits, and the address is asked for unless it has *)
(* been asked for already.                                                  *)
SendDatagram(i, dgram, next_hop) ==
    LET waiting == [i EXCEPT !.pending_datagrams =
                        Put(@, next_hop, Append(Queued(i, next_hop), dgram))]
    IN  IF next_hop \in DOMAIN i.arp_table
        THEN InterfaceResult(i, <<IPv4Frame(i.ethernet_address,
                                            i.arp_table[next_hop].ethernet_addr, dgram)>>)
        ELSE IF MustAsk(i, next_hop)
        THEN InterfaceResult([waiting EXCEPT !.pending_arp_requests = Put(@, next_hop, 0)],
                             <<ARPRequest(i, next_hop)>>)
        ELSE InterfaceResult(waiting, <<>>)

NewEntry(arp) == [ethernet_addr |-> arp.sender_ethernet_address, time_elapsed |-> 0]

(* Fault: a mapping that is there is not replaced.                          *)
LearnOnce(i, arp) ==
    [i EXCEPT !.arp_table = IF arp.sender_ip_address \in DOMAIN @ THEN @
                            ELSE Put(@, arp.sender_ip_address, NewEntry(arp))]

Learn(i, arp) == [i EXCEPT !.arp_table = Put(@, arp.sender_ip_address, NewEntry(arp))]

(* Fault: only the first of the datagrams that wait is transmitted.         *)
FlushFirst(i, arp) ==
    LET waiting == Queued(i, arp.sender_ip_address)
    IN  [k \in 1 .. (IF waiting = <<>> THEN 0 ELSE 1) |->
            IPv4Frame(i.ethernet_address, arp.sender_ethernet_address, waiting[k])]

(* The datagrams that wait for the sender of a reply, in their order.       *)
Flush(i, arp) ==
    LET waiting == Queued(i, arp.sender_ip_address)
    IN  [k \in DOMAIN waiting |->
            IPv4Frame(i.ethernet_address, arp.sender_ethernet_address, waiting[k])]

Answered(i, ip) ==
    [i EXCEPT !.pending_datagrams = Erase(@, {ip}), !.pending_arp_requests = Erase(@, {ip})]

(* Whoever sends an ARP message, its mapping is learnt. A request for the   *)
(* own address is answered; a reply is what datagrams have waited for.      *)
RecvARP(i, arp) ==
    LET learnt == Learn(i, arp)
    IN  IF arp.opcode = "request" /\ arp.target_ip_address = i.ip_address
        THEN InterfaceResult(learnt, <<ARPReply(i, arp)>>)
        ELSE IF arp.opcode = "reply"
        THEN InterfaceResult(Answered(learnt, arp.sender_ip_address), Flush(i, arp))
        ELSE InterfaceResult(learnt, <<>>)

(* What is received is kept whether or not it could be parsed.              *)
RecvFrame(i, frame) ==
    IF frame.dst \notin {i.ethernet_address, Broadcast} THEN InterfaceResult(i, <<>>)
    ELSE IF frame.type = "ARP" THEN RecvARP(i, frame.payload)
    ELSE InterfaceResult([i EXCEPT !.datagrams_received = Append(@, frame.payload)], <<>>)

StaleEntries(i, ms) ==
    {ip \in DOMAIN i.arp_table : i.arp_table[ip].time_elapsed + ms >= EntryTTL}

(* Fault: what waits for an answer waits on.                                *)
KeepWaiting(i, ms) == {}

StaleRequests(i, ms) ==
    {ip \in DOMAIN i.pending_arp_requests : i.pending_arp_requests[ip] + ms >= RequestTTL}

(* Fault: what waits for an answer is not dropped with the request.         *)
DropStale(i, ms) == StaleEntries(i, ms)

(* Datagrams for what has expired are dropped.                              *)
Dropped(i, ms) == StaleEntries(i, ms) \cup StaleRequests(i, ms)

Aged(entry, ms) == [entry EXCEPT !.time_elapsed = @ + ms]

InterfaceTick(i, ms) ==
    [i EXCEPT
        !.arp_table = [ip \in DOMAIN @ \ StaleEntries(i, ms) |-> Aged(@[ip], ms)],
        !.pending_arp_requests = [ip \in DOMAIN @ \ StaleRequests(i, ms) |-> @[ip] + ms],
        !.pending_datagrams = Erase(@, Dropped(i, ms))]
=============================================================================

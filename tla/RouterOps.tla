------------------------------ MODULE RouterOps ------------------------------
(***************************************************************************)
(* Class Router (src/src/router.hh, .cc) as operators on a record of its   *)
(* interfaces and its routing table. Addresses are numbers of AddressBits  *)
(* bits; interfaces are numbered from 1. The datagrams are well-formed:    *)
(* version 4 and complete. Their checksum is not part of the model: the    *)
(* router does not set it, and IPv4Header::parse replaces whatever came.   *)
(***************************************************************************)
EXTENDS NetworkInterfaceOps

CONSTANTS
    AddressBits,    \* 32 in the program
    Direct          \* the next hop of a network that is attached to the router

ASSUME RouterAssumption == AddressBits \in Nat

NewRouter(interfaces) == [interfaces |-> interfaces, routing_table |-> <<>>]

RouteEntry(route_prefix, prefix_length, next_hop, interface_num) ==
    [route_prefix |-> route_prefix, prefix_length |-> prefix_length,
     next_hop |-> next_hop, interface_num |-> interface_num]

(* An interface that does not exist is refused with an exception.           *)
AddRoute(r, entry) ==
    IF entry.interface_num \in DOMAIN r.interfaces
    THEN [r EXCEPT !.routing_table = Append(@, entry)] ELSE r

(* The bits that a prefix of this length leaves of an address.              *)
Masked(ip, prefix_length) == ip - (ip % 2 ^ (AddressBits - prefix_length))

MatchesRoute(dest_ip, route_prefix, prefix_length) ==
    \/ prefix_length = 0
    \/ Masked(dest_ip, prefix_length) = Masked(route_prefix, prefix_length)

(* Fault: the length of the prefix is not looked at.                        *)
ForgetfulOf(table, dest_ip, best, k) ==
    IF MatchesRoute(dest_ip, table[k].route_prefix, table[k].prefix_length) THEN k ELSE best

(* The loop's step: a match as long as the best so far takes its place.      *)
LongerOf(table, dest_ip, best, k) ==
    IF /\ MatchesRoute(dest_ip, table[k].route_prefix, table[k].prefix_length)
       /\ best = 0 \/ table[k].prefix_length >= table[best].prefix_length
    THEN k ELSE best

(* The place in the table of the route to take, 0 if there is none.         *)
BestRoute(table, dest_ip) ==
    LET best[k \in 0 .. Len(table)] ==
            IF k = 0 THEN 0 ELSE LongerOf(table, dest_ip, best[k - 1], k)
    IN  best[Len(table)]

NextHop(entry, dest_ip) == IF entry.next_hop = Direct THEN dest_ip ELSE entry.next_hop

(* The router after a call and the frames transmitted, by interface.        *)
RouterResult(r, frames) == [router |-> r, frames |-> frames]

NoFrames(r) == [n \in DOMAIN r.interfaces |-> <<>>]

(* Fault: the TTL is tested but not decremented.                            *)
PassedOnAsIs(dgram) == dgram

PassedOn(dgram) == [dgram EXCEPT !.ttl = @ - 1]

(* One datagram: dropped if its TTL is used up or no route matches,         *)
(* otherwise given to the interface of the best route.                      *)
Forward(r, dgram) ==
    LET k == BestRoute(r.routing_table, dgram.dst)
        n == r.routing_table[k].interface_num
        sending == SendDatagram(r.interfaces[n], PassedOn(dgram), NextHop(r.routing_table[k], dgram.dst))
    IN  IF dgram.ttl <= 1 \/ k = 0 THEN RouterResult(r, NoFrames(r))
        ELSE RouterResult([r EXCEPT !.interfaces[n] = sending.interface],
                          [NoFrames(r) EXCEPT ![n] = sending.frames])

(* Interface by interface, each in the order of arrival.                    *)
ReceivedDatagrams(r) ==
    LET upTo[n \in 0 .. Len(r.interfaces)] ==
            IF n = 0 THEN <<>> ELSE upTo[n - 1] \o r.interfaces[n].datagrams_received
    IN  upTo[Len(r.interfaces)]

(* Fault: what has been routed stays in the queue of its interface.         *)
NoneReceived(r) == r

WithoutReceived(r) ==
    [r EXCEPT !.interfaces = [n \in DOMAIN @ |-> [@[n] EXCEPT !.datagrams_received = <<>>]]]

RouteNext(result, dgram) ==
    LET next == Forward(result.router, dgram)
    IN  RouterResult(next.router, [n \in DOMAIN next.frames |-> result.frames[n] \o next.frames[n]])

(* route(): everything received, one after the other. Sending puts nothing  *)
(* into the queues that are being emptied.                                  *)
Route(r) ==
    LET received == ReceivedDatagrams(r)
        after[k \in 0 .. Len(received)] ==
            IF k = 0 THEN RouterResult(WithoutReceived(r), NoFrames(r))
            ELSE RouteNext(after[k - 1], received[k])
    IN  after[Len(received)]
=============================================================================

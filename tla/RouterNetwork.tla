---------------------------- MODULE RouterNetwork ----------------------------
(***************************************************************************)
(* Two Routers, each with a local network that a host is on (interface 1)  *)
(* and with one end of a link between them (interface 2): the network of   *)
(* src/tests/router.cc, whose segments hand every frame to the other       *)
(* interfaces, with a second router. Hosts answer ARP requests or keep     *)
(* silent, routes come one by one and may be wrong, and frames on the link *)
(* may be lost.                                                            *)
(***************************************************************************)
EXTENDS RouterOps, FiniteSets, Functions

CONSTANTS
    Routers,
    InterfaceIP, InterfaceEthernet,     \* by router: the addresses of its two interfaces
    HostIP, HostEthernet,               \* by router: the addresses of its host
    Routes,         \* by router: the routes that it may be given
    Destination,    \* the addresses that hosts send to
    TTL,            \* the times to live that they send with
    TickMs,         \* how long a tick lasts
    MaxRoutes,      \* bound: routes given to a router
    MaxDatagrams    \* bound: datagrams sent by the hosts

ASSUME NetworkAssumption ==
    /\ \E p, q \in Routers : p # q /\ Routers = {p, q}
    /\ MaxDatagrams \in Nat /\ TTL \subseteq Nat

VARIABLES
    router,
    link,       \* by router: the frames on their way to it, in the order they were sent
    delivered,  \* by router: the datagrams that its host has been sent
    sent        \* how many datagrams the hosts have sent

vars == <<router, link, delivered, sent>>

Lan == 1
Link == 2

Other(p) == CHOOSE q \in Routers : q # p

Init ==
    /\ router = [p \in Routers |->
                    NewRouter([n \in {Lan, Link} |->
                                  NewInterface(InterfaceEthernet[p][n], InterfaceIP[p][n])])]
    /\ link = [p \in Routers |-> <<>>]
    /\ delivered = [p \in Routers |-> <<>>]
    /\ sent = 0

(* What is carried by these frames.                                         *)
Datagrams(frames) ==
    LET upTo[k \in 0 .. Len(frames)] ==
            IF k = 0 THEN <<>>
            ELSE IF frames[k].type = "IPv4" THEN Append(upTo[k - 1], frames[k].payload)
            ELSE upTo[k - 1]
    IN  upTo[Len(frames)]

(* What router p becomes and transmits: on its local network to the host,   *)
(* on the link to the other router. rest is what is left on the link to p.  *)
Step(p, result, rest) ==
    /\ router' = [router EXCEPT ![p] = result.router]
    /\ delivered' = [delivered EXCEPT ![p] = @ \o Datagrams(result.frames[Lan])]
    /\ link' = [link EXCEPT ![p] = rest, ![Other(p)] = @ \o result.frames[Link]]

(* recv_frame of interface n.                                               *)
Receive(p, n, frame, rest) ==
    LET result == RecvFrame(router[p].interfaces[n], frame)
    IN  Step(p, RouterResult([router[p] EXCEPT !.interfaces[n] = result.interface],
                             [NoFrames(router[p]) EXCEPT ![n] = result.frames]), rest)

GiveRoute(p, entry) ==
    /\ Len(router[p].routing_table) < MaxRoutes
    /\ entry \notin Range(router[p].routing_table)
    /\ router' = [router EXCEPT ![p] = AddRoute(@, entry)]
    /\ UNCHANGED <<link, delivered, sent>>

HostSends(p, dst, ttl) ==
    /\ sent < MaxDatagrams
    /\ sent' = sent + 1
    /\ Receive(p, Lan, IPv4Frame(HostEthernet[p], InterfaceEthernet[p][Lan],
                                 [id |-> sent + 1, dst |-> dst, ttl |-> ttl]), link[p])

HostAnswers(p) ==
    /\ Receive(p, Lan, ARPFrame(HostEthernet[p], InterfaceEthernet[p][Lan],
                   ARPMessage("reply", HostEthernet[p], HostIP[p],
                              InterfaceEthernet[p][Lan], InterfaceIP[p][Lan])), link[p])
    /\ UNCHANGED sent

LinkDelivers(p) ==
    /\ link[p] # <<>>
    /\ Receive(p, Link, Head(link[p]), Tail(link[p]))
    /\ UNCHANGED sent

LinkLoses(p) ==
    /\ link[p] # <<>>
    /\ link' = [link EXCEPT ![p] = Tail(@)]
    /\ UNCHANGED <<router, delivered, sent>>

RouterRoutes(p) == Step(p, Route(router[p]), link[p]) /\ UNCHANGED sent

RouterTicks(p) ==
    /\ router' = [router EXCEPT ![p].interfaces =
                     [n \in DOMAIN @ |-> InterfaceTick(@[n], TickMs)]]
    /\ UNCHANGED <<link, delivered, sent>>

Next ==
    \E p \in Routers :
        \/ \E entry \in Routes[p] : GiveRoute(p, entry)
        \/ \E dst \in Destination, ttl \in TTL : HostSends(p, dst, ttl)
        \/ HostAnswers(p)
        \/ LinkDelivers(p)
        \/ LinkLoses(p)
        \/ RouterRoutes(p)
        \/ RouterTicks(p)

Spec == Init /\ [][Next]_vars

(* Whoever owns the routers calls route() and tick() again and again, and   *)
(* the link moves. (Weak fairness of these actions, with the condition of   *)
(* each in place of ENABLED, which TLC takes long to evaluate.)             *)
Ageless(i) == DOMAIN i.arp_table = {} /\ DOMAIN i.pending_arp_requests = {}

Fairness ==
    \A p \in Routers :
        /\ []<>(ReceivedDatagrams(router[p]) = <<>>) \/ []<><<RouterRoutes(p)>>_vars
        /\ []<>(\A n \in {Lan, Link} : Ageless(router[p].interfaces[n])) \/ []<><<RouterTicks(p)>>_vars
        /\ []<>(link[p] = <<>>) \/ []<><<LinkDelivers(p) \/ LinkLoses(p)>>_vars

FairSpec == Spec /\ Fairness

-----------------------------------------------------------------------------
Times(id, dgrams) == Cardinality({k \in DOMAIN dgrams : dgrams[k].id = id})

(* The copies of a datagram that are still on their way.                    *)
Waiting(p, n, id) ==
    LET queues == router[p].interfaces[n].pending_datagrams
    IN  SumFunction([ip \in DOMAIN queues |-> Times(id, queues[ip])])

Travelling(id) ==
    SumFunction([p \in Routers |->
                    Times(id, Datagrams(link[p])) + Times(id, ReceivedDatagrams(router[p]))
                        + Waiting(p, Lan, id) + Waiting(p, Link, id)])

(* A datagram is never doubled, whether it waits for an address, goes round *)
(* in circles or is sent back through the interface it came from.           *)
OneCopy ==
    \A id \in 1 .. MaxDatagrams :
        Travelling(id) + SumFunction([p \in Routers |-> Times(id, delivered[p])]) <= 1

(* The reference: bit by bit, over all the routes at once.                  *)
Bit(ip, b) == (ip \div 2 ^ b) % 2

Matching(table, dst) ==
    {k \in DOMAIN table : \A b \in AddressBits - table[k].prefix_length .. AddressBits - 1 :
                              Bit(dst, b) = Bit(table[k].route_prefix, b)}

Decides(table, k, dst) ==
    /\ k \in Matching(table, dst)
    /\ \A j \in Matching(table, dst) :
           \/ table[j].prefix_length < table[k].prefix_length
           \/ table[j].prefix_length = table[k].prefix_length /\ j <= k

At(p, n, dgram) ==
    \/ \E ip \in DOMAIN router[p].interfaces[n].pending_datagrams :
           dgram \in Range(router[p].interfaces[n].pending_datagrams[ip])
    \/ n = Lan /\ dgram \in Range(delivered[p])
    \/ n = Link /\ dgram \in Range(Datagrams(link[Other(p)]))

RoutedRight(p, dgram) ==
    LET table == router[p].routing_table
    IN  \/ \E k \in DOMAIN table : /\ Decides(table, k, dgram.dst)
                                   /\ dgram.ttl > 1
                                   /\ At(p, table[k].interface_num, [dgram EXCEPT !.ttl = @ - 1])'
        \/ /\ dgram.ttl <= 1 \/ Matching(table, dgram.dst) = {}
           /\ Travelling(dgram.id)' = 0

(* What route() does with each datagram: of the routes that match it, the   *)
(* one with the longest prefix decides, the latest of those if there are    *)
(* several; by that route's interface the datagram is sent or waits, with   *)
(* its TTL one lower. Without such a route or with its TTL used up it goes. *)
ForwardedByLongestMatch ==
    [][\A p \in Routers : \A dgram \in Range(ReceivedDatagrams(router[p])) :
          dgram \notin Range(ReceivedDatagrams(router'[p])) => RoutedRight(p, dgram)]_vars

(* Every datagram leaves the network, delivered or dropped, though routes   *)
(* may send it in circles (router.cc:51-58) and its next hop never answer.  *)
EventuallyGone ==
    \A id \in 1 .. MaxDatagrams : sent >= id ~> Travelling(id) = 0
=============================================================================

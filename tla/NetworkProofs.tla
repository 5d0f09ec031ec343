--------------------------- MODULE NetworkProofs ---------------------------
(***************************************************************************)
(* First what NetworkInterface keeps invariant, for any hops, addresses,   *)
(* times to live and lengths of ticks: the timers stay below their limits, *)
(* what waits is covered by a pending request, a next hop that was asked   *)
(* for lately is still remembered, as a pending request or as a mapping,   *)
(* and the mappings agree with what was heard last, so that each datagram  *)
(* goes once and to the right address, or is dropped after a silence.      *)
(*                                                                         *)
(* Then what the two Routers of RouterNetwork keep, for any routes, times  *)
(* to live and addresses: what send_datagram, recv_frame, tick and route   *)
(* make of an interface or a router and the frames it transmits holds no   *)
(* more copies of a datagram than there were.                              *)
(***************************************************************************)
EXTENDS NetworkInterface, OpsProofs

(* The keys of the maps, and the maps from some of them to values.          *)
Key == Hop \cup {NoIP}

Maps(V) == UNION {[S -> V] : S \in SUBSET Key}

Entries == [ethernet_addr : Ethernet \cup {NoEthernet}, time_elapsed : Nat]

Interfaces ==
    [ethernet_address : {OwnEthernet}, ip_address : {OwnIP},
     arp_table : Maps(Entries), pending_datagrams : Maps(Seq(Nat)),
     pending_arp_requests : Maps(Nat), datagrams_received : Seq({FromAbroad})]

(* map[key] = value yields a map with that entry and the others as they were. *)
LEMMA PutIsMap ==
    ASSUME NEW V, NEW map \in Maps(V), NEW key \in Key, NEW value \in V
    PROVE  /\ Put(map, key, value) \in Maps(V)
           /\ DOMAIN Put(map, key, value) = DOMAIN map \cup {key}
           /\ Put(map, key, value)[key] = value
           /\ \A k \in DOMAIN map \ {key} : Put(map, key, value)[k] = map[k]
<1>1. PICK S \in SUBSET Key : map \in [S -> V]
  BY DEF Maps
<1>2. Put(map, key, value) \in [S \cup {key} -> V]
  BY <1>1 DEF Put
<1>3. S \cup {key} \in SUBSET Key
  BY <1>1
<1> QED
  BY <1>1, <1>2, <1>3 DEF Maps, Put

(* Erasing keys leaves a map of the other entries.                          *)
LEMMA EraseIsMap ==
    ASSUME NEW V, NEW map \in Maps(V), NEW keys
    PROVE  /\ Erase(map, keys) \in Maps(V)
           /\ DOMAIN Erase(map, keys) = DOMAIN map \ keys
           /\ \A k \in DOMAIN map \ keys : Erase(map, keys)[k] = map[k]
<1>1. PICK S \in SUBSET Key : map \in [S -> V]
  BY DEF Maps
<1>2. Erase(map, keys) \in [S \ keys -> V]
  BY <1>1 DEF Erase
<1>3. S \ keys \in SUBSET Key
  BY <1>1
<1> QED
  BY <1>1, <1>2, <1>3 DEF Maps, Erase

(* The keys and the values of a map.                                        *)
LEMMA MapValues ==
    ASSUME NEW V, NEW map \in Maps(V)
    PROVE  /\ DOMAIN map \subseteq Key
           /\ \A k \in DOMAIN map : map[k] \in V
<1>1. PICK S \in SUBSET Key : map \in [S -> V]
  BY DEF Maps
<1> QED
  BY <1>1

(* What the maps of an interface hold.                                      *)
LEMMA InterfaceValues ==
    ASSUME NEW i \in Interfaces
    PROVE  /\ DOMAIN i.arp_table \subseteq Key
           /\ \A ip \in DOMAIN i.arp_table : i.arp_table[ip].time_elapsed \in Nat
           /\ \A ip \in DOMAIN i.pending_arp_requests : i.pending_arp_requests[ip] \in Nat
<1>1. /\ i.arp_table \in Maps(Entries)
      /\ i.pending_arp_requests \in Maps(Nat)
  BY DEF Interfaces
<1>2. /\ DOMAIN i.arp_table \subseteq Key
      /\ \A ip \in DOMAIN i.arp_table : i.arp_table[ip] \in Entries
  BY <1>1, MapValues
<1>3. \A ip \in DOMAIN i.arp_table : i.arp_table[ip].time_elapsed \in Nat
  BY <1>2 DEF Entries
<1>4. \A ip \in DOMAIN i.pending_arp_requests : i.pending_arp_requests[ip] \in Nat
  BY <1>1, MapValues
<1> QED
  BY <1>2, <1>3, <1>4

(* What NetworkInterface::send_datagram leaves and transmits.               *)
LEMMA SendResult ==
    ASSUME NEW i \in Interfaces, NEW n \in Nat, NEW hop \in Hop
    PROVE  LET j == SendDatagram(i, n, hop).interface
               asks == hop \notin DOMAIN i.arp_table /\ hop \notin DOMAIN i.pending_arp_requests
           IN  /\ j \in Interfaces
               /\ j.arp_table = i.arp_table
               /\ j.datagrams_received = i.datagrams_received
               /\ j.pending_arp_requests = IF asks THEN Put(i.pending_arp_requests, hop, 0)
                                           ELSE i.pending_arp_requests
               /\ j.pending_datagrams =
                    IF hop \in DOMAIN i.arp_table THEN i.pending_datagrams
                    ELSE Put(i.pending_datagrams, hop, Append(Queued(i, hop), n))
               /\ SendDatagram(i, n, hop).frames =
                    IF hop \in DOMAIN i.arp_table
                    THEN <<IPv4Frame(i.ethernet_address, i.arp_table[hop].ethernet_addr, n)>>
                    ELSE IF asks THEN <<ARPRequest(i, hop)>> ELSE <<>>
<1>1. Queued(i, hop) \in Seq(Nat)
  BY MapValues DEF Queued, Interfaces
<1>2. Append(Queued(i, hop), n) \in Seq(Nat)
  BY <1>1
<1>3. Put(i.pending_datagrams, hop, Append(Queued(i, hop), n)) \in Maps(Seq(Nat))
  BY <1>2, PutIsMap DEF Interfaces, Key
<1>4. Put(i.pending_arp_requests, hop, 0) \in Maps(Nat)
  BY PutIsMap DEF Interfaces, Key
<1> QED
  BY <1>3, <1>4 DEF Interfaces, SendDatagram, InterfaceResult, MustAsk

(* What learning a mapping from an ARP message changes.                     *)
LEMMA LearnResult ==
    ASSUME NEW i \in Interfaces, NEW arp,
           arp.sender_ip_address \in Key,
           arp.sender_ethernet_address \in Ethernet \cup {NoEthernet}
    PROVE  /\ Learn(i, arp) \in Interfaces
           /\ Learn(i, arp).arp_table = Put(i.arp_table, arp.sender_ip_address, NewEntry(arp))
           /\ Learn(i, arp).pending_datagrams = i.pending_datagrams
           /\ Learn(i, arp).pending_arp_requests = i.pending_arp_requests
           /\ Learn(i, arp).datagrams_received = i.datagrams_received
<1>1. NewEntry(arp) \in Entries
  BY DEF NewEntry, Entries
<1>2. Put(i.arp_table, arp.sender_ip_address, NewEntry(arp)) \in Maps(Entries)
  BY <1>1, PutIsMap DEF Interfaces
<1> QED
  BY <1>2 DEF Learn, Interfaces

(* What the answer to a request changes.                                    *)
LEMMA AnsweredResult ==
    ASSUME NEW i \in Interfaces, NEW ip
    PROVE  /\ Answered(i, ip) \in Interfaces
           /\ Answered(i, ip).arp_table = i.arp_table
           /\ Answered(i, ip).pending_datagrams = Erase(i.pending_datagrams, {ip})
           /\ Answered(i, ip).pending_arp_requests = Erase(i.pending_arp_requests, {ip})
           /\ Answered(i, ip).datagrams_received = i.datagrams_received
<1>1. Erase(i.pending_datagrams, {ip}) \in Maps(Seq(Nat))
  BY EraseIsMap DEF Interfaces
<1>2. Erase(i.pending_arp_requests, {ip}) \in Maps(Nat)
  BY EraseIsMap DEF Interfaces
<1> QED
  BY <1>1, <1>2 DEF Answered, Interfaces

(* What NetworkInterface::tick leaves in each map.                          *)
LEMMA AgedResult ==
    ASSUME NEW i \in Interfaces, NEW ms \in Nat
    PROVE  LET j == InterfaceTick(i, ms)
           IN  /\ j \in Interfaces
               /\ DOMAIN j.arp_table = DOMAIN i.arp_table \ StaleEntries(i, ms)
               /\ \A ip \in DOMAIN j.arp_table :
                      j.arp_table[ip].time_elapsed = i.arp_table[ip].time_elapsed + ms
               /\ DOMAIN j.pending_arp_requests = DOMAIN i.pending_arp_requests \ StaleRequests(i, ms)
               /\ \A ip \in DOMAIN j.pending_arp_requests :
                      j.pending_arp_requests[ip] = i.pending_arp_requests[ip] + ms
               /\ j.pending_datagrams = Erase(i.pending_datagrams, Dropped(i, ms))
               /\ j.datagrams_received = i.datagrams_received
<1> DEFINE table == [ip \in DOMAIN i.arp_table \ StaleEntries(i, ms) |->
                        Aged(i.arp_table[ip], ms)]
           requests == [ip \in DOMAIN i.pending_arp_requests \ StaleRequests(i, ms) |->
                           i.pending_arp_requests[ip] + ms]
           queues == Erase(i.pending_datagrams, Dropped(i, ms))
<1>1. table \in Maps(Entries)
  <2>1. \A ip \in DOMAIN i.arp_table : i.arp_table[ip] \in Entries /\ ip \in Key
    BY MapValues DEF Interfaces
  <2>2. \A ip \in DOMAIN i.arp_table : Aged(i.arp_table[ip], ms) \in Entries
    BY <2>1 DEF Entries, Aged
  <2>3. table \in [DOMAIN i.arp_table \ StaleEntries(i, ms) -> Entries]
    BY <2>2
  <2> QED
    BY <2>1, <2>3 DEF Maps
<1>2. \A ip \in DOMAIN table : table[ip].time_elapsed = i.arp_table[ip].time_elapsed + ms
  BY MapValues DEF Interfaces, Entries, Aged
<1>3. requests \in Maps(Nat)
  <2>1. \A ip \in DOMAIN i.pending_arp_requests : i.pending_arp_requests[ip] \in Nat /\ ip \in Key
    BY MapValues DEF Interfaces
  <2>2. requests \in [DOMAIN i.pending_arp_requests \ StaleRequests(i, ms) -> Nat]
    BY <2>1
  <2> QED
    BY <2>1, <2>2 DEF Maps
<1>4. queues \in Maps(Seq(Nat))
  BY EraseIsMap DEF Interfaces
<1>5. InterfaceTick(i, ms) =
        [i EXCEPT !.arp_table = table, !.pending_arp_requests = requests, !.pending_datagrams = queues]
  BY DEF InterfaceTick
<1> HIDE DEF table, requests, queues
<1>6. /\ InterfaceTick(i, ms) \in Interfaces
      /\ InterfaceTick(i, ms).arp_table = table
      /\ InterfaceTick(i, ms).pending_arp_requests = requests
      /\ InterfaceTick(i, ms).pending_datagrams = queues
      /\ InterfaceTick(i, ms).datagrams_received = i.datagrams_received
  BY <1>1, <1>3, <1>4, <1>5 DEF Interfaces
<1> QED
  BY <1>2, <1>6 DEF table, requests, queues

(* No mapping is as old as EntryTTL, no pending request as RequestTTL; only *)
(* next hops are asked for.                                                 *)
Timers(i) ==
    /\ \A ip \in DOMAIN i.arp_table : i.arp_table[ip].time_elapsed < EntryTTL
    /\ \A ip \in DOMAIN i.pending_arp_requests :
           ip \in Hop /\ i.pending_arp_requests[ip] < RequestTTL

(* What waits, waits for the hop it was sent by, which has been asked for.  *)
Waiting(i, hops) ==
    /\ DOMAIN i.pending_datagrams \subseteq DOMAIN i.pending_arp_requests
    /\ \A ip \in DOMAIN i.pending_datagrams :
        /\ i.pending_datagrams[ip] # <<>>
        /\ \A k \in DOMAIN i.pending_datagrams[ip] :
               /\ i.pending_datagrams[ip][k] \in DOMAIN hops
               /\ hops[i.pending_datagrams[ip][k]] = ip

(* A hop asked for less than RequestTTL ago: the request is still pending,  *)
(* or a mapping was learnt since.                                           *)
Remembered(i, ago) ==
    \A ip \in Hop : ago[ip] < RequestTTL =>
        \/ /\ ip \in DOMAIN i.pending_arp_requests
           /\ i.pending_arp_requests[ip] = ago[ip]
        \/ /\ ip \in DOMAIN i.arp_table
           /\ i.arp_table[ip].time_elapsed <= ago[ip]

Consistent(i, hops, ago) ==
    /\ i \in Interfaces
    /\ Timers(i)
    /\ Waiting(i, hops)
    /\ Remembered(i, ago)

(* The inductive invariant.                                                 *)
IInv ==
    /\ next_hop \in Seq(Hop)
    /\ asked \in [Hop -> Nat]
    /\ Consistent(interface, next_hop, asked)
    /\ Len(interface.datagrams_received) <= MaxReceived

(* Learning a mapping keeps the interface consistent: a fresh mapping never *)
(* makes a recent request forgotten.                                        *)
LEMMA LearnConsistent ==
    ASSUME NEW i, NEW hops, NEW ago \in [Hop -> Nat], Consistent(i, hops, ago), NEW arp,
           arp.sender_ip_address \in Key,
           arp.sender_ethernet_address \in Ethernet \cup {NoEthernet}
    PROVE  /\ Consistent(Learn(i, arp), hops, ago)
           /\ Learn(i, arp).datagrams_received = i.datagrams_received
           /\ arp.sender_ip_address \in DOMAIN Learn(i, arp).arp_table
           /\ Learn(i, arp).arp_table[arp.sender_ip_address].time_elapsed = 0
<1> DEFINE ip == arp.sender_ip_address
           table == Put(i.arp_table, ip, NewEntry(arp))
<1>1. i \in Interfaces
  BY DEF Consistent
<1>2. /\ Learn(i, arp) \in Interfaces
      /\ Learn(i, arp).arp_table = table
      /\ Learn(i, arp).pending_datagrams = i.pending_datagrams
      /\ Learn(i, arp).pending_arp_requests = i.pending_arp_requests
      /\ Learn(i, arp).datagrams_received = i.datagrams_received
  BY <1>1, LearnResult
<1>3. /\ i.arp_table \in Maps(Entries)
      /\ NewEntry(arp) \in Entries
      /\ NewEntry(arp).time_elapsed = 0
  BY <1>1 DEF Interfaces, NewEntry, Entries
<1>4. /\ DOMAIN table = DOMAIN i.arp_table \cup {ip}
      /\ table[ip] = NewEntry(arp)
      /\ \A k \in DOMAIN i.arp_table \ {ip} : table[k] = i.arp_table[k]
  BY DEF Put
<1> HIDE DEF table
<1>5. Timers(Learn(i, arp))
  BY <1>2, <1>3, <1>4, InterfaceAssumption DEF Timers, Consistent
<1>6. Waiting(Learn(i, arp), hops)
  BY <1>2 DEF Waiting, Consistent
<1>7. Remembered(Learn(i, arp), ago)
  BY <1>2, <1>3, <1>4 DEF Remembered, Consistent
<1> QED
  BY <1>2, <1>3, <1>4, <1>5, <1>6, <1>7 DEF Consistent

(* Forgetting the request for a hop keeps the interface consistent, because *)
(* the mapping that answers it is fresh.                                    *)
LEMMA AnsweredConsistent ==
    ASSUME NEW i, NEW hops, NEW ago \in [Hop -> Nat], Consistent(i, hops, ago), NEW ip,
           ip \in DOMAIN i.arp_table, i.arp_table[ip].time_elapsed = 0
    PROVE  /\ Consistent(Answered(i, ip), hops, ago)
           /\ Answered(i, ip).datagrams_received = i.datagrams_received
<1> DEFINE queues == Erase(i.pending_datagrams, {ip})
           requests == Erase(i.pending_arp_requests, {ip})
<1>1. i \in Interfaces
  BY DEF Consistent
<1>2. /\ Answered(i, ip) \in Interfaces
      /\ Answered(i, ip).arp_table = i.arp_table
      /\ Answered(i, ip).pending_datagrams = queues
      /\ Answered(i, ip).pending_arp_requests = requests
      /\ Answered(i, ip).datagrams_received = i.datagrams_received
  BY <1>1, AnsweredResult
<1>3. /\ DOMAIN queues = DOMAIN i.pending_datagrams \ {ip}
      /\ \A k \in DOMAIN queues : queues[k] = i.pending_datagrams[k]
  BY DEF Erase
<1>4. /\ DOMAIN requests = DOMAIN i.pending_arp_requests \ {ip}
      /\ \A k \in DOMAIN requests : requests[k] = i.pending_arp_requests[k]
  BY DEF Erase
<1> HIDE DEF queues, requests
<1>5. Timers(Answered(i, ip))
  BY <1>2, <1>4 DEF Timers, Consistent
<1>6. Waiting(Answered(i, ip), hops)
  BY <1>2, <1>3, <1>4 DEF Waiting, Consistent
<1>7. Remembered(Answered(i, ip), ago)
  BY <1>2, <1>4 DEF Remembered, Consistent
<1> QED
  BY <1>2, <1>5, <1>6, <1>7 DEF Consistent

(* A new interface satisfies the invariant.                                 *)
LEMMA InitIInv == Init => IInv
<1> SUFFICES ASSUME Init PROVE IInv
  OBVIOUS
<1> DEFINE i == NewInterface(OwnEthernet, OwnIP)
<1>1. \A V : <<>> \in Maps(V)
  <2>1. \A V : <<>> \in [{} -> V]
    OBVIOUS
  <2> QED
    BY <2>1 DEF Maps
<1>2. i \in Interfaces
  BY <1>1 DEF NewInterface, Interfaces
<1>3. Consistent(i, <<>>, asked)
  BY <1>2, InterfaceAssumption
  DEF Consistent, Timers, Waiting, Remembered, NewInterface, Init
<1>4. next_hop \in Seq(Hop) /\ asked \in [Hop -> Nat]
  BY InterfaceAssumption DEF Init
<1>5. Len(interface.datagrams_received) <= MaxReceived
  BY EnvironmentAssumption DEF Init, NewInterface
<1> QED
  BY <1>3, <1>4, <1>5 DEF IInv, Init

(* send_datagram keeps the invariant and asks only for a hop that was not   *)
(* asked for within RequestTTL.                                             *)
LEMMA SendStep ==
    ASSUME IInv, NEW hop \in Hop, Send(hop)
    PROVE  /\ IInv'
           /\ \A ip \in Hop :
                asked'[ip] = 0 /\ frames' # <<>> /\ frames'[1] = ARPRequest(interface, ip)
                    => asked[ip] >= RequestTTL
<1> DEFINE i == interface
           n == Len(next_hop) + 1
           j == SendDatagram(i, n, hop).interface
           asks == hop \notin DOMAIN i.arp_table /\ hop \notin DOMAIN i.pending_arp_requests
           waiting == Append(Queued(i, hop), n)
<1>1. /\ i \in Interfaces /\ n \in Nat /\ hop \in Key
      /\ next_hop \in Seq(Hop) /\ asked \in [Hop -> Nat]
  BY DEF IInv, Consistent, Key
<1>2. /\ interface' = j
      /\ frames' = SendDatagram(i, n, hop).frames
      /\ next_hop' = Append(next_hop, hop)
  BY DEF Send, Effect
<1>3. /\ j \in Interfaces
      /\ j.arp_table = i.arp_table
      /\ j.datagrams_received = i.datagrams_received
      /\ j.pending_arp_requests = IF asks THEN Put(i.pending_arp_requests, hop, 0)
                                  ELSE i.pending_arp_requests
      /\ j.pending_datagrams = IF hop \in DOMAIN i.arp_table THEN i.pending_datagrams
                               ELSE Put(i.pending_datagrams, hop, waiting)
      /\ frames' = IF hop \in DOMAIN i.arp_table
                   THEN <<IPv4Frame(i.ethernet_address, i.arp_table[hop].ethernet_addr, n)>>
                   ELSE IF asks THEN <<ARPRequest(i, hop)>> ELSE <<>>
  BY <1>1, <1>2, SendResult
<1>4. asked' = IF asks THEN [asked EXCEPT ![hop] = 0] ELSE asked
  BY <1>3 DEF Send, IPv4Frame, ARPRequest, ARPFrame
<1>5. /\ asks => /\ DOMAIN j.pending_arp_requests = DOMAIN i.pending_arp_requests \cup {hop}
                 /\ j.pending_arp_requests[hop] = 0
                 /\ \A k \in DOMAIN i.pending_arp_requests \ {hop} :
                        j.pending_arp_requests[k] = i.pending_arp_requests[k]
      /\ ~asks => j.pending_arp_requests = i.pending_arp_requests
  BY <1>3 DEF Put
<1>6. Queued(i, hop) \in Seq(Nat) /\ waiting \in Seq(Nat) /\ waiting # <<>>
  <2>1. Queued(i, hop) \in Seq(Nat)
    <3>1. i.pending_datagrams \in Maps(Seq(Nat))
      BY <1>1 DEF Interfaces
    <3> QED
      BY <3>1, MapValues DEF Queued
  <2>2. ASSUME NEW q \in Seq(Nat), NEW m \in Nat
        PROVE  Append(q, m) \in Seq(Nat) /\ Len(Append(q, m)) = Len(q) + 1 /\ Len(q) \in Nat
    OBVIOUS
  <2>3. waiting \in Seq(Nat) /\ Len(waiting) # 0
    BY <1>1, <2>1, <2>2
  <2>4. waiting # <<>>
    BY <2>3
  <2> QED
    BY <2>1, <2>3, <2>4
<1>7. hop \notin DOMAIN i.arp_table =>
        /\ DOMAIN j.pending_datagrams = DOMAIN i.pending_datagrams \cup {hop}
        /\ j.pending_datagrams[hop] = waiting
        /\ \A k \in DOMAIN i.pending_datagrams \ {hop} :
               j.pending_datagrams[k] = i.pending_datagrams[k]
  BY <1>3 DEF Put
<1>8. /\ next_hop' \in Seq(Hop) /\ n \in DOMAIN next_hop' /\ next_hop'[n] = hop
      /\ \A k \in DOMAIN next_hop : k \in DOMAIN next_hop' /\ next_hop'[k] = next_hop[k]
  BY <1>1, <1>2
<1>9. /\ Timers(i) /\ Waiting(i, next_hop) /\ Remembered(i, asked)
  BY DEF IInv, Consistent
<1>10. \A k \in DOMAIN waiting : waiting[k] = n \/ (/\ hop \in DOMAIN i.pending_datagrams
                                                   /\ k \in DOMAIN i.pending_datagrams[hop]
                                                   /\ waiting[k] = i.pending_datagrams[hop][k])
  <2>1. CASE hop \in DOMAIN i.pending_datagrams
    BY <1>6, <2>1 DEF Queued
  <2>2. CASE hop \notin DOMAIN i.pending_datagrams
    BY <1>6, <2>2 DEF Queued
  <2> QED
    BY <2>1, <2>2
<1> HIDE DEF i, n, j, asks, waiting
<1>11. Timers(j)
  BY <1>3, <1>5, <1>9, InterfaceAssumption DEF Timers
<1>12. Waiting(j, next_hop')
  <2>1. CASE hop \in DOMAIN i.arp_table
    <3>1. j.pending_datagrams = i.pending_datagrams /\ ~asks
      BY <1>3, <2>1 DEF asks
    <3> QED
      BY <1>5, <1>8, <1>9, <3>1 DEF Waiting
  <2>2. CASE hop \notin DOMAIN i.arp_table
    <3>1. DOMAIN j.pending_datagrams \subseteq DOMAIN j.pending_arp_requests
      BY <1>5, <1>7, <1>9, <2>2 DEF Waiting, asks
    <3>2. ASSUME NEW ip \in DOMAIN j.pending_datagrams
          PROVE  /\ j.pending_datagrams[ip] # <<>>
                 /\ \A k \in DOMAIN j.pending_datagrams[ip] :
                        /\ j.pending_datagrams[ip][k] \in DOMAIN next_hop'
                        /\ next_hop'[j.pending_datagrams[ip][k]] = ip
      <4>1. CASE ip = hop
        BY <1>6, <1>7, <1>8, <1>9, <1>10, <2>2, <4>1 DEF Waiting
      <4>2. CASE ip # hop
        <5>1. ip \in DOMAIN i.pending_datagrams /\ j.pending_datagrams[ip] = i.pending_datagrams[ip]
          BY <1>7, <2>2, <4>2
        <5> QED
          BY <1>8, <1>9, <5>1 DEF Waiting
      <4> QED
        BY <4>1, <4>2
    <3> QED
      BY <3>1, <3>2 DEF Waiting
  <2> QED
    BY <2>1, <2>2
<1>13. asked' \in [Hop -> Nat] /\ Remembered(j, asked')
  BY <1>1, <1>3, <1>4, <1>5, <1>9 DEF Remembered
<1>14. Len(j.datagrams_received) <= MaxReceived
  BY <1>3 DEF IInv, i
<1>15. ASSUME NEW ip \in Hop, frames' # <<>>, frames'[1] = ARPRequest(i, ip)
       PROVE  asked[ip] >= RequestTTL
  <2>1. asks /\ ARPRequest(i, ip) = ARPRequest(i, hop)
    BY <1>3, <1>15 DEF asks, ARPRequest, ARPFrame, IPv4Frame
  <2>2. ip = hop
    BY <2>1 DEF ARPRequest, ARPFrame, ARPMessage
  <2> QED
    BY <1>1, <1>9, <2>1, <2>2, InterfaceAssumption DEF Remembered, asks
<1> QED
  BY <1>2, <1>3, <1>8, <1>11, <1>12, <1>13, <1>14, <1>15 DEF IInv, Consistent, i

(* recv_frame of any ARP message keeps the invariant and sends no request.  *)
LEMMA ReceiveStep ==
    ASSUME IInv, NEW arp, NEW dst, NEW ethernet,
           arp.sender_ip_address \in Key,
           arp.sender_ethernet_address \in Ethernet \cup {NoEthernet},
           Effect(RecvFrame(interface, ARPFrame(ethernet, dst, arp))),
           UNCHANGED <<next_hop, asked>>
    PROVE  /\ IInv'
           /\ \A ip \in Hop : frames' # <<>> => frames'[1] # ARPRequest(interface, ip)
<1> DEFINE i == interface
           ip == arp.sender_ip_address
           learnt == Learn(i, arp)
           heeded == dst \in {i.ethernet_address, Broadcast}
<1>1. /\ asked \in [Hop -> Nat]
      /\ Consistent(i, next_hop, asked)
      /\ Len(i.datagrams_received) <= MaxReceived
  BY DEF IInv
<1>2. /\ Consistent(learnt, next_hop, asked)
      /\ learnt.datagrams_received = i.datagrams_received
      /\ ip \in DOMAIN learnt.arp_table
      /\ learnt.arp_table[ip].time_elapsed = 0
  BY <1>1, LearnConsistent
<1>3. /\ Consistent(Answered(learnt, ip), next_hop, asked)
      /\ Answered(learnt, ip).datagrams_received = i.datagrams_received
  BY <1>1, <1>2, AnsweredConsistent
<1>4. /\ interface' = RecvFrame(i, ARPFrame(ethernet, dst, arp)).interface
      /\ frames' = RecvFrame(i, ARPFrame(ethernet, dst, arp)).frames
  BY DEF Effect
<1>5. \/ interface' = i /\ frames' = <<>>
      \/ interface' = learnt /\ frames' \in {<<>>, <<ARPReply(i, arp)>>}
      \/ interface' = Answered(learnt, ip) /\ frames' = Flush(i, arp)
  BY <1>4 DEF RecvFrame, RecvARP, ARPFrame, InterfaceResult
<1> HIDE DEF i, ip, learnt, heeded
<1>6. Consistent(interface', next_hop, asked)
  BY <1>1, <1>2, <1>3, <1>5
<1>7. Len(interface'.datagrams_received) <= MaxReceived
  BY <1>1, <1>2, <1>3, <1>5
<1>8. IInv'
  BY <1>6, <1>7 DEF IInv
<1>9. ASSUME NEW hop \in Hop, frames' # <<>> PROVE frames'[1] # ARPRequest(i, hop)
  <2>1. CASE frames' = <<ARPReply(i, arp)>>
    BY <2>1 DEF ARPReply, ARPRequest, ARPFrame, ARPMessage
  <2>2. CASE frames' = Flush(i, arp)
    <3>1. Queued(i, ip) \in Seq(Nat)
      BY <1>1, MapValues DEF Queued, Interfaces, Consistent
    <3>2. 1 \in DOMAIN frames'
      BY <1>9, <2>2, <3>1 DEF Flush, ip
    <3>3. frames'[1].type = "IPv4"
      BY <2>2, <3>2 DEF Flush, IPv4Frame
    <3> QED
      BY <3>3 DEF ARPRequest, ARPFrame
  <2> QED
    BY <1>5, <1>9, <2>1, <2>2
<1> QED
  BY <1>8, <1>9 DEF i

(* So does an ARP message of a next hop ...                                 *)
LEMMA HearARPStep ==
    ASSUME IInv, NEW dst, NEW opcode, NEW ip \in Hop, NEW ethernet \in Ethernet, NEW target,
           HearARP(dst, opcode, ip, ethernet, target)
    PROVE  /\ IInv'
           /\ \A hop \in Hop : frames' # <<>> => frames'[1] # ARPRequest(interface, hop)
<1> DEFINE arp == ARPMessage(opcode, ethernet, ip, NoEthernet, target)
<1>1. /\ arp.sender_ip_address \in Key
      /\ arp.sender_ethernet_address \in Ethernet \cup {NoEthernet}
  BY DEF ARPMessage, Key
<1>2. /\ Effect(RecvFrame(interface, ARPFrame(ethernet, dst, arp)))
      /\ UNCHANGED <<next_hop, asked>>
  BY DEF HearARP
<1> HIDE DEF arp
<1> QED
  BY <1>1, <1>2, ReceiveStep

(* ... and one that cannot be parsed.                                       *)
LEMMA HearGarbledARPStep ==
    ASSUME IInv, HearGarbledARP
    PROVE  /\ IInv'
           /\ \A hop \in Hop : frames' # <<>> => frames'[1] # ARPRequest(interface, hop)
<1>1. /\ Garbled.sender_ip_address \in Key
      /\ Garbled.sender_ethernet_address \in Ethernet \cup {NoEthernet}
  BY DEF Garbled, Key
<1>2. /\ Effect(RecvFrame(interface, ARPFrame(NoEthernet, Broadcast, Garbled)))
      /\ UNCHANGED <<next_hop, asked>>
  BY DEF HearGarbledARP
<1> QED
  BY <1>1, <1>2, ReceiveStep

(* recv_frame of an IPv4 datagram keeps the invariant and transmits nothing. *)
LEMMA HearIPv4Step ==
    ASSUME IInv, NEW dst, HearIPv4(dst)
    PROVE  IInv' /\ frames' = <<>>
<1> DEFINE received == Append(interface.datagrams_received, FromAbroad)
<1>1. /\ interface \in Interfaces
      /\ Consistent(interface, next_hop, asked)
      /\ UNCHANGED <<next_hop, asked>>
  BY DEF IInv, Consistent, HearIPv4
<1>2. /\ interface.datagrams_received \in Seq({FromAbroad})
      /\ Len(interface.datagrams_received) < MaxReceived
  BY <1>1 DEF Interfaces, HearIPv4
<1>3. received \in Seq({FromAbroad}) /\ Len(received) = Len(interface.datagrams_received) + 1
  BY <1>2
<1>4. /\ frames' = <<>>
      /\ \/ interface' = interface
         \/ interface' = [interface EXCEPT !.datagrams_received = received]
  BY DEF HearIPv4, Effect, RecvFrame, IPv4Frame, InterfaceResult
<1> HIDE DEF received
<1>5. /\ interface' \in Interfaces
      /\ interface'.arp_table = interface.arp_table
      /\ interface'.pending_datagrams = interface.pending_datagrams
      /\ interface'.pending_arp_requests = interface.pending_arp_requests
      /\ interface'.datagrams_received \in {interface.datagrams_received, received}
  BY <1>1, <1>3, <1>4 DEF Interfaces
<1>6. Consistent(interface', next_hop, asked)
  BY <1>1, <1>5 DEF Consistent, Timers, Waiting, Remembered
<1>7. Len(interface'.datagrams_received) <= MaxReceived
  BY <1>2, <1>3, <1>5, EnvironmentAssumption
<1> QED
  BY <1>1, <1>4, <1>6, <1>7 DEF IInv

(* tick keeps the invariant: mapping, request and its age grow together.    *)
LEMMA TickStep ==
    ASSUME IInv, NEW ms \in TickMs, Tick(ms)
    PROVE  IInv' /\ frames' = <<>>
<1> DEFINE i == interface
           j == InterfaceTick(i, ms)
<1>1. /\ i \in Interfaces /\ ms \in Nat
      /\ asked \in [Hop -> Nat] /\ next_hop \in Seq(Hop)
      /\ Timers(i) /\ Waiting(i, next_hop) /\ Remembered(i, asked)
      /\ Len(i.datagrams_received) <= MaxReceived
  BY EnvironmentAssumption DEF IInv, Consistent
<1>2. /\ j \in Interfaces
      /\ DOMAIN j.arp_table = DOMAIN i.arp_table \ StaleEntries(i, ms)
      /\ \A ip \in DOMAIN j.arp_table :
             j.arp_table[ip].time_elapsed = i.arp_table[ip].time_elapsed + ms
      /\ DOMAIN j.pending_arp_requests = DOMAIN i.pending_arp_requests \ StaleRequests(i, ms)
      /\ \A ip \in DOMAIN j.pending_arp_requests :
             j.pending_arp_requests[ip] = i.pending_arp_requests[ip] + ms
      /\ j.pending_datagrams = Erase(i.pending_datagrams, Dropped(i, ms))
      /\ j.datagrams_received = i.datagrams_received
  BY <1>1, AgedResult
<1>3. interface' = j /\ frames' = <<>> /\ next_hop' = next_hop
  BY DEF Tick, Effect, InterfaceResult
<1>4. asked' = [ip \in Hop |-> IF asked[ip] + ms < RequestTTL THEN asked[ip] + ms ELSE RequestTTL]
  BY DEF Tick
<1>5. /\ \A ip \in DOMAIN i.arp_table : i.arp_table[ip].time_elapsed \in Nat
      /\ \A ip \in DOMAIN i.pending_arp_requests : i.pending_arp_requests[ip] \in Nat
  BY <1>1, InterfaceValues
<1>6. /\ DOMAIN j.pending_datagrams = DOMAIN i.pending_datagrams \ Dropped(i, ms)
      /\ \A ip \in DOMAIN j.pending_datagrams : j.pending_datagrams[ip] = i.pending_datagrams[ip]
  BY <1>2 DEF Erase
<1> HIDE DEF i, j
<1>7. Timers(j)
  BY <1>1, <1>2, <1>5, InterfaceAssumption DEF Timers, StaleEntries, StaleRequests
<1>8. Waiting(j, next_hop)
  BY <1>1, <1>2, <1>6 DEF Waiting, Dropped
<1>9. asked' \in [Hop -> Nat]
  BY <1>1, <1>4, InterfaceAssumption
<1>10. Remembered(j, asked')
  <2> SUFFICES ASSUME NEW ip \in Hop, asked'[ip] < RequestTTL
               PROVE  \/ /\ ip \in DOMAIN j.pending_arp_requests
                         /\ j.pending_arp_requests[ip] = asked'[ip]
                      \/ /\ ip \in DOMAIN j.arp_table
                         /\ j.arp_table[ip].time_elapsed <= asked'[ip]
    BY DEF Remembered
  <2>1. asked'[ip] = asked[ip] + ms /\ asked[ip] < RequestTTL /\ asked[ip] \in Nat
    BY <1>1, <1>4, InterfaceAssumption
  <2>2. CASE ip \in DOMAIN i.pending_arp_requests /\ i.pending_arp_requests[ip] = asked[ip]
    BY <1>1, <1>2, <2>1, <2>2, InterfaceAssumption DEF StaleRequests
  <2>3. CASE ip \in DOMAIN i.arp_table /\ i.arp_table[ip].time_elapsed <= asked[ip]
    <3>1. i.arp_table[ip].time_elapsed + ms < EntryTTL
      BY <1>1, <1>5, <2>1, <2>3, InterfaceAssumption
    <3>2. ip \in DOMAIN j.arp_table
      BY <1>1, <1>2, <1>5, <2>3, <3>1, InterfaceAssumption DEF StaleEntries
    <3> QED
      BY <1>1, <1>2, <1>5, <2>1, <2>3, <3>2
  <2> QED
    BY <1>1, <2>1, <2>2, <2>3 DEF Remembered
<1> QED
  BY <1>1, <1>2, <1>3, <1>7, <1>8, <1>9, <1>10 DEF IInv, Consistent

(* The step that RequestsSpaced asks for.                                   *)
Spaced ==
    \A ip \in Hop : asked'[ip] = 0 /\ frames' # <<>> /\ frames'[1] = ARPRequest(interface, ip)
        => asked[ip] >= RequestTTL

(* Every step keeps the invariant.                                          *)
LEMMA NextIInv == IInv /\ [Next]_vars => IInv'
<1> SUFFICES ASSUME IInv, [Next]_vars PROVE IInv'
  OBVIOUS
<1>1. ASSUME NEW hop \in Hop, Send(hop) PROVE IInv'
  BY <1>1, SendStep
<1>2. ASSUME NEW dst, NEW opcode, NEW ip \in Hop, NEW ethernet \in Ethernet, NEW target,
             HearARP(dst, opcode, ip, ethernet, target)
      PROVE  IInv'
  BY <1>2, HearARPStep
<1>3. ASSUME HearGarbledARP PROVE IInv'
  BY <1>3, HearGarbledARPStep
<1>4. ASSUME NEW dst, HearIPv4(dst) PROVE IInv'
  BY <1>4, HearIPv4Step
<1>5. ASSUME NEW ms \in TickMs, Tick(ms) PROVE IInv'
  BY <1>5, TickStep
<1>6. ASSUME UNCHANGED vars PROVE IInv'
  BY <1>6 DEF vars, IInv
<1> QED
  BY <1>1, <1>2, <1>3, <1>4, <1>5, <1>6 DEF Next

(* The inductive invariant holds in every state of every behaviour.         *)
THEOREM Invariance == Spec => []IInv
BY InitIInv, NextIInv, PTL DEF Spec

(* Timers are below their limits, the received queue within its bound, and  *)
(* the tables hold no addresses but those of the network.                   *)
THEOREM NetworkInterfaceTypeOK == Spec => []TypeOK
<1>1. IInv => TypeOK
  <2> SUFFICES ASSUME IInv PROVE TypeOK
    OBVIOUS
  <2>1. /\ interface \in Interfaces
        /\ Timers(interface)
    BY DEF IInv, Consistent
  <2>2. /\ DOMAIN interface.arp_table \subseteq Key
        /\ \A ip \in DOMAIN interface.arp_table : interface.arp_table[ip].time_elapsed \in Nat
        /\ \A ip \in DOMAIN interface.pending_arp_requests :
               interface.pending_arp_requests[ip] \in Nat
    BY <2>1, InterfaceValues
  <2> QED
    BY <2>1, <2>2, InterfaceAssumption DEF TypeOK, IInv, Key, Timers
<1> QED
  BY <1>1, Invariance, PTL

(* Every datagram in pending_datagrams_ is there under its next hop, and a  *)
(* request for that hop is pending: it will be answered or expire.          *)
THEOREM DatagramsWait == Spec => []WaitsForAnswer
<1>1. IInv => WaitsForAnswer
  BY DEF IInv, Consistent, Waiting, WaitsForAnswer
<1> QED
  BY <1>1, Invariance, PTL

(* send_datagram never asks for an address twice within RequestTTL          *)
(* (network_interface.cc:54), although a reply forgets the request: what it *)
(* taught outlives the time the request would have stayed pending.          *)
THEOREM RequestsAreSpaced == Spec => RequestsSpaced
<1>1. IInv /\ [Next]_vars => [Spaced]_vars
  <2> SUFFICES ASSUME IInv, Next PROVE Spaced
    OBVIOUS
  <2>1. ASSUME NEW hop \in Hop, Send(hop) PROVE Spaced
    BY <2>1, SendStep DEF Spaced
  <2>2. ASSUME NEW dst, NEW opcode, NEW ip \in Hop, NEW ethernet \in Ethernet, NEW target,
               HearARP(dst, opcode, ip, ethernet, target)
        PROVE  Spaced
    BY <2>2, HearARPStep DEF Spaced
  <2>3. ASSUME HearGarbledARP PROVE Spaced
    BY <2>3, HearGarbledARPStep DEF Spaced
  <2>4. ASSUME NEW dst, HearIPv4(dst) PROVE Spaced
    BY <2>4, HearIPv4Step DEF Spaced
  <2>5. ASSUME NEW ms \in TickMs, Tick(ms) PROVE Spaced
    BY <2>5, TickStep DEF Spaced
  <2> QED
    BY <2>1, <2>2, <2>3, <2>4, <2>5 DEF Next
<1> QED
  BY <1>1, Invariance, PTL DEF Spec, RequestsSpaced, Spaced
(* A pending request is as old as asked says, and a mapping that is there   *)
(* beside it was learnt after it was sent.                                  *)
Matching(i, ago) ==
    \A ip \in DOMAIN i.pending_arp_requests :
        /\ i.pending_arp_requests[ip] = ago[ip]
        /\ ip \in DOMAIN i.arp_table => i.arp_table[ip].time_elapsed <= ago[ip]

(* The mapping of a hop is what the hop announced last, and as old as that. *)
Agreeing(i, said) ==
    \A ip \in Hop : ip \in DOMAIN i.arp_table =>
        /\ i.arp_table[ip].ethernet_addr = said[ip].ethernet_addr
        /\ i.arp_table[ip].time_elapsed = said[ip].age

Announcements == [ethernet_addr : Ethernet \cup {NoEthernet}, age : Nat]

(* The inductive invariant with what the maps owe to the network.           *)
AInv ==
    /\ IInv
    /\ heard \in [Hop -> Announcements]
    /\ Matching(interface, asked)
    /\ Agreeing(interface, heard)

(* The steps that OnceOrUnanswered and SentWhereHeard ask for.              *)
Once ==
    \A n \in DOMAIN next_hop' :
        /\ Transmits(frames', n) => /\ IsQueued(interface, n) \/ n \notin DOMAIN next_hop
                                    /\ ~IsQueued(interface', n)
        /\ IsQueued(interface, n) /\ ~IsQueued(interface', n) /\ ~Transmits(frames', n)
               => asked'[next_hop[n]] >= RequestTTL
        /\ n \notin DOMAIN next_hop => Transmits(frames', n) \/ IsQueued(interface', n)

Addressed ==
    \A n \in DOMAIN next_hop', k \in DOMAIN frames' :
        Carries(frames'[k], n) =>
            /\ frames'[k].dst = heard'[next_hop'[n]].ethernet_addr
            /\ heard'[next_hop'[n]].age < EntryTTL

(* A datagram in a queue has been sent, and the queue is its next hop's.    *)
LEMMA QueuedUnderHop ==
    ASSUME NEW i, NEW hops, Waiting(i, hops), NEW n, IsQueued(i, n)
    PROVE  /\ n \in DOMAIN hops
           /\ hops[n] \in DOMAIN i.pending_datagrams
           /\ hops[n] \in DOMAIN i.pending_arp_requests
           /\ \E k \in DOMAIN i.pending_datagrams[hops[n]] : i.pending_datagrams[hops[n]][k] = n
<1>1. PICK ip \in DOMAIN i.pending_datagrams :
            \E k \in DOMAIN i.pending_datagrams[ip] : i.pending_datagrams[ip][k] = n
  BY DEF IsQueued
<1>2. n \in DOMAIN hops /\ hops[n] = ip
  BY <1>1 DEF Waiting
<1> QED
  BY <1>1, <1>2 DEF Waiting

(* A step that transmits nothing but ARP frames, sends no datagram and      *)
(* leaves the queues alone asks nothing of Once and Addressed.              *)
LEMMA NothingMoved ==
    ASSUME interface'.pending_datagrams = interface.pending_datagrams,
           next_hop' = next_hop,
           \A k \in DOMAIN frames' : frames'[k].type = "ARP"
    PROVE  Once /\ Addressed
<1>1. \A n : IsQueued(interface', n) <=> IsQueued(interface, n)
  BY DEF IsQueued
<1>2. \A n : \A k \in DOMAIN frames' : ~Carries(frames'[k], n)
  BY DEF Carries
<1>3. \A n : ~Transmits(frames', n)
  BY <1>2 DEF Transmits
<1> QED
  BY <1>1, <1>2, <1>3 DEF Once, Addressed

(* A new interface has heard nothing and asked for nothing.                 *)
LEMMA InitAInv == Init => AInv
<1> SUFFICES ASSUME Init PROVE AInv
  OBVIOUS
<1>1. heard \in [Hop -> Announcements]
  BY InterfaceAssumption DEF Init, Announcements
<1>2. Matching(interface, asked) /\ Agreeing(interface, heard)
  BY DEF Init, NewInterface, Matching, Agreeing
<1> QED
  BY <1>1, <1>2, InitIInv DEF AInv

(* Appending to a queue keeps what it holds and adds the new datagram.      *)
LEMMA AppendHolds ==
    ASSUME NEW q \in Seq(Nat), NEW n \in Nat
    PROVE  /\ \A k \in DOMAIN q : k \in DOMAIN Append(q, n) /\ Append(q, n)[k] = q[k]
           /\ \E k \in DOMAIN Append(q, n) : Append(q, n)[k] = n
<1>1. Len(q) + 1 \in DOMAIN Append(q, n) /\ Append(q, n)[Len(q) + 1] = n
  OBVIOUS
<1> QED
  BY <1>1

(* send_datagram: what it transmits at once goes to the announced address,  *)
(* and what it does not transmit waits.                                     *)
LEMMA SentAnswers ==
    ASSUME AInv, NEW hop \in Hop, Send(hop)
    PROVE  AInv' /\ Once /\ Addressed
<1> DEFINE i == interface
           n == Len(next_hop) + 1
           j == SendDatagram(i, n, hop).interface
           known == hop \in DOMAIN i.arp_table
           asks == hop \notin DOMAIN i.arp_table /\ hop \notin DOMAIN i.pending_arp_requests
           waiting == Append(Queued(i, hop), n)
<1>1. /\ i \in Interfaces /\ n \in Nat /\ hop \in Key
      /\ next_hop \in Seq(Hop) /\ asked \in [Hop -> Nat]
      /\ heard \in [Hop -> Announcements]
      /\ Timers(i) /\ Waiting(i, next_hop) /\ Matching(i, asked) /\ Agreeing(i, heard)
  BY DEF AInv, IInv, Consistent, Key
<1>2. /\ interface' = j /\ heard' = heard
      /\ frames' = SendDatagram(i, n, hop).frames
      /\ next_hop' = Append(next_hop, hop)
  BY DEF Send, Effect
<1>3. /\ j.arp_table = i.arp_table
      /\ j.pending_arp_requests = IF asks THEN Put(i.pending_arp_requests, hop, 0)
                                  ELSE i.pending_arp_requests
      /\ j.pending_datagrams = IF known THEN i.pending_datagrams
                               ELSE Put(i.pending_datagrams, hop, waiting)
      /\ frames' = IF known
                   THEN <<IPv4Frame(i.ethernet_address, i.arp_table[hop].ethernet_addr, n)>>
                   ELSE IF asks THEN <<ARPRequest(i, hop)>> ELSE <<>>
  BY <1>1, <1>2, SendResult
<1>4. asked' = IF asks THEN [asked EXCEPT ![hop] = 0] ELSE asked
  BY <1>3 DEF Send, IPv4Frame, ARPRequest, ARPFrame
<1>5. DOMAIN next_hop = 1 .. Len(next_hop) /\ Len(next_hop) \in Nat
  BY <1>1
<1>6. /\ DOMAIN next_hop' = DOMAIN next_hop \cup {n}
      /\ n \notin DOMAIN next_hop
      /\ next_hop'[n] = hop
  BY <1>1, <1>2, <1>5
<1>7. \A m : IsQueued(i, m) => m \in DOMAIN next_hop
  BY <1>1, QueuedUnderHop
<1>8. Queued(i, hop) \in Seq(Nat)
  <2>1. i.pending_datagrams \in Maps(Seq(Nat))
    BY <1>1 DEF Interfaces
  <2> QED
    BY <2>1, MapValues DEF Queued
<1>9. /\ \A k \in DOMAIN Queued(i, hop) : k \in DOMAIN waiting /\ waiting[k] = Queued(i, hop)[k]
      /\ \E k \in DOMAIN waiting : waiting[k] = n
  BY <1>1, <1>8, AppendHolds
<1>10. IInv'
  BY SendStep DEF AInv
<1> HIDE DEF i, n, j, known, waiting
<1>11. Matching(j, asked') /\ Agreeing(j, heard')
  <2>1. Agreeing(j, heard')
    BY <1>1, <1>2, <1>3 DEF Agreeing
  <2>2. CASE asks
    <3>1. /\ DOMAIN j.pending_arp_requests = DOMAIN i.pending_arp_requests \cup {hop}
          /\ j.pending_arp_requests[hop] = 0
          /\ \A k \in DOMAIN i.pending_arp_requests \ {hop} :
                 j.pending_arp_requests[k] = i.pending_arp_requests[k]
      BY <1>3, <2>2 DEF Put
    <3>2. asked'[hop] = 0 /\ \A k \in Hop \ {hop} : asked'[k] = asked[k]
      BY <1>1, <1>4, <2>2
    <3>3. DOMAIN i.pending_arp_requests \subseteq Hop
      BY <1>1 DEF Timers
    <3> QED
      BY <1>1, <1>3, <2>1, <2>2, <3>1, <3>2, <3>3 DEF Matching
  <2>3. CASE ~asks
    BY <1>1, <1>3, <1>4, <2>1, <2>3 DEF Matching
  <2> QED
    BY <2>2, <2>3
<1>12. AInv'
  BY <1>1, <1>2, <1>10, <1>11 DEF AInv
<1>13. CASE known
  <2>1. frames' = <<IPv4Frame(i.ethernet_address, i.arp_table[hop].ethernet_addr, n)>>
    BY <1>3, <1>13
  <2>2. \A m : \A k \in DOMAIN frames' : Carries(frames'[k], m) => m = n /\ k = 1
    BY <2>1 DEF Carries, IPv4Frame
  <2>3. Transmits(frames', n)
    BY <2>1 DEF Transmits, Carries, IPv4Frame
  <2>4. \A m : IsQueued(interface', m) <=> IsQueued(i, m)
    BY <1>2, <1>3, <1>13 DEF IsQueued
  <2>5. \A m : Transmits(frames', m) => m = n
    BY <2>2 DEF Transmits
  <2>6. Once
    BY <1>6, <1>7, <2>3, <2>4, <2>5 DEF Once, i
  <2>7. Addressed
    <3>1. frames'[1].dst = i.arp_table[hop].ethernet_addr
      BY <2>1 DEF IPv4Frame
    <3>2. /\ i.arp_table[hop].ethernet_addr = heard[hop].ethernet_addr
          /\ heard[hop].age < EntryTTL
      BY <1>1, <1>13 DEF Agreeing, Timers, known
    <3> QED
      BY <1>2, <1>6, <2>2, <3>1, <3>2 DEF Addressed
  <2> QED
    BY <1>12, <2>6, <2>7
<1>14. CASE ~known
  <2>1. \A k \in DOMAIN frames' : frames'[k].type = "ARP"
    BY <1>3, <1>14 DEF ARPRequest, ARPFrame
  <2>2. \A m : \A k \in DOMAIN frames' : ~Carries(frames'[k], m)
    BY <2>1 DEF Carries
  <2>3. \A m : ~Transmits(frames', m)
    BY <2>2 DEF Transmits
  <2>4. /\ DOMAIN j.pending_datagrams = DOMAIN i.pending_datagrams \cup {hop}
        /\ j.pending_datagrams[hop] = waiting
        /\ \A k \in DOMAIN i.pending_datagrams \ {hop} :
               j.pending_datagrams[k] = i.pending_datagrams[k]
    BY <1>3, <1>14 DEF Put
  <2>5. IsQueued(interface', n)
    BY <1>2, <1>9, <2>4 DEF IsQueued
  <2>6. ASSUME NEW m, IsQueued(i, m) PROVE IsQueued(interface', m)
    <3>1. PICK ip \in DOMAIN i.pending_datagrams :
                \E k \in DOMAIN i.pending_datagrams[ip] : i.pending_datagrams[ip][k] = m
      BY <2>6 DEF IsQueued
    <3>2. CASE ip = hop
      BY <1>2, <1>9, <2>4, <3>1, <3>2 DEF IsQueued, Queued
    <3>3. CASE ip # hop
      BY <1>2, <2>4, <3>1, <3>3 DEF IsQueued
    <3> QED
      BY <3>2, <3>3
  <2>7. Once
    BY <1>6, <2>3, <2>5, <2>6 DEF Once, i
  <2> QED
    BY <1>12, <2>2, <2>7 DEF Addressed
<1> QED
  BY <1>13, <1>14
(* recv_frame of an ARP message of a next hop: what a reply releases goes   *)
(* to the address in it, all of it and once.                                *)
LEMMA HearARPAnswers ==
    ASSUME AInv, NEW dst, NEW opcode, NEW ip \in Hop, NEW ethernet \in Ethernet, NEW target,
           HearARP(dst, opcode, ip, ethernet, target)
    PROVE  AInv' /\ Once /\ Addressed
<1> DEFINE i == interface
           arp == ARPMessage(opcode, ethernet, ip, NoEthernet, target)
           learnt == Learn(i, arp)
           announced == [ethernet_addr |-> ethernet, age |-> 0]
<1>1. /\ i \in Interfaces /\ ip \in Key
      /\ asked \in [Hop -> Nat] /\ heard \in [Hop -> Announcements]
      /\ Timers(i) /\ Waiting(i, next_hop) /\ Matching(i, asked) /\ Agreeing(i, heard)
  BY DEF AInv, IInv, Consistent, Key
<1>2. i.ethernet_address = OwnEthernet
  BY <1>1 DEF Interfaces
<1>3. /\ interface' = RecvFrame(i, ARPFrame(ethernet, dst, arp)).interface
      /\ frames' = RecvFrame(i, ARPFrame(ethernet, dst, arp)).frames
      /\ heard' = IF dst \in {OwnEthernet, Broadcast}
                  THEN [heard EXCEPT ![ip] = announced] ELSE heard
      /\ next_hop' = next_hop /\ asked' = asked
  BY DEF HearARP, Effect
<1>4. /\ arp.sender_ip_address = ip
      /\ arp.sender_ethernet_address = ethernet
      /\ NewEntry(arp) = [ethernet_addr |-> ethernet, time_elapsed |-> 0]
  BY DEF ARPMessage, NewEntry
<1>5. \/ dst \notin {OwnEthernet, Broadcast} /\ interface' = i /\ frames' = <<>>
      \/ /\ dst \in {OwnEthernet, Broadcast}
         /\ \/ interface' = learnt /\ frames' \in {<<>>, <<ARPReply(i, arp)>>}
            \/ interface' = Answered(learnt, ip) /\ frames' = Flush(i, arp)
  BY <1>2, <1>3, <1>4 DEF RecvFrame, RecvARP, ARPFrame, InterfaceResult
<1>6. /\ learnt \in Interfaces
      /\ learnt.arp_table = Put(i.arp_table, ip, NewEntry(arp))
      /\ learnt.pending_datagrams = i.pending_datagrams
      /\ learnt.pending_arp_requests = i.pending_arp_requests
  BY <1>1, <1>4, LearnResult
<1>7. /\ Answered(learnt, ip).arp_table = learnt.arp_table
      /\ Answered(learnt, ip).pending_datagrams = Erase(learnt.pending_datagrams, {ip})
      /\ Answered(learnt, ip).pending_arp_requests = Erase(learnt.pending_arp_requests, {ip})
  BY <1>6, AnsweredResult
<1>8. /\ DOMAIN learnt.arp_table = DOMAIN i.arp_table \cup {ip}
      /\ learnt.arp_table[ip] = [ethernet_addr |-> ethernet, time_elapsed |-> 0]
      /\ \A k \in DOMAIN i.arp_table \ {ip} : learnt.arp_table[k] = i.arp_table[k]
  BY <1>4, <1>6 DEF Put
<1>9. IInv'
  BY HearARPStep DEF AInv
<1>10. announced \in Announcements
  BY DEF Announcements
<1>11. /\ learnt.arp_table[ip].ethernet_addr = ethernet
       /\ learnt.arp_table[ip].time_elapsed = 0
       /\ announced.ethernet_addr = ethernet
       /\ announced.age = 0
  BY <1>8
<1> HIDE DEF i, arp, learnt, announced
<1>12. heard' \in [Hop -> Announcements]
  BY <1>1, <1>3, <1>10
<1>13. Matching(learnt, asked)
  BY <1>1, <1>6, <1>8, <1>11 DEF Matching, Timers
<1>14. Matching(Answered(learnt, ip), asked)
  BY <1>7, <1>13 DEF Matching, Erase
<1>15. CASE dst \notin {OwnEthernet, Broadcast}
  <2>1. interface' = i /\ frames' = <<>> /\ heard' = heard
    BY <1>3, <1>5, <1>15
  <2>2. Once /\ Addressed
    BY <1>3, <2>1, NothingMoved DEF i
  <2> QED
    BY <1>1, <1>3, <1>9, <1>12, <2>1, <2>2 DEF AInv
<1>16. CASE dst \in {OwnEthernet, Broadcast}
  <2>1. heard'[ip] = announced /\ \A k \in Hop \ {ip} : heard'[k] = heard[k]
    BY <1>1, <1>3, <1>16
  <2>2. Agreeing(learnt, heard')
    BY <1>1, <1>8, <1>11, <2>1 DEF Agreeing
  <2>3. Agreeing(Answered(learnt, ip), heard')
    BY <1>7, <2>2 DEF Agreeing
  <2>4. CASE interface' = learnt /\ frames' \in {<<>>, <<ARPReply(i, arp)>>}
    <3>1. \A k \in DOMAIN frames' : frames'[k].type = "ARP"
      BY <2>4 DEF ARPReply, ARPFrame
    <3>2. Once /\ Addressed
      BY <1>3, <1>6, <2>4, <3>1, NothingMoved DEF i
    <3> QED
      BY <1>3, <1>9, <1>12, <1>13, <2>2, <2>4, <3>2 DEF AInv
  <2>5. CASE interface' = Answered(learnt, ip) /\ frames' = Flush(i, arp)
    <3>1. AInv'
      BY <1>3, <1>9, <1>12, <1>14, <2>3, <2>5 DEF AInv
    <3>2. /\ DOMAIN interface'.pending_datagrams = DOMAIN i.pending_datagrams \ {ip}
          /\ \A k \in DOMAIN i.pending_datagrams \ {ip} :
                 interface'.pending_datagrams[k] = i.pending_datagrams[k]
      BY <1>6, <1>7, <2>5 DEF Erase
    <3>3. /\ DOMAIN frames' = DOMAIN Queued(i, ip)
          /\ \A k \in DOMAIN frames' :
                frames'[k] = IPv4Frame(i.ethernet_address, ethernet, Queued(i, ip)[k])
      BY <1>4, <2>5 DEF Flush
    <3>4. /\ DOMAIN <<>> = {}
          /\ \A k \in DOMAIN frames' : /\ frames'[k].type = "IPv4"
                                       /\ frames'[k].dst = ethernet
                                       /\ frames'[k].payload = Queued(i, ip)[k]
      BY <3>3 DEF IPv4Frame
    <3>5. \A n : Transmits(frames', n) <=>
                    \E k \in DOMAIN Queued(i, ip) : Queued(i, ip)[k] = n
      BY <3>3, <3>4 DEF Transmits, Carries
    <3>6. ASSUME NEW n, Transmits(frames', n)
          PROVE  IsQueued(i, n) /\ n \in DOMAIN next_hop /\ next_hop[n] = ip
      <4>1. ip \in DOMAIN i.pending_datagrams
        BY <3>4, <3>5, <3>6 DEF Queued
      <4>2. IsQueued(i, n)
        BY <3>5, <3>6, <4>1 DEF Queued, IsQueued
      <4> QED
        BY <1>1, <3>5, <3>6, <4>1, <4>2 DEF Queued, Waiting
    <3>7. ASSUME NEW n, IsQueued(i, n), next_hop[n] = ip PROVE Transmits(frames', n)
      BY <1>1, <3>5, <3>7, QueuedUnderHop DEF Queued
    <3>8. ASSUME NEW n, IsQueued(i, n), next_hop[n] # ip PROVE IsQueued(interface', n)
      BY <1>1, <3>2, <3>8, QueuedUnderHop DEF IsQueued
    <3>9. ASSUME NEW n, IsQueued(interface', n) PROVE next_hop[n] # ip
      <4>1. PICK k \in DOMAIN i.pending_datagrams \ {ip} :
                   \E q \in DOMAIN i.pending_datagrams[k] : i.pending_datagrams[k][q] = n
        BY <3>2, <3>9 DEF IsQueued
      <4> QED
        BY <1>1, <4>1 DEF Waiting
    <3>10. Once
      BY <1>3, <3>6, <3>7, <3>8, <3>9 DEF Once, i
    <3>11. Addressed
      <4> SUFFICES ASSUME NEW n \in DOMAIN next_hop', NEW k \in DOMAIN frames',
                          Carries(frames'[k], n)
                   PROVE  /\ frames'[k].dst = heard'[next_hop'[n]].ethernet_addr
                          /\ heard'[next_hop'[n]].age < EntryTTL
        BY DEF Addressed
      <4>1. Transmits(frames', n)
        BY DEF Transmits
      <4>2. next_hop'[n] = ip
        BY <1>3, <3>6, <4>1
      <4> QED
        BY <1>11, <2>1, <3>4, <4>2, InterfaceAssumption
    <3> QED
      BY <3>1, <3>10, <3>11
  <2> QED
    BY <1>5, <1>16, <2>4, <2>5
<1> QED
  BY <1>15, <1>16

(* A message that cannot be parsed teaches a mapping of no next hop.        *)
LEMMA HearGarbledARPAnswers ==
    ASSUME AInv, HearGarbledARP
    PROVE  AInv' /\ Once /\ Addressed
<1> DEFINE i == interface
<1>1. /\ i \in Interfaces
      /\ heard \in [Hop -> Announcements]
      /\ Timers(i) /\ Matching(i, asked) /\ Agreeing(i, heard)
  BY DEF AInv, IInv, Consistent
<1>2. /\ interface' = Learn(i, Garbled) /\ frames' = <<>>
      /\ heard' = heard /\ next_hop' = next_hop /\ asked' = asked
  BY DEF HearGarbledARP, Effect, RecvFrame, RecvARP, ARPFrame, InterfaceResult, Garbled
<1>3. /\ interface'.arp_table = Put(i.arp_table, NoIP, NewEntry(Garbled))
      /\ interface'.pending_datagrams = i.pending_datagrams
      /\ interface'.pending_arp_requests = i.pending_arp_requests
  BY <1>1, <1>2, LearnResult DEF Garbled, Key
<1>4. /\ DOMAIN interface'.arp_table = DOMAIN i.arp_table \cup {NoIP}
      /\ \A k \in DOMAIN i.arp_table \ {NoIP} : interface'.arp_table[k] = i.arp_table[k]
  BY <1>3 DEF Put
<1>5. IInv'
  BY HearGarbledARPStep DEF AInv
<1>6. Once /\ Addressed
  BY <1>2, <1>3, NothingMoved
<1> HIDE DEF i
<1>7. Matching(interface', asked') /\ Agreeing(interface', heard')
  BY <1>1, <1>2, <1>3, <1>4, EnvironmentAssumption DEF Matching, Agreeing, Timers
<1> QED
  BY <1>1, <1>2, <1>5, <1>6, <1>7 DEF AInv

(* An IPv4 datagram changes no map.                                         *)
LEMMA HearIPv4Answers ==
    ASSUME AInv, NEW dst, HearIPv4(dst)
    PROVE  AInv' /\ Once /\ Addressed
<1>1. /\ interface \in Interfaces
      /\ heard \in [Hop -> Announcements]
      /\ Matching(interface, asked) /\ Agreeing(interface, heard)
  BY DEF AInv, IInv, Consistent
<1>2. /\ IInv' /\ frames' = <<>>
      /\ heard' = heard /\ next_hop' = next_hop /\ asked' = asked
  BY HearIPv4Step DEF AInv, HearIPv4
<1>3. /\ interface'.arp_table = interface.arp_table
      /\ interface'.pending_datagrams = interface.pending_datagrams
      /\ interface'.pending_arp_requests = interface.pending_arp_requests
  BY <1>1 DEF HearIPv4, Effect, RecvFrame, IPv4Frame, InterfaceResult, Interfaces
<1>4. Matching(interface', asked') /\ Agreeing(interface', heard')
  BY <1>1, <1>2, <1>3 DEF Matching, Agreeing
<1>5. Once /\ Addressed
  BY <1>2, <1>3, NothingMoved
<1> QED
  BY <1>1, <1>2, <1>4, <1>5 DEF AInv

(* tick: a queue is dropped only when its hop has not answered for          *)
(* RequestTTL, even where a mapping beside the request expires first.       *)
LEMMA TickAnswers ==
    ASSUME AInv, NEW ms \in TickMs, Tick(ms)
    PROVE  AInv' /\ Once /\ Addressed
<1> DEFINE i == interface
           j == InterfaceTick(i, ms)
<1>1. /\ i \in Interfaces /\ ms \in Nat
      /\ asked \in [Hop -> Nat] /\ heard \in [Hop -> Announcements]
      /\ Timers(i) /\ Waiting(i, next_hop) /\ Matching(i, asked) /\ Agreeing(i, heard)
  BY EnvironmentAssumption DEF AInv, IInv, Consistent
<1>2. /\ DOMAIN j.arp_table = DOMAIN i.arp_table \ StaleEntries(i, ms)
      /\ \A ip \in DOMAIN j.arp_table :
             j.arp_table[ip].time_elapsed = i.arp_table[ip].time_elapsed + ms
      /\ DOMAIN j.pending_arp_requests = DOMAIN i.pending_arp_requests \ StaleRequests(i, ms)
      /\ \A ip \in DOMAIN j.pending_arp_requests :
             j.pending_arp_requests[ip] = i.pending_arp_requests[ip] + ms
      /\ j.pending_datagrams = Erase(i.pending_datagrams, Dropped(i, ms))
  BY <1>1, AgedResult
<1>3. \A ip \in DOMAIN j.arp_table : j.arp_table[ip].ethernet_addr = i.arp_table[ip].ethernet_addr
  <2>1. i.arp_table \in Maps(Entries)
    BY <1>1 DEF Interfaces
  <2>2. \A ip \in DOMAIN i.arp_table : i.arp_table[ip] \in Entries
    BY <2>1, MapValues
  <2>3. j.arp_table = [ip \in DOMAIN i.arp_table \ StaleEntries(i, ms) |-> Aged(i.arp_table[ip], ms)]
    BY <1>1 DEF InterfaceTick, Interfaces
  <2> HIDE DEF j
  <2> QED
    BY <2>2, <2>3 DEF Aged, Entries
<1>4. /\ interface' = j /\ frames' = <<>> /\ next_hop' = next_hop
      /\ heard' = [ip \in Hop |-> [heard[ip] EXCEPT !.age =
                                      IF @ + ms < EntryTTL THEN @ + ms ELSE EntryTTL]]
      /\ asked' = [ip \in Hop |-> IF asked[ip] + ms < RequestTTL THEN asked[ip] + ms ELSE RequestTTL]
  BY DEF Tick, Effect, InterfaceResult
<1>5. /\ \A ip \in DOMAIN i.arp_table : i.arp_table[ip].time_elapsed \in Nat
      /\ \A ip \in DOMAIN i.pending_arp_requests : i.pending_arp_requests[ip] \in Nat
  BY <1>1, InterfaceValues
<1>6. /\ DOMAIN j.pending_datagrams = DOMAIN i.pending_datagrams \ Dropped(i, ms)
      /\ \A ip \in DOMAIN j.pending_datagrams : j.pending_datagrams[ip] = i.pending_datagrams[ip]
  BY <1>2 DEF Erase
<1>7. IInv'
  BY TickStep DEF AInv
<1> HIDE DEF i, j
<1>8. \A ip \in Hop : /\ heard'[ip] \in Announcements
                      /\ heard'[ip].ethernet_addr = heard[ip].ethernet_addr
                      /\ heard'[ip].age = IF heard[ip].age + ms < EntryTTL
                                          THEN heard[ip].age + ms ELSE EntryTTL
  <2> SUFFICES ASSUME NEW ip \in Hop
               PROVE  /\ heard'[ip] \in Announcements
                      /\ heard'[ip].ethernet_addr = heard[ip].ethernet_addr
                      /\ heard'[ip].age = IF heard[ip].age + ms < EntryTTL
                                          THEN heard[ip].age + ms ELSE EntryTTL
    OBVIOUS
  <2>1. PICK e \in Ethernet \cup {NoEthernet}, a \in Nat :
                heard[ip] = [ethernet_addr |-> e, age |-> a]
    BY <1>1 DEF Announcements
  <2>2. PICK b \in Nat : b = IF a + ms < EntryTTL THEN a + ms ELSE EntryTTL
    BY <1>1, InterfaceAssumption
  <2>3. heard'[ip] = [ethernet_addr |-> e, age |-> b]
    BY <1>4, <2>1, <2>2
  <2> QED
    BY <2>1, <2>2, <2>3 DEF Announcements
<1>9. heard' \in [Hop -> Announcements]
  BY <1>4, <1>8
<1>10. \A ip \in Hop : heard[ip].age \in Nat
  BY <1>1 DEF Announcements
<1>11. Agreeing(j, heard')
  <2> SUFFICES ASSUME NEW ip \in Hop, ip \in DOMAIN j.arp_table
               PROVE  /\ j.arp_table[ip].ethernet_addr = heard'[ip].ethernet_addr
                      /\ j.arp_table[ip].time_elapsed = heard'[ip].age
    BY DEF Agreeing
  <2>1. /\ ip \in DOMAIN i.arp_table /\ ip \notin StaleEntries(i, ms)
        /\ i.arp_table[ip].ethernet_addr = heard[ip].ethernet_addr
        /\ i.arp_table[ip].time_elapsed = heard[ip].age
    BY <1>1, <1>2 DEF Agreeing
  <2>2. heard[ip].age + ms < EntryTTL
    BY <1>1, <1>10, <2>1, InterfaceAssumption DEF StaleEntries
  <2> QED
    BY <1>2, <1>3, <1>8, <2>1, <2>2
<1>12. Matching(j, asked')
  <2> SUFFICES ASSUME NEW ip \in DOMAIN j.pending_arp_requests
               PROVE  /\ j.pending_arp_requests[ip] = asked'[ip]
                      /\ ip \in DOMAIN j.arp_table => j.arp_table[ip].time_elapsed <= asked'[ip]
    BY DEF Matching
  <2>1. /\ ip \in DOMAIN i.pending_arp_requests /\ ip \notin StaleRequests(i, ms) /\ ip \in Hop
        /\ i.pending_arp_requests[ip] = asked[ip]
        /\ ip \in DOMAIN i.arp_table => i.arp_table[ip].time_elapsed <= asked[ip]
    BY <1>1, <1>2 DEF Matching, Timers
  <2>2. asked[ip] + ms < RequestTTL /\ asked[ip] \in Nat
    BY <1>1, <2>1, InterfaceAssumption DEF StaleRequests
  <2>3. asked'[ip] = asked[ip] + ms
    BY <1>4, <2>1, <2>2
  <2> QED
    BY <1>1, <1>2, <1>5, <2>1, <2>2, <2>3
<1>13. ASSUME NEW ip \in DOMAIN i.pending_datagrams, ip \in Dropped(i, ms)
       PROVE  asked'[ip] >= RequestTTL
  <2>1. /\ ip \in DOMAIN i.pending_arp_requests /\ ip \in Hop
        /\ i.pending_arp_requests[ip] = asked[ip] /\ asked[ip] \in Nat
        /\ ip \in DOMAIN i.arp_table => i.arp_table[ip].time_elapsed <= asked[ip]
    BY <1>1 DEF Waiting, Matching, Timers
  <2>2. asked[ip] + ms >= RequestTTL
    <3>1. CASE ip \in StaleRequests(i, ms)
      BY <2>1, <3>1 DEF StaleRequests
    <3>2. CASE ip \in StaleEntries(i, ms)
      BY <1>1, <1>5, <2>1, <3>2, InterfaceAssumption DEF StaleEntries
    <3> QED
      BY <1>13, <3>1, <3>2 DEF Dropped
  <2> QED
    BY <1>1, <1>4, <2>1, <2>2, InterfaceAssumption
<1>14. Once
  <2>1. \A n : ~Transmits(frames', n)
    BY <1>4 DEF Transmits
  <2>2. ASSUME NEW n, IsQueued(i, n), ~IsQueued(j, n)
        PROVE  asked'[next_hop[n]] >= RequestTTL
    <3>1. /\ next_hop[n] \in DOMAIN i.pending_datagrams
          /\ \E k \in DOMAIN i.pending_datagrams[next_hop[n]] :
                 i.pending_datagrams[next_hop[n]][k] = n
      BY <1>1, <2>2, QueuedUnderHop
    <3>2. next_hop[n] \in Dropped(i, ms)
      BY <1>6, <2>2, <3>1 DEF IsQueued
    <3> QED
      BY <1>13, <3>1, <3>2
  <2> QED
    BY <1>4, <2>1, <2>2 DEF Once, i
<1>15. Addressed
  BY <1>4 DEF Addressed
<1> QED
  BY <1>4, <1>7, <1>9, <1>11, <1>12, <1>14, <1>15 DEF AInv

(* Every step keeps the strengthened invariant and answers for what moves.  *)
LEMMA NextAInv == AInv /\ [Next]_vars => AInv' /\ [Once]_vars /\ [Addressed]_vars
<1> SUFFICES ASSUME AInv, [Next]_vars PROVE AInv' /\ [Once]_vars /\ [Addressed]_vars
  OBVIOUS
<1>1. ASSUME NEW hop \in Hop, Send(hop) PROVE AInv' /\ Once /\ Addressed
  BY <1>1, SentAnswers
<1>2. ASSUME NEW dst, NEW opcode, NEW ip \in Hop, NEW ethernet \in Ethernet, NEW target,
             HearARP(dst, opcode, ip, ethernet, target)
      PROVE  AInv' /\ Once /\ Addressed
  BY <1>2, HearARPAnswers
<1>3. ASSUME HearGarbledARP PROVE AInv' /\ Once /\ Addressed
  BY <1>3, HearGarbledARPAnswers
<1>4. ASSUME NEW dst, HearIPv4(dst) PROVE AInv' /\ Once /\ Addressed
  BY <1>4, HearIPv4Answers
<1>5. ASSUME NEW ms \in TickMs, Tick(ms) PROVE AInv' /\ Once /\ Addressed
  BY <1>5, TickAnswers
<1>6. ASSUME UNCHANGED vars PROVE AInv'
  <2>1. IInv'
    BY NextIInv DEF AInv
  <2> QED
    BY <1>6, <2>1 DEF vars, AInv
<1> QED
  BY <1>1, <1>2, <1>3, <1>4, <1>5, <1>6 DEF Next

(* A datagram leaves the interface once, when it is sent or when its hop    *)
(* answers, or is dropped after the hop kept silent for RequestTTL: even    *)
(* tick's erasure of the queue of an expired mapping                        *)
(* (network_interface.cc:183) finds none that was asked for more recently.  *)
THEOREM SentOnceOrUnanswered == Spec => OnceOrUnanswered
BY InitAInv, NextAInv, PTL DEF Spec, OnceOrUnanswered, Once

(* A datagram goes to the Ethernet address its next hop announced last, and *)
(* only if the announcement is younger than EntryTTL.                       *)
THEOREM DatagramsGoWhereHeard == Spec => SentWhereHeard
BY InitAInv, NextAInv, PTL DEF Spec, SentWhereHeard, Addressed

-----------------------------------------------------------------------------
(* The network of RouterNetwork: its constants and variables, as far as     *)
(* they are not those of NetworkInterface.                                  *)
CONSTANTS AddressBits, Direct, Routers, InterfaceIP, InterfaceEthernet, HostIP, HostEthernet,
    Routes, Destination, TTL, RouterTickMs, MaxRoutes, MaxSent

VARIABLES router, link, delivered, sent

Net == INSTANCE RouterNetwork WITH TickMs <- RouterTickMs, MaxDatagrams <- MaxSent

(* How often a datagram is in a sequence.                                   *)
Places(id, s) == {k \in DOMAIN s : s[k].id = id}
Copies(id, s) == Cardinality(Places(id, s))

One(id, d) == IF d.id = id THEN 1 ELSE 0

(* The places of a datagram are finite in number.                           *)
LEMMA CopiesType ==
    ASSUME NEW D, NEW s \in Seq(D), NEW id
    PROVE  IsFiniteSet(Places(id, s)) /\ Copies(id, s) \in Nat
<1>1. Places(id, s) \subseteq 1 .. Len(s) /\ Len(s) \in Nat
  BY LenProperties DEF Places
<1>2. IsFiniteSet(Places(id, s))
  <2>1. PICK n \in Int : n = Len(s)
    BY <1>1
  <2>2. IsFiniteSet(1 .. n)
    BY FS_Interval
  <2> QED
    BY <1>1, <2>1, <2>2, FS_Subset
<1> QED
  BY <1>2, FS_CardinalityType DEF Copies

(* Nothing is in the empty sequence.                                        *)
LEMMA CopiesEmpty == ASSUME NEW id PROVE Copies(id, <<>>) = 0
<1>1. Places(id, <<>>) = {}
  BY DEF Places
<1> QED
  BY <1>1, FS_EmptySet DEF Copies

(* Appending a datagram adds one copy of it, and of no other.               *)
LEMMA CopiesAppend ==
    ASSUME NEW D, NEW s \in Seq(D), NEW d \in D, NEW id
    PROVE  Copies(id, Append(s, d)) = Copies(id, s) + One(id, d)
<1>1. PICK n \in Nat : n = Len(s) /\ DOMAIN s = 1 .. n
  BY LenProperties
<1>2. PICK t : t = Append(s, d) /\ DOMAIN t = 1 .. n + 1 /\ t[n + 1] = d /\ \A k \in 1 .. n : t[k] = s[k]
  <2>1. PICK t \in Seq(D) : t = Append(s, d)
    BY AppendProperties
  <2>2. Len(t) = n + 1 /\ t[n + 1] = d /\ \A k \in 1 .. n : t[k] = s[k]
    BY <1>1, <2>1, AppendProperties
  <2>3. DOMAIN t = 1 .. n + 1
    BY <2>2, LenProperties
  <2> QED
    BY <2>1, <2>2, <2>3
<1>3. Places(id, s) \subseteq 1 .. n
  BY <1>1 DEF Places
<1>4. IsFiniteSet(Places(id, s)) /\ Copies(id, s) \in Nat
  BY CopiesType
<1>5. CASE d.id = id
  <2>1. Places(id, t) = Places(id, s) \cup {n + 1}
    BY <1>1, <1>2, <1>5 DEF Places
  <2>2. n + 1 \notin Places(id, s)
    BY <1>3
  <2>3. Cardinality(Places(id, t)) = Cardinality(Places(id, s)) + 1
    BY <1>4, <2>1, <2>2, FS_AddElement
  <2> QED
    BY <1>2, <1>5, <2>3 DEF Copies, One
<1>6. CASE d.id # id
  <2>1. Places(id, t) = Places(id, s)
    BY <1>1, <1>2, <1>6 DEF Places
  <2> QED
    BY <1>2, <1>4, <1>6, <2>1 DEF Copies, One
<1> QED
  BY <1>5, <1>6

(* The copies in two sequences add up.                                      *)
LEMMA CopiesConcat ==
    ASSUME NEW D, NEW s \in Seq(D), NEW t \in Seq(D), NEW id
    PROVE  Copies(id, s \o t) = Copies(id, s) + Copies(id, t)
<1>1. PICK n \in Nat, m \in Nat : n = Len(s) /\ DOMAIN s = 1 .. n /\ m = Len(t) /\ DOMAIN t = 1 .. m
  BY LenProperties
<1>2. PICK u \in Seq(D) : u = s \o t /\ DOMAIN u = 1 .. n + m
          /\ (\A k \in 1 .. n : u[k] = s[k]) /\ \A k \in 1 .. m : u[k + n] = t[k]
  <2>1. PICK u \in Seq(D) : u = s \o t
    BY ConcatProperties
  <2>2. Len(u) = n + m /\ \A i \in 1 .. n + m : u[i] = IF i <= n THEN s[i] ELSE t[i - n]
    BY <1>1, <2>1, ConcatProperties
  <2>3. DOMAIN u = 1 .. n + m
    BY <2>2, LenProperties
  <2>4. \A k \in 1 .. n : u[k] = s[k]
    BY <2>2
  <2>5. \A k \in 1 .. m : u[k + n] = t[k]
    <3> TAKE k \in 1 .. m
    <3>1. k + n \in 1 .. n + m /\ ~(k + n <= n) /\ (k + n) - n = k
      OBVIOUS
    <3> QED
      BY <2>2, <3>1
  <2> QED
    BY <2>1, <2>3, <2>4, <2>5
<1> DEFINE A == Places(id, s)
           B == Places(id, t)
           C == {k \in 1 .. n + m : k > n /\ u[k].id = id}
<1>3. A \subseteq 1 .. n /\ IsFiniteSet(A) /\ IsFiniteSet(B) /\ B \subseteq 1 .. m
  BY <1>1, CopiesType DEF Places
<1>4. Places(id, u) = A \cup C
  <2>1. A = {k \in 1 .. n : u[k].id = id}
    BY <1>1, <1>2 DEF Places
  <2> QED
    BY <1>2, <2>1 DEF Places
<1>5. IsFiniteSet(C) /\ Cardinality(C) = Cardinality(B)
  <2> DEFINE f == [k \in B |-> k + n]
  <2>1. f \in [B -> C]
    <3>1. ASSUME NEW k \in B
          PROVE  k + n \in C
      <4>1. k \in 1 .. m /\ t[k].id = id
        BY <1>3 DEF Places
      <4> QED
        BY <1>2, <4>1
    <3> QED
      BY <3>1
  <2>2. \A k \in C : \E j \in B : f[j] = k
    <3> TAKE k \in C
    <3>1. k - n \in 1 .. m /\ (k - n) + n = k
      OBVIOUS
    <3>2. t[k - n] = u[k]
      BY <1>2, <3>1
    <3>3. k - n \in B
      BY <1>1, <3>1, <3>2 DEF Places
    <3> QED
      BY <3>1, <3>3
  <2>3. \A j, k \in B : f[j] = f[k] => j = k
    BY <1>3
  <2>4. f \in Bijection(B, C)
    BY <2>1, <2>2, <2>3 DEF Bijection, Injection, Surjection, IsInjective
  <2>5. IsFiniteSet(B)
    BY <1>3
  <2> HIDE DEF C, B, f
  <2> QED
    BY <2>4, <2>5, FS_Bijection DEF ExistsBijection
<1>6. A \cap C = {}
  BY <1>3
<1>7. Cardinality(A \cup C) = Cardinality(A) + Cardinality(C)
  <2> HIDE DEF C, A
  <2>1. Cardinality(A \cup C) = Cardinality(A) + Cardinality(C) - Cardinality(A \cap C)
    BY <1>3, <1>5, FS_Union
  <2>2. Cardinality(A \cap C) = 0
    BY <1>6, FS_EmptySet
  <2>3. Cardinality(A) \in Nat /\ Cardinality(C) \in Nat
    BY <1>3, <1>5, FS_CardinalityType
  <2> QED
    BY <2>1, <2>2, <2>3
<1> QED
  BY <1>2, <1>4, <1>5, <1>7 DEF Copies

-----------------------------------------------------------------------------
(* What frames carry.                                                       *)
Dgrams == [id : Nat, dst : Destination, ttl : Int]

Carrying(F) ==
    \A f \in F : f.type \in {"IPv4", "ARP"} /\ (f.type = "IPv4" => f.payload \in Dgrams)

Carry(x, f) == IF f.type = "IPv4" THEN Append(x, f.payload) ELSE x

UpTo(g, s, n) == g[0] = <<>> /\ \A k \in 1 .. n : g[k] = Carry(g[k - 1], s[k])

(* A frame adds a datagram or nothing.                                      *)
LEMMA CarryType ==
    ASSUME NEW F, Carrying(F), NEW f \in F, NEW x \in Seq(Dgrams)
    PROVE  Carry(x, f) \in Seq(Dgrams)
<1>1. CASE f.type = "IPv4"
  <2>1. f.payload \in Dgrams
    BY <1>1 DEF Carrying
  <2> QED
    BY <1>1, <2>1, AppendProperties DEF Carry
<1> QED
  BY <1>1 DEF Carry

(* What frames carry, as the end of a sequence that grows frame by frame.   *)
LEMMA CarriedExists ==
    ASSUME NEW F, Carrying(F), NEW s \in Seq(F), NEW n \in Nat, n = Len(s)
    PROVE  \E g \in [0 .. n -> Seq(Dgrams)] : UpTo(g, s, n) /\ Net!Datagrams(s) = g[n]
<1> DEFINE step == [k \in 1 .. n |-> [x \in Seq(Dgrams) |-> Carry(x, s[k])]]
<1>1. \A k \in 1 .. n : s[k] \in F
  BY ElementOfSeq
<1>2. step \in [1 .. n -> [Seq(Dgrams) -> Seq(Dgrams)]]
  BY <1>1, CarryType
<1>3. \A k \in 1 .. n : \A x \in Seq(Dgrams) : step[k][x] = Carry(x, s[k])
  OBVIOUS
<1>4. <<>> \in Seq(Dgrams)
  BY EmptySeq
<1> HIDE DEF step
<1>5. PICK g \in [0 .. n -> Seq(Dgrams)] : GoesBy(g, n, <<>>, step)
  BY <1>2, <1>4, RecursionOnInterval
<1>6. ASSUME NEW k \in 1 .. n
      PROVE  g[k] = Carry(g[k - 1], s[k])
  <2>1. k - 1 \in 0 .. n
    OBVIOUS
  <2> QED
    BY <1>3, <1>5, <2>1 DEF GoesBy
<1>7. UpTo(g, s, n)
  BY <1>5, <1>6 DEF UpTo, GoesBy
<1> DEFINE IsUpTo(h) == h = [k \in 0 .. Len(s) |->
                              IF k = 0 THEN <<>>
                              ELSE IF s[k].type = "IPv4" THEN Append(h[k - 1], s[k].payload)
                              ELSE h[k - 1]]
<1>8. IsUpTo(g)
  <2>1. ASSUME NEW k \in 0 .. n
        PROVE  g[k] = IF k = 0 THEN <<>>
                      ELSE IF s[k].type = "IPv4" THEN Append(g[k - 1], s[k].payload)
                      ELSE g[k - 1]
    <3>1. CASE k = 0
      BY <1>7, <3>1 DEF UpTo
    <3>2. CASE k # 0
      <4>1. k \in 1 .. n
        BY <3>2
      <4> QED
        BY <1>7, <3>2, <4>1 DEF UpTo, Carry
    <3> QED
      BY <3>1, <3>2
  <2> QED
    BY <2>1
<1> DEFINE h == CHOOSE h : IsUpTo(h)
<1>9. IsUpTo(h)
  BY <1>8
<1>10. Net!Datagrams(s) = h[n]
  BY DEF Net!Datagrams
<1> HIDE DEF h
<1> DEFINE T == {k \in Nat : k <= n => h[k] = g[k]}
<1>11. 0 \in T
  BY <1>7, <1>9 DEF UpTo
<1>12. ASSUME NEW k \in T
       PROVE  k + 1 \in T
  <2> SUFFICES ASSUME k + 1 <= n
               PROVE  h[k + 1] = g[k + 1]
    OBVIOUS
  <2>1. k + 1 \in 1 .. n /\ (k + 1) - 1 = k /\ h[k] = g[k] /\ k + 1 # 0 /\ k + 1 \in 0 .. Len(s)
    OBVIOUS
  <2>2. g[k + 1] = Carry(g[k], s[k + 1])
    BY <1>7, <2>1 DEF UpTo
  <2>3. h[k + 1] = Carry(h[k], s[k + 1])
    BY <1>9, <2>1 DEF Carry
  <2> QED
    BY <2>1, <2>2, <2>3
<1>13. T = Nat
  <2> HIDE DEF T
  <2> QED
    BY <1>11, <1>12, NatSetInduction DEF T
<1>14. h[n] = g[n]
  BY <1>13
<1> QED
  BY <1>7, <1>10, <1>14

(* Frames carry datagrams.                                                  *)
LEMMA CarriedType ==
    ASSUME NEW F, Carrying(F), NEW s \in Seq(F)
    PROVE  Net!Datagrams(s) \in Seq(Dgrams)
<1>1. PICK n \in Nat : n = Len(s)
  BY LenProperties
<1>2. PICK g \in [0 .. n -> Seq(Dgrams)] : UpTo(g, s, n) /\ Net!Datagrams(s) = g[n]
  BY <1>1, CarriedExists
<1> QED
  BY <1>2

(* Nothing in no frame; one datagram in an IPv4 frame.                      *)
LEMMA CarriedByOne ==
    ASSUME NEW f, Carrying({f})
    PROVE  /\ Net!Datagrams(<<>>) = <<>>
           /\ Net!Datagrams(<<f>>) = IF f.type = "IPv4" THEN <<f.payload>> ELSE <<>>
<1>1. PICK F : F = {f} /\ Carrying(F) /\ <<f>> \in Seq(F) /\ <<>> \in Seq(F)
  <2>1. PICK F : F = {f}
    OBVIOUS
  <2>2. Carrying(F)
    BY <2>1 DEF Carrying
  <2>3. f \in F
    BY <2>1
  <2>4. <<f>> \in Seq(F) /\ <<>> \in Seq(F)
    BY <2>3
  <2> QED
    BY <2>1, <2>2, <2>4
<1>2. PICK n \in Nat : n = 0 /\ n = Len(<<>>)
  OBVIOUS
<1>3. PICK g \in [0 .. n -> Seq(Dgrams)] : UpTo(g, <<>>, n) /\ Net!Datagrams(<<>>) = g[n]
  BY <1>1, <1>2, CarriedExists
<1>4. PICK m \in Nat, s \in Seq(F) : m = 1 /\ s = <<f>> /\ m = Len(s) /\ s[1] = f
  BY <1>1
<1>5. PICK h \in [0 .. m -> Seq(Dgrams)] : UpTo(h, s, m) /\ Net!Datagrams(s) = h[m]
  BY <1>1, <1>4, CarriedExists
<1>6. h[1] = Carry(h[0], f) /\ h[0] = <<>>
  BY <1>4, <1>5 DEF UpTo
<1> QED
  BY <1>2, <1>3, <1>4, <1>5, <1>6 DEF UpTo, Carry

(* What a frame adds comes behind what was there.                           *)
LEMMA CarryBehind ==
    ASSUME NEW F, Carrying(F), NEW f \in F, NEW x \in Seq(Dgrams), NEW y \in Seq(Dgrams)
    PROVE  Carry(x \o y, f) = x \o Carry(y, f)
<1>1. CASE f.type = "IPv4"
  <2>1. PICK d \in Dgrams : d = f.payload
    BY <1>1 DEF Carrying
  <2>2. PICK o \in Seq(Dgrams), z \in Seq(Dgrams) : o = <<d>> /\ z = x \o y
    <3>1. x \o y \in Seq(Dgrams)
      BY ConcatProperties
    <3>2. <<d>> \in Seq(Dgrams)
      OBVIOUS
    <3> QED
      BY <3>1, <3>2
  <2>3. Append(z, d) = z \o o /\ Append(y, d) = y \o o
    BY <2>2, AppendIsConcat
  <2>4. (x \o y) \o o = x \o (y \o o)
    BY ConcatAssociative
  <2> QED
    BY <1>1, <2>1, <2>2, <2>3, <2>4 DEF Carry
<1> QED
  BY <1>1 DEF Carry

(* Frames one after the other carry one after the other.                    *)
LEMMA CarriedConcat ==
    ASSUME NEW F, Carrying(F), NEW s \in Seq(F), NEW t \in Seq(F)
    PROVE  Net!Datagrams(s \o t) = Net!Datagrams(s) \o Net!Datagrams(t)
<1>1. PICK n \in Nat, m \in Nat : n = Len(s) /\ m = Len(t)
  BY LenProperties
<1>2. PICK u \in Seq(F), l \in Nat : u = s \o t /\ l = n + m /\ l = Len(u)
  <2>1. PICK u \in Seq(F) : u = s \o t
    BY ConcatProperties
  <2>2. Len(u) = Len(s) + Len(t)
    BY <2>1, ConcatProperties
  <2>3. PICK l \in Nat : l = n + m
    OBVIOUS
  <2>4. l = Len(u)
    BY <1>1, <2>2, <2>3
  <2> QED
    BY <2>1, <2>3, <2>4
<1>3. \A k \in 1 .. l : u[k] = IF k <= n THEN s[k] ELSE t[k - n]
  BY <1>1, <1>2, ConcatProperties
<1>4. PICK g \in [0 .. n -> Seq(Dgrams)] : UpTo(g, s, n) /\ Net!Datagrams(s) = g[n]
  BY <1>1, CarriedExists
<1>5. PICK h \in [0 .. m -> Seq(Dgrams)] : UpTo(h, t, m) /\ Net!Datagrams(t) = h[m]
  BY <1>1, CarriedExists
<1>6. PICK w \in [0 .. l -> Seq(Dgrams)] : UpTo(w, u, l) /\ Net!Datagrams(u) = w[l]
  BY <1>2, CarriedExists
<1> DEFINE S == {k \in Nat : k <= n => w[k] = g[k]}
<1>7. 0 \in S
  BY <1>4, <1>6 DEF UpTo
<1>8. ASSUME NEW k \in S
      PROVE  k + 1 \in S
  <2> SUFFICES ASSUME k + 1 <= n
               PROVE  w[k + 1] = g[k + 1]
    OBVIOUS
  <2>1. k + 1 \in 1 .. n /\ k + 1 \in 1 .. l /\ (k + 1) - 1 = k /\ w[k] = g[k]
    BY <1>2
  <2>2. u[k + 1] = s[k + 1]
    BY <1>3, <2>1
  <2> QED
    BY <1>4, <1>6, <2>1, <2>2 DEF UpTo
<1>9. S = Nat
  <2> HIDE DEF S
  <2> QED
    BY <1>7, <1>8, NatSetInduction DEF S
<1> DEFINE P(k) == k <= m => w[n + k] = g[n] \o h[k]
           T == {k \in Nat : P(k)}
<1>10. 0 \in T
  <2>1. n \in S
    BY <1>9
  <2>2. w[n] = g[n] /\ n + 0 = n
    BY <2>1
  <2>3. g[n] \o <<>> = g[n]
    BY ConcatEmptySeq
  <2>4. P(0)
    BY <1>5, <2>2, <2>3 DEF UpTo
  <2> HIDE DEF P
  <2> QED
    BY <2>4
<1>11. ASSUME NEW k \in T
       PROVE  k + 1 \in T
  <2>1. k \in Nat /\ k + 1 \in Nat /\ P(k)
    <3> HIDE DEF P
    <3> QED
      OBVIOUS
  <2> SUFFICES ASSUME k + 1 <= m
               PROVE  w[n + (k + 1)] = g[n] \o h[k + 1]
    <3>1. P(k + 1) => k + 1 \in T
      <4> HIDE DEF P
      <4> QED
        BY <2>1
    <3> QED
      BY <3>1
  <2>2. PICK j \in 1 .. l : j = n + (k + 1) /\ j - 1 = n + k /\ j - n = k + 1 /\ ~(j <= n)
    BY <1>2
  <2>3. k + 1 \in 1 .. m /\ (k + 1) - 1 = k /\ w[n + k] = g[n] \o h[k] /\ k \in 0 .. m
    <3>1. k + 1 \in 1 .. m /\ (k + 1) - 1 = k /\ k \in 0 .. m /\ k <= m
      BY <2>1
    <3>2. w[n + k] = g[n] \o h[k]
      BY <2>1, <3>1
    <3> HIDE DEF P
    <3> QED
      BY <3>1, <3>2
  <2>4. u[j] = t[k + 1] /\ t[k + 1] \in F
    BY <1>1, <1>3, <2>2, <2>3, ElementOfSeq
  <2>5. w[j] = Carry(w[n + k], t[k + 1])
    BY <1>6, <2>2, <2>4 DEF UpTo
  <2>6. h[k + 1] = Carry(h[k], t[k + 1])
    BY <1>5, <2>3 DEF UpTo
  <2>7. PICK x \in Seq(Dgrams), y \in Seq(Dgrams), f \in F : x = g[n] /\ y = h[k] /\ f = t[k + 1]
    <3>1. g[n] \in Seq(Dgrams) /\ h[k] \in Seq(Dgrams)
      BY <2>3
    <3> QED
      BY <2>4, <3>1
  <2>8. Carry(x \o y, f) = x \o Carry(y, f)
    BY CarryBehind
  <2> QED
    BY <2>2, <2>3, <2>5, <2>6, <2>7, <2>8
<1>12. T = Nat
  <2> HIDE DEF T
  <2> QED
    BY <1>10, <1>11, NatSetInduction DEF T
<1>13. w[n + m] = g[n] \o h[m]
  <2>1. m \in T
    BY <1>12
  <2>2. P(m)
    BY <2>1
  <2> QED
    BY <2>2
<1> QED
  BY <1>2, <1>4, <1>5, <1>6, <1>13
-----------------------------------------------------------------------------
(* The queues of an interface, and how often a datagram is in them.         *)
Queues(m) ==
    /\ IsFiniteSet(DOMAIN m)
    /\ m = [ip \in DOMAIN m |-> m[ip]]
    /\ \A ip \in DOMAIN m : m[ip] \in Seq(Dgrams)

Counts(id, m) == [ip \in DOMAIN m |-> Copies(id, m[ip])]

Held(id, m) == SumFunctionOnSet(Counts(id, m), DOMAIN m)

(* Queues hold some number of copies, each of them its own.                 *)
LEMMA HeldType ==
    ASSUME NEW m, Queues(m), NEW id
    PROVE  /\ Held(id, m) \in Nat
           /\ \A ip \in DOMAIN m : Counts(id, m)[ip] \in Nat /\ Counts(id, m)[ip] = Copies(id, m[ip])
<1>1. ASSUME NEW ip \in DOMAIN m
      PROVE  Counts(id, m)[ip] \in Nat /\ Counts(id, m)[ip] = Copies(id, m[ip])
  <2>1. m[ip] \in Seq(Dgrams)
    BY DEF Queues
  <2>2. Copies(id, m[ip]) \in Nat
    BY <2>1, CopiesType
  <2> QED
    BY <2>2 DEF Counts
<1>2. Held(id, m) \in Nat
  <2>1. IsFiniteSet(DOMAIN m) /\ DOMAIN m \in SUBSET DOMAIN m
    BY DEF Queues
  <2>2. \A ip \in DOMAIN m : Counts(id, m)[ip] \in Nat
    BY <1>1
  <2> QED
    BY <2>1, <2>2, SumsOfNaturals DEF Held
<1> QED
  BY <1>1, <1>2

(* No queues hold nothing.                                                  *)
LEMMA HeldEmpty == ASSUME NEW id PROVE Held(id, <<>>) = 0 /\ Queues(<<>>)
<1>1. DOMAIN <<>> = {} /\ IsFiniteSet({})
  BY FS_EmptySet
<1>2. \A i \in {} : Counts(id, <<>>)[i] \in Int
  OBVIOUS
<1>3. SumFunctionOnSet(Counts(id, <<>>), {}) = 0
  BY <1>1, <1>2, SumType
<1> QED
  BY <1>1, <1>3 DEF Held, Queues

(* Erasing keys drops their queues and leaves the others.                   *)
LEMMA HeldErase ==
    ASSUME NEW m, Queues(m), NEW keys, NEW id
    PROVE  /\ Queues(Net!Erase(m, keys))
           /\ Held(id, Net!Erase(m, keys)) = SumFunctionOnSet(Counts(id, m), DOMAIN m \ keys)
           /\ Held(id, Net!Erase(m, keys)) \in Nat
           /\ Held(id, Net!Erase(m, keys)) <= Held(id, m)
<1> DEFINE J == DOMAIN m \ keys
           e == Net!Erase(m, keys)
<1>1. e = [ip \in J |-> m[ip]] /\ DOMAIN e = J
  BY DEF Net!Erase
<1>2. IsFiniteSet(DOMAIN m) /\ IsFiniteSet(J)
  BY FS_Subset DEF Queues
<1> HIDE DEF e
<1>3. Queues(e)
  BY <1>1, <1>2 DEF Queues
<1>4. \A ip \in J : Counts(id, e)[ip] = Counts(id, m)[ip] /\ Counts(id, m)[ip] \in Nat
  <2>1. \A ip \in DOMAIN m : Counts(id, m)[ip] \in Nat
    BY HeldType
  <2> QED
    BY <1>1, <2>1 DEF Counts
<1>5. Held(id, e) = SumFunctionOnSet(Counts(id, m), J)
  <2>1. \A ip \in J : Counts(id, m)[ip] \in Int /\ Counts(id, e)[ip] = Counts(id, m)[ip]
    BY <1>4
  <2>2. SumFunctionOnSet(Counts(id, e), J) = SumFunctionOnSet(Counts(id, m), J)
    BY <1>2, <2>1, SumsAgree
  <2> QED
    BY <1>1, <2>2 DEF Held
<1>6. Held(id, e) \in Nat /\ Held(id, e) <= Held(id, m)
  <2>1. \A ip \in DOMAIN m : Counts(id, m)[ip] \in Nat
    BY HeldType
  <2>2. J \in SUBSET DOMAIN m
    OBVIOUS
  <2>3. /\ SumFunctionOnSet(Counts(id, m), J) \in Nat
        /\ SumFunctionOnSet(Counts(id, m), J) <= SumFunctionOnSet(Counts(id, m), DOMAIN m)
    BY <1>2, <2>1, <2>2, SumsOfNaturals
  <2> QED
    BY <1>5, <2>3 DEF Held
<1> QED
  BY <1>3, <1>5, <1>6 DEF e

(* The queue under a key; none if there is no such key.                     *)
QueueOf(m, ip) == IF ip \in DOMAIN m THEN m[ip] ELSE <<>>

(* The copies under a key and those under the others add up.                *)
LEMMA HeldWithout ==
    ASSUME NEW m, Queues(m), NEW ip, NEW id
    PROVE  /\ QueueOf(m, ip) \in Seq(Dgrams)
           /\ Held(id, m) = Copies(id, QueueOf(m, ip)) + Held(id, Net!Erase(m, {ip}))
<1>1. Held(id, Net!Erase(m, {ip})) = SumFunctionOnSet(Counts(id, m), DOMAIN m \ {ip})
  BY HeldErase
<1>2. CASE ip \in DOMAIN m
  <2>1. \A k \in DOMAIN m : Counts(id, m)[k] \in Int
    BY HeldType
  <2>2. IsFiniteSet(DOMAIN m)
    BY DEF Queues
  <2>3. SumFunctionOnSet(Counts(id, m), DOMAIN m)
            = Counts(id, m)[ip] + SumFunctionOnSet(Counts(id, m), DOMAIN m \ {ip})
    BY <1>2, <2>1, <2>2, SumRemove
  <2>4. Counts(id, m)[ip] = Copies(id, m[ip])
    BY <1>2, HeldType
  <2>5. QueueOf(m, ip) = m[ip] /\ m[ip] \in Seq(Dgrams)
    BY <1>2 DEF QueueOf, Queues
  <2> QED
    BY <1>1, <2>3, <2>4, <2>5 DEF Held
<1>3. CASE ip \notin DOMAIN m
  <2>1. DOMAIN m \ {ip} = DOMAIN m
    BY <1>3
  <2>2. Copies(id, QueueOf(m, ip)) = 0 /\ QueueOf(m, ip) = <<>>
    BY <1>3, CopiesEmpty DEF QueueOf
  <2>3. Held(id, m) = Held(id, Net!Erase(m, {ip}))
    BY <1>1, <2>1 DEF Held
  <2>4. Held(id, m) \in Nat
    BY HeldType
  <2> QED
    BY <2>2, <2>3, <2>4
<1> QED
  BY <1>2, <1>3

(* A datagram put behind those that wait under the same key.                *)
LEMMA HeldPut ==
    ASSUME NEW m, Queues(m), NEW ip, NEW d \in Dgrams, NEW id
    PROVE  LET e == Net!Put(m, ip, Append(QueueOf(m, ip), d))
           IN  Queues(e) /\ Held(id, e) = Held(id, m) + One(id, d)
<1>1. PICK q \in Seq(Dgrams), w \in Seq(Dgrams) : q = QueueOf(m, ip) /\ w = Append(q, d)
  BY HeldWithout, AppendProperties
<1>2. PICK e : e = Net!Put(m, ip, w)
  OBVIOUS
<1>3. e = [k \in DOMAIN m \cup {ip} |-> IF k = ip THEN w ELSE m[k]] /\ DOMAIN e = DOMAIN m \cup {ip}
  BY <1>2 DEF Net!Put
<1>4. Queues(e)
  <2>1. IsFiniteSet(DOMAIN m \cup {ip})
    BY FS_AddElement DEF Queues
  <2>2. \A k \in DOMAIN e : e[k] \in Seq(Dgrams)
    BY <1>3 DEF Queues
  <2>3. e = [k \in DOMAIN e |-> e[k]]
    BY <1>3
  <2> QED
    BY <1>3, <2>1, <2>2, <2>3 DEF Queues
<1>5. Net!Erase(e, {ip}) = Net!Erase(m, {ip})
  <2>1. DOMAIN e \ {ip} = DOMAIN m \ {ip}
    BY <1>3
  <2>2. \A k \in DOMAIN m \ {ip} : e[k] = m[k]
    BY <1>3
  <2> QED
    BY <2>1, <2>2 DEF Net!Erase
<1>6. QueueOf(e, ip) = w
  BY <1>3 DEF QueueOf
<1>7. Held(id, e) = Copies(id, w) + Held(id, Net!Erase(m, {ip}))
  BY <1>4, <1>5, <1>6, HeldWithout
<1>8. Held(id, m) = Copies(id, q) + Held(id, Net!Erase(m, {ip}))
  BY <1>1, HeldWithout
<1>9. Copies(id, w) = Copies(id, q) + One(id, d) /\ Copies(id, q) \in Nat
  BY <1>1, CopiesAppend, CopiesType
<1>10. Held(id, Net!Erase(m, {ip})) \in Nat /\ One(id, d) \in Nat
  BY HeldErase DEF One
<1>11. Held(id, e) = Held(id, m) + One(id, d)
  <2>1. PICK a \in Nat, b \in Nat, c \in Nat :
            a = Copies(id, q) /\ b = One(id, d) /\ c = Held(id, Net!Erase(m, {ip}))
    BY <1>9, <1>10
  <2> QED
    BY <1>7, <1>8, <1>9, <2>1
<1> QED
  BY <1>1, <1>2, <1>4, <1>11
-----------------------------------------------------------------------------
(* Frames, and how often they carry a datagram.                             *)
IsFrames(s) == \E F : s \in Seq(F) /\ Carrying(F)

Carried(id, s) == Copies(id, Net!Datagrams(s))

(* What frames carry, and how often.                                        *)
LEMMA FramesType ==
    ASSUME NEW s, IsFrames(s), NEW id
    PROVE  Net!Datagrams(s) \in Seq(Dgrams) /\ Carried(id, s) \in Nat
<1>1. PICK F : s \in Seq(F) /\ Carrying(F)
  BY DEF IsFrames
<1>2. Net!Datagrams(s) \in Seq(Dgrams)
  BY <1>1, CarriedType
<1> QED
  BY <1>2, CopiesType DEF Carried

(* The copies in two sequences of frames add up.                            *)
LEMMA FramesConcat ==
    ASSUME NEW s, IsFrames(s), NEW t, IsFrames(t), NEW id
    PROVE  /\ IsFrames(s \o t)
           /\ Carried(id, s \o t) = Carried(id, s) + Carried(id, t)
<1>1. PICK F : s \in Seq(F) /\ Carrying(F)
  BY DEF IsFrames
<1>2. PICK G : t \in Seq(G) /\ Carrying(G)
  BY DEF IsFrames
<1>3. PICK H : H = F \cup G
  OBVIOUS
<1>4. s \in Seq(H) /\ t \in Seq(H)
  BY <1>1, <1>2, <1>3, SeqMonotonic
<1>5. Carrying(H)
  BY <1>1, <1>2, <1>3 DEF Carrying
<1>6. s \o t \in Seq(H)
  BY <1>4, ConcatProperties
<1>7. Net!Datagrams(s \o t) = Net!Datagrams(s) \o Net!Datagrams(t)
  BY <1>4, <1>5, CarriedConcat
<1>8. PICK x \in Seq(Dgrams), y \in Seq(Dgrams) : x = Net!Datagrams(s) /\ y = Net!Datagrams(t)
  BY FramesType
<1>9. Copies(id, x \o y) = Copies(id, x) + Copies(id, y)
  BY CopiesConcat
<1> QED
  BY <1>5, <1>6, <1>7, <1>8, <1>9 DEF IsFrames, Carried

(* One frame carries its datagram, if it has one.                           *)
LEMMA FramesOne ==
    ASSUME NEW f, Carrying({f}), NEW id
    PROVE  /\ IsFrames(<<f>>)
           /\ Carried(id, <<f>>) = IF f.type = "IPv4" THEN One(id, f.payload) ELSE 0
<1>1. <<f>> \in Seq({f})
  OBVIOUS
<1>2. Net!Datagrams(<<f>>) = IF f.type = "IPv4" THEN <<f.payload>> ELSE <<>>
  BY CarriedByOne
<1>3. CASE f.type = "IPv4"
  <2>1. PICK d \in Dgrams : d = f.payload
    BY <1>3 DEF Carrying
  <2>2. Append(<<>>, d) = <<d>> /\ <<>> \in Seq(Dgrams)
    OBVIOUS
  <2>3. Copies(id, <<d>>) = Copies(id, <<>>) + One(id, d)
    BY <2>2, CopiesAppend
  <2>4. Copies(id, <<d>>) = One(id, d)
    BY <2>3, CopiesEmpty DEF One
  <2> QED
    BY <1>1, <1>2, <1>3, <2>1, <2>4 DEF IsFrames, Carried
<1>4. CASE f.type # "IPv4"
  BY <1>1, <1>2, <1>4, CopiesEmpty DEF IsFrames, Carried
<1> QED
  BY <1>3, <1>4

(* No frame, no copy.                                                       *)
LEMMA NoFrame == ASSUME NEW id PROVE IsFrames(<<>>) /\ Carried(id, <<>>) = 0
<1>1. PICK f : f = [type |-> "ARP"]
  OBVIOUS
<1>2. Carrying({f})
  BY <1>1 DEF Carrying
<1>3. Net!Datagrams(<<>>) = <<>>
  BY <1>2, CarriedByOne
<1>4. <<>> \in Seq({f})
  OBVIOUS
<1> QED
  BY <1>2, <1>3, <1>4, CopiesEmpty DEF IsFrames, Carried

(* The first frame and the others.                                          *)
LEMMA FramesBehindFirst ==
    ASSUME NEW s, IsFrames(s), s # <<>>, NEW id
    PROVE  /\ Carrying({Head(s)}) /\ IsFrames(<<Head(s)>>) /\ IsFrames(Tail(s))
           /\ Carried(id, s) = Carried(id, <<Head(s)>>) + Carried(id, Tail(s))
<1>1. PICK F : s \in Seq(F) /\ Carrying(F)
  BY DEF IsFrames
<1>2. Head(s) \in F /\ Tail(s) \in Seq(F)
  BY <1>1, HeadTailProperties
<1>3. Carrying({Head(s)})
  BY <1>1, <1>2 DEF Carrying
<1>4. IsFrames(<<Head(s)>>) /\ IsFrames(Tail(s))
  BY <1>1, <1>2, <1>3, FramesOne DEF IsFrames
<1>5. s = <<Head(s)>> \o Tail(s)
  <2>1. PICK n \in Nat : n = Len(s) /\ n > 0
    BY <1>1, EmptySeq, LenProperties
  <2>2. PICK t \in Seq(F) : t = Tail(s) /\ Len(t) = n - 1 /\ \A k \in 1 .. n - 1 : t[k] = s[k + 1]
    BY <1>1, <1>2, <2>1, HeadTailProperties
  <2>3. PICK h \in Seq(F) : h = <<Head(s)>> /\ Len(h) = 1 /\ h[1] = s[1]
    <3>1. PICK f \in F : f = Head(s) /\ f = s[1]
      BY <1>1, <1>2, HeadTailProperties
    <3>2. <<f>> \in Seq(F)
      OBVIOUS
    <3>3. Len(<<f>>) = 1 /\ <<f>>[1] = f
      OBVIOUS
    <3> QED
      BY <3>1, <3>2, <3>3
  <2>4. PICK u \in Seq(F) : u = h \o t
    BY ConcatProperties
  <2>5. Len(u) = n
    BY <2>2, <2>3, <2>4, ConcatProperties
  <2>6. \A k \in 1 .. n : u[k] = IF k <= 1 THEN h[k] ELSE t[k - 1]
    BY <2>2, <2>3, <2>4, <2>5, ConcatProperties
  <2>7. \A k \in 1 .. n : u[k] = s[k]
    <3> TAKE k \in 1 .. n
    <3>1. CASE k = 1
      BY <2>3, <2>6, <3>1
    <3>2. CASE k # 1
      <4>1. k - 1 \in 1 .. n - 1 /\ (k - 1) + 1 = k /\ ~(k <= 1)
        BY <3>2
      <4> QED
        BY <2>2, <2>6, <4>1
    <3> QED
      BY <3>1, <3>2
  <2>8. u = s
    BY <1>1, <2>1, <2>5, <2>7, SeqEqual
  <2> QED
    BY <2>2, <2>3, <2>4, <2>8
<1>6. Carried(id, <<Head(s)>> \o Tail(s)) = Carried(id, <<Head(s)>>) + Carried(id, Tail(s))
  BY <1>4, FramesConcat
<1> QED
  BY <1>3, <1>4, <1>5, <1>6

(* The frames that a queue is emptied by carry what was in it.              *)
LEMMA FramesOfQueue ==
    ASSUME NEW w \in Seq(Dgrams), NEW a, NEW b, NEW id
    PROVE  LET s == [k \in DOMAIN w |-> Net!IPv4Frame(a, b, w[k])]
           IN  IsFrames(s) /\ Carried(id, s) = Copies(id, w)
<1>1. PICK F : F = {Net!IPv4Frame(a, b, d) : d \in Dgrams}
  OBVIOUS
<1>2. Carrying(F)
  BY <1>1 DEF Carrying, Net!IPv4Frame
<1>3. PICK n \in Nat : n = Len(w) /\ DOMAIN w = 1 .. n
  BY LenProperties
<1>4. \A k \in 1 .. n : w[k] \in Dgrams
  BY <1>3, ElementOfSeq
<1>5. PICK s : s = [k \in 1 .. n |-> Net!IPv4Frame(a, b, w[k])]
  OBVIOUS
<1>6. s \in Seq(F) /\ n = Len(s)
  <2>1. s \in [1 .. n -> F]
    BY <1>1, <1>4, <1>5
  <2>2. s \in Seq(F)
    BY <2>1, IsASeq
  <2> QED
    BY <1>5, <2>2, LenProperties
<1>7. PICK g \in [0 .. n -> Seq(Dgrams)] : UpTo(g, s, n) /\ Net!Datagrams(s) = g[n]
  BY <1>2, <1>6, CarriedExists
<1>8. \A k \in 1 .. n : g[k] = Append(g[k - 1], w[k])
  <2> TAKE k \in 1 .. n
  <2>1. s[k].type = "IPv4" /\ s[k].payload = w[k]
    BY <1>5 DEF Net!IPv4Frame
  <2> QED
    BY <1>7, <2>1 DEF UpTo, Carry
<1> DEFINE P(k) == k <= n => Len(g[k]) = k /\ \A j \in 1 .. k : g[k][j] = w[j]
           T == {k \in Nat : P(k)}
<1>9. 0 \in T
  <2>1. P(0)
    BY <1>7 DEF UpTo
  <2> HIDE DEF P
  <2> QED
    BY <2>1
<1>10. ASSUME NEW k \in T
       PROVE  k + 1 \in T
  <2>1. k \in Nat /\ k + 1 \in Nat /\ P(k)
    OBVIOUS
  <2> SUFFICES ASSUME k + 1 <= n
               PROVE  Len(g[k + 1]) = k + 1 /\ \A j \in 1 .. k + 1 : g[k + 1][j] = w[j]
    <3>1. P(k + 1) => k + 1 \in T
      <4> HIDE DEF P
      <4> QED
        BY <2>1
    <3> QED
      BY <3>1
  <2>2. PICK x \in Seq(Dgrams) : x = g[k] /\ Len(x) = k /\ \A j \in 1 .. k : x[j] = w[j]
    OBVIOUS
  <2>3. k + 1 \in 1 .. n /\ (k + 1) - 1 = k
    OBVIOUS
  <2>4. PICK d \in Dgrams : d = w[k + 1]
    BY <1>4, <2>3
  <2>5. g[k + 1] = Append(x, d)
    BY <1>8, <2>2, <2>3, <2>4
  <2>6. Len(Append(x, d)) = k + 1 /\ Append(x, d)[k + 1] = d /\ \A j \in 1 .. k : Append(x, d)[j] = x[j]
    BY <2>2, AppendProperties
  <2>7. \A j \in 1 .. k + 1 : j = k + 1 \/ j \in 1 .. k
    OBVIOUS
  <2> QED
    BY <2>2, <2>4, <2>5, <2>6, <2>7
<1>11. T = Nat
  <2> HIDE DEF T
  <2> QED
    BY <1>9, <1>10, NatSetInduction DEF T
<1>12. P(n)
  <2>1. n \in T
    BY <1>11
  <2> HIDE DEF P
  <2> QED
    BY <2>1
<1>13. g[n] = w
  <2>1. g[n] \in Seq(Dgrams) /\ Len(g[n]) = n /\ \A j \in 1 .. n : g[n][j] = w[j]
    BY <1>7, <1>12
  <2> QED
    BY <1>3, <2>1, SeqEqual
<1> QED
  BY <1>2, <1>3, <1>5, <1>6, <1>7, <1>13 DEF IsFrames, Carried
-----------------------------------------------------------------------------
(* An interface, and how often a datagram is in its queues.                 *)
IsInterface(i) ==
    /\ i = [ethernet_address |-> i.ethernet_address, ip_address |-> i.ip_address,
            arp_table |-> i.arp_table, pending_datagrams |-> i.pending_datagrams,
            pending_arp_requests |-> i.pending_arp_requests,
            datagrams_received |-> i.datagrams_received]
    /\ Queues(i.pending_datagrams)
    /\ i.datagrams_received \in Seq(Dgrams)

Weight(id, i) == Held(id, i.pending_datagrams) + Copies(id, i.datagrams_received)

(* The copies in an interface are some number.                              *)
LEMMA WeightType ==
    ASSUME NEW i, IsInterface(i), NEW id
    PROVE  /\ Held(id, i.pending_datagrams) \in Nat
           /\ Copies(id, i.datagrams_received) \in Nat
           /\ Weight(id, i) \in Nat
<1>1. Held(id, i.pending_datagrams) \in Nat
  BY HeldType DEF IsInterface
<1>2. Copies(id, i.datagrams_received) \in Nat
  BY CopiesType DEF IsInterface
<1> QED
  BY <1>1, <1>2 DEF Weight

(* A new interface holds nothing.                                           *)
LEMMA NewInterfaceIs ==
    ASSUME NEW a, NEW b, NEW id
    PROVE  LET i == Net!NewInterface(a, b)
           IN  IsInterface(i) /\ Weight(id, i) = 0 /\ i.datagrams_received = <<>>
<1>1. PICK i : i = Net!NewInterface(a, b)
  OBVIOUS
<1>2. i.pending_datagrams = <<>> /\ i.datagrams_received = <<>>
  BY <1>1 DEF Net!NewInterface
<1>3. IsInterface(i)
  <2>1. <<>> \in Seq(Dgrams)
    OBVIOUS
  <2> QED
    BY <1>1, <1>2, <2>1, HeldEmpty DEF IsInterface, Net!NewInterface
<1>4. Weight(id, i) = 0
  BY <1>2, HeldEmpty, CopiesEmpty DEF Weight
<1> QED
  BY <1>1, <1>2, <1>3, <1>4

(* What a call makes of an interface: it and its frames hold together no    *)
(* more copies than the interface did, but for n.                           *)
Conserved(id, i, result, n) ==
    /\ IsInterface(result.interface)
    /\ IsFrames(result.frames)
    /\ Weight(id, result.interface) + Carried(id, result.frames) <= Weight(id, i) + n

(* send_datagram transmits the datagram or keeps it, not both.              *)
LEMMA SendConserves ==
    ASSUME NEW i, IsInterface(i), NEW d \in Dgrams, NEW hop, NEW id
    PROVE  LET result == Net!SendDatagram(i, d, hop)
           IN  /\ Conserved(id, i, result, One(id, d))
               /\ result.interface.datagrams_received = i.datagrams_received
<1>1. PICK h \in Nat, c \in Nat, o \in Nat :
          h = Held(id, i.pending_datagrams) /\ c = Copies(id, i.datagrams_received) /\ o = One(id, d)
  <2>1. One(id, d) \in Nat
    BY DEF One
  <2> QED
    BY <2>1, WeightType
<1>2. PICK w : w = Net!Put(i.pending_datagrams, hop, Append(QueueOf(i.pending_datagrams, hop), d))
  OBVIOUS
<1>3. Queues(w) /\ Held(id, w) = h + o
  BY <1>1, <1>2, HeldPut DEF IsInterface
<1>4. PICK waiting : waiting = [i EXCEPT !.pending_datagrams =
                        Net!Put(@, hop, Append(Net!Queued(i, hop), d))]
  OBVIOUS
<1>5. waiting = [i EXCEPT !.pending_datagrams = w]
  BY <1>2, <1>4 DEF Net!Queued, QueueOf
<1>6. /\ IsInterface(waiting) /\ waiting.pending_datagrams = w
      /\ waiting.datagrams_received = i.datagrams_received
  BY <1>3, <1>5 DEF IsInterface
<1>7. Weight(id, waiting) = (h + o) + c
  BY <1>1, <1>3, <1>6 DEF Weight
<1>8. Weight(id, i) = h + c
  BY <1>1 DEF Weight
<1>9. CASE hop \in DOMAIN i.arp_table
  <2>1. PICK f : f = Net!IPv4Frame(i.ethernet_address, i.arp_table[hop].ethernet_addr, d)
    OBVIOUS
  <2>2. Carrying({f}) /\ f.type = "IPv4" /\ f.payload = d
    BY <2>1 DEF Carrying, Net!IPv4Frame
  <2>3. IsFrames(<<f>>) /\ Carried(id, <<f>>) = o
    BY <1>1, <2>2, FramesOne
  <2>4. PICK result : result = Net!SendDatagram(i, d, hop)
    OBVIOUS
  <2>5. result.interface = i /\ result.frames = <<f>>
    BY <1>9, <2>1, <2>4 DEF Net!SendDatagram, Net!InterfaceResult
  <2>6. (h + c) + o <= (h + c) + o
    OBVIOUS
  <2> QED
    BY <1>1, <1>8, <2>3, <2>4, <2>5, <2>6 DEF Conserved
<1>10. CASE hop \notin DOMAIN i.arp_table /\ Net!MustAsk(i, hop)
  <2>1. PICK f : f = Net!ARPRequest(i, hop)
    OBVIOUS
  <2>2. Carrying({f}) /\ f.type = "ARP"
    BY <2>1 DEF Carrying, Net!ARPRequest, Net!ARPFrame
  <2>3. IsFrames(<<f>>) /\ Carried(id, <<f>>) = 0
    BY <2>2, FramesOne
  <2>4. PICK asking : asking = [waiting EXCEPT !.pending_arp_requests = Net!Put(@, hop, 0)]
    OBVIOUS
  <2>5. /\ IsInterface(asking) /\ asking.pending_datagrams = w
        /\ asking.datagrams_received = i.datagrams_received
    BY <1>6, <2>4 DEF IsInterface
  <2>6. Weight(id, asking) = (h + o) + c
    BY <1>1, <1>3, <2>5 DEF Weight
  <2>7. PICK result : result = Net!SendDatagram(i, d, hop)
    OBVIOUS
  <2>8. result.interface = asking /\ result.frames = <<f>>
    BY <1>4, <1>10, <2>1, <2>4, <2>7 DEF Net!SendDatagram, Net!InterfaceResult
  <2>9. ((h + o) + c) + 0 <= (h + c) + o
    OBVIOUS
  <2> QED
    BY <1>1, <1>8, <2>3, <2>5, <2>6, <2>7, <2>8, <2>9 DEF Conserved
<1>11. CASE hop \notin DOMAIN i.arp_table /\ ~Net!MustAsk(i, hop)
  <2>1. PICK result : result = Net!SendDatagram(i, d, hop)
    OBVIOUS
  <2>2. result.interface = waiting /\ result.frames = <<>>
    BY <1>4, <1>11, <2>1 DEF Net!SendDatagram, Net!InterfaceResult
  <2>3. ((h + o) + c) + 0 <= (h + c) + o
    OBVIOUS
  <2> QED
    BY <1>1, <1>6, <1>7, <1>8, <2>1, <2>2, <2>3, NoFrame DEF Conserved
<1> QED
  BY <1>9, <1>10, <1>11

(* A reply takes from the queue what it makes the interface transmit.       *)
LEMMA ReceiveARPConserves ==
    ASSUME NEW i, IsInterface(i), NEW arp, NEW id
    PROVE  Conserved(id, i, Net!RecvARP(i, arp), 0)
<1>1. PICK h \in Nat, c \in Nat : h = Held(id, i.pending_datagrams) /\ c = Copies(id, i.datagrams_received)
  BY WeightType
<1>2. Weight(id, i) = h + c
  BY <1>1 DEF Weight
<1>3. PICK learnt : learnt = Net!Learn(i, arp)
  OBVIOUS
<1>4. /\ IsInterface(learnt) /\ learnt.pending_datagrams = i.pending_datagrams
      /\ learnt.datagrams_received = i.datagrams_received
      /\ learnt.ethernet_address = i.ethernet_address
  BY <1>3 DEF IsInterface, Net!Learn
<1>5. Weight(id, learnt) = h + c
  BY <1>1, <1>4 DEF Weight
<1>6. PICK ip : ip = arp.sender_ip_address
  OBVIOUS
<1>7. CASE arp.opcode = "request" /\ arp.target_ip_address = i.ip_address
  <2>1. PICK f : f = Net!ARPReply(i, arp)
    OBVIOUS
  <2>2. Carrying({f}) /\ f.type = "ARP"
    BY <2>1 DEF Carrying, Net!ARPReply, Net!ARPFrame
  <2>3. IsFrames(<<f>>) /\ Carried(id, <<f>>) = 0
    BY <2>2, FramesOne
  <2>4. PICK result : result = Net!RecvARP(i, arp)
    OBVIOUS
  <2>5. result.interface = learnt /\ result.frames = <<f>>
    BY <1>3, <1>7, <2>1, <2>4 DEF Net!RecvARP, Net!InterfaceResult
  <2>6. (h + c) + 0 <= (h + c) + 0
    OBVIOUS
  <2> QED
    BY <1>2, <1>4, <1>5, <2>3, <2>4, <2>5, <2>6 DEF Conserved
<1>8. CASE ~(arp.opcode = "request" /\ arp.target_ip_address = i.ip_address) /\ arp.opcode = "reply"
  <2>1. PICK m, e : m = i.pending_datagrams /\ e = Net!Erase(m, {ip}) /\ Queues(m)
    BY DEF IsInterface
  <2>2. PICK q \in Seq(Dgrams) : q = QueueOf(m, ip) /\ Held(id, m) = Copies(id, q) + Held(id, e)
    BY <2>1, HeldWithout
  <2>3. Queues(e) /\ Held(id, e) \in Nat /\ Copies(id, q) \in Nat
    BY <2>1, <2>2, HeldErase, CopiesType
  <2>4. PICK j : j = Net!Answered(learnt, ip)
    OBVIOUS
  <2>5. IsInterface(j) /\ j.pending_datagrams = e /\ j.datagrams_received = i.datagrams_received
    BY <1>4, <2>1, <2>3, <2>4 DEF IsInterface, Net!Answered
  <2>6. PICK s : s = [k \in DOMAIN q |-> Net!IPv4Frame(i.ethernet_address, arp.sender_ethernet_address, q[k])]
    OBVIOUS
  <2>7. IsFrames(s) /\ Carried(id, s) = Copies(id, q)
    BY <2>6, FramesOfQueue
  <2>8. Net!Flush(i, arp) = s
    BY <1>4, <1>6, <2>1, <2>2, <2>6 DEF Net!Flush, Net!Queued, QueueOf
  <2>9. PICK result : result = Net!RecvARP(i, arp)
    OBVIOUS
  <2>10. Net!RecvARP(i, arp) = Net!InterfaceResult(Net!Answered(learnt, ip), Net!Flush(i, arp))
    BY <1>3, <1>6, <1>8 DEF Net!RecvARP
  <2>11. result.interface = j /\ result.frames = s
    BY <2>4, <2>8, <2>9, <2>10 DEF Net!InterfaceResult
  <2>12. PICK a \in Nat, b \in Nat : a = Copies(id, q) /\ b = Held(id, e)
    BY <2>3
  <2>13. Weight(id, j) = b + c
    BY <1>1, <2>5, <2>12 DEF Weight
  <2>14. h = a + b
    BY <1>1, <2>1, <2>2, <2>12
  <2>15. (b + c) + a <= (h + c) + 0
    BY <2>14
  <2> QED
    BY <1>2, <2>5, <2>7, <2>9, <2>11, <2>12, <2>13, <2>15 DEF Conserved
<1>9. CASE ~(arp.opcode = "request" /\ arp.target_ip_address = i.ip_address) /\ arp.opcode # "reply"
  <2>1. PICK result : result = Net!RecvARP(i, arp)
    OBVIOUS
  <2>2. result.interface = learnt /\ result.frames = <<>>
    BY <1>3, <1>9, <2>1 DEF Net!RecvARP, Net!InterfaceResult
  <2>3. (h + c) + 0 <= (h + c) + 0
    OBVIOUS
  <2> QED
    BY <1>2, <1>4, <1>5, <2>1, <2>2, <2>3, NoFrame DEF Conserved
<1> QED
  BY <1>7, <1>8, <1>9

(* recv_frame keeps the datagram of the frame or drops it.                  *)
LEMMA ReceiveConserves ==
    ASSUME NEW i, IsInterface(i), NEW f, Carrying({f}), NEW id
    PROVE  Conserved(id, i, Net!RecvFrame(i, f), Carried(id, <<f>>))
<1>1. PICK h \in Nat, c \in Nat, o \in Nat :
          h = Held(id, i.pending_datagrams) /\ c = Copies(id, i.datagrams_received) /\ o = Carried(id, <<f>>)
  <2>1. Carried(id, <<f>>) \in Nat
    BY FramesOne, FramesType
  <2> QED
    BY <2>1, WeightType
<1>2. Weight(id, i) = h + c
  BY <1>1 DEF Weight
<1>3. CASE f.dst \notin {i.ethernet_address, Broadcast}
  <2>1. PICK result : result = Net!RecvFrame(i, f)
    OBVIOUS
  <2>2. result.interface = i /\ result.frames = <<>>
    BY <1>3, <2>1 DEF Net!RecvFrame, Net!InterfaceResult
  <2>3. (h + c) + 0 <= (h + c) + o
    OBVIOUS
  <2> QED
    BY <1>1, <1>2, <2>1, <2>2, <2>3, NoFrame DEF Conserved
<1>4. CASE f.dst \in {i.ethernet_address, Broadcast} /\ f.type = "ARP"
  <2>1. PICK result : result = Net!RecvFrame(i, f) /\ result = Net!RecvARP(i, f.payload)
    BY <1>4 DEF Net!RecvFrame
  <2>2. Conserved(id, i, result, 0)
    BY <2>1, ReceiveARPConserves
  <2>3. PICK a \in Nat, b \in Nat : a = Weight(id, result.interface) /\ b = Carried(id, result.frames)
    BY <2>2, WeightType, FramesType DEF Conserved
  <2>4. a + b <= (h + c) + 0
    BY <1>2, <2>2, <2>3 DEF Conserved
  <2>5. a + b <= (h + c) + o
    BY <2>4
  <2> QED
    BY <1>1, <1>2, <2>1, <2>2, <2>3, <2>5 DEF Conserved
<1>5. CASE f.dst \in {i.ethernet_address, Broadcast} /\ f.type # "ARP"
  <2>1. PICK d \in Dgrams : f.type = "IPv4" /\ d = f.payload
    BY <1>5 DEF Carrying
  <2>2. PICK j : j = [i EXCEPT !.datagrams_received = Append(@, d)]
    OBVIOUS
  <2>3. Append(i.datagrams_received, d) \in Seq(Dgrams)
    BY AppendProperties DEF IsInterface
  <2>4. /\ IsInterface(j) /\ j.pending_datagrams = i.pending_datagrams
        /\ j.datagrams_received = Append(i.datagrams_received, d)
    BY <2>2, <2>3 DEF IsInterface
  <2>5. Carried(id, <<f>>) = One(id, d)
    BY <2>1, FramesOne
  <2>6. Copies(id, j.datagrams_received) = c + o
    <3>1. Copies(id, Append(i.datagrams_received, d)) = Copies(id, i.datagrams_received) + One(id, d)
      BY CopiesAppend DEF IsInterface
    <3> QED
      BY <1>1, <2>4, <2>5, <3>1
  <2>7. Weight(id, j) = h + (c + o)
    BY <1>1, <2>4, <2>6 DEF Weight
  <2>8. PICK result : result = Net!RecvFrame(i, f)
    OBVIOUS
  <2>9. result.interface = j /\ result.frames = <<>>
    BY <1>5, <2>1, <2>2, <2>8 DEF Net!RecvFrame, Net!InterfaceResult
  <2>10. (h + (c + o)) + 0 <= (h + c) + o
    OBVIOUS
  <2> QED
    BY <1>1, <1>2, <2>4, <2>7, <2>8, <2>9, <2>10, NoFrame DEF Conserved
<1> QED
  BY <1>3, <1>4, <1>5

(* A tick drops datagrams and makes none.                                   *)
LEMMA TickConserves ==
    ASSUME NEW i, IsInterface(i), NEW ms, NEW id
    PROVE  LET j == Net!InterfaceTick(i, ms)
           IN  /\ IsInterface(j) /\ j.datagrams_received = i.datagrams_received
               /\ Weight(id, j) <= Weight(id, i)
<1>1. PICK h \in Nat, c \in Nat : h = Held(id, i.pending_datagrams) /\ c = Copies(id, i.datagrams_received)
  BY WeightType
<1>2. PICK m, e : m = i.pending_datagrams /\ e = Net!Erase(m, Net!Dropped(i, ms)) /\ Queues(m)
  BY DEF IsInterface
<1>3. Queues(e) /\ Held(id, e) \in Nat /\ Held(id, e) <= h
  BY <1>1, <1>2, HeldErase
<1>4. PICK j : j = Net!InterfaceTick(i, ms)
  OBVIOUS
<1>5. PICK t, r : j = [i EXCEPT !.arp_table = t, !.pending_arp_requests = r, !.pending_datagrams = e]
  BY <1>2, <1>4 DEF Net!InterfaceTick
<1>6. IsInterface(j) /\ j.pending_datagrams = e /\ j.datagrams_received = i.datagrams_received
  BY <1>3, <1>5 DEF IsInterface
<1>7. PICK a \in Nat : a = Held(id, e) /\ a <= h
  BY <1>3
<1>8. Weight(id, j) = a + c /\ Weight(id, i) = h + c
  BY <1>1, <1>6, <1>7 DEF Weight
<1>9. a + c <= h + c
  BY <1>7
<1> QED
  BY <1>4, <1>6, <1>8, <1>9
-----------------------------------------------------------------------------
(* A router with two interfaces, and how often a datagram is in it.         *)
IsRouter(r) ==
    /\ r = [interfaces |-> r.interfaces, routing_table |-> r.routing_table]
    /\ DOMAIN r.interfaces = 1 .. 2
    /\ r.interfaces = [n \in 1 .. 2 |-> r.interfaces[n]]
    /\ IsInterface(r.interfaces[1]) /\ IsInterface(r.interfaces[2])

Load(id, r) == Weight(id, r.interfaces[1]) + Weight(id, r.interfaces[2])

(* What two interfaces have received, the one behind the other.             *)
LEMMA ReceivedOfTwo ==
    ASSUME NEW r, IsRouter(r)
    PROVE  /\ Net!ReceivedDatagrams(r)
                  = r.interfaces[1].datagrams_received \o r.interfaces[2].datagrams_received
           /\ Net!ReceivedDatagrams(r) \in Seq(Dgrams)
<1>1. PICK a \in Seq(Dgrams), b \in Seq(Dgrams) :
          a = r.interfaces[1].datagrams_received /\ b = r.interfaces[2].datagrams_received
  BY DEF IsRouter, IsInterface
<1>2. Len(r.interfaces) = 2
  BY LenProperties DEF IsRouter
<1> DEFINE IsSo(g) == g = [n \in 0 .. Len(r.interfaces) |->
                 IF n = 0 THEN <<>> ELSE g[n - 1] \o r.interfaces[n].datagrams_received]
<1> DEFINE h == [n \in 0 .. 2 |-> IF n = 0 THEN <<>> ELSE IF n = 1 THEN <<>> \o a ELSE (<<>> \o a) \o b]
<1>3. IsSo(h)
  <2>1. ASSUME NEW n \in 0 .. 2
        PROVE  h[n] = IF n = 0 THEN <<>> ELSE h[n - 1] \o r.interfaces[n].datagrams_received
    <3>1. CASE n = 0
      BY <3>1
    <3>2. CASE n = 1
      BY <1>1, <3>2
    <3>3. CASE n = 2
      <4>1. h[1] = <<>> \o a /\ h[2] = (<<>> \o a) \o b
        OBVIOUS
      <4>2. n - 1 = 1 /\ ~(n = 0)
        BY <3>3
      <4> HIDE DEF h
      <4> QED
        BY <1>1, <3>3, <4>1, <4>2
    <3> QED
      BY <3>1, <3>2, <3>3
  <2> QED
    BY <1>2, <2>1
<1> DEFINE g == CHOOSE g : IsSo(g)
<1>4. IsSo(g)
  BY <1>3
<1>5. Net!ReceivedDatagrams(r) = g[2]
  BY <1>2 DEF Net!ReceivedDatagrams
<1> HIDE DEF g
<1>6. g[0] = <<>> /\ g[1] = g[0] \o a /\ g[2] = g[1] \o b
  <2>1. \A n \in 0 .. 2 : g[n] = IF n = 0 THEN <<>> ELSE g[n - 1] \o r.interfaces[n].datagrams_received
    BY <1>2, <1>4
  <2>2. 0 \in 0 .. 2 /\ 1 \in 0 .. 2 /\ 2 \in 0 .. 2 /\ 0 = 1 - 1 /\ 1 = 2 - 1 /\ 1 # 0 /\ 2 # 0
    OBVIOUS
  <2>3. ASSUME NEW n \in 0 .. 2, NEW m, m = n - 1, n # 0, NEW z, z = r.interfaces[n].datagrams_received
        PROVE  g[n] = g[m] \o z
    BY <2>1, <2>3
  <2>4. g[1] = g[0] \o a
    BY <1>1, <2>2, <2>3, Zenon
  <2>5. g[2] = g[1] \o b
    BY <1>1, <2>2, <2>3, Zenon
  <2> QED
    BY <2>1, <2>2, <2>4, <2>5
<1>7. <<>> \o a = a
  BY ConcatEmptySeq
<1>8. a \o b \in Seq(Dgrams)
  BY ConcatProperties
<1> QED
  BY <1>1, <1>5, <1>6, <1>7, <1>8

(* The copies in a router: what it has received and what waits.             *)
LEMMA LoadType ==
    ASSUME NEW r, IsRouter(r), NEW id
    PROVE  /\ Weight(id, r.interfaces[1]) \in Nat /\ Weight(id, r.interfaces[2]) \in Nat
           /\ Load(id, r) \in Nat
           /\ Load(id, r) = Copies(id, Net!ReceivedDatagrams(r))
                                + Held(id, r.interfaces[1].pending_datagrams)
                                + Held(id, r.interfaces[2].pending_datagrams)
<1>1. PICK i, j : i = r.interfaces[1] /\ j = r.interfaces[2] /\ IsInterface(i) /\ IsInterface(j)
  BY DEF IsRouter
<1>2. PICK a \in Seq(Dgrams), b \in Seq(Dgrams) : a = i.datagrams_received /\ b = j.datagrams_received
  BY <1>1 DEF IsInterface
<1>3. Copies(id, a \o b) = Copies(id, a) + Copies(id, b)
  BY CopiesConcat
<1>4. PICK x \in Nat, y \in Nat : x = Copies(id, a) /\ y = Copies(id, b)
  BY CopiesType
<1>5. PICK v \in Nat, w \in Nat : v = Held(id, i.pending_datagrams) /\ w = Held(id, j.pending_datagrams)
  BY <1>1, WeightType
<1>6. Weight(id, i) = v + x /\ Weight(id, j) = w + y
  BY <1>2, <1>4, <1>5 DEF Weight
<1>7. Load(id, r) = (v + x) + (w + y)
  BY <1>1, <1>6 DEF Load
<1>8. Net!ReceivedDatagrams(r) = a \o b
  BY <1>1, <1>2, ReceivedOfTwo
<1>9. (v + x) + (w + y) = (x + y) + v + w /\ v + x \in Nat /\ w + y \in Nat /\ (v + x) + (w + y) \in Nat
  OBVIOUS
<1> QED
  BY <1>1, <1>3, <1>4, <1>5, <1>6, <1>7, <1>8, <1>9

(* An interface of a router replaced by another.                            *)
LEMMA WithInterface ==
    ASSUME NEW r, IsRouter(r), NEW n \in 1 .. 2, NEW i, IsInterface(i), NEW id
    PROVE  LET q == [r EXCEPT !.interfaces[n] = i]
           IN  /\ IsRouter(q)
               /\ Load(id, q) + Weight(id, r.interfaces[n]) = Load(id, r) + Weight(id, i)
<1>1. PICK q : q = [r EXCEPT !.interfaces[n] = i]
  OBVIOUS
<1>2. /\ q.interfaces = [r.interfaces EXCEPT ![n] = i]
      /\ q = [interfaces |-> q.interfaces, routing_table |-> q.routing_table]
  BY <1>1 DEF IsRouter
<1>3. /\ DOMAIN q.interfaces = 1 .. 2
      /\ q.interfaces = [k \in 1 .. 2 |-> q.interfaces[k]]
      /\ \A k \in 1 .. 2 : q.interfaces[k] = IF k = n THEN i ELSE r.interfaces[k]
  BY <1>2 DEF IsRouter
<1>4. IsRouter(q)
  <2>1. \A k \in 1 .. 2 : IsInterface(r.interfaces[k])
    <3>1. \A k \in 1 .. 2 : k = 1 \/ k = 2
      OBVIOUS
    <3> QED
      BY <3>1 DEF IsRouter
  <2>2. \A k \in 1 .. 2 : IsInterface(q.interfaces[k])
    BY <1>3, <2>1
  <2>3. IsInterface(q.interfaces[1]) /\ IsInterface(q.interfaces[2])
    BY <2>2
  <2> QED
    BY <1>2, <1>3, <2>3 DEF IsRouter
<1>5. PICK v \in Nat, w \in Nat, x \in Nat :
          v = Weight(id, r.interfaces[1]) /\ w = Weight(id, r.interfaces[2]) /\ x = Weight(id, i)
  BY LoadType, WeightType
<1>6. CASE n = 1
  <2>1. q.interfaces[1] = i /\ q.interfaces[2] = r.interfaces[2]
    BY <1>3, <1>6
  <2>2. Load(id, q) = x + w /\ Load(id, r) = v + w
    BY <1>5, <2>1 DEF Load
  <2>3. (x + w) + v = (v + w) + x
    OBVIOUS
  <2> QED
    BY <1>1, <1>4, <1>5, <1>6, <2>2, <2>3
<1>7. CASE n = 2
  <2>1. q.interfaces[1] = r.interfaces[1] /\ q.interfaces[2] = i
    BY <1>3, <1>7
  <2>2. Load(id, q) = v + x /\ Load(id, r) = v + w
    BY <1>5, <2>1 DEF Load
  <2>3. (v + x) + w = (v + w) + x
    OBVIOUS
  <2> QED
    BY <1>1, <1>4, <1>5, <1>7, <2>2, <2>3
<1> QED
  BY <1>6, <1>7

(* A router and the frames it has transmitted, by interface.                *)
IsResult(result) ==
    /\ IsRouter(result.router)
    /\ DOMAIN result.frames = 1 .. 2
    /\ IsFrames(result.frames[1]) /\ IsFrames(result.frames[2])

Total(id, result) ==
    Load(id, result.router) + (Carried(id, result.frames[1]) + Carried(id, result.frames[2]))

(* The copies in a router and in the frames it transmits.                   *)
LEMMA TotalType ==
    ASSUME NEW result, IsResult(result), NEW id
    PROVE  /\ Load(id, result.router) \in Nat
           /\ Carried(id, result.frames[1]) \in Nat /\ Carried(id, result.frames[2]) \in Nat
           /\ Total(id, result) \in Nat
<1>1. Load(id, result.router) \in Nat
  BY LoadType DEF IsResult
<1>2. Carried(id, result.frames[1]) \in Nat /\ Carried(id, result.frames[2]) \in Nat
  BY FramesType DEF IsResult
<1> QED
  BY <1>1, <1>2 DEF Total

(* A call that transmits nothing.                                           *)
LEMMA NothingSent ==
    ASSUME NEW r, IsRouter(r), NEW id
    PROVE  LET result == Net!RouterResult(r, Net!NoFrames(r))
           IN  IsResult(result) /\ Total(id, result) = Load(id, r)
<1>1. PICK result : result = Net!RouterResult(r, Net!NoFrames(r))
  OBVIOUS
<1>2. result.router = r /\ result.frames = [n \in 1 .. 2 |-> <<>>]
  BY <1>1 DEF Net!RouterResult, Net!NoFrames, IsRouter
<1>3. DOMAIN result.frames = 1 .. 2 /\ result.frames[1] = <<>> /\ result.frames[2] = <<>>
  BY <1>2
<1>4. IsFrames(<<>>) /\ Carried(id, <<>>) = 0
  BY NoFrame
<1>5. PICK x \in Nat : x = Load(id, r)
  BY LoadType
<1> QED
  BY <1>1, <1>2, <1>3, <1>4, <1>5 DEF IsResult, Total

(* What a call of one interface means for the router it belongs to.         *)
ByInterface(r, n, result) ==
    Net!RouterResult([r EXCEPT !.interfaces[n] = result.interface],
                     [Net!NoFrames(r) EXCEPT ![n] = result.frames])

(* An interface acts: the router holds what its interfaces hold.            *)
LEMMA OneActs ==
    ASSUME NEW r, IsRouter(r), NEW n \in 1 .. 2, NEW id, NEW extra \in Nat,
           NEW result, Conserved(id, r.interfaces[n], result, extra)
    PROVE  /\ IsResult(ByInterface(r, n, result))
           /\ Total(id, ByInterface(r, n, result)) <= Load(id, r) + extra
<1>1. PICK u : u = ByInterface(r, n, result)
  OBVIOUS
<1>2. PICK i, s : i = result.interface /\ s = result.frames /\ IsInterface(i) /\ IsFrames(s)
  BY DEF Conserved
<1>3. /\ u.router = [r EXCEPT !.interfaces[n] = i]
      /\ u.frames = [[k \in 1 .. 2 |-> <<>>] EXCEPT ![n] = s]
  BY <1>1, <1>2 DEF ByInterface, Net!RouterResult, Net!NoFrames, IsRouter
<1>4. /\ IsRouter(u.router)
      /\ Load(id, u.router) + Weight(id, r.interfaces[n]) = Load(id, r) + Weight(id, i)
  BY <1>2, <1>3, WithInterface
<1>5. /\ DOMAIN u.frames = 1 .. 2 /\ IsFrames(u.frames[1]) /\ IsFrames(u.frames[2])
      /\ Carried(id, u.frames[1]) + Carried(id, u.frames[2]) = Carried(id, s)
  <2>1. IsFrames(<<>>) /\ Carried(id, <<>>) = 0
    BY NoFrame
  <2>2. PICK c \in Nat : c = Carried(id, s)
    BY <1>2, FramesType
  <2>3. CASE n = 1
    <3>1. DOMAIN u.frames = 1 .. 2 /\ u.frames[1] = s /\ u.frames[2] = <<>>
      BY <1>3, <2>3
    <3> QED
      BY <1>2, <2>1, <2>2, <3>1
  <2>4. CASE n = 2
    <3>1. DOMAIN u.frames = 1 .. 2 /\ u.frames[1] = <<>> /\ u.frames[2] = s
      BY <1>3, <2>4
    <3> QED
      BY <1>2, <2>1, <2>2, <3>1
  <2> QED
    BY <2>3, <2>4
<1>6. PICK a \in Nat, b \in Nat, c \in Nat, x \in Nat, y \in Nat :
          /\ a = Load(id, u.router) /\ b = Weight(id, r.interfaces[n])
          /\ c = Load(id, r) /\ x = Weight(id, i) /\ y = Carried(id, s)
  <2>1. Load(id, u.router) \in Nat /\ Load(id, r) \in Nat
    BY <1>4, LoadType
  <2>2. n = 1 \/ n = 2
    OBVIOUS
  <2>3. Weight(id, r.interfaces[n]) \in Nat
    BY <2>2, LoadType
  <2>4. Weight(id, i) \in Nat /\ Carried(id, s) \in Nat
    BY <1>2, WeightType, FramesType
  <2> QED
    BY <2>1, <2>3, <2>4
<1>7. x + y <= b + extra
  BY <1>2, <1>6 DEF Conserved
<1>8. a + b = c + x
  BY <1>4, <1>6
<1>9. a + y <= c + extra
  BY <1>7, <1>8
<1> QED
  BY <1>1, <1>4, <1>5, <1>6, <1>9 DEF IsResult, Total

(* The datagram that is routed goes to one interface, or nowhere.           *)
LEMMA ForwardConserves ==
    ASSUME NEW r, IsRouter(r), NEW d \in Dgrams, NEW id
    PROVE  /\ IsResult(Net!Forward(r, d))
           /\ Total(id, Net!Forward(r, d)) <= Load(id, r) + One(id, d)
<1>1. PICK l \in Nat, o \in Nat : l = Load(id, r) /\ o = One(id, d)
  BY LoadType DEF One
<1>2. PICK nothing : nothing = Net!RouterResult(r, Net!NoFrames(r)) /\ IsResult(nothing) /\ Total(id, nothing) = l
  BY <1>1, NothingSent
<1>3. PICK k : k = Net!BestRoute(r.routing_table, d.dst)
  OBVIOUS
<1>4. PICK n : n = r.routing_table[k].interface_num
  OBVIOUS
<1>5. PICK e : e = Net!PassedOn(d)
  OBVIOUS
<1>6. e \in Dgrams /\ One(id, e) = o
  BY <1>1, <1>5 DEF Net!PassedOn, Dgrams, One
<1>7. PICK result : result = Net!SendDatagram(r.interfaces[n], e, Net!NextHop(r.routing_table[k], d.dst))
  OBVIOUS
<1>8. Net!Forward(r, d) = IF d.ttl <= 1 \/ k = 0 THEN nothing ELSE ByInterface(r, n, result)
  BY <1>2, <1>3, <1>4, <1>5, <1>7 DEF Net!Forward, ByInterface
<1>9. CASE d.ttl <= 1 \/ k = 0
  <2>1. l <= l + o
    OBVIOUS
  <2> QED
    BY <1>1, <1>2, <1>8, <1>9, <2>1
<1>10. CASE ~(d.ttl <= 1 \/ k = 0) /\ n \in 1 .. 2
  <2>1. IsInterface(r.interfaces[n])
    <3>1. n = 1 \/ n = 2
      BY <1>10
    <3> QED
      BY <3>1 DEF IsRouter
  <2>2. Conserved(id, r.interfaces[n], result, o)
    BY <1>6, <1>7, <2>1, SendConserves
  <2> QED
    BY <1>1, <1>8, <1>10, <2>2, OneActs
<1>11. CASE ~(d.ttl <= 1 \/ k = 0) /\ n \notin 1 .. 2
  <2>1. [r EXCEPT !.interfaces[n] = result.interface] = r
    BY <1>11 DEF IsRouter
  <2>2. [Net!NoFrames(r) EXCEPT ![n] = result.frames] = Net!NoFrames(r)
    BY <1>11 DEF Net!NoFrames, IsRouter
  <2>3. ByInterface(r, n, result) = nothing
    BY <1>2, <2>1, <2>2 DEF ByInterface
  <2>4. l <= l + o
    OBVIOUS
  <2> QED
    BY <1>1, <1>2, <1>8, <1>11, <2>3, <2>4
<1> QED
  BY <1>9, <1>10, <1>11

(* The next datagram adds what it brings.                                   *)
LEMMA RouteNextConserves ==
    ASSUME NEW before, IsResult(before), NEW d \in Dgrams, NEW id
    PROVE  /\ IsResult(Net!RouteNext(before, d))
           /\ Total(id, Net!RouteNext(before, d)) <= Total(id, before) + One(id, d)
<1>1. PICK next : /\ next = Net!Forward(before.router, d) /\ IsResult(next)
                  /\ Total(id, next) <= Load(id, before.router) + One(id, d)
  BY ForwardConserves DEF IsResult
<1>2. PICK u : u = Net!RouteNext(before, d)
  OBVIOUS
<1>3. /\ u.router = next.router
      /\ u.frames = [n \in 1 .. 2 |-> before.frames[n] \o next.frames[n]]
  BY <1>1, <1>2 DEF Net!RouteNext, Net!RouterResult, IsResult
<1>4. /\ DOMAIN u.frames = 1 .. 2
      /\ u.frames[1] = before.frames[1] \o next.frames[1]
      /\ u.frames[2] = before.frames[2] \o next.frames[2]
  <2>1. PICK f : f = [n \in 1 .. 2 |-> before.frames[n] \o next.frames[n]]
    OBVIOUS
  <2>2. DOMAIN f = 1 .. 2 /\ 1 \in 1 .. 2 /\ 2 \in 1 .. 2
    BY <2>1
  <2>3. f[1] = before.frames[1] \o next.frames[1] /\ f[2] = before.frames[2] \o next.frames[2]
    BY <2>1, <2>2, Zenon
  <2> QED
    BY <1>3, <2>1, <2>2, <2>3
<1>5. /\ IsFrames(u.frames[1]) /\ Carried(id, u.frames[1]) = Carried(id, before.frames[1]) + Carried(id, next.frames[1])
      /\ IsFrames(u.frames[2]) /\ Carried(id, u.frames[2]) = Carried(id, before.frames[2]) + Carried(id, next.frames[2])
  BY <1>1, <1>4, FramesConcat DEF IsResult
<1>6. PICK a1 \in Nat, a2 \in Nat, b1 \in Nat, b2 \in Nat, l \in Nat, m \in Nat, o \in Nat :
          /\ a1 = Carried(id, before.frames[1]) /\ a2 = Carried(id, before.frames[2])
          /\ b1 = Carried(id, next.frames[1]) /\ b2 = Carried(id, next.frames[2])
          /\ l = Load(id, before.router) /\ m = Load(id, next.router) /\ o = One(id, d)
  <2>1. One(id, d) \in Nat
    BY DEF One
  <2> QED
    BY <1>1, <2>1, TotalType
<1>7. m + (b1 + b2) <= l + o
  BY <1>1, <1>6 DEF Total
<1>8. m + ((a1 + b1) + (a2 + b2)) <= (l + (a1 + a2)) + o
  BY <1>7
<1>9. Total(id, u) = m + ((a1 + b1) + (a2 + b2)) /\ Total(id, before) = l + (a1 + a2)
  BY <1>3, <1>5, <1>6 DEF Total
<1> QED
  BY <1>1, <1>2, <1>3, <1>4, <1>5, <1>6, <1>8, <1>9 DEF IsResult

(* The first k members of a sequence.                                       *)
FirstOf(w, k) == [j \in 1 .. k |-> w[j]]

(* The first members are a sequence of that length.                         *)
LEMMA FirstType ==
    ASSUME NEW D, NEW w \in Seq(D), NEW n \in Nat, n = Len(w)
    PROVE  /\ FirstOf(w, 0) = <<>> /\ FirstOf(w, n) = w
           /\ \A k \in 0 .. n : FirstOf(w, k) \in Seq(D) /\ Len(FirstOf(w, k)) = k
<1>1. \A j \in 1 .. n : w[j] \in D
  BY ElementOfSeq
<1>2. ASSUME NEW k \in 0 .. n
      PROVE  FirstOf(w, k) \in Seq(D) /\ Len(FirstOf(w, k)) = k
  <2>1. FirstOf(w, k) \in [1 .. k -> D]
    BY <1>1 DEF FirstOf
  <2>2. k \in Nat
    OBVIOUS
  <2>3. FirstOf(w, k) \in Seq(D)
    BY <2>1, <2>2, IsASeq
  <2> QED
    BY <2>1, <2>2, <2>3, LenProperties
<1>3. FirstOf(w, 0) = <<>>
  <2>1. 0 \in 0 .. n
    OBVIOUS
  <2> QED
    BY <1>2, <2>1, EmptySeq
<1>4. FirstOf(w, n) = w
  <2>1. n \in 0 .. n
    OBVIOUS
  <2>2. FirstOf(w, n) \in Seq(D) /\ Len(FirstOf(w, n)) = n
    BY <1>2, <2>1
  <2>3. \A j \in 1 .. n : FirstOf(w, n)[j] = w[j]
    BY DEF FirstOf
  <2> QED
    BY <2>2, <2>3, SeqEqual
<1> QED
  BY <1>2, <1>3, <1>4

(* One more of them is appended.                                            *)
LEMMA OneMore ==
    ASSUME NEW D, NEW w \in Seq(D), NEW n \in Nat, n = Len(w), NEW k \in 0 .. n - 1
    PROVE  w[k + 1] \in D /\ FirstOf(w, k + 1) = Append(FirstOf(w, k), w[k + 1])
<1>1. \A j \in 1 .. n : w[j] \in D
  BY ElementOfSeq
<1>2. \A l \in 0 .. n : FirstOf(w, l) \in Seq(D) /\ Len(FirstOf(w, l)) = l
  BY FirstType
<1>3. k \in 0 .. n /\ k + 1 \in 0 .. n /\ k + 1 \in 1 .. n
  OBVIOUS
<1>4. PICK s \in Seq(D) : s = FirstOf(w, k) /\ Len(s) = k /\ \A j \in 1 .. k : s[j] = w[j]
  BY <1>2, <1>3 DEF FirstOf
<1>5. PICK t \in Seq(D) : t = FirstOf(w, k + 1) /\ Len(t) = k + 1 /\ \A j \in 1 .. k + 1 : t[j] = w[j]
  BY <1>2, <1>3 DEF FirstOf
<1>6. PICK d \in D : d = w[k + 1]
  BY <1>1, <1>3
<1>7. PICK a \in Seq(D) : a = Append(s, d)
  BY AppendProperties
<1>8. Len(a) = k + 1 /\ a[k + 1] = d /\ \A j \in 1 .. k : a[j] = s[j]
  BY <1>4, <1>7, AppendProperties
<1>9. \A j \in 1 .. k + 1 : a[j] = t[j]
  <2> TAKE j \in 1 .. k + 1
  <2>1. CASE j = k + 1
    BY <1>5, <1>6, <1>8, <2>1
  <2>2. CASE j # k + 1
    <3>1. j \in 1 .. k
      BY <2>2
    <3> QED
      BY <1>4, <1>5, <1>8, <3>1
  <2> QED
    BY <2>1, <2>2
<1>10. a = t
  BY <1>5, <1>8, <1>9, SeqEqual
<1> QED
  BY <1>4, <1>5, <1>6, <1>7, <1>10

(* A router without what it has received.                                   *)
LEMMA WithoutReceivedLoad ==
    ASSUME NEW r, IsRouter(r), NEW id
    PROVE  /\ IsRouter(Net!WithoutReceived(r))
           /\ Load(id, Net!WithoutReceived(r)) + Copies(id, Net!ReceivedDatagrams(r)) = Load(id, r)
<1>1. PICK q : q = Net!WithoutReceived(r)
  OBVIOUS
<1>2. /\ q = [interfaces |-> q.interfaces, routing_table |-> q.routing_table]
      /\ q.interfaces = [n \in 1 .. 2 |-> [r.interfaces[n] EXCEPT !.datagrams_received = <<>>]]
  BY <1>1 DEF Net!WithoutReceived, IsRouter
<1>3. ASSUME NEW n \in 1 .. 2
      PROVE  /\ q.interfaces[n] = [r.interfaces[n] EXCEPT !.datagrams_received = <<>>]
             /\ IsInterface(q.interfaces[n])
             /\ Weight(id, q.interfaces[n]) = Held(id, r.interfaces[n].pending_datagrams)
  <2>1. IsInterface(r.interfaces[n])
    <3>1. n = 1 \/ n = 2
      OBVIOUS
    <3> QED
      BY <3>1 DEF IsRouter
  <2>2. PICK i, j : i = r.interfaces[n] /\ j = q.interfaces[n] /\ j = [i EXCEPT !.datagrams_received = <<>>]
    BY <1>2
  <2>3. <<>> \in Seq(Dgrams)
    OBVIOUS
  <2>4. IsInterface(j) /\ j.datagrams_received = <<>> /\ j.pending_datagrams = i.pending_datagrams
    BY <2>1, <2>2, <2>3 DEF IsInterface
  <2>5. Held(id, i.pending_datagrams) \in Nat /\ Copies(id, <<>>) = 0
    BY <2>1, <2>2, WeightType, CopiesEmpty
  <2>6. Weight(id, j) = Held(id, i.pending_datagrams)
    BY <2>4, <2>5 DEF Weight
  <2> QED
    BY <2>2, <2>4, <2>6
<1>4. 1 \in 1 .. 2 /\ 2 \in 1 .. 2
  OBVIOUS
<1>5. IsRouter(q)
  <2>1. DOMAIN q.interfaces = 1 .. 2 /\ q.interfaces = [n \in 1 .. 2 |-> q.interfaces[n]]
    BY <1>2
  <2> QED
    BY <1>2, <1>3, <1>4, <2>1 DEF IsRouter
<1>6. Load(id, q) = Held(id, r.interfaces[1].pending_datagrams) + Held(id, r.interfaces[2].pending_datagrams)
  BY <1>3, <1>4 DEF Load
<1>7. PICK c \in Nat, v \in Nat, w \in Nat :
          /\ c = Copies(id, Net!ReceivedDatagrams(r))
          /\ v = Held(id, r.interfaces[1].pending_datagrams) /\ w = Held(id, r.interfaces[2].pending_datagrams)
  <2>1. Copies(id, Net!ReceivedDatagrams(r)) \in Nat
    BY ReceivedOfTwo, CopiesType
  <2>2. IsInterface(r.interfaces[1]) /\ IsInterface(r.interfaces[2])
    BY DEF IsRouter
  <2> QED
    BY <2>1, <2>2, WeightType
<1>8. Load(id, r) = c + v + w
  BY <1>7, LoadType
<1>9. (v + w) + c = c + v + w
  OBVIOUS
<1> QED
  BY <1>1, <1>5, <1>6, <1>7, <1>8, <1>9

(* One datagram after the other is routed.                                  *)
Routing(g, first, w, n) == g[0] = first /\ \A k \in 1 .. n : g[k] = Net!RouteNext(g[k - 1], w[k])

(* route() as a sequence of results.                                        *)
LEMMA RoutingExists ==
    ASSUME NEW r, NEW w, w = Net!ReceivedDatagrams(r), NEW n \in Nat, n = Len(w)
    PROVE  \E g : /\ Routing(g, Net!RouterResult(Net!WithoutReceived(r), Net!NoFrames(r)), w, n)
                  /\ Net!Route(r) = g[n]
<1>1. PICK first : first = Net!RouterResult(Net!WithoutReceived(r), Net!NoFrames(r))
  OBVIOUS
<1> DEFINE IsTo(g, k) == g = [j \in 0 .. k |-> IF j = 0 THEN first ELSE Net!RouteNext(g[j - 1], w[j])]
           P(k) == \E g : IsTo(g, k)
           T == {k \in Nat : P(k)}
<1>2. 0 \in T
  <2> DEFINE g == [j \in 0 .. 0 |-> first]
  <2>1. \A j \in 0 .. 0 : j = 0
    OBVIOUS
  <2>2. IsTo(g, 0)
    BY <2>1
  <2>3. P(0)
    BY <2>2
  <2> HIDE DEF P
  <2> QED
    BY <2>3
<1>3. ASSUME NEW k \in T
      PROVE  k + 1 \in T
  <2>1. k \in Nat /\ k + 1 \in Nat /\ P(k)
    OBVIOUS
  <2>2. PICK g : IsTo(g, k)
    BY <2>1
  <2> DEFINE h == [j \in 0 .. k + 1 |-> IF j = k + 1 THEN Net!RouteNext(g[k], w[k + 1]) ELSE g[j]]
  <2>3. ASSUME NEW j \in 0 .. k + 1
        PROVE  h[j] = IF j = 0 THEN first ELSE Net!RouteNext(h[j - 1], w[j])
    <3>1. CASE j = k + 1
      <4>1. k \in 0 .. k + 1 /\ k + 1 \in 0 .. k + 1 /\ (k + 1) - 1 = k /\ k # k + 1 /\ k + 1 # 0
        BY <2>1
      <4>2. h[k + 1] = Net!RouteNext(g[k], w[k + 1]) /\ h[k] = g[k]
        BY <4>1
      <4> HIDE DEF h
      <4> QED
        BY <3>1, <4>1, <4>2
    <3>2. CASE j # k + 1 /\ j = 0
      <4>1. g[0] = first
        BY <2>1, <2>2
      <4> QED
        BY <2>1, <3>2, <4>1
    <3>3. CASE j # k + 1 /\ j # 0
      <4>1. j \in 0 .. k /\ j - 1 \in 0 .. k + 1 /\ j - 1 # k + 1
        BY <2>1, <3>3
      <4>2. h[j] = g[j] /\ h[j - 1] = g[j - 1]
        BY <3>3, <4>1
      <4>3. g[j] = Net!RouteNext(g[j - 1], w[j])
        BY <2>2, <3>3, <4>1
      <4> HIDE DEF h
      <4> QED
        BY <3>3, <4>2, <4>3
    <3> QED
      BY <3>1, <3>2, <3>3
  <2>4. IsTo(h, k + 1)
    BY <2>3
  <2>5. P(k + 1)
    BY <2>4
  <2> HIDE DEF P
  <2> QED
    BY <2>1, <2>5
<1>4. T = Nat
  <2> HIDE DEF T
  <2> QED
    BY <1>2, <1>3, NatSetInduction DEF T
<1>5. P(n)
  <2>1. n \in T
    BY <1>4
  <2> HIDE DEF P
  <2> QED
    BY <2>1
<1> DEFINE g == CHOOSE g : IsTo(g, n)
<1>6. IsTo(g, n)
  BY <1>5
<1>7. Net!Route(r) = g[n]
  BY <1>1 DEF Net!Route
<1> HIDE DEF g
<1>8. Routing(g, first, w, n)
  <2>1. g[0] = first
    BY <1>6
  <2>2. ASSUME NEW k \in 1 .. n
        PROVE  g[k] = Net!RouteNext(g[k - 1], w[k])
    <3>1. k \in 0 .. n /\ k # 0
      OBVIOUS
    <3> QED
      BY <1>6, <3>1
  <2> QED
    BY <2>1, <2>2 DEF Routing
<1> QED
  BY <1>1, <1>7, <1>8

(* route() passes on or drops what it takes from the queues.                *)
LEMMA RouteConserves ==
    ASSUME NEW r, IsRouter(r), NEW id
    PROVE  IsResult(Net!Route(r)) /\ Total(id, Net!Route(r)) <= Load(id, r)
<1>1. PICK w \in Seq(Dgrams), n \in Nat : w = Net!ReceivedDatagrams(r) /\ n = Len(w)
  <2>1. PICK w \in Seq(Dgrams) : w = Net!ReceivedDatagrams(r)
    BY ReceivedOfTwo
  <2> QED
    BY <2>1, LenProperties
<1>2. PICK q : q = Net!WithoutReceived(r) /\ IsRouter(q) /\ Load(id, q) + Copies(id, w) = Load(id, r)
  BY <1>1, WithoutReceivedLoad
<1>3. PICK first : first = Net!RouterResult(q, Net!NoFrames(r))
  OBVIOUS
<1>4. IsResult(first) /\ Total(id, first) = Load(id, q)
  <2>1. Net!NoFrames(r) = Net!NoFrames(q)
    BY <1>2 DEF Net!NoFrames, IsRouter
  <2> QED
    BY <1>2, <1>3, <2>1, NothingSent
<1>5. PICK g : Routing(g, first, w, n) /\ Net!Route(r) = g[n]
  BY <1>1, <1>2, <1>3, RoutingExists
<1>6. PICK l \in Nat : l = Load(id, q)
  BY <1>2, LoadType
<1> DEFINE P(k) == k <= n => IsResult(g[k]) /\ Total(id, g[k]) <= l + Copies(id, FirstOf(w, k))
           T == {k \in Nat : P(k)}
<1>7. 0 \in T
  <2>1. g[0] = first /\ FirstOf(w, 0) = <<>> /\ Copies(id, <<>>) = 0
    BY <1>1, <1>5, FirstType, CopiesEmpty DEF Routing
  <2>2. P(0)
    BY <1>4, <1>6, <2>1
  <2> HIDE DEF P
  <2> QED
    BY <2>2
<1>8. ASSUME NEW k \in T
      PROVE  k + 1 \in T
  <2>1. k \in Nat /\ k + 1 \in Nat /\ P(k)
    OBVIOUS
  <2> SUFFICES ASSUME k + 1 <= n
               PROVE  IsResult(g[k + 1]) /\ Total(id, g[k + 1]) <= l + Copies(id, FirstOf(w, k + 1))
    <3>1. P(k + 1) => k + 1 \in T
      <4> HIDE DEF P
      <4> QED
        BY <2>1
    <3> QED
      BY <3>1
  <2>2. k + 1 \in 1 .. n /\ (k + 1) - 1 = k /\ k \in 0 .. n - 1 /\ k \in 0 .. n /\ k <= n
    BY <2>1
  <2>3. g[k + 1] = Net!RouteNext(g[k], w[k + 1])
    BY <1>5, <2>2 DEF Routing
  <2>4. PICK s \in Seq(Dgrams), d \in Dgrams :
            s = FirstOf(w, k) /\ d = w[k + 1] /\ FirstOf(w, k + 1) = Append(s, d)
    <3>1. FirstOf(w, k) \in Seq(Dgrams)
      BY <1>1, <2>2, FirstType
    <3>2. w[k + 1] \in Dgrams /\ FirstOf(w, k + 1) = Append(FirstOf(w, k), w[k + 1])
      BY <1>1, <2>2, OneMore
    <3> QED
      BY <3>1, <3>2
  <2>5. IsResult(g[k]) /\ Total(id, g[k]) <= l + Copies(id, s)
    BY <2>1, <2>2, <2>4
  <2>6. IsResult(g[k + 1]) /\ Total(id, g[k + 1]) <= Total(id, g[k]) + One(id, d)
    BY <2>3, <2>4, <2>5, RouteNextConserves
  <2>7. Copies(id, FirstOf(w, k + 1)) = Copies(id, s) + One(id, d)
    BY <2>4, CopiesAppend
  <2>8. PICK a \in Nat, b \in Nat, c \in Nat, o \in Nat :
            a = Total(id, g[k]) /\ b = Total(id, g[k + 1]) /\ c = Copies(id, s) /\ o = One(id, d)
    <3>1. One(id, d) \in Nat
      BY DEF One
    <3>2. Copies(id, s) \in Nat
      BY CopiesType
    <3> QED
      BY <2>5, <2>6, <3>1, <3>2, TotalType
  <2>9. b <= l + (c + o)
    <3>1. a <= l + c
      BY <2>5, <2>8
    <3>2. b <= a + o
      BY <2>6, <2>8
    <3> QED
      BY <3>1, <3>2
  <2> QED
    BY <2>6, <2>7, <2>8, <2>9
<1>9. T = Nat
  <2> HIDE DEF T
  <2> QED
    BY <1>7, <1>8, NatSetInduction DEF T
<1>10. P(n)
  <2>1. n \in T
    BY <1>9
  <2> HIDE DEF P
  <2> QED
    BY <2>1
<1>11. FirstOf(w, n) = w
  BY <1>1, FirstType
<1> QED
  BY <1>2, <1>5, <1>6, <1>10, <1>11
-----------------------------------------------------------------------------
(* The network: everything in its place, and of each datagram that has been *)
(* sent one copy at most, of the others none.                               *)
Two(p, q) == p # q /\ Routers = {p, q}

AllPlaced ==
    /\ DOMAIN router = Routers /\ DOMAIN link = Routers /\ DOMAIN delivered = Routers
    /\ \A p \in Routers : IsRouter(router[p]) /\ IsFrames(link[p]) /\ delivered[p] \in Seq(Dgrams)

Burden(id, r, l, d) == Load(id, r) + (Carried(id, l) + Copies(id, d))

Everywhere(id, p, q) ==
    Burden(id, router[p], link[p], delivered[p]) + Burden(id, router[q], link[q], delivered[q])

Allowed(id) == IF id <= sent THEN 1 ELSE 0

RInv ==
    /\ AllPlaced
    /\ sent \in Nat
    /\ \A p, q \in Routers : p # q => \A id \in Nat : Everywhere(id, p, q) <= Allowed(id)

(* The copies in and behind a router, on its link and with its host.        *)
LEMMA BurdenType ==
    ASSUME NEW r, IsRouter(r), NEW l, IsFrames(l), NEW d \in Seq(Dgrams), NEW id
    PROVE  /\ Load(id, r) \in Nat /\ Carried(id, l) \in Nat /\ Copies(id, d) \in Nat
           /\ Burden(id, r, l, d) \in Nat
<1>1. Load(id, r) \in Nat /\ Carried(id, l) \in Nat /\ Copies(id, d) \in Nat
  BY LoadType, FramesType, CopiesType
<1> QED
  BY <1>1 DEF Burden

(* What a step makes of the copies in the network, given what it makes of   *)
(* the router and what it takes off the link.                               *)
GrowsBy(p, q, id, n) == Everywhere(id, p, q)' <= Everywhere(id, p, q) + n

(* A step that keeps the copies of a router keeps those of the network.     *)
LEMMA StepKeeps ==
    ASSUME AllPlaced, NEW p \in Routers, NEW q \in Routers, Two(p, q),
           NEW result, IsResult(result), NEW rest, IsFrames(rest), Net!Step(p, result, rest)
    PROVE  /\ AllPlaced'
           /\ \A id, n \in Nat :
                  Total(id, result) + Carried(id, rest) <= Load(id, router[p]) + Carried(id, link[p]) + n
                      => GrowsBy(p, q, id, n)
<1>1. Net!Other(p) = q
  BY DEF Net!Other, Two
<1>2. PICK sends, moves, carries :
          /\ sends = result.frames[1] /\ moves = result.frames[2] /\ carries = Net!Datagrams(sends)
          /\ IsFrames(sends) /\ IsFrames(moves) /\ carries \in Seq(Dgrams)
  BY FramesType DEF IsResult
<1>3. /\ router' = [router EXCEPT ![p] = result.router]
      /\ delivered' = [delivered EXCEPT ![p] = @ \o carries]
      /\ link' = [link EXCEPT ![p] = rest, ![q] = @ \o moves]
  BY <1>1, <1>2 DEF Net!Step, Net!Lan, Net!Link
<1>4. /\ DOMAIN router' = Routers /\ DOMAIN link' = Routers /\ DOMAIN delivered' = Routers
      /\ router'[p] = result.router /\ router'[q] = router[q]
      /\ delivered'[p] = delivered[p] \o carries /\ delivered'[q] = delivered[q]
      /\ link'[p] = rest /\ link'[q] = link[q] \o moves
  BY <1>3 DEF AllPlaced, Two
<1>5. delivered[p] \o carries \in Seq(Dgrams) /\ IsFrames(link[q] \o moves)
  BY <1>2, ConcatProperties, FramesConcat DEF AllPlaced
<1>6. AllPlaced'
  <2>1. \A z \in Routers : z = p \/ z = q
    BY DEF Two
  <2> QED
    BY <1>4, <1>5, <2>1 DEF AllPlaced, IsResult
<1>7. ASSUME NEW id, NEW n \in Nat,
             Total(id, result) + Carried(id, rest) <= Load(id, router[p]) + Carried(id, link[p]) + n
      PROVE  GrowsBy(p, q, id, n)
  <2>1. PICK lp \in Nat, cp \in Nat, dp \in Nat, lq \in Nat, cq \in Nat, dq \in Nat :
            /\ lp = Load(id, router[p]) /\ cp = Carried(id, link[p]) /\ dp = Copies(id, delivered[p])
            /\ lq = Load(id, router[q]) /\ cq = Carried(id, link[q]) /\ dq = Copies(id, delivered[q])
    BY BurdenType DEF AllPlaced
  <2>2. PICK l \in Nat, a \in Nat, b \in Nat, c \in Nat :
            /\ l = Load(id, result.router) /\ a = Carried(id, sends) /\ b = Carried(id, moves)
            /\ c = Carried(id, rest)
    BY <1>2, TotalType, FramesType
  <2>3. Copies(id, delivered[p] \o carries) = dp + a
    <3>1. Copies(id, delivered[p] \o carries) = Copies(id, delivered[p]) + Copies(id, carries)
      BY <1>2, CopiesConcat DEF AllPlaced
    <3> QED
      BY <1>2, <2>1, <2>2, <3>1 DEF Carried
  <2>4. Carried(id, link[q] \o moves) = cq + b
    BY <1>2, <2>1, <2>2, FramesConcat DEF AllPlaced
  <2>5. Everywhere(id, p, q) = (lp + (cp + dp)) + (lq + (cq + dq))
    BY <2>1 DEF Everywhere, Burden
  <2>6. Everywhere(id, p, q)' = (l + (c + (dp + a))) + (lq + ((cq + b) + dq))
    BY <1>4, <2>1, <2>2, <2>3, <2>4 DEF Everywhere, Burden
  <2>7. (l + (a + b)) + c <= lp + cp + n
    BY <1>2, <1>7, <2>1, <2>2 DEF Total
  <2>8. (l + (c + (dp + a))) + (lq + ((cq + b) + dq)) <= ((lp + (cp + dp)) + (lq + (cq + dq))) + n
    BY <2>7
  <2> QED
    BY <2>5, <2>6, <2>8 DEF GrowsBy
<1> QED
  BY <1>6, <1>7

(* A step of one router that transmits nothing.                             *)
LEMMA RouterOnly ==
    ASSUME AllPlaced, NEW p \in Routers, NEW q \in Routers, Two(p, q),
           NEW r, IsRouter(r), \A id : Load(id, r) <= Load(id, router[p]),
           router' = [router EXCEPT ![p] = r], link' = link, delivered' = delivered
    PROVE  AllPlaced' /\ \A id : GrowsBy(p, q, id, 0)
<1>1. DOMAIN router' = Routers /\ router'[p] = r /\ router'[q] = router[q]
  BY DEF AllPlaced, Two
<1>2. AllPlaced'
  <2>1. \A z \in Routers : z = p \/ z = q
    BY DEF Two
  <2> QED
    BY <1>1, <2>1 DEF AllPlaced
<1>3. ASSUME NEW id
      PROVE  GrowsBy(p, q, id, 0)
  <2>1. PICK lp \in Nat, cp \in Nat, dp \in Nat, b \in Nat :
            /\ lp = Load(id, router[p]) /\ cp = Carried(id, link[p]) /\ dp = Copies(id, delivered[p])
            /\ b = Burden(id, router[q], link[q], delivered[q])
    BY BurdenType DEF AllPlaced
  <2>2. PICK l \in Nat : l = Load(id, r) /\ l <= lp
    BY <2>1, LoadType
  <2>3. Everywhere(id, p, q) = (lp + (cp + dp)) + b
    BY <2>1 DEF Everywhere, Burden
  <2>4. Everywhere(id, p, q)' = (l + (cp + dp)) + b
    <3>1. Everywhere(id, p, q)' = Burden(id, r, link[p], delivered[p])
                                      + Burden(id, router[q], link[q], delivered[q])
      BY <1>1 DEF Everywhere
    <3> QED
      BY <2>1, <2>2, <3>1 DEF Burden
  <2>5. (l + (cp + dp)) + b <= ((lp + (cp + dp)) + b) + 0
    BY <2>2
  <2> QED
    BY <2>3, <2>4, <2>5 DEF GrowsBy
<1> QED
  BY <1>2, <1>3

(* A frame is received: its copies leave the network or enter the router.   *)
LEMMA ReceiveKeeps ==
    ASSUME AllPlaced, NEW p \in Routers, NEW q \in Routers, Two(p, q), NEW n \in 1 .. 2,
           NEW f, Carrying({f}), NEW rest, IsFrames(rest), Net!Receive(p, n, f, rest)
    PROVE  /\ AllPlaced'
           /\ \A id, m \in Nat : Carried(id, <<f>>) + Carried(id, rest) <= Carried(id, link[p]) + m
                  => GrowsBy(p, q, id, m)
<1>1. PICK r : r = router[p] /\ IsRouter(r)
  BY DEF AllPlaced
<1>2. PICK received : received = Net!RecvFrame(r.interfaces[n], f)
  OBVIOUS
<1>3. PICK result : result = ByInterface(r, n, received)
  OBVIOUS
<1>4. Net!Step(p, result, rest)
  BY <1>1, <1>2, <1>3 DEF Net!Receive, ByInterface
<1>5. IsInterface(r.interfaces[n])
  <2>1. n = 1 \/ n = 2
    OBVIOUS
  <2> QED
    BY <1>1, <2>1 DEF IsRouter
<1>6. ASSUME NEW id
      PROVE  /\ Carried(id, <<f>>) \in Nat /\ IsResult(result)
             /\ Total(id, result) <= Load(id, r) + Carried(id, <<f>>)
  <2>1. Carried(id, <<f>>) \in Nat
    BY FramesOne, FramesType
  <2>2. Conserved(id, r.interfaces[n], received, Carried(id, <<f>>))
    BY <1>2, <1>5, ReceiveConserves
  <2> QED
    BY <1>1, <1>3, <2>1, <2>2, OneActs
<1>7. IsResult(result)
  BY <1>6
<1>8. ASSUME NEW id \in Nat, NEW m \in Nat,
             Carried(id, <<f>>) + Carried(id, rest) <= Carried(id, link[p]) + m
      PROVE  GrowsBy(p, q, id, m)
  <2>1. PICK t \in Nat, l \in Nat, a \in Nat, b \in Nat, c \in Nat :
            /\ t = Total(id, result) /\ l = Load(id, r) /\ a = Carried(id, <<f>>)
            /\ b = Carried(id, rest) /\ c = Carried(id, link[p])
    <3>1. Carried(id, rest) \in Nat /\ Carried(id, link[p]) \in Nat
      BY FramesType DEF AllPlaced
    <3>2. Total(id, result) \in Nat /\ Load(id, r) \in Nat
      BY <1>1, <1>7, TotalType, LoadType
    <3> QED
      BY <1>6, <3>1, <3>2
  <2>2. t <= l + a
    BY <1>6, <2>1
  <2>3. a + b <= c + m
    BY <1>8, <2>1
  <2>4. t + b <= l + c + m
    BY <2>2, <2>3
  <2>5. Total(id, result) + Carried(id, rest) <= Load(id, router[p]) + Carried(id, link[p]) + m
    BY <1>1, <2>1, <2>4
  <2> QED
    BY <1>4, <1>7, <2>5, StepKeeps
<1>9. AllPlaced'
  BY <1>4, <1>7, StepKeeps
<1> QED
  BY <1>8, <1>9

(* The steps that leave the number of copies as it is or lower it.          *)
LEMMA QuietStep ==
    ASSUME RInv, NEW p \in Routers, NEW q \in Routers, Two(p, q),
           AllPlaced', sent' = sent, \A id \in Nat : GrowsBy(p, q, id, 0)
    PROVE  RInv'
<1>1. sent \in Nat /\ p # q
  BY DEF RInv, Two
<1>2. ASSUME NEW id \in Nat
      PROVE  /\ Everywhere(id, p, q)' <= Allowed(id)'
             /\ Everywhere(id, q, p)' <= Allowed(id)'
  <2>1. Everywhere(id, p, q) <= Allowed(id)
    BY <1>1 DEF RInv
  <2>2. Everywhere(id, p, q)' <= Everywhere(id, p, q) + 0
    BY DEF GrowsBy
  <2>3. PICK a \in Nat, b \in Nat : a = Burden(id, router[p], link[p], delivered[p])
                                    /\ b = Burden(id, router[q], link[q], delivered[q])
    BY BurdenType DEF RInv, AllPlaced
  <2>4. PICK c \in Nat, d \in Nat : c = Burden(id, router'[p], link'[p], delivered'[p])
                                    /\ d = Burden(id, router'[q], link'[q], delivered'[q])
    BY BurdenType DEF AllPlaced
  <2>5. Everywhere(id, p, q) = a + b /\ Everywhere(id, p, q)' = c + d /\ Everywhere(id, q, p)' = d + c
    BY <2>3, <2>4 DEF Everywhere
  <2>6. PICK e \in Nat : e = Allowed(id) /\ e = Allowed(id)'
    BY <1>1 DEF Allowed
  <2>7. c + d <= e /\ d + c <= e
    BY <2>1, <2>2, <2>5, <2>6
  <2> QED
    BY <2>5, <2>6, <2>7
<1>3. ASSUME NEW y \in Routers, NEW z \in Routers, y # z, NEW id \in Nat
      PROVE  Everywhere(id, y, z)' <= Allowed(id)'
  <2>1. (y = p /\ z = q) \/ (y = q /\ z = p)
    BY <1>3 DEF Two
  <2> QED
    BY <1>2, <2>1
<1> QED
  BY <1>1, <1>3 DEF RInv

(* A route moves no datagram.                                               *)
LEMMA GiveRouteStep ==
    ASSUME RInv, NEW p \in Routers, NEW q \in Routers, Two(p, q), NEW entry, Net!GiveRoute(p, entry)
    PROVE  RInv'
<1>1. PICK r : r = Net!AddRoute(router[p], entry) /\ router' = [router EXCEPT ![p] = r]
  BY DEF Net!GiveRoute
<1>2. IsRouter(router[p]) /\ AllPlaced
  BY DEF RInv, AllPlaced
<1>3. r.interfaces = router[p].interfaces /\ IsRouter(r)
  BY <1>1, <1>2 DEF Net!AddRoute, IsRouter
<1>4. \A id : Load(id, r) <= Load(id, router[p])
  <2> TAKE id
  <2>1. PICK l \in Nat : l = Load(id, router[p])
    BY <1>2, LoadType
  <2>2. Load(id, r) = l
    BY <1>3, <2>1 DEF Load
  <2> QED
    BY <2>1, <2>2
<1>5. link' = link /\ delivered' = delivered /\ sent' = sent
  BY DEF Net!GiveRoute
<1>6. AllPlaced' /\ \A id : GrowsBy(p, q, id, 0)
  BY <1>1, <1>2, <1>3, <1>4, <1>5, RouterOnly
<1> QED
  BY <1>5, <1>6, QuietStep

(* Time moves no datagram, but may drop some.                               *)
LEMMA RouterTicksStep ==
    ASSUME RInv, NEW p \in Routers, NEW q \in Routers, Two(p, q), Net!RouterTicks(p)
    PROVE  RInv'
<1>1. PICK r, s : s = router[p] /\ IsRouter(s) /\ r = [s EXCEPT !.interfaces =
                     [n \in DOMAIN @ |-> Net!InterfaceTick(@[n], RouterTickMs)]]
  BY DEF RInv, AllPlaced
<1>2. router' = [router EXCEPT ![p] = r] /\ link' = link /\ delivered' = delivered /\ sent' = sent
  BY <1>1 DEF Net!RouterTicks
<1>3. /\ r = [interfaces |-> r.interfaces, routing_table |-> r.routing_table]
      /\ r.interfaces = [n \in 1 .. 2 |-> Net!InterfaceTick(s.interfaces[n], RouterTickMs)]
  BY <1>1 DEF IsRouter
<1>4. PICK i, j, x, y :
          /\ i = s.interfaces[1] /\ j = s.interfaces[2] /\ IsInterface(i) /\ IsInterface(j)
          /\ x = Net!InterfaceTick(i, RouterTickMs) /\ y = Net!InterfaceTick(j, RouterTickMs)
  BY <1>1 DEF IsRouter
<1>5. r.interfaces[1] = x /\ r.interfaces[2] = y /\ DOMAIN r.interfaces = 1 .. 2
  <2>1. 1 \in 1 .. 2 /\ 2 \in 1 .. 2
    OBVIOUS
  <2> QED
    BY <1>3, <1>4, <2>1
<1>6. IsInterface(x) /\ IsInterface(y)
  BY <1>4, TickConserves
<1>7. IsRouter(r)
  <2>1. r.interfaces = [n \in 1 .. 2 |-> r.interfaces[n]]
    BY <1>3
  <2> QED
    BY <1>3, <1>5, <1>6, <2>1 DEF IsRouter
<1>8. \A id : Load(id, r) <= Load(id, router[p])
  <2> TAKE id
  <2>1. Weight(id, x) <= Weight(id, i) /\ Weight(id, y) <= Weight(id, j)
    BY <1>4, TickConserves
  <2>2. PICK a \in Nat, b \in Nat, c \in Nat, d \in Nat :
            a = Weight(id, x) /\ b = Weight(id, i) /\ c = Weight(id, y) /\ d = Weight(id, j)
    BY <1>4, <1>6, WeightType
  <2>3. Load(id, r) = a + c /\ Load(id, router[p]) = b + d
    BY <1>1, <1>4, <1>5, <2>2 DEF Load
  <2>4. a + c <= b + d
    BY <2>1, <2>2
  <2> QED
    BY <2>3, <2>4
<1>9. AllPlaced' /\ \A id : GrowsBy(p, q, id, 0)
  <2>1. AllPlaced
    BY DEF RInv
  <2> QED
    BY <1>2, <1>7, <1>8, <2>1, RouterOnly
<1> QED
  BY <1>2, <1>9, QuietStep

(* route() keeps the number of copies, or lowers it.                        *)
LEMMA RouterRoutesStep ==
    ASSUME RInv, NEW p \in Routers, NEW q \in Routers, Two(p, q), Net!RouterRoutes(p)
    PROVE  RInv'
<1>1. AllPlaced /\ IsRouter(router[p]) /\ IsFrames(link[p]) /\ sent' = sent
  BY DEF RInv, AllPlaced, Net!RouterRoutes
<1>2. PICK result : result = Net!Route(router[p]) /\ Net!Step(p, result, link[p])
  BY DEF Net!RouterRoutes
<1>3. IsResult(result) /\ \A id : Total(id, result) <= Load(id, router[p])
  BY <1>1, <1>2, RouteConserves
<1>4. ASSUME NEW id \in Nat
      PROVE  GrowsBy(p, q, id, 0)
  <2>1. PICK t \in Nat, l \in Nat, c \in Nat :
            t = Total(id, result) /\ l = Load(id, router[p]) /\ c = Carried(id, link[p])
    BY <1>1, <1>3, TotalType, LoadType, FramesType
  <2>2. t <= l
    BY <1>3, <2>1
  <2>3. t + c <= l + c + 0
    BY <2>2
  <2>4. 0 \in Nat
    OBVIOUS
  <2> QED
    BY <1>1, <1>2, <1>3, <2>1, <2>3, <2>4, StepKeeps
<1>5. AllPlaced'
  BY <1>1, <1>2, <1>3, StepKeeps
<1> QED
  BY <1>1, <1>4, <1>5, QuietStep

(* A reply of the host brings no datagram.                                  *)
LEMMA HostAnswersStep ==
    ASSUME RInv, NEW p \in Routers, NEW q \in Routers, Two(p, q), Net!HostAnswers(p)
    PROVE  RInv'
<1>1. AllPlaced /\ IsFrames(link[p]) /\ sent' = sent
  BY DEF RInv, AllPlaced, Net!HostAnswers
<1>2. PICK f : /\ f = Net!ARPFrame(HostEthernet[p], InterfaceEthernet[p][Net!Lan],
                          Net!ARPMessage("reply", HostEthernet[p], HostIP[p],
                                         InterfaceEthernet[p][Net!Lan], InterfaceIP[p][Net!Lan]))
               /\ Net!Receive(p, Net!Lan, f, link[p])
  BY DEF Net!HostAnswers
<1>3. f.type = "ARP" /\ Carrying({f})
  BY <1>2 DEF Net!ARPFrame, Carrying
<1>4. Net!Receive(p, 1, f, link[p]) /\ 1 \in 1 .. 2
  BY <1>2 DEF Net!Lan
<1>5. ASSUME NEW id \in Nat
      PROVE  GrowsBy(p, q, id, 0)
  <2>1. Carried(id, <<f>>) = 0
    BY <1>3, FramesOne
  <2>2. PICK c \in Nat : c = Carried(id, link[p])
    BY <1>1, FramesType
  <2>3. Carried(id, <<f>>) + Carried(id, link[p]) <= Carried(id, link[p]) + 0
    BY <2>1, <2>2
  <2>4. 0 \in Nat
    OBVIOUS
  <2> QED
    BY <1>1, <1>3, <1>4, <2>3, <2>4, ReceiveKeeps
<1>6. AllPlaced'
  BY <1>1, <1>3, <1>4, ReceiveKeeps
<1> QED
  BY <1>1, <1>5, <1>6, QuietStep

(* A frame leaves the link for the router.                                  *)
LEMMA LinkDeliversStep ==
    ASSUME RInv, NEW p \in Routers, NEW q \in Routers, Two(p, q), Net!LinkDelivers(p)
    PROVE  RInv'
<1>1. AllPlaced /\ IsFrames(link[p]) /\ link[p] # <<>> /\ sent' = sent
  BY DEF RInv, AllPlaced, Net!LinkDelivers
<1>2. PICK f, rest : f = Head(link[p]) /\ rest = Tail(link[p])
  OBVIOUS
<1>3. Net!Receive(p, 2, f, rest) /\ 2 \in 1 .. 2
  BY <1>2 DEF Net!LinkDelivers, Net!Link
<1>4. /\ Carrying({f}) /\ IsFrames(<<f>>) /\ IsFrames(rest)
      /\ \A id : Carried(id, link[p]) = Carried(id, <<f>>) + Carried(id, rest)
  BY <1>1, <1>2, FramesBehindFirst
<1>5. ASSUME NEW id \in Nat
      PROVE  GrowsBy(p, q, id, 0)
  <2>1. PICK c \in Nat, a \in Nat, b \in Nat :
            c = Carried(id, link[p]) /\ a = Carried(id, <<f>>) /\ b = Carried(id, rest)
    BY <1>1, <1>4, FramesType
  <2>2. c = a + b
    BY <1>4, <2>1
  <2>3. a + b <= c + 0
    BY <2>2
  <2>4. 0 \in Nat
    OBVIOUS
  <2> QED
    BY <1>1, <1>3, <1>4, <2>1, <2>3, <2>4, ReceiveKeeps
<1>6. AllPlaced'
  BY <1>1, <1>3, <1>4, ReceiveKeeps
<1> QED
  BY <1>1, <1>5, <1>6, QuietStep

(* A frame leaves the link for nowhere.                                     *)
LEMMA LinkLosesStep ==
    ASSUME RInv, NEW p \in Routers, NEW q \in Routers, Two(p, q), Net!LinkLoses(p)
    PROVE  RInv'
<1>1. /\ AllPlaced /\ IsFrames(link[p]) /\ link[p] # <<>> /\ sent' = sent
      /\ router' = router /\ delivered' = delivered
  BY DEF RInv, AllPlaced, Net!LinkLoses
<1>2. PICK f, rest : f = Head(link[p]) /\ rest = Tail(link[p]) /\ link' = [link EXCEPT ![p] = rest]
  BY DEF Net!LinkLoses
<1>3. /\ IsFrames(<<f>>) /\ IsFrames(rest)
      /\ \A id : Carried(id, link[p]) = Carried(id, <<f>>) + Carried(id, rest)
  BY <1>1, <1>2, FramesBehindFirst
<1>4. DOMAIN link' = Routers /\ link'[p] = rest /\ link'[q] = link[q]
  BY <1>1, <1>2 DEF AllPlaced, Two
<1>5. AllPlaced'
  <2>1. \A z \in Routers : z = p \/ z = q
    BY DEF Two
  <2> QED
    BY <1>1, <1>3, <1>4, <2>1 DEF AllPlaced
<1>6. ASSUME NEW id \in Nat
      PROVE  GrowsBy(p, q, id, 0)
  <2>1. PICK lp \in Nat, cp \in Nat, dp \in Nat, b \in Nat, x \in Nat, y \in Nat :
            /\ lp = Load(id, router[p]) /\ cp = Carried(id, link[p]) /\ dp = Copies(id, delivered[p])
            /\ b = Burden(id, router[q], link[q], delivered[q])
            /\ x = Carried(id, <<f>>) /\ y = Carried(id, rest)
    BY <1>1, <1>3, BurdenType, FramesType DEF AllPlaced
  <2>2. cp = x + y
    BY <1>3, <2>1
  <2>3. Everywhere(id, p, q) = (lp + (cp + dp)) + b
    BY <2>1 DEF Everywhere, Burden
  <2>4. Everywhere(id, p, q)' = (lp + (y + dp)) + b
    <3>1. Everywhere(id, p, q)' = Burden(id, router[p], rest, delivered[p])
                                      + Burden(id, router[q], link[q], delivered[q])
      BY <1>1, <1>4 DEF Everywhere
    <3> QED
      BY <2>1, <3>1 DEF Burden
  <2>5. (lp + (y + dp)) + b <= ((lp + (cp + dp)) + b) + 0
    BY <2>2
  <2> QED
    BY <2>3, <2>4, <2>5 DEF GrowsBy
<1> QED
  BY <1>1, <1>5, <1>6, QuietStep

(* The one step that makes a copy, of a datagram that has none.             *)
LEMMA HostSendsStep ==
    ASSUME Net!NetworkAssumption, RInv, NEW p \in Routers, NEW q \in Routers, Two(p, q),
           NEW dst \in Destination, NEW ttl \in TTL, Net!HostSends(p, dst, ttl)
    PROVE  RInv'
<1>1. AllPlaced /\ IsFrames(link[p]) /\ sent \in Nat /\ sent' = sent + 1 /\ p # q
  BY DEF RInv, AllPlaced, Net!HostSends, Two
<1>2. PICK d : d = [id |-> sent + 1, dst |-> dst, ttl |-> ttl]
  OBVIOUS
<1>3. d \in Dgrams /\ d.id = sent + 1
  <2>1. ttl \in Int /\ sent + 1 \in Nat
    BY <1>1 DEF Net!NetworkAssumption
  <2> QED
    BY <1>2, <2>1 DEF Dgrams
<1>4. PICK f : /\ f = Net!IPv4Frame(HostEthernet[p], InterfaceEthernet[p][Net!Lan], d)
               /\ Net!Receive(p, Net!Lan, f, link[p])
  BY <1>2 DEF Net!HostSends
<1>5. f.type = "IPv4" /\ f.payload = d /\ Carrying({f})
  BY <1>3, <1>4 DEF Net!IPv4Frame, Carrying
<1>6. Net!Receive(p, 1, f, link[p]) /\ 1 \in 1 .. 2
  BY <1>4 DEF Net!Lan
<1>7. ASSUME NEW id \in Nat
      PROVE  GrowsBy(p, q, id, One(id, d)) /\ One(id, d) \in Nat
  <2>1. Carried(id, <<f>>) = One(id, d)
    BY <1>5, FramesOne
  <2>2. PICK c \in Nat, o \in Nat : c = Carried(id, link[p]) /\ o = One(id, d)
    <3>1. One(id, d) \in Nat
      BY DEF One
    <3> QED
      BY <1>1, <3>1, FramesType
  <2>3. Carried(id, <<f>>) + Carried(id, link[p]) <= Carried(id, link[p]) + o
    BY <2>1, <2>2
  <2> QED
    BY <1>1, <1>5, <1>6, <2>2, <2>3, ReceiveKeeps
<1>8. AllPlaced'
  BY <1>1, <1>5, <1>6, ReceiveKeeps
<1>9. ASSUME NEW id \in Nat
      PROVE  /\ Everywhere(id, p, q)' <= Allowed(id)'
             /\ Everywhere(id, q, p)' <= Allowed(id)'
  <2>1. Everywhere(id, p, q) <= Allowed(id)
    BY <1>1 DEF RInv
  <2>2. Everywhere(id, p, q)' <= Everywhere(id, p, q) + One(id, d)
    BY <1>7 DEF GrowsBy
  <2>3. PICK a \in Nat, b \in Nat : a = Burden(id, router[p], link[p], delivered[p])
                                    /\ b = Burden(id, router[q], link[q], delivered[q])
    BY <1>1, BurdenType DEF AllPlaced
  <2>4. PICK c \in Nat, e \in Nat : c = Burden(id, router'[p], link'[p], delivered'[p])
                                    /\ e = Burden(id, router'[q], link'[q], delivered'[q])
    BY <1>8, BurdenType DEF AllPlaced
  <2>5. Everywhere(id, p, q) = a + b /\ Everywhere(id, p, q)' = c + e /\ Everywhere(id, q, p)' = e + c
    BY <2>3, <2>4 DEF Everywhere
  <2>6. PICK u \in Nat, v \in Nat, o \in Nat : u = Allowed(id) /\ v = Allowed(id)' /\ o = One(id, d)
    BY <1>1, <1>7 DEF Allowed
  <2>7. u + o <= v
    <3>1. CASE id = sent + 1
      <4>1. u = 0 /\ v = 1 /\ o = 1
        BY <1>1, <1>3, <2>6, <3>1 DEF Allowed, One
      <4> QED
        BY <4>1
    <3>2. CASE id # sent + 1
      <4>1. o = 0
        BY <1>3, <2>6, <3>2 DEF One
      <4>2. u <= v
        BY <1>1, <2>6, <3>2 DEF Allowed
      <4> QED
        BY <4>1, <4>2
    <3> QED
      BY <3>1, <3>2
  <2>8. a + b <= u /\ c + e <= (a + b) + o
    BY <2>1, <2>2, <2>5, <2>6
  <2>9. c + e <= v /\ e + c <= v
    BY <2>7, <2>8
  <2> QED
    BY <2>5, <2>6, <2>9
<1>10. ASSUME NEW y \in Routers, NEW z \in Routers, y # z, NEW id \in Nat
       PROVE  Everywhere(id, y, z)' <= Allowed(id)'
  <2>1. (y = p /\ z = q) \/ (y = q /\ z = p)
    BY <1>10 DEF Two
  <2> QED
    BY <1>9, <2>1
<1>11. sent' \in Nat
  BY <1>1
<1> QED
  BY <1>8, <1>10, <1>11 DEF RInv

(* There is no datagram at first.                                           *)
LEMMA InitRInv == ASSUME Net!NetworkAssumption, Net!Init PROVE RInv
<1>1. ASSUME NEW p \in Routers
      PROVE  IsRouter(router[p]) /\ \A id : Load(id, router[p]) = 0
  <2>1. PICK r, i, j : /\ r = router[p]
                       /\ i = Net!NewInterface(InterfaceEthernet[p][1], InterfaceIP[p][1])
                       /\ j = Net!NewInterface(InterfaceEthernet[p][2], InterfaceIP[p][2])
    OBVIOUS
  <2>2. r = Net!NewRouter([n \in {1, 2} |->
                Net!NewInterface(InterfaceEthernet[p][n], InterfaceIP[p][n])])
    BY <2>1 DEF Net!Init, Net!Lan, Net!Link
  <2>3. {1, 2} = 1 .. 2
    OBVIOUS
  <2>4. /\ r = [interfaces |-> r.interfaces, routing_table |-> r.routing_table]
        /\ r.interfaces = [n \in 1 .. 2 |-> Net!NewInterface(InterfaceEthernet[p][n], InterfaceIP[p][n])]
    BY <2>2, <2>3 DEF Net!NewRouter
  <2>5. r.interfaces[1] = i /\ r.interfaces[2] = j /\ DOMAIN r.interfaces = 1 .. 2
        /\ r.interfaces = [n \in 1 .. 2 |-> r.interfaces[n]]
    BY <2>1, <2>4
  <2>6. \A id : IsInterface(i) /\ IsInterface(j) /\ Weight(id, i) = 0 /\ Weight(id, j) = 0
    BY <2>1, NewInterfaceIs
  <2>7. IsRouter(r)
    BY <2>4, <2>5, <2>6 DEF IsRouter
  <2>8. \A id : Load(id, r) = 0
    BY <2>5, <2>6 DEF Load
  <2> QED
    BY <2>1, <2>7, <2>8
<1>2. /\ DOMAIN router = Routers /\ DOMAIN link = Routers /\ DOMAIN delivered = Routers
      /\ sent = 0 /\ \A p \in Routers : link[p] = <<>> /\ delivered[p] = <<>>
  BY DEF Net!Init
<1>3. AllPlaced
  <2>1. <<>> \in Seq(Dgrams)
    OBVIOUS
  <2>2. IsFrames(<<>>)
    BY NoFrame
  <2> QED
    BY <1>1, <1>2, <2>1, <2>2 DEF AllPlaced
<1>4. ASSUME NEW p \in Routers, NEW id
      PROVE  Burden(id, router[p], link[p], delivered[p]) = 0
  <2>1. Load(id, router[p]) = 0 /\ Carried(id, <<>>) = 0 /\ Copies(id, <<>>) = 0
    BY <1>1, NoFrame, CopiesEmpty
  <2> QED
    BY <1>2, <2>1 DEF Burden
<1>5. ASSUME NEW p \in Routers, NEW q \in Routers, NEW id \in Nat
      PROVE  Everywhere(id, p, q) <= Allowed(id)
  <2>1. Everywhere(id, p, q) = 0
    BY <1>4 DEF Everywhere
  <2> QED
    BY <2>1 DEF Allowed
<1> QED
  BY <1>2, <1>3, <1>5 DEF RInv

(* No step adds a copy of a datagram that has one.                          *)
LEMMA NextRInv == ASSUME Net!NetworkAssumption, RInv, [Net!Next]_Net!vars PROVE RInv'
<1>1. CASE UNCHANGED Net!vars
  BY <1>1 DEF Net!vars, RInv, AllPlaced, Everywhere, Allowed
<1>2. CASE Net!Next
  <2>1. PICK p \in Routers :
            \/ \E entry \in Routes[p] : Net!GiveRoute(p, entry)
            \/ \E dst \in Destination, ttl \in TTL : Net!HostSends(p, dst, ttl)
            \/ Net!HostAnswers(p)
            \/ Net!LinkDelivers(p)
            \/ Net!LinkLoses(p)
            \/ Net!RouterRoutes(p)
            \/ Net!RouterTicks(p)
    BY <1>2 DEF Net!Next
  <2>2. PICK q \in Routers : Two(p, q)
    BY DEF Net!NetworkAssumption, Two
  <2>3. CASE \E entry \in Routes[p] : Net!GiveRoute(p, entry)
    BY <2>2, <2>3, GiveRouteStep
  <2>4. CASE \E dst \in Destination, ttl \in TTL : Net!HostSends(p, dst, ttl)
    BY <2>2, <2>4, HostSendsStep
  <2>5. CASE Net!HostAnswers(p)
    BY <2>2, <2>5, HostAnswersStep
  <2>6. CASE Net!LinkDelivers(p)
    BY <2>2, <2>6, LinkDeliversStep
  <2>7. CASE Net!LinkLoses(p)
    BY <2>2, <2>7, LinkLosesStep
  <2>8. CASE Net!RouterRoutes(p)
    BY <2>2, <2>8, RouterRoutesStep
  <2>9. CASE Net!RouterTicks(p)
    BY <2>2, <2>9, RouterTicksStep
  <2> QED
    BY <2>1, <2>3, <2>4, <2>5, <2>6, <2>7, <2>8, <2>9
<1> QED
  BY <1>1, <1>2

(* The sums of the model are those of the invariant.                        *)
LEMMA SumsAreSums == ASSUME NEW f PROVE Net!SumFunction(f) = SumFunctionOnSet(f, DOMAIN f)
BY DEF Net!SumFunction, Net!SumFunctionOnSet, Net!FoldFunctionOnSet, Net!MapThenFoldSet,
       SumFunctionOnSet, FoldFunctionOnSet, MapThenFoldSet

(* The sum over both routers.                                               *)
LEMMA SumsOfTheModel ==
    ASSUME NEW p \in Routers, NEW q \in Routers, Two(p, q), NEW f, DOMAIN f = Routers,
           f[p] \in Int, f[q] \in Int
    PROVE  Net!SumFunction(f) = f[p] + f[q]
<1>1. Net!SumFunction(f) = SumFunctionOnSet(f, Routers)
  BY SumsAreSums
<1> QED
  BY <1>1, SumOfTwo DEF Two

(* Times counts copies.                                                     *)
LEMMA TimesAre == ASSUME NEW id, NEW s PROVE Net!Times(id, s) = Copies(id, s)
BY DEF Net!Times, Net!Cardinality, Net!IsFiniteSet, Cardinality, IsFiniteSet, Copies, Places

(* Waiting counts the copies in the queues of an interface.                 *)
LEMMA WaitingIs ==
    ASSUME NEW p, NEW n, NEW id
    PROVE  Net!Waiting(p, n, id) = Held(id, router[p].interfaces[n].pending_datagrams)
<1>1. PICK m : m = router[p].interfaces[n].pending_datagrams
  OBVIOUS
<1>2. Net!Waiting(p, n, id) = Net!SumFunction([ip \in DOMAIN m |-> Net!Times(id, m[ip])])
  BY <1>1 DEF Net!Waiting
<1>3. [ip \in DOMAIN m |-> Net!Times(id, m[ip])] = Counts(id, m) /\ DOMAIN Counts(id, m) = DOMAIN m
  BY TimesAre DEF Counts
<1>4. Net!SumFunction(Counts(id, m)) = SumFunctionOnSet(Counts(id, m), DOMAIN m)
  <2>1. PICK f : f = Counts(id, m)
    OBVIOUS
  <2>2. Net!SumFunction(f) = SumFunctionOnSet(f, DOMAIN f)
    BY SumsAreSums
  <2> QED
    BY <1>3, <2>1, <2>2
<1> QED
  BY <1>1, <1>2, <1>3, <1>4 DEF Held

(* The invariant is what OneCopy says.                                      *)
LEMMA RInvOneCopy == ASSUME Net!NetworkAssumption, RInv PROVE Net!OneCopy
<1>1. PICK p \in Routers, q \in Routers : Two(p, q)
  BY DEF Net!NetworkAssumption, Two
<1>2. AllPlaced /\ p # q
  BY <1>1 DEF RInv, Two
<1>3. ASSUME NEW id \in 1 .. MaxSent
      PROVE  Net!Travelling(id) + Net!SumFunction([z \in Routers |-> Net!Times(id, delivered[z])]) <= 1
  <2>1. id \in Nat
    BY DEF Net!NetworkAssumption
  <2> DEFINE f == [z \in Routers |->
                     Net!Times(id, Net!Datagrams(link[z])) + Net!Times(id, Net!ReceivedDatagrams(router[z]))
                         + Net!Waiting(z, Net!Lan, id) + Net!Waiting(z, Net!Link, id)]
             h == [z \in Routers |-> Net!Times(id, delivered[z])]
  <2>2. ASSUME NEW z \in Routers
        PROVE  /\ f[z] \in Nat /\ h[z] \in Nat
               /\ f[z] + h[z] = Burden(id, router[z], link[z], delivered[z])
    <3>1. IsRouter(router[z]) /\ IsFrames(link[z]) /\ delivered[z] \in Seq(Dgrams)
      BY <1>2 DEF AllPlaced
    <3>2. f[z] = Carried(id, link[z]) + Copies(id, Net!ReceivedDatagrams(router[z]))
                     + Held(id, router[z].interfaces[1].pending_datagrams)
                     + Held(id, router[z].interfaces[2].pending_datagrams)
      BY TimesAre, WaitingIs DEF Carried, Net!Lan, Net!Link
    <3>3. h[z] = Copies(id, delivered[z])
      BY TimesAre
    <3>4. PICK c \in Nat, w \in Nat, x \in Nat, y \in Nat, d \in Nat :
              /\ c = Carried(id, link[z]) /\ w = Copies(id, Net!ReceivedDatagrams(router[z]))
              /\ x = Held(id, router[z].interfaces[1].pending_datagrams)
              /\ y = Held(id, router[z].interfaces[2].pending_datagrams)
              /\ d = Copies(id, delivered[z])
      <4>1. Copies(id, Net!ReceivedDatagrams(router[z])) \in Nat
        BY <3>1, ReceivedOfTwo, CopiesType
      <4>2. IsInterface(router[z].interfaces[1]) /\ IsInterface(router[z].interfaces[2])
        BY <3>1 DEF IsRouter
      <4>3. Carried(id, link[z]) \in Nat /\ Copies(id, delivered[z]) \in Nat
        BY <3>1, BurdenType
      <4> QED
        BY <4>1, <4>2, <4>3, WeightType
    <3> HIDE DEF f, h
    <3>5. Load(id, router[z]) = w + x + y
      BY <3>1, <3>4, LoadType
    <3>6. Burden(id, router[z], link[z], delivered[z]) = (w + x + y) + (c + d)
      BY <3>4, <3>5 DEF Burden
    <3>7. f[z] = c + w + x + y /\ h[z] = d
      BY <3>2, <3>3, <3>4
    <3> QED
      BY <3>6, <3>7
  <2>3. DOMAIN f = Routers /\ DOMAIN h = Routers
    OBVIOUS
  <2>4. Net!Travelling(id) = Net!SumFunction(f)
    BY DEF Net!Travelling
  <2> HIDE DEF f, h
  <2>5. PICK a \in Nat, b \in Nat, c \in Nat, d \in Nat : a = f[p] /\ b = f[q] /\ c = h[p] /\ d = h[q]
    BY <2>2
  <2>6. Net!SumFunction(f) = a + b /\ Net!SumFunction(h) = c + d
    <3>1. f[p] \in Int /\ f[q] \in Int /\ h[p] \in Int /\ h[q] \in Int
      BY <2>5
    <3>2. Net!SumFunction(f) = f[p] + f[q]
      BY <1>1, <2>3, <3>1, SumsOfTheModel
    <3>3. Net!SumFunction(h) = h[p] + h[q]
      BY <1>1, <2>3, <3>1, SumsOfTheModel
    <3> QED
      BY <2>5, <3>2, <3>3
  <2>7. Everywhere(id, p, q) = (a + c) + (b + d)
    BY <2>2, <2>5 DEF Everywhere
  <2>8. Everywhere(id, p, q) <= Allowed(id) /\ Allowed(id) \in {0, 1}
    BY <1>2, <2>1 DEF RInv, Allowed
  <2>9. (a + b) + (c + d) <= 1
    BY <2>7, <2>8
  <2> QED
    BY <2>4, <2>6, <2>9 DEF h
<1> QED
  BY <1>3 DEF Net!OneCopy

(* OneCopy for any two routers: any routes, also wrong and circular ones,   *)
(* any times to live, hosts that keep silent and a link that loses frames.  *)
(* Whatever route(), recv_frame() and tick() are called with, they pass a   *)
(* datagram on or drop it, and never leave it behind where it came from.    *)
THEOREM NeverDoubled == ASSUME Net!NetworkAssumption PROVE Net!Spec => []Net!OneCopy
<1>1. Net!Init => RInv
  BY InitRInv
<1>2. RInv /\ [Net!Next]_Net!vars => RInv'
  BY NextRInv
<1>3. RInv => Net!OneCopy
  BY RInvOneCopy
<1> QED
  BY <1>1, <1>2, <1>3, PTL DEF Net!Spec
=============================================================================

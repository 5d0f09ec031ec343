------------------------ MODULE TCPConnectionProofs ------------------------
(***************************************************************************)
(* A TCP connection, for every ISN, capacity, segment and window size,     *)
(* stream, size of the network and number of faults: whatever is lost,     *)
(* duplicated or overtaken, what is read is what was written, what is      *)
(* taken for acknowledged has been received, and a peer leaves only when   *)
(* both streams have come through.                                         *)
(***************************************************************************)
EXTENDS TCPConnection, OpsProofs

-----------------------------------------------------------------------------
(* The stream that a peer sends.                                            *)
WayOf(p) == [isn |-> Isn[p], length |-> Length[p]]

LEMMA WayFacts ==
    ASSUME NEW p \in Peers
    PROVE  WayOf(p) \in Ways /\ WayOf(p).isn = Isn[p] /\ WayOf(p).length = Length[p]
BY ConnectionAssumption DEF WayOf, Ways

LEMMA ListRemove ==
    ASSUME NEW n, Listed(n), NEW k \in DOMAIN n
    PROVE  Listed(RemoveAt(n, k)) /\ Items(RemoveAt(n, k)) \subseteq Items(n)
<1>1. PICK S : S = Items(n) /\ n \in Seq(S)
  BY DEF Listed
<1>2. PICK l \in Nat : l = Len(n) /\ k \in 1 .. l /\ \A j \in 1 .. l : n[j] \in S
  BY <1>1, LenProperties
<1>3. SubSeq(n, 1, k - 1) \in Seq(S) /\ SubSeq(n, k + 1, Len(n)) \in Seq(S)
  BY <1>1, <1>2, SubSeqProperties
<1>4. RemoveAt(n, k) \in Seq(S)
  BY <1>3 DEF RemoveAt
<1> QED
  BY <1>1, <1>4, ListOf

-----------------------------------------------------------------------------
(* The sequence numbers of either stream lie within half a cycle of its     *)
(* ISN: a stream of less than 2^31 bytes.                                   *)
ShortStreams == \A p \in Peers : 2 * (Length[p] + 2) < CYCLE

(* The invariant: both directions are in order, whatever is on its way.     *)
Inv ==
    /\ peer = [p \in Peers |-> peer[p]] /\ network = [p \in Peers |-> network[p]]
    /\ \A p \in Peers :
           /\ Linked(peer[p], peer[Other(p)], Items(network[p]), Items(network[Other(p)]),
                     WayOf(p), WayOf(Other(p)))
           /\ PushedAll(peer[p].sender)
           /\ Listed(network[p])

LEMMA OtherFacts ==
    ASSUME NEW p \in Peers
    PROVE  Other(p) \in Peers /\ Other(p) # p /\ Other(Other(p)) = p /\ Peers = {p, Other(p)}
BY ConnectionAssumption DEF Peers, Other

(* A step of one peer that sends what is proper.                            *)
LEMMA UpdateInv ==
    ASSUME Inv, NEW p \in Peers, NEW q, q = Other(p), NEW X, NEW np, NEW nq,
           Listed(np), Listed(nq), PushedAll(X.sender),
           Linked(X, peer[q], Items(network[p]), Items(network[q]), WayOf(p), WayOf(q)),
           Items(np) \subseteq Items(network[p]),
           \A m \in Items(nq) : m \in Items(network[q]) \/ Proper(m, X, Length[p]),
           peer' = [peer EXCEPT ![p] = X], network' = [network EXCEPT ![p] = np, ![q] = nq]
    PROVE  Inv'
<1>1. q \in Peers /\ q # p /\ Other(q) = p /\ Peers = {p, q}
  BY OtherFacts
<1>2. /\ peer' = [r \in Peers |-> peer'[r]] /\ network' = [r \in Peers |-> network'[r]]
      /\ peer'[p] = X /\ peer'[q] = peer[q] /\ network'[p] = np /\ network'[q] = nq
  BY <1>1 DEF Inv
<1>3. PICK Q : Q = peer[q] /\ Shaped(Q) /\ PushedAll(Q.sender)
  BY <1>1, WayFacts DEF Inv, Linked
<1>4. Flow(X.sender, Q.receiver, Items(nq), Items(np), Isn[p], Length[p])
  <2>1. ASSUME NEW m \in Items(nq)
        PROVE  Fits(m.sender, X.sender, Length[p])
    BY <1>1, <1>3, WayFacts DEF Linked, Flow, Proper
  <2> QED
    BY <1>1, <1>3, <2>1, WayFacts DEF Linked, Flow
<1>5. Flow(Q.sender, X.receiver, Items(np), Items(nq), Isn[q], Length[q])
  <2>1. ASSUME NEW m \in Items(nq)
        PROVE  Answers(m.receiver, X.receiver)
    BY <1>1, <1>3, WayFacts DEF Linked, Flow, Proper
  <2> QED
    BY <1>1, <1>3, <2>1, WayFacts DEF Linked, Flow
<1>6. /\ Linked(X, Q, Items(np), Items(nq), WayOf(p), WayOf(q))
      /\ Linked(Q, X, Items(nq), Items(np), WayOf(q), WayOf(p))
  BY <1>1, <1>3, <1>4, <1>5, WayFacts DEF Linked
<1>7. ASSUME NEW r \in Peers
      PROVE  /\ Linked(peer'[r], peer'[Other(r)], Items(network'[r]), Items(network'[Other(r)]),
                       WayOf(r), WayOf(Other(r)))
             /\ PushedAll(peer'[r].sender)
             /\ Listed(network'[r])
  <2>1. CASE r = p
    BY <1>2, <1>3, <1>6, <2>1
  <2>2. CASE r = q
    BY <1>1, <1>2, <1>3, <1>6, <2>2
  <2> QED
    BY <1>1, <2>1, <2>2
<1> QED
  BY <1>2, <1>7 DEF Inv

LEMMA StepInv ==
    ASSUME Inv, NEW p \in Peers, NEW x, Sends(x, Length[p]), PushedAll(x.peer.sender),
           Linked(x.peer, peer[Other(p)], Items(network[p]), Items(network[Other(p)]),
                  WayOf(p), WayOf(Other(p))),
           NEW left, Listed(left), Items(left) \subseteq Items(network[p]), Step(p, x, left)
    PROVE  Inv'
<1>1. PICK q : q = Other(p) /\ q \in Peers /\ q # p
  BY OtherFacts
<1>2. PICK all : /\ all = network[q] \o x.sent /\ Listed(all)
                 /\ Items(all) \subseteq Items(network[q]) \cup Items(x.sent)
                 /\ Len(network[q]) \in Nat /\ Len(x.sent) \in Nat
                 /\ Len(all) = Len(network[q]) + Len(x.sent)
  <2>1. Listed(network[q]) /\ Listed(x.sent)
    BY <1>1 DEF Inv, Sends
  <2> QED
    BY <2>1, ListConcat
<1>3. PICK k \in Nat : k = Least(Len(network[q]) + Len(x.sent), MaxInFlight) /\ k <= Len(all)
  <2>1. PICK l \in Nat, m \in Nat : l = Len(network[q]) /\ m = Len(x.sent) /\ l + m = Len(all)
    BY <1>2
  <2>2. MaxInFlight \in Nat
    BY ConnectionAssumption
  <2>3. Least(l + m, MaxInFlight) \in Nat /\ Least(l + m, MaxInFlight) <= l + m
    BY <2>2 DEF Least
  <2> QED
    BY <2>1, <2>3
<1>4. PICK nq : nq = Take(all, k) /\ Listed(nq) /\ Items(nq) \subseteq Items(all)
  BY <1>2, <1>3, ListTake
<1>5. PICK X : X = Coarse(x.peer)
  OBVIOUS
<1>6. /\ Linked(X, peer[q], Items(network[p]), Items(network[q]), WayOf(p), WayOf(q))
      /\ PushedAll(X.sender)
      /\ \A m : Proper(m, x.peer, Length[p]) => Proper(m, X, Length[p])
  BY <1>1, <1>5, PeerCoarse, WayFacts
<1>7. ASSUME NEW m \in Items(nq)
      PROVE  m \in Items(network[q]) \/ Proper(m, X, Length[p])
  BY <1>2, <1>4, <1>6 DEF Sends
<1>8. peer' = [peer EXCEPT ![p] = X] /\ network' = [network EXCEPT ![p] = left, ![q] = nq]
  <2>1. network' = [network EXCEPT ![p] = left,
                        ![q] = Take(@ \o x.sent, Least(Len(@) + Len(x.sent), MaxInFlight))]
    BY <1>1 DEF Step
  <2>2. network = [r \in Peers |-> network[r]]
    BY DEF Inv
  <2> QED
    BY <1>1, <1>2, <1>3, <1>4, <1>5, <2>1, <2>2 DEF Step
<1> QED
  BY <1>1, <1>4, <1>6, <1>7, <1>8, UpdateInv

(* A datagram is heard, or passed over.                                     *)
LEMMA HearInv ==
    ASSUME ShortStreams, Inv, NEW p \in Peers, NEW msg \in Items(network[p]),
           NEW left, Listed(left), Items(left) \subseteq Items(network[p]), Hear(p, msg, left)
    PROVE  Inv'
<1>1. PICK q : q = Other(p) /\ q \in Peers
  BY OtherFacts
<1>2. PICK x : x = IF Hears(p, msg) THEN PeerReceive(peer[p], msg) ELSE PeerResult(peer[p], <<>>)
  OBVIOUS
<1>3. /\ Linked(peer[p], peer[q], Items(network[p]), Items(network[q]), WayOf(p), WayOf(q))
      /\ PushedAll(peer[p].sender)
  BY <1>1 DEF Inv
<1>4. /\ Linked(x.peer, peer[q], Items(network[p]), Items(network[q]), WayOf(p), WayOf(q))
      /\ PushedAll(x.peer.sender) /\ Sends(x, Length[p])
  <2>1. CASE Hears(p, msg)
    <3>1. 2 * (Length[q] + 2) < CYCLE
      BY <1>1 DEF ShortStreams
    <3> QED
      BY <1>1, <1>2, <1>3, <2>1, <3>1, PeerReceiveResult, WayFacts
  <2>2. CASE ~Hears(p, msg)
    <3>1. x = [peer |-> peer[p], sent |-> <<>>]
      BY <1>2, <2>2 DEF PeerResult
    <3>2. x.peer = peer[p] /\ x.sent = <<>>
      BY <3>1
    <3>3. Listed(<<>>) /\ Items(<<>>) = {}
      BY DEF Listed, Items
    <3> QED
      BY <1>3, <3>2, <3>3 DEF Sends
  <2> QED
    BY <2>1, <2>2
<1>5. Step(p, x, left)
  BY <1>2 DEF Hear
<1> QED
  BY <1>1, <1>4, <1>5, StepInv

LEMMA InputInv ==
    ASSUME ShortStreams, Inv, NEW p \in Peers, NEW input,
           Extends(input, peer[p].sender.input, Length[p]), NEW P,
           P = [peer[p] EXCEPT !.sender.input = input], Step(p, PeerPush(P), network[p])
    PROVE  Inv'
<1>1. PICK q : q = Other(p) /\ q \in Peers
  BY OtherFacts
<1>2. /\ Linked(peer[p], peer[q], Items(network[p]), Items(network[q]), WayOf(p), WayOf(q))
      /\ Listed(network[p])
  BY <1>1 DEF Inv
<1>3. Linked(P, peer[q], Items(network[p]), Items(network[q]), WayOf(p), WayOf(q))
  BY <1>1, <1>2, LinkedInput, WayFacts DEF ShortStreams
<1>4. PICK x : x = PeerPush(P)
  OBVIOUS
<1>5. /\ Linked(x.peer, peer[q], Items(network[p]), Items(network[q]), WayOf(p), WayOf(q))
      /\ Sends(x, Length[p]) /\ PushedAll(x.peer.sender)
  BY <1>1, <1>3, <1>4, PeerPushResult, WayFacts
<1> QED
  BY <1>1, <1>2, <1>4, <1>5, StepInv

LEMMA ServingOf ==
    ASSUME Inv, NEW p \in Peers
    PROVE  \E a : Serving(peer[p].sender, a, Isn[p], Length[p])
                  /\ a <= InOrder(peer[Other(p)].receiver)
BY WayFacts, OtherFacts DEF Inv, Linked, Flow

LEMMA ReadInv ==
    ASSUME Inv, NEW p \in Peers, Read(p)
    PROVE  Inv'
<1>1. PICK q : q = Other(p) /\ q \in Peers /\ q # p
  BY OtherFacts
<1>2. PICK P : P = peer[p]
  OBVIOUS
<1>3. /\ Linked(P, peer[q], Items(network[p]), Items(network[q]), WayOf(p), WayOf(q))
      /\ PushedAll(P.sender) /\ Listed(network[p]) /\ Listed(network[q])
  BY <1>1, <1>2 DEF Inv
<1>4. PICK s, r, n, f, i :
          /\ P = [sender |-> s, receiver |-> r, need_send |-> n,
                  linger_after_streams_finish |-> f, idle |-> i]
          /\ s = P.sender /\ r = P.receiver
  BY <1>3, WayFacts DEF Linked, Shaped
<1>5. PICK w : w = [r EXCEPT !.reassembler.output = StreamPop(@, 1)]
  OBVIOUS
<1>6. Flow(peer[q].sender, w, Items(network[p]), Items(network[q]), Isn[q], Length[q])
  <2>1. Length[q] \in Nat /\ 1 \in Nat
    BY <1>1, ConnectionAssumption
  <2>2. Flow(peer[q].sender, r, Items(network[p]), Items(network[q]), Isn[q], Length[q])
    BY <1>1, <1>3, <1>4, WayFacts DEF Linked
  <2> QED
    BY <1>5, <2>1, <2>2, FlowRead
<1>7. PICK X : X = [sender |-> s, receiver |-> w, need_send |-> n,
                    linger_after_streams_finish |-> f, idle |-> i]
  OBVIOUS
<1>8. Shaped(X) /\ X.sender = s /\ X.receiver = w
  BY <1>7 DEF Shaped
<1>9. Linked(X, peer[q], Items(network[p]), Items(network[q]), WayOf(p), WayOf(q))
  BY <1>1, <1>3, <1>4, <1>6, <1>8, WayFacts DEF Linked
<1>10. X = [P EXCEPT !.receiver.reassembler.output = StreamPop(@, 1)]
  BY <1>4, <1>5, <1>7
<1>11. peer' = [peer EXCEPT ![p] = X]
  <2>1. peer' = [peer EXCEPT ![p] = [P EXCEPT !.receiver.reassembler.output = StreamPop(@, 1)]]
    BY <1>2 DEF Read
  <2> QED
    BY <1>10, <2>1
<1>12. network' = [network EXCEPT ![p] = network[p], ![q] = network[q]]
  <2>1. network = [r2 \in Peers |-> network[r2]] /\ network' = network
    BY DEF Inv, Read
  <2> QED
    BY <1>1, <2>1
<1> QED
  BY <1>1, <1>3, <1>4, <1>8, <1>9, <1>11, <1>12, UpdateInv

LEMMA LoseInv ==
    ASSUME Inv, NEW p \in Peers, Lose(p)
    PROVE  Inv'
<1>1. PICK q : q = Other(p) /\ q \in Peers /\ q # p
  BY OtherFacts
<1>2. PICK P : P = peer[p]
  OBVIOUS
<1>3. /\ Linked(P, peer[q], Items(network[p]), Items(network[q]), WayOf(p), WayOf(q))
      /\ PushedAll(P.sender) /\ Listed(network[p]) /\ Listed(network[q])
  BY <1>1, <1>2 DEF Inv
<1>4. PICK np : np = Tail(network[p]) /\ Listed(np) /\ Items(np) \subseteq Items(network[p])
  BY <1>3, ListTail DEF Lose
<1>5. peer' = [peer EXCEPT ![p] = P]
  BY <1>2 DEF Inv, Lose
<1>6. network' = [network EXCEPT ![p] = np, ![q] = network[q]]
  <2>1. network = [r \in Peers |-> network[r]] /\ network' = [network EXCEPT ![p] = Tail(@)]
    BY DEF Inv, Lose
  <2> QED
    BY <1>1, <1>4, <2>1
<1> QED
  BY <1>1, <1>3, <1>4, <1>5, <1>6, UpdateInv

LEMMA TickInv ==
    ASSUME Inv, NEW p \in Peers, Tick(p)
    PROVE  Inv'
<1>1. PICK q : q = Other(p) /\ q \in Peers
  BY OtherFacts
<1>2. /\ Linked(peer[p], peer[q], Items(network[p]), Items(network[q]), WayOf(p), WayOf(q))
      /\ PushedAll(peer[p].sender) /\ Listed(network[p])
  BY <1>1 DEF Inv
<1>3. PICK ms \in Nat : ms = IF peer[p].sender.timer_running THEN InitialRTO ELSE LINGER * InitialRTO
  <2>1. LINGER \in Nat /\ InitialRTO \in Nat
    BY PeerAssumption, SenderAssumption
  <2>2. LINGER * InitialRTO \in Nat
    BY <2>1
  <2> QED
    BY <2>1, <2>2
<1>4. PICK x : x = PeerTick(peer[p], ms)
  OBVIOUS
<1>5. /\ Linked(x.peer, peer[q], Items(network[p]), Items(network[q]), WayOf(p), WayOf(q))
      /\ Sends(x, Length[p]) /\ PushedAll(x.peer.sender)
  BY <1>1, <1>2, <1>4, PeerTickResult, WayFacts
<1>6. Step(p, x, network[p])
  BY <1>3, <1>4 DEF Tick
<1> QED
  BY <1>1, <1>2, <1>5, <1>6, StepInv

LEMMA ConnectInv ==
    ASSUME Inv, Connect
    PROVE  Inv'
<1>1. PICK p \in Peers : p = Client
  BY DEF Peers
<1>2. PICK q : q = Other(p) /\ q \in Peers
  BY OtherFacts
<1>3. /\ Linked(peer[p], peer[q], Items(network[p]), Items(network[q]), WayOf(p), WayOf(q))
      /\ Listed(network[p])
  BY <1>2 DEF Inv
<1>4. PICK x : x = PeerPush(peer[p])
  OBVIOUS
<1>5. /\ Linked(x.peer, peer[q], Items(network[p]), Items(network[q]), WayOf(p), WayOf(q))
      /\ Sends(x, Length[p]) /\ PushedAll(x.peer.sender)
  BY <1>2, <1>3, <1>4, PeerPushResult, WayFacts
<1>6. Step(p, x, network[p])
  BY <1>1, <1>4 DEF Connect
<1> QED
  BY <1>2, <1>3, <1>5, <1>6, StepInv

LEMMA WriteInv ==
    ASSUME ShortStreams, Inv, NEW p \in Peers, NEW len \in WriteLen, Write(p, len)
    PROVE  Inv'
<1>1. PICK s : s = peer[p].sender
  OBVIOUS
<1>2. PICK a : Serving(s, a, Isn[p], Length[p])
  BY <1>1, ServingOf
<1>3. Length[p] \in Nat /\ len \in Nat
  BY ConnectionAssumption
<1>4. BytesPushed(s.input) + len <= Length[p]
  BY <1>1 DEF Write, Outbound
<1>5. PICK input : input = StreamPush(s.input, Bytes(BytesPushed(s.input), len))
  OBVIOUS
<1>6. Extends(input, s.input, Length[p])
  BY <1>2, <1>3, <1>4, <1>5, WriteExtends
<1>7. PICK P : P = [peer[p] EXCEPT !.sender.input = input]
  OBVIOUS
<1>8. P = [peer[p] EXCEPT !.sender.input = StreamPush(@, Bytes(BytesPushed(Outbound(peer[p])), len))]
  BY <1>1, <1>5, <1>7 DEF Outbound
<1>9. Step(p, PeerPush(P), network[p])
  BY <1>8 DEF Write
<1> QED
  BY <1>1, <1>6, <1>7, <1>9, InputInv

LEMMA CloseInv ==
    ASSUME ShortStreams, Inv, NEW p \in Peers, Close(p)
    PROVE  Inv'
<1>1. PICK s : s = peer[p].sender
  OBVIOUS
<1>2. PICK a : Serving(s, a, Isn[p], Length[p])
  BY <1>1, ServingOf
<1>3. Length[p] \in Nat
  BY ConnectionAssumption
<1>4. BytesPushed(s.input) = Length[p]
  BY <1>1 DEF Close, Outbound
<1>5. PICK input : input = StreamClose(s.input)
  OBVIOUS
<1>6. Extends(input, s.input, Length[p])
  BY <1>2, <1>3, <1>4, <1>5, CloseExtends
<1>7. PICK P : P = [peer[p] EXCEPT !.sender.input = input]
  OBVIOUS
<1>8. P = [peer[p] EXCEPT !.sender.input = StreamClose(@)]
  BY <1>1, <1>5, <1>7
<1>9. Step(p, PeerPush(P), network[p])
  BY <1>8 DEF Close
<1> QED
  BY <1>1, <1>6, <1>7, <1>9, InputInv

LEMMA DeliverInv ==
    ASSUME ShortStreams, Inv, NEW p \in Peers,
           Deliver(p) \/ \E k \in DOMAIN network[p], d \in BOOLEAN : DeliverFaulty(p, k, d)
    PROVE  Inv'
<1>1. PICK n : n = network[p] /\ Listed(n)
  BY DEF Inv
<1>2. CASE Deliver(p)
  <2>1. n # <<>> /\ Hear(p, Head(n), Tail(n))
    BY <1>1, <1>2 DEF Deliver
  <2>2. PICK msg, left : /\ msg = Head(n) /\ left = Tail(n) /\ Listed(left)
                         /\ Items(left) \subseteq Items(n) /\ msg \in Items(n)
    BY <1>1, <2>1, ListTail
  <2> QED
    BY <1>1, <2>1, <2>2, HearInv
<1>3. CASE \E k \in DOMAIN network[p], d \in BOOLEAN : DeliverFaulty(p, k, d)
  <2>1. PICK k \in DOMAIN n, d \in BOOLEAN : DeliverFaulty(p, k, d)
    BY <1>1, <1>3
  <2>2. PICK msg, left : msg = n[k] /\ left = (IF d THEN n ELSE RemoveAt(n, k))
    OBVIOUS
  <2>3. Hear(p, msg, left)
    BY <1>1, <2>1, <2>2 DEF DeliverFaulty
  <2>4. msg \in Items(n)
    BY <2>2 DEF Items
  <2>5. Listed(left) /\ Items(left) \subseteq Items(n)
    BY <1>1, <2>2, ListRemove
  <2> QED
    BY <1>1, <2>3, <2>4, <2>5, HearInv
<1> QED
  BY <1>2, <1>3

LEMMA NextInv ==
    ASSUME ShortStreams, Inv, [Next]_vars
    PROVE  Inv'
<1>1. CASE Connect
  BY <1>1, ConnectInv
<1>2. ASSUME NEW p \in Peers, NEW len \in WriteLen, Write(p, len)
      PROVE  Inv'
  BY <1>2, WriteInv
<1>3. ASSUME NEW p \in Peers, Close(p)
      PROVE  Inv'
  BY <1>3, CloseInv
<1>4. ASSUME NEW p \in Peers, Read(p)
      PROVE  Inv'
  BY <1>4, ReadInv
<1>5. ASSUME NEW p \in Peers,
             Deliver(p) \/ \E k \in DOMAIN network[p], d \in BOOLEAN : DeliverFaulty(p, k, d)
      PROVE  Inv'
  BY <1>5, DeliverInv
<1>6. ASSUME NEW p \in Peers, Lose(p)
      PROVE  Inv'
  BY <1>6, LoseInv
<1>7. ASSUME NEW p \in Peers, Tick(p)
      PROVE  Inv'
  BY <1>7, TickInv
<1>8. CASE UNCHANGED vars
  BY <1>8 DEF vars, Inv
<1> QED
  BY <1>1, <1>2, <1>3, <1>4, <1>5, <1>6, <1>7, <1>8 DEF Next

LEMMA InitInv ==
    ASSUME ShortStreams, Init
    PROVE  Inv
<1>1. /\ peer = [p \in Peers |-> peer[p]] /\ network = [p \in Peers |-> network[p]]
      /\ \A p \in Peers : /\ peer[p] = NewPeer(SendCapacity, RecvCapacity, Isn[p])
                          /\ network[p] = <<>>
  BY DEF Init
<1>2. Listed(<<>>) /\ Items(<<>>) = {}
  BY DEF Listed, Items
<1>3. ASSUME NEW p \in Peers
      PROVE  /\ Shaped(peer[p])
             /\ peer[p].sender = NewSender(NewStream(SendCapacity), Isn[p])
             /\ peer[p].receiver = NewReceiver(NewReassembler(NewStream(RecvCapacity)))
  <2>1. PICK s, r : /\ s = NewSender(NewStream(SendCapacity), Isn[p])
                    /\ r = NewReceiver(NewReassembler(NewStream(RecvCapacity)))
    OBVIOUS
  <2>2. PICK P : P = peer[p]
                 /\ P = [sender |-> s, receiver |-> r, need_send |-> FALSE,
                         linger_after_streams_finish |-> TRUE, idle |-> 0]
    BY <1>1, <2>1 DEF NewPeer
  <2>3. Shaped(P) /\ P.sender = s /\ P.receiver = r
    BY <2>2 DEF Shaped
  <2> QED
    BY <2>1, <2>2, <2>3
<1>4. ASSUME NEW p \in Peers, NEW q \in Peers
      PROVE  /\ Flow(peer[p].sender, peer[q].receiver, {}, {}, Isn[p], Length[p])
             /\ PushedAll(peer[p].sender)
  <2>1. /\ Length[p] \in Nat /\ 2 * (Length[p] + 2) < CYCLE /\ Isn[p] \in Seqnos
        /\ SendCapacity \in Nat /\ RecvCapacity \in Nat
    BY ConnectionAssumption DEF ShortStreams
  <2> QED
    BY <1>3, <2>1, FlowNew
<1>5. ASSUME NEW p \in Peers
      PROVE  /\ Linked(peer[p], peer[Other(p)], {}, {}, WayOf(p), WayOf(Other(p)))
             /\ PushedAll(peer[p].sender)
  BY <1>3, <1>4, OtherFacts, WayFacts DEF Linked
<1> QED
  BY <1>1, <1>2, <1>5, OtherFacts DEF Inv

LEMMA Invariance ==
    ASSUME ShortStreams
    PROVE  Spec => []Inv
<1>1. Init => Inv
  BY InitInv
<1>2. Inv /\ [Next]_vars => Inv'
  BY NextInv
<1> QED
  BY <1>1, <1>2, PTL DEF Spec

-----------------------------------------------------------------------------
LEMMA IntactHolds ==
    ASSUME Inv
    PROVE  StreamsIntact
<1>1. SUFFICES ASSUME NEW p \in Peers
               PROVE  LET inbound == Inbound(peer[p])
                      IN  /\ \A k \in DOMAIN inbound.queue :
                                 inbound.queue[k] = inbound.popped + k - 1
                          /\ BytesPushed(inbound) <= BytesPushed(Outbound(peer[Other(p)]))
                          /\ IsClosed(inbound) => /\ IsClosed(Outbound(peer[Other(p)]))
                                                  /\ BytesPushed(inbound) = Length[Other(p)]
  BY DEF StreamsIntact
<1>2. PICK q : q = Other(p) /\ q \in Peers /\ Length[q] \in Nat
  BY OtherFacts, ConnectionAssumption
<1>3. PICK s, r : /\ s = peer[q].sender /\ r = peer[p].receiver
                  /\ Flow(s, r, Items(network[p]), Items(network[q]), Isn[q], Length[q])
  BY <1>2, WayFacts DEF Inv, Linked
<1>4. Delivered(s, r, Length[q])
  BY <1>2, <1>3, FlowDelivers
<1>5. PICK inbound : /\ inbound = r.reassembler.output
                     /\ StreamIntact(inbound) /\ IsRun(inbound.queue, inbound.popped)
  BY <1>4 DEF Delivered, StreamIntact
<1>6. \A k \in DOMAIN inbound.queue : inbound.queue[k] = inbound.popped + k - 1
  <2>1. DOMAIN inbound.queue = 1 .. Len(inbound.queue)
    BY <1>5, LenProperties DEF IsRun
  <2> QED
    BY <1>5, <2>1 DEF IsRun
<1> QED
  BY <1>2, <1>3, <1>4, <1>5, <1>6 DEF Delivered, Inbound, Outbound, IsClosed

LEMMA AckedHolds ==
    ASSUME ShortStreams, Inv
    PROVE  AckedIsReceived
<1>1. SUFFICES ASSUME NEW p \in Peers, peer[p].sender.sender_syn
               PROVE  Abs(peer[p].sender, peer[p].sender.last_ackno) <= Received(Other(p))
  BY DEF AckedIsReceived
<1>2. PICK q : q = Other(p) /\ q \in Peers /\ Length[p] \in Nat
  BY OtherFacts, ConnectionAssumption
<1>3. PICK s, r : /\ s = peer[p].sender /\ r = peer[q].receiver
                  /\ Flow(s, r, Items(network[q]), Items(network[p]), Isn[p], Length[p])
  BY <1>2, WayFacts DEF Inv, Linked
<1>4. PICK a : Serving(s, a, Isn[p], Length[p]) /\ a <= InOrder(r)
  BY <1>3 DEF Flow
<1>5. SenderInv(s, a) /\ s \in Senders /\ s.isn \in Seqnos /\ a \in 0 .. NextAbs(s)
      /\ s.last_ackno = Wrap(a, s.isn)
  BY <1>2, <1>4, ServingFacts DEF Serving, SenderInv, Acked
<1>6. PICK n \in 0 .. Longest + 2 : n = NextAbs(s) /\ s.next_seqno = Wrap(n, s.isn)
  <2>1. s.next_seqno = Wrap(NextAbs(s), s.isn)
    BY <1>5 DEF SenderInv, Acked, AckedWithin, Sent
  <2>2. PICK n \in 0 .. Longest + 2 : n = NextAbs(s)
    BY <1>5, SenderFacts DEF SenderInv
  <2> QED
    BY <2>1, <2>2
<1>7. Longest \in Nat
  <2>1. Length[p] <= Longest /\ Longest \in Int
    BY <1>2, LongestFacts DEF ShortStreams
  <2> QED
    BY <1>2, <2>1
<1>8. Abs(s, s.last_ackno) = a
  <2>1. a \in 0 .. n + 1
    BY <1>5, <1>6, <1>7
  <2> QED
    BY <1>5, <1>6, <1>7, <2>1, AbsFacts
<1>9. Received(q) = InOrder(r)
  BY <1>3 DEF Received, InOrder, Inbound, NextByteIndex, IsClosed
<1> QED
  BY <1>2, <1>3, <1>4, <1>8, <1>9

(* A peer that has left has been told of everything it sent.                *)
LEMMA LeavingHolds ==
    ASSUME Inv
    PROVE  NothingLostByLeaving
<1>1. SUFFICES ASSUME NEW p \in Peers, ~Active(peer[p])
               PROVE  IsClosed(Inbound(peer[p])) /\ IsClosed(Inbound(peer[Other(p)]))
  BY OtherFacts DEF NothingLostByLeaving
<1>2. PICK q : q = Other(p) /\ q \in Peers /\ Length[p] \in Nat /\ Length[q] \in Nat
  BY OtherFacts, ConnectionAssumption
<1>3. PICK s, r : /\ s = peer[p].sender /\ r = peer[q].receiver
                  /\ Flow(s, r, Items(network[q]), Items(network[p]), Isn[p], Length[p])
                  /\ PushedAll(s) /\ Hearing(peer[p].receiver, Isn[q], Length[q])
  BY <1>2, WayFacts DEF Inv, Linked, Flow
<1>4. PICK a : Serving(s, a, Isn[p], Length[p]) /\ a <= InOrder(r)
  BY <1>3 DEF Flow
<1>5. ~HasErrors(peer[p])
  BY <1>3, <1>4 DEF HasErrors, Inbound, Outbound, Serving, Hearing
<1>6. ~SenderActive(peer[p]) /\ ~ReceiverActive(peer[p])
  BY <1>1, <1>5 DEF Active
<1>7. IsFinished(s.input) /\ ~(SequenceNumbersInFlight(s) > 0)
  BY <1>3, <1>6 DEF SenderActive, Outbound
<1>8. r.reassembler.output.eof
  BY <1>2, <1>3, <1>7, FlowComplete
<1> QED
  BY <1>2, <1>3, <1>6, <1>8 DEF ReceiverActive, Inbound, IsClosed

-----------------------------------------------------------------------------
(* What an owner reads is what the other one wrote: every byte, once, in    *)
(* order, and the end of the stream only behind the last of them, however   *)
(* many segments are lost, duplicated or overtaken (TCPSender::push and     *)
(* tick, TCPReceiver::receive, Reassembler::insert).                        *)
THEOREM ReadIsWritten ==
    ASSUME ShortStreams
    PROVE  Spec => []StreamsIntact
<1>1. Inv => StreamsIntact
  BY IntactHolds
<1> QED
  BY <1>1, Invariance, PTL

(* What a sender takes for acknowledged, and never sends again, is with its *)
(* peer (TCPReceiver::send, TCPSender::receive).                            *)
THEOREM AcksAreTrue ==
    ASSUME ShortStreams
    PROVE  Spec => []AckedIsReceived
<1>1. Inv => AckedIsReceived
  BY AckedHolds
<1> QED
  BY <1>1, Invariance, PTL

(* A peer is no longer active only when both streams have come through      *)
(* (TCPPeer::active): nothing is lost by leaving, whichever side closes     *)
(* first.                                                                   *)
THEOREM LeavingIsSafe ==
    ASSUME ShortStreams
    PROVE  Spec => []NothingLostByLeaving
<1>1. Inv => NothingLostByLeaving
  BY LeavingHolds
<1> QED
  BY <1>1, Invariance, PTL
=============================================================================

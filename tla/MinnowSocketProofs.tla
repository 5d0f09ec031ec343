------------------------- MODULE MinnowSocketProofs -------------------------
(***************************************************************************)
(* A TCPMinnowSocket, for every capacity, buffer, ISN and number of bytes: *)
(* whatever its thread, its owner, the other side and strangers do, and in *)
(* whatever order, no byte is lost between the sockets and the streams,    *)
(* strangers change nothing, the thread dies of nothing but an owner that  *)
(* stops reading or a reset, and its end is clean.                         *)
(***************************************************************************)
EXTENDS MinnowSocket, OpsProofs

-----------------------------------------------------------------------------
(* The streams that P may yet turn out to send, at most as long as most:    *)
(* how long the stream is shows when it is closed.                          *)
WaysOf(P, most) ==
    {w \in Ways : /\ w.isn = most.isn /\ w.length <= most.length
                  /\ BytesPushed(Outbound(P)) <= w.length
                  /\ Outbound(P).eof => w.length = BytesPushed(Outbound(P))}

(* Two peers P and Q whose connection is in order, whatever the length of   *)
(* the streams turns out to be.                                             *)
Joined(P, Q, np, nq, a, b) ==
    /\ Shaped(P) /\ PushedAll(P.sender) /\ Shaped(Q) /\ PushedAll(Q.sender)
    /\ BytesPushed(Outbound(P)) \in 0 .. a.length
    /\ BytesPushed(Outbound(Q)) \in 0 .. b.length
    /\ \A p \in WaysOf(P, a), q \in WaysOf(Q, b) :
           Linked(P, Q, np, nq, p, q) /\ Linked(Q, P, nq, np, q, p)

(* The way whose length is what has been written.                           *)
SoFar(P, a) == [isn |-> a.isn, length |-> BytesPushed(Outbound(P))]

LEMMA SoFarIsAWay ==
    ASSUME NEW P, NEW a \in Ways, BytesPushed(Outbound(P)) \in 0 .. a.length
    PROVE  /\ SoFar(P, a) \in WaysOf(P, a)
           /\ SoFar(P, a).isn = a.isn /\ SoFar(P, a).length = BytesPushed(Outbound(P))
<1>1. PICK n \in Nat, m \in Nat : n = BytesPushed(Outbound(P)) /\ m = a.length /\ n <= m
  BY DEF Ways
<1>2. PICK w : w = SoFar(P, a) /\ w = [isn |-> a.isn, length |-> n]
  BY <1>1 DEF SoFar
<1>3. w.isn = a.isn /\ w.length = n /\ w \in Ways
  BY <1>1, <1>2 DEF Ways
<1> QED
  BY <1>1, <1>2, <1>3 DEF WaysOf

LEMMA WaysFacts ==
    ASSUME NEW P, NEW a \in Ways, NEW w \in WaysOf(P, a)
    PROVE  /\ w \in Ways /\ w.isn = a.isn /\ w.length \in Nat /\ w.length <= a.length
           /\ BytesPushed(Outbound(P)) <= w.length
           /\ Outbound(P).eof => w.length = BytesPushed(Outbound(P))
           /\ 2 * (a.length + 2) < CYCLE => 2 * (w.length + 2) < CYCLE
<1>1. /\ w \in Ways /\ w.isn = a.isn /\ w.length <= a.length
      /\ BytesPushed(Outbound(P)) <= w.length
      /\ Outbound(P).eof => w.length = BytesPushed(Outbound(P))
  BY DEF WaysOf
<1>2. PICK n \in Nat, m \in Nat, c \in Nat : n = w.length /\ m = a.length /\ c = CYCLE
  BY <1>1, WrapAssumption DEF Ways
<1>3. n <= m
  BY <1>1, <1>2
<1>4. 2 * (m + 2) < c => 2 * (n + 2) < c
  BY <1>3
<1> QED
  BY <1>1, <1>2, <1>4

(* Written alike, two peers may send the same streams.                      *)
LEMMA WaysAlike ==
    ASSUME NEW P, NEW X, WrittenAlike(Outbound(X), Outbound(P)), NEW a
    PROVE  WaysOf(X, a) = WaysOf(P, a)
BY DEF WrittenAlike, WaysOf

(* The other peer's side of the link.                                       *)
LEMMA JoinedTurned ==
    ASSUME NEW P, NEW Q, NEW np, NEW nq, NEW a, NEW b, Joined(P, Q, np, nq, a, b)
    PROVE  Joined(Q, P, nq, np, b, a)
BY DEF Joined

(* A peer that goes on, and what it sends.                                  *)
LEMMA JoinedAnew ==
    ASSUME NEW P, NEW Q, NEW np, NEW nq, NEW a \in Ways, NEW b \in Ways,
           Joined(P, Q, np, nq, a, b),
           NEW X, BytesPushed(Outbound(X)) \in 0 .. a.length, PushedAll(X.sender),
           NEW sent,
           \A p \in WaysOf(X, a), q \in WaysOf(Q, b) :
               Linked(X, Q, np, nq, p, q) /\ \A m \in sent : Proper(m, X, p.length)
    PROVE  Joined(X, Q, np, nq \cup sent, a, b)
<1>1. PICK p0 \in WaysOf(X, a), q0 \in WaysOf(Q, b) : Linked(X, Q, np, nq, p0, q0)
  BY SoFarIsAWay DEF Joined
<1>2. Shaped(X)
  BY <1>1 DEF Linked
<1>3. ASSUME NEW p \in WaysOf(X, a), NEW q \in WaysOf(Q, b)
      PROVE  Linked(X, Q, np, nq \cup sent, p, q) /\ Linked(Q, X, nq \cup sent, np, q, p)
  <2>1. Linked(X, Q, np, nq, p, q) /\ \A m \in sent : Proper(m, X, p.length)
    BY <1>3
  <2>2. Flow(X.sender, Q.receiver, nq, np, p.isn, p.length)
        /\ Flow(Q.sender, X.receiver, np, nq, q.isn, q.length)
    BY <2>1 DEF Linked
  <2>3. Flow(X.sender, Q.receiver, nq \cup sent, np, p.isn, p.length)
    <3>1. \A m \in nq \cup sent : Fits(m.sender, X.sender, p.length)
      BY <2>1, <2>2 DEF Flow, Proper
    <3> QED
      BY <2>2, <3>1 DEF Flow
  <2>4. Flow(Q.sender, X.receiver, np, nq \cup sent, q.isn, q.length)
    <3>1. \A m \in nq \cup sent : Answers(m.receiver, X.receiver)
      BY <2>1, <2>2 DEF Flow, Proper
    <3> QED
      BY <2>2, <3>1 DEF Flow
  <2> QED
    BY <1>2, <2>3, <2>4 DEF Linked, Joined
<1> QED
  BY <1>2, <1>3 DEF Joined

(* If it has written nothing more, the ways are the same.                   *)
LEMMA JoinedOn ==
    ASSUME NEW P, NEW Q, NEW np, NEW nq, NEW a \in Ways, NEW b \in Ways,
           Joined(P, Q, np, nq, a, b),
           NEW X, WrittenAlike(Outbound(X), Outbound(P)), PushedAll(X.sender),
           NEW sent,
           \A p \in WaysOf(P, a), q \in WaysOf(Q, b) :
               Linked(X, Q, np, nq, p, q) /\ \A m \in sent : Proper(m, X, p.length)
    PROVE  Joined(X, Q, np, nq \cup sent, a, b)
<1>1. BytesPushed(Outbound(X)) \in 0 .. a.length
  BY DEF Joined, WrittenAlike
<1>2. WaysOf(X, a) = WaysOf(P, a)
  BY WaysAlike
<1> QED
  BY <1>1, <1>2, JoinedAnew

-----------------------------------------------------------------------------
(* push, tick, receive, and coarse time.                                    *)
LEMMA JoinedPush ==
    ASSUME NEW P, NEW Q, NEW np, NEW nq, NEW a \in Ways, NEW b \in Ways,
           Joined(P, Q, np, nq, a, b), NEW x, x = PeerPush(P)
    PROVE  /\ Joined(x.peer, Q, np, nq \cup Items(x.sent), a, b)
           /\ Along(x.peer, P) /\ Listed(x.sent)
<1>1. ASSUME NEW p \in WaysOf(P, a), NEW q \in WaysOf(Q, b)
      PROVE  /\ Linked(x.peer, Q, np, nq, p, q) /\ Sends(x, p.length)
             /\ PushedAll(x.peer.sender) /\ Along(x.peer, P)
  <2>1. p \in Ways /\ q \in Ways /\ Linked(P, Q, np, nq, p, q)
    BY <1>1, WaysFacts DEF Joined
  <2> QED
    BY <2>1, PeerPushResult
<1>2. PushedAll(x.peer.sender) /\ Along(x.peer, P) /\ Listed(x.sent)
  BY <1>1, SoFarIsAWay DEF Joined, Sends
<1>3. Joined(x.peer, Q, np, nq \cup Items(x.sent), a, b)
  <2>1. PICK X, s : X = x.peer /\ s = Items(x.sent)
    OBVIOUS
  <2>2. \A p \in WaysOf(P, a), q \in WaysOf(Q, b) :
            Linked(X, Q, np, nq, p, q) /\ \A m \in s : Proper(m, X, p.length)
    BY <1>1, <2>1 DEF Sends
  <2>3. WrittenAlike(Outbound(X), Outbound(P)) /\ PushedAll(X.sender)
    BY <1>2, <2>1 DEF Along
  <2>4. Joined(X, Q, np, nq \cup s, a, b)
    BY <2>2, <2>3, JoinedOn
  <2> QED
    BY <2>1, <2>4
<1> QED
  BY <1>2, <1>3

LEMMA JoinedTick ==
    ASSUME NEW P, NEW Q, NEW np, NEW nq, NEW a \in Ways, NEW b \in Ways,
           Joined(P, Q, np, nq, a, b), NEW ms \in Nat, NEW x, x = PeerTick(P, ms)
    PROVE  /\ Joined(x.peer, Q, np, nq \cup Items(x.sent), a, b)
           /\ Along(x.peer, P) /\ Listed(x.sent)
<1>1. ASSUME NEW p \in WaysOf(P, a), NEW q \in WaysOf(Q, b)
      PROVE  /\ Linked(x.peer, Q, np, nq, p, q) /\ Sends(x, p.length)
             /\ PushedAll(x.peer.sender) /\ Along(x.peer, P)
  <2>1. p \in Ways /\ q \in Ways /\ Linked(P, Q, np, nq, p, q) /\ PushedAll(P.sender)
    BY <1>1, WaysFacts DEF Joined
  <2> QED
    BY <2>1, PeerTickResult
<1>2. PushedAll(x.peer.sender) /\ Along(x.peer, P) /\ Listed(x.sent)
  BY <1>1, SoFarIsAWay DEF Joined, Sends
<1>3. Joined(x.peer, Q, np, nq \cup Items(x.sent), a, b)
  <2>1. PICK X, s : X = x.peer /\ s = Items(x.sent)
    OBVIOUS
  <2>2. \A p \in WaysOf(P, a), q \in WaysOf(Q, b) :
            Linked(X, Q, np, nq, p, q) /\ \A m \in s : Proper(m, X, p.length)
    BY <1>1, <2>1 DEF Sends
  <2>3. WrittenAlike(Outbound(X), Outbound(P)) /\ PushedAll(X.sender)
    BY <1>2, <2>1 DEF Along
  <2>4. Joined(X, Q, np, nq \cup s, a, b)
    BY <2>2, <2>3, JoinedOn
  <2> QED
    BY <2>1, <2>4
<1> QED
  BY <1>2, <1>3

LEMMA JoinedReceive ==
    ASSUME NEW P, NEW Q, NEW np, NEW nq, NEW a \in Ways, NEW b \in Ways,
           Joined(P, Q, np, nq, a, b), 2 * (b.length + 2) < CYCLE,
           NEW msg \in np, NEW x, x = PeerReceive(P, msg)
    PROVE  /\ Joined(x.peer, Q, np, nq \cup Items(x.sent), a, b)
           /\ Along(x.peer, P) /\ Listed(x.sent)
<1>1. ASSUME NEW p \in WaysOf(P, a), NEW q \in WaysOf(Q, b)
      PROVE  /\ Linked(x.peer, Q, np, nq, p, q) /\ Sends(x, p.length)
             /\ PushedAll(x.peer.sender) /\ Along(x.peer, P)
  <2>1. p \in Ways /\ q \in Ways /\ Linked(P, Q, np, nq, p, q) /\ PushedAll(P.sender)
    BY <1>1, WaysFacts DEF Joined
  <2>2. 2 * (q.length + 2) < CYCLE
    BY <1>1, WaysFacts
  <2> QED
    BY <2>1, <2>2, PeerReceiveResult
<1>2. PushedAll(x.peer.sender) /\ Along(x.peer, P) /\ Listed(x.sent)
  BY <1>1, SoFarIsAWay DEF Joined, Sends
<1>3. Joined(x.peer, Q, np, nq \cup Items(x.sent), a, b)
  <2>1. PICK X, s : X = x.peer /\ s = Items(x.sent)
    OBVIOUS
  <2>2. \A p \in WaysOf(P, a), q \in WaysOf(Q, b) :
            Linked(X, Q, np, nq, p, q) /\ \A m \in s : Proper(m, X, p.length)
    BY <1>1, <2>1 DEF Sends
  <2>3. WrittenAlike(Outbound(X), Outbound(P)) /\ PushedAll(X.sender)
    BY <1>2, <2>1 DEF Along
  <2>4. Joined(X, Q, np, nq \cup s, a, b)
    BY <2>2, <2>3, JoinedOn
  <2> QED
    BY <2>1, <2>4
<1> QED
  BY <1>2, <1>3

LEMMA JoinedCoarse ==
    ASSUME NEW P, NEW Q, NEW np, NEW nq, NEW a \in Ways, NEW b \in Ways,
           Joined(P, Q, np, nq, a, b)
    PROVE  Joined(Coarse(P), Q, np, nq, a, b) /\ Along(Coarse(P), P)
<1>1. ASSUME NEW p \in WaysOf(P, a), NEW q \in WaysOf(Q, b)
      PROVE  /\ Linked(Coarse(P), Q, np, nq, p, q)
             /\ PushedAll(Coarse(P).sender) /\ Along(Coarse(P), P)
  <2>1. p \in Ways /\ q \in Ways /\ Linked(P, Q, np, nq, p, q) /\ PushedAll(P.sender)
    BY <1>1, WaysFacts DEF Joined
  <2> QED
    BY <2>1, PeerCoarse
<1>2. PICK X : X = Coarse(P)
  OBVIOUS
<1>3. PushedAll(X.sender) /\ Along(X, P)
  BY <1>1, <1>2, SoFarIsAWay DEF Joined
<1>4. \A p \in WaysOf(P, a), q \in WaysOf(Q, b) :
          Linked(X, Q, np, nq, p, q) /\ \A m \in {} : Proper(m, X, p.length)
  BY <1>1, <1>2
<1>5. Joined(X, Q, np, nq \cup {}, a, b)
  BY <1>3, <1>4, JoinedOn DEF Along
<1> QED
  BY <1>2, <1>3, <1>5

-----------------------------------------------------------------------------
(* What a link says of the streams.                                         *)
Received(P, Q) ==
    /\ StreamIntact(Outbound(P)) /\ StreamIntact(Inbound(P)) /\ ~HasErrors(P)
    /\ Inbound(P).eof => /\ Outbound(Q).eof
                         /\ BytesPushed(Inbound(P)) = BytesPushed(Outbound(Q))

LEMMA JoinedReceived ==
    ASSUME NEW P, NEW Q, NEW np, NEW nq, NEW a \in Ways, NEW b \in Ways,
           Joined(P, Q, np, nq, a, b)
    PROVE  Received(P, Q)
<1>1. PICK p, q : /\ p \in WaysOf(P, a) /\ q = SoFar(Q, b) /\ q \in WaysOf(Q, b)
                  /\ Linked(P, Q, np, nq, p, q)
  BY SoFarIsAWay DEF Joined
<1>2. p \in Ways /\ q \in Ways /\ p.length \in Nat /\ q.length \in Nat
      /\ q.length = BytesPushed(Outbound(Q))
  BY <1>1, WaysFacts, SoFarIsAWay DEF Joined
<1>3. Delivered(Q.sender, P.receiver, q.length)
  BY <1>1, <1>2, FlowDelivers DEF Linked
<1>4. StreamIntact(P.sender.input) /\ ~P.sender.input.error
  <2>1. PICK x : Serving(P.sender, x, p.isn, p.length)
    BY <1>1 DEF Linked, Flow
  <2> QED
    BY <1>2, <2>1, ServingFacts DEF Serving
<1> QED
  BY <1>2, <1>3, <1>4 DEF Received, Delivered, Inbound, Outbound, HasErrors

(* A stream that has been read to its end stays so.                         *)
LEMMA ReadStays ==
    ASSUME NEW P, NEW X, NEW Q, Received(P, Q), Received(X, Q), Filled(Inbound(X), Inbound(P)),
           IsFinished(Inbound(P))
    PROVE  IsFinished(Inbound(X))
<1>1. Inbound(X).eof /\ Inbound(X).popped = Inbound(P).popped
      /\ BytesPushed(Inbound(X)) = BytesPushed(Inbound(P))
  BY DEF Filled, IsFinished, Received
<1>2. PICK i \in Nat, l \in Nat : /\ i = Inbound(X).popped /\ l = Len(Inbound(X).queue)
                                  /\ BytesPushed(Inbound(X)) = i + l
  BY StreamFacts DEF Received
<1>3. PICK j \in Nat, k \in Nat : /\ j = Inbound(P).popped /\ k = Len(Inbound(P).queue)
                                  /\ BytesPushed(Inbound(P)) = j + k
  BY StreamFacts DEF Received
<1>4. k = 0
  BY <1>3 DEF IsFinished
<1>5. l = 0
  <2>1. i = j /\ i + l = j + k
    BY <1>1, <1>2, <1>3
  <2> QED
    BY <1>4, <2>1
<1>6. Inbound(X).queue = <<>>
  BY <1>2, <1>5, EmptySeq DEF Received, StreamIntact, Streams
<1> QED
  BY <1>1, <1>6 DEF IsFinished

(* What is read from the inbound stream makes no difference to the other.   *)
LEMMA JoinedRead ==
    ASSUME NEW P, NEW Q, NEW np, NEW nq, NEW a \in Ways, NEW b \in Ways,
           Joined(P, Q, np, nq, a, b), NEW len \in Nat,
           NEW X, X = [P EXCEPT !.receiver.reassembler.output = StreamPop(@, len)]
    PROVE  /\ Joined(X, Q, np, nq, a, b)
           /\ Outbound(X) = Outbound(P) /\ Inbound(X) = StreamPop(Inbound(P), len)
<1>1. PICK s, r, n, f, i :
          /\ P = [sender |-> s, receiver |-> r, need_send |-> n,
                  linger_after_streams_finish |-> f, idle |-> i]
          /\ s = P.sender /\ r = P.receiver
  BY DEF Joined, Shaped
<1>2. PICK w : w = [r EXCEPT !.reassembler.output = StreamPop(@, len)]
  OBVIOUS
<1>3. PICK Y : Y = [sender |-> s, receiver |-> w, need_send |-> n,
                    linger_after_streams_finish |-> f, idle |-> i]
  OBVIOUS
<1>4. X = Y /\ Shaped(Y) /\ Y.sender = s /\ Y.receiver = w
  <2>1. X = Y
    BY <1>1, <1>2, <1>3
  <2>2. Shaped(Y) /\ Y.sender = s /\ Y.receiver = w
    BY <1>3 DEF Shaped
  <2> QED
    BY <2>1, <2>2
<1>5. ASSUME NEW p \in WaysOf(P, a), NEW q \in WaysOf(Q, b)
      PROVE  Linked(X, Q, np, nq, p, q)
  <2>1. Linked(P, Q, np, nq, p, q) /\ q.length \in Nat
    BY <1>5, WaysFacts DEF Joined
  <2>2. Flow(Q.sender, w, np, nq, q.isn, q.length)
    BY <1>1, <1>2, <2>1, FlowRead DEF Linked
  <2> QED
    BY <1>1, <1>4, <2>1, <2>2 DEF Linked
<1>6. Outbound(X) = Outbound(P) /\ PushedAll(X.sender)
  BY <1>1, <1>4 DEF Outbound, Joined
<1>7. Joined(X, Q, np, nq \cup {}, a, b)
  <2>1. \A p \in WaysOf(P, a), q \in WaysOf(Q, b) :
            Linked(X, Q, np, nq, p, q) /\ \A m \in {} : Proper(m, X, p.length)
    BY <1>5
  <2> QED
    BY <1>6, <2>1, JoinedOn DEF WrittenAlike
<1>8. Inbound(X) = StreamPop(Inbound(P), len)
  <2>1. PICK p, q : Linked(P, Q, np, nq, p, q)
    BY SoFarIsAWay DEF Joined
  <2>2. PICK z, n2, o, l : r = [reassembler |-> z, isn |-> n2, isn_set |-> o]
                           /\ Intact(z, l, l + 1)
    BY <1>1, <2>1 DEF Linked, Flow, Hearing
  <2>3. PICK y, e, d : z = [output |-> y, last_byte |-> e, pending |-> d]
    BY <2>2, RecordFacts
  <2>4. w.reassembler.output = StreamPop(y, len)
    BY <1>2, <2>2, <2>3
  <2> QED
    BY <1>1, <1>4, <2>2, <2>3, <2>4 DEF Inbound
<1> QED
  BY <1>6, <1>7, <1>8

-----------------------------------------------------------------------------
(* More is written to the outbound stream, or it is closed, and pushed.     *)
Longer(input, old, most) ==
    /\ StreamIntact(input) /\ input.popped = old.popped /\ input.error = old.error
    /\ BytesPushed(old) <= BytesPushed(input) /\ BytesPushed(input) <= most
    /\ old.eof => input = old

LEMMA JoinedWrite ==
    ASSUME NEW P, NEW Q, NEW np, NEW nq, NEW a \in Ways, NEW b \in Ways,
           Joined(P, Q, np, nq, a, b), 2 * (a.length + 2) < CYCLE,
           NEW input, Longer(input, Outbound(P), a.length),
           NEW x, x = PeerPush([P EXCEPT !.sender.input = input])
    PROVE  /\ Joined(x.peer, Q, np, nq \cup Items(x.sent), a, b) /\ Listed(x.sent)
           /\ WrittenAlike(Outbound(x.peer), input) /\ Filled(Inbound(x.peer), Inbound(P))
<1>1. PICK X : X = [P EXCEPT !.sender.input = input]
  OBVIOUS
<1>2. Outbound(X) = input /\ Inbound(X) = Inbound(P)
  <2>1. PICK s, r, n, f, i :
            P = [sender |-> s, receiver |-> r, need_send |-> n,
                 linger_after_streams_finish |-> f, idle |-> i]
    BY DEF Joined, Shaped
  <2>2. PICK p, q, e : p \in Ways /\ Linked(P, Q, np, nq, p, q) /\ Serving(P.sender, e, p.isn, p.length)
                       /\ p.length \in Nat
    BY SoFarIsAWay, WaysFacts, ZenonT(60) DEF Joined, Linked, Flow
  <2>3. s \in Senders
    BY <2>1, <2>2, ServingFacts
  <2>4. [s EXCEPT !.input = input].input = input
    BY <2>3 DEF Senders
  <2>5. X = [sender |-> [s EXCEPT !.input = input], receiver |-> r, need_send |-> n,
             linger_after_streams_finish |-> f, idle |-> i]
    BY <1>1, <2>1
  <2> QED
    BY <2>1, <2>4, <2>5 DEF Outbound, Inbound
<1>3. PICK o \in Nat, m \in Nat : o = BytesPushed(Outbound(P)) /\ m = BytesPushed(input) /\ o <= m
  BY StreamFacts DEF Longer, Joined
<1>4. a.length \in Nat /\ m <= a.length
  BY <1>3 DEF Ways, Longer
<1>5. BytesPushed(Outbound(X)) \in 0 .. a.length
  BY <1>2, <1>3, <1>4
<1>6. ASSUME NEW p \in WaysOf(X, a), NEW q \in WaysOf(Q, b)
      PROVE  /\ Linked(x.peer, Q, np, nq, p, q) /\ Sends(x, p.length)
             /\ PushedAll(x.peer.sender) /\ Along(x.peer, X)
  <2>1. PICK l \in Nat : l = p.length /\ m <= l /\ (input.eof => l = m)
    BY <1>2, <1>3, <1>6, WaysFacts
  <2>2. p \in WaysOf(P, a)
    <3>1. o <= l
      BY <1>3, <2>1
    <3>2. Outbound(P).eof => l = o
      BY <1>3, <2>1 DEF Longer
    <3> QED
      BY <1>3, <1>6, <2>1, <3>1, <3>2 DEF WaysOf
  <2>3. Linked(P, Q, np, nq, p, q) /\ p \in Ways /\ q \in Ways /\ 2 * (p.length + 2) < CYCLE
    BY <1>6, <2>2, WaysFacts DEF Joined
  <2>4. Extends(input, P.sender.input, p.length)
    BY <1>3, <2>1 DEF Longer, Extends, IsFinished, Outbound
  <2>5. Linked(X, Q, np, nq, p, q)
    BY <1>1, <2>3, <2>4, LinkedInput
  <2> QED
    BY <1>1, <2>3, <2>5, PeerPushResult
<1>7. PICK p1 \in WaysOf(X, a), q1 \in WaysOf(Q, b) : TRUE
  BY <1>5, SoFarIsAWay DEF Joined
<1>8. /\ PushedAll(x.peer.sender) /\ Listed(x.sent)
      /\ WrittenAlike(Outbound(x.peer), input) /\ Filled(Inbound(x.peer), Inbound(P))
  BY <1>2, <1>6, <1>7 DEF Sends, Along
<1>9. PICK Y, sent : Y = x.peer /\ sent = Items(x.sent)
  OBVIOUS
<1>10. BytesPushed(Outbound(Y)) \in 0 .. a.length /\ WaysOf(Y, a) = WaysOf(X, a)
  BY <1>2, <1>5, <1>8, <1>9, WaysAlike DEF WrittenAlike
<1>11. \A p \in WaysOf(Y, a), q \in WaysOf(Q, b) :
           Linked(Y, Q, np, nq, p, q) /\ \A k \in sent : Proper(k, Y, p.length)
  BY <1>6, <1>9, <1>10 DEF Sends
<1>12. Joined(Y, Q, np, nq \cup sent, a, b)
  BY <1>8, <1>9, <1>10, <1>11, JoinedAnew
<1> QED
  BY <1>8, <1>9, <1>12

-----------------------------------------------------------------------------
(* A peer that is no longer active has passed on all that was written.      *)
LEMMA JoinedComplete ==
    ASSUME NEW P, NEW Q, NEW np, NEW nq, NEW a \in Ways, NEW b \in Ways,
           Joined(P, Q, np, nq, a, b), ~Active(P)
    PROVE  /\ Outbound(P).eof /\ Inbound(P).eof
           /\ Inbound(Q).eof /\ BytesPushed(Inbound(Q)) = BytesPushed(Outbound(P))
           /\ BytesPushed(Inbound(P)) = BytesPushed(Outbound(Q))
<1>1. Received(P, Q) /\ Received(Q, P)
  BY JoinedReceived, JoinedTurned
<1>2. /\ ~(SequenceNumbersInFlight(P.sender) > 0) /\ IsFinished(P.sender.input)
      /\ Inbound(P).eof
  BY <1>1 DEF Active, SenderActive, ReceiverActive, Received, IsClosed, Outbound
<1>3. PICK p \in WaysOf(P, a), q \in WaysOf(Q, b) : Linked(P, Q, np, nq, p, q)
  BY SoFarIsAWay DEF Joined
<1>4. p.length \in Nat
  BY WaysFacts
<1>5. Inbound(Q).eof
  BY <1>2, <1>3, <1>4, FlowComplete DEF Linked, Joined, Inbound
<1> QED
  BY <1>1, <1>2, <1>5 DEF Received, IsFinished, Outbound

(* Two new peers.                                                           *)
LEMMA JoinedNew ==
    ASSUME NEW a \in Ways, NEW b \in Ways,
           2 * (a.length + 2) < CYCLE, 2 * (b.length + 2) < CYCLE,
           NEW m \in Nat, NEW n \in Nat, NEW k \in Nat, NEW l \in Nat
    PROVE  Joined(NewPeer(m, n, a.isn), NewPeer(k, l, b.isn), {}, {}, a, b)
<1>1. PICK P, Q : P = NewPeer(m, n, a.isn) /\ Q = NewPeer(k, l, b.isn)
  OBVIOUS
<1>2. /\ Shaped(P) /\ P.sender = NewSender(NewStream(m), a.isn)
      /\ P.receiver = NewReceiver(NewReassembler(NewStream(n)))
      /\ Shaped(Q) /\ Q.sender = NewSender(NewStream(k), b.isn)
      /\ Q.receiver = NewReceiver(NewReassembler(NewStream(l)))
  BY <1>1 DEF NewPeer, Shaped
<1>3. BytesPushed(Outbound(P)) = 0 /\ BytesPushed(Outbound(Q)) = 0
  BY <1>2 DEF Outbound, NewSender, NewStream, BytesPushed
<1>4. a.length \in Nat /\ b.length \in Nat /\ a.isn \in Seqnos /\ b.isn \in Seqnos
  BY DEF Ways
<1>5. PushedAll(P.sender) /\ PushedAll(Q.sender)
  BY <1>2, <1>4, FlowNew
<1>6. ASSUME NEW p \in WaysOf(P, a), NEW q \in WaysOf(Q, b)
      PROVE  Linked(P, Q, {}, {}, p, q) /\ Linked(Q, P, {}, {}, q, p)
  <2>1. /\ p.length \in Nat /\ q.length \in Nat /\ p.isn = a.isn /\ q.isn = b.isn
        /\ 2 * (p.length + 2) < CYCLE /\ 2 * (q.length + 2) < CYCLE
    BY <1>6, WaysFacts
  <2>2. /\ Flow(P.sender, Q.receiver, {}, {}, p.isn, p.length)
        /\ Flow(Q.sender, P.receiver, {}, {}, q.isn, q.length)
    BY <1>2, <1>4, <2>1, FlowNew
  <2> QED
    BY <1>2, <2>2 DEF Linked
<1>7. 0 \in 0 .. a.length /\ 0 \in 0 .. b.length
  BY <1>4
<1> QED
  BY <1>1, <1>2, <1>3, <1>5, <1>6, <1>7 DEF Joined

-----------------------------------------------------------------------------
(* A peer, whether or not its streams have errors.                          *)
Body(X) ==
    /\ Shaped(X) /\ X.sender \in Senders
    /\ X.receiver = [reassembler |-> X.receiver.reassembler, isn |-> X.receiver.isn,
                     isn_set |-> X.receiver.isn_set]
    /\ X.receiver.reassembler = [output |-> X.receiver.reassembler.output,
                                 last_byte |-> X.receiver.reassembler.last_byte,
                                 pending |-> X.receiver.reassembler.pending]
    /\ StreamIntact(Outbound(X)) /\ StreamIntact(Inbound(X))

LEMMA JoinedBody ==
    ASSUME NEW P, NEW Q, NEW np, NEW nq, NEW a \in Ways, NEW b \in Ways,
           Joined(P, Q, np, nq, a, b)
    PROVE  Body(P)
<1>1. PICK p, q : /\ p \in Ways /\ q \in Ways /\ p.length \in Nat /\ q.length \in Nat
                  /\ Linked(P, Q, np, nq, p, q)
  BY SoFarIsAWay, WaysFacts DEF Joined
<1>2. P.sender \in Senders
  <2>1. PICK x : Serving(P.sender, x, p.isn, p.length)
    BY <1>1 DEF Linked, Flow
  <2> QED
    BY <1>1, <2>1, ServingFacts
<1>3. Hearing(P.receiver, q.isn, q.length)
  BY <1>1, LinkedFacts
<1>4. P.receiver.reassembler = [output |-> P.receiver.reassembler.output,
                                last_byte |-> P.receiver.reassembler.last_byte,
                                pending |-> P.receiver.reassembler.pending]
  BY <1>3, RecordFacts DEF Hearing
<1>5. Received(P, Q)
  BY JoinedReceived
<1> QED
  BY <1>2, <1>3, <1>4, <1>5 DEF Body, Joined, Hearing, Received

(* Other streams in it.                                                     *)
LEMMA OtherInput ==
    ASSUME NEW X, Body(X), NEW input, StreamIntact(input),
           NEW Y, Y = [X EXCEPT !.sender.input = input]
    PROVE  /\ Body(Y) /\ Outbound(Y) = input /\ Inbound(Y) = Inbound(X)
           /\ Y.receiver = X.receiver
<1>1. PICK s, r, n, f, i :
          /\ X = [sender |-> s, receiver |-> r, need_send |-> n,
                  linger_after_streams_finish |-> f, idle |-> i]
          /\ s = X.sender /\ r = X.receiver
  BY DEF Body, Shaped
<1>2. PICK t : t = [s EXCEPT !.input = input] /\ t \in Senders /\ t.input = input
  BY <1>1 DEF Body, Senders, StreamIntact
<1>3. PICK Z : Z = [sender |-> t, receiver |-> r, need_send |-> n,
                    linger_after_streams_finish |-> f, idle |-> i]
  OBVIOUS
<1>4. Y = Z
  BY <1>1, <1>2, <1>3
<1>5. Shaped(Z) /\ Z.sender = t /\ Z.receiver = r
  BY <1>3 DEF Shaped
<1>6. Outbound(Z) = input /\ Inbound(Z) = Inbound(X)
  BY <1>1, <1>2, <1>5 DEF Outbound, Inbound
<1> QED
  BY <1>1, <1>2, <1>4, <1>5, <1>6 DEF Body

LEMMA OtherOutput ==
    ASSUME NEW X, Body(X), NEW output, StreamIntact(output),
           NEW Y, Y = [X EXCEPT !.receiver.reassembler.output = output]
    PROVE  /\ Body(Y) /\ Inbound(Y) = output /\ Outbound(Y) = Outbound(X)
           /\ Y.sender = X.sender
<1>1. PICK s, r, n, f, i :
          /\ X = [sender |-> s, receiver |-> r, need_send |-> n,
                  linger_after_streams_finish |-> f, idle |-> i]
          /\ s = X.sender /\ r = X.receiver
  BY DEF Body, Shaped
<1>2. PICK z, c, o : r = [reassembler |-> z, isn |-> c, isn_set |-> o] /\ z = r.reassembler
  BY <1>1 DEF Body
<1>3. PICK y, e, d : z = [output |-> y, last_byte |-> e, pending |-> d]
  BY <1>1, <1>2 DEF Body
<1>4. PICK v : v = [output |-> output, last_byte |-> e, pending |-> d]
  OBVIOUS
<1>5. PICK w : w = [reassembler |-> v, isn |-> c, isn_set |-> o]
  OBVIOUS
<1>6. PICK Z : Z = [sender |-> s, receiver |-> w, need_send |-> n,
                    linger_after_streams_finish |-> f, idle |-> i]
  OBVIOUS
<1>7. Y = Z
  BY <1>1, <1>2, <1>3, <1>4, <1>5, <1>6
<1>8. Shaped(Z) /\ Z.sender = s /\ Z.receiver = w
  BY <1>6 DEF Shaped
<1>9. /\ w.reassembler = v /\ w = [reassembler |-> w.reassembler, isn |-> w.isn, isn_set |-> w.isn_set]
      /\ v = [output |-> v.output, last_byte |-> v.last_byte, pending |-> v.pending]
      /\ v.output = output
  BY <1>4, <1>5
<1>10. Inbound(Z) = output /\ Outbound(Z) = Outbound(X)
  BY <1>1, <1>8, <1>9 DEF Outbound, Inbound
<1> QED
  BY <1>1, <1>7, <1>8, <1>9, <1>10 DEF Body

(* Coarse time leaves the streams as they are.                              *)
LEMMA CoarseBody ==
    ASSUME NEW X, Body(X)
    PROVE  /\ Body(Coarse(X)) /\ Outbound(Coarse(X)) = Outbound(X)
           /\ Inbound(Coarse(X)) = Inbound(X)
<1>1. PICK s, r, n, f, i :
          /\ X = [sender |-> s, receiver |-> r, need_send |-> n,
                  linger_after_streams_finish |-> f, idle |-> i]
          /\ s = X.sender /\ r = X.receiver
  BY DEF Body, Shaped
<1>2. PICK t : t = CoarseSender(s)
  OBVIOUS
<1>3. PICK Z : Z = Coarse(X)
  OBVIOUS
<1>4. Z = [sender |-> t, receiver |-> r, need_send |-> n,
           linger_after_streams_finish |-> f, idle |-> Least(i, LINGER * InitialRTO)]
  BY <1>1, <1>2, <1>3 DEF Coarse, CoarseSender
<1>5. Shaped(Z) /\ Z.sender = t /\ Z.receiver = r
  BY <1>4 DEF Shaped
<1>6. t \in Senders /\ t.input = s.input
  <2>1. InitialRTO \in Nat /\ s \in Senders
    BY <1>1, SenderAssumption DEF Body
  <2> QED
    BY <1>2, <2>1 DEF Senders, CoarseSender
<1> QED
  BY <1>1, <1>3, <1>5, <1>6 DEF Body, Outbound, Inbound

(* StreamSetError.                                                          *)
LEMMA ErrorResult ==
    ASSUME NEW s, StreamIntact(s)
    PROVE  LET t == StreamSetError(s)
           IN  /\ StreamIntact(t) /\ t.error /\ t.eof = s.eof /\ t.popped = s.popped
               /\ t.queue = s.queue /\ BytesPushed(t) = BytesPushed(s)
<1>1. PICK c, q, p, e, r :
          s = [capacity |-> c, queue |-> q, popped |-> p, eof |-> e, error |-> r]
  BY DEF StreamIntact, Streams
<1>2. PICK t : t = StreamSetError(s) /\ t = [s EXCEPT !.error = TRUE]
  BY DEF StreamSetError
<1>3. t.capacity = c /\ t.queue = q /\ t.popped = p /\ t.eof = e /\ t.error = TRUE
      /\ t \in Streams(Nat)
  BY <1>2, <1>1 DEF StreamIntact, Streams
<1> QED
  BY <1>1, <1>2, <1>3 DEF StreamIntact, BytesPushed

-----------------------------------------------------------------------------
(* What a peer with an error sends is a reset, and nothing else changes.    *)
IsRst(m) == m.sender.RST /\ m.receiver.RST

Resets(x, X) ==
    /\ Body(x.peer) /\ Outbound(x.peer) = Outbound(X) /\ Inbound(x.peer) = Inbound(X)
    /\ Listed(x.sent) /\ \A m \in Items(x.sent) : IsRst(m)

LEMMA ErrorPush ==
    ASSUME NEW X, Body(X), Outbound(X).error, NEW x, x = PeerPush(X)
    PROVE  Resets(x, X) /\ ~x.peer.need_send
<1>1. PICK s, r, n, f, i :
          /\ X = [sender |-> s, receiver |-> r, need_send |-> n,
                  linger_after_streams_finish |-> f, idle |-> i]
          /\ s = X.sender /\ r = X.receiver
  BY DEF Body, Shaped
<1>2. s.input.error
  BY <1>1 DEF Outbound
<1>3. PICK e : e = MakeEmptyMessage(s)
  OBVIOUS
<1>4. SenderPush(s) = [sender |-> s, sent |-> <<e>>]
  BY <1>2, <1>3 DEF SenderPush, Result
<1>5. PICK z : z = [X EXCEPT !.sender = s] /\ z = X
  BY <1>1
<1>6. PICK Y, no : /\ Y = [sender |-> s, receiver |-> r, need_send |-> no,
                           linger_after_streams_finish |-> f, idle |-> i]
                   /\ no = FALSE
  OBVIOUS
<1>7. PICK g : g = Segment(e, ReceiverSend(r))
  OBVIOUS
<1>8. PeerPush(X) = [peer |-> Y, sent |-> <<g>>]
  <2>1. PeerPush(X) = PeerSend(X, <<e>>)
    BY <1>1, <1>4, <1>5 DEF PeerPush
  <2>2. [X EXCEPT !.need_send = @ /\ <<e>> = <<>>] = Y
    <3>1. (n /\ <<e>> = <<>>) = no
      BY <1>6
    <3>2. [X EXCEPT !.need_send = no] = Y
      BY <1>1, <1>6
    <3>3. X.need_send = n
      BY <1>1
    <3> QED
      BY <3>1, <3>2, <3>3
  <2>3. [k \in DOMAIN <<e>> |-> Segment(<<e>>[k], ReceiverSend(X.receiver))] = <<g>>
    BY <1>1, <1>7
  <2> QED
    BY <2>1, <2>2, <2>3 DEF PeerSend, PeerResult
<1>9. Shaped(Y) /\ Y.sender = s /\ Y.receiver = r /\ Y.need_send = FALSE
  BY <1>6 DEF Shaped
<1>10. Body(Y) /\ Outbound(Y) = Outbound(X) /\ Inbound(Y) = Inbound(X)
  BY <1>1, <1>9 DEF Body, Outbound, Inbound
<1>11. IsRst(g)
  <2>1. e.RST = TRUE
    BY <1>2, <1>3 DEF MakeEmptyMessage, SenderMessage
  <2>2. PICK q, c, w, v : q = ReceiverSend(r) /\ q = [ackno |-> c, window_size |-> w, RST |-> v]
    BY DEF ReceiverSend, ReceiverMessage
  <2>3. "RST" \in DOMAIN e
    BY <1>3 DEF MakeEmptyMessage, SenderMessage
  <2>4. g = [sender |-> [e EXCEPT !.RST = TRUE], receiver |-> [q EXCEPT !.RST = TRUE]]
    BY <1>7, <2>1, <2>2 DEF Segment
  <2> QED
    BY <2>2, <2>3, <2>4 DEF IsRst
<1>12. Listed(<<g>>) /\ Items(<<g>>) = {g}
  <2>1. <<g>> \in Seq({g}) /\ DOMAIN <<g>> = {1} /\ <<g>>[1] = g
    OBVIOUS
  <2> QED
    BY <2>1, ListOf DEF Items
<1>13. x.peer = Y /\ x.sent = <<g>>
  BY <1>8
<1> QED
  BY <1>9, <1>10, <1>11, <1>12, <1>13 DEF Resets

(* A reset that is heard sets the errors of both streams and is answered    *)
(* with one.                                                                *)
LEMMA ResetHeard ==
    ASSUME NEW X, Body(X), Active(X), NEW msg, IsRst(msg), NEW x, x = PeerReceive(X, msg)
    PROVE  /\ Body(x.peer) /\ Outbound(x.peer) = StreamSetError(Outbound(X))
           /\ Inbound(x.peer) = StreamSetError(Inbound(X))
           /\ Listed(x.sent) /\ \A m \in Items(x.sent) : IsRst(m)
<1>1. PICK s, r, n, f, i :
          /\ X = [sender |-> s, receiver |-> r, need_send |-> n,
                  linger_after_streams_finish |-> f, idle |-> i]
          /\ s = X.sender /\ r = X.receiver
  BY DEF Body, Shaped
<1>2. PICK need : need = (n \/ WantsReply(X, msg))
  OBVIOUS
<1>3. PICK A : A = [sender |-> s, receiver |-> r, need_send |-> need,
                    linger_after_streams_finish |-> f, idle |-> 0]
  OBVIOUS
<1>4. Body(A) /\ Outbound(A) = Outbound(X) /\ Inbound(A) = Inbound(X)
  <2>1. Shaped(A) /\ A.sender = s /\ A.receiver = r
    BY <1>3 DEF Shaped
  <2> QED
    BY <1>1, <2>1 DEF Body, Outbound, Inbound
<1>5. PICK out, in : /\ out = StreamSetError(Outbound(X)) /\ in = StreamSetError(Inbound(X))
                     /\ StreamIntact(out) /\ StreamIntact(in) /\ out.error
  BY ErrorResult DEF Body
<1>6. PICK B : B = [A EXCEPT !.sender.input = out] /\ Body(B) /\ Outbound(B) = out
               /\ Inbound(B) = Inbound(X) /\ B.receiver = r
  <2>1. PICK B : B = [A EXCEPT !.sender.input = out]
    OBVIOUS
  <2>2. Body(B) /\ Outbound(B) = out /\ Inbound(B) = Inbound(X) /\ B.receiver = A.receiver
    BY <1>4, <1>5, <2>1, OtherInput
  <2> QED
    BY <1>3, <2>1, <2>2
<1>7. PICK C : C = [B EXCEPT !.receiver.reassembler.output = in] /\ Body(C) /\ Outbound(C) = out
               /\ Inbound(C) = in
  <2>1. PICK C : C = [B EXCEPT !.receiver.reassembler.output = in]
    OBVIOUS
  <2>2. Body(B) /\ StreamIntact(in)
    BY <1>5, <1>6
  <2>3. Body(C) /\ Outbound(C) = Outbound(B) /\ Inbound(C) = in
    BY <2>1, <2>2, OtherOutput
  <2> QED
    BY <1>6, <2>1, <2>3
<1>8. PICK R : R = [X EXCEPT !.idle = 0,
                             !.need_send = @ \/ WantsReply(X, msg),
                             !.receiver = ReceiverReceive(@, msg.sender),
                             !.sender = SenderReceive(@, msg.receiver)]
  OBVIOUS
<1>9. R = C
  <2>1. PICK z, c, o : r = [reassembler |-> z, isn |-> c, isn_set |-> o] /\ z = r.reassembler
    BY <1>1 DEF Body
  <2>2. PICK y, e, d : z = [output |-> y, last_byte |-> e, pending |-> d] /\ y = Inbound(X)
    BY <1>1, <2>1 DEF Body, Inbound
  <2>3. PICK t : t = SenderReceive(s, msg.receiver) /\ t = [s EXCEPT !.input = out]
    BY <1>1, <1>5 DEF SenderReceive, IsRst, Outbound
  <2>4. PICK w : w = ReceiverReceive(r, msg.sender) /\ w = [r EXCEPT !.reassembler.output = in]
    BY <1>1, <1>5, <2>1, <2>2 DEF ReceiverReceive, IsRst
  <2>5. R = [sender |-> t, receiver |-> w, need_send |-> need,
             linger_after_streams_finish |-> f, idle |-> 0]
    BY <1>1, <1>2, <1>8, <2>3, <2>4
  <2>6. B = [sender |-> t, receiver |-> r, need_send |-> need,
             linger_after_streams_finish |-> f, idle |-> 0]
    BY <1>3, <1>6, <2>3
  <2>7. C = [sender |-> t, receiver |-> w, need_send |-> need,
             linger_after_streams_finish |-> f, idle |-> 0]
    BY <1>7, <2>4, <2>6
  <2> QED
    BY <2>5, <2>7
<1>10. PICK y : y = PeerPush(R) /\ Resets(y, C) /\ ~y.peer.need_send
  BY <1>5, <1>7, <1>9, ErrorPush
<1>11. PICK Y : Y = y.peer /\ Body(Y) /\ Outbound(Y) = out /\ Inbound(Y) = in
  BY <1>7, <1>10 DEF Resets
<1>12. PICK Z : Z = NoteLinger(Y)
  OBVIOUS
<1>13. Body(Z) /\ Outbound(Z) = out /\ Inbound(Z) = in
  <2>1. PICK s2, r2, n2, f2, i2 :
            /\ Y = [sender |-> s2, receiver |-> r2, need_send |-> n2,
                    linger_after_streams_finish |-> f2, idle |-> i2]
            /\ s2 = Y.sender /\ r2 = Y.receiver
    BY <1>11 DEF Body, Shaped
  <2>2. PICK no : no = FALSE
    OBVIOUS
  <2>3. PICK g : g = [sender |-> s2, receiver |-> r2, need_send |-> n2,
                      linger_after_streams_finish |-> no, idle |-> i2]
    OBVIOUS
  <2>4. [Y EXCEPT !.linger_after_streams_finish = no] = g
    BY <2>1, <2>3
  <2>5. Z = Y \/ Z = g
    BY <1>12, <2>2, <2>4 DEF NoteLinger
  <2>6. Shaped(g) /\ g.sender = s2 /\ g.receiver = r2
    BY <2>3 DEF Shaped
  <2> QED
    BY <1>11, <2>1, <2>5, <2>6 DEF Body, Outbound, Inbound
<1>14. PICK all : all = y.sent \o <<>> /\ Listed(all) /\ Items(all) \subseteq Items(y.sent)
  <2>1. Listed(<<>>) /\ Items(<<>>) = {}
    BY DEF Listed, Items
  <2> QED
    BY <1>10, <2>1, ListConcat DEF Resets
<1>15. PeerReceive(X, msg) = [peer |-> Z, sent |-> all]
  BY <1>8, <1>10, <1>11, <1>12, <1>14 DEF PeerReceive, PeerResult
<1>16. x.peer = Z /\ x.sent = all
  BY <1>15
<1> QED
  BY <1>5, <1>10, <1>13, <1>14, <1>16 DEF Resets

-----------------------------------------------------------------------------
(* Two peers X and R with their errors, and what is on its way: T to X and  *)
(* W to R. P and Q are what they were before the first error of each; E     *)
(* says that there may be one.                                              *)
OnWay(m, n) == IsRst(m) \/ m \in n

Mirrors(P, X) ==
    /\ Body(X) /\ (~HasErrors(X) => P = X)
    /\ BytesPushed(Outbound(P)) = BytesPushed(Outbound(X))
    /\ BytesPushed(Inbound(P)) = BytesPushed(Inbound(X))
    /\ Outbound(P).eof => Outbound(X).eof
    /\ Inbound(P).eof <=> Inbound(X).eof

Bound(P, Q, np, nq, X, R, T, W, a, b) ==
    /\ Joined(P, Q, np, nq, a, b) /\ Mirrors(P, X) /\ Mirrors(Q, R)
    /\ \A m \in T : OnWay(m, np)
    /\ \A m \in W : OnWay(m, nq)

Connected(X, R, T, W, a, b, E) ==
    /\ \E P, Q, np, nq : Bound(P, Q, np, nq, X, R, T, W, a, b)
    /\ HasErrors(X) \/ HasErrors(R) => E
    /\ \A m \in T \cup W : IsRst(m) => E

(* What may become of a peer's streams when its owner leaves them alone.    *)
Response(Y, X) ==
    /\ Outbound(Y).eof = Outbound(X).eof /\ (Outbound(X).error => Outbound(Y).error)
    /\ BytesPushed(Outbound(Y)) = BytesPushed(Outbound(X))
    /\ Inbound(Y).popped = Inbound(X).popped
    /\ Inbound(X).eof => Inbound(Y).eof
    /\ Inbound(X).error => Inbound(Y).error
    /\ IsFinished(Inbound(X)) => IsFinished(Inbound(Y))
    /\ HasErrors(Y) => HasErrors(X) \/ Outbound(Y).error

LEMMA ConnectedTurned ==
    ASSUME NEW X, NEW R, NEW T, NEW W, NEW a, NEW b, NEW E, Connected(X, R, T, W, a, b, E)
    PROVE  Connected(R, X, W, T, b, a, E)
<1>1. PICK P, Q, np, nq : Bound(P, Q, np, nq, X, R, T, W, a, b)
  BY DEF Connected
<1>2. Bound(Q, P, nq, np, R, X, W, T, b, a)
  BY <1>1, JoinedTurned DEF Bound
<1> QED
  BY <1>2 DEF Connected

LEMMA ConnectedFewer ==
    ASSUME NEW X, NEW R, NEW T, NEW W, NEW a, NEW b, NEW E, Connected(X, R, T, W, a, b, E),
           NEW t, NEW w, t \subseteq T, w \subseteq W, NEW F, E => F
    PROVE  Connected(X, R, t, w, a, b, F)
<1>1. PICK P, Q, np, nq : Bound(P, Q, np, nq, X, R, T, W, a, b)
  BY DEF Connected
<1>2. Bound(P, Q, np, nq, X, R, t, w, a, b)
  BY <1>1 DEF Bound
<1> QED
  BY <1>2 DEF Connected

(* What is known of the peers.                                              *)
LEMMA ConnectedFacts ==
    ASSUME NEW X, NEW R, NEW T, NEW W, NEW a \in Ways, NEW b \in Ways, NEW E,
           Connected(X, R, T, W, a, b, E)
    PROVE  /\ Body(X) /\ Body(R)
           /\ BytesPushed(Outbound(X)) \in 0 .. a.length
           /\ Inbound(X).eof => /\ Outbound(R).eof
                                /\ BytesPushed(Inbound(X)) = BytesPushed(Outbound(R))
<1>1. PICK P, Q, np, nq : Bound(P, Q, np, nq, X, R, T, W, a, b)
  BY DEF Connected
<1>2. Received(P, Q)
  BY <1>1, JoinedReceived DEF Bound
<1> QED
  BY <1>1, <1>2 DEF Bound, Mirrors, Joined, Received

LEMMA ConnectedComplete ==
    ASSUME NEW X, NEW R, NEW T, NEW W, NEW a \in Ways, NEW b \in Ways, NEW E,
           Connected(X, R, T, W, a, b, E), ~HasErrors(X), ~Active(X)
    PROVE  /\ Outbound(X).eof /\ Inbound(X).eof
           /\ Inbound(R).eof /\ BytesPushed(Inbound(R)) = BytesPushed(Outbound(X))
<1>1. PICK P, Q, np, nq : Bound(P, Q, np, nq, X, R, T, W, a, b)
  BY DEF Connected
<1>2. P = X /\ Joined(X, Q, np, nq, a, b) /\ Mirrors(Q, R)
  BY <1>1 DEF Bound, Mirrors
<1>3. /\ Outbound(X).eof /\ Inbound(X).eof
      /\ Inbound(Q).eof /\ BytesPushed(Inbound(Q)) = BytesPushed(Outbound(X))
  BY <1>2, JoinedComplete
<1> QED
  BY <1>2, <1>3 DEF Mirrors

(* A peer without errors goes on.                                           *)
LEMMA ConnectedOn ==
    ASSUME NEW X, NEW R, NEW T, NEW W, NEW a \in Ways, NEW b \in Ways, NEW E,
           Connected(X, R, T, W, a, b, E),
           NEW P, NEW Q, NEW np, NEW nq, Bound(P, Q, np, nq, X, R, T, W, a, b),
           NEW Y, NEW S, Joined(Y, Q, np, nq \cup S, a, b)
    PROVE  Connected(Y, R, T, W \cup S, a, b, E) /\ ~HasErrors(Y)
<1>1. ~HasErrors(Y) /\ Body(Y)
  BY JoinedReceived, JoinedBody DEF Received
<1>2. \A m \in W \cup S : OnWay(m, nq \cup S)
  BY DEF Bound, OnWay
<1>3. Bound(Y, Q, np, nq \cup S, Y, R, T, W \cup S, a, b)
  BY <1>1, <1>2 DEF Bound, Mirrors
<1>4. ASSUME NEW m \in S
      PROVE  ~IsRst(m)
  <2>1. PICK p, q : Linked(Y, Q, np, nq \cup S, p, q)
    BY SoFarIsAWay DEF Joined
  <2>2. Fits(m.sender, Y.sender, p.length)
    BY <2>1 DEF Linked, Flow
  <2> QED
    BY <2>2 DEF Fits, IsRst
<1> QED
  BY <1>1, <1>3, <1>4 DEF Connected

(* One with errors sends nothing but resets, and receives nothing.          *)
LEMMA ConnectedStill ==
    ASSUME NEW X, NEW R, NEW T, NEW W, NEW a, NEW b, NEW E,
           Connected(X, R, T, W, a, b, E), E,
           NEW Y, Body(Y), HasErrors(Y),
           BytesPushed(Outbound(Y)) = BytesPushed(Outbound(X)),
           BytesPushed(Inbound(Y)) = BytesPushed(Inbound(X)),
           Outbound(X).eof => Outbound(Y).eof, Inbound(Y).eof <=> Inbound(X).eof,
           NEW S, \A m \in S : IsRst(m)
    PROVE  Connected(Y, R, T, W \cup S, a, b, E)
<1>1. PICK P, Q, np, nq : Bound(P, Q, np, nq, X, R, T, W, a, b)
  BY DEF Connected
<1>2. Bound(P, Q, np, nq, Y, R, T, W \cup S, a, b)
  BY <1>1 DEF Bound, Mirrors, OnWay
<1> QED
  BY <1>2 DEF Connected

-----------------------------------------------------------------------------
(* A call of a peer, and what it sends.                                     *)
Stepped(x, X, R, T, W, a, b, E) ==
    /\ Connected(Coarse(x.peer), R, T, W \cup Items(x.sent), a, b, E)
    /\ Response(Coarse(x.peer), X) /\ Listed(x.sent)

LEMMA AlongFurther ==
    ASSUME NEW X, NEW Y, NEW Z, Along(Y, X), Along(Z, Y)
    PROVE  Along(Z, X)
BY DEF Along, WrittenAlike, Filled

LEMMA AlongResponds ==
    ASSUME NEW X, NEW Y, NEW Q, Received(X, Q), Received(Y, Q), Along(Y, X)
    PROVE  Response(Y, X)
BY ReadStays DEF Along, WrittenAlike, Filled, Response, Received, HasErrors

(* Without errors.                                                          *)
LEMMA SteppedOn ==
    ASSUME NEW X, NEW R, NEW T, NEW W, NEW a \in Ways, NEW b \in Ways, NEW E,
           Connected(X, R, T, W, a, b, E), ~HasErrors(X),
           NEW P, NEW Q, NEW np, NEW nq, Bound(P, Q, np, nq, X, R, T, W, a, b),
           NEW x, Joined(x.peer, Q, np, nq \cup Items(x.sent), a, b),
           Along(x.peer, X), Listed(x.sent)
    PROVE  Stepped(x, X, R, T, W, a, b, E)
<1>1. PICK Y, S : Y = Coarse(x.peer) /\ S = Items(x.sent)
  OBVIOUS
<1>2. Joined(Y, Q, np, nq \cup S, a, b) /\ Along(Y, x.peer)
  BY <1>1, JoinedCoarse
<1>3. Connected(Y, R, T, W \cup S, a, b, E)
  BY <1>2, ConnectedOn
<1>4. Joined(X, Q, np, nq, a, b)
  BY DEF Bound, Mirrors
<1>5. Received(X, Q) /\ Received(Y, Q)
  BY <1>2, <1>4, JoinedReceived
<1>6. Response(Y, X)
  BY <1>2, <1>5, AlongFurther, AlongResponds
<1> QED
  BY <1>1, <1>3, <1>6 DEF Stepped

(* With the same streams as before, or with an error that is new.           *)
LEMMA SteppedStill ==
    ASSUME NEW X, NEW R, NEW T, NEW W, NEW a \in Ways, NEW b \in Ways, NEW E,
           Connected(X, R, T, W, a, b, E), E, NEW Y,
           BytesPushed(Outbound(Y)) = BytesPushed(Outbound(X)),
           Outbound(Y).eof = Outbound(X).eof, Outbound(Y).error,
           BytesPushed(Inbound(Y)) = BytesPushed(Inbound(X)),
           Inbound(Y).queue = Inbound(X).queue, Inbound(Y).popped = Inbound(X).popped,
           Inbound(Y).eof = Inbound(X).eof, Inbound(X).error => Inbound(Y).error,
           NEW x, Resets(x, Y)
    PROVE  Stepped(x, X, R, T, W, a, b, E)
<1>1. PICK Z, S : Z = Coarse(x.peer) /\ S = Items(x.sent)
  OBVIOUS
<1>2. Body(Z) /\ Outbound(Z) = Outbound(Y) /\ Inbound(Z) = Inbound(Y)
  BY <1>1, CoarseBody DEF Resets
<1>3. HasErrors(Z) /\ \A m \in S : IsRst(m)
  BY <1>1, <1>2 DEF HasErrors, Resets
<1>4. Connected(Z, R, T, W \cup S, a, b, E)
  BY <1>2, <1>3, ConnectedStill
<1>5. Response(Z, X)
  BY <1>2 DEF Response, IsFinished
<1> QED
  BY <1>1, <1>4, <1>5 DEF Stepped, Resets

(* receive.                                                                 *)
LEMMA ConnectedReceive ==
    ASSUME NEW X, NEW R, NEW T, NEW W, NEW a \in Ways, NEW b \in Ways, NEW E,
           Connected(X, R, T, W, a, b, E), 2 * (b.length + 2) < CYCLE,
           NEW msg \in T, NEW x, x = PeerReceive(X, msg)
    PROVE  Stepped(x, X, R, T, W, a, b, E)
<1>1. PICK P, Q, np, nq : Bound(P, Q, np, nq, X, R, T, W, a, b)
  BY DEF Connected
<1>2. CASE ~Active(X)
  <2>1. x = [peer |-> X, sent |-> <<>>]
    BY <1>2 DEF PeerReceive, PeerResult
  <2>2. x.peer = X /\ x.sent = <<>> /\ Items(<<>>) = {} /\ Listed(<<>>)
    BY <2>1 DEF Listed, Items
  <2>3. Body(X)
    BY ConnectedFacts
  <2>4. PICK Y : Y = Coarse(X) /\ Body(Y) /\ Outbound(Y) = Outbound(X) /\ Inbound(Y) = Inbound(X)
    BY <2>3, CoarseBody
  <2>5. Connected(Y, R, T, W \cup {}, a, b, E)
    <3>1. CASE ~HasErrors(X)
      <4>1. Joined(X, Q, np, nq, a, b)
        BY <1>1, <3>1 DEF Bound, Mirrors
      <4>2. Joined(Y, Q, np, nq \cup {}, a, b)
        BY <2>4, <4>1, JoinedCoarse
      <4> QED
        BY <1>1, <4>2, ConnectedOn
    <3>2. CASE HasErrors(X)
      <4>1. E /\ HasErrors(Y)
        BY <2>4, <3>2 DEF Connected, HasErrors
      <4>2. \A m \in {} : IsRst(m)
        OBVIOUS
      <4> QED
        BY <2>4, <4>1, <4>2, ConnectedStill
    <3> QED
      BY <3>1, <3>2
  <2>6. Response(Y, X)
    BY <2>4 DEF Response, HasErrors
  <2> QED
    BY <2>2, <2>4, <2>5, <2>6 DEF Stepped
<1>3. CASE Active(X) /\ IsRst(msg)
  <2>1. Body(X) /\ E
    BY <1>3, ConnectedFacts DEF Connected
  <2>2. /\ Body(x.peer) /\ Outbound(x.peer) = StreamSetError(Outbound(X))
        /\ Inbound(x.peer) = StreamSetError(Inbound(X))
        /\ Listed(x.sent) /\ \A m \in Items(x.sent) : IsRst(m)
    BY <1>3, <2>1, ResetHeard
  <2>3. PICK Y : Y = x.peer
    OBVIOUS
  <2>4. /\ StreamIntact(Outbound(X)) /\ StreamIntact(Inbound(X))
    BY <2>1 DEF Body
  <2>5. /\ BytesPushed(Outbound(Y)) = BytesPushed(Outbound(X))
        /\ Outbound(Y).eof = Outbound(X).eof /\ Outbound(Y).error
        /\ BytesPushed(Inbound(Y)) = BytesPushed(Inbound(X))
        /\ Inbound(Y).queue = Inbound(X).queue /\ Inbound(Y).popped = Inbound(X).popped
        /\ Inbound(Y).eof = Inbound(X).eof /\ Inbound(Y).error
    BY <2>2, <2>3, <2>4, ErrorResult
  <2>6. Resets(x, Y)
    BY <2>2, <2>3 DEF Resets
  <2> QED
    BY <2>1, <2>5, <2>6, SteppedStill
<1>4. CASE Active(X) /\ ~IsRst(msg)
  <2>1. ~HasErrors(X)
    BY <1>4 DEF Active
  <2>2. Joined(X, Q, np, nq, a, b) /\ msg \in np
    BY <1>1, <1>4, <2>1 DEF Bound, Mirrors, OnWay
  <2>3. /\ Joined(x.peer, Q, np, nq \cup Items(x.sent), a, b)
        /\ Along(x.peer, X) /\ Listed(x.sent)
    BY <2>2, JoinedReceive
  <2> QED
    BY <1>1, <2>1, <2>3, SteppedOn
<1> QED
  BY <1>2, <1>3, <1>4

(* push; a peer with an error in its outbound stream sends a reset.         *)
LEMMA ConnectedPush ==
    ASSUME NEW X, NEW R, NEW T, NEW W, NEW a \in Ways, NEW b \in Ways, NEW E,
           Connected(X, R, T, W, a, b, E), HasErrors(X) => Outbound(X).error,
           NEW x, x = PeerPush(X)
    PROVE  Stepped(x, X, R, T, W, a, b, E)
<1>1. PICK P, Q, np, nq : Bound(P, Q, np, nq, X, R, T, W, a, b)
  BY DEF Connected
<1>2. CASE ~HasErrors(X)
  <2>1. Joined(X, Q, np, nq, a, b)
    BY <1>1, <1>2 DEF Bound, Mirrors
  <2>2. /\ Joined(x.peer, Q, np, nq \cup Items(x.sent), a, b)
        /\ Along(x.peer, X) /\ Listed(x.sent)
    BY <2>1, JoinedPush
  <2> QED
    BY <1>1, <1>2, <2>2, SteppedOn
<1>3. CASE HasErrors(X)
  <2>1. Body(X) /\ E /\ Outbound(X).error
    BY <1>3, ConnectedFacts DEF Connected
  <2>2. Resets(x, X)
    BY <2>1, ErrorPush
  <2> QED
    BY <2>1, <2>2, SteppedStill
<1> QED
  BY <1>2, <1>3

(* The owner sets an error and pushes.                                      *)
LEMMA ConnectedReset ==
    ASSUME NEW X, NEW R, NEW T, NEW W, NEW a \in Ways, NEW b \in Ways, NEW E,
           Connected(X, R, T, W, a, b, E), E,
           NEW x, x = PeerPush([X EXCEPT !.sender.input = StreamSetError(@)])
    PROVE  Stepped(x, X, R, T, W, a, b, E) /\ Outbound(Coarse(x.peer)).error
<1>1. Body(X) /\ StreamIntact(Outbound(X))
  BY ConnectedFacts DEF Body
<1>2. PICK out : out = StreamSetError(Outbound(X)) /\ StreamIntact(out) /\ out.error
                 /\ out.eof = Outbound(X).eof /\ BytesPushed(out) = BytesPushed(Outbound(X))
  BY <1>1, ErrorResult
<1>3. PICK Y : Y = [X EXCEPT !.sender.input = out]
  OBVIOUS
<1>4. Body(Y) /\ Outbound(Y) = out /\ Inbound(Y) = Inbound(X)
  BY <1>1, <1>2, <1>3, OtherInput
<1>5. [X EXCEPT !.sender.input = StreamSetError(@)] = Y
  BY <1>2, <1>3 DEF Outbound
<1>6. Resets(x, Y)
  BY <1>2, <1>4, <1>5, ErrorPush
<1>7. Body(x.peer) /\ Outbound(x.peer) = out
  BY <1>4, <1>6 DEF Resets
<1>8. Outbound(Coarse(x.peer)) = out
  BY <1>7, CoarseBody
<1>9. Stepped(x, X, R, T, W, a, b, E)
  BY <1>2, <1>4, <1>6, SteppedStill
<1> QED
  BY <1>2, <1>8, <1>9

(* tick.                                                                    *)
LEMMA ConnectedTick ==
    ASSUME NEW X, NEW R, NEW T, NEW W, NEW a \in Ways, NEW b \in Ways, NEW E,
           Connected(X, R, T, W, a, b, E), Active(X), NEW ms \in Nat,
           NEW x, x = PeerTick(X, ms)
    PROVE  Stepped(x, X, R, T, W, a, b, E)
<1>1. PICK P, Q, np, nq : Bound(P, Q, np, nq, X, R, T, W, a, b)
  BY DEF Connected
<1>2. ~HasErrors(X)
  BY DEF Active
<1>3. Joined(X, Q, np, nq, a, b)
  BY <1>1, <1>2 DEF Bound, Mirrors
<1>4. /\ Joined(x.peer, Q, np, nq \cup Items(x.sent), a, b)
      /\ Along(x.peer, X) /\ Listed(x.sent)
  BY <1>3, JoinedTick
<1> QED
  BY <1>1, <1>2, <1>4, SteppedOn

(* The owner writes to the stream or closes it, and pushes.                 *)
Wrote(Y, X, input) ==
    /\ Outbound(Y).eof = input.eof /\ BytesPushed(Outbound(Y)) = BytesPushed(input)
    /\ Inbound(Y).popped = Inbound(X).popped /\ ~HasErrors(Y)
    /\ Inbound(X).eof => Inbound(Y).eof
    /\ IsFinished(Inbound(X)) => IsFinished(Inbound(Y))

LEMMA ConnectedWrite ==
    ASSUME NEW X, NEW R, NEW T, NEW W, NEW a \in Ways, NEW b \in Ways, NEW E,
           Connected(X, R, T, W, a, b, E), 2 * (a.length + 2) < CYCLE, ~HasErrors(X),
           NEW input, Longer(input, Outbound(X), a.length),
           NEW x, x = PeerPush([X EXCEPT !.sender.input = input])
    PROVE  LET Y == Coarse(x.peer)
           IN  /\ Connected(Y, R, T, W \cup Items(x.sent), a, b, E) /\ Listed(x.sent)
               /\ Wrote(Y, X, input)
<1>1. PICK P, Q, np, nq : Bound(P, Q, np, nq, X, R, T, W, a, b)
  BY DEF Connected
<1>2. Joined(X, Q, np, nq, a, b)
  BY <1>1 DEF Bound, Mirrors
<1>3. /\ Joined(x.peer, Q, np, nq \cup Items(x.sent), a, b) /\ Listed(x.sent)
      /\ WrittenAlike(Outbound(x.peer), input) /\ Filled(Inbound(x.peer), Inbound(X))
  BY <1>2, JoinedWrite
<1>4. PICK Y, S : Y = Coarse(x.peer) /\ S = Items(x.sent)
  OBVIOUS
<1>5. Joined(Y, Q, np, nq \cup S, a, b) /\ Along(Y, x.peer)
  BY <1>3, <1>4, JoinedCoarse
<1>6. Connected(Y, R, T, W \cup S, a, b, E) /\ ~HasErrors(Y)
  BY <1>1, <1>5, ConnectedOn
<1>7. WrittenAlike(Outbound(Y), input) /\ Filled(Inbound(Y), Inbound(X))
  BY <1>3, <1>5 DEF Along, WrittenAlike, Filled
<1>8. Received(X, Q) /\ Received(Y, Q)
  BY <1>2, <1>5, JoinedReceived
<1>9. IsFinished(Inbound(X)) => IsFinished(Inbound(Y))
  BY <1>7, <1>8, ReadStays
<1> QED
  BY <1>3, <1>4, <1>6, <1>7, <1>9 DEF WrittenAlike, Filled, Wrote

-----------------------------------------------------------------------------
(* What the owner reads from the inbound stream.                            *)
LEMMA ConnectedRead ==
    ASSUME NEW X, NEW R, NEW T, NEW W, NEW a \in Ways, NEW b \in Ways, NEW E,
           Connected(X, R, T, W, a, b, E), NEW len \in Nat,
           NEW Y, Y = [X EXCEPT !.receiver.reassembler.output = StreamPop(@, len)]
    PROVE  /\ Connected(Y, R, T, W, a, b, E) /\ Body(Y)
           /\ Outbound(Y) = Outbound(X) /\ Inbound(Y) = StreamPop(Inbound(X), len)
<1>1. PICK P, Q, np, nq : Bound(P, Q, np, nq, X, R, T, W, a, b)
  BY DEF Connected
<1>2. Body(X) /\ StreamIntact(Inbound(X))
  BY ConnectedFacts DEF Body
<1>3. PICK in : /\ in = StreamPop(Inbound(X), len) /\ StreamIntact(in)
                /\ in.eof = Inbound(X).eof /\ in.error = Inbound(X).error
                /\ BytesPushed(in) = BytesPushed(Inbound(X))
  BY <1>2, PopResult
<1>4. Y = [X EXCEPT !.receiver.reassembler.output = in]
  BY <1>3 DEF Inbound
<1>5. Body(Y) /\ Inbound(Y) = in /\ Outbound(Y) = Outbound(X)
  <2> QED
    BY <1>2, <1>3, <1>4, OtherOutput
<1>6. HasErrors(Y) <=> HasErrors(X)
  BY <1>3, <1>5 DEF HasErrors
<1>7. CASE ~HasErrors(X)
  <2>1. Joined(X, Q, np, nq, a, b)
    BY <1>1, <1>7 DEF Bound, Mirrors
  <2>2. Joined(Y, Q, np, nq, a, b)
    BY <2>1, JoinedRead
  <2>3. nq \cup {} = nq /\ W \cup {} = W
    OBVIOUS
  <2>4. PICK Z : Z = Y /\ Joined(Z, Q, np, nq \cup {}, a, b)
    BY <2>2, <2>3
  <2>5. Connected(Z, R, T, W \cup {}, a, b, E)
    BY <1>1, <2>4, ConnectedOn
  <2> QED
    BY <1>3, <1>5, <2>3, <2>4, <2>5
<1>8. CASE HasErrors(X)
  <2>1. E /\ HasErrors(Y) /\ W \cup {} = W
    BY <1>6, <1>8 DEF Connected
  <2>2. \A m \in {} : IsRst(m)
    OBVIOUS
  <2>3. Connected(Y, R, T, W \cup {}, a, b, E)
    BY <1>3, <1>5, <2>1, <2>2, ConnectedStill
  <2> QED
    BY <1>3, <1>5, <2>1, <2>3
<1> QED
  BY <1>7, <1>8

(* An error in one of the streams of X, which may be closed with it.        *)
LEMMA ConnectedSpoilt ==
    ASSUME NEW X, NEW R, NEW T, NEW W, NEW a, NEW b, NEW E,
           Connected(X, R, T, W, a, b, E), E,
           NEW Y, Body(Y), HasErrors(Y),
           BytesPushed(Outbound(Y)) = BytesPushed(Outbound(X)),
           BytesPushed(Inbound(Y)) = BytesPushed(Inbound(X)),
           Outbound(X).eof => Outbound(Y).eof, Inbound(Y).eof <=> Inbound(X).eof
    PROVE  Connected(Y, R, T, W, a, b, E)
<1>1. W \cup {} = W /\ \A m \in {} : IsRst(m)
  OBVIOUS
<1>2. Connected(Y, R, T, W \cup {}, a, b, E)
  BY <1>1, ConnectedStill
<1> QED
  BY <1>1, <1>2

-----------------------------------------------------------------------------
(* The state of the thread and the kernel, world. Its fields are the same   *)
(* all along; o is the owner and r the other side.                          *)
FdStates == [eof : BOOLEAN, closed : BOOLEAN, counted : SUBSET {"In", "Out"}]

IsWorld(w) ==
    /\ w = [rules |-> w.rules, asked |-> w.asked, served |-> w.served, outcome |-> w.outcome,
            fd |-> w.fd, peer |-> w.peer, adapter |-> w.adapter,
            outbound_shutdown |-> w.outbound_shutdown, inbound_shutdown |-> w.inbound_shutdown,
            tun |-> w.tun, wire |-> w.wire, toThread |-> w.toThread, toOwner |-> w.toOwner,
            ownerShut |-> w.ownerShut, broken |-> w.broken]
    /\ w.fd \in [{"tun", "data"} -> FdStates]

LocalWay  == [isn |-> LocalIsn, length |-> OwnerBytes]
RemoteWay == [isn |-> RemoteIsn, length |-> RemoteBytes]

(* The streams are short enough for sequence numbers to tell bytes apart.   *)
ShortStreams == 2 * (OwnerBytes + 2) < CYCLE /\ 2 * (RemoteBytes + 2) < CYCLE

(* What is on its way from one peer to the other. Others' datagrams are not *)
(* a part of it, and are told from it by where they come from.              *)
ToUs(tun)    == {d.msg : d \in {e \in Items(tun) : e.src = Remote}}
ToThem(wire) == {d.msg : d \in Items(wire)}

IsStray(d) ==
    /\ d.src.host # Remote.host \/ d.src.port # Remote.port
    /\ ~d.msg.sender.SYN

Faulty(w, r) == Outbound(r).error \/ w.broken

Wired(w, r) ==
    /\ Listed(w.tun) /\ Listed(w.wire)
    /\ \A d \in Items(w.tun) : d.dst = Local /\ (d.src = Remote \/ IsStray(d))
    /\ Connected(w.peer, r, ToUs(w.tun), ToThem(w.wire), LocalWay, RemoteWay, Faulty(w, r))
    /\ HasErrors(r) => Outbound(r).error

(* Where the bytes of both streams are.                                     *)
Conserved(w, o) ==
    LET outbound == Outbound(w.peer)
        inbound  == Inbound(w.peer)
    IN  /\ IsRun(w.toThread, BytesPushed(outbound)) /\ IsRun(w.toOwner, o.read)
        /\ BytesPushed(outbound) + Len(w.toThread) = o.written
        /\ o.read + Len(w.toOwner) = inbound.popped
        /\ o.written \in 0 .. OwnerBytes /\ o.read \in Nat

(* What the flags, the descriptors and the ends of the streams have to do   *)
(* with each other.                                                         *)
Ends(w, o) ==
    LET outbound == Outbound(w.peer)
        inbound  == Inbound(w.peer)
    IN  /\ ~w.fd["tun"].eof /\ ~w.fd["tun"].closed /\ ~w.fd["data"].closed
        /\ w.fd["data"].eof => outbound.eof
        /\ outbound.eof => w.outbound_shutdown
        /\ outbound.eof => (w.toThread = <<>> /\ "Out" \in w.ownerShut) \/ HasErrors(w.peer)
        /\ w.inbound_shutdown => IsFinished(inbound) \/ inbound.error
        /\ w.broken => o.closed

Adapted(w) ==
    w.adapter \in {NewAdapter(Local, Remote, FALSE),
                   NewAdapter(Address(AnyHost, Local.port), Address(AnyHost, "0"), TRUE)}

Sound(w, o, r) == IsWorld(w) /\ Wired(w, r) /\ Conserved(w, o) /\ Ends(w, o) /\ Adapted(w)

(* Only the loop's own part of it has changed.                              *)
SameFd(f, g) == f.eof = g.eof /\ f.closed = g.closed

SameMatter(u, v) ==
    /\ u.peer = v.peer /\ u.tun = v.tun /\ u.wire = v.wire /\ u.broken = v.broken
    /\ u.toThread = v.toThread /\ u.toOwner = v.toOwner /\ u.ownerShut = v.ownerShut
    /\ u.adapter = v.adapter
    /\ u.outbound_shutdown = v.outbound_shutdown /\ u.inbound_shutdown = v.inbound_shutdown
    /\ SameFd(u.fd["tun"], v.fd["tun"]) /\ SameFd(u.fd["data"], v.fd["data"])

LEMMA SoundMatter ==
    ASSUME NEW v, NEW o, NEW r, Sound(v, o, r), NEW u, IsWorld(u), SameMatter(u, v)
    PROVE  Sound(u, o, r)
<1>1. Wired(u, r)
  BY DEF Sound, SameMatter, Wired, Faulty
<1>2. Conserved(u, o)
  BY DEF Sound, SameMatter, Conserved
<1>3. Ends(u, o)
  BY DEF Sound, SameMatter, Ends, SameFd
<1>4. Adapted(u)
  BY DEF Sound, SameMatter, Adapted
<1> QED
  BY <1>1, <1>2, <1>3, <1>4 DEF Sound

(* Both are ways.                                                           *)
LEMMA WaysOfBoth ==
    ASSUME SocketAssumption, ShortStreams
    PROVE  /\ LocalWay \in Ways /\ RemoteWay \in Ways
           /\ LocalWay.length = OwnerBytes /\ RemoteWay.length = RemoteBytes
           /\ LocalWay.isn = LocalIsn /\ RemoteWay.isn = RemoteIsn
           /\ 2 * (LocalWay.length + 2) < CYCLE /\ 2 * (RemoteWay.length + 2) < CYCLE
<1>1. PICK p : p = LocalWay /\ p = [isn |-> LocalIsn, length |-> OwnerBytes]
  BY DEF LocalWay
<1>2. PICK q : q = RemoteWay /\ q = [isn |-> RemoteIsn, length |-> RemoteBytes]
  BY DEF RemoteWay
<1>3. /\ p \in Ways /\ p.isn = LocalIsn /\ p.length = OwnerBytes
      /\ q \in Ways /\ q.isn = RemoteIsn /\ q.length = RemoteBytes
  BY <1>1, <1>2 DEF Ways, SocketAssumption
<1> QED
  BY <1>1, <1>2, <1>3 DEF ShortStreams

(* Of the datagrams in the TUN device, only those of the other side are     *)
(* heard, and only the other side is adopted.                               *)
LEMMA OnlyRemoteIsHeard ==
    ASSUME NEW w, Adapted(w), NEW d, d.dst = Local, d.src = Remote \/ IsStray(d),
           NEW x, x = UnwrapTCPInIP(w.adapter, d)
    PROVE  /\ x.heard \in BOOLEAN
           /\ x.heard => d.src = Remote
           /\ x.adapter \in {NewAdapter(Local, Remote, FALSE),
                             NewAdapter(Address(AnyHost, Local.port), Address(AnyHost, "0"), TRUE)}
<1>1. PICK a : a = w.adapter
  OBVIOUS
<1>2. /\ Local = [host |-> "local", port |-> "80"] /\ Remote = [host |-> "remote", port |-> "1024"]
      /\ Local.host = "local" /\ Local.port = "80"
      /\ Remote.host = "remote" /\ Remote.port = "1024"
  BY DEF Local, Remote, Address
<1>3. CASE a = NewAdapter(Local, Remote, FALSE)
  <2>1. a.listening = FALSE /\ a.source = Local /\ a.destination = Remote
    BY <1>3 DEF NewAdapter
  <2>2. Adopt(a, d) = a
    BY <2>1 DEF Adopt
  <2>3. PICK h : h = (d.src.port = "1024")
    OBVIOUS
  <2>4. CASE ForUs(a, d)
    <3>1. d.src.host = "remote"
      BY <1>2, <2>1, <2>4 DEF ForUs, HostsMatch
    <3>2. x = [adapter |-> a, heard |-> h]
      BY <1>1, <1>2, <2>1, <2>2, <2>3, <2>4 DEF UnwrapTCPInIP
    <3>3. x.adapter = a /\ x.heard = h
      BY <3>2
    <3>4. h => d.src = Remote
      BY <1>2, <2>3, <3>1 DEF IsStray
    <3> QED
      BY <1>3, <2>3, <3>3, <3>4
  <2>5. CASE ~ForUs(a, d)
    <3>1. x = [adapter |-> a, heard |-> FALSE]
      BY <1>1, <2>5 DEF UnwrapTCPInIP
    <3>2. x.adapter = a /\ x.heard = FALSE
      BY <3>1
    <3> QED
      BY <1>3, <3>2
  <2> QED
    BY <2>4, <2>5
<1>4. CASE a = NewAdapter(Address(AnyHost, Local.port), Address(AnyHost, "0"), TRUE)
  <2>1. a.listening = TRUE /\ a.source.port = "80"
    BY <1>2, <1>4 DEF NewAdapter, Address
  <2>2. ForUs(a, d) => d.src = Remote
    BY <2>1 DEF ForUs, IsStray
  <2>3. d.src = Remote => Adopt(a, d) = NewAdapter(Local, Remote, FALSE)
    BY <1>2, <2>1 DEF Adopt, Address
  <2>4. CASE ForUs(a, d)
    <3>1. x = [adapter |-> Adopt(a, d), heard |-> d.src.port = Adopt(a, d).destination.port]
      BY <1>1, <2>4 DEF UnwrapTCPInIP
    <3>2. x.adapter = Adopt(a, d) /\ x.heard \in BOOLEAN
      BY <3>1
    <3> QED
      BY <2>2, <2>3, <2>4, <3>2
  <2>5. CASE ~ForUs(a, d)
    <3>1. x = [adapter |-> a, heard |-> FALSE]
      BY <1>1, <2>5 DEF UnwrapTCPInIP
    <3>2. x.adapter = a /\ x.heard = FALSE
      BY <3>1
    <3> QED
      BY <1>4, <3>2
  <2> QED
    BY <2>4, <2>5
<1> QED
  BY <1>1, <1>3, <1>4 DEF Adapted

-----------------------------------------------------------------------------
(* What is left alone by a change of the world.                             *)
SameLoop(u, v) ==
    u.rules = v.rules /\ u.asked = v.asked /\ u.served = v.served /\ u.outcome = v.outcome

SameFlags(u, v) ==
    /\ u.outbound_shutdown = v.outbound_shutdown /\ u.inbound_shutdown = v.inbound_shutdown
    /\ u.ownerShut = v.ownerShut /\ u.broken = v.broken

SamePipe(u, v) == u.toThread = v.toThread /\ u.toOwner = v.toOwner

(* The TCPPeer transmits.                                                   *)
LEMMA TransmitResult ==
    ASSUME NEW w, IsWorld(w), Listed(w.wire), NEW x, Listed(x.sent), NEW u, u = Transmit(w, x)
    PROVE  /\ IsWorld(u) /\ u.peer = Coarse(x.peer)
           /\ Listed(u.wire) /\ ToThem(u.wire) \subseteq ToThem(w.wire) \cup Items(x.sent)
           /\ SameLoop(u, w) /\ SameFlags(u, w) /\ SamePipe(u, w)
           /\ u.fd = w.fd /\ u.tun = w.tun /\ u.adapter = w.adapter
<1>1. PICK Y, sent : Y = Coarse(x.peer) /\ sent = x.sent
  OBVIOUS
<1>2. PICK out : out = [k \in DOMAIN sent |-> WrapTCPInIP(w.adapter, sent[k])]
  OBVIOUS
<1>3. Listed(out) /\ \A d \in Items(out) : d.msg \in Items(sent)
  <2>1. PICK S : S = {WrapTCPInIP(w.adapter, m) : m \in Items(sent)}
    OBVIOUS
  <2>2. PICK l \in Nat : DOMAIN sent = 1 .. l /\ \A k \in 1 .. l : sent[k] \in Items(sent)
    BY <1>1, LenProperties DEF Listed, Items
  <2>3. out \in Seq(S)
    BY <1>2, <2>1, <2>2
  <2>4. Listed(out) /\ Items(out) \subseteq S
    BY <2>3, ListOf
  <2>5. \A m : WrapTCPInIP(w.adapter, m).msg = m
    BY DEF WrapTCPInIP
  <2> QED
    BY <2>1, <2>4, <2>5
<1>4. PICK wire : wire = w.wire \o out
  OBVIOUS
<1>5. Listed(wire) /\ Items(wire) \subseteq Items(w.wire) \cup Items(out)
  BY <1>3, <1>4, ListConcat
<1>6. ToThem(wire) \subseteq ToThem(w.wire) \cup Items(sent)
  BY <1>3, <1>5 DEF ToThem
<1>7. u = [w EXCEPT !.peer = Y, !.wire = wire]
  BY <1>1, <1>2, <1>4 DEF Transmit
<1>8. PICK v : v = [w EXCEPT !.peer = Y, !.wire = wire]
  OBVIOUS
<1>9. /\ v.peer = Y /\ v.wire = wire /\ IsWorld(v)
      /\ v.rules = w.rules /\ v.asked = w.asked /\ v.served = w.served /\ v.outcome = w.outcome
      /\ v.outbound_shutdown = w.outbound_shutdown /\ v.inbound_shutdown = w.inbound_shutdown
      /\ v.ownerShut = w.ownerShut /\ v.broken = w.broken
      /\ v.toThread = w.toThread /\ v.toOwner = w.toOwner
      /\ v.fd = w.fd /\ v.tun = w.tun /\ v.adapter = w.adapter
  BY <1>8 DEF IsWorld
<1>10. u = v
  BY <1>7, <1>8
<1> QED
  BY <1>1, <1>5, <1>6, <1>9, <1>10 DEF SameLoop, SameFlags, SamePipe

(* read of a FileDescriptor.                                                *)
LEMMA FdRead ==
    ASSUME NEW fd \in FdStates, NEW data, NEW ended \in BOOLEAN, NEW g, g = Read(fd, data, ended)
    PROVE  /\ g \in FdStates /\ g.closed = fd.closed
           /\ data # <<>> \/ ended => "In" \in g.counted
           /\ g.eof <=> fd.eof \/ (data = <<>> /\ ended)
<1>1. PICK e \in BOOLEAN, c \in BOOLEAN, n \in SUBSET {"In", "Out"} :
          fd = [eof |-> e, closed |-> c, counted |-> n]
  BY DEF FdStates
<1>2. CASE data = <<>> /\ ~ended
  BY <1>2 DEF Read
<1>3. CASE ~(data = <<>> /\ ~ended)
  <2>1. PICK f \in BOOLEAN : f = (e \/ data = <<>>)
    OBVIOUS
  <2>2. PICK m \in SUBSET {"In", "Out"} : m = n \cup {"In"}
    OBVIOUS
  <2>3. PICK h : h = [eof |-> f, closed |-> c, counted |-> m]
    OBVIOUS
  <2>4. g = [fd EXCEPT !.counted = @ \cup {"In"}, !.eof = @ \/ data = <<>>]
    BY <1>3 DEF Read
  <2>5. g = h
    BY <1>1, <2>1, <2>2, <2>3, <2>4
  <2>6. /\ h \in FdStates /\ h.closed = c /\ "In" \in h.counted /\ h.eof = f
        /\ fd.closed = c /\ fd.eof = e
    BY <1>1, <2>2, <2>3 DEF FdStates
  <2> QED
    BY <1>3, <2>1, <2>5, <2>6
<1> QED
  BY <1>2, <1>3

(* write and shutdown.                                                      *)
LEMMA FdCounts ==
    ASSUME NEW fd \in FdStates, NEW d \in SUBSET {"In", "Out"}, NEW g, g = [fd EXCEPT !.counted = @ \cup d]
    PROVE  g \in FdStates /\ SameFd(g, fd) /\ d \subseteq g.counted /\ fd.counted \subseteq g.counted
BY DEF FdStates, SameFd

(* What may not be undone while the owner and the other side stand still.   *)
Onward(u, v) ==
    /\ u.asked = v.asked /\ u.broken = v.broken /\ u.ownerShut = v.ownerShut
    /\ v.inbound_shutdown => u.inbound_shutdown
    /\ HasErrors(v.peer) => HasErrors(u.peer)
    /\ Inbound(v.peer).error => Inbound(u.peer).error
    /\ IsFinished(Inbound(v.peer)) => IsFinished(Inbound(u.peer))

LEMMA OnwardSame ==
    ASSUME NEW u, NEW v, SameMatter(u, v), u.asked = v.asked
    PROVE  Onward(u, v)
BY DEF SameMatter, Onward

LEMMA OnwardOn ==
    ASSUME NEW u, NEW v, NEW w, Onward(u, v), Onward(v, w)
    PROVE  Onward(u, w)
BY DEF Onward

LEMMA WiredOn ==
    ASSUME NEW w, NEW r, Wired(w, r), NEW S, NEW u,
           Listed(u.tun), Items(u.tun) \subseteq Items(w.tun),
           Listed(u.wire), ToThem(u.wire) \subseteq ToThem(w.wire) \cup S,
           Connected(u.peer, r, ToUs(w.tun), ToThem(w.wire) \cup S, LocalWay, RemoteWay, Faulty(w, r)),
           w.broken => u.broken
    PROVE  Wired(u, r)
<1>1. ToUs(u.tun) \subseteq ToUs(w.tun)
  BY DEF ToUs
<1>2. Faulty(w, r) => Faulty(u, r)
  BY DEF Faulty
<1>3. PICK T, W, E, F : /\ T = ToUs(w.tun) /\ W = ToThem(w.wire) \cup S
                        /\ E = Faulty(w, r) /\ F = Faulty(u, r)
  OBVIOUS
<1>4. PICK t, v : t = ToUs(u.tun) /\ v = ToThem(u.wire)
  OBVIOUS
<1>5. Connected(u.peer, r, t, v, LocalWay, RemoteWay, F)
  <2>1. Connected(u.peer, r, T, W, LocalWay, RemoteWay, E) /\ t \subseteq T /\ v \subseteq W /\ (E => F)
    BY <1>1, <1>2, <1>3, <1>4
  <2> QED
    BY <2>1, ConnectedFewer
<1>6. Connected(u.peer, r, ToUs(u.tun), ToThem(u.wire), LocalWay, RemoteWay, Faulty(u, r))
  BY <1>3, <1>4, <1>5
<1>7. \A d \in Items(u.tun) : d.dst = Local /\ (d.src = Remote \/ IsStray(d))
  BY DEF Wired
<1> QED
  BY <1>6, <1>7 DEF Wired

(* The TCPPeer does something of its own accord.                            *)
LEMMA SoundResponse ==
    ASSUME NEW w, NEW o, NEW r, Sound(w, o, r), NEW x,
           Stepped(x, w.peer, r, ToUs(w.tun), ToThem(w.wire), LocalWay, RemoteWay, Faulty(w, r)),
           NEW u, IsWorld(u), u.peer = Coarse(x.peer),
           Listed(u.tun), Items(u.tun) \subseteq Items(w.tun),
           Listed(u.wire), ToThem(u.wire) \subseteq ToThem(w.wire) \cup Items(x.sent),
           SameFlags(u, w), SamePipe(u, w), Adapted(u),
           SameFd(u.fd["tun"], w.fd["tun"]), SameFd(u.fd["data"], w.fd["data"])
    PROVE  Sound(u, o, r) /\ (u.asked = w.asked => Onward(u, w))
<1>1. PICK Y, X : Y = Coarse(x.peer) /\ X = w.peer
  OBVIOUS
<1>2. Response(Y, X) /\ u.peer = Y
  BY <1>1 DEF Stepped
<1>3. HasErrors(X) => HasErrors(Y)
  BY <1>2 DEF Response, HasErrors
<1>4. Wired(u, r)
  BY WiredOn DEF Sound, Stepped, SameFlags
<1>5. Conserved(u, o)
  BY <1>1, <1>2 DEF Sound, Conserved, SamePipe, Response
<1>6. Ends(u, o)
  BY <1>1, <1>2, <1>3 DEF Sound, Ends, SamePipe, SameFlags, SameFd, Response
<1>7. u.asked = w.asked => Onward(u, w)
  BY <1>1, <1>2, <1>3 DEF Onward, SameFlags, Response
<1> QED
  BY <1>4, <1>5, <1>6, <1>7 DEF Sound

(* Rule 1.                                                                  *)
LEMMA ReceiveSegmentResult ==
    ASSUME SocketAssumption, ShortStreams, NEW w, NEW o, NEW r, Sound(w, o, r), w.tun # <<>>,
           NEW u, u = ReceiveSegment(w)
    PROVE  /\ Sound(u, o, r) /\ Onward(u, w) /\ SameLoop(u, w)
           /\ "In" \in u.fd["tun"].counted
<1>1. PICK d, x : d = Head(w.tun) /\ x = UnwrapTCPInIP(w.adapter, d)
  OBVIOUS
<1>2. /\ Listed(w.tun) /\ Listed(Tail(w.tun)) /\ Items(Tail(w.tun)) \subseteq Items(w.tun)
      /\ d \in Items(w.tun) /\ d.dst = Local /\ (d.src = Remote \/ IsStray(d))
  BY <1>1, ListTail DEF Sound, Wired
<1>3. /\ x.heard \in BOOLEAN /\ (x.heard => d.src = Remote)
      /\ x.adapter \in {NewAdapter(Local, Remote, FALSE),
                        NewAdapter(Address(AnyHost, Local.port), Address(AnyHost, "0"), TRUE)}
  <2>1. Adapted(w)
    BY DEF Sound
  <2> QED
    BY <1>1, <1>2, <2>1, OnlyRemoteIsHeard
<1>4. PICK fd \in FdStates : /\ fd = Read(w.fd["tun"], <<d>>, FALSE) /\ SameFd(fd, w.fd["tun"])
                             /\ "In" \in fd.counted
  <2>1. w.fd["tun"] \in FdStates /\ <<d>> # <<>>
    BY DEF Sound, IsWorld
  <2>2. PICK g, data, f : g = w.fd["tun"] /\ data = <<d>> /\ f = Read(g, data, FALSE)
    OBVIOUS
  <2>3. f \in FdStates /\ f.closed = g.closed /\ "In" \in f.counted /\ (f.eof <=> g.eof)
    <3>1. g \in FdStates /\ data # <<>>
      BY <2>1, <2>2
    <3>2. PICK ended \in BOOLEAN : ended = FALSE
      OBVIOUS
    <3>3. f = Read(g, data, ended)
      BY <2>2, <3>2
    <3>4. f \in FdStates /\ f.closed = g.closed
      BY <3>1, <3>3, FdRead
    <3>5. "In" \in f.counted
      BY <3>1, <3>3, FdRead
    <3>6. f.eof <=> g.eof \/ (data = <<>> /\ ended)
      BY <3>1, <3>3, FdRead
    <3> QED
      BY <3>1, <3>4, <3>5, <3>6
  <2>4. f.eof = g.eof
    BY <2>1, <2>2, <2>3 DEF FdStates
  <2> QED
    BY <2>2, <2>3, <2>4 DEF SameFd
<1>5. PICK tun, adapter : tun = Tail(w.tun) /\ adapter = x.adapter
  OBVIOUS
<1>6. PICK v : v = [w EXCEPT !.tun = tun, !.adapter = adapter, !.fd["tun"] = fd]
  OBVIOUS
<1>7. /\ IsWorld(v) /\ v.tun = tun /\ v.adapter = adapter /\ v.fd["tun"] = fd
      /\ v.fd["data"] = w.fd["data"] /\ v.peer = w.peer /\ v.wire = w.wire
      /\ v.rules = w.rules /\ v.asked = w.asked /\ v.served = w.served /\ v.outcome = w.outcome
      /\ v.outbound_shutdown = w.outbound_shutdown /\ v.inbound_shutdown = w.inbound_shutdown
      /\ v.ownerShut = w.ownerShut /\ v.broken = w.broken
      /\ v.toThread = w.toThread /\ v.toOwner = w.toOwner
  BY <1>6 DEF IsWorld, Sound
<1>8. u = IF x.heard THEN Transmit(v, PeerReceive(w.peer, d.msg)) ELSE v
  BY <1>1, <1>4, <1>5, <1>6 DEF ReceiveSegment
<1>9. Adapted(v)
  BY <1>3, <1>5, <1>7 DEF Adapted
<1>10. SameFd(w.fd["data"], w.fd["data"])
  BY DEF SameFd
<1>11. CASE ~x.heard
  <2>1. u = v
    BY <1>8, <1>11
  <2>2. Wired(v, r)
    <3>1. ToThem(w.wire) \cup {} = ToThem(w.wire)
      OBVIOUS
    <3>2. Connected(v.peer, r, ToUs(w.tun), ToThem(w.wire) \cup {}, LocalWay, RemoteWay, Faulty(w, r))
      BY <1>7, <3>1 DEF Sound, Wired
    <3>3. Listed(v.wire) /\ ToThem(v.wire) \subseteq ToThem(w.wire) \cup {} /\ (w.broken => v.broken)
      BY <1>7 DEF Sound, Wired
    <3>4. Listed(v.tun) /\ Items(v.tun) \subseteq Items(w.tun) /\ Wired(w, r)
      BY <1>2, <1>5, <1>7 DEF Sound
    <3> QED
      BY <3>2, <3>3, <3>4, WiredOn
  <2>3. Conserved(v, o)
    BY <1>7 DEF Sound, Conserved
  <2>4. Ends(v, o)
    BY <1>4, <1>7 DEF Sound, Ends, SameFd
  <2> QED
    BY <1>4, <1>7, <1>9, <2>1, <2>2, <2>3, <2>4 DEF Sound, Onward, SameLoop
<1>12. CASE x.heard
  <2>1. PICK y : y = PeerReceive(w.peer, d.msg)
    OBVIOUS
  <2>2. d.msg \in ToUs(w.tun)
    BY <1>2, <1>3, <1>12 DEF ToUs
  <2>3. Stepped(y, w.peer, r, ToUs(w.tun), ToThem(w.wire), LocalWay, RemoteWay, Faulty(w, r))
    <3>1. Connected(w.peer, r, ToUs(w.tun), ToThem(w.wire), LocalWay, RemoteWay, Faulty(w, r))
      BY DEF Sound, Wired
    <3>2. /\ LocalWay \in Ways /\ RemoteWay \in Ways /\ 2 * (RemoteWay.length + 2) < CYCLE
      BY WaysOfBoth
    <3>3. PICK X, T, W, E : /\ X = w.peer /\ T = ToUs(w.tun) /\ W = ToThem(w.wire)
                            /\ E = Faulty(w, r)
      OBVIOUS
    <3>4. Connected(X, r, T, W, LocalWay, RemoteWay, E) /\ d.msg \in T /\ y = PeerReceive(X, d.msg)
      BY <2>1, <2>2, <3>1, <3>3
    <3>5. Stepped(y, X, r, T, W, LocalWay, RemoteWay, E)
      BY <3>2, <3>4, ConnectedReceive
    <3> QED
      BY <3>3, <3>5
  <2>4. Listed(y.sent) /\ Listed(v.wire)
    BY <1>7, <2>3 DEF Stepped, Sound, Wired
  <2>5. u = Transmit(v, y)
    BY <1>8, <1>12, <2>1
  <2>6. /\ IsWorld(u) /\ u.peer = Coarse(y.peer)
        /\ Listed(u.wire) /\ ToThem(u.wire) \subseteq ToThem(v.wire) \cup Items(y.sent)
        /\ SameLoop(u, v) /\ SameFlags(u, v) /\ SamePipe(u, v)
        /\ u.fd = v.fd /\ u.tun = v.tun /\ u.adapter = v.adapter
    <3>1. IsWorld(v)
      BY <1>7
    <3>2. IsWorld(u) /\ u.peer = Coarse(y.peer)
      BY <2>4, <2>5, <3>1, TransmitResult
    <3>3. Listed(u.wire) /\ ToThem(u.wire) \subseteq ToThem(v.wire) \cup Items(y.sent)
      BY <2>4, <2>5, <3>1, TransmitResult
    <3>4. SameLoop(u, v) /\ SameFlags(u, v) /\ SamePipe(u, v)
      BY <2>4, <2>5, <3>1, TransmitResult
    <3>5. u.fd = v.fd /\ u.tun = v.tun /\ u.adapter = v.adapter
      BY <2>4, <2>5, <3>1, TransmitResult
    <3> QED
      BY <3>2, <3>3, <3>4, <3>5
  <2>7. SameLoop(u, w) /\ SameFlags(u, w) /\ SamePipe(u, w) /\ Adapted(u)
    BY <1>7, <1>9, <2>6 DEF SameLoop, SameFlags, SamePipe, Adapted
  <2>8. /\ SameFd(u.fd["tun"], w.fd["tun"]) /\ SameFd(u.fd["data"], w.fd["data"])
        /\ "In" \in u.fd["tun"].counted
    BY <1>4, <1>7, <1>10, <2>6
  <2>9. Listed(u.tun) /\ Items(u.tun) \subseteq Items(w.tun)
    BY <1>2, <1>5, <1>7, <2>6
  <2>10. ToThem(u.wire) \subseteq ToThem(w.wire) \cup Items(y.sent)
    BY <1>7, <2>6
  <2>11. Sound(u, o, r) /\ (u.asked = w.asked => Onward(u, w))
    BY <2>3, <2>6, <2>7, <2>8, <2>9, <2>10, SoundResponse
  <2> QED
    BY <2>7, <2>8, <2>11 DEF SameLoop
<1> QED
  BY <1>3, <1>11, <1>12

(* What rule 2 reads from the pair of sockets.                              *)
Reading(data, rest, bytes, n, room) ==
    /\ IsRun(data, n) /\ IsRun(rest, n + Len(data)) /\ Len(data) + Len(rest) = Len(bytes)
    /\ Len(data) <= room /\ (data = <<>> => bytes = <<>> /\ rest = <<>>)

LEMMA ReadingResult ==
    ASSUME NEW bytes, NEW n \in Nat, IsRun(bytes, n), NEW room \in Nat, room > 0
    PROVE  LET data == BytesRead(bytes, room)
           IN  Reading(data, Drop(bytes, Len(data)), bytes, n, room)
<1>1. PICK l \in Nat : l = Len(bytes) /\ bytes \in Seq(Nat)
  BY LenProperties DEF IsRun
<1>2. PICK k \in 0 .. l : k = Least(l, room) /\ k <= room /\ (k = 0 => l = 0)
  BY DEF Least
<1>3. PICK data : data = Take(bytes, k) /\ IsRun(data, n) /\ Len(data) = k
  BY <1>1, <1>2, RunTake
<1>4. BytesRead(bytes, room) = data
  BY <1>1, <1>2, <1>3 DEF BytesRead, Wanted
<1>5. PICK rest : rest = Drop(bytes, k) /\ IsRun(rest, n + k) /\ Len(rest) = l - k
  BY <1>1, <1>2, RunDrop
<1>6. k + (l - k) = l
  OBVIOUS
<1>7. data = <<>> => bytes = <<>> /\ rest = <<>>
  <2>1. SUFFICES ASSUME data = <<>>
                 PROVE  bytes = <<>> /\ rest = <<>>
    OBVIOUS
  <2>2. k = 0 /\ l = 0
    BY <1>2, <1>3, <2>1
  <2>3. rest \in Seq(Nat) /\ Len(rest) = 0
    BY <1>5, <2>2 DEF IsRun
  <2> QED
    BY <1>1, <2>2, <2>3, EmptySeq
<1> QED
  BY <1>1, <1>2, <1>3, <1>4, <1>5, <1>6, <1>7 DEF Reading

(* What is pushed, and closed at the end of file.                           *)
LEMMA WrittenInput ==
    ASSUME NEW out, StreamIntact(out), ~out.eof, NEW room \in Nat, room = AvailableCapacity(out),
           NEW data, NEW rest, NEW bytes, Reading(data, rest, bytes, BytesPushed(out), room),
           NEW end \in BOOLEAN, NEW most \in Nat, BytesPushed(out) + Len(bytes) <= most,
           NEW input, input = IF end THEN StreamClose(StreamPush(out, data)) ELSE StreamPush(out, data)
    PROVE  /\ Longer(input, out, most) /\ input.eof = end
           /\ BytesPushed(input) = BytesPushed(out) + Len(data)
<1>1. PICK full : /\ full = StreamPush(out, data)
                  /\ StreamIntact(full) /\ ~full.eof /\ full.popped = out.popped
                  /\ full.error = out.error /\ BytesPushed(full) = BytesPushed(out) + Len(data)
  BY PushResult DEF Reading
<1>2. /\ StreamIntact(input) /\ input.popped = out.popped /\ input.error = out.error
      /\ BytesPushed(input) = BytesPushed(full) /\ input.eof = end
  <2>1. CASE end
    BY <1>1, <2>1, CloseResult DEF StreamIntact, Streams
  <2>2. CASE ~end
    <3>1. full.eof \in BOOLEAN
      BY <1>1 DEF StreamIntact, Streams
    <3> QED
      BY <1>1, <2>2, <3>1
  <2> QED
    BY <2>1, <2>2
<1>3. PICK n \in Nat, m \in Nat, k \in Nat, l \in Nat :
          /\ n = BytesPushed(out) /\ m = Len(bytes) /\ k = Len(data) /\ l = Len(rest)
  <2>1. BytesPushed(out) \in Nat
    BY StreamFacts
  <2>2. Len(data) \in Nat /\ Len(rest) \in Nat
    BY LenProperties DEF Reading, IsRun
  <2>3. Len(bytes) \in Nat
    BY <2>2 DEF Reading
  <2> QED
    BY <2>1, <2>2, <2>3
<1>4. n + k <= most /\ n <= n + k
  <2>1. k + l = m /\ n + m <= most
    BY <1>3 DEF Reading
  <2> QED
    BY <2>1
<1>5. BytesPushed(input) = n + k
  BY <1>1, <1>2, <1>3
<1> QED
  BY <1>2, <1>3, <1>4, <1>5 DEF Longer

LEMMA TakeOwnersBytesResult ==
    ASSUME SocketAssumption, ShortStreams, NEW w, NEW o, NEW r, Sound(w, o, r),
           WantsOwnersBytes(w), w.toThread # <<>> \/ "Out" \in w.ownerShut,
           NEW u, u = TakeOwnersBytes(w)
    PROVE  /\ Sound(u, o, r) /\ Onward(u, w) /\ SameLoop(u, w)
           /\ "In" \in u.fd["data"].counted
<1>1. PICK X, out : X = w.peer /\ out = Outbound(X)
  OBVIOUS
<1>2. PICK T, W, E : /\ T = ToUs(w.tun) /\ W = ToThem(w.wire) /\ E = Faulty(w, r)
                     /\ Connected(X, r, T, W, LocalWay, RemoteWay, E)
  BY <1>1 DEF Sound, Wired
<1>3. /\ LocalWay \in Ways /\ RemoteWay \in Ways /\ LocalWay.length = OwnerBytes
      /\ 2 * (LocalWay.length + 2) < CYCLE /\ OwnerBytes \in Nat
  BY WaysOfBoth DEF SocketAssumption
<1>4. Body(X) /\ StreamIntact(out) /\ ~HasErrors(X) /\ ~w.outbound_shutdown /\ ~out.eof
  <2>1. Body(X)
    BY <1>2, <1>3, ConnectedFacts
  <2> QED
    BY <1>1, <2>1 DEF Body, WantsOwnersBytes, Active, Sound, Ends
<1>5. PICK room \in Nat, n \in Nat : room = AvailableCapacity(out) /\ room > 0 /\ n = BytesPushed(out)
  <2>1. PICK c \in Nat, q \in Nat, p \in Nat : /\ q <= c /\ AvailableCapacity(out) = c - q
                                               /\ BytesPushed(out) = p + q
    BY <1>4, StreamFacts
  <2>2. AvailableCapacity(out) > 0
    BY <1>1 DEF WantsOwnersBytes
  <2>3. c - q \in Nat /\ p + q \in Nat
    BY <2>1
  <2> QED
    BY <2>1, <2>2, <2>3
<1>6. PICK data, rest : /\ data = BytesRead(w.toThread, room) /\ rest = Drop(w.toThread, Len(data))
                        /\ Reading(data, rest, w.toThread, n, room)
  <2>1. IsRun(w.toThread, n)
    BY <1>1, <1>5 DEF Sound, Conserved
  <2> QED
    BY <1>5, <2>1, ReadingResult
<1>7. PICK ended \in BOOLEAN : ended = ("Out" \in w.ownerShut)
  <2>1. ("Out" \in w.ownerShut) \in BOOLEAN
    OBVIOUS
  <2> QED
    BY <2>1, Zenon
<1>8. PICK fd \in FdStates : /\ fd = Read(w.fd["data"], data, ended) /\ ~fd.closed /\ "In" \in fd.counted
                             /\ (fd.eof <=> data = <<>> /\ ended) /\ fd.eof \in BOOLEAN
  <2>1. PICK g \in FdStates : g = w.fd["data"] /\ ~g.closed /\ ~g.eof
    BY <1>1, <1>4 DEF Sound, IsWorld, Ends
  <2>2. data # <<>> \/ ended
    BY <1>6, <1>7 DEF Reading
  <2>3. PICK f : f = Read(g, data, ended)
    OBVIOUS
  <2>4. f \in FdStates /\ f.closed = g.closed /\ "In" \in f.counted /\ (f.eof <=> data = <<>> /\ ended)
    BY <2>1, <2>2, <2>3, FdRead
  <2> QED
    BY <2>1, <2>3, <2>4 DEF FdStates
<1>9. PICK input : input = IF fd.eof THEN StreamClose(StreamPush(out, data)) ELSE StreamPush(out, data)
  OBVIOUS
<1>10. /\ Longer(input, out, OwnerBytes) /\ input.eof = fd.eof
       /\ BytesPushed(input) = n + Len(data)
  <2>1. BytesPushed(out) + Len(w.toThread) <= OwnerBytes
    BY <1>1, <1>3 DEF Sound, Conserved
  <2> QED
    BY <1>3, <1>4, <1>5, <1>6, <1>8, <1>9, <2>1, WrittenInput
<1>11. PICK shut : shut = (w.outbound_shutdown \/ fd.eof)
  OBVIOUS
<1>12. PICK Z : Z = [X EXCEPT !.sender.input = input]
  OBVIOUS
<1>13. PICK v : v = [w EXCEPT !.toThread = rest, !.fd["data"] = fd, !.outbound_shutdown = shut,
                              !.peer = Z]
  OBVIOUS
<1>14. /\ IsWorld(v) /\ v.toThread = rest /\ v.fd["data"] = fd /\ v.outbound_shutdown = shut
       /\ v.peer = Z /\ v.fd["tun"] = w.fd["tun"] /\ v.wire = w.wire /\ v.tun = w.tun
       /\ v.rules = w.rules /\ v.asked = w.asked /\ v.served = w.served /\ v.outcome = w.outcome
       /\ v.inbound_shutdown = w.inbound_shutdown /\ v.adapter = w.adapter
       /\ v.ownerShut = w.ownerShut /\ v.broken = w.broken /\ v.toOwner = w.toOwner
  BY <1>13 DEF IsWorld, Sound
<1>15. PICK y : y = PeerPush(Z)
  OBVIOUS
<1>16. u = Transmit(v, y)
  <2>1. [w EXCEPT !.toThread = Drop(@, Len(data)), !.fd["data"] = fd,
                  !.outbound_shutdown = @ \/ fd.eof, !.peer.sender.input = input] = v
    BY <1>1, <1>6, <1>11, <1>12, <1>13 DEF IsWorld, Sound
  <2>2. u = LET read == [w EXCEPT !.toThread = Drop(@, Len(data)), !.fd["data"] = fd,
                                  !.outbound_shutdown = @ \/ fd.eof, !.peer.sender.input = input]
            IN  Transmit(read, PeerPush(read.peer))
    BY <1>1, <1>5, <1>6, <1>7, <1>8, <1>9 DEF TakeOwnersBytes
  <2> QED
    BY <1>14, <1>15, <2>1, <2>2
<1>17. PICK Y : Y = Coarse(y.peer)
  OBVIOUS
<1>18. /\ Connected(Y, r, T, W \cup Items(y.sent), LocalWay, RemoteWay, E) /\ Listed(y.sent)
       /\ Outbound(Y).eof = input.eof /\ BytesPushed(Outbound(Y)) = BytesPushed(input)
       /\ Inbound(Y).popped = Inbound(X).popped /\ ~HasErrors(Y)
       /\ IsFinished(Inbound(X)) => IsFinished(Inbound(Y))
  <2>1. PICK a \in Ways, b \in Ways : a = LocalWay /\ b = RemoteWay
    BY <1>3
  <2>2. /\ Connected(X, r, T, W, a, b, E) /\ 2 * (a.length + 2) < CYCLE /\ ~HasErrors(X)
        /\ Longer(input, Outbound(X), a.length) /\ y = PeerPush([X EXCEPT !.sender.input = input])
    BY <1>1, <1>2, <1>3, <1>4, <1>10, <1>12, <1>15, <2>1
  <2>3. Connected(Coarse(y.peer), r, T, W \cup Items(y.sent), a, b, E) /\ Listed(y.sent)
    BY <2>2, ConnectedWrite
  <2>4. Wrote(Coarse(y.peer), X, input)
    BY <2>2, ConnectedWrite
  <2> QED
    BY <1>17, <2>1, <2>3, <2>4 DEF Wrote
<1>19. /\ IsWorld(u) /\ u.peer = Y
       /\ Listed(u.wire) /\ ToThem(u.wire) \subseteq ToThem(v.wire) \cup Items(y.sent)
       /\ SameLoop(u, v) /\ SameFlags(u, v) /\ SamePipe(u, v)
       /\ u.fd = v.fd /\ u.tun = v.tun /\ u.adapter = v.adapter
  <2>1. Listed(v.wire)
    BY <1>14 DEF Sound, Wired
  <2> QED
    BY <1>14, <1>16, <1>17, <1>18, <2>1, TransmitResult
<1>20. Wired(u, r)
  <2>1. /\ Listed(u.tun) /\ Items(u.tun) \subseteq Items(w.tun) /\ Wired(w, r)
        /\ Listed(u.wire) /\ ToThem(u.wire) \subseteq ToThem(w.wire) \cup Items(y.sent)
        /\ (w.broken => u.broken)
    BY <1>14, <1>19 DEF Sound, Wired, SameFlags
  <2>2. Connected(u.peer, r, ToUs(w.tun), ToThem(w.wire) \cup Items(y.sent), LocalWay, RemoteWay,
                  Faulty(w, r))
    BY <1>2, <1>18, <1>19
  <2> QED
    BY <2>1, <2>2, WiredOn
<1>21. Conserved(u, o)
  <2>1. PICK k \in Nat, l \in Nat : k = Len(data) /\ l = Len(rest) /\ Len(w.toThread) = k + l
    BY <1>6, LenProperties DEF Reading, IsRun
  <2>2. n + (k + l) = (n + k) + l
    BY <2>1
  <2>3. IsRun(rest, n + k) /\ (n + k) + Len(rest) = o.written
    BY <1>1, <1>5, <1>6, <2>1, <2>2 DEF Reading, Sound, Conserved
  <2>4. u.toThread = rest /\ u.toOwner = w.toOwner /\ BytesPushed(Outbound(u.peer)) = n + k
        /\ Inbound(u.peer).popped = Inbound(w.peer).popped
    BY <1>1, <1>10, <1>14, <1>18, <1>19, <2>1 DEF SamePipe
  <2> QED
    BY <2>3, <2>4 DEF Sound, Conserved
<1>22. Ends(u, o)
  <2>1. Outbound(u.peer).eof = fd.eof /\ u.fd["data"] = fd /\ u.fd["tun"] = w.fd["tun"]
        /\ u.outbound_shutdown = shut /\ u.toThread = rest
    BY <1>10, <1>14, <1>18, <1>19 DEF SameFlags, SamePipe
  <2>2. fd.eof => rest = <<>> /\ "Out" \in u.ownerShut
    BY <1>6, <1>7, <1>8, <1>14, <1>19 DEF Reading, SameFlags
  <2>3. u.inbound_shutdown => IsFinished(Inbound(u.peer))
    <3>1. w.inbound_shutdown => IsFinished(Inbound(X)) \/ Inbound(X).error
      BY <1>1 DEF Sound, Ends
    <3> QED
      BY <1>4, <1>14, <1>18, <1>19, <3>1 DEF SameFlags, HasErrors
  <2>4. u.broken => o.closed
    BY <1>14, <1>19 DEF SameFlags, Sound, Ends
  <2> QED
    BY <1>8, <1>11, <2>1, <2>2, <2>3, <2>4 DEF Sound, Ends
<1>23. Adapted(u)
  BY <1>14, <1>19 DEF Adapted, Sound
<1>24. Onward(u, w)
  BY <1>1, <1>4, <1>14, <1>18, <1>19 DEF Onward, SameFlags, SameLoop, HasErrors
<1>25. SameLoop(u, w) /\ "In" \in u.fd["data"].counted
  BY <1>8, <1>14, <1>19 DEF SameLoop
<1> QED
  BY <1>19, <1>20, <1>21, <1>22, <1>23, <1>24, <1>25 DEF Sound

(* Rule 3: a byte of the inbound stream is passed on ...                    *)
LEMMA FdWritten ==
    ASSUME NEW fd \in FdStates, NEW g, g = Write(fd)
    PROVE  g \in FdStates /\ SameFd(g, fd) /\ "Out" \in g.counted
BY DEF FdStates, SameFd, Write

LEMMA PassByteResult ==
    ASSUME SocketAssumption, ShortStreams, NEW w, NEW o, NEW r, Sound(w, o, r),
           NEW u, u = PassByte(w)
    PROVE  /\ Sound(u, o, r) /\ Onward(u, w) /\ SameLoop(u, w)
           /\ (u = w /\ BytesBuffered(Inbound(w.peer)) = 0) \/ "Out" \in u.fd["data"].counted
<1>1. PICK X, in : X = w.peer /\ in = Inbound(X)
  OBVIOUS
<1>2. PICK T, W, E : /\ T = ToUs(w.tun) /\ W = ToThem(w.wire) /\ E = Faulty(w, r)
                     /\ Connected(X, r, T, W, LocalWay, RemoteWay, E)
  BY <1>1 DEF Sound, Wired
<1>3. LocalWay \in Ways /\ RemoteWay \in Ways
  BY WaysOfBoth
<1>4. StreamIntact(in)
  BY <1>1, <1>2, <1>3, ConnectedFacts DEF Body
<1>5. PICK n \in Nat, p \in Nat : /\ n = Len(in.queue) /\ p = in.popped /\ BytesPushed(in) = p + n
                                  /\ IsRun(in.queue, p)
  BY <1>4, StreamFacts DEF StreamIntact
<1>6. CASE n = 0
  <2>1. u = w
    BY <1>1, <1>5, <1>6 DEF PassByte, BytesBuffered
  <2> QED
    BY <1>1, <1>5, <1>6, <2>1 DEF Onward, SameLoop, BytesBuffered
<1>7. CASE n # 0
  <2>1. 1 \in 0 .. n /\ 1 \in Nat /\ p + 1 <= p + n
    BY <1>7
  <2>2. PICK byte : byte = Take(in.queue, 1) /\ IsRun(byte, p) /\ Len(byte) = 1
    BY <1>5, <2>1, RunTake
  <2>3. PICK t : /\ t = StreamPop(in, 1) /\ StreamIntact(t) /\ t.eof = in.eof /\ t.error = in.error
                 /\ BytesPushed(t) = BytesPushed(in) /\ t.popped = Least(p + 1, p + n)
    BY <1>4, <1>5, <2>1, PopResult
  <2>4. t.popped = p + 1
    BY <2>1, <2>3 DEF Least
  <2>5. PICK all : all = w.toOwner \o byte
    OBVIOUS
  <2>6. IsRun(all, o.read) /\ o.read + Len(all) = p + 1
    <3>1. PICK a \in Nat, l \in Nat : a = o.read /\ l = Len(w.toOwner) /\ a + l = p /\ IsRun(w.toOwner, a)
      BY <1>1, <1>5, LenProperties DEF Sound, Conserved, IsRun
    <3>2. IsRun(byte, a + l)
      BY <2>2, <3>1
    <3>3. IsRun(all, a) /\ Len(all) = l + 1
      <4>1. PICK s : s = w.toOwner /\ IsRun(s, a) /\ IsRun(byte, a + Len(s)) /\ Len(s) = l
        BY <3>1, <3>2
      <4>2. IsRun(s \o byte, a) /\ Len(s \o byte) = Len(s) + Len(byte)
        BY <4>1, RunConcat
      <4> QED
        BY <2>2, <2>5, <4>1, <4>2
    <3>4. a + (l + 1) = p + 1
      BY <3>1
    <3> QED
      BY <3>1, <3>3, <3>4
  <2>7. PICK fd \in FdStates : fd = Write(w.fd["data"]) /\ SameFd(fd, w.fd["data"]) /\ "Out" \in fd.counted
    <3>1. PICK g \in FdStates : g = w.fd["data"]
      BY DEF Sound, IsWorld
    <3>2. PICK f : f = Write(g)
      OBVIOUS
    <3>3. f \in FdStates /\ SameFd(f, g) /\ "Out" \in f.counted
      BY <3>2, FdWritten
    <3> QED
      BY <3>1, <3>2, <3>3
  <2>8. PICK Y : Y = [X EXCEPT !.receiver.reassembler.output = StreamPop(@, 1)]
    OBVIOUS
  <2>9. /\ Connected(Y, r, T, W, LocalWay, RemoteWay, E)
        /\ Outbound(Y) = Outbound(X) /\ Inbound(Y) = t
    <3>1. PICK a \in Ways, b \in Ways, len \in Nat : a = LocalWay /\ b = RemoteWay /\ len = 1
      BY <1>3
    <3>2. /\ Connected(X, r, T, W, a, b, E)
          /\ Y = [X EXCEPT !.receiver.reassembler.output = StreamPop(@, len)]
      BY <1>2, <2>8, <3>1
    <3>3. /\ Connected(Y, r, T, W, a, b, E)
          /\ Outbound(Y) = Outbound(X) /\ Inbound(Y) = StreamPop(Inbound(X), len)
      BY <3>2, ConnectedRead
    <3> QED
      BY <1>1, <2>3, <3>1, <3>3
  <2>10. PICK v : v = [w EXCEPT !.toOwner = all, !.fd["data"] = fd, !.peer = Y]
    OBVIOUS
  <2>11. /\ IsWorld(v) /\ v.toOwner = all /\ v.fd["data"] = fd /\ v.peer = Y
         /\ v.outbound_shutdown = w.outbound_shutdown /\ v.inbound_shutdown = w.inbound_shutdown
         /\ v.fd["tun"] = w.fd["tun"] /\ v.wire = w.wire /\ v.tun = w.tun
         /\ v.rules = w.rules /\ v.asked = w.asked /\ v.served = w.served /\ v.outcome = w.outcome
         /\ v.adapter = w.adapter /\ v.ownerShut = w.ownerShut /\ v.broken = w.broken
         /\ v.toThread = w.toThread
    BY <2>10 DEF IsWorld, Sound
  <2>12. u = v
    <3>1. u = [w EXCEPT !.toOwner = @ \o Take(Inbound(w.peer).queue, 1), !.fd["data"] = Write(@),
                        !.peer.receiver.reassembler.output = StreamPop(@, 1)]
      BY <1>1, <1>5, <1>7 DEF PassByte, BytesBuffered
    <3> QED
      BY <1>1, <2>2, <2>5, <2>7, <2>8, <2>10, <3>1 DEF IsWorld, Sound
  <2>13. Wired(v, r)
    <3>1. ToThem(w.wire) \cup {} = ToThem(w.wire)
      OBVIOUS
    <3>2. Connected(v.peer, r, ToUs(w.tun), ToThem(w.wire) \cup {}, LocalWay, RemoteWay, Faulty(w, r))
      BY <1>2, <2>9, <2>11, <3>1
    <3>3. /\ Listed(v.tun) /\ Items(v.tun) \subseteq Items(w.tun) /\ Wired(w, r)
          /\ Listed(v.wire) /\ ToThem(v.wire) \subseteq ToThem(w.wire) \cup {}
          /\ (w.broken => v.broken)
      BY <2>11 DEF Sound, Wired
    <3> QED
      BY <3>2, <3>3, WiredOn
  <2>14. Conserved(v, o)
    BY <1>1, <2>4, <2>6, <2>9, <2>11 DEF Sound, Conserved
  <2>15. ~IsFinished(in)
    BY <1>5, <1>7 DEF IsFinished
  <2>16. (HasErrors(Y) <=> HasErrors(X)) /\ (Inbound(Y).error <=> in.error)
    BY <1>1, <2>3, <2>9 DEF HasErrors
  <2>17. Ends(v, o)
    BY <1>1, <2>7, <2>9, <2>11, <2>15, <2>16 DEF Sound, Ends, SameFd
  <2>18. Onward(v, w)
    BY <1>1, <2>11, <2>15, <2>16 DEF Onward
  <2> QED
    BY <2>7, <2>11, <2>12, <2>13, <2>14, <2>17, <2>18 DEF Sound, SameLoop, Adapted
<1> QED
  BY <1>6, <1>7

(* ... and then its end.                                                    *)
LEMMA PassEndResult ==
    ASSUME NEW w, NEW o, NEW r, Sound(w, o, r), NEW u, u = PassEnd(w)
    PROVE  /\ Sound(u, o, r) /\ Onward(u, w) /\ SameLoop(u, w)
           /\ w.fd["data"].counted \subseteq u.fd["data"].counted
           /\ \/ u = w /\ ~IsFinished(Inbound(w.peer)) /\ ~Inbound(w.peer).error
              \/ "Out" \in u.fd["data"].counted
<1>1. CASE ~IsFinished(Inbound(w.peer)) /\ ~Inbound(w.peer).error
  <2>1. u = w
    BY <1>1 DEF PassEnd
  <2> QED
    BY <1>1, <2>1 DEF Onward, SameLoop
<1>2. CASE ~(~IsFinished(Inbound(w.peer)) /\ ~Inbound(w.peer).error)
  <2>1. PICK g \in FdStates : g = w.fd["data"]
    BY DEF Sound, IsWorld
  <2>2. PICK fd \in FdStates : /\ fd = Shutdown(g, {"Out"}) /\ SameFd(fd, g)
                               /\ "Out" \in fd.counted /\ g.counted \subseteq fd.counted
    <3>1. PICK d \in SUBSET {"In", "Out"} : d = {"Out"}
      OBVIOUS
    <3>2. PICK f : f = [g EXCEPT !.counted = @ \cup d]
      OBVIOUS
    <3>3. f \in FdStates /\ SameFd(f, g) /\ d \subseteq f.counted /\ g.counted \subseteq f.counted
      BY <3>2, FdCounts
    <3> QED
      BY <3>1, <3>2, <3>3 DEF Shutdown
  <2>3. PICK v, yes : v = [w EXCEPT !.fd["data"] = fd, !.inbound_shutdown = yes] /\ yes = TRUE
    OBVIOUS
  <2>4. /\ IsWorld(v) /\ v.fd["data"] = fd /\ v.inbound_shutdown = TRUE
        /\ v.outbound_shutdown = w.outbound_shutdown /\ v.peer = w.peer
        /\ v.fd["tun"] = w.fd["tun"] /\ v.wire = w.wire /\ v.tun = w.tun
        /\ v.rules = w.rules /\ v.asked = w.asked /\ v.served = w.served /\ v.outcome = w.outcome
        /\ v.adapter = w.adapter /\ v.ownerShut = w.ownerShut /\ v.broken = w.broken
        /\ v.toThread = w.toThread /\ v.toOwner = w.toOwner
    BY <2>3 DEF IsWorld, Sound
  <2>5. u = v
    BY <1>2, <2>1, <2>2, <2>3 DEF PassEnd
  <2>6. Wired(v, r)
    BY <2>4 DEF Sound, Wired, Faulty
  <2>7. Conserved(v, o)
    BY <2>4 DEF Sound, Conserved
  <2>8. Ends(v, o)
    BY <1>2, <2>1, <2>2, <2>4 DEF Sound, Ends, SameFd
  <2> QED
    BY <2>1, <2>2, <2>4, <2>5, <2>6, <2>7, <2>8 DEF Sound, Onward, SameLoop, Adapted
<1> QED
  BY <1>1, <1>2

LEMMA PassOnResult ==
    ASSUME SocketAssumption, ShortStreams, NEW w, NEW o, NEW r, Sound(w, o, r),
           NEW u, u = PassEnd(PassByte(w))
    PROVE  /\ Sound(u, o, r) /\ Onward(u, w) /\ SameLoop(u, w)
           /\ "Out" \in u.fd["data"].counted \/ ~WantsToPassOn(u)
<1>1. PICK v : v = PassByte(w)
  OBVIOUS
<1>2. /\ Sound(v, o, r) /\ Onward(v, w) /\ SameLoop(v, w)
      /\ (v = w /\ BytesBuffered(Inbound(w.peer)) = 0) \/ "Out" \in v.fd["data"].counted
  BY <1>1, PassByteResult
<1>3. u = PassEnd(v)
  BY <1>1
<1>4. /\ Sound(u, o, r) /\ Onward(u, v) /\ SameLoop(u, v)
      /\ v.fd["data"].counted \subseteq u.fd["data"].counted
      /\ \/ u = v /\ ~IsFinished(Inbound(v.peer)) /\ ~Inbound(v.peer).error
         \/ "Out" \in u.fd["data"].counted
  BY <1>2, <1>3, PassEndResult
<1>5. Onward(u, w) /\ SameLoop(u, w)
  BY <1>2, <1>4, OnwardOn DEF SameLoop
<1>6. ASSUME u = w, BytesBuffered(Inbound(w.peer)) = 0,
             ~IsFinished(Inbound(w.peer)), ~Inbound(w.peer).error
      PROVE  ~WantsToPassOn(w)
  <2>1. ~(BytesBuffered(Inbound(w.peer)) > 0)
    BY <1>6
  <2> QED
    BY <1>6, <2>1 DEF WantsToPassOn
<1> QED
  BY <1>2, <1>4, <1>5, <1>6

-----------------------------------------------------------------------------
(* The event loop's own fields.                                             *)
LoopPart(u, v, rules, asked, served, outcome) ==
    /\ IsWorld(u) /\ SameMatter(u, v)
    /\ u.rules = rules /\ u.asked = asked /\ u.served = served /\ u.outcome = outcome

LEMMA LoopParts ==
    ASSUME NEW v, IsWorld(v), NEW x
    PROVE  /\ LoopPart([v EXCEPT !.rules = x], v, x, v.asked, v.served, v.outcome)
           /\ LoopPart([v EXCEPT !.asked = x], v, v.rules, x, v.served, v.outcome)
           /\ LoopPart([v EXCEPT !.served = x], v, v.rules, v.asked, x, v.outcome)
           /\ LoopPart([v EXCEPT !.outcome = x], v, v.rules, v.asked, v.served, x)
<1>1. PICK a : a = [v EXCEPT !.rules = x]
  OBVIOUS
<1>2. LoopPart(a, v, x, v.asked, v.served, v.outcome)
  BY <1>1 DEF IsWorld, LoopPart, SameMatter, SameFd
<1>3. PICK b : b = [v EXCEPT !.asked = x]
  OBVIOUS
<1>4. LoopPart(b, v, v.rules, x, v.served, v.outcome)
  BY <1>3 DEF IsWorld, LoopPart, SameMatter, SameFd
<1>5. PICK c : c = [v EXCEPT !.served = x]
  OBVIOUS
<1>6. LoopPart(c, v, v.rules, v.asked, x, v.outcome)
  BY <1>5 DEF IsWorld, LoopPart, SameMatter, SameFd
<1>7. PICK d : d = [v EXCEPT !.outcome = x]
  OBVIOUS
<1>8. LoopPart(d, v, v.rules, v.asked, v.served, x)
  BY <1>7 DEF IsWorld, LoopPart, SameMatter, SameFd
<1> QED
  BY <1>1, <1>2, <1>3, <1>4, <1>5, <1>6, <1>7, <1>8

LEMMA MatterOn ==
    ASSUME NEW u, NEW v, NEW w, SameMatter(u, v), SameMatter(v, w)
    PROVE  SameMatter(u, w)
BY DEF SameMatter, SameFd

(* An owner that has stopped reading, and how a round may end.              *)
Stopped(o) == o.closed \/ o.phase \in {"waiting", "done"}

Fate(u, o) ==
    \/ u.outcome = "running"
    \/ u.outcome = "died" /\ (Stopped(o) \/ Inbound(u.peer).error)

(* There is nothing that rule 3 would have to pass on.                      *)
PassedOn(u, o) == Stopped(o) \/ IsFinished(Inbound(u.peer)) \/ HasErrors(u.peer)

(* What poll has said of each rule is still so when the rule is served.     *)
TunTold(w, events) == events \subseteq {"ready"} /\ ("ready" \in events => w.tun # <<>>)

OwnerTold(w, events) ==
    /\ "err" \in events => w.broken
    /\ "hup" \in events /\ 2 \in w.asked => "ready" \in events
    /\ "ready" \in events =>
           WantsOwnersBytes(w) /\ (w.toThread # <<>> \/ "Out" \in w.ownerShut)

PassTold(w, o, events) ==
    /\ "err" \in events => w.broken
    /\ "hup" \in events => Stopped(o) \/ w.inbound_shutdown

(* A rule is kept.                                                          *)
LEMMA RuleKept ==
    ASSUME NEW v, NEW o, NEW r, Sound(v, o, r), NEW q, NEW u, u = Loop!Kept(v, q)
    PROVE  /\ Sound(u, o, r) /\ SameMatter(u, v) /\ Onward(u, v)
           /\ u.rules = Append(v.rules, q) /\ u.asked = v.asked /\ u.served = v.served
           /\ u.outcome = v.outcome
<1>1. PICK rules : rules = Append(v.rules, q)
  OBVIOUS
<1>2. LoopPart(u, v, rules, v.asked, v.served, v.outcome)
  BY <1>1, LoopParts DEF Loop!Kept, Sound
<1> QED
  BY <1>1, <1>2, SoundMatter, OnwardSame DEF LoopPart

(* A callback has been called.                                              *)
LEMMA CalledResult ==
    ASSUME NEW v, NEW o, NEW r, Sound(v, o, r), NEW u, u = [v EXCEPT !.served = TRUE]
    PROVE  /\ Sound(u, o, r) /\ SameMatter(u, v) /\ Onward(u, v)
           /\ u.rules = v.rules /\ u.asked = v.asked /\ u.served /\ u.outcome = v.outcome
           /\ u.fd = v.fd
<1>1. PICK yes : yes = TRUE
  OBVIOUS
<1>2. LoopPart(u, v, v.rules, v.asked, yes, v.outcome)
  BY <1>1, LoopParts DEF Sound
<1>3. u.fd = v.fd
  BY DEF Sound, IsWorld
<1> QED
  BY <1>1, <1>2, <1>3, SoundMatter, OnwardSame DEF LoopPart

LEMMA DiedResult ==
    ASSUME NEW v, NEW o, NEW r, Sound(v, o, r), NEW u, u = [v EXCEPT !.outcome = "died"]
    PROVE  /\ Sound(u, o, r) /\ SameMatter(u, v) /\ Onward(u, v)
           /\ u.rules = v.rules /\ u.asked = v.asked /\ u.served = v.served /\ u.outcome = "died"
<1>1. LoopPart(u, v, v.rules, v.asked, v.served, "died")
  BY LoopParts DEF Sound
<1> QED
  BY <1>1, SoundMatter, OnwardSame DEF LoopPart

SameOutcome(u, v) == u.outcome = v.outcome

(* Rule 1 is served.                                                        *)
LEMMA ServeFirst ==
    ASSUME SocketAssumption, ShortStreams, NEW v, NEW o, NEW r, Sound(v, o, r),
           v.served = FALSE, v.outcome = "running", NEW events, TunTold(v, events),
           NEW u, u = Loop!ServeRule(v, 1, events)
    PROVE  /\ Sound(u, o, r) /\ Onward(u, v) /\ u.rules = Append(v.rules, 1)
           /\ SameOutcome(u, v) /\ u.served \in BOOLEAN
           /\ u.served \/ SameMatter(u, v)
<1>1. PICK k : k = Loop!Kept(v, 1)
  OBVIOUS
<1>2. /\ Sound(k, o, r) /\ SameMatter(k, v) /\ Onward(k, v)
      /\ k.rules = Append(v.rules, 1) /\ k.asked = v.asked /\ k.served = v.served
      /\ k.outcome = v.outcome
  BY <1>1, RuleKept
<1>3. "err" \notin events /\ "hup" \notin events
  BY DEF TunTold
<1>4. CASE "ready" \notin events
  <2>1. u = k
    BY <1>1, <1>3, <1>4 DEF Loop!ServeRule, Loop!HungUp
  <2> QED
    BY <1>2, <2>1 DEF SameOutcome
<1>5. CASE "ready" \in events
  <2>1. u = Loop!Fire(k, 1)
    BY <1>1, <1>3, <1>5 DEF Loop!ServeRule, Loop!HungUp
  <2>2. PICK x : x = ReceiveSegment(k)
    OBVIOUS
  <2>3. k.tun # <<>>
    BY <1>2, <1>5 DEF TunTold, SameMatter
  <2>4. /\ Sound(x, o, r) /\ Onward(x, k) /\ SameLoop(x, k)
        /\ "In" \in x.fd["tun"].counted
    BY <1>2, <2>2, <2>3, ReceiveSegmentResult
  <2>5. PICK y : y = [x EXCEPT !.served = TRUE]
    OBVIOUS
  <2>6. /\ Sound(y, o, r) /\ Onward(y, x)
        /\ y.rules = x.rules /\ y.served /\ y.outcome = x.outcome /\ y.fd = x.fd
    BY <2>4, <2>5, CalledResult
  <2>7. Callback(1, k) = x
    BY <2>2 DEF Callback, Dies
  <2>8. ~Loop!BusyWait(y, 1)
    BY <2>4, <2>6 DEF Loop!BusyWait, FdOf, DirectionOf
  <2>9. u = y
    BY <2>1, <2>5, <2>7, <2>8 DEF Loop!Fire
  <2>10. Onward(y, v)
    BY <1>2, <2>4, <2>6, OnwardOn
  <2> QED
    BY <1>2, <2>4, <2>6, <2>9, <2>10 DEF SameLoop, SameOutcome
<1> QED
  BY <1>4, <1>5

(* An error of the pair of sockets ends rule 2: the outbound stream has an  *)
(* error and is closed.                                                     *)
LEMMA OwnerErrorResult ==
    ASSUME SocketAssumption, ShortStreams, NEW v, NEW o, NEW r, Sound(v, o, r), v.broken,
           NEW u, u = Cancel(2, Error(2, v))
    PROVE  Sound(u, o, r) /\ Onward(u, v) /\ SameLoop(u, v)
<1>1. PICK X, out : X = v.peer /\ out = Outbound(X)
  OBVIOUS
<1>2. PICK T, W, E : /\ T = ToUs(v.tun) /\ W = ToThem(v.wire) /\ E = Faulty(v, r) /\ E
                     /\ Connected(X, r, T, W, LocalWay, RemoteWay, E)
  BY <1>1 DEF Sound, Wired, Faulty
<1>3. Body(X) /\ StreamIntact(out)
  BY <1>1, <1>2, WaysOfBoth, ConnectedFacts DEF Body
<1>4. PICK input : /\ input = StreamClose(StreamSetError(out)) /\ StreamIntact(input)
                   /\ input.error /\ input.eof /\ BytesPushed(input) = BytesPushed(out)
  <2>1. PICK t : /\ t = StreamSetError(out) /\ StreamIntact(t) /\ t.error
                 /\ BytesPushed(t) = BytesPushed(out)
    BY <1>3, ErrorResult
  <2>2. PICK s : /\ s = StreamClose(t) /\ StreamIntact(s) /\ s.eof /\ s.error = t.error
                 /\ BytesPushed(s) = BytesPushed(t)
    BY <2>1, CloseResult
  <2> QED
    BY <2>1, <2>2
<1>5. PICK Y : Y = [X EXCEPT !.sender.input = input]
  OBVIOUS
<1>6. Body(Y) /\ Outbound(Y) = input /\ Inbound(Y) = Inbound(X) /\ HasErrors(Y)
  <2>1. Body(Y) /\ Outbound(Y) = input /\ Inbound(Y) = Inbound(X)
    BY <1>3, <1>4, <1>5, OtherInput
  <2> QED
    BY <1>4, <2>1 DEF HasErrors
<1>7. Connected(Y, r, T, W, LocalWay, RemoteWay, E)
  BY <1>1, <1>2, <1>4, <1>6, ConnectedSpoilt
<1>8. PICK w, yes : w = [v EXCEPT !.peer = Y, !.outbound_shutdown = yes] /\ yes = TRUE
  OBVIOUS
<1>9. /\ IsWorld(w) /\ w.peer = Y /\ w.outbound_shutdown = TRUE
      /\ w.fd = v.fd /\ w.wire = v.wire /\ w.tun = v.tun /\ w.inbound_shutdown = v.inbound_shutdown
      /\ w.rules = v.rules /\ w.asked = v.asked /\ w.served = v.served /\ w.outcome = v.outcome
      /\ w.adapter = v.adapter /\ w.ownerShut = v.ownerShut /\ w.broken = v.broken
      /\ w.toThread = v.toThread /\ w.toOwner = v.toOwner
  BY <1>8 DEF IsWorld, Sound
<1>10. u = w
  <2>1. PICK s, c, n, f, i :
            /\ X = [sender |-> s, receiver |-> c, need_send |-> n,
                    linger_after_streams_finish |-> f, idle |-> i]
            /\ s = X.sender /\ s.input = out /\ s \in Senders
    BY <1>1, <1>3 DEF Body, Shaped, Outbound
  <2>2. PICK t : t = StreamSetError(out)
    OBVIOUS
  <2>3. PICK e : e = [v EXCEPT !.peer.sender.input = t] /\ e = Error(2, v)
    <3>1. Error(2, v) = [v EXCEPT !.peer.sender.input = StreamSetError(@)]
      BY DEF Error
    <3>2. v.peer.sender.input = out
      BY <1>1, <2>1
    <3> QED
      BY <2>2, <3>1, <3>2
  <2>4. PICK z : z = [s EXCEPT !.input = t] /\ z.input = t /\ [z EXCEPT !.input = input] = [s EXCEPT !.input = input]
    <3>1. PICK z : z = [s EXCEPT !.input = t]
      OBVIOUS
    <3>2. z.input = t
      BY <2>1, <3>1 DEF Senders
    <3>3. [z EXCEPT !.input = input] = [s EXCEPT !.input = input]
      BY <2>1, <3>1 DEF Senders
    <3> QED
      BY <3>1, <3>2, <3>3
  <2>5. PICK M : M = [sender |-> z, receiver |-> c, need_send |-> n,
                      linger_after_streams_finish |-> f, idle |-> i]
    OBVIOUS
  <2>6. e.peer = M /\ e = [v EXCEPT !.peer = M] /\ M.sender = z
    BY <1>1, <2>1, <2>3, <2>4, <2>5 DEF IsWorld, Sound
  <2>7. u = [e EXCEPT !.peer.sender.input = input, !.outbound_shutdown = TRUE]
    <3>1. u = Cancel(2, e)
      BY <2>3
    <3>2. Cancel(2, e) = [e EXCEPT !.peer.sender.input = StreamClose(@), !.outbound_shutdown = TRUE]
      BY DEF Cancel
    <3>3. StreamClose(e.peer.sender.input) = input
      BY <1>4, <2>2, <2>4, <2>6
    <3> QED
      BY <3>1, <3>2, <3>3
  <2>8. [M EXCEPT !.sender.input = input] = Y
    BY <1>5, <2>1, <2>4, <2>5
  <2>9. u = [v EXCEPT !.peer = Y, !.outbound_shutdown = TRUE]
    BY <2>6, <2>7, <2>8 DEF IsWorld, Sound
  <2> QED
    BY <1>8, <2>9
<1>11. Wired(w, r)
  <2>1. Faulty(w, r) = E
    BY <1>2, <1>9 DEF Faulty
  <2> QED
    BY <1>2, <1>7, <1>9, <2>1 DEF Sound, Wired
<1>12. Conserved(w, o)
  BY <1>1, <1>4, <1>6, <1>9 DEF Sound, Conserved
<1>13. Ends(w, o)
  BY <1>1, <1>4, <1>6, <1>9 DEF Sound, Ends
<1>14. Onward(w, v)
  BY <1>1, <1>6, <1>9 DEF Onward
<1> QED
  BY <1>9, <1>10, <1>11, <1>12, <1>13, <1>14 DEF Sound, Adapted, SameLoop

(* Rule 2 is served.                                                        *)
LEMMA ServeSecond ==
    ASSUME SocketAssumption, ShortStreams, NEW v, NEW o, NEW r, Sound(v, o, r),
           v.served \in BOOLEAN, v.outcome = "running", NEW events,
           v.served \/ OwnerTold(v, events),
           NEW u, u = Loop!ServeRule(v, 2, events)
    PROVE  /\ Sound(u, o, r) /\ Onward(u, v)
           /\ u.rules = v.rules \/ u.rules = Append(v.rules, 2)
           /\ Fate(u, o) /\ u.served \in BOOLEAN /\ (u.served \/ u.outcome = "running")
<1>1. PICK k : k = Loop!Kept(v, 2)
  OBVIOUS
<1>2. /\ Sound(k, o, r) /\ SameMatter(k, v) /\ Onward(k, v)
      /\ k.rules = Append(v.rules, 2) /\ k.asked = v.asked /\ k.served = v.served
      /\ k.outcome = v.outcome
  BY <1>1, RuleKept
<1>3. CASE u = k
  BY <1>2, <1>3 DEF Fate
<1>4. CASE ~v.served /\ "err" \in events
  <2>1. u = Cancel(2, Error(2, v))
    BY <1>4 DEF Loop!ServeRule
  <2>2. v.broken
    BY <1>4 DEF OwnerTold
  <2>3. Sound(u, o, r) /\ Onward(u, v) /\ SameLoop(u, v)
    BY <2>1, <2>2, OwnerErrorResult
  <2> QED
    BY <2>3 DEF SameLoop, Fate
<1>5. CASE ~v.served /\ "err" \notin events /\ "ready" \in events
  <2>1. u = Loop!Fire(k, 2)
    BY <1>1, <1>5 DEF Loop!ServeRule, Loop!HungUp, DirectionOf
  <2>2. WantsOwnersBytes(k) /\ (k.toThread # <<>> \/ "Out" \in k.ownerShut)
    BY <1>2, <1>5 DEF OwnerTold, SameMatter, WantsOwnersBytes
  <2>3. CASE Dies(2, k)
    <3>1. PICK x : x = [k EXCEPT !.outcome = "died"]
      OBVIOUS
    <3>2. /\ Sound(x, o, r) /\ SameMatter(x, k) /\ Onward(x, k)
          /\ x.rules = k.rules /\ x.asked = k.asked /\ x.served = k.served /\ x.outcome = "died"
      BY <1>2, <3>1, DiedResult
    <3>3. PICK y : y = [x EXCEPT !.served = TRUE]
      OBVIOUS
    <3>4. /\ Sound(y, o, r) /\ Onward(y, x)
          /\ y.rules = x.rules /\ y.served /\ y.outcome = x.outcome
      BY <3>2, <3>3, CalledResult
    <3>5. Callback(2, k) = x
      BY <2>3, <3>1 DEF Callback
    <3>6. u = y
      BY <2>1, <3>2, <3>3, <3>4, <3>5 DEF Loop!Fire
    <3>7. Onward(y, v)
      BY <1>2, <3>2, <3>4, OnwardOn
    <3>8. Stopped(o)
      BY <1>2, <2>3 DEF Dies, Sound, Ends, Stopped
    <3> QED
      BY <1>2, <3>2, <3>4, <3>6, <3>7, <3>8 DEF Fate
  <2>4. CASE ~Dies(2, k)
    <3>1. PICK x : x = TakeOwnersBytes(k)
      OBVIOUS
    <3>2. /\ Sound(x, o, r) /\ Onward(x, k) /\ SameLoop(x, k)
          /\ "In" \in x.fd["data"].counted
      BY <1>2, <2>2, <3>1, TakeOwnersBytesResult
    <3>3. PICK y : y = [x EXCEPT !.served = TRUE]
      OBVIOUS
    <3>4. /\ Sound(y, o, r) /\ Onward(y, x)
          /\ y.rules = x.rules /\ y.served /\ y.outcome = x.outcome /\ y.fd = x.fd
      BY <3>2, <3>3, CalledResult
    <3>5. Callback(2, k) = x
      BY <2>4, <3>1 DEF Callback
    <3>6. ~Loop!BusyWait(y, 2)
      BY <3>2, <3>4 DEF Loop!BusyWait, FdOf, DirectionOf
    <3>7. u = y
      BY <2>1, <3>3, <3>5, <3>6 DEF Loop!Fire
    <3>8. Onward(y, v)
      BY <1>2, <3>2, <3>4, OnwardOn
    <3> QED
      BY <1>2, <3>2, <3>4, <3>7, <3>8 DEF SameLoop, Fate
  <2> QED
    BY <2>3, <2>4
<1>6. CASE ~v.served /\ "err" \notin events /\ "ready" \notin events
  <2>1. ~Loop!HungUp(v, 2, events)
    BY <1>6 DEF Loop!HungUp, OwnerTold, DirectionOf
  <2>2. u = k
    BY <1>1, <1>6, <2>1 DEF Loop!ServeRule
  <2> QED
    BY <1>3, <2>2
<1>7. CASE v.served
  <2>1. u = k
    BY <1>1, <1>7 DEF Loop!ServeRule
  <2> QED
    BY <1>3, <2>1
<1> QED
  BY <1>4, <1>5, <1>6, <1>7

(* An error ends rule 3: the inbound stream has an error.                   *)
LEMMA PassErrorResult ==
    ASSUME SocketAssumption, ShortStreams, NEW v, NEW o, NEW r, Sound(v, o, r), v.broken,
           NEW u, u = Error(3, v)
    PROVE  Sound(u, o, r) /\ Onward(u, v) /\ SameLoop(u, v) /\ HasErrors(u.peer)
<1>1. PICK X, in : X = v.peer /\ in = Inbound(X)
  OBVIOUS
<1>2. PICK T, W, E : /\ T = ToUs(v.tun) /\ W = ToThem(v.wire) /\ E = Faulty(v, r) /\ E
                     /\ Connected(X, r, T, W, LocalWay, RemoteWay, E)
  BY <1>1 DEF Sound, Wired, Faulty
<1>3. Body(X) /\ StreamIntact(in)
  BY <1>1, <1>2, WaysOfBoth, ConnectedFacts DEF Body
<1>4. PICK t : /\ t = StreamSetError(in) /\ StreamIntact(t) /\ t.error /\ t.eof = in.eof
               /\ t.popped = in.popped /\ t.queue = in.queue /\ BytesPushed(t) = BytesPushed(in)
  BY <1>3, ErrorResult
<1>5. PICK Y : Y = [X EXCEPT !.receiver.reassembler.output = t]
  OBVIOUS
<1>6. Body(Y) /\ Inbound(Y) = t /\ Outbound(Y) = Outbound(X) /\ HasErrors(Y)
  <2>1. Body(Y) /\ Inbound(Y) = t /\ Outbound(Y) = Outbound(X)
    BY <1>3, <1>4, <1>5, OtherOutput
  <2> QED
    BY <1>4, <2>1 DEF HasErrors
<1>7. Connected(Y, r, T, W, LocalWay, RemoteWay, E)
  BY <1>1, <1>2, <1>4, <1>6, ConnectedSpoilt
<1>8. PICK w : w = [v EXCEPT !.peer = Y]
  OBVIOUS
<1>9. /\ IsWorld(w) /\ w.peer = Y /\ w.outbound_shutdown = v.outbound_shutdown
      /\ w.fd = v.fd /\ w.wire = v.wire /\ w.tun = v.tun /\ w.inbound_shutdown = v.inbound_shutdown
      /\ w.rules = v.rules /\ w.asked = v.asked /\ w.served = v.served /\ w.outcome = v.outcome
      /\ w.adapter = v.adapter /\ w.ownerShut = v.ownerShut /\ w.broken = v.broken
      /\ w.toThread = v.toThread /\ w.toOwner = v.toOwner
  BY <1>8 DEF IsWorld, Sound
<1>10. u = w
  BY <1>1, <1>4, <1>5, <1>8 DEF Error, Inbound, IsWorld, Sound
<1>11. Wired(w, r)
  <2>1. Faulty(w, r) = E
    BY <1>2, <1>9 DEF Faulty
  <2> QED
    BY <1>2, <1>7, <1>9, <2>1 DEF Sound, Wired
<1>12. Conserved(w, o)
  BY <1>1, <1>4, <1>6, <1>9 DEF Sound, Conserved
<1>13. Ends(w, o)
  BY <1>1, <1>4, <1>6, <1>9 DEF Sound, Ends
<1>14. Onward(w, v)
  BY <1>1, <1>4, <1>6, <1>9 DEF Onward, IsFinished
<1> QED
  BY <1>6, <1>9, <1>10, <1>11, <1>12, <1>13, <1>14 DEF Sound, Adapted, SameLoop

(* Rule 3 is served.                                                        *)
LEMMA ServeThird ==
    ASSUME SocketAssumption, ShortStreams, NEW v, NEW o, NEW r, Sound(v, o, r), Fate(v, o),
           v.served \in BOOLEAN, v.served \/ v.outcome = "running", NEW events,
           v.served \/ PassTold(v, o, events), "In" \in v.ownerShut => Stopped(o),
           NEW u, u = Loop!ServeRule(v, 3, events)
    PROVE  /\ Sound(u, o, r) /\ Onward(u, v)
           /\ u.rules = Append(v.rules, 3) \/ (u.rules = v.rules /\ PassedOn(u, o))
           /\ Fate(u, o)
<1>1. PICK k : k = Loop!Kept(v, 3)
  OBVIOUS
<1>2. /\ Sound(k, o, r) /\ SameMatter(k, v) /\ Onward(k, v)
      /\ k.rules = Append(v.rules, 3) /\ k.asked = v.asked /\ k.served = v.served
      /\ k.outcome = v.outcome
  BY <1>1, RuleKept
<1>3. CASE u = k
  BY <1>2, <1>3 DEF Fate, SameMatter
<1>4. CASE ~v.served /\ "err" \in events
  <2>1. u = Error(3, v)
    BY <1>4 DEF Loop!ServeRule, Cancel
  <2>2. v.broken
    BY <1>4 DEF PassTold
  <2>3. Sound(u, o, r) /\ Onward(u, v) /\ SameLoop(u, v) /\ HasErrors(u.peer)
    BY <2>1, <2>2, PassErrorResult
  <2>4. v.outcome = "running"
    BY <1>4
  <2> QED
    BY <2>3, <2>4 DEF SameLoop, Fate, PassedOn
<1>5. CASE ~v.served /\ "err" \notin events /\ "hup" \in events
  <2>1. u = v
    BY <1>5 DEF Loop!ServeRule, Loop!HungUp, DirectionOf, Cancel
  <2>2. PassedOn(v, o)
    BY <1>5 DEF PassTold, PassedOn, Sound, Ends, HasErrors
  <2> QED
    BY <2>1, <2>2 DEF Onward
<1>6. CASE ~v.served /\ "err" \notin events /\ "hup" \notin events /\ "ready" \in events
  <2>1. u = Loop!Fire(k, 3)
    BY <1>1, <1>6 DEF Loop!ServeRule, Loop!HungUp
  <2>2. k.outcome = "running"
    BY <1>2, <1>6
  <2>3. CASE Dies(3, k)
    <3>1. PICK x : x = [k EXCEPT !.outcome = "died"]
      OBVIOUS
    <3>2. /\ Sound(x, o, r) /\ SameMatter(x, k) /\ Onward(x, k)
          /\ x.rules = k.rules /\ x.asked = k.asked /\ x.served = k.served /\ x.outcome = "died"
      BY <1>2, <3>1, DiedResult
    <3>3. PICK y : y = [x EXCEPT !.served = TRUE]
      OBVIOUS
    <3>4. /\ Sound(y, o, r) /\ SameMatter(y, x) /\ Onward(y, x)
          /\ y.rules = x.rules /\ y.served /\ y.outcome = x.outcome
      BY <3>2, <3>3, CalledResult
    <3>5. Callback(3, k) = x
      BY <2>3, <3>1 DEF Callback
    <3>6. u = y
      BY <2>1, <3>2, <3>3, <3>4, <3>5 DEF Loop!Fire
    <3>7. Onward(y, v)
      BY <1>2, <3>2, <3>4, OnwardOn
    <3>8. Stopped(o) \/ Inbound(y.peer).error
      <4>1. BytesBuffered(Inbound(k.peer)) > 0 /\ ("In" \in k.ownerShut \/ k.inbound_shutdown)
        BY <2>3 DEF Dies
      <4>2. ~IsFinished(Inbound(k.peer))
        BY <4>1 DEF IsFinished, BytesBuffered
      <4>3. Stopped(o) \/ Inbound(k.peer).error
        BY <1>2, <4>1, <4>2 DEF Sound, Ends, SameMatter
      <4> QED
        BY <3>2, <3>4, <4>3 DEF SameMatter
    <3> QED
      BY <1>2, <3>2, <3>4, <3>6, <3>7, <3>8 DEF Fate
  <2>4. CASE ~Dies(3, k)
    <3>1. PICK x : x = PassEnd(PassByte(k))
      OBVIOUS
    <3>2. /\ Sound(x, o, r) /\ Onward(x, k) /\ SameLoop(x, k)
          /\ "Out" \in x.fd["data"].counted \/ ~WantsToPassOn(x)
      BY <1>2, <3>1, PassOnResult
    <3>3. PICK y : y = [x EXCEPT !.served = TRUE]
      OBVIOUS
    <3>4. /\ Sound(y, o, r) /\ SameMatter(y, x) /\ Onward(y, x)
          /\ y.rules = x.rules /\ y.served /\ y.outcome = x.outcome /\ y.fd = x.fd
      BY <3>2, <3>3, CalledResult
    <3>5. Callback(3, k) = x
      BY <2>4, <3>1 DEF Callback
    <3>6. WantsToPassOn(y) <=> WantsToPassOn(x)
      BY <3>4 DEF WantsToPassOn, SameMatter
    <3>7. ~Loop!BusyWait(y, 3)
      BY <3>2, <3>4, <3>6 DEF Loop!BusyWait, FdOf, DirectionOf, Interest
    <3>8. u = y
      BY <2>1, <3>3, <3>5, <3>7 DEF Loop!Fire
    <3>9. Onward(y, v)
      BY <1>2, <3>2, <3>4, OnwardOn
    <3> QED
      BY <1>2, <2>2, <3>2, <3>4, <3>8, <3>9 DEF SameLoop, Fate
  <2> QED
    BY <2>3, <2>4
<1>7. CASE ~v.served /\ "err" \notin events /\ "hup" \notin events /\ "ready" \notin events
  <2>1. u = k
    BY <1>1, <1>7 DEF Loop!ServeRule, Loop!HungUp
  <2> QED
    BY <1>3, <2>1
<1>8. CASE v.served
  <2>1. u = k
    BY <1>1, <1>8 DEF Loop!ServeRule
  <2> QED
    BY <1>3, <2>1
<1> QED
  BY <1>4, <1>5, <1>6, <1>7, <1>8

(* The end of a round.                                                      *)
LEMMA EndRoundResult ==
    ASSUME NEW v, NEW o, NEW r, Sound(v, o, r), NEW u, u = Loop!EndRound(v)
    PROVE  /\ Sound(u, o, r) /\ SameMatter(u, v) /\ u.rules = v.rules /\ u.served = FALSE
           /\ u.outcome = v.outcome
<1>1. PICK fds : fds = [f \in {"tun", "data"} |-> [v.fd[f] EXCEPT !.counted = {}]]
  OBVIOUS
<1>2. v.fd \in [{"tun", "data"} -> FdStates]
  BY DEF Sound, IsWorld
<1>3. \A f \in {"tun", "data"} :
          [v.fd[f] EXCEPT !.counted = {}] \in FdStates /\ SameFd([v.fd[f] EXCEPT !.counted = {}], v.fd[f])
  BY <1>2 DEF FdStates, SameFd
<1>4. /\ fds \in [{"tun", "data"} -> FdStates]
      /\ SameFd(fds["tun"], v.fd["tun"]) /\ SameFd(fds["data"], v.fd["data"])
  BY <1>1, <1>3
<1>5. PICK no, nothing : no = FALSE /\ nothing = {}
  OBVIOUS
<1>6. PICK w : w = [v EXCEPT !.served = no, !.asked = nothing, !.fd = fds]
  OBVIOUS
<1>7. u = w
  BY <1>1, <1>2, <1>5, <1>6 DEF Loop!EndRound
<1>8. /\ IsWorld(w) /\ SameMatter(w, v) /\ w.rules = v.rules /\ w.served = no /\ w.outcome = v.outcome
  BY <1>4, <1>6 DEF IsWorld, Sound, SameMatter
<1> QED
  BY <1>5, <1>7, <1>8, SoundMatter

-----------------------------------------------------------------------------
(* The rules that may be left, in their order: the first one always is.     *)
RuleLists == {<<1, 2, 3>>, <<1, 2>>, <<1, 3>>, <<1>>}

HasSecond(rules) == rules \in {<<1, 2, 3>>, <<1, 2>>}
HasThird(rules)  == rules \in {<<1, 2, 3>>, <<1, 3>>}

LEMMA RuleListFacts ==
    /\ RuleLists \subseteq Seq(1 .. 3)
    /\ \A rules \in RuleLists :
           /\ Len(rules) = 3 <=> rules = <<1, 2, 3>>
           /\ Len(rules) = 1 <=> rules = <<1>>
           /\ Len(rules) = 2 <=> rules = <<1, 2>> \/ rules = <<1, 3>>
           /\ Len(rules) \in 1 .. 3 /\ rules[1] = 1
    /\ HasSecond(<<1, 2, 3>>) /\ HasSecond(<<1, 2>>) /\ ~HasSecond(<<1, 3>>) /\ ~HasSecond(<<1>>)
    /\ HasThird(<<1, 2, 3>>) /\ HasThird(<<1, 3>>) /\ ~HasThird(<<1, 2>>) /\ ~HasThird(<<1>>)
<1>1. RuleLists \subseteq Seq(1 .. 3)
  BY DEF RuleLists
<1>2. /\ Len(<<1, 2, 3>>) = 3 /\ Len(<<1, 2>>) = 2 /\ Len(<<1, 3>>) = 2 /\ Len(<<1>>) = 1
      /\ <<1, 2>>[2] = 2 /\ <<1, 3>>[2] = 3
      /\ <<1, 2, 3>>[1] = 1 /\ <<1, 2>>[1] = 1 /\ <<1, 3>>[1] = 1 /\ <<1>>[1] = 1
  OBVIOUS
<1>3. ASSUME NEW rules \in RuleLists
      PROVE  /\ Len(rules) = 3 <=> rules = <<1, 2, 3>>
             /\ Len(rules) = 1 <=> rules = <<1>>
             /\ Len(rules) = 2 <=> rules = <<1, 2>> \/ rules = <<1, 3>>
             /\ Len(rules) \in 1 .. 3 /\ rules[1] = 1
  <2>1. CASE rules = <<1, 2, 3>>
    BY <1>2, <2>1
  <2>2. CASE rules = <<1, 2>>
    BY <1>2, <2>2
  <2>3. CASE rules = <<1, 3>>
    BY <1>2, <2>3
  <2>4. CASE rules = <<1>>
    BY <1>2, <2>4
  <2> QED
    BY <2>1, <2>2, <2>3, <2>4 DEF RuleLists
<1>4. /\ HasSecond(<<1, 2, 3>>) /\ HasSecond(<<1, 2>>) /\ ~HasSecond(<<1, 3>>) /\ ~HasSecond(<<1>>)
      /\ HasThird(<<1, 2, 3>>) /\ HasThird(<<1, 3>>) /\ ~HasThird(<<1, 2>>) /\ ~HasThird(<<1>>)
  <2>1. <<1, 2>> # <<1, 3>> /\ <<1>> # <<1, 2>> /\ <<1>> # <<1, 3>> /\ <<1>> # <<1, 2, 3>>
        /\ <<1, 2>> # <<1, 2, 3>> /\ <<1, 3>> # <<1, 2, 3>>
    BY <1>2
  <2> QED
    BY <2>1 DEF HasSecond, HasThird
<1> QED
  BY <1>1, <1>3, <1>4

(* A round serves the rules one after the other.                            *)
RoundOf(after, rules, start, told) ==
    after = [k \in 0 .. Len(rules) |->
                IF k = 0 THEN start
                ELSE Loop!ServeRule(after[k - 1], rules[k], told[rules[k]])]

LEMMA RoundExists ==
    ASSUME NEW rules, NEW n \in 1 .. 3, n = Len(rules), NEW start, NEW told
    PROVE  \E after : RoundOf(after, rules, start, told)
<1> DEFINE S(x, k) == Loop!ServeRule(x, rules[k], told[rules[k]])
<1>1. PICK a, b, c : a = S(start, 1) /\ b = S(a, 2) /\ c = S(b, 3)
  OBVIOUS
<1> HIDE DEF S
<1>2. PICK g : g = [k \in 0 .. n |-> IF k = 0 THEN start
                                     ELSE IF k = 1 THEN a ELSE IF k = 2 THEN b ELSE c]
  OBVIOUS
<1>3. g = [k \in 0 .. n |-> IF k = 0 THEN start ELSE S(g[k - 1], k)]
  <2>1. ASSUME NEW k \in 0 .. n
        PROVE  g[k] = IF k = 0 THEN start ELSE S(g[k - 1], k)
    <3>1. CASE k = 0
      BY <1>2, <3>1
    <3>2. CASE k = 1
      <4>1. g[0] = start /\ g[1] = a /\ k - 1 = 0 /\ k # 0
        BY <1>2, <3>2
      <4> QED
        BY <1>1, <3>2, <4>1
    <3>3. CASE k = 2
      <4>1. g[1] = a /\ g[2] = b /\ k - 1 = 1 /\ k # 0
        BY <1>2, <3>3
      <4> QED
        BY <1>1, <3>3, <4>1
    <3>4. CASE k = 3
      <4>1. g[2] = b /\ g[3] = c /\ k - 1 = 2 /\ k # 0
        BY <1>2, <3>4
      <4> QED
        BY <1>1, <3>4, <4>1
    <3> QED
      BY <3>1, <3>2, <3>3, <3>4
  <2>2. g = [k \in 0 .. n |-> g[k]]
    BY <1>2
  <2> QED
    BY <2>1, <2>2
<1> QED
  BY <1>3 DEF RoundOf, S

LEMMA RoundUnrolled ==
    ASSUME NEW w, w.rules \in RuleLists, NEW told,
           NEW start, start = [w EXCEPT !.rules = <<>>],
           NEW v1, v1 = Loop!ServeRule(start, 1, told[1]),
           NEW v2, v2 = IF HasSecond(w.rules) THEN Loop!ServeRule(v1, 2, told[2]) ELSE v1,
           NEW v3, v3 = IF HasThird(w.rules) THEN Loop!ServeRule(v2, 3, told[3]) ELSE v2
    PROVE  Loop!Serve(w, told) = Loop!EndRound(v3)
<1>1. PICK rules : rules = w.rules /\ rules \in RuleLists
  OBVIOUS
<1>2. PICK n \in 1 .. 3 : rules = w.rules /\ rules \in RuleLists /\ n = Len(rules)
  BY <1>1, RuleListFacts
<1> DEFINE after == CHOOSE g : RoundOf(g, rules, start, told)
<1>3. RoundOf(after, rules, start, told)
  BY <1>2, RoundExists
<1>4. Loop!Serve(w, told) = Loop!EndRound(after[n])
  BY <1>2 DEF Loop!Serve, RoundOf, Loop!ServeRule
<1> HIDE DEF after
<1>5. PICK h : h = after /\ RoundOf(h, rules, start, told)
  BY <1>3
<1> DEFINE S(x, q) == Loop!ServeRule(x, q, told[q])
<1>6. h[0] = start /\ \A k \in 1 .. n : h[k] = S(h[k - 1], rules[k])
  <2>1. h = [k \in 0 .. n |-> IF k = 0 THEN start ELSE S(h[k - 1], rules[k])]
    BY <1>2, <1>5 DEF RoundOf
  <2> HIDE DEF S
  <2>2. \A k \in 1 .. n : k \in 0 .. n /\ k # 0
    OBVIOUS
  <2> QED
    BY <2>1, <2>2
<1>7. v1 = S(start, 1) /\ v2 = (IF HasSecond(rules) THEN S(v1, 2) ELSE v1)
      /\ v3 = (IF HasThird(rules) THEN S(v2, 3) ELSE v2)
  BY <1>2
<1> HIDE DEF S
<1>8. h[1] = v1
  <2>1. 1 \in 1 .. n /\ 1 - 1 = 0 /\ rules[1] = 1
    BY <1>2, RuleListFacts
  <2> QED
    BY <1>6, <1>7, <2>1
<1>9. h[n] = v3
  <2>1. CASE rules = <<1, 2, 3>>
    <3>1. n = 3 /\ rules[2] = 2 /\ rules[3] = 3 /\ HasSecond(rules) /\ HasThird(rules)
      BY <1>2, <2>1, RuleListFacts
    <3>2. h[2] = S(h[1], 2) /\ h[3] = S(h[2], 3)
      BY <1>6, <3>1
    <3> QED
      BY <1>7, <1>8, <3>1, <3>2
  <2>2. CASE rules = <<1, 2>>
    <3>1. n = 2 /\ rules[2] = 2 /\ HasSecond(rules) /\ ~HasThird(rules)
      BY <1>2, <2>2, RuleListFacts
    <3>2. h[2] = S(h[1], 2)
      BY <1>6, <3>1
    <3> QED
      BY <1>7, <1>8, <3>1, <3>2
  <2>3. CASE rules = <<1, 3>>
    <3>1. n = 2 /\ rules[2] = 3 /\ ~HasSecond(rules) /\ HasThird(rules)
      BY <1>2, <2>3, RuleListFacts
    <3>2. h[2] = S(h[1], 3)
      BY <1>6, <3>1
    <3> QED
      BY <1>7, <1>8, <3>1, <3>2
  <2>4. CASE rules = <<1>>
    <3>1. n = 1 /\ ~HasSecond(rules) /\ ~HasThird(rules)
      BY <1>2, <2>4, RuleListFacts
    <3> QED
      BY <1>7, <1>8, <3>1
  <2> QED
    BY <1>2, <2>1, <2>2, <2>3, <2>4 DEF RuleLists
<1> QED
  BY <1>4, <1>5, <1>9

LEMMA OwnerToldOn ==
    ASSUME NEW u, NEW v, SameMatter(u, v), u.asked = v.asked, NEW events, OwnerTold(v, events)
    PROVE  OwnerTold(u, events)
<1>1. WantsOwnersBytes(v) => WantsOwnersBytes(u)
  BY DEF SameMatter, WantsOwnersBytes
<1> QED
  BY <1>1 DEF SameMatter, OwnerTold

LEMMA PassedOnOn ==
    ASSUME NEW u, NEW v, Onward(u, v), NEW o
    PROVE  /\ PassedOn(v, o) => PassedOn(u, o)
           /\ \A events : PassTold(v, o, events) => PassTold(u, o, events)
BY DEF Onward, PassedOn, PassTold

LEMMA RuleAppended ==
    /\ Append(<<>>, 1) = <<1>> /\ Append(<<1>>, 2) = <<1, 2>>
    /\ Append(<<1>>, 3) = <<1, 3>> /\ Append(<<1, 2>>, 3) = <<1, 2, 3>>
<1>1. ASSUME NEW n \in 0 .. 2, NEW s \in Seq(Nat), Len(s) = n, NEW q \in Nat,
             NEW t \in Seq(Nat), Len(t) = n + 1, t[n + 1] = q, \A k \in 1 .. n : t[k] = s[k]
      PROVE  Append(s, q) = t
  <2>1. PICK u \in Seq(Nat) : u = Append(s, q)
    BY AppendProperties
  <2>2. Len(u) = n + 1 /\ u[n + 1] = q /\ \A k \in 1 .. n : u[k] = s[k]
    BY <1>1, <2>1, AppendProperties
  <2>3. \A k \in 1 .. Len(u) : u[k] = t[k]
    BY <1>1, <2>2
  <2> QED
    BY <1>1, <2>1, <2>2, <2>3, SeqEqual
<1>2. PICK e \in Seq(Nat) : e = <<>> /\ Len(e) = 0
  <2>1. <<>> \in Seq(Nat) /\ Len(<<>>) = 0
    OBVIOUS
  <2> QED
    BY <2>1
<1>3. PICK a \in Seq(Nat) : a = <<1>> /\ Len(a) = 1 /\ a[1] = 1
  <2>1. <<1>> \in Seq(Nat) /\ Len(<<1>>) = 1 /\ <<1>>[1] = 1
    OBVIOUS
  <2> QED
    BY <2>1
<1>4. PICK b \in Seq(Nat) : b = <<1, 2>> /\ Len(b) = 2 /\ b[1] = 1 /\ b[2] = 2
  <2>1. <<1, 2>> \in Seq(Nat) /\ Len(<<1, 2>>) = 2 /\ <<1, 2>>[1] = 1 /\ <<1, 2>>[2] = 2
    OBVIOUS
  <2> QED
    BY <2>1
<1>5. PICK c \in Seq(Nat) : c = <<1, 3>> /\ Len(c) = 2 /\ c[1] = 1 /\ c[2] = 3
  <2>1. <<1, 3>> \in Seq(Nat) /\ Len(<<1, 3>>) = 2 /\ <<1, 3>>[1] = 1 /\ <<1, 3>>[2] = 3
    OBVIOUS
  <2> QED
    BY <2>1
<1>6. PICK d \in Seq(Nat) : d = <<1, 2, 3>> /\ Len(d) = 3 /\ d[1] = 1 /\ d[2] = 2 /\ d[3] = 3
  <2>1. <<1, 2, 3>> \in Seq(Nat) /\ Len(<<1, 2, 3>>) = 3 /\ <<1, 2, 3>>[1] = 1 /\ <<1, 2, 3>>[2] = 2 /\ <<1, 2, 3>>[3] = 3
    OBVIOUS
  <2> QED
    BY <2>1
<1>7. Append(e, 1) = a
  <2>1. Len(a) = 0 + 1 /\ a[0 + 1] = 1 /\ \A k \in 1 .. 0 : a[k] = e[k]
    BY <1>3
  <2> QED
    BY <1>1, <1>2, <2>1
<1>8. Append(a, 2) = b
  <2>1. Len(b) = 1 + 1 /\ b[1 + 1] = 2 /\ \A k \in 1 .. 1 : b[k] = a[k]
    BY <1>3, <1>4
  <2> QED
    BY <1>1, <1>3, <2>1
<1>9. Append(a, 3) = c
  <2>1. Len(c) = 1 + 1 /\ c[1 + 1] = 3 /\ \A k \in 1 .. 1 : c[k] = a[k]
    BY <1>3, <1>5
  <2> QED
    BY <1>1, <1>3, <2>1
<1>10. Append(b, 3) = d
  <2>1. Len(d) = 2 + 1 /\ d[2 + 1] = 3 /\ \A k \in 1 .. 2 : d[k] = b[k]
    BY <1>4, <1>6
  <2> QED
    BY <1>1, <1>4, <2>1
<1> QED
  BY <1>2, <1>3, <1>4, <1>5, <1>6, <1>7, <1>8, <1>9, <1>10

(* What holds of the world between two rounds, and when a round begins.     *)
Steady(w, o, r) ==
    /\ Sound(w, o, r) /\ w.rules \in RuleLists /\ w.served = FALSE
    /\ HasThird(w.rules) \/ PassedOn(w, o)

ToldTruly(w, o, told) ==
    /\ TunTold(w, told[1])
    /\ HasSecond(w.rules) => OwnerTold(w, told[2])
    /\ HasThird(w.rules) => PassTold(w, o, told[3])

(* A round keeps everything sound, and does not end the program before the  *)
(* owner has stopped reading or the connection has been reset.              *)
LEMMA ServeResult ==
    ASSUME SocketAssumption, ShortStreams, NEW w, NEW o, NEW r, Steady(w, o, r),
           w.outcome = "running", NEW told, ToldTruly(w, o, told),
           "In" \in w.ownerShut => Stopped(o),
           NEW u, u = Loop!Serve(w, told)
    PROVE  Steady(u, o, r) /\ Fate(u, o) /\ u.ownerShut = w.ownerShut
<1>1. PICK none : none = <<>>
  OBVIOUS
<1>2. PICK start : start = [w EXCEPT !.rules = <<>>]
  OBVIOUS
<1>3. /\ Sound(start, o, r) /\ SameMatter(start, w) /\ Onward(start, w)
      /\ start.rules = none /\ start.asked = w.asked /\ start.served = FALSE
      /\ start.outcome = "running"
  <2>1. LoopPart(start, w, none, w.asked, w.served, w.outcome)
    BY <1>1, <1>2, LoopParts DEF Steady, Sound
  <2> QED
    BY <2>1, SoundMatter, OnwardSame DEF LoopPart, Steady
<1>4. PICK v1 : v1 = Loop!ServeRule(start, 1, told[1])
  OBVIOUS
<1>5. /\ Sound(v1, o, r) /\ Onward(v1, start) /\ v1.rules = Append(none, 1)
      /\ v1.outcome = "running" /\ v1.served \in BOOLEAN
      /\ v1.served \/ SameMatter(v1, start)
  <2>1. TunTold(start, told[1])
    BY <1>3 DEF ToldTruly, TunTold, SameMatter
  <2>2. start.served = FALSE /\ start.outcome = "running" /\ Sound(start, o, r)
    BY <1>3
  <2>3. Sound(v1, o, r) /\ Onward(v1, start) /\ v1.rules = Append(start.rules, 1)
    BY <1>4, <2>1, <2>2, ServeFirst, ZenonT(60)
  <2>4. SameOutcome(v1, start)
    BY <1>4, <2>1, <2>2, ServeFirst
  <2>5. v1.served \in BOOLEAN
    BY <1>4, <2>1, <2>2, ServeFirst
  <2>6. v1.served \/ SameMatter(v1, start)
    BY <1>4, <2>1, <2>2, ServeFirst
  <2> QED
    BY <1>3, <2>3, <2>4, <2>6, <2>5 DEF SameOutcome
<1>6. v1.rules = <<1>> /\ Onward(v1, w)
  <2>1. Append(none, 1) = <<1>>
    BY <1>1, RuleAppended
  <2> QED
    BY <1>3, <1>5, <2>1, OnwardOn
<1>7. PICK v2 : v2 = IF HasSecond(w.rules) THEN Loop!ServeRule(v1, 2, told[2]) ELSE v1
  OBVIOUS
<1>8. /\ Sound(v2, o, r) /\ Onward(v2, v1) /\ v2.rules \in {<<1>>, <<1, 2>>}
      /\ Fate(v2, o) /\ v2.served \in BOOLEAN /\ (v2.served \/ v2.outcome = "running")
  <2>1. CASE HasSecond(w.rules)
    <3>1. v1.served \/ OwnerTold(v1, told[2])
      <4>1. SUFFICES ASSUME ~v1.served PROVE OwnerTold(v1, told[2])
        OBVIOUS
      <4>2. SameMatter(v1, w) /\ v1.asked = w.asked
        BY <1>3, <1>5, <1>6, <4>1, MatterOn DEF Onward
      <4> QED
        BY <2>1, <4>2, OwnerToldOn DEF ToldTruly
    <3>2. v2 = Loop!ServeRule(v1, 2, told[2])
      BY <1>7, <2>1
    <3>3. /\ Sound(v2, o, r) /\ Onward(v2, v1)
          /\ v2.rules = v1.rules \/ v2.rules = Append(v1.rules, 2)
          /\ Fate(v2, o) /\ v2.served \in BOOLEAN /\ (v2.served \/ v2.outcome = "running")
      BY <1>5, <3>1, <3>2, ServeSecond
    <3> QED
      BY <1>6, <3>3, RuleAppended
  <2>2. CASE ~HasSecond(w.rules)
    <3>1. v2 = v1
      BY <1>7, <2>2
    <3>2. Onward(v1, v1)
      BY DEF Onward
    <3> QED
      BY <1>5, <1>6, <3>1, <3>2 DEF Fate
  <2> QED
    BY <2>1, <2>2
<1>9. Onward(v2, w)
  BY <1>6, <1>8, OnwardOn
<1>10. PICK v3 : v3 = IF HasThird(w.rules) THEN Loop!ServeRule(v2, 3, told[3]) ELSE v2
  OBVIOUS
<1>11. /\ Sound(v3, o, r) /\ Onward(v3, v2) /\ v3.rules \in RuleLists
       /\ HasThird(v3.rules) \/ PassedOn(v3, o)
       /\ Fate(v3, o)
  <2>1. <<1>> \in RuleLists /\ <<1, 2>> \in RuleLists /\ <<1, 3>> \in RuleLists /\ <<1, 2, 3>> \in RuleLists
    BY DEF RuleLists
  <2>2. CASE HasThird(w.rules)
    <3>1. PassTold(v2, o, told[3])
      BY <1>9, <2>2, PassedOnOn DEF ToldTruly
    <3>2. v3 = Loop!ServeRule(v2, 3, told[3])
      BY <1>10, <2>2
    <3>3. "In" \in v2.ownerShut => Stopped(o)
      BY <1>9 DEF Onward
    <3>4. /\ Sound(v3, o, r) /\ Onward(v3, v2)
          /\ v3.rules = Append(v2.rules, 3) \/ (v3.rules = v2.rules /\ PassedOn(v3, o))
          /\ Fate(v3, o)
      BY <1>8, <3>1, <3>2, <3>3, ServeThird
    <3>5. HasThird(<<1, 3>>) /\ HasThird(<<1, 2, 3>>)
      BY RuleListFacts
    <3> QED
      BY <1>8, <2>1, <3>4, <3>5, RuleAppended
  <2>3. CASE ~HasThird(w.rules)
    <3>1. v3 = v2
      BY <1>10, <2>3
    <3>2. PassedOn(v2, o)
      BY <1>9, <2>3, PassedOnOn DEF Steady
    <3>3. Onward(v2, v2)
      BY DEF Onward
    <3> QED
      BY <1>8, <2>1, <3>1, <3>2, <3>3
  <2> QED
    BY <2>2, <2>3
<1>12. u = Loop!EndRound(v3)
  <2>1. w.rules \in RuleLists
    BY DEF Steady
  <2> QED
    BY <1>2, <1>4, <1>7, <1>10, <2>1, RoundUnrolled
<1>13. /\ Sound(u, o, r) /\ SameMatter(u, v3) /\ u.rules = v3.rules /\ u.served = FALSE
       /\ u.outcome = v3.outcome
  BY <1>11, <1>12, EndRoundResult
<1>14. HasThird(u.rules) \/ PassedOn(u, o)
  BY <1>11, <1>13 DEF SameMatter, PassedOn
<1>15. Fate(u, o)
  BY <1>11, <1>13 DEF SameMatter, Fate
<1>16. u.ownerShut = w.ownerShut
  BY <1>9, <1>11, <1>13 DEF SameMatter, Onward
<1> QED
  BY <1>11, <1>13, <1>14, <1>15, <1>16 DEF Steady

-----------------------------------------------------------------------------
(* The first half of a round changes nothing but the loop's own fields: of  *)
(* the rules only the second can end with its descriptor, and its           *)
(* cancellation finds done what it does.                                    *)
LEMMA CancelledAlready ==
    ASSUME SocketAssumption, ShortStreams, NEW v, NEW o, NEW r, Sound(v, o, r),
           v.fd["data"].eof
    PROVE  Cancel(2, v) = v
<1>1. PICK X, out : X = v.peer /\ out = Outbound(X)
  OBVIOUS
<1>2. Body(X) /\ StreamIntact(out)
  <2>1. PICK T, W, E : Connected(X, r, T, W, LocalWay, RemoteWay, E)
    BY <1>1 DEF Sound, Wired
  <2> QED
    BY <1>1, <2>1, WaysOfBoth, ConnectedFacts DEF Body
<1>3. out.eof = TRUE
  BY <1>1, <1>2 DEF Sound, Ends, StreamIntact, Streams
<1>4. PICK yes : yes = TRUE /\ (v.outbound_shutdown => v.outbound_shutdown = yes)
  OBVIOUS
<1>5. v.outbound_shutdown
  BY <1>1, <1>3 DEF Sound, Ends
<1>6. StreamClose(out) = out
  BY <1>2, <1>3 DEF StreamClose, StreamIntact, Streams
<1>7. PICK s, c, n, f, i :
          /\ X = [sender |-> s, receiver |-> c, need_send |-> n,
                  linger_after_streams_finish |-> f, idle |-> i]
          /\ s = X.sender /\ s.input = out /\ s \in Senders
  BY <1>1, <1>2 DEF Body, Shaped, Outbound
<1>8. [s EXCEPT !.input = out] = s
  BY <1>7 DEF Senders
<1>9. [v EXCEPT !.peer.sender.input = out] = v
  BY <1>1, <1>7, <1>8 DEF Sound, IsWorld
<1> QED
  <2>1. PICK z : z = [v EXCEPT !.outbound_shutdown = yes] /\ z = v
    BY <1>4, <1>5 DEF Sound, IsWorld
  <2>2. Cancel(2, v) = [v EXCEPT !.peer.sender.input = StreamClose(@), !.outbound_shutdown = yes]
    BY <1>4 DEF Cancel
  <2> QED
    BY <1>1, <1>6, <1>7, <1>9, <2>1, <2>2

(* A rule is asked, or gone.                                                *)
AskedOf(u, v, q) ==
    \/ /\ u.rules = Append(v.rules, q)
       /\ u.asked = IF Interest(q, v) THEN v.asked \cup {q} ELSE v.asked
    \/ q = 2 /\ u.rules = v.rules /\ u.asked = v.asked

SameService(u, v) == u.served = v.served /\ u.outcome = v.outcome

LEMMA SetUpRuleResult ==
    ASSUME SocketAssumption, ShortStreams, NEW v, NEW o, NEW r, Sound(v, o, r),
           NEW q \in {1, 2, 3}, NEW u, u = Rules!SetUpRule(v, q)
    PROVE  Sound(u, o, r) /\ SameMatter(u, v) /\ SameService(u, v) /\ AskedOf(u, v, q)
<1>1. CASE Rules!Defunct(v, q)
  <2>1. ~v.fd["tun"].eof /\ ~v.fd["tun"].closed /\ ~v.fd["data"].closed
    BY DEF Sound, Ends
  <2>2. q = 2 /\ v.fd["data"].eof
    BY <1>1, <2>1 DEF Rules!Defunct, FdOf, DirectionOf
  <2>3. u = Cancel(2, v)
    BY <1>1, <2>2 DEF Rules!SetUpRule
  <2>4. u = v
    BY <2>2, <2>3, CancelledAlready
  <2>5. SameMatter(v, v)
    BY DEF SameMatter, SameFd
  <2> QED
    BY <2>2, <2>4, <2>5 DEF SameService, AskedOf
<1>2. CASE ~Rules!Defunct(v, q)
  <2>1. PICK rules : rules = Append(v.rules, q)
    OBVIOUS
  <2>2. PICK k : k = [v EXCEPT !.rules = rules]
    OBVIOUS
  <2>3. LoopPart(k, v, rules, v.asked, v.served, v.outcome)
    BY <2>2, LoopParts DEF Sound
  <2>4. k = Rules!Kept(v, q)
    BY <2>1, <2>2 DEF Rules!Kept
  <2>5. CASE ~Interest(q, v)
    <3>1. u = k
      BY <1>2, <2>4, <2>5 DEF Rules!SetUpRule
    <3>2. Sound(k, o, r)
      BY <2>3, SoundMatter DEF LoopPart
    <3>3. SameService(k, v) /\ AskedOf(k, v, q)
      BY <2>1, <2>3, <2>5 DEF LoopPart, SameService, AskedOf
    <3> QED
      BY <2>3, <3>1, <3>2, <3>3 DEF LoopPart
  <2>6. CASE Interest(q, v)
    <3>1. PICK asked : asked = v.asked \cup {q}
      OBVIOUS
    <3>2. PICK a : a = [k EXCEPT !.asked = asked]
      OBVIOUS
    <3>3. IsWorld(k)
      BY <2>3 DEF LoopPart
    <3>4. LoopPart(a, k, k.rules, asked, k.served, k.outcome)
      BY <3>2, <3>3, LoopParts
    <3>5. k.asked = v.asked
      BY <2>3 DEF LoopPart
    <3>6. u = a
      <4>1. u = [k EXCEPT !.asked = @ \cup {q}]
        BY <1>2, <2>4, <2>6 DEF Rules!SetUpRule
      <4> QED
        BY <3>1, <3>2, <3>5, <4>1
    <3>7. SameMatter(a, v)
      BY <2>3, <3>4, MatterOn DEF LoopPart
    <3>8. Sound(a, o, r)
      BY <3>4, <3>7, SoundMatter DEF LoopPart
    <3>9. SameService(a, v) /\ AskedOf(a, v, q)
      BY <2>1, <2>3, <2>6, <3>1, <3>4 DEF LoopPart, SameService, AskedOf
    <3> QED
      BY <3>6, <3>7, <3>8, <3>9
  <2> QED
    BY <2>5, <2>6
<1> QED
  BY <1>1, <1>2

(* The rules are asked one after the other, too.                            *)
QuestionsOf(after, rules, start) ==
    after = [k \in 0 .. Len(rules) |->
                IF k = 0 THEN start
                ELSE Rules!SetUpRule(after[k - 1], rules[k])]

LEMMA QuestionsExist ==
    ASSUME NEW rules, NEW n \in 1 .. 3, n = Len(rules), NEW start
    PROVE  \E after : QuestionsOf(after, rules, start)
<1> DEFINE S(x, k) == Rules!SetUpRule(x, rules[k])
<1>1. PICK a, b, c : a = S(start, 1) /\ b = S(a, 2) /\ c = S(b, 3)
  OBVIOUS
<1> HIDE DEF S
<1>2. PICK g : g = [k \in 0 .. n |-> IF k = 0 THEN start
                                     ELSE IF k = 1 THEN a ELSE IF k = 2 THEN b ELSE c]
  OBVIOUS
<1>3. g = [k \in 0 .. n |-> IF k = 0 THEN start ELSE S(g[k - 1], k)]
  <2>1. ASSUME NEW k \in 0 .. n
        PROVE  g[k] = IF k = 0 THEN start ELSE S(g[k - 1], k)
    <3>1. CASE k = 0
      BY <1>2, <3>1
    <3>2. CASE k = 1
      <4>1. g[0] = start /\ g[1] = a /\ k - 1 = 0 /\ k # 0
        BY <1>2, <3>2
      <4> QED
        BY <1>1, <3>2, <4>1
    <3>3. CASE k = 2
      <4>1. g[1] = a /\ g[2] = b /\ k - 1 = 1 /\ k # 0
        BY <1>2, <3>3
      <4> QED
        BY <1>1, <3>3, <4>1
    <3>4. CASE k = 3
      <4>1. g[2] = b /\ g[3] = c /\ k - 1 = 2 /\ k # 0
        BY <1>2, <3>4
      <4> QED
        BY <1>1, <3>4, <4>1
    <3> QED
      BY <3>1, <3>2, <3>3, <3>4
  <2>2. g = [k \in 0 .. n |-> g[k]]
    BY <1>2
  <2> QED
    BY <2>1, <2>2
<1> QED
  BY <1>3 DEF QuestionsOf, S

Concluded(v) == IF v.asked = {} THEN [v EXCEPT !.outcome = "exit"] ELSE v

LEMMA QuestionsUnrolled ==
    ASSUME NEW w, w.rules \in RuleLists,
           NEW start, start = [w EXCEPT !.rules = <<>>, !.asked = {}],
           NEW v1, v1 = Rules!SetUpRule(start, 1),
           NEW v2, v2 = IF HasSecond(w.rules) THEN Rules!SetUpRule(v1, 2) ELSE v1,
           NEW v3, v3 = IF HasThird(w.rules) THEN Rules!SetUpRule(v2, 3) ELSE v2
    PROVE  Rules!SetUp(w) = Concluded(v3)
<1>1. PICK rules : rules = w.rules /\ rules \in RuleLists
  OBVIOUS
<1>2. PICK n \in 1 .. 3 : rules = w.rules /\ rules \in RuleLists /\ n = Len(rules)
  BY <1>1, RuleListFacts
<1> DEFINE after == CHOOSE g : QuestionsOf(g, rules, start)
<1>3. QuestionsOf(after, rules, start)
  BY <1>2, QuestionsExist
<1>4. Rules!SetUp(w) = Concluded(after[n])
  BY <1>2 DEF Rules!SetUp, QuestionsOf, Concluded
<1> HIDE DEF after
<1>5. PICK h : h = after /\ QuestionsOf(h, rules, start)
  BY <1>3
<1> DEFINE S(x, q) == Rules!SetUpRule(x, q)
<1>6. h[0] = start /\ \A k \in 1 .. n : h[k] = S(h[k - 1], rules[k])
  <2>1. h = [k \in 0 .. n |-> IF k = 0 THEN start ELSE S(h[k - 1], rules[k])]
    BY <1>2, <1>5 DEF QuestionsOf
  <2> HIDE DEF S
  <2>2. \A k \in 1 .. n : k \in 0 .. n /\ k # 0
    OBVIOUS
  <2> QED
    BY <2>1, <2>2
<1>7. v1 = S(start, 1) /\ v2 = (IF HasSecond(rules) THEN S(v1, 2) ELSE v1)
      /\ v3 = (IF HasThird(rules) THEN S(v2, 3) ELSE v2)
  BY <1>2
<1> HIDE DEF S
<1>8. h[1] = v1
  <2>1. 1 \in 1 .. n /\ 1 - 1 = 0 /\ rules[1] = 1
    BY <1>2, RuleListFacts
  <2> QED
    BY <1>6, <1>7, <2>1
<1>9. h[n] = v3
  <2>1. CASE rules = <<1, 2, 3>>
    <3>1. n = 3 /\ rules[2] = 2 /\ rules[3] = 3 /\ HasSecond(rules) /\ HasThird(rules)
      BY <1>2, <2>1, RuleListFacts
    <3>2. h[2] = S(h[1], 2) /\ h[3] = S(h[2], 3)
      BY <1>6, <3>1
    <3> QED
      BY <1>7, <1>8, <3>1, <3>2
  <2>2. CASE rules = <<1, 2>>
    <3>1. n = 2 /\ rules[2] = 2 /\ HasSecond(rules) /\ ~HasThird(rules)
      BY <1>2, <2>2, RuleListFacts
    <3>2. h[2] = S(h[1], 2)
      BY <1>6, <3>1
    <3> QED
      BY <1>7, <1>8, <3>1, <3>2
  <2>3. CASE rules = <<1, 3>>
    <3>1. n = 2 /\ rules[2] = 3 /\ ~HasSecond(rules) /\ HasThird(rules)
      BY <1>2, <2>3, RuleListFacts
    <3>2. h[2] = S(h[1], 3)
      BY <1>6, <3>1
    <3> QED
      BY <1>7, <1>8, <3>1, <3>2
  <2>4. CASE rules = <<1>>
    <3>1. n = 1 /\ ~HasSecond(rules) /\ ~HasThird(rules)
      BY <1>2, <2>4, RuleListFacts
    <3> QED
      BY <1>7, <1>8, <3>1
  <2> QED
    BY <1>2, <2>1, <2>2, <2>3, <2>4 DEF RuleLists
<1> QED
  BY <1>4, <1>5, <1>9

LEMMA InterestSame ==
    ASSUME NEW u, NEW v, SameMatter(u, v), NEW q \in {1, 2, 3}
    PROVE  Interest(q, u) <=> Interest(q, v)
<1>1. WantsSegments(u) <=> WantsSegments(v)
  BY DEF SameMatter, WantsSegments
<1>2. WantsOwnersBytes(u) <=> WantsOwnersBytes(v)
  BY DEF SameMatter, WantsOwnersBytes
<1>3. WantsToPassOn(u) <=> WantsToPassOn(v)
  BY DEF SameMatter, WantsToPassOn
<1>4. CASE q = 1
  BY <1>1, <1>4 DEF Interest
<1>5. CASE q = 2
  BY <1>2, <1>5 DEF Interest
<1>6. CASE q = 3
  BY <1>3, <1>6 DEF Interest
<1> QED
  BY <1>4, <1>5, <1>6

(* Those that have been asked are interested; the first is always there.    *)
Interested(u, w) ==
    /\ u.asked \subseteq {1, 2, 3}
    /\ \A q \in u.asked : Interest(q, w)
    /\ Interest(1, w) => 1 \in u.asked

LEMMA InterestedOn ==
    ASSUME NEW v, NEW w, SameMatter(v, w), Interested(v, w), NEW q \in {2, 3},
           NEW u, AskedOf(u, v, q)
    PROVE  /\ Interested(u, w)
           /\ u.rules = Append(v.rules, q) /\ Interest(q, w) => q \in u.asked
<1>1. Interest(q, v) <=> Interest(q, w)
  BY InterestSame
<1>2. CASE u.asked = v.asked \cup {q} /\ Interest(q, v)
  BY <1>1, <1>2 DEF Interested
<1>3. CASE u.asked = v.asked /\ ~Interest(q, v)
  BY <1>1, <1>3 DEF Interested
<1>4. CASE q = 2 /\ u.rules = v.rules /\ u.asked = v.asked
  BY <1>1, <1>4 DEF Interested, AskedOf
<1> QED
  BY <1>2, <1>3, <1>4 DEF AskedOf

(* What the first half of a round comes to: it changes only the loop's own  *)
(* fields, and says "exit" if and only if no rule is interested.            *)
SetUpTo(u, w) ==
    /\ u.rules \in RuleLists
    /\ HasThird(u.rules) <=> HasThird(w.rules)
    /\ Interested(u, w)
    /\ HasThird(w.rules) /\ Interest(3, w) => 3 \in u.asked
    /\ u.served = w.served
    /\ u.outcome = IF u.asked = {} THEN "exit" ELSE w.outcome

LEMMA ConcludedResult ==
    ASSUME NEW v, NEW o, NEW r, Sound(v, o, r), NEW u, u = Concluded(v)
    PROVE  /\ Sound(u, o, r) /\ SameMatter(u, v) /\ u.rules = v.rules /\ u.asked = v.asked
           /\ u.served = v.served
           /\ u.outcome = IF v.asked = {} THEN "exit" ELSE v.outcome
<1>1. CASE v.asked = {}
  <2>1. PICK x : x = "exit"
    OBVIOUS
  <2>2. u = [v EXCEPT !.outcome = x]
    BY <1>1, <2>1 DEF Concluded
  <2>3. LoopPart(u, v, v.rules, v.asked, v.served, x)
    BY <2>2, LoopParts DEF Sound
  <2> QED
    BY <1>1, <2>1, <2>3, SoundMatter DEF LoopPart
<1>2. CASE v.asked # {}
  <2>1. u = v
    BY <1>2 DEF Concluded
  <2> QED
    BY <1>2, <2>1 DEF SameMatter, SameFd
<1> QED
  BY <1>1, <1>2

LEMMA SetUpResult ==
    ASSUME SocketAssumption, ShortStreams, NEW w, NEW o, NEW r, Sound(w, o, r),
           w.rules \in RuleLists, NEW u, u = Rules!SetUp(w)
    PROVE  Sound(u, o, r) /\ SameMatter(u, w) /\ SetUpTo(u, w)
<1>1. PICK none, nobody : none = <<>> /\ nobody = {}
  OBVIOUS
<1>2. PICK start : start = [w EXCEPT !.rules = <<>>, !.asked = {}]
  OBVIOUS
<1>3. /\ Sound(start, o, r) /\ SameMatter(start, w) /\ SameService(start, w)
      /\ start.rules = none /\ start.asked = nobody
  <2>1. PICK a : a = [w EXCEPT !.rules = none]
    OBVIOUS
  <2>2. LoopPart(a, w, none, w.asked, w.served, w.outcome)
    BY <2>1, LoopParts DEF Sound
  <2>3. IsWorld(a)
    BY <2>2 DEF LoopPart
  <2>4. PICK b : b = [a EXCEPT !.asked = nobody]
    OBVIOUS
  <2>5. LoopPart(b, a, a.rules, nobody, a.served, a.outcome)
    BY <2>4, <2>3, LoopParts
  <2>6. start = b
    BY <1>1, <1>2, <2>1, <2>4
  <2>7. SameMatter(b, w)
    BY <2>2, <2>5, MatterOn DEF LoopPart
  <2>8. Sound(b, o, r)
    BY <2>5, <2>7, SoundMatter DEF LoopPart
  <2> QED
    BY <2>2, <2>5, <2>6, <2>7, <2>8 DEF LoopPart, SameService
<1>4. PICK v1 : v1 = Rules!SetUpRule(start, 1)
  OBVIOUS
<1>5. /\ Sound(v1, o, r) /\ SameMatter(v1, w) /\ SameService(v1, w)
      /\ v1.rules = <<1>> /\ Interested(v1, w)
  <2>1. PICK q \in {1, 2, 3} : q = 1
    OBVIOUS
  <2>2. v1 = Rules!SetUpRule(start, q)
    BY <1>4, <2>1
  <2>3. Sound(v1, o, r) /\ SameMatter(v1, start) /\ SameService(v1, start) /\ AskedOf(v1, start, q)
    BY <1>3, <2>2, SetUpRuleResult
  <2>4. Interest(1, start) <=> Interest(1, w)
    BY <1>3, <2>1, InterestSame
  <2>5. v1.rules = Append(none, 1)
        /\ v1.asked = (IF Interest(1, start) THEN nobody \cup {1} ELSE nobody)
    BY <1>3, <2>1, <2>3 DEF AskedOf
  <2>6. v1.rules = <<1>>
    BY <1>1, <2>5, RuleAppended
  <2>7. Interested(v1, w)
    BY <1>1, <2>4, <2>5 DEF Interested
  <2>8. SameMatter(v1, w)
    BY <1>3, <2>3, MatterOn
  <2> QED
    BY <1>3, <2>3, <2>6, <2>7, <2>8 DEF SameService
<1>6. PICK v2 : v2 = IF HasSecond(w.rules) THEN Rules!SetUpRule(v1, 2) ELSE v1
  OBVIOUS
<1>7. /\ Sound(v2, o, r) /\ SameMatter(v2, w) /\ SameService(v2, w)
      /\ v2.rules \in {<<1>>, <<1, 2>>} /\ Interested(v2, w)
  <2>1. CASE HasSecond(w.rules)
    <3>1. PICK q \in {2, 3} : q = 2
      OBVIOUS
    <3>2. v2 = Rules!SetUpRule(v1, q) /\ q \in {1, 2, 3}
      BY <1>6, <2>1, <3>1
    <3>3. Sound(v2, o, r) /\ SameMatter(v2, v1) /\ SameService(v2, v1) /\ AskedOf(v2, v1, q)
      BY <1>5, <3>2, SetUpRuleResult
    <3>4. Interested(v2, w)
      BY <1>5, <3>3, InterestedOn
    <3>5. v2.rules = Append(<<1>>, 2) \/ v2.rules = <<1>>
      BY <1>5, <3>1, <3>3 DEF AskedOf
    <3>6. SameMatter(v2, w)
      BY <1>5, <3>3, MatterOn
    <3> QED
      BY <1>5, <3>3, <3>4, <3>5, <3>6, RuleAppended DEF SameService
  <2>2. CASE ~HasSecond(w.rules)
    BY <1>5, <1>6, <2>2
  <2> QED
    BY <2>1, <2>2
<1>8. PICK v3 : v3 = IF HasThird(w.rules) THEN Rules!SetUpRule(v2, 3) ELSE v2
  OBVIOUS
<1>9. /\ Sound(v3, o, r) /\ SameMatter(v3, w) /\ SameService(v3, w)
      /\ v3.rules \in RuleLists /\ Interested(v3, w)
      /\ HasThird(v3.rules) <=> HasThird(w.rules)
      /\ HasThird(w.rules) /\ Interest(3, w) => 3 \in v3.asked
  <2>1. CASE HasThird(w.rules)
    <3>1. PICK q \in {2, 3} : q = 3
      OBVIOUS
    <3>2. v3 = Rules!SetUpRule(v2, q) /\ q \in {1, 2, 3}
      BY <1>8, <2>1, <3>1
    <3>3. Sound(v3, o, r) /\ SameMatter(v3, v2) /\ SameService(v3, v2) /\ AskedOf(v3, v2, q)
      BY <1>7, <3>2, SetUpRuleResult
    <3>4. Interested(v3, w)
      BY <1>7, <3>3, InterestedOn
    <3>5. v3.rules = Append(v2.rules, q)
      BY <3>1, <3>3 DEF AskedOf
    <3>6. Interest(q, w) => q \in v3.asked
      BY <1>7, <3>3, <3>5, InterestedOn
    <3>7. v3.rules = <<1, 3>> \/ v3.rules = <<1, 2, 3>>
      BY <1>7, <3>1, <3>5, RuleAppended
    <3>8. v3.rules \in RuleLists /\ HasThird(v3.rules)
      BY <3>7 DEF RuleLists, HasThird
    <3>9. SameMatter(v3, w)
      BY <1>7, <3>3, MatterOn
    <3> QED
      BY <1>7, <2>1, <3>1, <3>3, <3>4, <3>6, <3>8, <3>9 DEF SameService
  <2>2. CASE ~HasThird(w.rules)
    <3>1. v3 = v2
      BY <1>8, <2>2
    <3>2. v2.rules \in RuleLists /\ ~HasThird(v2.rules)
      BY <1>7, RuleListFacts DEF RuleLists
    <3> QED
      BY <1>7, <2>2, <3>1, <3>2
  <2> QED
    BY <2>1, <2>2
<1>10. u = Concluded(v3)
  BY <1>2, <1>4, <1>6, <1>8, QuestionsUnrolled
<1>11. /\ Sound(u, o, r) /\ SameMatter(u, v3) /\ u.rules = v3.rules /\ u.asked = v3.asked
       /\ u.served = v3.served
       /\ u.outcome = IF v3.asked = {} THEN "exit" ELSE v3.outcome
  BY <1>9, <1>10, ConcludedResult
<1>12. SameMatter(u, w)
  BY <1>9, <1>11, MatterOn
<1>13. SetUpTo(u, w)
  BY <1>9, <1>11 DEF SetUpTo, Interested, SameService
<1> QED
  BY <1>11, <1>12, <1>13

-----------------------------------------------------------------------------
(* The thread's place in its program, the owner, and what is left behind.   *)
Phases == {"new", "connecting", "listening", "using", "waiting", "destroying", "done"}

Owners == [phase : Phases, written : Nat, read : Nat, closed : BOOLEAN, abort : BOOLEAN]

IsOpening(o) == o.phase \in {"connecting", "listening"}

Flags(place, w, o) ==
    /\ place \in {"poll", "serve", "left", "ended"}
    /\ "In" \in w.ownerShut /\ place # "ended" => Stopped(o)
    /\ o.phase = "new" => place = "poll" /\ ~HasErrors(w.peer)
    /\ place = "ended" => ~IsOpening(o)

(* If the loop is over and nobody has aborted it, so is the connection, and *)
(* what it received has been passed on.                                     *)
Over(place, w, o) ==
    /\ place \in {"left", "ended"} /\ ~IsOpening(o) /\ ~o.abort /\ w.outcome = "running"
    /\ ~HasErrors(w.peer)
    => /\ ~Active(w.peer)
       /\ Stopped(o) \/ Inbound(w.peer).queue = <<>>

Standing(w, place, told, o, r) ==
    /\ o \in Owners /\ Steady(w, o, r) /\ Fate(w, o)
    /\ place = "serve" => ToldTruly(w, o, told)
    /\ Flags(place, w, o) /\ Over(place, w, o)

Inv == Standing(world, pc, revents, owner, remote)

-----------------------------------------------------------------------------
(* The owner or the other side does something while the thread goes on: it  *)
(* takes nothing away that poll has reported.                               *)
Aside(u, w) ==
    /\ u.rules = w.rules /\ u.asked = w.asked /\ u.served = w.served /\ u.outcome = w.outcome
    /\ u.peer = w.peer /\ u.fd = w.fd
    /\ u.outbound_shutdown = w.outbound_shutdown /\ u.inbound_shutdown = w.inbound_shutdown
    /\ w.tun # <<>> => u.tun # <<>>
    /\ w.toThread # <<>> => u.toThread # <<>>
    /\ "Out" \in w.ownerShut => "Out" \in u.ownerShut
    /\ w.broken => u.broken

LEMMA AsideStands ==
    ASSUME NEW w, NEW place, NEW told, NEW o, NEW r, Standing(w, place, told, o, r),
           NEW u, NEW p \in Owners, NEW s, Sound(u, p, s), Aside(u, w),
           Stopped(o) => Stopped(p), IsOpening(o) => IsOpening(p), o.abort => p.abort,
           "In" \in u.ownerShut => "In" \in w.ownerShut \/ Stopped(p),
           IsOpening(p) => place # "ended", p.phase # "new" \/ o.phase = "new"
    PROVE  Standing(u, place, told, p, s)
<1>1. PassedOn(w, o) => PassedOn(u, p)
  BY DEF PassedOn, Aside
<1>2. Steady(u, p, s)
  BY <1>1 DEF Standing, Steady, Aside
<1>3. Fate(u, p)
  BY DEF Standing, Fate, Aside
<1>4. ToldTruly(w, o, told) => ToldTruly(u, p, told)
  <2>1. TunTold(w, told[1]) => TunTold(u, told[1])
    BY DEF TunTold, Aside
  <2>2. WantsOwnersBytes(w) <=> WantsOwnersBytes(u)
    BY DEF WantsOwnersBytes, Aside
  <2>3. OwnerTold(w, told[2]) => OwnerTold(u, told[2])
    BY <2>2 DEF OwnerTold, Aside
  <2>4. PassTold(w, o, told[3]) => PassTold(u, p, told[3])
    BY DEF PassTold, Aside
  <2> QED
    BY <2>1, <2>3, <2>4 DEF ToldTruly, Aside
<1>5. Flags(place, u, p)
  BY DEF Standing, Flags, Aside
<1>6. Over(place, u, p)
  BY DEF Standing, Over, Aside
<1> QED
  BY <1>2, <1>3, <1>4, <1>5, <1>6 DEF Standing

(* The world is sound after it, if the bytes are conserved and the ends are *)
(* what they were.                                                          *)
LEMMA AsideSound ==
    ASSUME NEW w, NEW o, NEW r, Sound(w, o, r),
           NEW u, IsWorld(u), Aside(u, w), u.tun = w.tun, u.wire = w.wire,
           NEW p, Conserved(u, p), u.broken => p.closed,
           "Out" \in w.ownerShut => u.toThread = w.toThread, Adapted(u)
    PROVE  Sound(u, p, r)
<1>1. PICK X, T, W, E : /\ X = w.peer /\ T = ToUs(w.tun) /\ W = ToThem(w.wire) /\ E = Faulty(w, r)
                        /\ Connected(X, r, T, W, LocalWay, RemoteWay, E)
  BY DEF Sound, Wired
<1>2. Faulty(w, r) => Faulty(u, r)
  BY DEF Faulty, Aside
<1>3. PICK F : F = Faulty(u, r)
  OBVIOUS
<1>4. Connected(X, r, T, W, LocalWay, RemoteWay, F)
  BY <1>1, <1>2, <1>3, ConnectedFewer
<1>5. Connected(u.peer, r, ToUs(u.tun), ToThem(u.wire), LocalWay, RemoteWay, Faulty(u, r))
  BY <1>1, <1>3, <1>4 DEF Aside
<1>6. Wired(u, r)
  BY <1>5 DEF Sound, Wired
<1>7. Ends(u, p)
  <2>1. Ends(w, o)
    BY DEF Sound
  <2> QED
    BY <2>1 DEF Ends, Aside
<1> QED
  BY <1>6, <1>7 DEF Sound

-----------------------------------------------------------------------------
(* The fields that the owner and the network change.                        *)
Untouched(u, w) ==
    /\ IsWorld(u)
    /\ u.rules = w.rules /\ u.asked = w.asked /\ u.served = w.served /\ u.outcome = w.outcome
    /\ u.peer = w.peer /\ u.adapter = w.adapter /\ u.fd = w.fd
    /\ u.outbound_shutdown = w.outbound_shutdown /\ u.inbound_shutdown = w.inbound_shutdown

Piped(u, w, toThread, toOwner, ownerShut, broken) ==
    /\ Untouched(u, w) /\ u.tun = w.tun /\ u.wire = w.wire
    /\ u.toThread = toThread /\ u.toOwner = toOwner
    /\ u.ownerShut = ownerShut /\ u.broken = broken

LEMMA PipeParts ==
    ASSUME NEW w, IsWorld(w), NEW x
    PROVE  /\ Piped([w EXCEPT !.toThread = x], w, x, w.toOwner, w.ownerShut, w.broken)
           /\ Piped([w EXCEPT !.toOwner = x], w, w.toThread, x, w.ownerShut, w.broken)
           /\ Piped([w EXCEPT !.ownerShut = x], w, w.toThread, w.toOwner, x, w.broken)
<1>1. PICK a : a = [w EXCEPT !.toThread = x]
  OBVIOUS
<1>2. Piped(a, w, x, w.toOwner, w.ownerShut, w.broken)
  BY <1>1 DEF IsWorld, Piped, Untouched
<1>3. PICK b : b = [w EXCEPT !.toOwner = x]
  OBVIOUS
<1>4. Piped(b, w, w.toThread, x, w.ownerShut, w.broken)
  BY <1>3 DEF IsWorld, Piped, Untouched
<1>5. PICK c : c = [w EXCEPT !.ownerShut = x]
  OBVIOUS
<1>6. Piped(c, w, w.toThread, w.toOwner, x, w.broken)
  BY <1>5 DEF IsWorld, Piped, Untouched
<1> QED
  BY <1>1, <1>2, <1>3, <1>4, <1>5, <1>6

LEMMA ClosedParts ==
    ASSUME NEW w, IsWorld(w), NEW x, NEW y, NEW u, u = [w EXCEPT !.ownerShut = x, !.broken = y]
    PROVE  Piped(u, w, w.toThread, w.toOwner, x, y)
<1>1. PICK c : c = [w EXCEPT !.ownerShut = x]
  OBVIOUS
<1>2. Piped(c, w, w.toThread, w.toOwner, x, w.broken)
  BY <1>1, PipeParts
<1>3. u = [c EXCEPT !.broken = y]
  BY <1>1
<1>4. Piped(u, c, c.toThread, c.toOwner, c.ownerShut, y)
  BY <1>2, <1>3 DEF IsWorld, Piped, Untouched
<1> QED
  BY <1>2, <1>4 DEF Piped, Untouched

(* The network's part of it.                                                *)
Rewired(u, w, tun, wire) ==
    /\ Untouched(u, w) /\ SamePipe(u, w) /\ SameFlags(u, w)
    /\ u.tun = tun /\ u.wire = wire

LEMMA TunPart ==
    ASSUME NEW w, IsWorld(w), NEW x, NEW u, u = [w EXCEPT !.tun = x]
    PROVE  Rewired(u, w, x, w.wire)
BY DEF IsWorld, Rewired, Untouched, SamePipe, SameFlags

LEMMA WireParts ==
    ASSUME NEW w, IsWorld(w), NEW x, NEW y, NEW u, u = [w EXCEPT !.wire = y, !.tun = x]
    PROVE  Rewired(u, w, x, y)
BY DEF IsWorld, Rewired, Untouched, SamePipe, SameFlags

(* The owner's record.                                                      *)
LEMMA OwnerParts ==
    ASSUME NEW o \in Owners
    PROVE  /\ \A x \in Phases : LET p == [o EXCEPT !.phase = x]
                                IN  /\ p \in Owners /\ p.phase = x /\ p.written = o.written
                                    /\ p.read = o.read /\ p.closed = o.closed /\ p.abort = o.abort
           /\ LET p == [o EXCEPT !.written = @ + 1]
              IN  /\ p \in Owners /\ p.phase = o.phase /\ p.written = o.written + 1
                  /\ p.read = o.read /\ p.closed = o.closed /\ p.abort = o.abort
           /\ LET p == [o EXCEPT !.read = @ + 1]
              IN  /\ p \in Owners /\ p.phase = o.phase /\ p.written = o.written
                  /\ p.read = o.read + 1 /\ p.closed = o.closed /\ p.abort = o.abort
           /\ LET p == [o EXCEPT !.closed = TRUE]
              IN  /\ p \in Owners /\ p.phase = o.phase /\ p.written = o.written
                  /\ p.read = o.read /\ p.closed /\ p.abort = o.abort
           /\ LET p == [o EXCEPT !.phase = "destroying", !.abort = TRUE]
              IN  /\ p \in Owners /\ p.phase = "destroying" /\ p.written = o.written
                  /\ p.read = o.read /\ p.closed = o.closed /\ p.abort
<1>1. \A x \in Phases : LET p == [o EXCEPT !.phase = x]
                        IN  /\ p \in Owners /\ p.phase = x /\ p.written = o.written
                            /\ p.read = o.read /\ p.closed = o.closed /\ p.abort = o.abort
  BY DEF Owners
<1>2. LET p == [o EXCEPT !.written = @ + 1]
      IN  /\ p \in Owners /\ p.phase = o.phase /\ p.written = o.written + 1
          /\ p.read = o.read /\ p.closed = o.closed /\ p.abort = o.abort
  BY DEF Owners
<1>3. LET p == [o EXCEPT !.read = @ + 1]
      IN  /\ p \in Owners /\ p.phase = o.phase /\ p.written = o.written
          /\ p.read = o.read + 1 /\ p.closed = o.closed /\ p.abort = o.abort
  BY DEF Owners
<1>4. LET p == [o EXCEPT !.closed = TRUE]
      IN  /\ p \in Owners /\ p.phase = o.phase /\ p.written = o.written
          /\ p.read = o.read /\ p.closed /\ p.abort = o.abort
  BY DEF Owners
<1>5. LET p == [o EXCEPT !.phase = "destroying", !.abort = TRUE]
      IN  /\ p \in Owners /\ p.phase = "destroying" /\ p.written = o.written
          /\ p.read = o.read /\ p.closed = o.closed /\ p.abort
  BY DEF Owners, Phases
<1> QED
  BY <1>1, <1>2, <1>3, <1>4, <1>5

(* The owner has used its end of the pair of sockets.                       *)
Used(u, p, w, o, r) ==
    /\ Sound(u, p, r) /\ Aside(u, w) /\ u.ownerShut = w.ownerShut
    /\ p \in Owners /\ p.phase = o.phase /\ p.closed = o.closed /\ p.abort = o.abort

(* What is written, and what is read.                                       *)
LEMMA OwnerWritesResult ==
    ASSUME SocketAssumption, NEW w, NEW o \in Owners, NEW r, Sound(w, o, r),
           "Out" \notin w.ownerShut, o.written < OwnerBytes,
           NEW u, u = [w EXCEPT !.toThread = Append(@, o.written)],
           NEW p, p = [o EXCEPT !.written = @ + 1]
    PROVE  Used(u, p, w, o, r)
<1>1. PICK bytes, n : bytes = w.toThread /\ n = BytesPushed(Outbound(w.peer)) /\ IsRun(bytes, n)
  BY DEF Sound, Conserved
<1>2. n \in Nat /\ Len(bytes) \in Nat /\ n + Len(bytes) = o.written
  <2>1. Body(w.peer)
    <3>1. LocalWay \in Ways /\ RemoteWay \in Ways
      BY SocketAssumption DEF SocketAssumption, Ways, LocalWay, RemoteWay
    <3>2. PICK X, T, W, E : X = w.peer /\ Connected(X, r, T, W, LocalWay, RemoteWay, E)
      BY DEF Sound, Wired
    <3> QED
      BY <3>1, <3>2, ConnectedFacts
  <2>2. n \in Nat
    BY <1>1, <2>1, StreamFacts, SMTT(30) DEF Body
  <2> QED
    BY <1>1, <2>2, LenProperties DEF IsRun, Sound, Conserved
<1>3. PICK c \in Nat : c = o.written /\ c + 1 <= OwnerBytes
  BY DEF Owners, SocketAssumption
<1>4. PICK t : t = Append(bytes, c)
  OBVIOUS
<1>5. IsRun(t, n) /\ Len(t) = Len(bytes) + 1 /\ t # <<>>
  <2>1. bytes \in Seq(Nat)
    BY <1>1 DEF IsRun
  <2>2. t \in Seq(Nat) /\ Len(t) = Len(bytes) + 1
    BY <1>3, <1>4, <2>1
  <2>3. ASSUME NEW j \in 1 .. Len(t) PROVE t[j] = n + j - 1
    <3>1. CASE j \in 1 .. Len(bytes)
      <4>1. t[j] = bytes[j]
        BY <1>4, <2>1, <3>1
      <4> QED
        BY <1>1, <3>1, <4>1 DEF IsRun
    <3>2. CASE j = Len(bytes) + 1
      <4>1. t[j] = c
        BY <1>4, <2>1, <3>2
      <4> QED
        BY <1>2, <1>3, <3>2, <4>1
    <3> QED
      BY <1>2, <2>2, <3>1, <3>2
  <2>4. t # <<>>
    BY <1>2, <2>2
  <2> QED
    BY <2>2, <2>3, <2>4 DEF IsRun
<1>6. u = [w EXCEPT !.toThread = t] /\ IsWorld(w)
  <2>1. IsWorld(w)
    BY DEF Sound
  <2>2. Append(w.toThread, o.written) = t
    BY <1>1, <1>3, <1>4
  <2>3. u = [w EXCEPT !.toThread = Append(w.toThread, o.written)]
    OBVIOUS
  <2>4. PICK x : x = Append(w.toThread, o.written)
    OBVIOUS
  <2>5. u = [w EXCEPT !.toThread = x]
    BY <2>3, <2>4
  <2> QED
    BY <2>1, <2>2, <2>4, <2>5
<1>7. Piped(u, w, t, w.toOwner, w.ownerShut, w.broken)
  <2>1. Piped([w EXCEPT !.toThread = t], w, t, w.toOwner, w.ownerShut, w.broken)
    BY <1>6, PipeParts
  <2> QED
    BY <1>6, <2>1
<1>8. /\ p \in Owners /\ p.phase = o.phase /\ p.written = c + 1
      /\ p.read = o.read /\ p.closed = o.closed /\ p.abort = o.abort
  BY <1>3, OwnerParts
<1>9. Conserved(u, p)
  <2>1. n + Len(t) = c + 1 /\ c + 1 \in 0 .. OwnerBytes
    <3>1. OwnerBytes \in Nat
      BY DEF SocketAssumption
    <3>2. PICK l \in Nat, k \in Nat : l = Len(bytes) /\ k = n /\ k + l = c
      BY <1>2, <1>3
    <3> QED
      BY <1>3, <1>5, <3>1, <3>2, SMTT(30)
  <2> QED
    BY <1>1, <1>5, <1>7, <1>8, <2>1 DEF Conserved, Sound, Piped, Untouched
<1>10. Aside(u, w)
  BY <1>5, <1>7 DEF Aside, Piped, Untouched
<1>11. u.broken => p.closed
  BY <1>7, <1>8 DEF Piped, Sound, Ends
<1>12. Sound(u, p, r)
  <2>1. Adapted(u) /\ IsWorld(u) /\ u.tun = w.tun /\ u.wire = w.wire
        /\ ("Out" \in w.ownerShut => u.toThread = w.toThread)
    BY <1>7 DEF Piped, Untouched, Sound, Adapted
  <2> QED
    BY <1>9, <1>10, <1>11, <2>1, AsideSound
<1> QED
  BY <1>7, <1>8, <1>10, <1>12 DEF Piped, Used

LEMMA OwnerReadsResult ==
    ASSUME NEW w, NEW o \in Owners, NEW r, Sound(w, o, r), w.toOwner # <<>>,
           NEW u, u = [w EXCEPT !.toOwner = Tail(@)],
           NEW p, p = [o EXCEPT !.read = @ + 1]
    PROVE  Used(u, p, w, o, r)
<1>1. PICK bytes : bytes = w.toOwner /\ bytes # <<>> /\ IsRun(bytes, o.read)
  BY DEF Sound, Conserved
<1>2. PICK c \in Nat, l \in Nat : c = o.read /\ l + 1 = Len(bytes)
  <2>1. bytes \in Seq(Nat)
    BY <1>1 DEF IsRun
  <2>2. Len(bytes) \in Nat /\ Len(bytes) # 0
    BY <1>1, <2>1
  <2>3. o.read \in Nat
    BY DEF Owners
  <2>4. PICK c \in Nat : c = o.read
    BY <2>3
  <2>5. PICK n \in Nat : n = Len(bytes) /\ n # 0
    BY <2>2
  <2>6. n - 1 \in Nat /\ (n - 1) + 1 = n
    BY <2>5
  <2> QED
    BY <2>4, <2>5, <2>6
<1>3. PICK t : t = Tail(bytes)
  OBVIOUS
<1>4. IsRun(t, c + 1) /\ Len(t) = l
  <2>1. IsRun(bytes, c) /\ bytes \in Seq(Nat)
    <3>1. IsRun(bytes, c)
      BY <1>1, <1>2
    <3> QED
      BY <3>1 DEF IsRun
  <2>2. t \in Seq(Nat) /\ Len(t) = l
    <3>1. t \in Seq(Nat) /\ Len(t) = Len(bytes) - 1
      BY <1>1, <1>3, <2>1
    <3> QED
      BY <1>2, <3>1
  <2>3. ASSUME NEW j \in 1 .. Len(t) PROVE t[j] = (c + 1) + j - 1
    <3>1. t[j] = bytes[j + 1] /\ j + 1 \in 1 .. Len(bytes) /\ j \in Nat
      BY <1>1, <1>2, <1>3, <2>1, <2>2
    <3>2. bytes[j + 1] = c + (j + 1) - 1
      BY <2>1, <3>1 DEF IsRun
    <3> QED
      BY <3>1, <3>2
  <2> QED
    BY <2>2, <2>3 DEF IsRun
<1>5. IsWorld(w) /\ u = [w EXCEPT !.toOwner = t]
  <2>1. IsWorld(w)
    BY DEF Sound
  <2>2. Tail(w.toOwner) = t
    BY <1>1, <1>3
  <2>3. u = [w EXCEPT !.toOwner = Tail(w.toOwner)]
    OBVIOUS
  <2>4. PICK x : x = Tail(w.toOwner)
    OBVIOUS
  <2>5. u = [w EXCEPT !.toOwner = x]
    BY <2>3, <2>4
  <2> QED
    BY <2>1, <2>2, <2>4, <2>5
<1>6. Piped(u, w, w.toThread, t, w.ownerShut, w.broken)
  BY <1>5, PipeParts
<1>7. /\ p \in Owners /\ p.phase = o.phase /\ p.written = o.written
      /\ p.read = c + 1 /\ p.closed = o.closed /\ p.abort = o.abort
  <2>1. /\ p \in Owners /\ p.phase = o.phase /\ p.written = o.written
        /\ p.read = o.read + 1 /\ p.closed = o.closed /\ p.abort = o.abort
    BY OwnerParts
  <2> QED
    BY <1>2, <2>1
<1>8. Conserved(u, p)
  <2>1. Conserved(w, o) /\ c + Len(bytes) = Inbound(w.peer).popped
    <3>1. Conserved(w, o)
      BY DEF Sound
    <3>2. o.read + Len(w.toOwner) = Inbound(w.peer).popped
      BY <3>1 DEF Conserved
    <3> QED
      BY <1>1, <1>2, <3>1, <3>2
  <2>2. (c + 1) + Len(t) = c + Len(bytes) /\ c + 1 \in Nat
    <3>1. PICK k \in Nat : k = Len(bytes) /\ l + 1 = k
      BY <1>2
    <3> QED
      BY <1>2, <1>4, <3>1
  <2>3. (c + 1) + Len(t) = Inbound(w.peer).popped
    BY <2>1, <2>2
  <2>4. u.peer = w.peer /\ u.toThread = w.toThread /\ u.toOwner = t
    BY <1>6 DEF Piped, Untouched
  <2> QED
    BY <1>4, <1>7, <2>1, <2>2, <2>3, <2>4 DEF Conserved
<1>9. Aside(u, w)
  BY <1>6 DEF Aside, Piped, Untouched
<1>10. u.broken => p.closed
  BY <1>6, <1>7 DEF Piped, Sound, Ends
<1>11. Sound(u, p, r)
  <2>1. Adapted(u) /\ IsWorld(u) /\ u.tun = w.tun /\ u.wire = w.wire
        /\ ("Out" \in w.ownerShut => u.toThread = w.toThread)
    BY <1>6 DEF Piped, Untouched, Sound, Adapted
  <2> QED
    BY <1>8, <1>9, <1>10, <2>1, AsideSound
<1> QED
  BY <1>6, <1>7, <1>9, <1>11 DEF Piped, Used

ShutTo(u, w, p, r, shut) == Sound(u, p, r) /\ Aside(u, w) /\ u.ownerShut = shut

(* The owner, or its thread, shuts down directions of the owner's end; one  *)
(* that is closed may be broken.                                            *)
LEMMA ShutDownResult ==
    ASSUME NEW w, NEW o, NEW r, Sound(w, o, r),
           NEW shut, "Out" \in w.ownerShut => "Out" \in shut, NEW broken, w.broken => broken,
           NEW u, u = [w EXCEPT !.ownerShut = shut, !.broken = broken]
                  \/ (u = [w EXCEPT !.ownerShut = shut] /\ broken = w.broken),
           NEW p, p.written = o.written, p.read = o.read, broken => p.closed
    PROVE  ShutTo(u, w, p, r, shut)
<1>1. Piped(u, w, w.toThread, w.toOwner, shut, broken)
  <2>1. IsWorld(w)
    BY DEF Sound
  <2>2. CASE u = [w EXCEPT !.ownerShut = shut, !.broken = broken]
    BY <2>1, <2>2, ClosedParts
  <2>3. CASE u = [w EXCEPT !.ownerShut = shut] /\ broken = w.broken
    <3>1. Piped([w EXCEPT !.ownerShut = shut], w, w.toThread, w.toOwner, shut, w.broken)
      BY <2>1, PipeParts
    <3> QED
      BY <2>3, <3>1
  <2> QED
    BY <2>2, <2>3
<1>2. Conserved(u, p)
  BY <1>1 DEF Sound, Conserved, Piped, Untouched
<1>3. Aside(u, w)
  BY <1>1 DEF Aside, Piped, Untouched
<1>4. Sound(u, p, r)
  <2>1. Adapted(u) /\ IsWorld(u) /\ u.tun = w.tun /\ u.wire = w.wire
        /\ ("Out" \in w.ownerShut => u.toThread = w.toThread)
    BY <1>1 DEF Piped, Untouched, Sound, Adapted
  <2>2. u.broken => p.closed
    BY <1>1 DEF Piped
  <2> QED
    BY <1>2, <1>3, <2>1, <2>2, AsideSound
<1> QED
  BY <1>1, <1>3, <1>4 DEF Piped, ShutTo

(* listen_and_accept gives the adapter other addresses.                     *)
LEMMA ListenResult ==
    ASSUME NEW w, NEW o, NEW r, Sound(w, o, r),
           NEW u, u = [w EXCEPT !.adapter = NewAdapter(Address(AnyHost, Local.port),
                                                       Address(AnyHost, "0"), TRUE)],
           NEW p, p.written = o.written, p.read = o.read, p.closed = o.closed
    PROVE  Sound(u, p, r) /\ Aside(u, w) /\ u.ownerShut = w.ownerShut
<1>1. PICK a : a = NewAdapter(Address(AnyHost, Local.port), Address(AnyHost, "0"), TRUE)
  OBVIOUS
<1>2. PICK v : v = [w EXCEPT !.adapter = a]
  OBVIOUS
<1>3. /\ IsWorld(v) /\ v.adapter = a /\ v.tun = w.tun /\ v.wire = w.wire
      /\ SamePipe(v, w) /\ SameFlags(v, w) /\ SameLoop(v, w) /\ v.peer = w.peer /\ v.fd = w.fd
  BY <1>2 DEF Sound, IsWorld, SamePipe, SameFlags, SameLoop
<1>4. u = v
  BY <1>1, <1>2
<1>5. Aside(v, w)
  BY <1>3 DEF Aside, SamePipe, SameFlags, SameLoop
<1>6. Adapted(v)
  BY <1>1, <1>3 DEF Adapted
<1>7. Conserved(v, p)
  BY <1>3 DEF Sound, Conserved, SamePipe
<1>8. v.broken => p.closed
  BY <1>3 DEF Sound, Ends, SameFlags
<1>9. Sound(v, p, r)
  BY <1>3, <1>5, <1>6, <1>7, <1>8, AsideSound DEF SamePipe
<1> QED
  BY <1>3, <1>4, <1>5, <1>9 DEF SameFlags

(* The owner's record may change in what nothing depends on.                *)
LEMMA SoundOwner ==
    ASSUME NEW w, NEW o, NEW r, Sound(w, o, r),
           NEW p, p.written = o.written, p.read = o.read, p.closed = o.closed
    PROVE  Sound(w, p, r) /\ Aside(w, w)
<1>1. Conserved(w, p)
  BY DEF Sound, Conserved
<1>2. Ends(w, p)
  BY DEF Sound, Ends
<1>3. Aside(w, w)
  BY DEF Aside
<1> QED
  BY <1>1, <1>2, <1>3 DEF Sound

-----------------------------------------------------------------------------
(* What the owner does with its end of the pair of sockets.                 *)
LEMMA OwnerWritesKeeps ==
    ASSUME SocketAssumption, Inv, OwnerWrites
    PROVE  Inv'
<1>1. owner \in Owners /\ Sound(world, owner, remote)
  BY DEF Inv, Standing, Steady
<1>2. PICK w, o : w = world /\ o = owner
  OBVIOUS
<1>3. PICK u, p : u = world' /\ p = owner'
  OBVIOUS
<1>4. /\ Sound(u, p, remote) /\ Aside(u, w) /\ u.ownerShut = w.ownerShut
      /\ p \in Owners /\ p.phase = o.phase /\ p.closed = o.closed /\ p.abort = o.abort
  <2>1. u = [w EXCEPT !.toThread = Append(@, o.written)] /\ p = [o EXCEPT !.written = @ + 1]
    BY <1>2, <1>3 DEF OwnerWrites
  <2>2. "Out" \notin w.ownerShut /\ o.written < OwnerBytes
    BY <1>2 DEF OwnerWrites
  <2>3. Sound(w, o, remote) /\ o \in Owners
    BY <1>1, <1>2
  <2>4. Used(u, p, w, o, remote)
    BY <2>1, <2>2, <2>3, OwnerWritesResult
  <2> QED
    BY <2>4 DEF Used
<1>5. Standing(w, pc, revents, o, remote)
  BY <1>2 DEF Inv
<1>6. Standing(u, pc, revents, p, remote)
  <2>1. /\ Stopped(o) <=> Stopped(p)
        /\ IsOpening(o) <=> IsOpening(p)
    BY <1>4 DEF Stopped, IsOpening
  <2>2. IsOpening(p) => pc # "ended"
    BY <1>5, <2>1 DEF Standing, Flags
  <2> QED
    BY <1>4, <1>5, <2>1, <2>2, AsideStands
<1> QED
  BY <1>3, <1>6 DEF Inv, OwnerWrites

LEMMA OwnerReadsKeeps ==
    ASSUME Inv, OwnerReads
    PROVE  Inv'
<1>1. owner \in Owners /\ Sound(world, owner, remote)
  BY DEF Inv, Standing, Steady
<1>2. PICK w, o : w = world /\ o = owner
  OBVIOUS
<1>3. PICK u, p : u = world' /\ p = owner'
  OBVIOUS
<1>4. /\ Sound(u, p, remote) /\ Aside(u, w) /\ u.ownerShut = w.ownerShut
      /\ p \in Owners /\ p.phase = o.phase /\ p.closed = o.closed /\ p.abort = o.abort
  <2>1. u = [w EXCEPT !.toOwner = Tail(@)] /\ p = [o EXCEPT !.read = @ + 1]
    BY <1>2, <1>3 DEF OwnerReads
  <2>2. w.toOwner # <<>>
    BY <1>2 DEF OwnerReads
  <2>3. Sound(w, o, remote) /\ o \in Owners
    BY <1>1, <1>2
  <2>4. Used(u, p, w, o, remote)
    BY <2>1, <2>2, <2>3, OwnerReadsResult
  <2> QED
    BY <2>4 DEF Used
<1>5. Standing(w, pc, revents, o, remote)
  BY <1>2 DEF Inv
<1>6. Standing(u, pc, revents, p, remote)
  <2>1. /\ Stopped(o) <=> Stopped(p)
        /\ IsOpening(o) <=> IsOpening(p)
    BY <1>4 DEF Stopped, IsOpening
  <2>2. IsOpening(p) => pc # "ended"
    BY <1>5, <2>1 DEF Standing, Flags
  <2> QED
    BY <1>4, <1>5, <2>1, <2>2, AsideStands
<1> QED
  BY <1>3, <1>6 DEF Inv, OwnerReads

LEMMA OwnerEndsWritingKeeps ==
    ASSUME Inv, OwnerEndsWriting
    PROVE  Inv'
<1>1. PICK w, o, u, shut, broken : /\ w = world /\ o = owner /\ u = world'
                                   /\ shut = world.ownerShut \cup {"Out"} /\ broken = world.broken
  OBVIOUS
<1>2. Standing(w, pc, revents, o, remote) /\ Sound(w, o, remote) /\ o \in Owners
  BY <1>1 DEF Inv, Standing, Steady
<1>3. u = [w EXCEPT !.ownerShut = shut] /\ broken = w.broken
  BY <1>1 DEF OwnerEndsWriting
<1>4. broken => o.closed
  BY <1>2, <1>3 DEF Sound, Ends
<1>5. Sound(u, o, remote) /\ Aside(u, w) /\ u.ownerShut = shut
  <2>1. "Out" \in shut
    BY <1>1
  <2>2. w.broken => broken
    BY <1>3
  <2>3. \/ u = [w EXCEPT !.ownerShut = shut, !.broken = broken]
        \/ (u = [w EXCEPT !.ownerShut = shut] /\ broken = w.broken)
    BY <1>3
  <2>4. ShutTo(u, w, o, remote, shut)
    BY <1>2, <1>3, <1>4, <2>1, <2>2, <2>3, ShutDownResult
  <2> QED
    BY <2>4 DEF ShutTo
<1>6. Standing(u, pc, revents, o, remote)
  <2>1. IsOpening(o) => pc # "ended"
    BY <1>2 DEF Standing, Flags
  <2>2. "In" \in shut => "In" \in w.ownerShut
    BY <1>1
  <2> QED
    BY <1>2, <1>5, <2>1, <2>2, AsideStands
<1> QED
  BY <1>1, <1>6 DEF Inv, OwnerEndsWriting

LEMMA OwnerClosesKeeps ==
    ASSUME Inv, OwnerCloses
    PROVE  Inv'
<1>1. PICK w, o, u, p, shut, broken :
          /\ w = world /\ o = owner /\ u = world' /\ p = owner'
          /\ shut = {"In", "Out"} /\ broken = (world.toOwner # <<>>)
  OBVIOUS
<1>2. Standing(w, pc, revents, o, remote) /\ Sound(w, o, remote) /\ o \in Owners
  BY <1>1 DEF Inv, Standing, Steady
<1>3. u = [w EXCEPT !.ownerShut = shut, !.broken = broken] /\ p = [o EXCEPT !.closed = TRUE]
  BY <1>1 DEF OwnerCloses
<1>4. /\ p \in Owners /\ p.phase = o.phase /\ p.written = o.written
      /\ p.read = o.read /\ p.closed /\ p.abort = o.abort
  BY <1>2, <1>3, OwnerParts
<1>5. ~w.broken /\ o.phase = "using"
  BY <1>1, <1>2 DEF Sound, Ends, OwnerCloses, CanUse
<1>6. Sound(u, p, remote) /\ Aside(u, w) /\ u.ownerShut = shut
  <2>1. "Out" \in shut /\ (w.broken => broken) /\ (broken => p.closed)
    BY <1>1, <1>4, <1>5
  <2>2. ShutTo(u, w, p, remote, shut)
    BY <1>2, <1>3, <1>4, <2>1, ShutDownResult
  <2> QED
    BY <2>2 DEF ShutTo
<1>7. Standing(u, pc, revents, p, remote)
  <2>1. Stopped(p) /\ ~IsOpening(o) /\ ~IsOpening(p)
    BY <1>4, <1>5 DEF Stopped, IsOpening
  <2> QED
    BY <1>2, <1>4, <1>6, <2>1, AsideStands
<1> QED
  BY <1>1, <1>7 DEF Inv, OwnerCloses

LEMMA WaitUntilClosedKeeps ==
    ASSUME Inv, WaitUntilClosed
    PROVE  Inv'
<1>1. PICK w, o, u, p, shut, broken :
          /\ w = world /\ o = owner /\ u = world' /\ p = owner'
          /\ shut = {"In", "Out"} /\ broken = world.broken
  OBVIOUS
<1>2. Standing(w, pc, revents, o, remote) /\ Sound(w, o, remote) /\ o \in Owners
  BY <1>1 DEF Inv, Standing, Steady
<1>3. u = [w EXCEPT !.ownerShut = shut] /\ broken = w.broken
  BY <1>1 DEF WaitUntilClosed
<1>4. /\ p \in Owners /\ p.phase = "waiting" /\ p.written = o.written
      /\ p.read = o.read /\ p.closed = o.closed /\ p.abort = o.abort
  <2>1. PICK x \in Phases : x = "waiting"
    BY DEF Phases
  <2>2. p = [o EXCEPT !.phase = x]
    BY <1>1, <2>1 DEF WaitUntilClosed
  <2> QED
    BY <1>2, <2>1, <2>2, OwnerParts
<1>5. broken => p.closed
  BY <1>2, <1>3, <1>4 DEF Sound, Ends
<1>6. Sound(u, p, remote) /\ Aside(u, w) /\ u.ownerShut = shut
  <2>1. "Out" \in shut
    BY <1>1
  <2>2. w.broken => broken
    BY <1>3
  <2>3. \/ u = [w EXCEPT !.ownerShut = shut, !.broken = broken]
        \/ (u = [w EXCEPT !.ownerShut = shut] /\ broken = w.broken)
    BY <1>3
  <2>4. p.written = o.written /\ p.read = o.read
    BY <1>4
  <2>5. ShutTo(u, w, p, remote, shut)
    BY <1>2, <1>5, <2>1, <2>2, <2>3, <2>4, ShutDownResult
  <2> QED
    BY <2>5 DEF ShutTo
<1>7. Standing(u, pc, revents, p, remote)
  <2>1. Stopped(p) /\ ~IsOpening(o) /\ ~IsOpening(p)
    BY <1>1, <1>4 DEF Stopped, IsOpening, WaitUntilClosed, CanUse
  <2> QED
    BY <1>2, <1>4, <1>6, <2>1, AsideStands
<1> QED
  BY <1>1, <1>7 DEF Inv, WaitUntilClosed

(* The TCPPeer transmits something of its own accord.                       *)
LEMMA TransmitSound ==
    ASSUME NEW w, NEW o, NEW r, Sound(w, o, r), NEW X, X = w.peer,
           NEW T, T = ToUs(w.tun), NEW W, W = ToThem(w.wire), NEW E, E = Faulty(w, r),
           NEW x, Stepped(x, X, r, T, W, LocalWay, RemoteWay, E),
           NEW u, u = Transmit(w, x)
    PROVE  Sound(u, o, r) /\ Onward(u, w) /\ SameLoop(u, w)
<1>1. IsWorld(w) /\ Listed(w.wire) /\ Listed(w.tun) /\ Listed(x.sent) /\ Adapted(w)
  BY DEF Sound, Wired, Stepped
<1>2. /\ IsWorld(u) /\ u.peer = Coarse(x.peer)
      /\ Listed(u.wire) /\ ToThem(u.wire) \subseteq ToThem(w.wire) \cup Items(x.sent)
      /\ SameLoop(u, w) /\ SameFlags(u, w) /\ SamePipe(u, w)
      /\ u.fd = w.fd /\ u.tun = w.tun /\ u.adapter = w.adapter
  BY <1>1, TransmitResult
<1>3. /\ Adapted(u) /\ Listed(u.tun) /\ Items(u.tun) \subseteq Items(w.tun)
      /\ SameFd(u.fd["tun"], w.fd["tun"]) /\ SameFd(u.fd["data"], w.fd["data"])
      /\ u.asked = w.asked
  BY <1>1, <1>2 DEF Adapted, SameFd, SameLoop
<1>4. Stepped(x, w.peer, r, ToUs(w.tun), ToThem(w.wire), LocalWay, RemoteWay, Faulty(w, r))
  OBVIOUS
<1>5. Sound(u, o, r) /\ (u.asked = w.asked => Onward(u, w))
  BY <1>2, <1>3, <1>4, SoundResponse
<1> QED
  BY <1>2, <1>3, <1>5

(* What the owner does without touching the world.                          *)
LEMMA DestroyKeeps ==
    ASSUME Inv, Destroy
    PROVE  Inv'
<1>1. PICK w, o, p : w = world /\ o = owner /\ p = owner'
  OBVIOUS
<1>2. Standing(w, pc, revents, o, remote) /\ Sound(w, o, remote) /\ o \in Owners
  BY <1>1 DEF Inv, Standing, Steady
<1>3. p = [o EXCEPT !.phase = "destroying", !.abort = TRUE] /\ o.phase = "using"
  BY <1>1 DEF Destroy
<1>4. /\ p \in Owners /\ p.phase = "destroying" /\ p.written = o.written
      /\ p.read = o.read /\ p.closed = o.closed /\ p.abort
  BY <1>2, <1>3, OwnerParts
<1>5. Sound(w, p, remote)
  BY <1>2, <1>4, SoundOwner
<1>6. Aside(w, w)
  BY DEF Aside
<1>7. (Stopped(o) => Stopped(p)) /\ ~IsOpening(o) /\ ~IsOpening(p)
  BY <1>3, <1>4 DEF Stopped, IsOpening
<1>8. "In" \in w.ownerShut => "In" \in w.ownerShut \/ Stopped(p)
  OBVIOUS
<1>9. Standing(w, pc, revents, p, remote)
  BY <1>2, <1>4, <1>5, <1>6, <1>7, <1>8, AsideStands
<1> QED
  BY <1>1, <1>9 DEF Inv, Destroy

LEMMA JoinKeeps ==
    ASSUME Inv, Join
    PROVE  Inv'
<1>1. PICK w, o, p : w = world /\ o = owner /\ p = owner'
  OBVIOUS
<1>2. Standing(w, pc, revents, o, remote) /\ Sound(w, o, remote) /\ o \in Owners
  BY <1>1 DEF Inv, Standing, Steady
<1>3. /\ p \in Owners /\ p.phase = "done" /\ p.written = o.written
      /\ p.read = o.read /\ p.closed = o.closed /\ p.abort = o.abort
  <2>1. PICK x \in Phases : x = "done"
    BY DEF Phases
  <2>2. p = [o EXCEPT !.phase = x]
    BY <1>1, <2>1 DEF Join
  <2> QED
    BY <1>2, <2>1, <2>2, OwnerParts
<1>4. Sound(w, p, remote)
  BY <1>2, <1>3, SoundOwner
<1>5. Aside(w, w)
  BY DEF Aside
<1>6. Stopped(p) /\ ~IsOpening(o) /\ ~IsOpening(p)
  BY <1>1, <1>3 DEF Stopped, IsOpening, Join
<1>7. Standing(w, pc, revents, p, remote)
  BY <1>2, <1>3, <1>4, <1>5, <1>6, AsideStands
<1> QED
  BY <1>1, <1>7 DEF Inv, Join

LEMMA ListenKeeps ==
    ASSUME Inv, Listen
    PROVE  Inv'
<1>1. PICK w, o, u, p : w = world /\ o = owner /\ u = world' /\ p = owner'
  OBVIOUS
<1>2. Standing(w, pc, revents, o, remote) /\ Sound(w, o, remote) /\ o \in Owners
  BY <1>1 DEF Inv, Standing, Steady
<1>3. /\ p \in Owners /\ p.phase = "listening" /\ p.written = o.written
      /\ p.read = o.read /\ p.closed = o.closed /\ p.abort = o.abort
  <2>1. PICK x \in Phases : x = "listening"
    BY DEF Phases
  <2>2. p = [o EXCEPT !.phase = x]
    BY <1>1, <2>1 DEF Listen
  <2> QED
    BY <1>2, <2>1, <2>2, OwnerParts
<1>4. u = [w EXCEPT !.adapter = NewAdapter(Address(AnyHost, Local.port),
                                           Address(AnyHost, "0"), TRUE)]
  BY <1>1 DEF Listen
<1>5. Sound(u, p, remote)
  BY <1>2, <1>3, <1>4, ListenResult
<1>6. Aside(u, w)
  BY <1>2, <1>3, <1>4, ListenResult
<1>7. u.ownerShut = w.ownerShut
  BY <1>2, <1>3, <1>4, ListenResult
<1>8. o.phase = "new" /\ pc = "poll"
  BY <1>1, <1>2 DEF Listen, Standing, Flags
<1>9. (Stopped(o) => Stopped(p)) /\ ~IsOpening(o)
  BY <1>3, <1>8 DEF Stopped, IsOpening
<1>10. "In" \in u.ownerShut => "In" \in w.ownerShut \/ Stopped(p)
  BY <1>7
<1>11. Standing(u, pc, revents, p, remote)
  BY <1>2, <1>3, <1>5, <1>6, <1>8, <1>9, <1>10, AsideStands
<1> QED
  BY <1>1, <1>11 DEF Inv, Listen

-----------------------------------------------------------------------------
(* connect: the TCPPeer pushes its SYN.                                     *)
LEMMA ConnectKeeps ==
    ASSUME SocketAssumption, ShortStreams, Inv, Connect
    PROVE  Inv'
<1>1. PICK w, o, u, p : w = world /\ o = owner /\ u = world' /\ p = owner'
  OBVIOUS
<1>2. Standing(w, pc, revents, o, remote) /\ Sound(w, o, remote) /\ o \in Owners
  BY <1>1 DEF Inv, Standing, Steady
<1>3. /\ p \in Owners /\ p.phase = "connecting" /\ p.written = o.written
      /\ p.read = o.read /\ p.closed = o.closed /\ p.abort = o.abort
  <2>1. PICK x \in Phases : x = "connecting"
    BY DEF Phases
  <2>2. p = [o EXCEPT !.phase = x]
    BY <1>1, <2>1 DEF Connect
  <2> QED
    BY <1>2, <2>1, <2>2, OwnerParts, ZenonT(60)
<1>4. o.phase = "new" /\ pc = "poll" /\ ~HasErrors(w.peer)
  BY <1>1, <1>2 DEF Connect, Standing, Flags
<1>5. PICK X, T, W, E : /\ X = w.peer /\ T = ToUs(w.tun) /\ W = ToThem(w.wire) /\ E = Faulty(w, remote)
                        /\ Connected(X, remote, T, W, LocalWay, RemoteWay, E)
  BY <1>2 DEF Sound, Wired
<1>6. PICK x : x = PeerPush(X)
  OBVIOUS
<1>7. Stepped(x, X, remote, T, W, LocalWay, RemoteWay, E)
  <2>1. LocalWay \in Ways /\ RemoteWay \in Ways
    BY WaysOfBoth
  <2>2. ~HasErrors(X)
    BY <1>4, <1>5
  <2> QED
    BY <1>5, <1>6, <2>1, <2>2, ConnectedPush
<1>8. u = Transmit(w, x)
  BY <1>1, <1>5, <1>6 DEF Connect
<1>9. Sound(u, o, remote) /\ Onward(u, w) /\ SameLoop(u, w)
  BY <1>2, <1>5, <1>7, <1>8, TransmitSound
<1>10. Sound(u, p, remote)
  BY <1>3, <1>9, SoundOwner
<1>11. (Stopped(o) => Stopped(p)) /\ IsOpening(p)
  BY <1>3, <1>4 DEF Stopped, IsOpening
<1>12. Standing(u, pc, revents, p, remote)
  <2>1. PassedOn(w, o) => PassedOn(u, p)
    BY <1>9, <1>11 DEF PassedOn, Onward
  <2>2. Steady(u, p, remote)
    BY <1>2, <1>9, <1>10, <2>1 DEF Standing, Steady, SameLoop
  <2>3. Fate(u, p)
    BY <1>2, <1>9, <1>11 DEF Standing, Fate, SameLoop, Onward
  <2>4. Flags(pc, u, p)
    BY <1>2, <1>3, <1>4, <1>9, <1>11 DEF Standing, Flags, Onward
  <2>5. Over(pc, u, p)
    BY <1>4 DEF Over
  <2> QED
    BY <1>3, <1>4, <2>2, <2>3, <2>4, <2>5 DEF Standing
<1> QED
  BY <1>1, <1>12 DEF Inv, Connect

(* connect or listen_and_accept returns.                                    *)
LEMMA OpenedKeeps ==
    ASSUME Inv, Opened
    PROVE  Inv'
<1>1. PICK w, o, p : w = world /\ o = owner /\ p = owner'
  OBVIOUS
<1>2. Standing(w, pc, revents, o, remote) /\ Sound(w, o, remote) /\ o \in Owners
  BY <1>1 DEF Inv, Standing, Steady
<1>3. /\ p \in Owners /\ p.phase = "using" /\ p.written = o.written
      /\ p.read = o.read /\ p.closed = o.closed /\ p.abort = o.abort
  <2>1. PICK x \in Phases : x = "using"
    BY DEF Phases
  <2>2. p = [o EXCEPT !.phase = x]
    BY <1>1, <2>1 DEF Opened
  <2> QED
    BY <1>2, <2>1, <2>2, OwnerParts
<1>4. Sound(w, p, remote)
  BY <1>2, <1>3, SoundOwner
<1>5. IsOpening(o) /\ pc = "left" /\ pc' = "poll"
  BY <1>1 DEF Opened, Opening, IsOpening
<1>6. (Stopped(o) => Stopped(p)) /\ ~IsOpening(p)
  BY <1>3, <1>5 DEF Stopped, IsOpening
<1>7. Standing(w, "poll", revents, p, remote)
  <2>1. Steady(w, p, remote)
    BY <1>2, <1>4, <1>6 DEF Standing, Steady, PassedOn
  <2>2. Fate(w, p)
    BY <1>2, <1>6 DEF Standing, Fate
  <2>3. Flags("poll", w, p)
    BY <1>2, <1>3, <1>5, <1>6 DEF Standing, Flags
  <2>4. Over("poll", w, p)
    BY DEF Over
  <2> QED
    BY <1>3, <2>1, <2>2, <2>3, <2>4 DEF Standing
<1> QED
  BY <1>1, <1>5, <1>7 DEF Inv, Opened

(* The end of the thread.                                                   *)
LEMMA FinishKeeps ==
    ASSUME Inv, Finish
    PROVE  Inv'
<1>1. PICK w, o, u, shut, broken, died :
          /\ w = world /\ o = owner /\ u = world'
          /\ shut = {"In", "Out"} /\ broken = world.broken /\ died = "died"
  OBVIOUS
<1>2. Standing(w, pc, revents, o, remote) /\ Sound(w, o, remote) /\ o \in Owners
  BY <1>1 DEF Inv, Standing, Steady
<1>3. ~IsOpening(o) /\ pc = "left" /\ pc' = "ended" /\ w.outcome = "running"
  BY <1>1 DEF Finish, Opening, IsOpening, Running
<1>4. o.phase # "new"
  BY <1>2, <1>3 DEF Standing, Flags
<1>5. CASE o.closed
  <2>1. u = [w EXCEPT !.outcome = died]
    BY <1>1, <1>5 DEF Finish
  <2>2. LoopPart(u, w, w.rules, w.asked, w.served, died)
    BY <1>2, <2>1, LoopParts DEF Sound
  <2>3. Sound(u, o, remote)
    BY <1>2, <2>2, SoundMatter DEF LoopPart
  <2>4. Steady(u, o, remote)
    BY <1>2, <2>2, <2>3 DEF Standing, Steady, PassedOn, LoopPart, SameMatter
  <2>5. Fate(u, o)
    BY <1>1, <1>5, <2>2 DEF Fate, Stopped, LoopPart
  <2>6. Flags("ended", u, o) /\ Over("ended", u, o)
    BY <1>1, <1>3, <1>4, <2>2 DEF Flags, Over, LoopPart
  <2>7. Standing(u, "ended", revents, o, remote)
    BY <1>2, <2>4, <2>5, <2>6 DEF Standing
  <2> QED
    BY <1>1, <1>3, <2>7 DEF Inv, Finish
<1>6. CASE ~o.closed
  <2>1. u = [w EXCEPT !.ownerShut = shut]
    BY <1>1, <1>6 DEF Finish
  <2>2. /\ "Out" \in shut /\ (w.broken => broken) /\ (broken => o.closed)
        /\ \/ u = [w EXCEPT !.ownerShut = shut, !.broken = broken]
           \/ (u = [w EXCEPT !.ownerShut = shut] /\ broken = w.broken)
    <3>1. "Out" \in shut /\ broken = w.broken
      BY <1>1
    <3>2. w.broken => o.closed
      BY <1>2 DEF Sound, Ends
    <3> QED
      BY <2>1, <3>1, <3>2
  <2>3. ShutTo(u, w, o, remote, shut)
    BY <1>2, <2>2, ShutDownResult
  <2>4. Sound(u, o, remote) /\ Aside(u, w)
    BY <2>3 DEF ShutTo
  <2>5. Steady(u, o, remote)
    BY <1>2, <2>4 DEF Standing, Steady, PassedOn, Aside
  <2>6. Fate(u, o)
    BY <1>2, <2>4 DEF Standing, Fate, Aside
  <2>7. Flags("ended", u, o)
    BY <1>3, <1>4 DEF Flags
  <2>8. Over("ended", u, o)
    BY <1>2, <1>3, <2>4 DEF Standing, Over, Aside
  <2>9. Standing(u, "ended", revents, o, remote)
    BY <1>2, <2>5, <2>6, <2>7, <2>8 DEF Standing
  <2> QED
    BY <1>1, <1>3, <2>9 DEF Inv, Finish
<1> QED
  BY <1>5, <1>6

LEMMA TimeOfTicks ==
    ASSUME NEW p
    PROVE  TickTime(p) \in Nat
<1>1. PICK l \in Nat, i \in Nat : l = LINGER /\ i = InitialRTO
  BY PeerAssumption, SenderAssumption
<1>2. l * i \in Nat
  BY <1>1
<1> QED
  BY <1>1, <1>2 DEF TickTime

-----------------------------------------------------------------------------
(* A round begins.                                                          *)
Preparing(v, w, o, r) ==
    /\ Sound(v, o, r) /\ SameMatter(v, w) /\ SetUpTo(v, w) /\ Steady(v, o, r)

LEMMA PreparedResult ==
    ASSUME SocketAssumption, ShortStreams, NEW w, NEW o, NEW r, Steady(w, o, r),
           NEW v, v = Rules!SetUp(w)
    PROVE  Preparing(v, w, o, r)
<1>1. Sound(v, o, r)
  BY SetUpResult DEF Steady
<1>2. SameMatter(v, w)
  BY SetUpResult DEF Steady
<1>3. SetUpTo(v, w)
  BY SetUpResult DEF Steady
<1>4. Steady(v, o, r)
  BY <1>1, <1>2, <1>3 DEF Steady, SetUpTo, PassedOn, SameMatter
<1> QED
  BY <1>1, <1>2, <1>3, <1>4 DEF Preparing

(* Without interest, nothing is left to be done.                            *)
LEMMA NothingLeft ==
    ASSUME NEW w, NEW o, NEW r, Steady(w, o, r), NEW v, Preparing(v, w, o, r), v.asked = {},
           ~HasErrors(w.peer), StreamIntact(Inbound(w.peer))
    PROVE  ~Active(w.peer) /\ (Stopped(o) \/ Inbound(w.peer).queue = <<>>)
<1>1. ~Active(w.peer)
  BY DEF Preparing, SetUpTo, Interested, Interest, WantsSegments
<1>2. CASE HasThird(w.rules)
  <2>1. ~WantsToPassOn(w)
    BY <1>2 DEF Preparing, SetUpTo, Interest
  <2>2. ~(BytesBuffered(Inbound(w.peer)) > 0)
    BY <2>1 DEF WantsToPassOn
  <2>3. Inbound(w.peer).queue = <<>>
    BY <2>2 DEF BytesBuffered, StreamIntact, Streams
  <2> QED
    BY <1>1, <2>3
<1>3. CASE ~HasThird(w.rules)
  BY <1>1, <1>3 DEF Steady, PassedOn, IsFinished
<1> QED
  BY <1>2, <1>3

(* The loop is left.                                                        *)
LEMMA LeaveKeeps ==
    ASSUME SocketAssumption, ShortStreams, Inv, Leave
    PROVE  Inv'
<1>1. PICK w, o, v, running : /\ w = world /\ o = owner /\ v = Prepared /\ running = "running"
  OBVIOUS
<1>2. /\ Standing(w, pc, revents, o, remote) /\ Steady(w, o, remote) /\ Sound(w, o, remote)
      /\ o \in Owners
  BY <1>1 DEF Inv, Standing, Steady
<1>3. pc = "poll" /\ w.outcome = "running" /\ o.phase # "new"
  BY <1>1 DEF Leave, Looping, Running
<1>4. Preparing(v, w, o, remote)
  <2>1. v = Rules!SetUp(w)
    BY <1>1 DEF Prepared
  <2> QED
    BY <1>2, <2>1, PreparedResult
<1>5. CASE ~Condition
  <2>1. IsOpening(o)
    BY <1>1, <1>5 DEF Condition, IsOpening
  <2>2. world' = w /\ pc' = "left"
    BY <1>1, <1>5 DEF Leave
  <2>3. Flags("left", w, o) /\ Over("left", w, o)
    BY <1>2, <1>3, <2>1 DEF Standing, Flags, Over
  <2>4. Standing(w, "left", revents, o, remote)
    BY <1>2, <2>3 DEF Standing
  <2> QED
    BY <1>1, <2>2, <2>4 DEF Inv, Leave
<1>6. CASE Condition
  <2>1. PICK u : u = [v EXCEPT !.outcome = running]
    OBVIOUS
  <2>2. v.outcome = "exit"
    BY <1>1, <1>6 DEF Leave, MustLeave
  <2>3. v.asked = {}
    BY <1>3, <1>4, <2>2 DEF Preparing, SetUpTo
  <2>4. LoopPart(u, v, v.rules, v.asked, v.served, running)
    BY <1>4, <2>1, LoopParts DEF Preparing, Sound
  <2>5. Sound(u, o, remote)
    BY <1>4, <2>4, SoundMatter DEF LoopPart, Preparing
  <2>6. Steady(u, o, remote)
    BY <1>4, <2>4, <2>5 DEF Preparing, Steady, PassedOn, LoopPart, SameMatter
  <2>7. Fate(u, o)
    BY <1>1, <2>4 DEF Fate, LoopPart
  <2>8. u.peer = w.peer /\ u.ownerShut = w.ownerShut
    BY <1>4, <2>4 DEF Preparing, LoopPart, SameMatter
  <2>9. Flags("left", u, o)
    BY <1>2, <1>3, <2>8 DEF Standing, Flags
  <2>10. Over("left", u, o)
    <3>1. ASSUME ~HasErrors(w.peer)
          PROVE  ~Active(w.peer) /\ (Stopped(o) \/ Inbound(w.peer).queue = <<>>)
      <4>1. StreamIntact(Inbound(w.peer))
        <5>1. LocalWay \in Ways /\ RemoteWay \in Ways
          BY WaysOfBoth
        <5>2. PICK X, T, W, E : X = w.peer /\ Connected(X, remote, T, W, LocalWay, RemoteWay, E)
          BY <1>2 DEF Sound, Wired
        <5>3. Body(X)
          BY <5>1, <5>2, ConnectedFacts
        <5> QED
          BY <5>2, <5>3 DEF Body
      <4> QED
        BY <1>2, <1>4, <2>3, <3>1, <4>1, NothingLeft
    <3> QED
      BY <2>8, <3>1 DEF Over
  <2>11. Standing(u, "left", revents, o, remote)
    BY <1>2, <2>6, <2>7, <2>9, <2>10 DEF Standing
  <2>12. world' = u /\ pc' = "left"
    BY <1>1, <1>6, <2>1 DEF Leave
  <2> QED
    BY <1>1, <2>11, <2>12 DEF Inv, Leave
<1> QED
  BY <1>5, <1>6

(* What poll says is true.                                                  *)
LEMMA RangesOfRules ==
    ASSUME NEW rules \in RuleLists
    PROVE  /\ 1 \in Range(rules)
           /\ HasSecond(rules) => 2 \in Range(rules)
           /\ HasThird(rules) => 3 \in Range(rules)
<1>1. CASE rules = <<1, 2, 3>>
  BY <1>1 DEF Range, HasSecond, HasThird
<1>2. CASE rules = <<1, 2>>
  BY <1>2, RuleListFacts DEF Range, HasSecond, HasThird
<1>3. CASE rules = <<1, 3>>
  BY <1>3, RuleListFacts DEF Range, HasSecond, HasThird
<1>4. CASE rules = <<1>>
  BY <1>4, RuleListFacts DEF Range, HasSecond, HasThird
<1> QED
  BY <1>1, <1>2, <1>3, <1>4 DEF RuleLists

LEMMA TrulyTold ==
    ASSUME Inv, pc = "poll", NEW w, w = world, NEW v, v = Prepared,
           Preparing(v, w, owner, remote), NEW told, told = Told
    PROVE  ToldTruly(v, owner, told)
<1>1. v.rules \in RuleLists
  BY DEF Preparing, SetUpTo
<1>2. \A q \in Range(v.rules) : told[q] = Rules!Revents(v, q, Events(q))
  BY DEF Told
<1>3. Hangs => "Out" \in v.ownerShut /\ (Stopped(owner) \/ v.inbound_shutdown)
  <2>1. "In" \in w.ownerShut => Stopped(owner)
    BY DEF Inv, Standing, Flags
  <2> QED
    BY <2>1 DEF Hangs, Preparing, SameMatter
<1>4. TunTold(v, told[1])
  <2>1. told[1] = Rules!Revents(v, 1, Events(1))
    BY <1>1, <1>2, RangesOfRules
  <2>2. told[1] \subseteq {"ready"} /\ ("ready" \in told[1] => Readable(1))
    BY <2>1 DEF Rules!Revents, Events
  <2>3. Readable(1) => v.tun # <<>>
    BY DEF Readable, Preparing, SameMatter
  <2> QED
    BY <2>2, <2>3 DEF TunTold
<1>5. ASSUME HasSecond(v.rules)
      PROVE  OwnerTold(v, told[2])
  <2>1. told[2] = Rules!Revents(v, 2, Events(2))
    BY <1>1, <1>2, <1>5, RangesOfRules
  <2>2. /\ "err" \in told[2] => world.broken
        /\ "hup" \in told[2] => Hangs
        /\ "ready" \in told[2] => 2 \in v.asked /\ Readable(2)
        /\ 2 \in v.asked /\ Readable(2) => "ready" \in told[2]
    BY <2>1 DEF Rules!Revents, Events
  <2>3. Readable(2) <=> v.toThread # <<>> \/ "Out" \in v.ownerShut
    BY DEF Readable, Preparing, SameMatter
  <2>4. 2 \in v.asked => WantsOwnersBytes(v)
    <3>1. 2 \in v.asked => WantsOwnersBytes(w)
      <4>1. 2 \in v.asked => Interest(2, w)
        BY DEF Preparing, SetUpTo, Interested
      <4>2. Interest(2, w) => WantsOwnersBytes(w)
        BY DEF Interest
      <4> QED
        BY <4>1, <4>2
    <3> QED
      BY <3>1 DEF WantsOwnersBytes, Preparing, SameMatter
  <2>5. world.broken => v.broken
    BY DEF Preparing, SameMatter
  <2> QED
    BY <1>3, <2>2, <2>3, <2>4, <2>5 DEF OwnerTold
<1>6. ASSUME HasThird(v.rules)
      PROVE  PassTold(v, owner, told[3])
  <2>1. told[3] = Rules!Revents(v, 3, Events(3))
    BY <1>1, <1>2, <1>6, RangesOfRules
  <2>2. /\ "err" \in told[3] => world.broken
        /\ "hup" \in told[3] => Hangs
    BY <2>1 DEF Rules!Revents, Events
  <2>3. world.broken => v.broken
    BY DEF Preparing, SameMatter
  <2> QED
    BY <1>3, <2>2, <2>3 DEF PassTold
<1> QED
  BY <1>4, <1>5, <1>6 DEF ToldTruly

(* The thread polls ...                                                     *)
LEMMA PollKeeps ==
    ASSUME SocketAssumption, ShortStreams, Inv, Poll
    PROVE  Inv'
<1>1. PICK w, o, v, told : w = world /\ o = owner /\ v = Prepared /\ told = Told
  OBVIOUS
<1>2. Standing(w, pc, revents, o, remote) /\ Steady(w, o, remote) /\ o \in Owners
  BY <1>1 DEF Inv, Standing
<1>3. /\ pc = "poll" /\ w.outcome = "running" /\ o.phase # "new" /\ v.outcome # "exit"
      /\ world' = v /\ revents' = told /\ pc' = "serve"
  BY <1>1 DEF Poll, CanPoll, Looping, Running, MustLeave
<1>4. Preparing(v, w, o, remote)
  <2>1. v = Rules!SetUp(w)
    BY <1>1 DEF Prepared
  <2> QED
    BY <1>2, <2>1, PreparedResult
<1>5. ToldTruly(v, o, told)
  BY <1>1, <1>3, <1>4, TrulyTold
<1>6. v.outcome = "running"
  BY <1>3, <1>4 DEF Preparing, SetUpTo
<1>7. v.peer = w.peer /\ v.ownerShut = w.ownerShut
  BY <1>4 DEF Preparing, SameMatter
<1>8. Flags("serve", v, o) /\ Over("serve", v, o)
  BY <1>2, <1>3, <1>7 DEF Standing, Flags, Over
<1>9. Standing(v, "serve", told, o, remote)
  BY <1>2, <1>4, <1>5, <1>6, <1>8 DEF Standing, Preparing, Fate
<1> QED
  BY <1>1, <1>3, <1>9 DEF Inv, Poll

(* ... and serves.                                                          *)
LEMMA ServeKeeps ==
    ASSUME SocketAssumption, ShortStreams, Inv, Serve
    PROVE  Inv'
<1>1. PICK w, o, u, told, place : /\ w = world /\ o = owner /\ u = world' /\ told = revents
                                  /\ place = pc'
  OBVIOUS
<1>2. Standing(w, pc, revents, o, remote) /\ Steady(w, o, remote) /\ o \in Owners
  BY <1>1 DEF Inv, Standing
<1>3. /\ pc = "serve" /\ w.outcome = "running" /\ u = Loop!Serve(w, told)
      /\ place = IF o.abort THEN "left" ELSE "poll"
  BY <1>1 DEF Serve, Running
<1>4. ToldTruly(w, o, told) /\ ("In" \in w.ownerShut => Stopped(o)) /\ o.phase # "new"
  BY <1>1, <1>2, <1>3 DEF Standing, Flags
<1>5. Steady(u, o, remote)
  BY <1>2, <1>3, <1>4, ServeResult
<1>6. Fate(u, o)
  BY <1>2, <1>3, <1>4, ServeResult
<1>7. u.ownerShut = w.ownerShut
  BY <1>2, <1>3, <1>4, ServeResult
<1>8. Flags(place, u, o) /\ Over(place, u, o)
  BY <1>3, <1>4, <1>7 DEF Flags, Over
<1>9. Standing(u, place, revents', o, remote)
  BY <1>2, <1>3, <1>5, <1>6, <1>8 DEF Standing
<1> QED
  BY <1>1, <1>9 DEF Inv, Serve

(* Or time passes.                                                          *)
LEMMA TimeoutKeeps ==
    ASSUME SocketAssumption, ShortStreams, Inv, Timeout
    PROVE  Inv'
<1>1. PICK w, o, v, nobody : w = world /\ o = owner /\ v = Prepared /\ nobody = {}
  OBVIOUS
<1>2. Standing(w, pc, revents, o, remote) /\ Steady(w, o, remote) /\ o \in Owners
  BY <1>1 DEF Inv, Standing
<1>3. /\ pc = "poll" /\ w.outcome = "running" /\ o.phase # "new" /\ v.outcome # "exit"
      /\ o.abort \/ Active(w.peer)
  BY <1>1 DEF Timeout, CanTimeOut, Looping, Running, MustLeave, CanTick
<1>4. Preparing(v, w, o, remote)
  <2>1. v = Rules!SetUp(w)
    BY <1>1 DEF Prepared
  <2> QED
    BY <1>2, <2>1, PreparedResult
<1>5. PICK x : x = [v EXCEPT !.asked = nobody]
  OBVIOUS
<1>6. /\ Steady(x, o, remote) /\ x.outcome = "running" /\ x.peer = w.peer /\ x.ownerShut = w.ownerShut
      /\ Sound(x, o, remote)
  <2>1. LoopPart(x, v, v.rules, nobody, v.served, v.outcome)
    BY <1>4, <1>5, LoopParts DEF Preparing, Sound
  <2>2. Sound(x, o, remote)
    BY <1>4, <2>1, SoundMatter DEF LoopPart, Preparing
  <2>3. Steady(x, o, remote)
    BY <1>4, <2>1, <2>2 DEF Preparing, Steady, PassedOn, LoopPart, SameMatter
  <2>4. v.outcome = "running"
    BY <1>3, <1>4 DEF Preparing, SetUpTo
  <2> QED
    BY <1>4, <2>1, <2>2, <2>3, <2>4 DEF Preparing, LoopPart, SameMatter
<1>7. CASE o.abort
  <2>1. world' = x /\ pc' = "left"
    BY <1>1, <1>5, <1>7 DEF Timeout
  <2>2. Flags("left", x, o) /\ Over("left", x, o)
    BY <1>2, <1>3, <1>6, <1>7 DEF Standing, Flags, Over
  <2>3. Standing(x, "left", revents, o, remote)
    BY <1>2, <1>6, <2>2 DEF Standing, Fate
  <2> QED
    BY <1>1, <2>1, <2>3 DEF Inv, Timeout
<1>8. CASE ~o.abort
  <2>1. PICK u, X, ms, y : /\ u = world' /\ X = w.peer /\ ms = TickTime(w.peer)
                           /\ y = PeerTick(X, ms)
    OBVIOUS
  <2>2. u = Transmit(x, y) /\ pc' = pc
    BY <1>1, <1>5, <1>8, <2>1 DEF Timeout
  <2>3. PICK T, W, E : /\ T = ToUs(x.tun) /\ W = ToThem(x.wire) /\ E = Faulty(x, remote)
                       /\ X = x.peer /\ Connected(X, remote, T, W, LocalWay, RemoteWay, E)
    BY <1>6, <2>1 DEF Sound, Wired
  <2>4. Stepped(y, X, remote, T, W, LocalWay, RemoteWay, E)
    <3>1. LocalWay \in Ways /\ RemoteWay \in Ways
      BY WaysOfBoth
    <3>2. ms \in Nat
      BY <2>1, TimeOfTicks
    <3>3. Active(X)
      BY <1>3, <1>8, <2>1
    <3> QED
      BY <2>1, <2>3, <3>1, <3>2, <3>3, ConnectedTick
  <2>5. Sound(u, o, remote) /\ Onward(u, x) /\ SameLoop(u, x)
    BY <1>6, <2>2, <2>3, <2>4, TransmitSound
  <2>6. PassedOn(x, o) => PassedOn(u, o)
    BY <2>5, PassedOnOn
  <2>7. Steady(u, o, remote)
    BY <1>6, <2>5, <2>6 DEF Steady, SameLoop
  <2>8. Fate(u, o)
    BY <1>6, <2>5 DEF Fate, SameLoop
  <2>9. Flags("poll", u, o) /\ Over("poll", u, o)
    BY <1>2, <1>3, <1>6, <2>5 DEF Standing, Flags, Over, Onward
  <2>10. Standing(u, "poll", revents, o, remote)
    BY <1>2, <2>7, <2>8, <2>9 DEF Standing
  <2> QED
    BY <1>1, <1>3, <2>1, <2>2, <2>10 DEF Inv, Timeout
<1> QED
  BY <1>7, <1>8

-----------------------------------------------------------------------------
(* Coarse time leaves the receiver as it is.                                *)
LEMMA CoarseReceiver ==
    ASSUME NEW p, Shaped(Coarse(p))
    PROVE  Coarse(p).receiver = p.receiver
<1>1. "receiver" \in DOMAIN Coarse(p)
  BY DEF Shaped
<1>2. DOMAIN Coarse(p) = DOMAIN p
  BY DEF Coarse
<1>3. PICK s, i : Coarse(p) = [[p EXCEPT !.sender = s] EXCEPT !.idle = i]
  <2>1. PICK s : s = [p.sender EXCEPT !.timer_elapsed = 0, !.current_RTO = InitialRTO,
                                      !.consecutive_retrans_count = 0]
    OBVIOUS
  <2>2. PICK i : i = Least(p.idle, LINGER * InitialRTO)
    OBVIOUS
  <2> QED
    BY <2>1, <2>2 DEF Coarse
<1> QED
  BY <1>1, <1>2, <1>3

(* The other side's call x of its TCPPeer, after which its owner has read.  *)
ReadUp(x) == [Coarse(x.peer) EXCEPT !.receiver.reassembler.output
                  = StreamPop(@, BytesBuffered(Inbound(x.peer)))]

LEMMA ReadUpResult ==
    ASSUME NEW X, NEW T, NEW W, NEW a \in Ways, NEW b \in Ways, NEW E,
           NEW x, Connected(Coarse(x.peer), X, T, W, a, b, E),
           NEW q, q = ReadUp(x)
    PROVE  /\ Connected(q, X, T, W, a, b, E) /\ Outbound(q) = Outbound(Coarse(x.peer))
           /\ HasErrors(q) <=> HasErrors(Coarse(x.peer))
<1>1. PICK Y : Y = Coarse(x.peer)
  OBVIOUS
<1>2. PICK len \in Nat : len = BytesBuffered(Inbound(x.peer))
  <2>1. Body(Y)
    BY <1>1, ConnectedFacts
  <2>2. Inbound(Y) = Inbound(x.peer)
    BY <1>1, <2>1, CoarseReceiver DEF Body, Inbound
  <2>3. Inbound(x.peer).queue \in Seq(Nat)
    BY <2>1, <2>2 DEF Body, StreamIntact, Streams
  <2> QED
    BY <2>3 DEF BytesBuffered
<1>3. q = [Y EXCEPT !.receiver.reassembler.output = StreamPop(@, len)]
  BY <1>1, <1>2 DEF ReadUp
<1>4. Connected(Y, X, T, W, a, b, E)
  BY <1>1
<1>5. Connected(q, X, T, W, a, b, E)
  BY <1>2, <1>3, <1>4, ConnectedRead
<1>6. Outbound(q) = Outbound(Y)
  BY <1>2, <1>3, <1>4, ConnectedRead
<1>7. Inbound(q) = StreamPop(Inbound(Y), len)
  BY <1>2, <1>3, <1>4, ConnectedRead
<1>8. Inbound(q).error = Inbound(Y).error
  <2>1. StreamIntact(Inbound(Y))
    BY <1>4, ConnectedFacts DEF Body
  <2>2. PICK s, t : s = Inbound(Y) /\ t = StreamPop(s, len) /\ StreamIntact(s)
    BY <2>1
  <2>3. t.error = s.error
    BY <2>2 DEF StreamPop, StreamIntact, Streams
  <2> QED
    BY <1>7, <2>2, <2>3
<1>9. HasErrors(q) <=> HasErrors(Y)
  BY <1>6, <1>8 DEF HasErrors
<1> QED
  BY <1>1, <1>5, <1>6, <1>9

(* What it sends is put into the TUN device.                                *)
LEMMA DatagramsResult ==
    ASSUME NEW from, NEW sent, Listed(sent), NEW out, out = Datagrams(from, sent)
    PROVE  /\ Listed(out)
           /\ \A d \in Items(out) : d.src = from /\ d.dst = Local /\ d.msg \in Items(sent)
<1>1. PICK S : S = {[src |-> from, dst |-> Local, msg |-> m] : m \in Items(sent)}
  OBVIOUS
<1>2. PICK l \in Nat : DOMAIN sent = 1 .. l /\ \A k \in 1 .. l : sent[k] \in Items(sent)
  BY LenProperties DEF Listed, Items
<1>3. out \in Seq(S)
  BY <1>1, <1>2 DEF Datagrams
<1>4. Listed(out) /\ Items(out) \subseteq S
  BY <1>3, ListOf
<1> QED
  BY <1>1, <1>4

LEMMA ArrivesResult ==
    ASSUME NEW tun, Listed(tun), \A d \in Items(tun) : d.dst = Local /\ (d.src = Remote \/ IsStray(d)),
           NEW sent, Listed(sent), NEW new, new = tun \o Datagrams(Remote, sent)
    PROVE  /\ Listed(new) /\ ToUs(new) \subseteq ToUs(tun) \cup Items(sent)
           /\ \A d \in Items(new) : d.dst = Local /\ (d.src = Remote \/ IsStray(d))
           /\ tun # <<>> => new # <<>>
<1>1. PICK out : out = Datagrams(Remote, sent)
  OBVIOUS
<1>2. /\ Listed(out)
      /\ \A d \in Items(out) : d.src = Remote /\ d.dst = Local /\ d.msg \in Items(sent)
  BY <1>1, DatagramsResult
<1>3. Listed(new) /\ Items(new) \subseteq Items(tun) \cup Items(out)
  BY <1>1, <1>2, ListConcat
<1>4. Len(tun) \in Nat /\ Len(out) \in Nat /\ Len(new) = Len(tun) + Len(out)
  BY <1>1, <1>2, ListConcat
<1>5. tun # <<>> => new # <<>>
  <2>1. new = <<>> => Len(new) = 0
    OBVIOUS
  <2>2. Len(tun) = 0 => tun = <<>>
    BY DEF Listed
  <2> QED
    BY <1>4, <2>1, <2>2
<1>6. ToUs(new) \subseteq ToUs(tun) \cup Items(sent)
  BY <1>2, <1>3 DEF ToUs
<1>7. \A d \in Items(new) : d.dst = Local /\ (d.src = Remote \/ IsStray(d))
  BY <1>2, <1>3
<1> QED
  BY <1>3, <1>5, <1>6, <1>7

LEMMA RemoteStepSound ==
    ASSUME SocketAssumption, ShortStreams, NEW w, NEW o, NEW r, Sound(w, o, r),
           NEW X, X = w.peer, NEW T, T = ToUs(w.tun), NEW W, W = ToThem(w.wire),
           NEW x, Listed(x.sent), NEW E,
           Connected(Coarse(x.peer), X, W, T \cup Items(x.sent), RemoteWay, LocalWay, E),
           HasErrors(Coarse(x.peer)) => Outbound(Coarse(x.peer)).error,
           E => Outbound(Coarse(x.peer)).error \/ w.broken,
           NEW wire, Listed(wire), Items(wire) \subseteq Items(w.wire),
           NEW u, u = [w EXCEPT !.wire = wire, !.tun = @ \o Datagrams(Remote, x.sent)],
           NEW q, q = ReadUp(x)
    PROVE  ShutTo(u, w, o, q, w.ownerShut)
<1>1. LocalWay \in Ways /\ RemoteWay \in Ways
  BY WaysOfBoth
<1>2. PICK sent, tun, new : sent = x.sent /\ tun = w.tun /\ new = tun \o Datagrams(Remote, sent)
  OBVIOUS
<1>3. IsWorld(w) /\ Wired(w, r) /\ Conserved(w, o) /\ Ends(w, o) /\ Adapted(w)
  BY DEF Sound
<1>4. /\ Listed(new) /\ ToUs(new) \subseteq T \cup Items(sent)
      /\ \A d \in Items(new) : d.dst = Local /\ (d.src = Remote \/ IsStray(d))
      /\ tun # <<>> => new # <<>>
  <2>1. Listed(tun) /\ \A d \in Items(tun) : d.dst = Local /\ (d.src = Remote \/ IsStray(d))
    BY <1>2, <1>3 DEF Wired
  <2>2. Listed(sent) /\ T = ToUs(tun)
    BY <1>2
  <2>3. Listed(new) /\ ToUs(new) \subseteq ToUs(tun) \cup Items(sent)
    BY <1>2, <2>1, <2>2, ArrivesResult
  <2>4. \A d \in Items(new) : d.dst = Local /\ (d.src = Remote \/ IsStray(d))
    BY <1>2, <2>1, <2>2, ArrivesResult, ZenonT(60)
  <2>5. tun # <<>> => new # <<>>
    BY <1>2, <2>1, <2>2, ArrivesResult
  <2> QED
    BY <2>2, <2>3, <2>4, <2>5
<1>5. /\ Untouched(u, w) /\ SamePipe(u, w) /\ SameFlags(u, w) /\ u.tun = new /\ u.wire = wire
  <2>1. u = [w EXCEPT !.wire = wire, !.tun = new]
    BY <1>2
  <2>2. Rewired(u, w, new, wire)
    BY <1>3, <2>1, WireParts
  <2> QED
    BY <2>2 DEF Rewired
<1>6. PICK S : S = Items(sent)
  OBVIOUS
<1>7. PICK F : F = Faulty(u, q)
  OBVIOUS
<1>8. /\ Connected(q, X, W, T \cup S, RemoteWay, LocalWay, E)
      /\ Outbound(q) = Outbound(Coarse(x.peer))
      /\ HasErrors(q) <=> HasErrors(Coarse(x.peer))
  <2>1. PICK TS : TS = T \cup S
    OBVIOUS
  <2>2. Connected(Coarse(x.peer), X, W, TS, RemoteWay, LocalWay, E)
    BY <1>2, <1>6, <2>1
  <2>3. Connected(q, X, W, TS, RemoteWay, LocalWay, E)
    BY <1>1, <2>2, ReadUpResult
  <2>4. Outbound(q) = Outbound(Coarse(x.peer))
    BY <1>1, <2>2, ReadUpResult
  <2>5. HasErrors(q) <=> HasErrors(Coarse(x.peer))
    BY <1>1, <2>2, ReadUpResult
  <2> QED
    BY <2>1, <2>3, <2>4, <2>5
<1>9. (E => F) /\ (HasErrors(q) => Outbound(q).error)
  <2>1. F <=> Outbound(q).error \/ u.broken
    BY <1>7 DEF Faulty
  <2>2. u.broken = w.broken
    BY <1>5 DEF SameFlags
  <2> QED
    BY <1>8, <2>1, <2>2
<1>10. Wired(u, q)
  <2>1. Connected(X, q, T \cup S, W, LocalWay, RemoteWay, E)
    BY <1>8, ConnectedTurned
  <2>2. PICK TS, t, v : TS = T \cup S /\ t = ToUs(new) /\ v = ToThem(wire)
    OBVIOUS
  <2>3. t \subseteq TS /\ v \subseteq W
    BY <1>2, <1>4, <1>6, <2>2 DEF ToThem
  <2>4. Connected(X, q, t, v, LocalWay, RemoteWay, F)
    BY <1>9, <2>1, <2>2, <2>3, ConnectedFewer
  <2>5. u.peer = X
    BY <1>5 DEF Untouched
  <2> QED
    BY <1>4, <1>5, <1>7, <1>9, <2>2, <2>4, <2>5 DEF Wired
<1>11. Conserved(u, o)
  BY <1>3, <1>5 DEF Conserved, Untouched, SamePipe
<1>12. Ends(u, o)
  BY <1>3, <1>5 DEF Ends, Untouched, SamePipe, SameFlags
<1>13. Adapted(u)
  BY <1>3, <1>5 DEF Adapted, Untouched
<1>14. Aside(u, w)
  BY <1>2, <1>4, <1>5 DEF Aside, Untouched, SamePipe, SameFlags
<1>15. Sound(u, o, q)
  BY <1>5, <1>10, <1>11, <1>12, <1>13 DEF Sound, Untouched
<1> QED
  BY <1>5, <1>14, <1>15 DEF ShutTo, SameFlags

(* A call of the other side's TCPPeer that leaves the connection in order.  *)
Orderly(x, E) ==
    /\ Connected(Coarse(x.peer), world.peer, ToThem(world.wire), ToUs(world.tun) \cup Items(x.sent),
                 RemoteWay, LocalWay, E)
    /\ Listed(x.sent)
    /\ HasErrors(Coarse(x.peer)) => Outbound(Coarse(x.peer)).error
    /\ E => Outbound(Coarse(x.peer)).error \/ world.broken

LEMMA RemoteStepKeeps ==
    ASSUME SocketAssumption, ShortStreams, Inv, NEW x, NEW wire, RemoteStep(x, wire),
           Listed(wire), Items(wire) \subseteq Items(world.wire), NEW E, Orderly(x, E)
    PROVE  Inv'
<1>1. PICK w, o, u, q, X, T, W :
          /\ w = world /\ o = owner /\ u = world' /\ q = remote'
          /\ X = world.peer /\ T = ToUs(world.tun) /\ W = ToThem(world.wire)
  OBVIOUS
<1>2. Standing(w, pc, revents, o, remote) /\ Sound(w, o, remote) /\ o \in Owners
  BY <1>1 DEF Inv, Standing, Steady
<1>3. /\ X = w.peer /\ T = ToUs(w.tun) /\ W = ToThem(w.wire) /\ Listed(x.sent)
      /\ Connected(Coarse(x.peer), X, W, T \cup Items(x.sent), RemoteWay, LocalWay, E)
      /\ HasErrors(Coarse(x.peer)) => Outbound(Coarse(x.peer)).error
      /\ E => Outbound(Coarse(x.peer)).error \/ w.broken
  BY <1>1 DEF Orderly
<1>4. u = [w EXCEPT !.wire = wire, !.tun = @ \o Datagrams(Remote, x.sent)]
  BY <1>1 DEF RemoteStep
<1>5. q = ReadUp(x)
  BY <1>1 DEF RemoteStep, ReadUp
<1>6. Items(wire) \subseteq Items(w.wire)
  BY <1>1
<1>7. ShutTo(u, w, o, q, w.ownerShut)
  BY <1>2, <1>3, <1>4, <1>5, <1>6, RemoteStepSound
<1>8. Sound(u, o, q) /\ Aside(u, w) /\ u.ownerShut = w.ownerShut
  BY <1>7 DEF ShutTo
<1>9. IsOpening(o) => pc # "ended"
  BY <1>2 DEF Standing, Flags
<1>10. Standing(u, pc, revents, o, q)
  BY <1>2, <1>8, <1>9, AsideStands
<1> QED
  BY <1>1, <1>10 DEF Inv, RemoteStep

(* What is on its way to the other side, seen from there.                   *)
LEMMA SeenFromThere ==
    ASSUME Inv, NEW r, r = remote, NEW X, X = world.peer,
           NEW T, T = ToUs(world.tun), NEW W, W = ToThem(world.wire),
           NEW E, E = Faulty(world, remote)
    PROVE  /\ Connected(r, X, W, T, RemoteWay, LocalWay, E)
           /\ HasErrors(r) => Outbound(r).error
           /\ Listed(world.wire)
<1>1. Wired(world, remote)
  BY DEF Inv, Standing, Steady, Sound
<1>2. Connected(X, r, T, W, LocalWay, RemoteWay, E)
  BY <1>1 DEF Wired
<1>3. Connected(r, X, W, T, RemoteWay, LocalWay, E)
  BY <1>2, ConnectedTurned
<1> QED
  BY <1>1, <1>3 DEF Wired

(* It does something of its own accord.                                     *)
LEMMA OrderlyStep ==
    ASSUME Inv, NEW r, r = remote, NEW X, X = world.peer,
           NEW T, T = ToUs(world.tun), NEW W, W = ToThem(world.wire),
           NEW E, E => Outbound(r).error \/ world.broken,
           NEW x, Stepped(x, r, X, W, T, RemoteWay, LocalWay, E)
    PROVE  Orderly(x, E)
<1>1. Stepped(x, r, X, W, T, RemoteWay, LocalWay, E)
  OBVIOUS
<1>2. HasErrors(r) => Outbound(r).error
  BY DEF Inv, Standing, Steady, Sound, Wired
<1>3. Response(Coarse(x.peer), r)
  BY <1>1 DEF Stepped
<1>4. /\ HasErrors(Coarse(x.peer)) => Outbound(Coarse(x.peer)).error
      /\ E => Outbound(Coarse(x.peer)).error \/ world.broken
  BY <1>2, <1>3 DEF Response
<1> QED
  BY <1>1, <1>4 DEF Orderly, Stepped

LEMMA RemoteConnectsKeeps ==
    ASSUME SocketAssumption, ShortStreams, Inv, RemoteConnects
    PROVE  Inv'
<1>1. PICK r, X, T, W, E : /\ r = remote /\ X = world.peer /\ T = ToUs(world.tun)
                           /\ W = ToThem(world.wire) /\ E = Faulty(world, remote)
  OBVIOUS
<1>2. /\ Connected(r, X, W, T, RemoteWay, LocalWay, E) /\ Listed(world.wire)
      /\ HasErrors(r) => Outbound(r).error
  BY <1>1, SeenFromThere
<1>3. LocalWay \in Ways /\ RemoteWay \in Ways
  BY WaysOfBoth
<1>4. PICK x : x = PeerPush(r)
  OBVIOUS
<1>5. Stepped(x, r, X, W, T, RemoteWay, LocalWay, E)
  BY <1>2, <1>3, <1>4, ConnectedPush
<1>6. Orderly(x, E)
  <2>1. E => Outbound(r).error \/ world.broken
    BY <1>1 DEF Faulty
  <2> QED
    BY <1>1, <1>5, <2>1, OrderlyStep
<1>7. RemoteStep(x, world.wire)
  BY <1>1, <1>4 DEF RemoteConnects
<1> QED
  BY <1>2, <1>6, <1>7, RemoteStepKeeps

LEMMA RemoteTicksKeeps ==
    ASSUME SocketAssumption, ShortStreams, Inv, RemoteTicks
    PROVE  Inv'
<1>1. PICK r, X, T, W, E : /\ r = remote /\ X = world.peer /\ T = ToUs(world.tun)
                           /\ W = ToThem(world.wire) /\ E = Faulty(world, remote)
  OBVIOUS
<1>2. /\ Connected(r, X, W, T, RemoteWay, LocalWay, E) /\ Listed(world.wire)
  BY <1>1, SeenFromThere
<1>3. LocalWay \in Ways /\ RemoteWay \in Ways
  BY WaysOfBoth
<1>4. PICK ms \in Nat : ms = TickTime(r)
  BY TimeOfTicks
<1>5. PICK x : x = PeerTick(r, ms)
  OBVIOUS
<1>6. Active(r)
  BY <1>1 DEF RemoteTicks, CanTick
<1>7. Stepped(x, r, X, W, T, RemoteWay, LocalWay, E)
  BY <1>2, <1>3, <1>5, <1>6, ConnectedTick
<1>8. Orderly(x, E)
  <2>1. E => Outbound(r).error \/ world.broken
    BY <1>1 DEF Faulty
  <2> QED
    BY <1>1, <1>7, <2>1, OrderlyStep
<1>9. RemoteStep(x, world.wire)
  BY <1>1, <1>4, <1>5 DEF RemoteTicks
<1> QED
  BY <1>2, <1>8, <1>9, RemoteStepKeeps

(* A call that does nothing.                                                *)
LEMMA ConnectedIdle ==
    ASSUME NEW X, NEW R, NEW T, NEW W, NEW a \in Ways, NEW b \in Ways, NEW E,
           Connected(X, R, T, W, a, b, E), HasErrors(X) => Outbound(X).error,
           NEW x, x = PeerResult(X, <<>>)
    PROVE  Stepped(x, X, R, T, W, a, b, E)
<1>1. x.peer = X /\ x.sent = <<>>
  BY DEF PeerResult
<1>2. Listed(x.sent) /\ Items(x.sent) = {}
  <2>1. <<>> \in Seq({}) /\ Items(<<>>) = {}
    BY DEF Items
  <2> QED
    BY <1>1, <2>1, ListOf
<1>3. CASE HasErrors(X)
  <2>1. E /\ Body(X)
    BY <1>3, ConnectedFacts DEF Connected
  <2>2. Resets(x, X)
    BY <1>1, <1>2, <2>1 DEF Resets
  <2>3. Outbound(X).error
    BY <1>3
  <2> QED
    BY <2>1, <2>2, <2>3, SteppedStill
<1>4. CASE ~HasErrors(X)
  <2>1. PICK P, Q, np, nq : Bound(P, Q, np, nq, X, R, T, W, a, b)
    BY DEF Connected
  <2>2. Joined(X, Q, np, nq, a, b)
    BY <1>4, <2>1 DEF Bound, Mirrors
  <2>3. nq \cup Items(x.sent) = nq
    BY <1>2
  <2>4. Joined(x.peer, Q, np, nq \cup Items(x.sent), a, b)
    BY <1>1, <2>2, <2>3
  <2>5. Along(x.peer, X)
    BY <1>1 DEF Along, WrittenAlike, Filled
  <2> QED
    BY <1>2, <1>4, <2>1, <2>4, <2>5, SteppedOn
<1> QED
  BY <1>3, <1>4

LEMMA RemoteHearsKeeps ==
    ASSUME SocketAssumption, ShortStreams, Inv, RemoteHears
    PROVE  Inv'
<1>1. PICK r, X, T, W, E : /\ r = remote /\ X = world.peer /\ T = ToUs(world.tun)
                           /\ W = ToThem(world.wire) /\ E = Faulty(world, remote)
  OBVIOUS
<1>2. /\ Connected(r, X, W, T, RemoteWay, LocalWay, E) /\ Listed(world.wire)
      /\ HasErrors(r) => Outbound(r).error
  BY <1>1, SeenFromThere
<1>3. LocalWay \in Ways /\ RemoteWay \in Ways /\ 2 * (LocalWay.length + 2) < CYCLE
  BY WaysOfBoth
<1>4. PICK datagram, rest : datagram = Head(world.wire) /\ rest = Tail(world.wire)
  OBVIOUS
<1>5. datagram \in Items(world.wire) /\ Listed(rest) /\ Items(rest) \subseteq Items(world.wire)
  BY <1>2, <1>4, ListTail DEF RemoteHears
<1>6. PICK x : x = IF datagram.dst = Remote THEN PeerReceive(r, datagram.msg) ELSE PeerResult(r, <<>>)
  OBVIOUS
<1>7. Stepped(x, r, X, W, T, RemoteWay, LocalWay, E)
  <2>1. CASE datagram.dst = Remote
    <3>1. PICK msg : msg = datagram.msg
      OBVIOUS
    <3>2. msg \in W
      BY <1>1, <1>5, <3>1 DEF ToThem
    <3>3. x = PeerReceive(r, msg)
      BY <1>6, <2>1, <3>1
    <3> QED
      BY <1>2, <1>3, <3>2, <3>3, ConnectedReceive
  <2>2. CASE datagram.dst # Remote
    <3>1. x = PeerResult(r, <<>>)
      BY <1>6, <2>2
    <3> QED
      BY <1>2, <1>3, <3>1, ConnectedIdle
  <2> QED
    BY <2>1, <2>2
<1>8. Orderly(x, E)
  <2>1. E => Outbound(r).error \/ world.broken
    BY <1>1 DEF Faulty
  <2> QED
    BY <1>1, <1>7, <2>1, OrderlyStep
<1>9. RemoteStep(x, rest)
  BY <1>1, <1>4, <1>6 DEF RemoteHears
<1> QED
  BY <1>5, <1>8, <1>9, RemoteStepKeeps

(* The owner of the other side writes or closes its outbound stream.        *)
LEMMA OrderlyWrite ==
    ASSUME SocketAssumption, ShortStreams, Inv, RemoteCanWrite,
           NEW E, E = Faulty(world, remote),
           NEW input, Longer(input, Outbound(remote), RemoteBytes),
           NEW x, x = PeerPush([remote EXCEPT !.sender.input = input])
    PROVE  Orderly(x, E)
<1>1. PICK r, X, T, W : /\ r = remote /\ X = world.peer /\ T = ToUs(world.tun)
                        /\ W = ToThem(world.wire)
  OBVIOUS
<1>2. PICK a, b : a = RemoteWay /\ b = LocalWay
  OBVIOUS
<1>3. a \in Ways /\ b \in Ways /\ 2 * (a.length + 2) < CYCLE /\ a.length = RemoteBytes
  BY <1>2, WaysOfBoth
<1>4. Connected(r, X, W, T, a, b, E)
  BY <1>1, <1>2, SeenFromThere
<1>5. ~HasErrors(r)
  BY <1>1 DEF RemoteCanWrite, Active
<1>6. Longer(input, Outbound(r), a.length) /\ x = PeerPush([r EXCEPT !.sender.input = input])
  BY <1>1, <1>3
<1>7. PICK Y : Y = Coarse(x.peer)
  OBVIOUS
<1>8. Connected(Y, X, W, T \cup Items(x.sent), a, b, E)
  BY <1>3, <1>4, <1>5, <1>6, <1>7, ConnectedWrite
<1>9. Listed(x.sent)
  BY <1>3, <1>4, <1>5, <1>6, ConnectedWrite
<1>10. Wrote(Y, r, input)
  BY <1>3, <1>4, <1>5, <1>6, <1>7, ConnectedWrite
<1>11. ~HasErrors(Y)
  BY <1>10 DEF Wrote
<1>12. E => world.broken
  BY <1>1, <1>5 DEF Faulty, HasErrors
<1> QED
  BY <1>1, <1>2, <1>7, <1>8, <1>9, <1>11, <1>12 DEF Orderly

LEMMA RemoteIntact ==
    ASSUME SocketAssumption, ShortStreams, Inv
    PROVE  Body(remote) /\ StreamIntact(Outbound(remote))
           /\ BytesPushed(Outbound(remote)) \in 0 .. RemoteBytes
<1>1. PICK r, X, T, W, E : /\ r = remote /\ X = world.peer /\ T = ToUs(world.tun)
                           /\ W = ToThem(world.wire) /\ E = Faulty(world, remote)
  OBVIOUS
<1>2. Connected(r, X, W, T, RemoteWay, LocalWay, E)
  BY <1>1, SeenFromThere
<1>3. LocalWay \in Ways /\ RemoteWay \in Ways /\ RemoteWay.length = RemoteBytes
  BY WaysOfBoth
<1>4. Body(r) /\ BytesPushed(Outbound(r)) \in 0 .. RemoteWay.length
  BY <1>2, <1>3, ConnectedFacts
<1> QED
  BY <1>1, <1>3, <1>4 DEF Body

LEMMA RemoteWritesKeeps ==
    ASSUME SocketAssumption, ShortStreams, Inv, RemoteWrites
    PROVE  Inv'
<1>1. PICK out, data, input, E : /\ out = Outbound(remote) /\ data = Bytes(0, RemoteBytes)
                                 /\ input = StreamPush(out, data) /\ E = Faulty(world, remote)
  OBVIOUS
<1>2. StreamIntact(out) /\ BytesPushed(out) = 0 /\ ~out.eof /\ RemoteBytes \in Nat
  BY <1>1, RemoteIntact DEF RemoteWrites, RemoteCanWrite, IsClosed, SocketAssumption
<1>3. IsRun(data, 0) /\ Len(data) = RemoteBytes
  <2>1. PICK len \in Nat : len = RemoteBytes
    BY <1>2
  <2>2. data = [j \in 1 .. len |-> 0 + j - 1]
    BY <1>1, <2>1 DEF Bytes
  <2> QED
    BY <2>1, <2>2, RunOfBytes
<1>4. Longer(input, out, RemoteBytes)
  <2>1. IsRun(data, BytesPushed(out))
    BY <1>2, <1>3
  <2>2. /\ StreamIntact(input) /\ input.popped = out.popped /\ input.error = out.error
        /\ BytesPushed(input) <= BytesPushed(out) + Len(data)
    BY <1>1, <1>2, <2>1, PushPart
  <2>3. BytesPushed(input) \in Nat
    BY <2>2, StreamFacts
  <2>4. 0 <= BytesPushed(input) /\ BytesPushed(input) <= RemoteBytes
    BY <1>2, <1>3, <2>2, <2>3
  <2> QED
    BY <1>2, <2>2, <2>4 DEF Longer
<1>5. PICK x : x = PeerPush([remote EXCEPT !.sender.input = input])
  OBVIOUS
<1>6. Orderly(x, E)
  BY <1>1, <1>4, <1>5, OrderlyWrite DEF RemoteWrites
<1>7. RemoteStep(x, world.wire)
  BY <1>1, <1>5 DEF RemoteWrites, Outbound
<1>8. Listed(world.wire)
  BY SeenFromThere
<1> QED
  BY <1>6, <1>7, <1>8, RemoteStepKeeps

LEMMA RemoteClosesKeeps ==
    ASSUME SocketAssumption, ShortStreams, Inv, RemoteCloses
    PROVE  Inv'
<1>1. PICK out, input, E : /\ out = Outbound(remote) /\ input = StreamClose(out)
                           /\ E = Faulty(world, remote)
  OBVIOUS
<1>2. StreamIntact(out) /\ BytesPushed(out) \in 0 .. RemoteBytes /\ ~out.eof /\ RemoteBytes \in Nat
  BY <1>1, RemoteIntact DEF RemoteCloses, RemoteCanWrite, IsClosed, SocketAssumption
<1>3. Longer(input, out, RemoteBytes)
  <2>1. /\ StreamIntact(input) /\ input.popped = out.popped /\ input.error = out.error
        /\ BytesPushed(input) = BytesPushed(out)
    BY <1>1, <1>2, CloseResult
  <2>2. BytesPushed(out) <= BytesPushed(out) /\ BytesPushed(out) <= RemoteBytes
    BY <1>2
  <2> QED
    BY <1>2, <2>1, <2>2 DEF Longer
<1>4. PICK x : x = PeerPush([remote EXCEPT !.sender.input = input])
  OBVIOUS
<1>5. Orderly(x, E)
  BY <1>1, <1>3, <1>4, OrderlyWrite DEF RemoteCloses
<1>6. RemoteStep(x, world.wire)
  BY <1>1, <1>4 DEF RemoteCloses, Outbound
<1>7. Listed(world.wire)
  BY SeenFromThere
<1> QED
  BY <1>5, <1>6, <1>7, RemoteStepKeeps

(* Or sets its error, the first fault that there may be.                    *)
LEMMA RemoteResetsKeeps ==
    ASSUME SocketAssumption, ShortStreams, Inv, RemoteResets
    PROVE  Inv'
<1>1. PICK r, X, T, W, E : /\ r = remote /\ X = world.peer /\ T = ToUs(world.tun)
                           /\ W = ToThem(world.wire) /\ E = Faulty(world, remote)
  OBVIOUS
<1>2. /\ Connected(r, X, W, T, RemoteWay, LocalWay, E) /\ Listed(world.wire)
  BY <1>1, SeenFromThere
<1>3. LocalWay \in Ways /\ RemoteWay \in Ways
  BY WaysOfBoth
<1>4. PICK F \in BOOLEAN : F = TRUE
  OBVIOUS
<1>5. Connected(r, X, W, T, RemoteWay, LocalWay, F)
  <2>1. W \subseteq W /\ T \subseteq T /\ (E => F)
    BY <1>4
  <2> QED
    BY <1>2, <2>1, ConnectedFewer
<1>6. PICK x : x = PeerPush([r EXCEPT !.sender.input = StreamSetError(@)])
  OBVIOUS
<1>7. Stepped(x, r, X, W, T, RemoteWay, LocalWay, F)
  BY <1>3, <1>4, <1>5, <1>6, ConnectedReset
<1>8. Outbound(Coarse(x.peer)).error
  BY <1>3, <1>4, <1>5, <1>6, ConnectedReset
<1>9. Orderly(x, F)
  BY <1>1, <1>7, <1>8 DEF Orderly, Stepped
<1>10. RemoteStep(x, world.wire)
  BY <1>1, <1>6 DEF RemoteResets
<1> QED
  BY <1>2, <1>9, <1>10, RemoteStepKeeps

-----------------------------------------------------------------------------
(* Others' datagrams: one of another host, one from another port.           *)
LEMMA StraysAreStrays ==
    ASSUME NEW k \in DOMAIN Strays, NEW d, d = Strays[k]
    PROVE  d.dst = Local /\ IsStray(d)
<1>1. PICK m1, m2 :
          /\ Strays = Datagrams(Address("stranger", Remote.port), <<m1>>)
                          \o Datagrams(Address(Remote.host, "2048"), <<m2>>)
          /\ ~m1.sender.SYN /\ ~m2.sender.SYN
  <2>1. \A payload, rst :
            ~Segment(SenderMessage(Wrap(1, RemoteIsn), FALSE, payload, ~rst, rst),
                     ReceiverMessage(NoAckno, 1, FALSE)).sender.SYN
    BY DEF Segment, SenderMessage, ReceiverMessage
  <2> QED
    BY <2>1 DEF Strays
<1>2. PICK one, two : /\ one = Datagrams(Address("stranger", Remote.port), <<m1>>)
                      /\ two = Datagrams(Address(Remote.host, "2048"), <<m2>>)
  OBVIOUS
<1>3. Listed(<<m1>>) /\ Items(<<m1>>) = {m1} /\ Listed(<<m2>>) /\ Items(<<m2>>) = {m2}
  <2>1. \A m : <<m>> \in Seq({m}) /\ Items(<<m>>) = {m}
    BY DEF Items
  <2> QED
    BY <2>1 DEF Listed
<1>4. /\ Listed(one)
      /\ \A e \in Items(one) : /\ e.src = Address("stranger", Remote.port)
                               /\ e.dst = Local /\ e.msg = m1
  <2>1. PICK from, sent : from = Address("stranger", Remote.port) /\ sent = <<m1>>
    OBVIOUS
  <2>2. one = Datagrams(from, sent) /\ Listed(sent) /\ Items(sent) = {m1}
    BY <1>2, <1>3, <2>1
  <2>3. Listed(one)
    BY <2>2, DatagramsResult
  <2>4. \A e \in Items(one) : e.src = from /\ e.dst = Local /\ e.msg \in Items(sent)
    BY <2>2, DatagramsResult
  <2> QED
    BY <2>1, <2>2, <2>3, <2>4
<1>5. /\ Listed(two)
      /\ \A e \in Items(two) : /\ e.src = Address(Remote.host, "2048")
                               /\ e.dst = Local /\ e.msg = m2
  <2>1. PICK from, sent : from = Address(Remote.host, "2048") /\ sent = <<m2>>
    OBVIOUS
  <2>2. two = Datagrams(from, sent) /\ Listed(sent) /\ Items(sent) = {m2}
    BY <1>2, <1>3, <2>1
  <2>3. Listed(two)
    BY <2>2, DatagramsResult
  <2>4. \A e \in Items(two) : e.src = from /\ e.dst = Local /\ e.msg \in Items(sent)
    BY <2>2, DatagramsResult
  <2> QED
    BY <2>1, <2>2, <2>3, <2>4
<1>6. d \in Items(one) \cup Items(two)
  <2>1. Items(one \o two) \subseteq Items(one) \cup Items(two)
    BY <1>4, <1>5, ListConcat
  <2>2. d \in Items(one \o two)
    BY <1>1, <1>2 DEF Items
  <2> QED
    BY <2>1, <2>2
<1>7. CASE d \in Items(one)
  <2>1. d.src = Address("stranger", Remote.port) /\ d.dst = Local /\ d.msg = m1
    BY <1>4, <1>7
  <2>2. d.src.host # Remote.host
    BY <2>1 DEF Address, Remote
  <2> QED
    BY <1>1, <2>1, <2>2 DEF IsStray
<1>8. CASE d \in Items(two)
  <2>1. d.src = Address(Remote.host, "2048") /\ d.dst = Local /\ d.msg = m2
    BY <1>5, <1>8
  <2>2. d.src.port # Remote.port
    BY <2>1 DEF Address, Remote
  <2> QED
    BY <1>1, <2>1, <2>2 DEF IsStray
<1> QED
  BY <1>6, <1>7, <1>8

LEMMA StrangerSendsKeeps ==
    ASSUME Inv, StrangerSends
    PROVE  Inv'
<1>1. PICK w, o, u, r : w = world /\ o = owner /\ u = world' /\ r = remote
  OBVIOUS
<1>2. Standing(w, pc, revents, o, r) /\ Sound(w, o, r) /\ o \in Owners
  BY <1>1 DEF Inv, Standing, Steady
<1>3. PICK k \in DOMAIN Strays : u = [w EXCEPT !.tun = <<Strays[k]>>]
  BY <1>1 DEF StrangerSends
<1>4. PICK d, tun : d = Strays[k] /\ tun = <<d>>
  OBVIOUS
<1>5. d.dst = Local /\ IsStray(d)
  BY <1>4, StraysAreStrays
<1>6. Listed(tun) /\ Items(tun) = {d} /\ tun # <<>>
  <2>1. <<d>> \in Seq({d}) /\ Items(<<d>>) = {d}
    BY DEF Items
  <2>2. <<d>> # <<>>
    OBVIOUS
  <2> QED
    BY <1>4, <2>1, <2>2 DEF Listed
<1>7. Rewired(u, w, tun, w.wire)
  <2>1. u = [w EXCEPT !.tun = tun] /\ IsWorld(w)
    BY <1>2, <1>3, <1>4 DEF Sound
  <2> QED
    BY <2>1, TunPart
<1>8. /\ Untouched(u, w) /\ SamePipe(u, w) /\ SameFlags(u, w)
      /\ u.tun = tun /\ u.wire = w.wire
  BY <1>7 DEF Rewired
<1>9. PICK X, T, W, E : /\ X = w.peer /\ T = ToUs(w.tun) /\ W = ToThem(w.wire) /\ E = Faulty(w, r)
                        /\ Connected(X, r, T, W, LocalWay, RemoteWay, E)
  BY <1>2 DEF Sound, Wired
<1>10. Wired(u, r)
  <2>1. PICK t : t = ToUs(u.tun)
    OBVIOUS
  <2>2. t = {}
    <3>1. d.src # Remote
      BY <1>5 DEF IsStray
    <3> QED
      BY <1>6, <1>8, <2>1, <3>1 DEF ToUs
  <2>3. Connected(X, r, t, W, LocalWay, RemoteWay, E)
    BY <1>9, <2>2, ConnectedFewer
  <2>4. Faulty(u, r) = Faulty(w, r) /\ u.peer = X
    BY <1>8, <1>9 DEF Faulty, SameFlags, Untouched
  <2>5. Connected(u.peer, r, ToUs(u.tun), ToThem(u.wire), LocalWay, RemoteWay, Faulty(u, r))
    BY <1>8, <1>9, <2>1, <2>3, <2>4
  <2> QED
    BY <1>2, <1>5, <1>6, <1>8, <2>5 DEF Wired, Sound
<1>11. Conserved(u, o)
  BY <1>2, <1>8 DEF Sound, Conserved, Untouched, SamePipe
<1>12. Ends(u, o)
  BY <1>2, <1>8 DEF Sound, Ends, Untouched, SamePipe, SameFlags
<1>13. Adapted(u)
  BY <1>2, <1>8 DEF Sound, Adapted, Untouched
<1>14. Aside(u, w)
  BY <1>6, <1>8 DEF Aside, Untouched, SamePipe, SameFlags
<1>15. Sound(u, o, r)
  BY <1>8, <1>10, <1>11, <1>12, <1>13 DEF Sound, Untouched
<1>16. u.ownerShut = w.ownerShut /\ (IsOpening(o) => pc # "ended")
  BY <1>2, <1>8 DEF SameFlags, Standing, Flags
<1>17. Standing(u, pc, revents, o, r)
  BY <1>2, <1>14, <1>15, <1>16, AsideStands
<1> QED
  BY <1>1, <1>17 DEF Inv, StrangerSends

-----------------------------------------------------------------------------
(* In the beginning two peers have been made, and nothing has been said.    *)
LEMMA InitHolds ==
    ASSUME SocketAssumption, ShortStreams, Init
    PROVE  Inv
<1>1. PICK w, o, r : w = world /\ o = owner /\ r = remote
  OBVIOUS
<1>2. PICK X, fd, adapter :
          /\ X = NewPeer(SendCapacity, RecvCapacity, LocalIsn)
          /\ fd = [f \in {"tun", "data"} |-> NewFd]
          /\ adapter = NewAdapter(Local, Remote, FALSE)
  OBVIOUS
<1>3. w = [rules |-> <<1, 2, 3>>, asked |-> {}, served |-> FALSE, outcome |-> "running",
           fd |-> fd, peer |-> X, adapter |-> adapter,
           outbound_shutdown |-> FALSE, inbound_shutdown |-> FALSE,
           tun |-> <<>>, wire |-> <<>>, toThread |-> <<>>, toOwner |-> <<>>,
           ownerShut |-> {}, broken |-> FALSE]
  BY <1>1, <1>2 DEF Init
<1>4. /\ w.rules = <<1, 2, 3>> /\ w.served = FALSE /\ w.outcome = "running" /\ w.fd = fd
      /\ w.peer = X /\ w.adapter = adapter /\ ~w.inbound_shutdown /\ ~w.broken
      /\ w.tun = <<>> /\ w.wire = <<>> /\ w.toThread = <<>> /\ w.toOwner = <<>> /\ w.ownerShut = {}
  BY <1>3
<1>5. IsWorld(w)
  <2>1. NewFd \in FdStates
    BY DEF NewFd, FdStates
  <2>2. fd \in [{"tun", "data"} -> FdStates]
    BY <1>2, <2>1
  <2> QED
    BY <1>3, <2>2 DEF IsWorld
<1>6. ~w.fd["tun"].eof /\ ~w.fd["tun"].closed /\ ~w.fd["data"].closed /\ ~w.fd["data"].eof
  BY <1>2, <1>4 DEF NewFd
<1>7. /\ o = [phase |-> "new", written |-> 0, read |-> 0, closed |-> FALSE, abort |-> FALSE]
      /\ pc = "poll" /\ r = NewPeer(RemoteBytes, OwnerBytes, RemoteIsn)
  BY <1>1 DEF Init
<1>8. LocalWay \in Ways /\ RemoteWay \in Ways
      /\ 2 * (LocalWay.length + 2) < CYCLE /\ 2 * (RemoteWay.length + 2) < CYCLE
      /\ LocalWay.isn = LocalIsn /\ RemoteWay.isn = RemoteIsn
  BY WaysOfBoth
<1>9. Joined(X, r, {}, {}, LocalWay, RemoteWay)
  <2>1. SendCapacity \in Nat /\ RecvCapacity \in Nat /\ RemoteBytes \in Nat /\ OwnerBytes \in Nat
    BY DEF SocketAssumption
  <2> QED
    BY <1>2, <1>7, <1>8, <2>1, JoinedNew
<1>10. /\ Outbound(X).queue = <<>> /\ Outbound(X).popped = 0 /\ ~Outbound(X).eof
       /\ Inbound(X).queue = <<>> /\ Inbound(X).popped = 0 /\ ~HasErrors(X)
  BY <1>2 DEF NewPeer, NewSender, NewReceiver, NewReassembler, NewStream, Outbound, Inbound, HasErrors
<1>11. ~HasErrors(r)
  BY <1>7 DEF NewPeer, NewSender, NewReceiver, NewReassembler, NewStream, Outbound, Inbound, HasErrors
<1>12. PICK nothing : nothing = {}
  OBVIOUS
<1>13. PICK E : E = Faulty(w, r)
  OBVIOUS
<1>14. Connected(X, r, nothing, nothing, LocalWay, RemoteWay, E)
  <2>1. Joined(r, X, {}, {}, RemoteWay, LocalWay)
    BY <1>9, JoinedTurned
  <2>2. Body(X) /\ Body(r)
    BY <1>8, <1>9, <2>1, JoinedBody
  <2>3. Mirrors(X, X) /\ Mirrors(r, r)
    BY <2>2 DEF Mirrors
  <2>4. Bound(X, r, {}, {}, X, r, nothing, nothing, LocalWay, RemoteWay)
    BY <1>9, <1>12, <2>3 DEF Bound
  <2> QED
    BY <1>10, <1>11, <1>12, <2>4 DEF Connected
<1>15. Wired(w, r)
  <2>1. Listed(<<>>) /\ Items(<<>>) = {}
    BY DEF Listed, Items
  <2>2. ToUs(w.tun) = nothing /\ ToThem(w.wire) = nothing
    BY <1>4, <1>12, <2>1 DEF ToUs, ToThem
  <2>3. Connected(w.peer, r, ToUs(w.tun), ToThem(w.wire), LocalWay, RemoteWay, Faulty(w, r))
    BY <1>4, <1>13, <1>14, <2>2
  <2> QED
    BY <1>4, <1>11, <2>1, <2>3 DEF Wired
<1>16. Conserved(w, o)
  <2>1. o.written = 0 /\ o.read = 0
    BY <1>7
  <2>2. BytesPushed(Outbound(X)) = 0 /\ Len(<<>>) = 0
    BY <1>10 DEF BytesPushed
  <2>3. IsRun(<<>>, 0)
    BY DEF IsRun
  <2>4. 0 \in 0 .. OwnerBytes
    BY DEF SocketAssumption
  <2> QED
    BY <1>4, <1>10, <2>1, <2>2, <2>3, <2>4 DEF Conserved
<1>17. Ends(w, o)
  BY <1>4, <1>6, <1>10 DEF Ends
<1>18. Adapted(w)
  BY <1>2, <1>4 DEF Adapted
<1>19. Steady(w, o, r)
  BY <1>4, <1>5, <1>15, <1>16, <1>17, <1>18 DEF Steady, Sound, RuleLists, HasThird
<1>20. o \in Owners
  BY <1>7 DEF Owners, Phases
<1>21. Fate(w, o) /\ Flags("poll", w, o) /\ Over("poll", w, o)
  BY <1>4, <1>7, <1>10 DEF Fate, Flags, Over, IsOpening
<1>22. Standing(w, "poll", revents, o, r)
  BY <1>19, <1>20, <1>21 DEF Standing
<1> QED
  BY <1>1, <1>7, <1>22 DEF Inv

-----------------------------------------------------------------------------
LEMMA StuttersKeep ==
    ASSUME Inv, UNCHANGED vars
    PROVE  Inv'
BY DEF vars, Inv

LEMMA NextKeeps ==
    ASSUME SocketAssumption, ShortStreams, Inv, [Next]_vars
    PROVE  Inv'
<1>1. CASE Leave
  BY <1>1, LeaveKeeps
<1>2. CASE Poll
  BY <1>2, PollKeeps
<1>3. CASE Serve
  BY <1>3, ServeKeeps
<1>4. CASE Timeout
  BY <1>4, TimeoutKeeps
<1>5. CASE Opened
  BY <1>5, OpenedKeeps
<1>6. CASE Finish
  BY <1>6, FinishKeeps
<1>7. CASE Connect
  BY <1>7, ConnectKeeps
<1>8. CASE Listen
  BY <1>8, ListenKeeps
<1>9. CASE OwnerWrites
  BY <1>9, OwnerWritesKeeps
<1>10. CASE OwnerReads
  BY <1>10, OwnerReadsKeeps
<1>11. CASE OwnerEndsWriting
  BY <1>11, OwnerEndsWritingKeeps
<1>12. CASE OwnerCloses
  BY <1>12, OwnerClosesKeeps
<1>13. CASE WaitUntilClosed
  BY <1>13, WaitUntilClosedKeeps
<1>14. CASE Destroy
  BY <1>14, DestroyKeeps
<1>15. CASE Join
  BY <1>15, JoinKeeps
<1>16. CASE RemoteConnects
  BY <1>16, RemoteConnectsKeeps
<1>17. CASE RemoteWrites
  BY <1>17, RemoteWritesKeeps
<1>18. CASE RemoteCloses
  BY <1>18, RemoteClosesKeeps
<1>19. CASE RemoteResets
  BY <1>19, RemoteResetsKeeps
<1>20. CASE RemoteHears
  BY <1>20, RemoteHearsKeeps
<1>21. CASE RemoteTicks
  BY <1>21, RemoteTicksKeeps
<1>22. CASE StrangerSends
  BY <1>22, StrangerSendsKeeps
<1>23. CASE UNCHANGED vars
  BY <1>23, StuttersKeep
<1>24. Program \/ Owner \/ OtherSide \/ StrangerSends \/ UNCHANGED vars
  BY DEF Next
<1>25. CASE Program
  BY <1>1, <1>2, <1>3, <1>4, <1>5, <1>6, <1>25 DEF Program
<1>26. CASE Owner
  BY <1>7, <1>8, <1>9, <1>10, <1>11, <1>12, <1>13, <1>14, <1>15, <1>26 DEF Owner
<1>27. CASE OtherSide
  BY <1>16, <1>17, <1>18, <1>19, <1>20, <1>21, <1>27 DEF OtherSide
<1> QED
  BY <1>22, <1>23, <1>24, <1>25, <1>26, <1>27

(* The invariant of the socket and the connection it is one end of: every   *)
(* byte and every end is accounted for, the rules that are left are those   *)
(* that are still needed, what poll has said holds until it is acted on,    *)
(* and once the loop is over so is the connection.                          *)
THEOREM EverythingStands ==
    ASSUME SocketAssumption, ShortStreams
    PROVE  Spec => []Inv
<1>1. Init => Inv
  BY InitHolds
<1>2. Inv /\ [Next]_vars => Inv'
  BY NextKeeps
<1> QED
  BY <1>1, <1>2, PTL DEF Spec

(* Two runs that follow each other are the bytes from the first on.         *)
LEMMA RunsAreBytes ==
    ASSUME NEW first \in Nat, NEW s, IsRun(s, first), NEW t, IsRun(t, first + Len(s))
    PROVE  s \o t = Bytes(first, Len(s) + Len(t))
<1>1. IsRun(s \o t, first)
  BY RunConcat
<1>2. Len(s \o t) = Len(s) + Len(t)
  BY RunConcat
<1>3. s \o t = [j \in 1 .. Len(s \o t) |-> first + j - 1]
  BY <1>1, RunIsBytes
<1> QED
  BY <1>2, <1>3 DEF Bytes

(* No byte is lost between the pair of sockets and the streams of the       *)
(* TCPPeer, whatever the rules of tcp_minnow_socket_impl.hh and the owner   *)
(* do in between: what the owner wrote is in the socket or was pushed, and  *)
(* what was reassembled is buffered, in the socket or read, in order.       *)
THEOREM NothingLostHolds ==
    ASSUME SocketAssumption, ShortStreams
    PROVE  Spec => []NothingLost
<1>1. ASSUME Inv
      PROVE  NothingLost
  <2>1. PICK out, in : out = Outbound(world.peer) /\ in = Inbound(world.peer)
    OBVIOUS
  <2>2. Sound(world, owner, remote) /\ Conserved(world, owner)
    BY <1>1 DEF Inv, Standing, Steady, Sound
  <2>3. StreamIntact(out) /\ StreamIntact(in)
    <3>1. LocalWay \in Ways /\ RemoteWay \in Ways
      BY WaysOfBoth
    <3>2. PICK X, T, W, E : X = world.peer /\ Connected(X, remote, T, W, LocalWay, RemoteWay, E)
      BY <2>2 DEF Sound, Wired
    <3>3. Body(X)
      BY <3>1, <3>2, ConnectedFacts
    <3> QED
      BY <2>1, <3>2, <3>3 DEF Body
  <2>4. out.queue \o world.toThread = Bytes(out.popped, owner.written - out.popped)
    <3>1. PICK s, t : s = out.queue /\ t = world.toThread
      OBVIOUS
    <3>2. IsRun(s, out.popped) /\ out.popped \in Nat
      BY <2>3, <3>1 DEF StreamIntact, Streams
    <3>3. BytesPushed(out) = out.popped + Len(s)
      BY <3>1 DEF BytesPushed
    <3>4. IsRun(t, BytesPushed(out)) /\ BytesPushed(out) + Len(t) = owner.written
      BY <2>1, <2>2, <3>1 DEF Conserved
    <3>5. Len(s) \in Nat /\ Len(t) \in Nat
      BY <3>2, <3>4, LenProperties DEF IsRun
    <3>6. PICK first \in Nat : first = out.popped
      BY <3>2
    <3>7. PICK n \in Nat : n = Len(s)
      BY <3>5
    <3>8. PICK l \in Nat : l = Len(t)
      BY <3>5
    <3>9. BytesPushed(out) = first + n
      BY <3>3, <3>6, <3>7
    <3>10. IsRun(s, first) /\ IsRun(t, first + Len(s))
      BY <3>2, <3>4, <3>6, <3>7, <3>9
    <3>11. s \o t = Bytes(first, Len(s) + Len(t))
      BY <3>10, RunsAreBytes
    <3>12. owner.written = first + n + l
      BY <3>4, <3>8, <3>9
    <3>13. first + n + l - first = n + l
      OBVIOUS
    <3>14. owner.written - out.popped = n + l
      BY <3>6, <3>12, <3>13
    <3> QED
      BY <3>1, <3>6, <3>7, <3>8, <3>11, <3>14
  <2>5. world.toOwner \o in.queue = Bytes(owner.read, BytesPushed(in) - owner.read)
    <3>1. PICK s, t : s = world.toOwner /\ t = in.queue
      OBVIOUS
    <3>2. IsRun(t, in.popped) /\ in.popped \in Nat
      BY <2>3, <3>1 DEF StreamIntact, Streams
    <3>3. BytesPushed(in) = in.popped + Len(t)
      BY <3>1 DEF BytesPushed
    <3>4. IsRun(s, owner.read) /\ owner.read \in Nat /\ owner.read + Len(s) = in.popped
      BY <2>1, <2>2, <3>1 DEF Conserved
    <3>5. Len(s) \in Nat /\ Len(t) \in Nat
      BY <3>2, <3>4, LenProperties DEF IsRun
    <3>6. PICK first \in Nat : first = owner.read
      BY <3>4
    <3>7. PICK n \in Nat : n = Len(s)
      BY <3>5
    <3>8. PICK l \in Nat : l = Len(t)
      BY <3>5
    <3>9. in.popped = first + n
      BY <3>4, <3>6, <3>7
    <3>10. IsRun(s, first) /\ IsRun(t, first + Len(s))
      BY <3>2, <3>4, <3>6, <3>7, <3>9
    <3>11. s \o t = Bytes(first, Len(s) + Len(t))
      BY <3>10, RunsAreBytes
    <3>12. BytesPushed(in) = first + n + l
      BY <3>3, <3>8, <3>9
    <3>13. first + n + l - first = n + l
      OBVIOUS
    <3>14. BytesPushed(in) - owner.read = n + l
      BY <3>6, <3>12, <3>13
    <3> QED
      BY <3>1, <3>6, <3>7, <3>8, <3>11, <3>14
  <2> QED
    BY <2>1, <2>4, <2>5 DEF NothingLost
<1> QED
  BY <1>1, EverythingStands, PTL

(* If the thread ends of its own accord and without an error, all that the  *)
(* owner wrote has arrived, with its end; so has all that the other side    *)
(* wrote, and unless the owner has stopped reading it has been passed on.   *)
THEOREM CleanEndHolds ==
    ASSUME SocketAssumption, ShortStreams
    PROVE  Spec => []CleanEnd
<1>1. ASSUME Inv
      PROVE  CleanEnd
  <2>1. SUFFICES ASSUME pc = "ended", Running, ~owner.abort, ~HasErrors(world.peer)
                 PROVE  /\ IsClosed(Inbound(remote)) /\ BytesPushed(Inbound(remote)) = owner.written
                        /\ IsClosed(Inbound(world.peer))
                        /\ BytesPushed(Inbound(world.peer)) = BytesPushed(Outbound(remote))
                        /\ OwnerStoppedReading \/ Inbound(world.peer).queue = <<>>
    BY DEF CleanEnd
  <2>2. /\ Sound(world, owner, remote) /\ Ends(world, owner) /\ Conserved(world, owner)
        /\ Flags(pc, world, owner) /\ Over(pc, world, owner)
    BY <1>1 DEF Inv, Standing, Steady, Sound
  <2>3. ~Active(world.peer) /\ (Stopped(owner) \/ Inbound(world.peer).queue = <<>>)
    BY <2>1, <2>2 DEF Flags, Over, Running
  <2>4. PICK X, T, W, E : X = world.peer /\ Connected(X, remote, T, W, LocalWay, RemoteWay, E)
    BY <2>2 DEF Sound, Wired
  <2>5. LocalWay \in Ways /\ RemoteWay \in Ways
    BY WaysOfBoth
  <2>6. /\ Outbound(X).eof /\ Inbound(X).eof
        /\ Inbound(remote).eof /\ BytesPushed(Inbound(remote)) = BytesPushed(Outbound(X))
    <3>1. ~HasErrors(X) /\ ~Active(X)
      BY <2>1, <2>3, <2>4
    <3> QED
      BY <2>4, <2>5, <3>1, ConnectedComplete
  <2>7. BytesPushed(Inbound(X)) = BytesPushed(Outbound(remote))
    BY <2>4, <2>5, <2>6, ConnectedFacts
  <2>8. BytesPushed(Outbound(X)) = owner.written
    <3>1. world.toThread = <<>>
      BY <2>1, <2>2, <2>4, <2>6 DEF Ends
    <3>2. BytesPushed(Outbound(X)) \in 0 .. LocalWay.length /\ LocalWay.length \in Nat
      BY <2>4, <2>5, ConnectedFacts DEF Ways
    <3>3. BytesPushed(Outbound(X)) + Len(<<>>) = owner.written
      BY <2>2, <2>4, <3>1 DEF Conserved
    <3> QED
      BY <3>2, <3>3
  <2> QED
    BY <2>3, <2>4, <2>6, <2>7, <2>8 DEF IsClosed, OwnerStoppedReading, Stopped
<1> QED
  BY <1>1, EverythingStands, PTL

(* The exception for busy waiting (eventloop.cc) is never raised, and the   *)
(* program dies of nothing but an owner that stops reading before the end   *)
(* or a reset.                                                              *)
THEOREM ThreadSurvivesHolds ==
    ASSUME SocketAssumption, ShortStreams
    PROVE  Spec => []ThreadSurvives
<1>1. Inv => ThreadSurvives
  BY DEF Inv, Standing, Fate, ThreadSurvives, OwnerStoppedReading, Stopped
<1> QED
  BY <1>1, EverythingStands, PTL

(* Strangers neither become the other side nor reset the connection nor end *)
(* a stream, although their datagrams share a host or a port with it: the   *)
(* adapter hears the other side only.                                       *)
THEOREM OnlyTheOtherSideHolds ==
    ASSUME SocketAssumption, ShortStreams
    PROVE  Spec => []OnlyTheOtherSide
<1>1. ASSUME Inv
      PROVE  OnlyTheOtherSide
  <2>1. Sound(world, owner, remote) /\ Adapted(world)
    BY <1>1 DEF Inv, Standing, Steady, Sound
  <2>2. world.adapter.listening \/ world.adapter.destination = Remote
    BY <2>1 DEF Adapted, NewAdapter
  <2>3. PICK X, T, W, E : /\ X = world.peer /\ E = Faulty(world, remote)
                          /\ Connected(X, remote, T, W, LocalWay, RemoteWay, E)
    BY <2>1 DEF Sound, Wired
  <2>4. LocalWay \in Ways /\ RemoteWay \in Ways
    BY WaysOfBoth
  <2>5. HasErrors(X) => Outbound(remote).error \/ world.broken
    BY <2>3 DEF Connected, Faulty
  <2>6. Inbound(X).eof => Outbound(remote).eof
    BY <2>3, <2>4, ConnectedFacts
  <2> QED
    BY <2>2, <2>3, <2>5, <2>6 DEF OnlyTheOtherSide, IsClosed
<1> QED
  BY <1>1, EverythingStands, PTL
=============================================================================

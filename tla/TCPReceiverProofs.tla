------------------------- MODULE TCPReceiverProofs -------------------------
(***************************************************************************)
(* TCPReceiver, for every capacity, window, stream, ISN and sequence       *)
(* space: whatever messages arrive, in whatever order and however often,   *)
(* what is held is exactly what has arrived in the window, at the place    *)
(* that its sender gave it, and the window never moves back.               *)
(***************************************************************************)
EXTENDS TCPReceiver, OpsProofs

(* What the reassembler holds is what has arrived, and it knows the end of  *)
(* the stream only from a FIN.                                              *)
Accounted(numbers, r) ==
    /\ numbers \subseteq 0 .. Length + 1
    /\ \A x \in 0 .. Length - 1 : HoldsIndex(r, x) <=> x + 1 \in numbers
    /\ r.output.eof \/ r.last_byte # NoLastByte => Length + 1 \in numbers

Reassemblers == [output : Streams(Nat), last_byte : Int, pending : Seq(Block)]

IInv ==
    /\ receiver \in [reassembler : Reassemblers, isn : Seqnos, isn_set : BOOLEAN]
    /\ isn \in Seqnos
    /\ Intact(receiver.reassembler, Length, Length) /\ Output.capacity = Capacity
    /\ receiver.isn_set => receiver.isn = isn
    /\ receiver.isn_set <=> 0 \in arrived
    /\ Accounted(arrived, receiver.reassembler)

(* A new receiver has got nothing.                                          *)
LEMMA InitIInv == Init => IInv
<1> SUFFICES ASSUME Init PROVE IInv
  OBVIOUS
<1>1. Capacity \in Nat /\ Length \in Nat /\ isn \in Seqnos /\ 0 \in Seqnos /\ arrived = {}
  BY EnvironmentAssumption, WrapAssumption DEF Init, Seqnos
<1>2. PICK r : r = NewReassembler(NewStream(Capacity))
  OBVIOUS
<1>3. Intact(r, Length, Length) /\ r.output.capacity = Capacity /\ ~r.output.eof
      /\ r.last_byte = NoLastByte /\ \A x \in Nat : ~HoldsIndex(r, x)
  BY <1>1, <1>2, NewResult
<1>4. receiver = [reassembler |-> r, isn |-> 0, isn_set |-> FALSE]
  BY <1>2 DEF Init, NewReceiver
<1>5. r \in Reassemblers
  BY <1>3 DEF Intact, Reassemblers
<1>6. Accounted({}, r)
  <2>1. \A x \in 0 .. Length - 1 : x \in Nat
    OBVIOUS
  <2> QED
    BY <1>3, <2>1 DEF Accounted
<1> QED
  BY <1>1, <1>3, <1>4, <1>5, <1>6 DEF IInv, Output

(* The numbers between which a message may begin.                           *)
LEMMA EdgesAreNumbers ==
    ASSUME IInv
    PROVE  \E next \in Nat, window \in Nat, end \in {0, 1} :
               /\ next = NextByteIndex(receiver.reassembler) /\ next <= Length
               /\ window = WindowSize(receiver) /\ window <= Least(Capacity, MaxWindow)
               /\ end = Flag(IsClosed(Output)) /\ (end = 1 => next = Length)
               /\ AbsAckno(receiver) = next + 1 + end
               /\ RightEdge(receiver) = next + 1 + end + window
<1>1. Length \in Nat /\ Capacity \in Nat /\ MaxWindow \in Nat
  BY EnvironmentAssumption, ReceiverAssumption
<1>2. PICK next \in Nat : next = NextByteIndex(receiver.reassembler) /\ next <= Length
  BY <1>1, IndexFacts DEF IInv
<1>3. PICK window \in Nat : window = WindowSize(receiver) /\ window <= Least(Capacity, MaxWindow)
  <2>1. PICK c \in Nat, q \in Nat :
            c = Capacity /\ q <= c /\ AvailableCapacity(Output) = c - q
    BY StreamFacts DEF IInv, Intact, Output
  <2>2. Least(c - q, MaxWindow) \in Nat /\ Least(c - q, MaxWindow) <= Least(c, MaxWindow)
    BY <1>1, <2>1 DEF Least
  <2> QED
    BY <2>1, <2>2 DEF WindowSize, Output
<1>4. PICK end \in {0, 1} : /\ end = Flag(IsClosed(Output))
                            /\ end = 1 => next = Length
                            /\ AbsAckno(receiver) = next + 1 + end
  <2>1. IsClosed(Output) => next = Length
    BY <1>2 DEF IInv, Intact, Output, IsClosed
  <2> QED
    BY <1>2, <2>1 DEF AbsAckno, Flag, NextByteIndex, Output
<1>5. RightEdge(receiver) = (next + 1 + end) + window
  BY <1>3, <1>4 DEF RightEdge
<1> QED
  BY <1>2, <1>3, <1>4, <1>5

(* A number that the sender may send is told apart from all others by its   *)
(* sequence number: it is less than half a cycle away from the next byte.   *)
LEMMA SeqnoResolved ==
    ASSUME IInv, NEW first \in Nat, first <= Length + 1,
           AbsAckno(receiver) - MaxAge <= first, first <= RightEdge(receiver)
    PROVE  Unwrap(Wrap(first, isn), isn, NextByteIndex(receiver.reassembler)) = first
<1>1. /\ Length \in Nat /\ Length + 1 < WORD /\ MaxAge \in Nat /\ 2 * MaxAge <= CYCLE
      /\ Capacity \in Nat /\ MaxWindow \in Nat /\ CYCLE \in Int /\ CYCLE > 0 /\ WORD \in Int
      /\ 2 * (Least(Capacity, MaxWindow) + 1) < CYCLE
  BY EnvironmentAssumption, ReceiverAssumption, WrapAssumption
<1>2. PICK next \in Nat, window \in Nat, end \in {0, 1} :
          /\ next = NextByteIndex(receiver.reassembler) /\ next <= Length
          /\ window <= Least(Capacity, MaxWindow)
          /\ (end = 1 => next = Length)
          /\ AbsAckno(receiver) = next + 1 + end
          /\ RightEdge(receiver) = next + 1 + end + window
  BY EdgesAreNumbers
<1>3. next + 1 + end - MaxAge <= first /\ first <= next + 1 + end + window
  <2>1. next + 1 + end - MaxAge <= first
    BY <1>1, <1>2
  <2>2. first <= next + 1 + end + window
    BY <1>2
  <2> QED
    BY <2>1, <2>2
<1>4. 2 * (window + 1) < CYCLE
  <2>1. Least(Capacity, MaxWindow) \in Int
    BY <1>1 DEF Least
  <2> QED
    BY <1>1, <1>2, <2>1
<1>5. first - next <= window + 1 /\ next - first < MaxAge
  BY <1>1, <1>2, <1>3
<1>6. 2 * Distance(first, next) < CYCLE
  BY <1>1, <1>2, <1>4, <1>5 DEF Distance
<1>7. first \in Absolute /\ next \in Absolute /\ isn \in Seqnos
  BY <1>1, <1>2 DEF Absolute, IInv
<1> QED
  BY <1>2, <1>6, <1>7, UnwrapWrap

(* What a receiver becomes when the payload of a message is inserted.       *)
LEMMA ReceivedPayload ==
    ASSUME IInv, NEW first \in Nat, NEW len \in Nat, NEW fin \in BOOLEAN,
           AbsAckno(receiver) - MaxAge <= first, first <= RightEdge(receiver),
           first + Flag(first = 0) + len <= Length + 1,
           receiver.isn_set \/ first = 0
    PROVE  LET index == first - 1 + Flag(first = 0)
           IN  ReceiverReceive(receiver, Message(first, len, fin)) =
                   [reassembler |-> Insert(receiver.reassembler, index, Bytes(index, len), fin),
                    isn |-> isn, isn_set |-> TRUE]
<1>1. /\ Length \in Nat /\ Length + 1 < WORD /\ CYCLE \in Int /\ CYCLE > 0 /\ WORD \in Int
      /\ isn \in 0 .. CYCLE - 1
  BY EnvironmentAssumption, WrapAssumption DEF IInv, Seqnos
<1>2. PICK syn \in {0, 1} : syn = Flag(first = 0) /\ (syn = 1 <=> first = 0)
  BY DEF Flag
<1>3. PICK index \in Nat : index = first - 1 + syn /\ index < WORD
  BY <1>1, <1>2
<1>4. PICK msg : msg = Message(first, len, fin)
  OBVIOUS
<1>5. /\ msg.seqno = Wrap(first, isn) /\ (msg.SYN <=> first = 0) /\ Flag(msg.SYN) = syn
      /\ msg.payload = Bytes(index, len) /\ msg.FIN = fin /\ msg.RST = FALSE
  BY <1>2, <1>3, <1>4 DEF Message, SenderMessage
<1>6. PICK c : c = NoteSyn(receiver, msg)
  OBVIOUS
<1>7. c = [reassembler |-> receiver.reassembler, isn |-> isn, isn_set |-> TRUE]
  <2>1. receiver = [reassembler |-> receiver.reassembler, isn |-> receiver.isn,
                    isn_set |-> receiver.isn_set]
    BY DEF IInv
  <2>2. CASE receiver.isn_set
    BY <1>5, <1>6, <2>1, <2>2 DEF NoteSyn, IInv
  <2>3. CASE ~receiver.isn_set
    <3>1. Wrap(0, isn) = isn
      BY <1>1 DEF Wrap
    <3>2. msg.SYN /\ msg.seqno = isn
      BY <1>5, <2>3, <3>1
    <3> QED
      BY <1>6, <2>1, <2>3, <3>2 DEF NoteSyn
  <2> QED
    BY <2>2, <2>3
<1>8. StreamIndex(c, msg) = index
  <2>1. Unwrap(Wrap(first, isn), isn, NextByteIndex(receiver.reassembler)) = first
    BY <1>1, <1>2, SeqnoResolved
  <2>2. StreamIndex(c, msg) = (first - 1 + syn) % WORD
    BY <1>5, <1>7, <2>1 DEF StreamIndex, Checkpoint, NextByteIndex
  <2> QED
    BY <1>1, <1>3, <2>2
<1>9. InsertPayload(c, msg) = [c EXCEPT !.reassembler = Insert(@, index, Bytes(index, len), fin)]
  BY <1>5, <1>7, <1>8 DEF InsertPayload
<1>10. ReceiverReceive(receiver, msg) = InsertPayload(c, msg)
  BY <1>5, <1>6 DEF ReceiverReceive
<1> QED
  BY <1>2, <1>3, <1>4, <1>7, <1>9, <1>10

(* The window of a reassembler ends no earlier than another's did.          *)
Advanced(w, r) ==
    /\ NextByteIndex(w) >= NextByteIndex(r) /\ WindowEnd(w) >= WindowEnd(r)
    /\ r.output.eof => w.output.eof

(* What has arrived, with the parts of a message that are in the window.    *)
ArrivedWith(numbers, first, len, fin, limit) ==
    LET syn == Flag(first = 0)
    IN  numbers \cup {n \in first + syn .. first + syn + len - 1 : n < limit}
                \cup {n \in {0} : n = first} \cup {n \in {Length + 1} : fin}

(* Inserting the payload of a message accounts for it.                      *)
LEMMA PayloadAccounted ==
    ASSUME Length \in Nat, NEW r, Intact(r, Length, Length), NEW numbers, Accounted(numbers, r),
           NEW first \in Nat, NEW len \in Nat, NEW fin \in BOOLEAN,
           first + Flag(first = 0) + len <= Length + 1,
           fin => first + Flag(first = 0) + len = Length + 1
    PROVE  LET index == first - 1 + Flag(first = 0)
               w == Insert(r, index, Bytes(index, len), fin)
           IN  /\ Intact(w, Length, Length) /\ w.output.capacity = r.output.capacity
               /\ Advanced(w, r)
               /\ Accounted(ArrivedWith(numbers, first, len, fin, 1 + WindowEnd(r)), w)
<1>1. PICK syn \in {0, 1} : syn = Flag(first = 0) /\ (syn = 1 <=> first = 0)
  BY DEF Flag
<1>2. PICK index \in Nat : /\ index = first - 1 + syn /\ index + 1 = first + syn
                           /\ index + len <= Length /\ (fin => index + len = Length)
  BY <1>1
<1>3. PICK data : data = Bytes(index, len) /\ IsRun(data, index) /\ Len(data) = len
  BY RunOfBytes DEF Bytes
<1>4. PICK w : w = Insert(r, index, data, fin) /\ Grown(w, r, index, data, fin, Length, Length)
  BY <1>2, <1>3, InsertResult
<1>5. PICK next \in Nat, end \in Nat, later \in Nat :
          /\ next = NextByteIndex(r) /\ end = WindowEnd(r) /\ end = WindowEnd(w)
          /\ later = NextByteIndex(w) /\ next <= later
  <2>1. Intact(w, Length, Length) /\ w.output.popped = r.output.popped
        /\ w.output.capacity = r.output.capacity /\ NextByteIndex(w) >= NextByteIndex(r)
    BY <1>4 DEF Grown
  <2>2. PICK next \in Nat, end \in Nat : next = NextByteIndex(r) /\ end = WindowEnd(r)
    BY IndexFacts
  <2>3. PICK later \in Nat : later = NextByteIndex(w)
    BY <2>1, IndexFacts
  <2>4. WindowEnd(w) = WindowEnd(r)
    BY <2>1, StoredFacts
  <2> QED
    BY <2>1, <2>2, <2>3, <2>4
<1>6. Intact(w, Length, Length) /\ w.output.capacity = r.output.capacity
  BY <1>4 DEF Grown
<1>7. Advanced(w, r)
  BY <1>4, <1>5, GrownCloses DEF Advanced
<1>8. PICK after : after = ArrivedWith(numbers, first, len, fin, 1 + end)
  OBVIOUS
<1>9. after = numbers \cup {n \in index + 1 .. index + len : n < 1 + end}
                     \cup {n \in {0} : n = first} \cup {n \in {Length + 1} : fin}
  <2>1. first + syn .. first + syn + len - 1 = index + 1 .. index + len
    <3>1. first + syn + len - 1 = index + len
      BY <1>1, <1>2
    <3> QED
      BY <1>2, <3>1
  <2> QED
    BY <1>1, <1>8, <2>1, Zenon DEF ArrivedWith
<1>10. after \subseteq 0 .. Length + 1
  <2>1. \A n \in index + 1 .. index + len : n \in 0 .. Length + 1
    BY <1>2
  <2>2. 0 \in 0 .. Length + 1 /\ Length + 1 \in 0 .. Length + 1
    OBVIOUS
  <2> QED
    BY <1>9, <2>1, <2>2 DEF Accounted
<1>11. ASSUME NEW x \in 0 .. Length - 1
       PROVE  HoldsIndex(w, x) <=> x + 1 \in after
  <2>1. HoldsIndex(w, x) <=> HoldsIndex(r, x) \/ (index <= x /\ x < index + len /\ x < end)
    BY <1>3, <1>4, <1>5 DEF Grown
  <2>2. HoldsIndex(r, x) <=> x + 1 \in numbers
    BY DEF Accounted
  <2>3. x + 1 \in {n \in index + 1 .. index + len : n < 1 + end}
            <=> index <= x /\ x < index + len /\ x < end
    BY <1>5
  <2>4. x + 1 # 0 /\ x + 1 # Length + 1
    OBVIOUS
  <2>5. x + 1 \in after <=> x + 1 \in numbers \/ x + 1 \in {n \in index + 1 .. index + len : n < 1 + end}
    BY <1>9, <2>4
  <2> QED
    BY <2>1, <2>2, <2>3, <2>5
<1>12. ASSUME w.output.eof \/ w.last_byte # NoLastByte
       PROVE  Length + 1 \in after
  <2>1. CASE fin
    BY <1>9, <2>1
  <2>2. CASE ~fin
    <3>1. w.last_byte = r.last_byte
      BY <1>4, <2>2 DEF Grown
    <3>2. CASE r.output.eof \/ r.last_byte # NoLastByte
      BY <1>9, <3>2 DEF Accounted
    <3>3. CASE ~r.output.eof /\ r.last_byte = NoLastByte
      <4>1. w.output.eof
        BY <1>12, <3>1, <3>3
      <4>2. later > next /\ later = Length /\ r.last_byte = Length - 1
        BY <1>4, <1>5, <2>2, <3>1, <3>3, <4>1, GrownClosed
      <4> QED
        BY <1>5, <3>3, <4>2 DEF NoLastByte
    <3> QED
      BY <3>2, <3>3
  <2> QED
    BY <2>1, <2>2
<1>13. Accounted(after, w)
  BY <1>10, <1>11, <1>12 DEF Accounted
<1> QED
  BY <1>1, <1>2, <1>3, <1>4, <1>5, <1>6, <1>7, <1>8, <1>13

-----------------------------------------------------------------------------
(* A message from the sender is accounted for, or it is one before the SYN. *)
LEMMA ReceiveStep ==
    ASSUME IInv, NEW first \in Nat, NEW len \in Nat, NEW fin \in BOOLEAN,
           AbsAckno(receiver) - MaxAge <= first, first <= RightEdge(receiver),
           Receive(first, len, fin)
    PROVE  IInv' /\ Advanced(receiver'.reassembler, receiver.reassembler)
<1>1. Length \in Nat
  BY EnvironmentAssumption
<1>2. /\ first + Flag(first = 0) + len <= Length + 1
      /\ fin => first + Flag(first = 0) + len = Length + 1
      /\ receiver' = ReceiverReceive(receiver, Message(first, len, fin))
      /\ isn' = isn
  BY DEF Receive
<1>3. PICK r : r = receiver.reassembler /\ Intact(r, Length, Length) /\ r.output.capacity = Capacity
  BY DEF IInv, Output
<1>4. PICK end \in Nat, next \in Nat : /\ end = WindowEnd(r) /\ next = NextByteIndex(r)
                                       /\ end = next + AvailableCapacity(r.output)
  BY <1>1, <1>3, IndexFacts DEF WindowEnd
<1>5. CASE ~(receiver.isn_set \/ first = 0)
  <2>1. arrived' = arrived
    BY <1>5 DEF Receive
  <2>2. receiver' = receiver
    BY <1>2, <1>5 DEF ReceiverReceive, NoteSyn, InsertPayload, Message, SenderMessage
  <2>3. IInv'
    BY <1>2, <2>1, <2>2 DEF IInv, Output
  <2>4. Advanced(r, r)
    BY <1>4 DEF Advanced
  <2> QED
    BY <1>3, <2>2, <2>3, <2>4
<1>6. CASE receiver.isn_set \/ first = 0
  <2>1. PICK index : index = first - 1 + Flag(first = 0)
    OBVIOUS
  <2>2. PICK w : w = Insert(r, index, Bytes(index, len), fin)
    OBVIOUS
  <2>3. receiver' = [reassembler |-> w, isn |-> isn, isn_set |-> TRUE]
    BY <1>2, <1>3, <1>6, <2>1, <2>2, ReceivedPayload
  <2>4. /\ Intact(w, Length, Length) /\ w.output.capacity = Capacity /\ Advanced(w, r)
        /\ Accounted(ArrivedWith(arrived, first, len, fin, 1 + end), w)
    <3>1. Accounted(arrived, r)
      BY <1>3 DEF IInv
    <3>2. /\ Intact(w, Length, Length) /\ w.output.capacity = r.output.capacity /\ Advanced(w, r)
          /\ Accounted(ArrivedWith(arrived, first, len, fin, 1 + WindowEnd(r)), w)
      BY <1>1, <1>2, <1>3, <2>1, <2>2, <3>1, PayloadAccounted
    <3> QED
      BY <1>3, <1>4, <3>2
  <2>5. arrived' = ArrivedWith(arrived, first, len, fin, 1 + end)
    <3>1. 1 + BytesPushed(Output) + AvailableCapacity(Output) = 1 + end
      <4>1. /\ BytesPushed(Output) = next
            /\ AvailableCapacity(Output) = AvailableCapacity(r.output)
        BY <1>3, <1>4 DEF NextByteIndex, Output
      <4>2. PICK a \in Int : a = AvailableCapacity(r.output)
        BY <1>3, StreamFacts DEF Intact
      <4> QED
        BY <1>4, <4>1, <4>2
    <3> QED
      BY <1>6, <3>1, Zenon DEF Receive, ArrivedWith
  <2>6. 0 \in arrived'
    BY <1>6, <2>5 DEF ArrivedWith, IInv
  <2>7. w \in Reassemblers
    BY <2>4 DEF Intact, Reassemblers
  <2>8. IInv'
    BY <1>2, <2>3, <2>4, <2>5, <2>6, <2>7 DEF IInv, Output
  <2> QED
    BY <1>3, <2>3, <2>4, <2>8
<1> QED
  BY <1>5, <1>6

(* A message with the RST flag marks the output and nothing else.           *)
LEMMA ResetStep ==
    ASSUME IInv, ReceiveReset
    PROVE  IInv' /\ Advanced(receiver'.reassembler, receiver.reassembler)
<1>1. Length \in Nat
  BY EnvironmentAssumption
<1>2. PICK r : r = receiver.reassembler /\ Intact(r, Length, Length) /\ r.output.capacity = Capacity
  BY DEF IInv, Output
<1>3. PICK t : t = StreamSetError(r.output)
  OBVIOUS
<1>4. PICK w : w = [output |-> t, last_byte |-> r.last_byte, pending |-> r.pending]
  OBVIOUS
<1>5. receiver' = [receiver EXCEPT !.reassembler = w]
  <2>1. [r EXCEPT !.output = t] = w
    BY <1>2, <1>4, RecordFacts
  <2>2. receiver' = [receiver EXCEPT !.reassembler.output = StreamSetError(@)]
    BY DEF ReceiveReset, ReceiverReceive, SenderMessage
  <2>3. receiver' = [receiver EXCEPT !.reassembler = [r EXCEPT !.output = t]]
    BY <1>2, <1>3, <2>2 DEF IInv, Reassemblers
  <2> QED
    BY <2>1, <2>3
<1>6. t = [capacity |-> r.output.capacity, queue |-> r.output.queue, popped |-> r.output.popped,
           eof |-> r.output.eof, error |-> TRUE]
  BY <1>2, <1>3 DEF StreamSetError, Intact, StreamIntact, Streams
<1>7. NextByteIndex(w) = NextByteIndex(r) /\ WindowEnd(w) = WindowEnd(r)
  BY <1>4, <1>6 DEF NextByteIndex, WindowEnd, BytesPushed, AvailableCapacity
<1>8. Intact(w, Length, Length)
  <2>1. StreamIntact(t) /\ t \in Streams(Nat)
    BY <1>2, <1>6 DEF Intact, StreamIntact, Streams
  <2>2. w \in Reassemblers
    BY <1>2, <1>4, <2>1, RecordFacts DEF Reassemblers
  <2> QED
    BY <1>2, <1>4, <1>6, <1>7, <2>1, <2>2 DEF Intact, Reassemblers
<1>9. Accounted(arrived, w)
  BY <1>2, <1>4, <1>6, <1>7 DEF IInv, Accounted, HoldsIndex
<1>10. Advanced(w, r)
  <2>1. \E n \in Nat, e \in Nat : n = NextByteIndex(r) /\ e = WindowEnd(r)
    BY <1>1, <1>2, IndexFacts
  <2> QED
    BY <1>4, <1>6, <1>7, <2>1 DEF Advanced
<1>11. w \in Reassemblers
  BY <1>8 DEF Intact, Reassemblers
<1>12. receiver' = [reassembler |-> w, isn |-> receiver.isn, isn_set |-> receiver.isn_set]
  BY <1>5 DEF IInv
<1>13. w.output.capacity = Capacity /\ isn' = isn /\ arrived' = arrived
  BY <1>2, <1>4, <1>6 DEF ReceiveReset
<1>14. IInv'
  BY <1>8, <1>9, <1>11, <1>12, <1>13 DEF IInv, Output
<1> QED
  BY <1>2, <1>10, <1>12, <1>14

(* A read makes room.                                                       *)
LEMMA PopStep ==
    ASSUME IInv, NEW len \in ReadLen, Pop(len)
    PROVE  IInv' /\ Advanced(receiver'.reassembler, receiver.reassembler)
<1>1. Length \in Nat /\ len \in Nat
  BY EnvironmentAssumption
<1>2. PICK r : r = receiver.reassembler /\ Intact(r, Length, Length) /\ r.output.capacity = Capacity
  BY DEF IInv, Output
<1>3. PICK w : w = [r EXCEPT !.output = StreamPop(@, len)]
  OBVIOUS
<1>4. ReadFrom(w, r, len, Length, Length)
  BY <1>1, <1>2, <1>3, ReadResult
<1>5. receiver' = [reassembler |-> w, isn |-> receiver.isn, isn_set |-> receiver.isn_set]
  <2>1. receiver' = [receiver EXCEPT !.reassembler = w]
    BY <1>2, <1>3 DEF Pop, IInv, Reassemblers
  <2> QED
    BY <2>1 DEF IInv
<1>6. Accounted(arrived, w)
  BY <1>2, <1>4 DEF IInv, Accounted, HoldsIndex, ReadFrom
<1>7. Advanced(w, r)
  <2>1. \E n \in Nat : n = NextByteIndex(r)
    BY <1>1, <1>2, IndexFacts
  <2> QED
    BY <1>4, <2>1 DEF Advanced, ReadFrom
<1>8. w \in Reassemblers /\ Intact(w, Length, Length) /\ w.output.capacity = Capacity
  BY <1>2, <1>4 DEF ReadFrom, Intact, Reassemblers
<1>9. IInv'
  BY <1>5, <1>6, <1>8 DEF IInv, Output, Pop
<1> QED
  BY <1>2, <1>5, <1>7, <1>9

(* Every step keeps the invariant, and the window of the receiver.          *)
LEMMA NextStep ==
    ASSUME IInv, [Next]_vars
    PROVE  IInv' /\ Advanced(receiver'.reassembler, receiver.reassembler)
<1>1. ASSUME NEW first \in AbsAckno(receiver) - MaxAge .. RightEdge(receiver),
             NEW len \in 0 .. MaxPayload, NEW fin \in BOOLEAN,
             first >= 0, Receive(first, len, fin)
      PROVE  IInv' /\ Advanced(receiver'.reassembler, receiver.reassembler)
  <2>1. /\ first \in Nat /\ len \in Nat
        /\ AbsAckno(receiver) - MaxAge <= first /\ first <= RightEdge(receiver)
    <3>1. PICK a \in Int, e \in Int : a = AbsAckno(receiver) - MaxAge /\ e = RightEdge(receiver)
      <4>1. MaxAge \in Nat
        BY EnvironmentAssumption
      <4> QED
        BY <4>1, EdgesAreNumbers
    <3> QED
      BY <1>1, <3>1
  <2> QED
    BY <1>1, <2>1, ReceiveStep
<1>2. CASE UNCHANGED vars
  <2>1. receiver' = receiver /\ isn' = isn /\ arrived' = arrived
    BY <1>2 DEF vars
  <2>2. \E n \in Nat, e \in Nat : n = NextByteIndex(receiver.reassembler)
                                 /\ e = WindowEnd(receiver.reassembler)
    BY EnvironmentAssumption, IndexFacts DEF IInv
  <2> QED
    BY <2>1, <2>2 DEF IInv, Output, Advanced
<1> QED
  BY <1>1, <1>2, ResetStep, PopStep DEF Next

(* So it holds in every reachable state.                                    *)
LEMMA Invariance == Spec => []IInv
<1>1. IInv /\ [Next]_vars => IInv'
  BY NextStep
<1> QED
  BY <1>1, InitIInv, PTL DEF Spec

(* The right edge is the smaller of the end of the window and the most that *)
(* a message can announce, and the FIN: none of them moves back.            *)
LEMMA EdgeAdvances ==
    ASSUME Length \in Nat, NEW c, NEW d, Intact(c.reassembler, Length, Length),
           Intact(d.reassembler, Length, Length), Advanced(d.reassembler, c.reassembler)
    PROVE  RightEdge(d) >= RightEdge(c)
<1>1. MaxWindow \in Nat
  BY ReceiverAssumption
<1>2. \A x : Intact(x.reassembler, Length, Length) =>
          \E next \in Nat, room \in Nat, end \in {0, 1} :
              /\ next = NextByteIndex(x.reassembler) /\ next + room = WindowEnd(x.reassembler)
              /\ (end = 1 <=> x.reassembler.output.eof)
              /\ RightEdge(x) = next + 1 + end + Least(room, MaxWindow)
  <2> SUFFICES ASSUME NEW x, Intact(x.reassembler, Length, Length)
               PROVE  \E next \in Nat, room \in Nat, end \in {0, 1} :
                          /\ next = NextByteIndex(x.reassembler)
                          /\ next + room = WindowEnd(x.reassembler)
                          /\ (end = 1 <=> x.reassembler.output.eof)
                          /\ RightEdge(x) = next + 1 + end + Least(room, MaxWindow)
    OBVIOUS
  <2>1. PICK next \in Nat : next = NextByteIndex(x.reassembler)
    BY IndexFacts
  <2>2. PICK room \in Nat : room = AvailableCapacity(x.reassembler.output)
    <3>1. \E a \in Nat, b \in Nat : b <= a /\ AvailableCapacity(x.reassembler.output) = a - b
      BY StreamFacts DEF Intact
    <3> QED
      BY <3>1
  <2>3. PICK end \in {0, 1} : end = Flag(IsClosed(x.reassembler.output))
                              /\ (end = 1 <=> x.reassembler.output.eof)
    BY DEF Flag, IsClosed
  <2>4. WindowEnd(x.reassembler) = next + room
    BY <2>1, <2>2 DEF WindowEnd
  <2>5. AbsAckno(x) = next + 1 + end
    BY <2>1, <2>3 DEF AbsAckno, NextByteIndex
  <2>6. RightEdge(x) = next + 1 + end + Least(room, MaxWindow)
    BY <2>2, <2>5 DEF RightEdge, WindowSize
  <2> QED
    BY <2>1, <2>3, <2>4, <2>6
<1>3. PICK n \in Nat, a \in Nat, e \in {0, 1} :
          /\ n = NextByteIndex(c.reassembler) /\ n + a = WindowEnd(c.reassembler)
          /\ (e = 1 <=> c.reassembler.output.eof)
          /\ RightEdge(c) = n + 1 + e + Least(a, MaxWindow)
  BY <1>2
<1>4. PICK m \in Nat, b \in Nat, f \in {0, 1} :
          /\ m = NextByteIndex(d.reassembler) /\ m + b = WindowEnd(d.reassembler)
          /\ (f = 1 <=> d.reassembler.output.eof)
          /\ RightEdge(d) = m + 1 + f + Least(b, MaxWindow)
  BY <1>2
<1>5. m >= n /\ m + b >= n + a /\ f >= e
  BY <1>3, <1>4 DEF Advanced
<1>6. m + 1 + f + Least(b, MaxWindow) >= n + 1 + e + Least(a, MaxWindow)
  BY <1>1, <1>5 DEF Least
<1> QED
  BY <1>3, <1>4, <1>6

-----------------------------------------------------------------------------
(* TCPReceiver.TypeOK for every instance: the ISN that the receiver keeps   *)
(* is the sender's, it announces a window that the message can hold, and    *)
(* no more than the stream is written.                                      *)
THEOREM ReceiverTypeOK == Spec => []TypeOK
<1>1. IInv => TypeOK
  <2> SUFFICES ASSUME IInv PROVE TypeOK
    OBVIOUS
  <2>1. PICK next \in Nat, window \in Nat, end \in {0, 1} :
            /\ next = NextByteIndex(receiver.reassembler) /\ next <= Length
            /\ window = WindowSize(receiver) /\ window <= Least(Capacity, MaxWindow)
            /\ AbsAckno(receiver) = next + 1 + end
    BY EdgesAreNumbers
  <2>2. Least(Capacity, MaxWindow) \in Int
    BY EnvironmentAssumption, ReceiverAssumption DEF Least
  <2>3. ReceiverSend(receiver).window_size \in 0 .. Least(Capacity, MaxWindow)
    BY <2>1, <2>2 DEF ReceiverSend, ReceiverMessage
  <2>4. Output.popped + Len(Output.queue) <= Length
    BY <2>1 DEF NextByteIndex, BytesPushed, Output
  <2>5. receiver.isn_set => receiver.isn = isn
    BY DEF IInv
  <2>6. receiver.isn_set => Wrap(AbsAckno(receiver), receiver.isn) \in Seqnos
    <3>1. PICK k \in Int, m \in Int : k = AbsAckno(receiver) /\ m = receiver.isn
      BY <2>1, WrapAssumption DEF IInv, Seqnos
    <3> QED
      BY <3>1, WrapAssumption DEF Wrap, Seqnos
  <2>7. ReceiverSend(receiver).ackno \in Seqnos \cup {NoAckno}
    BY <2>6 DEF ReceiverSend, ReceiverMessage
  <2> QED
    BY <2>3, <2>4, <2>5, <2>7 DEF TypeOK
<1> QED
  BY <1>1, Invariance, PTL

(* ReaderGetsStream for every instance: however often sequence numbers wrap *)
(* around, the bytes come to the reader in their places.                    *)
THEOREM ReceiverReaderGetsStream == Spec => []ReaderGetsStream
<1>1. IInv => ReaderGetsStream
  BY LenProperties DEF IInv, Intact, StreamIntact, IsRun, ReaderGetsStream, Output
<1> QED
  BY <1>1, Invariance, PTL

(* AcksOnlyArrived for every instance: the receiver acknowledges no byte,   *)
(* SYN or FIN that has not arrived.                                         *)
THEOREM ReceiverAcksOnlyArrived == Spec => []AcksOnlyArrived
<1>1. IInv => AcksOnlyArrived
  <2> SUFFICES ASSUME IInv, receiver.isn_set PROVE 0 .. AbsAckno(receiver) - 1 \subseteq arrived
    BY DEF AcksOnlyArrived
  <2>1. PICK next \in Nat, end \in {0, 1} :
            /\ next = NextByteIndex(receiver.reassembler) /\ next <= Length
            /\ end = Flag(IsClosed(Output)) /\ (end = 1 => next = Length)
            /\ AbsAckno(receiver) = next + 1 + end
    BY EdgesAreNumbers
  <2>2. 0 \in arrived /\ Accounted(arrived, receiver.reassembler)
    BY DEF IInv
  <2>3. ASSUME NEW n \in 1 .. next
        PROVE  n \in arrived
    <3>1. n - 1 \in 0 .. Length - 1 /\ n - 1 < next /\ (n - 1) + 1 = n
      BY <2>1, EnvironmentAssumption
    <3>2. HoldsIndex(receiver.reassembler, n - 1)
      BY <2>1, <3>1 DEF HoldsIndex
    <3> QED
      BY <2>2, <3>1, <3>2 DEF Accounted
  <2>4. end = 1 => next + 1 \in arrived
    <3>1. end = 1 => receiver.reassembler.output.eof
      BY <2>1 DEF Flag, IsClosed, Output
    <3> QED
      BY <2>1, <2>2, <3>1 DEF Accounted
  <2>5. ASSUME NEW n \in 0 .. next + end
        PROVE  n \in arrived
    <3>1. n = 0 \/ n \in 1 .. next \/ (end = 1 /\ n = next + 1)
      BY <2>1
    <3> QED
      BY <2>2, <2>3, <2>4, <3>1
  <2>6. AbsAckno(receiver) - 1 = next + end
    BY <2>1
  <2> QED
    BY <2>5, <2>6
<1> QED
  BY <1>1, Invariance, PTL

(* ArrivedIsHeld for every instance: bytes that arrived in the window need  *)
(* not be sent again.                                                       *)
THEOREM ReceiverArrivedIsHeld == Spec => []ArrivedIsHeld
<1>1. IInv => ArrivedIsHeld
  <2> SUFFICES ASSUME IInv, NEW n \in arrived, n # 0, n # Length + 1 PROVE n \in Held
    BY DEF ArrivedIsHeld
  <2>1. PICK r : r = receiver.reassembler /\ Intact(r, Length, Length) /\ Accounted(arrived, r)
    BY DEF IInv
  <2>2. n \in 1 .. Length /\ n - 1 \in 0 .. Length - 1 /\ (n - 1) + 1 = n
    BY <2>1, EnvironmentAssumption DEF Accounted
  <2>3. HoldsIndex(r, n - 1)
    BY <2>1, <2>2 DEF Accounted
  <2>4. PICK next \in Nat : next = NextByteIndex(r)
    BY <2>1, EnvironmentAssumption, IndexFacts
  <2>5. CASE n - 1 < next
    <3>1. n \in 1 .. next
      BY <2>2, <2>4, <2>5
    <3> QED
      BY <2>1, <2>4, <3>1 DEF Held, Output, NextByteIndex
  <2>6. CASE CoveredBy(r.pending, n - 1)
    <3>1. PICK k \in DOMAIN r.pending : r.pending[k].first <= n - 1 /\ n - 1 < EndOf(r.pending[k])
      BY <2>6 DEF CoveredBy, Covers
    <3>2. InPlace(r.pending[k])
      BY <2>1 DEF Intact, BlocksWithin, AllInPlace
    <3>3. PICK f \in Nat, e \in Nat : f = r.pending[k].first /\ e = EndOf(r.pending[k])
      BY <3>2, BlockFacts
    <3>4. n \in f + 1 .. e
      BY <2>2, <3>1, <3>3
    <3>5. n \in Pending[k].first + 1 .. EndOf(Pending[k]) /\ k \in DOMAIN Pending
      BY <2>1, <3>3, <3>4 DEF Pending
    <3> QED
      BY <3>5 DEF Held
  <2> QED
    BY <2>3, <2>4, <2>5, <2>6 DEF HoldsIndex
<1> QED
  BY <1>1, Invariance, PTL

(* RightEdgeNeverShrinks for every instance: whatever arrives and is read,  *)
(* room that was once promised stays promised.                              *)
THEOREM ReceiverRightEdgeNeverShrinks == Spec => RightEdgeNeverShrinks
<1>1. IInv /\ [Next]_vars => [RightEdge(receiver') >= RightEdge(receiver)]_vars
  <2> SUFFICES ASSUME IInv, [Next]_vars PROVE RightEdge(receiver') >= RightEdge(receiver)
    OBVIOUS
  <2>1. IInv' /\ Advanced(receiver'.reassembler, receiver.reassembler)
    BY NextStep
  <2>2. PICK before, after :
            /\ before = receiver /\ after = receiver'
            /\ Intact(before.reassembler, Length, Length) /\ Intact(after.reassembler, Length, Length)
            /\ Advanced(after.reassembler, before.reassembler)
    BY <2>1 DEF IInv
  <2>3. RightEdge(after) >= RightEdge(before)
    BY <2>2, EnvironmentAssumption, EdgeAdvances
  <2> QED
    BY <2>2, <2>3
<1> QED
  BY <1>1, Invariance, PTL DEF Spec, RightEdgeNeverShrinks
=============================================================================

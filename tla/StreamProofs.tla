---------------------------- MODULE StreamProofs ----------------------------
(***************************************************************************)
(* Reassembler, for every capacity, length of the stream, set of           *)
(* substrings and read lengths: what is written and stored are bytes of    *)
(* the stream in their places, within the capacity; and, if a substring    *)
(* that reaches the end of the stream always says so, every insertion does *)
(* what ReassemblerSpec promises.                                          *)
(*                                                                         *)
(* Then ByteStream, for every capacity, every set of strings pushed and    *)
(* every length read: the slot indices stay in range, the counters agree,  *)
(* and the ring buffer implements the bounded FIFO of ByteStreamSpec.      *)
(***************************************************************************)
EXTENDS Reassembler, OpsProofs

(* The inductive invariant: the reassembler is intact.                      *)
IInv == Intact(reassembler, Length, Length) /\ Output.capacity = Capacity

(* A new reassembler is intact.                                             *)
LEMMA InitIInv == Init => IInv
BY ReassemblerAssumption, NewResult DEF Init, IInv, Output

(* What the arrival of a substring does, in terms of the substring alone.   *)
LEMMA ReceiveResult ==
    ASSUME IInv, NEW sub \in Substring, Receive(sub)
    PROVE  /\ Grown(reassembler', reassembler, sub.first, Bytes(sub.first, sub.len),
                    sub.last, Length, Length)
           /\ Len(Bytes(sub.first, sub.len)) = sub.len
           /\ Bytes(sub.first, sub.len) = <<>> <=> sub.len = 0
<1>1. /\ sub.first \in Nat /\ sub.len \in Nat /\ sub.last \in BOOLEAN /\ Length \in Nat
      /\ sub.first + sub.len <= Length
      /\ sub.last => sub.first + sub.len = Length
  BY ReassemblerAssumption
<1>2. PICK data : data = Bytes(sub.first, sub.len)
  OBVIOUS
<1>3. IsRun(data, sub.first) /\ Len(data) = sub.len
  BY <1>1, <1>2, RunOfBytes DEF Bytes
<1>4. data = <<>> <=> sub.len = 0
  BY <1>3, EmptySeq DEF IsRun
<1>5. sub.first + Len(data) <= Length /\ (sub.last => sub.first + Len(data) = Length)
  BY <1>1, <1>3
<1>6. Grown(Insert(reassembler, sub.first, data, sub.last), reassembler, sub.first, data,
            sub.last, Length, Length)
  BY <1>1, <1>3, <1>5, InsertResult DEF IInv
<1> QED
  BY <1>2, <1>3, <1>4, <1>6 DEF Receive

(* A read takes bytes off the output and leaves the rest as it is.          *)
LEMMA PopStep ==
    ASSUME IInv, NEW len \in ReadLen, Pop(len)
    PROVE  /\ IInv'
           /\ Output'.popped = Least(Output.popped + len, NextByteIndex(reassembler))
           /\ NextByteIndex(reassembler)' = NextByteIndex(reassembler)
           /\ Output'.eof = Output.eof
           /\ reassembler'.last_byte = reassembler.last_byte
           /\ Pending' = Pending
<1>1. len \in Nat /\ Length \in Nat
  BY ReassemblerAssumption
<1>2. PICK r, w : r = reassembler /\ w = reassembler' /\ Intact(r, Length, Length)
                  /\ w = [r EXCEPT !.output = StreamPop(@, len)]
  BY DEF IInv, Pop
<1>3. ReadFrom(w, r, len, Length, Length)
  BY <1>1, <1>2, ReadResult
<1> QED
  BY <1>2, <1>3 DEF ReadFrom, IInv, Output, Pending, NextByteIndex

(* Arrivals and reads leave it intact.                                      *)
LEMMA NextIInv == IInv /\ [Next]_vars => IInv'
<1> SUFFICES ASSUME IInv, [Next]_vars PROVE IInv'
  OBVIOUS
<1>1. ASSUME NEW sub \in Substring, Receive(sub) PROVE IInv'
  <2>1. Grown(reassembler', reassembler, sub.first, Bytes(sub.first, sub.len), sub.last, Length, Length)
    BY <1>1, ReceiveResult
  <2> QED
    BY <2>1 DEF Grown, IInv, Output
<1>2. ASSUME NEW len \in ReadLen, Pop(len) PROVE IInv'
  BY <1>2, PopStep
<1>3. CASE UNCHANGED vars
  BY <1>3 DEF vars, IInv, Output
<1> QED
  BY <1>1, <1>2, <1>3 DEF Next

(* So it is in every reachable state.                                       *)
LEMMA Invariance == Spec => []IInv
<1>1. Init => IInv
  BY InitIInv
<1>2. IInv /\ [Next]_vars => IInv'
  BY NextIInv
<1> QED
  BY <1>1, <1>2, PTL DEF Spec

-----------------------------------------------------------------------------
(* Reassembler.TypeOK for every capacity, stream and set of substrings: no  *)
(* more is buffered than the capacity, and no index passes the end of the   *)
(* stream.                                                                  *)
THEOREM ReassemblerTypeOK == Spec => []TypeOK
<1>1. IInv => TypeOK
  <2> SUFFICES ASSUME IInv PROVE TypeOK
    OBVIOUS
  <2>1. Length \in Nat /\ Intact(reassembler, Length, Length) /\ StreamIntact(Output)
    BY ReassemblerAssumption DEF IInv, Intact, Output
  <2>2. PICK next \in Nat, end \in Nat :
            /\ next = NextByteIndex(reassembler) /\ end = WindowEnd(reassembler)
            /\ next <= end /\ next <= Length
    BY <2>1, IndexFacts
  <2>3. PICK queue : queue = Output.queue
    OBVIOUS
  <2>4. PICK c \in Nat, q \in Nat, p \in Nat :
            /\ c = Output.capacity /\ q = Len(queue) /\ p = Output.popped /\ q <= c
            /\ BytesPushed(Output) = p + q
            /\ Output.eof \in BOOLEAN /\ Output.error \in BOOLEAN
            /\ Output = [capacity |-> c, queue |-> queue, popped |-> p,
                         eof |-> Output.eof, error |-> Output.error]
    BY <2>3, <2>1, StreamFacts
  <2>5. p + q <= Length
    BY <2>2, <2>4 DEF NextByteIndex, Output
  <2>6. queue \in Seq(0 .. Length)
    <3>1. queue \in Seq(Nat) /\ \A j \in 1 .. q : queue[j] = p + j - 1
      BY <2>3, <2>1, <2>4 DEF StreamIntact, IsRun
    <3>2. \A j \in 1 .. q : p + j - 1 \in 0 .. Length
      BY <2>1, <2>5
    <3>3. q \in Nat /\ queue \in [1 .. q -> 0 .. Length]
      BY <2>4, <3>1, <3>2, LenProperties
    <3> QED
      BY ONLY <3>3, SeqDef
  <2>7. Output \in Streams(0 .. Length)
    BY <2>4, <2>6 DEF Streams
  <2>8. ASSUME NEW k \in DOMAIN Pending
        PROVE  Pending[k].first \in 0 .. Length
    <3>1. /\ AllInPlace(Pending)
          /\ EndOf(Pending[k]) <= Least(end, Length)
      BY <2>1, <2>2, <2>8 DEF Intact, BlocksWithin, Pending
    <3>2. PICK f \in Nat, e \in Nat : f = Pending[k].first /\ e = EndOf(Pending[k]) /\ f <= e
      BY <2>8, <3>1, BlockFacts DEF AllInPlace
    <3>3. e <= Length
      BY <2>1, <2>2, <3>1, <3>2 DEF Least
    <3> QED
      BY <2>1, <3>2, <3>3
  <2>9. reassembler.last_byte \in -1 .. Length
    BY <2>1 DEF Intact, NoLastByte
  <2>10. Output.capacity = Capacity
    BY DEF IInv
  <2>11. Len(Output.queue) <= Capacity
    BY <2>4, <2>10
  <2> QED
    BY <2>3, <2>4, <2>5, <2>7, <2>8, <2>9, <2>10, <2>11 DEF TypeOK, Output
<1> QED
  BY <1>1, Invariance, PTL

(* BytesInPlace for every instance: in whatever order substrings arrive,    *)
(* overlap and repeat, the reader gets the bytes of the stream, and the     *)
(* Reassembler and its output together hold no more than the capacity.      *)
THEOREM ReassemblerBytesInPlace == Spec => []BytesInPlace
<1>1. IInv => BytesInPlace
  <2> SUFFICES ASSUME IInv PROVE BytesInPlace
    OBVIOUS
  <2>1. Length \in Nat /\ Intact(reassembler, Length, Length) /\ StreamIntact(Output)
    BY ReassemblerAssumption DEF IInv, Intact, Output
  <2>2. PICK next \in Nat, end \in Nat :
            /\ next = NextByteIndex(reassembler) /\ end = WindowEnd(reassembler)
            /\ next <= end /\ next <= Length
    BY <2>1, IndexFacts
  <2>3. PICK c \in Nat, q \in Nat : /\ c = Capacity /\ q = Len(Output.queue)
                                    /\ AvailableCapacity(Output) = c - q
    BY <2>1, StreamFacts DEF IInv
  <2>4. \A k \in DOMAIN Output.queue : Output.queue[k] = Output.popped + k - 1
    BY <2>1, LenProperties DEF StreamIntact, IsRun
  <2>5. CountBytesPending(reassembler) + Len(Output.queue) <= Capacity
    <3>1. PICK b \in Nat : b = CountBytesPending(reassembler) /\ b <= c - q
      BY <2>1, <2>3, PendingFits DEF Output
    <3> QED
      BY <2>3, <3>1
  <2>6. AllInPlace(Pending) /\ Apart(Pending)
        /\ \A k \in DOMAIN Pending : /\ next + 1 <= Pending[k].first
                                     /\ EndOf(Pending[k]) <= Least(end, Length)
    BY <2>1, <2>2 DEF Intact, BlocksWithin, Pending
  <2>7. DOMAIN Pending = 1 .. Len(Pending) /\ Len(Pending) \in Nat
    BY <2>6, SequenceFacts
  <2>8. ASSUME NEW k \in DOMAIN Pending
        PROVE  /\ Pending[k].data = Bytes(Pending[k].first, Len(Pending[k].data))
               /\ Pending[k].first > NextByteIndex(reassembler)
               /\ EndOf(Pending[k]) <= WindowEnd(reassembler)
               /\ k > 1 => EndOf(Pending[k - 1]) < Pending[k].first
    <3>1. InPlace(Pending[k])
      BY <2>6, <2>8 DEF AllInPlace
    <3>2. PICK f \in Nat, e \in Nat : f = Pending[k].first /\ e = EndOf(Pending[k]) /\ f <= e
      BY <3>1, BlockFacts
    <3>3. Pending[k].data = Bytes(f, Len(Pending[k].data))
      BY <3>1, <3>2, RunIsBytes DEF Bytes, InPlace
    <3>4. next + 1 <= f /\ e <= Least(end, Length)
      BY <2>6, <2>8, <3>2
    <3>5. f > next /\ e <= end
      BY <2>1, <3>4 DEF Least
    <3>6. k > 1 => EndOf(Pending[k - 1]) < Pending[k].first
      <4>1. k > 1 => k - 1 \in DOMAIN Pending /\ k - 1 < k
        BY <2>7, <2>8
      <4> QED
        BY <2>6, <2>8, <4>1 DEF Apart
    <3> QED
      BY <2>2, <3>2, <3>3, <3>5, <3>6
  <2> QED
    BY <2>4, <2>5, <2>8 DEF BytesInPlace
<1> QED
  BY <1>1, Invariance, PTL

-----------------------------------------------------------------------------
(* Once all bytes are written and the last is known to be the last, the     *)
(* output is closed.                                                        *)
EndIsKnown ==
    Length > 0 /\ NextByteIndex(reassembler) = Length /\ reassembler.last_byte # NoLastByte
        => IsClosed(Output)

RInv == IInv /\ EndIsKnown

(* A new reassembler knows of no end.                                       *)
LEMMA InitRInv == Init => RInv
<1> SUFFICES ASSUME Init PROVE RInv
  OBVIOUS
<1>1. IInv
  BY InitIInv
<1>2. reassembler.last_byte = NoLastByte
  BY DEF Init, NewReassembler
<1> QED
  BY <1>1, <1>2 DEF RInv, EndIsKnown

(* An arrival that completes the stream closes the output: if it brings the *)
(* last byte, because that is known to be the last; if it brings the end    *)
(* after the last byte, because then it brings nothing else.                *)
LEMMA ReceiveKnown ==
    ASSUME RInv, NEW sub \in Substring, Receive(sub)
    PROVE  RInv'
<1>1. /\ sub.first \in Nat /\ sub.len \in Nat /\ sub.last \in BOOLEAN /\ Length \in Nat
      /\ sub.first + sub.len <= Length
      /\ sub.last => sub.first + sub.len = Length
  BY ReassemblerAssumption
<1>2. PICK data : /\ data = Bytes(sub.first, sub.len)
                  /\ Grown(reassembler', reassembler, sub.first, data, sub.last, Length, Length)
                  /\ Len(data) = sub.len /\ (data = <<>> <=> sub.len = 0)
  BY ReceiveResult DEF RInv
<1>3. PICK next \in Nat : next = NextByteIndex(reassembler) /\ next <= Length
  BY <1>1, IndexFacts DEF RInv, IInv
<1>4. PICK later \in Nat : later = NextByteIndex(reassembler') /\ later <= Length /\ later >= next
  BY <1>1, <1>2, <1>3, IndexFacts DEF Grown
<1>5. IInv'
  BY <1>2 DEF Grown, RInv, IInv, Output
<1>6. PICK last, lastAfter :
          /\ last = reassembler.last_byte /\ last \in {-1, Length - 1}
          /\ lastAfter = reassembler'.last_byte /\ lastAfter \in {-1, Length - 1}
          /\ lastAfter = IF sub.last /\ ~(data = <<>> /\ sub.first = next) THEN Length - 1 ELSE last
  BY <1>2, <1>3 DEF Grown, RInv, IInv, Intact, NoLastByte
<1>7. SUFFICES ASSUME Length > 0, later = Length, lastAfter # -1
               PROVE  IsClosed(Output')
  BY <1>4, <1>5, <1>6 DEF RInv, EndIsKnown, NextByteIndex, NoLastByte
<1>8. /\ IsClosed(Output) => IsClosed(Output')
      /\ later > next => IsClosed(Output')
  <2>1. PICK w, r : w = reassembler' /\ r = reassembler /\ Grown(w, r, sub.first, data, sub.last, Length, Length)
    BY <1>2
  <2>2. /\ r.output.eof => w.output.eof
        /\ NextByteIndex(w) > NextByteIndex(r) /\ NextByteIndex(w) = Length
               /\ w.last_byte = Length - 1 => w.output.eof
    BY <2>1, GrownCloses
  <2>3. NextByteIndex(r) = next /\ NextByteIndex(w) = later /\ w.last_byte = Length - 1
    BY <1>3, <1>4, <1>6, <1>7, <2>1
  <2> QED
    BY <1>7, <2>1, <2>2, <2>3 DEF IsClosed, Output
<1>9. CASE later > next
  BY <1>8, <1>9
<1>10. CASE later = next
  <2>1. NextByteIndex(reassembler) = Length
    BY <1>3, <1>7, <1>10
  <2>2. CASE last # -1
    <3>1. IsClosed(Output)
      BY <1>6, <1>7, <2>1, <2>2 DEF RInv, EndIsKnown, NoLastByte
    <3> QED
      BY <1>8, <3>1, Zenon
  <2>3. CASE last = -1
    <3>1. sub.last /\ ~(data = <<>> /\ sub.first = next)
      BY <1>6, <1>7, <2>3
    <3>2. sub.len > 0
      BY <1>1, <1>2, <1>3, <2>1, <3>1
    <3>3. NextByteIndex(reassembler) < Length \/ IsClosed(Output)
      BY <3>1, <3>2 DEF Receive, EndAsSent, Output
    <3>4. IsClosed(Output)
      BY <1>1, <1>3, <2>1, <3>3
    <3> QED
      BY <1>8, <3>4, Zenon
  <2> QED
    BY <2>2, <2>3
<1> QED
  BY <1>4, <1>9, <1>10

(* No step loses what is known of the end.                                  *)
LEMMA NextRInv == ASSUME RInv, [Next]_vars PROVE RInv'
<1>1. ASSUME NEW sub \in Substring, Receive(sub) PROVE RInv'
  BY <1>1, ReceiveKnown
<1>2. ASSUME NEW len \in ReadLen, Pop(len) PROVE RInv'
  BY <1>2, PopStep DEF RInv, EndIsKnown, IsClosed
<1>3. CASE UNCHANGED vars
  BY <1>3 DEF vars, RInv, IInv, EndIsKnown, Output
<1> QED
  BY <1>1, <1>2, <1>3 DEF Next

-----------------------------------------------------------------------------
(* The least element of a set of numbers is the one below all others.       *)
LEMMA MinIs ==
    ASSUME NEW S, S \subseteq Int, NEW m \in S, \A y \in S : m <= y
    PROVE  Min(S) = m
<1>1. \E x \in S : \A y \in S : x <= y
  OBVIOUS
<1>2. PICK x : x = Min(S) /\ x \in S /\ \A y \in S : x <= y
  BY <1>1 DEF Min
<1>3. m <= x /\ x <= m /\ x \in Int /\ m \in Int
  BY <1>2
<1> QED
  BY <1>2, <1>3

(* What is written and stored after an arrival, as the abstraction says.    *)
LEMMA ReceiveStores ==
    ASSUME IInv, NEW sub \in Substring, Receive(sub)
    PROVE  LET known == Stored \cup ((sub.first .. sub.first + sub.len - 1)
                                         \cap (NextByteIndex(reassembler) .. Output.popped + Capacity - 1))
           IN  /\ NextByteIndex(reassembler') =
                       Min((NextByteIndex(reassembler) .. Output.popped + Capacity) \ known)
               /\ Stored' = {i \in known : i > NextByteIndex(reassembler')}
<1>1. sub.first \in Nat /\ sub.len \in Nat /\ Length \in Nat /\ Capacity \in Nat
  BY ReassemblerAssumption
<1>2. PICK r, w : /\ r = reassembler /\ w = reassembler'
                  /\ Intact(r, Length, Length) /\ Intact(w, Length, Length)
                  /\ w.output.popped = r.output.popped
                  /\ r.output.capacity = Capacity /\ w.output.capacity = Capacity
                  /\ NextByteIndex(w) >= NextByteIndex(r)
                  /\ \A x \in Nat : HoldsIndex(w, x) <=>
                         HoldsIndex(r, x) \/ (sub.first <= x /\ x < sub.first + sub.len /\ x < WindowEnd(r))
  BY ReceiveResult DEF IInv, Output, Grown
<1>3. PICK next \in Nat, later \in Nat, end \in Nat, p \in Nat :
          /\ next = NextByteIndex(r) /\ later = NextByteIndex(w) /\ next <= later /\ later <= end
          /\ end = WindowEnd(r) /\ end = WindowEnd(w)
          /\ p = r.output.popped /\ end = p + Capacity
  <2>1. PICK next \in Nat, end \in Nat : next = NextByteIndex(r) /\ end = WindowEnd(r)
    BY <1>1, <1>2, IndexFacts
  <2>2. PICK later \in Nat, e \in Nat : later = NextByteIndex(w) /\ e = WindowEnd(w) /\ later <= e
    BY <1>1, <1>2, IndexFacts
  <2>3. /\ WindowEnd(r) = r.output.popped + r.output.capacity /\ r.output.popped \in Nat
        /\ WindowEnd(w) = w.output.popped + w.output.capacity
    BY <1>1, <1>2, StoredFacts
  <2> QED
    BY <1>2, <2>1, <2>2, <2>3
<1>4. PICK known : known = StoredIndices(r) \cup ((sub.first .. sub.first + sub.len - 1)
                                                    \cap (next .. end - 1))
  OBVIOUS
<1>5. known \subseteq Nat /\ \A x \in known : x >= next
  BY <1>1, <1>2, <1>3, <1>4, StoredFacts
<1>6. ASSUME NEW x \in Nat, x >= next
      PROVE  x \in known <=> HoldsIndex(w, x)
  <2>1. HoldsIndex(r, x) <=> x \in StoredIndices(r)
    BY <1>1, <1>2, <1>3, <1>6, StoredFacts DEF HoldsIndex
  <2>2. HoldsIndex(w, x) <=> HoldsIndex(r, x) \/ (sub.first <= x /\ x < sub.first + sub.len /\ x < end)
    BY <1>2, <1>3
  <2>3. x \in (sub.first .. sub.first + sub.len - 1) \cap (next .. end - 1)
            <=> sub.first <= x /\ x < sub.first + sub.len /\ x < end
    <3>1. PICK f \in Nat, n \in Nat : f = sub.first /\ n = sub.len
      BY <1>1
    <3> QED
      BY <1>6, <3>1
  <2> QED
    BY <1>4, <2>1, <2>2, <2>3
<1>7. \A x \in Nat : CoveredBy(w.pending, x) => later < x
  BY <1>1, <1>2, <1>3, StoredFacts
<1>8. \A x \in Nat : HoldsIndex(w, x) <=> x < later \/ CoveredBy(w.pending, x)
  BY <1>3 DEF HoldsIndex
<1>9. later = Min((next .. end) \ known)
  <2>1. later \in (next .. end) \ known
    BY <1>3, <1>6, <1>7, <1>8
  <2>2. ASSUME NEW y \in (next .. end) \ known
        PROVE  later <= y
    BY <1>3, <1>6, <1>8, <2>2
  <2> QED
    BY <2>1, <2>2, MinIs
<1>10. StoredIndices(w) = {i \in known : i > later}
  <2>1. StoredIndices(w) \subseteq Nat
        /\ \A x \in Nat : x \in StoredIndices(w) <=> CoveredBy(w.pending, x)
    BY <1>1, <1>2, StoredFacts
  <2>2. ASSUME NEW x \in Nat
        PROVE  CoveredBy(w.pending, x) <=> x \in known /\ x > later
    <3>1. CASE x > later
      <4>1. x >= next /\ ~(x < later)
        BY <1>3, <3>1
      <4> QED
        BY <1>6, <1>8, <3>1, <4>1
    <3>2. CASE ~(x > later)
      BY <1>3, <1>7, <3>2
    <3> QED
      BY <3>1, <3>2
  <2> QED
    BY <1>5, <2>1, <2>2
<1>11. Stored = StoredIndices(r) /\ Stored' = StoredIndices(w) /\ Output.popped = p
  BY <1>2, <1>3 DEF Stored, StoredIndices, Pending, Output
<1>12. NextByteIndex(reassembler) = next /\ NextByteIndex(reassembler') = later
  BY <1>2, <1>3
<1>13. known = Stored \cup ((sub.first .. sub.first + sub.len - 1)
                                \cap (NextByteIndex(reassembler) .. Output.popped + Capacity - 1))
  <2>1. Output.popped + Capacity - 1 = end - 1
    BY <1>1, <1>3, <1>11
  <2> QED
    BY <1>4, <1>11, <1>12, <2>1, Zenon
<1>14. later = Min((NextByteIndex(reassembler) .. Output.popped + Capacity) \ known)
  BY <1>3, <1>9, <1>11, <1>12
<1> QED
  BY <1>10, <1>11, <1>12, <1>13, <1>14

LastIndex(r) == IF IsClosed(r.output) \/ r.last_byte # NoLastByte THEN Length ELSE -1

(* The end of the stream is known, and the output closed, as it says.       *)
LEMMA ReceiveEnds ==
    ASSUME RInv, NEW sub \in Substring, Receive(sub)
    PROVE  /\ LastIndex(reassembler') =
                  IF sub.last THEN sub.first + sub.len ELSE LastIndex(reassembler)
           /\ IsClosed(Output') = (IsClosed(Output) \/ NextByteIndex(reassembler') = LastIndex(reassembler'))
<1>1. /\ sub.first \in Nat /\ sub.len \in Nat /\ sub.last \in BOOLEAN /\ Length \in Nat
      /\ sub.first + sub.len <= Length
      /\ sub.last => sub.first + sub.len = Length
  BY ReassemblerAssumption
<1>2. PICK data : /\ data = Bytes(sub.first, sub.len)
                  /\ Grown(reassembler', reassembler, sub.first, data, sub.last, Length, Length)
                  /\ Len(data) = sub.len /\ (data = <<>> <=> sub.len = 0)
  BY ReceiveResult DEF RInv
<1>3. PICK next \in Nat : next = NextByteIndex(reassembler) /\ next <= Length
  BY <1>1, IndexFacts DEF RInv, IInv
<1>4. PICK later \in Nat : later = NextByteIndex(reassembler') /\ later <= Length /\ later >= next
  BY <1>1, <1>2, <1>3, IndexFacts DEF Grown
<1>5. PICK last, lastAfter :
          /\ last = reassembler.last_byte /\ last \in {-1, Length - 1}
          /\ lastAfter = reassembler'.last_byte /\ lastAfter \in {-1, Length - 1}
          /\ lastAfter = IF sub.last /\ ~(data = <<>> /\ sub.first = next) THEN Length - 1 ELSE last
  BY <1>2, <1>3 DEF Grown, RInv, IInv, Intact, NoLastByte
<1>6. PICK closed, closedAfter :
          /\ closed \in BOOLEAN /\ closed = IsClosed(Output)
          /\ closedAfter \in BOOLEAN /\ closedAfter = IsClosed(Output')
          /\ closedAfter <=> \/ closed
                             \/ sub.last /\ data = <<>> /\ sub.first = next
                             \/ later > next /\ later = Length /\ lastAfter = Length - 1
  <2>1. PICK w, r : w = reassembler' /\ r = reassembler /\ Grown(w, r, sub.first, data, sub.last, Length, Length)
    BY <1>2
  <2>2. w.output.eof \in BOOLEAN /\ r.output.eof \in BOOLEAN
    BY <1>1, <1>2, <2>1, StoredFacts DEF Grown, RInv, IInv
  <2>3. IsClosed(Output') = w.output.eof /\ IsClosed(Output) = r.output.eof
    BY <2>1 DEF IsClosed, Output
  <2>4. NextByteIndex(r) = next /\ NextByteIndex(w) = later /\ w.last_byte = lastAfter
    BY <1>3, <1>4, <1>5, <2>1
  <2>5. /\ r.output.eof => w.output.eof
        /\ later > next /\ later = Length /\ lastAfter = Length - 1 => w.output.eof
        /\ sub.last /\ data = <<>> /\ sub.first = next => w.output.eof
    BY <2>1, <2>4, GrownCloses
  <2>6. PICK a \in BOOLEAN, b \in BOOLEAN : a = r.output.eof /\ b = w.output.eof
    BY <2>2
  <2>7. ASSUME b, ~a, ~(sub.last /\ data = <<>> /\ sub.first = next)
        PROVE  later > next /\ later = Length /\ lastAfter = Length - 1
    <3>1. /\ w.output.eof /\ ~r.output.eof
          /\ ~(sub.last /\ data = <<>> /\ sub.first = NextByteIndex(r))
      BY <2>4, <2>6, <2>7
    <3>2. /\ NextByteIndex(w) > NextByteIndex(r) /\ NextByteIndex(w) = Length
          /\ w.last_byte = Length - 1
      BY <2>1, <3>1, GrownClosed
    <3> QED
      BY <2>4, <3>2
  <2> QED
    BY <2>3, <2>5, <2>6, <2>7
<1>7. Length > 0 /\ later = Length /\ lastAfter # -1 => closedAfter
  BY <1>4, <1>5, <1>6, ReceiveKnown DEF RInv, EndIsKnown, NextByteIndex, Output, NoLastByte
<1>8. /\ LastIndex(reassembler) = IF closed \/ last # -1 THEN Length ELSE -1
      /\ LastIndex(reassembler') = IF closedAfter \/ lastAfter # -1 THEN Length ELSE -1
  BY <1>5, <1>6 DEF LastIndex, NoLastByte, Output
<1>9. sub.last /\ data = <<>> => sub.first = Length
  BY <1>1, <1>2
<1>10. Length = 0 => data = <<>> /\ sub.first = next
  BY <1>1, <1>2, <1>3
<1>11. closedAfter = (closed \/ later = IF closedAfter \/ lastAfter # -1 THEN Length ELSE -1)
  <2>1. CASE Length = 0
    BY <1>1, <1>3, <1>4, <1>5, <1>6, <1>10, <2>1
  <2>2. CASE Length > 0
    BY <1>1, <1>3, <1>4, <1>5, <1>6, <1>7, <1>9, <2>2
  <2> QED
    BY <1>1, <2>1, <2>2
<1>12. (IF closedAfter \/ lastAfter # -1 THEN Length ELSE -1) =
           IF sub.last THEN Length ELSE IF closed \/ last # -1 THEN Length ELSE -1
  <2>1. CASE Length = 0
    BY <1>1, <1>3, <1>4, <1>5, <1>6, <1>10, <2>1
  <2>2. CASE Length > 0
    BY <1>1, <1>3, <1>4, <1>5, <1>6, <2>2
  <2> QED
    BY <1>1, <2>1, <2>2
<1> QED
  BY <1>1, <1>4, <1>6, <1>8, <1>11, <1>12

(* A new reassembler is a new one of the abstraction.                       *)
LEMMA InitMaps == ASSUME Init PROVE Abstract!Init
<1>1. reassembler = [output |-> NewStream(Capacity), last_byte |-> NoLastByte, pending |-> <<>>]
  BY DEF Init, NewReassembler
<1>2. /\ NextByteIndex(reassembler) = 0 /\ Output.popped = 0 /\ IsClosed(Output) = FALSE
      /\ Pending = <<>>
  BY <1>1 DEF NewStream, NextByteIndex, BytesPushed, Output, IsClosed, Pending
<1>3. Stored = {}
  BY <1>2 DEF Stored
<1> QED
  BY <1>1, <1>2, <1>3 DEF Abstract!Init, Abstract!Unknown, NoLastByte

(* The minimum that the abstraction takes is the library's.                 *)
LEMMA SameMin == \A S : Abstract!Min(S) = Min(S)
BY DEF Min, Abstract!Min

(* An arrival is the insertion of the abstraction.                          *)
LEMMA ReceiveMaps ==
    ASSUME RInv, NEW sub \in Substring, Receive(sub)
    PROVE  Abstract!Insert(sub)
<1>1. Output'.popped = Output.popped
  BY ReceiveResult DEF RInv, Grown, Output
<1>2. PICK known : /\ known = Stored \cup ((sub.first .. sub.first + sub.len - 1)
                                    \cap (NextByteIndex(reassembler) .. Output.popped + Capacity - 1))
                   /\ NextByteIndex(reassembler') =
                          Min((NextByteIndex(reassembler) .. Output.popped + Capacity) \ known)
                   /\ Stored' = {i \in known : i > NextByteIndex(reassembler')}
  BY ReceiveStores DEF RInv
<1>3. NextByteIndex(reassembler)' = NextByteIndex(reassembler')
  BY DEF NextByteIndex
<1>4. /\ LastIndex(reassembler') = IF sub.last THEN sub.first + sub.len ELSE LastIndex(reassembler)
      /\ IsClosed(Output') = (IsClosed(Output) \/ NextByteIndex(reassembler') = LastIndex(reassembler'))
  BY ReceiveEnds
<1>5. /\ (IF IsClosed(Output) \/ reassembler.last_byte # NoLastByte THEN Length ELSE -1)'
             = LastIndex(reassembler')
      /\ (IF IsClosed(Output) \/ reassembler.last_byte # NoLastByte THEN Length ELSE -1)
             = LastIndex(reassembler)
      /\ IsClosed(Output)' = IsClosed(Output')
  BY DEF LastIndex, Output, IsClosed
<1> QED
  BY <1>1, <1>2, <1>3, <1>4, <1>5, SameMin DEF Abstract!Insert, Abstract!Window

(* A read takes what the abstraction says it takes.                         *)
LEMMA PopMaps ==
    ASSUME RInv, NEW len \in ReadLen, Pop(len)
    PROVE  Abstract!Pop(len)
<1>1. PICK p \in Nat, next \in Nat : p = Output.popped /\ next = NextByteIndex(reassembler)
  BY ReassemblerAssumption, IndexFacts, StoredFacts DEF RInv, IInv, Output
<1>2. len \in Nat
  BY ReassemblerAssumption
<1>3. Least(p + len, next) = Min({p + len, next})
  <2>1. /\ Least(p + len, next) \in {p + len, next}
        /\ \A y \in {p + len, next} : Least(p + len, next) <= y
    BY <1>2 DEF Least
  <2> QED
    BY <1>2, <2>1, MinIs
<1>4. Output'.popped = Min({Output.popped + len, NextByteIndex(reassembler)})
  BY <1>1, <1>3, PopStep DEF RInv
<1>5. Stored' = Stored /\ IsClosed(Output)' = IsClosed(Output)
  BY PopStep DEF RInv, Stored, IsClosed
<1>6. /\ NextByteIndex(reassembler)' = NextByteIndex(reassembler)
      /\ (IF IsClosed(Output) \/ reassembler.last_byte # NoLastByte THEN Length ELSE -1)'
             = IF IsClosed(Output) \/ reassembler.last_byte # NoLastByte THEN Length ELSE -1
  BY <1>5, PopStep DEF RInv
<1> QED
  BY <1>4, <1>5, <1>6, SameMin DEF Abstract!Pop

(* ImplementsSpec for every instance: whether the end comes with the last   *)
(* byte, or alone before or after it, each insertion writes, stores and     *)
(* closes exactly what the header of the class promises.                    *)
THEOREM ReassemblerImplementsSpec == Spec => ImplementsSpec
<1>1. Init => Abstract!Init
  BY InitMaps
<1>2. RInv /\ [Next]_vars => [Abstract!Next]_Abstract!vars
  <2> SUFFICES ASSUME RInv, [Next]_vars PROVE [Abstract!Next]_Abstract!vars
    OBVIOUS
  <2>1. ASSUME NEW sub \in Substring, Receive(sub) PROVE Abstract!Next
    BY <2>1, ReceiveMaps DEF Abstract!Next
  <2>2. ASSUME NEW len \in ReadLen, Pop(len) PROVE Abstract!Next
    BY <2>2, PopMaps DEF Abstract!Next
  <2>3. CASE UNCHANGED vars
    BY <2>3 DEF vars, Abstract!vars, Stored, Output, Pending
  <2> QED
    BY <2>1, <2>2, <2>3 DEF Next
<1>3. Init => RInv
  BY InitRInv
<1>4. RInv /\ [Next]_vars => RInv'
  BY NextRInv
<1> QED
  BY <1>1, <1>2, <1>3, <1>4, PTL DEF Spec, ImplementsSpec, Abstract!Spec

-----------------------------------------------------------------------------
(* ByteStream: the ring of one stream, beside the reassembler above.        *)
CONSTANTS Byte, NUL, Chunk, MaxBytes

VARIABLES buf, buf_start, buf_end, available_capacity, byte_pushed, byte_popped, eof, error, out

Ring == INSTANCE ByteStream

(* What is assumed of the constants of ByteStream.                          *)
LEMMA RingConstants ==
    ASSUME Ring!ByteStreamAssumption
    PROVE  NUL \in Byte /\ Capacity \in Nat /\ Chunk \subseteq Seq(Byte) /\ ReadLen \subseteq Nat
BY DEF Ring!ByteStreamAssumption

(* Moving k slots round the ring from slot a, k not above the capacity.     *)
LEMMA ModStep ==
    ASSUME NEW C \in Nat \ {0}, NEW a \in 0 .. C - 1, NEW k \in 0 .. C
    PROVE  (a + k) % C = IF a + k < C THEN a + k ELSE a + k - C
BY SMT

(* The distance from slot b on to slot a.                                   *)
LEMMA ModDistance ==
    ASSUME NEW C \in Nat \ {0}, NEW a \in 0 .. C - 1, NEW b \in 0 .. C - 1
    PROVE  (a + C - b) % C = IF a >= b THEN a - b ELSE a - b + C
BY SMT

(* How many bytes a call of Writer::push stores.                            *)
LEMMA RingLeast ==
    ASSUME NEW a \in Nat, NEW b \in Nat
    PROVE  Ring!Least(a, b) \in Nat /\ Ring!Least(a, b) <= a /\ Ring!Least(a, b) <= b
BY DEF Ring!Least

RingInv == Ring!TypeOK /\ Ring!RingConsistent

(* The empty ring satisfies the invariant.                                  *)
LEMMA InitRing ==
    ASSUME Ring!ByteStreamAssumption
    PROVE  Ring!Init => RingInv
<1> SUFFICES ASSUME Ring!Init PROVE RingInv
  OBVIOUS
<1>1. Ring!TypeOK
  <2>1. buf \in [Ring!Slots -> Byte]
    BY RingConstants DEF Ring!Init
  <2>2. out \in Seq(Byte)
    BY DEF Ring!Init
  <2>3. buf_start = 0 /\ buf_end = 0 /\ available_capacity = Capacity
    BY DEF Ring!Init
  <2>4. byte_pushed = 0 /\ byte_popped = 0 /\ eof = FALSE /\ error = FALSE
    BY DEF Ring!Init
  <2>5. Capacity \in Nat
    BY RingConstants
  <2>6. available_capacity \in 0 .. Capacity
    BY <2>3, <2>5
  <2> QED
    <3>1. /\ buf_start \in Nat /\ (Capacity > 0 => buf_start \in Ring!Slots)
          /\ buf_end \in Nat /\ (Capacity > 0 => buf_end \in Ring!Slots)
      BY <2>3, <2>5 DEF Ring!Slots
    <3>2. /\ byte_pushed \in Nat /\ byte_popped \in Nat
          /\ eof \in BOOLEAN /\ error \in BOOLEAN
      BY <2>4
    <3> QED
      BY <2>1, <2>2, <2>6, <3>1, <3>2 DEF Ring!TypeOK
<1>2. Ring!RingConsistent
  BY RingConstants DEF Ring!Init, Ring!RingConsistent, Ring!Buffered
<1> QED
  BY <1>1, <1>2 DEF RingInv

(* One call of Writer::push keeps the ring consistent.                      *)
LEMMA PushRing ==
    ASSUME Ring!ByteStreamAssumption, RingInv, NEW data \in Chunk, Ring!Push(data)
    PROVE  RingInv'
<1> DEFINE len == Ring!Least(Len(data), available_capacity)
<1>1. data \in Seq(Byte) /\ Len(data) \in Nat
  BY RingConstants
<1>2. len \in Nat /\ len > 0 /\ len <= Len(data) /\ len <= available_capacity
  BY <1>1, RingLeast DEF RingInv, Ring!TypeOK, Ring!Push
<1>3. Capacity \in Nat \ {0}
  BY <1>2, RingConstants DEF RingInv, Ring!TypeOK
<1>4. buf_end' = IF buf_end + len < Capacity THEN buf_end + len ELSE buf_end + len - Capacity
  <2>1. len \in 0 .. Capacity /\ buf_end \in 0 .. Capacity - 1
    BY <1>2, <1>3 DEF RingInv, Ring!TypeOK, Ring!Slots
  <2>2. buf_end' = (buf_end + len) % Capacity
    BY DEF Ring!Push, Ring!EndAfter
  <2> HIDE DEF len
  <2> QED
    BY <1>3, <2>1, <2>2, ModStep
<1>5. buf' \in [Ring!Slots -> Byte]
  <2>1. ASSUME NEW s \in Ring!Slots, Ring!RingDistance(buf_end, s) < len
        PROVE  data[Ring!RingDistance(buf_end, s) + 1] \in Byte
    <3>1. Ring!RingDistance(buf_end, s) \in Nat
      BY <1>3, ModDistance DEF Ring!RingDistance, RingInv, Ring!TypeOK, Ring!Slots
    <3> QED
      BY <1>1, <1>2, <2>1, <3>1
  <2> QED
    BY <2>1 DEF Ring!Push, Ring!Stored, RingInv, Ring!TypeOK
<1>6. /\ available_capacity' = available_capacity - len
      /\ byte_pushed' = byte_pushed + len
      /\ UNCHANGED <<buf_start, byte_popped, eof, error, out>>
  BY DEF Ring!Push
<1> HIDE DEF len
<1>7. Ring!TypeOK'
  BY <1>2, <1>3, <1>4, <1>5, <1>6 DEF RingInv, Ring!TypeOK, Ring!Slots
<1>8. Ring!RingConsistent'
  BY <1>2, <1>3, <1>4, <1>6 DEF RingInv, Ring!TypeOK, Ring!RingConsistent, Ring!Slots, Ring!Buffered
<1> QED
  BY <1>7, <1>8 DEF RingInv

(* So does Reader::pop, and so does the loop of pops in read().             *)
LEMMA PopBytesRing ==
    ASSUME Ring!ByteStreamAssumption, RingInv, NEW n \in ReadLen, Ring!PopBytes(n),
           UNCHANGED <<buf, buf_end, byte_pushed, eof, error>>, out' \in Seq(Byte)
    PROVE  RingInv'
<1> DEFINE k == Ring!Least(Ring!Buffered, n)
<1>1. Ring!Buffered \in Nat /\ n \in Nat /\ Ring!Buffered > 0
  BY RingConstants DEF RingInv, Ring!TypeOK, Ring!Buffered, Ring!PopBytes
<1>2. k \in Nat /\ k <= Ring!Buffered
  BY <1>1, RingLeast
<1>3. Capacity \in Nat \ {0}
  BY <1>1, RingConstants DEF RingInv, Ring!TypeOK, Ring!Buffered
<1>4. buf_start' = IF buf_start + k < Capacity THEN buf_start + k ELSE buf_start + k - Capacity
  <2>1. k \in 0 .. Capacity /\ buf_start \in 0 .. Capacity - 1
    BY <1>2, <1>3 DEF RingInv, Ring!TypeOK, Ring!Slots, Ring!Buffered
  <2>2. buf_start' = (buf_start + k) % Capacity
    BY DEF Ring!PopBytes
  <2> HIDE DEF k
  <2> QED
    BY <1>3, <2>1, <2>2, ModStep
<1>5. available_capacity' = available_capacity + k /\ byte_popped' = byte_popped + k
  BY DEF Ring!PopBytes
<1> HIDE DEF k
<1>6. Ring!TypeOK'
  BY <1>1, <1>2, <1>3, <1>4, <1>5 DEF RingInv, Ring!TypeOK, Ring!Slots, Ring!Buffered
<1>7. Ring!RingConsistent'
  BY <1>1, <1>2, <1>3, <1>4, <1>5
  DEF RingInv, Ring!TypeOK, Ring!RingConsistent, Ring!Slots, Ring!Buffered
<1> QED
  BY <1>6, <1>7 DEF RingInv

(* Every byte peek() can show is a byte of the ring.                        *)
LEMMA PeekByte ==
    ASSUME Ring!ByteStreamAssumption, RingInv, NEW i \in 0 .. Ring!Buffered - 1
    PROVE  Ring!PeekAfter(i) \in Byte
<1>1. Capacity \in Nat \ {0} /\ i \in 0 .. Capacity
  BY RingConstants DEF RingInv, Ring!TypeOK, Ring!Buffered
<1>2. (buf_start + i) % Capacity \in Ring!Slots
  BY <1>1, ModStep DEF RingInv, Ring!TypeOK, Ring!Slots
<1> QED
  BY <1>2 DEF Ring!PeekAfter, RingInv, Ring!TypeOK

(* The string read() returns.                                               *)
LEMMA RingRead ==
    ASSUME Ring!ByteStreamAssumption, RingInv, NEW n \in ReadLen
    PROVE  [i \in 1 .. Ring!Least(Ring!Buffered, n) |-> Ring!PeekAfter(i - 1)] \in Seq(Byte)
<1>1. Ring!Buffered \in Nat /\ n \in Nat
  BY RingConstants DEF RingInv, Ring!TypeOK, Ring!Buffered
<1>2. Ring!Least(Ring!Buffered, n) \in Nat /\ Ring!Least(Ring!Buffered, n) <= Ring!Buffered
  BY <1>1, RingLeast
<1>3. \A i \in 1 .. Ring!Least(Ring!Buffered, n) : Ring!PeekAfter(i - 1) \in Byte
  BY <1>1, <1>2, PeekByte
<1> QED
  BY <1>2, <1>3

(* Every operation keeps the invariant of the ring.                         *)
LEMMA NextRing ==
    ASSUME Ring!ByteStreamAssumption
    PROVE  RingInv /\ [Ring!Next]_Ring!vars => RingInv'
<1> SUFFICES ASSUME RingInv, [Ring!Next]_Ring!vars PROVE RingInv'
  OBVIOUS
<1>1. ASSUME NEW data \in Chunk, Ring!Push(data) PROVE RingInv'
  BY <1>1, PushRing
<1>2. CASE Ring!Close
  BY <1>2 DEF Ring!Close, RingInv, Ring!TypeOK, Ring!RingConsistent, Ring!Buffered
<1>3. CASE Ring!SetError
  BY <1>3 DEF Ring!SetError, RingInv, Ring!TypeOK, Ring!RingConsistent, Ring!Buffered
<1>4. ASSUME NEW n \in ReadLen, Ring!Pop(n) PROVE RingInv'
  BY <1>4, PopBytesRing DEF Ring!Pop, RingInv, Ring!TypeOK
<1>5. ASSUME NEW n \in ReadLen, Ring!Read(n) PROVE RingInv'
  <2>1. out' \in Seq(Byte)
    BY <1>5, RingRead DEF Ring!Read
  <2>2. CASE Ring!PopBytes(n)
    BY <1>5, <2>1, <2>2, PopBytesRing DEF Ring!Read
  <2>3. CASE Ring!Buffered = 0 /\ UNCHANGED <<buf_start, byte_popped, available_capacity>>
    BY <1>5, <2>1, <2>3 DEF Ring!Read, RingInv, Ring!TypeOK, Ring!RingConsistent, Ring!Buffered
  <2> QED
    BY <1>5, <2>2, <2>3 DEF Ring!Read
<1>6. CASE UNCHANGED Ring!vars
  BY <1>6 DEF Ring!vars, RingInv, Ring!TypeOK, Ring!RingConsistent, Ring!Buffered
<1> QED
  BY <1>1, <1>2, <1>3, <1>4, <1>5, <1>6 DEF Ring!Next

(* No access to the vector is out of range and no counter underflows,       *)
(* whatever the capacity and whatever is pushed, read and popped.           *)
THEOREM ByteStreamTypeOK ==
    ASSUME Ring!ByteStreamAssumption
    PROVE  Ring!Spec => []Ring!TypeOK
<1>1. RingInv => Ring!TypeOK
  BY DEF RingInv
<1> QED
  BY <1>1, InitRing, NextRing, PTL DEF Ring!Spec

(* The counters and the slot indices always agree on how full the ring is.  *)
THEOREM ByteStreamConsistent ==
    ASSUME Ring!ByteStreamAssumption
    PROVE  Ring!Spec => []Ring!RingConsistent
<1>1. RingInv => Ring!RingConsistent
  BY DEF RingInv
<1> QED
  BY <1>1, InitRing, NextRing, PTL DEF Ring!Spec

-----------------------------------------------------------------------------
(* The refinement: Contents is the queue of the abstract stream.            *)

(* What the ring holds is a queue no longer than the capacity.              *)
LEMMA ContentsIsQueue ==
    ASSUME Ring!ByteStreamAssumption, RingInv
    PROVE  /\ Ring!Contents \in Seq(Byte)
           /\ Len(Ring!Contents) = Ring!Buffered
           /\ Ring!Buffered \in 0 .. Capacity
           /\ \A i \in 1 .. Ring!Buffered : Ring!Contents[i] = Ring!PeekAfter(i - 1)
<1>1. Ring!Buffered \in 0 .. Capacity
  BY RingConstants DEF RingInv, Ring!TypeOK, Ring!Buffered
<1>2. \A i \in 1 .. Ring!Buffered : Ring!PeekAfter(i - 1) \in Byte
  BY <1>1, PeekByte
<1>3. Ring!Contents \in [1 .. Ring!Buffered -> Byte]
  BY <1>2 DEF Ring!Contents
<1>4. Ring!Contents \in Seq(Byte) /\ Len(Ring!Contents) = Ring!Buffered
  BY <1>1, <1>3
<1> QED
  BY <1>1, <1>4 DEF Ring!Contents

(* A push stores its bytes behind the ones the ring holds and overwrites    *)
(* none of them.                                                            *)
LEMMA PushContents ==
    ASSUME Ring!ByteStreamAssumption, RingInv, NEW data \in Chunk, Ring!Push(data)
    PROVE  Ring!Contents' = Ring!Contents \o Ring!Take(data, Ring!Least(Len(data), available_capacity))
<1> DEFINE len == Ring!Least(Len(data), available_capacity)
<1>1. data \in Seq(Byte) /\ Len(data) \in Nat
  BY RingConstants
<1>2. len \in Nat /\ len > 0 /\ len <= Len(data) /\ len <= available_capacity
  BY <1>1, RingLeast DEF RingInv, Ring!TypeOK, Ring!Push
<1>3. Capacity \in Nat \ {0} /\ Ring!Buffered \in Nat /\ Ring!Buffered + len <= Capacity
  BY <1>2, RingConstants DEF RingInv, Ring!TypeOK, Ring!Buffered
<1>4. Ring!Buffered' = Ring!Buffered + len /\ buf' = Ring!Stored(data, len) /\ buf_start' = buf_start
  BY <1>2, RingConstants DEF Ring!Push, Ring!Buffered, RingInv, Ring!TypeOK
<1>5. /\ buf_start \in 0 .. Capacity - 1 /\ buf_end \in 0 .. Capacity - 1
      /\ buf_end = IF buf_start + Ring!Buffered < Capacity
                   THEN buf_start + Ring!Buffered ELSE buf_start + Ring!Buffered - Capacity
  BY <1>3 DEF RingInv, Ring!TypeOK, Ring!RingConsistent, Ring!Slots
<1> HIDE DEF len
<1>6. ASSUME NEW i \in 1 .. Ring!Buffered + len
      PROVE  Ring!PeekAfter(i - 1)' = (Ring!Contents \o Ring!Take(data, len))[i]
  <2> DEFINE s == (buf_start + (i - 1)) % Capacity
  <2>1. s = IF buf_start + (i - 1) < Capacity
            THEN buf_start + (i - 1) ELSE buf_start + (i - 1) - Capacity
    <3>1. i - 1 \in 0 .. Capacity
      BY <1>2, <1>3
    <3> QED
      BY <1>3, <1>5, <3>1, ModStep
  <2> HIDE DEF s
  <2>2. s \in 0 .. Capacity - 1
    BY <1>2, <1>3, <1>5, <2>1
  <2>3. Ring!RingDistance(buf_end, s) = IF s >= buf_end THEN s - buf_end ELSE s - buf_end + Capacity
    BY <1>3, <1>5, <2>2, ModDistance DEF Ring!RingDistance
  <2>4. Ring!PeekAfter(i - 1)' = IF Ring!RingDistance(buf_end, s) < len
                            THEN data[Ring!RingDistance(buf_end, s) + 1] ELSE buf[s]
    BY <1>4, <2>2 DEF Ring!PeekAfter, Ring!Stored, Ring!Slots, s
  <2>5. Ring!Take(data, len) \in Seq(Byte) /\ Len(Ring!Take(data, len)) = len
        /\ \A j \in 1 .. len : Ring!Take(data, len)[j] = data[j]
    BY <1>1, <1>2 DEF Ring!Take
  <2>6. CASE i <= Ring!Buffered
    <3>1. Ring!RingDistance(buf_end, s) >= len
      BY <1>2, <1>3, <1>5, <2>1, <2>2, <2>3, <2>6
    <3>2. Ring!PeekAfter(i - 1)' = Ring!PeekAfter(i - 1)
      <4>1. Ring!PeekAfter(i - 1) = buf[s]
        BY DEF Ring!PeekAfter, s
      <4>2. ~(Ring!RingDistance(buf_end, s) < len)
        BY <1>2, <1>3, <1>5, <2>2, <2>3, <3>1
      <4> QED
        BY <2>4, <4>1, <4>2
    <3>3. (Ring!Contents \o Ring!Take(data, len))[i] = Ring!Contents[i]
      BY <1>2, <1>3, <2>5, <2>6, ContentsIsQueue
    <3>4. Ring!Contents[i] = Ring!PeekAfter(i - 1)
      BY <1>3, <2>6, ContentsIsQueue
    <3> QED
      BY <3>2, <3>3, <3>4
  <2>7. CASE i > Ring!Buffered
    <3>1. Ring!RingDistance(buf_end, s) = i - Ring!Buffered - 1
      BY <1>2, <1>3, <1>5, <2>1, <2>2, <2>3, <2>7
    <3>2. i - Ring!Buffered \in 1 .. len
      BY <1>2, <1>3, <2>7
    <3>3. Ring!PeekAfter(i - 1)' = data[i - Ring!Buffered]
      BY <1>2, <1>3, <2>4, <3>1, <3>2
    <3>4. (Ring!Contents \o Ring!Take(data, len))[i] = Ring!Take(data, len)[i - Ring!Buffered]
      BY <1>2, <1>3, <2>5, <2>7, ContentsIsQueue
    <3> QED
      BY <2>5, <3>2, <3>3, <3>4
  <2>8. i <= Ring!Buffered \/ i > Ring!Buffered
    BY <1>2, <1>3
  <2> QED
    BY <2>6, <2>7, <2>8
<1>7. Ring!Contents' = [i \in 1 .. Ring!Buffered + len |-> Ring!PeekAfter(i - 1)']
  BY <1>4 DEF Ring!Contents
<1>8. /\ Ring!Contents \o Ring!Take(data, len) \in Seq(Byte)
      /\ Len(Ring!Contents \o Ring!Take(data, len)) = Ring!Buffered + len
  <2>1. Ring!Take(data, len) \in Seq(Byte) /\ Len(Ring!Take(data, len)) = len
    BY <1>1, <1>2 DEF Ring!Take
  <2>2. Ring!Contents \in Seq(Byte) /\ Len(Ring!Contents) = Ring!Buffered
    BY ContentsIsQueue
  <2> QED
    BY <2>1, <2>2, ConcatProperties
<1>9. Ring!Contents' = Ring!Contents \o Ring!Take(data, len)
  <2> DEFINE after == Ring!Contents \o Ring!Take(data, len)
  <2>1. /\ after = [i \in 1 .. Ring!Buffered + len |-> after[i]]
    BY <1>8, LenProperties
  <2> HIDE DEF after
  <2>2. \A i \in 1 .. Ring!Buffered + len : after[i] = Ring!PeekAfter(i - 1)'
    BY <1>6 DEF after
  <2> QED
    BY <1>7, <2>1, <2>2 DEF after
<1> QED
  BY <1>9 DEF len

(* A pop removes the oldest bytes and leaves the others as they are.        *)
LEMMA PopContents ==
    ASSUME Ring!ByteStreamAssumption, RingInv, NEW n \in ReadLen, Ring!PopBytes(n), UNCHANGED buf
    PROVE  /\ Ring!Contents' = Ring!Drop(Ring!Contents, Ring!Least(n, Ring!Buffered))
           /\ byte_popped' = byte_popped + Ring!Least(n, Ring!Buffered)
<1> DEFINE k == Ring!Least(Ring!Buffered, n)
<1>1. Ring!Buffered \in Nat /\ n \in Nat /\ Ring!Buffered > 0 /\ Ring!Buffered <= Capacity
  BY RingConstants DEF RingInv, Ring!TypeOK, Ring!Buffered, Ring!PopBytes
<1>2. k \in Nat /\ k <= Ring!Buffered /\ k = Ring!Least(n, Ring!Buffered)
  BY <1>1 DEF Ring!Least
<1>3. Capacity \in Nat \ {0} /\ buf_start \in 0 .. Capacity - 1
  BY <1>1, RingConstants DEF RingInv, Ring!TypeOK, Ring!Slots
<1>4. Ring!Buffered' = Ring!Buffered - k
  BY <1>1, <1>2, RingConstants DEF Ring!PopBytes, Ring!Buffered, RingInv, Ring!TypeOK
<1>5. buf_start' = (buf_start + k) % Capacity /\ byte_popped' = byte_popped + k
  BY DEF Ring!PopBytes
<1> HIDE DEF k
<1>6. k \in 0 .. Capacity
  BY <1>1, <1>2, <1>3
<1>7. buf_start' = IF buf_start + k < Capacity THEN buf_start + k ELSE buf_start + k - Capacity
  <2>1. buf_start' = (buf_start + k) % Capacity
    BY <1>5
  <2> QED
    BY <1>3, <1>6, <2>1, ModStep
<1>8. ASSUME NEW i \in 1 .. Ring!Buffered - k
      PROVE  Ring!PeekAfter(i - 1)' = Ring!Contents[k + i]
  <2>1. PICK C \in Nat \ {0}, b \in Nat : C = Capacity /\ b = Ring!Buffered /\ b <= C /\ k <= b
    BY <1>1, <1>2, <1>3
  <2>2. PICK m \in Nat : m = i - 1 /\ k + m <= C /\ k + i \in 1 .. b /\ (k + i) - 1 = k + m
    BY <1>2, <2>1
  <2>3. (buf_start' + m) % C = (buf_start + (k + m)) % C
    <3>1. PICK a \in 0 .. C - 1 : a = buf_start
      BY <1>3, <2>1
    <3>2. PICK c : c = buf_start'
      OBVIOUS
    <3>3. c = IF a + k < C THEN a + k ELSE a + k - C
      BY <1>7, <2>1, <3>1, <3>2
    <3>4. k \in Nat /\ k + m <= C
      BY <1>2, <2>2
    <3>5. PICK t \in 0 .. C : t = k + m
      BY <3>4
    <3>6. PICK l \in Nat : l = k
      BY <3>4
    <3>7. c \in 0 .. C - 1 /\ m \in 0 .. C
      BY <3>3, <3>4
    <3>8. (c + m) % C = IF c + m < C THEN c + m ELSE c + m - C
      BY <3>7, ModStep
    <3>9. (a + t) % C = IF a + t < C THEN a + t ELSE a + t - C
      BY ModStep
    <3>10. c = IF a + l < C THEN a + l ELSE a + l - C
      BY <3>3, <3>6
    <3>11. t = l + m
      BY <3>5, <3>6
    <3>12. (IF c + m < C THEN c + m ELSE c + m - C) = IF a + t < C THEN a + t ELSE a + t - C
      BY <3>7, <3>10, <3>11
    <3>13. (c + m) % C = (a + t) % C
      BY <3>8, <3>9, <3>12
    <3> QED
      BY <3>1, <3>2, <3>5, <3>13
  <2>4. Ring!PeekAfter(i - 1)' = buf[(buf_start' + m) % C]
    BY <2>1, <2>2 DEF Ring!PeekAfter
  <2>5. Ring!Contents[k + i] = Ring!PeekAfter((k + i) - 1)
    BY <2>1, <2>2, ContentsIsQueue
  <2>6. Ring!PeekAfter((k + i) - 1) = buf[(buf_start + (k + m)) % C]
    BY <2>1, <2>2 DEF Ring!PeekAfter
  <2> QED
    BY <2>3, <2>4, <2>5, <2>6
<1>9. Ring!Contents' = [i \in 1 .. Ring!Buffered - k |-> Ring!Contents[k + i]]
  <2>1. Ring!Contents' = [i \in 1 .. Ring!Buffered - k |-> Ring!PeekAfter(i - 1)']
    BY <1>4 DEF Ring!Contents
  <2> QED
    BY <1>8, <2>1
<1>10. Ring!Drop(Ring!Contents, k) = [i \in 1 .. Ring!Buffered - k |-> Ring!Contents[k + i]]
  <2> DEFINE rest == Ring!Drop(Ring!Contents, k)
  <2>1. \A j \in k + 1 .. Len(Ring!Contents) : Ring!Contents[j] \in Byte
    BY <1>1, <1>2, ContentsIsQueue, ElementOfSeq
  <2>2. /\ rest \in Seq(Byte) /\ Len(rest) = Ring!Buffered - k
        /\ \A i \in 1 .. Ring!Buffered - k : rest[i] = Ring!Contents[k + i]
    BY <1>1, <1>2, <2>1, ContentsIsQueue, SubSeqProperties DEF Ring!Drop
  <2> HIDE DEF rest
  <2>3. rest = [i \in 1 .. Ring!Buffered - k |-> rest[i]]
    BY <2>2, LenProperties
  <2> QED
    BY <2>2, <2>3 DEF rest
<1> QED
  BY <1>2, <1>5, <1>9, <1>10

(* read() delivers the oldest bytes, in order.                              *)
LEMMA ReadContents ==
    ASSUME Ring!ByteStreamAssumption, RingInv, NEW n \in ReadLen
    PROVE  [i \in 1 .. Ring!Least(Ring!Buffered, n) |-> Ring!PeekAfter(i - 1)]
               = Ring!Take(Ring!Contents, Ring!Least(n, Ring!Buffered))
<1> DEFINE k == Ring!Least(n, Ring!Buffered)
<1>1. Ring!Buffered \in Nat /\ n \in Nat
  BY RingConstants DEF RingInv, Ring!TypeOK, Ring!Buffered
<1>2. k \in Nat /\ k <= Ring!Buffered /\ Ring!Least(Ring!Buffered, n) = k
  BY <1>1 DEF Ring!Least
<1> DEFINE front == Ring!Take(Ring!Contents, k)
<1> HIDE DEF k
<1>3. \A j \in 1 .. k : Ring!Contents[j] \in Byte /\ Ring!Contents[j] = Ring!PeekAfter(j - 1)
  BY <1>1, <1>2, ContentsIsQueue, ElementOfSeq
<1>4. front \in Seq(Byte) /\ Len(front) = k /\ \A j \in 1 .. k : front[j] = Ring!Contents[j]
  BY <1>1, <1>2, <1>3, SubSeqProperties DEF Ring!Take
<1> HIDE DEF front
<1>5. front = [i \in 1 .. k |-> front[i]]
  BY <1>4, LenProperties
<1>6. front = [i \in 1 .. k |-> Ring!PeekAfter(i - 1)]
  BY <1>3, <1>4, <1>5
<1> QED
  BY <1>2, <1>6 DEF front, k

(* StreamPop and read's result on a record given field by field.            *)
LEMMA PopRecord ==
    ASSUME NEW c, NEW q, NEW p, NEW f, NEW e, NEW n, NEW k, k = Ring!Least(n, Len(q))
    PROVE  Ring!StreamPop([capacity |-> c, queue |-> q, popped |-> p, eof |-> f, error |-> e], n)
               = [capacity |-> c, queue |-> Ring!Drop(q, k), popped |-> p + k, eof |-> f, error |-> e]
<1> DEFINE s == [capacity |-> c, queue |-> q, popped |-> p, eof |-> f, error |-> e]
<1>1. Ring!StreamPop(s, n) = [s EXCEPT !.queue = Ring!Drop(s.queue, k), !.popped = s.popped + k]
  BY DEF Ring!StreamPop
<1>2. s.queue = q /\ s.popped = p
  OBVIOUS
<1>3. \A x, y : [s EXCEPT !.queue = x, !.popped = y] = [[s EXCEPT !.queue = x] EXCEPT !.popped = y]
  OBVIOUS
<1>4. \A x, y : [[s EXCEPT !.queue = x] EXCEPT !.popped = y]
                  = [capacity |-> c, queue |-> x, popped |-> y, eof |-> f, error |-> e]
  <2>1. \A x : [s EXCEPT !.queue = x]
                 = [capacity |-> c, queue |-> x, popped |-> p, eof |-> f, error |-> e]
    OBVIOUS
  <2>2. \A x, y : [[capacity |-> c, queue |-> x, popped |-> p, eof |-> f, error |-> e]
                         EXCEPT !.popped = y]
                    = [capacity |-> c, queue |-> x, popped |-> y, eof |-> f, error |-> e]
    OBVIOUS
  <2> HIDE DEF s
  <2> QED
    BY <2>1, <2>2, Zenon
<1> HIDE DEF s
<1>5. Ring!StreamPop(s, n) = [capacity |-> c, queue |-> Ring!Drop(q, k), popped |-> p + k,
                         eof |-> f, error |-> e]
  BY <1>1, <1>2, <1>3, <1>4, Zenon
<1> QED
  BY <1>5 DEF s

(* The stream of the abstract specification that the ring stands for.       *)
Mapped ==
    [capacity |-> Capacity, queue |-> Ring!Contents, popped |-> byte_popped,
     eof |-> eof, error |-> error]

(* The abstract specification has the operators of StreamOps.               *)
LEMMA SameOperators ==
    \A s, n : Ring!Abstract!StreamPop(s, n) = Ring!StreamPop(s, n)
BY DEF Ring!Abstract!StreamPop, Ring!Abstract!Least, Ring!Abstract!Drop,
       Ring!StreamPop, Ring!Least, Ring!Drop

(* The empty ring is the empty queue of the abstraction.                    *)
LEMMA InitMapped ==
    ASSUME Ring!ByteStreamAssumption
    PROVE  Ring!Init => Ring!Abstract!Init
<1> SUFFICES ASSUME Ring!Init PROVE Ring!Abstract!Init
  OBVIOUS
<1>1. Ring!Buffered = 0
  BY RingConstants DEF Ring!Init, Ring!Buffered
<1>2. Ring!Contents = <<>>
  BY <1>1 DEF Ring!Contents
<1> QED
  BY <1>2 DEF Ring!Init, Ring!Abstract!Init, Ring!Abstract!NewStream

(* Every operation on the ring is that operation on the queue, or none.     *)
LEMMA NextMapped ==
    ASSUME Ring!ByteStreamAssumption
    PROVE  RingInv /\ RingInv' /\ [Ring!Next]_Ring!vars
               => [Ring!Abstract!Next]_Ring!Abstract!vars
<1> SUFFICES ASSUME RingInv, RingInv', [Ring!Next]_Ring!vars
             PROVE  [Ring!Abstract!Next]_Ring!Abstract!vars
  OBVIOUS
<1>1. /\ Len(Ring!Contents) = Ring!Buffered /\ Ring!Buffered \in Nat
      /\ Capacity - Len(Ring!Contents) = available_capacity
  BY ContentsIsQueue, RingConstants DEF Ring!Buffered, RingInv, Ring!TypeOK
<1>2. ASSUME NEW data \in Chunk, Ring!Push(data) PROVE Ring!Abstract!Push(data)
  <2>1. Ring!Contents' = Ring!Contents \o Ring!Take(data, Ring!Least(Len(data), available_capacity))
    BY <1>2, PushContents
  <2>2. ~eof /\ UNCHANGED <<byte_popped, eof, error, out>>
    BY <1>2 DEF Ring!Push
  <2> QED
    BY <1>1, <2>1, <2>2
    DEF Ring!Abstract!Push, Ring!Abstract!StreamPush, Ring!Abstract!AvailableCapacity,
        Ring!Abstract!Take, Ring!Abstract!Least, Ring!Take, Ring!Least
<1>3. ASSUME NEW n \in ReadLen, Ring!PopBytes(n), UNCHANGED <<buf, eof, error>>
      PROVE  Mapped' = Ring!Abstract!StreamPop(Mapped, n)
  <2> DEFINE k == Ring!Least(n, Ring!Buffered)
  <2>1. Ring!Contents' = Ring!Drop(Ring!Contents, k) /\ byte_popped' = byte_popped + k
    BY <1>3, PopContents
  <2>2. k = Ring!Least(n, Len(Ring!Contents))
    BY <1>1
  <2> HIDE DEF k
  <2>3. Mapped' = [capacity |-> Capacity, queue |-> Ring!Drop(Ring!Contents, k),
                   popped |-> byte_popped + k, eof |-> eof, error |-> error]
    BY <1>3, <2>1 DEF Mapped
  <2>4. Ring!Abstract!StreamPop(Mapped, n)
            = [capacity |-> Capacity, queue |-> Ring!Drop(Ring!Contents, k),
               popped |-> byte_popped + k, eof |-> eof, error |-> error]
    BY <2>2, PopRecord, SameOperators DEF Mapped
  <2> QED
    BY <2>3, <2>4
<1>4. CASE Ring!Close
  <2>1. Ring!Contents' = Ring!Contents
    BY <1>4 DEF Ring!Close, Ring!Contents, Ring!Buffered, Ring!PeekAfter
  <2>2. Mapped' = [capacity |-> Capacity, queue |-> Ring!Contents, popped |-> byte_popped,
                   eof |-> TRUE, error |-> error]
    BY <1>4, <2>1 DEF Ring!Close, Mapped
  <2>3. Ring!Abstract!StreamClose(Mapped) = Mapped'
    <3>1. \A t : [Mapped EXCEPT !.eof = t]
                   = [capacity |-> Capacity, queue |-> Ring!Contents, popped |-> byte_popped,
                      eof |-> t, error |-> error]
      BY DEF Mapped
    <3> QED
      BY <2>2, <3>1, Zenon DEF Ring!Abstract!StreamClose
  <2> QED
    BY <1>4, <2>3 DEF Ring!Close, Mapped, Ring!Abstract!Next, Ring!Abstract!Close
<1>5. CASE Ring!SetError
  <2>1. Ring!Contents' = Ring!Contents
    BY <1>5 DEF Ring!SetError, Ring!Contents, Ring!Buffered, Ring!PeekAfter
  <2>2. Mapped' = [capacity |-> Capacity, queue |-> Ring!Contents, popped |-> byte_popped,
                   eof |-> eof, error |-> TRUE]
    BY <1>5, <2>1 DEF Ring!SetError, Mapped
  <2>3. Ring!Abstract!StreamSetError(Mapped) = Mapped'
    <3>1. \A t : [Mapped EXCEPT !.error = t]
                   = [capacity |-> Capacity, queue |-> Ring!Contents, popped |-> byte_popped,
                      eof |-> eof, error |-> t]
      BY DEF Mapped
    <3> QED
      BY <2>2, <3>1, Zenon DEF Ring!Abstract!StreamSetError
  <2> QED
    BY <1>5, <2>3 DEF Ring!SetError, Mapped, Ring!Abstract!Next, Ring!Abstract!SetError
<1>6. ASSUME NEW n \in ReadLen, Ring!Pop(n) PROVE Ring!Abstract!Pop(n)
  BY <1>3, <1>6 DEF Ring!Pop, Mapped, Ring!Abstract!Pop
<1>7. ASSUME NEW n \in ReadLen, Ring!Read(n) PROVE Ring!Abstract!Read(n)
  <2>1. out' = Ring!Abstract!StreamRead(Mapped, n)
    BY <1>1, <1>7, ReadContents
    DEF Ring!Read, Mapped, Ring!Abstract!StreamRead, Ring!Abstract!Take, Ring!Abstract!Least,
        Ring!Take, Ring!Least
  <2>2. Mapped' = Ring!Abstract!StreamPop(Mapped, n)
    <3>1. CASE Ring!PopBytes(n)
      BY <1>3, <1>7, <3>1 DEF Ring!Read
    <3>2. CASE Ring!Buffered = 0 /\ UNCHANGED <<buf_start, byte_popped, available_capacity>>
      <4>1. Ring!Contents' = Ring!Contents /\ Ring!Contents = <<>>
        BY <1>7, <3>2 DEF Ring!Read, Ring!Contents, Ring!Buffered, Ring!PeekAfter
      <4>2. n \in Nat /\ byte_popped \in Nat
        BY RingConstants DEF RingInv, Ring!TypeOK
      <4>3. /\ Ring!Least(n, Len(Ring!Contents)) = 0 /\ Ring!Drop(Ring!Contents, 0) = <<>>
            /\ byte_popped + 0 = byte_popped
        BY <1>1, <3>2, <4>1, <4>2 DEF Ring!Least, Ring!Drop
      <4>4. Mapped' = Mapped
        BY <1>7, <3>2, <4>1 DEF Ring!Read, Mapped
      <4>5. Ring!Abstract!StreamPop(Mapped, n)
                = [capacity |-> Capacity, queue |-> Ring!Drop(Ring!Contents, 0),
                   popped |-> byte_popped + 0, eof |-> eof, error |-> error]
        BY <4>3, PopRecord, SameOperators DEF Mapped
      <4> QED
        BY <4>1, <4>3, <4>4, <4>5 DEF Mapped
    <3> QED
      BY <1>7, <3>1, <3>2 DEF Ring!Read
  <2> QED
    BY <2>1, <2>2 DEF Mapped, Ring!Abstract!Read
<1>8. CASE UNCHANGED Ring!vars
  BY <1>8 DEF Ring!vars, Ring!Contents, Ring!Buffered, Ring!PeekAfter, Ring!Abstract!vars
<1> QED
  BY <1>2, <1>4, <1>5, <1>6, <1>7, <1>8 DEF Ring!Next, Ring!Abstract!Next

(* The ring buffer of byte_stream.cc is a bounded FIFO, for every capacity. *)
THEOREM ByteStreamImplementsFifo ==
    ASSUME Ring!ByteStreamAssumption
    PROVE  Ring!Spec => Ring!ImplementsFifo
BY InitRing, NextRing, InitMapped, NextMapped, PTL
DEF Ring!Spec, Ring!ImplementsFifo, Ring!Abstract!Spec
=============================================================================

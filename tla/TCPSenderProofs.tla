-------------------------- MODULE TCPSenderProofs --------------------------
(***************************************************************************)
(* TCPSender, for every capacity, every size of segments and windows,      *)
(* every ISN, every string written, every order of acknowledgments, old    *)
(* and repeated ones too, and every expiry of the timer: what is           *)
(* outstanding is the part of the stream that no ackno has covered, cut    *)
(* into segments that follow each other; the timer runs exactly while      *)
(* there is such a part; new data stays within the window; what is sent    *)
(* again is the earliest of it.                                            *)
(***************************************************************************)
EXTENDS TCPSender, OpsProofs

(* All that is ever sent lies within half a cycle of the ISN.               *)
ShortStream == 2 * (MaxBytes + 2) < CYCLE

LEMMA WithinHalf ==
    ASSUME ShortStream
    PROVE  MaxBytes <= Longest
BY LongestFacts, EnvironmentAssumption DEF ShortStream

-----------------------------------------------------------------------------
(* The inductive invariant.                                                 *)
IInv == SenderInv(sender, acked)

(* Nothing has been sent, and nothing acknowledged.                         *)
LEMMA InitInv ==
    ASSUME ShortStream
    PROVE  Init => IInv
<1> SUFFICES ASSUME Init PROVE IInv
  OBVIOUS
<1>1. PICK isn \in Seqnos : sender = NewSender(NewStream(SendCapacity), isn) /\ acked = 0
  BY EnvironmentAssumption DEF Init
<1>2. Longest \in Nat
  BY WithinHalf, LongestFacts, EnvironmentAssumption
<1> QED
  BY <1>1, <1>2, NewSenderResult, EnvironmentAssumption DEF IInv

(* A call that sends nothing and leaves all in order.                       *)
Quiet == IInv' /\ NextAbs(sender') = NextAbs(sender) /\ transmitted' = <<>>

(* What the application does: it writes, closes the stream, or aborts.      *)
LEMMA WriteStep ==
    ASSUME ShortStream, IInv, NEW len \in WriteLen, Write(len)
    PROVE  Quiet
<1>1. PICK s, a : s = sender /\ a = acked /\ SenderInv(s, a)
  BY DEF IInv
<1>2. PICK n \in Nat, m \in Nat : n = BytesPushed(s.input) /\ m = len /\ n + m <= Longest
  <2>1. BytesPushed(s.input) \in Nat
    BY <1>1, SenderFacts DEF SenderInv
  <2> QED
    <3>1. BytesPushed(s.input) + len <= MaxBytes /\ len \in Nat
      BY <1>1, EnvironmentAssumption DEF Write
    <3>2. MaxBytes <= Longest /\ MaxBytes \in Nat /\ Longest \in Int
      BY WithinHalf, LongestFacts, EnvironmentAssumption
    <3>3. BytesPushed(s.input) + len <= Longest
      BY <2>1, <3>1, <3>2
    <3> QED
      BY <2>1, <3>1, <3>3
<1>3. PICK data : data = Bytes(n, m)
  OBVIOUS
<1>4. IsRun(data, n) /\ Len(data) = m
  BY <1>3, RunOfBytes DEF Bytes
<1>5. PICK input : input = StreamPush(s.input, data)
  OBVIOUS
<1>6. /\ StreamIntact(input) /\ input.eof = s.input.eof /\ input.popped = s.input.popped
      /\ BytesPushed(input) <= n + m
      /\ s.input.eof => input = s.input
  <2>1. StreamIntact(s.input) /\ IsRun(data, BytesPushed(s.input))
    BY <1>1, <1>2, <1>4 DEF SenderInv, Written
  <2> QED
    BY <1>2, <1>4, <1>5, <2>1, PushPart
<1>7. BytesPushed(input) <= Longest
  <2>1. BytesPushed(input) \in Nat /\ Longest \in Int
    BY <1>6, StreamFacts, LongestFacts
  <2> QED
    BY <1>2, <1>6, <2>1
<1>8. s.fin_sent => IsFinished(input)
  <2>1. s.fin_sent => IsFinished(s.input)
    BY <1>1 DEF SenderInv, Written
  <2> QED
    BY <1>6, <2>1 DEF IsFinished
<1>9. PICK t : t = [s EXCEPT !.input = input]
  OBVIOUS
<1>10. SenderInv(t, a) /\ NextAbs(t) = NextAbs(s)
  BY <1>1, <1>6, <1>7, <1>8, <1>9, InputChange
<1>11. sender' = t /\ acked' = a /\ transmitted' = <<>>
  BY <1>1, <1>2, <1>3, <1>5, <1>9 DEF Write
<1> QED
  BY <1>1, <1>10, <1>11 DEF Quiet, IInv

LEMMA CloseStep ==
    ASSUME IInv, Close
    PROVE  Quiet
<1>1. PICK s, a : s = sender /\ a = acked /\ SenderInv(s, a)
  BY DEF IInv
<1>2. PICK input : input = StreamClose(s.input)
  OBVIOUS
<1>3. StreamIntact(input) /\ input.popped = s.input.popped /\ BytesPushed(input) <= Longest
  <2>1. StreamIntact(s.input) /\ BytesPushed(s.input) <= Longest
    BY <1>1 DEF SenderInv, Written
  <2> QED
    BY <1>2, <2>1, CloseResult
<1>4. s.fin_sent => IsFinished(input)
  <2>1. s.fin_sent => IsFinished(s.input)
    BY <1>1 DEF SenderInv, Written
  <2>2. s.input \in Streams(Nat)
    BY <1>1 DEF SenderInv, Written, StreamIntact
  <2> QED
    BY <1>2, <2>1, <2>2 DEF IsFinished, StreamClose, Streams
<1>5. PICK t : t = [s EXCEPT !.input = input]
  OBVIOUS
<1>6. SenderInv(t, a) /\ NextAbs(t) = NextAbs(s)
  BY <1>1, <1>3, <1>4, <1>5, InputChange
<1>7. sender' = t /\ acked' = a /\ transmitted' = <<>>
  BY <1>1, <1>2, <1>5 DEF Close
<1> QED
  BY <1>1, <1>6, <1>7 DEF Quiet, IInv

(* An abort of the application and a reset of the peer set the same error.  *)
LEMMA ErrorStep ==
    ASSUME IInv, Abort \/ ReceiveReset
    PROVE  Quiet
<1>1. PICK s, a : s = sender /\ a = acked /\ SenderInv(s, a)
  BY DEF IInv
<1>2. PICK input : input = StreamSetError(s.input)
  OBVIOUS
<1>3. /\ StreamIntact(input) /\ input.popped = s.input.popped /\ BytesPushed(input) <= Longest
      /\ s.fin_sent => IsFinished(input)
  <2>1. /\ s.input \in Streams(Nat) /\ StreamIntact(s.input) /\ BytesPushed(s.input) <= Longest
        /\ s.fin_sent => IsFinished(s.input)
    BY <1>1 DEF SenderInv, Written, StreamIntact
  <2>2. /\ input \in Streams(Nat) /\ input.capacity = s.input.capacity
        /\ input.queue = s.input.queue /\ input.popped = s.input.popped
        /\ input.eof = s.input.eof
    BY <1>2, <2>1 DEF StreamSetError, Streams
  <2> QED
    BY <2>1, <2>2 DEF StreamIntact, BytesPushed, IsFinished
<1>4. PICK t : t = [s EXCEPT !.input = input]
  OBVIOUS
<1>5. SenderInv(t, a) /\ NextAbs(t) = NextAbs(s)
  BY <1>1, <1>3, <1>4, InputChange
<1>6. sender' = t /\ acked' = a /\ transmitted' = <<>>
  <2>1. CASE Abort
    BY <1>1, <1>2, <1>4, <2>1 DEF Abort
  <2>2. CASE ReceiveReset
    BY <1>1, <1>2, <1>4, <2>2 DEF ReceiveReset, SenderReceive, ReceiverMessage
  <2> QED
    BY <2>1, <2>2
<1> QED
  BY <1>1, <1>5, <1>6 DEF Quiet, IInv

(* What the peer does: it advertises a window, with or without an ackno.    *)
LEMMA WindowStep ==
    ASSUME IInv, NEW window \in Window, ReceiveWindow(window)
    PROVE  Quiet
<1>1. PICK s, a : s = sender /\ a = acked /\ SenderInv(s, a)
  BY DEF IInv
<1>2. PICK t : t = [s EXCEPT !.window_size = window]
  OBVIOUS
<1>3. SenderInv(t, a) /\ NextAbs(t) = NextAbs(s)
  BY <1>1, <1>2, WindowChange, EnvironmentAssumption
<1>4. sender' = t /\ acked' = a /\ transmitted' = <<>>
  BY <1>1, <1>2 DEF ReceiveWindow, SenderReceive, ReceiverMessage
<1> QED
  BY <1>1, <1>3, <1>4 DEF Quiet, IInv

LEMMA AcknoStep ==
    ASSUME ShortStream, IInv, NEW ackno \in 1 .. NextAbs(sender) + 1, NEW window \in Window,
           ReceiveAckno(ackno, window)
    PROVE  Quiet
<1>1. PICK s, a : s = sender /\ a = acked /\ SenderInv(s, a)
  BY DEF IInv
<1>2. PICK v : v = [s EXCEPT !.window_size = window]
  OBVIOUS
<1>3. SenderInv(v, a) /\ NextAbs(v) = NextAbs(s)
  BY <1>1, <1>2, WindowChange, EnvironmentAssumption
<1>4. v.isn = s.isn /\ s.isn \in Seqnos
  BY <1>1, <1>2 DEF SenderInv, Senders
<1>5. PICK x \in Seqnos : x = Wrap(ackno, s.isn)
  <2>1. ackno \in Int
    <3>1. NextAbs(s) \in Nat
      BY <1>1, SenderFacts DEF SenderInv
    <3> QED
      BY <1>1, <3>1
  <2> QED
    BY <1>4, <2>1, WrapOn
<1>6. x # NoAckno
  BY DEF Seqnos, NoAckno
<1>7. PICK t : t = Acknowledge(v, x)
  OBVIOUS
<1>8. /\ SenderInv(t, IF ackno > a /\ ackno <= NextAbs(s) THEN ackno ELSE a)
      /\ NextAbs(t) = NextAbs(s)
  <2>1. ackno \in 1 .. NextAbs(v) + 1 /\ x = Wrap(ackno, v.isn)
    BY <1>1, <1>3, <1>4, <1>5
  <2> QED
    BY <1>3, <1>7, <2>1, AcknowledgeResult
<1>9. sender' = t /\ transmitted' = <<>>
  BY <1>1, <1>2, <1>5, <1>6, <1>7 DEF ReceiveAckno, SenderReceive, ReceiverMessage
<1>10. acked' = IF ackno > a /\ ackno <= NextAbs(s) THEN ackno ELSE a
  BY <1>1 DEF ReceiveAckno
<1> QED
  BY <1>1, <1>8, <1>9, <1>10 DEF Quiet, IInv

(* What the sender sends: what is new, and what has to be sent again.       *)
PushesOnce ==
    /\ IInv'
    /\ transmitted' # <<>> /\ ~sender.input.error => NextAbs(sender') > NextAbs(sender)
    /\ sender.sender_syn /\ NextAbs(sender') > NextAbs(sender) =>
           SequenceNumbersInFlight(sender') <= WindowOrOne(sender)

Repeats ==
    /\ IInv' /\ NextAbs(sender') = NextAbs(sender)
    /\ transmitted' # <<>> => Outstanding # <<>> /\ transmitted' = <<Head(Outstanding)>>

LEMMA PushStep ==
    ASSUME IInv, Push
    PROVE  PushesOnce
<1>1. PICK s, a : s = sender /\ a = acked /\ SenderInv(s, a)
  BY DEF IInv
<1>2. PICK r : r = SenderPush(s)
  OBVIOUS
<1>3. PushOutcome(r, s, a)
  BY <1>1, <1>2, PushOfSender
<1>4. sender' = r.sender /\ transmitted' = r.sent /\ acked' = a
  BY <1>1, <1>2 DEF Push
<1> QED
  BY <1>1, <1>3, <1>4 DEF PushOutcome, RoomFor, WindowOrOne, PushesOnce, IInv

LEMMA TickStep ==
    ASSUME IInv, Tick
    PROVE  Repeats
<1>1. PICK s, a : s = sender /\ a = acked /\ SenderInv(s, a)
  BY DEF IInv
<1>2. PICK r : r = SenderTick(s, 1)
  OBVIOUS
<1>3. /\ SenderInv(r.sender, a) /\ NextAbs(r.sender) = NextAbs(s)
      /\ r.sent # <<>> => s.outstanding # <<>> /\ r.sent = <<Head(s.outstanding)>>
  BY <1>1, <1>2, TickResult
<1>4. sender' = r.sender /\ transmitted' = r.sent /\ acked' = a
  BY <1>1, <1>2 DEF Tick
<1> QED
  BY <1>1, <1>3, <1>4 DEF Repeats, IInv, Outstanding

(* Every step is quiet, sends what is new, or repeats.                      *)
LEMMA NextStep ==
    ASSUME ShortStream, IInv, Next
    PROVE  IInv' /\ (Quiet \/ PushesOnce \/ Repeats)
<1>1. ASSUME NEW len \in WriteLen, Write(len)
      PROVE  Quiet
  BY <1>1, WriteStep
<1>2. CASE Close
  BY <1>2, CloseStep DEF Quiet
<1>3. CASE Abort \/ ReceiveReset
  BY <1>3, ErrorStep DEF Quiet
<1>4. CASE Push
  BY <1>4, PushStep DEF PushesOnce
<1>5. ASSUME NEW ackno \in NextAbs(sender) - MaxAge .. NextAbs(sender) + 1, ackno > 0,
             NEW window \in Window, ReceiveAckno(ackno, window)
      PROVE  Quiet
  <2>1. ackno \in 1 .. NextAbs(sender) + 1
    <3>1. NextAbs(sender) \in Nat
      BY SenderFacts DEF IInv, SenderInv
    <3>2. PICK n \in Nat, m \in Nat : n = NextAbs(sender) /\ m = MaxAge
      BY <3>1, EnvironmentAssumption
    <3> QED
      BY <1>5, <3>2
  <2> QED
    BY <1>5, <2>1, AcknoStep
<1>6. ASSUME NEW window \in Window, ReceiveWindow(window)
      PROVE  Quiet
  BY <1>6, WindowStep
<1>7. CASE Tick
  BY <1>7, TickStep DEF Repeats
<1> QED
  BY <1>1, <1>2, <1>3, <1>4, <1>5, <1>6, <1>7 DEF Next, Quiet

(* No step disturbs the invariant.                                          *)
LEMMA Invariance ==
    ASSUME ShortStream
    PROVE  Spec => []IInv
<1>1. IInv /\ [Next]_vars => IInv'
  <2> SUFFICES ASSUME IInv, [Next]_vars PROVE IInv'
    OBVIOUS
  <2>1. CASE Next
    BY <2>1, NextStep
  <2>2. CASE UNCHANGED vars
    BY <2>2 DEF IInv, vars
  <2> QED
    BY <2>1, <2>2
<1>2. Init => IInv
  BY InitInv
<1> QED
  BY <1>1, <1>2, PTL DEF Spec

-----------------------------------------------------------------------------
(* TimerIffOutstanding for every instance: no loss is forgotten, and the    *)
(* timer does not fire for nothing.                                         *)
THEOREM SenderTimerIffOutstanding ==
    ASSUME ShortStream
    PROVE  Spec => []TimerIffOutstanding
<1>1. IInv => TimerIffOutstanding
  BY DEF IInv, SenderInv, Timed, TimerIffOutstanding, Outstanding
<1> QED
  BY <1>1, Invariance, PTL

(* ExponentialBackoff for every instance: the timeout is the initial one,   *)
(* doubled for each retransmission that no new ackno has answered.          *)
THEOREM SenderExponentialBackoff ==
    ASSUME ShortStream
    PROVE  Spec => []ExponentialBackoff
<1>1. IInv => ExponentialBackoff
  BY DEF IInv, SenderInv, Timed, ExponentialBackoff
<1> QED
  BY <1>1, Invariance, PTL

(* Where segments of the chain begin is where Start says.                   *)
LEMMA StartsAt ==
    ASSUME NEW st, AckedWithin(sender, acked, st), NextAbs(sender) \in Nat,
           NEW k \in 1 .. Len(Outstanding) + 1
    PROVE  Start(k) = st[k]
<1>1. Chain(Outstanding, st, sender.isn) /\ st[Len(Outstanding) + 1] = NextAbs(sender)
  BY DEF AckedWithin, Sent, Outstanding
<1>2. SumFunctionOnSet([j \in DOMAIN Outstanding |-> SequenceLength(Outstanding[j])],
                       k .. Len(Outstanding)) = st[Len(Outstanding) + 1] - st[k]
  BY <1>1, ChainSum
<1>3. PICK n \in Nat, x \in Nat : n = NextAbs(sender) /\ x = st[k]
  BY <1>1, ChainFacts
<1>4. n - (n - x) = x
  BY <1>3
<1> QED
  BY <1>1, <1>2, <1>3, <1>4 DEF Start

(* SegmentsHoldStream for every instance: however often the stream is       *)
(* written, pushed and acknowledged in part, a segment holds what belongs   *)
(* at its sequence number, and the FIN comes behind the last byte.          *)
THEOREM SenderSegmentsHoldStream ==
    ASSUME ShortStream
    PROVE  Spec => []SegmentsHoldStream
<1>1. IInv => SegmentsHoldStream
  <2> SUFFICES ASSUME IInv PROVE SegmentsHoldStream
    OBVIOUS
  <2>1. PICK st : AckedWithin(sender, acked, st)
    BY DEF IInv, SenderInv, Acked
  <2>2. PICK l \in Nat : l = Len(Outstanding) /\ DOMAIN Outstanding = 1 .. l
    BY <2>1, ChainFacts DEF AckedWithin, Sent, Outstanding
  <2>3. NextAbs(sender) \in Nat
    BY SenderFacts DEF IInv, SenderInv
  <2>4. ASSUME NEW k \in 1 .. l
        PROVE  /\ Outstanding[k].seqno = Wrap(Start(k), sender.isn)
               /\ Outstanding[k].SYN <=> Start(k) = 0
               /\ Outstanding[k].payload
                     = Bytes(Start(k) + Flag(Outstanding[k].SYN) - 1, Len(Outstanding[k].payload))
               /\ Outstanding[k].FIN <=> (sender.fin_sent /\ k = l)
               /\ SequenceLength(Outstanding[k]) > 0
    <3>1. k \in 1 .. Len(Outstanding) + 1
      BY <2>2
    <3>2. Start(k) = st[k]
      BY <2>1, <2>3, <3>1, StartsAt
    <3>3. FromStream(Outstanding[k], st[k], sender.isn)
      BY <2>1, <2>2 DEF AckedWithin, Sent, Chain, Outstanding
    <3>4. Outstanding[k].FIN <=> (sender.fin_sent /\ k = l)
      BY <2>2 DEF IInv, SenderInv, Acked, FinIsLast, Outstanding
    <3> HIDE DEF Start, Outstanding
    <3> QED
      BY <3>2, <3>3, <3>4, Zenon DEF FromStream
  <2>5. sender.next_seqno = Wrap(NextAbs(sender), sender.isn)
    BY <2>1 DEF AckedWithin, Sent
  <2>6. sender.fin_sent => IsFinished(sender.input)
    BY DEF IInv, SenderInv, Written
  <2> HIDE DEF Start, Outstanding
  <2> QED
    BY <2>2, <2>4, <2>5, <2>6 DEF SegmentsHoldStream
<1> QED
  BY <1>1, Invariance, PTL

(* OutstandingIffUnacked for every instance: what is kept for sending again *)
(* is exactly what no ackno has covered, whatever acknos arrive.            *)
THEOREM SenderOutstandingIffUnacked ==
    ASSUME ShortStream
    PROVE  Spec => []OutstandingIffUnacked
<1>1. IInv => OutstandingIffUnacked
  <2> SUFFICES ASSUME IInv PROVE OutstandingIffUnacked
    OBVIOUS
  <2>1. PICK st : AckedWithin(sender, acked, st)
    BY DEF IInv, SenderInv, Acked
  <2>2. PICK n \in Nat : n = NextAbs(sender)
    BY SenderFacts DEF IInv, SenderInv
  <2>3. PICK out : out = Outstanding /\ Chain(out, st, sender.isn) /\ st[Len(out) + 1] = n
    BY <2>1, <2>2 DEF AckedWithin, Sent, Outstanding
  <2>4. PICK l \in Nat : l = Len(out) /\ (l = 0 <=> out = <<>>)
    BY <2>3, ChainFacts
  <2>5. st[1] <= acked /\ (out # <<>> => acked < st[2]) /\ acked \in 0 .. n
    BY <2>1, <2>2, <2>3 DEF AckedWithin, Outstanding, IInv, SenderInv, Acked
  <2>6. CASE out = <<>>
    <3>1. st[1] = n
      BY <2>3, <2>4, <2>6
    <3>2. acked = n
      BY <2>5, <3>1
    <3> QED
      BY <2>2, <2>3, <2>6, <3>2 DEF OutstandingIffUnacked
  <2>7. CASE out # <<>>
    <3>1. 1 \in 1 .. l /\ 1 \in 1 .. l + 1 /\ 1 + 1 = 2
      BY <2>4, <2>7
    <3>2. st[2] = st[1] + SequenceLength(out[1])
      BY <2>3, <2>4, <3>1, ChainFacts
    <3>3. Start(1) = st[1]
      BY <2>1, <2>2, <2>3, <2>4, <3>1, StartsAt
    <3>4. Head(out) = out[1]
      OBVIOUS
    <3> HIDE DEF Start, Outstanding
    <3> QED
      BY <2>3, <2>5, <2>7, <3>2, <3>3, <3>4 DEF OutstandingIffUnacked
  <2> QED
    BY <2>6, <2>7
<1> QED
  BY <1>1, Invariance, PTL

(* DataWithinWindow for every instance: bytes and FINs that are new take    *)
(* the peer's window and no more, with what is outstanding.                 *)
THEOREM SenderDataWithinWindow ==
    ASSUME ShortStream
    PROVE  Spec => DataWithinWindow
<1>1. IInv /\ [Next]_vars =>
          [sender.sender_syn /\ NextAbs(sender') > NextAbs(sender)
               => SequenceNumbersInFlight(sender') <= WindowOrOne(sender)]_vars
  <2> SUFFICES ASSUME IInv, Next, sender.sender_syn, NextAbs(sender') > NextAbs(sender)
               PROVE  SequenceNumbersInFlight(sender') <= WindowOrOne(sender)
    OBVIOUS
  <2>1. NextAbs(sender) \in Nat
    BY SenderFacts DEF IInv, SenderInv
  <2>2. PushesOnce
    BY <2>1, NextStep DEF Quiet, Repeats
  <2> QED
    BY <2>2 DEF PushesOnce
<1> QED
  BY <1>1, Invariance, PTL DEF Spec, DataWithinWindow

(* RetransmitsEarliest for every instance: what is sent again is what the   *)
(* peer's receiver waits for.                                               *)
THEOREM SenderRetransmitsEarliest ==
    ASSUME ShortStream
    PROVE  Spec => RetransmitsEarliest
<1> DEFINE Earliest1 ==
        NextAbs(sender') = NextAbs(sender) /\ transmitted' # <<>> /\ ~sender.input.error =>
           \E a \in 0 .. acked :
               /\ Len(transmitted') = 1
               /\ transmitted'[1].seqno = Wrap(a, sender.isn)
               /\ acked < a + SequenceLength(transmitted'[1])
<1>1. IInv /\ [Next]_vars => [Earliest1]_vars
  <2> SUFFICES ASSUME IInv, Next, NextAbs(sender') = NextAbs(sender), transmitted' # <<>>,
                      ~sender.input.error
               PROVE  \E a \in 0 .. acked :
                          /\ Len(transmitted') = 1
                          /\ transmitted'[1].seqno = Wrap(a, sender.isn)
                          /\ acked < a + SequenceLength(transmitted'[1])
    OBVIOUS
  <2>1. PICK n \in Nat : n = NextAbs(sender) /\ ~(n > n)
    BY SenderFacts DEF IInv, SenderInv
  <2>2. Repeats
    BY <2>1, NextStep DEF Quiet, PushesOnce
  <2>3. PICK st : AckedWithin(sender, acked, st)
    BY DEF IInv, SenderInv, Acked
  <2>4. PICK out : out = sender.outstanding /\ Chain(out, st, sender.isn)
    BY <2>3 DEF AckedWithin, Sent
  <2>5. out # <<>> /\ transmitted' = <<Head(out)>>
    BY <2>2, <2>4 DEF Repeats, Outstanding
  <2>6. PICK l \in Nat : l = Len(out) /\ (l = 0 <=> out = <<>>)
    BY <2>4, ChainFacts
  <2>7. 1 \in 1 .. l /\ 1 \in 1 .. l + 1 /\ 1 + 1 = 2
    BY <2>5, <2>6
  <2>8. PICK seg : seg = out[1]
    OBVIOUS
  <2>9. Len(transmitted') = 1 /\ transmitted'[1] = seg
    BY <2>5, <2>8
  <2>10. PICK a \in Nat : a = st[1] /\ st[2] = a + SequenceLength(seg)
    BY <2>4, <2>6, <2>7, <2>8, ChainFacts
  <2>11. seg.seqno = Wrap(a, sender.isn)
    BY <2>4, <2>6, <2>7, <2>8, <2>10 DEF Chain, FromStream
  <2>12. a <= acked /\ acked < a + SequenceLength(seg) /\ acked \in Int
    BY <2>1, <2>3, <2>4, <2>5, <2>10 DEF AckedWithin, IInv, SenderInv, Acked
  <2> QED
    BY <2>9, <2>10, <2>11, <2>12
<1> QED
  BY <1>1, Invariance, PTL DEF Spec, RetransmitsEarliest
=============================================================================

-------------------------- MODULE StreamCopyProofs --------------------------
(***************************************************************************)
(* bidirectional_stream_copy, for every capacity of its streams, every     *)
(* size of the kernel's buffers and any number of bytes: no byte is lost   *)
(* between the descriptors and the streams, an end is passed on only when  *)
(* it has come, and the loop ends as it should.                            *)
(*                                                                         *)
(* A round goes through up to four rules, each of which may cancel, fail   *)
(* or serve. What one rule does to a sound world is a lemma; the loops     *)
(* follow by induction over the rules. What poll has said is old when it   *)
(* is used: StillTrue is the part of it that nobody can change meanwhile.  *)
(***************************************************************************)
EXTENDS StreamCopy, OpsProofs

(* The states of the program and the kernel.                                *)
Fds == {"input", "socket", "output"}

Worlds ==
    [rules : Seq(1 .. 4), asked : SUBSET (1 .. 4), served : BOOLEAN,
     outcome : {"running", "exit", "died"},
     fd : [Fds -> [eof : BOOLEAN, closed : BOOLEAN, counted : SUBSET {"In", "Out"}]],
     stream : [Directions -> Streams(Nat)], shutdown : [Directions -> BOOLEAN],
     source : [Directions -> [bytes : Seq(Nat), written : Nat, ended : BOOLEAN]],
     sink : [Directions -> [bytes : Seq(Nat), taken : Nat, ended : BOOLEAN]],
     pipe : BOOLEAN, hungup : BOOLEAN, broken : SUBSET {"socket", "output"}]

Excused(w) == w.broken # {} \/ w.hungup

(* Nothing more can be read for this direction.                             *)
EndKnown(w, d) == Excused(w) \/ (w.source[d].ended /\ w.source[d].bytes = <<>>)

(* Every byte is in one place, in order.                                    *)
Placed(w, d) ==
    /\ w.sink[d].taken <= w.source[d].written
    /\ w.sink[d].bytes \o w.stream[d].queue \o w.source[d].bytes
           = Bytes(w.sink[d].taken, w.source[d].written - w.sink[d].taken)

Bounded(w, d) == w.stream[d].capacity = buffer_size /\ Len(w.stream[d].queue) <= buffer_size

(* What the program knows of the end is true, and has been passed on.       *)
Truthful(w, d) ==
    /\ w.stream[d].eof => EndKnown(w, d)
    /\ w.stream[d].error => w.broken # {}
    /\ w.sink[d].ended <=> w.shutdown[d]
    /\ w.shutdown[d] => w.stream[d].eof /\ w.stream[d].queue = <<>>

FdsTruthful(w) ==
    /\ w.fd["input"].eof => EndKnown(w, "outbound")
    /\ w.fd["socket"].eof => EndKnown(w, "inbound")
    /\ ~w.fd["input"].closed /\ ~w.fd["socket"].closed
    /\ w.fd["output"].closed => w.shutdown["inbound"]

Outcome(w) ==
    /\ w.outcome = "died" => Excused(w)
    /\ w.outcome = "exit" =>
        /\ \A d \in Directions :
            \/ w.stream[d].queue = <<>>
            \/ w.broken # {}
            \/ d = "outbound" /\ w.hungup
        /\ w.broken = {} =>
            /\ w.sink["inbound"].ended
            /\ w.sink["outbound"].ended \/ w.hungup

Sound(w) ==
    /\ w \in Worlds
    /\ \A d \in Directions : Placed(w, d) /\ Bounded(w, d) /\ Truthful(w, d)
    /\ FdsTruthful(w)
    /\ Outcome(w)

(* A rule that writes may be cancelled when there is nobody to write to.    *)
NobodyReads(w, r) ==
    DirectionOf(r) = "Out" =>
        \/ w.broken # {}
        \/ w.sink[StreamOf(r)].ended
        \/ r = 2 /\ w.hungup

MayGo(w, r) == EndKnown(w, StreamOf(r)) /\ NobodyReads(w, r)
Gone(w, r)  == w.stream[StreamOf(r)].eof /\ NobodyReads(w, r)

HasRule(w, r) == \E k \in 1 .. Len(w.rules) : w.rules[k] = r

Increasing(s) == \A i, j \in 1 .. Len(s) : i < j => s[i] < s[j]

RulesLeft(w) == Increasing(w.rules) /\ \A r \in 1 .. 4 : HasRule(w, r) \/ Gone(w, r)

(* A rule that reads and was interested has room for what it reads.         *)
CanTake(w, r) ==
    r \in w.asked /\ DirectionOf(r) = "In" =>
        ~w.stream[StreamOf(r)].eof /\ Len(w.stream[StreamOf(r)].queue) < buffer_size

(* What poll said of a rule is still true.                                  *)
StillTrue(w, r, events) ==
    /\ "ready" \in events =>
        /\ r \in w.asked
        /\ DirectionOf(r) = "In" =>
               \/ w.source[StreamOf(r)].bytes # <<>>
               \/ w.source[StreamOf(r)].ended
               \/ FdOf(r) \in w.broken
    /\ "err" \in events => w.broken # {}
    /\ Loop!HungUp(w, r, events) => MayGo(w, r)

Invariant(w, step, told) ==
    /\ Sound(w) /\ RulesLeft(w) /\ ~w.served
    /\ step \in {"setup", "poll", "serve"}
    /\ step # "setup" => \A r \in 1 .. 4 : CanTake(w, r)
    /\ step = "serve" => \A r \in 1 .. 4 : HasRule(w, r) => StillTrue(w, r, told[r])

IInv == Invariant(world, pc, revents)

-----------------------------------------------------------------------------
(* The rules.                                                               *)
LEMMA RuleTable ==
    ASSUME NEW r \in 1 .. 4
    PROVE  /\ r = 1 => FdOf(r) = "input" /\ DirectionOf(r) = "In" /\ StreamOf(r) = "outbound"
           /\ r = 2 => FdOf(r) = "socket" /\ DirectionOf(r) = "Out" /\ StreamOf(r) = "outbound"
           /\ r = 3 => FdOf(r) = "socket" /\ DirectionOf(r) = "In" /\ StreamOf(r) = "inbound"
           /\ r = 4 => FdOf(r) = "output" /\ DirectionOf(r) = "Out" /\ StreamOf(r) = "inbound"
           /\ r = 1 \/ r = 2 \/ r = 3 \/ r = 4
BY DEF FdOf, DirectionOf, StreamOf

LEMMA RuleTypes ==
    ASSUME NEW r \in 1 .. 4
    PROVE  FdOf(r) \in Fds /\ DirectionOf(r) \in {"In", "Out"} /\ StreamOf(r) \in Directions
BY RuleTable DEF Fds, Directions

(* A world without its rules, what was asked and which calls were counted.  *)
SameMatter(u, v) ==
    /\ u.stream = v.stream /\ u.shutdown = v.shutdown /\ u.source = v.source /\ u.sink = v.sink
    /\ u.hungup = v.hungup /\ u.broken = v.broken
    /\ \A f \in Fds : u.fd[f].eof = v.fd[f].eof /\ u.fd[f].closed = v.fd[f].closed

LEMMA SoundMatter ==
    ASSUME NEW v, Sound(v), NEW u \in Worlds, SameMatter(u, v), u.outcome = v.outcome
    PROVE  Sound(u)
<1>1. \A d \in Directions : Placed(u, d) /\ Bounded(u, d) /\ Truthful(u, d)
  BY ZenonT(60) DEF Sound, SameMatter, Placed, Bounded, Truthful, EndKnown, Excused
<1>2. FdsTruthful(u)
  <2>1. "input" \in Fds /\ "socket" \in Fds /\ "output" \in Fds
    BY DEF Fds
  <2> QED
    BY <2>1 DEF Sound, SameMatter, FdsTruthful, EndKnown, Excused
<1>3. Outcome(u)
  BY DEF Sound, SameMatter, Outcome, Excused
<1> QED
  BY <1>1, <1>2, <1>3 DEF Sound

(* A world in which more has come to its end than in another.               *)
Onward(u, v) ==
    /\ \A d \in Directions :
           /\ v.stream[d].eof => u.stream[d].eof
           /\ v.sink[d].ended => u.sink[d].ended
           /\ EndKnown(v, d) => EndKnown(u, d)
    /\ v.broken # {} => u.broken # {}
    /\ v.hungup => u.hungup

LEMMA StaysGone ==
    ASSUME NEW v, NEW u, Onward(u, v), NEW r \in 1 .. 4
    PROVE  /\ NobodyReads(v, r) => NobodyReads(u, r)
           /\ MayGo(v, r) => MayGo(u, r)
           /\ Gone(v, r) => Gone(u, r)
BY RuleTypes DEF Onward, NobodyReads, MayGo, Gone

LEMMA OnwardSame ==
    ASSUME NEW v, NEW u, SameMatter(u, v)
    PROVE  Onward(u, v)
BY DEF Onward, SameMatter, EndKnown, Excused

LEMMA OnwardOn ==
    ASSUME NEW t, NEW u, NEW v, Onward(t, u), Onward(u, v)
    PROVE  Onward(t, v)
BY DEF Onward

-----------------------------------------------------------------------------
(* The parts of a world.                                                    *)
LEMMA WorldParts ==
    ASSUME NEW v \in Worlds
    PROVE  /\ v.rules \in Seq(1 .. 4) /\ v.asked \in SUBSET (1 .. 4) /\ v.served \in BOOLEAN
           /\ v.stream \in [Directions -> Streams(Nat)] /\ v.shutdown \in [Directions -> BOOLEAN]
           /\ \A d \in Directions :
                 /\ v.stream[d] \in Streams(Nat) /\ v.shutdown[d] \in BOOLEAN
                 /\ v.source[d] \in [bytes : Seq(Nat), written : Nat, ended : BOOLEAN]
                 /\ v.sink[d] \in [bytes : Seq(Nat), taken : Nat, ended : BOOLEAN]
           /\ \A f \in Fds : v.fd[f] \in [eof : BOOLEAN, closed : BOOLEAN, counted : SUBSET {"In", "Out"}]
BY DEF Worlds

LEMMA StreamParts ==
    ASSUME NEW s \in Streams(Nat)
    PROVE  /\ s.capacity \in Nat /\ s.queue \in Seq(Nat) /\ s.popped \in Nat
           /\ s.eof \in BOOLEAN /\ s.error \in BOOLEAN /\ Len(s.queue) \in Nat
BY LenProperties DEF Streams

(* A world whose streams are replaced.                                      *)
WithStreams(v, streams) == [v EXCEPT !.stream = streams]

LEMMA WithStreamsResult ==
    ASSUME NEW v \in Worlds, NEW streams \in [Directions -> Streams(Nat)]
    PROVE  /\ WithStreams(v, streams) \in Worlds
           /\ WithStreams(v, streams).stream = streams
           /\ WithStreams(v, streams).rules = v.rules /\ WithStreams(v, streams).asked = v.asked
           /\ WithStreams(v, streams).served = v.served /\ WithStreams(v, streams).outcome = v.outcome
           /\ WithStreams(v, streams).fd = v.fd /\ WithStreams(v, streams).shutdown = v.shutdown
           /\ WithStreams(v, streams).source = v.source /\ WithStreams(v, streams).sink = v.sink
           /\ WithStreams(v, streams).hungup = v.hungup /\ WithStreams(v, streams).broken = v.broken
BY DEF WithStreams, Worlds

(* Streams that differ only in being closed or in having an error.          *)
Flagged(s, t) == s \in Streams(Nat) /\ s.queue = t.queue /\ s.capacity = t.capacity /\ (t.eof => s.eof)

LEMMA FlagStreams ==
    ASSUME NEW v, Sound(v), NEW u \in Worlds,
           u.rules = v.rules, u.outcome = v.outcome, u.fd = v.fd, u.shutdown = v.shutdown,
           u.source = v.source, u.sink = v.sink, u.hungup = v.hungup, u.broken = v.broken,
           \A d \in Directions :
               /\ Flagged(u.stream[d], v.stream[d])
               /\ u.stream[d].eof => v.stream[d].eof \/ EndKnown(v, d)
               /\ u.stream[d].error => v.stream[d].error \/ v.broken # {}
    PROVE  Sound(u) /\ Onward(u, v)
<1>1. \A d \in Directions : EndKnown(u, d) <=> EndKnown(v, d)
  BY DEF EndKnown, Excused
<1>2. \A d \in Directions : Placed(u, d) /\ Bounded(u, d)
  BY DEF Sound, Flagged, Placed, Bounded
<1>3. \A d \in Directions : Truthful(u, d)
  BY <1>1 DEF Sound, Flagged, Truthful
<1>4. FdsTruthful(u)
  BY <1>1 DEF Sound, FdsTruthful, Directions
<1>5. Outcome(u)
  BY DEF Sound, Outcome, Excused, Flagged
<1>6. Onward(u, v)
  BY <1>1 DEF Onward, Flagged
<1> QED
  BY <1>2, <1>3, <1>4, <1>5, <1>6 DEF Sound

(* What cancelling a rule does when its stream has come to its end.         *)
Cancelled(u, v, r) ==
    /\ Sound(u) /\ Onward(u, v)
    /\ u.rules = v.rules /\ u.asked = v.asked /\ u.served = v.served /\ u.outcome = v.outcome
    /\ u.fd = v.fd /\ u.source = v.source /\ u.sink = v.sink
    /\ u.hungup = v.hungup /\ u.broken = v.broken /\ u.shutdown = v.shutdown
    /\ u.stream[StreamOf(r)].eof
    /\ \A d \in Directions : u.stream[d].queue = v.stream[d].queue /\ u.stream[d].capacity = v.stream[d].capacity
    /\ \A d \in Directions \ {StreamOf(r)} : u.stream[d].eof = v.stream[d].eof

LEMMA CloseFlags ==
    ASSUME NEW t \in Streams(Nat), NEW s, s = StreamClose(t)
    PROVE  Flagged(s, t) /\ s.eof /\ s.error = t.error
BY DEF StreamClose, Flagged, Streams

LEMMA CancelResult ==
    ASSUME NEW v, Sound(v), NEW r \in 1 .. 4, EndKnown(v, StreamOf(r))
    PROVE  Cancelled(Cancel(r, v), v, r)
<1>1. PICK d \in Directions : d = StreamOf(r)
  BY RuleTypes
<1>2. v \in Worlds
  BY DEF Sound
<1>3. PICK s : s = StreamClose(v.stream[d])
  OBVIOUS
<1>4. Flagged(s, v.stream[d]) /\ s.eof /\ s.error = v.stream[d].error
  <2>1. v.stream[d] \in Streams(Nat)
    BY <1>2, WorldParts
  <2> QED
    BY <1>3, <2>1, CloseFlags
<1>5. PICK streams : streams = [v.stream EXCEPT ![d] = s]
  OBVIOUS
<1>6. /\ streams \in [Directions -> Streams(Nat)] /\ streams[d] = s
      /\ \A e \in Directions \ {d} : streams[e] = v.stream[e]
  BY <1>2, <1>4, <1>5, WorldParts DEF Flagged
<1>7. PICK u : u = WithStreams(v, streams)
  OBVIOUS
<1>8. u = Cancel(r, v)
  BY <1>1, <1>3, <1>5, <1>7 DEF Cancel, WithStreams
<1>9. /\ u \in Worlds /\ u.stream = streams
      /\ u.rules = v.rules /\ u.asked = v.asked /\ u.served = v.served /\ u.outcome = v.outcome
      /\ u.fd = v.fd /\ u.shutdown = v.shutdown /\ u.source = v.source /\ u.sink = v.sink
      /\ u.hungup = v.hungup /\ u.broken = v.broken
  BY <1>2, <1>6, <1>7, WithStreamsResult
<1>10. \A e \in Directions :
           /\ Flagged(u.stream[e], v.stream[e])
           /\ u.stream[e].eof => v.stream[e].eof \/ EndKnown(v, e)
           /\ u.stream[e].error => v.stream[e].error \/ v.broken # {}
  <2> TAKE e \in Directions
  <2>1. CASE e = d
    BY <1>1, <1>4, <1>6, <1>9, <2>1
  <2>2. CASE e # d
    <3>1. u.stream[e] = v.stream[e]
      BY <1>6, <1>9, <2>2
    <3> QED
      BY <1>2, <3>1, WorldParts DEF Flagged
  <2> QED
    BY <2>1, <2>2
<1>11. Sound(u) /\ Onward(u, v)
  BY <1>9, <1>10, FlagStreams
<1>12. Cancelled(u, v, r)
  BY <1>1, <1>4, <1>6, <1>9, <1>10, <1>11 DEF Cancelled, Flagged
<1> QED
  BY <1>8, <1>12

(* An error of a descriptor closes nothing.                                 *)
Errored(u, v) ==
    /\ Sound(u) /\ Onward(u, v)
    /\ u.rules = v.rules /\ u.asked = v.asked /\ u.served = v.served /\ u.outcome = v.outcome
    /\ u.fd = v.fd /\ u.source = v.source /\ u.sink = v.sink
    /\ u.hungup = v.hungup /\ u.broken = v.broken /\ u.shutdown = v.shutdown
    /\ \A d \in Directions : /\ u.stream[d].queue = v.stream[d].queue
                             /\ u.stream[d].capacity = v.stream[d].capacity
                             /\ u.stream[d].eof = v.stream[d].eof

LEMMA ErrorResult ==
    ASSUME NEW v, Sound(v), NEW r \in 1 .. 4, v.broken # {}
    PROVE  Errored(Error(r, v), v)
<1>1. v \in Worlds
  BY DEF Sound
<1>2. PICK streams : streams = [d \in Directions |-> StreamSetError(v.stream[d])]
  OBVIOUS
<1>3. ASSUME NEW d \in Directions
      PROVE  Flagged(streams[d], v.stream[d]) /\ streams[d].eof = v.stream[d].eof
  <2>1. PICK t \in Streams(Nat) : t = v.stream[d]
    BY <1>1, WorldParts
  <2>2. PICK s : s = StreamSetError(t)
    OBVIOUS
  <2>3. streams[d] = s
    BY <1>2, <2>1, <2>2
  <2>4. Flagged(s, t)
    BY <2>2 DEF StreamSetError, Flagged, Streams
  <2>5. s.eof = t.eof
    BY <2>2 DEF StreamSetError, Streams
  <2> QED
    BY <2>1, <2>3, <2>4, <2>5
<1>4. streams \in [Directions -> Streams(Nat)]
  BY <1>2, <1>3 DEF Flagged
<1>5. PICK u : u = WithStreams(v, streams)
  OBVIOUS
<1>6. u = Error(r, v)
  BY <1>1, <1>2, <1>5, WorldParts DEF Error, WithStreams
<1>7. /\ u \in Worlds /\ u.stream = streams
      /\ u.rules = v.rules /\ u.asked = v.asked /\ u.served = v.served /\ u.outcome = v.outcome
      /\ u.fd = v.fd /\ u.shutdown = v.shutdown /\ u.source = v.source /\ u.sink = v.sink
      /\ u.hungup = v.hungup /\ u.broken = v.broken
  BY <1>1, <1>4, <1>5, WithStreamsResult
<1>8. Sound(u) /\ Onward(u, v)
  BY <1>3, <1>7, FlagStreams
<1> QED
  BY <1>3, <1>6, <1>7, <1>8 DEF Errored, Flagged

-----------------------------------------------------------------------------
(* What ::read takes is the first part of what has arrived.                 *)
LEMMA TakeDrop ==
    ASSUME NEW s \in Seq(Nat), NEW n \in Nat, n <= Len(s)
    PROVE  /\ Take(s, n) \in Seq(Nat) /\ Len(Take(s, n)) = n
           /\ Drop(s, n) \in Seq(Nat) /\ Len(Drop(s, n)) = Len(s) - n
           /\ Take(s, n) \o Drop(s, n) = s
<1>1. PICK m \in Nat : m = Len(s) /\ n <= m
  BY LenProperties
<1>2. \A i \in 1 .. m : s[i] \in Nat
  BY <1>1, ElementOfSeq
<1>3. Take(s, n) \in Seq(Nat) /\ Len(Take(s, n)) = n
  <2>1. \A i \in 1 .. n : s[i] \in Nat
    BY <1>1, <1>2
  <2>2. /\ SubSeq(s, 1, n) \in Seq(Nat)
        /\ Len(SubSeq(s, 1, n)) = IF 1 <= n THEN n - 1 + 1 ELSE 0
    BY <2>1, SubSeqProperties
  <2> QED
    BY <2>2 DEF Take
<1>4. Drop(s, n) \in Seq(Nat) /\ Len(Drop(s, n)) = m - n
  <2>1. \A i \in n + 1 .. m : s[i] \in Nat
    BY <1>1, <1>2
  <2>2. /\ SubSeq(s, n + 1, m) \in Seq(Nat)
        /\ Len(SubSeq(s, n + 1, m)) = IF n + 1 <= m THEN m - (n + 1) + 1 ELSE 0
    BY <2>1, SubSeqProperties
  <2> QED
    BY <1>1, <2>2 DEF Drop
<1>5. Take(s, n) \o Drop(s, n) = s
  <2>1. SubSeq(s, 1, n) \o SubSeq(s, n + 1, m) = SubSeq(s, 1, m)
    <3>1. 1 \in 1 .. Len(s) + 1 /\ n \in 1 - 1 .. Len(s) /\ m \in n .. Len(s)
      BY <1>1
    <3> QED
      BY <3>1, ConcatAdjacentSubSeq
  <2>2. SubSeq(s, 1, m) = s
    BY <1>1, SubSeqFull
  <2> QED
    BY <1>1, <2>1, <2>2 DEF Take, Drop
<1> QED
  BY <1>1, <1>3, <1>4, <1>5

Associates(a, b, c) == (a \o b) \o c = a \o (b \o c)

LEMMA Regroup ==
    ASSUME NEW a \in Seq(Nat), NEW b \in Seq(Nat), NEW c \in Seq(Nat)
    PROVE  Associates(a, b, c)
BY ConcatAssociative DEF Associates

(* Bytes that move from the front of one string to the end of another.      *)
LEMMA MoveBytes ==
    ASSUME NEW a \in Seq(Nat), NEW b \in Seq(Nat), NEW n \in Nat, n <= Len(b)
    PROVE  (a \o Take(b, n)) \o Drop(b, n) = a \o b
<1>1. PICK t \in Seq(Nat), u \in Seq(Nat) : t = Take(b, n) /\ u = Drop(b, n) /\ t \o u = b
  BY TakeDrop
<1>2. Associates(a, t, u)
  BY Regroup
<1> QED
  BY <1>1, <1>2 DEF Associates

-----------------------------------------------------------------------------
(* A world after a read or a write for direction d by descriptor f.         *)
WithRead(v, d, f, bytes, fd, stream) ==
    [v EXCEPT !.source[d].bytes = bytes, !.fd[f] = fd, !.stream[d] = stream]

(* What a callback leaves alone.                                            *)
SameLoop(u, v) ==
    /\ u.rules = v.rules /\ u.asked = v.asked /\ u.served = v.served /\ u.outcome = v.outcome
    /\ u.hungup = v.hungup /\ u.broken = v.broken

SameElsewhere(u, v, d) ==
    \A e \in Directions \ {d} :
        /\ u.stream[e] = v.stream[e] /\ u.source[e] = v.source[e]
        /\ u.sink[e] = v.sink[e] /\ u.shutdown[e] = v.shutdown[e]

ReadIn(u, v, d, f, bytes, fd, stream) ==
    /\ u \in Worlds /\ SameLoop(u, v) /\ SameElsewhere(u, v, d)
    /\ u.stream[d] = stream /\ u.sink = v.sink /\ u.shutdown = v.shutdown
    /\ u.source[d].bytes = bytes /\ u.source[d].written = v.source[d].written
    /\ u.source[d].ended = v.source[d].ended
    /\ u.fd[f] = fd /\ \A g \in Fds \ {f} : u.fd[g] = v.fd[g]

LEMMA WithReadResult ==
    ASSUME NEW v \in Worlds, NEW d \in Directions, NEW f \in Fds, NEW bytes \in Seq(Nat),
           NEW fd \in [eof : BOOLEAN, closed : BOOLEAN, counted : SUBSET {"In", "Out"}],
           NEW stream \in Streams(Nat)
    PROVE  ReadIn(WithRead(v, d, f, bytes, fd, stream), v, d, f, bytes, fd, stream)
<1>1. PICK source : source = [v.source EXCEPT ![d] = [@ EXCEPT !.bytes = bytes]]
  OBVIOUS
<1>2. /\ source \in [Directions -> [bytes : Seq(Nat), written : Nat, ended : BOOLEAN]]
      /\ source[d].bytes = bytes /\ source[d].written = v.source[d].written
      /\ source[d].ended = v.source[d].ended
      /\ \A e \in Directions \ {d} : source[e] = v.source[e]
  <2>1. v.source \in [Directions -> [bytes : Seq(Nat), written : Nat, ended : BOOLEAN]]
    BY DEF Worlds
  <2>2. PICK s : s = [v.source[d] EXCEPT !.bytes = bytes]
    OBVIOUS
  <2>3. /\ s \in [bytes : Seq(Nat), written : Nat, ended : BOOLEAN]
        /\ s.bytes = bytes /\ s.written = v.source[d].written /\ s.ended = v.source[d].ended
    BY <2>1, <2>2
  <2>4. source = [v.source EXCEPT ![d] = s]
    BY <1>1, <2>2
  <2> QED
    BY <2>1, <2>3, <2>4
<1>3. PICK fds : fds = [v.fd EXCEPT ![f] = fd]
  OBVIOUS
<1>4. /\ fds \in [Fds -> [eof : BOOLEAN, closed : BOOLEAN, counted : SUBSET {"In", "Out"}]]
      /\ fds[f] = fd /\ \A g \in Fds \ {f} : fds[g] = v.fd[g]
  BY <1>3 DEF Worlds
<1>5. PICK streams : streams = [v.stream EXCEPT ![d] = stream]
  OBVIOUS
<1>6. /\ streams \in [Directions -> Streams(Nat)] /\ streams[d] = stream
      /\ \A e \in Directions \ {d} : streams[e] = v.stream[e]
  BY <1>5 DEF Worlds
<1>7. PICK u : u = [v EXCEPT !.source = source, !.fd = fds, !.stream = streams]
  OBVIOUS
<1>8. u = WithRead(v, d, f, bytes, fd, stream)
  BY <1>1, <1>3, <1>5, <1>7 DEF WithRead, Worlds
<1>9. /\ u \in Worlds /\ u.source = source /\ u.fd = fds /\ u.stream = streams
      /\ u.sink = v.sink /\ u.shutdown = v.shutdown /\ SameLoop(u, v)
  BY <1>2, <1>4, <1>6, <1>7 DEF Worlds, SameLoop
<1> QED
  BY <1>2, <1>4, <1>6, <1>8, <1>9 DEF ReadIn, SameElsewhere

(* One of the two directions and the other.                                 *)
LEMMA SoundElsewhere ==
    ASSUME NEW v, Sound(v), NEW u, NEW d \in Directions,
           SameLoop(u, v), SameElsewhere(u, v, d), NEW e \in Directions \ {d}
    PROVE  /\ Placed(u, e) /\ Bounded(u, e) /\ Truthful(u, e)
           /\ EndKnown(u, e) <=> EndKnown(v, e)
<1>1. Placed(v, e) /\ Bounded(v, e) /\ Truthful(v, e)
  BY DEF Sound
<1>2. /\ u.stream[e] = v.stream[e] /\ u.source[e] = v.source[e]
      /\ u.sink[e] = v.sink[e] /\ u.shutdown[e] = v.shutdown[e]
      /\ u.broken = v.broken /\ u.hungup = v.hungup
  BY DEF SameElsewhere, SameLoop
<1> QED
  BY <1>1, <1>2 DEF Placed, Bounded, Truthful, EndKnown, Excused

(* What a read takes: everything, or as much as there is room for.          *)
LEMMA BytesReadResult ==
    ASSUME NEW arrived \in Seq(Nat), NEW room \in Nat, room > 0
    PROVE  \E n \in Nat :
               /\ n <= Len(arrived) /\ n <= room
               /\ n = 0 <=> arrived = <<>>
               /\ BytesRead(arrived, room) = Take(arrived, n)
<1>1. PICK m \in Nat : m = Len(arrived) /\ (m = 0 <=> arrived = <<>>)
  BY EmptySeq, LenProperties
<1>2. Wanted(room) = room
  BY DEF Wanted
<1>3. PICK n \in Nat : n = Least(m, room)
  BY DEF Least
<1>4. n <= m /\ n <= room /\ (n = 0 <=> m = 0)
  BY <1>3 DEF Least
<1> QED
  BY <1>1, <1>2, <1>3, <1>4 DEF BytesRead

(* A read that does not block is counted.                                   *)
LEMMA ReadCounts ==
    ASSUME NEW fd \in [eof : BOOLEAN, closed : BOOLEAN, counted : SUBSET {"In", "Out"}],
           NEW data, NEW ended, data # <<>> \/ ended
    PROVE  /\ Read(fd, data, ended) \in [eof : BOOLEAN, closed : BOOLEAN, counted : SUBSET {"In", "Out"}]
           /\ "In" \in Read(fd, data, ended).counted
           /\ Read(fd, data, ended).eof <=> fd.eof \/ data = <<>>
           /\ Read(fd, data, ended).closed <=> fd.closed
<1>1. Read(fd, data, ended) = [fd EXCEPT !.counted = @ \cup {"In"}, !.eof = @ \/ data = <<>>]
  BY DEF Read
<1> QED
  BY <1>1

(* Pushing what there is room for.                                          *)
LEMMA PushAll ==
    ASSUME NEW s \in Streams(Nat), ~s.eof, NEW data \in Seq(Nat),
           Len(data) <= s.capacity - Len(s.queue)
    PROVE  /\ StreamPush(s, data) \in Streams(Nat)
           /\ StreamPush(s, data).queue = s.queue \o data
           /\ StreamPush(s, data).capacity = s.capacity
           /\ StreamPush(s, data).eof = s.eof /\ StreamPush(s, data).error = s.error
<1>1. PICK n \in Nat, c \in Nat, q \in Nat : n = Len(data) /\ c = s.capacity /\ q = Len(s.queue) /\ n <= c - q
  BY StreamParts, LenProperties
<1>2. Least(Len(data), AvailableCapacity(s)) = n
  BY <1>1 DEF Least, AvailableCapacity
<1>3. Take(data, n) = data
  BY <1>1, SubSeqFull DEF Take
<1>4. StreamPush(s, data) = [s EXCEPT !.queue = @ \o data]
  BY <1>2, <1>3 DEF StreamPush
<1>5. s.queue \o data \in Seq(Nat)
  BY StreamParts, ConcatProperties
<1> QED
  BY <1>4, <1>5 DEF Streams

(* What a callback does: nothing unsound.                                   *)
Called(u, v) == Sound(u) /\ Onward(u, v) /\ u.rules = v.rules /\ u.asked = v.asked /\ u.outcome = v.outcome

LEMMA FillResult ==
    ASSUME NEW v, Sound(v), v.outcome = "running", NEW r \in {1, 3},
           ~v.stream[StreamOf(r)].eof, Len(v.stream[StreamOf(r)].queue) < buffer_size,
           v.source[StreamOf(r)].bytes # <<>> \/ v.source[StreamOf(r)].ended
    PROVE  Called(Fill(r, v), v) /\ "In" \in Fill(r, v).fd[FdOf(r)].counted
<1>1. PICK d \in Directions, f \in Fds : d = StreamOf(r) /\ f = FdOf(r)
  BY RuleTypes
<1>2. v \in Worlds
  BY DEF Sound
<1>3. PICK s, fd, src :
          /\ s = v.stream[d] /\ fd = v.fd[f] /\ src = v.source[d] /\ s \in Streams(Nat)
          /\ fd \in [eof : BOOLEAN, closed : BOOLEAN, counted : SUBSET {"In", "Out"}]
          /\ src \in [bytes : Seq(Nat), written : Nat, ended : BOOLEAN]
  BY <1>2, WorldParts
<1>4. /\ ~s.eof /\ s.capacity = buffer_size /\ s.queue \in Seq(Nat)
      /\ s.capacity \in Nat /\ Len(s.queue) \in Nat /\ Len(s.queue) < s.capacity
      /\ s.error => v.broken # {}
      /\ src.bytes # <<>> \/ src.ended
  BY <1>1, <1>3, StreamParts DEF Sound, Bounded, Truthful
<1>5. PICK room \in Nat : room = AvailableCapacity(s) /\ room > 0 /\ room = s.capacity - Len(s.queue)
  BY <1>4 DEF AvailableCapacity
<1>6. PICK n \in Nat : /\ n <= Len(src.bytes) /\ n <= room
                       /\ n = 0 <=> src.bytes = <<>>
                       /\ BytesRead(src.bytes, room) = Take(src.bytes, n)
  BY <1>3, <1>5, BytesReadResult
<1>7. PICK data \in Seq(Nat), rest \in Seq(Nat) :
          /\ data = Take(src.bytes, n) /\ rest = Drop(src.bytes, n)
          /\ Len(data) = n /\ Len(rest) = Len(src.bytes) - n
          /\ (s.queue \o data) \o rest = s.queue \o src.bytes
          /\ data = <<>> <=> n = 0
  <2>1. /\ Take(src.bytes, n) \in Seq(Nat) /\ Drop(src.bytes, n) \in Seq(Nat)
        /\ Len(Take(src.bytes, n)) = n /\ Len(Drop(src.bytes, n)) = Len(src.bytes) - n
    BY <1>3, <1>6, TakeDrop
  <2>2. (s.queue \o Take(src.bytes, n)) \o Drop(src.bytes, n) = s.queue \o src.bytes
    <3>1. PICK q \in Seq(Nat), b \in Seq(Nat) : q = s.queue /\ b = src.bytes
      BY <1>3, <1>4
    <3>2. n <= Len(b)
      BY <1>6, <3>1
    <3>3. (q \o Take(b, n)) \o Drop(b, n) = q \o b
      BY <3>2, MoveBytes
    <3> QED
      BY <3>1, <3>3
  <2>3. Take(src.bytes, n) = <<>> <=> n = 0
    BY <2>1, EmptySeq
  <2> QED
    BY <2>1, <2>2, <2>3
<1>8. PICK fdr : fdr = Read(fd, data, src.ended)
  OBVIOUS
<1>9. /\ fdr \in [eof : BOOLEAN, closed : BOOLEAN, counted : SUBSET {"In", "Out"}]
      /\ "In" \in fdr.counted
      /\ fdr.eof <=> fd.eof \/ data = <<>>
      /\ fdr.closed <=> fd.closed
  BY <1>3, <1>4, <1>6, <1>7, <1>8, ReadCounts
<1>10. PICK full \in Streams(Nat) :
           /\ full = StreamPush(s, data)
           /\ full.queue = s.queue \o data /\ full.capacity = s.capacity
           /\ full.eof = s.eof /\ full.error = s.error
  <2>1. Len(data) <= s.capacity - Len(s.queue)
    BY <1>5, <1>6, <1>7
  <2>2. /\ StreamPush(s, data) \in Streams(Nat)
        /\ StreamPush(s, data).queue = s.queue \o data
        /\ StreamPush(s, data).capacity = s.capacity
        /\ StreamPush(s, data).eof = s.eof /\ StreamPush(s, data).error = s.error
    BY <1>3, <1>4, <2>1, PushAll
  <2> QED
    BY <2>2
<1>11. PICK t : t = IF fdr.eof THEN StreamClose(full) ELSE full
  OBVIOUS
<1>12. /\ t \in Streams(Nat) /\ t.queue = s.queue \o data /\ t.capacity = s.capacity
       /\ t.eof <=> fdr.eof
       /\ t.error = s.error
  <2>1. CASE fdr.eof
    <3>1. t = [full EXCEPT !.eof = TRUE]
      BY <1>11, <2>1 DEF StreamClose
    <3> QED
      BY <1>10, <2>1, <3>1 DEF Streams
  <2>2. CASE ~fdr.eof
    BY <1>4, <1>10, <1>11, <2>2
  <2> QED
    BY <2>1, <2>2
<1>13. PICK u : u = WithRead(v, d, f, rest, fdr, t)
  OBVIOUS
<1>14. u = Fill(r, v)
  <2>1. BytesRead(v.source[d].bytes, AvailableCapacity(v.stream[d])) = data
    BY <1>3, <1>5, <1>6, <1>7
  <2>2. /\ Drop(v.source[d].bytes, Len(data)) = rest
        /\ Read(v.fd[f], data, v.source[d].ended) = fdr
        /\ StreamPush(v.stream[d], data) = full
    BY <1>3, <1>7, <1>8, <1>10
  <2>3. Fill(r, v) = [v EXCEPT !.source[d].bytes = Drop(@, Len(data)), !.fd[f] = fdr,
                               !.stream[d] = IF fdr.eof THEN StreamClose(full) ELSE full]
    BY <1>1, <2>1, <2>2 DEF Fill
  <2>4. Fill(r, v) = [v EXCEPT !.source[d].bytes = rest, !.fd[f] = fdr, !.stream[d] = t]
    BY <1>11, <2>2, <2>3
  <2> QED
    BY <1>13, <2>4 DEF WithRead
<1>15. ReadIn(u, v, d, f, rest, fdr, t)
  BY <1>2, <1>7, <1>9, <1>12, <1>13, WithReadResult
<1>16. src.bytes = <<>> => rest = <<>>
  BY <1>6, <1>7, EmptySeq
<1>17. /\ SameLoop(u, v) /\ u \in Worlds /\ SameElsewhere(u, v, d)
       /\ u.stream[d] = t /\ u.sink = v.sink /\ u.shutdown = v.shutdown
       /\ u.source[d].bytes = rest /\ u.source[d].written = src.written
       /\ u.source[d].ended = src.ended
       /\ u.fd[f] = fdr /\ \A g \in Fds \ {f} : u.fd[g] = v.fd[g]
  BY <1>3, <1>15 DEF ReadIn
<1>18. EndKnown(v, d) => EndKnown(u, d)
  BY <1>3, <1>16, <1>17 DEF EndKnown, SameLoop, Excused
<1>19. fdr.eof => EndKnown(u, d)
  <2>1. CASE fd.eof
    BY <1>1, <1>3, <1>18, <2>1, RuleTable DEF Sound, FdsTruthful
  <2>2. CASE data = <<>>
    BY <1>3, <1>4, <1>6, <1>7, <1>16, <1>17, <2>2 DEF EndKnown
  <2> QED
    BY <1>9, <2>1, <2>2
<1>20. Placed(u, d)
  <2>1. PICK b \in Seq(Nat), k \in Seq(Nat), q \in Seq(Nat) :
            b = src.bytes /\ k = v.sink[d].bytes /\ q = s.queue
    BY <1>2, <1>3, <1>4, WorldParts
  <2>2. (q \o data) \o rest = q \o b
    BY <1>7, <2>1
  <2>3. (k \o (q \o data)) \o rest = (k \o q) \o b
    <3>1. PICK qd \in Seq(Nat) : qd = q \o data
      BY ConcatProperties
    <3>2. Associates(k, qd, rest)
      BY Regroup
    <3>3. Associates(k, q, b)
      BY Regroup
    <3> QED
      BY <2>2, <3>1, <3>2, <3>3 DEF Associates
  <2> QED
    BY <1>3, <1>12, <1>17, <2>1, <2>3 DEF Sound, Placed
<1>21. Bounded(u, d)
  <2>1. PICK x \in Nat, y \in Nat : x = Len(s.queue) /\ y = Len(t.queue) /\ y = x + n
    <3>1. PICK q \in Seq(Nat) : q = s.queue
      BY <1>4
    <3>2. Len(q \o data) = Len(q) + Len(data)
      BY ConcatProperties
    <3>3. Len(q) \in Nat
      BY LenProperties
    <3>4. Len(data) = n
      BY <1>7
    <3>5. t.queue = q \o data
      BY <1>12, <3>1
    <3> QED
      BY <3>1, <3>2, <3>3, <3>4, <3>5
  <2>2. PICK c \in Nat : c = s.capacity /\ room = c - x /\ n <= room
    BY <1>4, <1>5, <1>6, <2>1
  <2>3. y <= c
    BY <2>1, <2>2
  <2>4. t.capacity = c /\ c = buffer_size /\ u.stream[d] = t
    BY <1>4, <1>12, <1>17, <2>2
  <2> QED
    BY <2>1, <2>3, <2>4 DEF Bounded
<1>22. Truthful(u, d)
  <2>1. Truthful(v, d)
    BY DEF Sound
  <2>2. ~v.shutdown[d]
    BY <1>3, <1>4, <2>1 DEF Truthful
  <2> QED
    BY <1>3, <1>4, <1>12, <1>17, <1>19, <2>1, <2>2 DEF Truthful, SameLoop
<1>23. \A e \in Directions \ {d} : /\ Placed(u, e) /\ Bounded(u, e) /\ Truthful(u, e)
                                   /\ EndKnown(u, e) <=> EndKnown(v, e)
  BY <1>17, SoundElsewhere
<1>24. \A e \in Directions : EndKnown(v, e) => EndKnown(u, e)
  BY <1>18, <1>23
<1>25. FdsTruthful(u)
  <2>1. FdsTruthful(v)
    BY DEF Sound
  <2>2. r = 1 \/ r = 3
    OBVIOUS
  <2>3. CASE r = 1
    <3>1. f = "input" /\ d = "outbound"
      BY <1>1, <2>3, RuleTable
    <3>2. u.fd["socket"] = v.fd["socket"] /\ u.fd["output"] = v.fd["output"]
      BY <1>17, <3>1 DEF Fds
    <3> QED
      BY <1>3, <1>9, <1>17, <1>19, <1>24, <2>1, <3>1, <3>2 DEF FdsTruthful, Directions
  <2>4. CASE r = 3
    <3>1. f = "socket" /\ d = "inbound"
      BY <1>1, <2>4, RuleTable
    <3>2. u.fd["input"] = v.fd["input"] /\ u.fd["output"] = v.fd["output"]
      BY <1>17, <3>1 DEF Fds
    <3> QED
      BY <1>3, <1>9, <1>17, <1>19, <1>24, <2>1, <3>1, <3>2 DEF FdsTruthful, Directions
  <2> QED
    BY <2>2, <2>3, <2>4
<1>26. Outcome(u)
  BY <1>17 DEF SameLoop, Outcome
<1>27. Sound(u)
  BY <1>17, <1>20, <1>21, <1>22, <1>23, <1>25, <1>26 DEF Sound
<1>28. Onward(u, v)
  <2>1. \A e \in Directions : v.stream[e].eof => u.stream[e].eof
    BY <1>1, <1>17 DEF SameElsewhere
  <2> QED
    BY <1>17, <1>24, <2>1 DEF Onward, SameLoop
<1> QED
  BY <1>1, <1>9, <1>14, <1>17, <1>27, <1>28 DEF Called, SameLoop

(* The one byte that is written, and what stays.                            *)
LEMMA PopOne ==
    ASSUME NEW s, s \in Streams(Nat), s.queue # <<>>
    PROVE  /\ StreamPop(s, 1) \in Streams(Nat)
           /\ StreamPop(s, 1).queue = Drop(s.queue, 1)
           /\ StreamPop(s, 1).capacity = s.capacity
           /\ StreamPop(s, 1).eof = s.eof /\ StreamPop(s, 1).error = s.error
           /\ Len(StreamPop(s, 1).queue) <= Len(s.queue)
<1>1. PICK q \in Seq(Nat), p \in Nat : q = s.queue /\ p = s.popped
  BY StreamParts
<1>2. PICK m \in Nat : m = Len(q) /\ m >= 1
  BY <1>1, EmptySeq, LenProperties
<1>3. Least(1, m) = 1
  BY <1>2 DEF Least
<1>4. PICK rest \in Seq(Nat) : rest = Drop(q, 1) /\ Len(rest) = m - 1
  BY <1>2, TakeDrop
<1>5. PICK pp \in Nat : pp = p + 1
  OBVIOUS
<1>6. StreamPop(s, 1) = [s EXCEPT !.queue = rest, !.popped = pp]
  BY <1>1, <1>2, <1>3, <1>4, <1>5 DEF StreamPop
<1>7. PICK t : t = [s EXCEPT !.queue = rest, !.popped = pp]
  OBVIOUS
<1>8. /\ t \in Streams(Nat) /\ t.queue = rest /\ t.capacity = s.capacity
      /\ t.eof = s.eof /\ t.error = s.error
  BY <1>7 DEF Streams
<1>9. Len(rest) <= m
  BY <1>2, <1>4
<1> QED
  BY <1>1, <1>2, <1>4, <1>6, <1>7, <1>8, <1>9

(* A world after a write, or after an end that is passed on.                *)
WithWritten(v, sinks, fds, streams, shutdowns) ==
    [v EXCEPT !.sink = sinks, !.fd = fds, !.stream = streams, !.shutdown = shutdowns]

WrittenTo(u, v, sinks, fds, streams, shutdowns) ==
    /\ u \in Worlds /\ u.sink = sinks /\ u.fd = fds /\ u.stream = streams
    /\ u.shutdown = shutdowns /\ u.source = v.source /\ SameLoop(u, v)

LEMMA WithWrittenResult ==
    ASSUME NEW v, v \in Worlds,
           NEW sinks, sinks \in [Directions -> [bytes : Seq(Nat), taken : Nat, ended : BOOLEAN]],
           NEW fds, fds \in [Fds -> [eof : BOOLEAN, closed : BOOLEAN, counted : SUBSET {"In", "Out"}]],
           NEW streams, streams \in [Directions -> Streams(Nat)],
           NEW shutdowns, shutdowns \in [Directions -> BOOLEAN],
           NEW u, u = WithWritten(v, sinks, fds, streams, shutdowns)
    PROVE  WrittenTo(u, v, sinks, fds, streams, shutdowns)
BY DEF WithWritten, Worlds, SameLoop, WrittenTo

(* An array in which one entry is replaced.                                 *)
LEMMA Replaced ==
    ASSUME NEW S, NEW T, NEW g, g \in [S -> T], NEW x \in S, NEW y \in T
    PROVE  /\ [g EXCEPT ![x] = y] \in [S -> T]
           /\ [g EXCEPT ![x] = y][x] = y
           /\ \A e \in S \ {x} : [g EXCEPT ![x] = y][e] = g[e]
OBVIOUS

(* What writing leaves of the facts about the descriptors.                  *)
LEMMA FdsAfterWriting ==
    ASSUME NEW v, FdsTruthful(v), NEW u, NEW r \in {2, 4},
           \A d \in Directions : EndKnown(v, d) => EndKnown(u, d),
           \A d \in Directions : v.shutdown[d] => u.shutdown[d],
           \A g \in Fds \ {FdOf(r)} : u.fd[g] = v.fd[g],
           r = 2 => u.fd[FdOf(r)].eof = v.fd[FdOf(r)].eof,
           u.fd[FdOf(r)].closed => v.fd[FdOf(r)].closed \/ (r = 4 /\ u.shutdown["inbound"])
    PROVE  FdsTruthful(u)
<1>1. r = 2 \/ r = 4
  OBVIOUS
<1>2. CASE r = 2
  <2>1. FdOf(r) = "socket"
    BY <1>2, RuleTable
  <2>2. u.fd["input"] = v.fd["input"] /\ u.fd["output"] = v.fd["output"]
    BY <2>1 DEF Fds
  <2> QED
    BY <1>2, <2>1, <2>2 DEF FdsTruthful, Directions
<1>3. CASE r = 4
  <2>1. FdOf(r) = "output"
    BY <1>3, RuleTable
  <2>2. u.fd["input"] = v.fd["input"] /\ u.fd["socket"] = v.fd["socket"]
    BY <2>1 DEF Fds
  <2> QED
    BY <1>3, <2>1, <2>2 DEF FdsTruthful, Directions
<1> QED
  BY <1>1, <1>2, <1>3

LEMMA WriteOneResult ==
    ASSUME NEW v, Sound(v), v.outcome = "running", NEW r \in {2, 4},
           v.stream[StreamOf(r)].queue # <<>>
    PROVE  Called(WriteOne(r, v), v) /\ "Out" \in WriteOne(r, v).fd[FdOf(r)].counted
<1>1. PICK d, f : d = StreamOf(r) /\ f = FdOf(r) /\ d \in Directions /\ f \in Fds
  BY RuleTypes
<1>2. v \in Worlds /\ Placed(v, d) /\ Bounded(v, d) /\ Truthful(v, d)
  BY <1>1 DEF Sound
<1>3. PICK s, fd, snk :
          /\ s = v.stream[d] /\ fd = v.fd[f] /\ snk = v.sink[d] /\ s \in Streams(Nat)
          /\ fd \in [eof : BOOLEAN, closed : BOOLEAN, counted : SUBSET {"In", "Out"}]
          /\ snk \in [bytes : Seq(Nat), taken : Nat, ended : BOOLEAN]
  BY <1>1, <1>2, WorldParts
<1>4. PICK t : /\ t = StreamPop(s, 1) /\ t \in Streams(Nat) /\ t.queue = Drop(s.queue, 1)
               /\ t.capacity = s.capacity /\ t.eof = s.eof /\ t.error = s.error
               /\ Len(t.queue) <= Len(s.queue)
  BY <1>1, <1>3, PopOne
<1>5. PICK fdw : fdw = [fd EXCEPT !.counted = @ \cup {"Out"}]
  OBVIOUS
<1>6. /\ fdw \in [eof : BOOLEAN, closed : BOOLEAN, counted : SUBSET {"In", "Out"}]
      /\ fdw.eof = fd.eof /\ fdw.closed = fd.closed /\ "Out" \in fdw.counted
  BY <1>3, <1>5
<1>7. PICK k \in Seq(Nat), q \in Seq(Nat) : k = snk.bytes /\ q = s.queue
  BY <1>3, StreamParts
<1>8. PICK one \in Seq(Nat), rest \in Seq(Nat) :
          one = Take(q, 1) /\ rest = Drop(q, 1) /\ (k \o one) \o rest = k \o q
  <2>1. 1 <= Len(q)
    BY <1>1, <1>3, <1>7, EmptySeq, LenProperties
  <2>2. Take(q, 1) \in Seq(Nat) /\ Drop(q, 1) \in Seq(Nat)
    BY <2>1, TakeDrop
  <2>3. (k \o Take(q, 1)) \o Drop(q, 1) = k \o q
    BY <2>1, MoveBytes
  <2> QED
    BY <2>2, <2>3
<1>9. PICK kk \in Seq(Nat) : kk = k \o one
  BY ConcatProperties
<1>10. PICK snkw : snkw = [snk EXCEPT !.bytes = kk]
  OBVIOUS
<1>11. /\ snkw \in [bytes : Seq(Nat), taken : Nat, ended : BOOLEAN]
       /\ snkw.bytes = kk /\ snkw.taken = snk.taken /\ snkw.ended = snk.ended
  BY <1>3, <1>10
<1>12. PICK sinks, fds, streams :
           /\ sinks = [v.sink EXCEPT ![d] = snkw]
           /\ fds = [v.fd EXCEPT ![f] = fdw]
           /\ streams = [v.stream EXCEPT ![d] = t]
  OBVIOUS
<1>13. /\ sinks \in [Directions -> [bytes : Seq(Nat), taken : Nat, ended : BOOLEAN]]
       /\ sinks[d] = snkw /\ \A e \in Directions \ {d} : sinks[e] = v.sink[e]
  BY <1>1, <1>2, <1>11, <1>12, Replaced DEF Worlds
<1>14. /\ fds \in [Fds -> [eof : BOOLEAN, closed : BOOLEAN, counted : SUBSET {"In", "Out"}]]
       /\ fds[f] = fdw /\ \A g \in Fds \ {f} : fds[g] = v.fd[g]
  BY <1>1, <1>2, <1>6, <1>12, Replaced DEF Worlds
<1>15. /\ streams \in [Directions -> Streams(Nat)]
       /\ streams[d] = t /\ \A e \in Directions \ {d} : streams[e] = v.stream[e]
  BY <1>1, <1>2, <1>4, <1>12, Replaced DEF Worlds
<1>16. PICK u : u = WithWritten(v, sinks, fds, streams, v.shutdown)
  OBVIOUS
<1>17. /\ u \in Worlds /\ u.sink = sinks /\ u.fd = fds /\ u.stream = streams
       /\ u.shutdown = v.shutdown /\ u.source = v.source /\ SameLoop(u, v)
  <2>1. PICK shutdowns : shutdowns = v.shutdown /\ shutdowns \in [Directions -> BOOLEAN]
    BY <1>2, WorldParts
  <2>2. u = WithWritten(v, sinks, fds, streams, shutdowns)
    BY <1>16, <2>1
  <2>3. WrittenTo(u, v, sinks, fds, streams, shutdowns)
    BY <1>2, <1>13, <1>14, <1>15, <2>1, <2>2, WithWrittenResult
  <2> QED
    BY <2>1, <2>3 DEF WrittenTo
<1>18. u = WriteOne(r, v)
  <2>1. BytesBuffered(v.stream[d]) # 0
    BY <1>1, <1>3, <1>7, EmptySeq DEF BytesBuffered
  <2>2. WriteOne(r, v) = [v EXCEPT !.sink[d].bytes = @ \o Take(v.stream[d].queue, 1),
                                   !.fd[f] = Write(@),
                                   !.stream[d] = StreamPop(@, 1)]
    BY <1>1, <2>1 DEF WriteOne
  <2>3. /\ v.sink[d].bytes \o Take(v.stream[d].queue, 1) = kk
        /\ Write(v.fd[f]) = fdw /\ StreamPop(v.stream[d], 1) = t
    BY <1>3, <1>4, <1>5, <1>7, <1>8, <1>9 DEF Write
  <2>4. WriteOne(r, v) = [v EXCEPT !.sink = sinks, !.fd = fds, !.stream = streams]
    <3>1. sinks = [v.sink EXCEPT ![d].bytes = @ \o Take(v.stream[d].queue, 1)]
      BY <1>3, <1>10, <1>12, <2>3
    <3>2. fds = [v.fd EXCEPT ![f] = Write(@)]
      BY <1>12, <2>3
    <3>3. streams = [v.stream EXCEPT ![d] = StreamPop(@, 1)]
      BY <1>12, <2>3
    <3> QED
      BY <2>2, <3>1, <3>2, <3>3
  <2>5. [v EXCEPT !.sink = sinks, !.fd = fds, !.stream = streams]
          = [v EXCEPT !.sink = sinks, !.fd = fds, !.stream = streams, !.shutdown = v.shutdown]
    BY <1>2 DEF Worlds
  <2> QED
    BY <1>16, <2>4, <2>5 DEF WithWritten
<1>19. SameElsewhere(u, v, d)
  BY <1>13, <1>15, <1>17 DEF SameElsewhere
<1>20. \A e \in Directions : EndKnown(u, e) <=> EndKnown(v, e)
  BY <1>17 DEF EndKnown, Excused, SameLoop
<1>21. Placed(u, d)
  <2>1. u.sink[d].bytes \o u.stream[d].queue = v.sink[d].bytes \o v.stream[d].queue
    BY <1>3, <1>4, <1>7, <1>8, <1>9, <1>11, <1>13, <1>15, <1>17
  <2> QED
    BY <1>2, <1>3, <1>11, <1>13, <1>17, <2>1 DEF Placed
<1>22. Bounded(u, d)
  <2>1. PICK x \in Nat, y \in Nat, c \in Nat : x = Len(s.queue) /\ y = Len(t.queue) /\ c = s.capacity
    BY <1>3, <1>4, StreamParts
  <2>2. c = buffer_size /\ x <= c
    BY <1>2, <1>3, <2>1 DEF Bounded
  <2>3. y <= c
    BY <1>4, <2>1, <2>2
  <2> QED
    BY <1>4, <1>15, <1>17, <2>1, <2>2, <2>3 DEF Bounded
<1>23. Truthful(u, d)
  <2>1. ~v.shutdown[d]
    BY <1>1, <1>2 DEF Truthful
  <2> QED
    BY <1>2, <1>3, <1>4, <1>11, <1>13, <1>15, <1>17, <1>20, <1>1, <2>1 DEF Truthful, SameLoop
<1>24. \A e \in Directions \ {d} : Placed(u, e) /\ Bounded(u, e) /\ Truthful(u, e)
  BY <1>1, <1>17, <1>19, SoundElsewhere
<1>25. FdsTruthful(u)
  <2>1. FdsTruthful(v)
    BY DEF Sound
  <2>2. /\ \A e \in Directions : EndKnown(v, e) => EndKnown(u, e)
        /\ \A e \in Directions : v.shutdown[e] => u.shutdown[e]
    BY <1>17, <1>20
  <2>3. /\ \A g \in Fds \ {FdOf(r)} : u.fd[g] = v.fd[g]
        /\ u.fd[FdOf(r)].eof = v.fd[FdOf(r)].eof
        /\ u.fd[FdOf(r)].closed => v.fd[FdOf(r)].closed
    BY <1>1, <1>3, <1>6, <1>14, <1>17
  <2> QED
    BY <2>1, <2>2, <2>3, FdsAfterWriting
<1>26. Outcome(u)
  BY <1>17 DEF SameLoop, Outcome
<1>27. Sound(u)
  BY <1>17, <1>21, <1>22, <1>23, <1>24, <1>25, <1>26 DEF Sound
<1>28. Onward(u, v)
  <2>1. \A e \in Directions : v.stream[e].eof => u.stream[e].eof
    BY <1>3, <1>4, <1>15, <1>17
  <2>2. \A e \in Directions : v.sink[e].ended => u.sink[e].ended
    BY <1>3, <1>11, <1>13, <1>17
  <2> QED
    BY <1>17, <1>20, <2>1, <2>2 DEF Onward, SameLoop
<1> QED
  BY <1>1, <1>6, <1>14, <1>17, <1>18, <1>27, <1>28 DEF Called, SameLoop

LEMMA PassOnEndResult ==
    ASSUME NEW v, Sound(v), v.outcome = "running", NEW r \in {2, 4},
           v.stream[StreamOf(r)].eof, v.stream[StreamOf(r)].queue = <<>>
    PROVE  /\ Called(PassOnEnd(r, v), v)
           /\ "Out" \in PassOnEnd(r, v).fd[FdOf(r)].counted \/ PassOnEnd(r, v).fd[FdOf(r)].closed
<1>1. PICK d, f : d = StreamOf(r) /\ f = FdOf(r) /\ d \in Directions /\ f \in Fds
  BY RuleTypes
<1>2. v \in Worlds /\ Placed(v, d) /\ Bounded(v, d) /\ Truthful(v, d)
  BY <1>1 DEF Sound
<1>3. PICK fd, snk :
          /\ fd = v.fd[f] /\ snk = v.sink[d]
          /\ fd \in [eof : BOOLEAN, closed : BOOLEAN, counted : SUBSET {"In", "Out"}]
          /\ snk \in [bytes : Seq(Nat), taken : Nat, ended : BOOLEAN]
  BY <1>1, <1>2, WorldParts
<1>4. PICK fdw : fdw = IF r = 2 THEN Shutdown(fd, {"Out"}) ELSE Close(fd)
  OBVIOUS
<1>5. /\ fdw \in [eof : BOOLEAN, closed : BOOLEAN, counted : SUBSET {"In", "Out"}]
      /\ r = 2 => fdw.eof = fd.eof /\ fdw.closed = fd.closed /\ "Out" \in fdw.counted
      /\ r = 4 => fdw.closed
  <2>1. CASE r = 2
    <3>1. fdw = [fd EXCEPT !.counted = @ \cup {"Out"}]
      BY <1>4, <2>1 DEF Shutdown
    <3> QED
      BY <1>3, <2>1, <3>1
  <2>2. CASE r = 4
    <3>1. fdw = [fd EXCEPT !.eof = TRUE, !.closed = TRUE]
      BY <1>4, <2>2 DEF Close
    <3>2. fdw = [eof |-> TRUE, closed |-> TRUE, counted |-> fd.counted]
      BY <1>3, <3>1
    <3>3. /\ fdw \in [eof : BOOLEAN, closed : BOOLEAN, counted : SUBSET {"In", "Out"}]
          /\ fdw.closed
      BY <1>3, <3>2
    <3> QED
      BY <2>2, <3>3
  <2> QED
    BY <2>1, <2>2
<1>6. PICK snkw : snkw = [snk EXCEPT !.ended = TRUE]
  OBVIOUS
<1>7. /\ snkw \in [bytes : Seq(Nat), taken : Nat, ended : BOOLEAN]
      /\ snkw.bytes = snk.bytes /\ snkw.taken = snk.taken /\ snkw.ended
  BY <1>3, <1>6
<1>8. PICK sinks, fds, shutdowns :
           /\ sinks = [v.sink EXCEPT ![d] = snkw]
           /\ fds = [v.fd EXCEPT ![f] = fdw]
           /\ shutdowns = [v.shutdown EXCEPT ![d] = TRUE]
  OBVIOUS
<1>9. /\ sinks \in [Directions -> [bytes : Seq(Nat), taken : Nat, ended : BOOLEAN]]
      /\ sinks[d] = snkw /\ \A e \in Directions \ {d} : sinks[e] = v.sink[e]
  BY <1>1, <1>2, <1>7, <1>8, Replaced DEF Worlds
<1>10. /\ fds \in [Fds -> [eof : BOOLEAN, closed : BOOLEAN, counted : SUBSET {"In", "Out"}]]
       /\ fds[f] = fdw /\ \A g \in Fds \ {f} : fds[g] = v.fd[g]
  BY <1>1, <1>2, <1>5, <1>8, Replaced DEF Worlds
<1>11. /\ shutdowns \in [Directions -> BOOLEAN]
       /\ shutdowns[d] /\ \A e \in Directions \ {d} : shutdowns[e] = v.shutdown[e]
  BY <1>1, <1>2, <1>8 DEF Worlds
<1>12. PICK streams : streams = v.stream /\ streams \in [Directions -> Streams(Nat)]
  BY <1>2, WorldParts
<1>13. PICK u : u = WithWritten(v, sinks, fds, streams, shutdowns)
  OBVIOUS
<1>14. /\ u \in Worlds /\ u.sink = sinks /\ u.fd = fds /\ u.stream = v.stream
       /\ u.shutdown = shutdowns /\ u.source = v.source /\ SameLoop(u, v)
  <2>1. WrittenTo(u, v, sinks, fds, streams, shutdowns)
    BY <1>2, <1>9, <1>10, <1>11, <1>12, <1>13, WithWrittenResult
  <2> QED
    BY <1>12, <2>1 DEF WrittenTo
<1>15. u = PassOnEnd(r, v)
  <2>1. IsFinished(v.stream[d])
    BY <1>1 DEF IsFinished
  <2>2. PassOnEnd(r, v) = [v EXCEPT !.sink[d].ended = TRUE, !.shutdown[d] = TRUE,
                                    !.fd[f] = IF r = 2 THEN Shutdown(@, {"Out"}) ELSE Close(@)]
    BY <1>1, <2>1 DEF PassOnEnd
  <2>3. PassOnEnd(r, v) = [v EXCEPT !.sink = sinks, !.shutdown = shutdowns, !.fd = fds]
    BY <1>3, <1>4, <1>6, <1>8, <2>2
  <2>4. [v EXCEPT !.sink = sinks, !.shutdown = shutdowns, !.fd = fds]
          = [v EXCEPT !.sink = sinks, !.fd = fds, !.stream = streams, !.shutdown = shutdowns]
    BY <1>2, <1>12 DEF Worlds
  <2> QED
    BY <1>13, <2>3, <2>4 DEF WithWritten
<1>16. SameElsewhere(u, v, d)
  BY <1>9, <1>11, <1>14 DEF SameElsewhere
<1>17. \A e \in Directions : EndKnown(u, e) <=> EndKnown(v, e)
  BY <1>14 DEF EndKnown, Excused, SameLoop
<1>18. Placed(u, d) /\ Bounded(u, d)
  BY <1>2, <1>3, <1>7, <1>9, <1>14 DEF Placed, Bounded
<1>19. Truthful(u, d)
  BY <1>1, <1>2, <1>7, <1>9, <1>11, <1>14, <1>17 DEF Truthful, SameLoop
<1>20. \A e \in Directions \ {d} : Placed(u, e) /\ Bounded(u, e) /\ Truthful(u, e)
  BY <1>1, <1>14, <1>16, SoundElsewhere
<1>21. FdsTruthful(u)
  <2>1. FdsTruthful(v)
    BY DEF Sound
  <2>2. /\ \A e \in Directions : EndKnown(v, e) => EndKnown(u, e)
        /\ \A e \in Directions : v.shutdown[e] => u.shutdown[e]
    BY <1>11, <1>14, <1>17
  <2>3. /\ \A g \in Fds \ {FdOf(r)} : u.fd[g] = v.fd[g]
        /\ r = 2 => u.fd[FdOf(r)].eof = v.fd[FdOf(r)].eof
    BY <1>1, <1>3, <1>5, <1>10, <1>14
  <2>4. u.fd[FdOf(r)].closed => v.fd[FdOf(r)].closed \/ (r = 4 /\ u.shutdown["inbound"])
    <3>1. r = 2 \/ r = 4
      OBVIOUS
    <3>2. CASE r = 2
      BY <1>1, <1>3, <1>5, <1>10, <1>14, <3>2
    <3>3. CASE r = 4
      BY <1>1, <1>11, <1>14, <3>3, RuleTable
    <3> QED
      BY <3>1, <3>2, <3>3
  <2> QED
    BY <2>1, <2>2, <2>3, <2>4, FdsAfterWriting
<1>22. Outcome(u)
  BY <1>14 DEF SameLoop, Outcome
<1>23. Sound(u)
  BY <1>14, <1>18, <1>19, <1>20, <1>21, <1>22 DEF Sound
<1>24. Onward(u, v)
  <2>1. \A e \in Directions : v.stream[e].eof => u.stream[e].eof
    BY <1>14
  <2>2. \A e \in Directions : v.sink[e].ended => u.sink[e].ended
    BY <1>3, <1>7, <1>9, <1>14
  <2> QED
    BY <1>14, <1>17, <2>1, <2>2 DEF Onward, SameLoop
<1> QED
  BY <1>1, <1>5, <1>10, <1>14, <1>15, <1>23, <1>24 DEF Called, SameLoop

-----------------------------------------------------------------------------
(* A world that differs from a sound one in how it ended only.              *)
LEMMA DiesResult ==
    ASSUME NEW v, Sound(v), NEW r \in 1 .. 4, Dies(r, v),
           NEW u, u = [v EXCEPT !.outcome = "died"]
    PROVE  /\ Sound(u) /\ Onward(u, v) /\ u.rules = v.rules /\ u.asked = v.asked
           /\ u.outcome = "died"
<1>1. v \in Worlds
  BY DEF Sound
<1>2. /\ u \in Worlds /\ u.outcome = "died" /\ u.rules = v.rules /\ u.asked = v.asked
      /\ u.stream = v.stream /\ u.shutdown = v.shutdown /\ u.source = v.source /\ u.sink = v.sink
      /\ u.hungup = v.hungup /\ u.broken = v.broken /\ u.fd = v.fd
  BY <1>1 DEF Worlds
<1>3. Excused(v)
  BY DEF Dies, Excused
<1>4. SameMatter(u, v)
  BY <1>2 DEF SameMatter
<1>5. Outcome(u)
  BY <1>2, <1>3 DEF Outcome, Excused
<1>6. \A d \in Directions : Placed(u, d) /\ Bounded(u, d) /\ Truthful(u, d)
  <2>1. \A d \in Directions : Placed(v, d) /\ Bounded(v, d) /\ Truthful(v, d)
    BY DEF Sound
  <2>2. \A d \in Directions : Placed(u, d) /\ Bounded(u, d)
    BY <1>2, <2>1 DEF Placed, Bounded
  <2>3. \A d \in Directions : Truthful(u, d)
    BY <1>2, <2>1 DEF Truthful, EndKnown, Excused
  <2> QED
    BY <2>2, <2>3
<1>7. FdsTruthful(u)
  BY <1>2 DEF Sound, FdsTruthful, EndKnown, Excused
<1> QED
  BY <1>2, <1>4, <1>5, <1>6, <1>7, OnwardSame DEF Sound

(* What a rule's callback may assume of what poll said.                     *)
MayCall(v, r) ==
    DirectionOf(r) = "In" =>
        /\ ~v.stream[StreamOf(r)].eof /\ Len(v.stream[StreamOf(r)].queue) < buffer_size
        /\ \/ v.source[StreamOf(r)].bytes # <<>>
           \/ v.source[StreamOf(r)].ended
           \/ FdOf(r) \in v.broken

(* A callback leaves no cause for busy waiting: it has read or written, or  *)
(* the rule has nothing to do any more.                                     *)
CallbackDone(u, v, r) ==
    /\ Sound(u) /\ Onward(u, v) /\ u.rules = v.rules /\ u.asked = v.asked
    /\ u.outcome \in {"running", "died"}
    /\ u.outcome = "running" => ~Loop!BusyWait(u, r)

LEMMA CallbackResult ==
    ASSUME NEW v, Sound(v), v.outcome = "running", NEW r \in 1 .. 4, MayCall(v, r)
    PROVE  CallbackDone(Callback(r, v), v, r)
<1>1. CASE Dies(r, v)
  <2>1. PICK u : u = [v EXCEPT !.outcome = "died"]
    OBVIOUS
  <2>2. Callback(r, v) = u
    BY <1>1, <2>1 DEF Callback
  <2> QED
    BY <1>1, <2>1, <2>2, DiesResult DEF CallbackDone
<1>2. CASE ~Dies(r, v) /\ r \in {1, 3}
  <2>1. DirectionOf(r) = "In"
    BY <1>2, RuleTable
  <2>2. Callback(r, v) = Fill(r, v)
    BY <1>2, <2>1 DEF Callback
  <2>3. Called(Fill(r, v), v) /\ "In" \in Fill(r, v).fd[FdOf(r)].counted
    BY <1>2, <2>1, FillResult DEF MayCall, Dies
  <2> QED
    BY <2>1, <2>2, <2>3 DEF CallbackDone, Called, Loop!BusyWait
<1>3. CASE ~Dies(r, v) /\ r \in {2, 4}
  <2>1. DirectionOf(r) = "Out"
    BY <1>3, RuleTable
  <2>2. PICK w : w = WriteOne(r, v)
    OBVIOUS
  <2>3. Callback(r, v) = PassOnEnd(r, w)
    BY <1>3, <2>1, <2>2 DEF Callback
  <2>4. v.stream[StreamOf(r)].queue \in Seq(Nat)
    BY RuleTypes, WorldParts, StreamParts DEF Sound
  <2>5. /\ Called(w, v)
        /\ \/ "Out" \in w.fd[FdOf(r)].counted
           \/ w = v /\ v.stream[StreamOf(r)].queue = <<>>
    <3>1. CASE v.stream[StreamOf(r)].queue # <<>>
      BY <1>3, <2>2, <3>1, WriteOneResult
    <3>2. CASE v.stream[StreamOf(r)].queue = <<>>
      <4>1. w = v
        BY <2>2, <2>4, <3>2, EmptySeq DEF WriteOne, BytesBuffered
      <4>2. Onward(v, v)
        BY OnwardSame DEF SameMatter
      <4> QED
        BY <3>2, <4>1, <4>2 DEF Called
    <3> QED
      BY <3>1, <3>2
  <2>6. Sound(w) /\ Onward(w, v) /\ w.outcome = "running" /\ w.rules = v.rules /\ w.asked = v.asked
    BY <2>5 DEF Called
  <2>7. CASE IsFinished(w.stream[StreamOf(r)])
    <3>1. PICK u : u = PassOnEnd(r, w)
      OBVIOUS
    <3>2. Called(u, w) /\ ("Out" \in u.fd[FdOf(r)].counted \/ u.fd[FdOf(r)].closed)
      BY <1>3, <2>6, <2>7, <3>1, PassOnEndResult DEF IsFinished
    <3>3. Onward(u, v)
      BY <2>6, <3>2, OnwardOn DEF Called
    <3> QED
      BY <2>1, <2>3, <2>6, <3>1, <3>2, <3>3 DEF CallbackDone, Called, Loop!BusyWait
  <2>8. CASE ~IsFinished(w.stream[StreamOf(r)])
    <3>1. Callback(r, v) = w
      BY <2>3, <2>8 DEF PassOnEnd
    <3>2. ~Loop!BusyWait(w, r)
      <4>1. CASE "Out" \in w.fd[FdOf(r)].counted
        BY <2>1, <4>1 DEF Loop!BusyWait
      <4>2. CASE w = v /\ v.stream[StreamOf(r)].queue = <<>>
        <5>1. ~(BytesBuffered(w.stream[StreamOf(r)]) > 0)
          BY <2>4, <4>2, EmptySeq DEF BytesBuffered
        <5> QED
          BY <2>1, <2>8, <5>1 DEF Loop!BusyWait, Interest, WantsToWrite
      <4> QED
        BY <2>5, <4>1, <4>2
    <3> QED
      BY <2>6, <3>1, <3>2 DEF CallbackDone
  <2> QED
    BY <2>7, <2>8
<1> QED
  BY <1>1, <1>2, <1>3

-----------------------------------------------------------------------------
(* One rule of a round: done are the rules before it, todo those after it.  *)
LEMMA KeepResult ==
    ASSUME NEW v, Sound(v), NEW r \in 1 .. 4, NEW u, u = Loop!Kept(v, r)
    PROVE  /\ Sound(u) /\ SameMatter(u, v) /\ u.outcome = v.outcome
           /\ u.asked = v.asked /\ u.served = v.served /\ u.rules = Append(v.rules, r)
<1>1. v \in Worlds
  BY DEF Sound
<1>2. PICK rules : rules = Append(v.rules, r)
  OBVIOUS
<1>3. rules \in Seq(1 .. 4)
  BY <1>1, <1>2, AppendProperties, WorldParts
<1>4. u = [v EXCEPT !.rules = rules]
  BY <1>2 DEF Loop!Kept
<1>5. /\ u \in Worlds /\ u.outcome = v.outcome /\ u.asked = v.asked /\ u.served = v.served
      /\ u.rules = rules /\ u.stream = v.stream /\ u.shutdown = v.shutdown
      /\ u.source = v.source /\ u.sink = v.sink /\ u.hungup = v.hungup
      /\ u.broken = v.broken /\ u.fd = v.fd
  BY <1>1, <1>3, <1>4 DEF Worlds
<1>6. SameMatter(u, v)
  BY <1>5 DEF SameMatter
<1> QED
  BY <1>2, <1>5, <1>6, SoundMatter

(* The rules kept are some of those that were gone through, in order.       *)
RulesOrdered(w, done) ==
    /\ w.rules \in Seq(1 .. 4) /\ Increasing(w.rules)
    /\ \A k \in 1 .. Len(w.rules) : w.rules[k] \in done
    /\ \A q \in done : HasRule(w, q) \/ Gone(w, q)

LEMMA InOrderKept ==
    ASSUME NEW v, NEW u, NEW done \in SUBSET (1 .. 4), RulesOrdered(v, done), NEW r \in 1 .. 4,
           \A q \in done : q < r, u.rules = Append(v.rules, r), Onward(u, v)
    PROVE  RulesOrdered(u, done \cup {r}) /\ HasRule(u, r) /\ \A q \in done : HasRule(v, q) => HasRule(u, q)
<1>1. PICK s \in Seq(1 .. 4), n \in Nat : s = v.rules /\ n = Len(s)
  BY LenProperties DEF RulesOrdered
<1>2. PICK t \in Seq(1 .. 4) : t = u.rules /\ t = Append(s, r)
  BY <1>1, AppendProperties
<1>3. /\ Len(t) = n + 1 /\ t[n + 1] = r
      /\ \A k \in 1 .. n : t[k] = s[k]
  BY <1>1, <1>2, AppendProperties
<1>4. \A k \in 1 .. n : s[k] \in done
  BY <1>1 DEF RulesOrdered
<1>5. HasRule(u, r)
  BY <1>2, <1>3 DEF HasRule
<1>6. \A q \in done : HasRule(v, q) => HasRule(u, q)
  <2> SUFFICES ASSUME NEW q \in done, HasRule(v, q)
               PROVE  HasRule(u, q)
    OBVIOUS
  <2>1. PICK k \in 1 .. n : s[k] = q
    BY <1>1 DEF HasRule
  <2>2. k \in 1 .. Len(t) /\ t[k] = q
    BY <1>3, <2>1
  <2> QED
    BY <1>2, <2>2 DEF HasRule
<1>7. Increasing(t)
  <2> SUFFICES ASSUME NEW i \in 1 .. Len(t), NEW j \in 1 .. Len(t), i < j
               PROVE  t[i] < t[j]
    BY DEF Increasing
  <2>1. i \in 1 .. n
    BY <1>1, <1>3
  <2>2. CASE j = n + 1
    BY <1>3, <1>4, <2>1, <2>2
  <2>3. CASE j # n + 1
    <3>1. j \in 1 .. n
      BY <1>1, <1>3, <2>3
    <3>2. s[i] < s[j]
      BY <1>1, <2>1, <3>1 DEF RulesOrdered, Increasing
    <3> QED
      BY <1>3, <2>1, <3>1, <3>2
  <2> QED
    BY <2>2, <2>3
<1>8. \A k \in 1 .. Len(t) : t[k] \in done \cup {r}
  <2> TAKE k \in 1 .. Len(t)
  <2>1. CASE k = n + 1
    BY <1>3, <2>1
  <2>2. CASE k # n + 1
    <3>1. k \in 1 .. n
      BY <1>1, <1>3, <2>2
    <3> QED
      BY <1>3, <1>4, <3>1
  <2> QED
    BY <2>1, <2>2
<1>9. \A q \in done \cup {r} : HasRule(u, q) \/ Gone(u, q)
  BY <1>5, <1>6, StaysGone DEF RulesOrdered
<1> QED
  BY <1>2, <1>5, <1>6, <1>7, <1>8, <1>9 DEF RulesOrdered

LEMMA InOrderGone ==
    ASSUME NEW v, NEW u, NEW done \in SUBSET (1 .. 4), RulesOrdered(v, done), NEW r \in 1 .. 4,
           u.rules = v.rules, Onward(u, v), Gone(u, r)
    PROVE  RulesOrdered(u, done \cup {r})
BY StaysGone DEF RulesOrdered, HasRule

(* A rule that reads does not use the stream of a rule before it.           *)
LEMMA NextReader ==
    ASSUME NEW q \in 1 .. 4, NEW r \in 1 .. 4, q < r, DirectionOf(r) = "In"
    PROVE  StreamOf(q) # StreamOf(r)
<1>1. r = 1 \/ r = 3
  BY RuleTable
<1>2. r = 3 /\ (q = 1 \/ q = 2)
  BY <1>1
<1> QED
  BY <1>2, RuleTable

(* What poll said of the rules to come.                                     *)
Expected(v, w, todo, told) ==
    /\ v.outcome = "running" /\ v.asked = w.asked
    /\ \A q \in todo : CanTake(v, q) /\ StillTrue(v, q, told[q])

(* The round as far as the rules in done.                                   *)
InRound(v, w, done, todo, told) ==
    /\ Sound(v) /\ Onward(v, w) /\ RulesOrdered(v, done)
    /\ v.outcome \in {"running", "died"}
    /\ ~v.served => Expected(v, w, todo, told)

LEMMA StillTrueLater ==
    ASSUME NEW v, NEW u, NEW r \in 1 .. 4, NEW events, StillTrue(v, r, events),
           Onward(u, v), u.asked = v.asked,
           \A d \in Directions : /\ v.source[d].bytes # <<>> => u.source[d].bytes # <<>>
                                 /\ v.source[d].ended => u.source[d].ended,
           v.broken = {} \/ u.broken = v.broken
    PROVE  StillTrue(u, r, events)
<1>1. StreamOf(r) \in Directions
  BY RuleTypes
<1>2. Loop!HungUp(u, r, events) => Loop!HungUp(v, r, events)
  BY DEF Loop!HungUp
<1>3. MayGo(v, r) => MayGo(u, r)
  BY StaysGone
<1>4. FdOf(r) \in v.broken => FdOf(r) \in u.broken
  OBVIOUS
<1> QED
  BY <1>1, <1>2, <1>3, <1>4 DEF StillTrue, Onward

(* An error or a hang-up ends a rule; the others still find what they need. *)
LEMMA EndedRule ==
    ASSUME NEW v, NEW w, NEW done \in SUBSET (1 .. 4), NEW todo \in SUBSET (1 .. 4), NEW told,
           InRound(v, w, done, todo, told), ~v.served, NEW r \in todo,
           \A q \in todo \ {r} : r < q,
           NEW t, Errored(t, v) \/ t = v, NEW u, Cancelled(u, t, r), NobodyReads(t, r)
    PROVE  InRound(u, w, done \cup {r}, todo \ {r}, told)
<1>1. /\ Sound(t) /\ Onward(t, v) /\ t.rules = v.rules /\ t.asked = v.asked /\ t.outcome = v.outcome
      /\ t.source = v.source /\ t.broken = v.broken
      /\ \A d \in Directions : t.stream[d].eof = v.stream[d].eof /\ t.stream[d].queue = v.stream[d].queue
  <2>1. Onward(v, v)
    BY OnwardSame DEF SameMatter
  <2> QED
    BY <2>1 DEF Errored, InRound
<1>2. /\ Sound(u) /\ Onward(u, t) /\ u.rules = t.rules /\ u.asked = t.asked /\ u.outcome = t.outcome
      /\ u.source = t.source /\ u.broken = t.broken /\ u.stream[StreamOf(r)].eof
      /\ \A d \in Directions : u.stream[d].queue = t.stream[d].queue
      /\ \A d \in Directions \ {StreamOf(r)} : u.stream[d].eof = t.stream[d].eof
  BY DEF Cancelled
<1>3. Onward(u, v) /\ Onward(u, w)
  BY <1>1, <1>2, OnwardOn DEF InRound
<1>4. Gone(u, r)
  BY <1>2, StaysGone DEF Gone
<1>5. RulesOrdered(u, done \cup {r})
  BY <1>1, <1>2, <1>3, <1>4, InOrderGone DEF InRound
<1>6. ASSUME NEW q \in todo \ {r}
      PROVE  CanTake(u, q) /\ StillTrue(u, q, told[q])
  <2>1. q \in 1 .. 4 /\ r \in 1 .. 4 /\ r < q /\ CanTake(v, q) /\ StillTrue(v, q, told[q])
    BY DEF InRound, Expected
  <2>2. StillTrue(u, q, told[q])
    BY <1>1, <1>2, <1>3, <2>1, StillTrueLater
  <2>3. CanTake(u, q)
    <3>1. CASE DirectionOf(q) # "In"
      BY <3>1 DEF CanTake
    <3>2. CASE DirectionOf(q) = "In"
      <4>1. StreamOf(q) \in Directions \ {StreamOf(r)}
        BY <2>1, <3>2, NextReader, RuleTypes
      <4> QED
        BY <1>1, <1>2, <2>1, <4>1 DEF CanTake
    <3> QED
      BY <3>1, <3>2
  <2> QED
    BY <2>2, <2>3
<1> QED
  BY <1>1, <1>2, <1>3, <1>5, <1>6 DEF InRound, Expected

(* A world in which a callback has been called.                             *)
LEMMA ServedResult ==
    ASSUME NEW v, Sound(v), NEW u, u = [v EXCEPT !.served = TRUE]
    PROVE  /\ Sound(u) /\ SameMatter(u, v) /\ u.outcome = v.outcome /\ u.served
           /\ u.asked = v.asked /\ u.rules = v.rules /\ u.fd = v.fd
<1>1. v \in Worlds
  BY DEF Sound
<1>2. /\ u \in Worlds /\ u.outcome = v.outcome /\ u.asked = v.asked /\ u.served
      /\ u.rules = v.rules /\ u.stream = v.stream /\ u.shutdown = v.shutdown
      /\ u.source = v.source /\ u.sink = v.sink /\ u.hungup = v.hungup
      /\ u.broken = v.broken /\ u.fd = v.fd
  BY <1>1 DEF Worlds
<1>3. SameMatter(u, v)
  BY <1>2 DEF SameMatter
<1> QED
  BY <1>2, <1>3, SoundMatter

Fired(u, v, r) ==
    /\ Sound(u) /\ Onward(u, v) /\ u.rules = v.rules /\ u.served
    /\ u.outcome \in {"running", "died"}

LEMMA FireResult ==
    ASSUME NEW v, Sound(v), v.outcome = "running", NEW r \in 1 .. 4, MayCall(v, r)
    PROVE  Fired(Loop!Fire(v, r), v, r)
<1>1. PICK c : c = Callback(r, v)
  OBVIOUS
<1>2. /\ Sound(c) /\ Onward(c, v) /\ c.rules = v.rules
      /\ c.outcome \in {"running", "died"}
      /\ c.outcome = "running" => ~Loop!BusyWait(c, r)
  BY <1>1, CallbackResult DEF CallbackDone
<1>3. PICK u : u = [c EXCEPT !.served = TRUE]
  OBVIOUS
<1>4. /\ Sound(u) /\ SameMatter(u, c) /\ u.outcome = c.outcome /\ u.served
      /\ u.rules = c.rules /\ u.fd = c.fd
  BY <1>2, <1>3, ServedResult
<1>5. Loop!BusyWait(u, r) => Loop!BusyWait(c, r)
  BY <1>4 DEF Loop!BusyWait, Interest, WantsToRead, WantsToWrite, SameMatter
<1>6. Loop!Fire(v, r) = u
  BY <1>1, <1>2, <1>3, <1>4, <1>5 DEF Loop!Fire
<1>7. Onward(u, v)
  BY <1>2, <1>4, OnwardSame, OnwardOn
<1> QED
  BY <1>2, <1>4, <1>6, <1>7 DEF Fired

LEMMA ServeRuleResult ==
    ASSUME NEW v, NEW w, NEW done \in SUBSET (1 .. 4), NEW todo \in SUBSET (1 .. 4), NEW told,
           InRound(v, w, done, todo, told), NEW r \in todo,
           \A q \in done : q < r, \A q \in todo \ {r} : r < q
    PROVE  InRound(Loop!ServeRule(v, r, told[r]), w, done \cup {r}, todo \ {r}, told)
<1>1. r \in 1 .. 4 /\ Sound(v) /\ Onward(v, w) /\ RulesOrdered(v, done) /\ v.outcome \in {"running", "died"}
  BY DEF InRound
<1>2. PICK k : k = Loop!Kept(v, r)
  OBVIOUS
<1>3. /\ Sound(k) /\ SameMatter(k, v) /\ k.outcome = v.outcome
      /\ k.asked = v.asked /\ k.served = v.served /\ k.rules = Append(v.rules, r)
  BY <1>1, <1>2, KeepResult
<1>4. Onward(k, v) /\ Onward(k, w)
  BY <1>1, <1>3, OnwardSame, OnwardOn
<1>5. CASE v.served
  <2>1. Loop!ServeRule(v, r, told[r]) = k
    BY <1>2, <1>5 DEF Loop!ServeRule
  <2>2. RulesOrdered(k, done \cup {r})
    BY <1>1, <1>3, <1>4, InOrderKept
  <2> QED
    BY <1>1, <1>3, <1>4, <1>5, <2>1, <2>2 DEF InRound
<1>6. CASE ~v.served
  <2>1. /\ CanTake(v, r) /\ StillTrue(v, r, told[r]) /\ v.outcome = "running"
        /\ StreamOf(r) \in Directions
    BY <1>1, <1>6, RuleTypes DEF InRound, Expected
  <2>2. CASE "err" \in told[r]
    <3>1. v.broken # {}
      BY <2>1, <2>2 DEF StillTrue
    <3>2. PICK t : t = Error(r, v)
      OBVIOUS
    <3>3. Errored(t, v)
      BY <1>1, <3>1, <3>2, ErrorResult
    <3>4. Sound(t) /\ t.broken # {}
      BY <3>1, <3>3 DEF Errored
    <3>5. EndKnown(t, StreamOf(r)) /\ NobodyReads(t, r)
      BY <3>4 DEF EndKnown, Excused, NobodyReads
    <3>6. PICK u : u = Cancel(r, t)
      OBVIOUS
    <3>7. Cancelled(u, t, r)
      BY <1>1, <3>4, <3>5, <3>6, CancelResult
    <3>8. Loop!ServeRule(v, r, told[r]) = u
      BY <1>6, <2>2, <3>2, <3>6 DEF Loop!ServeRule
    <3> QED
      BY <1>6, <3>3, <3>5, <3>7, <3>8, EndedRule
  <2>3. CASE "err" \notin told[r] /\ Loop!HungUp(v, r, told[r])
    <3>1. EndKnown(v, StreamOf(r)) /\ NobodyReads(v, r)
      BY <2>1, <2>3 DEF StillTrue, MayGo
    <3>2. PICK u : u = Cancel(r, v)
      OBVIOUS
    <3>3. Cancelled(u, v, r)
      BY <1>1, <3>1, <3>2, CancelResult
    <3>4. Loop!ServeRule(v, r, told[r]) = u
      BY <1>6, <2>3, <3>2 DEF Loop!ServeRule
    <3> QED
      BY <1>6, <3>1, <3>3, <3>4, EndedRule
  <2>4. CASE "err" \notin told[r] /\ ~Loop!HungUp(v, r, told[r]) /\ "ready" \in told[r]
    <3>1. MayCall(k, r)
      BY <1>3, <2>1, <2>4 DEF MayCall, CanTake, StillTrue, SameMatter
    <3>2. PICK u : u = Loop!Fire(k, r)
      OBVIOUS
    <3>3. Fired(u, k, r)
      BY <1>1, <1>3, <2>1, <3>1, <3>2, FireResult
    <3>4. Loop!ServeRule(v, r, told[r]) = u
      BY <1>2, <1>6, <2>4, <3>2 DEF Loop!ServeRule
    <3>5. Onward(u, v) /\ Onward(u, w)
      BY <1>4, <3>3, OnwardOn DEF Fired
    <3>6. RulesOrdered(u, done \cup {r})
      BY <1>1, <1>3, <3>3, <3>5, InOrderKept DEF Fired
    <3> QED
      BY <3>3, <3>4, <3>5, <3>6 DEF InRound, Fired
  <2>5. CASE "err" \notin told[r] /\ ~Loop!HungUp(v, r, told[r]) /\ "ready" \notin told[r]
    <3>1. Loop!ServeRule(v, r, told[r]) = k
      BY <1>2, <1>6, <2>5 DEF Loop!ServeRule
    <3>2. RulesOrdered(k, done \cup {r})
      BY <1>1, <1>3, <1>4, InOrderKept
    <3>3. ASSUME NEW q \in todo \ {r}
          PROVE  CanTake(k, q) /\ StillTrue(k, q, told[q])
      <4>1. q \in 1 .. 4 /\ CanTake(v, q) /\ StillTrue(v, q, told[q])
        BY <1>6 DEF InRound, Expected
      <4>2. CanTake(k, q)
        BY <1>3, <4>1 DEF CanTake, SameMatter
      <4>3. StillTrue(k, q, told[q])
        BY <1>3, <1>4, <4>1, StillTrueLater DEF SameMatter
      <4> QED
        BY <4>2, <4>3
    <3>4. k.asked = w.asked
      BY <1>3, <1>6 DEF InRound, Expected
    <3> QED
      BY <1>3, <1>4, <2>1, <3>1, <3>2, <3>3, <3>4 DEF InRound, Expected
  <2> QED
    BY <2>2, <2>3, <2>4, <2>5
<1> QED
  BY <1>1, <1>5, <1>6, WorldParts DEF Sound

-----------------------------------------------------------------------------
(* The rules in their order: those before k and those after.                *)
Done(rules, k) == {rules[i] : i \in 1 .. k}
Todo(rules, k) == {rules[i] : i \in k + 1 .. Len(rules)}

NextRule(rules, k, r) ==
    /\ r \in Todo(rules, k - 1)
    /\ Done(rules, k) = Done(rules, k - 1) \cup {r}
    /\ Todo(rules, k) = Todo(rules, k - 1) \ {r}
    /\ \A q \in Done(rules, k - 1) : q < r
    /\ \A q \in Todo(rules, k - 1) \ {r} : r < q

LEMMA RulesAlong ==
    ASSUME NEW rules \in Seq(1 .. 4), Increasing(rules), NEW n \in Nat, n = Len(rules), NEW k \in 1 .. n
    PROVE  NextRule(rules, k, rules[k])
<1>1. \A i \in 1 .. n : rules[i] \in 1 .. 4
  OBVIOUS
<1>2. \A i, j \in 1 .. n : i < j => rules[i] < rules[j]
  BY DEF Increasing
<1>3. rules[k] \in Todo(rules, k - 1)
  BY DEF Todo
<1>4. Done(rules, k) = Done(rules, k - 1) \cup {rules[k]}
  BY DEF Done
<1>5. \A i \in k + 1 .. n : i \in 1 .. n /\ rules[k] < rules[i]
  BY <1>2
<1>6. \A i \in 1 .. k - 1 : i \in 1 .. n /\ rules[i] < rules[k]
  BY <1>2
<1>7. Todo(rules, k) = Todo(rules, k - 1) \ {rules[k]}
  <2>1. Todo(rules, k - 1) = Todo(rules, k) \cup {rules[k]}
    BY DEF Todo
  <2>2. rules[k] \notin Todo(rules, k)
    BY <1>1, <1>5 DEF Todo
  <2> QED
    BY <2>1, <2>2
<1>8. \A q \in Done(rules, k - 1) : q < rules[k]
  BY <1>6 DEF Done
<1>9. \A q \in Todo(rules, k - 1) \ {rules[k]} : rules[k] < q
  BY <1>5, <1>7 DEF Todo
<1> QED
  BY <1>3, <1>4, <1>7, <1>8, <1>9 DEF NextRule

LEMMA RulesRange ==
    ASSUME NEW rules \in Seq(1 .. 4), NEW n \in Nat, n = Len(rules), NEW k \in 0 .. n
    PROVE  /\ Done(rules, k) \in SUBSET (1 .. 4) /\ Todo(rules, k) \in SUBSET (1 .. 4)
           /\ Done(rules, 0) = {}
BY DEF Done, Todo

(* How the loop of a round goes from world to world.                        *)
RoundOf(after, rules, start, told) ==
    after = [k \in 0 .. Len(rules) |->
                IF k = 0 THEN start
                ELSE Loop!ServeRule(after[k - 1], rules[k], told[rules[k]])]

LEMMA RoundSteps ==
    ASSUME NEW rules \in Seq(1 .. 4), NEW n \in Nat, n = Len(rules), NEW told, NEW start,
           NEW after, RoundOf(after, rules, start, told)
    PROVE  /\ after[0] = start
           /\ \A k \in 1 .. n : after[k] = Loop!ServeRule(after[k - 1], rules[k], told[rules[k]])
<1>1. after[0] = start
  BY DEF RoundOf
<1>2. ASSUME NEW k \in 1 .. n
      PROVE  after[k] = Loop!ServeRule(after[k - 1], rules[k], told[rules[k]])
  <2>1. k \in 0 .. Len(rules) /\ k # 0
    OBVIOUS
  <2> QED
    BY <2>1 DEF RoundOf
<1> QED
  BY <1>1, <1>2

LEMMA RoundServes ==
    ASSUME NEW w, NEW rules \in Seq(1 .. 4), Increasing(rules), NEW told, NEW start,
           NEW n \in Nat, n = Len(rules), InRound(start, w, {}, Todo(rules, 0), told),
           NEW after, after[0] = start,
           \A k \in 1 .. n :
               InRound(after[k - 1], w, Done(rules, k - 1), Todo(rules, k - 1), told)
                   => after[k] = Loop!ServeRule(after[k - 1], rules[k], told[rules[k]])
    PROVE  \A k \in 0 .. n : InRound(after[k], w, Done(rules, k), Todo(rules, k), told)
<1> DEFINE P(k) == k <= n => InRound(after[k], w, Done(rules, k), Todo(rules, k), told)
<1> DEFINE T == {k \in Nat : P(k)}
<1>1. 0 \in T
  <2>1. Done(rules, 0) = {}
    BY DEF Done
  <2>2. P(0)
    BY <2>1
  <2> HIDE DEF P
  <2> QED
    BY <2>2
<1>2. ASSUME NEW k \in T
      PROVE  k + 1 \in T
  <2> SUFFICES ASSUME k + 1 <= n
               PROVE  InRound(after[k + 1], w, Done(rules, k + 1), Todo(rules, k + 1), told)
    OBVIOUS
  <2>1. k \in 0 .. n /\ k + 1 \in 1 .. n /\ (k + 1) - 1 = k
    OBVIOUS
  <2>2. PICK r \in 1 .. 4 : r = rules[k + 1]
    BY <2>1
  <2>3. PICK done \in SUBSET (1 .. 4), todo \in SUBSET (1 .. 4) :
            done = Done(rules, k) /\ todo = Todo(rules, k)
    BY <2>1, RulesRange
  <2>4. NextRule(rules, k + 1, r)
    BY <2>1, <2>2, RulesAlong
  <2>5. /\ r \in todo /\ \A q \in done : q < r
        /\ \A q \in todo \ {r} : r < q
        /\ Done(rules, k + 1) = done \cup {r} /\ Todo(rules, k + 1) = todo \ {r}
    BY <2>1, <2>3, <2>4 DEF NextRule
  <2>6. InRound(after[k], w, done, todo, told)
    BY <2>1, <2>3
  <2>7. after[k + 1] = Loop!ServeRule(after[k], r, told[r])
    BY <2>1, <2>2, <2>3, <2>6
  <2>8. PICK v : v = after[k]
    OBVIOUS
  <2>9. InRound(Loop!ServeRule(v, r, told[r]), w, done \cup {r}, todo \ {r}, told)
    BY <2>5, <2>6, <2>8, ServeRuleResult
  <2> QED
    BY <2>5, <2>7, <2>8, <2>9
<1>3. T = Nat
  <2> HIDE DEF P
  <2> QED
    BY <1>1, <1>2, NatSetInduction
<1> QED
  BY <1>3

LEMMA RoundExists ==
    ASSUME NEW w, NEW rules \in Seq(1 .. 4), Increasing(rules), NEW told, NEW start,
           NEW n \in Nat, n = Len(rules), InRound(start, w, {}, Todo(rules, 0), told)
    PROVE  \E after : RoundOf(after, rules, start, told)
<1> DEFINE After(x, k) == Loop!ServeRule(x, rules[k], told[rules[k]])
<1> DEFINE step == [k \in 1 .. n |-> [x \in Worlds |-> IF After(x, k) \in Worlds THEN After(x, k) ELSE x]]
<1>1. step \in [1 .. n -> [Worlds -> Worlds]]
  <2> HIDE DEF After
  <2> QED
    OBVIOUS
<1>2. \A k \in 1 .. n : \A x \in Worlds : After(x, k) \in Worlds => step[k][x] = After(x, k)
  <2> HIDE DEF After
  <2> QED
    OBVIOUS
<1>3. start \in Worlds
  BY DEF InRound, Sound
<1> HIDE DEF step
<1>4. PICK g \in [0 .. n -> Worlds] : g[0] = start /\ \A k \in 1 .. n : g[k] = step[k][g[k - 1]]
  <2>1. \E g \in [0 .. n -> Worlds] : GoesBy(g, n, start, step)
    BY <1>1, <1>3, RecursionOnInterval
  <2> QED
    BY <2>1 DEF GoesBy
<1>5. ASSUME NEW k \in 1 .. n,
             InRound(g[k - 1], w, Done(rules, k - 1), Todo(rules, k - 1), told)
      PROVE  g[k] = After(g[k - 1], k)
  <2>1. k - 1 \in 0 .. n
    OBVIOUS
  <2>2. PICK r \in 1 .. 4, done \in SUBSET (1 .. 4), todo \in SUBSET (1 .. 4) :
            r = rules[k] /\ done = Done(rules, k - 1) /\ todo = Todo(rules, k - 1)
    BY <2>1, RulesRange
  <2>3. NextRule(rules, k, r)
    BY <2>2, RulesAlong
  <2>4. r \in todo /\ (\A q \in done : q < r) /\ (\A q \in todo \ {r} : r < q)
    BY <2>2, <2>3 DEF NextRule
  <2>5. PICK v : v = g[k - 1] /\ v \in Worlds
    BY <1>4, <2>1
  <2>6. InRound(Loop!ServeRule(v, r, told[r]), w, done \cup {r}, todo \ {r}, told)
    <3>1. InRound(v, w, done, todo, told)
      BY <1>5, <2>2, <2>5
    <3> QED
      BY <2>4, <3>1, ServeRuleResult
  <2>7. After(v, k) \in Worlds
    BY <2>2, <2>6 DEF InRound, Sound
  <2>8. g[k] = step[k][v]
    BY <1>4, <2>5
  <2> HIDE DEF After
  <2> QED
    BY <1>2, <2>5, <2>7, <2>8
<1>6. \A k \in 0 .. n : InRound(g[k], w, Done(rules, k), Todo(rules, k), told)
  BY <1>4, <1>5, RoundServes
<1>7. g = [k \in 0 .. n |-> IF k = 0 THEN start ELSE After(g[k - 1], k)]
  <2>1. ASSUME NEW k \in 0 .. n
        PROVE  g[k] = IF k = 0 THEN start ELSE After(g[k - 1], k)
    <3>1. CASE k = 0
      BY <1>4, <3>1
    <3>2. CASE k # 0
      <4>1. k \in 1 .. n /\ k - 1 \in 0 .. n
        BY <3>2
      <4>2. g[k] = After(g[k - 1], k)
        BY <1>5, <1>6, <4>1
      <4> QED
        BY <3>2, <4>2
    <3> QED
      BY <3>1, <3>2
  <2> HIDE DEF After
  <2> QED
    BY <2>1
<1> QED
  BY <1>7 DEF RoundOf

(* The end of a round.                                                      *)
LEMMA EndRoundResult ==
    ASSUME NEW v, Sound(v), NEW u, u = Loop!EndRound(v)
    PROVE  Sound(u) /\ Onward(u, v) /\ u.rules = v.rules /\ ~u.served /\ u.outcome = v.outcome
<1>1. v \in Worlds /\ v.fd \in [Fds -> [eof : BOOLEAN, closed : BOOLEAN, counted : SUBSET {"In", "Out"}]]
  BY DEF Sound, Worlds
<1>2. PICK fds : fds = [f \in Fds |-> [v.fd[f] EXCEPT !.counted = {}]]
  OBVIOUS
<1>3. \A f \in Fds :
          /\ fds[f] \in [eof : BOOLEAN, closed : BOOLEAN, counted : SUBSET {"In", "Out"}]
          /\ fds[f].eof = v.fd[f].eof /\ fds[f].closed = v.fd[f].closed
  BY <1>1, <1>2
<1>4. fds \in [Fds -> [eof : BOOLEAN, closed : BOOLEAN, counted : SUBSET {"In", "Out"}]]
  BY <1>2, <1>3
<1>5. u = [v EXCEPT !.served = FALSE, !.asked = {}, !.fd = fds]
  BY <1>1, <1>2 DEF Loop!EndRound
<1>6. /\ u \in Worlds /\ u.outcome = v.outcome /\ ~u.served
      /\ u.rules = v.rules /\ u.stream = v.stream /\ u.shutdown = v.shutdown
      /\ u.source = v.source /\ u.sink = v.sink /\ u.hungup = v.hungup
      /\ u.broken = v.broken /\ u.fd = fds
  BY <1>1, <1>4, <1>5 DEF Worlds
<1>7. SameMatter(u, v)
  BY <1>3, <1>6 DEF SameMatter
<1> QED
  BY <1>6, <1>7, SoundMatter, OnwardSame

(* A world without its rules.                                               *)
Emptied(v, asked) == [v EXCEPT !.rules = <<>>, !.asked = asked]

Fresh(u, v, asked) ==
    /\ Sound(u) /\ SameMatter(u, v) /\ u.outcome = v.outcome
    /\ u.asked = asked /\ u.served = v.served /\ u.rules = <<>> /\ RulesOrdered(u, {})

LEMMA NoRulesYet ==
    ASSUME NEW v, Sound(v), NEW asked \in SUBSET (1 .. 4),
           NEW u, u = Emptied(v, asked)
    PROVE  Fresh(u, v, asked)
<1>1. v \in Worlds
  BY DEF Sound
<1>2. PICK rules \in Seq(1 .. 4) : rules = <<>> /\ Len(rules) = 0
  BY EmptySeq
<1>3. u = [v EXCEPT !.rules = rules, !.asked = asked]
  BY <1>2 DEF Emptied
<1>4. /\ u \in Worlds /\ u.outcome = v.outcome /\ u.asked = asked /\ u.served = v.served
      /\ u.rules = rules /\ u.stream = v.stream /\ u.shutdown = v.shutdown
      /\ u.source = v.source /\ u.sink = v.sink /\ u.hungup = v.hungup
      /\ u.broken = v.broken /\ u.fd = v.fd
  BY <1>1, <1>3 DEF Worlds
<1>5. SameMatter(u, v)
  BY <1>4 DEF SameMatter
<1>6. RulesOrdered(u, {})
  BY <1>2, <1>4 DEF RulesOrdered, Increasing
<1>7. Sound(u)
  BY <1>4, <1>5, SoundMatter
<1> QED
  BY <1>2, <1>4, <1>5, <1>6, <1>7 DEF Fresh

LEMMA ServeResult ==
    ASSUME NEW w, Sound(w), RulesLeft(w), ~w.served, w.outcome = "running", NEW told,
           \A r \in 1 .. 4 : CanTake(w, r),
           \A r \in 1 .. 4 : HasRule(w, r) => StillTrue(w, r, told[r])
    PROVE  /\ Sound(Loop!Serve(w, told)) /\ RulesLeft(Loop!Serve(w, told))
           /\ ~Loop!Serve(w, told).served
<1>1. PICK rules \in Seq(1 .. 4), n \in Nat : rules = w.rules /\ n = Len(rules) /\ Increasing(rules)
  BY LenProperties DEF Sound, Worlds, RulesLeft
<1>2. PICK start : start = [w EXCEPT !.rules = <<>>]
  OBVIOUS
<1>3. /\ Sound(start) /\ SameMatter(start, w) /\ start.outcome = w.outcome
      /\ start.asked = w.asked /\ start.served = w.served /\ RulesOrdered(start, {})
  <2>1. PICK asked \in SUBSET (1 .. 4) : asked = w.asked
    BY WorldParts DEF Sound
  <2>2. start = Emptied(w, asked)
    BY <1>2, <2>1 DEF Sound, Worlds, Emptied
  <2>3. /\ Sound(start) /\ SameMatter(start, w) /\ start.outcome = w.outcome
        /\ start.asked = asked /\ start.served = w.served /\ RulesOrdered(start, {})
    <3>1. Fresh(start, w, asked)
      BY <2>2, NoRulesYet
    <3> QED
      BY <3>1 DEF Fresh
  <2> QED
    BY <2>1, <2>3
<1>4. Onward(start, w)
  BY <1>3, OnwardSame
<1>5. InRound(start, w, {}, Todo(rules, 0), told)
  <2>1. ASSUME NEW q \in Todo(rules, 0)
        PROVE  CanTake(start, q) /\ StillTrue(start, q, told[q])
    <3>1. PICK i \in 1 .. n : rules[i] = q
      BY <1>1 DEF Todo
    <3>2. q \in 1 .. 4 /\ HasRule(w, q)
      BY <1>1, <3>1 DEF HasRule
    <3>3. CanTake(start, q)
      BY <1>3, <3>2 DEF CanTake, SameMatter
    <3>4. StillTrue(start, q, told[q])
      BY <1>3, <1>4, <3>2, StillTrueLater DEF SameMatter
    <3> QED
      BY <3>3, <3>4
  <2> QED
    BY <1>3, <1>4, <2>1 DEF InRound, Expected
<1> DEFINE after == CHOOSE g : RoundOf(g, rules, start, told)
<1>6. RoundOf(after, rules, start, told)
  BY <1>1, <1>5, RoundExists
<1>7. Loop!Serve(w, told) = Loop!EndRound(after[n])
  BY <1>1, <1>2 DEF Loop!Serve, RoundOf, Loop!ServeRule
<1> HIDE DEF after
<1>8. /\ after[0] = start
      /\ \A k \in 1 .. n : after[k] = Loop!ServeRule(after[k - 1], rules[k], told[rules[k]])
  BY <1>1, <1>6, RoundSteps
<1>9. InRound(after[n], w, Done(rules, n), Todo(rules, n), told)
  <2>1. \A k \in 0 .. n : InRound(after[k], w, Done(rules, k), Todo(rules, k), told)
    BY <1>1, <1>5, <1>8, RoundServes
  <2> QED
    BY <2>1
<1>10. PICK v : v = after[n]
  OBVIOUS
<1>11. PICK u : u = Loop!EndRound(v)
  OBVIOUS
<1>12. Sound(v) /\ Onward(v, w) /\ RulesOrdered(v, Done(rules, n))
  BY <1>9, <1>10 DEF InRound
<1>13. Sound(u) /\ Onward(u, v) /\ u.rules = v.rules /\ ~u.served
  BY <1>11, <1>12, EndRoundResult
<1>14. RulesLeft(u)
  <2>1. ASSUME NEW r \in 1 .. 4
        PROVE  HasRule(u, r) \/ Gone(u, r)
    <3>1. CASE HasRule(w, r)
      <4>1. r \in Done(rules, n)
        BY <1>1, <3>1 DEF HasRule, Done
      <4> QED
        BY <1>12, <1>13, <4>1, StaysGone DEF RulesOrdered, HasRule
    <3>2. CASE Gone(w, r)
      BY <1>12, <1>13, <3>2, StaysGone
    <3> QED
      BY <3>1, <3>2 DEF RulesLeft
  <2>2. Increasing(u.rules)
    BY <1>12, <1>13 DEF RulesOrdered
  <2> QED
    BY <2>1, <2>2 DEF RulesLeft
<1> QED
  BY <1>7, <1>10, <1>11, <1>13, <1>14

-----------------------------------------------------------------------------
(* A rule that is not interested has done all it can.                       *)
Idle(v, r) ==
    IF DirectionOf(r) = "In"
    THEN \/ v.broken # {}
         \/ v.stream[StreamOf(r)].eof
         \/ ~(Len(v.stream[StreamOf(r)].queue) < buffer_size)
    ELSE /\ v.stream[StreamOf(r)].queue = <<>>
         /\ v.stream[StreamOf(r)].eof => v.sink[StreamOf(r)].ended

(* The preparation of a poll as far as the rules in done.                   *)
Preparing(v, w, done) ==
    /\ Sound(v) /\ Onward(v, w) /\ RulesOrdered(v, done)
    /\ v.outcome = "running" /\ ~v.served /\ v.asked \in SUBSET done
    /\ \A q \in done : CanTake(v, q) /\ (HasRule(v, q) /\ q \notin v.asked => Idle(v, q))

LEMMA InterestResult ==
    ASSUME NEW v, Sound(v), NEW r \in 1 .. 4
    PROVE  /\ Interest(r, v) /\ DirectionOf(r) = "In" =>
                 ~v.stream[StreamOf(r)].eof /\ Len(v.stream[StreamOf(r)].queue) < buffer_size
           /\ ~Interest(r, v) => Idle(v, r)
<1>1. PICK d : d = StreamOf(r) /\ d \in Directions
  BY RuleTypes
<1>2. v \in Worlds /\ Bounded(v, d) /\ Truthful(v, d) /\ \A e \in Directions : Truthful(v, e)
  BY <1>1 DEF Sound
<1>3. PICK s : s = v.stream[d] /\ s \in Streams(Nat)
  BY <1>1, <1>2, WorldParts
<1>4. PICK c \in Nat, n \in Nat, q \in Seq(Nat) :
          c = s.capacity /\ n = Len(q) /\ q = s.queue /\ (n = 0 <=> q = <<>>)
  BY <1>3, StreamParts, EmptySeq
<1>5. c = buffer_size
  BY <1>2, <1>3, <1>4 DEF Bounded
<1>6. AvailableCapacity(s) > 0 <=> n < c
  BY <1>4 DEF AvailableCapacity
<1>7. BytesBuffered(s) > 0 <=> s.queue # <<>>
  BY <1>4 DEF BytesBuffered
<1>8. DirectionOf(r) = "In" \/ DirectionOf(r) # "In"
  OBVIOUS
<1>9. CASE DirectionOf(r) = "In"
  <2>1. Interest(r, v) <=> WantsToRead(d, v)
    BY <1>1, <1>9 DEF Interest
  <2>2. WantsToRead(d, v) <=> (\A e \in Directions : ~v.stream[e].error) /\ n < c /\ ~s.eof
    BY <1>3, <1>6 DEF WantsToRead, IsClosed
  <2>3. Interest(r, v) => ~s.eof /\ n < c
    BY <2>1, <2>2
  <2>4. ~Interest(r, v) => v.broken # {} \/ s.eof \/ ~(n < c)
    BY <1>2, <2>1, <2>2 DEF Truthful
  <2> QED
    BY <1>1, <1>3, <1>4, <1>5, <1>9, <2>3, <2>4 DEF Idle
<1>10. CASE DirectionOf(r) # "In"
  <2>1. Interest(r, v) <=> WantsToWrite(d, v)
    BY <1>1, <1>10 DEF Interest
  <2>2. ~Interest(r, v) => s.queue = <<>> /\ (s.eof => v.shutdown[d])
    BY <1>3, <1>7, <2>1 DEF WantsToWrite, IsFinished
  <2>3. v.shutdown[d] => v.sink[d].ended
    BY <1>2 DEF Truthful
  <2> QED
    BY <1>1, <1>3, <1>10, <2>2, <2>3 DEF Idle
<1> QED
  BY <1>8, <1>9, <1>10

(* A rule whose descriptor is at its end may go.                            *)
LEMMA DefunctResult ==
    ASSUME NEW v, Sound(v), NEW r \in 1 .. 4, Loop!Defunct(v, r)
    PROVE  /\ EndKnown(v, StreamOf(r)) /\ NobodyReads(v, r)
           /\ DirectionOf(r) = "Out" => v.stream[StreamOf(r)].eof
<1>1. FdsTruthful(v) /\ Truthful(v, "inbound")
  BY DEF Sound, Directions
<1>2. r = 1 \/ r = 2 \/ r = 3 \/ r = 4
  BY RuleTable
<1>3. CASE r = 1
  BY <1>1, <1>3, RuleTable DEF Loop!Defunct, FdsTruthful, NobodyReads
<1>4. CASE r = 2
  BY <1>1, <1>4, RuleTable DEF Loop!Defunct, FdsTruthful
<1>5. CASE r = 3
  BY <1>1, <1>5, RuleTable DEF Loop!Defunct, FdsTruthful, NobodyReads
<1>6. CASE r = 4
  <2>1. FdOf(r) = "output" /\ DirectionOf(r) = "Out" /\ StreamOf(r) = "inbound"
    BY <1>6, RuleTable
  <2>2. v.shutdown["inbound"]
    BY <1>1, <2>1 DEF Loop!Defunct, FdsTruthful
  <2>3. v.stream["inbound"].eof /\ v.sink["inbound"].ended /\ EndKnown(v, "inbound")
    BY <1>1, <2>2 DEF Truthful
  <2> QED
    BY <2>1, <2>3 DEF NobodyReads
<1> QED
  BY <1>2, <1>3, <1>4, <1>5, <1>6

(* A rule that is kept, and asked.                                          *)
LEMMA AskedResult ==
    ASSUME NEW v, Sound(v), NEW r \in 1 .. 4, NEW u, u = [v EXCEPT !.asked = @ \cup {r}]
    PROVE  /\ Sound(u) /\ SameMatter(u, v) /\ u.outcome = v.outcome
           /\ u.asked = v.asked \cup {r} /\ u.served = v.served /\ u.rules = v.rules
<1>1. v \in Worlds
  BY DEF Sound
<1>2. PICK asked \in SUBSET (1 .. 4) : asked = v.asked \cup {r}
  BY <1>1, WorldParts
<1>3. u = [v EXCEPT !.asked = asked]
  BY <1>2
<1>4. /\ u \in Worlds /\ u.outcome = v.outcome /\ u.asked = asked /\ u.served = v.served
      /\ u.rules = v.rules /\ u.stream = v.stream /\ u.shutdown = v.shutdown
      /\ u.source = v.source /\ u.sink = v.sink /\ u.hungup = v.hungup
      /\ u.broken = v.broken /\ u.fd = v.fd
  BY <1>1, <1>3 DEF Worlds
<1>5. SameMatter(u, v)
  BY <1>4 DEF SameMatter
<1> QED
  BY <1>2, <1>4, <1>5, SoundMatter

LEMMA SetUpRuleResult ==
    ASSUME NEW v, NEW w, NEW done \in SUBSET (1 .. 4), Preparing(v, w, done),
           NEW r \in 1 .. 4, \A q \in done : q < r
    PROVE  Preparing(Loop!SetUpRule(v, r), w, done \cup {r})
<1>1. /\ Sound(v) /\ Onward(v, w) /\ RulesOrdered(v, done) /\ v.outcome = "running" /\ ~v.served
      /\ v.asked \in SUBSET done
      /\ \A q \in done : CanTake(v, q) /\ (HasRule(v, q) /\ q \notin v.asked => Idle(v, q))
  BY DEF Preparing
<1>2. r \notin done
  OBVIOUS
<1>3. CASE Loop!Defunct(v, r)
  <2>1. /\ EndKnown(v, StreamOf(r)) /\ NobodyReads(v, r)
        /\ DirectionOf(r) = "Out" => v.stream[StreamOf(r)].eof
    BY <1>1, <1>3, DefunctResult
  <2>2. PICK u : u = Cancel(r, v)
    OBVIOUS
  <2>3. Cancelled(u, v, r)
    BY <1>1, <2>1, <2>2, CancelResult
  <2>4. Loop!SetUpRule(v, r) = u
    BY <1>3, <2>2 DEF Loop!SetUpRule
  <2>5. /\ Sound(u) /\ Onward(u, v) /\ u.rules = v.rules /\ u.asked = v.asked
        /\ u.served = v.served /\ u.outcome = v.outcome /\ u.sink = v.sink
        /\ u.broken = v.broken /\ u.stream[StreamOf(r)].eof
        /\ \A d \in Directions : u.stream[d].queue = v.stream[d].queue
        /\ \A d \in Directions \ {StreamOf(r)} : u.stream[d].eof = v.stream[d].eof
    BY <2>3 DEF Cancelled
  <2>6. Gone(u, r) /\ Onward(u, w)
    BY <1>1, <2>1, <2>5, StaysGone, OnwardOn DEF Gone
  <2>7. RulesOrdered(u, done \cup {r})
    BY <1>1, <2>5, <2>6, InOrderGone
  <2>8. ~HasRule(u, r)
    BY <1>1, <1>2, <2>5 DEF RulesOrdered, HasRule
  <2>9. ASSUME NEW q \in done
        PROVE  CanTake(u, q) /\ (HasRule(u, q) /\ q \notin u.asked => Idle(u, q))
    <3>1. q \in 1 .. 4 /\ q < r /\ StreamOf(q) \in Directions
      BY RuleTypes
    <3>2. u.stream[StreamOf(q)].eof <=> v.stream[StreamOf(q)].eof
      <4>1. CASE StreamOf(q) # StreamOf(r)
        BY <2>5, <3>1, <4>1
      <4>2. CASE StreamOf(q) = StreamOf(r)
        <5>1. DirectionOf(r) = "Out"
          BY <3>1, <4>2, NextReader, RuleTypes
        <5> QED
          BY <2>1, <2>5, <4>2, <5>1
      <4> QED
        BY <4>1, <4>2
    <3>3. HasRule(u, q) <=> HasRule(v, q)
      BY <2>5 DEF HasRule
    <3>4. CanTake(u, q)
      BY <1>1, <2>5, <3>1, <3>2 DEF CanTake
    <3>5. Idle(v, q) => Idle(u, q)
      BY <2>5, <3>1, <3>2 DEF Idle
    <3> QED
      BY <1>1, <2>5, <3>3, <3>4, <3>5
  <2>10. CanTake(u, r)
    BY <1>1, <1>2, <2>5 DEF CanTake
  <2> QED
    BY <1>1, <2>4, <2>5, <2>6, <2>7, <2>8, <2>9, <2>10 DEF Preparing
<1>4. CASE ~Loop!Defunct(v, r)
  <2>1. PICK k : k = Loop!Kept(v, r)
    OBVIOUS
  <2>2. /\ Sound(k) /\ SameMatter(k, v) /\ k.outcome = v.outcome
        /\ k.asked = v.asked /\ k.served = v.served /\ k.rules = Append(v.rules, r)
    BY <1>1, <2>1, KeepResult
  <2>3. PICK u : u = IF Interest(r, v) THEN [k EXCEPT !.asked = @ \cup {r}] ELSE k
    OBVIOUS
  <2>4. Loop!SetUpRule(v, r) = u
    BY <1>4, <2>1, <2>3 DEF Loop!SetUpRule
  <2>5. /\ Sound(u) /\ SameMatter(u, k) /\ u.outcome = k.outcome
        /\ u.served = k.served /\ u.rules = k.rules
        /\ u.asked = IF Interest(r, v) THEN v.asked \cup {r} ELSE v.asked
    <3>1. CASE Interest(r, v)
      BY <2>2, <2>3, <3>1, AskedResult
    <3>2. CASE ~Interest(r, v)
      BY <2>2, <2>3, <3>2 DEF SameMatter
    <3> QED
      BY <3>1, <3>2
  <2>6. u.stream = v.stream /\ u.sink = v.sink /\ u.broken = v.broken
    BY <2>2, <2>5 DEF SameMatter
  <2>7. Onward(u, v) /\ Onward(u, w)
    <3>1. Onward(u, k) /\ Onward(k, v)
      BY <2>2, <2>5, OnwardSame
    <3> QED
      BY <1>1, <3>1, OnwardOn
  <2>8. /\ RulesOrdered(u, done \cup {r}) /\ HasRule(u, r)
    BY <1>1, <2>2, <2>5, <2>7, InOrderKept
  <2>9. \A q \in done : HasRule(u, q) => HasRule(v, q)
    <3>1. PICK s \in Seq(1 .. 4), n \in Nat : s = v.rules /\ n = Len(s)
      BY <1>1, LenProperties DEF RulesOrdered
    <3>2. PICK t \in Seq(1 .. 4) : t = u.rules /\ t = Append(s, r)
      BY <2>2, <2>5, <3>1, AppendProperties
    <3>3. Len(t) = n + 1 /\ t[n + 1] = r /\ \A i \in 1 .. n : t[i] = s[i]
      BY <3>1, <3>2, AppendProperties
    <3> SUFFICES ASSUME NEW q \in done, HasRule(u, q)
                 PROVE  HasRule(v, q)
      OBVIOUS
    <3>4. PICK i \in 1 .. Len(t) : t[i] = q
      BY <3>2 DEF HasRule
    <3>5. i \in 1 .. n
      BY <1>2, <3>1, <3>3, <3>4
    <3> QED
      BY <3>1, <3>3, <3>4, <3>5 DEF HasRule
  <2>10. ASSUME NEW q \in done
         PROVE  CanTake(u, q) /\ (HasRule(u, q) /\ q \notin u.asked => Idle(u, q))
    <3>1. q # r
      BY <1>2
    <3>2. q \in u.asked <=> q \in v.asked
      BY <2>5, <3>1
    <3>3. CanTake(u, q)
      BY <1>1, <2>6, <3>2 DEF CanTake
    <3>4. Idle(v, q) => Idle(u, q)
      BY <2>6 DEF Idle
    <3> QED
      BY <1>1, <2>9, <3>2, <3>3, <3>4
  <2>11. /\ Interest(r, v) /\ DirectionOf(r) = "In" =>
               ~v.stream[StreamOf(r)].eof /\ Len(v.stream[StreamOf(r)].queue) < buffer_size
         /\ ~Interest(r, v) => Idle(v, r)
    BY <1>1, InterestResult
  <2>12. CanTake(u, r)
    BY <1>1, <1>2, <2>5, <2>6, <2>11 DEF CanTake
  <2>13. r \notin u.asked => Idle(u, r)
    <3>1. r \notin u.asked => Idle(v, r)
      BY <2>5, <2>11
    <3>2. Idle(v, r) => Idle(u, r)
      BY <2>6 DEF Idle
    <3> QED
      BY <3>1, <3>2
  <2>14. u.asked \in SUBSET (done \cup {r}) /\ u.outcome = "running" /\ ~u.served
    BY <1>1, <2>2, <2>5
  <2> QED
    BY <2>4, <2>5, <2>7, <2>8, <2>10, <2>12, <2>13, <2>14 DEF Preparing
<1> QED
  BY <1>3, <1>4

-----------------------------------------------------------------------------
(* What the others do: a byte more at the end, or one less at the front.    *)
LEMMA BytesAreBytes ==
    ASSUME NEW t \in Nat, NEW m \in Nat
    PROVE  /\ Bytes(t, m) \in Seq(Nat) /\ Len(Bytes(t, m)) = m
           /\ \A i \in 1 .. m : Bytes(t, m)[i] = t + i - 1
<1>1. \A i \in 1 .. m : t + i - 1 \in Nat
  OBVIOUS
<1>2. Bytes(t, m) \in [1 .. m -> Nat]
  BY <1>1 DEF Bytes
<1> QED
  BY <1>2 DEF Bytes

Regrouped(a, b, c, d) == ((a \o b) \o c) \o d = a \o ((b \o c) \o d)

LEMMA RegroupFour ==
    ASSUME NEW a \in Seq(Nat), NEW b \in Seq(Nat), NEW c \in Seq(Nat), NEW d \in Seq(Nat)
    PROVE  Regrouped(a, b, c, d)
<1>1. PICK bc \in Seq(Nat) : bc = b \o c
  BY ConcatProperties
<1>2. Associates(a, b, c)
  BY Regroup
<1>3. Associates(a, bc, d)
  BY Regroup
<1> QED
  BY <1>1, <1>2, <1>3 DEF Regrouped, Associates

LEMMA OneMore ==
    ASSUME NEW t \in Nat, NEW w \in Nat, t <= w, NEW a \in Seq(Nat), NEW b \in Seq(Nat),
           a \o b = Bytes(t, w - t)
    PROVE  a \o Append(b, w) = Bytes(t, (w + 1) - t)
<1>1. PICK m \in Nat : m = w - t /\ m + 1 = (w + 1) - t /\ t + m = w
  OBVIOUS
<1>2. PICK x \in Seq(Nat) : x = Bytes(t, m) /\ Len(x) = m /\ \A i \in 1 .. m : x[i] = t + i - 1
  <2>1. /\ Bytes(t, m) \in Seq(Nat) /\ Len(Bytes(t, m)) = m
        /\ \A i \in 1 .. m : Bytes(t, m)[i] = t + i - 1
    BY BytesAreBytes
  <2> QED
    BY <2>1
<1>3. PICK y \in Seq(Nat) : y = Bytes(t, m + 1) /\ Len(y) = m + 1 /\ \A i \in 1 .. m + 1 : y[i] = t + i - 1
  <2>1. PICK l \in Nat : l = m + 1
    OBVIOUS
  <2>2. /\ Bytes(t, l) \in Seq(Nat) /\ Len(Bytes(t, l)) = l
        /\ \A i \in 1 .. l : Bytes(t, l)[i] = t + i - 1
    BY BytesAreBytes
  <2> QED
    BY <2>1, <2>2
<1>4. PICK one : one = <<w>> /\ one \in Seq(Nat)
  <2>1. <<w>> \in Seq(Nat)
    OBVIOUS
  <2> QED
    BY <2>1
<1>5. Append(b, w) = b \o one /\ Append(x, w) = x \o one
  BY <1>4, AppendIsConcat
<1>6. a \o (b \o one) = (a \o b) \o one
  <2>1. Associates(a, b, one)
    BY <1>4, Regroup
  <2> QED
    BY <2>1 DEF Associates
<1>7. a \o Append(b, w) = Append(x, w)
  BY <1>1, <1>2, <1>5, <1>6
<1>8. PICK z \in Seq(Nat) : z = Append(x, w) /\ Len(z) = m + 1 /\ z[m + 1] = w /\ \A i \in 1 .. m : z[i] = x[i]
  <2>1. /\ Append(x, w) \in Seq(Nat) /\ Len(Append(x, w)) = Len(x) + 1
        /\ \A i \in 1 .. Len(x) : Append(x, w)[i] = x[i]
        /\ Append(x, w)[Len(x) + 1] = w
    BY AppendProperties
  <2> QED
    BY <1>2, <2>1
<1>9. \A i \in 1 .. m + 1 : z[i] = y[i]
  <2> TAKE i \in 1 .. m + 1
  <2>1. CASE i = m + 1
    BY <1>1, <1>3, <1>8, <2>1
  <2>2. CASE i # m + 1
    <3>1. i \in 1 .. m
      BY <2>2
    <3> QED
      BY <1>2, <1>3, <1>8, <3>1
  <2> QED
    BY <2>1, <2>2
<1>10. z = y
  BY <1>3, <1>8, <1>9, SeqEqual
<1> QED
  BY <1>1, <1>3, <1>7, <1>8, <1>10

HoldsFrom(t, w, k, q, b) == t <= w /\ (k \o q) \o b = Bytes(t, w - t)

LEMMA OneLess ==
    ASSUME NEW t \in Nat, NEW w \in Nat, NEW k \in Seq(Nat), NEW q \in Seq(Nat), NEW b \in Seq(Nat),
           k # <<>>, HoldsFrom(t, w, k, q, b)
    PROVE  Tail(k) \in Seq(Nat) /\ HoldsFrom(t + 1, w, Tail(k), q, b)
<1>1. PICK m \in Nat : m = w - t /\ t <= w /\ (k \o q) \o b = Bytes(t, m)
  BY DEF HoldsFrom
<1>2. PICK one \in Seq(Nat), rest \in Seq(Nat) :
          one \o rest = k /\ Len(one) = 1 /\ rest = Tail(k)
  <2>1. 1 <= Len(k)
    BY EmptySeq, LenProperties
  <2>2. /\ Take(k, 1) \in Seq(Nat) /\ Len(Take(k, 1)) = 1 /\ Drop(k, 1) \in Seq(Nat)
        /\ Take(k, 1) \o Drop(k, 1) = k
    BY <2>1, TakeDrop
  <2>3. Drop(k, 1) = Tail(k)
    BY TailIsSubSeq DEF Drop
  <2> QED
    BY <2>2, <2>3
<1>3. PICK rq \in Seq(Nat) : rq = rest \o q
  BY ConcatProperties
<1>4. PICK r \in Seq(Nat) : r = rq \o b
  BY ConcatProperties
<1>5. PICK s \in Seq(Nat) : s = Bytes(t, m) /\ Len(s) = m /\ \A i \in 1 .. m : s[i] = t + i - 1
  BY BytesAreBytes
<1>6. s = one \o r
  <2>1. Regrouped(one, rest, q, b)
    BY RegroupFour
  <2> QED
    BY <1>1, <1>2, <1>3, <1>4, <1>5, <2>1 DEF Regrouped
<1>7. PICK n \in Nat : n = Len(r)
  BY LenProperties
<1>8. m = 1 + n /\ \A i \in 1 .. 1 + n : s[i] = IF i <= 1 THEN one[i] ELSE r[i - 1]
  <2>1. /\ Len(one \o r) = Len(one) + Len(r)
        /\ \A i \in 1 .. Len(one) + Len(r) :
               (one \o r)[i] = IF i <= Len(one) THEN one[i] ELSE r[i - Len(one)]
    BY ConcatProperties
  <2> QED
    BY <1>2, <1>5, <1>6, <1>7, <2>1
<1>9. \A i \in 1 .. n : r[i] = (t + 1) + i - 1
  <2> TAKE i \in 1 .. n
  <2>1. i + 1 \in 1 .. 1 + n /\ ~(i + 1 <= 1) /\ (i + 1) - 1 = i
    OBVIOUS
  <2>2. s[i + 1] = r[i]
    BY <1>8, <2>1
  <2>3. s[i + 1] = t + (i + 1) - 1
    BY <1>5, <1>8, <2>1
  <2> QED
    BY <2>2, <2>3
<1>10. PICK z \in Seq(Nat) : z = Bytes(t + 1, n) /\ Len(z) = n /\ \A i \in 1 .. n : z[i] = (t + 1) + i - 1
  <2>1. PICK tt \in Nat : tt = t + 1
    OBVIOUS
  <2>2. /\ Bytes(tt, n) \in Seq(Nat) /\ Len(Bytes(tt, n)) = n
        /\ \A i \in 1 .. n : Bytes(tt, n)[i] = tt + i - 1
    BY BytesAreBytes
  <2> QED
    BY <2>1, <2>2
<1>11. r = z
  <2>1. Len(r) = Len(z)
    BY <1>7, <1>10
  <2>2. \A i \in 1 .. Len(r) : r[i] = z[i]
    BY <1>7, <1>9, <1>10
  <2> QED
    BY <2>1, <2>2, SeqEqual
<1>12. t + 1 <= w /\ n = w - (t + 1)
  BY <1>1, <1>8
<1> QED
  BY <1>2, <1>3, <1>4, <1>10, <1>11, <1>12 DEF HoldsFrom

(* The preparation of a poll.                                               *)
PreparationOf(after, rules, start) ==
    after = [k \in 0 .. Len(rules) |->
                IF k = 0 THEN start ELSE Loop!SetUpRule(after[k - 1], rules[k])]

LEMMA PreparationSteps ==
    ASSUME NEW rules \in Seq(1 .. 4), NEW n \in Nat, n = Len(rules), NEW start,
           NEW after, PreparationOf(after, rules, start)
    PROVE  /\ after[0] = start
           /\ \A k \in 1 .. n : after[k] = Loop!SetUpRule(after[k - 1], rules[k])
<1>1. after[0] = start
  BY DEF PreparationOf
<1>2. ASSUME NEW k \in 1 .. n
      PROVE  after[k] = Loop!SetUpRule(after[k - 1], rules[k])
  <2>1. k \in 0 .. Len(rules) /\ k # 0
    OBVIOUS
  <2> QED
    BY <2>1 DEF PreparationOf
<1> QED
  BY <1>1, <1>2

LEMMA PreparationPrepares ==
    ASSUME NEW w, NEW rules \in Seq(1 .. 4), Increasing(rules), NEW start,
           NEW n \in Nat, n = Len(rules), Preparing(start, w, {}),
           NEW after, after[0] = start,
           \A k \in 1 .. n :
               Preparing(after[k - 1], w, Done(rules, k - 1))
                   => after[k] = Loop!SetUpRule(after[k - 1], rules[k])
    PROVE  \A k \in 0 .. n : Preparing(after[k], w, Done(rules, k))
<1> DEFINE P(k) == k <= n => Preparing(after[k], w, Done(rules, k))
<1> DEFINE T == {k \in Nat : P(k)}
<1>1. 0 \in T
  <2>1. Done(rules, 0) = {}
    BY DEF Done
  <2>2. P(0)
    BY <2>1
  <2> HIDE DEF P
  <2> QED
    BY <2>2
<1>2. ASSUME NEW k \in T
      PROVE  k + 1 \in T
  <2> SUFFICES ASSUME k + 1 <= n
               PROVE  Preparing(after[k + 1], w, Done(rules, k + 1))
    OBVIOUS
  <2>1. k \in 0 .. n /\ k + 1 \in 1 .. n /\ (k + 1) - 1 = k
    OBVIOUS
  <2>2. PICK r \in 1 .. 4 : r = rules[k + 1]
    BY <2>1
  <2>3. PICK done \in SUBSET (1 .. 4) : done = Done(rules, k)
    BY <2>1, RulesRange
  <2>4. NextRule(rules, k + 1, r)
    BY <2>1, <2>2, RulesAlong
  <2>5. (\A q \in done : q < r) /\ Done(rules, k + 1) = done \cup {r}
    BY <2>1, <2>3, <2>4 DEF NextRule
  <2>6. Preparing(after[k], w, done)
    BY <2>1, <2>3
  <2>7. after[k + 1] = Loop!SetUpRule(after[k], r)
    BY <2>1, <2>2, <2>3, <2>6
  <2>8. PICK v : v = after[k]
    OBVIOUS
  <2>9. Preparing(Loop!SetUpRule(v, r), w, done \cup {r})
    BY <2>5, <2>6, <2>8, SetUpRuleResult
  <2> QED
    BY <2>5, <2>7, <2>8, <2>9
<1>3. T = Nat
  <2> HIDE DEF P
  <2> QED
    BY <1>1, <1>2, NatSetInduction
<1> QED
  BY <1>3

LEMMA PreparationExists ==
    ASSUME NEW w, NEW rules \in Seq(1 .. 4), Increasing(rules), NEW start,
           NEW n \in Nat, n = Len(rules), Preparing(start, w, {})
    PROVE  \E after : PreparationOf(after, rules, start)
<1> DEFINE After(x, k) == Loop!SetUpRule(x, rules[k])
<1> DEFINE step == [k \in 1 .. n |-> [x \in Worlds |-> IF After(x, k) \in Worlds THEN After(x, k) ELSE x]]
<1>1. step \in [1 .. n -> [Worlds -> Worlds]]
  <2> HIDE DEF After
  <2> QED
    OBVIOUS
<1>2. \A k \in 1 .. n : \A x \in Worlds : After(x, k) \in Worlds => step[k][x] = After(x, k)
  <2> HIDE DEF After
  <2> QED
    OBVIOUS
<1>3. start \in Worlds
  BY DEF Preparing, Sound
<1> HIDE DEF step
<1>4. PICK g \in [0 .. n -> Worlds] : g[0] = start /\ \A k \in 1 .. n : g[k] = step[k][g[k - 1]]
  <2>1. \E g \in [0 .. n -> Worlds] : GoesBy(g, n, start, step)
    BY <1>1, <1>3, RecursionOnInterval
  <2> QED
    BY <2>1 DEF GoesBy
<1>5. ASSUME NEW k \in 1 .. n, Preparing(g[k - 1], w, Done(rules, k - 1))
      PROVE  g[k] = After(g[k - 1], k)
  <2>1. k - 1 \in 0 .. n
    OBVIOUS
  <2>2. PICK r \in 1 .. 4, done \in SUBSET (1 .. 4) : r = rules[k] /\ done = Done(rules, k - 1)
    BY <2>1, RulesRange
  <2>3. NextRule(rules, k, r)
    BY <2>2, RulesAlong
  <2>4. \A q \in done : q < r
    BY <2>2, <2>3 DEF NextRule
  <2>5. PICK v : v = g[k - 1] /\ v \in Worlds
    BY <1>4, <2>1
  <2>6. Preparing(Loop!SetUpRule(v, r), w, done \cup {r})
    <3>1. Preparing(v, w, done)
      BY <1>5, <2>2, <2>5
    <3> QED
      BY <2>4, <3>1, SetUpRuleResult
  <2>7. After(v, k) \in Worlds
    BY <2>2, <2>6 DEF Preparing, Sound
  <2>8. g[k] = step[k][v]
    BY <1>4, <2>5
  <2> HIDE DEF After
  <2> QED
    BY <1>2, <2>5, <2>7, <2>8
<1>6. \A k \in 0 .. n : Preparing(g[k], w, Done(rules, k))
  BY <1>4, <1>5, PreparationPrepares
<1>7. g = [k \in 0 .. n |-> IF k = 0 THEN start ELSE After(g[k - 1], k)]
  <2>1. ASSUME NEW k \in 0 .. n
        PROVE  g[k] = IF k = 0 THEN start ELSE After(g[k - 1], k)
    <3>1. CASE k = 0
      BY <1>4, <3>1
    <3>2. CASE k # 0
      <4>1. k \in 1 .. n /\ k - 1 \in 0 .. n
        BY <3>2
      <4>2. g[k] = After(g[k - 1], k)
        BY <1>5, <1>6, <4>1
      <4> QED
        BY <3>2, <4>2
    <3> QED
      BY <3>1, <3>2
  <2> HIDE DEF After
  <2> QED
    BY <2>1
<1> QED
  BY <1>7 DEF PreparationOf

(* With nothing to wait for, nothing can move any more.                     *)
LEMMA ExitResult ==
    ASSUME NEW v, Sound(v), \A r \in 1 .. 4 : Gone(v, r) \/ Idle(v, r),
           NEW u, u = [v EXCEPT !.outcome = "exit"], buffer_size > 0
    PROVE  Sound(u) /\ Onward(u, v) /\ u.rules = v.rules /\ u.asked = v.asked /\ u.served = v.served
<1>1. v \in Worlds
  BY DEF Sound
<1>2. /\ u \in Worlds /\ u.outcome = "exit" /\ u.rules = v.rules /\ u.asked = v.asked
      /\ u.served = v.served
      /\ u.stream = v.stream /\ u.shutdown = v.shutdown /\ u.source = v.source /\ u.sink = v.sink
      /\ u.hungup = v.hungup /\ u.broken = v.broken /\ u.fd = v.fd
  BY <1>1 DEF Worlds
<1>3. SameMatter(u, v)
  BY <1>2 DEF SameMatter
<1>4. \A d \in Directions : Placed(u, d) /\ Bounded(u, d) /\ Truthful(u, d)
  <2>1. \A d \in Directions : Placed(v, d) /\ Bounded(v, d) /\ Truthful(v, d)
    BY DEF Sound
  <2>2. \A d \in Directions : Placed(u, d) /\ Bounded(u, d)
    BY <1>2, <2>1 DEF Placed, Bounded
  <2>3. \A d \in Directions : Truthful(u, d)
    BY <1>2, <2>1 DEF Truthful, EndKnown, Excused
  <2> QED
    BY <2>2, <2>3
<1>5. FdsTruthful(u)
  BY <1>2 DEF Sound, FdsTruthful, EndKnown, Excused
<1>6. \A d \in Directions : Truthful(v, d)
  BY DEF Sound
<1>7. \A d \in Directions : v.sink[d].ended => v.stream[d].queue = <<>>
  BY <1>6 DEF Truthful
<1>8. ASSUME NEW d \in Directions, v.stream[d].queue = <<>>
      PROVE  Len(v.stream[d].queue) < buffer_size
  BY <1>8
<1>9. v.broken = {} =>
          \/ v.hungup
          \/ v.sink["outbound"].ended /\ v.stream["outbound"].queue = <<>>
  <2> SUFFICES ASSUME v.broken = {}, ~v.hungup
               PROVE  v.sink["outbound"].ended /\ v.stream["outbound"].queue = <<>>
    OBVIOUS
  <2>1. FdOf(1) = "input" /\ DirectionOf(1) = "In" /\ StreamOf(1) = "outbound"
    BY RuleTable
  <2>2. FdOf(2) = "socket" /\ DirectionOf(2) = "Out" /\ StreamOf(2) = "outbound" /\ "outbound" \in Directions
    BY RuleTable DEF Directions
  <2>3. CASE Gone(v, 2)
    BY <1>7, <2>2, <2>3 DEF Gone, NobodyReads
  <2>4. CASE Idle(v, 2)
    <3>1. v.stream["outbound"].queue = <<>> /\ (v.stream["outbound"].eof => v.sink["outbound"].ended)
      BY <2>2, <2>4 DEF Idle
    <3>2. v.stream["outbound"].eof
      BY <1>8, <2>1, <2>2, <3>1 DEF Idle, Gone
    <3> QED
      BY <3>1, <3>2
  <2> QED
    BY <2>3, <2>4
<1>10. v.broken = {} => v.sink["inbound"].ended /\ v.stream["inbound"].queue = <<>>
  <2> SUFFICES ASSUME v.broken = {}
               PROVE  v.sink["inbound"].ended /\ v.stream["inbound"].queue = <<>>
    OBVIOUS
  <2>1. FdOf(3) = "socket" /\ DirectionOf(3) = "In" /\ StreamOf(3) = "inbound"
    BY RuleTable
  <2>2. FdOf(4) = "output" /\ DirectionOf(4) = "Out" /\ StreamOf(4) = "inbound" /\ "inbound" \in Directions
    BY RuleTable DEF Directions
  <2>3. CASE Gone(v, 4)
    BY <1>7, <2>2, <2>3 DEF Gone, NobodyReads
  <2>4. CASE Idle(v, 4)
    <3>1. v.stream["inbound"].queue = <<>> /\ (v.stream["inbound"].eof => v.sink["inbound"].ended)
      BY <2>2, <2>4 DEF Idle
    <3>2. v.stream["inbound"].eof
      BY <1>8, <2>1, <2>2, <3>1 DEF Idle, Gone
    <3> QED
      BY <3>1, <3>2
  <2> QED
    BY <2>3, <2>4
<1>11. Outcome(u)
  <2>1. \A d \in Directions :
            \/ u.stream[d].queue = <<>>
            \/ u.broken # {}
            \/ d = "outbound" /\ u.hungup
    BY <1>2, <1>9, <1>10 DEF Directions
  <2>2. u.broken = {} => u.sink["inbound"].ended /\ (u.sink["outbound"].ended \/ u.hungup)
    BY <1>2, <1>9, <1>10
  <2> QED
    BY <1>2, <2>1, <2>2 DEF Outcome
<1> QED
  BY <1>2, <1>3, <1>4, <1>5, <1>11, OnwardSame DEF Sound

LEMMA SetUpResult ==
    ASSUME NEW w, Sound(w), RulesLeft(w), ~w.served, w.outcome = "running", buffer_size > 0,
           NEW u, u = Loop!SetUp(w)
    PROVE  Sound(u) /\ RulesLeft(u) /\ ~u.served /\ \A r \in 1 .. 4 : CanTake(u, r)
<1>1. PICK rules \in Seq(1 .. 4), n \in Nat : rules = w.rules /\ n = Len(rules) /\ Increasing(rules)
  BY LenProperties DEF Sound, Worlds, RulesLeft
<1>2. PICK start : start = Emptied(w, {})
  OBVIOUS
<1>3. /\ Sound(start) /\ SameMatter(start, w) /\ start.outcome = w.outcome
      /\ start.asked = {} /\ start.served = w.served /\ RulesOrdered(start, {})
  BY <1>2, NoRulesYet DEF Fresh
<1>4. Onward(start, w)
  BY <1>3, OnwardSame
<1>5. Preparing(start, w, {})
  BY <1>3, <1>4 DEF Preparing
<1> DEFINE after == CHOOSE g : PreparationOf(g, rules, start)
<1>6. PreparationOf(after, rules, start)
  BY <1>1, <1>5, PreparationExists
<1>7. Loop!SetUp(w) = IF after[n].asked = {} THEN [after[n] EXCEPT !.outcome = "exit"] ELSE after[n]
  BY <1>1, <1>2 DEF Loop!SetUp, PreparationOf, Emptied
<1> HIDE DEF after
<1>8. /\ after[0] = start
      /\ \A k \in 1 .. n : after[k] = Loop!SetUpRule(after[k - 1], rules[k])
  BY <1>1, <1>6, PreparationSteps
<1>9. \A k \in 0 .. n : Preparing(after[k], w, Done(rules, k))
  BY <1>1, <1>5, <1>8, PreparationPrepares
<1>10. PICK v, done : v = after[n] /\ done = Done(rules, n) /\ Preparing(v, w, done)
  BY <1>9
<1>11. /\ Sound(v) /\ Onward(v, w) /\ RulesOrdered(v, done) /\ ~v.served /\ v.asked \in SUBSET done
       /\ \A q \in done : CanTake(v, q) /\ (HasRule(v, q) /\ q \notin v.asked => Idle(v, q))
  BY <1>10 DEF Preparing
<1>12. \A r \in 1 .. 4 : (r \in done /\ HasRule(v, r)) \/ Gone(v, r)
  <2> TAKE r \in 1 .. 4
  <2>1. CASE HasRule(w, r)
    <3>1. r \in done
      BY <1>1, <1>10, <2>1 DEF HasRule, Done
    <3> QED
      BY <1>11, <3>1 DEF RulesOrdered
  <2>2. CASE Gone(w, r)
    BY <1>11, <2>2, StaysGone
  <2> QED
    BY <2>1, <2>2 DEF RulesLeft
<1>13. RulesLeft(v)
  BY <1>11, <1>12 DEF RulesLeft, RulesOrdered
<1>14. \A r \in 1 .. 4 : CanTake(v, r)
  BY <1>11 DEF CanTake
<1>15. CASE v.asked # {}
  BY <1>7, <1>10, <1>11, <1>13, <1>14, <1>15
<1>16. CASE v.asked = {}
  <2>1. u = [v EXCEPT !.outcome = "exit"]
    BY <1>7, <1>10, <1>16
  <2>2. \A r \in 1 .. 4 : Gone(v, r) \/ Idle(v, r)
    BY <1>11, <1>12, <1>16
  <2>3. Sound(u) /\ Onward(u, v) /\ u.rules = v.rules /\ u.asked = v.asked /\ u.served = v.served
    BY <1>11, <2>1, <2>2, ExitResult
  <2>4. \A r \in 1 .. 4 : HasRule(u, r) \/ Gone(u, r)
    BY <1>12, <2>3, StaysGone DEF HasRule
  <2>5. RulesLeft(u)
    BY <1>13, <2>3, <2>4 DEF RulesLeft
  <2>6. \A r \in 1 .. 4 : CanTake(u, r)
    BY <1>16, <2>3 DEF CanTake
  <2> QED
    BY <1>11, <2>3, <2>5, <2>6
<1> QED
  BY <1>15, <1>16

-----------------------------------------------------------------------------
(* What somebody outside the program does.                                  *)
LEMMA OutsideResult ==
    ASSUME NEW v, Sound(v), NEW u, u \in Worlds,
           u.stream = v.stream, u.fd = v.fd, u.shutdown = v.shutdown, u.outcome = v.outcome,
           \A d \in Directions : u.sink[d].ended = v.sink[d].ended,
           \A d \in Directions : Placed(u, d),
           \A d \in Directions : EndKnown(v, d) => EndKnown(u, d),
           v.broken # {} => u.broken # {}, v.hungup => u.hungup
    PROVE  Sound(u) /\ Onward(u, v)
<1>1. \A d \in Directions : Bounded(u, d)
  BY DEF Sound, Bounded
<1>2. \A d \in Directions : Truthful(u, d)
  <2>1. \A d \in Directions : Truthful(v, d)
    BY DEF Sound
  <2> QED
    BY <2>1 DEF Truthful
<1>3. FdsTruthful(u)
  BY DEF Sound, FdsTruthful, Directions
<1>4. Outcome(u)
  <2>1. Outcome(v) /\ "inbound" \in Directions /\ "outbound" \in Directions
    BY DEF Sound, Directions
  <2> QED
    BY <2>1 DEF Outcome, Excused
<1>5. Onward(u, v)
  BY DEF Onward
<1> QED
  BY <1>1, <1>2, <1>3, <1>4, <1>5 DEF Sound

LEMMA OutsideStep ==
    ASSUME NEW v, NEW step, NEW told, Invariant(v, step, told),
           NEW u, Sound(u), Onward(u, v), u.rules = v.rules, u.asked = v.asked,
           u.served = v.served, u.stream = v.stream,
           \A d \in Directions : /\ v.source[d].bytes # <<>> => u.source[d].bytes # <<>>
                                 /\ v.source[d].ended => u.source[d].ended,
           v.broken = {} \/ u.broken = v.broken
    PROVE  Invariant(u, step, told)
<1>1. RulesLeft(u)
  BY StaysGone DEF Invariant, RulesLeft, HasRule
<1>2. \A r \in 1 .. 4 : CanTake(v, r) => CanTake(u, r)
  BY DEF CanTake
<1>3. \A r \in 1 .. 4 : HasRule(u, r) => HasRule(v, r)
  BY DEF HasRule
<1>4. ASSUME NEW r \in 1 .. 4, StillTrue(v, r, told[r])
      PROVE  StillTrue(u, r, told[r])
  BY <1>4, StillTrueLater
<1> QED
  BY <1>1, <1>2, <1>3, <1>4 DEF Invariant

(* A world whose sources, sinks or connections are others.                  *)
WithOutside(v, sources, sinks, hungup, broken) ==
    [v EXCEPT !.source = sources, !.sink = sinks, !.hungup = hungup, !.broken = broken]

IsOutside(u, v, sources, sinks, hungup, broken) ==
    /\ u \in Worlds /\ u.source = sources /\ u.sink = sinks /\ u.hungup = hungup /\ u.broken = broken
    /\ u.stream = v.stream /\ u.fd = v.fd /\ u.shutdown = v.shutdown /\ u.outcome = v.outcome
    /\ u.rules = v.rules /\ u.asked = v.asked /\ u.served = v.served

OutsideTypes(sources, sinks, hungup, broken) ==
    /\ sources \in [Directions -> [bytes : Seq(Nat), written : Nat, ended : BOOLEAN]]
    /\ sinks \in [Directions -> [bytes : Seq(Nat), taken : Nat, ended : BOOLEAN]]
    /\ hungup \in BOOLEAN /\ broken \in SUBSET {"socket", "output"}

LEMMA WithOutsideResult ==
    ASSUME NEW v, v \in Worlds, NEW sources, NEW sinks, NEW hungup, NEW broken,
           OutsideTypes(sources, sinks, hungup, broken)
    PROVE  IsOutside(WithOutside(v, sources, sinks, hungup, broken), v, sources, sinks, hungup, broken)
BY DEF WithOutside, Worlds, IsOutside, OutsideTypes

LEMMA OutsideParts ==
    ASSUME NEW v, v \in Worlds
    PROVE  /\ v.source \in [Directions -> [bytes : Seq(Nat), written : Nat, ended : BOOLEAN]]
           /\ v.sink \in [Directions -> [bytes : Seq(Nat), taken : Nat, ended : BOOLEAN]]
           /\ v.hungup \in BOOLEAN /\ v.broken \in SUBSET {"socket", "output"}
BY DEF Worlds

LEMMA ProduceStep ==
    ASSUME NEW v, NEW step, NEW told, Invariant(v, step, told), NEW d \in Directions,
           ~v.source[d].ended,
           NEW u, u = [v EXCEPT !.source[d].bytes = Append(@, v.source[d].written),
                                !.source[d].written = @ + 1]
    PROVE  Invariant(u, step, told)
<1>1. Sound(v) /\ v \in Worlds /\ \A e \in Directions : Placed(v, e)
  BY DEF Invariant, Sound
<1>2. PICK src : src = v.source[d] /\ src \in [bytes : Seq(Nat), written : Nat, ended : BOOLEAN]
  BY <1>1, OutsideParts
<1>3. PICK b \in Seq(Nat), w \in Nat : b = src.bytes /\ w = src.written
  BY <1>2
<1>4. PICK bw, ww : bw \in Seq(Nat) /\ bw = Append(b, w) /\ bw # <<>> /\ ww \in Nat /\ ww = w + 1
  <2>1. Append(b, w) \in Seq(Nat) /\ Append(b, w) # <<>>
    BY AppendProperties
  <2>2. w + 1 \in Nat
    OBVIOUS
  <2> QED
    BY <2>1, <2>2
<1>5. PICK srcw : srcw = [src EXCEPT !.bytes = bw, !.written = ww]
  OBVIOUS
<1>6. /\ srcw \in [bytes : Seq(Nat), written : Nat, ended : BOOLEAN]
      /\ srcw.bytes = bw /\ srcw.written = ww /\ srcw.ended = src.ended
  BY <1>2, <1>4, <1>5
<1>7. PICK sources : sources = [v.source EXCEPT ![d] = srcw]
  OBVIOUS
<1>8. /\ sources \in [Directions -> [bytes : Seq(Nat), written : Nat, ended : BOOLEAN]]
      /\ sources[d] = srcw /\ \A e \in Directions \ {d} : sources[e] = v.source[e]
  BY <1>1, <1>6, <1>7, Replaced, OutsideParts
<1>9. u = WithOutside(v, sources, v.sink, v.hungup, v.broken)
  <2>1. u = [v EXCEPT !.source = sources]
    <3>1. sources = [v.source EXCEPT ![d].bytes = Append(@, w), ![d].written = @ + 1]
      BY <1>2, <1>3, <1>4, <1>5, <1>7
    <3>2. w = v.source[d].written
      BY <1>2, <1>3
    <3> QED
      BY <3>1, <3>2
  <2>2. [v EXCEPT !.source = sources]
            = [v EXCEPT !.source = sources, !.sink = v.sink, !.hungup = v.hungup, !.broken = v.broken]
    BY <1>1 DEF Worlds
  <2> QED
    BY <2>1, <2>2 DEF WithOutside
<1>10. /\ u \in Worlds /\ u.source = sources /\ u.sink = v.sink /\ u.hungup = v.hungup
       /\ u.broken = v.broken /\ u.stream = v.stream /\ u.fd = v.fd /\ u.shutdown = v.shutdown
       /\ u.outcome = v.outcome /\ u.rules = v.rules /\ u.asked = v.asked /\ u.served = v.served
  <2>1. PICK sinks, hungup, broken :
            /\ sinks = v.sink /\ hungup = v.hungup /\ broken = v.broken
            /\ sinks \in [Directions -> [bytes : Seq(Nat), taken : Nat, ended : BOOLEAN]]
            /\ hungup \in BOOLEAN
            /\ broken \in SUBSET {"socket", "output"}
    BY <1>1, OutsideParts
  <2>2. u = WithOutside(v, sources, sinks, hungup, broken)
    BY <1>9, <2>1
  <2>3. OutsideTypes(sources, sinks, hungup, broken)
    BY <1>8, <2>1 DEF OutsideTypes
  <2>4. IsOutside(u, v, sources, sinks, hungup, broken)
    BY <1>1, <2>2, <2>3, WithOutsideResult
  <2> QED
    BY <2>1, <2>4 DEF IsOutside
<1>11. Placed(u, d)
  <2>1. PICK k \in Seq(Nat), q \in Seq(Nat), t \in Nat :
            k = v.sink[d].bytes /\ q = v.stream[d].queue /\ t = v.sink[d].taken
    BY <1>1, WorldParts, StreamParts
  <2>2. PICK kq \in Seq(Nat) : kq = k \o q
    BY ConcatProperties
  <2>3. t <= w /\ kq \o b = Bytes(t, w - t)
    BY <1>1, <1>2, <1>3, <2>1, <2>2 DEF Placed
  <2>4. kq \o Append(b, w) = Bytes(t, (w + 1) - t)
    BY <2>3, OneMore
  <2>5. t <= ww /\ kq \o bw = Bytes(t, ww - t)
    BY <1>4, <2>3, <2>4
  <2> QED
    BY <1>6, <1>8, <1>10, <2>1, <2>2, <2>5 DEF Placed
<1>12. \A e \in Directions : Placed(u, e)
  BY <1>1, <1>8, <1>10, <1>11 DEF Placed
<1>13. \A e \in Directions : EndKnown(v, e) => EndKnown(u, e)
  BY <1>8, <1>10 DEF EndKnown, Excused
<1>14. Sound(u) /\ Onward(u, v)
  BY <1>1, <1>10, <1>12, <1>13, OutsideResult
<1>15. \A e \in Directions : /\ v.source[e].bytes # <<>> => u.source[e].bytes # <<>>
                             /\ v.source[e].ended => u.source[e].ended
  BY <1>4, <1>6, <1>8, <1>10
<1> QED
  BY <1>10, <1>14, <1>15, OutsideStep

LEMMA ConsumeStep ==
    ASSUME NEW v, NEW step, NEW told, Invariant(v, step, told), NEW d \in Directions,
           v.sink[d].bytes # <<>>,
           NEW u, u = [v EXCEPT !.sink[d].bytes = Tail(@), !.sink[d].taken = @ + 1]
    PROVE  Invariant(u, step, told)
<1>1. Sound(v) /\ v \in Worlds /\ \A e \in Directions : Placed(v, e)
  BY DEF Invariant, Sound
<1>2. PICK snk : snk = v.sink[d] /\ snk \in [bytes : Seq(Nat), taken : Nat, ended : BOOLEAN]
  BY <1>1, OutsideParts
<1>3. PICK k \in Seq(Nat), t \in Nat, q \in Seq(Nat), b \in Seq(Nat), w \in Nat :
          /\ k = snk.bytes /\ t = snk.taken /\ q = v.stream[d].queue
          /\ b = v.source[d].bytes /\ w = v.source[d].written
  BY <1>1, <1>2, WorldParts, StreamParts
<1>4. k # <<>> /\ HoldsFrom(t, w, k, q, b)
  BY <1>1, <1>2, <1>3 DEF Placed, HoldsFrom
<1>5. PICK kt, tt :
          kt \in Seq(Nat) /\ kt = Tail(k) /\ tt \in Nat /\ tt = t + 1 /\ HoldsFrom(tt, w, kt, q, b)
  <2>1. Tail(k) \in Seq(Nat) /\ HoldsFrom(t + 1, w, Tail(k), q, b)
    BY <1>4, OneLess
  <2>2. t + 1 \in Nat
    OBVIOUS
  <2> QED
    BY <2>1, <2>2
<1>6. PICK snkt : snkt = [snk EXCEPT !.bytes = kt, !.taken = tt]
  OBVIOUS
<1>7. /\ snkt \in [bytes : Seq(Nat), taken : Nat, ended : BOOLEAN]
      /\ snkt.bytes = kt /\ snkt.taken = tt /\ snkt.ended = snk.ended
  BY <1>2, <1>5, <1>6
<1>8. PICK sinks : sinks = [v.sink EXCEPT ![d] = snkt]
  OBVIOUS
<1>9. /\ sinks \in [Directions -> [bytes : Seq(Nat), taken : Nat, ended : BOOLEAN]]
      /\ sinks[d] = snkt /\ \A e \in Directions \ {d} : sinks[e] = v.sink[e]
  BY <1>1, <1>7, <1>8, Replaced, OutsideParts
<1>10. u = WithOutside(v, v.source, sinks, v.hungup, v.broken)
  <2>1. u = [v EXCEPT !.sink = sinks]
    <3>1. sinks = [v.sink EXCEPT ![d].bytes = Tail(@), ![d].taken = @ + 1]
      BY <1>2, <1>3, <1>5, <1>6, <1>8
    <3> QED
      BY <3>1
  <2>2. [v EXCEPT !.sink = sinks]
            = [v EXCEPT !.source = v.source, !.sink = sinks, !.hungup = v.hungup, !.broken = v.broken]
    BY <1>1 DEF Worlds
  <2> QED
    BY <2>1, <2>2 DEF WithOutside
<1>11. /\ u \in Worlds /\ u.source = v.source /\ u.sink = sinks /\ u.hungup = v.hungup
       /\ u.broken = v.broken /\ u.stream = v.stream /\ u.fd = v.fd /\ u.shutdown = v.shutdown
       /\ u.outcome = v.outcome /\ u.rules = v.rules /\ u.asked = v.asked /\ u.served = v.served
  <2>1. PICK sources, hungup, broken :
            /\ sources = v.source /\ hungup = v.hungup /\ broken = v.broken
            /\ sources \in [Directions -> [bytes : Seq(Nat), written : Nat, ended : BOOLEAN]]
            /\ hungup \in BOOLEAN
            /\ broken \in SUBSET {"socket", "output"}
    BY <1>1, OutsideParts
  <2>2. u = WithOutside(v, sources, sinks, hungup, broken)
    BY <1>10, <2>1
  <2>3. OutsideTypes(sources, sinks, hungup, broken)
    BY <1>9, <2>1 DEF OutsideTypes
  <2>4. IsOutside(u, v, sources, sinks, hungup, broken)
    BY <1>1, <2>2, <2>3, WithOutsideResult
  <2> QED
    BY <2>1, <2>4 DEF IsOutside
<1>12. Placed(u, d)
  <2>1. /\ u.sink[d].taken = tt /\ u.source[d].written = w
        /\ u.sink[d].bytes = kt /\ u.stream[d].queue = q /\ u.source[d].bytes = b
    BY <1>3, <1>7, <1>9, <1>11
  <2> QED
    BY <1>5, <2>1 DEF Placed, HoldsFrom
<1>13. \A e \in Directions : Placed(u, e)
  <2>1. ASSUME NEW e \in Directions, e # d PROVE Placed(u, e)
    <3>1. u.sink[e] = v.sink[e] /\ u.source[e] = v.source[e] /\ u.stream[e] = v.stream[e]
      BY <1>9, <1>11, <2>1
    <3> QED
      BY <1>1, <3>1 DEF Placed
  <2> QED
    BY <1>12, <2>1
<1>14. \A e \in Directions : EndKnown(v, e) => EndKnown(u, e)
  BY <1>11 DEF EndKnown, Excused
<1>15. \A e \in Directions : u.sink[e].ended = v.sink[e].ended
  BY <1>2, <1>7, <1>9, <1>11
<1>16. Sound(u) /\ Onward(u, v)
  BY <1>1, <1>11, <1>13, <1>14, <1>15, OutsideResult
<1> QED
  BY <1>11, <1>16, OutsideStep

(* A source that comes to its end, by itself or because of a hang-up.       *)
LEMMA EndedStep ==
    ASSUME NEW v, NEW step, NEW told, Invariant(v, step, told), NEW d \in Directions,
           NEW hungup \in BOOLEAN, v.hungup => hungup,
           NEW u, u = [v EXCEPT !.hungup = hungup, !.source[d].ended = TRUE]
    PROVE  Invariant(u, step, told)
<1>1. Sound(v) /\ v \in Worlds /\ \A e \in Directions : Placed(v, e)
  BY DEF Invariant, Sound
<1>2. PICK src : src = v.source[d] /\ src \in [bytes : Seq(Nat), written : Nat, ended : BOOLEAN]
  BY <1>1, OutsideParts
<1>3. PICK srce : srce = [src EXCEPT !.ended = TRUE]
  OBVIOUS
<1>4. /\ srce \in [bytes : Seq(Nat), written : Nat, ended : BOOLEAN]
      /\ srce.bytes = src.bytes /\ srce.written = src.written /\ srce.ended
  BY <1>2, <1>3
<1>5. PICK sources : sources = [v.source EXCEPT ![d] = srce]
  OBVIOUS
<1>6. /\ sources \in [Directions -> [bytes : Seq(Nat), written : Nat, ended : BOOLEAN]]
      /\ sources[d] = srce /\ \A e \in Directions \ {d} : sources[e] = v.source[e]
  BY <1>1, <1>4, <1>5, Replaced, OutsideParts
<1>7. u = WithOutside(v, sources, v.sink, hungup, v.broken)
  <2>1. u = [v EXCEPT !.hungup = hungup, !.source = sources]
    BY <1>2, <1>3, <1>5
  <2>2. [v EXCEPT !.hungup = hungup, !.source = sources]
            = [v EXCEPT !.source = sources, !.sink = v.sink, !.hungup = hungup, !.broken = v.broken]
    BY <1>1 DEF Worlds
  <2> QED
    BY <2>1, <2>2 DEF WithOutside
<1>8. /\ u \in Worlds /\ u.source = sources /\ u.sink = v.sink /\ u.hungup = hungup
      /\ u.broken = v.broken /\ u.stream = v.stream /\ u.fd = v.fd /\ u.shutdown = v.shutdown
      /\ u.outcome = v.outcome /\ u.rules = v.rules /\ u.asked = v.asked /\ u.served = v.served
  <2>1. PICK sinks, broken :
            /\ sinks = v.sink /\ broken = v.broken
            /\ sinks \in [Directions -> [bytes : Seq(Nat), taken : Nat, ended : BOOLEAN]]
            /\ broken \in SUBSET {"socket", "output"}
    BY <1>1, OutsideParts
  <2>2. u = WithOutside(v, sources, sinks, hungup, broken)
    BY <1>7, <2>1
  <2>3. OutsideTypes(sources, sinks, hungup, broken)
    BY <1>6, <2>1 DEF OutsideTypes
  <2>4. IsOutside(u, v, sources, sinks, hungup, broken)
    BY <1>1, <2>2, <2>3, WithOutsideResult
  <2> QED
    BY <2>1, <2>4 DEF IsOutside
<1>9. \A e \in Directions : /\ u.source[e].bytes = v.source[e].bytes
                            /\ u.source[e].written = v.source[e].written
                            /\ v.source[e].ended => u.source[e].ended
  BY <1>2, <1>4, <1>6, <1>8
<1>10. \A e \in Directions : Placed(u, e)
  BY <1>1, <1>8, <1>9 DEF Placed
<1>11. \A e \in Directions : EndKnown(v, e) => EndKnown(u, e)
  BY <1>8, <1>9 DEF EndKnown, Excused
<1>12. Sound(u) /\ Onward(u, v)
  BY <1>1, <1>8, <1>10, <1>11, OutsideResult
<1>13. \A e \in Directions : /\ v.source[e].bytes # <<>> => u.source[e].bytes # <<>>
                             /\ v.source[e].ended => u.source[e].ended
  BY <1>9
<1> QED
  BY <1>8, <1>12, <1>13, OutsideStep

LEMMA BreakStep ==
    ASSUME NEW v, NEW step, NEW told, Invariant(v, step, told), NEW f \in {"socket", "output"},
           v.broken = {}, NEW u, u = [v EXCEPT !.broken = {f}]
    PROVE  Invariant(u, step, told)
<1>1. Sound(v) /\ v \in Worlds /\ \A e \in Directions : Placed(v, e)
  BY DEF Invariant, Sound
<1>2. PICK broken : broken = {f} /\ broken # {} /\ broken \in SUBSET {"socket", "output"}
  OBVIOUS
<1>3. u = WithOutside(v, v.source, v.sink, v.hungup, broken)
  <2>1. u = [v EXCEPT !.broken = broken]
    BY <1>2
  <2>2. [v EXCEPT !.broken = broken]
            = [v EXCEPT !.source = v.source, !.sink = v.sink, !.hungup = v.hungup, !.broken = broken]
    BY <1>1 DEF Worlds
  <2> QED
    BY <2>1, <2>2 DEF WithOutside
<1>4. /\ u \in Worlds /\ u.source = v.source /\ u.sink = v.sink /\ u.hungup = v.hungup
      /\ u.broken = broken /\ u.stream = v.stream /\ u.fd = v.fd /\ u.shutdown = v.shutdown
      /\ u.outcome = v.outcome /\ u.rules = v.rules /\ u.asked = v.asked /\ u.served = v.served
  <2>1. PICK sources, sinks, hungup :
            /\ sources = v.source /\ sinks = v.sink /\ hungup = v.hungup
            /\ sources \in [Directions -> [bytes : Seq(Nat), written : Nat, ended : BOOLEAN]]
            /\ sinks \in [Directions -> [bytes : Seq(Nat), taken : Nat, ended : BOOLEAN]]
            /\ hungup \in BOOLEAN
    BY <1>1, OutsideParts
  <2>2. u = WithOutside(v, sources, sinks, hungup, broken)
    BY <1>3, <2>1
  <2>3. OutsideTypes(sources, sinks, hungup, broken)
    BY <1>2, <2>1 DEF OutsideTypes
  <2>4. IsOutside(u, v, sources, sinks, hungup, broken)
    BY <1>1, <2>2, <2>3, WithOutsideResult
  <2> QED
    BY <2>1, <2>4 DEF IsOutside
<1>5. \A e \in Directions : Placed(u, e)
  BY <1>1, <1>4 DEF Placed
<1>6. \A e \in Directions : EndKnown(v, e) => EndKnown(u, e)
  BY <1>2, <1>4 DEF EndKnown, Excused
<1>7. Sound(u) /\ Onward(u, v)
  BY <1>1, <1>2, <1>4, <1>5, <1>6, OutsideResult
<1> QED
  BY <1>4, <1>7, OutsideStep

(* What poll says of a rule is true when it says it.                        *)
LEMMA PollTells ==
    ASSUME Sound(world), NEW r \in 1 .. 4, NEW e, e = Loop!Revents(world, r, Events(r))
    PROVE  StillTrue(world, r, e)
<1>1. \A x \in e : x \in Events(r)
  BY DEF Loop!Revents
<1>2. "ready" \in e => r \in world.asked
  BY DEF Loop!Revents
<1>3. r \in world.asked => e = Events(r)
  BY DEF Loop!Revents
<1>4. /\ "ready" \in Events(r) <=>
            IF DirectionOf(r) = "In" THEN Readable(FdOf(r), StreamOf(r))
            ELSE Len(world.sink[StreamOf(r)].bytes) < KernelBuffer
      /\ "err" \in Events(r) <=> FdOf(r) \in world.broken
      /\ "hup" \in Events(r) <=>
            IF FdOf(r) = "socket"
            THEN world.source["inbound"].ended /\ (world.sink["outbound"].ended \/ world.hungup)
            ELSE FdOf(r) = "input" /\ world.pipe /\ world.source[StreamOf(r)].ended
  BY DEF Events
<1>5. "ready" \in e /\ DirectionOf(r) = "In" =>
          \/ world.source[StreamOf(r)].bytes # <<>>
          \/ world.source[StreamOf(r)].ended
          \/ FdOf(r) \in world.broken
  BY <1>1, <1>4 DEF Readable
<1>6. "err" \in e => world.broken # {}
  BY <1>1, <1>4
<1>7. ASSUME Loop!HungUp(world, r, e)
      PROVE  MayGo(world, r)
  <2>1. "hup" \in Events(r)
    BY <1>1, <1>7 DEF Loop!HungUp
  <2>2. DirectionOf(r) = "Out" \/ "ready" \notin Events(r)
    BY <1>3, <1>7 DEF Loop!HungUp
  <2>3. r = 1 \/ r = 2 \/ r = 3 \/ r = 4
    BY RuleTable
  <2>4. CASE r = 1
    <3>1. FdOf(r) = "input" /\ DirectionOf(r) = "In" /\ StreamOf(r) = "outbound"
      BY <2>4, RuleTable
    <3>2. world.source["outbound"].ended /\ world.source["outbound"].bytes = <<>>
      BY <1>4, <2>1, <2>2, <3>1 DEF Readable
    <3> QED
      BY <3>1, <3>2 DEF MayGo, EndKnown, NobodyReads
  <2>5. CASE r = 2
    <3>1. FdOf(r) = "socket" /\ DirectionOf(r) = "Out" /\ StreamOf(r) = "outbound"
      BY <2>5, RuleTable
    <3>2. world.sink["outbound"].ended \/ world.hungup
      BY <1>4, <2>1, <3>1
    <3>3. Truthful(world, "outbound")
      BY DEF Sound, Directions
    <3>4. EndKnown(world, "outbound")
      BY <3>2, <3>3 DEF Truthful, EndKnown, Excused
    <3> QED
      BY <2>5, <3>1, <3>2, <3>4 DEF MayGo, NobodyReads
  <2>6. CASE r = 3
    <3>1. FdOf(r) = "socket" /\ DirectionOf(r) = "In" /\ StreamOf(r) = "inbound"
      BY <2>6, RuleTable
    <3>2. world.source["inbound"].ended
      BY <1>4, <2>1, <3>1
    <3> QED
      BY <1>4, <2>2, <3>1, <3>2 DEF Readable
  <2>7. CASE r = 4
    <3>1. FdOf(r) = "output"
      BY <2>7, RuleTable
    <3> QED
      BY <1>4, <2>1, <3>1
  <2> QED
    BY <2>3, <2>4, <2>5, <2>6, <2>7
<1> QED
  BY <1>2, <1>5, <1>6, <1>7 DEF StillTrue

(* The start: all four rules, and nothing has happened.                     *)
LEMMA InitSound ==
    ASSUME CopyAssumption, NEW pipe \in BOOLEAN,
           NEW u, u = [rules |-> <<1, 2, 3, 4>>, asked |-> {}, served |-> FALSE, outcome |-> "running",
                fd |-> [f \in {"input", "socket", "output"} |-> NewFd],
                stream |-> [d \in Directions |-> NewStream(buffer_size)],
                shutdown |-> [d \in Directions |-> FALSE],
                source |-> [d \in Directions |-> [bytes |-> <<>>, written |-> 0, ended |-> FALSE]],
                sink |-> [d \in Directions |-> [bytes |-> <<>>, taken |-> 0, ended |-> FALSE]],
                pipe |-> pipe, hungup |-> FALSE, broken |-> {}]
    PROVE  Sound(u) /\ RulesLeft(u) /\ ~u.served
<1>1. PICK none \in Seq(Nat) : none = <<>> /\ Len(none) = 0
  BY EmptySeq
<1>2. PICK new : new = NewStream(buffer_size) /\ new \in Streams(Nat) /\ new.capacity = buffer_size
                 /\ new.queue = none /\ ~new.eof /\ ~new.error
  <2>1. PICK c \in Nat : c = buffer_size
    BY DEF CopyAssumption
  <2>2. PICK new : new = [capacity |-> c, queue |-> none, popped |-> 0, eof |-> FALSE, error |-> FALSE]
    OBVIOUS
  <2>3. new \in Streams(Nat) /\ new.capacity = c /\ new.queue = none /\ ~new.eof /\ ~new.error
    BY <2>2 DEF Streams
  <2>4. new = NewStream(buffer_size)
    BY <1>1, <2>1, <2>2 DEF NewStream
  <2> QED
    BY <2>1, <2>3, <2>4
<1>3. PICK rules \in Seq(1 .. 4) :
          rules = <<1, 2, 3, 4>> /\ Len(rules) = 4 /\ \A k \in 1 .. 4 : rules[k] = k
  <2>1. PICK s : s = <<1, 2, 3, 4>>
    OBVIOUS
  <2>2. s \in Seq(1 .. 4) /\ Len(s) = 4
    BY <2>1
  <2>3. s[1] = 1 /\ s[2] = 2 /\ s[3] = 3 /\ s[4] = 4
    BY <2>1
  <2>4. \A k \in 1 .. 4 : k = 1 \/ k = 2 \/ k = 3 \/ k = 4
    OBVIOUS
  <2>5. \A k \in 1 .. 4 : s[k] = k
    BY <2>3, <2>4
  <2> QED
    BY <2>1, <2>2, <2>5
<1>4. PICK newfd : newfd = NewFd /\ ~newfd.eof /\ ~newfd.closed
                   /\ newfd \in [eof : BOOLEAN, closed : BOOLEAN, counted : SUBSET {"In", "Out"}]
  <2>1. PICK newfd : newfd = [eof |-> FALSE, closed |-> FALSE, counted |-> {}]
    OBVIOUS
  <2>2. newfd \in [eof : BOOLEAN, closed : BOOLEAN, counted : SUBSET {"In", "Out"}]
    BY <2>1
  <2>3. ~newfd.eof /\ ~newfd.closed
    BY <2>1
  <2> QED
    BY <2>1, <2>2, <2>3 DEF NewFd
<1>5. PICK src : src = [bytes |-> none, written |-> 0, ended |-> FALSE]
  OBVIOUS
<1>6. /\ src \in [bytes : Seq(Nat), written : Nat, ended : BOOLEAN]
      /\ src.bytes = none /\ src.written = 0 /\ ~src.ended
  BY <1>5
<1>7. PICK snk : snk = [bytes |-> none, taken |-> 0, ended |-> FALSE]
  OBVIOUS
<1>8. /\ snk \in [bytes : Seq(Nat), taken : Nat, ended : BOOLEAN]
      /\ snk.bytes = none /\ snk.taken = 0 /\ ~snk.ended
  BY <1>7
<1>9. PICK fds, streams, shutdowns, sources, sinks :
          /\ fds = [f \in Fds |-> newfd]
          /\ streams = [d \in Directions |-> new]
          /\ shutdowns = [d \in Directions |-> FALSE]
          /\ sources = [d \in Directions |-> src]
          /\ sinks = [d \in Directions |-> snk]
  OBVIOUS
<1>10. u = [rules |-> rules, asked |-> {}, served |-> FALSE, outcome |-> "running",
            fd |-> fds, stream |-> streams, shutdown |-> shutdowns, source |-> sources,
            sink |-> sinks, pipe |-> pipe, hungup |-> FALSE, broken |-> {}]
  BY <1>1, <1>2, <1>3, <1>4, <1>5, <1>7, <1>9 DEF Fds
<1>11. /\ fds \in [Fds -> [eof : BOOLEAN, closed : BOOLEAN, counted : SUBSET {"In", "Out"}]]
       /\ streams \in [Directions -> Streams(Nat)] /\ shutdowns \in [Directions -> BOOLEAN]
       /\ sources \in [Directions -> [bytes : Seq(Nat), written : Nat, ended : BOOLEAN]]
       /\ sinks \in [Directions -> [bytes : Seq(Nat), taken : Nat, ended : BOOLEAN]]
  BY <1>2, <1>4, <1>6, <1>8, <1>9
<1>12. u \in Worlds
  BY <1>10, <1>11 DEF Worlds
<1>13. /\ u.rules = rules /\ u.outcome = "running" /\ ~u.served /\ u.fd = fds
       /\ u.stream = streams /\ u.shutdown = shutdowns /\ u.source = sources /\ u.sink = sinks
  BY <1>10
<1>14. ASSUME NEW d \in Directions
       PROVE  Placed(u, d) /\ Bounded(u, d) /\ Truthful(u, d)
  <2>1. /\ u.stream[d] = new /\ ~u.shutdown[d] /\ u.source[d] = src /\ u.sink[d] = snk
    BY <1>9, <1>13
  <2>2. (none \o none) \o none = Bytes(0, 0 - 0)
    <3>1. none \o none = none
      BY <1>1, ConcatEmptySeq
    <3>2. Bytes(0, 0) \in Seq(Nat) /\ Len(Bytes(0, 0)) = 0
      BY BytesAreBytes
    <3>3. Bytes(0, 0) = none
      BY <1>1, <3>2, EmptySeq
    <3> QED
      BY <3>1, <3>3
  <2>3. Placed(u, d)
    <3>1. PICK t \in Nat, w \in Nat : t = u.sink[d].taken /\ w = u.source[d].written /\ t = 0 /\ w = 0
      BY <1>6, <1>8, <2>1
    <3>2. t <= w /\ (none \o none) \o none = Bytes(t, w - t)
      BY <2>2, <3>1
    <3>3. u.sink[d].bytes = none /\ u.stream[d].queue = none /\ u.source[d].bytes = none
      BY <1>2, <1>6, <1>8, <2>1
    <3> QED
      BY <3>1, <3>2, <3>3 DEF Placed
  <2>4. Bounded(u, d)
    BY <1>1, <1>2, <2>1 DEF Bounded, CopyAssumption
  <2>5. Truthful(u, d)
    BY <1>2, <1>8, <2>1 DEF Truthful
  <2> QED
    BY <2>3, <2>4, <2>5
<1>15. FdsTruthful(u)
  BY <1>4, <1>9, <1>13 DEF FdsTruthful, Fds
<1>16. Outcome(u)
  BY <1>13 DEF Outcome
<1>17. Increasing(rules)
  BY <1>3 DEF Increasing
<1>18. \A r \in 1 .. 4 : HasRule(u, r)
  BY <1>3, <1>13 DEF HasRule
<1> QED
  BY <1>12, <1>13, <1>14, <1>15, <1>16, <1>17, <1>18 DEF Sound, RulesLeft

-----------------------------------------------------------------------------
LEMMA IInvInit ==
    ASSUME CopyAssumption, Init
    PROVE  IInv
<1>1. Sound(world) /\ RulesLeft(world) /\ ~world.served
  BY InitSound DEF Init
<1> QED
  BY <1>1 DEF Init, IInv, Invariant

LEMMA IInvNext ==
    ASSUME CopyAssumption, IInv, [Next]_vars
    PROVE  IInv'
<1> USE DEF IInv
<1>1. /\ Invariant(world, pc, revents) /\ Sound(world) /\ RulesLeft(world) /\ ~world.served
      /\ world \in Worlds
  BY DEF Invariant, Sound
<1>2. CASE SetUp
  <2>1. buffer_size > 0
    BY DEF CopyAssumption
  <2>2. PICK u : u = world'
    OBVIOUS
  <2>3. u = Loop!SetUp(world) /\ world.outcome = "running" /\ pc' = "poll"
    BY <1>2, <2>2 DEF SetUp, Running
  <2>4. Sound(u) /\ RulesLeft(u) /\ ~u.served /\ \A r \in 1 .. 4 : CanTake(u, r)
    BY <1>1, <2>1, <2>3, SetUpResult
  <2>5. Invariant(u, "poll", revents')
    BY <2>4 DEF Invariant
  <2> QED
    BY <2>2, <2>3, <2>5
<1>3. CASE Poll
  <2>1. world' = world /\ pc = "poll" /\ pc' = "serve" /\ revents' = Told
    BY <1>3 DEF Poll, CanPoll
  <2>2. PICK told : told = Told
    OBVIOUS
  <2>3. ASSUME NEW r \in 1 .. 4, HasRule(world, r)
        PROVE  StillTrue(world, r, told[r])
    <3>1. r \in Rules
      <4>1. PICK k \in 1 .. Len(world.rules) : world.rules[k] = r
        BY <2>3 DEF HasRule
      <4>2. world.rules \in Seq(1 .. 4)
        BY <1>1, WorldParts
      <4> QED
        BY <4>1, <4>2 DEF Rules
    <3>2. told[r] = Loop!Revents(world, r, Events(r))
      BY <2>2, <3>1 DEF Told
    <3> QED
      BY <1>1, <3>2, PollTells
  <2>4. \A r \in 1 .. 4 : CanTake(world, r)
    BY <1>1, <2>1 DEF Invariant
  <2>5. Invariant(world, "serve", told)
    BY <1>1, <2>3, <2>4 DEF Invariant
  <2> QED
    BY <2>1, <2>2, <2>5
<1>4. CASE Serve
  <2>1. /\ world' = Loop!Serve(world, revents) /\ pc = "serve" /\ pc' = "setup"
        /\ world.outcome = "running"
    BY <1>4 DEF Serve, Running
  <2>2. PICK u, told : u = world' /\ told = revents
    OBVIOUS
  <2>3. /\ \A r \in 1 .. 4 : CanTake(world, r)
        /\ \A r \in 1 .. 4 : HasRule(world, r) => StillTrue(world, r, told[r])
    BY <1>1, <2>1, <2>2 DEF Invariant
  <2>4. /\ Sound(Loop!Serve(world, told)) /\ RulesLeft(Loop!Serve(world, told))
        /\ ~Loop!Serve(world, told).served
    BY <1>1, <2>1, <2>3, ServeResult
  <2>5. Sound(u) /\ RulesLeft(u) /\ ~u.served
    BY <2>1, <2>2, <2>4
  <2>6. Invariant(u, "setup", revents')
    BY <2>5 DEF Invariant
  <2> QED
    BY <2>1, <2>2, <2>6
<1>5. ASSUME NEW d \in Directions, Produce(d) \/ End(d) \/ Consume(d)
      PROVE  IInv'
  <2>1. PICK u, step, told : u = world' /\ step = pc /\ told = revents /\ pc' = pc /\ revents' = revents
    BY <1>5 DEF Produce, End, Consume
  <2>2. Invariant(world, step, told)
    BY <1>1, <2>1
  <2>3. CASE Produce(d)
    <3>1. /\ ~world.source[d].ended
          /\ u = [world EXCEPT !.source[d].bytes = Append(@, world.source[d].written),
                               !.source[d].written = @ + 1]
      BY <2>1, <2>3 DEF Produce
    <3>2. Invariant(u, step, told)
      BY <2>2, <3>1, ProduceStep
    <3> QED
      BY <2>1, <3>2
  <2>4. CASE End(d)
    <3>1. PICK hungup : hungup = world.hungup /\ hungup \in BOOLEAN
      BY <1>1, OutsideParts
    <3>2. u = [world EXCEPT !.hungup = hungup, !.source[d].ended = TRUE]
      BY <1>1, <2>1, <2>4, <3>1 DEF End, Worlds
    <3>3. Invariant(u, step, told)
      BY <2>2, <3>1, <3>2, EndedStep
    <3> QED
      BY <2>1, <3>3
  <2>5. CASE Consume(d)
    <3>1. /\ world.sink[d].bytes # <<>>
          /\ u = [world EXCEPT !.sink[d].bytes = Tail(@), !.sink[d].taken = @ + 1]
      BY <2>1, <2>5 DEF Consume
    <3>2. Invariant(u, step, told)
      BY <2>2, <3>1, ConsumeStep
    <3> QED
      BY <2>1, <3>2
  <2> QED
    BY <1>5, <2>3, <2>4, <2>5
<1>6. CASE HangUp
  <2>1. PICK u, step, told : u = world' /\ step = pc /\ told = revents /\ pc' = pc /\ revents' = revents
    BY <1>6 DEF HangUp
  <2>2. Invariant(world, step, told)
    BY <1>1, <2>1
  <2>3. PICK d \in Directions, hungup \in BOOLEAN : d = "inbound" /\ hungup = TRUE
    BY DEF Directions
  <2>4. u = [world EXCEPT !.hungup = hungup, !.source[d].ended = TRUE]
    BY <1>6, <2>1, <2>3 DEF HangUp
  <2>5. Invariant(u, step, told)
    BY <2>2, <2>3, <2>4, EndedStep
  <2> QED
    BY <2>1, <2>5
<1>7. ASSUME NEW f \in {"socket", "output"}, Break(f)
      PROVE  IInv'
  <2>1. PICK u, step, told : u = world' /\ step = pc /\ told = revents /\ pc' = pc /\ revents' = revents
    BY <1>7 DEF Break
  <2>2. Invariant(world, step, told)
    BY <1>1, <2>1
  <2>3. Invariant(u, step, told)
    BY <1>7, <2>1, <2>2, BreakStep DEF Break
  <2> QED
    BY <2>1, <2>3
<1>8. CASE UNCHANGED vars
  BY <1>1, <1>8 DEF vars
<1> QED
  BY <1>2, <1>3, <1>4, <1>5, <1>6, <1>7, <1>8 DEF Next

LEMMA IInvAlways == ASSUME CopyAssumption PROVE Spec => []IInv
<1>1. Init => IInv
  BY IInvInit
<1>2. IInv /\ [Next]_vars => IInv'
  BY IInvNext
<1> QED
  BY <1>1, <1>2, PTL DEF Spec

(* Whatever the capacity of the streams and of the kernel's buffers, and    *)
(* however much is written: every byte is with its reader, in a kernel      *)
(* buffer or in the program's stream, once and in order. The callbacks of   *)
(* rules 1 and 3 never read more than the stream takes                      *)
(* (bidirectional_stream_copy.cc:35-44, 69-78).                             *)
THEOREM NoByteLost == ASSUME CopyAssumption PROVE Spec => []NothingLost
<1>1. IInv => NothingLost
  BY DEF IInv, Invariant, Sound, Placed, NothingLost
<1> QED
  BY <1>1, IInvAlways, PTL

(* An end is passed on (shutdown, close) only when it has come: everything  *)
(* has been read and written before, unless the socket failed.              *)
THEOREM EndsAreTrue == ASSUME CopyAssumption PROVE Spec => []EndIsTheEnd
<1>1. IInv => EndIsTheEnd
  <2>1. ASSUME NEW d \in Directions, IInv, world.sink[d].ended
        PROVE  /\ world.stream[d].queue = <<>>
               /\ \/ world.broken # {} \/ world.hungup
                  \/ world.source[d].ended /\ world.source[d].bytes = <<>>
    BY <2>1 DEF IInv, Invariant, Sound, Truthful, EndKnown, Excused
  <2> QED
    BY <2>1 DEF EndIsTheEnd
<1> QED
  BY <1>1, IInvAlways, PTL

(* The loop never ends with the exception for busy waiting, dies only of a  *)
(* descriptor that failed, and exits only when nothing can move any more    *)
(* (eventloop.cc:95-96, 173-176).                                           *)
THEOREM LoopEndsWell == ASSUME CopyAssumption PROVE Spec => []EndsWell
<1>1. IInv => EndsWell
  <2>1. ASSUME IInv
        PROVE  EndsWell
    <3>1. Outcome(world) /\ world.outcome \in {"running", "exit", "died"}
      BY <2>1 DEF IInv, Invariant, Sound, Worlds
    <3> QED
      BY <3>1 DEF Outcome, Excused, EndsWell
  <2> QED
    BY <2>1
<1> QED
  BY <1>1, IInvAlways, PTL
=============================================================================

# Verification of the TCP/IP protocol stack

TLA+ modules of the protocol stack in `src/`, `util/` and `apps/`, the TLC
configurations that check them, and proofs for the TLA+ proof system. Paths in
this file are relative to the root of the repository.

## 1. The system

| component | source | state | operations |
|---|---|---|---|
| `ByteStream` | `src/byte_stream.*` | ring buffer, read and write slot, available capacity, bytes pushed and popped, `eof_`, `error_` | `Writer::push`, `close`; `Reader::peek`, `pop`; `set_error`; helper `read` |
| `Wrap32` | `src/wrapping_integers.*` | a 32-bit sequence number | `wrap`, `unwrap`, `+`, `==` |
| `Reassembler` | `src/reassembler.*` | output stream, stored substrings by index, index of the last byte | `insert`, `count_bytes_pending` |
| `TCPSender` | `src/tcp_sender.*` | input stream, next and last acknowledged number, window, outstanding segments, timer, timeout, retransmissions | `push`, `receive`, `tick`, `make_empty_message` |
| `TCPReceiver` | `src/tcp_receiver.*` | reassembler, ISN | `receive`, `send` |
| `TCPPeer` | `util/tcp_peer.hh` | a sender and a receiver, whether a reply is due, whether to linger, two times | `push`, `tick`, `receive`, `active` |
| `TCPSegment` | `util/tcp_segment.*` | the two messages on the wire | `parse`, `serialize` |
| `TCPMinnowSocket` | `util/tcp_minnow_socket*` | a peer, an event loop, a pair of local sockets, a thread, `_abort`, two shutdown flags | `connect`, `listen_and_accept`, `wait_until_closed`, destructor, `_tcp_loop`, three rules |
| `TCPOverIPv4Adapter`, `LossyFdAdapter` | `util/tcp_over_ip.*`, `util/lossy_fd_adapter.hh` | addresses, listening flag; loss rates | filter and unwrap, wrap; drop |
| `EventLoop` | `util/eventloop.*` | rules with interest, callback, cancel and error functions | `add_rule`, `wait_next_event` |
| `NetworkInterface` | `src/network_interface.*` | ARP table, datagrams that wait by next hop, pending requests, datagrams received | `send_datagram`, `recv_frame`, `tick` |
| `Router` | `src/router.*` | routing table, interfaces | `add_route`, `route` |
| `bidirectional_stream_copy` | `apps/` | two streams, two shutdown flags | four rules |
| `FileDescriptor`, `Socket` | `util/file_descriptor.*`, `util/socket.*` | end of file, closed, counts of reads and writes | `read`, `write`, `shutdown`, `close` |
| wire formats, other wrappers, programs | `util/parser.*`, `util/ipv4_*`, `util/ethernet_*`, `util/address.*`, `apps/` | - | parsing, system calls, command lines |

How they interact. The application writes to a local socket; rule 2 of the
event loop of its `TCPMinnowSocket` reads it into the outbound `ByteStream` and
calls `TCPPeer::push`, which has the `TCPSender` make segments. Each goes out
through the adapter as one `TCPSegment` together with what the `TCPReceiver`
has to say. Rule 1 reads a segment from the adapter and gives it to
`TCPPeer::receive`: the receiver unwraps the sequence number and hands the
payload to the `Reassembler`, which writes to the inbound stream; the sender
takes the acknowledgment; then the peer pushes and, if a reply is due and no
segment has carried it, sends an empty one. Rule 3 writes the inbound stream to
the local socket. After each event the loop calls `tick`. Below, the
`NetworkInterface` turns datagrams into frames, asks for Ethernet addresses
with ARP and keeps what waits for an answer; the `Router` moves datagrams
between interfaces.

What is hard here: streams that wrap in a ring and numbers that wrap in a word;
substrings that overlap, repeat and arrive in any order; acknowledgments that
are old, partial or wrong; timers with back-off and probes of a closed window;
loss, duplication and reordering between two peers that close independently,
one of which must linger; mappings, requests and queues that expire on their
own clocks; routes that lead in circles; a thread and its owner that meet in a
pair of sockets either may shut down at any time; an event loop that acts on
what `poll` said while the world goes on, and cancels rules whose streams may
still hold bytes.

What makes each component correct:

* `ByteStream`: a bounded FIFO; its redundant records of how full it is agree.
* `Wrap32`: `unwrap` returns a nearest number, hence inverts `wrap` near the
  checkpoint.
* `Reassembler`: what has arrived within the window is written as soon as
  possible, in order, once, or stored within the capacity; the output is closed
  after the last byte.
* `TCPSender`: what is outstanding is exactly what is unacknowledged, holds the
  bytes that belong there and has a timer; new segments stay in the window; the
  timeout backs off and recovers.
* `TCPReceiver`: bytes land at their place over every wrap; nothing is
  acknowledged that has not arrived; the window's right edge never moves back.
* two `TCPPeer`s: each owner reads what the other wrote; nobody leaves while
  the other still needs it; both streams come through and both sides end.
* `TCPMinnowSocket`: no byte is dropped or repeated between the owner and the
  peer; the thread ends by itself only when both streams have come through, dies
  of nothing but an owner that stops reading or a reset, and can be joined; no
  stranger becomes the other side.
* `EventLoop` and `bidirectional_stream_copy`: a rule is cancelled when, and only
  when, it is of no use; the loop is not ended by its check for busy waiting, does
  not stop early, and ends.
* `NetworkInterface`: a datagram is sent once, to the address its hop announced
  last, or waits for an answer; requests are spaced.
* `Router`: the longest match decides, the TTL falls with every hop, no datagram
  is doubled, and none circles for ever.

## 2. Modules

A class that other classes use is a module of *operators* on a record of its
members (`...Ops`), one operator per method, returning the object after the
call and the messages that it transmitted. A second module makes a state
machine of it together with its environment, one action per call.

| module | models |
|---|---|
| `StreamOps` | a `ByteStream` as its users see it: a record with a queue |
| `ByteStreamSpec` | the abstract FIFO, over `StreamOps` |
| `ByteStream` | the ring buffer of `byte_stream.cc`, slot by slot; refines `ByteStreamSpec` |
| `WrappingIntegers` | `wrap` and `unwrap`, widths as constants |
| `ReassemblerOps`, `Reassembler` | the class, and arrivals and a reader around it |
| `StreamProofs` | the theorems of `Reassembler`, and of `ByteStream` |
| `ReassemblerSpec` | the promise of `reassembler.hh:14-34` over sets of indices; refined by `Reassembler` |
| `TCPMessages` | the two messages |
| `TCPSenderOps`, `TCPSender` | the class, and an application, a peer and a clock around it |
| `TCPSenderProofs` | the theorems of `TCPSender` |
| `TCPReceiverOps`, `TCPReceiver` | the class, and messages of one sender and a reader around it |
| `TCPReceiverProofs` | the theorems of `TCPReceiver` |
| `TCPPeerOps` | the class, over the operators of sender and receiver |
| `TCPConnection` | two peers in their event loops and the network between them |
| `TCPConnectionProofs` | its theorems |
| `FileDescriptorOps` | what a `FileDescriptor` remembers, and `Socket::shutdown` |
| `EventLoopRules`, `EventLoop` | `wait_next_event` over the functions of a program's rules: before `poll`, and after it |
| `StreamCopy` | `bidirectional_stream_copy`, its descriptors and those at their other ends; an instance of `EventLoop` |
| `StreamCopyProofs` | its theorems |
| `TCPOverIPv4Ops` | the adapter: wrapping and filtering |
| `MinnowSocket` | the TCP thread with its peer, adapter and rules, its owner, the other side and strangers; an instance of `EventLoop` |
| `MinnowSocketProofs` | its theorems |
| `NetworkInterfaceOps`, `NetworkInterface` | the class, and an owner, hosts and a clock around it |
| `RouterOps` | the class, over the operators of its interfaces |
| `RouterNetwork` | two routers with their `NetworkInterface`s, hosts, and a link that loses frames |
| `NetworkProofs` | the theorems of `NetworkInterface`, and of `RouterNetwork` |
| `OpsProofs` | what the other proofs need: induction, sums, runs of bytes, streams, what one `insert` does to any intact reassembler, theorems about `wrap` and `unwrap`, and what each method does to any sound sender |
| `MC...` | constants for TLC |

Correspondence. Records have the fields of the classes, without the trailing
underscore. `ByteStream.buf` is the vector; `StreamOps` has the queue that the
refinement maps it to. `Reassembler.pending` is the `multimap` as a sequence in
the order of its keys, equal keys in the order of insertion.
`TCPSenderOps!Segments` yields at once what the loop of `push` sends one by one
(no other call can come between). `TCPPeerOps` keeps, of
`cumulative_time_` and `time_of_last_receipt_`, their difference `idle`, the only
thing `active()` looks at. `NetworkInterfaceOps` has functions for the three
maps. Bytes are their own index in the stream, so that a byte at a wrong place
is told from the right one; datagrams are numbers; addresses model values.

`EventLoop` takes the functions of a program's rules as constants (`Interest`,
`Callback`, `Cancel`, `Error`) and works on that program's state, a record with
the rules that are left, the descriptors and whatever the functions need. A
round is not one step: `SetUp` asks the rules, `Poll` looks at all descriptors
at once, `Serve` cancels and serves rules by what `Poll` saw. `MinnowSocket`
joins the first two (between them nothing can change that only this thread
changes; what the owner does there, `Poll` sees). `FileDescriptorOps.counted`
stands for both counters: only whether a callback has moved them is ever asked.
In `MinnowSocket` and `StreamCopy` the pair of sockets, pipes and the TUN device
are sequences, and `Readable`, `Hangs` and `Events` say what `poll` reports of
them (external to the repository): readable at the end, hung up when both
directions are shut down, broken when an end is closed with bytes unread or the
connection is reset. The conditions the loop is run under by `connect`, by
`listen_and_accept` and by the thread are `Condition`.

Definitions with a comment "Fault:" are plausible mistakes in the definition
below them. No action uses them; each shows, when put in place of that
definition, that some property notices.

## 3. What the runs check

| run | bounds | properties |
|---|---|---|
| `bytestream` | ring of 3, two byte values, strings of 0 to 4, 5 or more bytes pushed in all | `TypeOK`, `RingConsistent`, `ImplementsFifo` |
| `reassembler` | stream of 8, capacity 5, every substring, the end on its last byte or alone, fairness | `TypeOK`, `BytesInPlace`, `ImplementsSpec`, `EventuallyFinished` |
| `sender` | 4 bytes, segments of 2, windows 0, 2, 3, 8, two ISNs, 2 retransmissions in a row | `TimerIffOutstanding`, `SegmentsHoldStream`, `OutstandingIffUnacked`, `ExponentialBackoff`, `DataWithinWindow`, `RetransmitsEarliest` |
| `receiver` | stream of 18 in a sequence space of 16, capacity 5, window at most 4 | five properties |
| `connection` | 2 bytes one way in 2 segments, window 2, two faults, fairness | `StreamsIntact`, `AckedIsReceived`, `NothingLostByLeaving`, `EventuallyDelivered`, `EventuallyBothLeave` |
| `network_interface` | 2 hops, 2 Ethernet addresses, times to live 4 and 2, ticks of 1 and 3, 2 datagrams | `TypeOK`, `WaitsForAnswer`, `RequestsSpaced`, `OnceOrUnanswered`, `SentWhereHeard` |
| `router` | addresses of 3 bits, 2 routes a router, 2 datagrams with TTL 3, times to live 2 and 1, fairness | `OneCopy`, `ForwardedByLongestMatch`, `EventuallyGone` |
| `stream_copy` | 3 bytes each way, streams of 2, kernel buffers of 1, fairness | `NothingLost`, `EndIsTheEnd`, `EndsWell`, `EventuallyEnds` |
| `minnow_socket` | 1 byte from the owner and 2 to it, inbound capacity 2, kernel buffers of 1, one stray datagram, fairness | `NothingLost`, `CleanEnd`, `ThreadSurvives`, `OnlyTheOtherSide`, `JoinReturns` |

Why these bounds. In `bytestream` strings are shorter than, as long as and
longer than the ring, from every slot. A stream longer than the capacity
lets substrings reach over both ends of the window, and two blocks be stored
that a third falls between, bridges or covers. The sender's windows are closed,
smaller than a segment, larger than one and larger than everything; `Isn` 13 of
16 makes the SYN's successors wrap. The receiver sees each number used twice.
In the connection two faults are enough for the losses that need each other
(data and its acknowledgment, a FIN and its retransmission); more than
`MaxInFlight` datagrams on their way to a peer are lost. The two bytes fill the
window, so that the FIN has to wait for room that no segment announces. In
`stream_copy` three bytes are more than a stream holds, so that reading has to
wait for writing, and a kernel buffer of one is full after each write. In
`minnow_socket` two bytes for the owner are more than the pair of sockets holds:
a reset, a shutdown and the end each occur with bytes in the stream, in the
socket and in neither. The routers get their
routes in every order and at any time: two of the same prefix, a default route
against a longer one, one for an interface that does not exist; TTL 3 is used
up by one round in a circle. Bounds on counters that grow for ever are
constants named in the modules (`MaxBytes`, `MaxElapsed`, `MaxRetrans`,
`MaxDatagrams`, `MaxReceived`, `MaxRoutes`, `MaxFaults`, `MaxInFlight`).
`CHECK_DEADLOCK FALSE` stands where the system may really stop: a connection
both of whose sides have ended, a program or a thread that is over.

**Time in `TCPConnection`.** A tick lasts until the retransmission timer or the
linger time runs out; the two clocks are independent. A timer that expires
although something is still on its way, or a linger time that ends before the
other side's timer, counts as a fault: the properties hold for such early
timeouts too, up to `MaxFaults`. Elapsed time below a timeout and the
backed-off timeout are set to one value (`Coarse`); nothing else of the model
reads them. In `MinnowSocket` time passes only while `poll` waits and nothing is
on its way, and lingering counts only behind the end of both streams (a
datagram before that sets it back anyway); datagrams that come early, late or
never are `TCPConnection`'s part.

**Fairness.** `EventuallyFinished` assumes that the substring needed next, as
long as there is room for it, is sent again until it arrives (the sender does
so, `tcp_sender.cc:214-233`) and that the reader reads. The connection assumes
that each event loop serves rules that are ready and ticks an active peer
(`tcp_minnow_socket_impl.hh:22-44`), that the network delivers what it does not
lose, loses only finitely often, and that the owners write, close and read.
`EventuallyGone` assumes that the routers' owner calls `route` and `tick` for
ever and that the link delivers or loses what it holds; hosts may keep silent.
`EventuallyEnds` assumes that the program runs and that what it writes is read,
but not that anybody writes or closes anything: the program ends when both
sides have ended, when the socket hangs up or fails, and when standard output
breaks before rule 4 closes it unaware. `JoinReturns` assumes that the
thread runs and that the other side hears what is sent and its clock goes on;
the owner does nothing but wait for the join, and the other side need not close:
`wait_until_closed` is promised to return only after the end of the inbound
stream (`util/tcp_minnow_socket.hh:24`), the destructor always.
It is weak fairness of each of these actions; `Connect` apart, it is written
with the action's condition in place of `ENABLED`, which TLC would evaluate
again in every state.

### What the code does not do

Three runs state what a document, comment or test says and show a behaviour
that violates it.

* `sender_wrap`: `next_seqno_` is unwrapped with checkpoint 0
  (`tcp_sender.cc:162`), which gives its plain offset from the ISN
  (`wrapping_integers.cc:18-36`). That is right throughout the first cycle of 2^32
  numbers and too low by whole cycles behind it: in a longer stream an ackno of
  what is outstanding is above it, is ignored as one of what was never sent
  (`:166`), and segments stay outstanding although acknowledged (`:179`). All
  other runs of the sender and the connection stay in the first half cycle.
* `connection_retries`: `MAX_RETX_ATTEMPTS` is used nowhere. With two faults the
  last acknowledgment is lost and its sender gone; the other side retransmits
  for ever (`README.md:49`, `util/tcp_config.hh:16`). With at most one fault both
  sides leave (`EventuallyBothLeave`).
* `minnow_reset`: the connection is reset while the owner has two bytes or more
  to come. Rule 3 writes one, as `peek` shows one, then sees the error and shuts
  the socket down for writing, and as bytes are left it stays interested: the
  next write raises SIGPIPE, which ends the program, although the owner reads
  (`tcp_minnow_socket_impl.hh:141-158`). `ThreadSurvives` says that the thread
  dies of nothing else than this and owners that stop reading.

The rest is visible in the source but not in a run. A last substring with
bytes that have all been written before, without the mark, is passed over by
`insert`, and the output stays open (`reassembler.cc:18`); `reassembler.hh:32` says
"The Reassembler should close the stream after writing the last byte", and
`ReassemblerSpec` closes it. The guard `EndAsSent` of `Reassembler!Receive` leaves
this one case out: the stack's own sender puts the FIN on the segment with the
last bytes or sends it alone, and repeats either as it was
(`tcp_sender.cc:102-120`, `:217-231`). A FIN that comes alone does close the
output (`reassembler.cc:8`), in run and theorem. If standard output breaks after
`poll` has looked at it, when nothing is left to write there, rule 4 of
`bidirectional_stream_copy` closes it without noticing
(`bidirectional_stream_copy.cc:111-113`), and the program goes on waiting for
standard input, as after any end of the inbound stream. The destructor of
`TCPMinnowSocket` ends the thread, which sends no RST
(`util/tcp_minnow_socket.hh:34` and `:117` say it does). An owner that closes its
descriptor before the thread is over makes the thread's last `shutdown` throw
(`tcp_minnow_socket_impl.hh:279`): `Finish` has that case. After an error on the
pair of sockets neither side is told. The first segment is sent
without regard to the window (`tcp_sender.cc:47`, `:59`), so `DataWithinWindow`
begins behind it. `route` does not compute the checksum again
(`docs/tcp-end-to-end.md:134` says so); between `NetworkInterface`s that stays
unnoticed, because `IPv4Header::parse` puts the right checksum in place and
`recv_frame` does not ask whether the parser failed. The datagrams of the models
are well-formed, and their checksum is left out.

## 4. What is proved

The provers show these for every value of the constants that the named
assumptions allow.

* **`ByteStream`** (`ByteStreamAssumption`: a capacity, strings of bytes).
  `ByteStreamTypeOK`: no slot index leaves the vector and no unsigned counter
  goes below zero. `ByteStreamConsistent`: the counters, the available capacity
  and the two slots agree. It is inductive only together with `TypeOK`: `%
  Capacity` can be resolved only if the slots are in range.
  `ByteStreamImplementsFifo`: every step of the ring is a step of
  `ByteStreamSpec` or stutters, under the mapping that reads the queue from the
  ring. A push needs that the slots it writes are at least `Buffered` away from
  the read slot, so that `Contents` is extended; a pop, that the rest of
  `Contents` is where it was. Lemmas about `%` within two turns of the ring
  carry both.
* **`WrappingIntegers`** (`WrapAssumption`: any cycle, a word of at least two
  cycles that is a multiple of it). `UnwrapWrap`: `unwrap` inverts `wrap` within
  half a cycle of the checkpoint: the number itself is one of the three
  candidates, the other two are at least half a cycle away. `UnwrapNearest`: for
  any number and any checkpoint, what `unwrap` returns is a number of the word
  that wraps to the same, and none that does is closer to the checkpoint,
  although at both ends of the word a candidate is computed with overflow. Every
  number that wraps to the same is whole cycles away from the candidate in the
  checkpoint's cycle; beyond the two next to it, it is farther by a cycle.
* **`NetworkInterface`** (`InterfaceAssumption`: a request expires before a
  mapping; `EnvironmentAssumption`: ticks are natural numbers).
  `NetworkInterfaceTypeOK`, `DatagramsWait` and `RequestsAreSpaced`, from the
  invariant `IInv`. `RequestsSpaced` compares a request with the last one, but
  a reply erases the pending request, so the invariant needs `Remembered`: a
  hop asked for less than `RequestTTL` ago is still pending with the age of
  that request, or has a mapping no older than it. Since a mapping lives longer
  than a request, `tick` cannot expire it first. `Waiting` needs in addition
  that queues hold numbers of datagrams that were sent.
  `SentOnceOrUnanswered` and `DatagramsGoWhereHeard`, from the stronger `AInv`: a
  pending request is exactly as old as its hop's `asked` says and a mapping
  beside it is no older (`Matching`), so that even the expiry of a mapping, which
  erases the queue of its hop (`network_interface.cc:183`), drops nothing that was
  asked for within `RequestTTL`; and the mapping of a hop is what the hop
  announced last, with the same age (`Agreeing`).

* **`Reassembler`** (`ReassemblerAssumption`: any capacity, stream length and set
  of substrings of that stream, `last` only on one that ends it).
  `ReassemblerTypeOK` and `ReassemblerBytesInPlace`. That the stored bytes fit in
  the capacity does not follow from itself: the invariant `IInv` (`Intact` for
  the class) says that stored substrings are sorted and strictly apart, hold
  the bytes of their places, and lie between the next byte and the end of the
  window, from which their sum is bounded. `insert` clips, puts the substring
  in at `UpperBound`, merges neighbours until none touch (`MergeNext`, one pass
  of the loop) and writes what has become contiguous; `InsertResult`, the main
  lemma, carries `Intact` through each of these and says which indices are held
  afterwards: those held before and those of the substring inside the window.
  `ReassemblerImplementsSpec`: every step is one of `ReassemblerSpec` or
  stutters, whether the end is told with the last byte or alone, before or after
  it. The refinement needs `EndIsKnown` besides: if all bytes are written and the
  last is known to be the last, the output is closed.
* **`TCPReceiver`** (`EnvironmentAssumption`: the announced window and one byte
  more fit in half a cycle, and the stream with its flags in the word; in the
  program a window of 2^16 - 1, a cycle of 2^32, a word of 2^64).
  `ReceiverTypeOK`, `ReceiverReaderGetsStream`, `ReceiverAcksOnlyArrived`,
  `ReceiverArrivedIsHeld`, `ReceiverRightEdgeNeverShrinks`. `IInv` joins `Intact`
  with `Accounted`: an index is held if and only if its sequence number has arrived
  in the window, and the output is closed only if the FIN has. Messages are
  sent from anywhere within half a cycle of the window, so `UnwrapWrap` gives
  back their numbers; `InsertResult` does the rest. Bytes land where they belong
  although numbers have been used before.
* **`TCPSender`** (`EnvironmentAssumption`: types only; hypothesis `ShortStream`:
  the whole stream with SYN and FIN lies within half a cycle of the ISN). The
  hypothesis is what the proof needs, which inverts every `wrap` with `UnwrapWrap`
  from checkpoint 0. It is sufficient, not necessary: the code unwraps `next_seqno_`
  rightly up to a whole cycle, and run `sender_wrap` violates
  `OutstandingIffUnacked` when the numbers have gone round.
  `SenderTimerIffOutstanding`, `SenderSegmentsHoldStream`,
  `SenderOutstandingIffUnacked`, `SenderExponentialBackoff`,
  `SenderDataWithinWindow`, `SenderRetransmitsEarliest`, for any capacity,
  sizes of segments and windows, strings, acknos and ticks. No property is
  inductive alone; `SenderInv` is. Its centre is a `Chain`: numbers `st` such that
  the k-th outstanding segment carries what belongs from `st[k]` to `st[k + 1]`,
  the last of which is the next to be sent; the highest ackno lies in the first
  segment; the FIN is in the last. `push` joins a chain of new segments to it
  (`SegmentsResult`, `ChainJoin`), an ackno drops the segments that end at it or
  before (`UnackedResult`, `ChainDrop`), and the sequence numbers in flight are
  the difference of the ends (`ChainSum`). `FullyAcked` means what it says
  because all numbers are within half a cycle (`AbsFacts`, from `UnwrapWrap`).
* **`TCPConnection`** (`ConnectionAssumption`: types, and that client and server
  are two; hypothesis `ShortStreams`: each stream with SYN and FIN lies within half
  a cycle of its ISN, as the sender needs). `ReadIsWritten`, `AcksAreTrue` and
  `LeavingIsSafe`, for any ISNs, capacities, sizes of segments and windows,
  strings, lengths of the streams, size of the network and number of faults.
  The invariant `Inv` says of each direction that it is a `Flow` from a sender
  to a receiver through two sets of datagrams: the sender is sound
  (`SenderInv`) and the highest ackno it was given is at most what the receiver
  has in order; the receiver's reassembler is `Intact`; what it holds was sent,
  and it knows of an end only if the FIN was sent (`Coupled`); what is on its way
  to it `Fits`, that is, holds the bytes of its place in the stream and no more
  than was sent; what is on its way back `Answers`, that is, acknowledges no more
  than has been received. Sets are enough because nothing depends on the order or the
  number of copies: what fits or answers once does so for ever (`FitsStays`,
  `FlowHears`), which is why loss, duplication and overtaking need no case of their
  own. Every method of the two classes leaves a flow in order (`FlowPush`,
  `FlowTick`, `FlowAck`, `FlowHear`, `FlowRead`, `FlowInput`), and `PeerReceiveResult`
  puts them together as `TCPPeer::receive` does. `LeavingIsSafe` needs one fact
  more, `PushedAll`: a stream that is closed and all sent, but whose FIN is not,
  has something outstanding, so that a peer with nothing in flight has sent its
  FIN; it holds because every write, close and acknowledgment is followed by
  `push`, which sends a lone FIN when nothing is outstanding (a window of 0 counts
  as 1). An empty message sent behind the FIN has an
  index behind the end of the stream, where the reassembler stores it if it has
  room; `Intact` therefore takes the limit of what may be stored as a parameter.
* **`StreamCopy`** (`CopyAssumption`: the stream, the kernel's buffers and what a
  read takes when it is given no room hold at least one byte). `NoByteLost`, `EndsAreTrue`
  and `LoopEndsWell`, for any such sizes and any number of bytes. The invariant
  `IInv` has a part about the world between any two callbacks, `Sound`: each
  direction's bytes are in place (`Placed`) and bounded, what the program
  knows of an end is true and what it passed on it knew (`Truthful`,
  `FdsTruthful`), and an outcome is justified (`Outcome`); a part about the rules,
  `RulesLeft`: a rule is missing only if it is `Gone`, which means that its stream has
  ended and nobody is there to write to; and a part about what is old. A rule that
  was interested still has room for what it reads (`CanTake`), since only that
  rule fills its stream; and what `poll` has said of a rule that is still there is
  `StillTrue`, although sources end, sinks break and other rules are served
  before it is. `CanTake` is what keeps `NothingLost`: a read into a
  stream without room would ask for 16384 bytes and drop them. The exception for busy
  waiting is never raised, because a rule that was called has counted a read or a
  write, or is not interested any more (`poll` may still return for nothing, see
  section 6). `SetUp` and `Serve` go through the rules in a loop: one
  lemma per branch says what one rule does to any sound world (`Fill`, `WriteOne`,
  `Cancel`, failing), `PreparationPrepares` and `RoundServes` carry it over the
  whole round by induction over the rules.
* **`RouterNetwork`** (`NetworkAssumption`: two routers, times to live and a
  number of datagrams that are natural numbers). `NeverDoubled` is `OneCopy` for
  any addresses, routes (wrong and circular ones, and those to an interface that
  `add_route` refuses), ticks and losses. `OneCopy` looks at both routers at once, so
  the invariant `RInv` says what each holds: its `Burden` is the
  number of copies in its received queues, in its waiting queues, on the link to
  it and at its host, and for any number the two burdens add up to at most one, and to
  none if no datagram of that number has been sent. No method raises the weight of what it
  is given: `send_datagram` puts the datagram in a queue or in a frame
  (`SendConserves`), `recv_frame` takes a queue apart into frames
  (`ReceiveConserves`), `tick` only drops (`TickConserves`); what `route` does to
  each datagram is one of these or a drop (`ForwardConserves`), and since it empties the received
  queues first, the induction over what was received (`RouteConserves`) starts with
  exactly the datagrams that it is going to pass on. Only `HostSends` adds a copy, of a
  number that nobody has.
* **`MinnowSocket`** (`SocketAssumption`: types, and that the kernel's buffers and
  what a read takes hold at least one byte; hypothesis `ShortStreams`: what either
  side may write, with SYN and FIN, lies within half a cycle of its ISN).
  `NothingLostHolds`, `CleanEndHolds`, `ThreadSurvivesHolds` and
  `OnlyTheOtherSideHolds`, for any capacities, ISNs, kernel buffers, numbers of bytes
  and of strangers' datagrams. They follow from one invariant, `Inv`
  (`EverythingStands`), which joins what the proofs of `TCPConnection` and of
  `StreamCopy` say of each half:
  * `Connected`: the peer and the other side's are two ends of a connection in
    order, in which `T` and `W` are on their way. How long a stream is, nobody knows
    before it is closed; so the flows of `TCPConnection` are required of every length
    that it may still turn out to have (`Joined`, `WaysOf`). A reset puts an error into
    both streams, after which a peer no longer follows the rules of a connection;
    `Mirrors` keeps a peer beside it as it would be without the error, and only the
    numbers of bytes and the ends are compared. An error is there only if the
    other side or a broken socket caused one.
  * `Conserved`: the pair of sockets holds a run of bytes between the owner and the
    stream, in either direction. `Ends`: an end of a stream, the flag that it was
    shut down, what the descriptor remembers and what the owner has done agree.
    `Adapted`: the adapter still listens or has adopted the other side, and what
    strangers send differs from it in host or port, so that it is dropped.
  * what the rules need: a rule is missing only if it is not needed any more
    (`Steady`: without the third, `PassedOn`), and what `poll` has said of a rule is
    still so when the rule is served (`ToldTruly`), although the owner writes,
    closes or breaks the socket meanwhile and the rules before it have run. `Aside`
    says what the owner and the other side cannot take back.
  * where the thread and the owner are (`Flags`), and that a loop which is over was
    left because the connection was (`Over`), from which `CleanEnd` follows: a peer that
    is inactive without an error has both streams complete, as in `LeavingIsSafe`.

  One lemma per action shows that it keeps the invariant. `ServeResult` and
  `SetUpResult` go through the three rules, one lemma per callback (`ReceiveSegmentResult`,
  `TakeOwnersBytesResult`, `PassByteResult`, `PassEndResult`); a read is bounded by the
  room in the stream, since the interest of its rule and its callback look at
  the same stream with nothing but rule 1 between them.
* **`OpsProofs`.** The library's induction theorems take a predicate as a
  parameter; `NatSetInduction` is about a set of numbers instead, from the
  library's facts about well-founded relations. It gives that functions defined by
  recursion on an interval exist (`RecursionOnInterval`: the loops of `insert`
  and `receive`), that `SumFunctionOnSet`, whatever order its `CHOOSE` takes, has
  a sum from which any element can be taken off (`SumRemove`), that
  differences telescope (`SumTelescopes`), and that copies in several queues add up
  (`SumsOfNaturals`, `SumOfTwo`). `PowersOfTwo` gets 2^(n+1) = 2 * 2^n
  from the number of subsets of a finite set. The loops are therefore recursive
  *functions* in the modules (`UpperBound`, `MergeNext`, `Unacked`, the rounds
  of `EventLoopRules` and `EventLoop`, `BestRoute` and `Route`), not library folds over sequences.

Only model-checked: liveness and everything else that needs fairness
(`EventuallyEnds`, `JoinReturns` and the like); and `ForwardedByLongestMatch` of
`RouterNetwork`, whose reference compares addresses bit by bit over all routes at
once.

## 5. Plan

1. `ByteStream`, `Wrap32`, `Reassembler` with their abstractions: done.
2. `TCPSender`, `TCPReceiver`, and `TCPConnection` as the composition: done.
3. `NetworkInterface`: done.
4. `RouterOps`, `RouterNetwork`, composed with `NetworkInterface`: done.
5. `FileDescriptorOps`, `EventLoop` and, on top of it, `StreamCopy`: done.
6. `TCPOverIPv4Ops`, `MinnowSocket`: done.
7. Proofs: `ByteStream`, `WrappingIntegers`, `Reassembler` with its refinement,
   `TCPSender`, `TCPReceiver`, `NetworkInterface`, `TCPConnection`, `StreamCopy`,
   `OneCopy` of `RouterNetwork`, `MinnowSocket`: done. Left:
   `ForwardedByLongestMatch` of `RouterNetwork`.

## 6. Not modelled

* Byte layouts, checksums as numbers, `Address`, `TunFD` and the other wrappers
  of system calls, command lines, logging, `Ref` and the debug helpers hold no
  protocol state; where one matters to a property it appears as what it does (the
  RST flag of a segment, a frame that does not parse).
* `EventLoop`: rules without a descriptor and `RuleHandle::cancel`, which no
  program of the repository uses; how often `poll` returns for nothing (a
  descriptor that is hung up is reported although no rule asks for it).
* `LossyFdAdapter`: the loss rates. What it drops is `TCPConnection`'s `Lose`.
* `MinnowSocket`: loss and reordering, which `TCPConnection` has; a write to the
  TUN device that fails; the hang-up of the owner's process.
* The window of an acknowledgment that was overtaken by a newer one
  (`tcp_sender.cc:154`): the code promises no order, and no property is stated.
* Datagrams that fail to parse (`network_interface.cc:168`).

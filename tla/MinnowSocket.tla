---------------------------- MODULE MinnowSocket ----------------------------
(***************************************************************************)
(* TCPMinnowSocket (src/util/tcp_minnow_socket_impl.hh): a TCPPeer that a  *)
(* thread of its own drives in an event loop of three rules. The owner has *)
(* one end of a pair of AF_UNIX sockets, the thread the other; the rules   *)
(* carry segments from the network to the TCPPeer, bytes from the owner    *)
(* into the outbound stream, and bytes of the inbound stream to the owner. *)
(*                                                                         *)
(* The thread works in steps between which the owner and the other side of *)
(* the connection go on: it prepares the poll and looks at all             *)
(* descriptors (Poll, Leave, Timeout), then serves one rule (Serve).       *)
(* connect and listen_and_accept run the same loop on the owner's thread.  *)
(* The network neither loses nor reorders datagrams here (TCPConnection    *)
(* has that), but strangers send some. Time is coarse as in TCPConnection  *)
(* and passes while poll waits.                                            *)
(***************************************************************************)
EXTENDS TCPPeerOps, FileDescriptorOps, TCPOverIPv4Ops

CONSTANTS
    SendCapacity, RecvCapacity,   \* of the streams on this side
    LocalIsn, RemoteIsn,
    KernelBuffer,   \* how much the pair of sockets buffers for a reader
    OwnerBytes,     \* bound: bytes the owner writes
    RemoteBytes,    \* how many bytes the other side writes
    MaxStrays       \* bound: datagrams of strangers

ASSUME SocketAssumption ==
    /\ SendCapacity \in Nat /\ RecvCapacity \in Nat
    /\ LocalIsn \in Seqnos /\ RemoteIsn \in Seqnos
    /\ KernelBuffer \in Nat \ {0} /\ kReadBufferSize \in Nat \ {0}
    /\ OwnerBytes \in Nat /\ RemoteBytes \in Nat /\ MaxStrays \in Nat

VARIABLES
    world,     \* what the thread and the kernel keep: rules, FileDescriptors, TCPPeer,
               \* adapter, flags; the datagrams in the TUN device (tun) and those on their
               \* way out (wire), the bytes in the pair of sockets (toThread, toOwner), the
               \* directions the owner has shut down, a descriptor that broke
    pc,        \* the thread: "poll", "serve", "left" (the loop), "ended"
    revents,   \* what poll has returned, by rule
    owner,     \* [phase, written, read, closed, abort]
    remote,    \* the TCPPeer of the other side
    strays

vars == <<world, pc, revents, owner, remote, strays>>

Local   == Address("local", "80")
Remote  == Address("remote", "1024")
Foreign == RemoteBytes   \* a byte that the other side never sends

Init ==
    /\ world = [rules |-> <<1, 2, 3>>, asked |-> {}, served |-> FALSE, outcome |-> "running",
                fd |-> [f \in {"tun", "data"} |-> NewFd],
                peer |-> NewPeer(SendCapacity, RecvCapacity, LocalIsn),
                adapter |-> NewAdapter(Local, Remote, FALSE),
                outbound_shutdown |-> FALSE, inbound_shutdown |-> FALSE,
                tun |-> <<>>, wire |-> <<>>, toThread |-> <<>>, toOwner |-> <<>>,
                ownerShut |-> {}, broken |-> FALSE]
    /\ pc = "poll"
    /\ revents = <<>>
    /\ owner = [phase |-> "new", written |-> 0, read |-> 0, closed |-> FALSE, abort |-> FALSE]
    /\ remote = NewPeer(RemoteBytes, OwnerBytes, RemoteIsn)
    /\ strays = 0

-----------------------------------------------------------------------------
FdOf(r)        == IF r = 1 THEN "tun" ELSE "data"
DirectionOf(r) == IF r = 3 THEN "Out" ELSE "In"

(* Fault: segments are waited for when the connection is over, too.         *)
HearAlways(w) == TRUE

WantsSegments(w) == Active(w.peer)

WantsOwnersBytes(w) ==
    /\ Active(w.peer)
    /\ ~w.outbound_shutdown
    /\ AvailableCapacity(Outbound(w.peer)) > 0

WantsToPassOn(w) ==
    LET inbound == Inbound(w.peer)
    IN  \/ BytesBuffered(inbound) > 0
        \/ (IsFinished(inbound) \/ inbound.error) /\ ~w.inbound_shutdown

Interest(r, w) ==
    CASE r = 1 -> WantsSegments(w) [] r = 2 -> WantsOwnersBytes(w) [] r = 3 -> WantsToPassOn(w)

(* What the TCPPeer transmits goes into a datagram each.                    *)
Transmit(w, result) ==
    [w EXCEPT !.peer = Coarse(result.peer),
              !.wire = @ \o [k \in DOMAIN result.sent |-> WrapTCPInIP(w.adapter, result.sent[k])]]

(* Rule 1.                                                                  *)
ReceiveSegment(w) ==
    LET datagram  == Head(w.tun)
        unwrapped == UnwrapTCPInIP(w.adapter, datagram)
        read      == [w EXCEPT !.tun = Tail(@), !.adapter = unwrapped.adapter,
                               !.fd["tun"] = Read(@, <<datagram>>, FALSE)]
    IN  IF unwrapped.heard THEN Transmit(read, PeerReceive(w.peer, datagram.msg)) ELSE read

(* Rule 2: as much as the outbound stream has room for, and its end.        *)
TakeOwnersBytes(w) ==
    LET data == BytesRead(w.toThread, AvailableCapacity(Outbound(w.peer)))
        fd   == Read(w.fd["data"], data, "Out" \in w.ownerShut)
        full == StreamPush(Outbound(w.peer), data)
        read == [w EXCEPT !.toThread = Drop(@, Len(data)),
                          !.fd["data"] = fd,
                          !.outbound_shutdown = @ \/ fd.eof,
                          !.peer.sender.input = IF fd.eof THEN StreamClose(full) ELSE full]
    IN  Transmit(read, PeerPush(read.peer))

(* Fault: all that is buffered is popped, as if all of it had been written. *)
PassByteDropRest(w) ==
    IF BytesBuffered(Inbound(w.peer)) = 0 THEN w
    ELSE [w EXCEPT !.toOwner = @ \o Take(Inbound(w.peer).queue, 1),
                   !.fd["data"] = Write(@),
                   !.peer.receiver.reassembler.output = StreamPop(@, BytesBuffered(@))]

(* Rule 3: the one byte that peek shows, then the end of the stream.        *)
PassByte(w) ==
    IF BytesBuffered(Inbound(w.peer)) = 0 THEN w
    ELSE [w EXCEPT !.toOwner = @ \o Take(Inbound(w.peer).queue, 1),
                   !.fd["data"] = Write(@),
                   !.peer.receiver.reassembler.output = StreamPop(@, 1)]

PassEnd(w) ==
    IF ~IsFinished(Inbound(w.peer)) /\ ~Inbound(w.peer).error THEN w
    ELSE [w EXCEPT !.fd["data"] = Shutdown(@, {"Out"}), !.inbound_shutdown = TRUE]

(* Reading a broken socket raises an exception that ends the thread, and    *)
(* with it the program; so does SIGPIPE, when a byte is written to a socket *)
(* that nobody reads or that has been shut down.                            *)
Dies(r, w) ==
    \/ r = 2 /\ w.broken /\ w.toThread = <<>>
    \/ /\ r = 3 /\ BytesBuffered(Inbound(w.peer)) > 0
       /\ "In" \in w.ownerShut \/ w.inbound_shutdown

Callback(r, w) ==
    IF Dies(r, w) THEN [w EXCEPT !.outcome = "died"]
    ELSE CASE r = 1 -> ReceiveSegment(w)
           [] r = 2 -> TakeOwnersBytes(w)
           [] r = 3 -> PassEnd(PassByte(w))

Cancel(r, w) ==
    IF r = 2 THEN [w EXCEPT !.peer.sender.input = StreamClose(@), !.outbound_shutdown = TRUE] ELSE w

Error(r, w) ==
    CASE r = 1 -> w
      [] r = 2 -> [w EXCEPT !.peer.sender.input = StreamSetError(@)]
      [] r = 3 -> [w EXCEPT !.peer.receiver.reassembler.output = StreamSetError(@)]

Rules == INSTANCE EventLoopRules
Loop  == INSTANCE EventLoop
-----------------------------------------------------------------------------
(* The state of the descriptors as poll sees it. A socket hangs up when     *)
(* both of its directions are shut down, and is readable at its end. If the *)
(* owner closes its end with bytes unread, the other end is broken.         *)
Readable(r) ==
    CASE r = 1 -> world.tun # <<>>
      [] r = 2 -> world.toThread # <<>> \/ "Out" \in world.ownerShut
      [] r = 3 -> Len(world.toOwner) < KernelBuffer

Hangs ==
    /\ "Out" \in world.ownerShut
    /\ "In" \in world.ownerShut \/ world.inbound_shutdown

Events(r) ==
    {e \in {"ready", "hup", "err"} :
        CASE e = "ready" -> Readable(r)
          [] e = "hup"   -> r # 1 /\ Hangs
          [] e = "err"   -> r # 1 /\ world.broken}

(* Whether _tcp_loop goes on: connect waits until the SYN is acknowledged,  *)
(* listen_and_accept for a SYN and the acknowledgment of its own.           *)
Condition ==
    LET in_flight == SequenceNumbersInFlight(world.peer.sender)
    IN  CASE owner.phase = "connecting" -> in_flight = 1
          [] owner.phase = "listening"  -> ~world.peer.receiver.isn_set \/ in_flight > 0
          [] OTHER -> TRUE

Running   == world.outcome = "running"
Looping   == pc = "poll" /\ Running /\ owner.phase # "new"
Prepared  == Rules!SetUp(world)
MustLeave == ~Condition \/ Prepared.outcome = "exit"
Told ==
    LET prepared == Prepared
    IN  [r \in Range(prepared.rules) |-> Rules!Revents(prepared, r, Events(r))]

Quiet   == LET told == Told IN \A r \in DOMAIN told : told[r] = {}
CanPoll == Looping /\ ~MustLeave /\ ~Quiet

Leave ==
    /\ Looping /\ MustLeave
    /\ world' = IF Condition THEN [Prepared EXCEPT !.outcome = "running"] ELSE world
    /\ pc' = "left"
    /\ UNCHANGED <<revents, owner, remote, strays>>

Poll ==
    /\ CanPoll
    /\ world' = Prepared
    /\ revents' = Told
    /\ pc' = "serve"
    /\ UNCHANGED <<owner, remote, strays>>

Serve ==
    /\ pc = "serve" /\ Running
    /\ world' = Loop!Serve(world, revents)
    /\ revents' = <<>>
    /\ pc' = IF owner.abort THEN "left" ELSE "poll"
    /\ UNCHANGED <<owner, remote, strays>>

(* Time passes while nothing is on its way: until a retransmission timer    *)
(* expires, or else until a peer has lingered (before both streams have     *)
(* finished, how long a peer has heard nothing makes no difference).        *)
CanTick(p, other) ==
    /\ Active(p)
    /\ world.tun = <<>> /\ world.wire = <<>>
    /\ \/ p.sender.timer_running
       \/ /\ ~SenderActive(p) /\ ~ReceiverActive(p) /\ Lingering(p)
          /\ ~(other.sender.timer_running /\ Active(other))

TickTime(p) == IF p.sender.timer_running THEN InitialRTO ELSE LINGER * InitialRTO

CanTimeOut ==
    /\ Looping
    /\ owner.abort \/ CanTick(world.peer, remote)
    /\ ~MustLeave /\ Quiet

(* Poll returns without events, and the TCPPeer learns that time has passed. *)
Timeout ==
    /\ CanTimeOut
    /\ LET waited == [Prepared EXCEPT !.asked = {}]
       IN  IF owner.abort THEN pc' = "left" /\ world' = waited
           ELSE /\ world' = Transmit(waited, PeerTick(world.peer, TickTime(world.peer)))
                /\ UNCHANGED pc
    /\ UNCHANGED <<revents, owner, remote, strays>>

(* connect or listen_and_accept returns, and a thread of its own goes on.   *)
Opening == owner.phase \in {"connecting", "listening"}

Opened ==
    /\ pc = "left" /\ Opening
    /\ owner' = [owner EXCEPT !.phase = "using"]
    /\ pc' = "poll"
    /\ UNCHANGED <<world, revents, remote, strays>>

(* The end of _tcp_main: the thread shuts down the owner's end, which is an *)
(* exception if the owner has closed it.                                    *)
Finish ==
    /\ pc = "left" /\ Running /\ ~Opening
    /\ world' = IF owner.closed THEN [world EXCEPT !.outcome = "died"]
                ELSE [world EXCEPT !.ownerShut = {"In", "Out"}]
    /\ pc' = "ended"
    /\ UNCHANGED <<revents, owner, remote, strays>>

-----------------------------------------------------------------------------
(* The owner.                                                               *)
Connect ==
    /\ owner.phase = "new"
    /\ owner' = [owner EXCEPT !.phase = "connecting"]
    /\ world' = Transmit(world, PeerPush(world.peer))
    /\ UNCHANGED <<pc, revents, remote, strays>>

Listen ==
    /\ owner.phase = "new"
    /\ owner' = [owner EXCEPT !.phase = "listening"]
    /\ world' = [world EXCEPT !.adapter = NewAdapter(Address(AnyHost, Local.port),
                                                     Address(AnyHost, "0"), TRUE)]
    /\ UNCHANGED <<pc, revents, remote, strays>>

CanUse == owner.phase = "using" /\ ~owner.closed /\ Running

OwnerWrites ==
    /\ CanUse /\ "Out" \notin world.ownerShut
    /\ owner.written < OwnerBytes /\ Len(world.toThread) < KernelBuffer
    /\ world' = [world EXCEPT !.toThread = Append(@, owner.written)]
    /\ owner' = [owner EXCEPT !.written = @ + 1]
    /\ UNCHANGED <<pc, revents, remote, strays>>

OwnerReads ==
    /\ CanUse /\ world.toOwner # <<>>
    /\ world' = [world EXCEPT !.toOwner = Tail(@)]
    /\ owner' = [owner EXCEPT !.read = @ + 1]
    /\ UNCHANGED <<pc, revents, remote, strays>>

OwnerEndsWriting ==
    /\ CanUse /\ "Out" \notin world.ownerShut
    /\ world' = [world EXCEPT !.ownerShut = @ \cup {"Out"}]
    /\ UNCHANGED <<pc, revents, owner, remote, strays>>

OwnerCloses ==
    /\ CanUse
    /\ world' = [world EXCEPT !.ownerShut = {"In", "Out"}, !.broken = world.toOwner # <<>>]
    /\ owner' = [owner EXCEPT !.closed = TRUE]
    /\ UNCHANGED <<pc, revents, remote, strays>>

WaitUntilClosed ==
    /\ CanUse
    /\ world' = [world EXCEPT !.ownerShut = {"In", "Out"}]
    /\ owner' = [owner EXCEPT !.phase = "waiting"]
    /\ UNCHANGED <<pc, revents, remote, strays>>

(* The destructor.                                                          *)
Destroy ==
    /\ owner.phase = "using" /\ Running
    /\ owner' = [owner EXCEPT !.phase = "destroying", !.abort = TRUE]
    /\ UNCHANGED <<world, pc, revents, remote, strays>>

Join ==
    /\ owner.phase \in {"waiting", "destroying"} /\ pc = "ended" /\ Running
    /\ owner' = [owner EXCEPT !.phase = "done"]
    /\ UNCHANGED <<world, pc, revents, remote, strays>>

-----------------------------------------------------------------------------
(* The other side of the connection: a TCPPeer whose owner reads at once.   *)
Datagrams(from, messages) ==
    [k \in DOMAIN messages |-> [src |-> from, dst |-> Local, msg |-> messages[k]]]

RemoteStep(result, wire) ==
    LET inbound == Inbound(result.peer)
    IN  /\ remote' = [Coarse(result.peer) EXCEPT
                          !.receiver.reassembler.output = StreamPop(@, BytesBuffered(inbound))]
        /\ world' = [world EXCEPT !.wire = wire, !.tun = @ \o Datagrams(Remote, result.sent)]
        /\ UNCHANGED <<pc, revents, owner, strays>>

RemoteConnects ==
    /\ owner.phase = "listening" /\ ~remote.sender.sender_syn
    /\ RemoteStep(PeerPush(remote), world.wire)

RemoteCanWrite ==
    /\ remote.sender.sender_syn /\ remote.sender.last_ackno # remote.sender.isn
    /\ Active(remote) /\ ~IsClosed(Outbound(remote))

RemoteWrites ==
    /\ RemoteCanWrite /\ BytesPushed(Outbound(remote)) = 0
    /\ RemoteStep(PeerPush([remote EXCEPT !.sender.input = StreamPush(@, Bytes(0, RemoteBytes))]),
                  world.wire)

RemoteCloses ==
    /\ RemoteCanWrite
    /\ RemoteStep(PeerPush([remote EXCEPT !.sender.input = StreamClose(@)]), world.wire)

RemoteResets ==
    /\ RemoteCanWrite
    /\ RemoteStep(PeerPush([remote EXCEPT !.sender.input = StreamSetError(@)]), world.wire)

RemoteHears ==
    /\ world.wire # <<>>
    /\ RemoteStep(IF Head(world.wire).dst = Remote THEN PeerReceive(remote, Head(world.wire).msg)
                  ELSE PeerResult(remote, <<>>),
                  Tail(world.wire))

RemoteTicks ==
    /\ CanTick(remote, world.peer)
    /\ RemoteStep(PeerTick(remote, TickTime(remote)), world.wire)

(* A datagram that has nothing to do with the connection, although one of   *)
(* the addresses or ports is right: bytes and a FIN of another host, and a  *)
(* reset from another port of the same host.                                *)
Strays ==
    LET message(payload, rst) ==
            Segment(SenderMessage(Wrap(1, RemoteIsn), FALSE, payload, ~rst, rst),
                    ReceiverMessage(NoAckno, 1, FALSE))
    IN  Datagrams(Address("stranger", Remote.port), <<message(<<Foreign>>, FALSE)>>)
            \o Datagrams(Address(Remote.host, "2048"), <<message(<<>>, TRUE)>>)

StrangerSends ==
    /\ strays < MaxStrays /\ strays' = strays + 1
    /\ owner.phase # "new" /\ world.tun = <<>>
    /\ \E k \in DOMAIN Strays : world' = [world EXCEPT !.tun = <<Strays[k]>>]
    /\ UNCHANGED <<pc, revents, owner, remote>>

-----------------------------------------------------------------------------
Program == Leave \/ Poll \/ Serve \/ Timeout \/ Opened \/ Finish

Owner ==
    \/ Connect \/ Listen \/ OwnerWrites \/ OwnerReads \/ OwnerEndsWriting
    \/ OwnerCloses \/ WaitUntilClosed \/ Destroy \/ Join

OtherSide ==
    \/ RemoteConnects \/ RemoteWrites \/ RemoteCloses \/ RemoteResets \/ RemoteHears \/ RemoteTicks

Next == Program \/ Owner \/ OtherSide \/ StrangerSends

Spec == Init /\ [][Next]_vars

(* The thread runs, and its owner waits for it to end; the other side hears *)
(* what it is sent and its clock goes on. Nobody has to write, read, close  *)
(* or connect. The condition beside an action stands for ENABLED.           *)
Fairness ==
    /\ []<>(~(Looping /\ MustLeave)) \/ []<><<Leave>>_vars
    /\ []<>(~CanPoll) \/ []<><<Poll>>_vars
    /\ []<>(~(pc = "serve" /\ Running)) \/ []<><<Serve>>_vars
    /\ []<>(~CanTimeOut) \/ []<><<Timeout>>_vars
    /\ []<>(pc # "left") \/ []<><<Opened \/ Finish>>_vars
    /\ WF_vars(Join)
    /\ []<>(world.wire = <<>>) \/ []<><<RemoteHears>>_vars
    /\ []<>(~CanTick(remote, world.peer)) \/ []<><<RemoteTicks>>_vars

FairSpec == Spec /\ Fairness

-----------------------------------------------------------------------------
OwnerStoppedReading == owner.closed \/ owner.phase \in {"waiting", "done"}

(* Between the pair of sockets and the streams of the TCPPeer no byte is    *)
(* dropped, repeated or moved, in either direction: whatever the rules and  *)
(* the owner do in between, what the owner wrote is in the socket or was    *)
(* pushed, and what was reassembled is buffered, in the socket or read.     *)
NothingLost ==
    LET outbound == Outbound(world.peer)
        inbound  == Inbound(world.peer)
    IN  /\ outbound.queue \o world.toThread
               = Bytes(outbound.popped, owner.written - outbound.popped)
        /\ world.toOwner \o inbound.queue
               = Bytes(owner.read, BytesPushed(inbound) - owner.read)

(* If the thread ends of its own accord and without an error, all that the  *)
(* owner wrote has arrived, with its end; so has all that the other side    *)
(* wrote, and unless the owner has stopped reading it has been passed on.   *)
CleanEnd ==
    pc = "ended" /\ Running /\ ~owner.abort /\ ~HasErrors(world.peer) =>
        /\ IsClosed(Inbound(remote)) /\ BytesPushed(Inbound(remote)) = owner.written
        /\ IsClosed(Inbound(world.peer)) /\ BytesPushed(Inbound(world.peer)) = BytesPushed(Outbound(remote))
        /\ OwnerStoppedReading \/ Inbound(world.peer).queue = <<>>

(* The exception for busy waiting is never raised, and the program dies of  *)
(* nothing but an owner that stops reading before the end (what it shuts    *)
(* down the thread may be about to write to) or a reset.                    *)
ThreadSurvives ==
    /\ world.outcome # "busy"
    /\ world.outcome = "died" => OwnerStoppedReading \/ Inbound(world.peer).error

(* An owner that reads to the end has nothing to fear: the thread pops what *)
(* was written and keeps the rest for later.                                *)
(*   tcp_minnow_socket_impl.hh:141 "Write from the inbound_stream into the  *)
(*   pipe, handling the possibility of a partial write (i.e., only pop what *)
(*   was actually written)."                                                *)
SurvivesIfRead == world.outcome = "died" => OwnerStoppedReading

(* Strangers neither become the other side nor reset the connection nor end *)
(* a stream, although their datagrams share a host or a port with it.       *)
OnlyTheOtherSide ==
    /\ world.adapter.listening \/ world.adapter.destination = Remote
    /\ HasErrors(world.peer) => Outbound(remote).error \/ world.broken
    /\ IsClosed(Inbound(world.peer)) => IsClosed(Outbound(remote))

(* wait_until_closed returns once the end of the inbound stream has been    *)
(* passed on ("Calling this function is only advisable if the socket has    *)
(* reached EOF", tcp_minnow_socket.hh:24), and the destructor always does,  *)
(* whatever the connection is doing.                                        *)
JoinReturns ==
    \/ owner.phase = "waiting" /\ world.inbound_shutdown
    \/ owner.phase = "destroying"
    ~> owner.phase = "done" \/ ~Running
=============================================================================

----------------------------- MODULE StreamCopy -----------------------------
(***************************************************************************)
(* bidirectional_stream_copy (src/apps/bidirectional_stream_copy.cc): an   *)
(* event loop with four rules that copies standard input to a socket and   *)
(* the socket to standard output, through two ByteStreams. Around it are   *)
(* the kernel's buffers, and those who write and read their other ends.    *)
(*                                                                         *)
(* A round of wait_next_event is three steps: SetUp, Poll, which waits and *)
(* then looks at all descriptors, and Serve. What happens in between, the  *)
(* program learns in the next round. Bytes are numbered in the order they  *)
(* are written.                                                            *)
(***************************************************************************)
EXTENDS FileDescriptorOps, TLC

CONSTANTS
    buffer_size,    \* the capacity of both streams
    KernelBuffer,   \* how much the kernel buffers for a reader
    MaxBytes        \* bound: bytes written into either direction

ASSUME CopyAssumption ==
    buffer_size \in Nat \ {0} /\ KernelBuffer \in Nat \ {0} /\ kReadBufferSize \in Nat \ {0}

VARIABLES
    world,     \* the program: rules, FileDescriptors, streams, the two shutdown flags;
               \* and the kernel: sources, sinks, whether standard input is a pipe, whether
               \* the socket is hung up, which descriptors are broken
    pc,        \* the step wait_next_event is at
    revents    \* what poll has returned, by rule

vars == <<world, pc, revents>>

Directions == {"outbound", "inbound"}

(* Rules 1 to 4.                                                            *)
FdOf(r)        == <<"input", "socket", "socket", "output">>[r]
DirectionOf(r) == <<"In", "Out", "In", "Out">>[r]
StreamOf(r)    == <<"outbound", "outbound", "inbound", "inbound">>[r]

Init ==
    /\ \E pipe \in BOOLEAN :
       world = [rules |-> <<1, 2, 3, 4>>, asked |-> {}, served |-> FALSE, outcome |-> "running",
                fd |-> [f \in {"input", "socket", "output"} |-> NewFd],
                stream |-> [d \in Directions |-> NewStream(buffer_size)],
                shutdown |-> [d \in Directions |-> FALSE],
                source |-> [d \in Directions |-> [bytes |-> <<>>, written |-> 0, ended |-> FALSE]],
                sink |-> [d \in Directions |-> [bytes |-> <<>>, taken |-> 0, ended |-> FALSE]],
                pipe |-> pipe, hungup |-> FALSE, broken |-> {}]
    /\ pc = "setup"
    /\ revents = <<>>

(* Fault: capacity is left out of the interest in reading.                  *)
WantsAnyBytes(d, w) == ~w.stream[d].error /\ ~IsClosed(w.stream[d])

WantsToRead(d, w) ==
    /\ \A e \in Directions : ~w.stream[e].error
    /\ AvailableCapacity(w.stream[d]) > 0
    /\ ~IsClosed(w.stream[d])

(* Fault: only bytes are written, an end that comes without any is not.     *)
WantsBytesOnly(d, w) == BytesBuffered(w.stream[d]) > 0

WantsToWrite(d, w) ==
    \/ BytesBuffered(w.stream[d]) > 0
    \/ IsFinished(w.stream[d]) /\ ~w.shutdown[d]

Interest(r, w) ==
    IF DirectionOf(r) = "In" THEN WantsToRead(StreamOf(r), w) ELSE WantsToWrite(StreamOf(r), w)

(* To read or to write a descriptor that is of no use any more raises an    *)
(* exception or a signal; rules 2 and 4, which write only what is buffered, *)
(* may still shut it down or close it.                                      *)
Dies(r, w) ==
    /\ FdOf(r) \in w.broken \/ (r = 2 /\ w.hungup)
    /\ DirectionOf(r) = "Out" => BytesBuffered(w.stream[StreamOf(r)]) > 0

(* Rules 1 and 3: read as much as the stream has room for.                  *)
Fill(r, w) ==
    LET d    == StreamOf(r)
        data == BytesRead(w.source[d].bytes, AvailableCapacity(w.stream[d]))
        fd   == Read(w.fd[FdOf(r)], data, w.source[d].ended)
        full == StreamPush(w.stream[d], data)
    IN  [w EXCEPT !.source[d].bytes = Drop(@, Len(data)),
                  !.fd[FdOf(r)] = fd,
                  !.stream[d] = IF fd.eof THEN StreamClose(full) ELSE full]

(* Rules 2 and 4: write the one byte that peek() shows, then pass on the    *)
(* end of the stream.                                                       *)
WriteOne(r, w) ==
    LET d == StreamOf(r)
    IN  IF BytesBuffered(w.stream[d]) = 0 THEN w
        ELSE [w EXCEPT !.sink[d].bytes = @ \o Take(w.stream[d].queue, 1),
                       !.fd[FdOf(r)] = Write(@),
                       !.stream[d] = StreamPop(@, 1)]

PassOnEnd(r, w) ==
    LET d == StreamOf(r)
    IN  IF ~IsFinished(w.stream[d]) THEN w
        ELSE [w EXCEPT !.sink[d].ended = TRUE,
                       !.shutdown[d] = TRUE,
                       !.fd[FdOf(r)] = IF r = 2 THEN Shutdown(@, {"Out"}) ELSE Close(@)]

Callback(r, w) ==
    IF Dies(r, w) THEN [w EXCEPT !.outcome = "died"]
    ELSE IF DirectionOf(r) = "In" THEN Fill(r, w)
    ELSE PassOnEnd(r, WriteOne(r, w))

(* Fault: a rule that is cancelled leaves its stream open.                  *)
CancelRuleOnly(r, w) == w

Cancel(r, w) == [w EXCEPT !.stream[StreamOf(r)] = StreamClose(@)]

Error(r, w) == [w EXCEPT !.stream = [d \in Directions |-> StreamSetError(@[d])]]

Loop == INSTANCE EventLoop

-----------------------------------------------------------------------------
(* The state of a descriptor as poll sees it. A pipe whose writer is gone   *)
(* hangs up, and is not readable once it is empty; a socket is hung up when *)
(* both directions are closed, and always readable at its end.              *)
Readable(f, d) ==
    \/ world.source[d].bytes # <<>>
    \/ f = "socket" /\ f \in world.broken
    \/ world.source[d].ended /\ ~(f = "input" /\ world.pipe)

Events(r) ==
    LET f == FdOf(r)
        d == StreamOf(r)
        ready == IF DirectionOf(r) = "In" THEN Readable(f, d)
                 ELSE Len(world.sink[d].bytes) < KernelBuffer
        hup == IF f = "socket" THEN world.source["inbound"].ended
                                    /\ (world.sink["outbound"].ended \/ world.hungup)
               ELSE f = "input" /\ world.pipe /\ world.source[d].ended
    IN  {e \in {"ready", "hup", "err"} :
            CASE e = "ready" -> ready [] e = "hup" -> hup [] e = "err" -> f \in world.broken}

Rules == {world.rules[k] : k \in DOMAIN world.rules}

Running == world.outcome = "running"

SetUp ==
    /\ pc = "setup" /\ Running
    /\ world' = Loop!SetUp(world)
    /\ pc' = "poll"
    /\ UNCHANGED revents

(* Without a timeout poll returns only when there is something to tell.     *)
Told == [r \in Rules |-> Loop!Revents(world, r, Events(r))]

CanPoll == pc = "poll" /\ Running /\ \E r \in Rules : Told[r] # {}

Poll ==
    /\ CanPoll
    /\ revents' = Told
    /\ pc' = "serve"
    /\ UNCHANGED world

Serve ==
    /\ pc = "serve" /\ Running
    /\ world' = Loop!Serve(world, revents)
    /\ pc' = "setup"
    /\ revents' = <<>>

(* The others: someone writes to standard input or the other end of the     *)
(* socket, and closes it; someone reads what comes out.                     *)
Produce(d) ==
    /\ ~world.source[d].ended
    /\ world.source[d].written < MaxBytes
    /\ Len(world.source[d].bytes) < KernelBuffer
    /\ world' = [world EXCEPT !.source[d].bytes = Append(@, world.source[d].written),
                              !.source[d].written = @ + 1]
    /\ UNCHANGED <<pc, revents>>

End(d) ==
    /\ ~world.source[d].ended
    /\ world' = [world EXCEPT !.source[d].ended = TRUE]
    /\ UNCHANGED <<pc, revents>>

Consume(d) ==
    /\ world.sink[d].bytes # <<>>
    /\ world' = [world EXCEPT !.sink[d].bytes = Tail(@), !.sink[d].taken = @ + 1]
    /\ UNCHANGED <<pc, revents>>

(* The other end of the socket is shut down for both directions, as         *)
(* TCPMinnowSocket::_tcp_main does when the connection is over.             *)
HangUp ==
    /\ ~world.hungup
    /\ world' = [world EXCEPT !.hungup = TRUE, !.source["inbound"].ended = TRUE]
    /\ UNCHANGED <<pc, revents>>

(* The connection is reset, or nobody reads standard output any more.       *)
Break(f) ==
    /\ world.broken = {}
    /\ f = "output" => ~world.fd[f].closed
    /\ world' = [world EXCEPT !.broken = {f}]
    /\ UNCHANGED <<pc, revents>>

Next ==
    \/ SetUp \/ Poll \/ Serve
    \/ \E d \in Directions : Produce(d) \/ End(d) \/ Consume(d)
    \/ HangUp
    \/ \E f \in {"socket", "output"} : Break(f)

Spec == Init /\ [][Next]_vars

(* The program runs, and what it writes is read. Nobody has to write, or to *)
(* close what could be written to.                                          *)
Fairness ==
    /\ []<>(pc # "setup" \/ ~Running) \/ []<><<SetUp>>_vars
    /\ []<>(~CanPoll) \/ []<><<Poll>>_vars
    /\ []<>(pc # "serve" \/ ~Running) \/ []<><<Serve>>_vars
    /\ \A d \in Directions : WF_vars(Consume(d))

FairSpec == Spec /\ Fairness

-----------------------------------------------------------------------------
(* At every moment each byte that was written is with its reader, in one of *)
(* the kernel's buffers or in the program's stream, once and in order:      *)
(* whatever the rules do, none is dropped between a descriptor and a stream.*)
NothingLost ==
    \A d \in Directions :
        world.sink[d].bytes \o world.stream[d].queue \o world.source[d].bytes
            = Bytes(world.sink[d].taken, world.source[d].written - world.sink[d].taken)

(* A reader is told of the end only when it has everything, and everything  *)
(* has been written, unless the socket failed (the end then stands for      *)
(* what could not be had).                                                  *)
EndIsTheEnd ==
    \A d \in Directions :
        world.sink[d].ended =>
            /\ world.stream[d].queue = <<>>
            /\ \/ world.broken # {} \/ world.hungup
               \/ world.source[d].ended /\ world.source[d].bytes = <<>>

(* How the loop may end. The exception for busy waiting is never raised: a  *)
(* rule that has done all it can is not interested any more. The program    *)
(* dies of nothing but a descriptor that broke between poll and the call.   *)
(* It exits only when nothing can move any more: what was read is written   *)
(* if there is still someone to write to, and on a socket that did not fail *)
(* both directions have come to their end.                                  *)
EndsWell ==
    /\ world.outcome # "busy"
    /\ world.outcome = "died" => world.broken # {} \/ world.hungup
    /\ world.outcome = "exit" =>
        /\ \A d \in Directions :
            \/ world.stream[d].queue = <<>>
            \/ world.broken # {}
            \/ d = "outbound" /\ world.hungup
        /\ world.broken = {} =>
            /\ world.sink["inbound"].ended
            /\ world.sink["outbound"].ended \/ world.hungup

(* It does end: when both sides have ended, when the socket is hung up or   *)
(* fails, and when nobody reads standard output, even if standard input     *)
(* stays open and silent (then no rule may wait for it). If standard output *)
(* breaks only after poll has looked at it and all that was left to do was  *)
(* to close it, rule 4 does so as if nothing had happened: the program then *)
(* has one direction left, and may wait for standard input.                 *)
OutputLost ==
    /\ "output" \in world.broken /\ ~world.fd["output"].closed
    /\ pc = "serve" => ~IsFinished(world.stream["inbound"])

Over ==
    \/ \A d \in Directions : world.source[d].ended
    \/ world.hungup
    \/ "socket" \in world.broken
    \/ OutputLost

EventuallyEnds == Over ~> ~Running
=============================================================================

--------------------------- MODULE EventLoopRules ---------------------------
(***************************************************************************)
(* The first half of EventLoop::wait_next_event (src/util/eventloop.cc):   *)
(* it cancels the rules that have ended and asks the others whether they   *)
(* are interested. A rule's functions read and change the program that     *)
(* owns the loop, so they are constants here; w is that program's state,   *)
(* with the loop's own part of it:                                         *)
(*   w.rules   the rules that have not been erased, in the order added     *)
(*   w.asked   those that were interested when the poll was prepared       *)
(*   w.fd      the FileDescriptor of every descriptor                      *)
(*   w.served  whether a callback has been called in this round            *)
(*   w.outcome "running", "exit" or how it ended otherwise                 *)
(***************************************************************************)
EXTENDS FileDescriptorOps

CONSTANTS
    FdOf(_), DirectionOf(_),   \* of a rule
    Interest(_, _),            \* of a rule in a state
    Cancel(_, _)               \* the state after a rule's cancellation

Kept(w, r) == [w EXCEPT !.rules = Append(@, r)]

(* A rule ends with its descriptor. Rules are erased by not keeping them.   *)
Defunct(w, r) ==
    \/ DirectionOf(r) = "In" /\ w.fd[FdOf(r)].eof
    \/ w.fd[FdOf(r)].closed

SetUpRule(w, r) ==
    IF Defunct(w, r) THEN Cancel(r, w)
    ELSE IF Interest(r, w) THEN [Kept(w, r) EXCEPT !.asked = @ \cup {r}]
    ELSE Kept(w, r)

(* Cancel what has ended and ask the others, one rule after the other; with *)
(* nothing to poll for, the loop is over.                                   *)
SetUp(w) ==
    LET after[k \in 0 .. Len(w.rules)] ==
            IF k = 0 THEN [w EXCEPT !.rules = <<>>, !.asked = {}]
            ELSE SetUpRule(after[k - 1], w.rules[k])
        prepared == after[Len(w.rules)]
    IN  IF prepared.asked = {} THEN [prepared EXCEPT !.outcome = "exit"] ELSE prepared

(* What poll says of a rule's descriptor: "ready" only if it was asked.     *)
Revents(w, r, events) == IF r \in w.asked THEN events ELSE events \ {"ready"}
=============================================================================

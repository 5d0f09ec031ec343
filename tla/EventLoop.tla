----------------------------- MODULE EventLoop -----------------------------
(***************************************************************************)
(* The second half of EventLoop::wait_next_event (src/util/eventloop.cc),  *)
(* which goes through what poll returned. Between the two the program      *)
(* sleeps and the world goes on.                                           *)
(***************************************************************************)
EXTENDS EventLoopRules

\* the state after a rule's callback, and after its error function
CONSTANTS Callback(_, _), Error(_, _)

(* Fault: bytes that are left do not matter once the descriptor is closed   *)
(* on the other side.                                                       *)
AnyHangUp(w, r, events) == "hup" \in events

(* Hung up: asked for and nothing but that, or a rule that only writes.     *)
HungUp(w, r, events) ==
    /\ "hup" \in events
    /\ \/ r \in w.asked /\ "ready" \notin events
       \/ DirectionOf(r) = "Out"

(* A rule that has neither read nor written its descriptor and would do it  *)
(* all again ends the program with an exception.                            *)
BusyWait(w, r) ==
    /\ DirectionOf(r) \notin w.fd[FdOf(r)].counted
    /\ ~w.fd[FdOf(r)].closed
    /\ Interest(r, w)

Fire(w, r) ==
    LET called == [Callback(r, w) EXCEPT !.served = TRUE]
    IN  IF called.outcome = "running" /\ BusyWait(called, r)
        THEN [called EXCEPT !.outcome = "busy"] ELSE called

ServeRule(w, r, events) ==
    IF w.served THEN Kept(w, r)
    ELSE IF "err" \in events THEN Cancel(r, Error(r, w))
    ELSE IF HungUp(w, r, events) THEN Cancel(r, w)
    ELSE IF "ready" \in events THEN Fire(Kept(w, r), r)
    ELSE Kept(w, r)

EndRound(w) ==
    [w EXCEPT !.served = FALSE, !.asked = {},
              !.fd = [f \in DOMAIN @ |-> [@[f] EXCEPT !.counted = {}]]]

(* The first rule whose descriptor is ready is served and no other; errors  *)
(* and hang-ups end every rule on the way there.                            *)
Serve(w, revents) ==
    LET after[k \in 0 .. Len(w.rules)] ==
            IF k = 0 THEN [w EXCEPT !.rules = <<>>]
            ELSE ServeRule(after[k - 1], w.rules[k], revents[w.rules[k]])
    IN  EndRound(after[Len(w.rules)])
=============================================================================

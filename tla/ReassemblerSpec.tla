-------------------------- MODULE ReassemblerSpec --------------------------
(***************************************************************************)
(* The promise of a Reassembler (reassembler.hh:21-33), over the indices   *)
(* of the stream's bytes: every index in the window that has arrived is    *)
(* written as soon as all the ones before it have, or stored; none outside *)
(* the window is kept; the output is closed once the last byte is written. *)
(***************************************************************************)
EXTENDS Integers, FiniteSetsExt

CONSTANTS Capacity, Substring, ReadLen

VARIABLES
    written,  \* bytes written to the output
    popped,   \* bytes the reader has taken from it
    stored,   \* indices that have arrived and cannot be written yet
    last,     \* the length of the stream once its last substring arrived, or Unknown
    closed    \* whether the output is closed

vars == <<written, popped, stored, last, closed>>

Unknown == -1

Window == written .. popped + Capacity - 1

Init == written = 0 /\ popped = 0 /\ stored = {} /\ last = Unknown /\ closed = FALSE

Insert(sub) ==
    LET arrived == (sub.first .. sub.first + sub.len - 1) \cap Window
        known   == stored \cup arrived
    IN  /\ written' = Min((written .. popped + Capacity) \ known)
        /\ stored' = {i \in known : i > written'}
        /\ last' = IF sub.last THEN sub.first + sub.len ELSE last
        /\ closed' = (closed \/ written' = last')
        /\ UNCHANGED popped

Pop(len) ==
    /\ popped' = Min({popped + len, written})
    /\ UNCHANGED <<written, stored, last, closed>>

Next ==
    \/ \E sub \in Substring : Insert(sub)
    \/ \E len \in ReadLen : Pop(len)

Spec == Init /\ [][Next]_vars
=============================================================================

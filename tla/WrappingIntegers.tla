-------------------------- MODULE WrappingIntegers --------------------------
(***************************************************************************)
(* Class Wrap32: a sequence number on the wire is an absolute sequence     *)
(* number counted from a zero point (the ISN), modulo 2^32. The two widths *)
(* are parameters: CYCLE is 2^32 in the program, WORD (absolute sequence   *)
(* numbers, uint64_t) is 2^64.                                             *)
(***************************************************************************)
EXTENDS Integers

CONSTANTS CYCLE, WORD

ASSUME WrapAssumption ==
    /\ CYCLE \in Int /\ CYCLE > 0
    /\ WORD \in Int /\ WORD >= 2 * CYCLE
    /\ WORD % CYCLE = 0

Seqnos   == 0 .. CYCLE - 1
Absolute == 0 .. WORD - 1

Wrap(n, zero_point) == (zero_point + n) % CYCLE

Distance(a, b) == IF a > b THEN a - b ELSE b - a

Offset(raw_value, zero_point) == (raw_value - zero_point) % CYCLE

(* One cycle down, in 64-bit arithmetic. (A candidate below CYCLE is its    *)
(* own offset.)                                                             *)
CandidatePrev(candidate) == IF candidate >= CYCLE THEN candidate - CYCLE
                            ELSE WORD - CYCLE + candidate

(* Three candidates that wrap to raw_value: in the checkpoint's own cycle,  *)
(* one cycle down and one up. The nearest is taken; between equals, the     *)
(* checkpoint's own cycle, then the one down.                               *)
Unwrap(raw_value, zero_point, checkpoint) ==
    LET candidate      == checkpoint - (checkpoint % CYCLE) + Offset(raw_value, zero_point)
        candidate_prev == CandidatePrev(candidate)
        candidate_next == (candidate + CYCLE) % WORD
        dist_curr      == Distance(candidate, checkpoint)
        dist_prev      == Distance(candidate_prev, checkpoint)
        dist_next      == Distance(candidate_next, checkpoint)
    IN  IF dist_curr <= dist_prev /\ dist_curr <= dist_next THEN candidate
        ELSE IF dist_prev <= dist_next THEN candidate_prev
        ELSE candidate_next
=============================================================================

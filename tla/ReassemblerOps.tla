--------------------------- MODULE ReassemblerOps ---------------------------
(***************************************************************************)
(* Class Reassembler (src/src/reassembler.hh, .cc) as operators on a       *)
(* record: the output ByteStream, last_byte_ and the multimap of stored    *)
(* substrings, here a sequence of blocks in the order of their keys.       *)
(***************************************************************************)
EXTENDS StreamOps, SequencesExt

(* last_byte_ starts at -1, which is 2^64 - 1: no index a byte can have.    *)
NoLastByte == -1

NewReassembler(output) ==
    [output |-> output, last_byte |-> NoLastByte, pending |-> <<>>]

EndOf(block) == block.first + Len(block.data)

NextByteIndex(r) == BytesPushed(r.output)
WindowEnd(r)     == NextByteIndex(r) + AvailableCapacity(r.output)

CountBytesPending(r) == SumFunction([k \in DOMAIN r.pending |-> Len(r.pending[k].data)])

(* string::substr: n bytes from pos on, or as many as there are.            *)
Substr(s, pos, n) == SubSeq(s, pos + 1, Least(pos + n, Len(s)))

(* multimap::insert puts a block behind those with the same key.            *)
UpperBound(blocks, key) ==
    CHOOSE n \in 0 .. Len(blocks) :
        \A k \in DOMAIN blocks : blocks[k].first <= key <=> k <= n

InsertByKey(blocks, block) ==
    InsertAt(blocks, UpperBound(blocks, block.first) + 1, block)

(* Fault: the bytes next shares with it are appended again.                 *)
AppendWhole(it, next) ==
    IF EndOf(it) >= EndOf(next) THEN it
    ELSE [it EXCEPT !.data = @ \o next.data]

(* next overlaps it or is adjacent: what next adds is appended to it.       *)
Absorb(it, next) ==
    IF EndOf(it) >= EndOf(next) THEN it
    ELSE [it EXCEPT !.data = @ \o Drop(next.data, EndOf(it) - next.first)]

(* Fault: adjacent blocks are kept apart.                                   *)
Overlap(it, next) == EndOf(it) > next.first

Touch(it, next) == EndOf(it) >= next.first

(* The next block is absorbed by the last one so far, or follows it.        *)
MergeNext(before, next) ==
    IF before # <<>> /\ Touch(Last(before), next)
    THEN Append(Front(before), Absorb(Last(before), next))
    ELSE Append(before, next)

(* merged[k]: the blocks that the first k of them merge into.               *)
MergeSubstrings(blocks) ==
    LET merged[k \in 0 .. Len(blocks)] ==
            IF k = 0 THEN <<>> ELSE MergeNext(merged[k - 1], blocks[k])
    IN  merged[Len(blocks)]

(* How many bytes of a substring of len bytes may be kept from insert_key on. *)
Room(r, insert_key, len) == Least(len, WindowEnd(r) - insert_key)

(* The part of the substring that lies in the window, merged with what is   *)
(* stored.                                                                  *)
Store(r, first_index, data) ==
    LET next == NextByteIndex(r)
        insert_key == IF first_index >= next THEN first_index ELSE next
        kept == Substr(data, insert_key - first_index, Room(r, insert_key, Len(data)))
    IN  [r EXCEPT !.pending =
            MergeSubstrings(InsertByKey(@, [first |-> insert_key, data |-> kept]))]

(* Fault: the index after the last one is taken for the last.               *)
EndsPast(r, block) == EndOf(block) = r.last_byte

EndsStream(r, block) == EndOf(block) - 1 = r.last_byte

(* The first block is written if it is the next one of the stream; the      *)
(* output is closed if its last byte is the stream's.                       *)
WriteReady(r) ==
    LET block == Head(r.pending)
        output == StreamPush(r.output, block.data)
    IN  IF block.first # NextByteIndex(r) THEN r
        ELSE [r EXCEPT !.output = IF EndsStream(r, block)
                                  THEN StreamClose(output) ELSE output,
                       !.pending = Tail(@)]

(* Fault: an end that comes alone, after all the bytes, is passed over.     *)
EndsWithBytes(r, first_index, data, is_last_substring) == FALSE

OnlyEnds(r, first_index, data, is_last_substring) ==
    data = <<>> /\ is_last_substring /\ first_index = NextByteIndex(r)

Insert(r, first_index, data, is_last_substring) ==
    LET noted == IF is_last_substring
                 THEN [r EXCEPT !.last_byte = first_index + Len(data) - 1]
                 ELSE r
    IN  IF OnlyEnds(r, first_index, data, is_last_substring)
        THEN [r EXCEPT !.output = StreamClose(@)]
        ELSE IF first_index < WindowEnd(r) /\ first_index + Len(data) > NextByteIndex(r)
             THEN WriteReady(Store(noted, first_index, data))
             ELSE noted
=============================================================================

--------------------------- MODULE MCReassembler ---------------------------
(* A stream longer than the capacity, so that substrings reach over both     *)
(* ends of the window; substrings of every place and length, empty ones too. *)
EXTENDS Reassembler

Parts == [first : 0 .. Length, len : 0 .. Length, last : BOOLEAN]

(* The end comes with the last byte or alone, or is not told.                *)
MCSubstring == {sub \in Parts : /\ sub.first + sub.len <= Length
                                /\ sub.last => sub.first + sub.len = Length}

MCReadLen == {1, Length}
=============================================================================

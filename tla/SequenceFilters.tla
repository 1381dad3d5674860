--------------------------- MODULE SequenceFilters ---------------------------
(***************************************************************************)
(* What std::erase_if and the filtering loops of the library leave of a    *)
(* list: the elements of a set, in their order.  It is a function of the   *)
(* length, where SelectSeq takes a test, so that it can be proved about.   *)
(***************************************************************************)
EXTENDS Naturals, Sequences, SequencesExt

(* The elements of s that are in S, in order: those of its first n.        *)
Keep(s, S) ==
  LET kept[n \in 0 .. Len(s)] == IF n = 0 THEN <<>>
                                 ELSE IF s[n] \in S THEN Append(kept[n - 1], s[n])
                                 ELSE kept[n - 1]
  IN kept[Len(s)]
=============================================================================

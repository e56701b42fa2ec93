--------------------------- MODULE SequenceFilter ---------------------------
(***************************************************************************)
(* The elements of a sequence that are in a set, as a recursive function   *)
(* of the prefixes, which can be proved about where SelectSeq cannot.      *)
(***************************************************************************)
EXTENDS Integers, Sequences

OnlyIn(seq, S) ==
  LET upTo[i \in 0 .. Len(seq)] ==
        IF i = 0 THEN <<>>
        ELSE IF seq[i] \in S THEN Append(upTo[i - 1], seq[i]) ELSE upTo[i - 1]
  IN  upTo[Len(seq)]
=============================================================================

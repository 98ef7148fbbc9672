-------------------------------- MODULE Lists --------------------------------
(* Filtering a list, as a fold. *)
EXTENDS Naturals, Sequences, SequencesExt

\* The elements of s that are in S, in their order.
KeepIn(s, S) == FoldLeft(LAMBDA kept, x : IF x \in S THEN Append(kept, x) ELSE kept, <<>>, s)
=============================================================================

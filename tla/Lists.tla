------------------------------- MODULE Lists -------------------------------
(***************************************************************************)
(* Lists from which several nodes are deleted at once, as a loop over the  *)
(* list with MOWGLI_ITER_FOREACH_SAFE and mowgli_node_delete() does.       *)
(***************************************************************************)
EXTENDS Integers, Sequences

\* The elements of s at the positions in I, in their order: SelectSeq() with
\* the test given as the set of positions that pass it.
Selected(s, I) ==
    LET sel[n \in 0 .. Len(s)] ==
            IF n = 0 THEN <<>>
            ELSE IF n \in I THEN Append(sel[n - 1], s[n]) ELSE sel[n - 1]
    IN  sel[Len(s)]
=============================================================================

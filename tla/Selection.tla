------------------------------ MODULE Selection ------------------------------
(* The elements of a sequence that a loop keeps: the one of parse_history, *)
(* and the loop that filter() of app.js is.                                *)
EXTENDS Sequences, SequencesExt

Those(s, T) ==
  FoldLeft(LAMBDA kept, x : IF x \in T THEN Append(kept, x) ELSE kept, <<>>, s)

=============================================================================

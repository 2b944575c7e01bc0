--------------------------- MODULE MCEditSession ---------------------------
(* EditSession on a three-character document, three commits. *)
EXTENDS EditSession

MCInitial == <<1, 2, 3>>
MCOpIds == {1, 2, 3}

=============================================================================

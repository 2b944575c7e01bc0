------------------------------ MODULE MCEditor ------------------------------
(* Editor with two browsers whose operations interleave in the order of    *)
(* their ids both ways; the second loses its connection once.              *)
EXTENDS Editor

MCInitial == <<>>
MCBrowsers == {1, 2}
MCOpIds == << <<1, 3>>, <<2>> >>
MCMaxClosed == <<0, 1>>

=============================================================================

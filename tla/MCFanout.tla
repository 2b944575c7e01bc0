------------------------------ MODULE MCFanout ------------------------------
(* Fanout on two servers, with interchangeable operations and browsers.    *)
EXTENDS Fanout, TLC

Symmetric ==
  Permutations(OpIds) \cup Permutations(Browsers) \cup Permutations(Servers)
  \cup Permutations(Sessions)
=============================================================================

----------------------------- MODULE MCRecovery -----------------------------
(* Two servers with a session each, or one server with two sessions.       *)
EXTENDS Recovery, TLC

CONSTANTS s1, s2, t1, t2

OneEach == (t1 :> s1) @@ (t2 :> s2)
OneServer == (t1 :> s1) @@ (t2 :> s1)
Symmetric == Permutations(OpIds)
=============================================================================

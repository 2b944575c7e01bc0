--------------------------- MODULE MCRedisCommit ---------------------------
(* RedisCommit on two servers, the first with two sessions or with one.    *)
EXTENDS RedisCommit, TLC

CONSTANTS s1, s2, t1, t2, t3

TwoServers == [t \in {t1, t2, t3} |-> IF t = t3 THEN s2 ELSE s1]
OneEach == [t \in {t1, t3} |-> IF t = t1 THEN s1 ELSE s2]

Symmetric == Permutations({t1, t2}) \cup Permutations(OpIds)

=============================================================================

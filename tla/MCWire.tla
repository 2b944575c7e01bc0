------------------------------- MODULE MCWire -------------------------------
(* Wire with every text of up to two of these tokens, some of three, and   *)
(* the sizes at which the form of a frame's length changes.                *)
EXTENDS Wire

MCTokens == {"a", "\"", "\\", ":", "newline", "control", "opId", "revision",
             "baseRevision", "clientId", "count"}
MCTexts == SeqOf(MCTokens, 2) \cup { <<a, "\"", key>> : a \in {"\"", "\\"}, key \in {"opId", "count"} }
MCFrameSizes == {0, 1, 125, 126, 127, 255, 256, 65535, 65536, 65537, 16777216}

=============================================================================

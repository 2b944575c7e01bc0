--------------------------- MODULE DocumentStore ---------------------------
(***************************************************************************)
(* What a DocumentStore shared by several servers promises to its callers  *)
(* (the interface in src/store.hpp, with the idempotent commit that        *)
(* src/redis_store.hpp and scripts/failure_test.py describe): one log; a   *)
(* commit appends the operation, transformed over everything it missed,    *)
(* unless its opId is there already; nothing is acknowledged that is not   *)
(* in the log.                                                             *)
(***************************************************************************)
EXTENDS CommitLog

VARIABLES
  document,   \* the operations the document's text includes
  log,        \* the committed operations, revision 1 first
  acked       \* what commit() has returned to callers

storeVars == <<document, log, acked>>

Init ==
  /\ document = <<>>
  /\ log = <<>>
  /\ acked = {}

Commit(id, base) ==
  /\ \A i \in DOMAIN log : log[i].opId # id
  /\ log' = Append(log, Entry(id, base, Len(log) + 1, Missed(log, base, Len(log))))
  /\ document' = Append(document, id)
  /\ UNCHANGED acked

Acknowledge(i) ==
  /\ acked' = acked \cup {log[i]}
  /\ UNCHANGED <<document, log>>

Next ==
  \/ \E id \in OpIds, base \in 0 .. Len(log) : Commit(id, base)
  \/ \E i \in DOMAIN log : Acknowledge(i)

Spec == Init /\ [][Next]_storeVars

=============================================================================

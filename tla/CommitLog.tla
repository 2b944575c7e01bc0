----------------------------- MODULE CommitLog -----------------------------
(***************************************************************************)
(* The data of the document stores (src/store.hpp, src/redis_store.hpp),   *)
(* abstracted to what their properties tell apart.                         *)
(*                                                                         *)
(* Operation transformation itself is module OT.  Here a stored document   *)
(* is the sequence of operations whose effect its text includes, in the    *)
(* order they were applied; a committed operation remembers, besides the   *)
(* identifier and the revision the code stores, the base revision it came  *)
(* with and the operations it was transformed over (`over').  Two runs of  *)
(* the code that agree on these sequences agree on the text.               *)
(***************************************************************************)
EXTENDS Naturals, Sequences

CONSTANT OpIds          \* identifiers of client operations (opId)

CommittedOp ==
  [opId: OpIds, base: Nat, revision: Nat, over: Seq(OpIds)]

Ids(log) == [i \in DOMAIN log |-> log[i].opId]

StartOf(base, current) == IF base <= current THEN base ELSE current

(* What an operation based on `base' has to be transformed over when the   *)
(* document is at revision `current'.                                      *)
Missed(log, base, current) ==
  Ids(SubSeq(log, StartOf(base, current) + 1, current))

Entry(id, base, revision, over) ==
  [opId |-> id, base |-> base, revision |-> revision, over |-> over]

(* A log in which every operation stands at its revision, was transformed  *)
(* over exactly the operations committed after its base, and occurs once.  *)
WellFormed(log) ==
  /\ \A i \in DOMAIN log :
       /\ log[i].revision = i
       /\ log[i].over = Missed(log, log[i].base, i - 1)
  /\ \A i, j \in DOMAIN log : log[i].opId = log[j].opId => i = j

=============================================================================

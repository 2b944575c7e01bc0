-------------------------- MODULE DocumentSession --------------------------
(***************************************************************************)
(* DocumentSession (src/ot.hpp) behind MemoryStore (src/store.hpp), the    *)
(* store of a server started without Redis.  MemoryStore takes its mutex   *)
(* around the whole of each call, so commit() is one atomic step; it hands *)
(* the operation to the session as it came: there is no look-up by opId.   *)
(*                                                                         *)
(* Characters are distinct values, so that a property can tell which       *)
(* character of which document moved, stayed or disappeared.               *)
(***************************************************************************)
EXTENDS OT

CONSTANT Initial        \* the document the session starts with

VARIABLES document, history

sessionVars == <<document, history>>

Init ==
  /\ document = Initial
  /\ history = <<>>

Revision == Len(history)

(* Mutant: the operation is not clamped before it is numbered. *)
CommittedUnclamped(op) ==
  LET start  == Smaller(op.baseRevision, Revision)
      missed == SubSeq(history, start + 1, Revision)
  IN  [TransformOver(op, missed) EXCEPT !.revision = Revision + 1]

(* The operation as it enters a history: transformed over everything       *)
(* committed after its base revision, clamped, and numbered.               *)
CommittedTo(doc, hist, op) ==
  LET start  == Smaller(op.baseRevision, Len(hist))
      missed == SubSeq(hist, start + 1, Len(hist))
  IN  [Clamp(TransformOver(op, missed), Len(doc)) EXCEPT !.revision = Len(hist) + 1]

Committed(op) == CommittedTo(document, history, op)

(* Mutant: the history keeps the operation as it was submitted. *)
CommitUntransformed(op) ==
  /\ document' = Apply(document, Committed(op))
  /\ history' = Append(history, [op EXCEPT !.revision = Revision + 1])

Commit(op) ==
  /\ document' = Apply(document, Committed(op))
  /\ history' = Append(history, Committed(op))

OperationsSince(revision) ==
  SubSeq(history, revision + 1, Revision)

=============================================================================

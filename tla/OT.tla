--------------------------------- MODULE OT ---------------------------------
(***************************************************************************)
(* The operational-transformation engine of src/ot.hpp: pure operators on  *)
(* documents and operations.                                               *)
(*                                                                         *)
(* A document is a sequence of characters, a position the number of        *)
(* characters before it (0-based, as in the code).  An operation is a      *)
(* record; `count' is 0 for an insert and `text' is <<>> for a delete.     *)
(* Operation and client identifiers are strings in the code that are only  *)
(* compared, with < and =: they are naturals here.                         *)
(***************************************************************************)
EXTENDS Naturals, Sequences, SequencesExt

OpType == {"insert", "delete"}

Operation(Char) ==
  [type: OpType, position: Nat, text: Seq(Char), count: Nat,
   baseRevision: Nat, revision: Nat, clientId: Nat, opId: Nat]

Smaller(m, n) == IF m <= n THEN m ELSE n
Larger(m, n)  == IF m >= n THEN m ELSE n

IsNoop(op) ==
  \/ op.type = "insert" /\ op.text = <<>>
  \/ op.type = "delete" /\ op.count = 0

Clamp(op, size) ==
  LET position == Smaller(op.position, size)
  IN  [op EXCEPT !.position = position,
                 !.count = IF op.type = "delete" THEN Smaller(@, size - position) ELSE @]

Apply(document, operation) ==
  LET op   == Clamp(operation, Len(document))
      head == SubSeq(document, 1, op.position)
      after(n) == SubSeq(document, n + 1, Len(document))
  IN  IF op.type = "insert"
      THEN head \o op.text \o after(op.position)
      ELSE head \o after(op.position + op.count)

(* Mutant: the committed insert wins every tie. *)
AlwaysWinsTie(committed, incoming) == TRUE

(* committed_wins_tie: the committed insert keeps its place, the incoming  *)
(* one at the same position moves behind it.                               *)
WinsTie(committed, incoming) ==
  \/ committed.opId < incoming.opId
  \/ committed.opId = incoming.opId /\ committed.clientId < incoming.clientId

-----------------------------------------------------------------------------
(* transform(incoming, committed), one operator per pair of types.         *)

InsertOverInsert(op, com) ==
  IF \/ op.position > com.position
     \/ op.position = com.position /\ WinsTie(com, op)
  THEN [op EXCEPT !.position = @ + Len(com.text)]
  ELSE op

(* Mutant: a delete does not grow over text inserted into its range. *)
DeleteNeverGrows(op, com) ==
  IF op.position >= com.position
  THEN [op EXCEPT !.position = @ + Len(com.text)]
  ELSE op

(* Mutant: a delete also grows over text inserted right at its start. *)
DeleteGrowsAtStart(op, com) ==
  CASE op.position > com.position ->
         [op EXCEPT !.position = @ + Len(com.text)]
    [] op.position <= com.position /\ op.position + op.count > com.position ->
         [op EXCEPT !.count = @ + Len(com.text)]
    [] OTHER -> op

(* A delete whose range strictly contains the insertion point grows over   *)
(* the inserted text.                                                      *)
DeleteOverInsert(op, com) ==
  CASE op.position >= com.position ->
         [op EXCEPT !.position = @ + Len(com.text)]
    [] op.position < com.position /\ op.position + op.count > com.position ->
         [op EXCEPT !.count = @ + Len(com.text)]
    [] OTHER -> op

(* Mutant: an insert inside the deleted range keeps its position. *)
InsertInsideKept(op, com) ==
  IF op.position > com.position + com.count
  THEN [op EXCEPT !.position = @ - com.count]
  ELSE op

(* Mutant: an insert inside the deleted range loses its text. *)
InsertInsideDropped(op, com) ==
  CASE op.position > com.position + com.count ->
         [op EXCEPT !.position = @ - com.count]
    [] op.position \in com.position .. com.position + com.count ->
         [op EXCEPT !.position = com.position, !.text = <<>>]
    [] OTHER -> op

InsertOverDelete(op, com) ==
  CASE op.position > com.position + com.count ->
         [op EXCEPT !.position = @ - com.count]
    [] op.position \in com.position .. com.position + com.count ->
         [op EXCEPT !.position = com.position]
    [] OTHER -> op

(* Mutant: what is left of an overlapping delete keeps its start.          *)
DeleteStaysPut(op, com) ==
  LET overlap == Smaller(op.position + op.count, com.position + com.count)
                   - Larger(op.position, com.position)
  IN  IF op.position >= com.position + com.count
      THEN [op EXCEPT !.position = @ - com.count]
      ELSE [op EXCEPT !.count = @ - Larger(overlap, 0)]

DeleteOverDelete(op, com) ==
  LET start    == op.position
      end      == op.position + op.count
      delStart == com.position
      delEnd   == com.position + com.count
      overlap  == Smaller(end, delEnd) - Larger(start, delStart)
  IN  CASE end <= delStart -> op
        [] end > delStart /\ start >= delEnd ->
             [op EXCEPT !.position = @ - com.count]
        [] OTHER ->
             [op EXCEPT !.count = @ - overlap,
                        !.position = IF start >= delStart THEN delStart ELSE @]

Transform(incoming, committed) ==
  IF IsNoop(incoming) \/ IsNoop(committed)
  THEN incoming
  ELSE IF committed.type = "insert"
       THEN IF incoming.type = "insert"
            THEN InsertOverInsert(incoming, committed)
            ELSE DeleteOverInsert(incoming, committed)
       ELSE IF incoming.type = "insert"
            THEN InsertOverDelete(incoming, committed)
            ELSE DeleteOverDelete(incoming, committed)

(* The loop of commit(): the operation transformed over committed          *)
(* operations, oldest first.                                               *)
TransformOver(op, committed) == FoldLeft(Transform, op, committed)

=============================================================================

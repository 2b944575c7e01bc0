---------------------------- MODULE EditSession ----------------------------
(***************************************************************************)
(* Clients editing one DocumentSession.  A client authors an operation on  *)
(* the document of some revision it has seen (baseRevision) and the server *)
(* commits it later, over whatever was committed in between.               *)
(*                                                                         *)
(* Two history variables remember what the code forgets: the document at   *)
(* each revision and every operation as it was authored.                   *)
(***************************************************************************)
EXTENDS DocumentSession, FiniteSets

CONSTANTS
  OpIds,        \* identifiers of operations
  MaxRevision,  \* bound: number of commits
  MaxText,      \* bound: characters inserted by one operation
  Overshoot     \* bound: how far a position may lie past the end

(* The characters of the first document are numbered up to 100, those that *)
(* revision r inserts from 100 r + 1 on: no two are the same.              *)
ASSUME EditAssumption ==
  /\ Initial \in Seq(1 .. 100) /\ IsInjective(Initial)
  /\ OpIds \subseteq Nat
  /\ MaxRevision \in Nat
  /\ MaxText \in 0 .. 99
  /\ Overshoot \in Nat

VARIABLES
  past,         \* past[r + 1] is the document at revision r
  authored      \* authored[r] is what revision r was before transformation

vars == <<document, history, past, authored>>

(* Characters that no earlier operation inserted. *)
FreshText(n) == [k \in 1 .. n |-> 100 * (Revision + 1) + k]

InsertOps(base, id) ==
  { [type |-> "insert", position |-> p, text |-> FreshText(n), count |-> 0,
     baseRevision |-> base, revision |-> 0, clientId |-> id, opId |-> id] :
      p \in 0 .. Len(past[base + 1]) + Overshoot, n \in 1 .. MaxText }

DeleteOps(base, id) ==
  { [type |-> "delete", position |-> p, text |-> <<>>, count |-> n,
     baseRevision |-> base, revision |-> 0, clientId |-> id, opId |-> id] :
      p \in 0 .. Len(past[base + 1]) + Overshoot,
      n \in 1 .. Len(past[base + 1]) + Overshoot }

EditInit ==
  /\ Init
  /\ past = <<Initial>>
  /\ authored = <<>>

CommitEdit(op) ==
  /\ Revision < MaxRevision
  /\ Commit(op)
  /\ past' = Append(past, document')
  /\ authored' = Append(authored, op)

EditNext ==
  \E base \in 0 .. Revision, id \in OpIds \ { history[r].opId : r \in 1 .. Revision } :
    \E op \in InsertOps(base, id) \cup DeleteOps(base, id) : CommitEdit(op)

EditSpec == EditInit /\ [][EditNext]_vars

-----------------------------------------------------------------------------
Latest == Len(history)
BaseDocument(i) == past[Smaller(authored[i].baseRevision, i - 1) + 1]

Precedes(x, y, doc) ==
  \E i, j \in DOMAIN doc : i < j /\ doc[i] = x /\ doc[j] = y

(* Every document is a sequence of distinct characters and the history     *)
(* numbers its operations 1, 2, 3, ... and keeps them within the document  *)
(* they were applied to: a browser applies `count' without clamping it.    *)
TypeOK ==
  /\ IsInjective(document)
  /\ Len(past) = Revision + 1 /\ Len(authored) = Revision
  /\ \A i \in DOMAIN history :
       /\ history[i] \in Operation(Nat)
       /\ history[i].revision = i
       /\ history[i].position + history[i].count <= Len(past[i])

(* The text a client inserted between two characters of the document it    *)
(* saw appears in full, behind every surviving character it was typed      *)
(* behind and in front of every surviving character it was typed in front  *)
(* of, whatever was committed in between (the insert cases of transform).  *)
InsertionIntent ==
  Latest > 0 /\ authored[Latest].type = "insert" =>
    LET op   == authored[Latest]
        base == BaseDocument(Latest)
    IN  \A c \in ToSet(op.text) :
          /\ c \in ToSet(document)
          /\ \A k \in DOMAIN base : base[k] \in ToSet(document) =>
               IF k <= op.position
               THEN Precedes(base[k], c, document)
               ELSE Precedes(c, base[k], document)

(* A delete removes every character of the range its author saw, and no    *)
(* other character of that document (the delete cases of transform).       *)
DeletionIntent ==
  Latest > 0 /\ authored[Latest].type = "delete" =>
    LET op    == authored[Latest]
        base  == BaseDocument(Latest)
        range == { base[k] : k \in { j \in DOMAIN base :
                     op.position < j /\ j <= op.position + op.count } }
    IN  /\ range \cap ToSet(document) = {}
        /\ (ToSet(base) \ range) \cap ToSet(past[Latest]) \subseteq ToSet(document)

(* Text that another client inserted survives a delete unless it was put   *)
(* strictly between two characters neither of which the delete's author    *)
(* saw outside the range, or, when the range runs past the end of the      *)
(* document, at that end: only there may DeleteOverInsert grow.            *)
SwallowsOnlyInside ==
  Latest > 0 /\ authored[Latest].type = "delete" =>
    LET op    == authored[Latest]
        base  == BaseDocument(Latest)
        range == { base[k] : k \in { j \in DOMAIN base :
                     op.position < j /\ j <= op.position + op.count } }
        lost  == ToSet(past[Latest]) \ (ToSet(document) \cup ToSet(base))
        inside(doc) == ToSet(doc) \ (ToSet(base) \ range)
    IN  \A x \in lost, r \in 1 .. Latest - 1 :
          x \in ToSet(past[r + 1]) \ ToSet(past[r]) =>
            /\ \E u \in inside(past[r]) : Precedes(u, x, past[r + 1])
            /\ \/ op.position + op.count > Len(base)
               \/ \E v \in inside(past[r]) : Precedes(x, v, past[r + 1])

(* A client at any revision that applies operations_since(revision) in     *)
(* order arrives at the current document: what the catch-up relies on.     *)
CatchUpReproduces ==
  \A r \in 0 .. Revision :
    FoldLeft(Apply, past[r + 1], OperationsSince(r)) = document

-----------------------------------------------------------------------------
(* Another order.  Two neighbours in the history that did not see each     *)
(* other are committed the other way round, and the session ends with the  *)
(* same document - or not.                                                 *)
CommitTo(s, op) ==
  LET committed == CommittedTo(s.document, s.history, op)
  IN  [document |-> Apply(s.document, committed), history |-> Append(s.history, committed)]

Fits(i) ==
  authored[i].position + authored[i].count <= Len(past[authored[i].baseRevision + 1])

(* Revisions i and i + 1 are concurrent, and nobody saw only one of them.  *)
Swappable(i) ==
  /\ i > 0 /\ authored[i + 1].baseRevision < i
  /\ \A r \in 1 .. Latest : Fits(r)
  /\ \A r \in i + 2 .. Latest : authored[r].baseRevision # i

Swapped(i) ==
  LET start  == [document |-> past[i], history |-> SubSeq(history, 1, i - 1)]
      theirs == <<authored[i + 1], authored[i]>> \o SubSeq(authored, i + 2, Latest)
  IN  FoldLeft(CommitTo, start, theirs)

Converge(i) == Swapped(i).document = document

(* Operation r as it meets the document of revision i - 1. *)
Meeting(i, r) ==
  TransformOver(authored[r], SubSeq(history, authored[r].baseRevision + 1, i - 1))

Inside(ins, del) ==
  /\ ins.type = "insert" /\ del.type = "delete"
  /\ del.position < ins.position /\ ins.position < del.position + del.count

AllOf(kind) == \A r \in 1 .. Latest : authored[r].type = kind

(* "Same-base concurrent inserts converge regardless of commit order"      *)
(* (tests/ot_tests.cpp): at any positions and bases, with the tie broken   *)
(* by opId after earlier operations have moved the positions, and          *)
(* followed by a third insert.  And overlapping, nested and equal deletes, *)
(* also when some of them shrink to nothing on the way.                    *)
SameKindConverge ==
  AllOf("insert") \/ AllOf("delete") =>
    \A i \in {Latest - 2, Latest - 1} : Swappable(i) => Converge(i)

(* "Non-overlapping insert + delete converge": an insert that is not       *)
(* strictly inside the deleted range, its two ends included, commutes with *)
(* the delete.                                                             *)
DisjointConverge ==
  LET i == Latest - 1
  IN  /\ Swappable(i)
      /\ ~Inside(Meeting(i, i), Meeting(i, Latest)) /\ ~Inside(Meeting(i, Latest), Meeting(i, i))
      => Converge(i)

(* Where they do not converge the difference is exactly the inserted text: *)
(* kept, in full and in one piece, where the delete comes first, and       *)
(* swallowed where the insert does.                                        *)
InsideSwallowedOrKept ==
  LET i == Latest - 1
      keeps(doc, text)    == \E k \in 0 .. Len(doc) - Len(text) :
                               SubSeq(doc, k + 1, k + Len(text)) = text
      swallows(doc, text) == ToSet(doc) \cap ToSet(text) = {}
  IN  Swappable(i) =>
        /\ Inside(Meeting(i, i), Meeting(i, Latest)) =>
             /\ swallows(document, authored[i].text)
             /\ keeps(Swapped(i).document, authored[i].text)
        /\ Inside(Meeting(i, Latest), Meeting(i, i)) =>
             /\ keeps(document, authored[Latest].text)
             /\ swallows(Swapped(i).document, authored[Latest].text)

=============================================================================

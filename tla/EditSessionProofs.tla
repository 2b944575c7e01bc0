-------------------------- MODULE EditSessionProofs --------------------------
(***************************************************************************)
(* What EditSession promises, proved for any first document, history,      *)
(* positions and base revisions.                                           *)
(*                                                                         *)
(*   EditTypes                documents and histories are well formed      *)
(*   CatchUpArrives           operations_since() leads to the document     *)
(*   ConcurrentEditsConverge  the order of two commits does not matter     *)
(*   OneKindConverges         nor does a third one of their kind           *)
(*   InsertionsStayInPlace    text stays between the characters it was     *)
(*                            typed between                                *)
(*   DeletionsRemoveTheRange  a delete takes what its author saw there     *)
(*   DeletesSwallowOnlyInside and other text only strictly inside          *)
(*   DivergenceIsTheText      which is where the order does matter         *)
(*                                                                         *)
(* What an operation does to a document and what transform() makes of it   *)
(* is in OTProofs.  Commute is TP1 for two operations of which neither     *)
(* inserts strictly inside what the other deletes.                         *)
(* EditInv is the inductive invariant: each revision is the one before     *)
(* with what the author sent, transformed over all it missed and clamped   *)
(* (EveryRevisionMade), and the labels of the characters tell by whom they *)
(* were put there.  With Dated a character is followed through the         *)
(* revisions its author did not see (HistoryTracks).                       *)
(***************************************************************************)
EXTENDS EditSession, OTProofs

-----------------------------------------------------------------------------
(* Two operations on one document, in either order.                        *)

(* The first insert keeps its place, the second moves behind it.           *)
LEMMA InsertsCommute ==
  ASSUME NEW C, NEW d \in Seq(C), NEW a \in Edits(C), NEW b \in Edits(C),
         ~IsNoop(a), ~IsNoop(b), a.type = "insert", b.type = "insert",
         a.position <= Len(d), b.position <= Len(d),
         a.position < b.position \/ (a.position = b.position /\ a.opId < b.opId)
  PROVE  Apply(Apply(d, a), Transform(b, a)) = Apply(Apply(d, b), Transform(a, b))
<1>1. PICK p, t, q, u, x, y, a1, b1 :
        /\ p = a.position /\ t = a.text /\ q = b.position /\ u = b.text
        /\ x = Apply(d, a) /\ y = Apply(d, b) /\ a1 = Transform(a, b) /\ b1 = Transform(b, a)
  OBVIOUS
<1>2. /\ p \in Nat /\ q \in Nat /\ t \in Seq(C) /\ u \in Seq(C)
      /\ a.count = 0 /\ b.count = 0 /\ a.opId \in Nat /\ b.opId \in Nat
      /\ Len(t) \in Nat /\ Len(u) \in Nat /\ Len(d) \in Nat
  BY <1>1, EditFields
<1>3. p <= q /\ p \in 0 .. Len(d) /\ q \in p .. Len(d)
  BY <1>1, <1>2
<1>4. x = Inserted(d, p, t) /\ x \in Seq(C) /\ Len(x) = Len(d) + Len(t)
  BY <1>1, ApplyInsert
<1>5. y = Inserted(d, q, u) /\ y \in Seq(C) /\ Len(y) = Len(d) + Len(u)
  BY <1>1, ApplyInsert
<1>6. b1 \in Edits(C) /\ b1.type = "insert" /\ b1.text = u /\ b1.position = q + Len(t)
  <2>1. StartOver(b, a) = q + Len(t)
    BY <1>1, <1>2 DEF StartOver, WinsTie
  <2>2. b1.position = q + Len(t)
    BY <1>1, <2>1, TransformMoves
  <2> QED
    BY <1>1, <2>2, TransformTyped
<1>7. a1 \in Edits(C) /\ a1.type = "insert" /\ a1.text = t /\ a1.position = p
  <2>1. StartOver(a, b) = p
    BY <1>1, <1>2 DEF StartOver, WinsTie
  <2>2. a1.position = p
    BY <1>1, <2>1, TransformMoves
  <2> QED
    BY <1>1, <2>2, TransformTyped
<1>8. Apply(x, b1) = Inserted(x, q + Len(t), u)
  <2>1. PICK r : r = q + Len(t)
    OBVIOUS
  <2>2. r <= Len(x) /\ x \in Seq(C)
    BY <1>2, <1>3, <1>4, <2>1
  <2>3. b1 \in Edits(C) /\ b1.type = "insert" /\ b1.text = u /\ b1.position = r
    BY <1>6, <2>1
  <2>4. Apply(x, b1) = Inserted(x, r, u)
    BY <2>2, <2>3, ApplyInsert
  <2> QED
    BY <2>1, <2>4
<1>9. Apply(y, a1) = Inserted(y, p, t)
  <2>1. p <= Len(y) /\ y \in Seq(C)
    BY <1>2, <1>3, <1>5
  <2> QED
    BY <1>7, <2>1, ApplyInsert
<1>10. Inserted(Inserted(d, p, t), q + Len(t), u) = Inserted(Inserted(d, q, u), p, t)
  BY <1>2, <1>3, InsertInsert
<1> QED
  BY <1>1, <1>4, <1>5, <1>8, <1>9, <1>10

(* An insert that is not strictly inside what the other deletes.           *)
LEMMA InsertDeleteCommute ==
  ASSUME NEW C, NEW d \in Seq(C), NEW a \in Edits(C), NEW b \in Edits(C),
         ~IsNoop(a), ~IsNoop(b), a.type = "insert", b.type = "delete",
         a.position <= Len(d), b.position + b.count <= Len(d),
         ~Inside(a, b)
  PROVE  Apply(Apply(d, a), Transform(b, a)) = Apply(Apply(d, b), Transform(a, b))
<1>1. PICK p, t, q, n, x, y, a1, b1 :
        /\ p = a.position /\ t = a.text /\ q = b.position /\ n = b.count
        /\ x = Apply(d, a) /\ y = Apply(d, b) /\ a1 = Transform(a, b) /\ b1 = Transform(b, a)
  OBVIOUS
<1>2. /\ p \in Nat /\ q \in Nat /\ t \in Seq(C) /\ n \in Nat
      /\ a.count = 0 /\ Len(t) \in Nat /\ Len(d) \in Nat
  BY <1>1, EditFields
<1>3. /\ n # 0 /\ p \in 0 .. Len(d) /\ q \in 0 .. Len(d) /\ n \in 0 .. Len(d) - q
      /\ p <= q \/ q + n <= p
  BY <1>1, <1>2 DEF IsNoop, Inside
<1>4. x = Inserted(d, p, t) /\ x \in Seq(C) /\ Len(x) = Len(d) + Len(t)
  BY <1>1, ApplyInsert
<1>5. y = Deleted(d, q, n) /\ y \in Seq(C) /\ Len(y) = Len(d) - n
  BY <1>1, ApplyDelete
<1>6. b1 \in Edits(C) /\ b1.type = "delete"
  BY <1>1, TransformTyped
<1>7. a1 \in Edits(C) /\ a1.type = "insert" /\ a1.text = t
  BY <1>1, TransformTyped
<1>8. b1.position = StartOver(b, a) /\ b1.count = CountOver(b, a)
  BY <1>1, TransformMoves
<1>9. a1.position = StartOver(a, b)
  BY <1>1, TransformMoves
<1>10. CASE p <= q
  <2>1. b1.position = q + Len(t) /\ b1.count = n /\ a1.position = p
    BY <1>1, <1>2, <1>3, <1>8, <1>9, <1>10 DEF StartOver, CountOver
  <2>2. Apply(x, b1) = Deleted(x, q + Len(t), n)
    <3>1. PICK r : r = q + Len(t)
      OBVIOUS
    <3>2. r + n <= Len(x) /\ x \in Seq(C)
      BY <1>2, <1>3, <1>4, <3>1
    <3>3. b1.position = r /\ b1.count = n
      BY <2>1, <3>1
    <3>4. Apply(x, b1) = Deleted(x, r, n)
      BY <1>6, <3>2, <3>3, ApplyDelete
    <3> QED
      BY <3>1, <3>4
  <2>3. Apply(y, a1) = Inserted(y, p, t)
    <3>1. p <= Len(y)
      BY <1>2, <1>3, <1>5, <1>10
    <3> QED
      BY <1>5, <1>7, <2>1, <3>1, ApplyInsert
  <2>4. q \in p .. Len(d)
    BY <1>2, <1>3, <1>10
  <2>5. Deleted(Inserted(d, p, t), q + Len(t), n) = Inserted(Deleted(d, q, n), p, t)
    BY <1>2, <1>3, <2>4, InsertBeforeDelete
  <2> QED
    BY <1>1, <1>4, <1>5, <2>2, <2>3, <2>5
<1>11. CASE q + n <= p
  <2>1. b1.position = q /\ b1.count = n /\ a1.position = p - n
    BY <1>1, <1>2, <1>3, <1>8, <1>9, <1>11 DEF StartOver, CountOver
  <2>2. Apply(x, b1) = Deleted(x, q, n)
    <3>1. q + n <= Len(x) /\ x \in Seq(C)
      BY <1>2, <1>3, <1>4
    <3> QED
      BY <1>6, <2>1, <3>1, ApplyDelete
  <2>3. Apply(y, a1) = Inserted(y, p - n, t)
    <3>1. p - n <= Len(y)
      BY <1>2, <1>3, <1>5, <1>11
    <3> QED
      BY <1>5, <1>7, <2>1, <3>1, ApplyInsert
  <2>4. p \in q + n .. Len(d)
    BY <1>2, <1>3, <1>11
  <2>5. Deleted(Inserted(d, p, t), q, n) = Inserted(Deleted(d, q, n), p - n, t)
    BY <1>2, <1>3, <2>4, DeleteBeforeInsert
  <2> QED
    BY <1>1, <1>4, <1>5, <2>2, <2>3, <2>5
<1> QED
  BY <1>3, <1>10, <1>11

(* Two deletes; the first begins no later than the second.                 *)
LEMMA DeletesCommute ==
  ASSUME NEW C, NEW d \in Seq(C), NEW a \in Edits(C), NEW b \in Edits(C),
         ~IsNoop(a), ~IsNoop(b), a.type = "delete", b.type = "delete",
         a.position + a.count <= Len(d), b.position + b.count <= Len(d),
         a.position <= b.position
  PROVE  Apply(Apply(d, a), Transform(b, a)) = Apply(Apply(d, b), Transform(a, b))
<1>1. PICK p, m, q, n, x, y, a1, b1 :
        /\ p = a.position /\ m = a.count /\ q = b.position /\ n = b.count
        /\ x = Apply(d, a) /\ y = Apply(d, b) /\ a1 = Transform(a, b) /\ b1 = Transform(b, a)
  OBVIOUS
<1>2. p \in Nat /\ q \in Nat /\ m \in Nat /\ n \in Nat /\ Len(d) \in Nat
  BY <1>1, EditFields
<1>3. /\ m # 0 /\ n # 0 /\ p <= q
      /\ p \in 0 .. Len(d) /\ q \in 0 .. Len(d)
      /\ m \in 0 .. Len(d) - p /\ n \in 0 .. Len(d) - q
  BY <1>1, <1>2 DEF IsNoop
<1>4. x = Deleted(d, p, m) /\ x \in Seq(C) /\ Len(x) = Len(d) - m
  BY <1>1, ApplyDelete
<1>5. y = Deleted(d, q, n) /\ y \in Seq(C) /\ Len(y) = Len(d) - n
  BY <1>1, ApplyDelete
<1>6. b1 \in Edits(C) /\ b1.type = "delete"
  BY <1>1, TransformTyped
<1>7. a1 \in Edits(C) /\ a1.type = "delete"
  BY <1>1, TransformTyped
<1>8. b1.position = StartOver(b, a) /\ b1.count = CountOver(b, a)
  BY <1>1, TransformMoves
<1>9. a1.position = StartOver(a, b) /\ a1.count = CountOver(a, b)
  BY <1>1, TransformMoves
<1>10. CASE p + m <= q
  <2>1. b1.position = q - m /\ b1.count = n
    BY <1>1, <1>2, <1>3, <1>8, <1>10 DEF StartOver, CountOver
  <2>2. a1.position = p /\ a1.count = m
    BY <1>1, <1>2, <1>3, <1>9, <1>10 DEF StartOver, CountOver
  <2>3. Apply(x, b1) = Deleted(x, q - m, n)
    <3>1. q - m + n <= Len(x)
      BY <1>2, <1>3, <1>4
    <3> QED
      BY <1>4, <1>6, <2>1, <3>1, ApplyDelete
  <2>4. Apply(y, a1) = Deleted(y, p, m)
    <3>1. p + m <= Len(y)
      BY <1>2, <1>3, <1>5, <1>10
    <3> QED
      BY <1>5, <1>7, <2>2, <3>1, ApplyDelete
  <2>5. q \in p + m .. Len(d)
    BY <1>2, <1>3, <1>10
  <2>6. Deleted(Deleted(d, p, m), q - m, n) = Deleted(Deleted(d, q, n), p, m)
    BY <1>2, <1>3, <2>5, DeleteDelete
  <2> QED
    BY <1>1, <1>4, <1>5, <2>3, <2>4, <2>6
<1>11. CASE q < p + m
  <2>1. PICK k, i, j : k = Smaller(p + m, q + n) - q /\ i = n - k /\ j = m - k
    OBVIOUS
  <2>2. k \in Nat /\ k <= m /\ k <= n /\ i \in Nat /\ j \in Nat /\ i + k = n /\ j + k = m
    BY <1>2, <1>3, <1>11, <2>1 DEF Smaller
  <2>3. b1.position = p /\ b1.count = i
    <3>1. ~(q >= p + m) /\ ~(q + n <= p) /\ Larger(q, p) = q
      BY <1>2, <1>3, <1>11 DEF Larger
    <3>2. Smaller(q + n, p + m) = Smaller(p + m, q + n)
      BY <1>2 DEF Smaller
    <3>3. StartOver(b, a) = p
      BY <1>1, <1>2, <1>3, <3>1 DEF StartOver
    <3>4. CountOver(b, a) = n - (Smaller(q + n, p + m) - Larger(q, p))
      BY <1>1, <3>1 DEF CountOver
    <3> QED
      BY <1>8, <2>1, <3>1, <3>2, <3>3, <3>4
  <2>4. a1.position = p /\ a1.count = j
    <3>1. ~(p >= q + n) /\ ~(p + m <= q) /\ Larger(p, q) = q
      BY <1>2, <1>3, <1>11 DEF Larger
    <3>2. StartOver(a, b) = p
      BY <1>1, <1>2, <1>3, <3>1 DEF StartOver
    <3>3. CountOver(a, b) = m - (Smaller(p + m, q + n) - Larger(p, q))
      BY <1>1, <3>1 DEF CountOver
    <3> QED
      BY <1>9, <2>1, <3>1, <3>2, <3>3
  <2>5. m + i = n + j
    BY <1>2, <2>1, <2>2
  <2>6. p + i <= Len(d) - m /\ p + j <= Len(d) - n /\ q <= p + j
    BY <1>2, <1>3, <1>11, <2>1 DEF Smaller
  <2>7. Apply(x, b1) = Deleted(x, p, i)
    BY <1>4, <1>6, <2>3, <2>6, ApplyDelete
  <2>8. Apply(y, a1) = Deleted(y, p, j)
    BY <1>5, <1>7, <2>4, <2>6, ApplyDelete
  <2>9. Deleted(Deleted(d, p, m), p, i) = Deleted(d, p, m + i)
    <3>1. p \in 0 .. p /\ i \in p - p .. Len(d) - m - p
      BY <1>2, <1>3, <2>2, <2>6
    <3> QED
      BY <1>3, <3>1, DeleteAround
  <2>10. Deleted(Deleted(d, q, n), p, j) = Deleted(d, p, n + j)
    <3>1. p \in 0 .. q /\ j \in q - p .. Len(d) - n - p
      BY <1>2, <1>3, <2>2, <2>6
    <3> QED
      BY <1>3, <3>1, DeleteAround
  <2> QED
    BY <1>1, <1>4, <1>5, <2>5, <2>7, <2>8, <2>9, <2>10
<1> QED
  BY <1>2, <1>10, <1>11

(* Two operations authored on one document end in one document whichever   *)
(* is committed first - unless one inserts strictly inside what the other  *)
(* deletes.                                                                *)
LEMMA Commute ==
  ASSUME NEW C, NEW d \in Seq(C), NEW a \in Edits(C), NEW b \in Edits(C),
         Settled(a, Len(d)), Settled(b, Len(d)), a.opId # b.opId,
         ~Inside(a, b), ~Inside(b, a)
  PROVE  Apply(Apply(d, a), Transform(b, a)) = Apply(Apply(d, b), Transform(a, b))
<1>1. CASE IsNoop(a)
  <2>1. Transform(b, a) = b /\ Transform(a, b) = a /\ Apply(d, a) = d
    BY <1>1, TransformIs, ApplySplices
  <2>2. Apply(d, b) \in Seq(C)
    BY ApplySplices
  <2>3. Apply(Apply(d, b), a) = Apply(d, b)
    BY <1>1, <2>2, ApplySplices
  <2> QED
    BY <2>1, <2>3
<1>2. CASE IsNoop(b)
  <2>1. Transform(b, a) = b /\ Transform(a, b) = a /\ Apply(d, b) = d
    BY <1>2, TransformIs, ApplySplices
  <2>2. Apply(d, a) \in Seq(C)
    BY ApplySplices
  <2>3. Apply(Apply(d, a), b) = Apply(d, a)
    BY <1>2, <2>2, ApplySplices
  <2> QED
    BY <2>1, <2>3
<1>3. CASE ~IsNoop(a) /\ ~IsNoop(b)
  <2>1. a.position + a.count <= Len(d) /\ b.position + b.count <= Len(d) /\ Len(d) \in Nat
    BY <1>3 DEF Settled
  <2>2. /\ a.type \in {"insert", "delete"} /\ b.type \in {"insert", "delete"}
        /\ a.position \in Nat /\ b.position \in Nat /\ a.count \in Nat /\ b.count \in Nat
        /\ a.opId \in Nat /\ b.opId \in Nat
    BY EditFields
  <2>3. a.position <= Len(d) /\ b.position <= Len(d)
    BY <2>1, <2>2
  <2>4. CASE a.type = "insert" /\ b.type = "insert"
    <3>1. \/ a.position < b.position \/ (a.position = b.position /\ a.opId < b.opId)
          \/ b.position < a.position \/ (b.position = a.position /\ b.opId < a.opId)
      BY <2>2
    <3> QED
      BY <1>3, <2>3, <2>4, <3>1, InsertsCommute
  <2>5. CASE a.type = "insert" /\ b.type = "delete"
    BY <1>3, <2>1, <2>3, <2>5, InsertDeleteCommute
  <2>6. CASE a.type = "delete" /\ b.type = "insert"
    BY <1>3, <2>1, <2>3, <2>6, InsertDeleteCommute
  <2>7. CASE a.type = "delete" /\ b.type = "delete"
    <3>1. a.position <= b.position \/ b.position <= a.position
      BY <2>2
    <3> QED
      BY <1>3, <2>1, <2>7, <3>1, DeletesCommute
  <2> QED
    BY <2>2, <2>4, <2>5, <2>6, <2>7
<1> QED
  BY <1>1, <1>2, <1>3

-----------------------------------------------------------------------------
(* The inductive invariant.                                                *)

(* What every variable holds, and how long it is. *)
Recorded ==
  /\ document \in Seq(Nat) /\ history \in Seq(Edits(Nat))
  /\ past \in Seq(Seq(Nat)) /\ authored \in Seq(Edits(Nat))
  /\ Len(past) = Len(history) + 1 /\ Len(authored) = Len(history)
  /\ document = past[Len(history) + 1]

(* The document, the operation and its author's version of one revision.   *)
MadeBy(i) ==
  /\ authored[i].baseRevision < i
  /\ history[i] = Entered(TransformOver(authored[i],
                            SubSeq(history, authored[i].baseRevision + 1, i - 1)),
                          Len(past[i]), i)
  /\ past[i + 1] = Apply(past[i], history[i])

EveryRevisionMade == \A i \in 1 .. Len(history) : MadeBy(i)

(* No operation is committed twice. *)
IdsDiffer ==
  \A i, j \in 1 .. Len(authored) : authored[i].opId = authored[j].opId => i = j

(* The characters that are used up. *)
Labelled ==
  /\ IsInjective(document)
  /\ \A k \in 1 .. Len(document) : document[k] <= 100 * (Len(history) + 1)

EditInv == Recorded /\ EveryRevisionMade /\ IdsDiffer /\ Labelled

LEMMA MadeByFits ==
  ASSUME Recorded, NEW i \in 1 .. Len(history), MadeBy(i)
  PROVE  /\ history[i] \in Edits(Nat) /\ past[i] \in Seq(Nat)
         /\ history[i].revision = i
         /\ history[i].position + history[i].count <= Len(past[i])
         /\ history[i].opId = authored[i].opId /\ history[i].type = authored[i].type
         /\ history[i].text = authored[i].text
<1>1. /\ history[i] \in Edits(Nat) /\ past[i] \in Seq(Nat) /\ authored[i] \in Edits(Nat)
      /\ i \in Nat /\ Len(past[i]) \in Nat /\ Len(history) \in Nat
  BY DEF Recorded
<1>2. PICK s, op, base : /\ base = authored[i].baseRevision
                         /\ s = SubSeq(history, base + 1, i - 1)
                         /\ op = TransformOver(authored[i], s)
  OBVIOUS
<1>3. history[i] = Entered(op, Len(past[i]), i)
  BY <1>2 DEF MadeBy
<1>6. base \in Nat
  BY <1>1, <1>2, EditFields
<1>7. base < i
  BY <1>2 DEF MadeBy
<1>8. base + 1 \in 1 .. i /\ i - 1 \in 0 .. Len(history)
  BY <1>1, <1>6, <1>7
<1>9. history \in Seq(Edits(Nat))
  BY DEF Recorded
<1>4. s \in Seq(Edits(Nat))
  BY <1>2, <1>8, <1>9
<1>5. /\ op \in Edits(Nat) /\ op.opId = authored[i].opId
      /\ op.type = authored[i].type /\ op.text = authored[i].text
  BY <1>1, <1>2, <1>4, TransformOverTyped, ZenonT(40)
<1>10. PICK size \in Nat : size = Len(past[i])
  BY <1>1
<1>11. PICK e : e = Entered(op, size, i)
  OBVIOUS
<1>13. i \in Nat /\ op \in Edits(Nat)
  BY <1>1, <1>5
<1>12. /\ e \in Edits(Nat) /\ e.revision = i /\ e.position + e.count <= size
       /\ e.opId = op.opId /\ e.type = op.type /\ e.text = op.text
  <2>1. e \in Edits(Nat)
    BY <1>11, <1>13, EnteredTyped
  <2>2. e.revision = i
    BY <1>11, <1>13, EnteredTyped, ZenonT(40)
  <2>3. e.position + e.count <= size
    BY <1>11, <1>13, EnteredTyped
  <2>4. e.opId = op.opId
    BY <1>11, <1>13, EnteredTyped, ZenonT(40)
  <2>5. e.type = op.type
    BY <1>11, <1>13, EnteredTyped, ZenonT(40)
  <2>6. e.text = op.text
    BY <1>11, <1>13, EnteredTyped, ZenonT(40)
  <2> QED
    BY <2>1, <2>2, <2>3, <2>4, <2>5, <2>6
<1> QED
  BY <1>1, <1>3, <1>5, <1>10, <1>11, <1>12

(* A client's operation. *)
LEMMA AuthoredIs ==
  ASSUME Recorded, NEW base \in 0 .. Revision, NEW id \in OpIds,
         NEW op \in InsertOps(base, id) \cup DeleteOps(base, id)
  PROVE  /\ op \in Edits(Nat) /\ op.baseRevision = base /\ op.opId = id
         /\ IsInjective(op.text)
         /\ \A k \in 1 .. Len(op.text) : /\ op.text[k] > 100 * (Len(history) + 1)
                                         /\ op.text[k] <= 100 * (Len(history) + 2)
<1>1. /\ base \in Nat /\ id \in Nat /\ Len(history) \in Nat /\ Revision = Len(history)
      /\ past[base + 1] \in Seq(Nat) /\ Len(past[base + 1]) \in Nat /\ Overshoot \in Nat
      /\ MaxText \in 0 .. 99
  BY EditAssumption DEF EditAssumption, Recorded, Revision
<1>2. CASE op \in InsertOps(base, id)
  <2>1. PICK p \in 0 .. Len(past[base + 1]) + Overshoot, n \in 1 .. MaxText :
          op = [type |-> "insert", position |-> p, text |-> FreshText(n), count |-> 0,
                baseRevision |-> base, revision |-> 0, clientId |-> id, opId |-> id]
    BY <1>2 DEF InsertOps
  <2>2. PICK t : t = FreshText(n)
    OBVIOUS
  <2>3. n \in 1 .. 99 /\ p \in Nat
    <3>1. n \in Nat /\ n <= MaxText /\ 1 <= n /\ MaxText <= 99
      BY <1>1
    <3>2. Len(past[base + 1]) + Overshoot \in Nat
      BY <1>1
    <3>3. p \in Nat
      BY <3>2
    <3>4. n \in 1 .. 99
      BY <1>1, <3>1
    <3> QED
      BY <3>3, <3>4
  <2>4. t = [k \in 1 .. n |-> 100 * (Len(history) + 1) + k]
    BY <1>1, <2>2 DEF FreshText
  <2>5. /\ t \in Seq(Nat) /\ Len(t) = n /\ DOMAIN t = 1 .. n
        /\ \A k \in 1 .. n : t[k] = 100 * (Len(history) + 1) + k
    BY <1>1, <2>3, <2>4
  <2>6. IsInjective(t)
    BY <1>1, <2>3, <2>5 DEF IsInjective
  <2>7. \A k \in 1 .. Len(t) : /\ t[k] > 100 * (Len(history) + 1)
                               /\ t[k] <= 100 * (Len(history) + 2)
    <3> TAKE k \in 1 .. Len(t)
    <3>1. k \in 1 .. 99 /\ t[k] = 100 * (Len(history) + 1) + k
      BY <2>3, <2>5
    <3>2. PICK m \in Nat : m = Len(history)
      BY <1>1
    <3> QED
      BY <3>1, <3>2
  <2>8. op = [type |-> "insert", position |-> p, text |-> t, count |-> 0,
              baseRevision |-> base, revision |-> 0, clientId |-> id, opId |-> id]
    BY <2>1, <2>2
  <2>9. op \in Edits(Nat) /\ op.baseRevision = base /\ op.opId = id /\ op.text = t
    BY <1>1, <2>3, <2>5, <2>8 DEF Edits, Operation, OpType
  <2> QED
    BY <2>6, <2>7, <2>9
<1>3. CASE op \in DeleteOps(base, id)
  <2>1. PICK p \in 0 .. Len(past[base + 1]) + Overshoot,
             n \in 1 .. Len(past[base + 1]) + Overshoot :
          op = [type |-> "delete", position |-> p, text |-> <<>>, count |-> n,
                baseRevision |-> base, revision |-> 0, clientId |-> id, opId |-> id]
    BY <1>3 DEF DeleteOps
  <2>2. p \in Nat /\ n \in Nat
    BY <1>1
  <2>3. <<>> \in Seq(Nat)
    OBVIOUS
  <2>4. op \in Edits(Nat) /\ op.baseRevision = base /\ op.opId = id /\ op.text = <<>>
    BY <1>1, <2>1, <2>2, <2>3 DEF Edits, Operation, OpType
  <2>5. Len(op.text) = 0 /\ DOMAIN op.text = {}
    BY <2>4
  <2> QED
    BY <2>4, <2>5 DEF IsInjective
<1> QED
  BY <1>2, <1>3

(* Applying an operation to a document of distinct characters.             *)
LEMMA ApplyKeepsDistinct ==
  ASSUME NEW d \in Seq(Nat), NEW op \in Edits(Nat), NEW low \in Nat, NEW high \in Nat,
         low <= high, op.position + op.count <= Len(d),
         IsInjective(d), \A k \in 1 .. Len(d) : d[k] <= low,
         IsInjective(op.text),
         \A k \in 1 .. Len(op.text) : op.text[k] > low /\ op.text[k] <= high
  PROVE  /\ IsInjective(Apply(d, op))
         /\ \A k \in 1 .. Len(Apply(d, op)) : Apply(d, op)[k] <= high
<1>1. PICK x, p, t, n : x = Apply(d, op) /\ p = op.position /\ t = op.text /\ n = op.count
  OBVIOUS
<1>2. /\ p \in Nat /\ n \in Nat /\ t \in Seq(Nat) /\ op.type \in {"insert", "delete"}
      /\ (op.type = "insert" => n = 0) /\ Len(t) \in Nat /\ Len(d) \in Nat /\ p + n <= Len(d)
  BY <1>1, EditFields
<1>3. /\ DOMAIN d = 1 .. Len(d) /\ DOMAIN t = 1 .. Len(t)
      /\ (\A k \in 1 .. Len(d) : d[k] \in Nat) /\ (\A k \in 1 .. Len(t) : t[k] \in Nat)
  BY <1>2
<1>4. CASE op.type = "insert"
  <2>1. p \in 0 .. Len(d) /\ x = Inserted(d, p, t) /\ x \in Seq(Nat)
    <3>1. p <= Len(d)
      BY <1>2
    <3> QED
      BY <1>1, <1>2, <1>4, <3>1, ApplyInsert
  <2>2. IsInserted(x, d, p, t)
    BY <1>2, <2>1, InsertedAt
  <2>3. DOMAIN x = 1 .. Len(d) + Len(t)
    BY <2>1, <2>2 DEF IsInserted
  <2> DEFINE Old(k, a) == /\ a \in 1 .. Len(d) /\ x[k] = d[a]
                          /\ k = IF a <= p THEN a ELSE a + Len(t)
             New(k, a) == a \in 1 .. Len(t) /\ x[k] = t[a] /\ k = a + p
  <2>7. ASSUME NEW k \in DOMAIN x PROVE \E a : Old(k, a) \/ New(k, a)
    <3>1. /\ x[k] = IF k <= p THEN d[k] ELSE IF k <= p + Len(t) THEN t[k - p] ELSE d[k - Len(t)]
          /\ k \in 1 .. Len(d) + Len(t)
      BY <2>2, <2>3 DEF IsInserted
    <3>2. CASE k <= p
      <4>1. Old(k, k)
        BY <1>2, <2>1, <3>1, <3>2
      <4> QED
        BY <4>1
    <3>3. CASE k > p /\ k <= p + Len(t)
      <4>1. k - p \in 1 .. Len(t) /\ k = (k - p) + p /\ ~(k <= p)
        BY <1>2, <3>1, <3>3
      <4>2. x[k] = t[k - p]
        BY <3>1, <3>3, <4>1
      <4>3. New(k, k - p)
        BY <4>1, <4>2
      <4> QED
        BY <4>3
    <3>4. CASE k > p + Len(t)
      <4>1. /\ k - Len(t) \in 1 .. Len(d) /\ ~(k - Len(t) <= p) /\ k - Len(t) + Len(t) = k
            /\ ~(k <= p) /\ ~(k <= p + Len(t))
        BY <1>2, <2>1, <3>1, <3>4, SMTT(30)
      <4>2. Old(k, k - Len(t))
        BY <3>1, <4>1
      <4> QED
        BY <4>2
    <3> QED
      BY <1>2, <3>1, <3>2, <3>3, <3>4
  <2>4. ASSUME NEW i \in DOMAIN x, NEW j \in DOMAIN x, x[i] = x[j] PROVE i = j
    <3>2. \A k, l \in 1 .. Len(d) : d[k] = d[l] => k = l
      BY <1>3 DEF IsInjective
    <3>3. \A k, l \in 1 .. Len(t) : t[k] = t[l] => k = l
      BY <1>1, <1>3 DEF IsInjective
    <3>4. \A k \in 1 .. Len(d), l \in 1 .. Len(t) : d[k] # t[l]
      BY <1>1, <1>3, SMTT(30)
    <3>5. PICK a : Old(i, a) \/ New(i, a)
      BY <2>7
    <3>6. PICK b : Old(j, b) \/ New(j, b)
      BY <2>7
    <3>7. ~(Old(i, a) /\ New(j, b)) /\ ~(New(i, a) /\ Old(j, b))
      BY <2>4, <3>4
    <3>8. a = b
      BY <2>4, <3>2, <3>3, <3>5, <3>6, <3>7
    <3> QED
      BY <3>5, <3>6, <3>7, <3>8
  <2>5. IsInjective(x)
    BY <2>3, <2>4 DEF IsInjective
  <2>6. ASSUME NEW k \in 1 .. Len(x) PROVE x[k] <= high
    <3>1. k \in DOMAIN x
      BY <2>2, <2>3 DEF IsInserted
    <3>2. PICK a : Old(k, a) \/ New(k, a)
      BY <2>7, <3>1
    <3>3. Old(k, a) => x[k] \in Nat /\ x[k] <= low
      BY <1>3
    <3>4. New(k, a) => x[k] <= high
      BY <1>1
    <3> HIDE DEF Old, New
    <3> QED
      BY <3>2, <3>3, <3>4
  <2> QED
    BY <1>1, <2>5, <2>6
<1>5. CASE op.type = "delete"
  <2>1. x = Deleted(d, p, n) /\ x \in Seq(Nat) /\ p \in 0 .. Len(d) /\ n \in 0 .. Len(d) - p
    BY <1>1, <1>2, <1>5, ApplyDelete
  <2>2. IsDeleted(x, d, p, n)
    BY <1>2, <2>1, DeletedAt
  <2>3. DOMAIN x = 1 .. Len(d) - n
    BY <2>1, <2>2 DEF IsDeleted
  <2> DEFINE Old(k, a) == /\ a \in 1 .. Len(d) /\ x[k] = d[a]
                          /\ k = IF a <= p THEN a ELSE a - n
  <2>7. ASSUME NEW k \in DOMAIN x PROVE \E a : Old(k, a)
    <3>1. /\ x[k] = IF k <= p THEN d[k] ELSE d[k + n]
          /\ k \in 1 .. Len(d) - n
      BY <2>2, <2>3 DEF IsDeleted
    <3>2. CASE k <= p
      <4>1. Old(k, k)
        BY <1>2, <2>1, <3>1, <3>2
      <4> QED
        BY <4>1
    <3>3. CASE k > p
      <4>1. k \in Nat /\ k <= Len(d) - n /\ 1 <= k
        BY <1>2, <3>1
      <4>0. n \in Nat /\ p \in Nat /\ Len(d) \in Nat
        BY <1>2
      <4>2. k + n \in 1 .. Len(d) /\ ~(k + n <= p) /\ k + n - n = k /\ ~(k <= p)
        BY <3>3, <4>0, <4>1
      <4>3. x[k] = d[k + n]
        BY <3>1, <4>2
      <4>5. PICK a : a = k + n
        OBVIOUS
      <4>6. a \in 1 .. Len(d) /\ ~(a <= p) /\ k = a - n /\ x[k] = d[a]
        BY <4>0, <4>1, <4>2, <4>3, <4>5
      <4>4. Old(k, a)
        BY <4>6
      <4> QED
        BY <4>4
    <3>4. k \in Nat
      BY <1>2, <3>1
    <3> QED
      BY <1>2, <3>2, <3>3, <3>4
  <2>4. ASSUME NEW i \in DOMAIN x, NEW j \in DOMAIN x, x[i] = x[j] PROVE i = j
    <3>1. \A k, l \in 1 .. Len(d) : d[k] = d[l] => k = l
      BY <1>3 DEF IsInjective
    <3>2. PICK a : Old(i, a)
      BY <2>7
    <3>3. PICK b : Old(j, b)
      BY <2>7
    <3> QED
      BY <2>4, <3>1, <3>2, <3>3
  <2>5. IsInjective(x)
    BY <2>3, <2>4 DEF IsInjective
  <2>6. ASSUME NEW k \in 1 .. Len(x) PROVE x[k] <= high
    <3>1. k \in DOMAIN x
      BY <2>2, <2>3 DEF IsDeleted
    <3>2. PICK a : Old(k, a)
      BY <2>7, <3>1
    <3>3. x[k] \in Nat /\ x[k] <= low
      BY <1>3, <3>2
    <3> HIDE DEF Old
    <3> QED
      BY <3>3
  <2> QED
    BY <1>1, <2>5, <2>6
<1> QED
  BY <1>2, <1>4, <1>5

LEMMA EditInvInit ==
  EditAssumption /\ EditInit => EditInv
<1> SUFFICES ASSUME EditAssumption, EditInit PROVE EditInv
  OBVIOUS
<1>7. document \in Seq(1 .. 100) /\ IsInjective(document)
  BY DEF EditAssumption, EditInit, Init
<1>9. PICK d : d = document
  OBVIOUS
<1>10. d \in Seq(1 .. 100)
  BY <1>7, <1>9
<1>12. \A k \in 1 .. Len(d) : d[k] \in 1 .. 100
  BY <1>10, ElementOfSeq
<1>13. \A k \in 1 .. Len(d) : d[k] <= 100
  <2>1. \A v \in 1 .. 100 : v <= 100
    OBVIOUS
  <2> QED
    BY <1>12, <2>1, Zenon
<1>14. d \in Seq(Nat)
  <2>1. 1 .. 100 \subseteq Nat
    OBVIOUS
  <2> QED
    BY <1>10, <2>1, SeqMonotonic
<1>11. d \in Seq(Nat) /\ \A k \in 1 .. Len(d) : d[k] <= 100
  BY <1>13, <1>14
<1>1. /\ document \in Seq(Nat) /\ (\A k \in 1 .. Len(document) : document[k] <= 100)
      /\ IsInjective(document)
  BY <1>7, <1>9, <1>11
<1>2. Len(history) = 0 /\ history \in Seq(Edits(Nat)) /\ authored \in Seq(Edits(Nat)) /\ Len(authored) = 0
  BY DEF EditInit, Init
<1>3. past \in Seq(Seq(Nat)) /\ Len(past) = 1 /\ past[1] = document
  BY <1>1 DEF EditInit, Init
<1>4. Recorded
  BY <1>1, <1>2, <1>3 DEF Recorded
<1>5. EveryRevisionMade /\ IdsDiffer
  BY <1>2 DEF EveryRevisionMade, IdsDiffer
<1>6. Labelled
  BY <1>1, <1>2 DEF Labelled
<1> QED
  BY <1>4, <1>5, <1>6 DEF EditInv

(* One commit. *)
LEMMA CommitKeeps ==
  ASSUME EditInv, NEW base \in 0 .. Revision,
         NEW id \in OpIds \ { history[r].opId : r \in 1 .. Revision },
         NEW op \in InsertOps(base, id) \cup DeleteOps(base, id), CommitEdit(op)
  PROVE  EditInv'
<1>0. Recorded /\ EveryRevisionMade /\ IdsDiffer /\ Labelled
  BY DEF EditInv
<1>20. PICK n \in Nat : n = Len(history)
  BY <1>0 DEF Recorded
<1>1. /\ n = Len(history) /\ n \in Nat /\ document \in Seq(Nat) /\ Len(document) \in Nat
      /\ base \in 0 .. n /\ base \in Nat /\ document = past[n + 1]
      /\ history \in Seq(Edits(Nat)) /\ authored \in Seq(Edits(Nat))
      /\ past \in Seq(Seq(Nat)) /\ Len(past) = n + 1 /\ Len(authored) = n
  BY <1>0, <1>20 DEF Recorded, Revision
<1>2. /\ op \in Edits(Nat) /\ op.baseRevision = base /\ op.opId = id
      /\ IsInjective(op.text)
      /\ \A k \in 1 .. Len(op.text) : op.text[k] > 100 * (n + 1) /\ op.text[k] <= 100 * (n + 2)
  BY <1>0, <1>20, AuthoredIs
<1>3. PICK missed, o, c, d : /\ missed = SubSeq(history, base + 1, n)
                             /\ o = TransformOver(op, missed)
                             /\ c = Entered(o, Len(document), n + 1)
                             /\ d = Apply(document, c)
  OBVIOUS
<1>4. Committed(op) = c
  <2>1. Smaller(op.baseRevision, n) = base
    BY <1>1, <1>2 DEF Smaller
  <2> QED
    BY <1>3, <1>20, <2>1 DEF Committed, CommittedTo, Entered
<1>5. missed \in Seq(Edits(Nat))
  BY <1>1, <1>3
<1>16. op \in Edits(Nat) /\ op.opId = id
  BY <1>2
<1>6. o \in Edits(Nat) /\ o.type = op.type /\ o.text = op.text /\ o.opId = id
  BY <1>3, <1>5, <1>16, TransformOverTyped, ZenonT(40)
<1>7. n + 1 \in Nat
  BY <1>1
<1>8. /\ c \in Edits(Nat) /\ c.position + c.count <= Len(document) /\ c.text = op.text
  <2>1. PICK size \in Nat : size = Len(document)
    BY <1>1
  <2>2. PICK r \in Nat : r = n + 1
    BY <1>7
  <2>3. o \in Edits(Nat) /\ c = Entered(o, size, r)
    BY <1>3, <1>6, <2>1, <2>2
  <2>4. c \in Edits(Nat)
    BY <2>3, EnteredTyped
  <2>5. c.position + c.count <= size
    <3>1. Entered(o, size, r).position + Entered(o, size, r).count <= size
      BY <2>3, EnteredTyped
    <3> QED
      BY <2>3, <3>1
  <2>6. c.text = o.text
    <3>1. o \in Edits(Nat)
      BY <2>3
    <3>2. Entered(o, size, r).text = o.text
      BY <3>1, EnteredTyped
    <3> QED
      BY <2>3, <3>2
  <2> QED
    BY <1>6, <2>1, <2>4, <2>5, <2>6
<1>9. d \in Seq(Nat)
  BY <1>1, <1>3, <1>8, ApplySplices
<1>10. /\ document' = d /\ history' = Append(history, c)
       /\ past' = Append(past, d) /\ authored' = Append(authored, op)
  BY <1>3, <1>4 DEF CommitEdit, Commit
<1>11. /\ Len(history') = n + 1 /\ Len(authored') = n + 1 /\ Len(past') = n + 2
       /\ \A i \in 1 .. n : history'[i] = history[i] /\ authored'[i] = authored[i]
       /\ \A i \in 1 .. n + 1 : past'[i] = past[i]
       /\ history'[n + 1] = c /\ authored'[n + 1] = op /\ past'[n + 2] = d
  <2>1. Len(history') = n + 1 /\ history'[n + 1] = c /\ \A i \in 1 .. n : history'[i] = history[i]
    BY <1>1, <1>8, <1>10
  <2>2. Len(authored') = n + 1 /\ authored'[n + 1] = op /\ \A i \in 1 .. n : authored'[i] = authored[i]
    BY <1>1, <1>2, <1>10
  <2>3. Len(past') = n + 2 /\ past'[n + 2] = d /\ \A i \in 1 .. n + 1 : past'[i] = past[i]
    <3>1. Len(past') = n + 1 + 1 /\ past'[n + 1 + 1] = d
      BY <1>1, <1>9, <1>10
    <3>2. n + 1 + 1 = n + 2
      BY <1>1
    <3>3. \A i \in 1 .. n + 1 : past'[i] = past[i]
      BY <1>1, <1>9, <1>10
    <3> QED
      BY <3>1, <3>2, <3>3
  <2> QED
    BY <2>1, <2>2, <2>3
<1>12. Recorded'
  <2>1. history' \in Seq(Edits(Nat)) /\ authored' \in Seq(Edits(Nat)) /\ past' \in Seq(Seq(Nat))
    BY <1>1, <1>2, <1>8, <1>9, <1>10
  <2>2. Len(history') + 1 = n + 2
    BY <1>1, <1>11
  <2> QED
    BY <1>9, <1>10, <1>11, <2>1, <2>2 DEF Recorded
<1>13. EveryRevisionMade'
  <2>1. ASSUME NEW i \in 1 .. n PROVE MadeBy(i)'
    <3>1. MadeBy(i)
      BY <1>0, <1>20 DEF EveryRevisionMade
    <3>2. authored[i] \in Edits(Nat) /\ i \in Nat
      BY <1>1
    <3>3. PICK b \in Nat : b = authored[i].baseRevision
      BY <3>2, EditFields
    <3>4. b < i
      BY <3>1, <3>3 DEF MadeBy
    <3>5. i - 1 \in 0 .. n /\ b + 1 \in 1 .. (i - 1) + 1
      BY <1>1, <3>2, <3>4
    <3>6. SubSeq(history', b + 1, i - 1) = SubSeq(history, b + 1, i - 1)
      BY <1>1, <1>8, <1>10, <3>5, SubSeqOfAppend
    <3>7. i \in 1 .. n + 1 /\ i + 1 \in 1 .. n + 1
      BY <1>1
    <3>8. /\ history'[i] = history[i] /\ authored'[i] = authored[i]
          /\ past'[i] = past[i] /\ past'[i + 1] = past[i + 1]
      BY <1>11, <3>7
    <3> QED
      BY <3>1, <3>3, <3>6, <3>8 DEF MadeBy
  <2>2. MadeBy(n + 1)'
    <3>1. n + 1 - 1 = n /\ n \in 0 .. n /\ base + 1 \in 1 .. n + 1
      BY <1>1
    <3>7. SubSeq(Append(history, c), base + 1, n) = SubSeq(history, base + 1, n)
      <4>1. PICK b, i : b = base + 1 /\ i = n
        OBVIOUS
      <4>2. i \in 0 .. Len(history) /\ b \in 1 .. i + 1
        BY <1>1, <3>1, <4>1
      <4>3. history \in Seq(Edits(Nat)) /\ c \in Edits(Nat)
        BY <1>1, <1>8
      <4>4. SubSeq(Append(history, c), b, i) = SubSeq(history, b, i)
        BY <4>2, <4>3, SubSeqOfAppend
      <4> QED
        BY <4>1, <4>4
    <3>2. SubSeq(history', base + 1, n) = missed
      BY <1>3, <1>10, <3>7
    <3>8. n + 1 \in 1 .. n + 1 /\ n + 1 + 1 = n + 2
      BY <1>1
    <3>3. past'[n + 1] = document /\ n + 1 + 1 = n + 2
      BY <1>1, <1>11, <3>8
    <3>4. base < n + 1
      BY <1>1
    <3>5. history'[n + 1] = Entered(TransformOver(op, SubSeq(history', base + 1, n)), Len(document), n + 1)
      BY <1>3, <1>11, <3>2
    <3>6. past'[n + 2] = Apply(document, history'[n + 1])
      BY <1>3, <1>11
    <3>9. authored'[n + 1] = op /\ op.baseRevision = base /\ past'[n + 1 + 1] = past'[n + 2]
      BY <1>2, <1>11, <3>3
    <3> QED
      BY <3>1, <3>3, <3>4, <3>5, <3>6, <3>9 DEF MadeBy
  <2>3. \A i \in 1 .. n + 1 : i \in 1 .. n \/ i = n + 1
    BY <1>1
  <2>4. Len(history') = n + 1
    BY <1>11
  <2> HIDE DEF MadeBy
  <2> QED
    BY <2>1, <2>2, <2>3, <2>4 DEF EveryRevisionMade
<1>14. IdsDiffer'
  <2>1. ASSUME NEW i \in 1 .. n PROVE authored[i].opId # id
    <3>1. MadeBy(i) /\ i \in 1 .. Len(history)
      BY <1>0, <1>20 DEF EveryRevisionMade
    <3>2. history[i].opId = authored[i].opId
      BY <1>0, <3>1, MadeByFits
    <3> QED
      BY <1>20, <3>2 DEF Revision
  <2>2. \A i \in 1 .. n + 1 : i \in 1 .. n \/ i = n + 1
    BY <1>1
  <2>3. \A i, j \in 1 .. n : authored[i].opId = authored[j].opId => i = j
    BY <1>0, <1>1 DEF IdsDiffer
  <2> QED
    BY <1>2, <1>11, <2>1, <2>2, <2>3 DEF IdsDiffer
<1>15. Labelled'
  <2>1. PICK low, high : low = 100 * (n + 1) /\ high = 100 * (n + 2)
    OBVIOUS
  <2>2. low \in Nat /\ high \in Nat /\ low <= high /\ high = 100 * (n + 1 + 1)
    BY <1>1, <2>1
  <2>3. IsInjective(document) /\ \A k \in 1 .. Len(document) : document[k] <= low
    BY <1>0, <1>20, <2>1 DEF Labelled
  <2>4. IsInjective(c.text) /\ \A k \in 1 .. Len(c.text) : c.text[k] > low /\ c.text[k] <= high
    BY <1>2, <1>8, <2>1
  <2>6. document \in Seq(Nat) /\ c \in Edits(Nat) /\ c.position + c.count <= Len(document)
    BY <1>1, <1>8
  <2>7. IsInjective(Apply(document, c))
    BY <2>2, <2>3, <2>4, <2>6, ApplyKeepsDistinct, ZenonT(120)
  <2>8. \A k \in 1 .. Len(Apply(document, c)) : Apply(document, c)[k] <= high
    BY <2>2, <2>3, <2>4, <2>6, ApplyKeepsDistinct, ZenonT(120)
  <2>5. IsInjective(d) /\ \A k \in 1 .. Len(d) : d[k] <= high
    BY <1>3, <2>7, <2>8
  <2> QED
    BY <1>10, <1>11, <2>2, <2>5 DEF Labelled
<1> QED
  BY <1>12, <1>13, <1>14, <1>15 DEF EditInv

LEMMA EditInvInvariant ==
  EditSpec => []EditInv
<1>1. EditInit => EditInv
  BY EditInvInit, EditAssumption
<1>2. EditInv /\ [EditNext]_vars => EditInv'
  <2> SUFFICES ASSUME EditInv, [EditNext]_vars PROVE EditInv'
    OBVIOUS
  <2>1. CASE EditNext
    BY <2>1, CommitKeeps, EditAssumption DEF EditNext
  <2>2. CASE UNCHANGED vars
    BY <2>2 DEF vars, EditInv, Recorded, EveryRevisionMade, MadeBy, IdsDiffer, Labelled
  <2> QED
    BY <2>1, <2>2
<1> QED
  BY <1>1, <1>2, PTL DEF EditSpec

-----------------------------------------------------------------------------
(* Every document is a sequence of distinct characters, and the history    *)
(* numbers its operations as they were committed and keeps each within the *)
(* document it was applied to: DocumentSession::commit clamps after it has *)
(* transformed, and a browser applies what it gets without clamping count. *)
THEOREM EditTypes == EditSpec => []TypeOK
<1>1. EditInv => TypeOK
  <2> SUFFICES ASSUME EditInv PROVE TypeOK
    OBVIOUS
  <2>1. Recorded /\ EveryRevisionMade /\ Labelled
    BY DEF EditInv
  <2>2. ASSUME NEW i \in DOMAIN history
        PROVE  /\ history[i] \in Operation(Nat) /\ history[i].revision = i
               /\ history[i].position + history[i].count <= Len(past[i])
    <3>1. i \in 1 .. Len(history) /\ MadeBy(i)
      BY <2>1 DEF Recorded, EveryRevisionMade
    <3> QED
      BY <2>1, <3>1, MadeByFits, EditFields
  <2> QED
    BY <2>1, <2>2 DEF TypeOK, Recorded, Labelled, Revision
<1> QED
  BY <1>1, EditInvInvariant, PTL

(* Whoever applies operations_since(r) to the document of revision r ends  *)
(* at the current document.                                                *)
THEOREM CatchUpArrives == EditSpec => []CatchUpReproduces
<1>1. EditInv => CatchUpReproduces
  <2> SUFFICES ASSUME EditInv, NEW r \in 0 .. Revision
               PROVE  FoldLeft(Apply, past[r + 1], OperationsSince(r)) = document
    BY DEF CatchUpReproduces
  <2>0. Recorded /\ EveryRevisionMade
    BY DEF EditInv
  <2>1. PICK n, s : n = Len(history) /\ s = SubSeq(history, r + 1, n)
    OBVIOUS
  <2>2. /\ n \in Nat /\ r \in Nat /\ r <= n /\ history \in Seq(Edits(Nat))
        /\ Len(past) = n + 1 /\ past \in Seq(Seq(Nat)) /\ document = past[n + 1]
    BY <2>0, <2>1 DEF Recorded, Revision
  <2>3. /\ s \in Seq(Edits(Nat)) /\ Len(s) = n - r
        /\ \A i \in 1 .. n - r : s[i] = history[r + i]
    <3>1. r + 1 \in 1 .. n + 1
      BY <2>2
    <3>2. s \in Seq(Edits(Nat)) /\ Len(s) = n - (r + 1) + 1
      BY <2>1, <2>2, <3>1
    <3>3. ASSUME NEW i \in 1 .. n - r PROVE s[i] = history[r + i]
      <4>1. i \in 1 .. n - (r + 1) + 1 /\ r + 1 + i - 1 = r + i
        BY <2>2
      <4> QED
        BY <2>1, <2>2, <3>1, <3>2, <4>1
    <3> QED
      BY <2>2, <3>2, <3>3
  <2> DEFINE docs == [i \in 0 .. n - r |-> past[r + 1 + i]]
  <2>4. docs \in [0 .. Len(s) -> Seq(Nat)]
    <3>1. \A i \in 0 .. n - r : past[r + 1 + i] \in Seq(Nat)
      <4> TAKE i \in 0 .. n - r
      <4>1. r + 1 + i \in 1 .. n + 1
        BY <2>2
      <4> QED
        BY <2>2, <4>1, ElementOfSeq
    <3> QED
      BY <2>3, <3>1
  <2>5. ASSUME NEW i \in 1 .. Len(s) PROVE docs[i] = Apply(docs[i - 1], s[i])
    <3>1. i \in 1 .. n - r /\ i \in 0 .. n - r /\ i - 1 \in 0 .. n - r
      BY <2>2, <2>3
    <3>2. r + i \in 1 .. n /\ r + 1 + i = r + i + 1 /\ r + 1 + (i - 1) = r + i
      BY <2>2, <3>1
    <3>3. past[r + i + 1] = Apply(past[r + i], history[r + i])
      BY <2>0, <2>1, <3>2 DEF EveryRevisionMade, MadeBy
    <3>4. docs[i] = past[r + i + 1] /\ docs[i - 1] = past[r + i]
      BY <3>1, <3>2
    <3> QED
      BY <2>3, <3>1, <3>3, <3>4
  <2>6. docs[0] = past[r + 1] /\ docs[Len(s)] = document
    <3>1. 0 \in 0 .. n - r /\ n - r \in 0 .. n - r /\ r + 1 + 0 = r + 1 /\ r + 1 + (n - r) = n + 1
      BY <2>2
    <3> QED
      BY <2>2, <2>3, <3>1
  <2>7. OperationsSince(r) = s
    BY <2>1 DEF OperationsSince, Revision
  <2> HIDE DEF docs
  <2>8. FoldLeft(Apply, docs[0], s) = docs[Len(s)]
    BY <2>3, <2>4, <2>5, ApplyOver
  <2> QED
    BY <2>6, <2>7, <2>8
<1> QED
  BY <1>1, EditInvInvariant, PTL

-----------------------------------------------------------------------------
(* Committing in another order.                                            *)

(* A session as CommitTo keeps it. *)
Sessions(C) == [document: Seq(C), history: Seq(Edits(C))]

(* It after operation o, as it meets the document. *)
IsCommitted(y, x, o) ==
  /\ y.document = Apply(x.document, o)
  /\ y.history = Append(x.history, Entered(o, Len(x.document), Len(x.history) + 1))

LEMMA CommitToIs ==
  ASSUME NEW C, NEW x \in Sessions(C), NEW op \in Edits(C), NEW m \in Seq(Edits(C)),
         op.baseRevision <= Len(x.history),
         m = SubSeq(x.history, op.baseRevision + 1, Len(x.history))
  PROVE  IsCommitted(CommitTo(x, op), x, TransformOver(op, m))
<1>1. /\ x.document \in Seq(C) /\ x.history \in Seq(Edits(C)) /\ op.baseRevision \in Nat
      /\ Len(x.history) \in Nat
  BY EditFields DEF Sessions
<1>2. Smaller(op.baseRevision, Len(x.history)) = op.baseRevision
  BY <1>1 DEF Smaller
<1>3. PICK o, c : o = TransformOver(op, m) /\ c = CommittedTo(x.document, x.history, op)
  OBVIOUS
<1>4. c = Entered(o, Len(x.document), Len(x.history) + 1)
  BY <1>2, <1>3 DEF CommittedTo, Entered
<1>5. o \in Edits(C)
  BY <1>3, TransformOverTyped
<1>6. Apply(x.document, c) = Apply(x.document, o)
  BY <1>1, <1>4, <1>5, EnteredApplies
<1>7. CommitTo(x, op) = [document |-> Apply(x.document, c), history |-> Append(x.history, c)]
  BY <1>3 DEF CommitTo
<1> QED
  BY <1>3, <1>4, <1>6, <1>7 DEF IsCommitted

LEMMA CommitToTyped ==
  ASSUME NEW C, NEW x \in Sessions(C), NEW op \in Edits(C)
  PROVE  CommitTo(x, op) \in Sessions(C)
<1>1. /\ x.document \in Seq(C) /\ x.history \in Seq(Edits(C)) /\ op.baseRevision \in Nat
      /\ Len(x.history) \in Nat /\ Len(x.document) \in Nat
  BY EditFields DEF Sessions
<1>2. PICK n, h, b : /\ n \in Nat /\ n = Len(x.history) /\ h = x.history
                     /\ b = Smaller(op.baseRevision, n)
  BY <1>1
<1>3. PICK m, o, c : /\ m = SubSeq(h, b + 1, n)
                     /\ o = TransformOver(op, m) /\ c = CommittedTo(x.document, h, op)
  OBVIOUS
<1>4. m \in Seq(Edits(C))
  <2>1. b + 1 \in 1 .. n + 1
    BY <1>1, <1>2 DEF Smaller
  <2> QED
    BY <1>1, <1>2, <1>3, <2>1
<1>5. o \in Edits(C)
  BY <1>3, <1>4, TransformOverTyped
<1>6. c = Entered(o, Len(x.document), n + 1)
  BY <1>2, <1>3 DEF CommittedTo, Entered
<1>7. c \in Edits(C)
  <2>1. n + 1 \in Nat
    BY <1>2
  <2> QED
    BY <1>1, <1>5, <1>6, <2>1, EnteredTyped
<1>8. Apply(x.document, c) \in Seq(C) /\ Append(h, c) \in Seq(Edits(C))
  BY <1>1, <1>2, <1>7, ApplySplices
<1>9. CommitTo(x, op) = [document |-> Apply(x.document, c), history |-> Append(h, c)]
  BY <1>2, <1>3 DEF CommitTo
<1> QED
  BY <1>8, <1>9 DEF Sessions

(* The sessions along a series of commits.  *)
Commits(t, base, s) ==
  /\ t[0] = base
  /\ \A i \in 1 .. Len(s) : t[i] = CommitTo(t[i - 1], s[i])

LEMMA CommitRuns ==
  ASSUME NEW C, NEW base \in Sessions(C), NEW s \in Seq(Edits(C))
  PROVE  \E t \in [0 .. Len(s) -> Sessions(C)] :
           Commits(t, base, s) /\ FoldLeft(CommitTo, base, s) = t[Len(s)]
<1> DEFINE n == Len(s)
           A == Sessions(C)
           Body(iter) == [S \in SUBSET (1 .. n) |->
                            IF S = {} THEN base
                            ELSE CommitTo(iter[S \ {Max(S)}], s[Max(S)])]
           iter == CHOOSE it : it = Body(it)
           step == [p \in A \X (1 .. n) |-> CommitTo(p[1], s[p[2]])]
<1>1. n \in Nat /\ n \in Int /\ DOMAIN s = 1 .. n /\ \A i \in 1 .. n : s[i] \in Edits(C)
  OBVIOUS
<1>2. step \in [A \X (1 .. n) -> A]
  <2>1. \A x \in A, i \in 1 .. n : CommitTo(x, s[i]) \in A
    BY <1>1, CommitToTyped
  <2> HIDE DEF A
  <2> QED
    BY <2>1
<1>3. base \in A
  OBVIOUS
<1>4. FoldLeft(CommitTo, base, s) = iter[1 .. n]
  BY <1>1 DEF FoldLeft, MapThenFoldSet
<1>5. ASSUME NEW x \in A, NEW i \in 1 .. n PROVE step[<<x, i>>] = CommitTo(x, s[i])
  OBVIOUS
<1> HIDE DEF A, n
<1> HIDE DEF step
<1>6. iter = Body(iter)
  <2>1. PICK it \in [SUBSET (1 .. n) -> A] : IsFold(it, base, step, n)
    BY <1>1, <1>2, <1>3, FoldExists
  <2>2. ASSUME NEW S \in SUBSET (1 .. n), S # {}
        PROVE  it[S] = CommitTo(it[S \ {Max(S)}], s[Max(S)])
    <3>1. Max(S) \in 1 .. n /\ it[S \ {Max(S)}] \in A
      BY <1>1, <2>2, MaxOf
    <3>2. it[S] = step[<<it[S \ {Max(S)}], Max(S)>>]
      BY <2>1, <2>2 DEF IsFold
    <3> QED
      BY <1>5, <3>1, <3>2
  <2>3. it[{}] = base
    BY <2>1 DEF IsFold
  <2>4. it = Body(it)
    BY <2>2, <2>3
  <2> HIDE DEF Body
  <2> QED
    BY <2>4
<1> HIDE DEF iter
<1>7. FoldsWithin(iter, A, base, step, n)
  <2>1. ASSUME NEW S \in SUBSET (1 .. n), S # {}, iter[S \ {Max(S)}] \in A
        PROVE  iter[S] = step[<<iter[S \ {Max(S)}], Max(S)>>]
    <3>1. Max(S) \in 1 .. n
      BY <1>1, <2>1, MaxOf
    <3>2. Body(iter)[S] = CommitTo(iter[S \ {Max(S)}], s[Max(S)])
      BY <2>1
    <3> HIDE DEF Body
    <3> QED
      BY <1>5, <1>6, <2>1, <3>1, <3>2
  <2>2. Body(iter)[{}] = base
    OBVIOUS
  <2> HIDE DEF Body
  <2>3. iter[{}] = base
    BY <1>6, <2>2
  <2> QED
    BY <2>1, <2>3 DEF FoldsWithin
<1> HIDE DEF Body
<1>8. PICK t \in [0 .. n -> A] : IsRun(t, base, step, n) /\ t[n] = iter[1 .. n]
  <2>1. RunsTo(iter[1 .. n], A, base, step, n)
    BY <1>1, <1>2, <1>3, <1>7, FoldRuns
  <2> QED
    BY <2>1 DEF RunsTo
<1>9. Commits(t, base, s)
  <2>1. ASSUME NEW i \in 1 .. n PROVE t[i] = CommitTo(t[i - 1], s[i])
    <3>1. i - 1 \in 0 .. n
      BY <1>1
    <3>2. t[i - 1] \in A /\ t[i] = step[<<t[i - 1], i>>]
      BY <1>8, <3>1 DEF IsRun
    <3> QED
      BY <1>5, <3>2
  <2> QED
    BY <1>8, <2>1 DEF IsRun, Commits, n
<1> QED
  BY <1>4, <1>8, <1>9 DEF A, n

(* Operation r as it meets the document of revision i - 1.                 *)
LEMMA MeetingIs ==
  ASSUME EditInv, NEW i \in 1 .. Len(history), NEW r \in i .. Len(history),
         authored[r].baseRevision < i
  PROVE  /\ Meeting(i, r) \in Edits(Nat) /\ Meeting(i, r).type = authored[r].type
         /\ Meeting(i, r).opId = authored[r].opId
         /\ Fits(r) => Settled(Meeting(i, r), Len(past[i]))
<1>0. Recorded /\ EveryRevisionMade
  BY DEF EditInv
<1>1. PICK n, b, op, s : /\ n = Len(history) /\ op = authored[r] /\ b = authored[r].baseRevision
                         /\ s = SubSeq(history, b + 1, i - 1)
  OBVIOUS
<1>2. /\ n \in Nat /\ i \in Nat /\ r \in 1 .. n /\ i <= n /\ 1 <= i
      /\ history \in Seq(Edits(Nat)) /\ authored \in Seq(Edits(Nat))
      /\ Len(authored) = n /\ Len(past) = n + 1 /\ past \in Seq(Seq(Nat))
  BY <1>0, <1>1 DEF Recorded
<1>3. op \in Edits(Nat)
  BY <1>1, <1>2, ElementOfSeq
<1>4. b \in Nat /\ b < i
  BY <1>1, <1>3, EditFields
<1>5. i - 1 \in Nat /\ b <= i - 1 /\ i - 1 <= n
  BY <1>2, <1>4
<1>6. s \in Seq(Edits(Nat)) /\ Len(s) = i - 1 - b /\ \A k \in 1 .. i - 1 - b : s[k] = history[b + k]
  <2>1. PICK e : e = i - 1
    OBVIOUS
  <2>2. e \in Nat /\ b <= e /\ e <= Len(history) /\ s = SubSeq(history, b + 1, e)
    BY <1>1, <1>5, <2>1
  <2>3. s \in Seq(Edits(Nat)) /\ IsPart(s, history, b, e)
    BY <1>2, <1>4, <2>2, SubSeqOf
  <2> QED
    BY <2>1, <2>3 DEF IsPart
<1>7. Meeting(i, r) = TransformOver(op, s)
  BY <1>1 DEF Meeting
<1>8. /\ Meeting(i, r) \in Edits(Nat) /\ Meeting(i, r).type = op.type
      /\ Meeting(i, r).opId = op.opId
  BY <1>3, <1>6, <1>7, TransformOverTyped
<1>9. ASSUME Fits(r) PROVE Settled(Meeting(i, r), Len(past[i]))
  <2> DEFINE docs == [k \in 0 .. i - 1 - b |-> past[b + 1 + k]]
  <2>1. docs \in [0 .. Len(s) -> Seq(Nat)]
    <3>1. \A k \in 0 .. i - 1 - b : past[b + 1 + k] \in Seq(Nat)
      <4> TAKE k \in 0 .. i - 1 - b
      <4>1. b + 1 + k \in 1 .. n + 1
        BY <1>2, <1>4, <1>5
      <4> QED
        BY <1>2, <4>1, ElementOfSeq
    <3> QED
      BY <1>6, <3>1
  <2>2. ASSUME NEW k \in 1 .. Len(s)
        PROVE  /\ docs[k] = Apply(docs[k - 1], s[k])
               /\ s[k].position + s[k].count <= Len(docs[k - 1])
    <3>1. k \in 1 .. i - 1 - b /\ k \in 0 .. i - 1 - b /\ k - 1 \in 0 .. i - 1 - b
      BY <1>5, <1>4, <1>6
    <3>2. b + k \in 1 .. n /\ b + 1 + k = b + k + 1 /\ b + 1 + (k - 1) = b + k
      BY <1>2, <1>4, <1>5, <3>1
    <3>3. MadeBy(b + k) /\ b + k \in 1 .. Len(history)
      BY <1>0, <1>1, <3>2 DEF EveryRevisionMade
    <3>4. past[b + k + 1] = Apply(past[b + k], history[b + k])
      BY <3>3 DEF MadeBy
    <3>5. history[b + k].position + history[b + k].count <= Len(past[b + k])
      BY <1>0, <3>3, MadeByFits
    <3>6. docs[k] = past[b + k + 1] /\ docs[k - 1] = past[b + k] /\ s[k] = history[b + k]
      BY <1>6, <3>1, <3>2
    <3> HIDE DEF docs
    <3> QED
      BY <3>4, <3>5, <3>6
  <2>3. docs[0] = past[b + 1] /\ docs[Len(s)] = past[i]
    <3>1. 0 \in 0 .. i - 1 - b /\ i - 1 - b \in 0 .. i - 1 - b /\ b + 1 + 0 = b + 1 /\ b + 1 + (i - 1 - b) = i
      BY <1>2, <1>4, <1>5
    <3> QED
      BY <1>6, <3>1
  <2> HIDE DEF docs
  <2>4. Settled(op, Len(docs[0]))
    BY <1>1, <1>9, <2>3 DEF Fits, Settled
  <2>5. Settled(TransformOver(op, s), Len(docs[Len(s)]))
    BY <1>3, <1>6, <2>1, <2>2, <2>4, TransformOverFits
  <2> QED
    BY <1>7, <2>3, <2>5
<1> QED
  BY <1>1, <1>8, <1>9

(* How it meets the next one.                                              *)
LEMMA MeetingNext ==
  ASSUME EditInv, NEW i \in 1 .. Len(history), NEW r \in i + 1 .. Len(history),
         authored[r].baseRevision < i, Fits(i)
  PROVE  /\ Meeting(i + 1, r) = Transform(Meeting(i, r), Meeting(i, i))
         /\ past[i + 1] = Apply(past[i], Meeting(i, i))
<1>0. Recorded /\ EveryRevisionMade
  BY DEF EditInv
<1>1. PICK n, b, op, s, t : /\ n = Len(history) /\ op = authored[r] /\ b = authored[r].baseRevision
                            /\ s = SubSeq(history, b + 1, i - 1) /\ t = SubSeq(history, b + 1, i)
  OBVIOUS
<1>2. /\ n \in Nat /\ i \in Nat /\ r \in 1 .. n /\ r \in i .. n /\ i <= n /\ 1 <= i
      /\ history \in Seq(Edits(Nat)) /\ authored \in Seq(Edits(Nat))
      /\ Len(authored) = n /\ Len(past) = n + 1 /\ past \in Seq(Seq(Nat))
  BY <1>0, <1>1 DEF Recorded
<1>3. op \in Edits(Nat)
  BY <1>1, <1>2, ElementOfSeq
<1>4. b \in Nat /\ b < i
  BY <1>1, <1>3, EditFields
<1>5. i - 1 \in Nat /\ b <= i - 1 /\ i - 1 <= n /\ b <= i
  BY <1>2, <1>4
<1>6. s \in Seq(Edits(Nat)) /\ Len(s) = i - 1 - b /\ \A k \in 1 .. i - 1 - b : s[k] = history[b + k]
  <2>1. PICK e : e = i - 1
    OBVIOUS
  <2>2. e \in Nat /\ b <= e /\ e <= Len(history) /\ s = SubSeq(history, b + 1, e)
    BY <1>1, <1>5, <2>1
  <2>3. s \in Seq(Edits(Nat)) /\ IsPart(s, history, b, e)
    BY <1>2, <1>4, <2>2, SubSeqOf
  <2> QED
    BY <2>1, <2>3 DEF IsPart
<1>7. t \in Seq(Edits(Nat)) /\ Len(t) = i - b /\ \A k \in 1 .. i - b : t[k] = history[b + k]
  <2>1. i \in Nat /\ b <= i /\ i <= Len(history) /\ t = SubSeq(history, b + 1, i)
    BY <1>1, <1>2, <1>5
  <2>2. t \in Seq(Edits(Nat)) /\ IsPart(t, history, b, i)
    BY <1>2, <1>4, <2>1, SubSeqOf
  <2> QED
    BY <2>2 DEF IsPart
<1>8. Meeting(i, r) = TransformOver(op, s)
  BY <1>1 DEF Meeting
<1>9. Meeting(i + 1, r) = TransformOver(op, t)
  <2>1. i + 1 - 1 = i
    BY <1>2
  <2> QED
    BY <1>1, <2>1 DEF Meeting
<1>10. TransformOver(op, t) = Transform(TransformOver(op, s), history[i])
  <2>1. Len(t) = Len(s) + 1 /\ Len(s) <= i - b
    BY <1>2, <1>4, <1>6, <1>7
  <2>2. \A k \in 1 .. Len(s) : t[k] = s[k]
    <3> TAKE k \in 1 .. Len(s)
    <3>1. k \in 1 .. i - 1 - b /\ k \in 1 .. i - b
      BY <1>2, <1>4, <1>5, <1>6
    <3> QED
      BY <1>6, <1>7, <3>1
  <2>3. t[Len(t)] = history[i]
    <3>1. i - b \in 1 .. i - b /\ b + (i - b) = i
      BY <1>2, <1>4
    <3> QED
      BY <1>7, <3>1
  <2>4. TransformOver(op, t) = Transform(TransformOver(op, s), t[Len(t)])
    BY <1>3, <1>6, <1>7, <2>1, <2>2, TransformOverLast
  <2> QED
    BY <2>3, <2>4
<1>11. MadeBy(i) /\ authored[i].baseRevision < i /\ i \in i .. Len(history)
  BY <1>0, <1>1, <1>2 DEF EveryRevisionMade, MadeBy
<1>12. PICK a, x, size : a = Meeting(i, i) /\ x = Meeting(i, r) /\ size = Len(past[i])
  OBVIOUS
<1>13. a \in Edits(Nat) /\ Settled(a, size)
  BY <1>11, <1>12, MeetingIs
<1>14. x \in Edits(Nat)
  BY <1>1, <1>2, <1>12, MeetingIs
<1>15. history[i] = Entered(a, size, i) /\ past[i + 1] = Apply(past[i], history[i])
  BY <1>11, <1>12 DEF MadeBy, Meeting
<1>16. past[i] \in Seq(Nat) /\ size \in Nat
  <2>1. i \in 1 .. Len(past)
    BY <1>2
  <2>2. past[i] \in Seq(Nat)
    BY <1>2, <2>1, ElementOfSeq
  <2> QED
    BY <1>12, <2>2
<1>17. Transform(x, history[i]) = Transform(x, a)
  BY <1>2, <1>13, <1>14, <1>15, <1>16, EnteredTransforms
<1>18. Apply(past[i], history[i]) = Apply(past[i], a)
  BY <1>2, <1>12, <1>13, <1>15, <1>16, EnteredApplies
<1> QED
  BY <1>8, <1>9, <1>10, <1>12, <1>15, <1>17, <1>18

(* The session after revisions i and i + 1 are committed the other way     *)
(* round.                                                                  *)
Exchanged(x, i) ==
  /\ x \in Sessions(Nat)
  /\ x.document = Apply(Apply(past[i], Meeting(i, i + 1)),
                        Transform(Meeting(i, i), Meeting(i, i + 1)))
  /\ Len(x.history) = i + 1
  /\ \A k \in 1 .. i - 1 : x.history[k] = history[k]
  /\ x.history[i] = Entered(Meeting(i, i + 1), Len(past[i]), i)
  /\ x.history[i + 1] = Entered(Transform(Meeting(i, i), Meeting(i, i + 1)),
                                Len(Apply(past[i], Meeting(i, i + 1))), i + 1)

LEMMA ExchangeTwo ==
  ASSUME EditInv, NEW i \in 1 .. Len(history), i + 1 <= Len(history), Swappable(i), NEW x0,
         x0 = [document |-> past[i], history |-> SubSeq(history, 1, i - 1)]
  PROVE  x0 \in Sessions(Nat) /\ Exchanged(CommitTo(CommitTo(x0, authored[i + 1]), authored[i]), i)
<1>0. Recorded /\ EveryRevisionMade
  BY DEF EditInv
<1>1. PICK n, j, p : n = Len(history) /\ j = i - 1 /\ p = i + 1
  OBVIOUS
<1>2. /\ n \in Nat /\ i \in Nat /\ 1 <= i /\ i <= n /\ p \in 1 .. n /\ p \in Nat /\ p = i + 1
      /\ j \in Nat /\ j <= n /\ j + 1 = i
      /\ history \in Seq(Edits(Nat)) /\ authored \in Seq(Edits(Nat))
      /\ Len(authored) = n /\ Len(past) = n + 1 /\ past \in Seq(Seq(Nat))
  BY <1>0, <1>1 DEF Recorded
<1>3. PICK d, h, opA, opB, a, b : /\ d = past[i] /\ h = SubSeq(history, 0 + 1, j)
                                  /\ opA = authored[i] /\ opB = authored[p]
                                  /\ a = Meeting(i, i) /\ b = Meeting(i, p)
  OBVIOUS
<1>4. d \in Seq(Nat) /\ opA \in Edits(Nat) /\ opB \in Edits(Nat)
  <2>1. i \in 1 .. Len(past) /\ i \in 1 .. Len(authored) /\ p \in 1 .. Len(authored)
    BY <1>2
  <2> QED
    BY <1>2, <1>3, <2>1, ElementOfSeq
<1>5. PICK size \in Nat : size = Len(d)
  BY <1>4
<1>6. h \in Seq(Edits(Nat)) /\ Len(h) = j /\ \A k \in 1 .. j : h[k] = history[k]
  <2>1. 0 \in Nat /\ 0 <= j /\ j <= Len(history)
    BY <1>1, <1>2
  <2>2. h \in Seq(Edits(Nat)) /\ IsPart(h, history, 0, j)
    BY <1>2, <1>3, <2>1, SubSeqOf
  <2>3. j - 0 = j /\ \A k \in 1 .. j : 0 + k = k
    BY <1>2
  <2> QED
    BY <2>2, <2>3 DEF IsPart
<1>7. PICK bA \in Nat, bB \in Nat : bA = opA.baseRevision /\ bB = opB.baseRevision
  BY <1>4, EditFields
<1>8. bA <= j /\ bB <= j /\ bA < i /\ bB < i
  <2>1. bA < i
    BY <1>0, <1>1, <1>2, <1>3, <1>7 DEF EveryRevisionMade, MadeBy
  <2>2. bB < i
    BY <1>2, <1>3, <1>7 DEF Swappable
  <2> QED
    BY <1>2, <2>1, <2>2
<1>9. /\ a \in Edits(Nat) /\ b \in Edits(Nat) /\ Settled(b, size)
  <2>1. Fits(p)
    <3>1. p \in 1 .. Latest
      BY <1>1, <1>2 DEF Latest
    <3> QED
      BY <3>1 DEF Swappable
  <2>2. i \in i .. Len(history) /\ p \in i .. Len(history) /\ i \in 1 .. Len(history)
    BY <1>1, <1>2
  <2>3. authored[i].baseRevision < i /\ authored[p].baseRevision < i
    BY <1>3, <1>7, <1>8
  <2>4. a \in Edits(Nat)
    BY <1>3, <2>2, <2>3, MeetingIs
  <2>5. b \in Edits(Nat) /\ Settled(b, size)
    BY <1>3, <1>5, <2>1, <2>2, <2>3, MeetingIs
  <2> QED
    BY <2>4, <2>5
<1>10. x0 = [document |-> d, history |-> h]
  <2>1. 0 + 1 = 1
    OBVIOUS
  <2> QED
    BY <1>1, <1>3, <2>1
<1>11. x0 \in Sessions(Nat) /\ x0.document = d /\ x0.history = h
  BY <1>4, <1>6, <1>10 DEF Sessions
<1>12. ASSUME NEW q \in Nat, q <= j
       PROVE  /\ SubSeq(h, q + 1, j) \in Seq(Edits(Nat))
              /\ SubSeq(h, q + 1, j) = SubSeq(history, q + 1, j)
  <2>1. PICK x, y : x = SubSeq(h, q + 1, j) /\ y = SubSeq(history, q + 1, j)
    OBVIOUS
  <2>7. h \in Seq(Edits(Nat)) /\ j \in Nat /\ q \in Nat /\ q <= j /\ j <= Len(h)
    BY <1>2, <1>6, <1>12
  <2>2. x \in Seq(Edits(Nat)) /\ IsPart(x, h, q, j)
    BY <2>1, <2>7, SubSeqOf
  <2>3. y \in Seq(Edits(Nat)) /\ IsPart(y, history, q, j)
    BY <1>1, <1>2, <1>12, <2>1, SubSeqOf
  <2>4. \A k \in 1 .. j - q : q + k \in 1 .. j
    BY <1>2, <1>12
  <2>5. Len(x) = Len(y) /\ \A k \in 1 .. Len(x) : x[k] = y[k]
    BY <1>6, <2>2, <2>3, <2>4 DEF IsPart
  <2>6. x = y
    BY <2>2, <2>3, <2>5, SameSeq
  <2> QED
    BY <2>1, <2>2, <2>6
<1>13. PICK x1, e : x1 = CommitTo(x0, opB) /\ e = Entered(b, size, i)
  OBVIOUS
<1>14. e \in Edits(Nat)
  BY <1>2, <1>9, <1>13, EnteredTyped
<1>15. x1 \in Sessions(Nat)
  BY <1>4, <1>11, <1>13, CommitToTyped
<1>16. x1.document = Apply(d, b) /\ x1.history = Append(h, e)
  <2>1. PICK m : m = SubSeq(h, bB + 1, j)
    OBVIOUS
  <2>2. m \in Seq(Edits(Nat)) /\ m = SubSeq(history, bB + 1, j)
    BY <1>8, <1>12, <2>1
  <2>3. TransformOver(opB, m) = b
    BY <1>1, <1>3, <1>7, <2>2 DEF Meeting
  <2>4. opB.baseRevision <= Len(x0.history) /\ m = SubSeq(x0.history, opB.baseRevision + 1, Len(x0.history))
    BY <1>6, <1>7, <1>8, <1>11, <2>1
  <2>6. x0 \in Sessions(Nat) /\ opB \in Edits(Nat) /\ m \in Seq(Edits(Nat))
    BY <1>4, <1>11, <2>2
  <2>5. IsCommitted(CommitTo(x0, opB), x0, TransformOver(opB, m))
    BY <2>4, <2>6, CommitToIs
  <2> QED
    BY <1>2, <1>5, <1>6, <1>11, <1>13, <2>3, <2>5 DEF IsCommitted
<1>17. PICK h1, d1, size1 : h1 = x1.history /\ d1 = x1.document /\ size1 = Len(d1)
  OBVIOUS
<1>18. /\ h1 \in Seq(Edits(Nat)) /\ Len(h1) = i /\ h1[i] = e
       /\ \A k \in 1 .. j : h1[k] = history[k]
       /\ d1 \in Seq(Nat) /\ size1 \in Nat /\ d1 = Apply(d, b)
  <2>1. h1 = Append(h, e) /\ d1 = Apply(d, b)
    BY <1>16, <1>17
  <2>4. h \in Seq(Edits(Nat)) /\ e \in Edits(Nat) /\ h1 = Append(h, e)
    BY <1>6, <1>14, <2>1
  <2>5. /\ h1 \in Seq(Edits(Nat)) /\ Len(h1) = Len(h) + 1 /\ h1[Len(h) + 1] = e
        /\ \A k \in 1 .. Len(h) : h1[k] = h[k]
    BY <2>4
  <2>2. h1 \in Seq(Edits(Nat)) /\ Len(h1) = i /\ h1[i] = e /\ \A k \in 1 .. j : h1[k] = h[k]
    BY <1>2, <1>6, <2>5
  <2>3. d1 \in Seq(Nat)
    BY <1>15, <1>17 DEF Sessions
  <2>6. size1 \in Nat
    BY <1>17, <2>3
  <2>7. \A k \in 1 .. j : h1[k] = history[k]
    BY <1>6, <2>2
  <2> QED
    BY <2>1, <2>2, <2>3, <2>6, <2>7
<1>19. PICK x2, f, o : /\ x2 = CommitTo(x1, opA) /\ o = Transform(a, b)
                       /\ f = Entered(o, size1, p)
  OBVIOUS
<1>20. o \in Edits(Nat) /\ f \in Edits(Nat)
  <2>1. o \in Edits(Nat)
    BY <1>9, <1>19, TransformTyped
  <2> QED
    BY <1>2, <1>18, <1>19, <2>1, EnteredTyped
<1>21. x2 \in Sessions(Nat)
  BY <1>4, <1>15, <1>19, CommitToTyped
<1>22. x2.document = Apply(d1, o) /\ x2.history = Append(h1, f)
  <2>1. PICK m, s : m = SubSeq(h1, bA + 1, i) /\ s = SubSeq(history, bA + 1, j)
    OBVIOUS
  <2>2. m \in Seq(Edits(Nat)) /\ IsPart(m, h1, bA, i)
    <3>1. bA <= i /\ i <= Len(h1)
      BY <1>2, <1>8, <1>18, SMTT(30)
    <3> QED
      BY <1>2, <1>18, <2>1, <3>1, SubSeqOf
  <2>13. history \in Seq(Edits(Nat)) /\ j \in Nat /\ bA \in Nat /\ bA <= j /\ j <= Len(history)
    BY <1>1, <1>2, <1>8
  <2>3. s \in Seq(Edits(Nat)) /\ IsPart(s, history, bA, j)
    BY <2>1, <2>13, SubSeqOf
  <2>4. Len(m) = i - bA /\ Len(s) = j - bA /\ Len(m) = Len(s) + 1
    <3>1. Len(m) = i - bA /\ Len(s) = j - bA
      BY <2>2, <2>3 DEF IsPart
    <3>2. i - bA = (j - bA) + 1
      BY <1>2
    <3> QED
      BY <3>1, <3>2
  <2>5. \A k \in 1 .. Len(s) : m[k] = s[k]
    <3> TAKE k \in 1 .. Len(s)
    <3>1. k \in 1 .. j - bA /\ k \in 1 .. i - bA /\ bA + k \in 1 .. j
      BY <1>2, <1>8, <2>4
    <3>2. m[k] = h1[bA + k] /\ s[k] = history[bA + k]
      BY <2>2, <2>3, <3>1 DEF IsPart
    <3> QED
      BY <1>18, <3>1, <3>2
  <2>6. m[Len(m)] = e
    <3>1. i - bA \in 1 .. i - bA /\ bA + (i - bA) = i
      BY <1>2, <1>8
    <3> QED
      BY <1>18, <2>2, <2>4, <3>1 DEF IsPart
  <2>7. TransformOver(opA, s) = a
    BY <1>1, <1>3, <1>7, <2>1 DEF Meeting
  <2>8. TransformOver(opA, m) = Transform(TransformOver(opA, s), m[Len(m)])
    BY <1>4, <2>2, <2>3, <2>4, <2>5, TransformOverLast, SMTT(30)
  <2>9. Transform(a, e) = Transform(a, b)
    BY <1>2, <1>9, <1>13, EnteredTransforms
  <2>10. TransformOver(opA, m) = o
    BY <1>19, <2>6, <2>7, <2>8, <2>9
  <2>11. opA.baseRevision <= Len(x1.history) /\ m = SubSeq(x1.history, opA.baseRevision + 1, Len(x1.history))
    BY <1>2, <1>7, <1>8, <1>17, <1>18, <2>1, SMTT(30)
  <2>14. x1 \in Sessions(Nat) /\ opA \in Edits(Nat) /\ m \in Seq(Edits(Nat))
    BY <1>4, <1>15, <2>2
  <2>12. IsCommitted(CommitTo(x1, opA), x1, TransformOver(opA, m))
    BY <2>11, <2>14, CommitToIs
  <2>15. IsCommitted(x2, x1, o)
    BY <1>19, <2>10, <2>12
  <2>16. x1.document = d1 /\ x1.history = h1 /\ Len(h1) + 1 = p /\ Len(d1) = size1
    BY <1>2, <1>17, <1>18
  <2>17. x2.document = Apply(d1, o) /\ x2.history = Append(h1, Entered(o, size1, p))
    BY <2>15, <2>16 DEF IsCommitted
  <2> QED
    BY <1>19, <2>17
<1>23. /\ Len(x2.history) = i + 1 /\ x2.history[i] = e /\ x2.history[i + 1] = f
       /\ \A k \in 1 .. j : x2.history[k] = history[k]
  <2>1. PICK h2 : h2 = x2.history
    OBVIOUS
  <2>2. Len(h2) = i + 1 /\ h2[i + 1] = f /\ \A k \in 1 .. i : h2[k] = h1[k]
    BY <1>18, <1>20, <1>22, <2>1
  <2>3. i \in 1 .. i /\ \A k \in 1 .. j : k \in 1 .. i
    BY <1>2
  <2> QED
    BY <1>18, <2>1, <2>2, <2>3
<1>24. Exchanged(x2, i)
  BY <1>1, <1>3, <1>5, <1>13, <1>17, <1>18, <1>19, <1>21, <1>22, <1>23 DEF Exchanged
<1> QED
  BY <1>1, <1>3, <1>11, <1>13, <1>19, <1>24

(* Each revision is the one before with the operation as it meets it.      *)
LEMMA RevisionMade ==
  ASSUME EditInv, NEW p \in 1 .. Len(history)
  PROVE  past[p + 1] = Apply(past[p], Meeting(p, p))
<1>0. Recorded /\ EveryRevisionMade
  BY DEF EditInv
<1>1. PICK n : n = Len(history)
  OBVIOUS
<1>2. n \in Nat /\ p \in Nat /\ p \in 1 .. n /\ Len(past) = n + 1 /\ past \in Seq(Seq(Nat))
  BY <1>0, <1>1 DEF Recorded
<1>3. MadeBy(p)
  BY <1>0 DEF EveryRevisionMade
<1>4. p \in p .. Len(history) /\ p \in 1 .. Len(history) /\ authored[p].baseRevision < p
  BY <1>1, <1>2, <1>3 DEF MadeBy
<1>5. PICK q, o : q = past[p] /\ o = Meeting(p, p)
  OBVIOUS
<1>6. o \in Edits(Nat)
  BY <1>4, <1>5, MeetingIs
<1>7. p \in 1 .. Len(past)
  BY <1>2
<1>8. q \in Seq(Nat)
  BY <1>2, <1>5, <1>7, ElementOfSeq
<1>9. history[p] = Entered(o, Len(q), p) /\ past[p + 1] = Apply(q, history[p])
  BY <1>3, <1>5 DEF MadeBy, Meeting
<1>10. Apply(q, Entered(o, Len(q), p)) = Apply(q, o)
  BY <1>2, <1>6, <1>8, EnteredApplies
<1> QED
  BY <1>5, <1>9, <1>10

(* Where they meet, two operations that do not delete around one another   *)
(* lead to the same document.                                              *)
LEMMA ExchangeConverges ==
  ASSUME EditInv, NEW i \in 1 .. Len(history), i + 1 <= Len(history), Swappable(i),
         ~Inside(Meeting(i, i), Meeting(i, i + 1)), ~Inside(Meeting(i, i + 1), Meeting(i, i)),
         NEW x, Exchanged(x, i)
  PROVE  x.document = past[i + 2]
<1>0. Recorded /\ EveryRevisionMade /\ IdsDiffer
  BY DEF EditInv
<1>1. PICK n, p : n = Len(history) /\ p = i + 1
  OBVIOUS
<1>2. /\ n \in Nat /\ i \in Nat /\ p \in Nat /\ p \in 1 .. n /\ i \in 1 .. n /\ i # p
      /\ Len(authored) = n /\ Len(past) = n + 1 /\ past \in Seq(Seq(Nat))
  BY <1>0, <1>1 DEF Recorded
<1>3. PICK d, a, b : d = past[i] /\ a = Meeting(i, i) /\ b = Meeting(i, p)
  OBVIOUS
<1>4. d \in Seq(Nat)
  <2>1. i \in 1 .. Len(past)
    BY <1>2
  <2> QED
    BY <1>2, <1>3, <2>1, ElementOfSeq
<1>5. authored[i].baseRevision < i /\ authored[p].baseRevision < i /\ Fits(i) /\ Fits(p)
  <2>1. authored[i].baseRevision < i
    BY <1>0, <1>1, <1>2 DEF EveryRevisionMade, MadeBy
  <2>2. i \in 1 .. Latest /\ p \in 1 .. Latest
    BY <1>1, <1>2 DEF Latest
  <2> QED
    BY <1>1, <2>1, <2>2 DEF Swappable
<1>6. i \in i .. Len(history) /\ p \in i .. Len(history) /\ p \in i + 1 .. Len(history)
  BY <1>1, <1>2
<1>7. a \in Edits(Nat) /\ a.opId = authored[i].opId /\ Settled(a, Len(d))
  BY <1>3, <1>5, <1>6, MeetingIs
<1>8. b \in Edits(Nat) /\ b.opId = authored[p].opId /\ Settled(b, Len(d))
  BY <1>3, <1>5, <1>6, MeetingIs
<1>9. a.opId # b.opId
  BY <1>0, <1>2, <1>7, <1>8 DEF IdsDiffer
<1>10. Apply(Apply(d, a), Transform(b, a)) = Apply(Apply(d, b), Transform(a, b))
  BY <1>1, <1>3, <1>4, <1>7, <1>8, <1>9, Commute
<1>11. Meeting(i + 1, p) = Transform(b, a) /\ past[i + 1] = Apply(d, a)
  BY <1>3, <1>5, <1>6, MeetingNext
<1>12. past[p + 1] = Apply(past[p], Meeting(p, p))
  <2>1. p \in 1 .. Len(history)
    BY <1>1, <1>2
  <2> QED
    BY <2>1, RevisionMade
<1>13. x.document = Apply(Apply(d, b), Transform(a, b))
  BY <1>1, <1>3 DEF Exchanged
<1>14. p + 1 = i + 2
  BY <1>1, <1>2
<1> QED
  BY <1>1, <1>10, <1>11, <1>12, <1>13, <1>14


(* The last two revisions, the other way round.                            *)
LEMMA SwappedTwo ==
  ASSUME EditInv, NEW i, i = Latest - 1, Swappable(i)
  PROVE  /\ i \in 1 .. Len(history) /\ i + 1 <= Len(history) /\ Latest = i + 1
         /\ document = past[i + 2] /\ Exchanged(Swapped(i), i)
<1>0. Recorded
  BY DEF EditInv
<1>1. PICK n : n = Len(history)
  OBVIOUS
<1>2. /\ n \in Nat /\ Latest = n /\ i + 1 = n /\ i \in 1 .. n /\ i + 1 <= n /\ i \in Nat
      /\ history \in Seq(Edits(Nat)) /\ authored \in Seq(Edits(Nat)) /\ Len(authored) = n
      /\ Len(past) = n + 1 /\ document = past[n + 1] /\ i + 2 = n + 1
  <2>1. /\ n \in Nat /\ Latest = n
        /\ history \in Seq(Edits(Nat)) /\ authored \in Seq(Edits(Nat)) /\ Len(authored) = n
        /\ Len(past) = n + 1 /\ document = past[n + 1]
    BY <1>0, <1>1 DEF Recorded, Latest
  <2>2. i > 0
    BY DEF Swappable
  <2> QED
    BY <2>1, <2>2
<1>3. PICK x0, a, b : /\ x0 = [document |-> past[i], history |-> SubSeq(history, 1, i - 1)]
                      /\ a = authored[i] /\ b = authored[i + 1]
  OBVIOUS
<1>4. a \in Edits(Nat) /\ b \in Edits(Nat)
  <2>1. i \in 1 .. Len(authored) /\ i + 1 \in 1 .. Len(authored)
    BY <1>2
  <2> QED
    BY <1>2, <1>3, <2>1, ElementOfSeq
<1>5. i \in 1 .. Len(history) /\ i + 1 <= Len(history)
  BY <1>1, <1>2
<1>6. PICK x : x = CommitTo(CommitTo(x0, b), a)
  OBVIOUS
<1>7. x0 \in Sessions(Nat) /\ Exchanged(x, i)
  BY <1>3, <1>5, <1>6, ExchangeTwo
<1>9. Swapped(i) = FoldLeft(CommitTo, x0, <<b, a>>)
  <2>1. SubSeq(authored, i + 2, Latest) = <<>>
    BY <1>2
  <2>2. <<b, a>> \o <<>> = <<b, a>>
    BY <1>4
  <2> QED
    BY <1>3, <2>1, <2>2 DEF Swapped
<1>10. FoldLeft(CommitTo, x0, <<b, a>>) = x
  <2>1. PICK s : s = <<b, a>>
    OBVIOUS
  <2>2. s \in Seq(Edits(Nat)) /\ Len(s) = 2 /\ s[1] = b /\ s[2] = a
    BY <1>4, <2>1
  <2>3. PICK t \in [0 .. Len(s) -> Sessions(Nat)] :
          Commits(t, x0, s) /\ FoldLeft(CommitTo, x0, s) = t[Len(s)]
    BY <1>7, <2>2, CommitRuns
  <2>4. 1 \in 1 .. Len(s) /\ 2 \in 1 .. Len(s) /\ 1 - 1 = 0 /\ 2 - 1 = 1
    BY <2>2
  <2>5. t[0] = x0 /\ t[1] = CommitTo(t[0], s[1]) /\ t[2] = CommitTo(t[1], s[2])
    BY <2>3, <2>4 DEF Commits
  <2> QED
    BY <1>6, <2>1, <2>2, <2>3, <2>5
<1>11. Exchanged(Swapped(i), i)
  BY <1>7, <1>9, <1>10
<1> QED
  BY <1>2, <1>5, <1>11

LEMMA EditInvDisjoint ==
  EditInv => DisjointConverge
<1> SUFFICES ASSUME EditInv, NEW i, i = Latest - 1, Swappable(i),
                    ~Inside(Meeting(i, i), Meeting(i, Latest)),
                    ~Inside(Meeting(i, Latest), Meeting(i, i))
             PROVE  Converge(i)
  BY DEF DisjointConverge
<1>1. /\ i \in 1 .. Len(history) /\ i + 1 <= Len(history) /\ Latest = i + 1
      /\ document = past[i + 2] /\ Exchanged(Swapped(i), i)
  BY SwappedTwo
<1>2. PICK x : x = Swapped(i)
  OBVIOUS
<1>3. Exchanged(x, i)
  BY <1>1, <1>2
<1>4. x.document = past[i + 2]
  BY <1>1, <1>3, ExchangeConverges
<1> QED
  BY <1>1, <1>2, <1>4 DEF Converge

(* DisjointConverge: "non-overlapping insert + delete converge".  Whatever *)
(* the clients sent, two neighbours of the history that had not seen one   *)
(* another, neither deleting around the place where the other inserts, end *)
(* in the same document when DocumentSession::commit gets them the other   *)
(* way round: the transformation rules satisfy TP1 (Commute), for every    *)
(* document and every history before them.                                 *)
THEOREM ConcurrentEditsConverge == EditSpec => []DisjointConverge
<1>1. EditSpec => []EditInv
  BY EditInvInvariant
<1> QED
  BY <1>1, EditInvDisjoint, PTL DEF EditSpec

-----------------------------------------------------------------------------
(* A third operation, over two that were exchanged.  Of one kind they      *)
(* satisfy TP2: what transform() makes of the third does not depend on     *)
(* their order.                                                            *)

Alike(x, y) ==
  \/ IsNoop(x) /\ IsNoop(y)
  \/ x.type = y.type /\ x.text = y.text /\ x.position = y.position /\ x.count = y.count

LEMMA AlikeApplies ==
  ASSUME NEW C, NEW d \in Seq(C), NEW x \in Edits(C), NEW y \in Edits(C), Alike(x, y)
  PROVE  Apply(d, x) = Apply(d, y)
<1>1. CASE IsNoop(x) /\ IsNoop(y)
  BY <1>1, ApplySplices
<1>2. CASE x.type = y.type /\ x.text = y.text /\ x.position = y.position /\ x.count = y.count
  <2>1. x \in Operation(C) /\ y \in Operation(C)
    BY EditFields
  <2>2. PICK size, a, b : size = Len(d) /\ a = Clamp(x, size) /\ b = Clamp(y, size)
    OBVIOUS
  <2>3. a.type = b.type /\ a.text = b.text /\ a.position = b.position /\ a.count = b.count
    BY <1>2, <2>1, <2>2 DEF Clamp, Operation
  <2> QED
    BY <2>2, <2>3 DEF Apply
<1> QED
  BY <1>1, <1>2 DEF Alike

(* Where the end of a range is after s .. s + m is deleted.                *)
After(x, s, m) == IF x >= s + m THEN x - m ELSE IF x >= s THEN s ELSE x

LEMMA AfterTwo ==
  ASSUME NEW x \in Nat, NEW s \in Nat, NEW m \in Nat, NEW u \in Nat, NEW l \in Nat
  PROVE  After(After(x, s, m), After(u, s, m), After(u + l, s, m) - After(u, s, m))
           = After(After(x, u, l), After(s, u, l), After(s + m, u, l) - After(s, u, l))
  BY DEF After

LEMMA AfterIs ==
  ASSUME NEW x \in Nat, NEW y \in Nat, NEW s \in Nat, NEW m \in Nat, x <= y
  PROVE  /\ After(x, s, m) \in Nat /\ After(x, s, m) <= After(y, s, m)
         /\ After(x, s, 0) = x
  BY DEF After

LEMMA DeleteOver ==
  ASSUME NEW C, NEW op \in Edits(C), NEW com \in Edits(C),
         op.type = "delete", com.type = "delete", NEW p, NEW n, NEW s, NEW m,
         p = op.position, n = op.count, s = com.position, m = com.count
  PROVE  /\ Transform(op, com).count = After(p + n, s, m) - After(p, s, m)
         /\ n # 0 => Transform(op, com).position = After(p, s, m)
<1>1. p \in Nat /\ n \in Nat /\ s \in Nat /\ m \in Nat
  BY EditFields
<1>2. CASE n = 0
  <2>1. Transform(op, com) = op
    BY <1>2, TransformIs DEF IsNoop
  <2>2. p + n = p
    BY <1>1, <1>2
  <2>3. After(p, s, m) \in Nat
    BY <1>1 DEF After
  <2>4. PICK q, e : q = p + n /\ e = After(p, s, m)
    OBVIOUS
  <2>5. q = p /\ e \in Nat /\ e - e = 0
    BY <2>2, <2>3, <2>4
  <2>6. After(q, s, m) - After(p, s, m) = 0
    BY <2>4, <2>5
  <2>7. Transform(op, com).count = 0
    BY <1>2, <2>1
  <2> QED
    BY <1>2, <2>4, <2>6, <2>7
<1>3. CASE m = 0
  <2>1. Transform(op, com) = op
    BY <1>3, TransformIs DEF IsNoop
  <2> QED
    BY <1>1, <1>3, <2>1 DEF After
<1>4. CASE n # 0 /\ m # 0
  <2>1. ~IsNoop(op) /\ ~IsNoop(com)
    BY <1>4 DEF IsNoop
  <2>2. PICK start, count : start = StartOver(op, com) /\ count = CountOver(op, com)
    OBVIOUS
  <2>3. Transform(op, com).position = start /\ Transform(op, com).count = count
    BY <2>1, <2>2, TransformMoves
  <2>4. start = After(p, s, m)
    BY <1>1, <2>2 DEF StartOver, After
  <2>5. count = IF p + n <= s \/ p >= s + m THEN n
                ELSE n - (Smaller(p + n, s + m) - Larger(p, s))
    BY <2>2 DEF CountOver
  <2>6. count = After(p + n, s, m) - After(p, s, m)
    BY <1>1, <1>4, <2>5 DEF After, Smaller, Larger
  <2> QED
    BY <2>3, <2>4, <2>6
<1> QED
  BY <1>2, <1>3, <1>4

LEMMA ThirdDelete ==
  ASSUME NEW C, NEW a \in Edits(C), NEW b \in Edits(C), NEW c \in Edits(C),
         a.type = "delete", b.type = "delete", c.type = "delete",
         ~IsNoop(a), ~IsNoop(b), ~IsNoop(c)
  PROVE  Alike(Transform(Transform(c, a), Transform(b, a)),
               Transform(Transform(c, b), Transform(a, b)))
<1>1. PICK p, n, s, m, u, l : /\ p = c.position /\ n = c.count /\ s = a.position /\ m = a.count
                              /\ u = b.position /\ l = b.count
  OBVIOUS
<1>2. /\ p \in Nat /\ n \in Nat /\ s \in Nat /\ m \in Nat /\ u \in Nat /\ l \in Nat
      /\ n # 0 /\ m # 0 /\ l # 0
      /\ a.text = <<>> /\ b.text = <<>> /\ c.text = <<>>
  BY <1>1, EditFields DEF IsNoop
<1>3. PICK ca, cb, ba, ab : /\ ca = Transform(c, a) /\ cb = Transform(c, b)
                            /\ ba = Transform(b, a) /\ ab = Transform(a, b)
  OBVIOUS
<1>4. /\ ca \in Edits(C) /\ cb \in Edits(C) /\ ba \in Edits(C) /\ ab \in Edits(C)
      /\ ca.type = "delete" /\ cb.type = "delete" /\ ba.type = "delete" /\ ab.type = "delete"
  BY <1>3, TransformTyped
<1>5. /\ ca.count = After(p + n, s, m) - After(p, s, m) /\ ca.position = After(p, s, m)
      /\ cb.count = After(p + n, u, l) - After(p, u, l) /\ cb.position = After(p, u, l)
  BY <1>1, <1>2, <1>3, DeleteOver
<1>6. /\ ba.count = After(u + l, s, m) - After(u, s, m) /\ ba.position = After(u, s, m)
      /\ ab.count = After(s + m, u, l) - After(s, u, l) /\ ab.position = After(s, u, l)
  BY <1>1, <1>2, <1>3, DeleteOver
<1>7. PICK x, y : x = Transform(ca, ba) /\ y = Transform(cb, ab)
  OBVIOUS
<1>8. PICK q : q = p + n
  OBVIOUS
<1>9. q \in Nat /\ p <= q
  BY <1>2, <1>8
<1>10. PICK p1, q1, p2, q2, s1, m1, s2, m2 :
         /\ p1 = After(p, s, m) /\ q1 = After(q, s, m)
         /\ p2 = After(p, u, l) /\ q2 = After(q, u, l)
         /\ s1 = ba.position /\ m1 = ba.count /\ s2 = ab.position /\ m2 = ab.count
  OBVIOUS
<1>11. p1 \in Nat /\ q1 \in Nat /\ p1 <= q1 /\ p2 \in Nat /\ q2 \in Nat /\ p2 <= q2
  BY <1>2, <1>9, <1>10, AfterIs
<1>12. ca.position = p1 /\ ca.count = q1 - p1 /\ cb.position = p2 /\ cb.count = q2 - p2
  BY <1>5, <1>8, <1>10
<1>13. p1 + (q1 - p1) = q1 /\ p2 + (q2 - p2) = q2
  BY <1>11
<1>14. /\ x.count = After(q1, s1, m1) - After(p1, s1, m1)
       /\ q1 # p1 => x.position = After(p1, s1, m1)
  <2>1. q1 - p1 # 0 <=> q1 # p1
    BY <1>11
  <2>2. /\ x.count = After(p1 + (q1 - p1), s1, m1) - After(p1, s1, m1)
        /\ q1 - p1 # 0 => x.position = After(p1, s1, m1)
    BY <1>4, <1>7, <1>10, <1>12, DeleteOver
  <2> QED
    BY <1>13, <2>1, <2>2
<1>15. /\ y.count = After(q2, s2, m2) - After(p2, s2, m2)
       /\ q2 # p2 => y.position = After(p2, s2, m2)
  <2>1. q2 - p2 # 0 <=> q2 # p2
    BY <1>11
  <2>2. /\ y.count = After(p2 + (q2 - p2), s2, m2) - After(p2, s2, m2)
        /\ q2 - p2 # 0 => y.position = After(p2, s2, m2)
    BY <1>4, <1>7, <1>10, <1>12, DeleteOver
  <2> QED
    BY <1>13, <2>1, <2>2
<1>16. After(p1, s1, m1) = After(p2, s2, m2) /\ After(q1, s1, m1) = After(q2, s2, m2)
  <2>1. /\ After(p1, s1, m1) = After(After(p, s, m), After(u, s, m), After(u + l, s, m) - After(u, s, m))
        /\ After(p2, s2, m2) = After(After(p, u, l), After(s, u, l), After(s + m, u, l) - After(s, u, l))
    BY <1>6, <1>10
  <2>2. /\ After(q1, s1, m1) = After(After(q, s, m), After(u, s, m), After(u + l, s, m) - After(u, s, m))
        /\ After(q2, s2, m2) = After(After(q, u, l), After(s, u, l), After(s + m, u, l) - After(s, u, l))
    BY <1>6, <1>10
  <2> QED
    BY <1>2, <1>9, <2>1, <2>2, AfterTwo, SMTT(30)
<1>17. x.count = y.count
  BY <1>14, <1>15, <1>16
<1>18. /\ x \in Edits(C) /\ x.type = "delete" /\ x.text = <<>>
       /\ y \in Edits(C) /\ y.type = "delete" /\ y.text = <<>>
  <2>1. x \in Edits(C) /\ x.type = "delete" /\ y \in Edits(C) /\ y.type = "delete"
    BY <1>4, <1>7, TransformTyped
  <2> QED
    BY <2>1, EditFields
<1>19. q1 = p1 => x.count = 0
  <2>1. s1 \in Nat /\ m1 \in Nat
    BY <1>4, <1>10, EditFields
  <2> QED
    BY <1>11, <1>14, <2>1 DEF After
<1>20. q2 = p2 => y.count = 0
  <2>1. s2 \in Nat /\ m2 \in Nat
    BY <1>4, <1>10, EditFields
  <2> QED
    BY <1>11, <1>15, <2>1 DEF After
<1>21. CASE x.count = 0
  <2>1. IsNoop(x) /\ IsNoop(y)
    BY <1>17, <1>18, <1>21 DEF IsNoop
  <2> QED
    BY <1>3, <1>7, <2>1 DEF Alike
<1>22. CASE x.count # 0
  <2>1. x.position = y.position
    BY <1>14, <1>15, <1>16, <1>17, <1>19, <1>20, <1>22
  <2> QED
    BY <1>3, <1>7, <1>17, <1>18, <2>1 DEF Alike
<1> QED
  BY <1>21, <1>22

LEMMA InsertOver ==
  ASSUME NEW C, NEW op \in Edits(C), NEW com \in Edits(C),
         op.type = "insert", com.type = "insert", ~IsNoop(op), op.opId # com.opId,
         NEW p, NEW s, NEW k, p = op.position, s = com.position, k = Len(com.text)
  PROVE  Transform(op, com).position =
           IF p > s \/ (p = s /\ com.opId < op.opId) THEN p + k ELSE p
<1>1. p \in Nat /\ s \in Nat /\ k \in Nat /\ op.opId \in Nat /\ com.opId \in Nat
  BY EditFields
<1>2. CASE IsNoop(com)
  <2>1. k = 0
    BY <1>2 DEF IsNoop
  <2>2. Transform(op, com) = op
    BY <1>2, TransformIs
  <2> QED
    BY <1>1, <2>1, <2>2
<1>3. CASE ~IsNoop(com)
  <2>1. PICK start : start = StartOver(op, com)
    OBVIOUS
  <2>2. Transform(op, com).position = start
    BY <1>3, <2>1, TransformMoves
  <2>3. WinsTie(com, op) <=> com.opId < op.opId
    BY DEF WinsTie
  <2>4. start = IF p > s \/ (p = s /\ com.opId < op.opId) THEN p + k ELSE p
    BY <2>1, <2>3 DEF StartOver
  <2> QED
    BY <2>2, <2>4
<1> QED
  BY <1>2, <1>3

(* Three inserts keep their order, by position and then by opId, through   *)
(* each other's transformations.                                           *)
LEMMA ThirdInsert ==
  ASSUME NEW C, NEW a \in Edits(C), NEW b \in Edits(C), NEW c \in Edits(C),
         a.type = "insert", b.type = "insert", c.type = "insert",
         ~IsNoop(a), ~IsNoop(b), ~IsNoop(c),
         a.opId # b.opId, a.opId # c.opId, b.opId # c.opId
  PROVE  Alike(Transform(Transform(c, a), Transform(b, a)),
               Transform(Transform(c, b), Transform(a, b)))
<1>1. PICK p, s, u, k, l, x, y, z :
        /\ p = c.position /\ s = a.position /\ u = b.position /\ k = Len(a.text) /\ l = Len(b.text)
        /\ x = a.opId /\ y = b.opId /\ z = c.opId
  OBVIOUS
<1>2. /\ p \in Nat /\ s \in Nat /\ u \in Nat /\ k \in Nat /\ l \in Nat
      /\ x \in Nat /\ y \in Nat /\ z \in Nat /\ x # y /\ x # z /\ y # z
  BY <1>1, EditFields
<1>3. PICK ca, cb, ba, ab : /\ ca = Transform(c, a) /\ cb = Transform(c, b)
                            /\ ba = Transform(b, a) /\ ab = Transform(a, b)
  OBVIOUS
<1>4. /\ ca \in Edits(C) /\ ca.type = "insert" /\ ca.text = c.text /\ ca.opId = z
      /\ cb \in Edits(C) /\ cb.type = "insert" /\ cb.text = c.text /\ cb.opId = z
      /\ ba \in Edits(C) /\ ba.type = "insert" /\ ba.text = b.text /\ ba.opId = y
      /\ ab \in Edits(C) /\ ab.type = "insert" /\ ab.text = a.text /\ ab.opId = x
  BY <1>1, <1>3, TransformTyped
<1>5. ca.position = IF p > s \/ (p = s /\ x < z) THEN p + k ELSE p
  BY <1>1, <1>3, InsertOver
<1>6. cb.position = IF p > u \/ (p = u /\ y < z) THEN p + l ELSE p
  BY <1>1, <1>3, InsertOver
<1>7. ba.position = IF u > s \/ (u = s /\ x < y) THEN u + k ELSE u
  BY <1>1, <1>3, InsertOver
<1>8. ab.position = IF s > u \/ (s = u /\ y < x) THEN s + l ELSE s
  BY <1>1, <1>3, InsertOver
<1>9. PICK d, e : d = Transform(ca, ba) /\ e = Transform(cb, ab)
  OBVIOUS
<1>10. /\ d \in Edits(C) /\ d.type = "insert" /\ d.text = c.text /\ d.count = 0
       /\ e \in Edits(C) /\ e.type = "insert" /\ e.text = c.text /\ e.count = 0
  <2>1. /\ d \in Edits(C) /\ d.type = "insert" /\ d.text = c.text
        /\ e \in Edits(C) /\ e.type = "insert" /\ e.text = c.text
    BY <1>4, <1>9, TransformTyped
  <2> QED
    BY <2>1, EditFields
<1>11. ~IsNoop(ca) /\ ~IsNoop(cb)
  BY <1>4 DEF IsNoop
<1>12. PICK pa, pb, ua, sb : /\ pa = ca.position /\ pb = cb.position
                             /\ ua = ba.position /\ sb = ab.position
  OBVIOUS
<1>13. d.position = IF pa > ua \/ (pa = ua /\ y < z) THEN pa + l ELSE pa
  <2>1. ca.opId # ba.opId /\ l = Len(ba.text) /\ ba.opId = y /\ ca.opId = z
    BY <1>1, <1>2, <1>4
  <2>2. Transform(ca, ba).position = IF pa > ua \/ (pa = ua /\ ba.opId < ca.opId) THEN pa + l ELSE pa
    BY <1>4, <1>11, <1>12, <2>1, InsertOver
  <2> QED
    BY <1>9, <2>1, <2>2
<1>14. e.position = IF pb > sb \/ (pb = sb /\ x < z) THEN pb + k ELSE pb
  <2>1. cb.opId # ab.opId /\ k = Len(ab.text) /\ ab.opId = x /\ cb.opId = z
    BY <1>1, <1>2, <1>4
  <2>2. Transform(cb, ab).position = IF pb > sb \/ (pb = sb /\ ab.opId < cb.opId) THEN pb + k ELSE pb
    BY <1>4, <1>11, <1>12, <2>1, InsertOver
  <2> QED
    BY <1>9, <2>1, <2>2
<1>15. d.position = e.position
  BY <1>2, <1>5, <1>6, <1>7, <1>8, <1>12, <1>13, <1>14
<1> QED
  BY <1>3, <1>9, <1>10, <1>15 DEF Alike

LEMMA ThirdAlike ==
  ASSUME NEW C, NEW a \in Edits(C), NEW b \in Edits(C), NEW c \in Edits(C),
         a.type = b.type, b.type = c.type,
         a.opId # b.opId, a.opId # c.opId, b.opId # c.opId
  PROVE  Alike(Transform(Transform(c, a), Transform(b, a)),
               Transform(Transform(c, b), Transform(a, b)))
<1>1. /\ Transform(c, a) \in Edits(C) /\ Transform(c, b) \in Edits(C)
      /\ Transform(b, a) \in Edits(C) /\ Transform(a, b) \in Edits(C)
  BY TransformTyped
<1>2. CASE IsNoop(a)
  <2>1. Transform(c, a) = c /\ Transform(b, a) = b /\ Transform(a, b) = a
    BY <1>2, TransformIs
  <2>2. Transform(Transform(c, b), a) = Transform(c, b)
    BY <1>1, <1>2, TransformIs
  <2> QED
    BY <2>1, <2>2 DEF Alike
<1>3. CASE IsNoop(b)
  <2>1. Transform(c, b) = c /\ Transform(a, b) = a /\ Transform(b, a) = b
    BY <1>3, TransformIs
  <2>2. Transform(Transform(c, a), b) = Transform(c, a)
    BY <1>1, <1>3, TransformIs
  <2> QED
    BY <2>1, <2>2 DEF Alike
<1>4. CASE IsNoop(c)
  <2>1. Transform(c, a) = c /\ Transform(c, b) = c
    BY <1>4, TransformIs
  <2>2. Transform(c, Transform(b, a)) = c /\ Transform(c, Transform(a, b)) = c
    BY <1>1, <1>4, TransformIs
  <2> QED
    BY <2>1, <2>2 DEF Alike
<1>5. CASE ~IsNoop(a) /\ ~IsNoop(b) /\ ~IsNoop(c)
  <2>1. a.type \in {"insert", "delete"}
    BY EditFields
  <2>2. CASE a.type = "insert"
    BY <1>5, <2>2, ThirdInsert
  <2>3. CASE a.type = "delete"
    BY <1>5, <2>3, ThirdDelete
  <2> QED
    BY <2>1, <2>2, <2>3
<1> QED
  BY <1>2, <1>3, <1>4, <1>5

(* An operation stays within the document it is made for, also over one    *)
(* that does nothing.                                                      *)
LEMMA TransformSettles ==
  ASSUME NEW C, NEW d \in Seq(C), NEW op \in Edits(C), NEW com \in Edits(C),
         Settled(com, Len(d)), Settled(op, Len(d))
  PROVE  Settled(Transform(op, com), Len(Apply(d, com)))
<1>1. CASE IsNoop(com)
  <2>1. Transform(op, com) = op /\ Apply(d, com) = d
    BY <1>1, TransformIs, ApplySplices
  <2> QED
    BY <2>1
<1>2. CASE com.position + com.count <= Len(d)
  BY <1>2, TransformFits
<1> QED
  BY <1>1, <1>2 DEF Settled

(* The exchanged session after the commit of the operation that follows:   *)
(* the document is again the one of the session as it was.                 *)
LEMMA ExchangeThree ==
  ASSUME EditInv, NEW i \in 1 .. Len(history), i + 2 <= Len(history), Swappable(i),
         authored[i].type = authored[i + 1].type, authored[i + 1].type = authored[i + 2].type,
         NEW x, Exchanged(x, i)
  PROVE  CommitTo(x, authored[i + 2]).document = past[i + 3]
<1>0. Recorded /\ EveryRevisionMade /\ IdsDiffer
  BY DEF EditInv
<1>1. PICK n, j, p, r : n = Len(history) /\ j = i - 1 /\ p = i + 1 /\ r = i + 2
  OBVIOUS
<1>2. /\ n \in Nat /\ i \in Nat /\ j \in Nat /\ p \in Nat /\ r \in Nat
      /\ i \in 1 .. n /\ p \in 1 .. n /\ r \in 1 .. n /\ j <= n /\ r <= n
      /\ p = i + 1 /\ r = p + 1 /\ r = i + 2 /\ j + 1 = i /\ i # p /\ i # r /\ p # r
      /\ history \in Seq(Edits(Nat)) /\ authored \in Seq(Edits(Nat))
      /\ Len(authored) = n /\ Len(past) = n + 1 /\ past \in Seq(Seq(Nat))
  BY <1>0, <1>1 DEF Recorded
<1>3. PICK d, c, a, b : d = past[r] /\ c = authored[r] /\ a = Meeting(i, i) /\ b = Meeting(i, p)
  OBVIOUS
<1>4. d \in Seq(Nat) /\ c \in Edits(Nat)
  <2>1. r \in 1 .. Len(past) /\ r \in 1 .. Len(authored)
    BY <1>2
  <2> QED
    BY <1>2, <1>3, <2>1, ElementOfSeq
<1>5. authored[i].baseRevision < i /\ authored[p].baseRevision < i /\ Fits(i) /\ Fits(p)
  <2>1. authored[i].baseRevision < i
    BY <1>0, <1>1, <1>2 DEF EveryRevisionMade, MadeBy
  <2>2. i \in 1 .. Latest /\ p \in 1 .. Latest
    BY <1>1, <1>2 DEF Latest
  <2> QED
    BY <1>1, <2>1, <2>2 DEF Swappable
<1>6. i \in i .. Len(history) /\ p \in i .. Len(history) /\ p \in i + 1 .. Len(history)
  BY <1>1, <1>2
<1>7. /\ a \in Edits(Nat) /\ a.type = authored[i].type /\ a.opId = authored[i].opId
      /\ Settled(a, Len(past[i]))
  BY <1>3, <1>5, <1>6, MeetingIs
<1>8. /\ b \in Edits(Nat) /\ b.type = authored[p].type /\ b.opId = authored[p].opId
      /\ Settled(b, Len(past[i]))
  BY <1>3, <1>5, <1>6, MeetingIs
<1>9. x.document = d
  <2>1. ~Inside(a, b) /\ ~Inside(b, a)
    BY <1>1, <1>7, <1>8 DEF Inside
  <2>2. i + 1 <= Len(history)
    BY <1>1, <1>2
  <2> QED
    BY <1>1, <1>3, <2>1, <2>2, ExchangeConverges
<1>10. PICK q \in Nat : q = c.baseRevision
  BY <1>4, EditFields
<1>11. q < r /\ q # i
  <2>1. q < r
    BY <1>0, <1>1, <1>2, <1>3, <1>10 DEF EveryRevisionMade, MadeBy
  <2>2. r \in i + 2 .. Latest
    BY <1>1, <1>2 DEF Latest
  <2>3. q # i
    BY <1>3, <1>10, <2>2 DEF Swappable
  <2> QED
    BY <2>1, <2>3
<1>12. PICK hx : hx = x.history
  OBVIOUS
<1>13. /\ x \in Sessions(Nat) /\ hx \in Seq(Edits(Nat)) /\ Len(hx) = p
       /\ \A k \in 1 .. j : hx[k] = history[k]
  BY <1>1, <1>12 DEF Exchanged, Sessions
<1>14. PICK m : m = SubSeq(hx, q + 1, p)
  OBVIOUS
<1>15. m \in Seq(Edits(Nat)) /\ IsPart(m, hx, q, p)
  <2>1. q <= p /\ p <= Len(hx)
    BY <1>2, <1>11, <1>13, SMTT(30)
  <2> QED
    BY <1>2, <1>13, <1>14, <2>1, SubSeqOf
<1>16. CommitTo(x, c).document = Apply(d, TransformOver(c, m))
  <2>1. c.baseRevision <= Len(x.history) /\ m = SubSeq(x.history, c.baseRevision + 1, Len(x.history))
    BY <1>2, <1>10, <1>11, <1>12, <1>13, <1>14, SMTT(30)
  <2>2. x \in Sessions(Nat) /\ c \in Edits(Nat) /\ m \in Seq(Edits(Nat))
    BY <1>4, <1>13, <1>15
  <2>3. IsCommitted(CommitTo(x, c), x, TransformOver(c, m))
    BY <2>1, <2>2, CommitToIs
  <2> QED
    BY <1>9, <2>3 DEF IsCommitted
<1>17. past[r + 1] = Apply(d, Meeting(r, r))
  <2>1. r \in 1 .. Len(history)
    BY <1>1, <1>2
  <2> QED
    BY <1>3, <2>1, RevisionMade
<1>18. Alike(TransformOver(c, m), Meeting(r, r))
  <2>1. CASE q = p
    <3>1. PICK s : s = SubSeq(history, q + 1, p)
      OBVIOUS
    <3>2. s \in Seq(Edits(Nat)) /\ Len(s) = 0 /\ Len(m) = 0
      <4>1. p <= Len(history)
        BY <1>1, <1>2
      <4>2. p \in Nat /\ q \in Nat /\ q <= p /\ p - q = 0
        BY <1>2, <2>1
      <4>3. s \in Seq(Edits(Nat)) /\ IsPart(s, history, q, p)
        BY <1>2, <3>1, <4>1, <4>2, SubSeqOf
      <4>4. Len(s) = p - q /\ Len(m) = p - q
        BY <1>15, <4>3 DEF IsPart
      <4> QED
        BY <4>2, <4>3, <4>4
    <3>3. r - 1 = p
      BY <1>2
    <3>4. Meeting(r, r) = TransformOver(c, s)
      BY <1>3, <1>10, <3>1, <3>3 DEF Meeting
    <3>5. TransformOver(c, s) = c /\ TransformOver(c, m) = c
      BY <1>4, <1>15, <3>2, TransformOverNothing
    <3> QED
      BY <3>4, <3>5 DEF Alike
  <2>2. CASE q < i
    <3>1. PICK g, t, e, f : /\ g = Meeting(i, r) /\ t = SubSeq(history, q + 1, j)
                            /\ e = hx[i] /\ f = hx[p]
      OBVIOUS
    <3>2. r \in i .. Len(history) /\ r \in i + 1 .. Len(history) /\ authored[r].baseRevision < i
      <4>1. Len(history) \in Nat /\ i \in Nat /\ r = i + 2 /\ r <= Len(history)
        BY <1>1, <1>2
      <4>2. authored[r].baseRevision < i
        BY <1>3, <1>10, <2>2
      <4> QED
        BY <4>1, <4>2
    <3>3. g \in Edits(Nat) /\ g.type = authored[r].type /\ g.opId = authored[r].opId
      BY <3>1, <3>2, MeetingIs
    <3>4. Meeting(p, p) = Transform(b, a)
      BY <1>1, <1>3, <1>5, <1>6, MeetingNext
    <3>5. Meeting(p, r) = Transform(g, a)
      BY <1>1, <1>3, <1>5, <3>1, <3>2, MeetingNext
    <3>6. Meeting(r, r) = Transform(Meeting(p, r), Meeting(p, p))
      <4>1. p \in 1 .. Len(history) /\ r \in p + 1 .. Len(history) /\ authored[r].baseRevision < p /\ r = p + 1
        BY <1>1, <1>2, <1>3, <1>10, <2>2
      <4> QED
        BY <1>5, <4>1, MeetingNext
    <3>7. TransformOver(c, m) = Transform(Transform(g, b), Transform(a, b))
      <4>1. t \in Seq(Edits(Nat)) /\ IsPart(t, history, q, j)
        <5>1. q <= j /\ j <= Len(history)
          BY <1>1, <1>2, <2>2
        <5> QED
          BY <1>2, <3>1, <5>1, SubSeqOf
      <4>2. PICK v : v = SubSeq(hx, q + 1, i)
        OBVIOUS
      <4>3. v \in Seq(Edits(Nat)) /\ IsPart(v, hx, q, i)
        <5>1. q <= i /\ i <= Len(hx)
          BY <1>2, <1>13, <2>2, SMTT(30)
        <5> QED
          BY <1>2, <1>13, <4>2, <5>1, SubSeqOf
      <4>4. Len(t) = j - q /\ Len(v) = i - q /\ Len(m) = p - q
        BY <1>15, <4>1, <4>3 DEF IsPart
      <4>5. /\ Len(v) = Len(t) + 1 /\ Len(m) = Len(v) + 1
            /\ i - q \in 1 .. i - q /\ q + (i - q) = i
            /\ p - q \in 1 .. p - q /\ q + (p - q) = p
        BY <1>2, <2>2, <4>4
      <4>6. v[Len(v)] = e /\ m[Len(m)] = f
        BY <1>15, <3>1, <4>3, <4>4, <4>5 DEF IsPart
      <4>7. ASSUME NEW k \in 1 .. Len(t) PROVE v[k] = t[k]
        <5>1. k \in 1 .. j - q /\ k \in 1 .. i - q /\ q + k \in 1 .. j
          BY <1>2, <2>2, <4>4
        <5>2. v[k] = hx[q + k] /\ t[k] = history[q + k]
          BY <4>1, <4>3, <5>1 DEF IsPart
        <5> QED
          BY <1>13, <5>1, <5>2
      <4>8. ASSUME NEW k \in 1 .. Len(v) PROVE m[k] = v[k]
        <5>1. k \in 1 .. i - q /\ k \in 1 .. p - q
          BY <1>2, <2>2, <4>4
        <5> QED
          BY <1>15, <4>3, <5>1 DEF IsPart
      <4>9. TransformOver(c, v) = Transform(TransformOver(c, t), e)
        BY <1>4, <4>1, <4>3, <4>5, <4>6, <4>7, TransformOverLast, ZenonT(120)
      <4>10. TransformOver(c, m) = Transform(TransformOver(c, v), f)
        BY <1>4, <1>15, <4>3, <4>5, <4>6, <4>8, TransformOverLast, ZenonT(120)
      <4>11. TransformOver(c, t) = g
        BY <1>1, <1>3, <1>10, <3>1 DEF Meeting
      <4>12. PICK size, after, o : size = Len(past[i]) /\ after = Len(Apply(past[i], b)) /\ o = Transform(a, b)
        OBVIOUS
      <4>13. past[i] \in Seq(Nat)
        <5>1. i \in 1 .. Len(past)
          BY <1>2
        <5> QED
          BY <1>2, <5>1, ElementOfSeq
      <4>14. size \in Nat /\ after \in Nat
        BY <1>8, <4>12, <4>13, ApplySplices
      <4>15. e = Entered(b, size, i) /\ f = Entered(o, after, p)
        BY <1>1, <1>3, <1>12, <3>1, <4>12 DEF Exchanged
      <4>16. Transform(g, e) = Transform(g, b)
        BY <1>2, <1>8, <3>3, <4>12, <4>14, <4>15, EnteredTransforms
      <4>17. o \in Edits(Nat) /\ Transform(g, b) \in Edits(Nat)
        BY <1>7, <1>8, <3>3, <4>12, TransformTyped
      <4>18. Settled(o, after)
        BY <1>7, <1>8, <4>12, <4>13, TransformSettles
      <4>19. Transform(Transform(g, b), f) = Transform(Transform(g, b), o)
        BY <1>2, <4>14, <4>15, <4>17, <4>18, EnteredTransforms
      <4> QED
        BY <4>9, <4>10, <4>11, <4>12, <4>16, <4>19
    <3>8. /\ a.type = b.type /\ b.type = g.type
          /\ a.opId # b.opId /\ a.opId # g.opId /\ b.opId # g.opId
      BY <1>0, <1>1, <1>2, <1>7, <1>8, <3>3 DEF IdsDiffer
    <3>9. Alike(Transform(Transform(g, a), Transform(b, a)),
                Transform(Transform(g, b), Transform(a, b)))
      BY <1>7, <1>8, <3>3, <3>8, ThirdAlike
    <3>10. PICK v, w : v = Transform(g, a) /\ w = Transform(b, a)
      OBVIOUS
    <3>11. Meeting(r, r) = Transform(v, w)
      BY <3>4, <3>5, <3>6, <3>10
    <3>12. Alike(Transform(v, w), TransformOver(c, m))
      BY <3>7, <3>9, <3>10
    <3> QED
      BY <3>11, <3>12 DEF Alike
  <2>3. q = p \/ q < i
    <3>1. q \in Nat /\ i \in Nat /\ p = i + 1 /\ r = i + 2 /\ q < r /\ q # i
      BY <1>2, <1>11
    <3> QED
      BY <3>1
  <2> QED
    BY <2>1, <2>2, <2>3
<1>19. TransformOver(c, m) \in Edits(Nat) /\ Meeting(r, r) \in Edits(Nat)
  <2>1. TransformOver(c, m) \in Edits(Nat)
    BY <1>4, <1>15, TransformOverTyped
  <2>2. r \in r .. Len(history) /\ r \in 1 .. Len(history) /\ authored[r].baseRevision < r
    BY <1>1, <1>2, <1>3, <1>10, <1>11
  <2>3. Meeting(r, r) \in Edits(Nat)
    BY <2>2, MeetingIs
  <2> QED
    BY <2>1, <2>3
<1>20. Apply(d, TransformOver(c, m)) = Apply(d, Meeting(r, r))
  BY <1>4, <1>18, <1>19, AlikeApplies
<1>21. r + 1 = i + 3
  BY <1>1, <1>2
<1> QED
  BY <1>1, <1>3, <1>16, <1>17, <1>20, <1>21

LEMMA EditInvSameKind ==
  EditInv => SameKindConverge
<1> SUFFICES ASSUME EditInv, NEW kind, AllOf(kind), NEW i \in {Latest - 2, Latest - 1}, Swappable(i)
             PROVE  Converge(i)
  BY DEF SameKindConverge
<1>0. Recorded /\ EveryRevisionMade
  BY DEF EditInv
<1>1. PICK n : n = Len(history)
  OBVIOUS
<1>2. /\ n \in Nat /\ Latest = n /\ i \in 1 .. n /\ i + 1 \in 1 .. n /\ i \in Nat
      /\ authored \in Seq(Edits(Nat)) /\ Len(authored) = n /\ document = past[n + 1]
  <2>1. /\ n \in Nat /\ Latest = n
        /\ authored \in Seq(Edits(Nat)) /\ Len(authored) = n /\ document = past[n + 1]
    BY <1>0, <1>1 DEF Recorded, Latest
  <2>2. i > 0
    BY DEF Swappable
  <2> QED
    BY <2>1, <2>2
<1>3. i \in 1 .. Len(history) /\ i + 1 <= Len(history)
  BY <1>1, <1>2
<1>4. \A r \in 1 .. n : authored[r].type = kind
  BY <1>2 DEF AllOf
<1>5. CASE i = Latest - 1
  <2>1. i + 1 = Latest
    BY <1>2, <1>5
  <2>2. Meeting(i, i).type = kind /\ Meeting(i, i + 1).type = kind
    <3>1. authored[i].baseRevision < i
      BY <1>0, <1>3 DEF EveryRevisionMade, MadeBy
    <3>2. authored[i + 1].baseRevision < i
      BY DEF Swappable
    <3>3. i \in i .. Len(history) /\ i + 1 \in i .. Len(history)
      BY <1>2, <1>3
    <3>4. Meeting(i, i).type = authored[i].type
      BY <1>3, <3>1, <3>3, MeetingIs
    <3>5. Meeting(i, i + 1).type = authored[i + 1].type
      <4>1. PICK p : p = i + 1
        OBVIOUS
      <4>2. Meeting(i, p).type = authored[p].type
        BY <1>3, <3>2, <3>3, <4>1, MeetingIs
      <4> QED
        BY <4>1, <4>2
    <3> QED
      BY <1>2, <1>4, <3>4, <3>5
  <2>3. ~Inside(Meeting(i, i), Meeting(i, Latest)) /\ ~Inside(Meeting(i, Latest), Meeting(i, i))
    BY <2>1, <2>2 DEF Inside
  <2>4. DisjointConverge
    BY EditInvDisjoint
  <2> QED
    BY <1>5, <2>3, <2>4 DEF DisjointConverge
<1>6. CASE i = Latest - 2
  <2>1. i + 2 = n /\ i + 2 \in 1 .. n /\ i + 2 <= Len(history) /\ i + 3 = n + 1
    BY <1>1, <1>2, <1>6
  <2>2. PICK x0, a, b, c : /\ x0 = [document |-> past[i], history |-> SubSeq(history, 1, i - 1)]
                           /\ a = authored[i] /\ b = authored[i + 1] /\ c = authored[i + 2]
    OBVIOUS
  <2>3. a \in Edits(Nat) /\ b \in Edits(Nat) /\ c \in Edits(Nat)
    <3>1. i \in 1 .. Len(authored) /\ i + 1 \in 1 .. Len(authored) /\ i + 2 \in 1 .. Len(authored)
      BY <1>2, <2>1
    <3> QED
      BY <1>2, <2>2, <3>1, ElementOfSeq
  <2>4. PICK x, y : x = CommitTo(CommitTo(x0, b), a) /\ y = CommitTo(x, c)
    OBVIOUS
  <2>5. x0 \in Sessions(Nat) /\ Exchanged(x, i)
    BY <1>3, <2>2, <2>4, ExchangeTwo
  <2>6. y.document = past[i + 3]
    <3>1. authored[i].type = authored[i + 1].type /\ authored[i + 1].type = authored[i + 2].type
      BY <1>2, <1>4, <2>1
    <3> QED
      BY <1>3, <2>1, <2>2, <2>4, <2>5, <3>1, ExchangeThree
  <2>7. Swapped(i) = FoldLeft(CommitTo, x0, <<b, a, c>>)
    <3>1. SubSeq(authored, i + 2, Latest) = <<c>>
      <4>1. PICK e, r, m : e = i + 1 /\ r = i + 2 /\ m = SubSeq(authored, e + 1, r)
        OBVIOUS
      <4>2. e \in Nat /\ r \in Nat /\ e <= r /\ r <= Len(authored) /\ e + 1 = r /\ r - e = 1
        BY <1>2, <2>1, <4>1
      <4>3. m \in Seq(Edits(Nat)) /\ IsPart(m, authored, e, r)
        BY <1>2, <4>1, <4>2, SubSeqOf
      <4>4. 1 \in 1 .. 1
        OBVIOUS
      <4>5. Len(m) = 1 /\ m[1] = c
        BY <2>2, <4>1, <4>2, <4>3, <4>4 DEF IsPart
      <4>6. m = <<c>>
        BY <4>3, <4>5
      <4>7. Latest = r /\ i + 2 = e + 1
        BY <1>2, <2>1, <4>1, <4>2
      <4> QED
        BY <4>1, <4>6, <4>7
    <3>2. <<b, a>> \o <<c>> = <<b, a, c>>
      <4>1. PICK u, v, w, z : u = <<b, a>> /\ v = <<c>> /\ w = u \o v /\ z = <<b, a, c>>
        OBVIOUS
      <4>2. /\ u \in Seq(Edits(Nat)) /\ Len(u) = 2 /\ u[1] = b /\ u[2] = a
            /\ v \in Seq(Edits(Nat)) /\ Len(v) = 1 /\ v[1] = c
        BY <2>3, <4>1
      <4>3. z \in Seq(Edits(Nat)) /\ Len(z) = 3 /\ z[1] = b /\ z[2] = a /\ z[3] = c
        BY <2>3, <4>1
      <4>4. w \in Seq(Edits(Nat)) /\ Len(w) = 3 /\ w[1] = b /\ w[2] = a /\ w[3] = c
        BY <4>1, <4>2
      <4>5. \A k \in 1 .. Len(w) : w[k] = z[k]
        BY <4>3, <4>4
      <4>6. w = z
        BY <4>3, <4>4, <4>5, SameSeq
      <4> QED
        BY <4>1, <4>6
    <3>3. PICK m : m = SubSeq(authored, i + 2, Latest)
      OBVIOUS
    <3>4. Swapped(i) = FoldLeft(CommitTo, x0, <<b, a>> \o m)
      BY <2>2, <3>3 DEF Swapped
    <3>5. m = <<c>>
      BY <3>1, <3>3
    <3> QED
      BY <3>2, <3>4, <3>5
  <2>8. FoldLeft(CommitTo, x0, <<b, a, c>>) = y
    <3>1. PICK s : s = <<b, a, c>>
      OBVIOUS
    <3>2. s \in Seq(Edits(Nat)) /\ Len(s) = 3 /\ s[1] = b /\ s[2] = a /\ s[3] = c
      BY <2>3, <3>1
    <3>3. PICK t \in [0 .. Len(s) -> Sessions(Nat)] :
            Commits(t, x0, s) /\ FoldLeft(CommitTo, x0, s) = t[Len(s)]
      BY <2>5, <3>2, CommitRuns
    <3>4. /\ 1 \in 1 .. Len(s) /\ 2 \in 1 .. Len(s) /\ 3 \in 1 .. Len(s)
          /\ 1 - 1 = 0 /\ 2 - 1 = 1 /\ 3 - 1 = 2
      BY <3>2
    <3>5. /\ t[0] = x0 /\ t[1] = CommitTo(t[0], s[1]) /\ t[2] = CommitTo(t[1], s[2])
          /\ t[3] = CommitTo(t[2], s[3])
      BY <3>3, <3>4 DEF Commits
    <3> QED
      BY <2>4, <3>1, <3>2, <3>3, <3>5
  <2> QED
    BY <1>2, <2>1, <2>6, <2>7, <2>8 DEF Converge
<1> QED
  BY <1>5, <1>6

(* SameKindConverge: "same-base concurrent inserts converge regardless of  *)
(* commit order", and so do deletes, however they overlap: whatever the    *)
(* clients sent, over any history, and when a third operation of the kind  *)
(* follows that saw both or neither (TP2, ThirdAlike).                     *)
THEOREM OneKindConverges == EditSpec => []SameKindConverge
<1>1. EditSpec => []EditInv
  BY EditInvInvariant
<1> QED
  BY <1>1, EditInvSameKind, PTL DEF EditSpec

-----------------------------------------------------------------------------
(* Whose a character is: what revision r inserted is numbered above        *)
(* 100 r, and nothing in a document above its revision's.  The characters  *)
(* of each are distinct.                                                   *)
Newer(r) == \A k \in 1 .. Len(authored[r].text) : authored[r].text[k] > 100 * r

Older(r) == IsInjective(past[r]) /\ \A k \in 1 .. Len(past[r]) : past[r][k] <= 100 * r

Dated ==
  /\ \A r \in 1 .. Len(history) : Newer(r)
  /\ \A r \in 1 .. Len(history) + 1 : Older(r)

LEMMA OlderNow ==
  ASSUME EditInv
  PROVE  Older(Len(history) + 1)
<1>1. Recorded /\ Labelled
  BY DEF EditInv
<1>2. PICK n, d : n = Len(history) + 1 /\ d = document
  OBVIOUS
<1>3. past[n] = d /\ IsInjective(d) /\ \A k \in 1 .. Len(d) : d[k] <= 100 * n
  BY <1>1, <1>2 DEF Recorded, Labelled
<1> QED
  BY <1>2, <1>3 DEF Older

LEMMA DatedCommit ==
  ASSUME EditInv, EditInv', Dated, NEW base \in 0 .. Revision,
         NEW id \in OpIds \ { history[r].opId : r \in 1 .. Revision },
         NEW op \in InsertOps(base, id) \cup DeleteOps(base, id), CommitEdit(op)
  PROVE  Dated'
<1>0. Recorded /\ Recorded'
  BY DEF EditInv
<1>1. PICK n : n = Len(history)
  OBVIOUS
<1>2. /\ n \in Nat /\ Len(history') = n + 1 /\ Len(past) = n + 1 /\ Len(past') = n + 2
      /\ authored \in Seq(Edits(Nat)) /\ Len(authored) = n
      /\ past \in Seq(Seq(Nat))
  <2>1. n \in Nat /\ Len(past) = n + 1 /\ Len(authored) = n
        /\ authored \in Seq(Edits(Nat)) /\ past \in Seq(Seq(Nat)) /\ history \in Seq(Edits(Nat))
    BY <1>0, <1>1 DEF Recorded
  <2>2. history' = Append(history, Committed(op))
    BY DEF CommitEdit, Commit
  <2>3. Len(history') = n + 1
    BY <1>1, <2>1, <2>2
  <2>4. Len(past') = Len(history') + 1
    BY <1>0 DEF Recorded
  <2> QED
    BY <2>1, <2>3, <2>4
<1>3. PICK d : d = document'
  OBVIOUS
<1>4. past' = Append(past, d) /\ authored' = Append(authored, op) /\ d \in Seq(Nat)
  BY <1>0, <1>3 DEF CommitEdit, Recorded
<1>5. /\ op \in Edits(Nat)
      /\ \A k \in 1 .. Len(op.text) : op.text[k] > 100 * (n + 1)
  BY <1>0, <1>1, AuthoredIs DEF EditInv
<1>6. ASSUME NEW r \in 1 .. n + 1 PROVE Newer(r)'
  <2>1. CASE r \in 1 .. n
    <3>1. authored'[r] = authored[r]
      BY <1>2, <1>4, <2>1
    <3>2. Newer(r)
      BY <1>1, <2>1 DEF Dated
    <3> QED
      BY <3>1, <3>2 DEF Newer
  <2>2. CASE r = n + 1
    <3>1. authored'[r] = op
      BY <1>2, <1>4, <1>5, <2>2
    <3> QED
      BY <1>5, <2>2, <3>1 DEF Newer
  <2> QED
    BY <1>2, <2>1, <2>2
<1>7. ASSUME NEW r \in 1 .. n + 2 PROVE Older(r)'
  <2>1. CASE r \in 1 .. n + 1
    <3>1. past'[r] = past[r]
      BY <1>2, <1>4, <2>1
    <3>2. Older(r)
      BY <1>1, <2>1 DEF Dated
    <3> QED
      BY <3>1, <3>2 DEF Older
  <2>2. CASE r = n + 2
    <3>1. Recorded' /\ Labelled'
      BY DEF EditInv
    <3>2. past'[r] = document'
      <4>1. Len(history') + 1 = r
        BY <1>2, <2>2
      <4> QED
        BY <3>1, <4>1 DEF Recorded
    <3>3. IsInjective(document') /\ \A k \in 1 .. Len(document') : document'[k] <= 100 * r
      <4>1. Len(history') + 1 = r
        BY <1>2, <2>2
      <4> QED
        BY <3>1, <4>1 DEF Labelled
    <3> QED
      BY <3>2, <3>3 DEF Older
  <2> QED
    BY <1>2, <2>1, <2>2
<1>8. Len(history') + 1 = n + 2
  BY <1>2
<1> QED
  BY <1>2, <1>6, <1>7, <1>8 DEF Dated

LEMMA AlwaysDated ==
  EditSpec => [](EditInv /\ Dated)
<1>1. EditInit => Dated
  <2> SUFFICES ASSUME EditInit PROVE Dated
    OBVIOUS
  <2>1. EditInv
    BY EditInvInit, EditAssumption
  <2>2. Len(history) = 0
    BY DEF EditInit, Init
  <2>3. Older(Len(history) + 1)
    BY <2>1, OlderNow
  <2> QED
    BY <2>2, <2>3 DEF Dated
<1>2. EditInv /\ EditInv' /\ Dated /\ [EditNext]_vars => Dated'
  <2> SUFFICES ASSUME EditInv, EditInv', Dated, [EditNext]_vars PROVE Dated'
    OBVIOUS
  <2>1. CASE EditNext
    BY <2>1, DatedCommit DEF EditNext
  <2>2. CASE UNCHANGED vars
    BY <2>2 DEF vars, Dated, Newer, Older
  <2> QED
    BY <2>1, <2>2
<1> QED
  BY <1>1, <1>2, EditInvInvariant, PTL DEF EditSpec

-----------------------------------------------------------------------------
(* Where the characters are that an author saw, when the operation is      *)
(* committed.                                                              *)

(* Character k of a document lies in front of where op inserts, or in what *)
(* op deletes.                                                             *)
Touches(op, k) ==
  IF op.type = "insert" THEN k <= op.position
  ELSE op.position < k /\ k <= op.position + op.count

(* What of one document is left in another one lies there for op as it was *)
(* in the first exactly if it does for o in the second.                    *)
Tracks(base, op, d, o) ==
  \A i \in 1 .. Len(base), j \in 1 .. Len(d) :
    base[i] = d[j] => (Touches(op, i) <=> Touches(o, j))

(* The place, before op, of a character that is at j after it.             *)
Before(op, j) ==
  IF j <= op.position THEN j
  ELSE IF op.type = "insert" THEN j - Len(op.text) ELSE j + op.count

Outside(op, j) ==
  op.type = "insert" => j <= op.position \/ j > op.position + Len(op.text)

LEMMA Survives ==
  ASSUME NEW d \in Seq(Nat), NEW com \in Edits(Nat), com.position + com.count <= Len(d),
         NEW D, D = Apply(d, com), NEW j \in 1 .. Len(D), Outside(com, j)
  PROVE  Before(com, j) \in 1 .. Len(d) /\ D[j] = d[Before(com, j)]
<1>1. PICK p, n, t, m, size : /\ p = com.position /\ n = com.count /\ t = com.text
                              /\ m = Len(t) /\ size = Len(d)
  OBVIOUS
<1>2. /\ com.type \in {"insert", "delete"} /\ p \in Nat /\ n \in Nat /\ t \in Seq(Nat)
      /\ m \in Nat /\ size \in Nat /\ p + n <= size
      /\ com.type = "insert" => n = 0
  BY <1>1, EditFields
<1>3. CASE com.type = "insert"
  <2>0. p \in 0 .. Len(d) /\ p <= Len(d)
    BY <1>1, <1>2, <1>3
  <2>1. D = Inserted(d, p, t)
    BY <1>1, <1>3, <2>0, ApplyInsert
  <2>2. IsInserted(D, d, p, t)
    BY <1>2, <2>0, <2>1, InsertedAt
  <2>3. j \in 1 .. size + m /\ Len(D) = size + m
        /\ D[j] = IF j <= p THEN d[j] ELSE IF j <= p + m THEN t[j - p] ELSE d[j - m]
    BY <1>1, <2>2 DEF IsInserted
  <2>4. j <= p \/ j > p + m
    BY <1>1, <1>3 DEF Outside
  <2>5. Before(com, j) = IF j <= p THEN j ELSE j - m
    BY <1>1, <1>3 DEF Before
  <2>6. CASE j <= p
    BY <1>1, <1>2, <2>3, <2>5, <2>6
  <2>7. CASE j > p + m
    <3>1. PICK k : k = j - m
      OBVIOUS
    <3>2. k \in 1 .. size /\ ~(j <= p) /\ ~(j <= p + m)
      BY <1>2, <2>3, <2>7, <3>1
    <3> QED
      BY <1>1, <2>3, <2>5, <3>1, <3>2
  <2> QED
    BY <2>4, <2>6, <2>7
<1>4. CASE com.type = "delete"
  <2>0. p \in 0 .. Len(d) /\ n \in 0 .. Len(d) - p /\ p + n <= Len(d)
    BY <1>1, <1>2, <1>4
  <2>1. D = Deleted(d, p, n)
    BY <1>1, <1>4, <2>0, ApplyDelete
  <2>2. IsDeleted(D, d, p, n)
    BY <1>2, <2>0, <2>1, DeletedAt
  <2>3. j \in 1 .. size - n /\ Len(D) = size - n
        /\ D[j] = IF j <= p THEN d[j] ELSE d[j + n]
    BY <1>1, <2>2 DEF IsDeleted
  <2>5. Before(com, j) = IF j <= p THEN j ELSE j + n
    BY <1>1, <1>4 DEF Before
  <2>6. CASE j <= p
    BY <1>1, <1>2, <2>3, <2>5, <2>6
  <2>7. CASE ~(j <= p)
    <3>1. PICK k : k = j + n
      OBVIOUS
    <3>2. k \in 1 .. size
      BY <1>2, <2>3, <2>7, <3>1
    <3> QED
      BY <1>1, <2>3, <2>5, <2>7, <3>1, <3>2
  <2> QED
    BY <2>6, <2>7
<1> QED
  BY <1>2, <1>3, <1>4

(* What an insert put there is its text.                                   *)
LEMMA PutThere ==
  ASSUME NEW d \in Seq(Nat), NEW com \in Edits(Nat), com.position + com.count <= Len(d),
         NEW D, D = Apply(d, com), NEW j \in 1 .. Len(D), ~Outside(com, j)
  PROVE  /\ com.type = "insert" /\ j - com.position \in 1 .. Len(com.text)
         /\ D[j] = com.text[j - com.position]
<1>1. PICK p, n, t, m, size : /\ p = com.position /\ n = com.count /\ t = com.text
                              /\ m = Len(t) /\ size = Len(d)
  OBVIOUS
<1>2. /\ com.type = "insert" /\ p \in Nat /\ n = 0 /\ t \in Seq(Nat)
      /\ m \in Nat /\ size \in Nat /\ p <= size /\ p \in 0 .. Len(d)
      /\ j > p /\ j <= p + m /\ j \in Nat
  <2>1. com.type = "insert" /\ j > p /\ j <= p + m
    BY <1>1, EditFields DEF Outside
  <2> QED
    BY <1>1, <2>1, EditFields
<1>3. D = Inserted(d, p, t)
  BY <1>1, <1>2, ApplyInsert
<1>4. IsInserted(D, d, p, t)
  BY <1>2, <1>3, InsertedAt
<1>5. j \in 1 .. size + m
      /\ D[j] = IF j <= p THEN d[j] ELSE IF j <= p + m THEN t[j - p] ELSE d[j - m]
  BY <1>1, <1>4 DEF IsInserted
<1>6. D[j] = t[j - p] /\ j - p \in 1 .. m
  BY <1>2, <1>5
<1> QED
  BY <1>1, <1>2, <1>6

(* transform() keeps on either side what was there.                        *)
LEMMA TouchesMoves ==
  ASSUME NEW o \in Edits(Nat), NEW com \in Edits(Nat), NEW j \in Nat, j > 0, Outside(com, j),
         IsNoop(o) => o.type = "delete"
  PROVE  Touches(o, Before(com, j)) <=> Touches(Transform(o, com), j)
<1>1. PICK t : t = Transform(o, com)
  OBVIOUS
<1>2. PICK p, n, s, c, m, q, l : /\ p = o.position /\ n = o.count
                                 /\ s = com.position /\ c = com.count /\ m = Len(com.text)
                                 /\ q = t.position /\ l = t.count
  OBVIOUS
<1>3. /\ p \in Nat /\ n \in Nat /\ s \in Nat /\ c \in Nat /\ m \in Nat
      /\ o.type \in {"insert", "delete"} /\ com.type \in {"insert", "delete"}
      /\ t.type = o.type
  <2>1. t.type = o.type
    BY <1>1, TransformTyped
  <2> QED
    BY <1>2, <2>1, EditFields
<1>4. CASE IsNoop(com)
  <2>1. t = o
    BY <1>1, <1>4, TransformIs
  <2>2. Before(com, j) = j
    <3>1. (com.type = "insert" /\ m = 0) \/ (com.type = "delete" /\ c = 0)
      BY <1>2, <1>4 DEF IsNoop
    <3> QED
      BY <1>2, <1>3, <3>1 DEF Before
  <2> QED
    BY <1>1, <2>1, <2>2
<1>5. CASE IsNoop(o)
  <2>1. t = o /\ o.type = "delete" /\ n = 0
    BY <1>1, <1>2, <1>5, TransformIs DEF IsNoop
  <2>2. Before(com, j) \in Int
    BY <1>2, <1>3 DEF Before
  <2>3. \A k \in Int : ~Touches(o, k)
    <3> TAKE k \in Int
    <3>1. ~(p < k /\ k <= p + n)
      BY <1>3, <2>1
    <3> QED
      BY <1>2, <2>1, <3>1 DEF Touches
  <2> QED
    BY <1>1, <2>1, <2>2, <2>3
<1>6. CASE ~IsNoop(o) /\ ~IsNoop(com)
  <2>1. PICK k : k = Before(com, j)
    OBVIOUS
  <2>2. q = StartOver(o, com) /\ l = CountOver(o, com)
    BY <1>1, <1>2, <1>6, TransformMoves
  <2>3. CASE com.type = "insert"
    <3>1. k = IF j <= s THEN j ELSE j - m
      BY <1>2, <2>1, <2>3 DEF Before
    <3>2. j <= s \/ j > s + m
      BY <1>2, <2>3 DEF Outside
    <3>3. CASE o.type = "insert"
      <4>1. \/ q = p + m /\ p >= s
            \/ q = p /\ p <= s
        BY <1>2, <1>3, <2>2, <2>3, <3>3 DEF StartOver
      <4>2. k <= p <=> j <= q
        BY <1>3, <3>1, <3>2, <4>1
      <4> QED
        BY <1>1, <1>2, <1>3, <2>1, <3>3, <4>2 DEF Touches
    <3>4. CASE o.type = "delete"
      <4>1. q = IF p >= s THEN p + m ELSE p
        BY <1>2, <2>2, <2>3, <3>4 DEF StartOver
      <4>2. l = IF p < s /\ p + n > s THEN n + m ELSE n
        BY <1>2, <2>2, <2>3, <3>4 DEF CountOver
      <4>3. (p < k /\ k <= p + n) <=> (q < j /\ j <= q + l)
        BY <1>3, <3>1, <3>2, <4>1, <4>2
      <4> QED
        BY <1>1, <1>2, <1>3, <2>1, <3>4, <4>3 DEF Touches
    <3> QED
      BY <1>3, <3>3, <3>4
  <2>4. CASE com.type = "delete"
    <3>1. k = IF j <= s THEN j ELSE j + c
      BY <1>2, <2>1, <2>4 DEF Before
    <3>2. q = IF p >= s + c THEN p - c ELSE IF p >= s THEN s ELSE p
      BY <1>2, <2>2, <2>4 DEF StartOver
    <3>3. CASE o.type = "insert"
      <4>1. k <= p <=> j <= q
        BY <1>3, <3>1, <3>2
      <4> QED
        BY <1>1, <1>2, <1>3, <2>1, <3>3, <4>1 DEF Touches
    <3>4. CASE o.type = "delete"
      <4>1. l = IF p + n <= s \/ p >= s + c THEN n
                ELSE n - (Smaller(p + n, s + c) - Larger(p, s))
        BY <1>2, <2>2, <2>4, <3>4 DEF CountOver
      <4>2. (p < k /\ k <= p + n) <=> (q < j /\ j <= q + l)
        BY <1>3, <3>1, <3>2, <4>1 DEF Smaller, Larger
      <4> QED
        BY <1>1, <1>2, <1>3, <2>1, <3>4, <4>2 DEF Touches
    <3> QED
      BY <1>3, <3>3, <3>4
  <2> QED
    BY <1>3, <2>3, <2>4
<1> QED
  BY <1>4, <1>5, <1>6

(* One operation of the history keeps track of what was there before it.   *)
LEMMA TracksOver ==
  ASSUME NEW base, NEW op, NEW d \in Seq(Nat), NEW o \in Edits(Nat), NEW com \in Edits(Nat),
         com.position + com.count <= Len(d), IsNoop(o) => o.type = "delete",
         Tracks(base, op, d, o),
         \A i \in 1 .. Len(base), k \in 1 .. Len(com.text) : com.text[k] # base[i]
  PROVE  Tracks(base, op, Apply(d, com), Transform(o, com))
<1>1. PICK D, t : D = Apply(d, com) /\ t = Transform(o, com)
  OBVIOUS
<1>2. D \in Seq(Nat)
  BY <1>1, ApplySplices
<1>3. ASSUME NEW i \in 1 .. Len(base), NEW j \in 1 .. Len(D), base[i] = D[j]
      PROVE  Touches(op, i) <=> Touches(t, j)
  <2>1. Outside(com, j)
    <3>1. SUFFICES ASSUME ~Outside(com, j) PROVE FALSE
      OBVIOUS
    <3>2. PICK k : k = j - com.position
      OBVIOUS
    <3>3. k \in 1 .. Len(com.text) /\ D[j] = com.text[k]
      BY <1>1, <3>1, <3>2, PutThere
    <3> QED
      BY <1>3, <3>3
  <2>2. PICK m : m = Before(com, j)
    OBVIOUS
  <2>3. m \in 1 .. Len(d) /\ D[j] = d[m]
    BY <1>1, <2>1, <2>2, Survives
  <2>4. Touches(op, i) <=> Touches(o, m)
    BY <1>3, <2>3 DEF Tracks
  <2>5. j \in Nat /\ j > 0
    BY <1>2
  <2>6. Touches(o, m) <=> Touches(t, j)
    BY <1>1, <2>1, <2>2, <2>5, TouchesMoves
  <2> QED
    BY <2>4, <2>6
<1> QED
  BY <1>1, <1>3 DEF Tracks

(* The operation over the revisions b + 1 .. k.                            *)
Stage(op, b, k) == TransformOver(op, SubSeq(history, b + 1, k))

LEMMA StageIs ==
  ASSUME EditInv, NEW op \in Edits(Nat), NEW b \in Nat, NEW k \in Nat, b <= k, k <= Len(history)
  PROVE  /\ Stage(op, b, k) \in Edits(Nat)
         /\ Stage(op, b, k).type = op.type /\ Stage(op, b, k).text = op.text
         /\ Stage(op, b, b) = op
         /\ k < Len(history) => Stage(op, b, k + 1) = Transform(Stage(op, b, k), history[k + 1])
<1>0. history \in Seq(Edits(Nat)) /\ Len(history) \in Nat
  BY DEF EditInv, Recorded
<1>1. PICK s : s = SubSeq(history, b + 1, k)
  OBVIOUS
<1>2. s \in Seq(Edits(Nat)) /\ IsPart(s, history, b, k)
  BY <1>0, <1>1, SubSeqOf
<1>3. /\ Stage(op, b, k) \in Edits(Nat)
      /\ Stage(op, b, k).type = op.type /\ Stage(op, b, k).text = op.text
  BY <1>1, <1>2, TransformOverTyped DEF Stage
<1>4. Stage(op, b, b) = op
  <2>1. PICK r : r = SubSeq(history, b + 1, b)
    OBVIOUS
  <2>2. b <= b /\ b <= Len(history) /\ b - b = 0
    BY <1>0
  <2>3. r \in Seq(Edits(Nat)) /\ IsPart(r, history, b, b)
    BY <1>0, <2>1, <2>2, SubSeqOf
  <2>4. Len(r) = 0
    BY <2>2, <2>3 DEF IsPart
  <2> QED
    BY <2>1, <2>3, <2>4, TransformOverNothing DEF Stage
<1>5. ASSUME k < Len(history) PROVE Stage(op, b, k + 1) = Transform(Stage(op, b, k), history[k + 1])
  <2>1. PICK e, r : e = k + 1 /\ r = SubSeq(history, b + 1, e)
    OBVIOUS
  <2>2. e \in Nat /\ b <= e /\ e <= Len(history)
    BY <1>0, <1>5, <2>1
  <2>3. r \in Seq(Edits(Nat)) /\ IsPart(r, history, b, e)
    BY <1>0, <2>1, <2>2, SubSeqOf
  <2>4. Len(s) = k - b /\ Len(r) = e - b
    BY <1>2, <2>3 DEF IsPart
  <2>5. Len(r) = Len(s) + 1 /\ e - b \in 1 .. e - b /\ b + (e - b) = e
    BY <2>1, <2>2, <2>4
  <2>6. r[Len(r)] = history[e]
    BY <2>3, <2>4, <2>5 DEF IsPart
  <2>7. ASSUME NEW i \in 1 .. Len(s) PROVE r[i] = s[i]
    <3>1. i \in 1 .. k - b /\ i \in 1 .. e - b
      BY <2>1, <2>2, <2>4
    <3> QED
      BY <1>2, <2>3, <3>1 DEF IsPart
  <2>8. TransformOver(op, r) = Transform(TransformOver(op, s), r[Len(r)])
    BY <1>2, <2>3, <2>5, <2>7, TransformOverLast
  <2> QED
    BY <1>1, <2>1, <2>6, <2>8 DEF Stage
<1> QED
  BY <1>3, <1>4, <1>5

(* One revision after another.                                             *)
LEMMA DocumentNext ==
  ASSUME EditInv, NEW k \in Nat, NEW r, r = k + 1, r \in 1 .. Len(history)
  PROVE  /\ past[r] \in Seq(Nat) /\ history[r] \in Edits(Nat)
         /\ history[r].position + history[r].count <= Len(past[r])
         /\ history[r].type = authored[r].type /\ history[r].text = authored[r].text
         /\ past[r + 1] = Apply(past[r], history[r])
<1>1. Recorded /\ MadeBy(r)
  BY DEF EditInv, EveryRevisionMade
<1>2. past[r + 1] = Apply(past[r], history[r])
  BY <1>1 DEF MadeBy
<1> QED
  BY <1>1, <1>2, MadeByFits

LEMMA HistoryTracks ==
  ASSUME EditInv, Dated, NEW op \in Edits(Nat), op.type = "insert" => op.text # <<>>,
         NEW b \in Nat, NEW q \in Nat, NEW e \in Nat, b <= q, q <= e, e <= Len(history)
  PROVE  Tracks(past[q + 1], Stage(op, b, q), past[e + 1], Stage(op, b, e))
<1> DEFINE base == past[q + 1]
           first == Stage(op, b, q)
           Good == { m \in 0 .. e - q : Tracks(base, first, past[q + m + 1], Stage(op, b, q + m)) }
<1>0. Recorded
  BY DEF EditInv
<1>1. PICK n : n = Len(history)
  OBVIOUS
<1>2. n \in Nat /\ e <= n /\ past \in Seq(Seq(Nat)) /\ Len(past) = n + 1 /\ e - q \in Nat
  BY <1>0, <1>1 DEF Recorded
<1>3. IsInjective(base) /\ base \in Seq(Nat) /\ \A i \in 1 .. Len(base) : base[i] <= 100 * (q + 1)
  <2>1. q + 1 \in 1 .. Len(history) + 1 /\ q + 1 \in 1 .. Len(past)
    BY <1>1, <1>2
  <2>2. Older(q + 1)
    BY <2>1 DEF Dated
  <2>3. past[q + 1] \in Seq(Nat)
    BY <1>2, <2>1, ElementOfSeq
  <2> QED
    BY <2>2, <2>3 DEF Older
<1>4. 0 \in Good
  <2>1. q + 0 = q /\ 0 \in 0 .. e - q
    BY <1>2
  <2>2. \A i \in 1 .. Len(base), j \in 1 .. Len(base) : base[i] = base[j] => i = j
    <3>1. DOMAIN base = 1 .. Len(base)
      BY <1>3
    <3> HIDE DEF base
    <3> QED
      BY <1>3, <3>1 DEF IsInjective
  <2>3. Tracks(base, first, base, first)
    <3> HIDE DEF base, first
    <3> QED
      BY <2>2 DEF Tracks
  <2> QED
    BY <2>1, <2>3
<1>5. ASSUME NEW m \in 1 .. e - q, m - 1 \in Good PROVE m \in Good
  <2>1. PICK k, r : k = q + (m - 1) /\ r = q + m
    OBVIOUS
  <2>2. /\ k \in Nat /\ r \in Nat /\ r = k + 1 /\ r \in 1 .. Len(history) /\ k < Len(history) /\ b <= k
        /\ k <= Len(history) /\ q + 1 <= r /\ m \in 0 .. e - q
    BY <1>1, <1>2, <2>1
  <2>3. PICK d, o, com : d = past[r] /\ o = Stage(op, b, k) /\ com = history[r]
    OBVIOUS
  <2>4. Tracks(base, first, d, o)
    <3>1. past[q + (m - 1) + 1] = d /\ Stage(op, b, q + (m - 1)) = o
      BY <2>1, <2>2, <2>3
    <3> HIDE DEF base, first
    <3> QED
      BY <1>5, <3>1
  <2>5. /\ d \in Seq(Nat) /\ com \in Edits(Nat) /\ com.position + com.count <= Len(d)
        /\ com.text = authored[r].text /\ past[r + 1] = Apply(d, com)
    BY <2>2, <2>3, DocumentNext
  <2>6. /\ o \in Edits(Nat) /\ o.type = op.type /\ o.text = op.text
        /\ Stage(op, b, r) = Transform(o, com)
    BY <2>2, <2>3, StageIs
  <2>7. IsNoop(o) => o.type = "delete"
    BY <2>6 DEF IsNoop
  <2>8. \A i \in 1 .. Len(base), l \in 1 .. Len(com.text) : com.text[l] # base[i]
    <3> HIDE DEF base
    <3> TAKE i \in 1 .. Len(base), l \in 1 .. Len(com.text)
    <3>1. PICK x, y : x = com.text[l] /\ y = base[i]
      OBVIOUS
    <3>2. x > 100 * r
      BY <2>2, <2>5, <3>1 DEF Dated, Newer
    <3>3. y <= 100 * (q + 1) /\ y \in Nat
      BY <1>3, <3>1, ElementOfSeq
    <3>4. com.text \in Seq(Nat)
      BY <2>5, EditFields
    <3>5. x \in Nat
      BY <3>1, <3>4, ElementOfSeq
    <3>6. x # y
      BY <2>2, <3>2, <3>3, <3>5
    <3> QED
      BY <3>1, <3>6
  <2>9. Tracks(base, first, Apply(d, com), Transform(o, com))
    <3> HIDE DEF base, first
    <3> QED
      BY <2>4, <2>5, <2>6, <2>7, <2>8, TracksOver
  <2>10. Tracks(base, first, past[q + m + 1], Stage(op, b, q + m))
    <3> HIDE DEF base, first
    <3> QED
      BY <2>1, <2>5, <2>6, <2>9
  <2> QED
    BY <2>2, <2>10
<1> HIDE DEF Good
<1>6. \A m \in 0 .. e - q : m \in Good
  BY <1>2, <1>4, <1>5, UpTo
<1>7. e - q \in Good /\ q + (e - q) = e
  BY <1>2, <1>6
<1> QED
  BY <1>7 DEF Good

(* The latest operation, as it was authored (op, on base) and as it meets  *)
(* the document before it (o, com on d).                                   *)
Latter(n, op, b, o, base, d, com) ==
  /\ op = authored[n] /\ op \in Edits(Nat)
  /\ b = op.baseRevision /\ b \in Nat /\ b < n
  /\ base = past[b + 1] /\ base = BaseDocument(n) /\ base \in Seq(Nat)
  /\ d = past[n] /\ d \in Seq(Nat)
  /\ o = Stage(op, b, n - 1) /\ o \in Edits(Nat) /\ o.type = op.type /\ o.text = op.text
  /\ com = history[n] /\ com = Entered(o, Len(d), n) /\ com \in Edits(Nat)
  /\ com.type = op.type /\ com.text = op.text /\ com.position + com.count <= Len(d)
  /\ document = Apply(d, com)

LEMMA LatterIs ==
  ASSUME EditInv, NEW n, n = Len(history), n > 0
  PROVE  \E op, b, o, base, d, com : Latter(n, op, b, o, base, d, com)
<1>0. Recorded /\ MadeBy(n)
  <2>1. Recorded /\ n \in 1 .. Len(history)
    BY DEF EditInv, Recorded
  <2> QED
    BY <2>1 DEF EditInv, EveryRevisionMade
<1>1. /\ n \in Nat /\ n > 0 /\ n - 1 \in Nat /\ n - 1 <= Len(history)
      /\ past \in Seq(Seq(Nat)) /\ Len(past) = n + 1 /\ document = past[n + 1]
      /\ authored \in Seq(Edits(Nat)) /\ Len(authored) = n
  BY <1>0 DEF Recorded
<1>2. PICK op, b, e : op = authored[n] /\ b = op.baseRevision /\ e = n - 1
  OBVIOUS
<1>3. op \in Edits(Nat)
  <2>1. n \in 1 .. Len(authored)
    BY <1>1
  <2> QED
    BY <1>1, <1>2, <2>1, ElementOfSeq
<1>4. b \in Nat /\ b < n /\ b <= e /\ e \in Nat /\ e + 1 = n /\ e <= Len(history)
  <2>1. b \in Nat
    BY <1>2, <1>3, EditFields
  <2>2. b < n
    BY <1>0, <1>2 DEF MadeBy
  <2> QED
    BY <1>1, <1>2, <2>1, <2>2
<1>5. PICK o, base, d, com : /\ o = Stage(op, b, e) /\ base = past[b + 1]
                             /\ d = past[n] /\ com = history[n]
  OBVIOUS
<1>6. base = BaseDocument(n)
  <2>1. Smaller(b, e) = b
    BY <1>4 DEF Smaller
  <2> QED
    BY <1>2, <1>5, <2>1 DEF BaseDocument
<1>7. base \in Seq(Nat)
  <2>1. b + 1 \in 1 .. Len(past)
    BY <1>1, <1>4
  <2> QED
    BY <1>1, <1>5, <2>1, ElementOfSeq
<1>8. o \in Edits(Nat) /\ o.type = op.type /\ o.text = op.text
  BY <1>3, <1>4, <1>5, StageIs
<1>9. /\ d \in Seq(Nat) /\ com \in Edits(Nat) /\ com.position + com.count <= Len(d)
      /\ com.type = op.type /\ com.text = op.text /\ past[n + 1] = Apply(d, com)
  <2>1. n = e + 1 /\ n \in 1 .. Len(history)
    BY <1>1, <1>4
  <2> QED
    BY <1>2, <1>4, <1>5, <2>1, DocumentNext
<1>10. com = Entered(o, Len(d), n)
  BY <1>0, <1>2, <1>5 DEF MadeBy, Stage
<1>11. o = Stage(op, b, n - 1)
  BY <1>2, <1>5
<1>12. Latter(n, op, b, o, base, d, com)
  <2>1. /\ op = authored[n] /\ op \in Edits(Nat)
        /\ b = op.baseRevision /\ b \in Nat /\ b < n
    BY <1>2, <1>3, <1>4
  <2>2. /\ base = past[b + 1] /\ base = BaseDocument(n) /\ base \in Seq(Nat)
        /\ d = past[n] /\ d \in Seq(Nat)
    BY <1>5, <1>6, <1>7, <1>9
  <2>3. com = history[n] /\ document = Apply(d, com)
    BY <1>1, <1>5, <1>9
  <2> QED
    BY <2>1, <2>2, <2>3, <1>8, <1>9, <1>10, <1>11 DEF Latter
<1> QED
  BY <1>12

(* clamp() takes nothing of the document out of what the operation touches. *)
LEMMA TouchesEntered ==
  ASSUME NEW o \in Edits(Nat), NEW size \in Nat, NEW r \in Nat, NEW j \in 1 .. size
  PROVE  Touches(o, j) <=> Touches(Entered(o, size, r), j)
<1>1. PICK c, p, n : c = Entered(o, size, r) /\ p = o.position /\ n = o.count
  OBVIOUS
<1>2. /\ p \in Nat /\ n \in Nat /\ o.type \in {"insert", "delete"} /\ c.type = o.type
      /\ c.position = Clamp(o, size).position /\ c.count = Clamp(o, size).count
  <2>1. c.type = o.type /\ c.position = Clamp(o, size).position /\ c.count = Clamp(o, size).count
    BY <1>1, EnteredTyped
  <2> QED
    BY <1>1, <2>1, EditFields
<1>3. c.position = Smaller(p, size)
  BY <1>1, <1>2, ClampFits
<1>4. CASE o.type = "insert"
  <2>1. j <= p <=> j <= Smaller(p, size)
    BY <1>2 DEF Smaller
  <2> QED
    BY <1>1, <1>2, <1>3, <1>4, <2>1 DEF Touches
<1>5. CASE o.type = "delete"
  <2>1. c.count = Smaller(n, size - Smaller(p, size))
    BY <1>1, <1>2, <1>5, ClampFits
  <2>2. PICK q, l : q = Smaller(p, size) /\ l = Smaller(n, size - q)
    OBVIOUS
  <2>3. (p < j /\ j <= p + n) <=> (q < j /\ j <= q + l)
    <3>1. CASE p <= size
      <4>1. q = p /\ l = Smaller(n, size - p)
        BY <2>2, <3>1 DEF Smaller
      <4>2. CASE n <= size - p
        BY <4>1, <4>2 DEF Smaller
      <4>3. CASE ~(n <= size - p)
        <5>1. l = size - p
          BY <4>1, <4>3 DEF Smaller
        <5> QED
          BY <1>2, <3>1, <4>1, <4>3, <5>1
      <4> QED
        BY <4>2, <4>3
    <3>2. CASE ~(p <= size)
      <4>1. q = size /\ l = Smaller(n, 0)
        BY <2>2, <3>2 DEF Smaller
      <4>2. l = 0
        BY <1>2, <4>1 DEF Smaller
      <4> QED
        BY <1>2, <3>2, <4>1, <4>2
    <3> QED
      BY <3>1, <3>2
  <2>4. Touches(o, j) <=> p < j /\ j <= p + n
    BY <1>1, <1>2, <1>5 DEF Touches
  <2>5. Touches(c, j) <=> q < j /\ j <= q + l
    BY <1>1, <1>2, <1>3, <1>5, <2>1, <2>2 DEF Touches
  <2> QED
    BY <1>1, <2>3, <2>4, <2>5
<1> QED
  BY <1>2, <1>4, <1>5

(* What is left of the author's document, in the one that the operation    *)
(* meets.                                                                  *)
LEMMA LatterTracks ==
  ASSUME EditInv, Dated, NEW n, n = Len(history), n > 0,
         NEW op, NEW b, NEW o, NEW base, NEW d, NEW com, Latter(n, op, b, o, base, d, com),
         op.type = "insert" => op.text # <<>>,
         NEW k \in 1 .. Len(base), NEW j \in 1 .. Len(d), base[k] = d[j]
  PROVE  Touches(op, k) <=> Touches(com, j)
<1>1. PICK e : e = n - 1
  OBVIOUS
<1>2. n \in Nat /\ e \in Nat /\ e + 1 = n /\ e <= Len(history) /\ b \in Nat /\ b <= e /\ b <= b
  <2>1. n \in Nat
    BY DEF EditInv, Recorded
  <2>2. b \in Nat /\ b < n
    BY DEF Latter
  <2> QED
    BY <1>1, <2>1, <2>2
<1>3. op \in Edits(Nat) /\ base = past[b + 1] /\ d = past[e + 1] /\ o = Stage(op, b, e)
  BY <1>1, <1>2 DEF Latter
<1>4. Stage(op, b, b) = op
  <2>1. b <= Len(history)
    BY <1>2
  <2> QED
    BY <1>2, <1>3, <2>1, StageIs
<1>5. Tracks(past[b + 1], Stage(op, b, b), past[e + 1], Stage(op, b, e))
  BY <1>2, <1>3, HistoryTracks
<1>6. Tracks(base, op, d, o)
  BY <1>3, <1>4, <1>5
<1>7. Touches(op, k) <=> Touches(o, j)
  BY <1>6 DEF Tracks
<1>8. PICK size : size = Len(d)
  OBVIOUS
<1>9. o \in Edits(Nat) /\ size \in Nat /\ j \in 1 .. size /\ com = Entered(o, size, n)
  BY <1>8 DEF Latter
<1>10. Touches(o, j) <=> Touches(com, j)
  BY <1>2, <1>9, TouchesEntered
<1> QED
  BY <1>7, <1>10

LEMMA InsertKeepsIntent ==
  EditInv /\ Dated => InsertionIntent
<1> SUFFICES ASSUME EditInv, Dated, NEW n, n = Len(history), n > 0, authored[n].type = "insert",
                    NEW c \in ToSet(authored[n].text)
             PROVE  /\ c \in ToSet(document)
                    /\ \A k \in DOMAIN BaseDocument(n) : BaseDocument(n)[k] \in ToSet(document) =>
                         IF k <= authored[n].position
                         THEN Precedes(BaseDocument(n)[k], c, document)
                         ELSE Precedes(c, BaseDocument(n)[k], document)
  BY DEF InsertionIntent, Latest
<1>1. PICK op, b, o, base, d, com : Latter(n, op, b, o, base, d, com)
  BY LatterIs
<1>2. /\ n \in Nat /\ op = authored[n] /\ op.type = "insert" /\ base = BaseDocument(n) /\ d \in Seq(Nat)
      /\ com \in Edits(Nat) /\ com.type = "insert" /\ com.text = op.text
      /\ com.position + com.count <= Len(d) /\ document = Apply(d, com)
      /\ base \in Seq(Nat) /\ b \in Nat /\ b < n /\ base = past[b + 1]
  BY <1>1 DEF Latter, EditInv, Recorded
<1>3. PICK D, p, t, m, size : /\ D = document /\ p = com.position /\ t = com.text
                              /\ m = Len(t) /\ size = Len(d)
  OBVIOUS
<1>4. /\ p \in Nat /\ t \in Seq(Nat) /\ m \in Nat /\ size \in Nat /\ p <= size /\ p \in 0 .. size
  BY <1>2, <1>3, EditFields
<1>5. D = Inserted(d, p, t)
  BY <1>2, <1>3, <1>4, ApplyInsert
<1>6. IsInserted(D, d, p, t) /\ D \in Seq(Nat)
  BY <1>2, <1>3, <1>4, <1>5, InsertedAt
<1>7. PICK i \in 1 .. m : c = t[i]
  BY <1>2, <1>3, <1>4 DEF ToSet
<1>8. PICK y : y = p + i
  OBVIOUS
<1>9. y \in Nat /\ y \in 1 .. size + m /\ ~(y <= p) /\ y <= p + m /\ y - p = i
  BY <1>4, <1>8
<1>10. D[y] = c /\ Len(D) = size + m /\ y \in 1 .. Len(D) /\ DOMAIN D = 1 .. Len(D)
  BY <1>3, <1>6, <1>7, <1>9, SMTT(30) DEF IsInserted
<1>11. c \in ToSet(D)
  BY <1>10 DEF ToSet
<1>12. ASSUME NEW k \in DOMAIN base, base[k] \in ToSet(D)
       PROVE  IF k <= op.position THEN Precedes(base[k], c, D) ELSE Precedes(c, base[k], D)
  <2>1. PICK j \in 1 .. Len(D) : D[j] = base[k]
    BY <1>10, <1>12 DEF ToSet
  <2>2. k \in 1 .. Len(base)
    BY <1>2, <1>12
  <2>3. Outside(com, j)
    <3>1. SUFFICES ASSUME ~Outside(com, j) PROVE FALSE
      OBVIOUS
    <3>2. PICK l : l = j - com.position
      OBVIOUS
    <3>3. l \in 1 .. Len(com.text) /\ D[j] = com.text[l]
      BY <1>2, <1>3, <2>1, <3>1, <3>2, PutThere
    <3>4. PICK x, z : x = com.text[l] /\ z = base[k]
      OBVIOUS
    <3>5. x \in Nat /\ z \in Nat
      BY <1>2, <1>3, <1>4, <2>2, <3>3, <3>4, ElementOfSeq
    <3>6. x > 100 * n
      <4>1. n \in 1 .. Len(history)
        BY <1>2
      <4> QED
        BY <1>2, <3>3, <3>4, <4>1 DEF Dated, Newer
    <3>7. z <= 100 * (b + 1)
      <4>1. b + 1 \in 1 .. Len(history) + 1
        BY <1>2
      <4> QED
        BY <1>2, <2>2, <3>4, <4>1 DEF Dated, Older
    <3>8. x # z
      BY <1>2, <3>5, <3>6, <3>7
    <3> QED
      BY <2>1, <3>3, <3>4, <3>8
  <2>4. PICK x : x = Before(com, j)
    OBVIOUS
  <2>5. x \in 1 .. Len(d) /\ D[j] = d[x]
    BY <1>2, <1>3, <2>3, <2>4, Survives
  <2>6. op.text # <<>>
    BY <1>2, <1>3, <1>7
  <2>7. Touches(op, k) <=> Touches(com, x)
    <3>1. base[k] = d[x]
      BY <1>3, <2>1, <2>5
    <3> QED
      BY <1>1, <2>2, <2>5, <2>6, <3>1, LatterTracks
  <2>8. k <= op.position <=> x <= p
    BY <1>2, <1>3, <2>7 DEF Touches
  <2>9. x = (IF j <= p THEN j ELSE j - m) /\ (j <= p \/ j > p + m)
    BY <1>2, <1>3, <2>3, <2>4 DEF Before, Outside
  <2>10. j \in Nat
    BY <1>10
  <2>11. CASE k <= op.position
    <3>1. j <= p
      BY <1>4, <2>8, <2>9, <2>10, <2>11
    <3>2. j < y
      BY <1>4, <1>9, <2>10, <3>1
    <3>3. Precedes(base[k], c, D)
      BY <1>10, <2>1, <3>2 DEF Precedes
    <3> QED
      BY <2>11, <3>3
  <2>12. CASE ~(k <= op.position)
    <3>1. j > p + m
      BY <1>4, <2>8, <2>9, <2>10, <2>12
    <3>2. y < j
      BY <1>4, <1>9, <2>10, <3>1
    <3>3. Precedes(c, base[k], D)
      BY <1>10, <2>1, <3>2 DEF Precedes
    <3> QED
      BY <2>12, <3>3
  <2> QED
    BY <2>11, <2>12
<1> QED
  BY <1>2, <1>3, <1>11, <1>12

(* What a delete leaves of a document.                                     *)
LEMMA Removes ==
  ASSUME NEW d \in Seq(Nat), NEW com \in Edits(Nat), com.type = "delete",
         com.position + com.count <= Len(d), IsInjective(d), NEW D, D = Apply(d, com)
  PROVE  /\ \A x \in ToSet(D) : x \in ToSet(d)
         /\ \A m \in 1 .. Len(d) : d[m] \in ToSet(D) <=> ~Touches(com, m)
<1>1. PICK p, n, size : p = com.position /\ n = com.count /\ size = Len(d)
  OBVIOUS
<1>2. p \in Nat /\ n \in Nat /\ size \in Nat /\ p + n <= size /\ D \in Seq(Nat)
  BY <1>1, EditFields, ApplySplices
<1>3. DOMAIN d = 1 .. size /\ DOMAIN D = 1 .. Len(D)
  BY <1>1, <1>2
<1>4. ASSUME NEW j \in 1 .. Len(D)
      PROVE  \E m \in 1 .. size : D[j] = d[m] /\ ~Touches(com, m)
  <2>1. PICK m : m = Before(com, j)
    OBVIOUS
  <2>2. m \in 1 .. size /\ D[j] = d[m]
    <3>1. Outside(com, j)
      BY DEF Outside
    <3> QED
      BY <1>1, <2>1, <3>1, Survives
  <2>3. m = IF j <= p THEN j ELSE j + n
    BY <1>1, <2>1 DEF Before
  <2>4. ~(p < m /\ m <= p + n)
    BY <1>2, <2>3
  <2> QED
    BY <1>1, <2>2, <2>4 DEF Touches
<1>5. ASSUME NEW m \in 1 .. size, ~Touches(com, m) PROVE d[m] \in ToSet(D)
  <2>1. p \in 0 .. Len(d) /\ n \in 0 .. Len(d) - p
    BY <1>1, <1>2
  <2>2. D = Deleted(d, p, n)
    BY <1>1, <2>1, ApplyDelete
  <2>3. IsDeleted(D, d, p, n)
    BY <2>1, <2>2, DeletedAt
  <2>4. Len(D) = size - n /\ \A i \in 1 .. size - n : D[i] = IF i <= p THEN d[i] ELSE d[i + n]
    BY <1>1, <2>3 DEF IsDeleted
  <2>5. m <= p \/ m > p + n
    BY <1>1, <1>2, <1>5 DEF Touches
  <2>6. CASE m <= p
    <3>1. m \in 1 .. size - n
      BY <1>2, <2>6
    <3> QED
      BY <1>3, <2>4, <2>6, <3>1 DEF ToSet
  <2>7. CASE m > p + n
    <3>1. PICK i : i = m - n
      OBVIOUS
    <3>2. i \in 1 .. size - n /\ ~(i <= p) /\ i + n = m
      BY <1>2, <2>7, <3>1
    <3>3. D[i] = d[m]
      <4>1. D[i] = d[i + n]
        BY <2>4, <3>2
      <4> QED
        BY <3>2, <4>1
    <3> QED
      BY <1>3, <2>4, <3>2, <3>3 DEF ToSet
  <2> QED
    BY <2>5, <2>6, <2>7
<1>6. \A x \in ToSet(D) : x \in ToSet(d)
  BY <1>3, <1>4 DEF ToSet
<1>7. ASSUME NEW m \in 1 .. size, d[m] \in ToSet(D) PROVE ~Touches(com, m)
  <2>1. PICK j \in 1 .. Len(D) : d[m] = D[j]
    BY <1>3, <1>7 DEF ToSet
  <2>2. PICK l \in 1 .. size : D[j] = d[l] /\ ~Touches(com, l)
    BY <1>4
  <2>3. l = m
    BY <1>3, <2>1, <2>2 DEF IsInjective
  <2> QED
    BY <2>2, <2>3
<1> QED
  BY <1>1, <1>5, <1>6, <1>7

(* The characters that op's author saw in the range it deletes.            *)
RangeOf(op, base) ==
  { base[k] : k \in { j \in DOMAIN base : op.position < j /\ j <= op.position + op.count } }

LEMMA RangeTouches ==
  ASSUME NEW op \in Edits(Nat), op.type = "delete", NEW base \in Seq(Nat), IsInjective(base)
  PROVE  \A k \in 1 .. Len(base) : base[k] \in RangeOf(op, base) <=> Touches(op, k)
<1>1. DOMAIN base = 1 .. Len(base)
  OBVIOUS
<1>2. \A k \in 1 .. Len(base) : Touches(op, k) <=> op.position < k /\ k <= op.position + op.count
  BY DEF Touches
<1>3. ASSUME NEW k \in 1 .. Len(base), base[k] \in RangeOf(op, base) PROVE Touches(op, k)
  <2>1. PICK j \in 1 .. Len(base) : op.position < j /\ j <= op.position + op.count /\ base[k] = base[j]
    BY <1>1, <1>3 DEF RangeOf
  <2>2. j = k
    BY <1>1, <2>1 DEF IsInjective
  <2> QED
    BY <1>2, <2>1, <2>2
<1>4. ASSUME NEW k \in 1 .. Len(base), Touches(op, k) PROVE base[k] \in RangeOf(op, base)
  BY <1>1, <1>2, <1>4 DEF RangeOf
<1> QED
  BY <1>3, <1>4

(* The latest operation, when it is a delete, in the documents it meets.   *)
LEMMA LatterDelete ==
  ASSUME EditInv, Dated, NEW n, n = Len(history), n > 0,
         NEW op, NEW b, NEW o, NEW base, NEW d, NEW com, Latter(n, op, b, o, base, d, com),
         op.type = "delete"
  PROVE  /\ IsInjective(base) /\ IsInjective(d)
         /\ \A x \in ToSet(document) : x \in ToSet(d)
         /\ \A m \in 1 .. Len(d) : d[m] \in ToSet(document) <=> ~Touches(com, m)
         /\ \A k \in 1 .. Len(base) : base[k] \in RangeOf(op, base) <=> Touches(op, k)
         /\ \A k \in 1 .. Len(base) : \A m \in 1 .. Len(d) :
              base[k] = d[m] => (Touches(op, k) <=> Touches(com, m))
<1>1. n \in Nat /\ b \in Nat /\ b < n /\ base = past[b + 1] /\ d = past[n]
  <2>1. n \in Nat
    BY DEF EditInv, Recorded
  <2> QED
    BY <2>1 DEF Latter
<1>2. IsInjective(base) /\ IsInjective(d)
  <2>1. b + 1 \in 1 .. Len(history) + 1 /\ n \in 1 .. Len(history) + 1
    BY <1>1
  <2> QED
    BY <1>1, <2>1 DEF Dated, Older
<1>3. /\ d \in Seq(Nat) /\ com \in Edits(Nat) /\ com.type = "delete" /\ op \in Edits(Nat)
      /\ com.position + com.count <= Len(d) /\ document = Apply(d, com) /\ base \in Seq(Nat)
  BY DEF Latter
<1>4. \A x \in ToSet(document) : x \in ToSet(d)
  BY <1>2, <1>3, Removes
<1>5. \A m \in 1 .. Len(d) : d[m] \in ToSet(document) <=> ~Touches(com, m)
  BY <1>2, <1>3, Removes
<1>6. \A k \in 1 .. Len(base) : base[k] \in RangeOf(op, base) <=> Touches(op, k)
  BY <1>2, <1>3, RangeTouches
<1>7. \A k \in 1 .. Len(base) : \A m \in 1 .. Len(d) :
         base[k] = d[m] => (Touches(op, k) <=> Touches(com, m))
  BY LatterTracks
<1> QED
  BY <1>2, <1>4, <1>5, <1>6, <1>7

LEMMA DeleteKeepsIntent ==
  EditInv /\ Dated => DeletionIntent
<1> SUFFICES ASSUME EditInv, Dated, NEW n, n = Len(history), n > 0, authored[n].type = "delete",
                    NEW r, r = RangeOf(authored[n], BaseDocument(n))
             PROVE  /\ r \cap ToSet(document) = {}
                    /\ (ToSet(BaseDocument(n)) \ r) \cap ToSet(past[n]) \subseteq ToSet(document)
  BY DEF DeletionIntent, RangeOf, Latest
<1>1. PICK op, b, o, base, d, com : Latter(n, op, b, o, base, d, com)
  BY LatterIs
<1>2. op = authored[n] /\ op.type = "delete" /\ base = BaseDocument(n) /\ d = past[n]
      /\ DOMAIN base = 1 .. Len(base) /\ DOMAIN d = 1 .. Len(d)
  <2>1. op = authored[n] /\ base = BaseDocument(n) /\ d = past[n] /\ base \in Seq(Nat) /\ d \in Seq(Nat)
    BY <1>1 DEF Latter
  <2> QED
    BY <2>1
<1>3. /\ \A x \in ToSet(document) : x \in ToSet(d)
      /\ \A m \in 1 .. Len(d) : d[m] \in ToSet(document) <=> ~Touches(com, m)
      /\ \A k \in 1 .. Len(base) : base[k] \in RangeOf(op, base) <=> Touches(op, k)
      /\ \A k \in 1 .. Len(base) : \A m \in 1 .. Len(d) :
           base[k] = d[m] => (Touches(op, k) <=> Touches(com, m))
  BY <1>1, <1>2, LatterDelete
<1>4. r = RangeOf(op, base)
  BY <1>2
<1>5. ASSUME NEW x \in r, x \in ToSet(document) PROVE FALSE
  <2>1. PICK k \in 1 .. Len(base) : x = base[k]
    BY <1>2, <1>4 DEF RangeOf
  <2>2. PICK m \in 1 .. Len(d) : x = d[m]
    <3>1. x \in ToSet(d)
      BY <1>3, <1>5
    <3> QED
      BY <1>2, <3>1 DEF ToSet
  <2>3. Touches(op, k)
    BY <1>3, <1>4, <2>1
  <2>4. Touches(com, m)
    BY <1>3, <2>1, <2>2, <2>3
  <2> QED
    BY <1>3, <1>5, <2>2, <2>4
<1>6. ASSUME NEW x \in ToSet(base), x \notin r, x \in ToSet(d) PROVE x \in ToSet(document)
  <2>1. PICK k \in 1 .. Len(base) : x = base[k]
    BY <1>2 DEF ToSet
  <2>2. PICK m \in 1 .. Len(d) : x = d[m]
    BY <1>2, <1>6 DEF ToSet
  <2>3. ~Touches(op, k)
    BY <1>3, <1>4, <1>6, <2>1
  <2>4. ~Touches(com, m)
    BY <1>3, <2>1, <2>2, <2>3
  <2> QED
    BY <1>3, <2>2, <2>4
<1> QED
  BY <1>2, <1>5, <1>6

(* What a client types stays where it was typed and what it deletes goes,  *)
(* and nothing else of what it saw.  The place of each character its       *)
(* author saw is followed through the revisions the author did not see     *)
(* (HistoryTracks): transform() keeps it on its side of an insert, and in  *)
(* or out of the range of a delete (TouchesMoves), and a character that a  *)
(* revision adds is none of those the author saw (Dated).                  *)
(*                                                                         *)
(* Text inserted between two characters appears in full between what is    *)
(* left of the two.                                                        *)
THEOREM InsertionsStayInPlace ==
  EditSpec => []InsertionIntent
<1> QED
  BY AlwaysDated, InsertKeepsIntent, PTL

(* A delete removes the range its author saw and no other character of the *)
(* document its author saw.                                                *)
THEOREM DeletionsRemoveTheRange ==
  EditSpec => []DeletionIntent
<1> QED
  BY AlwaysDated, DeleteKeepsIntent, PTL

-----------------------------------------------------------------------------
(* What a delete takes that its author did not see.                        *)

(* A character of revision r that is no newer was there before it.         *)
LEMMA StepBack ==
  ASSUME EditInv, Dated, NEW r \in 1 .. Len(history), NEW x \in ToSet(past[r + 1]), x <= 100 * r
  PROVE  x \in ToSet(past[r])
<1>1. PICK k, d, com, D : k = r - 1 /\ d = past[r] /\ com = history[r] /\ D = past[r + 1]
  OBVIOUS
<1>2. k \in Nat /\ r = k + 1 /\ r \in Nat
  BY <1>1
<1>3. /\ d \in Seq(Nat) /\ com \in Edits(Nat) /\ com.position + com.count <= Len(d)
      /\ com.text = authored[r].text /\ D = Apply(d, com)
  BY <1>1, <1>2, DocumentNext
<1>4. D \in Seq(Nat) /\ DOMAIN D = 1 .. Len(D) /\ DOMAIN d = 1 .. Len(d)
  <2>1. D \in Seq(Nat)
    BY <1>3, ApplySplices
  <2> QED
    BY <1>3, <2>1
<1>5. PICK j \in 1 .. Len(D) : x = D[j]
  BY <1>1, <1>4 DEF ToSet
<1>6. Outside(com, j)
  <2>1. SUFFICES ASSUME ~Outside(com, j) PROVE FALSE
    OBVIOUS
  <2>2. PICK l : l = j - com.position
    OBVIOUS
  <2>3. l \in 1 .. Len(com.text) /\ D[j] = com.text[l]
    BY <1>3, <2>1, <2>2, PutThere
  <2>4. com.text[l] > 100 * r
    BY <1>3, <2>3 DEF Dated, Newer
  <2>5. D[j] \in Nat
    BY <1>4, ElementOfSeq
  <2> QED
    BY <1>2, <1>5, <2>3, <2>4, <2>5
<1>7. PICK m : m = Before(com, j)
  OBVIOUS
<1>8. m \in 1 .. Len(d) /\ D[j] = d[m]
  BY <1>3, <1>6, <1>7, Survives
<1> QED
  BY <1>1, <1>4, <1>5, <1>8 DEF ToSet

(* What is gone does not come back.                                        *)
LEMMA NeverBack ==
  ASSUME EditInv, Dated, NEW m \in 1 .. Len(history) + 1, NEW e \in m .. Len(history) + 1,
         NEW x \in ToSet(past[e]), x <= 100 * m, x \in Nat
  PROVE  x \in ToSet(past[m])
<1> DEFINE Good == { k \in 0 .. e - m : x \in ToSet(past[e - k]) }
<1>1. Len(history) \in Nat
  BY DEF EditInv, Recorded
<1>2. e - m \in Nat /\ e \in Nat /\ m \in Nat /\ m <= e /\ e <= Len(history) + 1 /\ e - 0 = e
  BY <1>1
<1>3. 0 \in Good
  <2>1. 0 \in 0 .. e - m
    BY <1>2
  <2> QED
    BY <1>2, <2>1
<1>4. ASSUME NEW k \in 1 .. e - m, k - 1 \in Good PROVE k \in Good
  <2>1. PICK r : r = e - k
    OBVIOUS
  <2>2. r \in 1 .. Len(history) /\ e - (k - 1) = r + 1 /\ m <= r /\ k \in 0 .. e - m
    BY <1>1, <1>2, <2>1
  <2>3. x \in ToSet(past[r + 1])
    BY <1>4, <2>2
  <2>4. x <= 100 * r
    BY <1>2, <2>2
  <2>5. x \in ToSet(past[r])
    BY <2>2, <2>3, <2>4, StepBack
  <2> QED
    BY <2>1, <2>2, <2>5
<1> HIDE DEF Good
<1>5. \A k \in 0 .. e - m : k \in Good
  BY <1>2, <1>3, <1>4, UpTo
<1>6. e - m \in Good /\ e - (e - m) = m
  BY <1>2, <1>5
<1> QED
  BY <1>6 DEF Good

(* A delete comes to remove text that another operation inserts only if it *)
(* grows over it.                                                          *)
LEMMA GrowsOver ==
  ASSUME NEW e \in Seq(Nat), NEW h \in Edits(Nat), h.position + h.count <= Len(e),
         NEW g \in Edits(Nat), g.type = "delete", NEW E, E = Apply(e, h),
         NEW i \in 1 .. Len(E), E[i] \notin ToSet(e), Touches(Transform(g, h), i),
         NEW P, NEW N, NEW p, P = g.position, N = g.count, p = h.position
  PROVE  /\ ~IsNoop(g) /\ P \in Nat /\ N \in Nat /\ p \in Nat /\ p <= Len(e) /\ P < p /\ p < P + N
         /\ Precedes(e[P + 1], E[i], E)
         /\ p < Len(e) => Precedes(E[i], e[p + 1], E)
<1>1. PICK t, m, size : t = h.text /\ m = Len(t) /\ size = Len(e)
  OBVIOUS
<1>2. /\ P \in Nat /\ N \in Nat /\ p \in Nat /\ t \in Seq(Nat) /\ m \in Nat /\ size \in Nat
      /\ p <= size /\ p \in 0 .. Len(e) /\ DOMAIN e = 1 .. Len(e)
      /\ E \in Seq(Nat) /\ DOMAIN E = 1 .. Len(E) /\ i \in Nat
  <2>1. P \in Nat /\ N \in Nat /\ p \in Nat /\ h.count \in Nat /\ t \in Seq(Nat)
    BY <1>1, EditFields
  <2>2. E \in Seq(Nat)
    BY ApplySplices
  <2> QED
    BY <1>1, <2>1, <2>2, SMTT(30)
<1>3. ~Outside(h, i)
  <2>1. SUFFICES ASSUME Outside(h, i) PROVE FALSE
    OBVIOUS
  <2>2. PICK k : k = Before(h, i)
    OBVIOUS
  <2>3. k \in 1 .. Len(e) /\ E[i] = e[k]
    BY <2>1, <2>2, Survives
  <2> QED
    BY <1>2, <2>3 DEF ToSet
<1>4. h.type = "insert" /\ p < i /\ i <= p + m
  BY <1>1, <1>2, <1>3 DEF Outside
<1>5. PICK q, l, f : f = Transform(g, h) /\ q = f.position /\ l = f.count
  OBVIOUS
<1>6. q < i /\ i <= q + l
  <2>1. f.type = "delete"
    BY <1>5, TransformTyped
  <2> QED
    BY <1>5, <2>1 DEF Touches
<1>7. ~IsNoop(g)
  <2>1. SUFFICES ASSUME IsNoop(g) PROVE FALSE
    OBVIOUS
  <2>2. f = g
    BY <1>5, <2>1, TransformIs
  <2>3. N = 0
    BY <2>1 DEF IsNoop
  <2> QED
    BY <1>2, <1>5, <1>6, <2>2, <2>3
<1>8. ~IsNoop(h)
  <2>1. m > 0
    BY <1>2, <1>4
  <2>2. t # <<>>
    BY <1>1, <2>1
  <2> QED
    BY <1>1, <1>4, <2>2 DEF IsNoop
<1>9. q = StartOver(g, h) /\ l = CountOver(g, h)
  BY <1>5, <1>7, <1>8, TransformMoves
<1>10. q = (IF P >= p THEN P + m ELSE P) /\ l = (IF P < p /\ P + N > p THEN N + m ELSE N)
  BY <1>1, <1>4, <1>9 DEF StartOver, CountOver
<1>15. P \in Nat /\ N \in Nat /\ p \in Nat /\ m \in Nat /\ size \in Nat /\ p <= size /\ i \in Nat
  BY <1>2
<1>16. p < i /\ i <= p + m
  BY <1>4
<1>11. P < p /\ p < P + N
  <2>1. ~(P >= p)
    BY <1>6, <1>10, <1>15, <1>16
  <2>2. q = P
    BY <1>10, <2>1
  <2>3. P + N > p
    BY <1>6, <1>10, <1>15, <1>16, <2>1, <2>2
  <2> QED
    BY <1>15, <2>1, <2>3
<1>12. /\ Len(E) = size + m
       /\ \A k \in 1 .. size + m :
            E[k] = IF k <= p THEN e[k] ELSE IF k <= p + m THEN t[k - p] ELSE e[k - m]
  <2>1. E = Inserted(e, p, t)
    BY <1>1, <1>2, <1>4, ApplyInsert
  <2>2. IsInserted(E, e, p, t)
    BY <1>2, <2>1, InsertedAt
  <2> QED
    BY <1>1, <2>2 DEF IsInserted
<1>13. Precedes(e[P + 1], E[i], E)
  <2>1. PICK k : k = P + 1
    OBVIOUS
  <2>0. k \in Nat /\ k <= p /\ k >= 1
    BY <1>11, <1>15, <2>1
  <2>2. k \in 1 .. size + m /\ k <= p /\ k < i
    BY <1>15, <1>16, <2>0
  <2>3. E[k] = e[k] /\ k \in DOMAIN E
    BY <1>2, <1>12, <2>2
  <2> QED
    BY <1>2, <2>1, <2>2, <2>3 DEF Precedes
<1>14. ASSUME p < size PROVE Precedes(E[i], e[p + 1], E)
  <2>1. PICK k, w : k = p + 1 + m /\ w = p + 1
    OBVIOUS
  <2>3. k \in Nat /\ k >= 1 /\ k - m = w /\ ~(k <= p) /\ ~(k <= p + m)
    BY <1>15, <2>1, SMTT(30)
  <2>4. k <= size + m
    BY <1>14, <1>15, <2>1
  <2>0. k \in Nat /\ k <= size + m /\ k >= 1 /\ ~(k <= p) /\ ~(k <= p + m) /\ k - m = w
    BY <2>3, <2>4
  <2>2. k \in 1 .. size + m /\ ~(k <= p) /\ ~(k <= p + m) /\ k - m = w /\ i < k
    BY <1>15, <1>16, <2>0
  <2>5. E[k] = e[w] /\ k \in DOMAIN E
    <3>1. E[k] = e[k - m]
      BY <1>12, <2>2
    <3> QED
      BY <1>2, <1>12, <2>2, <3>1
  <2> QED
    BY <1>2, <2>1, <2>2, <2>5 DEF Precedes
<1> QED
  BY <1>1, <1>2, <1>7, <1>11, <1>13, <1>14

LEMMA SwallowsInside ==
  EditInv /\ Dated => SwallowsOnlyInside
<1> DEFINE In(range, base, doc) == ToSet(doc) \ (ToSet(base) \ range)
<1> SUFFICES ASSUME EditInv, Dated, NEW n, n = Len(history), n > 0, authored[n].type = "delete",
                    NEW g0, g0 = RangeOf(authored[n], BaseDocument(n)),
                    NEW x \in ToSet(past[n]) \ (ToSet(document) \cup ToSet(BaseDocument(n))),
                    NEW r \in 1 .. n - 1, x \in ToSet(past[r + 1]) \ ToSet(past[r])
             PROVE  /\ \E u \in In(g0, BaseDocument(n), past[r]) : Precedes(u, x, past[r + 1])
                    /\ \/ authored[n].position + authored[n].count > Len(BaseDocument(n))
                       \/ \E v \in In(g0, BaseDocument(n), past[r]) : Precedes(x, v, past[r + 1])
  BY DEF SwallowsOnlyInside, RangeOf, Latest
<1>1. PICK op, b, o, base, d, com : Latter(n, op, b, o, base, d, com)
  BY LatterIs
<1>2. /\ op = authored[n] /\ op.type = "delete" /\ base = BaseDocument(n) /\ d = past[n]
      /\ op \in Edits(Nat) /\ base \in Seq(Nat) /\ d \in Seq(Nat)
      /\ o = Stage(op, b, n - 1) /\ o \in Edits(Nat) /\ com = Entered(o, Len(d), n)
      /\ b \in Nat /\ b < n /\ b = op.baseRevision /\ base = past[b + 1]
  BY <1>1 DEF Latter
<1>3. /\ DOMAIN base = 1 .. Len(base) /\ DOMAIN d = 1 .. Len(d)
      /\ n \in Nat /\ r \in Nat /\ 1 <= r /\ r < n /\ n - 1 \in Nat
      /\ history \in Seq(Edits(Nat)) /\ past \in Seq(Seq(Nat)) /\ Len(past) = n + 1
  <2>1. n \in Nat /\ history \in Seq(Edits(Nat)) /\ past \in Seq(Seq(Nat)) /\ Len(past) = n + 1
    BY DEF EditInv, Recorded
  <2>2. r \in Nat /\ 1 <= r /\ r < n /\ n - 1 \in Nat
    BY <2>1
  <2>3. DOMAIN base = 1 .. Len(base) /\ DOMAIN d = 1 .. Len(d)
    BY <1>2
  <2> QED
    BY <2>1, <2>2, <2>3
<1>4. /\ \A m \in 1 .. Len(d) : d[m] \in ToSet(document) <=> ~Touches(com, m)
      /\ \A k \in 1 .. Len(base) : base[k] \in RangeOf(op, base) <=> Touches(op, k)
  <2>1. n = Len(history) /\ n > 0 /\ op.type = "delete"
    BY <1>2
  <2> QED
    BY <1>1, <2>1, LatterDelete
<1>5. /\ x \in ToSet(d) /\ x \notin ToSet(document) /\ x \notin ToSet(base)
      /\ x \in ToSet(past[r + 1]) /\ x \notin ToSet(past[r]) /\ g0 = RangeOf(op, base)
  BY <1>2
<1>6. PICK m \in 1 .. Len(d) : x = d[m]
  BY <1>3, <1>5 DEF ToSet
<1>7. PICK e, E, h, g, f, j : /\ e = past[r] /\ E = past[r + 1] /\ h = history[r] /\ j = r - 1
                              /\ g = Stage(op, b, j) /\ f = Stage(op, b, r)
  OBVIOUS
<1>8. /\ r \in 1 .. Len(history) /\ j \in Nat /\ r = j + 1
  BY <1>3, <1>7
<1>9. /\ e \in Seq(Nat) /\ h \in Edits(Nat) /\ h.position + h.count <= Len(e) /\ E = Apply(e, h)
  BY <1>7, <1>8, DocumentNext
<1>10. E \in Seq(Nat) /\ DOMAIN E = 1 .. Len(E) /\ DOMAIN e = 1 .. Len(e)
  <2>1. E \in Seq(Nat)
    BY <1>9, ApplySplices
  <2> QED
    BY <1>9, <2>1
<1>11. PICK i \in 1 .. Len(E) : x = E[i]
  BY <1>5, <1>7, <1>10 DEF ToSet
<1>12. x \in Nat
  BY <1>10, <1>11, ElementOfSeq
<1>13. ~(r <= b)
  <2>1. SUFFICES ASSUME r <= b PROVE FALSE
    OBVIOUS
  <2>2. PICK s, a : s = r + 1 /\ a = b + 1
    OBVIOUS
  <2>3. s \in 1 .. Len(history) + 1 /\ a \in 1 .. Len(history) + 1 /\ n \in a .. Len(history) + 1
        /\ 100 * s <= 100 * a /\ s \in Nat /\ a \in Nat
    <3>1. n \in Nat /\ n = Len(history) /\ r \in Nat /\ 1 <= r /\ r < n /\ b \in Nat /\ b < n
      BY <1>2, <1>3
    <3> QED
      BY <2>1, <2>2, <3>1
  <2>4. x <= 100 * s
    <3>1. Older(s)
      BY <2>3 DEF Dated
    <3> QED
      BY <1>7, <1>11, <2>2, <3>1 DEF Older
  <2>5. x <= 100 * a
    BY <1>12, <2>3, <2>4
  <2>6. x \in ToSet(past[n])
    BY <1>2, <1>5
  <2>7. x \in ToSet(past[a])
    BY <1>12, <2>3, <2>5, <2>6, NeverBack
  <2> QED
    BY <1>2, <1>5, <2>2, <2>7
<1>14. b <= j /\ b <= b /\ j <= Len(history) /\ b <= r /\ r <= n - 1 /\ n - 1 <= Len(history)
       /\ b <= Len(history) /\ j < Len(history)
  <2>1. n \in Nat /\ n = Len(history) /\ r \in Nat /\ 1 <= r /\ r < n /\ b \in Nat /\ b < n /\ j = r - 1
    BY <1>2, <1>3, <1>7
  <2> QED
    BY <1>13, <2>1
<1>15. /\ g \in Edits(Nat) /\ g.type = "delete" /\ f = Transform(g, h)
       /\ Stage(op, b, b) = op
  <2>0. g = Stage(op, b, j) /\ op \in Edits(Nat) /\ b \in Nat /\ j \in Nat
    BY <1>2, <1>7, <1>8
  <2>1. g \in Edits(Nat) /\ g.type = op.type /\ Stage(op, b, j + 1) = Transform(g, history[j + 1])
    <3>1. b <= j /\ j <= Len(history) /\ j < Len(history)
      BY <1>14
    <3>2. Stage(op, b, j) \in Edits(Nat) /\ Stage(op, b, j).type = op.type
      BY <2>0, <3>1, StageIs
    <3>3. Stage(op, b, j + 1) = Transform(Stage(op, b, j), history[j + 1])
      BY <2>0, <3>1, StageIs
    <3> QED
      BY <2>0, <3>2, <3>3
  <2>2. Stage(op, b, b) = op
    BY <1>2, <1>14, StageIs
  <2> QED
    BY <1>2, <1>7, <1>8, <2>1, <2>2
<1>16. Touches(com, m)
  BY <1>4, <1>5, <1>6
<1>17. Touches(o, m)
  <2>1. PICK size : size = Len(d)
    OBVIOUS
  <2>2. size \in Nat /\ m \in 1 .. size /\ com = Entered(o, size, n)
    BY <1>2, <2>1
  <2>3. o \in Edits(Nat) /\ n \in Nat
    BY <1>2, <1>3
  <2>4. Touches(o, m) <=> Touches(Entered(o, size, n), m)
    BY <2>2, <2>3, TouchesEntered, ZenonT(60)
  <2> QED
    BY <1>16, <2>2, <2>4
<1>18. Touches(f, i)
  <2>1. Tracks(past[r + 1], Stage(op, b, r), past[(n - 1) + 1], Stage(op, b, n - 1))
    BY <1>2, <1>3, <1>14, HistoryTracks
  <2>2. Tracks(E, f, d, o)
    <3>1. (n - 1) + 1 = n
      BY <1>3
    <3> QED
      BY <1>2, <1>7, <2>1, <3>1
  <2> QED
    BY <1>6, <1>11, <1>17, <2>2 DEF Tracks
<1>19. PICK P, N, p : P = g.position /\ N = g.count /\ p = h.position
  OBVIOUS
<1>20. /\ ~IsNoop(g) /\ P \in Nat /\ N \in Nat /\ p \in Nat /\ p <= Len(e) /\ P < p /\ p < P + N
       /\ Precedes(e[P + 1], E[i], E)
       /\ p < Len(e) => Precedes(E[i], e[p + 1], E)
  <2>1. E[i] \notin ToSet(e)
    BY <1>5, <1>7, <1>11
  <2>2. Touches(Transform(g, h), i)
    BY <1>15, <1>18
  <2> QED
    BY <1>9, <1>15, <1>19, <2>1, <2>2, GrowsOver
<1>21. ASSUME NEW l \in 1 .. Len(e), P < l, l <= P + N PROVE e[l] \in In(g0, base, e)
  <2>1. Touches(g, l)
    BY <1>15, <1>19, <1>21 DEF Touches
  <2>2. e[l] \in ToSet(e)
    BY <1>10 DEF ToSet
  <2>3. Tracks(past[b + 1], Stage(op, b, b), past[j + 1], Stage(op, b, j))
    BY <1>2, <1>8, <1>14, HistoryTracks
  <2>4. Tracks(base, op, e, g)
    BY <1>2, <1>7, <1>8, <1>15, <2>3
  <2>5. ASSUME e[l] \in ToSet(base) PROVE e[l] \in g0
    <3>1. PICK k \in 1 .. Len(base) : base[k] = e[l]
      BY <1>3, <2>5 DEF ToSet
    <3>2. Touches(op, k)
      BY <2>1, <2>4, <3>1 DEF Tracks
    <3> QED
      BY <1>4, <1>5, <3>1, <3>2
  <2> QED
    BY <2>2, <2>5
<1>22. \E u \in In(g0, base, e) : Precedes(u, x, E)
  <2>1. PICK l : l = P + 1
    OBVIOUS
  <2>2. l \in 1 .. Len(e) /\ P < l /\ l <= P + N
    <3>1. Len(e) \in Nat
      BY <1>9
    <3> QED
      BY <1>20, <2>1, <3>1, SMTT(30)
  <2> QED
    BY <1>11, <1>20, <1>21, <2>1, <2>2
<1>23. \/ op.position + op.count > Len(base)
       \/ \E v \in In(g0, base, e) : Precedes(x, v, E)
  <2>1. CASE p < Len(e)
    <3>1. PICK l : l = p + 1
      OBVIOUS
    <3>2. l \in 1 .. Len(e) /\ P < l /\ l <= P + N
      <4>1. Len(e) \in Nat
        BY <1>9
      <4> QED
        BY <1>20, <2>1, <3>1, <4>1, SMTT(30)
    <3> QED
      BY <1>11, <1>20, <1>21, <2>1, <3>1, <3>2
  <2>2. CASE ~(p < Len(e))
    <3>1. SUFFICES ASSUME ~(op.position + op.count > Len(base)) PROVE FALSE
      OBVIOUS
    <3>2. op.position \in Nat /\ op.count \in Nat /\ Len(base) \in Nat /\ Len(e) \in Nat
      <4>1. op \in Edits(Nat) /\ base \in Seq(Nat) /\ e \in Seq(Nat)
        BY <1>2, <1>9
      <4>2. op.position \in Nat /\ op.count \in Nat
        BY <4>1, EditFields
      <4> QED
        BY <4>1, <4>2
    <3>3. Fits(n)
      <4>1. op.position + op.count <= Len(base)
        BY <3>1, <3>2
      <4>2. op = authored[n] /\ base = past[authored[n].baseRevision + 1]
        BY <1>2
      <4> QED
        BY <4>1, <4>2 DEF Fits
    <3>4. n \in r .. Len(history) /\ authored[n].baseRevision < r
      <4>1. n \in Nat /\ n = Len(history) /\ r \in Nat /\ r < n /\ b \in Nat
        BY <1>2, <1>3
      <4>2. n \in r .. Len(history) /\ b < r
        BY <1>13, <4>1
      <4>3. b = authored[n].baseRevision
        BY <1>2
      <4> QED
        BY <4>2, <4>3
    <3>5. Settled(Meeting(r, n), Len(past[r]))
      BY <1>8, <3>3, <3>4, MeetingIs
    <3>6. Meeting(r, n) = g
      BY <1>2, <1>7 DEF Meeting, Stage
    <3>7. P + N <= Len(e)
      BY <1>7, <1>19, <1>20, <3>5, <3>6 DEF Settled
    <3> QED
      BY <1>20, <2>2, <3>2, <3>7
  <2> QED
    BY <2>1, <2>2
<1> QED
  BY <1>2, <1>7, <1>22, <1>23

(* Text that another client inserted survives a delete unless it went      *)
(* strictly inside the range as it then stood (GrowsOver): between two     *)
(* characters that the delete's author did not see outside the range, or   *)
(* at the end of the document when the range runs past it.                 *)
THEOREM DeletesSwallowOnlyInside ==
  EditSpec => []SwallowsOnlyInside
<1> QED
  BY AlwaysDated, SwallowsInside, PTL

-----------------------------------------------------------------------------
(* An insert strictly inside what a delete takes.                          *)

(* The delete grows over the inserted text, which is gone with it.         *)
LEMMA InsideSwallowed ==
  ASSUME NEW d \in Seq(Nat), NEW ins \in Edits(Nat), NEW del \in Edits(Nat), Inside(ins, del),
         Settled(ins, Len(d)), Settled(del, Len(d)),
         \A k \in 1 .. Len(d), l \in 1 .. Len(ins.text) : d[k] # ins.text[l]
  PROVE  ToSet(Apply(Apply(d, ins), Transform(del, ins))) \cap ToSet(ins.text) = {}
<1>1. PICK p, t, m, P, N, size : /\ p = ins.position /\ t = ins.text /\ m = Len(t)
                                 /\ P = del.position /\ N = del.count /\ size = Len(d)
  OBVIOUS
<1>2. ins.type = "insert" /\ del.type = "delete" /\ P < p /\ p < P + N
  BY <1>1 DEF Inside
<1>3. p \in Nat /\ t \in Seq(Nat) /\ m \in Nat /\ P \in Nat /\ N \in Nat /\ size \in Nat
      /\ DOMAIN t = 1 .. m /\ ins.count = 0
  <2>1. p \in Nat /\ t \in Seq(Nat) /\ P \in Nat /\ N \in Nat /\ ins.count = 0
    BY <1>1, <1>2, EditFields
  <2> QED
    BY <1>1, <2>1
<1>4. CASE m = 0
  BY <1>1, <1>3, <1>4 DEF ToSet
<1>5. CASE m > 0
  <2>1. ~IsNoop(ins) /\ ~IsNoop(del)
    <3>1. t # <<>> /\ N # 0
      BY <1>1, <1>2, <1>3, <1>5
    <3> QED
      BY <1>1, <1>2, <3>1 DEF IsNoop
  <2>2. p <= size /\ P + N <= size
    BY <1>1, <1>3, <2>1 DEF Settled
  <2>3. PICK E, f, X, n : /\ E = Apply(d, ins) /\ f = Transform(del, ins) /\ X = Apply(E, f)
                          /\ n = N + m
    OBVIOUS
  <2>4. E \in Seq(Nat) /\ f \in Edits(Nat) /\ f.type = "delete"
    BY <1>2, <2>3, ApplySplices, TransformTyped
  <2>5. E = Inserted(d, p, t) /\ p \in 0 .. size
    BY <1>1, <1>2, <1>3, <2>2, <2>3, ApplyInsert
  <2>6. IsInserted(E, d, p, t)
    BY <1>1, <1>3, <2>5, InsertedAt
  <2>7. f.position = P /\ f.count = n
    <3>1. f.position = StartOver(del, ins) /\ f.count = CountOver(del, ins)
      BY <2>1, <2>3, TransformMoves
    <3>2. ~(P >= p) /\ P + N > p
      BY <1>2, <1>3
    <3> QED
      BY <1>1, <1>2, <2>3, <3>1, <3>2 DEF StartOver, CountOver
  <2>8. Len(E) = size + m /\ n \in Nat /\ P \in 0 .. Len(E) /\ n \in 0 .. Len(E) - P /\ P + n <= Len(E)
    <3>1. Len(E) = size + m
      BY <1>1, <2>6 DEF IsInserted
    <3> QED
      BY <1>3, <2>2, <2>3, <3>1
  <2>9. X = Deleted(E, P, n)
    <3>1. E \in Seq(Nat) /\ f \in Edits(Nat) /\ f.type = "delete" /\ f.position = P /\ f.count = n
          /\ P + n <= Len(E)
      BY <2>4, <2>7, <2>8
    <3>2. Apply(E, f) = Deleted(E, P, n)
      BY <3>1, ApplyDelete
    <3> QED
      BY <2>3, <3>2
  <2>10. IsDeleted(X, E, P, n)
    BY <2>4, <2>8, <2>9, DeletedAt
  <2>11. X \in Seq(Nat) /\ DOMAIN X = 1 .. Len(X)
    <3>1. X \in Seq(Nat)
      BY <2>3, <2>4, ApplySplices
    <3> QED
      BY <3>1
  <2>12. ASSUME NEW j \in 1 .. Len(X) PROVE \E k \in 1 .. size : X[j] = d[k]
    <3>1. Len(X) = size - N /\ X[j] = IF j <= P THEN E[j] ELSE E[j + n]
      <4>1. Len(X) = Len(E) - n
        BY <2>10 DEF IsDeleted
      <4>2. Len(X) = size - N
        BY <1>3, <2>3, <2>8, <4>1
      <4> QED
        BY <2>10, <4>1, <4>2 DEF IsDeleted
    <3>2. j \in Nat /\ 1 <= j /\ j <= size - N
      BY <1>3, <2>2, <3>1
    <3>3. CASE j <= P
      <4>0. j <= p /\ j <= size /\ j \in 1 .. size
        BY <1>2, <1>3, <2>2, <3>2, <3>3
      <4>1. j \in 1 .. Len(d) + Len(t) /\ j <= p /\ j \in 1 .. size
        <5>1. j \in 1 .. size + m
          BY <1>3, <3>2, <4>0
        <5> QED
          BY <1>1, <4>0, <5>1
      <4>2. E[j] = d[j]
        BY <2>6, <4>1 DEF IsInserted
      <4> QED
        BY <3>1, <3>3, <4>1, <4>2
    <3>4. CASE ~(j <= P)
      <4>1. PICK i, k : i = j + n /\ k = j + N
        OBVIOUS
      <4>2. i \in Nat /\ k \in Nat /\ k \in 1 .. size /\ i = k + m /\ k > p
        BY <1>2, <1>3, <2>2, <2>3, <3>2, <3>4, <4>1
      <4>3. i \in 1 .. size + m /\ ~(i <= p) /\ ~(i <= p + m) /\ i - m = k
        BY <1>3, <4>2
      <4>4. E[i] = d[i - m]
        BY <1>1, <2>6, <4>3 DEF IsInserted
      <4> QED
        BY <3>1, <3>4, <4>1, <4>2, <4>3, <4>4
    <3> QED
      BY <3>3, <3>4
  <2>13. ASSUME NEW x \in ToSet(X), x \in ToSet(t) PROVE FALSE
    <3>1. PICK j \in 1 .. Len(X) : x = X[j]
      BY <2>11 DEF ToSet
    <3>2. PICK l \in 1 .. m : x = t[l]
      BY <1>3, <2>13 DEF ToSet
    <3>3. PICK k \in 1 .. size : X[j] = d[k]
      BY <2>12
    <3> QED
      BY <1>1, <3>1, <3>2, <3>3
  <2> QED
    BY <1>1, <2>3, <2>13
<1> QED
  BY <1>3, <1>4, <1>5

(* Where the delete comes first the insert goes to where it was.           *)
Keeps(doc, text) ==
  \E k \in 0 .. Len(doc) - Len(text) : SubSeq(doc, k + 1, k + Len(text)) = text

LEMMA InsideKept ==
  ASSUME NEW d \in Seq(Nat), NEW ins \in Edits(Nat), NEW del \in Edits(Nat), Inside(ins, del),
         Settled(del, Len(d))
  PROVE  Keeps(Apply(Apply(d, del), Transform(ins, del)), ins.text)
<1>0. PICK Y, t : Y = Apply(Apply(d, del), Transform(ins, del)) /\ t = ins.text
  OBVIOUS
<1> SUFFICES \E k \in 0 .. Len(Y) - Len(t) : SubSeq(Y, k + 1, k + Len(t)) = t
  BY <1>0 DEF Keeps
<1>1. PICK p, m, P, N, size, y, f : /\ p = ins.position /\ m = Len(t)
                                    /\ P = del.position /\ N = del.count /\ size = Len(d)
                                    /\ y = Apply(d, del) /\ f = Transform(ins, del)
  OBVIOUS
<1>2. ins.type = "insert" /\ del.type = "delete" /\ P < p /\ p < P + N
  BY <1>1 DEF Inside
<1>3. p \in Nat /\ t \in Seq(Nat) /\ m \in Nat /\ P \in Nat /\ N \in Nat /\ size \in Nat
  <2>1. p \in Nat /\ t \in Seq(Nat) /\ P \in Nat /\ N \in Nat
    BY <1>0, <1>1, EditFields
  <2> QED
    BY <1>1, <2>1
<1>4. /\ y \in Seq(Nat) /\ f \in Edits(Nat) /\ f.type = "insert" /\ f.text = t
      /\ Y = Apply(y, f) /\ Y \in Seq(Nat)
  <2>1. y \in Seq(Nat) /\ f \in Edits(Nat) /\ f.type = "insert" /\ f.text = t /\ Y = Apply(y, f)
    BY <1>0, <1>1, <1>2, ApplySplices, TransformTyped
  <2> QED
    BY <2>1, ApplySplices
<1>5. CASE m = 0
  <2>1. 0 \in 0 .. Len(Y) - m
    BY <1>4, <1>5
  <2>2. SubSeq(Y, 0 + 1, 0 + m) = t
    <3>1. t = <<>>
      BY <1>1, <1>3, <1>5, EmptySeq
    <3>2. SubSeq(Y, 1, 0) = <<>>
      BY <1>4
    <3> QED
      BY <1>5, <3>1, <3>2
  <2> QED
    BY <1>1, <2>1, <2>2
<1>6. CASE m > 0
  <2>1. ~IsNoop(ins) /\ ~IsNoop(del)
    <3>1. t # <<>> /\ N # 0
      BY <1>0, <1>1, <1>2, <1>3, <1>6
    <3> QED
      BY <1>0, <1>1, <1>2, <3>1 DEF IsNoop
  <2>2. P + N <= size
    BY <1>1, <2>1 DEF Settled
  <2>3. f.position = P
    <3>1. f.position = StartOver(ins, del)
      BY <1>1, <2>1, TransformMoves
    <3>2. p >= P /\ ~(p >= P + N)
      BY <1>2, <1>3
    <3> QED
      BY <1>1, <1>2, <3>1, <3>2 DEF StartOver
  <2>4. Len(y) = size - N
    BY <1>1, <1>2, <2>2, ApplyDelete
  <2>5. P \in 0 .. Len(y) /\ P <= Len(y) /\ Len(y) \in Nat
    BY <1>3, <2>2, <2>4
  <2>6. Y = Inserted(y, P, t)
    <3>1. /\ y \in Seq(Nat) /\ f \in Edits(Nat) /\ f.type = "insert" /\ f.text = t
          /\ f.position = P /\ P <= Len(y)
      BY <1>4, <2>3, <2>5
    <3>2. Apply(y, f) = Inserted(y, P, t)
      BY <3>1, ApplyInsert
    <3> QED
      BY <1>4, <3>2
  <2>7. IsInserted(Y, y, P, t)
    BY <1>3, <1>4, <2>5, <2>6, InsertedAt
  <2>8. Len(Y) = Len(y) + m
        /\ \A k \in 1 .. Len(y) + m :
             Y[k] = IF k <= P THEN y[k] ELSE IF k <= P + m THEN t[k - P] ELSE y[k - m]
    BY <1>1, <2>7 DEF IsInserted
  <2>9. PICK z, e : z = SubSeq(Y, P + 1, e) /\ e = P + m
    OBVIOUS
  <2>10. e \in Nat /\ e - P = m /\ P <= e /\ e <= Len(Y)
    BY <1>3, <2>5, <2>8, <2>9
  <2>11. z \in Seq(Nat) /\ Len(z) = m /\ \A k \in 1 .. m : z[k] = Y[P + k]
    <3>1. z \in Seq(Nat) /\ Len(z) = e - P /\ \A k \in 1 .. e - P : z[k] = Y[P + k]
      BY <1>3, <1>4, <2>9, <2>10, SubSeqOf DEF IsPart
    <3> QED
      BY <2>10, <3>1
  <2>12. ASSUME NEW k \in 1 .. m PROVE z[k] = t[k]
    <3>1. PICK j : j = P + k
      OBVIOUS
    <3>2. j \in 1 .. Len(y) + m /\ ~(j <= P) /\ j <= P + m /\ j - P = k
      BY <1>3, <2>5, <3>1
    <3>3. Y[j] = t[j - P]
      BY <2>8, <3>2
    <3> QED
      BY <2>11, <3>1, <3>2, <3>3
  <2>13. z = t
    BY <1>1, <1>3, <2>11, <2>12, SameSeq
  <2>14. P \in 0 .. Len(Y) - m
    BY <1>3, <2>5, <2>8
  <2> QED
    BY <1>1, <2>9, <2>13, <2>14
<1>7. m = 0 \/ m > 0
  BY <1>3
<1> QED
  BY <1>5, <1>6, <1>7

(* The latest two operations where they meet, and what the document is in  *)
(* either order.                                                           *)
Pair(i, d, a, b) ==
  /\ d \in Seq(Nat) /\ a \in Edits(Nat) /\ b \in Edits(Nat)
  /\ a = Meeting(i, i) /\ b = Meeting(i, i + 1) /\ Latest = i + 1
  /\ Settled(a, Len(d)) /\ Settled(b, Len(d))
  /\ a.text = authored[i].text /\ b.text = authored[i + 1].text
  /\ \A k \in 1 .. Len(d), l \in 1 .. Len(a.text) : d[k] # a.text[l]
  /\ \A k \in 1 .. Len(d), l \in 1 .. Len(b.text) : d[k] # b.text[l]
  /\ document = Apply(Apply(d, a), Transform(b, a))
  /\ Swapped(i).document = Apply(Apply(d, b), Transform(a, b))

LEMMA MeetingText ==
  ASSUME EditInv, NEW i \in 1 .. Len(history), NEW r \in i .. Len(history),
         authored[r].baseRevision < i
  PROVE  Meeting(i, r).text = authored[r].text
<1>1. PICK op, b, j : op = authored[r] /\ b = authored[r].baseRevision /\ j = i - 1
  OBVIOUS
<1>2. /\ authored \in Seq(Edits(Nat)) /\ Len(authored) = Len(history) /\ Len(history) \in Nat
  BY DEF EditInv, Recorded
<1>3. op \in Edits(Nat)
  <2>1. r \in 1 .. Len(authored)
    BY <1>2
  <2> QED
    BY <1>1, <1>2, <2>1, ElementOfSeq
<1>4. b \in Nat
  BY <1>1, <1>3, EditFields
<1>5. j \in Nat /\ b <= j /\ j <= Len(history)
  BY <1>1, <1>2, <1>4
<1>6. Stage(op, b, j).text = op.text
  BY <1>3, <1>4, <1>5, StageIs
<1> QED
  BY <1>1, <1>6 DEF Meeting, Stage

LEMMA PairIs ==
  ASSUME EditInv, Dated, NEW i, i = Latest - 1, Swappable(i)
  PROVE  \E d, a, b : Pair(i, d, a, b)
<1>0. Recorded /\ EveryRevisionMade
  BY DEF EditInv
<1>1. /\ i \in 1 .. Len(history) /\ i + 1 <= Len(history) /\ Latest = i + 1
      /\ document = past[i + 2] /\ Exchanged(Swapped(i), i)
  BY SwappedTwo
<1>2. PICK n, p : n = Len(history) /\ p = i + 1
  OBVIOUS
<1>3. /\ n \in Nat /\ i \in Nat /\ p \in Nat /\ p \in 1 .. n /\ i \in 1 .. n
      /\ Len(authored) = n /\ Len(past) = n + 1 /\ past \in Seq(Seq(Nat))
      /\ p + 1 = i + 2 /\ i < p
  <2>1. n \in Nat /\ Len(authored) = n /\ Len(past) = n + 1 /\ past \in Seq(Seq(Nat))
    BY <1>0, <1>2 DEF Recorded
  <2> QED
    BY <1>1, <1>2, <2>1
<1>4. PICK d, a, b : d = past[i] /\ a = Meeting(i, i) /\ b = Meeting(i, p)
  OBVIOUS
<1>5. d \in Seq(Nat)
  <2>1. i \in 1 .. Len(past)
    BY <1>3
  <2> QED
    BY <1>3, <1>4, <2>1, ElementOfSeq
<1>6. authored[i].baseRevision < i /\ authored[p].baseRevision < i /\ Fits(i) /\ Fits(p)
  <2>1. authored[i].baseRevision < i
    BY <1>0, <1>1 DEF EveryRevisionMade, MadeBy
  <2>2. i \in 1 .. Latest /\ p \in 1 .. Latest
    BY <1>2, <1>3 DEF Latest
  <2> QED
    BY <1>2, <2>1, <2>2 DEF Swappable
<1>7. i \in i .. Len(history) /\ p \in i .. Len(history) /\ p \in i + 1 .. Len(history)
  BY <1>2, <1>3, SMTT(30)
<1>8. a \in Edits(Nat) /\ Settled(a, Len(d)) /\ a.text = authored[i].text
  BY <1>1, <1>4, <1>6, <1>7, MeetingIs, MeetingText
<1>9. b \in Edits(Nat) /\ Settled(b, Len(d)) /\ b.text = authored[p].text
  BY <1>1, <1>4, <1>6, <1>7, MeetingIs, MeetingText
<1>10. Meeting(i + 1, p) = Transform(b, a) /\ past[i + 1] = Apply(d, a)
  BY <1>1, <1>4, <1>6, <1>7, MeetingNext
<1>11. past[p + 1] = Apply(past[p], Meeting(p, p))
  <2>1. p \in 1 .. Len(history)
    BY <1>2, <1>3
  <2> QED
    BY <2>1, RevisionMade
<1>12. document = Apply(Apply(d, a), Transform(b, a))
  BY <1>1, <1>2, <1>3, <1>10, <1>11
<1>13. Swapped(i).document = Apply(Apply(d, b), Transform(a, b))
  BY <1>1, <1>2, <1>4 DEF Exchanged
<1>14. \A k \in 1 .. Len(d) : d[k] \in Nat /\ d[k] <= 100 * i
  <2>1. i \in 1 .. Len(history) + 1
    BY <1>2, <1>3
  <2>2. Older(i)
    BY <2>1 DEF Dated
  <2>3. \A k \in 1 .. Len(d) : d[k] <= 100 * i
    BY <1>4, <2>2 DEF Older
  <2>4. \A k \in 1 .. Len(d) : d[k] \in Nat
    BY <1>5, ElementOfSeq
  <2> QED
    BY <2>3, <2>4
<1>15. ASSUME NEW o \in Edits(Nat), NEW r \in 1 .. n, i <= r, o.text = authored[r].text,
              NEW k \in 1 .. Len(d), NEW l \in 1 .. Len(o.text)
       PROVE  d[k] # o.text[l]
  <2>1. PICK x, y : x = d[k] /\ y = o.text[l]
    OBVIOUS
  <2>2. y > 100 * r
    BY <1>2, <1>15, <2>1 DEF Dated, Newer
  <2>3. y \in Nat
    <3>1. o.text \in Seq(Nat)
      BY EditFields
    <3> QED
      BY <2>1, <3>1, ElementOfSeq
  <2>4. x \in Nat /\ x <= 100 * i
    BY <1>14, <2>1
  <2>5. r \in Nat /\ i <= r
    BY <1>15
  <2>6. x # y
    BY <1>3, <2>2, <2>3, <2>4, <2>5
  <2> QED
    BY <2>1, <2>6
<1>16. \A k \in 1 .. Len(d), l \in 1 .. Len(a.text) : d[k] # a.text[l]
  <2>1. i \in 1 .. n /\ i <= i
    BY <1>3
  <2> QED
    BY <1>8, <1>15, <2>1
<1>17. \A k \in 1 .. Len(d), l \in 1 .. Len(b.text) : d[k] # b.text[l]
  <2>1. p \in 1 .. n /\ i <= p
    BY <1>3
  <2> QED
    BY <1>9, <1>15, <2>1
<1>18. Pair(i, d, a, b)
  <2>1. b = Meeting(i, i + 1) /\ b.text = authored[i + 1].text
    BY <1>2, <1>4, <1>9
  <2> QED
    BY <1>1, <1>4, <1>5, <1>8, <1>9, <1>12, <1>13, <1>16, <1>17, <2>1 DEF Pair
<1> QED
  BY <1>18

LEMMA InsideIsTheText ==
  EditInv /\ Dated => InsideSwallowedOrKept
<1> DEFINE Swallows(doc, text) == ToSet(doc) \cap ToSet(text) = {}
<1> SUFFICES ASSUME EditInv, Dated, NEW i, i = Latest - 1, Swappable(i)
             PROVE  /\ Inside(Meeting(i, i), Meeting(i, Latest)) =>
                         /\ Swallows(document, authored[i].text)
                         /\ Keeps(Swapped(i).document, authored[i].text)
                    /\ Inside(Meeting(i, Latest), Meeting(i, i)) =>
                         /\ Keeps(document, authored[Latest].text)
                         /\ Swallows(Swapped(i).document, authored[Latest].text)
  BY DEF InsideSwallowedOrKept, Keeps
<1>1. PICK d, a, b : Pair(i, d, a, b)
  BY PairIs
<1>2. PICK X, Y, s, t : /\ X = document /\ Y = Swapped(i).document
                        /\ s = authored[i].text /\ t = authored[Latest].text
  OBVIOUS
<1>3. /\ d \in Seq(Nat) /\ a \in Edits(Nat) /\ b \in Edits(Nat)
      /\ a = Meeting(i, i) /\ b = Meeting(i, Latest)
      /\ Settled(a, Len(d)) /\ Settled(b, Len(d)) /\ a.text = s /\ b.text = t
      /\ \A k \in 1 .. Len(d), l \in 1 .. Len(a.text) : d[k] # a.text[l]
      /\ \A k \in 1 .. Len(d), l \in 1 .. Len(b.text) : d[k] # b.text[l]
      /\ X = Apply(Apply(d, a), Transform(b, a)) /\ Y = Apply(Apply(d, b), Transform(a, b))
  BY <1>1, <1>2 DEF Pair
<1>4. ASSUME Inside(a, b) PROVE Swallows(X, s) /\ Keeps(Y, s)
  <2>1. Swallows(X, s)
    BY <1>3, <1>4, InsideSwallowed
  <2>2. Keeps(Y, s)
    <3>1. /\ d \in Seq(Nat) /\ a \in Edits(Nat) /\ b \in Edits(Nat) /\ Settled(b, Len(d))
          /\ Y = Apply(Apply(d, b), Transform(a, b)) /\ s = a.text
      BY <1>3
    <3>2. Keeps(Apply(Apply(d, b), Transform(a, b)), a.text)
      BY <1>4, <3>1, InsideKept
    <3> QED
      BY <3>1, <3>2
  <2> QED
    BY <2>1, <2>2
<1>5. ASSUME Inside(b, a) PROVE Keeps(X, t) /\ Swallows(Y, t)
  <2>1. Swallows(Y, t)
    BY <1>3, <1>5, InsideSwallowed
  <2>2. Keeps(X, t)
    <3>1. /\ d \in Seq(Nat) /\ a \in Edits(Nat) /\ b \in Edits(Nat) /\ Settled(a, Len(d))
          /\ X = Apply(Apply(d, a), Transform(b, a)) /\ t = b.text
      BY <1>3
    <3>2. Keeps(Apply(Apply(d, a), Transform(b, a)), b.text)
      BY <1>5, <3>1, InsideKept
    <3> QED
      BY <3>1, <3>2
  <2> QED
    BY <2>1, <2>2
<1> HIDE DEF Swallows
<1> QED
  BY <1>2, <1>3, <1>4, <1>5

(* Where two operations do not commute, it is a delete around the place of *)
(* an insert, and the two orders differ in the inserted text: swallowed by *)
(* the delete that comes second (DeleteOverInsert grows it), kept in one   *)
(* piece, where the range was, by the insert that comes second             *)
(* (InsertOverDelete).                                                     *)
THEOREM DivergenceIsTheText ==
  EditSpec => []InsideSwallowedOrKept
<1> QED
  BY AlwaysDated, InsideIsTheText, PTL
=============================================================================

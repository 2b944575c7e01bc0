------------------------------ MODULE OTProofs ------------------------------
(***************************************************************************)
(* Lemmas about OT for any characters, documents and operations.           *)
(*                                                                         *)
(* An operation changes a document by one splice (ApplySplices), and what  *)
(* transform() makes of it is another operation of its kind or nothing     *)
(* (TransformTyped) that fits the document it is made for (TransformFits). *)
(* FoldLeft, which runs through a history, is unrolled by the lemmas of    *)
(* InductionLemmas (TransformRuns, ApplyRuns).                             *)
(***************************************************************************)
EXTENDS OT, InductionLemmas, SequenceTheorems

-----------------------------------------------------------------------------
(* Parts of sequences.                                                     *)

LEMMA SubSeqOfAppend ==
  ASSUME NEW S, NEW s \in Seq(S), NEW e \in S, NEW i \in 0 .. Len(s), NEW b \in 1 .. i + 1
  PROVE  SubSeq(Append(s, e), b, i) = SubSeq(s, b, i)
<1>1. /\ Append(s, e) \in Seq(S) /\ Len(Append(s, e)) = Len(s) + 1
      /\ \A k \in 1 .. Len(s) : Append(s, e)[k] = s[k]
      /\ Len(s) \in Nat /\ i \in Nat /\ b \in Nat
  OBVIOUS
<1>2. PICK x, y : x = SubSeq(Append(s, e), b, i) /\ y = SubSeq(s, b, i)
  OBVIOUS
<1>3. x \in Seq(S) /\ Len(x) = i - b + 1 /\ \A k \in 1 .. i - b + 1 : x[k] = Append(s, e)[b + k - 1]
  BY <1>1, <1>2
<1>4. y \in Seq(S) /\ Len(y) = i - b + 1 /\ \A k \in 1 .. i - b + 1 : y[k] = s[b + k - 1]
  BY <1>1, <1>2
<1>5. ASSUME NEW k \in 1 .. i - b + 1 PROVE x[k] = y[k]
  <2>1. PICK j : j = b + k - 1
    OBVIOUS
  <2>2. j \in 1 .. Len(s)
    BY <1>1, <2>1
  <2>3. x[k] = Append(s, e)[j] /\ y[k] = s[j]
    BY <1>3, <1>4, <2>1
  <2> QED
    BY <1>1, <2>2, <2>3
<1> QED
  BY <1>2, <1>3, <1>4, <1>5

(* What a part of a sequence holds. *)
IsPart(x, s, b, e) == Len(x) = e - b /\ \A k \in 1 .. e - b : x[k] = s[b + k]

LEMMA SubSeqOf ==
  ASSUME NEW S, NEW s \in Seq(S), NEW b \in Nat, NEW e \in Nat, b <= e, e <= Len(s)
  PROVE  SubSeq(s, b + 1, e) \in Seq(S) /\ IsPart(SubSeq(s, b + 1, e), s, b, e)
<1>1. PICK lo : lo = b + 1
  OBVIOUS
<1>2. PICK x : x = SubSeq(s, lo, e)
  OBVIOUS
<1>3. lo \in 1 .. e + 1 /\ e \in 0 .. Len(s) /\ e - lo + 1 = e - b
  BY <1>1
<1>4. x \in Seq(S) /\ Len(x) = e - lo + 1 /\ \A k \in 1 .. e - lo + 1 : x[k] = s[lo + k - 1]
  BY <1>2, <1>3
<1>5. ASSUME NEW k \in 1 .. e - b PROVE x[k] = s[b + k]
  <2>1. lo + k - 1 = b + k
    BY <1>1
  <2> QED
    BY <1>3, <1>4, <2>1
<1>6. IsPart(x, s, b, e)
  BY <1>3, <1>4, <1>5 DEF IsPart
<1> QED
  BY <1>1, <1>2, <1>4, <1>6

LEMMA SameSeq ==
  ASSUME NEW S, NEW x \in Seq(S), NEW y \in Seq(S), Len(x) = Len(y),
         \A k \in 1 .. Len(x) : x[k] = y[k]
  PROVE  x = y
  OBVIOUS

-----------------------------------------------------------------------------
(* What operations do to a document, as one splice each.                   *)

Inserted(d, p, t) == SubSeq(d, 1, p) \o t \o SubSeq(d, p + 1, Len(d))

Deleted(d, p, n) == SubSeq(d, 1, p) \o SubSeq(d, p + n + 1, Len(d))

IsInserted(x, d, p, t) ==
  /\ Len(x) = Len(d) + Len(t)
  /\ \A k \in 1 .. Len(d) + Len(t) :
       x[k] = IF k <= p THEN d[k] ELSE IF k <= p + Len(t) THEN t[k - p] ELSE d[k - Len(t)]

IsDeleted(x, d, p, n) ==
  /\ Len(x) = Len(d) - n
  /\ \A k \in 1 .. Len(d) - n : x[k] = IF k <= p THEN d[k] ELSE d[k + n]

(* Operations as they are authored: an insert counts nothing, a delete     *)
(* carries no text.                                                        *)
Edits(Char) ==
  { op \in Operation(Char) : /\ op.type = "insert" => op.count = 0
                             /\ op.type = "delete" => op.text = <<>> }

(* It reaches no further than the document, or does nothing.               *)
Settled(op, size) == IsNoop(op) \/ op.position + op.count <= size

LEMMA InsertedAt ==
  ASSUME NEW C, NEW d \in Seq(C), NEW t \in Seq(C), NEW p \in 0 .. Len(d)
  PROVE  /\ Inserted(d, p, t) \in Seq(C)
         /\ IsInserted(Inserted(d, p, t), d, p, t)
<1> DEFINE head == SubSeq(d, 1, p)
           tail == SubSeq(d, p + 1, Len(d))
<1>1. Len(d) \in Nat /\ Len(t) \in Nat /\ p \in Nat
  OBVIOUS
<1>2. /\ head \in Seq(C) /\ Len(head) = p
      /\ \A k \in 1 .. p : head[k] = d[k]
  <2>1. \A k \in 1 .. p : d[k] \in C
    BY <1>1
  <2> QED
    BY <1>1, <2>1, SubSeqProperties
<1>3. /\ tail \in Seq(C) /\ Len(tail) = Len(d) - p
      /\ \A k \in 1 .. Len(d) - p : tail[k] = d[k + p]
  <2>1. \A k \in p + 1 .. Len(d) : d[k] \in C
    BY <1>1
  <2> QED
    BY <1>1, <2>1, SubSeqProperties
<1>4. Inserted(d, p, t) = (head \o t) \o tail
  BY DEF Inserted
<1> HIDE DEF head, tail
<1> DEFINE front == head \o t
           all == front \o tail
<1>5. /\ front \in Seq(C) /\ Len(front) = p + Len(t)
      /\ \A k \in 1 .. p + Len(t) : front[k] = IF k <= p THEN head[k] ELSE t[k - p]
  BY <1>1, <1>2, ConcatProperties
<1> HIDE DEF front
<1>8. /\ Len(front) + Len(tail) = Len(d) + Len(t)
      /\ \A k : k \in 1 .. Len(front) + Len(tail) <=> k \in 1 .. Len(d) + Len(t)
  BY <1>1, <1>3, <1>5
<1>6. /\ all \in Seq(C) /\ Len(all) = Len(d) + Len(t)
      /\ \A k \in 1 .. Len(d) + Len(t) :
           all[k] = IF k <= p + Len(t) THEN front[k] ELSE tail[k - (p + Len(t))]
  <2>1. /\ front \o tail \in Seq(C) /\ Len(front \o tail) = Len(front) + Len(tail)
        /\ \A k \in 1 .. Len(front) + Len(tail) :
             (front \o tail)[k] = IF k <= Len(front) THEN front[k] ELSE tail[k - Len(front)]
    BY <1>3, <1>5, ConcatProperties
  <2> QED
    BY <1>5, <1>8, <2>1
<1> HIDE DEF all
<1>7. ASSUME NEW k \in 1 .. Len(d) + Len(t)
      PROVE  all[k] = IF k <= p THEN d[k]
                      ELSE IF k <= p + Len(t) THEN t[k - p] ELSE d[k - Len(t)]
  <2>1. CASE k <= p + Len(t)
    BY <1>1, <1>2, <1>5, <1>6, <2>1
  <2>2. CASE ~(k <= p + Len(t))
    <3>1. /\ k - (p + Len(t)) \in 1 .. Len(d) - p
          /\ (k - (p + Len(t))) + p = k - Len(t) /\ ~(k <= p)
      BY <1>1, <2>2
    <3>2. all[k] = tail[k - (p + Len(t))]
      BY <1>6, <2>2
    <3> QED
      BY <1>3, <2>2, <3>1, <3>2
  <2> QED
    BY <2>1, <2>2
<1>9. Inserted(d, p, t) = all
  BY <1>4 DEF all, front
<1> QED
  BY <1>6, <1>7, <1>9 DEF IsInserted

LEMMA DeletedAt ==
  ASSUME NEW C, NEW d \in Seq(C), NEW p \in 0 .. Len(d), NEW n \in 0 .. Len(d) - p
  PROVE  /\ Deleted(d, p, n) \in Seq(C)
         /\ IsDeleted(Deleted(d, p, n), d, p, n)
<1> DEFINE head == SubSeq(d, 1, p)
           tail == SubSeq(d, p + n + 1, Len(d))
<1>1. Len(d) \in Nat /\ p \in Nat /\ n \in Nat /\ p + n <= Len(d)
  OBVIOUS
<1>2. /\ head \in Seq(C) /\ Len(head) = p
      /\ \A k \in 1 .. p : head[k] = d[k]
  <2>1. \A k \in 1 .. p : d[k] \in C
    BY <1>1
  <2> QED
    BY <1>1, <2>1, SubSeqProperties
<1>3. /\ tail \in Seq(C) /\ Len(tail) = Len(d) - p - n
      /\ \A k \in 1 .. Len(d) - p - n : tail[k] = d[k + p + n]
  <2>1. \A k \in p + n + 1 .. Len(d) : d[k] \in C
    BY <1>1
  <2> QED
    BY <1>1, <2>1, SubSeqProperties
<1>4. Deleted(d, p, n) = head \o tail
  BY DEF Deleted
<1> HIDE DEF head, tail
<1> DEFINE all == head \o tail
<1>5. /\ all \in Seq(C) /\ Len(all) = Len(d) - n
      /\ \A k \in 1 .. Len(d) - n : all[k] = IF k <= p THEN head[k] ELSE tail[k - p]
  BY <1>1, <1>2, <1>3, ConcatProperties
<1> HIDE DEF all
<1>6. ASSUME NEW k \in 1 .. Len(d) - n
      PROVE  all[k] = IF k <= p THEN d[k] ELSE d[k + n]
  <2>1. CASE k <= p
    BY <1>1, <1>2, <1>5, <2>1
  <2>2. CASE ~(k <= p)
    <3>1. k - p \in 1 .. Len(d) - p - n /\ (k - p) + p + n = k + n
      BY <1>1, <2>2
    <3>2. all[k] = tail[k - p]
      BY <1>5, <2>2
    <3> QED
      BY <1>3, <2>2, <3>1, <3>2
  <2> QED
    BY <2>1, <2>2
<1> QED
  BY <1>4, <1>5, <1>6 DEF all, IsDeleted

(* Two splices in either order.                                            *)
LEMMA InsertInsert ==
  ASSUME NEW C, NEW d \in Seq(C), NEW t \in Seq(C), NEW u \in Seq(C),
         NEW p \in 0 .. Len(d), NEW q \in p .. Len(d)
  PROVE  Inserted(Inserted(d, p, t), q + Len(t), u) = Inserted(Inserted(d, q, u), p, t)
<1> DEFINE x == Inserted(d, p, t)
           y == Inserted(d, q, u)
           v == Inserted(x, q + Len(t), u)
           w == Inserted(y, p, t)
<1>1. /\ Len(d) \in Nat /\ Len(t) \in Nat /\ Len(u) \in Nat /\ p \in Nat /\ q \in Nat
      /\ p <= q /\ q <= Len(d) /\ q \in 0 .. Len(d)
  OBVIOUS
<1>2. x \in Seq(C) /\ IsInserted(x, d, p, t)
  BY InsertedAt
<1>3. y \in Seq(C) /\ IsInserted(y, d, q, u)
  BY <1>1, InsertedAt
<1> HIDE DEF x, y
<1>4. v \in Seq(C) /\ IsInserted(v, x, q + Len(t), u)
  <2>1. q + Len(t) \in 0 .. Len(x)
    BY <1>1, <1>2 DEF IsInserted
  <2> QED
    BY <1>2, <2>1, InsertedAt
<1>5. w \in Seq(C) /\ IsInserted(w, y, p, t)
  <2>1. p \in 0 .. Len(y)
    BY <1>1, <1>3 DEF IsInserted
  <2> QED
    BY <1>3, <2>1, InsertedAt
<1> HIDE DEF v, w
<1>6. Len(v) = Len(w) /\ Len(v) = Len(d) + Len(t) + Len(u)
  BY <1>1, <1>2, <1>3, <1>4, <1>5 DEF IsInserted
<1>7. ASSUME NEW k \in 1 .. Len(v) PROVE v[k] = w[k]
  <2>1. k \in Int /\ 1 <= k /\ k <= Len(v) /\ Len(x) = Len(d) + Len(t) /\ Len(y) = Len(d) + Len(u)
    BY <1>1, <1>6, <1>2, <1>3 DEF IsInserted, IsDeleted
  <2>2. v[k] = IF k <= q + Len(t) THEN x[k]
             ELSE IF k <= q + Len(t) + Len(u) THEN u[k - (q + Len(t))] ELSE x[k - Len(u)]
    BY <1>1, <1>6, <2>1, <1>2, <1>4 DEF IsInserted, IsDeleted
  <2>3. w[k] = IF k <= p THEN y[k]
             ELSE IF k <= p + Len(t) THEN t[k - (p)] ELSE y[k - Len(t)]
    BY <1>1, <1>6, <2>1, <1>3, <1>5 DEF IsInserted, IsDeleted
  <2>4. k \in 1 .. Len(x) =>
           x[k] = IF k <= p THEN d[k]
             ELSE IF k <= p + Len(t) THEN t[k - (p)] ELSE d[k - Len(t)]
    BY <1>1, <2>1, <1>2 DEF IsInserted, IsDeleted
  <2>5. k - Len(u) \in 1 .. Len(x) =>
           x[(k - Len(u))] = IF (k - Len(u)) <= p THEN d[(k - Len(u))]
             ELSE IF (k - Len(u)) <= p + Len(t) THEN t[(k - Len(u)) - (p)] ELSE d[(k - Len(u)) - Len(t)]
    BY <1>1, <2>1, <1>2 DEF IsInserted, IsDeleted
  <2>6. k \in 1 .. Len(y) =>
           y[k] = IF k <= q THEN d[k]
             ELSE IF k <= q + Len(u) THEN u[k - (q)] ELSE d[k - Len(u)]
    BY <1>1, <2>1, <1>3 DEF IsInserted, IsDeleted
  <2>7. k - Len(t) \in 1 .. Len(y) =>
           y[(k - Len(t))] = IF (k - Len(t)) <= q THEN d[(k - Len(t))]
             ELSE IF (k - Len(t)) <= q + Len(u) THEN u[(k - Len(t)) - (q)] ELSE d[(k - Len(t)) - Len(u)]
    BY <1>1, <2>1, <1>3 DEF IsInserted, IsDeleted
  <2>8. CASE k <= p
    BY <1>1, <1>6, <2>1, <2>2, <2>3, <2>4, <2>5, <2>6, <2>7, <2>8
  <2>9. CASE p < k /\ k <= p + Len(t)
    BY <1>1, <1>6, <2>1, <2>2, <2>3, <2>4, <2>5, <2>6, <2>7, <2>9
  <2>10. CASE p + Len(t) < k /\ k <= q + Len(t)
    BY <1>1, <1>6, <2>1, <2>2, <2>3, <2>4, <2>5, <2>6, <2>7, <2>10
  <2>11. CASE q + Len(t) < k /\ k <= q + Len(t) + Len(u)
    BY <1>1, <1>6, <2>1, <2>2, <2>3, <2>4, <2>5, <2>6, <2>7, <2>11
  <2>12. CASE q + Len(t) + Len(u) < k
    BY <1>1, <1>6, <2>1, <2>2, <2>3, <2>4, <2>5, <2>6, <2>7, <2>12, SMTT(30)
  <2> QED
    BY <1>1, <2>1, <2>8, <2>9, <2>10, <2>11, <2>12
<1>8. v = w
  BY <1>4, <1>5, <1>6, <1>7, SeqEqual
<1> QED
  BY <1>8 DEF v, w, x, y

(* A delete behind the place of an insert.                                 *)
LEMMA InsertBeforeDelete ==
  ASSUME NEW C, NEW d \in Seq(C), NEW t \in Seq(C),
         NEW p \in 0 .. Len(d), NEW q \in p .. Len(d), NEW n \in 0 .. Len(d) - q
  PROVE  Deleted(Inserted(d, p, t), q + Len(t), n) = Inserted(Deleted(d, q, n), p, t)
<1> DEFINE x == Inserted(d, p, t)
           y == Deleted(d, q, n)
           v == Deleted(x, q + Len(t), n)
           w == Inserted(y, p, t)
<1>1. /\ Len(d) \in Nat /\ Len(t) \in Nat /\ p \in Nat /\ q \in Nat /\ n \in Nat
      /\ p <= q /\ q + n <= Len(d) /\ q \in 0 .. Len(d)
  OBVIOUS
<1>2. x \in Seq(C) /\ IsInserted(x, d, p, t)
  BY InsertedAt
<1>3. y \in Seq(C) /\ IsDeleted(y, d, q, n)
  BY <1>1, DeletedAt
<1> HIDE DEF x, y
<1>4. v \in Seq(C) /\ IsDeleted(v, x, q + Len(t), n)
  <2>1. q + Len(t) \in 0 .. Len(x) /\ n \in 0 .. Len(x) - (q + Len(t))
    BY <1>1, <1>2 DEF IsInserted
  <2> QED
    BY <1>2, <2>1, DeletedAt
<1>5. w \in Seq(C) /\ IsInserted(w, y, p, t)
  <2>1. p \in 0 .. Len(y)
    BY <1>1, <1>3 DEF IsDeleted
  <2> QED
    BY <1>3, <2>1, InsertedAt
<1> HIDE DEF v, w
<1>6. Len(v) = Len(w) /\ Len(v) = Len(d) + Len(t) - n
  BY <1>1, <1>2, <1>3, <1>4, <1>5 DEF IsInserted, IsDeleted
<1>7. ASSUME NEW k \in 1 .. Len(v) PROVE v[k] = w[k]
  <2>1. k \in Int /\ 1 <= k /\ k <= Len(v) /\ Len(x) = Len(d) + Len(t) /\ Len(y) = Len(d) - n
    BY <1>1, <1>6, <1>2, <1>3 DEF IsInserted, IsDeleted
  <2>2. v[k] = IF k <= q + Len(t) THEN x[k] ELSE x[k + n]
    BY <1>1, <1>6, <2>1, <1>2, <1>4 DEF IsInserted, IsDeleted
  <2>3. w[k] = IF k <= p THEN y[k]
             ELSE IF k <= p + Len(t) THEN t[k - (p)] ELSE y[k - Len(t)]
    BY <1>1, <1>6, <2>1, <1>3, <1>5 DEF IsInserted, IsDeleted
  <2>4. k \in 1 .. Len(x) =>
           x[k] = IF k <= p THEN d[k]
             ELSE IF k <= p + Len(t) THEN t[k - (p)] ELSE d[k - Len(t)]
    BY <1>1, <2>1, <1>2 DEF IsInserted, IsDeleted
  <2>5. k + n \in 1 .. Len(x) =>
           x[(k + n)] = IF (k + n) <= p THEN d[(k + n)]
             ELSE IF (k + n) <= p + Len(t) THEN t[(k + n) - (p)] ELSE d[(k + n) - Len(t)]
    BY <1>1, <2>1, <1>2 DEF IsInserted, IsDeleted
  <2>6. k \in 1 .. Len(y) =>
           y[k] = IF k <= q THEN d[k] ELSE d[k + n]
    BY <1>1, <2>1, <1>3 DEF IsInserted, IsDeleted
  <2>7. k - Len(t) \in 1 .. Len(y) =>
           y[(k - Len(t))] = IF (k - Len(t)) <= q THEN d[(k - Len(t))] ELSE d[(k - Len(t)) + n]
    BY <1>1, <2>1, <1>3 DEF IsInserted, IsDeleted
  <2>8. CASE k <= p
    BY <1>1, <1>6, <2>1, <2>2, <2>3, <2>4, <2>5, <2>6, <2>7, <2>8, SMTT(30)
  <2>9. CASE p < k /\ k <= p + Len(t)
    BY <1>1, <1>6, <2>1, <2>2, <2>3, <2>4, <2>5, <2>6, <2>7, <2>9, SMTT(30)
  <2>10. CASE p + Len(t) < k /\ k <= q + Len(t)
    BY <1>1, <1>6, <2>1, <2>2, <2>3, <2>4, <2>5, <2>6, <2>7, <2>10, SMTT(30)
  <2>11. CASE q + Len(t) < k
    BY <1>1, <1>6, <2>1, <2>2, <2>3, <2>4, <2>5, <2>6, <2>7, <2>11, SMTT(90)
  <2> QED
    BY <1>1, <2>1, <2>8, <2>9, <2>10, <2>11
<1>8. v = w
  BY <1>4, <1>5, <1>6, <1>7, SeqEqual
<1> QED
  BY <1>8 DEF v, w, x, y

(* A delete in front of it.                                                *)
LEMMA DeleteBeforeInsert ==
  ASSUME NEW C, NEW d \in Seq(C), NEW t \in Seq(C),
         NEW q \in 0 .. Len(d), NEW n \in 0 .. Len(d) - q, NEW p \in q + n .. Len(d)
  PROVE  Deleted(Inserted(d, p, t), q, n) = Inserted(Deleted(d, q, n), p - n, t)
<1> DEFINE x == Inserted(d, p, t)
           y == Deleted(d, q, n)
           v == Deleted(x, q, n)
           w == Inserted(y, p - n, t)
<1>1. /\ Len(d) \in Nat /\ Len(t) \in Nat /\ p \in Nat /\ q \in Nat /\ n \in Nat
      /\ q + n <= p /\ p <= Len(d) /\ p \in 0 .. Len(d)
  OBVIOUS
<1>2. x \in Seq(C) /\ IsInserted(x, d, p, t)
  BY <1>1, InsertedAt
<1>3. y \in Seq(C) /\ IsDeleted(y, d, q, n)
  BY <1>1, DeletedAt
<1> HIDE DEF x, y
<1>4. v \in Seq(C) /\ IsDeleted(v, x, q, n)
  <2>1. q \in 0 .. Len(x) /\ n \in 0 .. Len(x) - q
    BY <1>1, <1>2 DEF IsInserted
  <2> QED
    BY <1>2, <2>1, DeletedAt
<1>5. w \in Seq(C) /\ IsInserted(w, y, p - n, t)
  <2>1. p - n \in 0 .. Len(y)
    BY <1>1, <1>3 DEF IsDeleted
  <2> QED
    BY <1>3, <2>1, InsertedAt
<1> HIDE DEF v, w
<1>6. Len(v) = Len(w) /\ Len(v) = Len(d) + Len(t) - n
  BY <1>1, <1>2, <1>3, <1>4, <1>5 DEF IsInserted, IsDeleted
<1>7. ASSUME NEW k \in 1 .. Len(v) PROVE v[k] = w[k]
  <2>1. k \in Int /\ 1 <= k /\ k <= Len(v) /\ Len(x) = Len(d) + Len(t) /\ Len(y) = Len(d) - n
    BY <1>1, <1>6, <1>2, <1>3 DEF IsInserted, IsDeleted
  <2>2. v[k] = IF k <= q THEN x[k] ELSE x[k + n]
    BY <1>1, <1>6, <2>1, <1>2, <1>4 DEF IsInserted, IsDeleted
  <2>3. w[k] = IF k <= p - n THEN y[k]
             ELSE IF k <= p - n + Len(t) THEN t[k - (p - n)] ELSE y[k - Len(t)]
    BY <1>1, <1>6, <2>1, <1>3, <1>5 DEF IsInserted, IsDeleted
  <2>4. k \in 1 .. Len(x) =>
           x[k] = IF k <= p THEN d[k]
             ELSE IF k <= p + Len(t) THEN t[k - (p)] ELSE d[k - Len(t)]
    BY <1>1, <2>1, <1>2 DEF IsInserted, IsDeleted
  <2>5. k + n \in 1 .. Len(x) =>
           x[(k + n)] = IF (k + n) <= p THEN d[(k + n)]
             ELSE IF (k + n) <= p + Len(t) THEN t[(k + n) - (p)] ELSE d[(k + n) - Len(t)]
    BY <1>1, <2>1, <1>2 DEF IsInserted, IsDeleted
  <2>6. k \in 1 .. Len(y) =>
           y[k] = IF k <= q THEN d[k] ELSE d[k + n]
    BY <1>1, <2>1, <1>3 DEF IsInserted, IsDeleted
  <2>7. k - Len(t) \in 1 .. Len(y) =>
           y[(k - Len(t))] = IF (k - Len(t)) <= q THEN d[(k - Len(t))] ELSE d[(k - Len(t)) + n]
    BY <1>1, <2>1, <1>3 DEF IsInserted, IsDeleted
  <2>8. CASE k <= q
    BY <1>1, <1>6, <2>1, <2>2, <2>3, <2>4, <2>5, <2>6, <2>7, <2>8, SMTT(30)
  <2>9. CASE q < k /\ k <= p - n
    BY <1>1, <1>6, <2>1, <2>2, <2>3, <2>4, <2>5, <2>6, <2>7, <2>9, SMTT(30)
  <2>10. CASE p - n < k /\ k <= p - n + Len(t)
    BY <1>1, <1>6, <2>1, <2>2, <2>3, <2>4, <2>5, <2>6, <2>7, <2>10, SMTT(30)
  <2>11. CASE p - n + Len(t) < k
    BY <1>1, <1>6, <2>1, <2>2, <2>3, <2>4, <2>5, <2>6, <2>7, <2>11, SMTT(90)
  <2> QED
    BY <1>1, <2>1, <2>8, <2>9, <2>10, <2>11
<1>8. v = w
  BY <1>4, <1>5, <1>6, <1>7, SeqEqual
<1> QED
  BY <1>8 DEF v, w, x, y

(* Disjoint deletes.                                                       *)
LEMMA DeleteDelete ==
  ASSUME NEW C, NEW d \in Seq(C), NEW p \in 0 .. Len(d), NEW m \in 0 .. Len(d) - p,
         NEW q \in p + m .. Len(d), NEW n \in 0 .. Len(d) - q
  PROVE  Deleted(Deleted(d, p, m), q - m, n) = Deleted(Deleted(d, q, n), p, m)
<1> DEFINE x == Deleted(d, p, m)
           y == Deleted(d, q, n)
           v == Deleted(x, q - m, n)
           w == Deleted(y, p, m)
<1>1. /\ Len(d) \in Nat /\ p \in Nat /\ q \in Nat /\ m \in Nat /\ n \in Nat
      /\ p + m <= q /\ q + n <= Len(d) /\ q \in 0 .. Len(d)
  OBVIOUS
<1>2. x \in Seq(C) /\ IsDeleted(x, d, p, m)
  BY DeletedAt
<1>3. y \in Seq(C) /\ IsDeleted(y, d, q, n)
  BY <1>1, DeletedAt
<1> HIDE DEF x, y
<1>4. v \in Seq(C) /\ IsDeleted(v, x, q - m, n)
  <2>1. q - m \in 0 .. Len(x) /\ n \in 0 .. Len(x) - (q - m)
    BY <1>1, <1>2 DEF IsDeleted
  <2> QED
    BY <1>2, <2>1, DeletedAt
<1>5. w \in Seq(C) /\ IsDeleted(w, y, p, m)
  <2>1. p \in 0 .. Len(y) /\ m \in 0 .. Len(y) - p
    BY <1>1, <1>3 DEF IsDeleted
  <2> QED
    BY <1>3, <2>1, DeletedAt
<1> HIDE DEF v, w
<1>6. Len(v) = Len(w) /\ Len(v) = Len(d) - m - n
  BY <1>1, <1>2, <1>3, <1>4, <1>5 DEF IsDeleted
<1>7. ASSUME NEW k \in 1 .. Len(v) PROVE v[k] = w[k]
  <2>1. k \in Int /\ 1 <= k /\ k <= Len(v) /\ Len(x) = Len(d) - m /\ Len(y) = Len(d) - n
    BY <1>1, <1>6, <1>2, <1>3 DEF IsInserted, IsDeleted
  <2>2. v[k] = IF k <= q - m THEN x[k] ELSE x[k + n]
    BY <1>1, <1>6, <2>1, <1>2, <1>4 DEF IsInserted, IsDeleted
  <2>3. w[k] = IF k <= p THEN y[k] ELSE y[k + m]
    BY <1>1, <1>6, <2>1, <1>3, <1>5 DEF IsInserted, IsDeleted
  <2>4. k \in 1 .. Len(x) =>
           x[k] = IF k <= p THEN d[k] ELSE d[k + m]
    BY <1>1, <2>1, <1>2 DEF IsInserted, IsDeleted
  <2>5. k + n \in 1 .. Len(x) =>
           x[(k + n)] = IF (k + n) <= p THEN d[(k + n)] ELSE d[(k + n) + m]
    BY <1>1, <2>1, <1>2 DEF IsInserted, IsDeleted
  <2>6. k \in 1 .. Len(y) =>
           y[k] = IF k <= q THEN d[k] ELSE d[k + n]
    BY <1>1, <2>1, <1>3 DEF IsInserted, IsDeleted
  <2>7. k + m \in 1 .. Len(y) =>
           y[(k + m)] = IF (k + m) <= q THEN d[(k + m)] ELSE d[(k + m) + n]
    BY <1>1, <2>1, <1>3 DEF IsInserted, IsDeleted
  <2> QED
    BY <1>1, <1>6, <2>1, <2>2, <2>3, <2>4, <2>5, <2>6, <2>7
<1>8. v = w
  BY <1>4, <1>5, <1>6, <1>7, SeqEqual
<1> QED
  BY <1>8 DEF v, w, x, y

(* A delete around the place where text was deleted before: as if one.     *)
LEMMA DeleteAround ==
  ASSUME NEW C, NEW d \in Seq(C), NEW p \in 0 .. Len(d), NEW m \in 0 .. Len(d) - p,
         NEW q \in 0 .. p, NEW n \in p - q .. Len(d) - m - q
  PROVE  Deleted(Deleted(d, p, m), q, n) = Deleted(d, q, m + n)
<1> DEFINE x == Deleted(d, p, m)
           v == Deleted(x, q, n)
           w == Deleted(d, q, m + n)
<1>1. /\ Len(d) \in Nat /\ p \in Nat /\ q \in Nat /\ m \in Nat /\ n \in Nat
      /\ q <= p /\ p <= q + n /\ q + n + m <= Len(d)
  OBVIOUS
<1>2. x \in Seq(C) /\ IsDeleted(x, d, p, m)
  BY DeletedAt
<1>3. w \in Seq(C) /\ IsDeleted(w, d, q, m + n)
  <2>1. q \in 0 .. Len(d) /\ m + n \in 0 .. Len(d) - q
    BY <1>1
  <2> QED
    BY <2>1, DeletedAt
<1> HIDE DEF x, w
<1>4. v \in Seq(C) /\ IsDeleted(v, x, q, n)
  <2>1. q \in 0 .. Len(x) /\ n \in 0 .. Len(x) - q
    BY <1>1, <1>2 DEF IsDeleted
  <2> QED
    BY <1>2, <2>1, DeletedAt
<1> HIDE DEF v
<1>6. Len(v) = Len(w) /\ Len(v) = Len(d) - m - n
  BY <1>1, <1>2, <1>3, <1>4 DEF IsDeleted
<1>7. ASSUME NEW k \in 1 .. Len(v) PROVE v[k] = w[k]
  <2>1. k \in Int /\ 1 <= k /\ k <= Len(v) /\ Len(x) = Len(d) - m
    BY <1>1, <1>6, <1>2 DEF IsInserted, IsDeleted
  <2>2. v[k] = IF k <= q THEN x[k] ELSE x[k + n]
    BY <1>1, <1>6, <2>1, <1>2, <1>4 DEF IsInserted, IsDeleted
  <2>3. w[k] = IF k <= q THEN d[k] ELSE d[k + (m + n)]
    BY <1>1, <1>6, <2>1, <1>3 DEF IsInserted, IsDeleted
  <2>4. k \in 1 .. Len(x) =>
           x[k] = IF k <= p THEN d[k] ELSE d[k + m]
    BY <1>1, <2>1, <1>2 DEF IsInserted, IsDeleted
  <2>5. k + n \in 1 .. Len(x) =>
           x[(k + n)] = IF (k + n) <= p THEN d[(k + n)] ELSE d[(k + n) + m]
    BY <1>1, <2>1, <1>2 DEF IsInserted, IsDeleted
  <2> QED
    BY <1>1, <1>6, <2>1, <2>2, <2>3, <2>4, <2>5
<1>8. v = w
  BY <1>3, <1>4, <1>6, <1>7, SeqEqual
<1> QED
  BY <1>8 DEF v, w, x

-----------------------------------------------------------------------------
(* clamp, apply and transform.                                             *)

LEMMA EditFields ==
  ASSUME NEW C, NEW op \in Edits(C)
  PROVE  /\ op \in Operation(C) /\ op.type \in {"insert", "delete"}
         /\ op.position \in Nat /\ op.count \in Nat /\ op.text \in Seq(C)
         /\ Len(op.text) \in Nat /\ op.baseRevision \in Nat /\ op.revision \in Nat
         /\ op.clientId \in Nat /\ op.opId \in Nat
         /\ op.type = "insert" => op.count = 0
         /\ op.type = "delete" => op.text = <<>>
  BY DEF Edits, Operation, OpType

LEMMA MovedEdit ==
  ASSUME NEW C, NEW op \in Edits(C), NEW p \in Nat, NEW n \in Nat,
         op.type = "insert" => n = 0
  PROVE  /\ [op EXCEPT !.position = p, !.count = n] \in Edits(C)
         /\ [op EXCEPT !.position = p] \in Edits(C)
         /\ [op EXCEPT !.count = n] \in Edits(C)
         /\ \A r \in Nat : [op EXCEPT !.revision = r] \in Edits(C)
  BY DEF Edits, Operation

(* clamp() brings an operation within the document.                        *)
LEMMA ClampFits ==
  ASSUME NEW C, NEW op \in Edits(C), NEW size \in Nat
  PROVE  /\ Clamp(op, size) \in Edits(C)
         /\ Clamp(op, size).position = Smaller(op.position, size)
         /\ Clamp(op, size).position + Clamp(op, size).count <= size
         /\ op.type = "delete" => Clamp(op, size).count
                                    = Smaller(op.count, size - Smaller(op.position, size))
         /\ Clamp(op, size).type = op.type /\ Clamp(op, size).text = op.text
         /\ Clamp(op, size).baseRevision = op.baseRevision
         /\ Clamp(op, size).clientId = op.clientId /\ Clamp(op, size).opId = op.opId
         /\ op.position + op.count <= size => Clamp(op, size) = op
<1> DEFINE position == Smaller(op.position, size)
           count == IF op.type = "delete" THEN Smaller(op.count, size - position) ELSE op.count
<1>1. /\ op \in Operation(C) /\ op.type \in {"insert", "delete"}
      /\ op.position \in Nat /\ op.count \in Nat
      /\ op.type = "insert" => op.count = 0
  BY EditFields
<1>2. /\ position \in Nat /\ count \in Nat /\ position + count <= size
      /\ op.type = "insert" => count = 0
  BY <1>1 DEF Smaller
<1>3. op.position + op.count <= size => position = op.position /\ count = op.count
  BY <1>1 DEF Smaller
<1>4. Clamp(op, size) = [op EXCEPT !.position = position, !.count = count]
  BY <1>1 DEF Clamp, Operation
<1>7. op.type = "delete" => count = Smaller(op.count, size - position)
  OBVIOUS
<1>8. position = Smaller(op.position, size)
  OBVIOUS
<1> HIDE DEF position, count
<1>5. [op EXCEPT !.position = position, !.count = count] \in Edits(C)
  BY <1>2, MovedEdit
<1>6. position = op.position /\ count = op.count =>
        [op EXCEPT !.position = position, !.count = count] = op
  BY <1>1 DEF Operation
<1> QED
  BY <1>1, <1>2, <1>3, <1>4, <1>5, <1>6, <1>7, <1>8 DEF Operation

(* apply(): one splice.                                                    *)
LEMMA ApplySplices ==
  ASSUME NEW C, NEW d \in Seq(C), NEW op \in Edits(C)
  PROVE  /\ Apply(d, op) \in Seq(C)
         /\ op.position + op.count <= Len(d) /\ op.type = "insert" =>
              Apply(d, op) = Inserted(d, op.position, op.text)
         /\ op.position + op.count <= Len(d) /\ op.type = "delete" =>
              Apply(d, op) = Deleted(d, op.position, op.count)
         /\ IsNoop(op) => Apply(d, op) = d
<1>1. PICK c : c = Clamp(op, Len(d))
  OBVIOUS
<1>2. /\ c \in Edits(C) /\ c.position + c.count <= Len(d)
      /\ c.type = op.type /\ c.text = op.text
      /\ op.type = "delete" /\ op.count = 0 => c.count = 0
      /\ op.position + op.count <= Len(d) => c = op
  <2>1. Len(d) \in Nat /\ op.position \in Nat
    BY EditFields
  <2>2. op.type = "delete" /\ op.count = 0 => c.count = 0
    BY <1>1, <2>1, ClampFits, SMTT(30) DEF Smaller
  <2>3. c \in Edits(C) /\ c.position + c.count <= Len(d)
    BY <1>1, <2>1, ClampFits, ZenonT(60)
  <2>4. c.type = op.type /\ c.text = op.text
    BY <1>1, <2>1, ClampFits, ZenonT(60)
  <2>5. op.position + op.count <= Len(d) => c = op
    BY <1>1, <2>1, ClampFits, ZenonT(60)
  <2> QED
    BY <2>2, <2>3, <2>4, <2>5
<1>3. /\ c.type \in {"insert", "delete"} /\ c.position \in Nat /\ c.count \in Nat
      /\ c.text \in Seq(C) /\ Len(d) \in Nat
  BY <1>2, EditFields
<1>4. Apply(d, op) = IF c.type = "insert"
                     THEN Inserted(d, c.position, c.text)
                     ELSE Deleted(d, c.position, c.count)
  BY <1>1 DEF Apply, Inserted, Deleted
<1>5. c.position \in 0 .. Len(d) /\ c.count \in 0 .. Len(d) - c.position
  BY <1>2, <1>3
<1>6. /\ Inserted(d, c.position, c.text) \in Seq(C)
      /\ IsInserted(Inserted(d, c.position, c.text), d, c.position, c.text)
  BY <1>3, <1>5, InsertedAt
<1>7. /\ Deleted(d, c.position, c.count) \in Seq(C)
      /\ IsDeleted(Deleted(d, c.position, c.count), d, c.position, c.count)
  BY <1>3, <1>5, DeletedAt
<1>8. c.text = <<>> => Inserted(d, c.position, c.text) = d
  <2> DEFINE x == Inserted(d, c.position, c.text)
  <2> SUFFICES ASSUME c.text = <<>> PROVE x = d
    OBVIOUS
  <2> HIDE DEF x
  <2>1. x \in Seq(C) /\ IsInserted(x, d, c.position, <<>>) /\ Len(<<>>) = 0
    BY <1>6 DEF x
  <2>2. Len(x) = Len(d) /\ \A k \in 1 .. Len(d) : x[k] = d[k]
    BY <1>3, <1>5, <2>1 DEF IsInserted
  <2> QED
    BY <2>1, <2>2, SeqEqual
<1>9. c.count = 0 => Deleted(d, c.position, c.count) = d
  <2> DEFINE x == Deleted(d, c.position, c.count)
  <2> SUFFICES ASSUME c.count = 0 PROVE x = d
    OBVIOUS
  <2> HIDE DEF x
  <2>1. x \in Seq(C) /\ IsDeleted(x, d, c.position, 0)
    BY <1>7 DEF x
  <2>2. Len(x) = Len(d) /\ \A k \in 1 .. Len(d) : x[k] = d[k]
    BY <1>3, <1>5, <2>1 DEF IsDeleted
  <2> QED
    BY <2>1, <2>2, SeqEqual
<1>10. IsNoop(op) => Apply(d, op) = d
  BY <1>2, <1>3, <1>4, <1>8, <1>9 DEF IsNoop
<1>11. Apply(d, op) \in Seq(C)
  BY <1>4, <1>6, <1>7
<1> QED
  BY <1>2, <1>4, <1>10, <1>11

(* What transform() makes of an operation: where it starts and how much it *)
(* deletes.                                                                *)
StartOver(op, com) ==
  IF com.type = "insert"
  THEN IF op.type = "insert"
       THEN IF \/ op.position > com.position
               \/ op.position = com.position /\ WinsTie(com, op)
            THEN op.position + Len(com.text) ELSE op.position
       ELSE IF op.position >= com.position
            THEN op.position + Len(com.text) ELSE op.position
  ELSE IF op.position >= com.position + com.count THEN op.position - com.count
       ELSE IF op.position >= com.position THEN com.position ELSE op.position

CountOver(op, com) ==
  IF op.type = "insert" THEN 0
  ELSE IF com.type = "insert"
       THEN IF op.position < com.position /\ op.position + op.count > com.position
            THEN op.count + Len(com.text) ELSE op.count
       ELSE IF \/ op.position + op.count <= com.position
               \/ op.position >= com.position + com.count
            THEN op.count
            ELSE op.count - (Smaller(op.position + op.count, com.position + com.count)
                               - Larger(op.position, com.position))

Moved(op, p, n) == [op EXCEPT !.position = p, !.count = n]

LEMMA TransformIs ==
  ASSUME NEW C, NEW op \in Edits(C), NEW com \in Edits(C)
  PROVE  /\ IsNoop(op) \/ IsNoop(com) => Transform(op, com) = op
         /\ ~IsNoop(op) /\ ~IsNoop(com) =>
              Transform(op, com) = Moved(op, StartOver(op, com), CountOver(op, com))
         /\ StartOver(op, com) \in Nat /\ CountOver(op, com) \in Nat
<1>1. /\ op \in Operation(C) /\ op.type \in {"insert", "delete"}
      /\ op.position \in Nat /\ op.count \in Nat
      /\ op.type = "insert" => op.count = 0
  BY EditFields
<1>2. /\ com.type \in {"insert", "delete"} /\ com.position \in Nat
      /\ com.count \in Nat /\ Len(com.text) \in Nat
  BY EditFields
<1>3. IsNoop(op) \/ IsNoop(com) => Transform(op, com) = op
  BY DEF Transform
<1>9. PICK p, n, moved : /\ p = StartOver(op, com) /\ n = CountOver(op, com)
                        /\ moved = Moved(op, p, n)
  OBVIOUS
<1>4. /\ n = op.count => [op EXCEPT !.position = p] = moved
      /\ p = op.position => [op EXCEPT !.count = n] = moved
      /\ [op EXCEPT !.count = n, !.position = p] = moved
      /\ p = op.position /\ n = op.count => op = moved
  BY <1>1, <1>9 DEF Moved, Operation
<1>5. ASSUME op.type = "insert", com.type = "insert"
      PROVE  /\ p \in Nat /\ n \in Nat
             /\ InsertOverInsert(op, com) = moved
  <2>1. n = op.count
    BY <1>1, <1>5, <1>9 DEF CountOver
  <2>2. CASE op.position > com.position \/ (op.position = com.position /\ WinsTie(com, op))
    <3>1. /\ p = op.position + Len(com.text)
          /\ InsertOverInsert(op, com) = [op EXCEPT !.position = p]
      BY <1>5, <2>2, <1>9 DEF StartOver, InsertOverInsert
    <3> QED
      BY <1>1, <1>2, <1>4, <1>9, <2>1, <3>1
  <2>3. CASE ~(op.position > com.position \/ (op.position = com.position /\ WinsTie(com, op)))
    <3>1. p = op.position /\ InsertOverInsert(op, com) = op
      BY <1>5, <2>3, <1>9 DEF StartOver, InsertOverInsert
    <3> QED
      BY <1>1, <1>2, <1>4, <1>9, <2>1, <3>1
  <2> QED
    BY <2>2, <2>3
<1>6. ASSUME op.type = "delete", com.type = "insert"
      PROVE  /\ p \in Nat /\ n \in Nat
             /\ DeleteOverInsert(op, com) = moved
  <2>1. CASE op.position >= com.position
    <3>1. /\ p = op.position + Len(com.text) /\ n = op.count
          /\ DeleteOverInsert(op, com) = [op EXCEPT !.position = p]
      BY <1>1, <1>2, <1>6, <2>1, <1>9 DEF StartOver, CountOver, DeleteOverInsert
    <3> QED
      BY <1>1, <1>2, <1>4, <1>9, <3>1
  <2>2. CASE op.position < com.position /\ op.position + op.count > com.position
    <3>1. /\ p = op.position /\ n = op.count + Len(com.text)
          /\ DeleteOverInsert(op, com) = [op EXCEPT !.count = n]
      BY <1>1, <1>2, <1>6, <2>2, <1>9 DEF StartOver, CountOver, DeleteOverInsert
    <3> QED
      BY <1>1, <1>2, <1>4, <1>9, <3>1
  <2>3. CASE op.position < com.position /\ ~(op.position + op.count > com.position)
    <3>1. /\ p = op.position /\ n = op.count
          /\ DeleteOverInsert(op, com) = op
      BY <1>1, <1>2, <1>6, <2>3, <1>9 DEF StartOver, CountOver, DeleteOverInsert
    <3> QED
      BY <1>1, <1>2, <1>4, <1>9, <3>1
  <2> QED
    BY <1>1, <1>2, <2>1, <2>2, <2>3
<1>7. ASSUME op.type = "insert", com.type = "delete"
      PROVE  /\ p \in Nat /\ n \in Nat
             /\ InsertOverDelete(op, com) = moved
  <2>0. n = op.count
    BY <1>1, <1>7, <1>9 DEF CountOver
  <2>1. CASE op.position > com.position + com.count
    <3>1. /\ p = op.position - com.count /\ op.position - com.count \in Nat
          /\ InsertOverDelete(op, com) = [op EXCEPT !.position = p]
      BY <1>1, <1>2, <1>7, <2>1, <1>9 DEF StartOver, InsertOverDelete
    <3> QED
      BY <1>1, <1>2, <1>4, <1>9, <2>0, <3>1
  <2>2. CASE op.position \in com.position .. com.position + com.count
    <3>1. /\ p = com.position
          /\ InsertOverDelete(op, com) = [op EXCEPT !.position = p]
      BY <1>1, <1>2, <1>7, <2>2, <1>9 DEF StartOver, InsertOverDelete
    <3> QED
      BY <1>1, <1>2, <1>4, <1>9, <2>0, <3>1
  <2>3. CASE op.position < com.position
    <3>1. p = op.position /\ InsertOverDelete(op, com) = op
      BY <1>1, <1>2, <1>7, <2>3, <1>9 DEF StartOver, InsertOverDelete
    <3> QED
      BY <1>1, <1>2, <1>4, <1>9, <2>0, <3>1
  <2> QED
    BY <1>1, <1>2, <2>1, <2>2, <2>3
<1>8. ASSUME op.type = "delete", com.type = "delete"
      PROVE  /\ p \in Nat /\ n \in Nat
             /\ DeleteOverDelete(op, com) = moved
  <2> DEFINE end == op.position + op.count
             delEnd == com.position + com.count
             overlap == Smaller(end, delEnd) - Larger(op.position, com.position)
  <2>1. CASE end <= com.position
    <3>1. /\ p = op.position
          /\ n = op.count
          /\ DeleteOverDelete(op, com) = op
      BY <1>1, <1>2, <1>8, <2>1, <1>9 DEF StartOver, CountOver, DeleteOverDelete
    <3> QED
      BY <1>1, <1>2, <1>4, <1>9, <3>1
  <2>2. CASE end > com.position /\ op.position >= delEnd
    <3>1. /\ p = op.position - com.count /\ op.position - com.count \in Nat
          /\ n = op.count
          /\ DeleteOverDelete(op, com) = [op EXCEPT !.position = p]
      BY <1>1, <1>2, <1>8, <2>2, <1>9 DEF StartOver, CountOver, DeleteOverDelete
    <3> QED
      BY <1>1, <1>2, <1>4, <1>9, <3>1
  <2>3. CASE end > com.position /\ op.position < delEnd
    <3>1. op.count - overlap \in Nat
      BY <1>1, <1>2, <2>3 DEF Smaller, Larger
    <3>2. n = op.count - overlap
      BY <1>1, <1>2, <1>8, <2>3, <1>9 DEF CountOver
    <3>3. p = IF op.position >= com.position THEN com.position ELSE op.position
      BY <1>1, <1>2, <1>8, <2>3, <1>9 DEF StartOver
    <3>4. DeleteOverDelete(op, com) =
            [op EXCEPT !.count = n, !.position = p]
      BY <1>1, <1>2, <1>8, <2>3, <3>2, <3>3 DEF DeleteOverDelete
    <3>5. DeleteOverDelete(op, com) = moved
      BY <1>4, <3>4
    <3> QED
      BY <1>1, <1>2, <3>1, <3>2, <3>3, <3>5
  <2> QED
    BY <1>1, <1>2, <2>1, <2>2, <2>3
<1>10. p \in Nat /\ n \in Nat
  BY <1>1, <1>2, <1>5, <1>6, <1>7, <1>8
<1>11. ASSUME ~IsNoop(op), ~IsNoop(com) PROVE Transform(op, com) = moved
  BY <1>1, <1>2, <1>5, <1>6, <1>7, <1>8, <1>11 DEF Transform
<1> QED
  BY <1>3, <1>9, <1>10, <1>11

(* transform() moves and resizes, and nothing else.                        *)
LEMMA TransformTyped ==
  ASSUME NEW C, NEW op \in Edits(C), NEW com \in Edits(C)
  PROVE  /\ Transform(op, com) \in Edits(C)
         /\ Transform(op, com).type = op.type /\ Transform(op, com).text = op.text
         /\ Transform(op, com).baseRevision = op.baseRevision
         /\ Transform(op, com).clientId = op.clientId /\ Transform(op, com).opId = op.opId
<1>1. op \in Operation(C)
  BY EditFields
<1>2. CASE IsNoop(op) \/ IsNoop(com)
  BY <1>2, TransformIs
<1>3. CASE ~IsNoop(op) /\ ~IsNoop(com)
  <2>1. PICK p, n : p = StartOver(op, com) /\ n = CountOver(op, com)
    OBVIOUS
  <2>2. /\ Transform(op, com) = [op EXCEPT !.position = p, !.count = n]
        /\ p \in Nat /\ n \in Nat
    <3>1. Transform(op, com) = Moved(op, StartOver(op, com), CountOver(op, com))
      BY <1>3, TransformIs
    <3>2. StartOver(op, com) \in Nat /\ CountOver(op, com) \in Nat
      BY TransformIs
    <3> QED
      BY <2>1, <3>1, <3>2 DEF Moved
  <2>4. op.type = "insert" => n = 0
    BY <2>1 DEF CountOver
  <2>3. [op EXCEPT !.position = p, !.count = n] \in Edits(C)
    BY <2>2, <2>4, MovedEdit
  <2> QED
    BY <1>1, <2>2, <2>3 DEF Operation
<1> QED
  BY <1>2, <1>3

LEMMA TransformMoves ==
  ASSUME NEW C, NEW op \in Edits(C), NEW com \in Edits(C), ~IsNoop(op), ~IsNoop(com)
  PROVE  /\ Transform(op, com).position = StartOver(op, com)
         /\ Transform(op, com).count = CountOver(op, com)
<1>1. op \in Operation(C)
  BY EditFields
<1>2. PICK p, n : p = StartOver(op, com) /\ n = CountOver(op, com)
  OBVIOUS
<1>3. Transform(op, com) = Moved(op, p, n)
  BY <1>2, TransformIs
<1> QED
  BY <1>1, <1>2, <1>3 DEF Moved, Operation

(* The operation and the splice it makes. *)
LEMMA ApplyInsert ==
  ASSUME NEW C, NEW d \in Seq(C), NEW op \in Edits(C), NEW p, NEW t,
         op.type = "insert", op.position = p, op.text = t, p <= Len(d)
  PROVE  /\ Apply(d, op) = Inserted(d, p, t)
         /\ Apply(d, op) \in Seq(C) /\ Len(Apply(d, op)) = Len(d) + Len(t)
<1>1. p \in Nat /\ t \in Seq(C) /\ op.count = 0 /\ Len(d) \in Nat
  BY EditFields
<1>2. p \in 0 .. Len(d) /\ op.position + op.count <= Len(d)
  BY <1>1
<1>3. Apply(d, op) = Inserted(d, p, t) /\ Apply(d, op) \in Seq(C)
  BY <1>2, ApplySplices
<1>4. IsInserted(Inserted(d, p, t), d, p, t)
  BY <1>1, <1>2, InsertedAt
<1> QED
  BY <1>3, <1>4 DEF IsInserted

LEMMA ApplyDelete ==
  ASSUME NEW C, NEW d \in Seq(C), NEW op \in Edits(C), NEW p, NEW n,
         op.type = "delete", op.position = p, op.count = n, p + n <= Len(d)
  PROVE  /\ Apply(d, op) = Deleted(d, p, n)
         /\ Apply(d, op) \in Seq(C) /\ Len(Apply(d, op)) = Len(d) - n
<1>1. p \in Nat /\ n \in Nat /\ Len(d) \in Nat
  BY EditFields
<1>2. p \in 0 .. Len(d) /\ n \in 0 .. Len(d) - p /\ op.position + op.count <= Len(d)
  BY <1>1
<1>3. Apply(d, op) = Deleted(d, p, n) /\ Apply(d, op) \in Seq(C)
  BY <1>2, ApplySplices
<1>4. IsDeleted(Deleted(d, p, n), d, p, n)
  BY <1>1, <1>2, DeletedAt
<1> QED
  BY <1>3, <1>4 DEF IsDeleted

LEMMA ApplyLength ==
  ASSUME NEW C, NEW d \in Seq(C), NEW op \in Edits(C), op.position + op.count <= Len(d)
  PROVE  Len(Apply(d, op)) = Len(d) + Len(op.text) - op.count
<1>1. /\ op.type \in {"insert", "delete"} /\ op.position \in Nat /\ op.count \in Nat
      /\ op.text \in Seq(C) /\ Len(op.text) \in Nat
      /\ op.type = "insert" => op.count = 0
      /\ op.type = "delete" => op.text = <<>>
  BY EditFields
<1>2. Len(d) \in Nat /\ op.position <= Len(d)
  BY <1>1
<1>3. CASE op.type = "insert"
  <2>1. Len(Apply(d, op)) = Len(d) + Len(op.text)
    BY <1>2, <1>3, ApplyInsert
  <2> QED
    BY <1>1, <1>2, <1>3, <2>1
<1>4. CASE op.type = "delete"
  <2>1. Len(Apply(d, op)) = Len(d) - op.count
    BY <1>4, ApplyDelete
  <2>2. Len(op.text) = 0
    BY <1>1, <1>4
  <2> QED
    BY <1>1, <1>2, <2>1, <2>2
<1> QED
  BY <1>1, <1>3, <1>4

(* An operation that fits the document its author saw still fits after     *)
(* each operation it is transformed over.                                  *)
LEMMA TransformFits ==
  ASSUME NEW C, NEW d \in Seq(C), NEW op \in Edits(C), NEW com \in Edits(C),
         com.position + com.count <= Len(d), Settled(op, Len(d))
  PROVE  Settled(Transform(op, com), Len(Apply(d, com)))
<1>1. CASE IsNoop(op)
  <2>1. Transform(op, com) = op
    BY <1>1, TransformIs
  <2> QED
    BY <1>1, <2>1 DEF Settled
<1>2. CASE ~IsNoop(op) /\ IsNoop(com)
  <2>1. Transform(op, com) = op /\ Apply(d, com) = d
    BY <1>2, TransformIs, ApplySplices
  <2> QED
    BY <2>1
<1>3. CASE ~IsNoop(op) /\ ~IsNoop(com)
  <2>1. /\ op.type \in {"insert", "delete"} /\ op.position \in Nat /\ op.count \in Nat
        /\ op.type = "insert" => op.count = 0
    BY EditFields
  <2>2. /\ com.type \in {"insert", "delete"} /\ com.position \in Nat /\ com.count \in Nat
        /\ Len(com.text) \in Nat
        /\ com.type = "insert" => com.count = 0
        /\ com.type = "delete" => com.text = <<>>
    BY EditFields
  <2>3. /\ Transform(op, com).position = StartOver(op, com)
        /\ Transform(op, com).count = CountOver(op, com)
    BY <1>3, TransformMoves
  <2>4. Len(Apply(d, com)) = Len(d) + Len(com.text) - com.count
    BY ApplyLength
  <2>5. Len(d) \in Nat /\ op.position + op.count <= Len(d)
    BY <1>3 DEF Settled
  <2>6. StartOver(op, com) + CountOver(op, com) <= Len(d) + Len(com.text) - com.count
    <3>1. CASE com.type = "insert"
      BY <2>1, <2>2, <2>5, <3>1, SMTT(30) DEF StartOver, CountOver
    <3>2. CASE com.type = "delete" /\ op.type = "insert"
      <4>1. Len(com.text) = 0
        BY <2>2, <3>2
      <4> QED
        BY <2>1, <2>2, <2>5, <3>2, <4>1 DEF StartOver, CountOver
    <3>3. CASE com.type = "delete" /\ op.type = "delete"
      <4>1. Len(com.text) = 0
        BY <2>2, <3>3
      <4>2. PICK p, m, q, n : p = op.position /\ m = op.count /\ q = com.position /\ n = com.count
        OBVIOUS
      <4>3. CASE p + m <= q \/ p >= q + n
        <5>1. CountOver(op, com) = m
          BY <3>3, <4>2, <4>3 DEF CountOver
        <5>2. StartOver(op, com) <= p /\ (p >= q + n => StartOver(op, com) = p - n)
          BY <2>1, <2>2, <3>3, <4>2 DEF StartOver
        <5>3. StartOver(op, com) \in Nat
          BY TransformIs
        <5>4. /\ p \in Nat /\ m \in Nat /\ q \in Nat /\ n \in Nat /\ Len(d) \in Nat
              /\ p + m <= Len(d) /\ q + n <= Len(d)
          BY <2>1, <2>2, <2>5, <4>2
        <5>5. PICK start \in Nat : start = StartOver(op, com)
          BY <5>3
        <5>6. start + m <= Len(d) - n
          BY <4>3, <5>2, <5>4, <5>5
        <5>7. Len(d) + 0 - n = Len(d) - n
          BY <5>4
        <5> QED
          BY <4>1, <4>2, <5>1, <5>5, <5>6, <5>7
      <4>4. CASE ~(p + m <= q) /\ ~(p >= q + n)
        <5>1. CountOver(op, com) = m - (Smaller(p + m, q + n) - Larger(p, q))
          BY <3>3, <4>2, <4>4 DEF CountOver
        <5>2. StartOver(op, com) = IF p >= q THEN q ELSE p
          BY <3>3, <4>2, <4>4 DEF StartOver
        <5>3. /\ p \in Nat /\ m \in Nat /\ q \in Nat /\ n \in Nat /\ Len(d) \in Nat
              /\ p + m <= Len(d) /\ q + n <= Len(d)
          BY <2>1, <2>2, <2>5, <4>2
        <5>4. (IF p >= q THEN q ELSE p) + (m - (Smaller(p + m, q + n) - Larger(p, q)))
                <= Len(d) - n
          BY <4>4, <5>3 DEF Smaller, Larger
        <5>5. Len(d) + 0 - n = Len(d) - n
          BY <5>3
        <5> QED
          BY <4>1, <4>2, <5>1, <5>2, <5>4, <5>5
      <4> QED
        BY <4>3, <4>4
    <3> QED
      BY <2>1, <2>2, <3>1, <3>2, <3>3
  <2> QED
    BY <2>3, <2>4, <2>6 DEF Settled
<1> QED
  BY <1>1, <1>2, <1>3

-----------------------------------------------------------------------------
(* The loops: commit() over what an operation missed, a browser over its    *)
(* catch-up, a server over the operations it commits.                       *)

(* What an operation becomes, one committed operation at a time.  *)
Transforms(t, base, s) ==
  /\ t[0] = base
  /\ \A i \in 1 .. Len(s) : t[i] = Transform(t[i - 1], s[i])

LEMMA TransformRuns ==
  ASSUME NEW C, NEW base \in Edits(C), NEW s \in Seq(Edits(C))
  PROVE  \E t \in [0 .. Len(s) -> Edits(C)] :
           Transforms(t, base, s) /\ FoldLeft(Transform, base, s) = t[Len(s)]
<1> DEFINE n == Len(s)
           A == Edits(C)
           Body(iter) == [S \in SUBSET (1 .. n) |->
                            IF S = {} THEN base
                            ELSE Transform(iter[S \ {Max(S)}], s[Max(S)])]
           iter == CHOOSE it : it = Body(it)
           step == [p \in A \X (1 .. n) |-> Transform(p[1], s[p[2]])]
<1>1. n \in Nat /\ n \in Int /\ DOMAIN s = 1 .. n /\ \A i \in 1 .. n : s[i] \in Edits(C)
  OBVIOUS
<1>2. step \in [A \X (1 .. n) -> A]
  <2>1. \A x \in A, i \in 1 .. n : Transform(x, s[i]) \in A
    BY <1>1, TransformTyped
  <2> HIDE DEF A
  <2> QED
    BY <2>1
<1>3. base \in A
  OBVIOUS
<1>4. FoldLeft(Transform, base, s) = iter[1 .. n]
  BY <1>1 DEF FoldLeft, MapThenFoldSet
<1>5. ASSUME NEW x \in A, NEW i \in 1 .. n PROVE step[<<x, i>>] = Transform(x, s[i])
  OBVIOUS
<1> HIDE DEF A, n
<1> HIDE DEF step
<1>6. iter = Body(iter)
  <2>1. PICK it \in [SUBSET (1 .. n) -> A] : IsFold(it, base, step, n)
    BY <1>1, <1>2, <1>3, FoldExists
  <2>2. ASSUME NEW S \in SUBSET (1 .. n), S # {}
        PROVE  it[S] = Transform(it[S \ {Max(S)}], s[Max(S)])
    <3>1. Max(S) \in 1 .. n /\ it[S \ {Max(S)}] \in A
      BY <1>1, <2>2, MaxOf
    <3>2. it[S] = step[<<it[S \ {Max(S)}], Max(S)>>]
      BY <2>1, <2>2 DEF IsFold
    <3> QED
      BY <1>5, <3>1, <3>2
  <2>3. it[{}] = base
    BY <2>1 DEF IsFold
  <2>4. it = Body(it)
    BY <2>2, <2>3
  <2> HIDE DEF Body
  <2> QED
    BY <2>4
<1> HIDE DEF iter
<1>7. FoldsWithin(iter, A, base, step, n)
  <2>1. ASSUME NEW S \in SUBSET (1 .. n), S # {}, iter[S \ {Max(S)}] \in A
        PROVE  iter[S] = step[<<iter[S \ {Max(S)}], Max(S)>>]
    <3>1. Max(S) \in 1 .. n
      BY <1>1, <2>1, MaxOf
    <3>2. Body(iter)[S] = Transform(iter[S \ {Max(S)}], s[Max(S)])
      BY <2>1
    <3> HIDE DEF Body
    <3> QED
      BY <1>5, <1>6, <2>1, <3>1, <3>2
  <2>2. Body(iter)[{}] = base
    OBVIOUS
  <2> HIDE DEF Body
  <2>3. iter[{}] = base
    BY <1>6, <2>2
  <2> QED
    BY <2>1, <2>3 DEF FoldsWithin
<1> HIDE DEF Body
<1>8. PICK t \in [0 .. n -> A] : IsRun(t, base, step, n) /\ t[n] = iter[1 .. n]
  <2>1. RunsTo(iter[1 .. n], A, base, step, n)
    BY <1>1, <1>2, <1>3, <1>7, FoldRuns
  <2> QED
    BY <2>1 DEF RunsTo
<1>9. Transforms(t, base, s)
  <2>1. ASSUME NEW i \in 1 .. n PROVE t[i] = Transform(t[i - 1], s[i])
    <3>1. i - 1 \in 0 .. n
      BY <1>1
    <3>2. t[i - 1] \in A /\ t[i] = step[<<t[i - 1], i>>]
      BY <1>8, <3>1 DEF IsRun
    <3> QED
      BY <1>5, <3>2
  <2> QED
    BY <1>8, <2>1 DEF IsRun, Transforms, n
<1> QED
  BY <1>4, <1>8, <1>9 DEF A, n

(* The documents along a catch-up.  *)
Applies(t, base, s) ==
  /\ t[0] = base
  /\ \A i \in 1 .. Len(s) : t[i] = Apply(t[i - 1], s[i])

LEMMA ApplyRuns ==
  ASSUME NEW C, NEW base \in Seq(C), NEW s \in Seq(Edits(C))
  PROVE  \E t \in [0 .. Len(s) -> Seq(C)] :
           Applies(t, base, s) /\ FoldLeft(Apply, base, s) = t[Len(s)]
<1> DEFINE n == Len(s)
           A == Seq(C)
           Body(iter) == [S \in SUBSET (1 .. n) |->
                            IF S = {} THEN base
                            ELSE Apply(iter[S \ {Max(S)}], s[Max(S)])]
           iter == CHOOSE it : it = Body(it)
           step == [p \in A \X (1 .. n) |-> Apply(p[1], s[p[2]])]
<1>1. n \in Nat /\ n \in Int /\ DOMAIN s = 1 .. n /\ \A i \in 1 .. n : s[i] \in Edits(C)
  OBVIOUS
<1>2. step \in [A \X (1 .. n) -> A]
  <2>1. \A x \in A, i \in 1 .. n : Apply(x, s[i]) \in A
    BY <1>1, ApplySplices
  <2> HIDE DEF A
  <2> QED
    BY <2>1
<1>3. base \in A
  OBVIOUS
<1>4. FoldLeft(Apply, base, s) = iter[1 .. n]
  BY <1>1 DEF FoldLeft, MapThenFoldSet
<1>5. ASSUME NEW x \in A, NEW i \in 1 .. n PROVE step[<<x, i>>] = Apply(x, s[i])
  OBVIOUS
<1> HIDE DEF A, n
<1> HIDE DEF step
<1>6. iter = Body(iter)
  <2>1. PICK it \in [SUBSET (1 .. n) -> A] : IsFold(it, base, step, n)
    BY <1>1, <1>2, <1>3, FoldExists
  <2>2. ASSUME NEW S \in SUBSET (1 .. n), S # {}
        PROVE  it[S] = Apply(it[S \ {Max(S)}], s[Max(S)])
    <3>1. Max(S) \in 1 .. n /\ it[S \ {Max(S)}] \in A
      BY <1>1, <2>2, MaxOf
    <3>2. it[S] = step[<<it[S \ {Max(S)}], Max(S)>>]
      BY <2>1, <2>2 DEF IsFold
    <3> QED
      BY <1>5, <3>1, <3>2
  <2>3. it[{}] = base
    BY <2>1 DEF IsFold
  <2>4. it = Body(it)
    BY <2>2, <2>3
  <2> HIDE DEF Body
  <2> QED
    BY <2>4
<1> HIDE DEF iter
<1>7. FoldsWithin(iter, A, base, step, n)
  <2>1. ASSUME NEW S \in SUBSET (1 .. n), S # {}, iter[S \ {Max(S)}] \in A
        PROVE  iter[S] = step[<<iter[S \ {Max(S)}], Max(S)>>]
    <3>1. Max(S) \in 1 .. n
      BY <1>1, <2>1, MaxOf
    <3>2. Body(iter)[S] = Apply(iter[S \ {Max(S)}], s[Max(S)])
      BY <2>1
    <3> HIDE DEF Body
    <3> QED
      BY <1>5, <1>6, <2>1, <3>1, <3>2
  <2>2. Body(iter)[{}] = base
    OBVIOUS
  <2> HIDE DEF Body
  <2>3. iter[{}] = base
    BY <1>6, <2>2
  <2> QED
    BY <2>1, <2>3 DEF FoldsWithin
<1> HIDE DEF Body
<1>8. PICK t \in [0 .. n -> A] : IsRun(t, base, step, n) /\ t[n] = iter[1 .. n]
  <2>1. RunsTo(iter[1 .. n], A, base, step, n)
    BY <1>1, <1>2, <1>3, <1>7, FoldRuns
  <2> QED
    BY <2>1 DEF RunsTo
<1>9. Applies(t, base, s)
  <2>1. ASSUME NEW i \in 1 .. n PROVE t[i] = Apply(t[i - 1], s[i])
    <3>1. i - 1 \in 0 .. n
      BY <1>1
    <3>2. t[i - 1] \in A /\ t[i] = step[<<t[i - 1], i>>]
      BY <1>8, <3>1 DEF IsRun
    <3> QED
      BY <1>5, <3>2
  <2> QED
    BY <1>8, <2>1 DEF IsRun, Applies, n
<1> QED
  BY <1>4, <1>8, <1>9 DEF A, n

(* transform() keeps what an operation is over any history ...             *)
LEMMA TransformOverTyped ==
  ASSUME NEW C, NEW op \in Edits(C), NEW s \in Seq(Edits(C))
  PROVE  /\ TransformOver(op, s) \in Edits(C)
         /\ TransformOver(op, s).type = op.type /\ TransformOver(op, s).text = op.text
         /\ TransformOver(op, s).opId = op.opId
<1>1. PICK t \in [0 .. Len(s) -> Edits(C)] :
        Transforms(t, op, s) /\ TransformOver(op, s) = t[Len(s)]
  BY TransformRuns DEF TransformOver
<1> DEFINE Good == { i \in 0 .. Len(s) :
                       t[i].type = op.type /\ t[i].text = op.text /\ t[i].opId = op.opId }
<1>2. Len(s) \in Nat /\ 0 \in Good
  BY <1>1 DEF Transforms
<1>3. ASSUME NEW i \in 1 .. Len(s), i - 1 \in Good PROVE i \in Good
  <2>1. t[i - 1] \in Edits(C) /\ s[i] \in Edits(C) /\ t[i] = Transform(t[i - 1], s[i])
    BY <1>1, <1>3 DEF Transforms
  <2>2. t[i].type = t[i - 1].type /\ t[i].text = t[i - 1].text /\ t[i].opId = t[i - 1].opId
    BY <2>1, TransformTyped
  <2> QED
    BY <1>3, <2>2
<1> HIDE DEF Good
<1>4. \A i \in 0 .. Len(s) : i \in Good
  BY <1>2, <1>3, UpTo
<1>5. Len(s) \in Good
  BY <1>2, <1>4
<1> QED
  BY <1>1, <1>5 DEF Good

(* ... and takes the history one operation after the other.                *)
LEMMA TransformOverNothing ==
  ASSUME NEW C, NEW op \in Edits(C), NEW s \in Seq(Edits(C)), Len(s) = 0
  PROVE  TransformOver(op, s) = op
<1>1. PICK t \in [0 .. Len(s) -> Edits(C)] :
        Transforms(t, op, s) /\ TransformOver(op, s) = t[Len(s)]
  BY TransformRuns DEF TransformOver
<1> QED
  BY <1>1 DEF Transforms

LEMMA TransformOverLast ==
  ASSUME NEW C, NEW op \in Edits(C), NEW s \in Seq(Edits(C)), NEW r \in Seq(Edits(C)),
         Len(r) = Len(s) + 1, \A i \in 1 .. Len(s) : r[i] = s[i]
  PROVE  TransformOver(op, r) = Transform(TransformOver(op, s), r[Len(r)])
<1> DEFINE n == Len(s)
<1>1. PICK t \in [0 .. Len(s) -> Edits(C)] :
        Transforms(t, op, s) /\ TransformOver(op, s) = t[Len(s)]
  BY TransformRuns DEF TransformOver
<1>2. PICK u \in [0 .. Len(r) -> Edits(C)] :
        Transforms(u, op, r) /\ TransformOver(op, r) = u[Len(r)]
  BY TransformRuns DEF TransformOver
<1> DEFINE Good == { i \in 0 .. n : u[i] = t[i] }
<1>3. n \in Nat /\ Len(r) \in Nat /\ 0 \in Good
  BY <1>1, <1>2 DEF Transforms
<1>4. ASSUME NEW i \in 1 .. n, i - 1 \in Good PROVE i \in Good
  <2>1. i \in 1 .. Len(r) /\ r[i] = s[i] /\ u[i - 1] = t[i - 1]
    BY <1>3, <1>4
  <2>2. t[i] = Transform(t[i - 1], s[i]) /\ u[i] = Transform(u[i - 1], r[i])
    BY <1>1, <1>2, <2>1 DEF Transforms
  <2> QED
    BY <2>1, <2>2
<1> HIDE DEF Good
<1>5. \A i \in 0 .. n : i \in Good
  BY <1>3, <1>4, UpTo
<1>6. u[n] = t[n]
  BY <1>3, <1>5 DEF Good
<1>7. u[Len(r)] = Transform(u[Len(r) - 1], r[Len(r)])
  BY <1>2, <1>3 DEF Transforms
<1>8. Len(r) - 1 = n
  BY <1>3
<1> QED
  BY <1>1, <1>2, <1>6, <1>7, <1>8

(* An operation that fits the document its author saw still fits the one   *)
(* it meets.                                                               *)
LEMMA TransformOverFits ==
  ASSUME NEW C, NEW op \in Edits(C), NEW s \in Seq(Edits(C)),
         NEW docs \in [0 .. Len(s) -> Seq(C)],
         \A i \in 1 .. Len(s) : /\ docs[i] = Apply(docs[i - 1], s[i])
                                /\ s[i].position + s[i].count <= Len(docs[i - 1]),
         Settled(op, Len(docs[0]))
  PROVE  Settled(TransformOver(op, s), Len(docs[Len(s)]))
<1>1. PICK t \in [0 .. Len(s) -> Edits(C)] :
        Transforms(t, op, s) /\ TransformOver(op, s) = t[Len(s)]
  BY TransformRuns DEF TransformOver
<1> DEFINE Good == { i \in 0 .. Len(s) : Settled(t[i], Len(docs[i])) }
<1>2. Len(s) \in Nat /\ 0 \in Good
  BY <1>1 DEF Transforms
<1>3. ASSUME NEW i \in 1 .. Len(s), i - 1 \in Good PROVE i \in Good
  <2>1. i - 1 \in 0 .. Len(s) /\ i \in 0 .. Len(s)
    BY <1>2
  <2>2. /\ t[i - 1] \in Edits(C) /\ s[i] \in Edits(C) /\ docs[i - 1] \in Seq(C)
        /\ docs[i] = Apply(docs[i - 1], s[i])
        /\ s[i].position + s[i].count <= Len(docs[i - 1])
    BY <1>1, <2>1
  <2>4. t[i] = Transform(t[i - 1], s[i])
    BY <1>1 DEF Transforms
  <2>5. Settled(t[i - 1], Len(docs[i - 1]))
    BY <1>3
  <2>3. Settled(Transform(t[i - 1], s[i]), Len(Apply(docs[i - 1], s[i])))
    BY <2>2, <2>5, TransformFits
  <2> QED
    BY <2>1, <2>2, <2>3, <2>4
<1> HIDE DEF Good
<1>4. \A i \in 0 .. Len(s) : i \in Good
  BY <1>2, <1>3, UpTo
<1>5. Len(s) \in Good
  BY <1>2, <1>4
<1> QED
  BY <1>1, <1>5 DEF Good

(* A catch-up arrives at the last of the documents its operations make.    *)
LEMMA ApplyOver ==
  ASSUME NEW C, NEW s \in Seq(Edits(C)), NEW docs \in [0 .. Len(s) -> Seq(C)],
         \A i \in 1 .. Len(s) : docs[i] = Apply(docs[i - 1], s[i])
  PROVE  FoldLeft(Apply, docs[0], s) = docs[Len(s)]
<1>0. Len(s) \in Nat /\ docs[0] \in Seq(C)
  OBVIOUS
<1>1. PICK t \in [0 .. Len(s) -> Seq(C)] :
        Applies(t, docs[0], s) /\ FoldLeft(Apply, docs[0], s) = t[Len(s)]
  BY <1>0, ApplyRuns
<1> DEFINE Good == { i \in 0 .. Len(s) : t[i] = docs[i] }
<1>2. 0 \in Good
  BY <1>0, <1>1 DEF Applies
<1>3. ASSUME NEW i \in 1 .. Len(s), i - 1 \in Good PROVE i \in Good
  <2>1. t[i] = Apply(t[i - 1], s[i])
    BY <1>1 DEF Applies
  <2>2. t[i - 1] = docs[i - 1] /\ docs[i] = Apply(docs[i - 1], s[i])
    BY <1>3
  <2>3. i \in 0 .. Len(s)
    BY <1>0
  <2> QED
    BY <2>1, <2>2, <2>3
<1> HIDE DEF Good
<1>4. \A i \in 0 .. Len(s) : i \in Good
  BY <1>0, <1>2, <1>3, UpTo
<1>5. Len(s) \in Good
  BY <1>0, <1>4
<1> QED
  BY <1>1, <1>5 DEF Good

-----------------------------------------------------------------------------
(* What commit() enters into the history: the operation brought within the *)
(* document and numbered.                                                  *)
Entered(op, size, r) == [Clamp(op, size) EXCEPT !.revision = r]

LEMMA EnteredTyped ==
  ASSUME NEW C, NEW op \in Edits(C), NEW size \in Nat, NEW r \in Nat
  PROVE  /\ Entered(op, size, r) \in Edits(C)
         /\ Entered(op, size, r).position = Clamp(op, size).position
         /\ Entered(op, size, r).count = Clamp(op, size).count
         /\ Entered(op, size, r).position + Entered(op, size, r).count <= size
         /\ Entered(op, size, r).revision = r
         /\ Entered(op, size, r).type = op.type /\ Entered(op, size, r).text = op.text
         /\ Entered(op, size, r).clientId = op.clientId /\ Entered(op, size, r).opId = op.opId
<1>1. PICK c : c = Clamp(op, size)
  OBVIOUS
<1>2. /\ c \in Edits(C) /\ c.position + c.count <= size
      /\ c.type = op.type /\ c.text = op.text /\ c.clientId = op.clientId /\ c.opId = op.opId
  BY <1>1, ClampFits
<1>3. [c EXCEPT !.revision = r] \in Edits(C)
  <2>1. c.position \in Nat /\ c.count \in Nat /\ (c.type = "insert" => c.count = 0)
    BY <1>2, EditFields
  <2> QED
    BY <1>2, <2>1, MovedEdit
<1>4. c \in Operation(C)
  BY <1>2, EditFields
<1>5. PICK e : e = [c EXCEPT !.revision = r]
  OBVIOUS
<1>6. /\ e.position = c.position /\ e.count = c.count /\ e.revision = r
      /\ e.type = c.type /\ e.text = c.text /\ e.clientId = c.clientId /\ e.opId = c.opId
  BY <1>4, <1>5 DEF Operation
<1>7. Entered(op, size, r) = e
  BY <1>1, <1>5 DEF Entered
<1> QED
  BY <1>1, <1>2, <1>3, <1>5, <1>6, <1>7

(* Neither clamping nor the number changes what it does to the document.   *)
LEMMA EnteredApplies ==
  ASSUME NEW C, NEW d \in Seq(C), NEW op \in Edits(C), NEW r \in Nat
  PROVE  Apply(d, Entered(op, Len(d), r)) = Apply(d, op)
<1>1. PICK c, e : c = Clamp(op, Len(d)) /\ e = Entered(op, Len(d), r)
  OBVIOUS
<1>0. Len(d) \in Nat
  OBVIOUS
<1>2. /\ e \in Edits(C) /\ e.position + e.count <= Len(d) /\ e.position = c.position
      /\ e.count = c.count /\ e.type = op.type /\ e.text = op.text
  BY <1>0, <1>1, EnteredTyped, ZenonT(120)
<1>3. Clamp(e, Len(d)) = e
  BY <1>0, <1>2, ClampFits
<1>4. c.type = op.type /\ c.text = op.text
  BY <1>0, <1>1, ClampFits
<1> QED
  BY <1>1, <1>2, <1>3, <1>4 DEF Apply

(* Nor, for an operation that fits, what a later operation makes of it.    *)
LEMMA EnteredTransforms ==
  ASSUME NEW C, NEW x \in Edits(C), NEW op \in Edits(C), NEW size \in Nat, NEW r \in Nat,
         Settled(op, size)
  PROVE  Transform(x, Entered(op, size, r)) = Transform(x, op)
<1>1. PICK e : e = Entered(op, size, r)
  OBVIOUS
<1>2. /\ e \in Edits(C) /\ e.type = op.type /\ e.text = op.text
      /\ e.clientId = op.clientId /\ e.opId = op.opId
      /\ e.position = Clamp(op, size).position /\ e.count = Clamp(op, size).count
  BY <1>1, EnteredTyped, SMTT(30)
<1>3. CASE IsNoop(op)
  <2>1. op.type = "delete" /\ op.count = 0 => e.count = 0
    <3>1. op.type = "delete" => e.count = Smaller(op.count, size - Smaller(op.position, size))
      BY <1>2, ClampFits
    <3>2. op.position \in Nat /\ size - Smaller(op.position, size) >= 0
      BY EditFields DEF Smaller
    <3> QED
      BY <3>1, <3>2 DEF Smaller
  <2>2. IsNoop(e)
    BY <1>2, <1>3, <2>1 DEF IsNoop
  <2> QED
    BY <1>1, <1>2, <1>3, <2>2, TransformIs
<1>4. CASE ~IsNoop(op)
  <2>1. Clamp(op, size) = op
    BY <1>4, ClampFits DEF Settled
  <2>2. e.position = op.position /\ e.count = op.count /\ ~IsNoop(e)
    BY <1>2, <1>4, <2>1 DEF IsNoop
  <2>3. CASE IsNoop(x)
    BY <1>1, <1>2, <2>3, TransformIs
  <2>4. CASE ~IsNoop(x)
    <3>1. StartOver(x, e) = StartOver(x, op) /\ CountOver(x, e) = CountOver(x, op)
      BY <1>2, <2>2 DEF StartOver, CountOver, WinsTie
    <3>2. /\ Transform(x, e) = Moved(x, StartOver(x, e), CountOver(x, e))
          /\ Transform(x, op) = Moved(x, StartOver(x, op), CountOver(x, op))
      BY <1>2, <1>4, <2>2, <2>4, TransformIs
    <3> QED
      BY <1>1, <3>1, <3>2
  <2> QED
    BY <2>3, <2>4
<1> QED
  BY <1>3, <1>4

=============================================================================

----------------------------- MODULE WireProofs -----------------------------
(***************************************************************************)
(* What the two connections of a RedisStore promise, proved for any number *)
(* of commits, breaks and restarts, wherever a reply is cut into parts.    *)
(*                                                                         *)
(*   CommitsSound   a commit that Redis runs had read everything           *)
(*   AnswersSound   a reply belongs to the command it is taken for         *)
(*   Delivers       messages are passed on whole, in order, none skipped   *)
(*                                                                         *)
(* CallInv, on client_, and SubInv, on the subscriber's connection, are    *)
(* the inductive invariants.  Both say of a connection, with Reading,      *)
(* which replies are still to be read from it, up to where it was cut; the *)
(* lemmas before them are what each step of RedisClient does to that.      *)
(***************************************************************************)
EXTENDS Wire, InductionLemmas

-----------------------------------------------------------------------------
(* Sequences that are cut up and put together.                             *)

Joins(c, x, m, y, q) ==
  /\ Len(c) = m + q
  /\ \A k \in 1 .. m : c[k] = x[k]
  /\ \A k \in 1 .. q : c[m + k] = y[k]

LEMMA Joined ==
  ASSUME NEW S, NEW x \in Seq(S), NEW y \in Seq(S), NEW m, m = Len(x), NEW q, q = Len(y)
  PROVE  x \o y \in Seq(S) /\ Joins(x \o y, x, m, y, q) /\ m \in Nat /\ q \in Nat
<1>1. PICK c : c = x \o y
  OBVIOUS
<1>2. /\ c \in Seq(S) /\ Len(c) = Len(x) + Len(y)
      /\ \A i \in 1 .. Len(x) + Len(y) : c[i] = IF i <= Len(x) THEN x[i] ELSE y[i - Len(x)]
  BY <1>1, ConcatProperties
<1>3. m \in Nat /\ q \in Nat
  OBVIOUS
<1>4. Len(c) = m + q /\ \A i \in 1 .. m + q : c[i] = IF i <= m THEN x[i] ELSE y[i - m]
  BY <1>2
<1>5. ASSUME NEW k \in 1 .. m PROVE c[k] = x[k]
  <2>1. k \in 1 .. m + q /\ k <= m
    BY <1>3
  <2> QED
    BY <1>4, <2>1
<1>6. ASSUME NEW k \in 1 .. q PROVE c[m + k] = y[k]
  <2>1. m + k \in 1 .. m + q /\ ~(m + k <= m) /\ m + k - m = k
    BY <1>3
  <2> QED
    BY <1>4, <2>1
<1> QED
  BY <1>1, <1>2, <1>3, <1>4, <1>5, <1>6 DEF Joins

Associate(x, y, z) == (x \o y) \o z = x \o (y \o z)

LEMMA Associated ==
  ASSUME NEW S, NEW x \in Seq(S), NEW y \in Seq(S), NEW z \in Seq(S)
  PROVE  Associate(x, y, z)
  BY ConcatAssociative DEF Associate

LEMMA SubSeqIs ==
  ASSUME NEW S, NEW s \in Seq(S), NEW b \in 0 .. Len(s), NEW e \in b .. Len(s)
  PROVE  /\ SubSeq(s, b + 1, e) \in Seq(S)
         /\ Len(SubSeq(s, b + 1, e)) = e - b
         /\ \A k \in 1 .. e - b : SubSeq(s, b + 1, e)[k] = s[b + k]
<1>1. PICK lo : lo = b + 1
  OBVIOUS
<1>2. /\ lo \in Int /\ e \in Int /\ Len(s) \in Nat
      /\ \A i \in lo .. e : i \in 1 .. Len(s)
  BY <1>1
<1>3. \A i \in lo .. e : s[i] \in S
  BY <1>2
<1>4. /\ SubSeq(s, lo, e) \in Seq(S)
      /\ Len(SubSeq(s, lo, e)) = IF lo <= e THEN e - lo + 1 ELSE 0
      /\ \A i \in 1 .. e - lo + 1 : SubSeq(s, lo, e)[i] = s[lo + i - 1]
  BY <1>2, <1>3, SubSeqProperties
<1>5. PICK x : x = SubSeq(s, lo, e)
  OBVIOUS
<1>6. Len(x) = e - b /\ \A k \in 1 .. e - b : x[k] = s[b + k]
  BY <1>1, <1>2, <1>4, <1>5
<1> QED
  BY <1>1, <1>4, <1>5, <1>6

LEMMA SubSeqFirst ==
  ASSUME NEW S, NEW s \in Seq(S), NEW e \in 0 .. Len(s)
  PROVE  /\ SubSeq(s, 1, e) \in Seq(S) /\ Len(SubSeq(s, 1, e)) = e
         /\ \A k \in 1 .. e : SubSeq(s, 1, e)[k] = s[k]
<1>1. /\ 0 \in 0 .. Len(s) /\ e \in 0 .. Len(s) /\ 0 + 1 = 1 /\ e - 0 = e
      /\ \A k \in 1 .. e : 0 + k = k
  OBVIOUS
<1>2. /\ SubSeq(s, 0 + 1, e) \in Seq(S) /\ Len(SubSeq(s, 0 + 1, e)) = e - 0
      /\ \A k \in 1 .. e - 0 : SubSeq(s, 0 + 1, e)[k] = s[0 + k]
  BY <1>1, SubSeqIs
<1> QED
  BY <1>1, <1>2

LEMMA SeqSame ==
  ASSUME NEW S, NEW x \in Seq(S), NEW y \in Seq(S), Len(x) = Len(y),
         \A k \in 1 .. Len(x) : x[k] = y[k]
  PROVE  x = y
  OBVIOUS

(* What a sequence starts with can be taken from its front. *)
Meets(x, y, b, z) == x \o y = b \o z
LeavesOf(rest, x, y, b, z) ==
  SubSeq(x, 1, Len(b)) = b /\ rest = SubSeq(x, Len(b) + 1, Len(x)) /\ rest \o y = z

LEMMA Split ==
  ASSUME NEW S, NEW x \in Seq(S), NEW y \in Seq(S), NEW b \in Seq(S), NEW z \in Seq(S),
         Meets(x, y, b, z), Len(b) <= Len(x)
  PROVE  \E rest \in Seq(S) : LeavesOf(rest, x, y, b, z)
<1>1. PICK n, l, q, r : n = Len(b) /\ l = Len(x) /\ q = Len(y) /\ r = Len(z)
  OBVIOUS
<1>2. n \in Nat /\ l \in Nat /\ q \in Nat /\ r \in Nat /\ n <= l /\ n \in 0 .. l /\ l \in n .. l
  BY <1>1
<1>3. PICK c, u, v : c = x \o y /\ u = SubSeq(x, 1, n) /\ v = SubSeq(x, n + 1, l)
  OBVIOUS
<1>4. Joins(c, x, l, y, q) /\ Joins(c, b, n, z, r)
  <2>1. c = b \o z
    BY <1>3 DEF Meets
  <2> QED
    <3>1. Joins(x \o y, x, l, y, q)
      BY <1>1, Joined
    <3>2. Joins(b \o z, b, n, z, r)
      BY <1>1, Joined
    <3> QED
      BY <1>3, <2>1, <3>1, <3>2
<1>5. u \in Seq(S) /\ Len(u) = n /\ \A k \in 1 .. n : u[k] = x[k]
  BY <1>1, <1>2, <1>3, SubSeqFirst
<1>6. v \in Seq(S) /\ Len(v) = l - n /\ \A k \in 1 .. l - n : v[k] = x[n + k]
  BY <1>1, <1>2, <1>3, SubSeqIs
<1>7. u = b
  <2>1. ASSUME NEW k \in 1 .. n PROVE u[k] = b[k]
    <3>1. k \in 1 .. l
      BY <1>2
    <3> QED
      BY <1>4, <1>5, <3>1 DEF Joins
  <2> QED
    BY <1>1, <1>5, <2>1, SeqSame
<1>8. PICK w, m : w = v \o y /\ m = l - n
  OBVIOUS
<1>9. w \in Seq(S) /\ Joins(w, v, m, y, q)
  BY <1>1, <1>6, <1>8, Joined
<1>10. Len(w) = m + q /\ m \in Nat /\ l = m + n /\ r = m + q
  BY <1>2, <1>4, <1>8, <1>9 DEF Joins
<1>11. ASSUME NEW k \in 1 .. m + q PROVE w[k] = z[k]
  <2>1. k \in 1 .. r /\ c[n + k] = z[k]
    BY <1>4, <1>10 DEF Joins
  <2>2. CASE k <= m
    <3>1. k \in 1 .. m /\ k \in 1 .. l - n /\ n + k \in 1 .. l
      BY <1>2, <1>8, <1>10, <2>2
    <3> QED
      BY <1>4, <1>6, <1>9, <2>1, <3>1 DEF Joins
  <2>3. CASE ~(k <= m)
    <3>1. PICK j \in 1 .. q : k = m + j
      <4>1. k - m \in 1 .. q /\ k = m + (k - m)
        BY <1>2, <1>10, <2>3
      <4> QED
        BY <4>1
    <3>2. n + k = l + j
      BY <1>2, <1>10, <3>1
    <3> QED
      BY <1>4, <1>9, <2>1, <3>1, <3>2 DEF Joins
  <2> QED
    BY <2>2, <2>3
<1>12. w = z
  BY <1>1, <1>9, <1>10, <1>11, SeqSame
<1> QED
  BY <1>1, <1>3, <1>6, <1>7, <1>8, <1>12 DEF LeavesOf

(* A sequence in two halves is the sequence. *)
LEMMA Halves ==
  ASSUME NEW S, NEW s \in Seq(S), NEW n \in 0 .. Len(s)
  PROVE  /\ SubSeq(s, 1, n) \in Seq(S) /\ SubSeq(s, n + 1, Len(s)) \in Seq(S)
         /\ SubSeq(s, 1, n) \o SubSeq(s, n + 1, Len(s)) = s
<1>1. PICK l, m : l = Len(s) /\ m = l - n
  OBVIOUS
<1>2. l \in Nat /\ n \in Nat /\ n <= l /\ l \in n .. l /\ n \in 0 .. l /\ m \in Nat /\ l = n + m
  BY <1>1
<1>3. PICK x, y : x = SubSeq(s, 1, n) /\ y = SubSeq(s, n + 1, l)
  OBVIOUS
<1>4. x \in Seq(S) /\ Len(x) = n /\ \A k \in 1 .. n : x[k] = s[k]
  BY <1>1, <1>2, <1>3, SubSeqFirst
<1>5. y \in Seq(S) /\ Len(y) = m /\ \A k \in 1 .. m : y[k] = s[n + k]
  BY <1>1, <1>2, <1>3, SubSeqIs
<1>6. PICK c : c = x \o y
  OBVIOUS
<1>7. c \in Seq(S) /\ Joins(c, x, n, y, m)
  BY <1>4, <1>5, <1>6, Joined
<1>8. ASSUME NEW i \in 1 .. l PROVE c[i] = s[i]
  <2>1. CASE i <= n
    <3>1. i \in 1 .. n
      BY <1>2, <2>1
    <3> QED
      BY <1>4, <1>7, <3>1 DEF Joins
  <2>2. CASE ~(i <= n)
    <3>1. PICK j \in 1 .. m : i = n + j
      <4>1. i - n \in 1 .. m /\ i = n + (i - n)
        BY <1>2, <2>2
      <4> QED
        BY <4>1
    <3> QED
      BY <1>5, <1>7, <3>1 DEF Joins
  <2> QED
    BY <2>1, <2>2
<1>9. Len(c) = l
  BY <1>2, <1>7 DEF Joins
<1>10. c = s
  BY <1>1, <1>7, <1>8, <1>9, SeqSame
<1> QED
  BY <1>1, <1>3, <1>4, <1>5, <1>6, <1>10

-----------------------------------------------------------------------------
(* FlattenSeq, one sequence at a time.                                     *)

Glues(t, s) == t[0] = <<>> /\ \A i \in 1 .. Len(s) : t[i] = t[i - 1] \o s[i]

LEMMA GlueExists ==
  ASSUME NEW S, NEW s \in Seq(Seq(S))
  PROVE  \E t \in [0 .. Len(s) -> Seq(S)] : Glues(t, s)
<1> DEFINE n == Len(s)
           A == Seq(S)
           step == [p \in A \X (1 .. n) |-> p[1] \o s[p[2]]]
<1>1. n \in Nat /\ n \in Int /\ \A i \in 1 .. n : s[i] \in A
  OBVIOUS
<1>2. step \in [A \X (1 .. n) -> A]
  <2>1. \A x \in A, i \in 1 .. n : x \o s[i] \in A
    BY <1>1, ConcatProperties
  <2> HIDE DEF A
  <2> QED
    BY <2>1
<1>3. <<>> \in A
  OBVIOUS
<1>4. ASSUME NEW x \in A, NEW i \in 1 .. n PROVE step[<<x, i>>] = x \o s[i]
  OBVIOUS
<1> HIDE DEF A, n, step
<1>5. PICK iter \in [SUBSET (1 .. n) -> A] : IsFold(iter, <<>>, step, n)
  BY <1>1, <1>2, <1>3, FoldExists
<1>6. FoldsWithin(iter, A, <<>>, step, n)
  BY <1>5 DEF IsFold, FoldsWithin
<1>7. PICK t \in [0 .. n -> A] : IsRun(t, <<>>, step, n)
  <2>1. RunsTo(iter[1 .. n], A, <<>>, step, n)
    BY <1>1, <1>2, <1>3, <1>6, FoldRuns
  <2> QED
    BY <2>1 DEF RunsTo
<1>8. ASSUME NEW i \in 1 .. n PROVE t[i] = t[i - 1] \o s[i]
  <2>1. i - 1 \in 0 .. n
    BY <1>1
  <2>2. t[i - 1] \in A /\ t[i] = step[<<t[i - 1], i>>]
    BY <1>7, <2>1 DEF IsRun
  <2> QED
    BY <1>4, <2>2
<1> QED
  BY <1>7, <1>8 DEF IsRun, Glues, A, n

LEMMA Flattened ==
  ASSUME NEW S, NEW s \in Seq(Seq(S))
  PROVE  \E t \in [0 .. Len(s) -> Seq(S)] : Glues(t, s) /\ FlattenSeq(s) = t[Len(s)]
<1> DEFINE n == Len(s)
           Body(f) == [i \in 1 .. n |-> IF i = 1 THEN s[i] ELSE f[i - 1] \o s[i]]
           flatten == CHOOSE f : f = Body(f)
<1>1. n \in Nat /\ \A i \in 1 .. n : s[i] \in Seq(S)
  OBVIOUS
<1>2. PICK t \in [0 .. n -> Seq(S)] : Glues(t, s)
  BY GlueExists
<1>3. CASE n = 0
  <2>1. s = <<>> /\ FlattenSeq(s) = s
    BY <1>3 DEF FlattenSeq
  <2> QED
    BY <1>2, <1>3, <2>1 DEF Glues
<1>4. CASE n # 0
  <2>1. FlattenSeq(s) = flatten[n]
    BY <1>4 DEF FlattenSeq
  <2>2. flatten = Body(flatten)
    <3> DEFINE f == [i \in 1 .. n |-> t[i]]
    <3>1. ASSUME NEW i \in 1 .. n
          PROVE  f[i] = IF i = 1 THEN s[i] ELSE f[i - 1] \o s[i]
      <4>1. f[i] = t[i - 1] \o s[i]
        BY <1>2 DEF Glues
      <4>2. CASE i = 1
        <5>1. t[i - 1] = <<>> /\ s[i] \in Seq(S)
          BY <1>1, <1>2, <4>2 DEF Glues
        <5> QED
          BY <4>1, <4>2, <5>1, ConcatEmptySeq
      <4>3. CASE i # 1
        <5>1. i - 1 \in 1 .. n
          BY <1>1, <4>3
        <5> QED
          BY <4>1, <4>3, <5>1
      <4> QED
        BY <4>2, <4>3
    <3>2. f = Body(f)
      <4> HIDE DEF n
      <4>1. f = [i \in 1 .. n |-> f[i]]
        OBVIOUS
      <4> HIDE DEF f
      <4> QED
        BY <3>1, <4>1
    <3> HIDE DEF Body, f
    <3> QED
      BY <3>2
  <2> HIDE DEF flatten
  <2>3. ASSUME NEW i \in 1 .. n
        PROVE  flatten[i] = IF i = 1 THEN s[i] ELSE flatten[i - 1] \o s[i]
    <3>1. Body(flatten)[i] = IF i = 1 THEN s[i] ELSE flatten[i - 1] \o s[i]
      OBVIOUS
    <3> HIDE DEF Body
    <3> QED
      BY <2>2, <3>1
  <2> HIDE DEF n
  <2> DEFINE Good == { i \in 0 .. n : i = 0 \/ flatten[i] = t[i] }
  <2>4. 0 \in Good
    BY <1>1
  <2>5. ASSUME NEW i \in 1 .. n, i - 1 \in Good PROVE i \in Good
    <3>1. t[i] = t[i - 1] \o s[i]
      BY <1>2 DEF Glues, n
    <3>2. CASE i = 1
      <4>1. t[i - 1] = <<>> /\ s[i] \in Seq(S)
        BY <1>1, <1>2, <3>2 DEF Glues
      <4>2. t[i] = s[i]
        BY <3>1, <4>1, ConcatEmptySeq
      <4> QED
        BY <1>1, <2>3, <3>2, <4>2
    <3>3. CASE i # 1
      <4>1. i - 1 # 0 /\ flatten[i - 1] = t[i - 1]
        BY <1>1, <2>5, <3>3
      <4>2. flatten[i] = flatten[i - 1] \o s[i]
        BY <2>3, <3>3
      <4>3. flatten[i] = t[i] /\ i \in 0 .. n
        BY <1>1, <3>1, <4>1, <4>2
      <4> QED
        BY <4>3
    <3> QED
      BY <3>2, <3>3
  <2> HIDE DEF Good
  <2>6. \A i \in 0 .. n : i \in Good
    BY <1>1, <2>4, <2>5, UpTo
  <2>7. n \in Good
    BY <1>1, <2>6
  <2>8. flatten[n] = t[n]
    BY <1>4, <2>7 DEF Good
  <2> QED
    BY <1>2, <2>1, <2>8 DEF n
<1> QED
  BY <1>3, <1>4

LEMMA FlatTyped ==
  ASSUME NEW S, NEW s \in Seq(Seq(S))
  PROVE  FlattenSeq(s) \in Seq(S)
<1>1. PICK t \in [0 .. Len(s) -> Seq(S)] : FlattenSeq(s) = t[Len(s)]
  BY Flattened
<1>2. Len(s) \in 0 .. Len(s)
  OBVIOUS
<1> QED
  BY <1>1, <1>2

LEMMA FlatNone ==
  FlattenSeq(<<>>) = <<>>
  BY DEF FlattenSeq

LEMMA FlatFirst ==
  ASSUME NEW S, NEW s \in Seq(Seq(S)), Len(s) > 0
  PROVE  FlattenSeq(s) = s[1] \o FlattenSeq(SubSeq(s, 2, Len(s)))
<1>1. PICK n, r, p : n = Len(s) - 1 /\ r = SubSeq(s, 2, Len(s)) /\ p = s[1]
  OBVIOUS
<1>2. n \in Nat /\ Len(s) = n + 1 /\ p \in Seq(S)
  BY <1>1
<1>3. r \in Seq(Seq(S)) /\ Len(r) = n /\ \A k \in 1 .. n : r[k] = s[1 + k]
  <2>1. PICK b, e, T : b = 1 /\ e = Len(s) /\ T = Seq(S)
    OBVIOUS
  <2>2. b \in 0 .. Len(s) /\ e \in b .. Len(s) /\ b + 1 = 2 /\ e - b = n /\ s \in Seq(T)
    BY <1>2, <2>1
  <2>3. /\ SubSeq(s, b + 1, e) \in Seq(T) /\ Len(SubSeq(s, b + 1, e)) = e - b
        /\ \A k \in 1 .. e - b : SubSeq(s, b + 1, e)[k] = s[b + k]
    BY <2>2, SubSeqIs
  <2> QED
    BY <1>1, <2>1, <2>2, <2>3
<1>4. PICK t \in [0 .. n + 1 -> Seq(S)] : Glues(t, s) /\ FlattenSeq(s) = t[n + 1]
  BY <1>2, Flattened
<1>5. PICK u \in [0 .. n -> Seq(S)] : Glues(u, r) /\ FlattenSeq(r) = u[n]
  BY <1>3, Flattened
<1> DEFINE Good == { i \in 0 .. n : t[i + 1] = p \o u[i] }
<1>6. 0 \in Good
  <2>1. t[0] = <<>> /\ u[0] = <<>> /\ 1 \in 1 .. Len(s) /\ 1 - 1 = 0 /\ 0 + 1 = 1
    BY <1>2, <1>4, <1>5 DEF Glues
  <2>2. t[1] = <<>> \o p
    BY <1>1, <1>4, <2>1 DEF Glues
  <2>3. t[1] = p /\ p \o u[0] = p
    BY <1>2, <2>1, <2>2, ConcatEmptySeq
  <2>4. t[0 + 1] = p \o u[0] /\ 0 \in 0 .. n
    BY <1>2, <2>1, <2>3
  <2> QED
    BY <2>4
<1>7. ASSUME NEW i \in 1 .. n, i - 1 \in Good PROVE i \in Good
  <2>1. PICK h, j : h = i - 1 /\ j = i + 1
    OBVIOUS
  <2>2. /\ j \in 1 .. Len(s) /\ j - 1 = i /\ h \in 0 .. n /\ h + 1 = i /\ i \in 0 .. n
        /\ 1 + i = j
    BY <1>2, <2>1
  <2>3. t[j] = t[i] \o s[j]
    BY <1>4, <2>2 DEF Glues
  <2>4. t[i] = p \o u[h]
    BY <1>7, <2>1, <2>2
  <2>5. PICK e : e = s[j]
    OBVIOUS
  <2>6. u[i] = u[h] \o e /\ e \in Seq(S)
    <3>1. u[i] = u[h] \o r[i]
      BY <1>3, <1>5, <2>1 DEF Glues
    <3>2. r[i] = e
      BY <1>3, <2>2, <2>5
    <3> QED
      BY <2>2, <2>5, <3>1, <3>2
  <2>7. PICK v \in Seq(S) : v = u[h]
    BY <1>5, <2>2
  <2>8. (p \o v) \o e = p \o (v \o e)
    <3>1. Associate(p, v, e)
      BY <1>2, <2>6, Associated
    <3> QED
      BY <3>1 DEF Associate
  <2>9. t[j] = p \o u[i]
    BY <2>3, <2>4, <2>5, <2>6, <2>7, <2>8
  <2> QED
    BY <2>1, <2>2, <2>9
<1> HIDE DEF Good
<1>8. \A i \in 0 .. n : i \in Good
  BY <1>2, <1>6, <1>7, UpTo
<1>9. n \in Good
  BY <1>2, <1>8
<1> QED
  BY <1>1, <1>4, <1>5, <1>9 DEF Good

LEMMA FlatLast ==
  ASSUME NEW S, NEW s \in Seq(Seq(S)), NEW p \in Seq(S)
  PROVE  FlattenSeq(Append(s, p)) = FlattenSeq(s) \o p
<1>1. PICK n, r : n = Len(s) /\ r = Append(s, p)
  OBVIOUS
<1>2. /\ n \in Nat /\ r \in Seq(Seq(S)) /\ Len(r) = n + 1 /\ r[n + 1] = p
      /\ \A k \in 1 .. n : r[k] = s[k]
  BY <1>1
<1>3. PICK t \in [0 .. n -> Seq(S)] : Glues(t, s) /\ FlattenSeq(s) = t[n]
  BY <1>1, Flattened
<1>4. PICK u \in [0 .. n + 1 -> Seq(S)] : Glues(u, r) /\ FlattenSeq(r) = u[n + 1]
  BY <1>2, Flattened
<1> DEFINE Good == { i \in 0 .. n : u[i] = t[i] }
<1>5. 0 \in Good
  BY <1>2, <1>3, <1>4 DEF Glues
<1>6. ASSUME NEW i \in 1 .. n, i - 1 \in Good PROVE i \in Good
  <2>1. i \in 1 .. Len(r) /\ i \in 0 .. n /\ i \in 1 .. Len(s)
    BY <1>1, <1>2
  <2>2. u[i] = u[i - 1] \o r[i] /\ t[i] = t[i - 1] \o s[i]
    BY <1>3, <1>4, <2>1 DEF Glues
  <2>3. u[i - 1] = t[i - 1] /\ r[i] = s[i]
    BY <1>2, <1>6
  <2> QED
    BY <2>1, <2>2, <2>3
<1> HIDE DEF Good
<1>7. \A i \in 0 .. n : i \in Good
  BY <1>2, <1>5, <1>6, UpTo
<1>8. u[n] = t[n]
  <2>1. n \in Good
    BY <1>2, <1>7
  <2> QED
    BY <2>1 DEF Good
<1>9. PICK m : m = n + 1
  OBVIOUS
<1>10. m \in 1 .. Len(r) /\ m - 1 = n /\ r[m] = p
  BY <1>2, <1>9
<1>11. u[m] = u[m - 1] \o r[m]
  BY <1>4, <1>10 DEF Glues
<1> QED
  BY <1>1, <1>3, <1>4, <1>8, <1>9, <1>10, <1>11

-----------------------------------------------------------------------------
(* What is on its way over a connection.                                   *)

Tags == {"$", "*", ":", "crlf", "op", "more", "text", "shutdown", "message", "channel",
         "number", "subscribe"}
Units == [t : Tags, n : Nat]
Names == {"none", "content", "revision", "history", "commit", "subscribe"}
Scalars == [type : {"Bulk", "Integer", "Error"}, bulk : Seq(Units), array : {<<>>}]
Values == [type : {"none", "Bulk", "Integer", "Error", "Array"}, bulk : Seq(Units),
           array : Seq(Scalars)]
Links == [state : {"up", "cut", "down"}, request : Names, subscribed : BOOLEAN,
          stream : Seq(Units), buffer : Seq(Units), value : Values, todo : Nat]

Rest(link) == link.buffer \o link.stream
Spent(link) == link.buffer = <<>> /\ link.stream = <<>>

(* These units are still to be read, up to some point if the connection    *)
(* was cut.                                                                *)
Holds(link, units) ==
  \E lost \in Seq(Units) : /\ Rest(link) \o lost = units
                           /\ link.state = "up" => lost = <<>>

(* All but what is on its way is as it was. *)
Kept(nx, link) ==
  /\ nx.state = link.state /\ nx.request = link.request /\ nx.subscribed = link.subscribed
  /\ nx.value = link.value /\ nx.todo = link.todo

LEMMA HoldsNothing ==
  ASSUME NEW link \in Links, Holds(link, <<>>)
  PROVE  Spent(link)
<1>0. PICK x, y : x = link.buffer /\ y = link.stream
  OBVIOUS
<1>1. PICK lost \in Seq(Units) : (x \o y) \o lost = <<>>
  BY <1>0 DEF Holds, Rest
<1>2. x \in Seq(Units) /\ y \in Seq(Units)
  BY <1>0 DEF Links
<1>3. x \o y \in Seq(Units) /\ Len(x \o y) = Len(x) + Len(y)
  BY <1>2, ConcatProperties
<1>4. Len((x \o y) \o lost) = Len(x) + Len(y) + Len(lost)
  BY <1>3, ConcatProperties
<1>5. Len(x) = 0 /\ Len(y) = 0
  BY <1>1, <1>2, <1>4
<1> QED
  BY <1>0, <1>2, <1>5 DEF Spent

(* What is sent is added at the end. *)
LEMMA SentHolds ==
  ASSUME NEW link \in Links, NEW units \in Seq(Units), NEW more \in Seq(Units), NEW nx,
         link.state = "up", Holds(link, units), nx.state = "up", nx.buffer = link.buffer,
         nx.stream = link.stream \o more
  PROVE  Holds(nx, units \o more)
<1>1. PICK x \in Seq(Units), y \in Seq(Units) : x = link.buffer /\ y = link.stream
  BY DEF Links
<1>2. x \o y \in Seq(Units) /\ x \o (y \o more) \in Seq(Units)
  BY ConcatProperties
<1>3. x \o y = units
  <2>1. (x \o y) \o <<>> = units
    BY <1>1 DEF Holds, Rest
  <2> QED
    BY <1>2, <2>1, ConcatEmptySeq
<1>4. Associate(x, y, more)
  BY Associated
<1>5. x \o (y \o more) = units \o more
  BY <1>3, <1>4 DEF Associate
<1>6. PICK r \in Seq(Units) : r = Rest(nx) /\ r = units \o more
  BY <1>1, <1>2, <1>5 DEF Rest
<1>7. r \o <<>> = r /\ <<>> \in Seq(Units)
  BY ConcatEmptySeq
<1> QED
  BY <1>6, <1>7 DEF Holds

LEMMA SpentHolds ==
  ASSUME NEW link \in Links, Spent(link)
  PROVE  Holds(link, <<>>)
<1>1. Rest(link) = <<>> /\ <<>> \in Seq(Units) /\ <<>> \o <<>> = <<>>
  <2>1. <<>> \in Seq(Units)
    OBVIOUS
  <2>2. <<>> \o <<>> = <<>>
    BY <2>1, ConcatEmptySeq
  <2> QED
    BY <2>1, <2>2 DEF Spent, Rest
<1> QED
  BY <1>1 DEF Holds

LEMMA RepliedHolds ==
  ASSUME NEW link \in Links, NEW units \in Seq(Units), link.state = "up", Spent(link)
  PROVE  /\ Reply(link, units) \in Links /\ Holds(Reply(link, units), units)
         /\ Reply(link, units) = [link EXCEPT !.stream = units, !.request = "none"]
<1>1. link.stream \o units = units /\ <<>> \o units = units
  BY ConcatEmptySeq DEF Spent
<1>2. PICK nx : nx = Reply(link, units)
  OBVIOUS
<1>3. nx = [link EXCEPT !.stream = units, !.request = "none"]
  BY <1>1, <1>2 DEF Reply
<1>4. nx \in Links /\ nx.state = "up" /\ nx.buffer = link.buffer /\ nx.stream = link.stream \o units
  BY <1>1, <1>3 DEF Links, Names
<1>5. Holds(link, <<>>) /\ <<>> \in Seq(Units)
  BY SpentHolds
<1>6. Holds(nx, <<>> \o units)
  BY <1>4, <1>5, SentHolds
<1> QED
  BY <1>1, <1>2, <1>3, <1>4, <1>6

(* recv() only moves it. *)
LEMMA ReceivedKeeps ==
  ASSUME NEW link \in Links, NEW n \in 0 .. Len(link.stream)
  PROVE  /\ Received(link, n) \in Links /\ Kept(Received(link, n), link)
         /\ Rest(Received(link, n)) = Rest(link)
<1>1. PICK x, y, nx :
        /\ x \in Seq(Units) /\ x = link.buffer
        /\ y \in Seq(Units) /\ y = link.stream /\ nx = Received(link, n)
  BY DEF Links
<1>2. PICK u, v : u = SubSeq(y, 1, n) /\ v = SubSeq(y, n + 1, Len(y))
  OBVIOUS
<1>3. u \in Seq(Units) /\ v \in Seq(Units) /\ u \o v = y
  BY <1>1, <1>2, Halves
<1>4. nx = [link EXCEPT !.buffer = x \o u, !.stream = v]
  BY <1>1, <1>2 DEF Received, From
<1>5. x \o u \in Seq(Units)
  BY <1>1, <1>3, ConcatProperties
<1>6. nx \in Links /\ Kept(nx, link) /\ nx.buffer = x \o u /\ nx.stream = v
  BY <1>3, <1>4, <1>5 DEF Links, Kept
<1>7. Associate(x, u, v)
  BY <1>1, <1>3, Associated
<1>8. Rest(nx) = Rest(link)
  BY <1>1, <1>3, <1>6, <1>7 DEF Associate, Rest
<1> QED
  BY <1>1, <1>6, <1>8

LEMMA MovedHolds ==
  ASSUME NEW nx, NEW link, NEW units, Rest(nx) = Rest(link), nx.state = link.state,
         Holds(link, units)
  PROVE  Holds(nx, units)
  BY DEF Holds

(* Of what was sent over a connection that ends a part may still come.     *)
LEMMA CutHolds ==
  ASSUME NEW link \in Links, link.state = "up", NEW kept \in 0 .. Len(link.stream)
  PROVE  /\ Cut(link, kept) \in Links /\ Cut(link, kept).state = "cut"
         /\ Cut(link, kept).request = "none" /\ Cut(link, kept).subscribed = FALSE
         /\ Cut(link, kept).value = link.value /\ Cut(link, kept).todo = link.todo
         /\ Spent(link) => Spent(Cut(link, kept))
         /\ \A units : Holds(link, units) => Holds(Cut(link, kept), units)
<1>1. PICK x, y, nx :
        /\ x \in Seq(Units) /\ x = link.buffer
        /\ y \in Seq(Units) /\ y = link.stream /\ nx = Cut(link, kept)
  BY DEF Links
<1>2. PICK u, v : u = SubSeq(y, 1, kept) /\ v = SubSeq(y, kept + 1, Len(y))
  OBVIOUS
<1>3. u \in Seq(Units) /\ v \in Seq(Units) /\ u \o v = y /\ Len(u) = kept
  BY <1>1, <1>2, Halves, SubSeqFirst
<1>4. nx = [link EXCEPT !.state = "cut", !.request = "none", !.subscribed = FALSE, !.stream = u]
  BY <1>1, <1>2 DEF Cut
<1>5. /\ nx \in Links /\ nx.state = "cut" /\ nx.request = "none" /\ nx.subscribed = FALSE
      /\ nx.value = link.value /\ nx.todo = link.todo /\ nx.buffer = x /\ nx.stream = u
  BY <1>1, <1>3, <1>4 DEF Links, Names
<1>6. ASSUME Spent(link) PROVE Spent(nx)
  <2>1. kept = 0 /\ x = <<>>
    BY <1>1, <1>6 DEF Spent
  <2> QED
    BY <1>1, <1>3, <1>5, <2>1 DEF Spent
<1>7. ASSUME NEW units, Holds(link, units) PROVE Holds(nx, units)
  <2>1. x \o y \in Seq(Units) /\ x \o u \in Seq(Units)
    BY <1>1, <1>3, ConcatProperties
  <2>2. x \o y = units
    <3>1. (x \o y) \o <<>> = units
      BY <1>1, <1>7 DEF Holds, Rest
    <3> QED
      BY <2>1, <3>1, ConcatEmptySeq
  <2>3. Associate(x, u, v)
    BY <1>1, <1>3, Associated
  <2>4. (x \o u) \o v = units
    BY <1>3, <2>2, <2>3 DEF Associate
  <2>5. Rest(nx) = x \o u
    BY <1>5 DEF Rest
  <2> QED
    BY <1>3, <1>5, <2>4, <2>5 DEF Holds
<1> QED
  BY <1>1, <1>5, <1>6, <1>7

-----------------------------------------------------------------------------
(* Reading.                                                                *)

LEMMA FrontTaken ==
  ASSUME NEW link \in Links, NEW units \in Seq(Units), NEW more \in Seq(Units), units # <<>>,
         Holds(link, units \o more), link.buffer # <<>>, NEW b,
         b = From(link.buffer, Len(units) + 1)
  PROVE  /\ Head(link.buffer) = units[1]
         /\ Len(units) <= Len(link.buffer) =>
              /\ SubSeq(link.buffer, 1, Len(units)) = units /\ b \in Seq(Units)
              /\ Holds([link EXCEPT !.buffer = b], more)
<1>1. PICK x \in Seq(Units), y \in Seq(Units) : x = link.buffer /\ y = link.stream
  BY DEF Links
<1>2. PICK lost \in Seq(Units) :
        /\ (x \o y) \o lost = units \o more
        /\ link.state = "up" => lost = <<>>
  BY <1>1 DEF Holds, Rest
<1>3. PICK z \in Seq(Units) : z = y \o lost
  BY ConcatProperties
<1>4. Associate(x, y, lost)
  BY Associated
<1>5. x \o z = units \o more
  BY <1>2, <1>3, <1>4 DEF Associate
<1>6. Head(x) = units[1]
  <2>1. PICK c, m, q, n, r :
          c = x \o z /\ m = Len(x) /\ q = Len(z) /\ n = Len(units) /\ r = Len(more)
    OBVIOUS
  <2>2. Joins(c, x, m, z, q) /\ Joins(c, units, n, more, r)
    BY <1>5, <2>1, Joined
  <2>3. 1 \in 1 .. m /\ 1 \in 1 .. n
    BY <1>1, <2>1
  <2>4. c[1] = x[1] /\ c[1] = units[1]
    BY <2>2, <2>3 DEF Joins
  <2>5. x # <<>> /\ Head(x) = x[1]
    BY <1>1
  <2> QED
    BY <2>4, <2>5
<1>7. ASSUME Len(units) <= Len(x)
      PROVE  /\ SubSeq(x, 1, Len(units)) = units /\ b \in Seq(Units)
             /\ Holds([link EXCEPT !.buffer = b], more)
  <2>1. b = SubSeq(x, Len(units) + 1, Len(x))
    BY <1>1 DEF From
  <2>2. SubSeq(x, 1, Len(units)) = units /\ b \in Seq(Units) /\ b \o z = more
    <3>1. Meets(x, z, units, more)
      BY <1>5 DEF Meets
    <3>2. PICK rest \in Seq(Units) : LeavesOf(rest, x, z, units, more)
      BY <1>7, <3>1, Split
    <3> QED
      BY <2>1, <3>2 DEF LeavesOf
  <2>3. Associate(b, y, lost)
    BY <2>2, Associated
  <2>4. (b \o y) \o lost = more
    BY <1>3, <2>2, <2>3 DEF Associate
  <2>5. PICK nx : nx = [link EXCEPT !.buffer = b]
    OBVIOUS
  <2>6. nx.buffer = b /\ nx.stream = y /\ nx.state = link.state
    BY <1>1, <2>5 DEF Links
  <2>7. Holds(nx, more)
    BY <1>2, <2>4, <2>6 DEF Holds, Rest
  <2> QED
    BY <2>2, <2>5, <2>7
<1> QED
  BY <1>1, <1>6, <1>7

LEMMA UnitTyped ==
  ASSUME NEW t \in Tags, NEW n \in Nat
  PROVE  Unit(t, n) \in Units /\ Unit(t, n).t = t /\ Unit(t, n).n = n
  BY DEF Unit, Units

LEMMA LineIs ==
  ASSUME NEW t \in Tags, NEW n \in Nat
  PROVE  /\ Line(t, n) \in Seq(Units) /\ Len(Line(t, n)) = 1
         /\ Line(t, n)[1].t = t /\ Line(t, n)[1].n = n /\ Line(t, n) # <<>>
  BY UnitTyped DEF Line

LEMMA BulkIs ==
  ASSUME NEW p \in Seq(Units)
  PROVE  /\ Bulk(p) \in Seq(Units) /\ Len(Bulk(p)) = Len(p) + 2
         /\ Bulk(p)[1].t = "$" /\ Bulk(p)[1].n = Len(p)
         /\ SubSeq(Bulk(p), 2, Len(Bulk(p)) - 1) = p
<1>1. PICK n, a, c : n = Len(p) /\ a = Line("$", n) /\ c = <<CRLF>>
  OBVIOUS
<1>2. n \in Nat /\ a \in Seq(Units) /\ Len(a) = 1 /\ a[1].t = "$" /\ a[1].n = n
  BY <1>1, LineIs DEF Tags
<1>3. c \in Seq(Units) /\ Len(c) = 1
  BY <1>1, UnitTyped DEF CRLF, Tags
<1>4. PICK d, e : d = a \o p /\ e = d \o c
  OBVIOUS
<1>5. d \in Seq(Units) /\ Joins(d, a, 1, p, n)
  BY <1>1, <1>2, <1>4, Joined
<1>6. PICK m : m = 1 + n
  OBVIOUS
<1>7. Len(d) = m /\ m \in Nat
  BY <1>2, <1>5, <1>6 DEF Joins
<1>8. e \in Seq(Units) /\ Joins(e, d, m, c, 1)
  BY <1>3, <1>4, <1>5, <1>7, Joined
<1>9. Len(e) = n + 2 /\ Bulk(p) = e /\ 1 \in 1 .. m /\ 1 \in 1 .. 1
  BY <1>1, <1>2, <1>4, <1>6, <1>8 DEF Bulk, Joins
<1>10. e[1] = a[1]
  BY <1>5, <1>8, <1>9 DEF Joins
<1>11. SubSeq(e, 2, m) = p
  <2>1. 1 \in 0 .. Len(e) /\ m \in 1 .. Len(e) /\ m - 1 = n /\ 1 + 1 = 2
    BY <1>2, <1>6, <1>9
  <2>2. PICK v : v = SubSeq(e, 1 + 1, m)
    OBVIOUS
  <2>3. v \in Seq(Units) /\ Len(v) = m - 1 /\ \A k \in 1 .. m - 1 : v[k] = e[1 + k]
    BY <1>8, <2>1, <2>2, SubSeqIs
  <2>4. ASSUME NEW k \in 1 .. n PROVE v[k] = p[k]
    <3>1. 1 + k \in 1 .. m /\ k \in 1 .. m - 1
      BY <1>2, <1>6
    <3> QED
      BY <1>5, <1>8, <2>3, <3>1 DEF Joins
  <2>5. v = p
    BY <1>1, <2>1, <2>3, <2>4, SeqSame
  <2> QED
    BY <2>1, <2>2, <2>5
<1>12. Len(e) - 1 = m
  BY <1>2, <1>6, <1>9
<1> QED
  BY <1>1, <1>2, <1>8, <1>9, <1>10, <1>11, <1>12

(* What read_value takes for an element or a value that is no array.       *)
Readable(part, value) ==
  \/ \E p \in Seq(Units) : part = Bulk(p) /\ value = Value("Bulk", p)
  \/ part = Line(":", 1) /\ value = Value("Integer", <<>>)

LEMMA PartRead ==
  ASSUME NEW link \in Links, NEW part, NEW value, Readable(part, value),
         NEW more \in Seq(Units), Holds(link, part \o more), Arrived(link)
  PROVE  \E b \in Seq(Units) :
           /\ ReadOn(link) = Taken([link EXCEPT !.buffer = b], value)
           /\ Holds([link EXCEPT !.buffer = b], more)
<1>1. PICK x \in Seq(Units) : x = link.buffer
  BY DEF Links
<1>2. x # <<>> /\ Extent(x) <= Len(x)
  BY <1>1 DEF Arrived
<1>3. PICK b : b = From(x, Len(part) + 1)
  OBVIOUS
<1>4. CASE \E p \in Seq(Units) : part = Bulk(p) /\ value = Value("Bulk", p)
  <2>1. PICK p \in Seq(Units) : part = Bulk(p) /\ value = Value("Bulk", p)
    BY <1>4
  <2>2. /\ part \in Seq(Units) /\ Len(part) = Len(p) + 2 /\ part # <<>>
        /\ part[1].t = "$" /\ part[1].n = Len(p) /\ SubSeq(part, 2, Len(part) - 1) = p
    <3>1. /\ part \in Seq(Units) /\ Len(part) = Len(p) + 2
          /\ part[1].t = "$" /\ part[1].n = Len(p) /\ SubSeq(part, 2, Len(part) - 1) = p
      BY <2>1, BulkIs
    <3>2. Len(p) \in Nat /\ Len(part) # 0
      BY <3>1
    <3> QED
      BY <3>1, <3>2
  <2>3. /\ Head(x) = part[1]
        /\ Len(part) <= Len(x) => /\ SubSeq(x, 1, Len(part)) = part /\ b \in Seq(Units)
                                  /\ Holds([link EXCEPT !.buffer = b], more)
    BY <1>1, <1>2, <1>3, <2>2, FrontTaken
  <2>4. Extent(x) = Len(part) /\ Head(x).t = "$"
    BY <2>2, <2>3 DEF Extent
  <2>5. SubSeq(x, 1, Extent(x)) = part /\ b \in Seq(Units)
        /\ Holds([link EXCEPT !.buffer = b], more)
    BY <1>2, <2>3, <2>4
  <2>6. Head(part).t = "$"
    BY <2>2
  <2>7. Scalar(part) = value
    BY <2>1, <2>2, <2>6 DEF Scalar
  <2>8. ReadOn(link) = Taken([link EXCEPT !.buffer = b], value)
    BY <1>1, <1>3, <2>4, <2>5, <2>7 DEF ReadOn
  <2> QED
    BY <2>5, <2>8
<1>5. CASE part = Line(":", 1) /\ value = Value("Integer", <<>>)
  <2>1. /\ part \in Seq(Units) /\ Len(part) = 1 /\ part # <<>> /\ part[1].t = ":"
    BY <1>5, LineIs DEF Tags
  <2>2. /\ Head(x) = part[1]
        /\ Len(part) <= Len(x) => /\ SubSeq(x, 1, Len(part)) = part /\ b \in Seq(Units)
                                  /\ Holds([link EXCEPT !.buffer = b], more)
    BY <1>1, <1>2, <1>3, <2>1, FrontTaken
  <2>3. Extent(x) = Len(part) /\ Head(x).t = ":"
    BY <2>1, <2>2 DEF Extent
  <2>4. SubSeq(x, 1, Extent(x)) = part /\ b \in Seq(Units)
        /\ Holds([link EXCEPT !.buffer = b], more)
    BY <1>2, <2>2, <2>3
  <2>5. Head(part).t = ":"
    BY <2>1
  <2>6. Scalar(part) = value
    BY <1>5, <2>5 DEF Scalar
  <2>7. ReadOn(link) = Taken([link EXCEPT !.buffer = b], value)
    BY <1>1, <1>3, <2>3, <2>4, <2>6 DEF ReadOn
  <2> QED
    BY <2>4, <2>7
<1> QED
  BY <1>4, <1>5 DEF Readable

LEMMA HeadRead ==
  ASSUME NEW link \in Links, NEW n \in Nat, NEW more \in Seq(Units),
         Holds(link, Line("*", n) \o more), Arrived(link)
  PROVE  \E b \in Seq(Units) :
           /\ ReadOn(link) = [link EXCEPT !.buffer = b, !.value = Value("Array", <<>>), !.todo = n]
           /\ Holds([link EXCEPT !.buffer = b], more)
<1>1. PICK x \in Seq(Units) : x = link.buffer
  BY DEF Links
<1>2. x # <<>> /\ Extent(x) <= Len(x)
  BY <1>1 DEF Arrived
<1>3. PICK part, b : part = Line("*", n) /\ b = From(x, Len(part) + 1)
  OBVIOUS
<1>4. part \in Seq(Units) /\ Len(part) = 1 /\ part # <<>> /\ part[1].t = "*" /\ part[1].n = n
  BY <1>3, LineIs DEF Tags
<1>5. /\ Head(x) = part[1]
      /\ Len(part) <= Len(x) => /\ SubSeq(x, 1, Len(part)) = part /\ b \in Seq(Units)
                                /\ Holds([link EXCEPT !.buffer = b], more)
  BY <1>1, <1>2, <1>3, <1>4, FrontTaken
<1>6. Extent(x) = 1 /\ Head(x).t = "*" /\ Head(x).n = n
  BY <1>4, <1>5 DEF Extent
<1>7. b \in Seq(Units) /\ Holds([link EXCEPT !.buffer = b], more)
  BY <1>2, <1>4, <1>5, <1>6
<1>8. ReadOn(link) = [[link EXCEPT !.buffer = b] EXCEPT !.value = Value("Array", <<>>), !.todo = n]
  BY <1>1, <1>3, <1>4, <1>6 DEF ReadOn
<1>9. ReadOn(link) = [link EXCEPT !.buffer = b, !.value = Value("Array", <<>>), !.todo = n]
  BY <1>8
<1> QED
  BY <1>7, <1>9

-----------------------------------------------------------------------------
(* Arrays.                                                                 *)

Later(s, k) == SubSeq(s, k + 1, Len(s))

IsLater(r, s, k, m) == Len(r) = m /\ \A i \in 1 .. m : r[i] = s[k + i]

LEMMA LaterIs ==
  ASSUME NEW S, NEW s \in Seq(S), NEW k \in 0 .. Len(s), NEW m, m = Len(s) - k
  PROVE  Later(s, k) \in Seq(S) /\ IsLater(Later(s, k), s, k, m)
<1>1. Len(s) \in k .. Len(s)
  OBVIOUS
<1>2. /\ Later(s, k) \in Seq(S) /\ Len(Later(s, k)) = Len(s) - k
      /\ \A i \in 1 .. Len(s) - k : Later(s, k)[i] = s[k + i]
  BY <1>1, SubSeqIs DEF Later
<1> QED
  BY <1>2 DEF IsLater

LEMMA LaterAll ==
  ASSUME NEW S, NEW s \in Seq(S)
  PROVE  Later(s, 0) = s
<1>1. PICK r, n : r = Later(s, 0) /\ n = Len(s)
  OBVIOUS
<1>2. 0 \in 0 .. n /\ n - 0 = n /\ \A i \in 1 .. n : 0 + i = i
  BY <1>1
<1>3. r \in Seq(S) /\ IsLater(r, s, 0, n)
  BY <1>1, <1>2, LaterIs
<1>4. r = s
  BY <1>1, <1>2, <1>3, SeqSame DEF IsLater
<1> QED
  BY <1>1, <1>4

LEMMA LaterNone ==
  ASSUME NEW S, NEW s \in Seq(S)
  PROVE  Later(s, Len(s)) = <<>>
<1>1. PICK r, n : r = Later(s, n) /\ n = Len(s)
  OBVIOUS
<1>2. n \in 0 .. n /\ n - n = 0
  BY <1>1
<1>3. r \in Seq(S) /\ IsLater(r, s, n, 0)
  BY <1>1, <1>2, LaterIs
<1> QED
  BY <1>1, <1>3 DEF IsLater

TakesOff(r, s, S, k) ==
  /\ r \in Seq(S) /\ Len(r) > 0 /\ r[1] = s[k + 1] /\ r[1] \in S
  /\ SubSeq(r, 2, Len(r)) = Later(s, k + 1)

LEMMA LaterNext ==
  ASSUME NEW S, NEW s \in Seq(S), NEW k \in 0 .. Len(s), k # Len(s)
  PROVE  TakesOff(Later(s, k), s, S, k)
<1>0. PICK r : r = Later(s, k)
  OBVIOUS
<1>1. PICK n, m, j : n = Len(s) /\ m = n - k /\ j = k + 1
  OBVIOUS
<1>2. n \in Nat /\ m \in Nat /\ m > 0 /\ j \in 0 .. n /\ n - j = m - 1 /\ k \in Nat
  BY <1>1
<1>3. r \in Seq(S) /\ Len(r) = m /\ \A i \in 1 .. m : r[i] = s[k + i]
  <2>1. r \in Seq(S) /\ IsLater(r, s, k, m)
    BY <1>0, <1>1, LaterIs
  <2> QED
    BY <2>1 DEF IsLater
<1>4. r[1] = s[j] /\ r[1] \in S
  <2>1. 1 \in 1 .. m
    BY <1>2
  <2> QED
    BY <1>1, <1>3, <2>1
<1>5. PICK u, v : u = SubSeq(r, 2, m) /\ v = Later(s, j)
  OBVIOUS
<1>6. v \in Seq(S) /\ Len(v) = m - 1 /\ \A i \in 1 .. m - 1 : v[i] = s[j + i]
  <2>1. PICK q : q = m - 1
    OBVIOUS
  <2>2. j \in 0 .. Len(s) /\ q = Len(s) - j
    BY <1>1, <1>2, <2>1
  <2>3. v \in Seq(S) /\ IsLater(v, s, j, q)
    BY <1>5, <2>2, LaterIs
  <2> QED
    BY <2>1, <2>3 DEF IsLater
<1>7. u \in Seq(S) /\ Len(u) = m - 1 /\ \A i \in 1 .. m - 1 : u[i] = r[1 + i]
  <2>1. 1 \in 0 .. m /\ m \in 1 .. m /\ 1 + 1 = 2
    BY <1>2
  <2>2. PICK w : w = SubSeq(r, 1 + 1, m)
    OBVIOUS
  <2>3. w \in Seq(S) /\ Len(w) = m - 1 /\ \A i \in 1 .. m - 1 : w[i] = r[1 + i]
    BY <1>3, <2>1, <2>2, SubSeqIs, SMTT(30)
  <2> QED
    BY <1>5, <2>1, <2>2, <2>3
<1>8. ASSUME NEW i \in 1 .. m - 1 PROVE u[i] = v[i]
  <2>1. PICK h : h = 1 + i
    OBVIOUS
  <2>2. h \in 1 .. m /\ k + h = j + i
    BY <1>1, <1>2, <2>1
  <2> QED
    BY <1>3, <1>6, <1>7, <2>1, <2>2
<1>9. u = v
  BY <1>6, <1>7, <1>8, SeqSame
<1> QED
  BY <1>0, <1>1, <1>2, <1>3, <1>4, <1>5, <1>9 DEF TakesOff

(* A part of an array, and what it is read as. *)
Matched(parts, values) ==
  /\ parts \in Seq(Seq(Units))
  /\ \A i \in 1 .. Len(parts) : Readable(parts[i], values[i])

(* Of an array with these parts some have been read, the others, and what  *)
(* follows the array, are on their way.                                    *)
InArray(link, parts, values, more) ==
  /\ link.value.type = "Array" /\ link.value.bulk = <<>>
  /\ Len(link.value.array) + link.todo = Len(parts)
  /\ \A i \in 1 .. Len(link.value.array) : link.value.array[i] = values[i]
  /\ Holds(link, FlattenSeq(Later(parts, Len(link.value.array))) \o more)

(* The connection itself is as it was. *)
Stays(nx, link) ==
  nx.state = link.state /\ nx.request = link.request /\ nx.subscribed = link.subscribed

LEMMA ReadableTyped ==
  ASSUME NEW part, NEW value, Readable(part, value)
  PROVE  part \in Seq(Units) /\ value \in Scalars
<1>1. CASE \E p \in Seq(Units) : part = Bulk(p) /\ value = Value("Bulk", p)
  BY <1>1, BulkIs DEF Value, Scalars
<1>2. CASE part = Line(":", 1) /\ value = Value("Integer", <<>>)
  BY <1>2, LineIs DEF Value, Scalars, Tags
<1> QED
  BY <1>1, <1>2 DEF Readable

WithArray(v, a) == [v EXCEPT !.array = a]

LEMMA ArrayOf ==
  ASSUME NEW v \in Values, NEW a \in Seq(Scalars)
  PROVE  /\ WithArray(v, a) \in Values /\ WithArray(v, a).type = v.type
         /\ WithArray(v, a).bulk = v.bulk /\ WithArray(v, a).array = a
<1>0. PICK w : w = [v EXCEPT !.array = a]
  OBVIOUS
<1>1. PICK S : S = Seq(Scalars)
  OBVIOUS
<1>2. v \in [type : {"none", "Bulk", "Integer", "Error", "Array"}, bulk : Seq(Units), array : S]
      /\ a \in S
  BY <1>1 DEF Values
<1>3. w \in [type : {"none", "Bulk", "Integer", "Error", "Array"}, bulk : Seq(Units), array : S]
  BY <1>0, <1>2
<1>4. w.type = v.type /\ w.bulk = v.bulk /\ w.array = a
  BY <1>0, <1>2
<1>5. w = WithArray(v, a)
  BY <1>0 DEF WithArray
<1> QED
  BY <1>1, <1>3, <1>4, <1>5 DEF Values

LEMMA Counted ==
  ASSUME NEW n \in Nat, NEW k \in Nat, NEW t \in Nat, k + t = n, t # 0
  PROVE  /\ k \in 0 .. n /\ k # n /\ k + 1 \in 1 .. n /\ k + 1 \in 0 .. n /\ t - 1 \in Nat
         /\ (k + 1) + (t - 1) = n
  OBVIOUS

LEMMA ArrayBegins ==
  ASSUME NEW link \in Links, NEW parts, NEW values, Matched(parts, values),
         NEW more \in Seq(Units), Holds(link, Array(parts) \o more), Arrived(link),
         NEW nx, nx = ReadOn(link)
  PROVE  nx \in Links /\ Stays(nx, link) /\ InArray(nx, parts, values, more)
<1>1. PICK n, a, f : n = Len(parts) /\ a = Line("*", n) /\ f = FlattenSeq(parts)
  OBVIOUS
<1>2. parts \in Seq(Seq(Units)) /\ n \in Nat
  BY <1>1 DEF Matched
<1>3. a \in Seq(Units) /\ f \in Seq(Units)
  BY <1>1, <1>2, LineIs, FlatTyped DEF Tags
<1>4. PICK m \in Seq(Units) : m = f \o more
  BY <1>3, ConcatProperties
<1>5. Associate(a, f, more)
  BY <1>3, Associated
<1>6. Holds(link, Line("*", n) \o m)
  BY <1>1, <1>4, <1>5 DEF Associate, Array
<1>7. PICK b \in Seq(Units) :
        /\ nx = [link EXCEPT !.buffer = b, !.value = Value("Array", <<>>), !.todo = n]
        /\ Holds([link EXCEPT !.buffer = b], m)
  BY <1>2, <1>6, HeadRead
<1>8. Value("Array", <<>>) \in Values /\ Value("Array", <<>>).type = "Array"
      /\ Value("Array", <<>>).array = <<>> /\ Value("Array", <<>>).bulk = <<>>
  BY DEF Value, Values
<1>9. /\ nx \in Links /\ Stays(nx, link) /\ nx.value = Value("Array", <<>>) /\ nx.todo = n
      /\ nx.buffer = b /\ nx.stream = link.stream
  BY <1>2, <1>7, <1>8 DEF Links, Stays
<1>10. Holds(nx, m)
  <2>1. PICK l : l = [link EXCEPT !.buffer = b]
    OBVIOUS
  <2>2. l.buffer = b /\ l.stream = link.stream /\ l.state = link.state
    BY <2>1 DEF Links
  <2> QED
    BY <1>7, <1>9, <2>1, <2>2 DEF Holds, Rest, Stays
<1>11. Later(parts, 0) = parts /\ Len(<<>>) = 0
  BY <1>2, LaterAll
<1>12. Len(nx.value.array) = 0 /\ nx.value.type = "Array" /\ nx.value.bulk = <<>>
  BY <1>8, <1>9
<1> QED
  BY <1>1, <1>2, <1>4, <1>9, <1>10, <1>11, <1>12 DEF InArray

LEMMA ArrayGoesOn ==
  ASSUME NEW link \in Links, NEW parts, NEW values, Matched(parts, values),
         NEW more \in Seq(Units), InArray(link, parts, values, more), link.todo # 0,
         Arrived(link), NEW nx, nx = ReadOn(link)
  PROVE  nx \in Links /\ Stays(nx, link) /\ InArray(nx, parts, values, more)
<1>1. PICK n, v, read, k, i :
        n = Len(parts) /\ v = link.value /\ read = v.array /\ k = Len(read) /\ i = k + 1
  OBVIOUS
<1>2. /\ parts \in Seq(Seq(Units)) /\ v \in Values /\ read \in Seq(Scalars) /\ k \in Nat
      /\ n \in Nat /\ link.todo \in Nat
  BY <1>1 DEF Matched, Links, Values
<1>3. /\ v.type = "Array" /\ v.bulk = <<>> /\ k + link.todo = n
      /\ \A j \in 1 .. k : read[j] = values[j]
      /\ Holds(link, FlattenSeq(Later(parts, k)) \o more)
  BY <1>1 DEF InArray
<1>4. k \in 0 .. n /\ k # n /\ i \in 1 .. n /\ i \in 0 .. n /\ link.todo - 1 \in Nat
      /\ i + (link.todo - 1) = n
  <2>1. PICK t : t = link.todo
    OBVIOUS
  <2>2. k \in Nat /\ n \in Nat /\ t \in Nat /\ k + t = n /\ t # 0
    BY <1>2, <1>3, <2>1
  <2>3. /\ k \in 0 .. n /\ k # n /\ k + 1 \in 1 .. n /\ k + 1 \in 0 .. n /\ t - 1 \in Nat
        /\ (k + 1) + (t - 1) = n
    BY <2>2, Counted
  <2> QED
    BY <1>1, <2>1, <2>3
<1>5. PICK r, u : r = Later(parts, k) /\ u = Later(parts, i)
  OBVIOUS
<1>6. r \in Seq(Seq(Units)) /\ Len(r) > 0 /\ r[1] = parts[i] /\ SubSeq(r, 2, Len(r)) = u
  <2>1. k \in 0 .. Len(parts) /\ k # Len(parts)
    BY <1>1, <1>4
  <2>2. TakesOff(r, parts, Seq(Units), k)
    BY <1>2, <1>5, <2>1, LaterNext
  <2> QED
    BY <1>1, <1>5, <2>2 DEF TakesOff
<1>7. u \in Seq(Seq(Units))
  <2>1. i \in 0 .. Len(parts)
    BY <1>1, <1>4
  <2> QED
    BY <1>2, <1>5, <2>1, LaterIs
<1>8. PICK f : f = FlattenSeq(u)
  OBVIOUS
<1>9. FlattenSeq(r) = parts[i] \o f /\ f \in Seq(Units)
  BY <1>6, <1>7, <1>8, FlatFirst, FlatTyped
<1>10. PICK part, value : part = parts[i] /\ value = values[i]
  OBVIOUS
<1>11. Readable(part, value) /\ part \in Seq(Units) /\ value \in Scalars
  <2>1. Readable(part, value)
    BY <1>1, <1>4, <1>10 DEF Matched
  <2> QED
    BY <2>1, ReadableTyped
<1>12. PICK m \in Seq(Units) : m = f \o more
  BY <1>9, ConcatProperties
<1>13. Associate(part, f, more)
  BY <1>9, <1>11, Associated
<1>14. Holds(link, part \o m)
  BY <1>3, <1>5, <1>9, <1>10, <1>12, <1>13 DEF Associate
<1>15. PICK b \in Seq(Units) : /\ nx = Taken([link EXCEPT !.buffer = b], value)
                               /\ Holds([link EXCEPT !.buffer = b], m)
  BY <1>11, <1>14, PartRead
<1>16. PICK l : l = [link EXCEPT !.buffer = b]
  OBVIOUS
<1>17. /\ l \in Links /\ l.buffer = b /\ l.value = v /\ l.todo = link.todo
       /\ l.stream = link.stream /\ Stays(l, link)
  BY <1>1, <1>16 DEF Links, Stays
<1>18. v # NoValue
  BY <1>3 DEF NoValue, Value
<1>19. nx = [l EXCEPT !.value.array = Append(@, value), !.todo = @ - 1]
  BY <1>15, <1>16, <1>17, <1>18 DEF Taken
<1>20. PICK more2, w : more2 = Append(read, value) /\ w = WithArray(v, more2)
  OBVIOUS
<1>21. more2 \in Seq(Scalars) /\ w \in Values /\ w.type = "Array" /\ w.bulk = <<>>
       /\ w.array = more2
  <2>1. more2 \in Seq(Scalars)
    BY <1>2, <1>11, <1>20
  <2>2. w \in Values /\ w.type = v.type /\ w.bulk = v.bulk /\ w.array = more2
    BY <1>2, <1>20, <2>1, ArrayOf
  <2> QED
    BY <1>3, <2>1, <2>2
<1>22. nx = [l EXCEPT !.value = w, !.todo = link.todo - 1]
  BY <1>1, <1>17, <1>19, <1>20 DEF Links, Values, WithArray
<1>23. /\ nx \in Links /\ Stays(nx, link) /\ nx.value = w /\ nx.todo = link.todo - 1
       /\ nx.buffer = b /\ nx.stream = link.stream
  BY <1>4, <1>17, <1>21, <1>22 DEF Links, Stays
<1>24. Len(more2) = i /\ \A j \in 1 .. i : more2[j] = values[j]
  <2>1. Len(more2) = i /\ more2[i] = value /\ \A j \in 1 .. k : more2[j] = read[j]
    BY <1>1, <1>2, <1>20
  <2>2. \A j \in 1 .. i : j = i \/ j \in 1 .. k
    BY <1>1, <1>2
  <2> QED
    BY <1>3, <1>10, <2>1, <2>2
<1>25. Holds(nx, m)
  <2>1. l.state = nx.state /\ Rest(nx) = Rest(l)
    BY <1>17, <1>23 DEF Stays, Rest
  <2> QED
    BY <1>15, <1>16, <2>1 DEF Holds
<1> QED
  BY <1>1, <1>4, <1>5, <1>8, <1>12, <1>21, <1>23, <1>24, <1>25 DEF InArray

(* An array that is read to its end. *)
LEMMA ArrayEnds ==
  ASSUME NEW link \in Links, NEW parts \in Seq(Seq(Units)), NEW values,
         NEW more \in Seq(Units), InArray(link, parts, values, more), link.todo = 0
  PROVE  /\ Holds(link, more) /\ Len(link.value.array) = Len(parts)
         /\ \A i \in 1 .. Len(parts) : link.value.array[i] = values[i]
<1>1. PICK k : k = Len(link.value.array)
  OBVIOUS
<1>2. k = Len(parts)
  <2>1. link.value.array \in Seq(Scalars)
    BY DEF Links, Values
  <2>2. k \in Nat /\ k + 0 = Len(parts)
    BY <1>1, <2>1 DEF InArray
  <2> QED
    BY <2>2
<1>3. FlattenSeq(Later(parts, k)) \o more = more
  BY <1>2, LaterNone, FlatNone, ConcatEmptySeq
<1> QED
  BY <1>1, <1>2, <1>3 DEF InArray

(* The connection ended before the next line or string was there.          *)
Broken(nx) ==
  nx.state = "down" /\ nx.request = "none" /\ nx.subscribed = FALSE /\ Spent(nx)

LEMMA ReadEnds ==
  ASSUME NEW link \in Links, CanRead(link), ~Arrived(link), NEW nx, nx = ReadOn(link)
  PROVE  /\ nx \in Links /\ Broken(nx)
         /\ link.value = NoValue => nx.value = ErrorValue /\ nx.todo = link.todo
         /\ link.value # NoValue =>
              /\ nx.value = [link.value EXCEPT !.array = Append(@, ErrorValue)]
              /\ nx.todo = link.todo - 1 /\ link.todo # 0
<1>1. PICK l, v : l = Disconnect(link) /\ v = link.value
  OBVIOUS
<1>2. v \in Values /\ link.todo \in Nat
  BY <1>1 DEF Links
<1>3. NoValue \in Values /\ ErrorValue \in Values /\ ErrorValue \in Scalars
  BY DEF NoValue, ErrorValue, Value, Values, Scalars
<1>4. l = [state |-> "down", request |-> "none", subscribed |-> FALSE, stream |-> <<>>,
           buffer |-> <<>>, value |-> v, todo |-> link.todo]
  BY <1>1 DEF Disconnect, Disconnected
<1>5. l \in Links /\ l.value = v /\ l.todo = link.todo /\ Broken(l)
  BY <1>2, <1>4 DEF Links, Names, Broken, Spent
<1>6. nx = Taken(l, ErrorValue)
  BY <1>1 DEF ReadOn
<1>7. CASE v = NoValue
  <2>1. nx = [l EXCEPT !.value = ErrorValue]
    BY <1>5, <1>6, <1>7 DEF Taken
  <2>2. nx \in Links /\ nx.value = ErrorValue /\ nx.todo = link.todo /\ Broken(nx)
    BY <1>3, <1>5, <2>1 DEF Links, Broken, Spent
  <2> QED
    BY <1>1, <1>7, <2>2
<1>8. CASE v # NoValue
  <2>1. link.todo # 0 /\ link.todo - 1 \in Nat
    BY <1>1, <1>2, <1>8 DEF CanRead, Answered
  <2>2. nx = [l EXCEPT !.value.array = Append(@, ErrorValue), !.todo = @ - 1]
    BY <1>5, <1>6, <1>8 DEF Taken
  <2>3. PICK w : w = [v EXCEPT !.array = Append(@, ErrorValue)]
    OBVIOUS
  <2>4. w \in Values
    <3>1. PICK a : a = Append(v.array, ErrorValue)
      OBVIOUS
    <3>2. v.array \in Seq(Scalars)
      BY <1>2 DEF Values
    <3>3. a \in Seq(Scalars)
      BY <1>3, <3>1, <3>2
    <3>4. w = WithArray(v, a)
      BY <2>3, <3>1 DEF WithArray
    <3> QED
      BY <1>2, <3>3, <3>4, ArrayOf
  <2>5. nx = [l EXCEPT !.value = w, !.todo = link.todo - 1]
    BY <1>5, <2>2, <2>3 DEF Links, Values
  <2>6. nx \in Links /\ nx.value = w /\ nx.todo = link.todo - 1 /\ Broken(nx)
    BY <1>5, <2>1, <2>4, <2>5 DEF Links, Broken, Spent
  <2> QED
    BY <1>1, <1>8, <2>1, <2>3, <2>6
<1> QED
  BY <1>7, <1>8

-----------------------------------------------------------------------------
(* What the invariants say of a connection.                                *)

(* Nothing of these units has been read.                                   *)
Telling(link, units) ==
  /\ link.request = "none" /\ link.value = NoValue /\ link.todo = 0
  /\ Holds(link, units)

(* The connection ended before a reply or a message began.                 *)
Lost(link) == Broken(link) /\ link.value = ErrorValue /\ link.todo = 0

(* It ended within an array: the elements after the first are errors.      *)
Torn(link, values, n) ==
  /\ Broken(link) /\ link.value.type = "Array" /\ link.value.bulk = <<>>
  /\ Len(link.value.array) + link.todo = n
  /\ \E k \in 0 .. n - 1 :
       /\ k < Len(link.value.array)
       /\ \A i \in 1 .. Len(link.value.array) :
            link.value.array[i] = IF i <= k THEN values[i] ELSE ErrorValue

(* A string is awaited and has been sent, an array has.                    *)
Fetching(link, p) ==
  \/ Telling(link, Bulk(p))
  \/ /\ link.request = "none" /\ link.value = Value("Bulk", p) /\ link.todo = 0
     /\ Spent(link)
  \/ Lost(link)

Reading(link, parts, values, more) ==
  \/ Telling(link, Array(parts) \o more)
  \/ link.request = "none" /\ InArray(link, parts, values, more)
  \/ Torn(link, values, Len(parts))
  \/ Lost(link)

(* A command is on its way; nothing is; there is no connection any more.   *)
Waits(link, name) ==
  /\ link.state = "up" /\ link.request = name /\ Spent(link)
  /\ link.value = NoValue /\ link.todo = 0
Idle(link) ==
  link.request = "none" /\ Spent(link) /\ link.value = NoValue /\ link.todo = 0
Failing(link) == link.state # "up" /\ (Idle(link) \/ Lost(link))

Strings(ps) == [i \in DOMAIN ps |-> Bulk(ps[i])]
StringValues(ps) == [i \in DOMAIN ps |-> Value("Bulk", ps[i])]

-----------------------------------------------------------------------------
(* The invariant of calls.                                                 *)

Calls == [kind : {"none", "since", "commit"},
          pc : {"idle", "content", "revision", "history", "commit"},
          from : Nat, revision : Nat, content : Seq(Units), over : Seq(Seq(Units)),
          served : Nat, own : Nat]
Entries == [from : Nat, content : Seq(Units), over : Seq(Seq(Units))]

CallTyped ==
  /\ client \in Links /\ call \in Calls /\ history \in Seq(Entries)
  /\ call.from <= Len(history)
  /\ call.pc = "idle" => call = NoCall /\ Idle(client)
  /\ call.pc \in {"content", "revision", "commit"} => call.kind = "commit"
  /\ call.pc = "history" => call.kind \in {"since", "commit"}
  /\ call.pc \in {"content", "revision"} => call.over = <<>>
  /\ stopping # "no" => call.pc = "idle"

(* The reply to the command waited for.                                    *)
Replied ==
  \/ call.pc = "content" /\ Fetching(client, Content(Len(history)))
  \/ call.pc = "revision" /\ Fetching(client, <<Unit("number", Len(history))>>)
  \/ /\ call.pc = "history" /\ (call.kind = "commit" => call.served = Len(history))
     /\ LET ps == Payloads(call.from, call.served)
        IN  Reading(client, Strings(ps), StringValues(ps), <<>>)
  \/ call.pc = "commit" /\ call.own \in 1 .. Len(history) /\ Fetching(client, Payload(call.own))

Underway == call.pc # "idle" => Waits(client, call.pc) \/ Failing(client) \/ Replied

(* As long as the connection lasts, what a commit has read is right.       *)
ReadSoFar ==
  call.kind = "commit" /\ client.state = "up" =>
    /\ call.pc \in {"revision", "history"} => call.content = Content(Len(history))
    /\ call.pc = "history" => call.revision = Len(history) /\ call.from < call.revision
    /\ client.request = "commit" =>
         /\ call.content = Content(Len(history))
         /\ \/ call.over = Payloads(call.from, Len(history))
            \/ call.from = Len(history) /\ call.over = <<>>

CallInv == CallTyped /\ Underway /\ ReadSoFar /\ CommitsSawAll /\ AnswersMatch

-----------------------------------------------------------------------------
(* The invariant of the subscriber.                                        *)

Parts(kind, last) == <<Bulk(<<Unit(kind, 0)>>), Bulk(<<Unit("channel", 0)>>), last>>
PartValues(kind, last) ==
  <<Value("Bulk", <<Unit(kind, 0)>>), Value("Bulk", <<Unit("channel", 0)>>), last>>
Pushes(ms) == FlattenSeq([i \in DOMAIN ms |-> Push("message", Bulk(ms[i]))])

(* These messages tell of the operations after `from', up to `to', in      *)
(* order: c[j] is the last of which the first j of them tell.              *)
Counts(c, ms, from, to) ==
  /\ c[0] = from /\ c[Len(ms)] = to
  /\ \A j \in 1 .. Len(ms) :
       \/ ms[j] = Shutdown /\ c[j] = c[j - 1]
       \/ c[j] = c[j - 1] + 1 /\ ms[j] = Payload(c[j])
Announces(ms, from, to) == \E c \in [0 .. Len(ms) -> 0 .. to] : Counts(c, ms, from, to)

(* This subscription has delivered, after `before' operations that earlier *)
(* ones had, the `done' operations that followed it; the messages go on    *)
(* from there, up to the last operation if the subscription lasts.         *)
Follows(ms, before, done, last) ==
  /\ Len(delivered) = before + done /\ last <= Len(history)
  /\ sub.subscribed => last = Len(history)
  /\ \A k \in 1 .. before : \E i \in 1 .. since : delivered[k] = Payload(i)
  /\ \A k \in 1 .. done : delivered[before + k] = Payload(since + k)
  /\ Announces(ms, since + done, last)

Told(ms) == \E before \in Nat, done \in Nat, last \in Nat : Follows(ms, before, done, last)

AtRest == {"start", "recover", "loop", "ended", "sleep"}
InStep(ms) ==
  \/ listening \in {"first", "again"} /\ Waits(sub, "subscribe") /\ ms = <<>>
  \/ /\ listening \in {"first", "again"}
     /\ Reading(sub, Parts("subscribe", Line(":", 1)),
                PartValues("subscribe", Value("Integer", <<>>)), Pushes(ms))
  \/ listening \in AtRest /\ Telling(sub, Pushes(ms))
  \/ listening = "message" /\ ms = <<>> /\ (Telling(sub, <<>>) \/ Lost(sub))
  \/ /\ listening = "message" /\ ms # <<>>
     /\ Reading(sub, Parts("message", Bulk(Head(ms))),
                PartValues("message", Value("Bulk", Head(ms))), Pushes(Tail(ms)))

SubTyped ==
  /\ sub \in Links /\ history \in Seq(Entries) /\ delivered \in Seq(Seq(Units)) /\ since \in Nat
  /\ listening \in AtRest \cup {"first", "again", "message"}
  /\ sub.subscribed => sub.state = "up" /\ sub.request = "none"
  /\ since <= Len(history)

InOrder ==
  /\ \A k \in DOMAIN delivered : delivered[k] \in { Payload(i) : i \in DOMAIN history }
  /\ \A j, k \in DOMAIN delivered : j < k => delivered[j][1].n < delivered[k][1].n

SubInv ==
  SubTyped /\ InOrder /\ \E ms \in Seq(Seq(Units)) : Told(ms) /\ InStep(ms)
-----------------------------------------------------------------------------
(* What connections do with that.                                          *)

(* The connection is as it was, or has ended.                              *)
Fades(nx, link) ==
  \/ Stays(nx, link)
  \/ nx.state # "up" /\ nx.request = "none" /\ nx.subscribed = FALSE

(* Units arrive, or the connection is cut.                                 *)
Carried(nx, link) ==
  /\ nx \in Links /\ Fades(nx, link) /\ nx.value = link.value /\ nx.todo = link.todo
  /\ link.state # "up" => Stays(nx, link)
  /\ Spent(link) => Spent(nx)
  /\ \A units : Holds(link, units) => Holds(nx, units)

LEMMA ReceivedCarries ==
  ASSUME NEW link \in Links, NEW n \in 0 .. Len(link.stream)
  PROVE  Carried(Received(link, n), link)
<1>1. PICK nx : nx = Received(link, n)
  OBVIOUS
<1>2. nx \in Links /\ Kept(nx, link) /\ Rest(nx) = Rest(link)
  BY <1>1, ReceivedKeeps
<1>3. /\ Stays(nx, link) /\ nx.value = link.value /\ nx.todo = link.todo
      /\ nx.state = link.state
  BY <1>2 DEF Kept, Stays
<1>4. \A units : Holds(link, units) => Holds(nx, units)
  BY <1>2, <1>3, MovedHolds
<1>5. ASSUME Spent(link) PROVE Spent(nx)
  <2>1. Holds(nx, <<>>)
    BY <1>4, <1>5, SpentHolds
  <2> QED
    BY <1>2, <2>1, HoldsNothing
<1> QED
  BY <1>1, <1>2, <1>3, <1>4, <1>5 DEF Carried, Fades

LEMMA CutCarries ==
  ASSUME NEW link \in Links, NEW kept \in 0 .. Len(link.stream)
  PROVE  Carried(Cut(link, kept), link)
<1>1. CASE link.state = "up"
  <2>1. PICK nx : nx = Cut(link, kept)
    OBVIOUS
  <2>2. /\ nx \in Links /\ nx.state = "cut" /\ nx.request = "none" /\ nx.subscribed = FALSE
        /\ nx.value = link.value /\ nx.todo = link.todo
        /\ Spent(link) => Spent(nx)
        /\ \A units : Holds(link, units) => Holds(nx, units)
    BY <1>1, <2>1, CutHolds
  <2> QED
    BY <1>1, <2>1, <2>2 DEF Carried, Fades
<1>2. CASE link.state # "up"
  <2>1. Cut(link, kept) = link
    BY <1>2 DEF Cut
  <2>2. Stays(link, link)
    BY DEF Stays
  <2> QED
    BY <2>1, <2>2 DEF Carried, Fades
<1> QED
  BY <1>1, <1>2

LEMMA IdleTells ==
  ASSUME NEW link \in Links
  PROVE  Idle(link) <=> Telling(link, <<>>)
  BY HoldsNothing, SpentHolds DEF Idle, Telling

(* Nothing is lost that is still expected of a connection that has ended.  *)
LEMMA EndedHolds ==
  ASSUME NEW link \in Links, NEW units \in Seq(Units), link.state # "up", Spent(link)
  PROVE  Holds(link, units)
<1>1. Rest(link) = <<>>
  <2>1. <<>> \in Seq(Units) /\ <<>> \o <<>> = <<>>
    BY ConcatEmptySeq
  <2> QED
    BY <2>1 DEF Spent, Rest
<1>2. Rest(link) \o units = units
  BY <1>1, ConcatEmptySeq
<1> QED
  BY <1>2 DEF Holds

LEMMA EndedTells ==
  ASSUME NEW link \in Links, NEW units \in Seq(Units), link.state # "up", Idle(link)
  PROVE  Telling(link, units)
  BY EndedHolds DEF Idle, Telling

LEMMA LostCarried ==
  ASSUME NEW nx, NEW link, Carried(nx, link), Lost(link)
  PROVE  Lost(nx)
  BY DEF Carried, Lost, Broken, Stays

LEMMA TornCarried ==
  ASSUME NEW nx, NEW link, NEW values, NEW n, Carried(nx, link), Torn(link, values, n)
  PROVE  Torn(nx, values, n)
<1>1. link.state = "down" /\ Broken(link)
  BY DEF Torn, Broken
<1>2. Broken(nx) /\ nx.value = link.value /\ nx.todo = link.todo
  BY <1>1 DEF Carried, Broken, Stays
<1> QED
  BY <1>2 DEF Torn

LEMMA TellingCarried ==
  ASSUME NEW nx, NEW link, NEW units, Carried(nx, link), Telling(link, units)
  PROVE  Telling(nx, units)
<1>1. nx.request = "none"
  BY DEF Carried, Telling, Fades, Stays
<1> QED
  BY <1>1 DEF Carried, Telling

LEMMA InArrayCarried ==
  ASSUME NEW nx, NEW link, NEW parts, NEW values, NEW more, Carried(nx, link),
         InArray(link, parts, values, more), link.request = "none"
  PROVE  InArray(nx, parts, values, more) /\ nx.request = "none"
<1>1. nx.request = "none"
  BY DEF Carried, Fades, Stays
<1>2. nx.value = link.value /\ nx.todo = link.todo
  BY DEF Carried
<1>3. Holds(nx, FlattenSeq(Later(parts, Len(nx.value.array))) \o more)
  BY <1>2 DEF Carried, InArray
<1> QED
  BY <1>1, <1>2, <1>3 DEF InArray

LEMMA FetchingCarried ==
  ASSUME NEW nx, NEW link, NEW p, Carried(nx, link), Fetching(link, p)
  PROVE  Fetching(nx, p)
<1>1. CASE Telling(link, Bulk(p))
  BY <1>1, TellingCarried DEF Fetching
<1>2. CASE /\ link.request = "none" /\ link.value = Value("Bulk", p) /\ link.todo = 0
           /\ Spent(link)
  <2>1. /\ nx.request = "none" /\ nx.value = Value("Bulk", p) /\ nx.todo = 0
        /\ Spent(nx)
    BY <1>2 DEF Carried, Fades, Stays
  <2> QED
    BY <2>1 DEF Fetching
<1>3. CASE Lost(link)
  BY <1>3, LostCarried DEF Fetching
<1> QED
  BY <1>1, <1>2, <1>3 DEF Fetching

LEMMA ReadingCarried ==
  ASSUME NEW nx, NEW link, NEW parts, NEW values, NEW more, Carried(nx, link),
         Reading(link, parts, values, more)
  PROVE  Reading(nx, parts, values, more)
<1>1. CASE Telling(link, Array(parts) \o more)
  BY <1>1, TellingCarried DEF Reading
<1>2. CASE link.request = "none" /\ InArray(link, parts, values, more)
  BY <1>2, InArrayCarried DEF Reading
<1>3. CASE Torn(link, values, Len(parts))
  BY <1>3, TornCarried DEF Reading
<1>4. CASE Lost(link)
  BY <1>4, LostCarried DEF Reading
<1> QED
  BY <1>1, <1>2, <1>3, <1>4 DEF Reading

LEMMA IdleCarried ==
  ASSUME NEW nx, NEW link, Carried(nx, link), Idle(link)
  PROVE  Idle(nx)
<1>1. nx.request = "none"
  BY DEF Carried, Idle, Fades, Stays
<1> QED
  BY <1>1 DEF Carried, Idle

LEMMA FailingCarried ==
  ASSUME NEW nx, NEW link, Carried(nx, link), Failing(link)
  PROVE  Failing(nx)
<1>1. nx.state # "up"
  BY DEF Carried, Failing, Stays
<1> QED
  BY <1>1, IdleCarried, LostCarried DEF Failing

LEMMA WaitsCarried ==
  ASSUME NEW nx, NEW link, NEW name, Carried(nx, link), Waits(link, name)
  PROVE  Waits(nx, name) \/ Failing(nx)
<1>1. Spent(nx) /\ nx.value = NoValue /\ nx.todo = 0
  BY DEF Carried, Waits
<1>2. CASE Stays(nx, link)
  BY <1>1, <1>2 DEF Waits, Stays
<1>3. CASE nx.state # "up" /\ nx.request = "none"
  BY <1>1, <1>3 DEF Failing, Idle
<1> QED
  BY <1>2, <1>3 DEF Carried, Fades

-----------------------------------------------------------------------------
(* Reading goes on.                                                        *)

LEMMA ValuesDiffer ==
  /\ NoValue # ErrorValue /\ NoValue.type = "none" /\ ErrorValue.type = "Error"
  /\ ErrorValue.bulk = <<>> /\ ErrorValue.array = <<>> /\ NoValue.array = <<>>
  /\ \A p : /\ Value("Bulk", p) # NoValue /\ Value("Bulk", p).type = "Bulk"
            /\ Value("Bulk", p).bulk = p
  /\ NoValue \in Values /\ ErrorValue \in Values /\ ErrorValue \in Scalars
  /\ \A p \in Seq(Units) : Value("Bulk", p) \in Values
  BY DEF NoValue, ErrorValue, Value, Values, Scalars

LEMMA BrokenFades ==
  ASSUME NEW nx, NEW link, Broken(nx)
  PROVE  Fades(nx, link)
  BY DEF Broken, Fades

LEMMA UnstartedEnds ==
  ASSUME NEW link \in Links, CanRead(link), ~Arrived(link), link.value = NoValue, link.todo = 0,
         NEW nx, nx = ReadOn(link)
  PROVE  nx \in Links /\ Lost(nx) /\ Fades(nx, link)
  BY ReadEnds, BrokenFades DEF Lost

LEMMA FetchingReads ==
  ASSUME NEW link \in Links, NEW p \in Seq(Units), Fetching(link, p), CanRead(link), NEW nx,
         nx = ReadOn(link)
  PROVE  nx \in Links /\ Fetching(nx, p) /\ Fades(nx, link)
<1>1. Telling(link, Bulk(p))
  BY ValuesDiffer DEF Fetching, CanRead, Answered, Lost
<1>2. CASE ~Arrived(link)
  BY <1>1, <1>2, UnstartedEnds DEF Telling, Fetching
<1>3. CASE Arrived(link)
  <2>1. PICK part, value : part = Bulk(p) /\ value = Value("Bulk", p)
    OBVIOUS
  <2>2. Readable(part, value) /\ part \in Seq(Units) /\ <<>> \in Seq(Units)
    BY <2>1, BulkIs DEF Readable
  <2>3. part \o <<>> = part
    BY <2>2, ConcatEmptySeq
  <2>4. Holds(link, part \o <<>>)
    BY <1>1, <2>1, <2>3 DEF Telling
  <2>5. PICK b \in Seq(Units) : /\ nx = Taken([link EXCEPT !.buffer = b], value)
                                /\ Holds([link EXCEPT !.buffer = b], <<>>)
    BY <1>3, <2>2, <2>4, PartRead
  <2>6. PICK l : l = [link EXCEPT !.buffer = b]
    OBVIOUS
  <2>7. /\ l \in Links /\ Stays(l, link) /\ l.value = NoValue /\ l.todo = 0 /\ l.request = "none"
    BY <1>1, <2>6 DEF Links, Stays, Telling
  <2>8. Spent(l)
    BY <2>5, <2>6, <2>7, HoldsNothing
  <2>9. nx = [l EXCEPT !.value = value]
    BY <2>5, <2>6, <2>7 DEF Taken
  <2>10. value \in Values
    BY <2>1, ValuesDiffer
  <2>11. /\ nx \in Links /\ Stays(nx, link) /\ nx.value = value /\ nx.todo = 0
         /\ nx.request = "none" /\ nx.buffer = l.buffer /\ nx.stream = l.stream
    BY <2>7, <2>9, <2>10 DEF Links, Stays
  <2> QED
    BY <2>1, <2>8, <2>11 DEF Fetching, Spent, Fades
<1> QED
  BY <1>2, <1>3

LEMMA ReadingReads ==
  ASSUME NEW link \in Links, NEW parts, NEW values, Matched(parts, values),
         NEW more \in Seq(Units), Reading(link, parts, values, more), CanRead(link), NEW nx,
         nx = ReadOn(link)
  PROVE  nx \in Links /\ Reading(nx, parts, values, more) /\ Fades(nx, link)
<1>0. ~Lost(link)
  BY ValuesDiffer DEF CanRead, Answered, Lost
<1>1. CASE Telling(link, Array(parts) \o more)
  <2>1. CASE ~Arrived(link)
    BY <1>1, <2>1, UnstartedEnds DEF Telling, Reading
  <2>2. CASE Arrived(link)
    <3>1. nx \in Links /\ Stays(nx, link) /\ InArray(nx, parts, values, more)
      BY <1>1, <2>2, ArrayBegins DEF Telling
    <3> QED
      BY <1>1, <3>1 DEF Reading, Stays, Telling, Fades
  <2> QED
    BY <2>1, <2>2
<1>2. CASE link.request = "none" /\ InArray(link, parts, values, more)
  <2>0. link.value # NoValue /\ link.todo # 0
    <3>1. link.value # NoValue
      BY <1>2, ValuesDiffer DEF InArray
    <3> QED
      BY <3>1 DEF CanRead, Answered
  <2>1. CASE Arrived(link)
    <3>1. nx \in Links /\ Stays(nx, link) /\ InArray(nx, parts, values, more)
      BY <1>2, <2>0, <2>1, ArrayGoesOn
    <3> QED
      BY <1>2, <3>1 DEF Reading, Stays, Fades
  <2>2. CASE ~Arrived(link)
    <3>1. /\ nx \in Links /\ Broken(nx) /\ nx.todo = link.todo - 1
          /\ nx.value = [link.value EXCEPT !.array = Append(@, ErrorValue)]
      BY <2>0, <2>2, ReadEnds
    <3>2. PICK v, read, k, t : v = link.value /\ read = v.array /\ k = Len(read) /\ t = link.todo
      OBVIOUS
    <3>3. v \in Values /\ read \in Seq(Scalars) /\ k \in Nat /\ t \in Nat
      BY <3>2 DEF Links, Values
    <3>4. PICK n : n = Len(parts)
      OBVIOUS
    <3>5. k + t = n /\ t # 0 /\ v.type = "Array" /\ v.bulk = <<>>
          /\ \A i \in 1 .. k : read[i] = values[i]
      BY <1>2, <2>0, <3>2, <3>4 DEF InArray
    <3>6. /\ k \in 0 .. n /\ k # n /\ k + 1 \in 0 .. n /\ t - 1 \in Nat
          /\ (k + 1) + (t - 1) = n /\ n \in Nat
      <4>1. n \in Nat
        BY <3>3, <3>5
      <4> QED
        BY <3>3, <3>5, <4>1, Counted
    <3>7. PICK a : a = Append(read, ErrorValue)
      OBVIOUS
    <3>8. /\ a \in Seq(Scalars) /\ Len(a) = k + 1 /\ a[k + 1] = ErrorValue
          /\ \A i \in 1 .. k : a[i] = read[i]
      BY <3>2, <3>3, <3>7, ValuesDiffer
    <3>9. nx.value = WithArray(v, a)
      BY <3>1, <3>2, <3>7 DEF WithArray
    <3>10. nx.value.type = "Array" /\ nx.value.bulk = <<>> /\ nx.value.array = a
      BY <3>3, <3>5, <3>8, <3>9, ArrayOf
    <3>11. k \in 0 .. n - 1 /\ k < k + 1
      BY <3>3, <3>6
    <3>12. ASSUME NEW i \in 1 .. k + 1
           PROVE  a[i] = IF i <= k THEN values[i] ELSE ErrorValue
      <4>1. CASE i = k + 1
        <5>1. ~(i <= k)
          BY <3>3, <4>1
        <5> QED
          BY <3>8, <4>1, <5>1
      <4>2. CASE i # k + 1
        <5>1. i <= k /\ i \in 1 .. k
          BY <3>3, <4>2
        <5> QED
          BY <3>5, <3>8, <5>1
      <4> QED
        BY <4>1, <4>2
    <3>13. Len(nx.value.array) + nx.todo = n
      BY <3>1, <3>2, <3>6, <3>8, <3>10
    <3>14. Torn(nx, values, n)
      BY <3>1, <3>8, <3>10, <3>11, <3>12, <3>13 DEF Torn
    <3> QED
      BY <3>1, <3>4, <3>14, BrokenFades DEF Reading
  <2> QED
    BY <2>1, <2>2
<1>3. CASE Torn(link, values, Len(parts))
  <2>1. PICK v, read, m, t, n :
          v = link.value /\ read = v.array /\ m = Len(read) /\ t = link.todo /\ n = Len(parts)
    OBVIOUS
  <2>2. v \in Values /\ read \in Seq(Scalars) /\ m \in Nat /\ t \in Nat
    BY <2>1 DEF Links, Values
  <2>3. v.type = "Array" /\ v.bulk = <<>> /\ m + t = n /\ Broken(link)
    BY <1>3, <2>1 DEF Torn
  <2>4. PICK k \in 0 .. n - 1 :
          k < m /\ \A i \in 1 .. m : read[i] = IF i <= k THEN values[i] ELSE ErrorValue
    BY <1>3, <2>1 DEF Torn
  <2>5. v # NoValue /\ ~Arrived(link)
    BY <2>3, ValuesDiffer DEF Broken, Spent, Arrived
  <2>6. /\ nx \in Links /\ Broken(nx) /\ nx.todo = t - 1 /\ t # 0
        /\ nx.value = [v EXCEPT !.array = Append(@, ErrorValue)]
    BY <2>1, <2>5, ReadEnds
  <2>7. PICK a : a = Append(read, ErrorValue)
    OBVIOUS
  <2>8. /\ a \in Seq(Scalars) /\ Len(a) = m + 1 /\ a[m + 1] = ErrorValue
        /\ \A i \in 1 .. m : a[i] = read[i]
    BY <2>1, <2>2, <2>7, ValuesDiffer
  <2>9. nx.value = WithArray(v, a)
    BY <2>1, <2>6, <2>7 DEF WithArray
  <2>10. nx.value.type = "Array" /\ nx.value.bulk = <<>> /\ nx.value.array = a
    BY <2>2, <2>3, <2>8, <2>9, ArrayOf
  <2>11. k < m + 1 /\ (m + 1) + (t - 1) = n
    BY <2>2, <2>3, <2>4
  <2>12. ASSUME NEW i \in 1 .. m + 1
         PROVE  a[i] = IF i <= k THEN values[i] ELSE ErrorValue
    <3>1. CASE i = m + 1
      <4>1. ~(i <= k)
        BY <2>2, <2>4, <3>1
      <4> QED
        BY <2>8, <3>1, <4>1
    <3>2. CASE i # m + 1
      <4>1. i \in 1 .. m
        BY <2>2, <3>2
      <4> QED
        BY <2>4, <2>8, <4>1
    <3> QED
      BY <3>1, <3>2
  <2>13. Len(nx.value.array) + nx.todo = n
    BY <2>6, <2>8, <2>10, <2>11
  <2>14. Torn(nx, values, n)
    BY <2>4, <2>6, <2>8, <2>10, <2>11, <2>12, <2>13 DEF Torn
  <2> QED
    BY <2>1, <2>6, <2>14, BrokenFades DEF Reading
<1> QED
  BY <1>0, <1>1, <1>2, <1>3 DEF Reading

LEMMA NothingReads ==
  ASSUME NEW link \in Links, Idle(link), CanRead(link), NEW nx, nx = ReadOn(link)
  PROVE  nx \in Links /\ Lost(nx) /\ Fades(nx, link)
<1>1. ~Arrived(link)
  BY DEF Idle, Spent, Arrived
<1> QED
  BY <1>1, UnstartedEnds DEF Idle

LEMMA FailingReads ==
  ASSUME NEW link \in Links, Failing(link), CanRead(link), NEW nx, nx = ReadOn(link)
  PROVE  nx \in Links /\ Failing(nx) /\ Fades(nx, link)
<1>1. Idle(link)
  BY ValuesDiffer DEF Failing, CanRead, Answered, Lost
<1>2. nx \in Links /\ Lost(nx) /\ Fades(nx, link)
  BY <1>1, NothingReads
<1> QED
  BY <1>2 DEF Failing, Lost, Broken

LEMMA WaitsReadsNot ==
  ASSUME NEW link, NEW name, Waits(link, name)
  PROVE  ~CanRead(link) /\ ~Answered(link)
  BY DEF Waits, Spent, CanRead, Arrived, Ended, Answered

-----------------------------------------------------------------------------
(* What has been read is used, and the next command sent.                  *)

LEMMA UsedUp ==
  ASSUME NEW link \in Links, NEW nx, nx = AfterAnswer(link)
  PROVE  /\ nx \in Links /\ Stays(nx, link) /\ nx.value = NoValue /\ nx.todo = link.todo
         /\ Spent(link) => Spent(nx)
         /\ \A units : Holds(link, units) => Holds(nx, units)
<1>1. nx = [link EXCEPT !.value = NoValue] /\ NoValue \in Values
  BY ValuesDiffer DEF AfterAnswer
<1>2. /\ nx \in Links /\ Stays(nx, link) /\ nx.value = NoValue /\ nx.todo = link.todo
      /\ nx.buffer = link.buffer /\ nx.stream = link.stream
  BY <1>1 DEF Links, Stays
<1>3. Spent(link) => Spent(nx)
  BY <1>2 DEF Spent
<1>4. Rest(nx) = Rest(link) /\ nx.state = link.state
  BY <1>2 DEF Rest, Stays
<1> QED
  BY <1>2, <1>3, <1>4, MovedHolds

LEMMA LostUsed ==
  ASSUME NEW link \in Links, Lost(link), NEW nx, nx = AfterAnswer(link)
  PROVE  nx \in Links /\ Idle(nx) /\ Stays(nx, link) /\ nx.state # "up" /\ link.value = ErrorValue
  BY UsedUp DEF Lost, Broken, Idle, Stays

LEMMA FailingUsed ==
  ASSUME NEW link \in Links, Failing(link), Answered(link), NEW nx, nx = AfterAnswer(link)
  PROVE  nx \in Links /\ Idle(nx) /\ Stays(nx, link) /\ nx.state # "up" /\ link.value = ErrorValue
<1>1. Lost(link)
  BY DEF Failing, Idle, Answered
<1> QED
  BY <1>1, LostUsed

LEMMA FetchingUsed ==
  ASSUME NEW link \in Links, NEW p, Fetching(link, p), Answered(link), NEW nx,
         nx = AfterAnswer(link)
  PROVE  /\ nx \in Links /\ Idle(nx) /\ Stays(nx, link)
         /\ link.value = Value("Bulk", p) \/ (link.value = ErrorValue /\ nx.state # "up")
<1>1. CASE Lost(link)
  BY <1>1, LostUsed
<1>2. CASE ~Lost(link)
  <2>1. /\ link.request = "none" /\ link.value = Value("Bulk", p) /\ link.todo = 0
        /\ Spent(link)
    BY <1>2 DEF Fetching, Telling, Answered
  <2> QED
    BY <2>1, UsedUp DEF Idle, Stays
<1> QED
  BY <1>1, <1>2

(* All of an array was read.                                               *)
Whole(value, values, n) ==
  /\ value.type = "Array" /\ Len(value.array) = n
  /\ \A i \in 1 .. n : value.array[i] = values[i]

(* Only these elements were, and the connection is gone.                   *)
PartOf(value, values, n) ==
  /\ value.type = "Array" /\ Len(value.array) = n
  /\ \E k \in 0 .. n - 1 :
       \A i \in 1 .. n : value.array[i] = IF i <= k THEN values[i] ELSE ErrorValue

Used(nx, link, values, n, more) ==
  /\ nx \in Links /\ Telling(nx, more) /\ Stays(nx, link)
  /\ \/ Whole(link.value, values, n)
     \/ /\ nx.state = "down" /\ nx.subscribed = FALSE /\ Idle(nx)
        /\ link.value = ErrorValue \/ PartOf(link.value, values, n)

LEMMA ReadingUsed ==
  ASSUME NEW link \in Links, NEW parts \in Seq(Seq(Units)), NEW values,
         NEW more \in Seq(Units), Reading(link, parts, values, more), Answered(link), NEW nx,
         nx = AfterAnswer(link)
  PROVE  Used(nx, link, values, Len(parts), more)
<1>0. link.value # NoValue /\ link.todo = 0
  BY DEF Answered
<1>1. /\ nx \in Links /\ Stays(nx, link) /\ nx.value = NoValue /\ nx.todo = 0
      /\ Spent(link) => Spent(nx)
      /\ \A units : Holds(link, units) => Holds(nx, units)
  BY <1>0, UsedUp
<1>2. CASE link.request = "none" /\ InArray(link, parts, values, more)
  <2>1. /\ Holds(link, more) /\ Len(link.value.array) = Len(parts)
        /\ \A i \in 1 .. Len(parts) : link.value.array[i] = values[i]
    BY <1>0, <1>2, ArrayEnds
  <2>2. Whole(link.value, values, Len(parts))
    BY <1>2, <2>1 DEF InArray, Whole
  <2>3. Telling(nx, more)
    BY <1>1, <1>2, <2>1 DEF Telling, Stays
  <2> QED
    BY <1>1, <2>2, <2>3 DEF Used
<1>3. CASE Broken(link)
  <2>1. nx.state = "down" /\ nx.subscribed = FALSE /\ Idle(nx)
    BY <1>1, <1>3 DEF Broken, Stays, Idle
  <2>2. Telling(nx, more)
    BY <1>1, <2>1, EndedTells DEF Idle
  <2>3. CASE Lost(link)
    BY <1>1, <2>1, <2>2, <2>3 DEF Lost, Used
  <2>4. CASE Torn(link, values, Len(parts))
    <3>1. PICK n, read : n = Len(parts) /\ read = link.value.array
      OBVIOUS
    <3>2. n \in Nat /\ Len(read) \in Nat /\ Len(read) + 0 = n
      <4>1. read \in Seq(Scalars)
        BY <3>1 DEF Links, Values
      <4> QED
        BY <1>0, <2>4, <3>1, <4>1 DEF Torn
    <3>3. Len(read) = n
      BY <3>2
    <3>4. PartOf(link.value, values, n)
      BY <2>4, <3>1, <3>3 DEF Torn, PartOf
    <3> QED
      BY <1>1, <2>1, <2>2, <3>1, <3>4 DEF Used
  <2>5. CASE ~Lost(link) /\ ~Torn(link, values, Len(parts))
    BY <1>0, <1>2, <2>5 DEF Reading, Telling
  <2> QED
    BY <2>3, <2>4, <2>5
<1> QED
  BY <1>0, <1>2, <1>3 DEF Reading, Telling, Torn, Lost

LEMMA Asked ==
  ASSUME NEW link \in Links, Idle(link), NEW name \in Names, NEW nx, nx = Command(link, name)
  PROVE  /\ nx \in Links /\ nx.state = link.state
         /\ link.state = "up" => Waits(nx, name)
         /\ link.state # "up" => Failing(nx) /\ nx.request = "none"
<1>1. CASE link.state = "up"
  <2>1. nx = [link EXCEPT !.request = name]
    BY <1>1 DEF Command
  <2>2. nx \in Links /\ nx.state = "up" /\ nx.request = name /\ nx.buffer = link.buffer
        /\ nx.stream = link.stream /\ nx.value = link.value /\ nx.todo = link.todo
    BY <1>1, <2>1 DEF Links
  <2> QED
    BY <1>1, <2>2 DEF Idle, Waits, Spent
<1>2. CASE link.state # "up"
  <2>1. nx = link
    BY <1>2 DEF Command
  <2> QED
    BY <1>2, <2>1 DEF Failing, Idle
<1> QED
  BY <1>1, <1>2

LEMMA ConnectIs ==
  ASSUME NEW link \in Links, link.value = NoValue, link.todo = 0
  PROVE  /\ Connect(link) \in Links /\ Idle(Connect(link)) /\ Connect(link).state = "up"
         /\ Connect(link).subscribed = FALSE
         /\ Disconnect(link) \in Links /\ Idle(Disconnect(link)) /\ Disconnect(link).state = "down"
         /\ Disconnect(link).subscribed = FALSE
<1>1. NoValue \in Values
  BY ValuesDiffer
<1>2. PICK d : d = [state |-> "down", request |-> "none", subscribed |-> FALSE, stream |-> <<>>,
                    buffer |-> <<>>, value |-> NoValue, todo |-> 0]
  OBVIOUS
<1>3. Disconnect(link) = d
  <2>1. PICK l, v : l = Disconnect(link) /\ v = link.value
    OBVIOUS
  <2>2. l = [state |-> "down", request |-> "none", subscribed |-> FALSE, stream |-> <<>>,
             buffer |-> <<>>, value |-> v, todo |-> link.todo]
    BY <2>1 DEF Disconnect, Disconnected
  <2> QED
    BY <1>2, <2>1, <2>2
<1>4. d \in Links /\ d.state = "down" /\ d.subscribed = FALSE /\ Idle(d)
  BY <1>1, <1>2 DEF Links, Names, Idle, Spent
<1>5. PICK c : c = [d EXCEPT !.state = "up"]
  OBVIOUS
<1>6. Connect(link) = c
  BY <1>3, <1>5 DEF Connect
<1>7. c \in Links /\ c.state = "up" /\ c.subscribed = FALSE /\ Idle(c)
  <2>1. c = [state |-> "up", request |-> "none", subscribed |-> FALSE, stream |-> <<>>,
             buffer |-> <<>>, value |-> NoValue, todo |-> 0]
    BY <1>2, <1>5
  <2> QED
    BY <1>1, <2>1 DEF Links, Names, Idle, Spent
<1> QED
  BY <1>3, <1>4, <1>6, <1>7

LEMMA ConnectedIs ==
  ASSUME NEW link \in Links, Idle(link)
  PROVE  Connected(link) \in Links /\ Idle(Connected(link))
  BY ConnectIs DEF Connected, Idle

-----------------------------------------------------------------------------
(* What is sent.                                                           *)

LEMMA PayloadIs ==
  ASSUME NEW i \in Nat
  PROVE  /\ Payload(i) \in Seq(Units) /\ Payload(i) # <<>> /\ Payload(i) # Shutdown
         /\ Payload(i)[1].n = i
<1>1. Unit("op", i) \in Units /\ Unit("more", i) \in Units /\ Unit("op", i).n = i
      /\ Unit("op", i).t = "op"
  BY UnitTyped DEF Tags
<1>2. PICK p : p = <<Unit("op", i), Unit("more", i)>>
  OBVIOUS
<1>3. p \in Seq(Units) /\ Len(p) = 2 /\ p[1] = Unit("op", i)
  BY <1>1, <1>2
<1>4. Len(Shutdown) = 1
  BY DEF Shutdown
<1> QED
  BY <1>1, <1>2, <1>3, <1>4 DEF Payload

LEMMA PayloadSame ==
  ASSUME NEW i \in Nat, NEW j \in Nat, Payload(i) = Payload(j)
  PROVE  i = j
  BY PayloadIs

LEMMA ContentIs ==
  ASSUME NEW r \in Nat
  PROVE  Content(r) \in Seq(Units) /\ <<Unit("number", r)>> \in Seq(Units)
         /\ <<Unit("number", r)>> # <<>> /\ Head(<<Unit("number", r)>>).n = r
  BY UnitTyped DEF Content, CRLF, Tags

LEMMA ShutdownIs ==
  Shutdown \in Seq(Units) /\ Shutdown # <<>>
  BY UnitTyped DEF Shutdown, Tags

PayloadsAre(ps, from, to, n) ==
  /\ ps \in Seq(Seq(Units)) /\ Len(ps) = n /\ DOMAIN ps = 1 .. n
  /\ \A k \in 1 .. n : ps[k] = Payload(from + k)

LEMMA PayloadsIs ==
  ASSUME NEW from \in Nat, NEW to \in Nat
  PROVE  /\ from <= to => PayloadsAre(Payloads(from, to), from, to, to - from)
         /\ to <= from => Payloads(from, to) = <<>>
<1>1. PICK m : m = to - from
  OBVIOUS
<1>2. m \in Int
  BY <1>1
<1>3. Payloads(from, to) = [k \in 1 .. m |-> Payload(from + k)]
  BY <1>1 DEF Payloads
<1>4. CASE m \in Nat
  <2>1. ASSUME NEW k \in 1 .. m PROVE Payload(from + k) \in Seq(Units)
    <3>1. from + k \in Nat
      BY <1>4
    <3> QED
      BY <3>1, PayloadIs
  <2>2. PICK S, ps : S = Seq(Units) /\ ps = Payloads(from, to)
    OBVIOUS
  <2>3. ps = [k \in 1 .. m |-> Payload(from + k)] /\ \A k \in 1 .. m : Payload(from + k) \in S
    BY <1>3, <2>1, <2>2
  <2>4. ps \in Seq(S) /\ Len(ps) = m /\ DOMAIN ps = 1 .. m
    BY <1>4, <2>3
  <2>5. PayloadsAre(ps, from, to, m)
    BY <2>2, <2>3, <2>4 DEF PayloadsAre
  <2>6. m = 0 => ps = <<>>
    BY <2>4
  <2>7. to <= from => m = 0
    BY <1>1, <1>4
  <2> QED
    BY <1>1, <2>2, <2>5, <2>6, <2>7
<1>5. CASE m \notin Nat
  <2>1. ~(from <= to) /\ 1 .. m = {}
    BY <1>1, <1>2, <1>5
  <2>2. Payloads(from, to) = <<>>
    BY <1>3, <2>1
  <2> QED
    BY <2>1, <2>2
<1> QED
  BY <1>4, <1>5

LEMMA PayloadsTyped ==
  ASSUME NEW from \in Nat, NEW to \in Nat
  PROVE  Payloads(from, to) \in Seq(Seq(Units))
<1>1. CASE from <= to
  BY <1>1, PayloadsIs DEF PayloadsAre
<1>2. CASE to <= from
  <2>1. Payloads(from, to) = <<>>
    BY <1>2, PayloadsIs
  <2> QED
    BY <2>1
<1> QED
  BY <1>1, <1>2

LEMMA StringsAre ==
  ASSUME NEW ps \in Seq(Seq(Units))
  PROVE  /\ Matched(Strings(ps), StringValues(ps)) /\ Len(Strings(ps)) = Len(ps)
         /\ \A i \in 1 .. Len(ps) : StringValues(ps)[i] = Value("Bulk", ps[i])
<1>1. PICK n, s, v, S : n = Len(ps) /\ s = Strings(ps) /\ v = StringValues(ps) /\ S = Seq(Units)
  OBVIOUS
<1>2. n \in Nat /\ DOMAIN ps = 1 .. n /\ \A i \in 1 .. n : ps[i] \in S
  BY <1>1
<1>3. s = [i \in 1 .. n |-> Bulk(ps[i])] /\ v = [i \in 1 .. n |-> Value("Bulk", ps[i])]
  BY <1>1, <1>2 DEF Strings, StringValues
<1>4. \A i \in 1 .. n : Bulk(ps[i]) \in S
  BY <1>1, <1>2, BulkIs
<1>5. s \in Seq(S) /\ Len(s) = n
  BY <1>2, <1>3, <1>4
<1>6. ASSUME NEW i \in 1 .. n PROVE Readable(s[i], v[i])
  BY <1>1, <1>2, <1>3 DEF Readable
<1>7. Matched(s, v)
  BY <1>1, <1>5, <1>6 DEF Matched
<1> QED
  BY <1>1, <1>3, <1>5, <1>7

LEMMA PartsAre ==
  ASSUME NEW kind \in Tags, NEW last, NEW value, Readable(last, value)
  PROVE  /\ Matched(Parts(kind, last), PartValues(kind, value)) /\ Len(Parts(kind, last)) = 3
         /\ Push(kind, last) = Array(Parts(kind, last)) /\ Push(kind, last) \in Seq(Units)
<1>1. PICK a, b : a = <<Unit(kind, 0)>> /\ b = <<Unit("channel", 0)>>
  OBVIOUS
<1>2. a \in Seq(Units) /\ b \in Seq(Units)
  BY <1>1, UnitTyped DEF Tags
<1>3. Bulk(a) \in Seq(Units) /\ Bulk(b) \in Seq(Units) /\ last \in Seq(Units)
  BY <1>2, BulkIs, ReadableTyped
<1>4. PICK x, y, S : x = Bulk(a) /\ y = Bulk(b) /\ S = Seq(Units)
  OBVIOUS
<1>5. PICK s, v : s = <<x, y, last>> /\ v = <<Value("Bulk", a), Value("Bulk", b), value>>
  OBVIOUS
<1>6. s \in Seq(S) /\ Len(s) = 3
  BY <1>3, <1>4, <1>5
<1>7. Readable(x, Value("Bulk", a)) /\ Readable(y, Value("Bulk", b))
  BY <1>2, <1>4 DEF Readable
<1>8. ASSUME NEW i \in 1 .. 3 PROVE Readable(s[i], v[i])
  <2>1. i = 1 \/ i = 2 \/ i = 3
    OBVIOUS
  <2> QED
    BY <1>5, <1>7, <2>1
<1>9. Matched(s, v)
  BY <1>4, <1>6, <1>8 DEF Matched
<1>10. s = Parts(kind, last) /\ v = PartValues(kind, value)
  BY <1>1, <1>4, <1>5 DEF Parts, PartValues
<1>11. Push(kind, last) = Array(Parts(kind, last))
  BY DEF Push, Parts
<1>12. Array(s) \in Seq(Units)
  <2>1. FlattenSeq(s) \in Seq(Units) /\ Line("*", Len(s)) \in Seq(Units)
    BY <1>4, <1>6, FlatTyped, LineIs DEF Tags
  <2> QED
    BY <2>1, ConcatProperties DEF Array
<1> QED
  BY <1>6, <1>9, <1>10, <1>11, <1>12

-----------------------------------------------------------------------------
(* parse_history_array.                                                    *)

Begins(r, ps, k) ==
  r \in Seq(Seq(Units)) /\ Len(r) = k /\ \A i \in 1 .. k : r[i] = ps[i]

LEMMA BeginsIs ==
  ASSUME NEW r, NEW ps \in Seq(Seq(Units)), NEW k \in 0 .. Len(ps), Begins(r, ps, k)
  PROVE  IsPrefix(r, ps) /\ (k = Len(ps) => r = ps)
<1>1. PICK S : S = Seq(Units)
  OBVIOUS
<1>2. r \in Seq(S) /\ ps \in Seq(S) /\ Len(r) = k /\ k \in Nat /\ k <= Len(ps)
      /\ \A i \in 1 .. k : r[i] = ps[i]
  BY <1>1 DEF Begins
<1>3. k = Len(ps) => r = ps
  BY <1>2, SeqSame
<1>4. PICK x, y : x = SubSeq(r, 1, k) /\ y = SubSeq(ps, 1, k)
  OBVIOUS
<1>5. x \in Seq(S) /\ Len(x) = k /\ \A i \in 1 .. k : x[i] = r[i]
  <2>1. k \in 0 .. Len(r)
    BY <1>2
  <2> QED
    BY <1>2, <1>4, <2>1, SubSeqFirst
<1>6. y \in Seq(S) /\ Len(y) = k /\ \A i \in 1 .. k : y[i] = ps[i]
  BY <1>2, <1>4, SubSeqFirst
<1>7. x = y
  BY <1>2, <1>5, <1>6, SeqSame
<1> QED
  BY <1>2, <1>3, <1>4, <1>7 DEF IsPrefix

LEMMA ParsedTyped ==
  ASSUME NEW value \in Values
  PROVE  ParseHistory(value) \in Seq(Seq(Units))
<1>1. PICK a, T, S : a = value.array /\ S = Seq(Units)
                     /\ T = { item \in ToSet(a) : item.type = "Bulk" }
  OBVIOUS
<1>2. a \in Seq(Scalars)
  BY <1>1 DEF Values
<1>3. PICK b : b = Those(a, T)
  OBVIOUS
<1>4. b \in Seq(Scalars)
  BY <1>2, <1>3, ThoseAre
<1>5. \A i \in DOMAIN b : b[i].bulk \in S
  <2>1. \A i \in DOMAIN b : b[i] \in Scalars
    BY <1>4
  <2>2. \A x \in Scalars : x.bulk \in S
    BY <1>1 DEF Scalars
  <2> QED
    BY <2>1, <2>2
<1>6. PICK n : n = Len(b)
  OBVIOUS
<1>7. DOMAIN b = 1 .. n /\ n \in Nat
  BY <1>4, <1>6
<1>8. PICK p : p = [i \in 1 .. n |-> b[i].bulk]
  OBVIOUS
<1>9. p \in Seq(S)
  BY <1>5, <1>7, <1>8
<1>10. ParseHistory(value) = p
  BY <1>1, <1>3, <1>7, <1>8 DEF ParseHistory
<1> QED
  BY <1>1, <1>9, <1>10

PicksOut(a, T) ==
  \E t \in [0 .. Len(a) -> Seq(Scalars)] : Selects(t, a, T) /\ Those(a, T) = t[Len(a)]

LEMMA PickedOut ==
  ASSUME NEW a \in Seq(Scalars), NEW T
  PROVE  PicksOut(a, T)
  BY ThoseRuns DEF PicksOut

LEMMA Parsed ==
  ASSUME NEW value \in Values, NEW a, a = value.array, NEW ps \in Seq(Seq(Units)),
         NEW k \in 0 .. Len(a), k <= Len(ps),
         \A i \in 1 .. Len(a) : a[i] = IF i <= k THEN Value("Bulk", ps[i]) ELSE ErrorValue
  PROVE  Begins(ParseHistory(value), ps, k)
<1>1. PICK T, n, S : n = Len(a) /\ S = Seq(Units)
                     /\ T = { item \in ToSet(a) : item.type = "Bulk" }
  OBVIOUS
<1>2. a \in Seq(Scalars) /\ n \in Nat /\ k \in 0 .. n /\ k \in Nat /\ k <= n
  <2>1. a \in Seq(Scalars)
    BY DEF Values
  <2> QED
    BY <1>1, <2>1
<1>3. \A i \in 1 .. n : a[i] = IF i <= k THEN Value("Bulk", ps[i]) ELSE ErrorValue
  BY <1>1
<1>4. ASSUME NEW i \in 1 .. n PROVE a[i] \in T <=> i <= k
  <2>1. a[i] \in ToSet(a)
    BY <1>1, <1>2 DEF ToSet
  <2>2. a[i].type = "Bulk" <=> i <= k
    BY <1>3, ValuesDiffer
  <2>3. \A x : x \in T <=> x \in ToSet(a) /\ x.type = "Bulk"
    BY <1>1
  <2>4. CASE i <= k
    BY <2>1, <2>2, <2>3, <2>4
  <2>5. CASE ~(i <= k)
    BY <2>2, <2>3, <2>5
  <2> QED
    BY <2>4, <2>5
<1>5. PICK t \in [0 .. n -> Seq(Scalars)] : Selects(t, a, T) /\ Those(a, T) = t[n]
  <2>1. PICK t \in [0 .. Len(a) -> Seq(Scalars)] : Selects(t, a, T) /\ Those(a, T) = t[Len(a)]
    BY <1>2, PickedOut DEF PicksOut
  <2> QED
    BY <1>1, <2>1
<1>6. PICK upto \in [0 .. n -> Nat] : \A i \in 0 .. n : upto[i] = IF i <= k THEN i ELSE k
  <2>1. PICK f : f = [i \in 0 .. n |-> IF i <= k THEN i ELSE k]
    OBVIOUS
  <2>2. \A i \in 0 .. n : (IF i <= k THEN i ELSE k) \in Nat
    BY <1>2
  <2>3. f \in [0 .. n -> Nat] /\ \A i \in 0 .. n : f[i] = IF i <= k THEN i ELSE k
    BY <2>1, <2>2
  <2> QED
    BY <2>3
<1> DEFINE Good == { i \in 0 .. n : /\ Len(t[i]) = upto[i]
                                    /\ \A j \in 1 .. upto[i] : t[i][j] = a[j] }
<1>7. 0 \in Good
  <2>1. t[0] = <<>> /\ upto[0] = 0 /\ 0 \in 0 .. n
    BY <1>2, <1>5, <1>6 DEF Selects
  <2> QED
    BY <2>1
<1>8. ASSUME NEW i \in 1 .. n, i - 1 \in Good PROVE i \in Good
  <2>1. i - 1 \in 0 .. n /\ i \in 0 .. n /\ i \in Nat /\ (i - 1) + 1 = i /\ i \in 1 .. Len(a)
    BY <1>1, <1>2
  <2>2. PICK x, e : x = t[i - 1] /\ e = a[i]
    OBVIOUS
  <2>3. x \in Seq(Scalars) /\ e \in Scalars
    <3>1. e \in Scalars
      BY <1>2, <2>1, <2>2, SMTT(30)
    <3>2. x \in Seq(Scalars)
      BY <1>5, <2>1, <2>2
    <3> QED
      BY <3>1, <3>2
  <2>4. t[i] = IF e \in T THEN Append(x, e) ELSE x
    BY <1>5, <2>1, <2>2 DEF Selects
  <2>5. Len(x) = upto[i - 1] /\ \A j \in 1 .. upto[i - 1] : x[j] = a[j]
    BY <1>8, <2>2
  <2>6. CASE i <= k
    <3>1. i - 1 <= k /\ e \in T
      BY <1>2, <1>4, <2>1, <2>2, <2>6
    <3>2. upto[i - 1] = i - 1 /\ upto[i] = i
      BY <1>6, <2>1, <2>6, <3>1
    <3>3. PICK y : y = Append(x, e)
      OBVIOUS
    <3>4. Len(y) = Len(x) + 1 /\ y[Len(x) + 1] = e /\ \A j \in 1 .. Len(x) : y[j] = x[j]
      BY <2>3, <3>3
    <3>5. Len(y) = i /\ y[i] = e /\ \A j \in 1 .. i - 1 : y[j] = x[j]
      BY <2>1, <2>5, <3>2, <3>4
    <3>6. \A j \in 1 .. i : j = i \/ j \in 1 .. i - 1
      BY <2>1
    <3>7. \A j \in 1 .. i : y[j] = a[j]
      BY <2>2, <2>5, <3>2, <3>5, <3>6
    <3>8. t[i] = y
      BY <2>4, <3>1, <3>3
    <3>9. Len(t[i]) = upto[i] /\ \A j \in 1 .. upto[i] : t[i][j] = a[j]
      BY <3>2, <3>5, <3>7, <3>8
    <3>10. i \in 0 .. n
      BY <2>1
    <3> QED
      BY <3>9, <3>10
  <2>7. CASE ~(i <= k)
    <3>1. e \notin T /\ (i - 1 <= k => i - 1 = k)
      <4>1. e \notin T
        BY <1>4, <2>2, <2>7
      <4>2. k \in Nat /\ i \in Nat
        BY <1>2, <2>1
      <4>3. i - 1 <= k => i - 1 = k
        BY <2>7, <4>2
      <4> QED
        BY <4>1, <4>3
    <3>2. upto[i] = k /\ upto[i - 1] = k
      BY <1>6, <2>1, <2>7, <3>1
    <3>3. t[i] = x
      BY <2>4, <3>1
    <3> QED
      BY <2>1, <2>5, <3>2, <3>3
  <2> QED
    BY <2>6, <2>7
<1>9. n \in Good
  <2> HIDE DEF Good
  <2>1. \A i \in 0 .. n : i \in Good
    BY <1>2, <1>7, <1>8, UpTo
  <2> QED
    BY <1>2, <2>1
<1>10. PICK b : b = Those(a, T)
  OBVIOUS
<1>11. b \in Seq(Scalars) /\ Len(b) = k /\ \A j \in 1 .. k : b[j] = a[j]
  <2>1. upto[n] = k /\ b = t[n] /\ n \in 0 .. n
    BY <1>2, <1>5, <1>6, <1>10
  <2> QED
    BY <1>5, <1>9, <2>1
<1>12. ASSUME NEW j \in 1 .. k PROVE b[j].bulk = ps[j] /\ ps[j] \in S
  <2>1. j \in 1 .. n /\ j <= k /\ j \in 1 .. Len(ps)
    BY <1>2
  <2>2. b[j] = Value("Bulk", ps[j])
    BY <1>3, <1>11, <2>1
  <2> QED
    BY <1>1, <2>1, <2>2, ValuesDiffer
<1>13. DOMAIN b = 1 .. k
  BY <1>2, <1>11
<1>14. PICK D, p : D = DOMAIN b /\ p = [j \in D |-> b[j].bulk]
  OBVIOUS
<1>15. ParseHistory(value) = p
  <2>1. ParseHistory(value) = [j \in DOMAIN Those(a, T) |-> Those(a, T)[j].bulk]
    BY <1>1 DEF ParseHistory
  <2> QED
    BY <1>10, <1>14, <2>1
<1>16. p \in Seq(S) /\ Len(p) = k /\ \A j \in 1 .. k : p[j] = ps[j]
  <2>1. D = 1 .. k
    BY <1>13, <1>14
  <2>2. p = [j \in D |-> b[j].bulk] /\ k \in Nat
    BY <1>2, <1>14
  <2>3. \A j \in 1 .. k : b[j].bulk = ps[j] /\ b[j].bulk \in S
    BY <1>12
  <2>4. p \in Seq(S) /\ Len(p) = k
    BY <2>1, <2>2, <2>3
  <2>5. \A j \in 1 .. k : p[j] = ps[j]
    BY <2>1, <2>2, <2>3
  <2> QED
    BY <2>4, <2>5
<1> QED
  BY <1>1, <1>15, <1>16 DEF Begins

(* What a reply to LRANGE is parsed to.                                    *)
LEMMA RangeParsed ==
  ASSUME NEW value \in Values, NEW ps \in Seq(Seq(Units)),
         \/ Whole(value, StringValues(ps), Len(ps))
         \/ value = ErrorValue
         \/ PartOf(value, StringValues(ps), Len(ps))
  PROVE  /\ IsPrefix(ParseHistory(value), ps)
         /\ Whole(value, StringValues(ps), Len(ps)) => ParseHistory(value) = ps
<1>1. PICK n, a : n = Len(ps) /\ a = value.array
  OBVIOUS
<1>2. n \in Nat /\ a \in Seq(Scalars) /\ Len(a) \in Nat
  <2>1. a \in Seq(Scalars)
    BY <1>1 DEF Values
  <2> QED
    BY <1>1, <2>1
<1>3. \A i \in 1 .. n : StringValues(ps)[i] = Value("Bulk", ps[i])
  BY <1>1, StringsAre
<1>4. CASE Whole(value, StringValues(ps), n)
  <2>1. Len(a) = n /\ \A i \in 1 .. n : a[i] = Value("Bulk", ps[i])
    BY <1>1, <1>3, <1>4 DEF Whole
  <2>2. n \in 0 .. Len(a) /\ n <= Len(ps) /\ n \in 0 .. Len(ps)
    BY <1>1, <1>2, <2>1
  <2>3. \A i \in 1 .. Len(a) : a[i] = IF i <= n THEN Value("Bulk", ps[i]) ELSE ErrorValue
    BY <1>2, <2>1
  <2>4. Begins(ParseHistory(value), ps, n)
    BY <1>1, <2>2, <2>3, Parsed
  <2> QED
    BY <1>1, <2>2, <2>4, BeginsIs
<1>5. CASE value = ErrorValue /\ ~Whole(value, StringValues(ps), n)
  <2>1. Len(a) = 0
    BY <1>1, <1>5, ValuesDiffer
  <2>2. 0 \in 0 .. Len(a) /\ 0 <= Len(ps) /\ 0 \in 0 .. Len(ps)
    BY <1>1, <1>2, <2>1
  <2>3. \A i \in 1 .. Len(a) : a[i] = IF i <= 0 THEN Value("Bulk", ps[i]) ELSE ErrorValue
    BY <2>1
  <2>4. Begins(ParseHistory(value), ps, 0)
    BY <1>1, <2>2, <2>3, Parsed
  <2> QED
    BY <1>1, <1>5, <2>2, <2>4, BeginsIs
<1>6. CASE PartOf(value, StringValues(ps), n) /\ ~Whole(value, StringValues(ps), n)
  <2>1. PICK k \in 0 .. n - 1 :
          \A i \in 1 .. n : a[i] = IF i <= k THEN StringValues(ps)[i] ELSE ErrorValue
    BY <1>1, <1>6 DEF PartOf
  <2>2. Len(a) = n
    BY <1>1, <1>6 DEF PartOf
  <2>3. k \in 0 .. Len(a) /\ k <= Len(ps) /\ k \in 0 .. Len(ps)
    BY <1>1, <1>2, <2>2
  <2>4. \A i \in 1 .. Len(a) : a[i] = IF i <= k THEN Value("Bulk", ps[i]) ELSE ErrorValue
    BY <1>3, <2>1, <2>2
  <2>5. Begins(ParseHistory(value), ps, k)
    BY <1>1, <2>3, <2>4, Parsed
  <2> QED
    BY <1>1, <1>6, <2>3, <2>5, BeginsIs
<1> QED
  BY <1>1, <1>4, <1>5, <1>6

LEMMA MinIs ==
  ASSUME NEW a \in Nat, NEW b \in Nat
  PROVE  Min({a, b}) = IF a <= b THEN a ELSE b
<1>1. CASE a <= b
  <2>1. PICK m : m = Min({a, b})
    OBVIOUS
  <2>2. \E x \in {a, b} : \A y \in {a, b} : x =< y
    BY <1>1
  <2>3. m \in {a, b} /\ \A y \in {a, b} : m =< y
    BY <2>1, <2>2 DEF Min
  <2>4. m = a
    BY <1>1, <2>3
  <2> QED
    BY <1>1, <2>1, <2>4
<1>2. CASE ~(a <= b)
  <2>1. PICK m : m = Min({a, b})
    OBVIOUS
  <2>2. \E x \in {a, b} : \A y \in {a, b} : x =< y
    BY <1>2
  <2>3. m \in {a, b} /\ \A y \in {a, b} : m =< y
    BY <2>1, <2>2 DEF Min
  <2>4. m = b
    BY <1>2, <2>3
  <2> QED
    BY <1>2, <2>1, <2>4
<1> QED
  BY <1>1, <1>2

-----------------------------------------------------------------------------
(* Calls: what Redis and the connection do.                                *)

LEMMA RepliedTells ==
  ASSUME NEW link \in Links, NEW name, Waits(link, name), NEW units \in Seq(Units), NEW nx,
         nx = Reply(link, units)
  PROVE  nx \in Links /\ Telling(nx, units) /\ nx.state = "up" /\ nx.subscribed = link.subscribed
<1>1. link.state = "up" /\ Spent(link)
  BY DEF Waits
<1>2. nx \in Links /\ Holds(nx, units) /\ nx = [link EXCEPT !.stream = units, !.request = "none"]
  BY <1>1, RepliedHolds
<1>3. nx.request = "none" /\ nx.value = NoValue /\ nx.todo = 0 /\ nx.state = "up"
      /\ nx.subscribed = link.subscribed
  BY <1>1, <1>2 DEF Links, Waits
<1> QED
  BY <1>2, <1>3 DEF Telling

LEMMA NoRequest ==
  ASSUME NEW link
  PROVE  /\ Idle(link) \/ Failing(link) => link.request = "none"
         /\ \A p : Fetching(link, p) => link.request = "none"
         /\ \A parts, values, more : Reading(link, parts, values, more) => link.request = "none"
<1>1. Idle(link) \/ Failing(link) => link.request = "none"
  BY DEF Idle, Failing, Lost, Broken
<1>2. ASSUME NEW p, Fetching(link, p) PROVE link.request = "none"
  BY <1>2 DEF Fetching, Telling, Lost, Broken
<1>3. ASSUME NEW parts, NEW values, NEW more, Reading(link, parts, values, more)
      PROVE  link.request = "none"
  BY <1>3 DEF Reading, Telling, Torn, Lost, Broken
<1> QED
  BY <1>1, <1>2, <1>3

LEMMA Requested ==
  ASSUME CallInv, client.request # "none"
  PROVE  call.pc = client.request /\ Waits(client, call.pc) /\ call.pc # "idle"
<1>1. call.pc # "idle"
  BY NoRequest DEF CallInv, CallTyped
<1>2. ~Failing(client)
  BY NoRequest
<1>3. ~Replied
  BY NoRequest DEF Replied
<1>4. Waits(client, call.pc)
  BY <1>1, <1>2, <1>3 DEF CallInv, Underway
<1> QED
  BY <1>1, <1>4 DEF Waits

(* Only the connection moved.                                              *)
LEMMA CallKept ==
  ASSUME CallInv, UNCHANGED <<history, call, answer, stopping>>, client' \in Links,
         Fades(client', client), call.pc = "idle" => Idle(client'), Underway'
  PROVE  CallInv'
<1>1. CallTyped'
  BY DEF CallInv, CallTyped
<1>2. CommitsSawAll' /\ AnswersMatch'
  BY DEF CallInv, CommitsSawAll, AnswersMatch
<1>3. ReadSoFar'
  <2>1. client'.state = "up" => client.state = "up" /\ client'.request = client.request
    BY DEF Fades, Stays
  <2> QED
    BY <2>1 DEF CallInv, ReadSoFar
<1> QED
  BY <1>1, <1>2, <1>3 DEF CallInv

LEMMA CallCarried ==
  ASSUME CallInv, UNCHANGED <<history, call, answer, stopping>>, Carried(client', client)
  PROVE  CallInv'
<1>1. client' \in Links /\ Fades(client', client)
  BY DEF Carried
<1>2. call.pc = "idle" => Idle(client')
  BY IdleCarried DEF CallInv, CallTyped
<1>3. Underway'
  <2>1. SUFFICES ASSUME call.pc # "idle"
                 PROVE  Waits(client', call.pc) \/ Failing(client') \/ Replied'
    BY DEF Underway
  <2>2. CASE Waits(client, call.pc)
    BY <2>2, WaitsCarried
  <2>3. CASE Failing(client)
    BY <2>3, FailingCarried
  <2>4. CASE Replied
    <3>1. \A p : Fetching(client, p) => Fetching(client', p)
      BY FetchingCarried
    <3>2. \A parts, values, more :
            Reading(client, parts, values, more) => Reading(client', parts, values, more)
      BY ReadingCarried
    <3> QED
      BY <2>4, <3>1, <3>2 DEF Replied
  <2> QED
    BY <2>1, <2>2, <2>3, <2>4 DEF CallInv, Underway
<1> QED
  BY <1>1, <1>2, <1>3, CallKept

LEMMA CallReads ==
  ASSUME CallInv, ReadReply
  PROVE  CallInv'
<1>1. /\ call.pc # "idle" /\ CanRead(client) /\ client' = ReadOn(client)
      /\ UNCHANGED <<history, call, answer, stopping>>
  BY DEF ReadReply, stop
<1>2. client \in Links /\ call \in Calls /\ Len(history) \in Nat /\ history \in Seq(Entries)
  BY DEF CallInv, CallTyped
<1>3. ~Waits(client, call.pc)
  BY <1>1, WaitsReadsNot
<1>4. ASSUME NEW p \in Seq(Units), Fetching(client, p)
      PROVE  client' \in Links /\ Fetching(client', p) /\ Fades(client', client)
  BY <1>1, <1>2, <1>4, FetchingReads
<1>5. CASE Failing(client)
  <2>1. client' \in Links /\ Failing(client') /\ Fades(client', client)
    BY <1>1, <1>2, <1>5, FailingReads
  <2>2. Underway'
    BY <2>1 DEF Underway
  <2> QED
    BY <1>1, <2>1, <2>2, CallKept
<1>6. CASE Replied
  <2>1. CASE call.pc = "content" /\ Fetching(client, Content(Len(history)))
    <3>1. client' \in Links /\ Fetching(client', Content(Len(history))) /\ Fades(client', client)
      BY <1>2, <1>4, <2>1, ContentIs
    <3>2. Underway'
      BY <1>1, <2>1, <3>1 DEF Underway, Replied
    <3> QED
      BY <1>1, <3>1, <3>2, CallKept
  <2>2. CASE call.pc = "revision" /\ Fetching(client, <<Unit("number", Len(history))>>)
    <3>1. /\ client' \in Links /\ Fetching(client', <<Unit("number", Len(history))>>)
          /\ Fades(client', client)
      BY <1>2, <1>4, <2>2, ContentIs
    <3>2. Underway'
      BY <1>1, <2>2, <3>1 DEF Underway, Replied
    <3> QED
      BY <1>1, <3>1, <3>2, CallKept
  <2>3. CASE /\ call.pc = "history" /\ (call.kind = "commit" => call.served = Len(history))
             /\ Reading(client, Strings(Payloads(call.from, call.served)),
                        StringValues(Payloads(call.from, call.served)), <<>>)
    <3>1. PICK ps : ps = Payloads(call.from, call.served)
      OBVIOUS
    <3>2. ps \in Seq(Seq(Units))
      BY <1>2, <3>1, PayloadsTyped DEF Calls
    <3>3. Matched(Strings(ps), StringValues(ps)) /\ <<>> \in Seq(Units)
      BY <3>2, StringsAre
    <3>4. /\ client' \in Links /\ Reading(client', Strings(ps), StringValues(ps), <<>>)
          /\ Fades(client', client)
      BY <1>1, <1>2, <2>3, <3>1, <3>3, ReadingReads
    <3>5. Underway'
      BY <1>1, <2>3, <3>1, <3>4 DEF Underway, Replied
    <3> QED
      BY <1>1, <3>4, <3>5, CallKept
  <2>4. CASE call.pc = "commit" /\ call.own \in 1 .. Len(history) /\ Fetching(client, Payload(call.own))
    <3>1. PICK j \in 1 .. Len(history) : j = call.own /\ Fetching(client, Payload(j))
      BY <2>4
    <3>2. j \in Nat
      BY <1>2
    <3>3. client' \in Links /\ Fetching(client', Payload(j)) /\ Fades(client', client)
      BY <1>4, <3>1, <3>2, PayloadIs
    <3>4. Underway'
      BY <1>1, <2>4, <3>1, <3>3 DEF Underway, Replied
    <3> QED
      BY <1>1, <3>3, <3>4, CallKept
  <2> QED
    BY <1>6, <2>1, <2>2, <2>3, <2>4 DEF Replied
<1> QED
  BY <1>1, <1>3, <1>5, <1>6 DEF CallInv, Underway

LEMMA CallReceives ==
  ASSUME CallInv, ReceiveReply
  PROVE  CallInv'
<1>1. UNCHANGED <<history, call, answer, stopping>>
  BY DEF ReceiveReply, stop
<1>2. client \in Links
  BY DEF CallInv, CallTyped
<1>3. PICK sent : sent = Len(client.stream)
  OBVIOUS
<1>4. sent \in Nat
  BY <1>2, <1>3 DEF Links
<1>5. PICK n \in {sent - 1, sent} \ {0, -1} : client' = Received(client, n)
  BY <1>3 DEF ReceiveReply
<1>6. n \in 0 .. Len(client.stream)
  BY <1>3, <1>4, <1>5
<1>7. Carried(client', client)
  BY <1>2, <1>5, <1>6, ReceivedCarries
<1> QED
  BY <1>1, <1>7, CallCarried

LEMMA CarriedItself ==
  ASSUME NEW link \in Links
  PROVE  Carried(link, link)
  BY DEF Carried, Fades, Stays

LEMMA CutsCarry ==
  ASSUME NEW link \in Links
  PROVE  /\ \A nx \in Cuts(link) : Carried(nx, link)
         /\ Carried(Closed(link), link)
<1>1. ASSUME NEW nx \in Cuts(link) PROVE Carried(nx, link)
  BY <1>1, CutCarries DEF Cuts
<1>2. Len(link.stream) \in 0 .. Len(link.stream)
  BY DEF Links
<1>3. Carried(Closed(link), link)
  BY <1>2, CutCarries DEF Closed
<1> QED
  BY <1>1, <1>3

LEMMA CallBreaks ==
  ASSUME CallInv, Break
  PROVE  CallInv'
<1>1. UNCHANGED <<history, call, answer, stopping>>
  BY DEF Break, stop
<1>2. client \in Links
  BY DEF CallInv, CallTyped
<1>3. client' \in Cuts(client) \/ client' = client \/ client' = Closed(client)
  BY DEF Break
<1>4. Carried(client', client)
  BY <1>2, <1>3, CutsCarry, CarriedItself
<1> QED
  BY <1>1, <1>4, CallCarried

LEMMA CallGets ==
  ASSUME CallInv, ServeGet
  PROVE  CallInv'
<1>1. UNCHANGED <<history, call, answer, stopping>> /\ client.request \in {"content", "revision"}
  BY DEF ServeGet, stop
<1>2. call.pc = client.request /\ Waits(client, call.pc) /\ call.pc # "idle"
  BY <1>1, Requested
<1>3. client \in Links /\ Len(history) \in Nat
  BY DEF CallInv, CallTyped
<1>4. PICK p : p = IF client.request = "content" THEN Content(Len(history))
                   ELSE <<Unit("number", Len(history))>>
  OBVIOUS
<1>5. p \in Seq(Units)
  BY <1>3, <1>4, ContentIs
<1>6. client' = Reply(client, Bulk(p))
  BY <1>4 DEF ServeGet
<1>7. Bulk(p) \in Seq(Units)
  BY <1>5, BulkIs
<1>8. client' \in Links /\ Telling(client', Bulk(p)) /\ client'.state = "up"
  BY <1>2, <1>3, <1>6, <1>7, RepliedTells
<1>9. Fetching(client', p)
  BY <1>8 DEF Fetching
<1>10. Underway'
  BY <1>1, <1>2, <1>4, <1>9 DEF Underway, Replied
<1>11. CallTyped'
  BY <1>1, <1>2, <1>8 DEF CallInv, CallTyped
<1>12. CommitsSawAll' /\ AnswersMatch'
  BY <1>1 DEF CallInv, CommitsSawAll, AnswersMatch
<1>13. ReadSoFar'
  <2>1. client.state = "up" /\ client'.request = "none"
    BY <1>2, <1>8 DEF Waits, Telling
  <2> QED
    BY <1>1, <2>1 DEF CallInv, ReadSoFar
<1> QED
  BY <1>10, <1>11, <1>12, <1>13 DEF CallInv

LEMMA CallRanges ==
  ASSUME CallInv, ServeRange
  PROVE  CallInv'
<1>1. UNCHANGED <<history, answer, stopping>> /\ client.request = "history"
  BY DEF ServeRange, stop
<1>2. call.pc = "history" /\ Waits(client, call.pc)
  BY <1>1, Requested
<1>3. client \in Links /\ Len(history) \in Nat /\ call \in Calls /\ call.from \in Nat
      /\ call.from <= Len(history) /\ call.revision \in Nat
      /\ call.kind \in {"since", "commit"}
  BY <1>2 DEF CallInv, CallTyped, Calls
<1>4. PICK n : n = Len(history)
  OBVIOUS
<1>5. PICK to : to = IF call.kind = "since" THEN n ELSE Min({call.revision, n})
  OBVIOUS
<1>6. to \in Nat /\ (call.kind = "commit" => to = n)
  <2>1. CASE call.kind = "since"
    BY <1>3, <1>4, <1>5, <2>1
  <2>2. CASE call.kind = "commit"
    <3>1. call.revision = n
      BY <1>2, <1>4, <2>2 DEF CallInv, ReadSoFar, Waits
    <3>2. Min({n, n}) = n
      BY <1>3, <1>4, MinIs
    <3> QED
      BY <1>3, <1>4, <1>5, <2>2, <3>1, <3>2
  <2> QED
    BY <1>3, <2>1, <2>2
<1>7. PICK ps : ps = Payloads(call.from, to)
  OBVIOUS
<1>8. /\ client' = Reply(client, Array([k \in DOMAIN ps |-> Bulk(ps[k])]))
      /\ call' = [call EXCEPT !.served = to]
  BY <1>4, <1>5, <1>7 DEF ServeRange
<1>9. ps \in Seq(Seq(Units))
  BY <1>3, <1>6, <1>7, PayloadsTyped
<1>10. /\ call' \in Calls /\ call'.served = to /\ call'.pc = call.pc /\ call'.kind = call.kind
       /\ call'.from = call.from /\ call'.revision = call.revision
       /\ call'.content = call.content /\ call'.over = call.over
  BY <1>3, <1>6, <1>8 DEF Calls
<1>11. PICK parts, units : parts = Strings(ps) /\ units = Array(parts)
  OBVIOUS
<1>12. parts \in Seq(Seq(Units))
  BY <1>9, <1>11, StringsAre DEF Matched
<1>13. units \in Seq(Units) /\ units \o <<>> = units
  <2>1. FlattenSeq(parts) \in Seq(Units) /\ Line("*", Len(parts)) \in Seq(Units)
    BY <1>12, FlatTyped, LineIs DEF Tags
  <2>2. units \in Seq(Units)
    BY <1>11, <2>1, ConcatProperties DEF Array
  <2> QED
    BY <2>2, ConcatEmptySeq
<1>14. client' = Reply(client, units)
  BY <1>8, <1>11 DEF Strings
<1>15. client' \in Links /\ Telling(client', units) /\ client'.state = "up"
  BY <1>2, <1>3, <1>13, <1>14, RepliedTells
<1>16. Reading(client', Strings(ps), StringValues(ps), <<>>)
  BY <1>11, <1>13, <1>15 DEF Reading
<1>17. Underway'
  BY <1>1, <1>2, <1>4, <1>6, <1>7, <1>10, <1>16 DEF Underway, Replied
<1>18. CallTyped'
  BY <1>1, <1>2, <1>10, <1>15 DEF CallInv, CallTyped
<1>19. CommitsSawAll' /\ AnswersMatch'
  BY <1>1 DEF CallInv, CommitsSawAll, AnswersMatch
<1>20. ReadSoFar'
  <2>1. client.state = "up" /\ client'.request = "none"
    BY <1>2, <1>15 DEF Waits, Telling
  <2> QED
    BY <1>1, <1>10, <2>1 DEF CallInv, ReadSoFar
<1> QED
  BY <1>17, <1>18, <1>19, <1>20 DEF CallInv

(* What was committed stays as it was.                                     *)
LEMMA Grown ==
  ASSUME NEW h \in Seq(Entries), NEW e \in Entries, NEW g, g = Append(h, e), NEW n, n = Len(h)
  PROVE  /\ g \in Seq(Entries) /\ Len(g) = n + 1 /\ g[n + 1] = e /\ n \in Nat
         /\ \A k \in 1 .. n : g[k] = h[k]
         /\ \A k \in 1 .. n + 1 : k = n + 1 \/ k \in 1 .. n
         /\ DOMAIN h = 1 .. n /\ DOMAIN g = 1 .. n + 1 /\ 1 .. n \subseteq 1 .. n + 1
         /\ n <= n + 1 /\ n + 1 \in 1 .. n + 1 /\ \A m \in Nat : m <= n => m <= n + 1
<1>1. /\ g \in Seq(Entries) /\ Len(g) = n + 1 /\ g[n + 1] = e /\ n \in Nat
      /\ \A k \in 1 .. n : g[k] = h[k]
  OBVIOUS
<1>2. DOMAIN h = 1 .. n /\ DOMAIN g = 1 .. n + 1
  BY <1>1
<1>3. /\ \A k \in 1 .. n + 1 : k = n + 1 \/ k \in 1 .. n
      /\ 1 .. n \subseteq 1 .. n + 1
      /\ n <= n + 1 /\ n + 1 \in 1 .. n + 1 /\ \A m \in Nat : m <= n => m <= n + 1
  BY <1>1
<1> QED
  BY <1>1, <1>2, <1>3

Read(entry, n) ==
  /\ entry.content = Content(n)
  /\ \/ entry.over = Payloads(entry.from, n)
     \/ entry.from = n /\ entry.over = <<>>

LEMMA GrownSound ==
  ASSUME CallInv, NEW entry \in Entries, history' = Append(history, entry),
         Read(entry, Len(history)), answer' = answer
  PROVE  CommitsSawAll' /\ AnswersMatch'
<1>1. PICK n, g : n = Len(history) /\ g = history'
  OBVIOUS
<1>2. /\ g[n + 1] = entry /\ n \in Nat /\ \A k \in 1 .. n : g[k] = history[k]
      /\ \A k \in 1 .. n + 1 : k = n + 1 \/ k \in 1 .. n
      /\ DOMAIN history = 1 .. n /\ DOMAIN g = 1 .. n + 1 /\ 1 .. n \subseteq 1 .. n + 1
  BY <1>1, Grown DEF CallInv, CallTyped
<1>3. ASSUME NEW k \in 1 .. n + 1 PROVE Read(g[k], k - 1)
  <2>1. CASE k = n + 1
    <3>1. k - 1 = n
      BY <1>2, <2>1
    <3> QED
      BY <1>1, <1>2, <2>1, <3>1
  <2>2. CASE k \in 1 .. n
    BY <1>2, <2>2 DEF CallInv, CommitsSawAll, Read
  <2> QED
    BY <1>2, <2>1, <2>2
<1>4. CommitsSawAll'
  BY <1>1, <1>2, <1>3 DEF CommitsSawAll, Read
<1>5. AnswersMatch'
  BY <1>1, <1>2 DEF CallInv, AnswersMatch
<1> QED
  BY <1>4, <1>5

LEMMA CallCommits ==
  ASSUME CallInv, ServeCommit
  PROVE  CallInv'
<1>1. PICK e : e = [from |-> call.from, content |-> call.content, over |-> call.over]
  OBVIOUS
<1>2. /\ UNCHANGED <<answer, stopping>> /\ client.request = "commit"
      /\ call' = [call EXCEPT !.own = Len(history) + 1]
      /\ history' = Append(history, e)
      /\ client' = Reply(client, Bulk(Payload(Len(history) + 1)))
  BY <1>1 DEF ServeCommit, RunCommit, stop
<1>3. call.pc = "commit" /\ Waits(client, call.pc)
  BY <1>2, Requested
<1>4. client \in Links /\ history \in Seq(Entries) /\ call \in Calls /\ call.kind = "commit"
      /\ call.from <= Len(history) /\ call.from \in Nat
  BY <1>3 DEF CallInv, CallTyped, Calls
<1>5. e \in Entries /\ e.from = call.from /\ e.content = call.content /\ e.over = call.over
  BY <1>1, <1>4 DEF Entries, Calls
<1>6. PICK n : n = Len(history)
  OBVIOUS
<1>7. /\ history' \in Seq(Entries) /\ Len(history') = n + 1 /\ n \in Nat
      /\ n + 1 \in 1 .. n + 1 /\ \A m \in Nat : m <= n => m <= n + 1
  BY <1>2, <1>4, <1>5, <1>6, Grown
<1>8. Read(e, n)
  <2>1. client.state = "up"
    BY <1>3 DEF Waits
  <2> QED
    BY <1>2, <1>4, <1>5, <1>6, <2>1 DEF CallInv, ReadSoFar, Read
<1>9. CommitsSawAll' /\ AnswersMatch'
  BY <1>2, <1>5, <1>6, <1>8, GrownSound
<1>10. /\ call' \in Calls /\ call'.own = n + 1 /\ call'.pc = "commit" /\ call'.kind = "commit"
       /\ call'.from = call.from
  <2>1. n + 1 \in Nat
    BY <1>7
  <2>2. call' = [call EXCEPT !.own = n + 1]
    BY <1>2, <1>6
  <2>3. call \in Calls /\ call.pc = "commit" /\ call.kind = "commit"
    BY <1>3, <1>4
  <2> QED
    BY <2>1, <2>2, <2>3 DEF Calls
<1>11. PICK p : p = Payload(n + 1)
  OBVIOUS
<1>12. p \in Seq(Units) /\ Bulk(p) \in Seq(Units)
  <2>1. n + 1 \in Nat
    BY <1>7
  <2> QED
    BY <1>11, <2>1, PayloadIs, BulkIs
<1>13. client' = Reply(client, Bulk(p))
  BY <1>2, <1>6, <1>11
<1>14. client' \in Links /\ Telling(client', Bulk(p)) /\ client'.state = "up"
  BY <1>3, <1>4, <1>12, <1>13, RepliedTells
<1>15. Fetching(client', p)
  BY <1>14 DEF Fetching
<1>16. Underway'
  BY <1>7, <1>11, <1>15, <1>10 DEF Underway, Replied
<1>17. CallTyped'
  BY <1>2, <1>3, <1>4, <1>6, <1>7, <1>14, <1>10 DEF CallInv, CallTyped
<1>18. ReadSoFar'
  <2>1. client'.request = "none"
    BY <1>14 DEF Telling
  <2> QED
    BY <1>10, <2>1 DEF ReadSoFar
<1> QED
  BY <1>9, <1>16, <1>17, <1>18 DEF CallInv

LEMMA CallOthersCommit ==
  ASSUME CallInv, CommitElsewhere
  PROVE  CallInv'
<1>1. PICK n, e : n = Len(history) /\ e = [from |-> n, content |-> Content(n), over |-> <<>>]
  OBVIOUS
<1>2. /\ UNCHANGED <<client, call, answer, stopping>> /\ call.kind # "commit"
      /\ history' = Append(history, e)
  BY <1>1 DEF CommitElsewhere, RunCommit, stop
<1>3. history \in Seq(Entries) /\ n \in Nat /\ call \in Calls /\ call.from \in Nat /\ call.from <= n
  BY <1>1 DEF CallInv, CallTyped, Calls
<1>4. e \in Entries /\ Read(e, n)
  <2>1. Content(n) \in Seq(Units) /\ <<>> \in Seq(Seq(Units))
    BY <1>3, ContentIs
  <2> QED
    BY <1>1, <1>3, <2>1 DEF Entries, Read
<1>5. CommitsSawAll' /\ AnswersMatch'
  BY <1>1, <1>2, <1>4, GrownSound
<1>6. /\ history' \in Seq(Entries) /\ Len(history') = n + 1
      /\ \A m \in Nat : m <= n => m <= n + 1
  BY <1>1, <1>2, <1>3, <1>4, Grown
<1>7. call.pc = "idle" \/ call.pc = "history"
  BY <1>2, <1>3 DEF CallInv, CallTyped, Calls
<1>8. CallTyped'
  BY <1>2, <1>3, <1>6 DEF CallInv, CallTyped
<1>9. Underway'
  BY <1>2, <1>7 DEF CallInv, Underway, Replied
<1>10. ReadSoFar'
  BY <1>2 DEF ReadSoFar
<1> QED
  BY <1>5, <1>8, <1>9, <1>10 DEF CallInv

-----------------------------------------------------------------------------
(* Calls: what the threads do.                                             *)

LEMMA NoCallIs ==
  NoCall \in Calls /\ NoCall.pc = "idle" /\ NoCall.kind = "none" /\ NoCall.from = 0
  BY DEF NoCall, Calls

LEMMA CallBegins ==
  ASSUME CallInv, NEW kind, NEW pc, NEW from \in 0 .. Len(history), Begin(kind, pc, from),
         (kind = "since" /\ pc = "history") \/ (kind = "commit" /\ pc = "content")
  PROVE  CallInv'
<1>1. /\ call.pc = "idle" /\ stopping = "no" /\ UNCHANGED <<history, stopping>>
      /\ call' = [NoCall EXCEPT !.kind = kind, !.pc = pc, !.from = from]
      /\ client' = Command(Connected(client), pc) /\ answer' = NoAnswer
  BY DEF Begin, stop
<1>2. client \in Links /\ Idle(client) /\ Len(history) \in Nat
  BY <1>1 DEF CallInv, CallTyped
<1>3. from \in Nat /\ from <= Len(history)
  BY <1>2
<1>4. /\ call' \in Calls /\ call'.kind = kind /\ call'.pc = pc /\ call'.from = from
      /\ call'.over = <<>>
  <2>1. call' = [kind |-> kind, pc |-> pc, from |-> from, revision |-> 0, content |-> <<>>,
                 over |-> <<>>, served |-> 0, own |-> 0]
    BY <1>1 DEF NoCall
  <2>2. kind \in {"none", "since", "commit"}
        /\ pc \in {"idle", "content", "revision", "history", "commit"}
    OBVIOUS
  <2>3. <<>> \in Seq(Units) /\ <<>> \in Seq(Seq(Units))
    OBVIOUS
  <2> QED
    BY <1>3, <2>1, <2>2, <2>3 DEF Calls
<1>5. Connected(client) \in Links /\ Idle(Connected(client)) /\ pc \in Names
  BY <1>2, ConnectedIs DEF Names
<1>6. client' \in Links /\ (Waits(client', pc) \/ Failing(client'))
  BY <1>1, <1>5, Asked
<1>7. CallTyped' /\ Underway'
  BY <1>1, <1>3, <1>4, <1>6 DEF CallInv, CallTyped, Underway
<1>8. ReadSoFar'
  <2>1. client'.request # "commit"
    BY <1>6, NoRequest DEF Waits
  <2> QED
    BY <1>4, <2>1 DEF ReadSoFar
<1>9. CommitsSawAll' /\ AnswersMatch'
  BY <1>1 DEF CallInv, CommitsSawAll, AnswersMatch, NoAnswer
<1> QED
  BY <1>7, <1>8, <1>9 DEF CallInv

(* What the call gets for a string, and for an array.                      *)
LEMMA StringAnswered ==
  ASSUME CallInv, Answered(client), NEW p,
         call.pc # "idle", Replied => Fetching(client, p), NEW nx, nx = AfterAnswer(client)
  PROVE  /\ nx \in Links /\ Idle(nx) /\ nx.state = client.state
         /\ client.value = Value("Bulk", p) \/ (client.value = ErrorValue /\ nx.state # "up")
<1>1. client \in Links
  BY DEF CallInv, CallTyped
<1>2. CASE Failing(client)
  BY <1>1, <1>2, FailingUsed DEF Stays
<1>3. CASE Fetching(client, p)
  BY <1>1, <1>3, FetchingUsed DEF Stays
<1>4. ~Waits(client, call.pc)
  BY WaitsReadsNot
<1> QED
  BY <1>2, <1>3, <1>4 DEF CallInv, Underway

LEMMA ArrayAnswered ==
  ASSUME CallInv, Answered(client), call.pc = "history", NEW nx, nx = AfterAnswer(client),
         NEW ps, ps = Payloads(call.from, call.served)
  PROVE  /\ nx \in Links /\ Idle(nx) /\ nx.state = client.state
         /\ ParseHistory(client.value) \in Seq(Seq(Units))
         /\ IsPrefix(ParseHistory(client.value), ps)
         /\ nx.state # "down" => ParseHistory(client.value) = ps
         /\ nx.state # "down" /\ call.kind = "commit" => call.served = Len(history)
<1>1. client \in Links /\ client.value \in Values /\ ps \in Seq(Seq(Units))
  BY PayloadsTyped DEF CallInv, CallTyped, Links, Calls
<1>2. ParseHistory(client.value) \in Seq(Seq(Units))
  BY <1>1, ParsedTyped
<1>3. CASE Failing(client)
  <2>1. nx \in Links /\ Idle(nx) /\ Stays(nx, client) /\ client.value = ErrorValue
    BY <1>1, <1>3, FailingUsed
  <2>2. nx.state = "down"
    BY <1>3, <2>1 DEF Failing, Idle, Answered, Lost, Broken, Stays
  <2> QED
    BY <1>1, <1>2, <2>1, <2>2, RangeParsed DEF Stays
<1>4. CASE Replied
  <2>1. /\ Reading(client, Strings(ps), StringValues(ps), <<>>)
        /\ call.kind = "commit" => call.served = Len(history)
    BY <1>4 DEF Replied
  <2>2. /\ Strings(ps) \in Seq(Seq(Units)) /\ Len(Strings(ps)) = Len(ps) /\ <<>> \in Seq(Units)
    BY <1>1, StringsAre DEF Matched
  <2>3. /\ nx \in Links /\ Telling(nx, <<>>) /\ Stays(nx, client)
        /\ \/ Whole(client.value, StringValues(ps), Len(ps))
           \/ /\ nx.state = "down"
              /\ client.value = ErrorValue \/ PartOf(client.value, StringValues(ps), Len(ps))
    <3>1. PICK parts, values, m :
            parts = Strings(ps) /\ values = StringValues(ps) /\ m = Len(ps)
      OBVIOUS
    <3>2. /\ parts \in Seq(Seq(Units)) /\ Len(parts) = m /\ <<>> \in Seq(Units)
          /\ Reading(client, parts, values, <<>>)
      BY <2>1, <2>2, <3>1
    <3>3. Used(nx, client, values, Len(parts), <<>>)
      BY <1>1, <3>2, ReadingUsed
    <3> QED
      BY <3>1, <3>2, <3>3 DEF Used
  <2>4. Idle(nx) /\ nx.state = client.state
    BY <2>3, IdleTells DEF Stays
  <2> QED
    BY <1>1, <1>2, <2>1, <2>3, <2>4, RangeParsed
<1>5. ~Waits(client, call.pc)
  BY WaitsReadsNot
<1> QED
  BY <1>3, <1>4, <1>5 DEF CallInv, Underway

LEMMA ContentArrives ==
  ASSUME CallInv, ContentRead
  PROVE  CallInv'
<1>1. /\ call.pc = "content" /\ Answered(client) /\ UNCHANGED <<history, answer, stopping>>
      /\ call' = [call EXCEPT !.pc = "revision", !.content = client.value.bulk]
      /\ client' = Command(AfterAnswer(client), "revision")
  BY DEF ContentRead, Continue, stop
<1>2. /\ client \in Links /\ client.value \in Values /\ call \in Calls /\ call.kind = "commit"
      /\ client.value.bulk \in Seq(Units) /\ Len(history) \in Nat
  BY <1>1 DEF CallInv, CallTyped, Links, Values
<1>3. PICK nx : nx = AfterAnswer(client)
  OBVIOUS
<1>4. Replied => Fetching(client, Content(Len(history)))
  BY <1>1 DEF Replied
<1>5. /\ nx \in Links /\ Idle(nx) /\ nx.state = client.state
      /\ \/ client.value = Value("Bulk", Content(Len(history)))
         \/ client.value = ErrorValue /\ nx.state # "up"
  BY <1>1, <1>3, <1>4, StringAnswered
<1>6. /\ client' \in Links /\ client'.state = nx.state
      /\ Waits(client', "revision") \/ Failing(client')
  BY <1>1, <1>3, <1>5, Asked DEF Names
<1>7. /\ call' \in Calls /\ call'.pc = "revision" /\ call'.kind = "commit"
      /\ call'.content = client.value.bulk /\ call'.from = call.from /\ call'.over = call.over
  BY <1>1, <1>2 DEF Calls
<1>8. CallTyped' /\ Underway'
  BY <1>1, <1>6, <1>7 DEF CallInv, CallTyped, Underway
<1>9. ReadSoFar'
  <2>1. client'.state = "up" => call'.content = Content(Len(history))
    BY <1>5, <1>6, <1>7, ValuesDiffer
  <2>2. client'.request # "commit"
    BY <1>6, NoRequest DEF Waits
  <2> QED
    BY <1>1, <1>7, <2>1, <2>2 DEF ReadSoFar
<1>10. CommitsSawAll' /\ AnswersMatch'
  BY <1>1 DEF CallInv, CommitsSawAll, AnswersMatch
<1> QED
  BY <1>8, <1>9, <1>10 DEF CallInv

LEMMA RevisionArrives ==
  ASSUME CallInv, RevisionRead
  PROVE  CallInv'
<1>1. PICK n, bulk, r, start, next :
        /\ n = Len(history) /\ bulk = client.value.bulk
        /\ r = IF bulk = <<>> THEN 0 ELSE Head(bulk).n
        /\ start = Min({call.from, r})
        /\ next = IF start < r THEN "history" ELSE "commit"
  OBVIOUS
<1>2. /\ call.pc = "revision" /\ Answered(client) /\ UNCHANGED <<history, answer, stopping>>
      /\ call' = [call EXCEPT !.pc = next, !.revision = r, !.from = start]
      /\ client' = Command(AfterAnswer(client), next)
  BY <1>1 DEF RevisionRead, Continue, stop
<1>3. /\ client \in Links /\ call \in Calls /\ call.kind = "commit" /\ n \in Nat
      /\ call.from \in Nat /\ call.from <= n
  BY <1>1, <1>2 DEF CallInv, CallTyped, Calls
<1>4. bulk \in Seq(Units) /\ r \in Nat
  <2>1. bulk \in Seq(Units)
    BY <1>1, <1>3 DEF Links, Values
  <2>2. bulk # <<>> => Head(bulk) \in Units
    BY <2>1
  <2> QED
    BY <1>1, <2>1, <2>2 DEF Units
<1>5. PICK nx : nx = AfterAnswer(client)
  OBVIOUS
<1>6. Replied => Fetching(client, <<Unit("number", n)>>)
  BY <1>1, <1>2 DEF Replied
<1>7. /\ nx \in Links /\ Idle(nx) /\ nx.state = client.state
      /\ \/ client.value = Value("Bulk", <<Unit("number", n)>>)
         \/ client.value = ErrorValue /\ nx.state # "up"
  BY <1>2, <1>5, <1>6, StringAnswered
<1>8. nx.state = "up" => r = n
  <2>1. PICK p : p = <<Unit("number", n)>>
    OBVIOUS
  <2>2. p # <<>> /\ Head(p).n = n
    BY <1>3, <2>1, ContentIs
  <2>3. nx.state = "up" => client.value = Value("Bulk", p)
    BY <1>7, <2>1
  <2>4. nx.state = "up" => bulk = p
    BY <1>1, <2>3, ValuesDiffer
  <2> QED
    BY <1>1, <2>2, <2>4
<1>9. start \in Nat /\ start <= n /\ start <= call.from /\ (start < r => start = call.from)
      /\ (~(start < r) => start = r)
  <2>1. start = IF call.from <= r THEN call.from ELSE r
    BY <1>1, <1>3, <1>4, MinIs
  <2> QED
    BY <1>3, <1>4, <2>1
<1>10. next \in Names /\ next \in {"history", "commit"}
  BY <1>1 DEF Names
<1>11. /\ client' \in Links /\ client'.state = nx.state
       /\ Waits(client', next) \/ Failing(client')
  BY <1>2, <1>5, <1>7, <1>10, Asked
<1>12. /\ call' \in Calls /\ call'.pc = next /\ call'.kind = "commit" /\ call'.revision = r
       /\ call'.content = call.content /\ call'.from = start /\ call'.over = call.over
  BY <1>2, <1>3, <1>4, <1>9, <1>10 DEF Calls
<1>13. stopping = "no"
  BY <1>2 DEF CallInv, CallTyped
<1>14. CallTyped'
  BY <1>1, <1>2, <1>9, <1>10, <1>11, <1>12, <1>13 DEF CallInv, CallTyped
<1>15. Underway'
  BY <1>11, <1>12 DEF Underway
<1>16. ReadSoFar'
  <2>1. SUFFICES ASSUME client'.state = "up"
                 PROVE  /\ call'.content = Content(n)
                        /\ next = "history" => r = n /\ start < r
                        /\ next = "commit" => start = n /\ call'.over = <<>>
    <3>1. client'.request = "commit" => next = "commit"
      BY <1>11, NoRequest DEF Waits
    <3> QED
      BY <1>1, <1>2, <1>12, <2>1, <3>1 DEF ReadSoFar
  <2>2. client.state = "up" /\ r = n
    BY <1>7, <1>8, <1>11, <2>1
  <2>3. call.content = Content(n)
    BY <1>1, <1>2, <1>3, <2>2 DEF CallInv, ReadSoFar
  <2> QED
    <3>1. call'.over = <<>>
      BY <1>2, <1>12 DEF CallInv, CallTyped
    <3>2. ~(start < r) => start = n
      BY <1>9, <2>2
    <3> QED
      BY <1>1, <1>12, <2>2, <2>3, <3>1, <3>2
<1>17. CommitsSawAll' /\ AnswersMatch'
  BY <1>2 DEF CallInv, CommitsSawAll, AnswersMatch
<1> QED
  BY <1>14, <1>15, <1>16, <1>17 DEF CallInv

LEMMA HistoryArrives ==
  ASSUME CallInv, HistoryRead
  PROVE  CallInv'
<1>1. PICK over : over = ParseHistory(client.value)
  OBVIOUS
<1>2. /\ call.kind = "commit" /\ call.pc = "history" /\ Answered(client)
      /\ UNCHANGED <<history, answer, stopping>>
      /\ call' = [call EXCEPT !.pc = "commit", !.over = over]
      /\ client' = Command(AfterAnswer(client), "commit")
  BY <1>1 DEF HistoryRead, Continue, stop
<1>3. PICK nx, ps : nx = AfterAnswer(client) /\ ps = Payloads(call.from, call.served)
  OBVIOUS
<1>4. /\ nx \in Links /\ Idle(nx) /\ nx.state = client.state /\ over \in Seq(Seq(Units))
      /\ nx.state # "down" => over = ps /\ call.served = Len(history)
  BY <1>1, <1>2, <1>3, ArrayAnswered
<1>5. call \in Calls
  BY DEF CallInv, CallTyped
<1>6. /\ client' \in Links /\ client'.state = nx.state
      /\ Waits(client', "commit") \/ Failing(client')
  BY <1>2, <1>3, <1>4, Asked DEF Names
<1>7. /\ call' \in Calls /\ call'.pc = "commit" /\ call'.kind = "commit"
      /\ call'.content = call.content /\ call'.from = call.from /\ call'.over = over
  BY <1>2, <1>4, <1>5 DEF Calls
<1>8. CallTyped' /\ Underway'
  BY <1>2, <1>6, <1>7 DEF CallInv, CallTyped, Underway
<1>9. ReadSoFar'
  <2>1. client'.state = "up" => /\ call'.content = Content(Len(history))
                                /\ over = Payloads(call.from, Len(history))
    BY <1>2, <1>3, <1>4, <1>6, <1>7 DEF CallInv, ReadSoFar
  <2> QED
    BY <1>2, <1>7, <2>1 DEF ReadSoFar
<1>10. CommitsSawAll' /\ AnswersMatch'
  BY <1>2 DEF CallInv, CommitsSawAll, AnswersMatch
<1> QED
  BY <1>8, <1>9, <1>10 DEF CallInv

(* A call has ended.                                                       *)
LEMMA CallEnds ==
  ASSUME CallInv, UNCHANGED <<history, stopping>>, call' = NoCall, client' \in Links,
         Idle(client'), AnswersMatch'
  PROVE  CallInv'
<1>1. history \in Seq(Entries) /\ Len(history) \in Nat
  BY DEF CallInv, CallTyped
<1>2. CallTyped'
  BY <1>1, NoCallIs DEF CallTyped
<1>3. Underway' /\ ReadSoFar'
  BY NoCallIs DEF Underway, ReadSoFar
<1>4. CommitsSawAll'
  BY DEF CallInv, CommitsSawAll
<1> QED
  BY <1>2, <1>3, <1>4 DEF CallInv

LEMMA SinceEnds ==
  ASSUME CallInv, SinceReturns
  PROVE  CallInv'
<1>1. PICK ops : ops = ParseHistory(client.value)
  OBVIOUS
<1>2. /\ call.pc = "history" /\ Answered(client) /\ UNCHANGED <<history, stopping>>
      /\ client' = AfterAnswer(client) /\ call' = NoCall
      /\ answer' = [kind |-> "since", from |-> call.from, ops |-> ops, served |-> call.served,
                    own |-> call.own, linked |-> client'.state # "down"]
  BY <1>1 DEF SinceReturns, Returned, stop
<1>3. PICK ps : ps = Payloads(call.from, call.served)
  OBVIOUS
<1>4. /\ client' \in Links /\ Idle(client') /\ IsPrefix(ops, ps)
      /\ client'.state # "down" => ops = ps
  BY <1>1, <1>2, <1>3, ArrayAnswered
<1>5. AnswersMatch'
  BY <1>2, <1>3, <1>4 DEF AnswersMatch
<1> QED
  BY <1>2, <1>4, <1>5, CallEnds

LEMMA CommitEnds ==
  ASSUME CallInv, CommitReturns
  PROVE  CallInv'
<1>1. PICK value : value = client.value
  OBVIOUS
<1>2. /\ call.pc = "commit" /\ Answered(client) /\ UNCHANGED <<history, stopping>>
      /\ client' = AfterAnswer(client) /\ call' = NoCall
      /\ answer'.kind = IF value.type = "Bulk" THEN "commit" ELSE "error"
      /\ answer'.ops = <<value.bulk>> /\ answer'.own = call.own
  BY <1>1 DEF CommitReturns, Returned, stop
<1>3. client \in Links /\ history \in Seq(Entries)
  BY DEF CallInv, CallTyped
<1>4. ~Waits(client, call.pc)
  BY <1>2, WaitsReadsNot
<1>5. CASE Failing(client)
  <2>1. client' \in Links /\ Idle(client') /\ value = ErrorValue
    BY <1>1, <1>2, <1>3, <1>5, FailingUsed
  <2>2. answer'.kind = "error"
    BY <1>2, <2>1, ValuesDiffer
  <2>3. AnswersMatch'
    BY <2>2 DEF AnswersMatch
  <2> QED
    BY <1>2, <2>1, <2>3, CallEnds
<1>6. CASE Replied
  <2>1. PICK j \in 1 .. Len(history) : j = call.own /\ Fetching(client, Payload(j))
    BY <1>2, <1>6 DEF Replied
  <2>2. /\ client' \in Links /\ Idle(client')
        /\ value = Value("Bulk", Payload(j)) \/ value = ErrorValue
    BY <1>1, <1>2, <1>3, <2>1, FetchingUsed
  <2>3. AnswersMatch'
    <3>1. CASE value = Value("Bulk", Payload(j))
      <4>1. answer'.kind = "commit" /\ answer'.ops = <<Payload(j)>>
        BY <1>2, <3>1, ValuesDiffer
      <4>2. j \in DOMAIN history
        BY <1>3
      <4> QED
        BY <1>2, <2>1, <4>1, <4>2 DEF AnswersMatch
    <3>2. CASE value = ErrorValue
      <4>1. answer'.kind = "error"
        BY <1>2, <3>2, ValuesDiffer
      <4> QED
        BY <4>1 DEF AnswersMatch
    <3> QED
      BY <2>2, <3>1, <3>2
  <2> QED
    BY <1>2, <2>2, <2>3, CallEnds
<1> QED
  BY <1>2, <1>4, <1>5, <1>6 DEF CallInv, Underway

(* No call is under way.                                                   *)
LEMMA CallAside ==
  ASSUME CallInv, call.pc = "idle", UNCHANGED <<history, call, answer>>, client' \in Links,
         Idle(client')
  PROVE  CallInv'
<1>1. CallTyped'
  BY DEF CallInv, CallTyped
<1>2. call.kind = "none"
  BY NoCallIs DEF CallInv, CallTyped
<1>3. Underway' /\ ReadSoFar'
  BY <1>2 DEF Underway, ReadSoFar
<1>4. CommitsSawAll' /\ AnswersMatch'
  BY DEF CallInv, CommitsSawAll, AnswersMatch
<1> QED
  BY <1>1, <1>3, <1>4 DEF CallInv

LEMMA CallRecovers ==
  ASSUME CallInv, Recovered
  PROVE  CallInv'
<1>1. /\ call.pc = "idle" /\ UNCHANGED <<history, call, answer>>
      /\ client' = IF client.state = "cut" THEN Disconnect(client) ELSE Connected(client)
  BY DEF Recovered
<1>2. client \in Links /\ Idle(client)
  BY <1>1 DEF CallInv, CallTyped
<1>3. client' \in Links /\ Idle(client')
  BY <1>1, <1>2, ConnectIs, ConnectedIs DEF Idle
<1> QED
  BY <1>1, <1>3, CallAside

LEMMA CallStops ==
  ASSUME CallInv, Stop \/ StopJoins
  PROVE  CallInv'
<1>1. call.pc = "idle" /\ UNCHANGED <<history, call, answer>>
  BY NoCallIs DEF Stop, StopJoins, CallInv, CallTyped, calls
<1>2. client \in Links /\ Idle(client)
  BY <1>1 DEF CallInv, CallTyped
<1>3. client' = client \/ client' = Disconnect(client)
  BY DEF Stop, StopJoins, calls
<1>4. client' \in Links /\ Idle(client')
  <2>1. CASE client' = client
    BY <1>2, <2>1
  <2>2. CASE client' = Disconnect(client)
    <3>1. client.value = NoValue /\ client.todo = 0
      BY <1>2 DEF Idle
    <3>2. Disconnect(client) \in Links /\ Idle(Disconnect(client))
      BY <1>2, <3>1, ConnectIs
    <3> QED
      BY <2>2, <3>2
  <2> QED
    BY <1>3, <2>1, <2>2
<1> QED
  BY <1>1, <1>4, CallAside

LEMMA CallUnchanged ==
  ASSUME CallInv, UNCHANGED <<history, client, call, answer, stopping>>
  PROVE  CallInv'
<1>1. CallTyped' /\ Underway' /\ ReadSoFar'
  BY DEF CallInv, CallTyped, Underway, Replied, ReadSoFar
<1>2. CommitsSawAll' /\ AnswersMatch'
  BY DEF CallInv, CommitsSawAll, AnswersMatch
<1> QED
  BY <1>1, <1>2 DEF CallInv

LEMMA CallPublishes ==
  ASSUME CallInv, StopPublishes
  PROVE  CallInv'
<1>1. /\ stopping = "publish" /\ stopping' = "join"
      /\ UNCHANGED <<history, client, call, answer>>
  BY DEF StopPublishes, calls
<1>2. call.pc = "idle"
  BY <1>1 DEF CallInv, CallTyped
<1>3. client' \in Links /\ Idle(client')
  BY <1>1, <1>2 DEF CallInv, CallTyped
<1> QED
  BY <1>1, <1>2, <1>3, CallAside

LEMMA CallStarts ==
  ASSUME Init
  PROVE  CallInv
<1>1. /\ history = <<>> /\ client = Connect(Disconnected) /\ call = NoCall /\ answer = NoAnswer
      /\ stopping = "no"
  BY DEF Init
<1>2. Disconnected \in Links /\ Disconnected.value = NoValue /\ Disconnected.todo = 0
  BY ValuesDiffer DEF Disconnected, Links, Names
<1>3. client \in Links /\ Idle(client)
  BY <1>1, <1>2, ConnectIs
<1>4. CallTyped
  <2>1. history \in Seq(Entries) /\ Len(history) = 0
    BY <1>1
  <2> QED
    BY <1>1, <1>3, <2>1, NoCallIs DEF CallTyped
<1>5. Underway /\ ReadSoFar
  BY <1>1, NoCallIs DEF Underway, ReadSoFar
<1>6. CommitsSawAll /\ AnswersMatch
  BY <1>1 DEF CommitsSawAll, AnswersMatch, NoAnswer
<1> QED
  BY <1>4, <1>5, <1>6 DEF CallInv

LEMMA CallSteps ==
  ASSUME CallInv, [Next]_vars
  PROVE  CallInv'
<1>1. CASE UNCHANGED vars
  BY <1>1, CallUnchanged DEF vars, calls, stop
<1>2. CASE ServeGet \/ ServeRange \/ ServeCommit
  BY <1>2, CallGets, CallRanges, CallCommits
<1>3. CASE ServeSubscribe
  BY <1>3, CallUnchanged DEF ServeSubscribe, calls, stop
<1>4. CASE ReceiveReply \/ ReadReply
  BY <1>4, CallReceives, CallReads
<1>5. CASE ContentRead \/ RevisionRead \/ HistoryRead
  BY <1>5, ContentArrives, RevisionArrives, HistoryArrives
<1>6. CASE SinceReturns \/ CommitReturns
  BY <1>6, SinceEnds, CommitEnds
<1>7. CASE SubscriberStarts \/ ReceivePush \/ ReadPush \/ Subscribed \/ Loop \/ Reconnect
  BY <1>7, CallUnchanged
     DEF SubscriberStarts, ReceivePush, ReadPush, Subscribed, Loop, Reconnect, calls, stop
<1>8. CASE Recovered
  BY <1>8, CallRecovers
<1>9. CASE MessageFails \/ MessageIgnored \/ ShutdownRead \/ MessageRead
  BY <1>9, CallUnchanged
     DEF MessageFails, MessageIgnored, ShutdownRead, MessageRead, NextMessage, calls, stop
<1>10. CASE OperationsSince
  <2>1. PICK from \in 0 .. Len(history) : Begin("since", "history", from)
    BY <1>10 DEF OperationsSince
  <2> QED
    BY <2>1, CallBegins
<1>11. CASE Commit
  <2>1. PICK base \in 0 .. Len(history) : Begin("commit", "content", base)
    BY <1>11 DEF Commit
  <2> QED
    BY <2>1, CallBegins
<1>12. CASE CommitElsewhere
  BY <1>12, CallOthersCommit
<1>13. CASE Stop \/ StopJoins
  BY <1>13, CallStops
<1>14. CASE StopPublishes
  BY <1>14, CallPublishes
<1>15. CASE Break
  BY <1>15, CallBreaks
<1>16. CASE RedisStarts
  BY <1>16, CallUnchanged DEF RedisStarts, calls, stop
<1> QED
  BY <1>1, <1>2, <1>3, <1>4, <1>5, <1>6, <1>7, <1>8, <1>9, <1>10, <1>11, <1>12, <1>13,
     <1>14, <1>15, <1>16 DEF Next, RedisRuns, CallRuns, Listens, Stops

-----------------------------------------------------------------------------
(* The messages that are on their way to the subscriber.                   *)

(* What a message tells of: the operation q after p, or none.              *)
Steps(m, p, q) == (m = Shutdown /\ q = p) \/ (q = p + 1 /\ m = Payload(q))

LEMMA AnnounceMore ==
  ASSUME NEW ms \in Seq(Seq(Units)), NEW from \in Nat, NEW to \in Nat, Announces(ms, from, to),
         NEW p \in Seq(Units), NEW q \in Nat, Steps(p, to, q)
  PROVE  Append(ms, p) \in Seq(Seq(Units)) /\ Announces(Append(ms, p), from, q)
<1>1. PICK n, g, S : n = Len(ms) /\ g = Append(ms, p) /\ S = Seq(Units)
  OBVIOUS
<1>2. PICK c \in [0 .. n -> 0 .. to] : Counts(c, ms, from, to)
  BY <1>1 DEF Announces
<1>3. n \in Nat /\ g \in Seq(S) /\ Len(g) = n + 1 /\ g[n + 1] = p /\ \A k \in 1 .. n : g[k] = ms[k]
  BY <1>1
<1>4. to <= q /\ 0 .. to \subseteq 0 .. q
  BY DEF Steps
<1>5. PICK d : d = [j \in 0 .. n + 1 |-> IF j = n + 1 THEN q ELSE c[j]]
  OBVIOUS
<1>6. \A j \in 0 .. n + 1 : j = n + 1 \/ (j # n + 1 /\ j \in 0 .. n /\ c[j] \in 0 .. q)
  BY <1>2, <1>3, <1>4
<1>7. d[n + 1] = q /\ \A j \in 0 .. n : d[j] = c[j]
  <2>1. n + 1 \in 0 .. n + 1 /\ \A j \in 0 .. n : j \in 0 .. n + 1 /\ j # n + 1
    BY <1>3
  <2> QED
    BY <1>5, <2>1
<1>8. d \in [0 .. n + 1 -> 0 .. q]
  <2>1. q \in 0 .. q
    OBVIOUS
  <2> QED
    BY <1>5, <1>6, <2>1
<1>9. d[0] = from /\ d[n] = to
  BY <1>1, <1>2, <1>3, <1>7 DEF Counts
<1>10. ASSUME NEW j \in 1 .. n + 1
       PROVE  (g[j] = Shutdown /\ d[j] = d[j - 1]) \/ (d[j] = d[j - 1] + 1 /\ g[j] = Payload(d[j]))
  <2>1. CASE j = n + 1
    <3>1. j - 1 = n /\ g[j] = p /\ d[j] = q
      BY <1>3, <1>7, <2>1
    <3> QED
      BY <1>9, <3>1 DEF Steps
  <2>2. CASE j # n + 1
    <3>1. j \in 1 .. n /\ j \in 0 .. n /\ j - 1 \in 0 .. n
      BY <1>3, <2>2
    <3>2. g[j] = ms[j] /\ d[j] = c[j] /\ d[j - 1] = c[j - 1]
      BY <1>3, <1>7, <3>1
    <3> QED
      BY <1>1, <1>2, <3>1, <3>2 DEF Counts
  <2> QED
    BY <2>1, <2>2
<1>11. Counts(d, g, from, q)
  BY <1>3, <1>7, <1>9, <1>10 DEF Counts
<1> QED
  BY <1>1, <1>3, <1>8, <1>11 DEF Announces

LEMMA AnnounceFirst ==
  ASSUME NEW ms \in Seq(Seq(Units)), ms # <<>>, NEW from \in Nat, NEW to \in Nat,
         Announces(ms, from, to)
  PROVE  /\ Head(ms) \in Seq(Units) /\ Tail(ms) \in Seq(Seq(Units))
         /\ \E q \in 0 .. to : Steps(Head(ms), from, q) /\ Announces(Tail(ms), q, to)
<1>1. PICK n, g, S : n = Len(ms) /\ g = Tail(ms) /\ S = Seq(Units)
  OBVIOUS
<1>2. PICK c \in [0 .. n -> 0 .. to] : Counts(c, ms, from, to)
  BY <1>1 DEF Announces
<1>3. n \in Nat /\ n # 0 /\ 1 \in 1 .. n /\ 1 \in 0 .. n /\ n - 1 \in Nat /\ 1 - 1 = 0
  BY <1>1
<1>4. g \in Seq(S) /\ Len(g) = n - 1 /\ Head(ms) = ms[1] /\ ms[1] \in S
      /\ \A k \in 1 .. n - 1 : g[k] = ms[k + 1]
  BY <1>1, <1>3
<1>5. PICK m : m = n - 1
  OBVIOUS
<1>6. m \in Nat /\ m + 1 = n /\ Len(g) = m
      /\ \A j \in 0 .. m : j + 1 \in 0 .. n
  BY <1>3, <1>4, <1>5
<1>7. PICK d : d = [j \in 0 .. m |-> c[j + 1]]
  OBVIOUS
<1>8. d \in [0 .. m -> 0 .. to]
  BY <1>2, <1>6, <1>7
<1>9. \A j \in 0 .. m : d[j] = c[j + 1]
  BY <1>7
<1>10. PICK q : q = c[1]
  OBVIOUS
<1>11. q \in 0 .. to /\ Steps(Head(ms), from, q)
  <2>1. (ms[1] = Shutdown /\ c[1] = c[0]) \/ (c[1] = c[0] + 1 /\ ms[1] = Payload(c[1]))
    BY <1>1, <1>2, <1>3 DEF Counts
  <2> QED
    BY <1>2, <1>3, <1>4, <1>10, <2>1 DEF Steps, Counts
<1>12. d[0] = q /\ d[m] = to
  <2>1. 0 \in 0 .. m /\ m \in 0 .. m /\ 0 + 1 = 1
    BY <1>6
  <2> QED
    BY <1>1, <1>2, <1>6, <1>9, <1>10, <2>1 DEF Counts
<1>13. ASSUME NEW j \in 1 .. m
       PROVE  (g[j] = Shutdown /\ d[j] = d[j - 1]) \/ (d[j] = d[j - 1] + 1 /\ g[j] = Payload(d[j]))
  <2>1. j + 1 \in 1 .. n /\ j \in 0 .. m /\ j - 1 \in 0 .. m /\ (j - 1) + 1 = j /\ (j + 1) - 1 = j
    BY <1>6
  <2>2. PICK i : i = j + 1
    OBVIOUS
  <2>3. (ms[i] = Shutdown /\ c[i] = c[i - 1]) \/ (c[i] = c[i - 1] + 1 /\ ms[i] = Payload(c[i]))
    BY <1>1, <1>2, <2>1, <2>2 DEF Counts
  <2>4. g[j] = ms[i] /\ d[j] = c[i] /\ d[j - 1] = c[j] /\ i - 1 = j
    BY <1>4, <1>5, <1>9, <2>1, <2>2
  <2> QED
    BY <2>3, <2>4
<1>14. Counts(d, g, q, to)
  BY <1>6, <1>12, <1>13 DEF Counts
<1>15. Announces(g, q, to)
  BY <1>6, <1>8, <1>14 DEF Announces
<1> QED
  BY <1>1, <1>4, <1>11, <1>15

LEMMA AnnounceNone ==
  ASSUME NEW from \in Nat, NEW to \in Nat
  PROVE  Announces(<<>>, from, to) <=> from = to
<1>1. Len(<<>>) = 0 /\ 1 .. 0 = {} /\ 0 .. 0 = {0}
  OBVIOUS
<1>2. ASSUME Announces(<<>>, from, to) PROVE from = to
  BY <1>1, <1>2 DEF Announces, Counts
<1>3. ASSUME from = to PROVE Announces(<<>>, from, to)
  <2>1. PICK c : c = [j \in 0 .. 0 |-> to]
    OBVIOUS
  <2>2. c \in [0 .. 0 -> 0 .. to] /\ c[0] = to
    BY <1>1, <2>1
  <2>3. Counts(c, <<>>, from, to)
    BY <1>1, <1>3, <2>2 DEF Counts
  <2> QED
    BY <1>1, <2>2, <2>3 DEF Announces
<1> QED
  BY <1>2, <1>3

Messages(ms) == [i \in DOMAIN ms |-> Push("message", Bulk(ms[i]))]

LEMMA MessageIs ==
  ASSUME NEW p \in Seq(Units)
  PROVE  /\ Matched(Parts("message", Bulk(p)), PartValues("message", Value("Bulk", p)))
         /\ Len(Parts("message", Bulk(p))) = 3
         /\ Push("message", Bulk(p)) = Array(Parts("message", Bulk(p)))
         /\ Push("message", Bulk(p)) \in Seq(Units)
<1>1. PICK last, value : last = Bulk(p) /\ value = Value("Bulk", p)
  OBVIOUS
<1>2. Readable(last, value) /\ "message" \in Tags
  BY <1>1 DEF Readable, Tags
<1> QED
  BY <1>1, <1>2, PartsAre

LEMMA MessagesTyped ==
  ASSUME NEW ms \in Seq(Seq(Units))
  PROVE  /\ Messages(ms) \in Seq(Seq(Units)) /\ Len(Messages(ms)) = Len(ms)
         /\ \A i \in 1 .. Len(ms) : Messages(ms)[i] = Push("message", Bulk(ms[i]))
         /\ Pushes(ms) = FlattenSeq(Messages(ms)) /\ Pushes(ms) \in Seq(Units)
<1>1. PICK n, S, s : n = Len(ms) /\ S = Seq(Units) /\ s = Messages(ms)
  OBVIOUS
<1>2. n \in Nat /\ DOMAIN ms = 1 .. n /\ \A i \in 1 .. n : ms[i] \in S
  BY <1>1
<1>3. \A i \in 1 .. n : Push("message", Bulk(ms[i])) \in S
  BY <1>1, <1>2, MessageIs
<1>4. s = [i \in 1 .. n |-> Push("message", Bulk(ms[i]))]
  BY <1>1, <1>2 DEF Messages
<1>5. s \in Seq(S) /\ Len(s) = n /\ \A i \in 1 .. n : s[i] = Push("message", Bulk(ms[i]))
  BY <1>2, <1>3, <1>4
<1>6. Pushes(ms) = FlattenSeq(s)
  BY <1>1 DEF Pushes, Messages
<1>7. FlattenSeq(s) \in Seq(Units)
  BY <1>1, <1>5, FlatTyped
<1> QED
  BY <1>1, <1>5, <1>6, <1>7

LEMMA PushesNone ==
  Pushes(<<>>) = <<>>
<1>1. <<>> \in Seq(Seq(Units)) /\ Len(<<>>) = 0
  OBVIOUS
<1>2. Messages(<<>>) \in Seq(Seq(Units)) /\ Len(Messages(<<>>)) = 0
      /\ Pushes(<<>>) = FlattenSeq(Messages(<<>>))
  BY <1>1, MessagesTyped
<1>3. Messages(<<>>) = <<>>
  BY <1>2
<1> QED
  BY <1>2, <1>3, FlatNone

LEMMA PushesMore ==
  ASSUME NEW ms \in Seq(Seq(Units)), NEW p \in Seq(Units)
  PROVE  Pushes(Append(ms, p)) = Pushes(ms) \o Push("message", Bulk(p))
<1>1. PICK n, S, s, g, t, x :
        /\ n = Len(ms) /\ S = Seq(Units) /\ s = Messages(ms) /\ g = Append(ms, p)
        /\ t = Messages(g) /\ x = Push("message", Bulk(p))
  OBVIOUS
<1>2. n \in Nat /\ g \in Seq(S) /\ Len(g) = n + 1 /\ g[n + 1] = p /\ \A k \in 1 .. n : g[k] = ms[k]
  BY <1>1
<1>3. s \in Seq(S) /\ Len(s) = n /\ Pushes(ms) = FlattenSeq(s)
      /\ \A i \in 1 .. n : s[i] = Push("message", Bulk(ms[i]))
  BY <1>1, MessagesTyped
<1>4. t \in Seq(S) /\ Len(t) = n + 1 /\ Pushes(g) = FlattenSeq(t)
      /\ \A i \in 1 .. n + 1 : t[i] = Push("message", Bulk(g[i]))
  BY <1>1, <1>2, MessagesTyped
<1>5. x \in S
  BY <1>1, MessageIs
<1>6. PICK a : a = Append(s, x)
  OBVIOUS
<1>7. a \in Seq(S) /\ Len(a) = n + 1 /\ a[n + 1] = x /\ \A i \in 1 .. n : a[i] = s[i]
  BY <1>3, <1>5, <1>6
<1>8. ASSUME NEW i \in 1 .. n + 1 PROVE t[i] = a[i]
  <2>1. CASE i = n + 1
    BY <1>1, <1>2, <1>4, <1>7, <2>1
  <2>2. CASE i # n + 1
    <3>1. i \in 1 .. n
      BY <1>2, <2>2
    <3> QED
      BY <1>2, <1>3, <1>4, <1>7, <3>1
  <2> QED
    BY <2>1, <2>2
<1>9. t = a
  BY <1>4, <1>7, <1>8, SeqSame
<1>10. FlattenSeq(Append(s, x)) = FlattenSeq(s) \o x
  BY <1>1, <1>3, <1>5, FlatLast
<1> QED
  BY <1>1, <1>3, <1>4, <1>6, <1>9, <1>10

LEMMA PushesFirst ==
  ASSUME NEW ms \in Seq(Seq(Units)), ms # <<>>
  PROVE  Pushes(ms) = Array(Parts("message", Bulk(Head(ms)))) \o Pushes(Tail(ms))
<1>1. PICK n, S, s, g, t, r :
        /\ n = Len(ms) /\ S = Seq(Units) /\ s = Messages(ms) /\ g = Tail(ms)
        /\ t = Messages(g) /\ r = SubSeq(s, 2, n)
  OBVIOUS
<1>2. n \in Nat /\ n # 0 /\ n - 1 \in Nat /\ 1 \in 1 .. n /\ n > 0
  BY <1>1
<1>3. g \in Seq(S) /\ Len(g) = n - 1 /\ Head(ms) = ms[1] /\ ms[1] \in S
      /\ \A k \in 1 .. n - 1 : g[k] = ms[k + 1]
  BY <1>1, <1>2
<1>4. s \in Seq(S) /\ Len(s) = n /\ Pushes(ms) = FlattenSeq(s)
      /\ \A i \in 1 .. n : s[i] = Push("message", Bulk(ms[i]))
  BY <1>1, MessagesTyped
<1>5. t \in Seq(S) /\ Len(t) = n - 1 /\ Pushes(g) = FlattenSeq(t)
      /\ \A i \in 1 .. n - 1 : t[i] = Push("message", Bulk(g[i]))
  BY <1>1, <1>3, MessagesTyped
<1>6. r \in Seq(S) /\ Len(r) = n - 1 /\ \A k \in 1 .. n - 1 : r[k] = s[1 + k]
  <2>1. PICK b : b = 1
    OBVIOUS
  <2>2. b \in 0 .. n /\ n \in b .. n /\ b + 1 = 2
    BY <1>2, <2>1
  <2>3. /\ SubSeq(s, b + 1, n) \in Seq(S) /\ Len(SubSeq(s, b + 1, n)) = n - b
        /\ \A k \in 1 .. n - b : SubSeq(s, b + 1, n)[k] = s[b + k]
    BY <1>4, <2>2, SubSeqIs
  <2> QED
    BY <1>1, <2>1, <2>2, <2>3
<1>7. ASSUME NEW k \in 1 .. n - 1 PROVE t[k] = r[k]
  <2>1. 1 + k \in 1 .. n /\ 1 + k = k + 1
    BY <1>2
  <2> QED
    <3>1. t[k] = Push("message", Bulk(ms[k + 1]))
      BY <1>3, <1>5
    <3>2. r[k] = Push("message", Bulk(ms[1 + k]))
      BY <1>4, <1>6, <2>1
    <3> QED
      BY <2>1, <3>1, <3>2
<1>8. t = r
  BY <1>5, <1>6, <1>7, SeqSame
<1>9. FlattenSeq(s) = s[1] \o FlattenSeq(SubSeq(s, 2, Len(s)))
  BY <1>1, <1>2, <1>4, FlatFirst
<1>10. s[1] = Array(Parts("message", Bulk(Head(ms))))
  BY <1>1, <1>2, <1>3, <1>4, MessageIs
<1> QED
  BY <1>1, <1>4, <1>5, <1>8, <1>9, <1>10

-----------------------------------------------------------------------------
(* The subscriber: what stays true of it.                                  *)

(* More is sent on a connection.                                           *)
SentOn(nx, link, units) ==
  /\ nx \in Links /\ Kept(nx, link) /\ nx.buffer = link.buffer
  /\ nx.stream = link.stream \o units

LEMMA TellingSent ==
  ASSUME NEW link \in Links, link.state = "up", NEW units \in Seq(Units),
         NEW more \in Seq(Units), NEW nx, SentOn(nx, link, more), Telling(link, units)
  PROVE  Telling(nx, units \o more)
<1>1. nx.state = "up" /\ nx.buffer = link.buffer /\ nx.stream = link.stream \o more
      /\ nx.request = "none" /\ nx.value = NoValue /\ nx.todo = 0 /\ Holds(link, units)
  BY DEF SentOn, Kept, Telling
<1>2. Holds(nx, units \o more)
  BY <1>1, SentHolds
<1> QED
  BY <1>1, <1>2 DEF Telling

LEMMA ReadingSent ==
  ASSUME NEW link \in Links, link.state = "up", NEW parts, NEW values, Matched(parts, values),
         NEW units \in Seq(Units), NEW more \in Seq(Units), NEW nx, SentOn(nx, link, more),
         Reading(link, parts, values, units)
  PROVE  Reading(nx, parts, values, units \o more)
<1>1. ~Torn(link, values, Len(parts)) /\ ~Lost(link)
  BY DEF Torn, Lost, Broken
<1>2. CASE Telling(link, Array(parts) \o units)
  <2>1. PICK x : x = Array(parts)
    OBVIOUS
  <2>2. x \in Seq(Units)
    <3>1. FlattenSeq(parts) \in Seq(Units) /\ Len(parts) \in Nat
      BY FlatTyped DEF Matched
    <3>2. Line("*", Len(parts)) \in Seq(Units)
      BY <3>1, LineIs DEF Tags
    <3> QED
      BY <2>1, <3>1, <3>2, ConcatProperties DEF Array
  <2>3. x \o units \in Seq(Units) /\ Associate(x, units, more)
    BY <2>2, Associated, ConcatProperties
  <2>4. Telling(nx, (x \o units) \o more)
    BY <1>2, <2>1, <2>3, TellingSent
  <2> QED
    BY <2>1, <2>3, <2>4 DEF Reading, Associate
<1>3. CASE link.request = "none" /\ InArray(link, parts, values, units)
  <2>1. PICK read : read = link.value.array
    OBVIOUS
  <2>2. /\ read \in Seq(Scalars) /\ Len(read) \in Nat /\ link.todo \in Nat
        /\ parts \in Seq(Seq(Units)) /\ Len(read) + link.todo = Len(parts)
    BY <1>3, <2>1 DEF Links, Values, Matched, InArray
  <2>3. PICK k, x : k = Len(read) /\ x = FlattenSeq(Later(parts, k))
    OBVIOUS
  <2>4. k \in 0 .. Len(parts)
    BY <2>2, <2>3
  <2>5. x \in Seq(Units)
    <3>1. Later(parts, k) \in Seq(Seq(Units))
      BY <2>2, <2>4, LaterIs
    <3> QED
      BY <2>3, <3>1, FlatTyped
  <2>6. x \o units \in Seq(Units) /\ Associate(x, units, more)
    BY <2>5, Associated, ConcatProperties
  <2>7. Holds(link, x \o units)
    BY <1>3, <2>1, <2>3 DEF InArray
  <2>8. nx.state = "up" /\ nx.buffer = link.buffer /\ nx.stream = link.stream \o more
        /\ nx.request = "none" /\ nx.value = link.value /\ nx.todo = link.todo
    BY <1>3 DEF SentOn, Kept
  <2>9. Holds(nx, (x \o units) \o more)
    BY <2>6, <2>7, <2>8, SentHolds
  <2>10. Holds(nx, x \o (units \o more))
    BY <2>6, <2>9 DEF Associate
  <2>11. InArray(nx, parts, values, units \o more)
    BY <1>3, <2>1, <2>3, <2>8, <2>10 DEF InArray
  <2> QED
    BY <2>8, <2>11 DEF Reading
<1> QED
  BY <1>1, <1>2, <1>3 DEF Reading

LEMMA Subscribes ==
  Matched(Parts("subscribe", Line(":", 1)), PartValues("subscribe", Value("Integer", <<>>)))
<1>1. PICK last, value : last = Line(":", 1) /\ value = Value("Integer", <<>>)
  OBVIOUS
<1>2. Readable(last, value) /\ "subscribe" \in Tags
  BY <1>1 DEF Readable, Tags
<1> QED
  BY <1>1, <1>2, PartsAre

LEMMA FadesLast ==
  ASSUME NEW link, NEW nx, Fades(nx, link),
         link.subscribed => link.state = "up" /\ link.request = "none",
         nx.subscribed
  PROVE  link.subscribed /\ nx.state = "up" /\ nx.request = "none"
  BY DEF Fades, Stays

Listening == AtRest \cup {"first", "again", "message"}

(* Only the connection moved, and what is on its way did not change.       *)
LEMMA SubKept ==
  ASSUME SubInv, UNCHANGED <<history, delivered, since>>, sub' \in Links, Fades(sub', sub),
         listening' \in Listening, NEW ms \in Seq(Seq(Units)), Told(ms), InStep(ms)'
  PROVE  SubInv'
<1>1. sub'.subscribed => sub.subscribed /\ sub'.state = "up" /\ sub'.request = "none"
  BY FadesLast DEF SubInv, SubTyped
<1>2. SubTyped'
  BY <1>1 DEF SubInv, SubTyped, Listening
<1>3. InOrder'
  BY DEF SubInv, InOrder
<1>4. Told(ms)'
  <2>1. PICK before \in Nat, done \in Nat, last \in Nat : Follows(ms, before, done, last)
    BY DEF Told
  <2>2. Follows(ms, before, done, last)'
    BY <1>1, <2>1 DEF Follows
  <2> QED
    BY <2>2 DEF Told
<1> QED
  BY <1>2, <1>3, <1>4 DEF SubInv

(* The subscription has ended, and what was on its way is forgotten.       *)
LEMMA SubForgets ==
  ASSUME SubInv, UNCHANGED <<history, delivered, since>>, sub' \in Links,
         sub'.subscribed = FALSE, listening' \in Listening, InStep(<<>>)'
  PROVE  SubInv'
<1>1. SubTyped'
  BY DEF SubInv, SubTyped, Listening
<1>2. InOrder'
  BY DEF SubInv, InOrder
<1>3. PICK ms \in Seq(Seq(Units)) : Told(ms)
  BY DEF SubInv
<1>4. PICK before \in Nat, done \in Nat, last \in Nat : Follows(ms, before, done, last)
  BY <1>3 DEF Told
<1>5. PICK to : to = since + done
  OBVIOUS
<1>6. to \in Nat /\ to <= last /\ last <= Len(history)
  <2>1. since \in Nat /\ last <= Len(history) /\ Announces(ms, to, last)
    BY <1>4, <1>5 DEF SubInv, SubTyped, Follows
  <2>2. PICK c \in [0 .. Len(ms) -> 0 .. last] : c[0] = to
    BY <2>1 DEF Announces, Counts
  <2>3. 0 \in 0 .. Len(ms)
    OBVIOUS
  <2> QED
    BY <1>5, <2>1, <2>2, <2>3
<1>7. Announces(<<>>, to, to)
  BY <1>6, AnnounceNone
<1>8. Len(history) \in Nat
  BY DEF SubInv, SubTyped
<1>9. Follows(<<>>, before, done, to)'
  <2>1. to <= Len(history)
    BY <1>4, <1>6, <1>8
  <2> QED
    BY <1>4, <1>5, <1>7, <2>1 DEF Follows
<1>10. Told(<<>>)'
  BY <1>6, <1>9 DEF Told
<1>11. <<>> \in Seq(Seq(Units))
  OBVIOUS
<1> QED
  BY <1>1, <1>2, <1>10, <1>11 DEF SubInv

LEMMA SubUnchanged ==
  ASSUME SubInv, UNCHANGED <<history, sub, listening, since, delivered>>
  PROVE  SubInv'
<1>1. PICK ms \in Seq(Seq(Units)) : Told(ms) /\ InStep(ms)
  BY DEF SubInv
<1>2. Told(ms)'
  BY <1>1 DEF Told, Follows
<1>3. InStep(ms)'
  BY <1>1 DEF InStep
<1>4. SubTyped' /\ InOrder'
  BY DEF SubInv, SubTyped, InOrder
<1> QED
  BY <1>2, <1>3, <1>4 DEF SubInv

LEMMA SubCarried ==
  ASSUME SubInv, UNCHANGED <<history, listening, since, delivered>>, Carried(sub', sub)
  PROVE  SubInv'
<1>1. PICK ms \in Seq(Seq(Units)) : Told(ms) /\ InStep(ms)
  BY DEF SubInv
<1>2. sub' \in Links /\ Fades(sub', sub)
  BY DEF Carried
<1>3. CASE listening \in {"first", "again"} /\ Waits(sub, "subscribe") /\ ms = <<>>
  <2>1. ASSUME Waits(sub', "subscribe") PROVE InStep(ms)'
    BY <1>3, <2>1 DEF InStep
  <2>2. ASSUME Failing(sub') PROVE InStep(ms)'
    <3>1. sub'.state # "up" /\ Spent(sub') /\ sub'.value = NoValue /\ sub'.todo = 0
      BY <1>3, <2>2 DEF Failing, Carried, Waits
    <3>2. Idle(sub')
      BY <2>2, <3>1, ValuesDiffer DEF Failing, Lost
    <3>3. PICK parts, x : parts = Parts("subscribe", Line(":", 1)) /\ x = Array(parts) \o Pushes(ms)
      OBVIOUS
    <3>4. x \in Seq(Units)
      <4>1. FlattenSeq(parts) \in Seq(Units) /\ Len(parts) \in Nat
        BY <3>3, Subscribes, FlatTyped DEF Matched
      <4>2. Line("*", Len(parts)) \in Seq(Units) /\ Pushes(ms) \in Seq(Units)
        BY <4>1, LineIs, MessagesTyped DEF Tags
      <4> QED
        BY <3>3, <4>1, <4>2, ConcatProperties DEF Array
    <3>5. Telling(sub', x)
      BY <1>2, <3>1, <3>2, <3>4, EndedTells
    <3> QED
      BY <1>3, <3>3, <3>5 DEF InStep, Reading
  <2>3. Waits(sub', "subscribe") \/ Failing(sub')
    BY <1>3, WaitsCarried
  <2>4. InStep(ms)'
    BY <2>1, <2>2, <2>3
  <2> QED
    BY <1>1, <1>2, <2>4, SubKept DEF SubInv, SubTyped, Listening
<1>4. CASE ~(listening \in {"first", "again"} /\ Waits(sub, "subscribe") /\ ms = <<>>)
  <2>1. InStep(ms)'
    BY <1>1, <1>4, ReadingCarried, TellingCarried, LostCarried DEF InStep
  <2> QED
    BY <1>1, <1>2, <2>1, SubKept DEF SubInv, SubTyped, Listening
<1> QED
  BY <1>3, <1>4

-----------------------------------------------------------------------------
(* The subscriber: what is sent to it.                                     *)

LEMMA PublishIs ==
  ASSUME sub \in Links, NEW p \in Seq(Units), NEW nx, nx = Publish(p)
  PROVE  /\ nx \in Links
         /\ ~sub.subscribed => nx = sub
         /\ sub.subscribed => SentOn(nx, sub, Push("message", Bulk(p)))
<1>1. CASE sub.subscribed
  <2>1. PICK x : x = Push("message", Bulk(p))
    OBVIOUS
  <2>2. x \in Seq(Units)
    BY <2>1, MessageIs
  <2>3. PICK s : s = sub.stream \o x
    OBVIOUS
  <2>4. s \in Seq(Units)
    <3>1. sub.stream \in Seq(Units)
      BY DEF Links
    <3> QED
      BY <2>2, <2>3, <3>1, ConcatProperties
  <2>5. nx = [sub EXCEPT !.stream = s]
    BY <1>1, <2>1, <2>3 DEF Publish
  <2>6. nx \in Links /\ Kept(nx, sub) /\ nx.buffer = sub.buffer /\ nx.stream = s
    BY <2>4, <2>5 DEF Links, Kept
  <2> QED
    BY <1>1, <2>1, <2>3, <2>6 DEF SentOn
<1>2. CASE ~sub.subscribed
  BY <1>2 DEF Publish
<1> QED
  BY <1>1, <1>2

LEMMA AppendIs ==
  ASSUME NEW S, NEW s \in Seq(S), NEW e \in S
  PROVE  /\ Append(s, e) \in Seq(S) /\ Append(s, e) # <<>>
         /\ s = <<>> => Head(Append(s, e)) = e /\ Tail(Append(s, e)) = <<>>
         /\ s # <<>> => Head(Append(s, e)) = Head(s) /\ Tail(Append(s, e)) = Append(Tail(s), e)
<1>1. PICK a, n : a = Append(s, e) /\ n = Len(s)
  OBVIOUS
<1>2. n \in Nat /\ a \in Seq(S) /\ Len(a) = n + 1 /\ a[n + 1] = e /\ \A k \in 1 .. n : a[k] = s[k]
  BY <1>1
<1>3. a # <<>> /\ Head(a) = a[1]
  BY <1>2
<1>4. ASSUME s = <<>> PROVE Head(a) = e /\ Tail(a) = <<>>
  <2>1. n = 0 /\ a = <<e>>
    BY <1>1, <1>4
  <2> QED
    BY <2>1
<1>5. ASSUME s # <<>> PROVE Head(a) = Head(s) /\ Tail(a) = Append(Tail(s), e)
  <2>1. n # 0 /\ 1 \in 1 .. n /\ Head(s) = s[1] /\ n - 1 \in Nat
    BY <1>1, <1>2, <1>5
  <2>2. PICK t, b, c : t = Tail(s) /\ b = Append(t, e) /\ c = Tail(a)
    OBVIOUS
  <2>3. t \in Seq(S) /\ Len(t) = n - 1 /\ \A k \in 1 .. n - 1 : t[k] = s[k + 1]
    BY <1>1, <1>5, <2>1, <2>2
  <2>4. b \in Seq(S) /\ Len(b) = n /\ b[n] = e /\ \A k \in 1 .. n - 1 : b[k] = t[k]
    <3>1. PICK m : m = n - 1
      OBVIOUS
    <3>2. m \in Nat /\ n = m + 1 /\ Len(t) = m
      BY <1>2, <2>1, <2>3, <3>1
    <3> QED
      BY <2>2, <2>3, <3>1, <3>2
  <2>5. c \in Seq(S) /\ Len(c) = n /\ \A k \in 1 .. n : c[k] = a[k + 1]
    BY <1>2, <1>3, <2>2
  <2>6. ASSUME NEW k \in 1 .. n PROVE c[k] = b[k]
    <3>1. CASE k = n
      BY <1>2, <2>4, <2>5, <3>1
    <3>2. CASE k # n
      <4>1. k \in 1 .. n - 1 /\ k + 1 \in 1 .. n
        BY <1>2, <3>2
      <4> QED
        BY <1>2, <2>3, <2>4, <2>5, <4>1
    <3> QED
      BY <3>1, <3>2
  <2>7. c = b
    BY <2>4, <2>5, <2>6, SeqSame
  <2> QED
    BY <1>2, <1>3, <2>1, <2>2, <2>7
<1> QED
  BY <1>1, <1>2, <1>3, <1>4, <1>5

(* Where the subscriber is with what is sent.                              *)
LEMMA InStepSent ==
  ASSUME sub \in Links, sub.state = "up", sub.request = "none", NEW ms \in Seq(Seq(Units)),
         NEW p \in Seq(Units), SentOn(sub', sub, Push("message", Bulk(p))), listening' = listening,
         InStep(ms)
  PROVE  InStep(Append(ms, p))'
<1>1. PICK g, x : g = Append(ms, p) /\ x = Push("message", Bulk(p))
  OBVIOUS
<1>2. /\ g \in Seq(Seq(Units)) /\ g # <<>>
      /\ ms = <<>> => Head(g) = p /\ Tail(g) = <<>>
      /\ ms # <<>> => Head(g) = Head(ms) /\ Tail(g) = Append(Tail(ms), p)
  BY <1>1, AppendIs
<1>3. /\ Pushes(g) = Pushes(ms) \o x /\ Pushes(ms) \in Seq(Units) /\ x \in Seq(Units)
      /\ x = Array(Parts("message", Bulk(p))) /\ SentOn(sub', sub, x)
  BY <1>1, PushesMore, MessagesTyped, MessageIs
<1>4. ~Waits(sub, "subscribe") /\ ~Lost(sub)
  BY DEF Waits, Lost, Broken
<1>5. CASE /\ listening \in {"first", "again"}
           /\ Reading(sub, Parts("subscribe", Line(":", 1)),
                      PartValues("subscribe", Value("Integer", <<>>)), Pushes(ms))
  <2>1. Reading(sub', Parts("subscribe", Line(":", 1)),
                PartValues("subscribe", Value("Integer", <<>>)), Pushes(g))
    BY <1>3, <1>5, Subscribes, ReadingSent
  <2> QED
    BY <1>1, <1>5, <2>1 DEF InStep
<1>6. CASE listening \in AtRest /\ Telling(sub, Pushes(ms))
  <2>1. Telling(sub', Pushes(g))
    BY <1>3, <1>6, TellingSent
  <2> QED
    BY <1>1, <1>6, <2>1 DEF InStep
<1>7. CASE listening = "message" /\ ms = <<>> /\ Telling(sub, <<>>)
  <2>1. <<>> \in Seq(Units) /\ <<>> \o x = x /\ x \o <<>> = x
    BY <1>3, ConcatEmptySeq
  <2>2. Telling(sub', <<>> \o x)
    BY <1>3, <1>7, <2>1, TellingSent
  <2>3. Head(g) = p /\ Pushes(Tail(g)) = <<>>
    BY <1>2, <1>7, PushesNone
  <2>4. Telling(sub', Array(Parts("message", Bulk(Head(g)))) \o Pushes(Tail(g)))
    BY <1>3, <2>1, <2>2, <2>3
  <2> QED
    BY <1>1, <1>2, <1>7, <2>4 DEF InStep, Reading
<1>8. CASE /\ listening = "message" /\ ms # <<>>
           /\ Reading(sub, Parts("message", Bulk(Head(ms))),
                      PartValues("message", Value("Bulk", Head(ms))), Pushes(Tail(ms)))
  <2>1. PICK h, t, parts, values :
          /\ h = Head(ms) /\ t = Tail(ms) /\ parts = Parts("message", Bulk(h))
          /\ values = PartValues("message", Value("Bulk", h))
    OBVIOUS
  <2>2. h \in Seq(Units) /\ t \in Seq(Seq(Units))
    BY <1>8, <2>1
  <2>3. Matched(parts, values) /\ Pushes(t) \in Seq(Units)
    BY <2>1, <2>2, MessageIs, MessagesTyped
  <2>4. Reading(sub, parts, values, Pushes(t))
    BY <1>8, <2>1
  <2>5. Reading(sub', parts, values, Pushes(t) \o x)
    BY <1>3, <2>3, <2>4, ReadingSent
  <2>6. Pushes(Tail(g)) = Pushes(t) \o x /\ Head(g) = h
    BY <1>1, <1>2, <1>8, <2>1, <2>2, PushesMore
  <2>7. Reading(sub', Parts("message", Bulk(Head(g))),
                PartValues("message", Value("Bulk", Head(g))), Pushes(Tail(g)))
    BY <2>1, <2>5, <2>6
  <2> QED
    BY <1>1, <1>2, <1>8, <2>7 DEF InStep
<1> QED
  BY <1>4, <1>5, <1>6, <1>7, <1>8 DEF InStep

(* An operation, or "shutdown", is published.                              *)
LEMMA SubPublishes ==
  ASSUME SubInv, NEW p \in Seq(Units), NEW q \in Nat, Steps(p, Len(history), q),
         history' \in Seq(Entries), Len(history') = q, sub' = Publish(p),
         UNCHANGED <<listening, since, delivered>>
  PROVE  SubInv'
<1>1. PICK ms \in Seq(Seq(Units)) : Told(ms) /\ InStep(ms)
  BY DEF SubInv
<1>2. PICK before \in Nat, done \in Nat, last \in Nat : Follows(ms, before, done, last)
  BY <1>1 DEF Told
<1>3. PICK n : n = Len(history)
  OBVIOUS
<1>4. n \in Nat /\ n <= q /\ DOMAIN history = 1 .. n /\ DOMAIN history' = 1 .. q
      /\ 1 .. n \subseteq 1 .. q
  <2>1. n \in Nat /\ DOMAIN history = 1 .. n
    BY <1>3 DEF SubInv, SubTyped
  <2>2. DOMAIN history' = 1 .. q /\ n <= q
    BY <1>3, <2>1 DEF Steps
  <2> QED
    BY <2>1, <2>2
<1>5. sub \in Links /\ (sub.subscribed => sub.state = "up" /\ sub.request = "none")
      /\ since \in Nat /\ since <= n
  BY <1>3 DEF SubInv, SubTyped
<1>6. /\ sub' \in Links
      /\ ~sub.subscribed => sub' = sub
      /\ sub.subscribed => SentOn(sub', sub, Push("message", Bulk(p)))
  BY <1>5, PublishIs
<1>7. SubTyped'
  <2>1. sub'.subscribed => sub'.state = "up" /\ sub'.request = "none"
    BY <1>5, <1>6 DEF SentOn, Kept
  <2>2. since' <= Len(history')
    BY <1>4, <1>5
  <2> QED
    BY <1>6, <2>1, <2>2 DEF SubInv, SubTyped
<1>8. InOrder'
  BY <1>4 DEF SubInv, InOrder
<1>9. CASE sub.subscribed
  <2>1. last = n /\ since + done \in Nat /\ Announces(ms, since + done, n)
    BY <1>2, <1>3, <1>5, <1>9 DEF Follows
  <2>2. Append(ms, p) \in Seq(Seq(Units)) /\ Announces(Append(ms, p), since + done, q)
    BY <1>3, <1>4, <2>1, AnnounceMore
  <2>3. Follows(Append(ms, p), before, done, q)'
    BY <1>2, <2>2 DEF Follows
  <2>4. Told(Append(ms, p))'
    BY <2>3 DEF Told
  <2>5. InStep(Append(ms, p))'
    BY <1>1, <1>5, <1>6, <1>9, InStepSent
  <2> QED
    BY <1>7, <1>8, <2>2, <2>4, <2>5 DEF SubInv
<1>10. CASE ~sub.subscribed
  <2>1. sub' = sub
    BY <1>6, <1>10
  <2>2. last <= Len(history')
    BY <1>2, <1>3, <1>4 DEF Follows
  <2>3. Follows(ms, before, done, last)'
    BY <1>2, <1>10, <2>1, <2>2 DEF Follows
  <2>4. Told(ms)'
    BY <2>3 DEF Told
  <2>5. InStep(ms)'
    BY <1>1, <2>1 DEF InStep
  <2> QED
    BY <1>7, <1>8, <2>4, <2>5 DEF SubInv
<1> QED
  BY <1>9, <1>10

LEMMA SubHears ==
  ASSUME SubInv, NEW entry, RunCommit(entry), history' \in Seq(Entries)
  PROVE  SubInv'
<1>1. PICK n : n = Len(history)
  OBVIOUS
<1>2. /\ history' = Append(history, entry) /\ sub' = Publish(Payload(n + 1))
      /\ UNCHANGED <<listening, since, delivered>>
  BY <1>1 DEF RunCommit
<1>3. n \in Nat /\ n + 1 \in Nat /\ Len(history') = n + 1
  <2>1. history \in Seq(Entries)
    BY DEF SubInv, SubTyped
  <2> QED
    BY <1>1, <1>2, <2>1
<1>4. Payload(n + 1) \in Seq(Units) /\ Steps(Payload(n + 1), n, n + 1)
  BY <1>3, PayloadIs DEF Steps
<1> QED
  BY <1>1, <1>2, <1>3, <1>4, SubPublishes

LEMMA SubStops ==
  ASSUME SubInv, StopPublishes
  PROVE  SubInv'
<1>1. sub' = Publish(Shutdown) /\ UNCHANGED <<history, listening, since, delivered>>
  BY DEF StopPublishes
<1>2. history \in Seq(Entries) /\ Len(history) \in Nat
  BY DEF SubInv, SubTyped
<1>3. Steps(Shutdown, Len(history), Len(history))
  BY DEF Steps
<1> QED
  BY <1>1, <1>2, <1>3, ShutdownIs, SubPublishes

(* A subscription begins.                                                  *)
LEMMA SubBegins ==
  ASSUME SubInv, ServeSubscribe
  PROVE  SubInv'
<1>1. PICK x, nx, l : /\ x = Push("subscribe", Line(":", 1)) /\ nx = sub'
                      /\ l = Reply(sub, x)
  OBVIOUS
<1>2. /\ sub.request = "subscribe" /\ nx = [l EXCEPT !.subscribed = TRUE]
      /\ since' = Len(history) /\ UNCHANGED <<history, listening, delivered>>
  BY <1>1 DEF ServeSubscribe
<1>3. PICK ms \in Seq(Seq(Units)) : Told(ms) /\ InStep(ms)
  BY DEF SubInv
<1>4. sub \in Links /\ history \in Seq(Entries) /\ Len(history) \in Nat
      /\ delivered \in Seq(Seq(Units)) /\ Len(delivered) \in Nat
  BY DEF SubInv, SubTyped
<1>5. listening \in {"first", "again"} /\ Waits(sub, "subscribe")
  BY <1>2, <1>3, NoRequest DEF InStep, Telling, Lost, Broken
<1>6. x \in Seq(Units) /\ x = Array(Parts("subscribe", Line(":", 1)))
  <2>1. PICK u, value : u = Line(":", 1) /\ value = Value("Integer", <<>>)
    OBVIOUS
  <2>2. Readable(u, value) /\ "subscribe" \in Tags
    BY <2>1 DEF Readable, Tags
  <2> QED
    BY <1>1, <2>1, <2>2, PartsAre
<1>7. l \in Links /\ Telling(l, x) /\ l.state = "up"
  BY <1>1, <1>4, <1>5, <1>6, RepliedTells
<1>8. /\ nx \in Links /\ nx.state = "up" /\ nx.request = "none" /\ nx.value = NoValue
      /\ nx.todo = 0 /\ Rest(nx) = Rest(l)
  BY <1>2, <1>7 DEF Links, Telling, Rest
<1>9. Telling(nx, x)
  <2>1. Holds(nx, x)
    BY <1>7, <1>8, MovedHolds DEF Telling
  <2> QED
    BY <1>8, <2>1 DEF Telling
<1>10. InStep(<<>>)'
  <2>1. Pushes(<<>>) = <<>> /\ x \o <<>> = x
    BY <1>6, PushesNone, ConcatEmptySeq
  <2>2. Reading(nx, Parts("subscribe", Line(":", 1)),
                PartValues("subscribe", Value("Integer", <<>>)), Pushes(<<>>))
    BY <1>6, <1>9, <2>1 DEF Reading
  <2> QED
    BY <1>1, <1>2, <1>5, <2>2 DEF InStep
<1>11. SubTyped' /\ InOrder'
  BY <1>1, <1>2, <1>4, <1>8 DEF SubInv, SubTyped, InOrder
<1>12. Told(<<>>)'
  <2>1. PICK n, m : n = Len(history) /\ m = Len(delivered)
    OBVIOUS
  <2>2. n \in Nat /\ m \in Nat /\ m = m + 0 /\ n + 0 = n /\ 1 .. 0 = {}
        /\ DOMAIN history = 1 .. n /\ DOMAIN delivered = 1 .. m
    BY <1>4, <2>1
  <2>3. Announces(<<>>, n + 0, n)
    BY <2>2, AnnounceNone
  <2>4. \A k \in 1 .. m : \E i \in 1 .. n : delivered[k] = Payload(i)
    BY <2>2 DEF SubInv, InOrder
  <2>5. Follows(<<>>, m, 0, n)'
    BY <1>2, <2>1, <2>2, <2>3, <2>4 DEF Follows
  <2> QED
    BY <2>2, <2>5 DEF Told
<1>13. <<>> \in Seq(Seq(Units))
  OBVIOUS
<1> QED
  BY <1>10, <1>11, <1>12, <1>13 DEF SubInv

-----------------------------------------------------------------------------
(* The subscriber: its own steps.                                          *)

LEMMA SubReceives ==
  ASSUME SubInv, ReceivePush
  PROVE  SubInv'
<1>1. sub' = Received(sub, Len(sub.stream)) /\ UNCHANGED <<history, listening, since, delivered>>
  BY DEF ReceivePush
<1>2. sub \in Links /\ Len(sub.stream) \in 0 .. Len(sub.stream)
  BY DEF SubInv, SubTyped, Links
<1>3. Carried(sub', sub)
  BY <1>1, <1>2, ReceivedCarries
<1> QED
  BY <1>1, <1>3, SubCarried

LEMMA SubBreaks ==
  ASSUME SubInv, Break
  PROVE  SubInv'
<1>1. UNCHANGED <<history, listening, since, delivered>> /\ sub \in Links
  BY DEF Break, SubInv, SubTyped
<1>2. CASE sub' = sub
  BY <1>1, <1>2, SubUnchanged
<1>3. CASE sub' \in Cuts(sub)
  <2>1. PICK kept \in 0 .. Len(sub.stream) : sub' = Cut(sub, kept)
    BY <1>3 DEF Cuts
  <2>2. Carried(sub', sub)
    BY <1>1, <2>1, CutCarries
  <2> QED
    BY <1>1, <2>2, SubCarried
<1>4. CASE sub' = Closed(sub)
  <2>1. Len(sub.stream) \in 0 .. Len(sub.stream) /\ sub' = Cut(sub, Len(sub.stream))
    BY <1>1, <1>4 DEF Closed, Links
  <2>2. Carried(sub', sub)
    BY <1>1, <2>1, CutCarries
  <2> QED
    BY <1>1, <2>2, SubCarried
<1> QED
  BY <1>2, <1>3, <1>4 DEF Break

LEMMA SubReads ==
  ASSUME SubInv, ReadPush
  PROVE  SubInv'
<1>1. /\ UNCHANGED <<history, listening, since, delivered>> /\ sub' = ReadOn(sub) /\ CanRead(sub)
      /\ sub \in Links /\ listening \in {"first", "again", "message"}
  BY DEF ReadPush, SubInv, SubTyped
<1>2. PICK ms \in Seq(Seq(Units)) : Told(ms) /\ InStep(ms)
  BY DEF SubInv
<1>3. listening \in Listening /\ listening \notin AtRest
  BY <1>1 DEF Listening, AtRest
<1>4. CASE /\ listening \in {"first", "again"}
           /\ Reading(sub, Parts("subscribe", Line(":", 1)),
                      PartValues("subscribe", Value("Integer", <<>>)), Pushes(ms))
  <2>1. PICK parts, values, more :
          /\ parts = Parts("subscribe", Line(":", 1)) /\ more = Pushes(ms)
          /\ values = PartValues("subscribe", Value("Integer", <<>>))
    OBVIOUS
  <2>2. Matched(parts, values) /\ more \in Seq(Units) /\ Reading(sub, parts, values, more)
    BY <1>4, <2>1, Subscribes, MessagesTyped
  <2>3. sub' \in Links /\ Reading(sub', parts, values, more) /\ Fades(sub', sub)
    BY <1>1, <2>2, ReadingReads
  <2>4. InStep(ms)'
    BY <1>1, <1>4, <2>1, <2>3 DEF InStep
  <2> QED
    BY <1>1, <1>2, <1>3, <2>3, <2>4, SubKept
<1>5. CASE listening = "message" /\ ms = <<>> /\ Telling(sub, <<>>)
  <2>1. sub' \in Links /\ Lost(sub') /\ Fades(sub', sub)
    BY <1>1, <1>5, IdleTells, NothingReads
  <2>2. InStep(ms)'
    BY <1>1, <1>5, <2>1 DEF InStep
  <2> QED
    BY <1>1, <1>2, <1>3, <2>1, <2>2, SubKept
<1>6. CASE /\ listening = "message" /\ ms # <<>>
           /\ Reading(sub, Parts("message", Bulk(Head(ms))),
                      PartValues("message", Value("Bulk", Head(ms))), Pushes(Tail(ms)))
  <2>1. PICK h, parts, values, more :
          /\ h = Head(ms) /\ parts = Parts("message", Bulk(h)) /\ more = Pushes(Tail(ms))
          /\ values = PartValues("message", Value("Bulk", h))
    OBVIOUS
  <2>2. h \in Seq(Units) /\ Tail(ms) \in Seq(Seq(Units))
    BY <1>6, <2>1
  <2>3. Matched(parts, values) /\ more \in Seq(Units) /\ Reading(sub, parts, values, more)
    BY <1>6, <2>1, <2>2, MessageIs, MessagesTyped
  <2>4. sub' \in Links /\ Reading(sub', parts, values, more) /\ Fades(sub', sub)
    BY <1>1, <2>3, ReadingReads
  <2>5. InStep(ms)'
    BY <1>1, <1>6, <2>1, <2>4 DEF InStep
  <2> QED
    BY <1>1, <1>2, <1>3, <2>4, <2>5, SubKept
<1>7. ~Waits(sub, "subscribe") /\ ~Lost(sub)
  BY <1>1, WaitsReadsNot, ValuesDiffer DEF Lost, CanRead, Answered
<1> QED
  BY <1>2, <1>3, <1>4, <1>5, <1>6, <1>7 DEF InStep

(* It asks for a subscription, or gives a connection up.                   *)
LEMMA SubConnects ==
  ASSUME SubInv, UNCHANGED <<history, since, delivered>>, sub.value = NoValue, sub.todo = 0
  PROVE  /\ sub' = Command(Connect(sub), "subscribe") /\ listening' \in {"first", "again"} =>
              SubInv'
         /\ sub' = Disconnect(sub) /\ listening' \in AtRest => SubInv'
<1>1. PICK c, d : c = Connect(sub) /\ d = Disconnect(sub)
  OBVIOUS
<1>2. sub \in Links
  BY DEF SubInv, SubTyped
<1>3. /\ c \in Links /\ Idle(c) /\ c.state = "up" /\ c.subscribed = FALSE
      /\ d \in Links /\ Idle(d) /\ d.subscribed = FALSE
  BY <1>1, <1>2, ConnectIs
<1>4. ASSUME sub' = Command(Connect(sub), "subscribe"), listening' \in {"first", "again"}
      PROVE  SubInv'
  <2>1. sub' = Command(c, "subscribe") /\ "subscribe" \in Names
    BY <1>1, <1>4 DEF Names
  <2>2. sub' \in Links /\ Waits(sub', "subscribe")
    BY <1>3, <2>1, Asked
  <2>3. sub'.subscribed = FALSE
    BY <1>3, <2>1 DEF Command, Links
  <2>4. InStep(<<>>)'
    BY <1>4, <2>2 DEF InStep
  <2> QED
    BY <1>4, <2>2, <2>3, <2>4, SubForgets DEF Listening
<1>5. ASSUME sub' = Disconnect(sub), listening' \in AtRest
      PROVE  SubInv'
  <2>1. sub' \in Links /\ Telling(sub', <<>>) /\ sub'.subscribed = FALSE
    BY <1>1, <1>3, <1>5, IdleTells
  <2>2. InStep(<<>>)'
    BY <1>5, <2>1, PushesNone DEF InStep
  <2> QED
    BY <1>5, <2>1, <2>2, SubForgets DEF Listening
<1> QED
  BY <1>4, <1>5

(* Nothing has been read where nothing is awaited.                         *)
LEMMA SubRests ==
  ASSUME SubInv, listening \in AtRest
  PROVE  sub.value = NoValue /\ sub.todo = 0
<1>1. listening \notin {"first", "again", "message"}
  BY DEF AtRest
<1>2. PICK ms \in Seq(Seq(Units)) : InStep(ms)
  BY DEF SubInv
<1> QED
  BY <1>1, <1>2 DEF InStep, Telling

LEMMA SubMoves ==
  ASSUME SubInv, UNCHANGED <<history, sub, since, delivered>>, listening \in AtRest,
         listening' \in AtRest \cup {"message"}
  PROVE  SubInv'
<1>1. PICK ms \in Seq(Seq(Units)) : Told(ms) /\ InStep(ms)
  BY DEF SubInv
<1>2. Telling(sub, Pushes(ms))
  <2>1. listening \notin {"first", "again", "message"}
    BY DEF AtRest
  <2> QED
    BY <1>1, <2>1 DEF InStep
<1>3. InStep(ms)'
  <2>1. CASE listening' \in AtRest
    BY <1>2, <2>1 DEF InStep
  <2>2. CASE listening' = "message" /\ ms = <<>>
    BY <1>2, <2>2, PushesNone DEF InStep
  <2>3. CASE listening' = "message" /\ ms # <<>>
    <3>1. Telling(sub, Array(Parts("message", Bulk(Head(ms)))) \o Pushes(Tail(ms)))
      BY <1>2, <2>3, PushesFirst
    <3> QED
      BY <2>3, <3>1 DEF InStep, Reading
  <2> QED
    BY <2>1, <2>2, <2>3
<1>4. Fades(sub', sub) /\ sub' \in Links /\ listening' \in Listening
  BY DEF Fades, Stays, SubInv, SubTyped, Listening
<1> QED
  BY <1>1, <1>3, <1>4, SubKept

LEMMA SubStarts ==
  ASSUME SubInv, SubscriberStarts \/ Reconnect
  PROVE  SubInv'
<1>1. UNCHANGED <<history, since, delivered>> /\ listening \in AtRest
  BY DEF SubscriberStarts, Reconnect, calls, AtRest
<1>2. sub.value = NoValue /\ sub.todo = 0
  BY <1>1, SubRests
<1>3. CASE sub' = Command(Connect(sub), "subscribe") /\ listening' \in {"first", "again"}
  BY <1>1, <1>2, <1>3, SubConnects
<1>4. CASE sub' = Disconnect(sub) /\ listening' \in AtRest
  BY <1>1, <1>2, <1>4, SubConnects
<1>5. CASE sub' = sub /\ listening' \in AtRest
  BY <1>1, <1>5, SubMoves
<1> QED
  BY <1>3, <1>4, <1>5 DEF SubscriberStarts, Reconnect, AtRest

LEMMA SubGoesOn ==
  ASSUME SubInv, Recovered \/ Loop
  PROVE  SubInv'
<1>1. /\ UNCHANGED <<history, sub, since, delivered>> /\ listening \in AtRest
      /\ listening' \in AtRest \cup {"message"}
  BY DEF Recovered, Loop, AtRest
<1> QED
  BY <1>1, SubMoves

LEMMA SubAnswered ==
  ASSUME SubInv, Subscribed
  PROVE  SubInv'
<1>1. /\ UNCHANGED <<history, since, delivered>> /\ sub' = AfterAnswer(sub) /\ Answered(sub)
      /\ sub \in Links /\ listening \in {"first", "again"}
  BY DEF Subscribed, SubInv, SubTyped, calls
<1>2. listening' \in AtRest
  BY DEF Subscribed, AtRest
<1>3. PICK ms \in Seq(Seq(Units)) : Told(ms) /\ InStep(ms)
  BY DEF SubInv
<1>4. PICK parts, values, more :
        /\ parts = Parts("subscribe", Line(":", 1)) /\ more = Pushes(ms)
        /\ values = PartValues("subscribe", Value("Integer", <<>>))
  OBVIOUS
<1>5. Reading(sub, parts, values, more)
  <2>1. ~Waits(sub, "subscribe") /\ listening \notin AtRest /\ listening # "message"
    BY <1>1, WaitsReadsNot DEF AtRest
  <2> QED
    BY <1>3, <1>4, <2>1 DEF InStep
<1>6. parts \in Seq(Seq(Units)) /\ more \in Seq(Units)
  BY <1>4, Subscribes, MessagesTyped DEF Matched
<1>7. Used(sub', sub, values, Len(parts), more)
  BY <1>1, <1>5, <1>6, ReadingUsed
<1>8. sub' \in Links /\ Telling(sub', more) /\ Fades(sub', sub)
  BY <1>7 DEF Used, Fades
<1>9. InStep(ms)'
  BY <1>2, <1>4, <1>8 DEF InStep
<1> QED
  BY <1>1, <1>2, <1>3, <1>8, <1>9, SubKept DEF Listening

-----------------------------------------------------------------------------
(* The subscriber: a message.                                              *)

Torso(value) ==
  value = ErrorValue \/ \E p : PartOf(value, PartValues("message", Value("Bulk", p)), 3)
Gone == sub' \in Links /\ Idle(sub') /\ sub'.subscribed = FALSE /\ Torso(sub.value)
Comes(ms) ==
  /\ ms # <<>> /\ Told(ms) /\ sub' \in Links /\ Stays(sub', sub)
  /\ Telling(sub', Pushes(Tail(ms)))
  /\ Whole(sub.value, PartValues("message", Value("Bulk", Head(ms))), 3)

LEMMA MessageArrives ==
  ASSUME SubInv, NextMessage
  PROVE  Gone \/ \E ms \in Seq(Seq(Units)) : Comes(ms)
<1>1. /\ sub' = AfterAnswer(sub) /\ Answered(sub) /\ sub \in Links /\ listening = "message"
  BY DEF NextMessage, SubInv, SubTyped
<1>2. PICK ms \in Seq(Seq(Units)) : Told(ms) /\ InStep(ms)
  BY DEF SubInv
<1>3. CASE Lost(sub)
  BY <1>1, <1>3, LostUsed DEF Gone, Torso, Lost, Broken, Stays
<1>4. CASE /\ ms # <<>>
           /\ Reading(sub, Parts("message", Bulk(Head(ms))),
                      PartValues("message", Value("Bulk", Head(ms))), Pushes(Tail(ms)))
  <2>1. PICK h, parts, values, more :
          /\ h = Head(ms) /\ parts = Parts("message", Bulk(h)) /\ more = Pushes(Tail(ms))
          /\ values = PartValues("message", Value("Bulk", h))
    OBVIOUS
  <2>2. h \in Seq(Units) /\ Tail(ms) \in Seq(Seq(Units))
    BY <1>4, <2>1
  <2>3. parts \in Seq(Seq(Units)) /\ Len(parts) = 3 /\ more \in Seq(Units)
    BY <2>1, <2>2, MessageIs, MessagesTyped DEF Matched
  <2>4. Reading(sub, parts, values, more)
    BY <1>4, <2>1
  <2>5. Used(sub', sub, values, Len(parts), more)
    BY <1>1, <2>3, <2>4, ReadingUsed
  <2>6. CASE Whole(sub.value, values, 3)
    BY <1>2, <1>4, <2>1, <2>3, <2>5, <2>6 DEF Used, Comes
  <2>7. CASE /\ sub' \in Links /\ Idle(sub') /\ sub'.subscribed = FALSE
             /\ sub.value = ErrorValue \/ PartOf(sub.value, values, 3)
    BY <2>1, <2>7 DEF Gone, Torso
  <2> QED
    BY <2>3, <2>5, <2>6, <2>7 DEF Used
<1>5. CASE Telling(sub, <<>>)
  BY <1>1, <1>5 DEF Telling, Answered
<1> QED
  BY <1>1, <1>2, <1>3, <1>4, <1>5 DEF InStep, AtRest

(* What is left of a message has no string.                                *)
LEMMA TorsoIs ==
  ASSUME NEW value, Torso(value), IsMessage(value)
  PROVE  Contents(value) = <<>>
<1>1. value.type = "Array"
  BY DEF IsMessage
<1>2. PICK p : PartOf(value, PartValues("message", Value("Bulk", p)), 3)
  BY <1>1, ValuesDiffer DEF Torso
<1>3. PICK v : v = PartValues("message", Value("Bulk", p))
  OBVIOUS
<1>4. PICK k \in 0 .. 3 - 1 : \A i \in 1 .. 3 : value.array[i] = IF i <= k THEN v[i] ELSE ErrorValue
  BY <1>2, <1>3 DEF PartOf
<1>5. 3 \in 1 .. 3 /\ ~(3 <= k)
  OBVIOUS
<1>6. value.array[3] = ErrorValue
  BY <1>4, <1>5
<1> QED
  BY <1>6, ValuesDiffer DEF Contents

LEMMA WholeIs ==
  ASSUME NEW value, NEW p, Whole(value, PartValues("message", Value("Bulk", p)), 3)
  PROVE  IsMessage(value) /\ Contents(value) = p /\ value.type = "Array"
<1>1. PICK v : v = PartValues("message", Value("Bulk", p))
  OBVIOUS
<1>2. v[1] = Value("Bulk", <<Unit("message", 0)>>) /\ v[3] = Value("Bulk", p)
  BY <1>1 DEF PartValues
<1>3. 1 \in 1 .. 3 /\ 3 \in 1 .. 3 /\ 3 >= 3
  OBVIOUS
<1>4. value.array[1] = v[1] /\ value.array[3] = v[3] /\ value.type = "Array"
      /\ Len(value.array) >= 3
  BY <1>1, <1>3 DEF Whole
<1> QED
  BY <1>2, <1>4, ValuesDiffer DEF IsMessage, Contents

Reads == MessageFails \/ MessageIgnored \/ ShutdownRead \/ MessageRead

LEMMA ReadsIs ==
  ASSUME Reads
  PROVE  /\ NextMessage /\ UNCHANGED <<history, since>> /\ listening' \in AtRest
         /\ delivered' = delivered \/ (IsMessage(sub.value) /\ BroadcastOp(Contents(sub.value)))
  BY DEF Reads, MessageFails, MessageIgnored, ShutdownRead, MessageRead, NextMessage, AtRest

LEMMA SubLoses ==
  ASSUME SubInv, Reads, Gone
  PROVE  SubInv'
<1>1. /\ UNCHANGED <<history, since>> /\ listening' \in AtRest
      /\ delivered' = delivered \/ (IsMessage(sub.value) /\ BroadcastOp(Contents(sub.value)))
  BY ReadsIs
<1>2. delivered' = delivered
  BY <1>1, TorsoIs DEF Gone, BroadcastOp
<1>3. sub' \in Links /\ sub'.subscribed = FALSE /\ Telling(sub', <<>>)
  BY IdleTells DEF Gone
<1>4. InStep(<<>>)'
  BY <1>1, <1>3, PushesNone DEF InStep
<1> QED
  BY <1>1, <1>2, <1>3, <1>4, SubForgets DEF Listening

(* The first message has been dealt with.                                  *)
Deals(h) ==
  \/ h = Shutdown /\ delivered' = delivered
  \/ h # Shutdown /\ BroadcastOp(h)

LEMMA ReadsDeal ==
  ASSUME Reads, NEW p, Whole(sub.value, PartValues("message", Value("Bulk", p)), 3)
  PROVE  Deals(p)
<1>1. IsMessage(sub.value) /\ Contents(sub.value) = p /\ sub.value.type = "Array"
  BY WholeIs
<1>2. ~MessageFails /\ ~MessageIgnored
  BY <1>1 DEF MessageFails, MessageIgnored
<1>3. CASE ShutdownRead
  BY <1>1, <1>3 DEF ShutdownRead, Deals
<1>4. CASE MessageRead
  BY <1>1, <1>4 DEF MessageRead, Deals
<1> QED
  BY <1>2, <1>3, <1>4 DEF Reads

(* An operation is passed on.                                              *)
Passes(d, e, m, q) ==
  /\ e = Append(d, Payload(q))
  /\ e \in Seq(Seq(Units)) /\ Len(e) = m + 1 /\ e[m + 1] = Payload(q)
  /\ \A k \in 1 .. m : e[k] = d[k]

LEMMA PassesOn ==
  ASSUME NEW d \in Seq(Seq(Units)), NEW m, m = Len(d), NEW q \in Nat, NEW e,
         e = Append(d, Payload(q))
  PROVE  Passes(d, e, m, q)
<1>1. PICK p, S : p = Payload(q) /\ S = Seq(Units)
  OBVIOUS
<1>2. p \in S
  BY <1>1, PayloadIs
<1>3. e = Append(d, p) /\ d \in Seq(S)
  BY <1>1
<1>4. e \in Seq(S) /\ Len(e) = m + 1 /\ e[m + 1] = p /\ \A k \in 1 .. m : e[k] = d[k]
  BY <1>2, <1>3
<1> QED
  BY <1>1, <1>4 DEF Passes

LEMMA SubDelivers ==
  ASSUME SubInv, Reads, NEW ms \in Seq(Seq(Units)), Comes(ms)
  PROVE  SubInv'
<1>1. UNCHANGED <<history, since>> /\ listening' \in AtRest
  BY ReadsIs
<1>2. ms # <<>> /\ Told(ms) /\ sub' \in Links /\ Stays(sub', sub) /\ Telling(sub', Pushes(Tail(ms)))
  BY DEF Comes
<1>3. PICK before \in Nat, done \in Nat, last \in Nat : Follows(ms, before, done, last)
  BY <1>2 DEF Told
<1>4. /\ since \in Nat /\ history \in Seq(Entries) /\ Len(history) \in Nat
      /\ delivered \in Seq(Seq(Units)) /\ DOMAIN history = 1 .. Len(history)
      /\ sub.subscribed => sub.state = "up" /\ sub.request = "none"
  BY DEF SubInv, SubTyped
<1>5. PICK h, t, from, m : h = Head(ms) /\ t = Tail(ms) /\ from = since + done /\ m = before + done
  OBVIOUS
<1>6. from \in Nat /\ m \in Nat /\ Len(delivered) = m /\ last <= Len(history)
      /\ Announces(ms, from, last) /\ DOMAIN delivered = 1 .. m
  <2>1. Len(delivered) = m /\ last <= Len(history) /\ Announces(ms, from, last)
    BY <1>3, <1>5 DEF Follows
  <2>2. from \in Nat /\ m \in Nat
    BY <1>4, <1>5
  <2>3. DOMAIN delivered = 1 .. m
    BY <1>4, <2>1
  <2> QED
    BY <2>1, <2>2, <2>3
<1>7. h \in Seq(Units) /\ t \in Seq(Seq(Units))
      /\ \E q \in 0 .. last : Steps(h, from, q) /\ Announces(t, q, last)
  BY <1>2, <1>5, <1>6, AnnounceFirst
<1>8. PICK q \in 0 .. last : Steps(h, from, q) /\ Announces(t, q, last)
  BY <1>7
<1>9. Deals(h)
  BY <1>5, ReadsDeal DEF Comes
<1>10. /\ sub'.subscribed = sub.subscribed
       /\ (sub'.subscribed => sub'.state = "up" /\ sub'.request = "none")
  BY <1>2, <1>4 DEF Stays
<1>11. InStep(t)'
  BY <1>1, <1>2, <1>5 DEF InStep
<1>12. CASE h = Shutdown
  <2>1. q = from
    <3>1. CASE q = from + 1 /\ h = Payload(q)
      BY <1>12, <3>1, PayloadIs
    <3> QED
      BY <1>8, <3>1 DEF Steps
  <2>2. delivered' = delivered
    BY <1>9, <1>12 DEF Deals
  <2>3. Follows(t, before, done, last)'
    BY <1>1, <1>3, <1>5, <1>8, <1>10, <2>1, <2>2 DEF Follows
  <2>4. Told(t)'
    BY <2>3 DEF Told
  <2>5. SubTyped' /\ InOrder'
    BY <1>1, <1>2, <1>10, <2>2 DEF SubInv, SubTyped, InOrder
  <2> QED
    BY <1>7, <1>11, <2>4, <2>5 DEF SubInv
<1>13. CASE h # Shutdown
  <2>1. q = from + 1 /\ h = Payload(q) /\ q \in Nat /\ q \in 1 .. Len(history)
    BY <1>4, <1>6, <1>8, <1>13 DEF Steps
  <2>2. h # <<>>
    BY <2>1, PayloadIs
  <2>3. delivered' = Append(delivered, Payload(q))
    BY <1>9, <1>13, <2>1, <2>2 DEF Deals, BroadcastOp
  <2>4. PICK e : e = delivered'
    OBVIOUS
  <2>5. Passes(delivered, e, m, q)
    BY <1>4, <1>6, <2>1, <2>3, <2>4, PassesOn
  <2>6. DOMAIN e = 1 .. m + 1 /\ \A k \in 1 .. m + 1 : k = m + 1 \/ k \in 1 .. m
    BY <1>6, <2>5 DEF Passes
  <2>7. \A k \in 1 .. m : \E i \in 1 .. from : delivered[k] = Payload(i)
    <3>1. TAKE k \in 1 .. m
    <3>2. CASE k <= before
      <4>1. k \in 1 .. before
        BY <3>2
      <4>2. PICK i \in 1 .. since : delivered[k] = Payload(i)
        BY <1>3, <4>1 DEF Follows
      <4>3. i \in 1 .. from
        BY <1>4, <1>5
      <4> QED
        BY <4>2, <4>3
    <3>3. CASE ~(k <= before)
      <4>1. PICK j : j = k - before
        OBVIOUS
      <4>2. j \in 1 .. done /\ k = before + j
        BY <1>5, <3>3, <4>1
      <4>3. delivered[k] = Payload(since + j)
        BY <1>3, <4>2 DEF Follows
      <4>4. since + j \in 1 .. from
        BY <1>4, <1>5, <4>2
      <4> QED
        BY <4>3, <4>4
    <3> QED
      BY <3>2, <3>3
  <2>8. InOrder'
    <3>1. ASSUME NEW k \in 1 .. m + 1 PROVE e[k] \in { Payload(i) : i \in 1 .. Len(history) }
      BY <1>4, <1>6, <2>1, <2>5, <2>6 DEF SubInv, InOrder, Passes
    <3>2. ASSUME NEW j \in 1 .. m + 1, NEW k \in 1 .. m + 1, j < k PROVE e[j][1].n < e[k][1].n
      <4>1. j \in 1 .. m
        BY <1>6, <3>2
      <4>2. CASE k = m + 1
        <5>1. PICK i \in 1 .. from : delivered[j] = Payload(i)
          BY <2>7, <4>1
        <5>2. e[j] = Payload(i) /\ e[k] = Payload(q) /\ i \in Nat /\ i < q
          BY <1>6, <2>1, <2>5, <4>1, <4>2, <5>1 DEF Passes
        <5>3. Payload(i)[1].n = i /\ Payload(q)[1].n = q
          BY <2>1, <5>2, PayloadIs
        <5> QED
          BY <5>2, <5>3
      <4>3. CASE k \in 1 .. m
        <5>1. delivered[j][1].n < delivered[k][1].n
          BY <1>6, <3>2, <4>1, <4>3 DEF SubInv, InOrder
        <5>2. e[j] = delivered[j] /\ e[k] = delivered[k]
          BY <2>5, <4>1, <4>3 DEF Passes
        <5> QED
          BY <5>1, <5>2
      <4> QED
        BY <2>6, <4>2, <4>3
    <3> QED
      BY <1>1, <1>4, <2>4, <2>6, <3>1, <3>2 DEF InOrder
  <2>9. Follows(t, before, done + 1, last)'
    <3>1. Len(delivered') = before + (done + 1) /\ since + (done + 1) = q
      BY <1>4, <1>5, <2>1, <2>4, <2>5 DEF Passes
    <3>2. ASSUME NEW k \in 1 .. before PROVE \E i \in 1 .. since : e[k] = Payload(i)
      <4>1. k \in 1 .. m
        BY <1>5
      <4> QED
        BY <1>3, <2>5, <4>1 DEF Follows, Passes
    <3>3. ASSUME NEW k \in 1 .. done + 1 PROVE e[before + k] = Payload(since + k)
      <4>1. CASE k = done + 1
        <5>1. before + k = m + 1 /\ since + k = q
          BY <1>4, <1>5, <2>1, <4>1
        <5> QED
          BY <2>5, <5>1 DEF Passes
      <4>2. CASE k # done + 1
        <5>1. k \in 1 .. done /\ before + k \in 1 .. m
          BY <1>5, <4>2
        <5> QED
          BY <1>3, <2>5, <5>1 DEF Follows, Passes
      <4> QED
        BY <4>1, <4>2
    <3> QED
      BY <1>1, <1>3, <1>8, <1>10, <2>4, <3>1, <3>2, <3>3 DEF Follows
  <2>10. Told(t)'
    <3>1. done + 1 \in Nat
      OBVIOUS
    <3> QED
      BY <2>9, <3>1 DEF Told
  <2>11. SubTyped'
    BY <1>1, <1>2, <1>10, <2>4, <2>5 DEF SubInv, SubTyped, Passes
  <2> QED
    BY <1>7, <1>11, <2>8, <2>10, <2>11 DEF SubInv
<1> QED
  BY <1>12, <1>13

LEMMA SubHandles ==
  ASSUME SubInv, Reads
  PROVE  SubInv'
<1>1. NextMessage
  BY ReadsIs
<1>2. Gone \/ \E ms \in Seq(Seq(Units)) : Comes(ms)
  BY <1>1, MessageArrives
<1> QED
  BY <1>2, SubLoses, SubDelivers

-----------------------------------------------------------------------------
(* The subscriber: every step.                                             *)

LEMMA SubInitially ==
  ASSUME Init
  PROVE  SubInv
<1>1. /\ history = <<>> /\ sub = Disconnected /\ listening = "start" /\ since = 0
      /\ delivered = <<>>
  BY DEF Init
<1>2. Disconnected \in Links /\ Idle(Disconnected) /\ Disconnected.subscribed = FALSE
  BY ValuesDiffer DEF Disconnected, Links, Names, Idle, Spent
<1>3. /\ history \in Seq(Entries) /\ delivered \in Seq(Seq(Units)) /\ Len(history) = 0
      /\ Len(delivered) = 0 /\ DOMAIN delivered = {} /\ <<>> \in Seq(Seq(Units))
  BY <1>1
<1>4. SubTyped
  BY <1>1, <1>2, <1>3 DEF SubTyped, AtRest
<1>5. InOrder
  BY <1>3 DEF InOrder
<1>6. InStep(<<>>)
  <2>1. Telling(sub, Pushes(<<>>))
    BY <1>1, <1>2, IdleTells, PushesNone
  <2> QED
    BY <1>1, <2>1 DEF InStep, AtRest
<1>7. Told(<<>>)
  <2>1. 0 + 0 = 0 /\ 0 \in Nat /\ 1 .. 0 = {}
    OBVIOUS
  <2>2. Announces(<<>>, 0, 0)
    BY <2>1, AnnounceNone
  <2>3. Follows(<<>>, 0, 0, 0)
    BY <1>1, <1>3, <2>1, <2>2 DEF Follows
  <2> QED
    BY <2>1, <2>3 DEF Told
<1> QED
  BY <1>3, <1>4, <1>5, <1>6, <1>7 DEF SubInv

LEMMA SubSteps ==
  ASSUME SubInv, CallInv', [Next]_vars
  PROVE  SubInv'
<1>0. history' \in Seq(Entries)
  BY DEF CallInv, CallTyped
<1>1. CASE UNCHANGED vars
  BY <1>1, SubUnchanged DEF vars, subscriber
<1>2. CASE ServeGet \/ ServeRange
  BY <1>2, SubUnchanged DEF ServeGet, ServeRange, subscriber
<1>3. CASE ServeCommit
  BY <1>0, <1>3, SubHears DEF ServeCommit
<1>4. CASE ServeSubscribe
  BY <1>4, SubBegins
<1>5. CASE ReceiveReply \/ ReadReply
  BY <1>5, SubUnchanged DEF ReceiveReply, ReadReply, subscriber
<1>6. CASE ContentRead \/ RevisionRead \/ HistoryRead
  <2>1. UNCHANGED <<history, sub, listening, since, delivered>>
    BY <1>6 DEF ContentRead, RevisionRead, HistoryRead, Continue, subscriber
  <2> QED
    BY <2>1, SubUnchanged
<1>7. CASE SinceReturns \/ CommitReturns
  BY <1>7, SubUnchanged DEF SinceReturns, CommitReturns, Returned, subscriber
<1>8. CASE SubscriberStarts \/ Reconnect
  BY <1>8, SubStarts
<1>9. CASE ReceivePush \/ ReadPush \/ Subscribed
  BY <1>9, SubReceives, SubReads, SubAnswered
<1>10. CASE Recovered \/ Loop
  BY <1>10, SubGoesOn
<1>11. CASE Reads
  BY <1>11, SubHandles
<1>12. CASE StopPublishes
  BY <1>12, SubStops
<1>13. CASE StopJoins \/ Stop \/ RedisStarts
  BY <1>13, SubUnchanged DEF StopJoins, Stop, RedisStarts, subscriber
<1>14. CASE OperationsSince \/ Commit
  BY <1>14, SubUnchanged DEF OperationsSince, Commit, Begin, subscriber
<1>15. CASE CommitElsewhere
  BY <1>0, <1>15, SubHears DEF CommitElsewhere
<1>16. CASE Break
  BY <1>16, SubBreaks
<1> QED
  BY <1>1, <1>2, <1>3, <1>4, <1>5, <1>6, <1>7, <1>8, <1>9, <1>10, <1>11, <1>12, <1>13,
     <1>14, <1>15, <1>16 DEF Next, RedisRuns, CallRuns, Listens, Stops, Reads

(* A suffix, seen from its start.                                          *)
LEMMA SuffixIs ==
  ASSUME NEW S, NEW s \in Seq(S), NEW t \in Seq(S), NEW b \in Nat, Len(t) = b + Len(s),
         \A k \in 1 .. Len(s) : t[b + k] = s[k]
  PROVE  IsSuffix(s, t)
<1>1. PICK n, m, x, y : n = Len(s) /\ m = Len(t) /\ x = Reverse(s) /\ y = Reverse(t)
  OBVIOUS
<1>2. n \in Nat /\ m \in Nat /\ m = b + n /\ n <= m /\ n \in 0 .. m /\ n \in 0 .. n
  BY <1>1
<1>3. x \in Seq(S) /\ Len(x) = n /\ \A k \in 1 .. n : x[k] = s[n - k + 1]
  <2>1. x = [k \in 1 .. n |-> s[n - k + 1]]
    BY <1>1 DEF Reverse
  <2>2. \A k \in 1 .. n : s[n - k + 1] \in S
    <3>1. \A k \in 1 .. n : n - k + 1 \in 1 .. n
      BY <1>2
    <3> QED
      BY <1>1, <3>1
  <2> QED
    BY <1>2, <2>1, <2>2
<1>4. y \in Seq(S) /\ Len(y) = m /\ \A k \in 1 .. m : y[k] = t[m - k + 1]
  <2>1. y = [k \in 1 .. m |-> t[m - k + 1]]
    BY <1>1 DEF Reverse
  <2>2. \A k \in 1 .. m : t[m - k + 1] \in S
    <3>1. \A k \in 1 .. m : m - k + 1 \in 1 .. m
      BY <1>2
    <3> QED
      BY <1>1, <3>1
  <2> QED
    BY <1>2, <2>1, <2>2
<1>5. PICK u, v : u = SubSeq(x, 1, n) /\ v = SubSeq(y, 1, n)
  OBVIOUS
<1>6. u \in Seq(S) /\ Len(u) = n /\ \A k \in 1 .. n : u[k] = x[k]
  BY <1>2, <1>3, <1>5, SubSeqFirst
<1>7. v \in Seq(S) /\ Len(v) = n /\ \A k \in 1 .. n : v[k] = y[k]
  BY <1>2, <1>4, <1>5, SubSeqFirst
<1>8. ASSUME NEW k \in 1 .. n PROVE u[k] = v[k]
  <2>1. PICK j : j = n - k + 1
    OBVIOUS
  <2>2. j \in 1 .. n /\ k \in 1 .. m /\ m - k + 1 = b + j
    <3>1. k \in Nat /\ k <= n /\ 1 <= k
      BY <1>2
    <3> QED
      BY <1>2, <2>1, <3>1
  <2>3. t[b + j] = s[j]
    BY <1>1, <2>2
  <2> QED
    BY <1>3, <1>4, <1>6, <1>7, <2>1, <2>2, <2>3
<1>9. u = v
  BY <1>6, <1>7, <1>8, SeqSame
<1> QED
  BY <1>1, <1>2, <1>3, <1>4, <1>5, <1>9 DEF IsSuffix, IsPrefix

(* With nothing on its way, there is no message.                           *)
LEMMA QuietIs ==
  ASSUME SubInv, NothingOnItsWay, NEW ms \in Seq(Seq(Units)), InStep(ms)
  PROVE  ms = <<>>
<1>1. /\ listening = "message" /\ sub.state = "up" /\ Spent(sub) /\ sub.value = NoValue
      /\ sub \in Links
  BY DEF NothingOnItsWay, SubInv, SubTyped, Spent
<1>2. SUFFICES ASSUME ms # <<>> PROVE FALSE
  OBVIOUS
<1>3. PICK h, parts, values, more :
        /\ h = Head(ms) /\ parts = Parts("message", Bulk(h)) /\ more = Pushes(Tail(ms))
        /\ values = PartValues("message", Value("Bulk", h))
  OBVIOUS
<1>4. Reading(sub, parts, values, more)
  BY <1>1, <1>2, <1>3 DEF InStep, AtRest
<1>5. h \in Seq(Units) /\ Tail(ms) \in Seq(Seq(Units))
  BY <1>2, <1>3
<1>6. Matched(parts, values) /\ more \in Seq(Units)
  BY <1>3, <1>5, MessageIs, MessagesTyped
<1>7. Telling(sub, Array(parts) \o more)
  BY <1>1, <1>4, ValuesDiffer DEF Reading, InArray, Torn, Lost, Broken
<1>8. PICK x, y : x = Line("*", Len(parts)) /\ y = FlattenSeq(parts)
  OBVIOUS
<1>9. x \in Seq(Units) /\ Len(x) = 1 /\ y \in Seq(Units)
  <2>1. Len(parts) \in Nat /\ y \in Seq(Units)
    BY <1>6, <1>8, FlatTyped DEF Matched
  <2> QED
    BY <1>8, <2>1, LineIs DEF Tags
<1>10. PICK a : a = (x \o y) \o more
  OBVIOUS
<1>11. Len(a) > 0
  <2>1. x \o y \in Seq(Units) /\ Len(x \o y) = 1 + Len(y) /\ Len(y) \in Nat /\ Len(more) \in Nat
    <3>1. x \o y \in Seq(Units) /\ Len(x \o y) = Len(x) + Len(y)
      BY <1>9, ConcatProperties
    <3>2. Len(y) \in Nat /\ Len(more) \in Nat
      BY <1>6, <1>9
    <3> QED
      BY <1>9, <3>1, <3>2
  <2>2. Len(a) = Len(x \o y) + Len(more)
    BY <1>6, <1>10, <2>1, ConcatProperties
  <2> QED
    BY <2>1, <2>2
<1>12. Holds(sub, a) /\ Rest(sub) = <<>>
  <2>1. Holds(sub, a)
    BY <1>7, <1>8, <1>10 DEF Telling, Array
  <2>2. <<>> \in Seq(Units) /\ <<>> \o <<>> = <<>>
    BY ConcatEmptySeq
  <2> QED
    BY <1>1, <2>1, <2>2 DEF Rest, Spent
<1>13. a = <<>>
  <2>1. <<>> \o <<>> = <<>>
    BY ConcatEmptySeq
  <2> QED
    BY <1>1, <1>12, <2>1 DEF Holds
<1> QED
  BY <1>11, <1>13

LEMMA SubDeliveredInOrder ==
  ASSUME SubInv
  PROVE  DeliveredInOrder
<1>1. ASSUME NothingOnItsWay PROVE IsSuffix(Payloads(since, Len(history)), delivered)
  <2>1. PICK ms \in Seq(Seq(Units)) : Told(ms) /\ InStep(ms)
    BY DEF SubInv
  <2>2. ms = <<>>
    BY <1>1, <2>1, QuietIs
  <2>3. PICK before \in Nat, done \in Nat, last \in Nat : Follows(ms, before, done, last)
    BY <2>1 DEF Told
  <2>4. PICK n, s : n = Len(history) /\ s = Payloads(since, n)
    OBVIOUS
  <2>5. /\ since \in Nat /\ n \in Nat /\ since <= n /\ delivered \in Seq(Seq(Units))
        /\ sub.subscribed
    BY <1>1, <2>4 DEF SubInv, SubTyped, NothingOnItsWay
  <2>6. last = n /\ since + done \in Nat /\ Announces(<<>>, since + done, n)
    BY <2>2, <2>3, <2>4, <2>5 DEF Follows
  <2>7. since + done = n /\ n - since = done
    <3>1. since + done = n
      BY <2>5, <2>6, AnnounceNone
    <3> QED
      BY <2>5, <3>1
  <2>8. PayloadsAre(s, since, n, done)
    BY <2>4, <2>5, <2>7, PayloadsIs
  <2>9. /\ s \in Seq(Seq(Units)) /\ Len(s) = done /\ Len(delivered) = before + done
        /\ \A k \in 1 .. done : delivered[before + k] = s[k]
    BY <2>3, <2>8 DEF PayloadsAre, Follows
  <2>10. IsSuffix(s, delivered)
    BY <2>5, <2>9, SuffixIs
  <2> QED
    BY <2>4, <2>10
<1> QED
  BY <1>1 DEF SubInv, InOrder, DeliveredInOrder

-----------------------------------------------------------------------------
(* What holds in every state.                                              *)

(* The invariant of calls, on either connection of the store, holds.       *)
THEOREM CallsHold == Spec => []CallInv
<1>1. Init => CallInv
  BY CallStarts
<1>2. CallInv /\ [Next]_vars => CallInv'
  BY CallSteps
<1> QED
  BY <1>1, <1>2, PTL DEF Spec

(* A commit that Redis runs had read the whole content and exactly the     *)
(* operations after its base, however connections broke on the way         *)
(* (RedisStore::commit).                                                   *)
THEOREM CommitsSound == Spec => []CommitsSawAll
<1>1. CallInv => CommitsSawAll
  BY DEF CallInv
<1> QED
  BY <1>1, CallsHold, PTL

(* A call returns the reply to its own command, never a late one to an     *)
(* earlier; what a broken connection leaves of a history is an initial     *)
(* part of it (RedisClient::command, read_value).                          *)
THEOREM AnswersSound == Spec => []AnswersMatch
<1>1. CallInv => AnswersMatch
  BY DEF CallInv
<1> QED
  BY <1>1, CallsHold, PTL

(* The subscriber passes on operations in order, at most once and whole,   *)
(* and while its subscription lasts it skips none (subscribe_loop).        *)
THEOREM Delivers == Spec => []DeliveredInOrder
<1>1. Init => CallInv /\ SubInv
  BY CallStarts, SubInitially
<1>2. CallInv /\ SubInv /\ [Next]_vars => (CallInv /\ SubInv)'
  BY CallSteps, SubSteps
<1>3. SubInv => DeliveredInOrder
  BY SubDeliveredInOrder
<1> QED
  BY <1>1, <1>2, <1>3, PTL DEF Spec
=============================================================================

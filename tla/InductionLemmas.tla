-------------------------- MODULE InductionLemmas --------------------------
(***************************************************************************)
(* Induction for the provers: the library's induction theorems take an     *)
(* operator as a parameter, but well-foundedness of < gives every nonempty *)
(* set of numbers a least element, and "no least counterexample" does the  *)
(* rest.                                                                   *)
(***************************************************************************)
EXTENDS Integers, Sequences, FiniteSets, SequencesExt, Selection, FiniteSetTheorems,
        SequenceTheorems, WellFoundedInduction, TLAPS

(* Every nonempty set of natural numbers has a least element. *)
LEMMA Least ==
  ASSUME NEW S \in SUBSET Nat, S # {}
  PROVE  \E n \in S : \A m \in S : n <= m
<1> DEFINE R == OpToRel(<, Nat)
<1>1. IsWellFoundedOn(R, Nat)
  BY NatLessThanWellFounded
<1>2. \A y, x \in Nat : y < x => <<y, x>> \in R
  BY DEF OpToRel
<1> HIDE DEF R
<1>3. PICK x \in S : \A y \in S : ~ (<<y, x>> \in R)
  BY <1>1, WFMin
<1>4. ASSUME NEW m \in S PROVE x <= m
  <2>1. m \in Nat /\ x \in Nat
    OBVIOUS
  <2>2. ~(m < x)
    BY <1>2, <1>3, <2>1
  <2> QED
    BY <2>1, <2>2
<1> QED
  BY <1>4

(* Induction up to n, for the set of numbers that have a property. *)
LEMMA UpTo ==
  ASSUME NEW n \in Nat, NEW S, 0 \in S, \A i \in 1 .. n : i - 1 \in S => i \in S
  PROVE  \A i \in 0 .. n : i \in S
<1> DEFINE Bad == { i \in 0 .. n : i \notin S }
<1>1. SUFFICES ASSUME Bad # {} PROVE FALSE
  OBVIOUS
<1>2. PICK i \in Bad : \A j \in Bad : i <= j
  <2>1. Bad \in SUBSET Nat
    OBVIOUS
  <2> QED
    BY <1>1, <2>1, Least
<1>3. i \in 1 .. n /\ i - 1 \in 0 .. n /\ i - 1 \notin Bad
  BY <1>2
<1> QED
  BY <1>3

(* Rows with distinct revisions have an enumeration in ascending order. *)
Ascending(s) == \A i, j \in DOMAIN s : i < j => s[i].revision < s[j].revision

LEMMA AscendingExists ==
  ASSUME NEW R, IsFiniteSet(R), \A r \in R : r.revision \in Nat,
         \A r, q \in R : r.revision = q.revision => r = q
  PROVE  \E s \in [1 .. Cardinality(R) -> R] : Ascending(s)
<1> DEFINE Sortable(Q) == \E s \in [1 .. Cardinality(Q) -> Q] : Ascending(s)
           Bad == { n \in Nat : \E Q \in SUBSET R : /\ Cardinality(Q) = n
                                                    /\ ~Sortable(Q) }
<1>1. SUFFICES ASSUME Bad # {} PROVE FALSE
  <2>1. Cardinality(R) \in Nat
    BY FS_CardinalityType
  <2>2. Cardinality(R) \notin Bad => Sortable(R)
    BY <2>1
  <2> QED
    BY <1>1, <2>2
<1>2. PICK n \in Bad : \A m \in Bad : n <= m
  <2>1. Bad \in SUBSET Nat
    OBVIOUS
  <2> QED
    BY <1>1, <2>1, Least
<1>3. PICK Q \in SUBSET R : Cardinality(Q) = n /\ ~Sortable(Q)
  BY <1>2
<1>4. IsFiniteSet(Q) /\ n \in Nat
  BY <1>2, FS_Subset
<1>5. Q # {}
  <2>1. SUFFICES ASSUME Q = {} PROVE Sortable(Q)
    BY <1>3
  <2>2. Cardinality(Q) = 0
    BY <2>1, FS_EmptySet
  <2> DEFINE empty == [i \in 1 .. Cardinality(Q) |-> 0]
  <2>3. empty \in [1 .. Cardinality(Q) -> Q] /\ DOMAIN empty = {}
    BY <2>2
  <2> HIDE DEF empty
  <2>4. Ascending(empty)
    BY <2>3 DEF Ascending
  <2> QED
    BY <2>3, <2>4
<1>6. PICK least \in Q : \A r \in Q : least.revision <= r.revision
  <2> DEFINE N == { r.revision : r \in Q }
  <2>1. N \in SUBSET Nat /\ N # {}
    BY <1>5
  <2>2. PICK v \in N : \A w \in N : v <= w
    BY <2>1, Least
  <2>3. PICK l \in Q : l.revision = v
    OBVIOUS
  <2> QED
    BY <2>2, <2>3
<1> DEFINE P == Q \ {least}
<1>7. IsFiniteSet(P) /\ Cardinality(P) = n - 1 /\ n - 1 \in Nat
  <2>1. IsFiniteSet(P) /\ Cardinality(P) = Cardinality(Q) - 1
    BY <1>4, FS_RemoveElement
  <2>2. Cardinality(P) \in Nat
    BY <2>1, FS_CardinalityType
  <2> QED
    BY <1>3, <2>1, <2>2
<1>8. Sortable(P)
  <2>1. n - 1 \notin Bad
    BY <1>2, <1>4
  <2>2. P \in SUBSET R
    OBVIOUS
  <2> HIDE DEF Sortable, P
  <2> QED
    BY <1>7, <2>1, <2>2
<1>9. PICK p \in [1 .. n - 1 -> P] : Ascending(p)
  BY <1>7, <1>8
<1> DEFINE s == [i \in 1 .. n |-> IF i = 1 THEN least ELSE p[i - 1]]
<1>10. s \in [1 .. n -> Q]
  BY <1>4, <1>9
<1>11. \A i, j \in 1 .. n : i < j => s[i].revision < s[j].revision
  <2> SUFFICES ASSUME NEW i \in 1 .. n, NEW j \in 1 .. n, i < j
               PROVE  s[i].revision < s[j].revision
    OBVIOUS
  <2>1. j - 1 \in 1 .. n - 1 /\ s[j] = p[j - 1] /\ p[j - 1] \in P
    BY <1>4, <1>9
  <2>2. CASE i = 1
    <3>1. p[j - 1] # least /\ p[j - 1] \in Q
      BY <2>1
    <3>2. p[j - 1].revision # least.revision
      BY <3>1
    <3>3. least.revision \in Nat /\ p[j - 1].revision \in Nat
      BY <3>1
    <3>4. least.revision < p[j - 1].revision
      BY <1>6, <3>1, <3>2, <3>3
    <3> QED
      BY <2>1, <2>2, <3>4
  <2>3. CASE i # 1
    <3>1. i - 1 \in 1 .. n - 1 /\ i - 1 < j - 1 /\ s[i] = p[i - 1]
      BY <1>4, <2>3
    <3>2. DOMAIN p = 1 .. n - 1
      BY <1>9
    <3> QED
      BY <1>9, <2>1, <3>1, <3>2 DEF Ascending
  <2> QED
    BY <2>2, <2>3
<1>12. Sortable(Q)
  <2>1. DOMAIN s = 1 .. n
    OBVIOUS
  <2>2. Ascending(s)
    BY <1>11, <2>1 DEF Ascending
  <2> HIDE DEF s
  <2> QED
    BY <1>3, <1>10, <2>2
<1> QED
  BY <1>3, <1>12
-----------------------------------------------------------------------------
(* FoldLeft is a recursive function on the sets of positions of a sequence, *)
(* which takes the greatest position off a set.                            *)

(* Max is the greatest element of a nonempty set of positions. *)
LEMMA MaxOf ==
  ASSUME NEW n \in Int, NEW s \in SUBSET (1 .. n), s # {}
  PROVE  Max(s) \in s /\ \A y \in s : y <= Max(s)
<1> DEFINE Below == { n - y : y \in s }
<1>0. \A y \in s : y \in Int /\ y <= n
  OBVIOUS
<1>1. Below \in SUBSET Nat /\ Below # {}
  <2>1. \A y \in s : n - y \in Nat
    BY <1>0
  <2>2. Below \subseteq Nat
    BY <2>1
  <2>3. PICK y \in s : TRUE
    OBVIOUS
  <2>4. n - y \in Below
    OBVIOUS
  <2> QED
    BY <2>2, <2>4
<1>2. PICK d \in Below : \A e \in Below : d <= e
  BY <1>1, Least
<1>3. PICK x \in s : d = n - x
  OBVIOUS
<1>4. ASSUME NEW y \in s PROVE x >= y
  <2>1. d <= n - y
    BY <1>2
  <2>2. x \in Int /\ y \in Int
    BY <1>0
  <2> QED
    BY <1>3, <2>1, <2>2
<1>5. \E z \in s : \A y \in s : z >= y
  BY <1>4
<1>6. Max(s) \in s /\ \A y \in s : Max(s) >= y
  BY <1>5 DEF Max
<1> QED
  <2>1. Max(s) \in Int
    BY <1>0, <1>6
  <2> QED
    BY <1>0, <1>6, <2>1

(* The greatest position of the first i, and what is left without it. *)
LEMMA MaxOfFirst ==
  ASSUME NEW i \in Nat \ {0}
  PROVE  Max(1 .. i) = i /\ (1 .. i) \ {i} = 1 .. i - 1
<1> DEFINE all == 1 .. i
<1>1. i \in Int /\ all \in SUBSET (1 .. i) /\ all # {} /\ i \in all
  OBVIOUS
<1> HIDE DEF all
<1>2. Max(all) \in all /\ \A y \in all : y <= Max(all)
  BY <1>1, MaxOf
<1>4. Max(1 .. i) \in 1 .. i /\ i <= Max(1 .. i)
  BY <1>1, <1>2 DEF all
<1>3. Max(1 .. i) = i
  BY <1>4
<1> QED
  BY <1>3

(* The recursion of a fold has a solution, whatever the step.              *)
IsFold(iter, base, step, n) ==
  \A s \in SUBSET (1 .. n) :
    iter[s] = IF s = {} THEN base ELSE step[<<iter[s \ {Max(s)}], Max(s)>>]

LEMMA FoldExists ==
  ASSUME NEW n \in Int, NEW A, NEW base \in A, NEW step \in [A \X (1 .. n) -> A]
  PROVE  \E iter \in [SUBSET (1 .. n) -> A] : IsFold(iter, base, step, n)
<1> DEFINE Solves(iter, s) ==
             iter[s] = IF s = {} THEN base
                       ELSE step[<<iter[s \ {Max(s)}], Max(s)>>]
           Solvable(k) == \E iter \in [SUBSET (1 .. k) -> A] :
                            \A s \in SUBSET (1 .. k) : Solves(iter, s)
<1>1. ASSUME n < 1 PROVE Solvable(n)
  <2>1. SUBSET (1 .. n) = {{}}
    BY <1>1
  <2> DEFINE iter == [s \in SUBSET (1 .. n) |-> base]
  <2>2. iter \in [SUBSET (1 .. n) -> A] /\ iter[{}] = base
    BY <2>1
  <2> QED
    BY <2>1, <2>2
<1>2. ASSUME n >= 1 PROVE Solvable(n)
  <2>1. Solvable(0)
    <3>1. SUBSET (1 .. 0) = {{}}
      OBVIOUS
    <3> DEFINE iter == [s \in SUBSET (1 .. 0) |-> base]
    <3>2. iter \in [SUBSET (1 .. 0) -> A] /\ iter[{}] = base
      BY <3>1
    <3> QED
      BY <3>1, <3>2
  <2>2. ASSUME NEW k \in 0 .. n - 1, Solvable(k)
        PROVE  Solvable(k + 1)
    <3>1. PICK iter \in [SUBSET (1 .. k) -> A] :
             \A s \in SUBSET (1 .. k) : Solves(iter, s)
      BY <2>2
    <3> DEFINE more == [s \in SUBSET (1 .. k + 1) |->
                          IF k + 1 \in s THEN step[<<iter[s \ {k + 1}], k + 1>>]
                          ELSE iter[s]]
    <3>2. \A s \in SUBSET (1 .. k + 1) : s \ {k + 1} \in SUBSET (1 .. k)
      BY <2>2
    <3>3. k + 1 \in 1 .. n
      BY <2>2
    <3>4. \A s \in SUBSET (1 .. k + 1) : k + 1 \notin s => s \in SUBSET (1 .. k)
      BY <3>2
    <3>5. more \in [SUBSET (1 .. k + 1) -> A]
      <4>1. ASSUME NEW s \in SUBSET (1 .. k + 1) PROVE more[s] \in A
        <5>1. CASE k + 1 \in s
          <6>1. iter[s \ {k + 1}] \in A
            BY <3>2
          <6>2. <<iter[s \ {k + 1}], k + 1>> \in A \X (1 .. n)
            BY <3>3, <6>1
          <6>3. step[<<iter[s \ {k + 1}], k + 1>>] \in A
            BY <6>2
          <6> QED
            BY <5>1, <6>3
        <5>2. CASE k + 1 \notin s
          BY <3>4, <5>2
        <5> QED
          BY <5>1, <5>2
      <4> QED
        BY <4>1
    <3>6. ASSUME NEW s \in SUBSET (1 .. k) PROVE more[s] = iter[s]
      BY <2>2
    <3>7. ASSUME NEW s \in SUBSET (1 .. k + 1) PROVE Solves(more, s)
      <4>1. CASE k + 1 \in s
        <5>1. \A y \in s : y <= k + 1
          BY <2>2
        <5>2. k + 1 \in Int /\ s # {}
          BY <2>2, <4>1
        <5>6. Max(s) \in s /\ \A y \in s : y <= Max(s)
          BY <5>2, MaxOf
        <5>7. Max(s) \in 1 .. k + 1 /\ k + 1 <= Max(s)
          BY <4>1, <5>6
        <5>3. Max(s) = k + 1
          BY <2>2, <5>7
        <5>4. more[s \ {k + 1}] = iter[s \ {k + 1}]
          BY <3>2, <3>6
        <5>5. more[s] = step[<<more[s \ {k + 1}], k + 1>>]
          BY <4>1, <5>4
        <5> QED
          BY <4>1, <5>3, <5>5
      <4>2. CASE k + 1 \notin s
        <5>1. s \in SUBSET (1 .. k) /\ s \ {Max(s)} \in SUBSET (1 .. k)
          BY <3>4, <4>2
        <5>2. Solves(iter, s)
          BY <3>1, <5>1
        <5>3. more[s] = iter[s] /\ more[s \ {Max(s)}] = iter[s \ {Max(s)}]
          BY <3>6, <5>1
        <5> QED
          BY <5>2, <5>3
      <4> QED
        BY <4>1, <4>2
    <3> HIDE DEF more, Solves
    <3> QED
      BY <3>5, <3>7
  <2> DEFINE Bad == { k \in 0 .. n : ~Solvable(k) }
  <2>3. Bad = {}
    <3>1. SUFFICES ASSUME Bad # {} PROVE FALSE
      OBVIOUS
    <3>2. PICK k \in Bad : \A m \in Bad : k <= m
      <4>1. Bad \in SUBSET Nat
        OBVIOUS
      <4> QED
        BY <3>1, <4>1, Least
    <3> HIDE DEF Solvable
    <3>3. k # 0 /\ k \in 0 .. n /\ ~Solvable(k)
      BY <2>1
    <3>4. k - 1 \in 0 .. n - 1 /\ k - 1 \notin Bad
      BY <3>2, <3>3
    <3>5. Solvable(k - 1)
      BY <3>4
    <3>6. Solvable(k - 1 + 1)
      BY <2>2, <3>4, <3>5
    <3>7. k - 1 + 1 = k
      BY <3>3
    <3> QED
      BY <3>3, <3>6, <3>7
  <2>4. Solvable(n)
    <3> HIDE DEF Solvable
    <3> QED
      BY <1>2, <2>3
  <2> QED
    BY <2>4
<1>3. n < 1 \/ n >= 1
  OBVIOUS
<1> HIDE DEF Solvable
<1>4. Solvable(n)
  BY <1>1, <1>2, <1>3
<1> QED
  BY <1>4 DEF Solvable, IsFold
(* What the fold of a sequence passes through, one element at a time.      *)
FoldsWithin(iter, A, base, step, n) ==
  /\ iter[{}] = base
  /\ \A s \in SUBSET (1 .. n) : s # {} /\ iter[s \ {Max(s)}] \in A =>
       iter[s] = step[<<iter[s \ {Max(s)}], Max(s)>>]

IsRun(t, base, step, n) ==
  /\ t[0] = base
  /\ \A i \in 1 .. n : t[i] = step[<<t[i - 1], i>>]

RunsTo(last, A, base, step, n) ==
  \E t \in [0 .. n -> A] : IsRun(t, base, step, n) /\ t[n] = last

LEMMA FoldRuns ==
  ASSUME NEW n \in Nat, NEW A, NEW base \in A, NEW step \in [A \X (1 .. n) -> A],
         NEW iter, FoldsWithin(iter, A, base, step, n)
  PROVE  RunsTo(iter[1 .. n], A, base, step, n)
<1> DEFINE t == [i \in 0 .. n |-> iter[1 .. i]]
           Bad == { i \in 0 .. n : iter[1 .. i] \notin A }
<1>1. 1 .. 0 = {} /\ iter[1 .. 0] = base
  BY DEF FoldsWithin
<1>2. ASSUME NEW i \in 1 .. n, iter[1 .. i - 1] \in A
      PROVE  /\ iter[1 .. i] = step[<<iter[1 .. i - 1], i>>]
             /\ iter[1 .. i] \in A
  <2>1. i \in Nat \ {0} /\ i \in 1 .. i /\ 1 .. i \subseteq 1 .. n
    OBVIOUS
  <2>2. Max(1 .. i) = i /\ (1 .. i) \ {i} = 1 .. i - 1
    BY <2>1, MaxOfFirst
  <2>3. 1 .. i # {} /\ 1 .. i \in SUBSET (1 .. n)
    BY <2>1
  <2>4. iter[1 .. i] = step[<<iter[1 .. i - 1], i>>]
    BY <1>2, <2>2, <2>3 DEF FoldsWithin
  <2> QED
    BY <1>2, <2>4
<1>3. Bad = {}
  <2>1. SUFFICES ASSUME Bad # {} PROVE FALSE
    OBVIOUS
  <2>2. PICK i \in Bad : \A j \in Bad : i <= j
    <3>1. Bad \in SUBSET Nat
      OBVIOUS
    <3> QED
      BY <2>1, <3>1, Least
  <2>3. i \in 1 .. n /\ iter[1 .. i] \notin A
    BY <1>1
  <2>4. i - 1 \in 0 .. n /\ i - 1 \notin Bad
    BY <2>2, <2>3
  <2> QED
    BY <1>2, <2>3, <2>4
<1>4. t \in [0 .. n -> A]
  BY <1>3
<1>5. t[0] = base /\ t[n] = iter[1 .. n]
  BY <1>1
<1>6. ASSUME NEW i \in 1 .. n PROVE t[i] = step[<<t[i - 1], i>>]
  <2>1. i - 1 \in 0 .. n /\ i \in 0 .. n
    OBVIOUS
  <2>2. iter[1 .. i - 1] \in A
    BY <1>3, <2>1
  <2> QED
    BY <1>2, <2>1, <2>2
<1> HIDE DEF t
<1> QED
  BY <1>4, <1>5, <1>6 DEF IsRun, RunsTo

-----------------------------------------------------------------------------
(* A loop that keeps some elements of a sequence, one element at a time.   *)
Selects(t, s, T) ==
  /\ t[0] = <<>>
  /\ \A i \in 1 .. Len(s) : t[i] = IF s[i] \in T THEN Append(t[i - 1], s[i]) ELSE t[i - 1]

LEMMA ThoseRuns ==
  ASSUME NEW S, NEW s \in Seq(S), NEW T
  PROVE  \E t \in [0 .. Len(s) -> Seq(S)] : Selects(t, s, T) /\ Those(s, T) = t[Len(s)]
<1> DEFINE n == Len(s)
           A == Seq(S)
           Next(x, e) == IF e \in T THEN Append(x, e) ELSE x
           Body(iter) == [Q \in SUBSET (1 .. n) |->
                            IF Q = {} THEN <<>>
                            ELSE Next(iter[Q \ {Max(Q)}], s[Max(Q)])]
           iter == CHOOSE it : it = Body(it)
           step == [p \in A \X (1 .. n) |-> Next(p[1], s[p[2]])]
<1>1. n \in Nat /\ n \in Int /\ DOMAIN s = 1 .. n /\ \A i \in 1 .. n : s[i] \in S
  OBVIOUS
<1>2. step \in [A \X (1 .. n) -> A]
  <2>1. \A x \in A, i \in 1 .. n : Next(x, s[i]) \in A
    BY <1>1
  <2> HIDE DEF A, Next
  <2> QED
    BY <2>1
<1>3. <<>> \in A
  OBVIOUS
<1>4. Those(s, T) = iter[1 .. n]
  BY <1>1 DEF Those, FoldLeft, MapThenFoldSet
<1>5. ASSUME NEW x \in A, NEW i \in 1 .. n PROVE step[<<x, i>>] = Next(x, s[i])
  OBVIOUS
<1>0. ASSUME NEW x, NEW e PROVE Next(x, e) = IF e \in T THEN Append(x, e) ELSE x
  OBVIOUS
<1> HIDE DEF A, n, Next
<1> HIDE DEF step
<1>6. iter = Body(iter)
  <2>1. PICK it \in [SUBSET (1 .. n) -> A] : IsFold(it, <<>>, step, n)
    BY <1>1, <1>2, <1>3, FoldExists
  <2>2. ASSUME NEW Q \in SUBSET (1 .. n), Q # {}
        PROVE  it[Q] = Next(it[Q \ {Max(Q)}], s[Max(Q)])
    <3>1. Max(Q) \in 1 .. n /\ it[Q \ {Max(Q)}] \in A
      BY <1>1, <2>2, MaxOf
    <3>2. it[Q] = step[<<it[Q \ {Max(Q)}], Max(Q)>>]
      BY <2>1, <2>2 DEF IsFold
    <3> QED
      BY <1>5, <3>1, <3>2
  <2>3. it[{}] = <<>>
    BY <2>1 DEF IsFold
  <2>4. it = Body(it)
    BY <2>2, <2>3
  <2> HIDE DEF Body
  <2> QED
    BY <2>4
<1> HIDE DEF iter
<1>7. FoldsWithin(iter, A, <<>>, step, n)
  <2>1. ASSUME NEW Q \in SUBSET (1 .. n), Q # {}, iter[Q \ {Max(Q)}] \in A
        PROVE  iter[Q] = step[<<iter[Q \ {Max(Q)}], Max(Q)>>]
    <3>1. Max(Q) \in 1 .. n
      BY <1>1, <2>1, MaxOf
    <3>2. Body(iter)[Q] = Next(iter[Q \ {Max(Q)}], s[Max(Q)])
      BY <2>1
    <3> HIDE DEF Body
    <3> QED
      BY <1>5, <1>6, <2>1, <3>1, <3>2
  <2>2. Body(iter)[{}] = <<>>
    OBVIOUS
  <2> HIDE DEF Body
  <2>3. iter[{}] = <<>>
    BY <1>6, <2>2
  <2> QED
    BY <2>1, <2>3 DEF FoldsWithin
<1> HIDE DEF Body
<1>8. PICK t \in [0 .. n -> A] : IsRun(t, <<>>, step, n) /\ t[n] = iter[1 .. n]
  <2>1. RunsTo(iter[1 .. n], A, <<>>, step, n)
    BY <1>1, <1>2, <1>3, <1>7, FoldRuns
  <2> QED
    BY <2>1 DEF RunsTo
<1>9. Selects(t, s, T)
  <2>1. ASSUME NEW i \in 1 .. n
        PROVE  t[i] = IF s[i] \in T THEN Append(t[i - 1], s[i]) ELSE t[i - 1]
    <3>1. i - 1 \in 0 .. n
      BY <1>1
    <3>2. t[i - 1] \in A /\ t[i] = step[<<t[i - 1], i>>]
      BY <1>8, <3>1 DEF IsRun
    <3> QED
      BY <1>0, <1>5, <3>2
  <2> QED
    BY <1>8, <2>1 DEF IsRun, Selects, n
<1> QED
  BY <1>4, <1>8, <1>9 DEF A, n

(* It keeps exactly those.                                                 *)
KeptUpTo(x, s, T, i) ==
  /\ \A k \in 1 .. Len(x) : \E j \in 1 .. i : x[k] = s[j] /\ s[j] \in T
  /\ \A j \in 1 .. i : s[j] \in T => \E k \in 1 .. Len(x) : x[k] = s[j]

LEMMA ThoseAre ==
  ASSUME NEW S, NEW s \in Seq(S), NEW T
  PROVE  Those(s, T) \in Seq(S) /\ KeptUpTo(Those(s, T), s, T, Len(s))
<1>1. PICK t \in [0 .. Len(s) -> Seq(S)] : Selects(t, s, T) /\ Those(s, T) = t[Len(s)]
  BY ThoseRuns
<1> DEFINE Good == { i \in 0 .. Len(s) : KeptUpTo(t[i], s, T, i) }
<1>2. Len(s) \in Nat /\ 0 \in Good
  BY <1>1 DEF Selects, KeptUpTo
<1>3. ASSUME NEW i \in 1 .. Len(s), i - 1 \in Good PROVE i \in Good
  <2>1. PICK x, e : x = t[i - 1] /\ e = s[i]
    OBVIOUS
  <2>0. i - 1 \in 0 .. Len(s) /\ i \in 0 .. Len(s)
    BY <1>2
  <2>2. x \in Seq(S) /\ e \in S /\ i - 1 \in 0 .. Len(s) /\ i \in 0 .. Len(s)
    BY <2>0, <2>1
  <2>3. KeptUpTo(x, s, T, i - 1) /\ t[i] = IF e \in T THEN Append(x, e) ELSE x
    BY <1>1, <1>3, <2>1 DEF Selects
  <2>4. CASE e \notin T
    <3>1. t[i] = x
      BY <2>3, <2>4
    <3>2. \A j \in 1 .. i : j \in 1 .. i - 1 \/ j = i
      BY <2>2
    <3>3. 1 .. i - 1 \subseteq 1 .. i
      BY <2>2
    <3>4. KeptUpTo(x, s, T, i)
      BY <2>1, <2>3, <2>4, <3>2, <3>3 DEF KeptUpTo
    <3> QED
      BY <2>2, <3>1, <3>4
  <2>5. CASE e \in T
    <3>1. PICK y : y = Append(x, e)
      OBVIOUS
    <3>2. /\ Len(y) = Len(x) + 1 /\ y[Len(y)] = e /\ Len(x) \in Nat
          /\ \A k \in 1 .. Len(x) : y[k] = x[k]
      BY <2>2, <3>1
    <3>3. ASSUME NEW k \in 1 .. Len(y) PROVE \E j \in 1 .. i : y[k] = s[j] /\ s[j] \in T
      <4>1. CASE k = Len(y)
        BY <2>1, <2>2, <2>5, <3>2, <4>1
      <4>2. CASE k # Len(y)
        <5>1. k \in 1 .. Len(x)
          BY <3>2, <4>2
        <5>2. PICK j \in 1 .. i - 1 : x[k] = s[j] /\ s[j] \in T
          BY <2>3, <5>1 DEF KeptUpTo
        <5>3. j \in 1 .. i
          BY <2>2
        <5> QED
          BY <3>2, <5>1, <5>2, <5>3
      <4> QED
        BY <4>1, <4>2
    <3>4. ASSUME NEW j \in 1 .. i, s[j] \in T PROVE \E k \in 1 .. Len(y) : y[k] = s[j]
      <4>1. CASE j = i
        <5>1. Len(y) \in 1 .. Len(y)
          BY <3>2
        <5> QED
          BY <2>1, <3>2, <4>1, <5>1
      <4>2. CASE j # i
        <5>1. j \in 1 .. i - 1
          BY <2>2, <4>2
        <5>2. PICK k \in 1 .. Len(x) : x[k] = s[j]
          BY <2>3, <3>4, <5>1 DEF KeptUpTo
        <5>3. k \in 1 .. Len(y)
          BY <3>2
        <5> QED
          BY <3>2, <5>2, <5>3
      <4> QED
        BY <4>1, <4>2
    <3>5. KeptUpTo(y, s, T, i)
      BY <3>3, <3>4 DEF KeptUpTo
    <3> QED
      BY <2>2, <2>3, <2>5, <3>1, <3>5
  <2> QED
    BY <2>4, <2>5
<1> HIDE DEF Good
<1>4. \A i \in 0 .. Len(s) : i \in Good
  BY <1>2, <1>3, UpTo
<1>5. Len(s) \in Good
  BY <1>2, <1>4
<1> QED
  BY <1>1, <1>5 DEF Good

=============================================================================

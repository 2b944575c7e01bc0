---------------------------- MODULE FanoutProofs ----------------------------
(***************************************************************************)
(* What Fanout promises, proved for any number of servers, sessions,       *)
(* browsers and operations: its types (TypeOK), that no session is sent    *)
(* one operation by two broadcasts (ToldOnce), that every session is sent  *)
(* what was committed after it was registered (EveryoneIsTold), that       *)
(* browsers which received every operation in its turn show the text of    *)
(* their revision, and while no call of the store fails the server's when  *)
(* nothing is under way (OrderlyConverge), and that what was typed is then *)
(* committed (EditsCommitted).                                             *)
(*                                                                         *)
(* Typed strengthens TypeOK by what frames carry: a frame that announces   *)
(* an operation names one of the log, at its place.  Members says who is   *)
(* in a list of clients, Once what the set of seen operations stands for   *)
(* while it holds every operation, and Told where each revision that a     *)
(* session has to learn of is at any time.  BrowsersInv is about what a    *)
(* browser will have when it has received all frames on its socket.        *)
(***************************************************************************)
EXTENDS Fanout, InductionLemmas, SequenceTheorems

-----------------------------------------------------------------------------
(* Frames, browsers and sessions as far as a log l goes.                   *)

RevsOf(l) == 0 .. Len(l)

FramesOf(l) ==
  [kind: {"none", "init", "sync", "op", "catchup", "snapshot", "error"},
   opId: OpIds \cup {NoSession}, from: RevsOf(l), to: RevsOf(l), ops: Seq(RevsOf(l))]

(* Frames that announce a committed operation.                             *)
Announcing(l) ==
  { f \in FramesOf(l) :
      f.kind = "op" /\ f.to \in DOMAIN l /\ f.opId = l[f.to] /\ f.ops = <<>> }

ToBrowser(l) ==
  { f \in FramesOf(l) : (f.kind = "op" => f \in Announcing(l)) /\ f.ops \in Seq(DOMAIN l) }

FromBrowser(l) == { f \in FramesOf(l) : f.kind = "op" => f.opId \in OpIds }

Fans(l) == {NoFan} \cup [op: Announcing(l), todo: Seq(Sessions) \ {<<>>}]

BrowsersOf(l) ==
  [session: Sessions \cup {NoSession}, enabled: BOOLEAN, hasSession: BOOLEAN,
   revision: RevsOf(l), text: Seq(OpIds), pending: Seq(OpIds),
   applied: SUBSET OpIds, edited: SUBSET OpIds, base: RevsOf(l),
   orderly: BOOLEAN, cleared: BOOLEAN]

SentOf(l) == [since: RevsOf(l), acks: SUBSET RevsOf(l), broadcasts: Seq(RevsOf(l))]

StoreTyped ==
  /\ log \in Seq(OpIds) /\ IsInjective(log)
  /\ channel \in [Servers -> Seq(Announcing(log))]
  /\ lost \in [Servers -> SUBSET RevsOf(log)] /\ failures \in 0 .. MaxFailures

SeenTyped ==
  /\ seen \in [Servers -> Seq(OpIds)]
  /\ \A s \in Servers : IsInjective(seen[s]) /\ Len(seen[s]) <= SeenLimit

ThreadsTyped ==
  /\ clients \in [Servers -> Seq(Sessions)]
  /\ fan \in [Servers \cup Sessions -> Fans(log)]
  /\ pc \in [Sessions -> Labels]
  /\ request \in [Sessions -> ToBrowser(log)]
  /\ server \in [Sessions -> Servers]
  /\ \A x \in Sessions : pc[x] \in {"ack", "mark"} => request[x] \in Announcing(log)

BrowsersTyped ==
  /\ inbox \in [Sessions -> Seq(FromBrowser(log))]
  /\ socket \in [Sessions -> Seq(ToBrowser(log))]
  /\ browser \in [Browsers -> BrowsersOf(log)]
  /\ sent \in [Sessions -> SentOf(log)]

Typed == StoreTyped /\ SeenTyped /\ ThreadsTyped /\ BrowsersTyped

-----------------------------------------------------------------------------
(* Who is registered where.                                                *)

Home(a) == IF a \in Servers THEN a ELSE server[a]

Active(x) == pc[x] \notin {"unused", "register", "done"}

(* Clients are the active sessions of a server, each once.                 *)
Enlisted ==
  /\ \A s \in Servers : IsInjective(clients[s])
  /\ \A s \in Servers : \A x \in ToSet(clients[s]) : server[x] = s /\ Active(x)
  /\ \A x \in Sessions : Active(x) => x \in ToSet(clients[server[x]])

(* A session reads its next message after its broadcast.                   *)
SendsFirst == \A x \in Sessions : pc[x] # "read" => fan[x] = NoFan

(* A broadcast goes to sessions of its server, to each once.               *)
Recipients ==
  \A a \in Servers \cup Sessions :
    /\ IsInjective(fan[a].todo)
    /\ \A x \in ToSet(fan[a].todo) : server[x] = Home(a)

Members == Enlisted /\ SendsFirst /\ Recipients

-----------------------------------------------------------------------------
(* While the set of seen operations has room for all of the log.           *)

SeenIsCommitted == \A s \in Servers : ToSet(seen[s]) \subseteq ToSet(log)

SeenWhenSent ==
  \A x \in Sessions : \A r \in ToSet(sent[x].broadcasts) :
    r \in DOMAIN log /\ log[r] \in ToSet(seen[server[x]])

FansSeen ==
  \A a \in Servers \cup Sessions :
    fan[a] # NoFan => fan[a].op.opId \in ToSet(seen[Home(a)])

FansDiffer ==
  \A a, b \in Servers \cup Sessions :
    fan[a] # NoFan /\ fan[b] # NoFan /\ a # b /\ Home(a) = Home(b)
      => fan[a].op.to # fan[b].op.to

NotSentYet ==
  \A a \in Servers \cup Sessions : \A x \in ToSet(fan[a].todo) :
    fan[a].op.to \notin ToSet(sent[x].broadcasts)

SentOnce == \A x \in Sessions : IsInjective(sent[x].broadcasts)

Once == SeenWhenSent /\ FansSeen /\ FansDiffer /\ NotSentYet /\ SentOnce

OnceInv == SeenIsCommitted /\ (Len(log) <= SeenLimit => Once)

-----------------------------------------------------------------------------
(* Where the revisions a session has to learn of are.                      *)

BeingSent(x, r) ==
  \E a \in Servers \cup Sessions :
    fan[a] # NoFan /\ fan[a].op.to = r /\ x \in ToSet(fan[a].todo)

Covered(x, r) ==
  \/ r <= sent[x].since
  \/ r \in sent[x].acks \cup ToSet(sent[x].broadcasts) \cup lost[server[x]]
  \/ BeingSent(x, r)

UnderWay(x, r) == \E i \in DOMAIN channel[server[x]] : channel[server[x]][i].to = r

(* What a session has to learn of, it learned, is being sent, or Redis     *)
(* still has to deliver.                                                   *)
Reaches ==
  \A x \in Sessions : \A r \in DOMAIN log :
    Active(x) => Covered(x, r) \/ UnderWay(x, r)

(* What a server has seen needs no delivery any more.                      *)
SeenIsCovered ==
  \A x \in Sessions : \A r \in DOMAIN log :
    Active(x) /\ log[r] \in ToSet(seen[server[x]]) => Covered(x, r)

MarkedIsAcked ==
  \A x \in Sessions : pc[x] = "mark" => request[x].to \in sent[x].acks

ToldInv == Reaches /\ SeenIsCovered /\ MarkedIsAcked

-----------------------------------------------------------------------------
(* Sequences: what they hold, and that they hold nothing twice.            *)

LEMMA AppendHolds ==
  ASSUME NEW T, NEW s \in Seq(T), NEW e \in T
  PROVE  /\ Append(s, e) \in Seq(T) /\ Append(s, e) # <<>>
         /\ ToSet(Append(s, e)) = ToSet(s) \cup {e}
         /\ IsInjective(s) /\ e \notin ToSet(s) => IsInjective(Append(s, e))
<1> DEFINE t == Append(s, e)
<1>1. t \in Seq(T) /\ Len(t) = Len(s) + 1 /\ Len(s) \in Nat
  OBVIOUS
<1>2. \A i \in 1 .. Len(s) : t[i] = s[i]
  OBVIOUS
<1>3. t[Len(s) + 1] = e
  OBVIOUS
<1>4. DOMAIN s = 1 .. Len(s) /\ DOMAIN t = 1 .. Len(s) + 1
  BY <1>1
<1> HIDE DEF t
<1>5. ToSet(t) = ToSet(s) \cup {e}
  <2>1. \A i \in DOMAIN t : i \in DOMAIN s \/ i = Len(s) + 1
    BY <1>1, <1>4
  <2>2. ToSet(t) \subseteq ToSet(s) \cup {e}
    BY <1>2, <1>3, <1>4, <2>1 DEF ToSet
  <2>3. Len(s) + 1 \in DOMAIN t /\ DOMAIN s \subseteq DOMAIN t
    BY <1>1, <1>4
  <2>4. ToSet(s) \cup {e} \subseteq ToSet(t)
    BY <1>2, <1>3, <1>4, <2>3 DEF ToSet
  <2> QED
    BY <2>2, <2>4
<1>6. ASSUME IsInjective(s), e \notin ToSet(s) PROVE IsInjective(t)
  <2>1. \A i \in 1 .. Len(s) : s[i] # e
    BY <1>4, <1>6 DEF ToSet
  <2>2. ASSUME NEW i \in DOMAIN t, NEW j \in DOMAIN t, t[i] = t[j] PROVE i = j
    <3>1. i \in 1 .. Len(s) \/ i = Len(s) + 1
      BY <1>1, <1>4
    <3>2. j \in 1 .. Len(s) \/ j = Len(s) + 1
      BY <1>1, <1>4
    <3> QED
      BY <1>2, <1>3, <1>4, <1>6, <2>1, <2>2, <3>1, <3>2 DEF IsInjective
  <2> QED
    BY <2>2 DEF IsInjective
<1>7. t # <<>>
  BY <1>1
<1> QED
  BY <1>1, <1>5, <1>6, <1>7 DEF t

LEMMA TailHolds ==
  ASSUME NEW T, NEW s \in Seq(T), s # <<>>
  PROVE  /\ Head(s) \in T /\ Head(s) = s[1] /\ Tail(s) \in Seq(T)
         /\ Len(Tail(s)) = Len(s) - 1
         /\ \A i \in DOMAIN Tail(s) : i + 1 \in DOMAIN s /\ Tail(s)[i] = s[i + 1]
         /\ ToSet(s) = {Head(s)} \cup ToSet(Tail(s))
         /\ IsInjective(s) => IsInjective(Tail(s)) /\ Head(s) \notin ToSet(Tail(s))
<1> DEFINE t == Tail(s)
<1>1. Len(s) \in Nat /\ Len(s) >= 1 /\ Head(s) = s[1] /\ DOMAIN s = 1 .. Len(s)
  OBVIOUS
<1>2. t \in Seq(T) /\ Len(t) = Len(s) - 1
  OBVIOUS
<1>3. \A i \in 1 .. Len(s) - 1 : t[i] = s[i + 1]
  OBVIOUS
<1>4. DOMAIN t = 1 .. Len(s) - 1
  BY <1>2
<1> HIDE DEF t
<1>5. s[1] \in T /\ 1 \in DOMAIN s
  BY <1>1
<1>6. \A i \in DOMAIN t : i + 1 \in DOMAIN s /\ i + 1 # 1 /\ t[i] = s[i + 1]
  BY <1>1, <1>3, <1>4
<1>7. \A i \in DOMAIN s : i = 1 \/ (i - 1 \in DOMAIN t /\ t[i - 1] = s[i])
  <2> TAKE i \in DOMAIN s
  <2>1. CASE i # 1
    <3>1. i - 1 \in 1 .. Len(s) - 1 /\ i - 1 + 1 = i
      BY <1>1, <2>1
    <3> QED
      BY <1>3, <1>4, <3>1
  <2> QED
    BY <2>1
<1>8. ToSet(s) = {s[1]} \cup ToSet(t)
  <2>1. ToSet(s) \subseteq {s[1]} \cup ToSet(t)
    BY <1>7 DEF ToSet
  <2>2. {s[1]} \cup ToSet(t) \subseteq ToSet(s)
    BY <1>5, <1>6 DEF ToSet
  <2> QED
    BY <2>1, <2>2
<1>9. ASSUME IsInjective(s) PROVE IsInjective(t) /\ s[1] \notin ToSet(t)
  <2>1. \A i, j \in DOMAIN t : i \in Int /\ j \in Int /\ (i + 1 = j + 1 => i = j)
    BY <1>4
  <2>2. \A i, j \in DOMAIN t : t[i] = t[j] => i = j
    BY <1>6, <1>9, <2>1 DEF IsInjective
  <2>3. \A i \in DOMAIN t : t[i] # s[1]
    BY <1>5, <1>6, <1>9 DEF IsInjective
  <2> QED
    BY <2>2, <2>3 DEF IsInjective, ToSet
<1> QED
  BY <1>1, <1>2, <1>5, <1>6, <1>8, <1>9 DEF t

LEMMA EmptyHolds == ToSet(<<>>) = {} /\ IsInjective(<<>>)
  BY DEF ToSet, IsInjective

(* remove_client, and pending without an operation: what a sequence        *)
(* without an element holds.                                               *)
LEMMA WithoutHolds ==
  ASSUME NEW T, NEW s \in Seq(T), NEW x
  PROVE  /\ Without(s, x) \in Seq(T)
         /\ ToSet(Without(s, x)) = ToSet(s) \ {x}
         /\ IsInjective(s) => IsInjective(Without(s, x))
<1> DEFINE n == Len(s)
           Keep(rest, y) == IF y = x THEN rest ELSE Append(rest, y)
           Body(iter) == [S \in SUBSET (1 .. n) |->
                            IF S = {} THEN <<>>
                            ELSE Keep(iter[S \ {Max(S)}], s[Max(S)])]
           iter == CHOOSE it : it = Body(it)
<1>1. n \in Nat /\ DOMAIN s = 1 .. n /\ \A i \in 1 .. n : s[i] \in T
  OBVIOUS
<1>2. \E it : it = Body(it)
  <2> DEFINE A == Seq(T)
             step == [p \in A \X (1 .. n) |-> Keep(p[1], s[p[2]])]
  <2>1. step \in [A \X (1 .. n) -> A]
    <3>1. \A q \in Seq(T), i \in 1 .. n : Keep(q, s[i]) \in Seq(T)
      BY <1>1
    <3> HIDE DEF Keep
    <3> QED
      BY <3>1
  <2>2. <<>> \in A /\ n \in Int
    BY <1>1
  <2> HIDE DEF step, n, A
  <2>3. PICK it \in [SUBSET (1 .. n) -> A] : IsFold(it, <<>>, step, n)
    BY <2>1, <2>2, FoldExists
  <2>4. ASSUME NEW S \in SUBSET (1 .. n), S # {}
        PROVE  step[<<it[S \ {Max(S)}], Max(S)>>] = Keep(it[S \ {Max(S)}], s[Max(S)])
    <3>1. Max(S) \in 1 .. n
      BY <2>2, <2>4, MaxOf
    <3>2. it[S \ {Max(S)}] \in A
      OBVIOUS
    <3> HIDE DEF Keep
    <3> QED
      BY <3>1, <3>2 DEF step
  <2> HIDE DEF Keep
  <2>5. it = Body(it)
    BY <2>3, <2>4 DEF IsFold
  <2> QED
    BY <2>5
<1>3. iter = Body(iter)
  <2> HIDE DEF Body
  <2> QED
    BY <1>2
<1>4. Without(s, x) = iter[1 .. n]
  BY <1>1 DEF Without, FoldLeft, MapThenFoldSet
<1> HIDE DEF iter
<1>5. iter[1 .. 0] = <<>>
  <2>1. 1 .. 0 = {} /\ {} \in SUBSET (1 .. n)
    OBVIOUS
  <2>2. Body(iter)[{}] = <<>>
    BY <2>1
  <2> HIDE DEF Body
  <2> QED
    BY <1>3, <2>1, <2>2
<1>6. ASSUME NEW i \in 1 .. n
      PROVE  iter[1 .. i] = Keep(iter[1 .. i - 1], s[i])
  <2>0. i \in Nat \ {0} /\ i \in 1 .. i
    BY <1>1
  <2>4. 1 .. i \subseteq 1 .. n
    BY <1>1
  <2>1. i \in Nat \ {0} /\ 1 .. i \in SUBSET (1 .. n) /\ 1 .. i # {}
    BY <2>0, <2>4
  <2>2. Max(1 .. i) = i /\ (1 .. i) \ {i} = 1 .. i - 1
    BY <2>1, MaxOfFirst
  <2>3. Body(iter)[1 .. i] = Keep(iter[(1 .. i) \ {Max(1 .. i)}], s[Max(1 .. i)])
    <3> HIDE DEF Keep
    <3> QED
      BY <2>1
  <2> HIDE DEF Body, Keep
  <2> QED
    BY <1>3, <2>2, <2>3
<1> DEFINE Good(i) == /\ iter[1 .. i] \in Seq(T)
                      /\ ToSet(iter[1 .. i]) = { s[j] : j \in 1 .. i } \ {x}
                      /\ IsInjective(s) => IsInjective(iter[1 .. i])
           Bad == { i \in 0 .. n : ~Good(i) }
<1>7. Good(0)
  <2>1. { s[j] : j \in 1 .. 0 } = {}
    OBVIOUS
  <2> QED
    BY <1>5, <2>1, EmptyHolds
<1>8. ASSUME NEW i \in 1 .. n, Good(i - 1) PROVE Good(i)
  <2>1. s[i] \in T /\ i - 1 \in Nat /\ i \in DOMAIN s
    BY <1>1
  <2>2. { s[j] : j \in 1 .. i } = { s[j] : j \in 1 .. i - 1 } \cup {s[i]}
    <3>1. \A j : j \in 1 .. i <=> j \in 1 .. i - 1 \/ j = i
      BY <1>1
    <3> QED
      BY <3>1
  <2>3. CASE s[i] = x
    <3>1. iter[1 .. i] = iter[1 .. i - 1]
      BY <1>6, <2>3
    <3> HIDE DEF iter
    <3>2. { s[j] : j \in 1 .. i } \ {x} = { s[j] : j \in 1 .. i - 1 } \ {x}
      BY <2>2, <2>3
    <3> QED
      BY <1>8, <3>1, <3>2
  <2>4. CASE s[i] # x
    <3>1. iter[1 .. i] = Append(iter[1 .. i - 1], s[i])
      BY <1>6, <2>4
    <3> DEFINE r == iter[1 .. i - 1]
    <3>2. r \in Seq(T) /\ ToSet(r) = { s[j] : j \in 1 .. i - 1 } \ {x}
      BY <1>8
    <3>3. IsInjective(s) => IsInjective(r)
      BY <1>8
    <3> HIDE DEF r
    <3>4. ASSUME IsInjective(s) PROVE s[i] \notin ToSet(r)
      <4>1. \A j \in 1 .. i - 1 : j # i /\ j \in DOMAIN s
        BY <1>1
      <4>2. \A j \in 1 .. i - 1 : s[j] # s[i]
        BY <2>1, <3>4, <4>1 DEF IsInjective
      <4> QED
        BY <3>2, <4>2
    <3>5. /\ Append(r, s[i]) \in Seq(T)
          /\ ToSet(Append(r, s[i])) = ToSet(r) \cup {s[i]}
          /\ IsInjective(s) => IsInjective(Append(r, s[i]))
      BY <2>1, <3>2, <3>3, <3>4, AppendHolds
    <3>6. iter[1 .. i] = Append(r, s[i])
      BY <3>1 DEF r
    <3>7. { s[j] : j \in 1 .. i } \ {x} = ToSet(r) \cup {s[i]}
      BY <2>2, <2>4, <3>2
    <3> QED
      BY <3>5, <3>6, <3>7
  <2> QED
    BY <2>3, <2>4
<1> HIDE DEF Good, iter
<1>9. Bad = {}
  <2>1. SUFFICES ASSUME Bad # {} PROVE FALSE
    OBVIOUS
  <2>2. PICK i \in Bad : \A j \in Bad : i <= j
    <3>1. Bad \in SUBSET Nat
      OBVIOUS
    <3> QED
      BY <2>1, <3>1, Least
  <2>3. i \in 1 .. n /\ ~Good(i)
    BY <1>1, <1>7
  <2>4. i - 1 \in 0 .. n /\ i - 1 \notin Bad
    BY <1>1, <2>2, <2>3
  <2> QED
    BY <1>8, <2>3, <2>4
<1>10. Good(n)
  BY <1>1, <1>9
<1>11. ToSet(s) = { s[j] : j \in 1 .. n }
  BY <1>1 DEF ToSet
<1> QED
  BY <1>4, <1>10, <1>11 DEF Good

-----------------------------------------------------------------------------
(* The helpers of the actions keep the types.                              *)

(* What fits a log fits a longer one that begins with it.                  *)
LEMMA LogGrows ==
  ASSUME NEW l \in Seq(OpIds), NEW m \in Seq(OpIds),
         Len(l) <= Len(m), \A i \in DOMAIN l : m[i] = l[i]
  PROVE  /\ RevsOf(l) \subseteq RevsOf(m) /\ DOMAIN l \subseteq DOMAIN m
         /\ Announcing(l) \subseteq Announcing(m)
         /\ ToBrowser(l) \subseteq ToBrowser(m)
         /\ FromBrowser(l) \subseteq FromBrowser(m)
         /\ Fans(l) \subseteq Fans(m)
         /\ BrowsersOf(l) \subseteq BrowsersOf(m)
         /\ SentOf(l) \subseteq SentOf(m)
<1>1. RevsOf(l) \subseteq RevsOf(m) /\ DOMAIN l \subseteq DOMAIN m
  BY DEF RevsOf
<1>2. FramesOf(l) \subseteq FramesOf(m)
  <2>1. Seq(RevsOf(l)) \subseteq Seq(RevsOf(m))
    BY <1>1, SeqMonotonic
  <2> QED
    BY <1>1, <2>1 DEF FramesOf
<1>3. Announcing(l) \subseteq Announcing(m)
  BY <1>1, <1>2 DEF Announcing
<1>4. ToBrowser(l) \subseteq ToBrowser(m)
  <2>1. Seq(DOMAIN l) \subseteq Seq(DOMAIN m)
    BY <1>1, SeqMonotonic
  <2> QED
    BY <1>2, <1>3, <2>1 DEF ToBrowser
<1>5. FromBrowser(l) \subseteq FromBrowser(m)
  BY <1>2 DEF FromBrowser
<1>6. Fans(l) \subseteq Fans(m)
  BY <1>3 DEF Fans
<1>7. BrowsersOf(l) \subseteq BrowsersOf(m)
  BY <1>1 DEF BrowsersOf
<1>8. SentOf(l) \subseteq SentOf(m)
  <2>1. Seq(RevsOf(l)) \subseteq Seq(RevsOf(m))
    BY <1>1, SeqMonotonic
  <2> QED
    BY <1>1, <2>1 DEF SentOf
<1> QED
  BY <1>1, <1>3, <1>4, <1>5, <1>6, <1>7, <1>8

(* receiveOp leaves a browser a browser.                                   *)
LEMMA ReceivedTyped ==
  ASSUME log \in Seq(OpIds), NEW br \in BrowsersOf(log), NEW rev \in DOMAIN log
  PROVE  Received(br, rev) \in BrowsersOf(log)
<1> DEFINE id   == log[rev]
           rest == Without(br.pending, id)
<1>1. id \in OpIds /\ rev \in RevsOf(log)
  BY DEF RevsOf
<1>2. rest \in Seq(OpIds)
  <2>1. br.pending \in Seq(OpIds)
    BY DEF BrowsersOf
  <2> QED
    BY <2>1, WithoutHolds
<1>3. br.applied \cup {id} \in SUBSET OpIds /\ Append(br.text, id) \in Seq(OpIds)
  BY <1>1 DEF BrowsersOf
<1>4. (br.orderly /\ rev <= br.revision + 1 /\ rev > br.base) \in BOOLEAN
  BY DEF BrowsersOf
<1> DEFINE orderly == br.orderly /\ rev <= br.revision + 1 /\ rev > br.base
           applied == br.applied \cup {id}
           text == Append(br.text, id)
<1>5. Received(br, rev) =
        IF id \in br.applied
        THEN [br EXCEPT !.pending = rest]
        ELSE [br EXCEPT !.pending = rest, !.applied = applied, !.revision = rev,
                        !.text = text, !.orderly = orderly]
  BY DEF Received, News
<1>6. orderly \in BOOLEAN /\ applied \in SUBSET OpIds /\ text \in Seq(OpIds)
  BY <1>3, <1>4
<1> HIDE DEF id, rest, orderly, applied, text
<1>7. [br EXCEPT !.pending = rest] \in BrowsersOf(log)
  BY <1>2 DEF BrowsersOf
<1>8. [br EXCEPT !.pending = rest, !.applied = applied, !.revision = rev,
                 !.text = text, !.orderly = orderly] \in BrowsersOf(log)
  BY <1>1, <1>2, <1>6 DEF BrowsersOf
<1> QED
  BY <1>5, <1>7, <1>8

(* applyCatchup receives one operation after the other.                    *)
CaughtUp(br, revs) == FoldLeft(Received, br, revs)

LEMMA CatchupRuns ==
  ASSUME log \in Seq(OpIds), NEW br \in BrowsersOf(log), NEW revs \in Seq(DOMAIN log)
  PROVE  \E t \in [0 .. Len(revs) -> BrowsersOf(log)] :
           /\ t[0] = br
           /\ \A i \in 1 .. Len(revs) : t[i] = Received(t[i - 1], revs[i])
           /\ t[Len(revs)] = CaughtUp(br, revs)
<1> DEFINE n == Len(revs)
           A == BrowsersOf(log)
           Body(iter) == [S \in SUBSET (1 .. n) |->
                            IF S = {} THEN br
                            ELSE Received(iter[S \ {Max(S)}], revs[Max(S)])]
           iter == CHOOSE it : it = Body(it)
           step == [p \in A \X (1 .. n) |-> Received(p[1], revs[p[2]])]
<1>1. /\ n \in Nat /\ n \in Int /\ DOMAIN revs = 1 .. n
      /\ \A i \in 1 .. n : revs[i] \in DOMAIN log
  OBVIOUS
<1> HIDE DEF n
<1>2. step \in [A \X (1 .. n) -> A]
  <2>1. \A b \in A, i \in 1 .. n : Received(b, revs[i]) \in A
    BY <1>1, ReceivedTyped
  <2> HIDE DEF A
  <2> QED
    BY <2>1
<1>3. br \in A
  OBVIOUS
<1> HIDE DEF A
<1> HIDE DEF step
<1>4. PICK it \in [SUBSET (1 .. n) -> A] : IsFold(it, br, step, n)
  BY <1>1, <1>2, <1>3, FoldExists
<1>5. ASSUME NEW S \in SUBSET (1 .. n), S # {}
      PROVE  step[<<it[S \ {Max(S)}], Max(S)>>] = Received(it[S \ {Max(S)}], revs[Max(S)])
  <2>1. Max(S) \in 1 .. n
    BY <1>1, <1>5, MaxOf
  <2>2. it[S \ {Max(S)}] \in A
    OBVIOUS
  <2> QED
    BY <2>1, <2>2 DEF step
<1>6. it = Body(it)
  BY <1>4, <1>5 DEF IsFold
<1>7. iter = Body(iter)
  <2> HIDE DEF Body
  <2> QED
    BY <1>6
<1>8. FoldLeft(Received, br, revs) = iter[1 .. n]
  BY <1>1 DEF FoldLeft, MapThenFoldSet
<1> HIDE DEF iter
<1>9. \A S \in SUBSET (1 .. n) :
        iter[S] = IF S = {} THEN br
                  ELSE Received(iter[S \ {Max(S)}], revs[Max(S)])
  <2> TAKE S \in SUBSET (1 .. n)
  <2>1. Body(iter)[S] = IF S = {} THEN br
                        ELSE Received(iter[S \ {Max(S)}], revs[Max(S)])
    OBVIOUS
  <2> HIDE DEF Body
  <2> QED
    BY <1>7, <2>1
<1> HIDE DEF Body
<1>10. iter[1 .. 0] \in A
  <2>1. 1 .. 0 = {} /\ 1 .. 0 \in SUBSET (1 .. n)
    OBVIOUS
  <2> QED
    BY <1>3, <1>9, <2>1
<1>11. ASSUME NEW i \in 1 .. n, iter[1 .. i - 1] \in A PROVE iter[1 .. i] \in A
  <2>1. i \in Nat \ {0} /\ i \in 1 .. i /\ 1 .. i \subseteq 1 .. n
    BY <1>1
  <2>2. Max(1 .. i) = i /\ (1 .. i) \ {i} = 1 .. i - 1
    BY <2>1, MaxOfFirst
  <2>3. 1 .. i # {} /\ 1 .. i \in SUBSET (1 .. n)
    BY <2>1
  <2>4. iter[1 .. i] = Received(iter[1 .. i - 1], revs[i])
    BY <1>9, <2>2, <2>3
  <2> QED
    BY <1>1, <1>11, <2>4, ReceivedTyped DEF A
<1> DEFINE Bad == { i \in 0 .. n : iter[1 .. i] \notin A }
<1>12. Bad = {}
  <2>1. SUFFICES ASSUME Bad # {} PROVE FALSE
    OBVIOUS
  <2>2. PICK i \in Bad : \A j \in Bad : i <= j
    <3>1. Bad \in SUBSET Nat
      OBVIOUS
    <3> QED
      BY <2>1, <3>1, Least
  <2>3. i \in 1 .. n /\ iter[1 .. i] \notin A
    BY <1>1, <1>10
  <2>4. i - 1 \in 0 .. n /\ i - 1 \notin Bad
    BY <1>1, <2>2, <2>3
  <2> QED
    BY <1>11, <2>3, <2>4
<1> DEFINE t == [i \in 0 .. n |-> iter[1 .. i]]
<1>13. \A i \in 1 .. n : i - 1 \in 0 .. n /\ i \in 0 .. n
  BY <1>1
<1>14. 0 \in 0 .. n /\ n \in 0 .. n /\ \A i \in 0 .. n : i = 0 \/ i \in 1 .. n
  BY <1>1
<1>15. t \in [0 .. n -> A]
  <2>1. \A i \in 0 .. n : iter[1 .. i] \in A
    BY <1>12
  <2> QED
    BY <2>1
<1>16. t[0] = br
  <2>1. 1 .. 0 = {} /\ 1 .. 0 \in SUBSET (1 .. n)
    OBVIOUS
  <2>2. t[0] = iter[1 .. 0]
    BY <1>14
  <2> QED
    BY <1>9, <2>1, <2>2
<1>17. ASSUME NEW i \in 1 .. n PROVE t[i] = Received(t[i - 1], revs[i])
  <2>1. i \in Nat \ {0} /\ i \in 1 .. i /\ 1 .. i \subseteq 1 .. n
    BY <1>1
  <2>2. Max(1 .. i) = i /\ (1 .. i) \ {i} = 1 .. i - 1
    BY <2>1, MaxOfFirst
  <2>3. 1 .. i # {} /\ 1 .. i \in SUBSET (1 .. n)
    BY <2>1
  <2>4. iter[1 .. i] = Received(iter[1 .. i - 1], revs[i])
    BY <1>9, <2>2, <2>3
  <2>5. t[i] = iter[1 .. i] /\ t[i - 1] = iter[1 .. i - 1]
    BY <1>13
  <2> QED
    BY <2>4, <2>5
<1>18. t[n] = FoldLeft(Received, br, revs)
  BY <1>8, <1>14 DEF iter
<1> HIDE DEF t
<1> QED
  BY <1>15, <1>16, <1>17, <1>18 DEF A, n, CaughtUp

(* applyCatchup leaves a browser a browser, whatever it is sent.           *)
LEMMA CatchupTyped ==
  ASSUME log \in Seq(OpIds), NEW br \in BrowsersOf(log), NEW revs \in Seq(DOMAIN log)
  PROVE  FoldLeft(Received, br, revs) \in BrowsersOf(log)
<1>1. Len(revs) \in 0 .. Len(revs)
  OBVIOUS
<1>2. CaughtUp(br, revs) \in BrowsersOf(log)
  BY <1>1, CatchupRuns
<1> QED
  BY <1>2 DEF CaughtUp

(* send_all, to a socket open or not: it holds what it held, or one frame  *)
(* more.                                                                   *)
LEMMA SendTyped ==
  ASSUME NEW F, socket \in [Sessions -> Seq(F)], NEW x \in Sessions,
         NEW frame \in F, Send(x, frame)
  PROVE  socket' \in [Sessions -> Seq(F)]
<1>1. Append(socket[x], frame) \in Seq(F)
  OBVIOUS
<1> QED
  BY <1>1 DEF Send

(* What frames a session makes.                                            *)
LEMMA FramesMade ==
  ASSUME log \in Seq(OpIds)
  PROVE  /\ \A kind \in {"none", "init", "sync", "snapshot", "error"} :
              \A from, to \in RevsOf(log) : Frame(kind, NoSession, from, to) \in ToBrowser(log)
         /\ \A from \in RevsOf(log), ops \in Seq(DOMAIN log) :
              CatchupFrame(from, ops) \in ToBrowser(log)
         /\ NoFrame \in ToBrowser(log) /\ ErrorFrame \in ToBrowser(log)
         /\ 0 \in RevsOf(log) /\ Len(log) \in RevsOf(log)
<1>1. 0 \in RevsOf(log) /\ Len(log) \in RevsOf(log) /\ DOMAIN log \subseteq RevsOf(log)
  BY DEF RevsOf
<1>2. <<>> \in Seq(RevsOf(log)) /\ <<>> \in Seq(DOMAIN log)
  OBVIOUS
<1>3. ASSUME NEW kind \in {"none", "init", "sync", "snapshot", "error"},
             NEW from \in RevsOf(log), NEW to \in RevsOf(log)
      PROVE  Frame(kind, NoSession, from, to) \in ToBrowser(log)
  BY <1>2 DEF Frame, ToBrowser, FramesOf
<1>4. ASSUME NEW from \in RevsOf(log), NEW ops \in Seq(DOMAIN log)
      PROVE  CatchupFrame(from, ops) \in ToBrowser(log)
  <2>1. ops \in Seq(RevsOf(log))
    BY <1>1, SeqMonotonic
  <2>2. CatchupFrame(from, ops) =
          [kind |-> "catchup", opId |-> NoSession, from |-> from, to |-> 0, ops |-> ops]
    BY DEF CatchupFrame, Frame
  <2> QED
    BY <1>1, <2>1, <2>2 DEF ToBrowser, FramesOf
<1> QED
  BY <1>1, <1>3, <1>4 DEF NoFrame, ErrorFrame

(* mark_seen_op keeps the set of seen operations bounded, and holds no     *)
(* operation twice.                                                        *)
LEMMA MarkSeenTyped ==
  ASSUME SeenTyped, NEW s \in Servers, NEW op, op.opId \in OpIds,
         ~Seen(s, op), MarkSeen(s, op)
  PROVE  SeenTyped'
<1> DEFINE longer == Append(seen[s], op.opId)
           new == IF Len(longer) > SeenLimit THEN Tail(longer) ELSE longer
<1>1. seen[s] \in Seq(OpIds) /\ IsInjective(seen[s]) /\ Len(seen[s]) <= SeenLimit
  BY DEF SeenTyped
<1>2. longer \in Seq(OpIds) /\ longer # <<>> /\ IsInjective(longer)
  BY <1>1, AppendHolds DEF Seen
<1>3. Len(longer) = Len(seen[s]) + 1 /\ Len(seen[s]) \in Nat
  BY <1>1
<1>4. seen' = [seen EXCEPT ![s] = new]
  BY DEF MarkSeen
<1> HIDE DEF longer
<1>5. /\ Tail(longer) \in Seq(OpIds) /\ IsInjective(Tail(longer))
      /\ Len(Tail(longer)) = Len(longer) - 1
  BY <1>2, TailHolds
<1>6. new \in Seq(OpIds) /\ IsInjective(new) /\ Len(new) <= SeenLimit
  BY <1>1, <1>2, <1>3, <1>5, FanoutAssumption
<1> HIDE DEF new
<1> QED
  BY <1>4, <1>6 DEF SeenTyped

(* broadcast: who is sent to next, and what.                               *)
LEMMA SendAllTyped ==
  ASSUME NEW l, fan \in [Servers \cup Sessions -> Fans(l)],
         NEW a \in Servers \cup Sessions, NEW op \in Announcing(l),
         NEW todo \in Seq(Sessions), SendAll(a, op, todo)
  PROVE  fan' \in [Servers \cup Sessions -> Fans(l)]
<1>1. (IF todo = <<>> THEN NoFan ELSE [op |-> op, todo |-> todo]) \in Fans(l)
  BY DEF Fans
<1> QED
  BY <1>1 DEF SendAll

-----------------------------------------------------------------------------
(* Every step keeps the types.                                             *)

(* commit(): the log holds the operation, and what it held at its place.   *)
LEMMA CommitTyped ==
  ASSUME Typed, NEW id \in OpIds, AppendToLog(id)
  PROVE  /\ log' \in Seq(OpIds) /\ IsInjective(log')
         /\ channel' \in [Servers -> Seq(Announcing(log'))]
         /\ Len(log) <= Len(log') /\ \A i \in DOMAIN log : log'[i] = log[i]
         /\ id \in ToSet(log')
<1>1. log \in Seq(OpIds) /\ IsInjective(log) /\ channel \in [Servers -> Seq(Announcing(log))]
  BY DEF Typed, StoreTyped
<1>2. CASE id \in ToSet(log)
  BY <1>1, <1>2 DEF AppendToLog, store
<1>3. CASE id \notin ToSet(log)
  <2> DEFINE f == Frame("op", id, 0, Len(log'))
  <2>1. log' = Append(log, id) /\ channel' = [s \in Servers |-> Append(channel[s], f)]
    BY <1>3 DEF AppendToLog
  <2>2. log' \in Seq(OpIds) /\ IsInjective(log') /\ id \in ToSet(log')
    BY <1>1, <1>3, <2>1, AppendHolds
  <2>3. /\ Len(log') = Len(log) + 1 /\ Len(log) \in Nat
        /\ \A i \in DOMAIN log : log'[i] = log[i]
        /\ log'[Len(log')] = id
    BY <1>1, <2>1
  <2>4. f \in Announcing(log')
    BY <2>2, <2>3 DEF Announcing, FramesOf, RevsOf, Frame
  <2>5. Announcing(log) \subseteq Announcing(log')
    BY <1>1, <2>2, <2>3, LogGrows, SMTT(30)
  <2> HIDE DEF f
  <2>6. \A s \in Servers : Append(channel[s], f) \in Seq(Announcing(log'))
    <3> TAKE s \in Servers
    <3>1. channel[s] \in Seq(Announcing(log'))
      BY <1>1, <2>5, SeqMonotonic
    <3> QED
      BY <2>4, <3>1
  <2> QED
    BY <2>1, <2>2, <2>3, <2>6
<1> QED
  BY <1>2, <1>3

(* What the log had room for, a longer one has.                            *)
LEMMA OthersTyped ==
  ASSUME Typed, log' \in Seq(OpIds), Len(log) <= Len(log'),
         \A i \in DOMAIN log : log'[i] = log[i]
  PROVE  /\ lost \in [Servers -> SUBSET RevsOf(log')]
         /\ fan \in [Servers \cup Sessions -> Fans(log')]
         /\ request \in [Sessions -> ToBrowser(log')]
         /\ \A x \in Sessions : pc[x] \in {"ack", "mark"} => request[x] \in Announcing(log')
         /\ inbox \in [Sessions -> Seq(FromBrowser(log'))]
         /\ socket \in [Sessions -> Seq(ToBrowser(log'))]
         /\ browser \in [Browsers -> BrowsersOf(log')]
         /\ sent \in [Sessions -> SentOf(log')]
<1>1. log \in Seq(OpIds)
  BY DEF Typed, StoreTyped
<1>2. /\ RevsOf(log) \subseteq RevsOf(log')
      /\ Announcing(log) \subseteq Announcing(log')
      /\ ToBrowser(log) \subseteq ToBrowser(log')
      /\ FromBrowser(log) \subseteq FromBrowser(log')
      /\ Fans(log) \subseteq Fans(log')
      /\ BrowsersOf(log) \subseteq BrowsersOf(log')
      /\ SentOf(log) \subseteq SentOf(log')
  BY <1>1, LogGrows
<1>3. /\ Seq(FromBrowser(log)) \subseteq Seq(FromBrowser(log'))
      /\ Seq(ToBrowser(log)) \subseteq Seq(ToBrowser(log'))
  BY <1>2, SeqMonotonic
<1>4. lost \in [Servers -> SUBSET RevsOf(log')]
  BY <1>2 DEF Typed, StoreTyped
<1>5. fan \in [Servers \cup Sessions -> Fans(log')]
  BY <1>2 DEF Typed, ThreadsTyped
<1>6. /\ request \in [Sessions -> ToBrowser(log')]
      /\ \A x \in Sessions : pc[x] \in {"ack", "mark"} => request[x] \in Announcing(log')
  BY <1>2 DEF Typed, ThreadsTyped
<1>7. /\ inbox \in [Sessions -> Seq(FromBrowser(log'))]
      /\ socket \in [Sessions -> Seq(ToBrowser(log'))]
  BY <1>3 DEF Typed, BrowsersTyped
<1>8. browser \in [Browsers -> BrowsersOf(log')] /\ sent \in [Sessions -> SentOf(log')]
  BY <1>2 DEF Typed, BrowsersTyped
<1> QED
  BY <1>4, <1>5, <1>6, <1>7, <1>8

LEMMA InitTyped == Init => Typed
<1> SUFFICES ASSUME Init PROVE Typed
  OBVIOUS
<1>1. StoreTyped
  BY EmptyHolds, FanoutAssumption DEF Init, StoreTyped, RevsOf
<1>2. SeenTyped
  BY EmptyHolds, FanoutAssumption DEF Init, SeenTyped
<1>3. NoFrame \in ToBrowser(<<>>)
  <2>1. log = <<>> /\ log \in Seq(OpIds)
    BY DEF Init
  <2> QED
    BY <2>1, FramesMade
<1>4. ThreadsTyped
  BY <1>3 DEF Init, ThreadsTyped, Fans, Labels
<1>5. BrowsersTyped
  <2>1. NewBrowser \in BrowsersOf(<<>>)
    BY DEF NewBrowser, BrowsersOf, RevsOf
  <2>2. NotSent \in SentOf(<<>>)
    BY DEF NotSent, SentOf, RevsOf
  <2> QED
    BY <2>1, <2>2 DEF Init, BrowsersTyped
<1> QED
  BY <1>1, <1>2, <1>4, <1>5 DEF Typed

(* The reads of the store: they leave alone all but where the session is,  *)
(* what it remembers, what it has read, and how many calls failed.         *)
Looks(x) ==
  \/ SnapshotContent(x) \/ SnapshotRevision(x)
  \/ CatchUpContent(x) \/ CatchUpRevision(x) \/ CatchUpOperations(x) \/ CatchUpPersisted(x)

LEMMA FailsTyped ==
  ASSUME Typed, UNCHANGED failures \/ Fails
  PROVE  failures' \in 0 .. MaxFailures /\ failures <= failures'
  BY FanoutAssumption DEF Fails, Typed, StoreTyped

LEMMA AfterTyped ==
  ASSUME log \in Seq(OpIds), NEW from \in RevsOf(log), NEW to \in Int, to <= Len(log)
  PROVE  After(from, to) \in Seq(DOMAIN log)
<1> DEFINE n == IF from <= to THEN to - from ELSE 0
<1>1. n \in Nat /\ 1 .. to - from = 1 .. n /\ \A i \in 1 .. n : from + i \in DOMAIN log
  BY DEF RevsOf
<1> HIDE DEF n
<1>2. After(from, to) = [i \in 1 .. n |-> from + i]
  BY <1>1 DEF After
<1> QED
  BY <1>1, <1>2

LEMMA LooksEffect ==
  ASSUME Typed, NEW x \in Sessions, Looks(x)
  PROVE  /\ UNCHANGED <<log, channel, lost, seen, clients, fan, server, socket, browser, sent>>
         /\ failures' \in 0 .. MaxFailures /\ failures <= failures'
         /\ inbox' \in [Sessions -> Seq(FromBrowser(log))]
         /\ pc[x] \in {"content", "revision", "read", "behind", "operations", "persisted"}
         /\ pc[x] = "read" => fan[x] = NoFan
         /\ \E f \in ToBrowser(log) :
              \E label \in {"revision", "init", "behind", "operations", "persisted", "reply"} :
                 /\ request' = [request EXCEPT ![x] = f]
                 /\ pc' = [pc EXCEPT ![x] = label]
<1>1. /\ log \in Seq(OpIds) /\ Len(log) \in Nat
      /\ request \in [Sessions -> ToBrowser(log)]
      /\ inbox \in [Sessions -> Seq(FromBrowser(log))]
  BY DEF Typed, StoreTyped, ThreadsTyped, BrowsersTyped
<1> DEFINE Labels1 == {"revision", "init", "behind", "operations", "persisted", "reply"}
           Answered1 == \E f \in ToBrowser(log), label \in Labels1 : Answer(x, f, label)
<1>2. Answered1 =>
        \E f \in ToBrowser(log) : \E label \in Labels1 :
          request' = [request EXCEPT ![x] = f] /\ pc' = [pc EXCEPT ![x] = label]
  BY DEF Answer, Goto
<1>3. /\ \A kind \in {"none", "init", "sync", "snapshot", "error"} :
           \A from, to \in RevsOf(log) : Frame(kind, NoSession, from, to) \in ToBrowser(log)
      /\ \A from \in RevsOf(log), ops \in Seq(DOMAIN log) :
           CatchupFrame(from, ops) \in ToBrowser(log)
      /\ NoFrame \in ToBrowser(log) /\ ErrorFrame \in ToBrowser(log)
      /\ 0 \in RevsOf(log) /\ Len(log) \in RevsOf(log)
  BY <1>1, FramesMade
<1>4. request[x].from \in RevsOf(log) /\ request[x].to \in RevsOf(log)
  BY <1>1 DEF ToBrowser, FramesOf
<1>5. ASSUME NEW from \in RevsOf(log), NEW text \in RevsOf(log), NEW to \in RevsOf(log),
             AnswerSync(x, from, text, to)
      PROVE  Answered1
  BY <1>3, <1>5 DEF AnswerSync
<1>6. ASSUME NEW ops \in Seq(DOMAIN log), Fetched(x, ops) PROVE Answered1
  BY <1>3, <1>4, <1>6 DEF Fetched
<1>7. ASSUME NEW to \in Int, to <= Len(log) PROVE After(request[x].from, to) \in Seq(DOMAIN log)
  BY <1>1, <1>4, <1>7, AfterTyped
<1> DEFINE Same == UNCHANGED <<log, channel, lost, seen, clients, fan, server, socket, browser, sent>>
           Goal == /\ Same /\ (UNCHANGED failures \/ Fails)
                   /\ inbox' \in [Sessions -> Seq(FromBrowser(log))]
                   /\ pc[x] \in {"content", "revision", "read", "behind", "operations", "persisted"}
                   /\ pc[x] = "read" => fan[x] = NoFan
                   /\ Answered1
<1>8. ASSUME SnapshotContent(x) PROVE Goal
  <2>1. Same /\ UNCHANGED inbox /\ pc[x] = "content" /\ (UNCHANGED failures \/ Fails)
    BY <1>8 DEF SnapshotContent, store
  <2>2. Answered1
    BY <1>3, <1>8 DEF SnapshotContent
  <2> QED
    BY <1>1, <2>1, <2>2
<1>9. ASSUME SnapshotRevision(x) PROVE Goal
  <2>1. Same /\ UNCHANGED inbox /\ pc[x] = "revision" /\ (UNCHANGED failures \/ Fails)
    BY <1>9 DEF SnapshotRevision, store
  <2>2. Answered1
    BY <1>3, <1>4, <1>9 DEF SnapshotRevision
  <2> QED
    BY <1>1, <2>1, <2>2
<1>10. ASSUME CatchUpContent(x) PROVE Goal
  <2>1. Same /\ Reads(x, "sync") /\ (UNCHANGED failures \/ Fails)
    BY <1>10 DEF CatchUpContent, store
  <2>2. inbox[x] \in Seq(FromBrowser(log)) /\ inbox[x] # <<>>
    BY <1>1, <2>1 DEF Reads
  <2>3. Head(inbox[x]) \in FromBrowser(log) /\ Tail(inbox[x]) \in Seq(FromBrowser(log))
    BY <2>2, TailHolds
  <2>4. Head(inbox[x]).from \in RevsOf(log)
    BY <2>3 DEF FromBrowser, FramesOf
  <2>5. Answered1
    BY <1>3, <1>5, <1>10, <2>4 DEF CatchUpContent
  <2>6. pc[x] = "read" /\ fan[x] = NoFan /\ inbox' \in [Sessions -> Seq(FromBrowser(log))]
    BY <1>1, <2>1, <2>3 DEF Reads
  <2> QED
    BY <2>1, <2>5, <2>6
<1>11. ASSUME CatchUpRevision(x) PROVE Goal
  <2>1. Same /\ UNCHANGED inbox /\ pc[x] = "behind" /\ (UNCHANGED failures \/ Fails)
    BY <1>11 DEF CatchUpRevision, store
  <2>2. Answered1
    BY <1>3, <1>4, <1>5, <1>11 DEF CatchUpRevision
  <2> QED
    BY <1>1, <2>1, <2>2
<1>12. ASSUME CatchUpOperations(x) PROVE Goal
  <2>1. Same /\ UNCHANGED inbox /\ pc[x] = "operations" /\ (UNCHANGED failures \/ Fails)
    BY <1>12 DEF CatchUpOperations, store
  <2>2. PICK n : Fetched(x, After(request[x].from, n)) /\ n \in Int /\ n <= Len(log)
    <3>1. ASSUME Fetched(x, After(request[x].from, Len(log)))
          PROVE  \E n : Fetched(x, After(request[x].from, n)) /\ n \in Int /\ n <= Len(log)
      <4>1. Len(log) \in Int /\ Len(log) <= Len(log)
        BY <1>1
      <4> QED
        BY <3>1, <4>1
    <3>2. ASSUME NEW n \in request[x].from .. Len(log) - 1, Fetched(x, After(request[x].from, n))
          PROVE  Fetched(x, After(request[x].from, n)) /\ n \in Int /\ n <= Len(log)
      <4>1. n \in Int /\ n <= Len(log)
        BY <1>1, <1>4 DEF RevsOf
      <4> QED
        BY <3>2, <4>1
    <3> QED
      BY <1>12, <3>1, <3>2 DEF CatchUpOperations
  <2>3. Answered1
    BY <1>6, <1>7, <2>2
  <2> QED
    BY <1>1, <2>1, <2>3
<1>13. ASSUME CatchUpPersisted(x) PROVE Goal
  <2>1. Same /\ UNCHANGED <<inbox, failures>> /\ pc[x] = "persisted"
    BY <1>13 DEF CatchUpPersisted, store
  <2>2. PICK n \in 0 .. Len(log) - request[x].from :
             \E ops \in [1 .. n -> request[x].from + 1 .. Len(log)] :
                Answer(x, CatchupFrame(request[x].from, ops), "reply")
    BY <1>13 DEF CatchUpPersisted
  <2>3. PICK ops \in [1 .. n -> request[x].from + 1 .. Len(log)] :
               Answer(x, CatchupFrame(request[x].from, ops), "reply")
    BY <2>2
  <2>4. ops \in Seq(DOMAIN log)
    <3>1. n \in Nat /\ request[x].from + 1 .. Len(log) \subseteq DOMAIN log
      BY <1>1, <1>4 DEF RevsOf
    <3> QED
      BY <3>1
  <2>5. Answered1
    BY <1>3, <1>4, <2>3, <2>4
  <2> QED
    BY <1>1, <2>1, <2>5
<1>14. Goal
  BY <1>8, <1>9, <1>10, <1>11, <1>12, <1>13 DEF Looks
<1>15. failures' \in 0 .. MaxFailures /\ failures <= failures'
  BY <1>14, FailsTyped
<1> HIDE DEF Answered1
<1> QED
  BY <1>2, <1>14, <1>15

(* The threads of a session.                                               *)
LEMMA ServeTyped ==
  ASSUME Typed, NEW x \in Sessions, Serve(x)
  PROVE  Typed'
<1>1. UNCHANGED <<log, channel, lost, failures>> => StoreTyped'
  BY DEF Typed, StoreTyped
<1>2. UNCHANGED seen => SeenTyped'
  BY DEF Typed, SeenTyped
<1>3. UNCHANGED <<log, inbox, socket, browser, sent>> => BrowsersTyped'
  BY DEF Typed, BrowsersTyped
<1>4. /\ log \in Seq(OpIds) /\ Len(log) \in Nat
      /\ clients \in [Servers -> Seq(Sessions)]
      /\ fan \in [Servers \cup Sessions -> Fans(log)]
      /\ pc \in [Sessions -> Labels]
      /\ request \in [Sessions -> ToBrowser(log)]
      /\ server \in [Sessions -> Servers]
      /\ \A y \in Sessions : pc[y] \in {"ack", "mark"} => request[y] \in Announcing(log)
  BY DEF Typed, StoreTyped, ThreadsTyped
<1>5. /\ inbox \in [Sessions -> Seq(FromBrowser(log))]
      /\ socket \in [Sessions -> Seq(ToBrowser(log))]
      /\ browser \in [Browsers -> BrowsersOf(log)]
      /\ sent \in [Sessions -> SentOf(log)]
  BY DEF Typed, BrowsersTyped
<1>6. NoFrame \in ToBrowser(log) /\ ErrorFrame \in ToBrowser(log) /\ Len(log) \in RevsOf(log)
  BY <1>4, FramesMade
<1>7. ASSUME ReadNext(x)
      PROVE  /\ pc' \in [Sessions -> Labels]
             /\ request' \in [Sessions -> ToBrowser(log)]
             /\ \A y \in Sessions :
                  pc'[y] \in {"ack", "mark"} => request'[y] \in Announcing(log)
  BY <1>4, <1>6, <1>7 DEF ReadNext, Goto, Labels
<1>8. ASSUME NEW kind, Reads(x, kind)
      PROVE  /\ Head(inbox[x]) \in FromBrowser(log) /\ Head(inbox[x]).kind = kind
             /\ inbox' \in [Sessions -> Seq(FromBrowser(log))]
  <2>1. inbox[x] \in Seq(FromBrowser(log)) /\ inbox[x] # <<>>
    BY <1>5, <1>8 DEF Reads
  <2>2. Head(inbox[x]) \in FromBrowser(log) /\ Tail(inbox[x]) \in Seq(FromBrowser(log))
    BY <2>1, TailHolds
  <2> QED
    BY <1>5, <1>8, <2>2 DEF Reads
<1>9. CASE Register(x)
  <2>1. Append(clients[server[x]], x) \in Seq(Sessions)
    BY <1>4
  <2>2. ThreadsTyped'
    BY <1>4, <1>9, <2>1 DEF Register, Goto, Labels, ThreadsTyped, store
  <2>3. sent' \in [Sessions -> SentOf(log)]
    <3>1. [sent[x] EXCEPT !.since = Len(log)] \in SentOf(log)
      BY <1>5, <1>6 DEF SentOf
    <3> QED
      BY <1>5, <1>9, <3>1 DEF Register
  <2>4. BrowsersTyped'
    BY <1>5, <1>9, <2>3 DEF Register, BrowsersTyped, store
  <2> QED
    BY <1>1, <1>2, <1>9, <2>2, <2>4 DEF Register, store, Typed
<1>10. CASE Looks(x)
  <2>1. /\ UNCHANGED <<log, channel, lost, seen, clients, fan, server, socket, browser, sent>>
        /\ failures' \in 0 .. MaxFailures
        /\ inbox' \in [Sessions -> Seq(FromBrowser(log))]
    BY <1>10, LooksEffect
  <2>2. PICK f \in ToBrowser(log),
             label \in {"revision", "init", "behind", "operations", "persisted", "reply"} :
               request' = [request EXCEPT ![x] = f] /\ pc' = [pc EXCEPT ![x] = label]
    BY <1>10, LooksEffect
  <2>3. StoreTyped'
    BY <2>1 DEF Typed, StoreTyped
  <2>4. ThreadsTyped'
    BY <1>4, <2>1, <2>2 DEF Labels, ThreadsTyped
  <2>5. BrowsersTyped'
    BY <1>5, <2>1 DEF BrowsersTyped
  <2> QED
    BY <1>2, <2>1, <2>3, <2>4, <2>5 DEF Typed
<1>11. CASE SendInit(x)
  <2>1. request[x] \in ToBrowser(log)
    BY <1>4
  <2>2. socket' \in [Sessions -> Seq(ToBrowser(log))]
    BY <1>5, <1>11, <2>1, SendTyped DEF SendInit
  <2>3. ThreadsTyped'
    BY <1>4, <1>7, <1>11 DEF SendInit, ThreadsTyped, store
  <2>4. BrowsersTyped'
    BY <1>5, <1>11, <2>2 DEF SendInit, BrowsersTyped, store
  <2> QED
    BY <1>1, <1>2, <1>11, <2>3, <2>4 DEF SendInit, store, Typed
<1>12. CASE ReadClosed(x)
  <2>1. Without(clients[server[x]], x) \in Seq(Sessions)
    BY <1>4, WithoutHolds
  <2>2. ThreadsTyped'
    BY <1>4, <1>12, <2>1 DEF ReadClosed, Goto, Labels, ThreadsTyped, store
  <2>3. NotSent \in SentOf(log)
    BY <1>4 DEF NotSent, SentOf, RevsOf
  <2>4. BrowsersTyped'
    BY <1>5, <1>12, <2>3 DEF ReadClosed, BrowsersTyped, store
  <2> QED
    BY <1>1, <1>2, <1>12, <2>2, <2>4 DEF ReadClosed, store, Typed
<1>15. CASE Reply(x)
  <2>1. socket' \in [Sessions -> Seq(ToBrowser(log))]
    <3>1. request[x] \in ToBrowser(log)
      BY <1>4
    <3> QED
      BY <1>5, <1>15, <3>1, SendTyped DEF Reply
  <2>2. ThreadsTyped'
    BY <1>4, <1>7, <1>15 DEF Reply, ThreadsTyped, store
  <2>3. BrowsersTyped'
    BY <1>5, <1>15, <2>1 DEF Reply, BrowsersTyped, store
  <2> QED
    BY <1>1, <1>2, <1>15, <2>2, <2>3 DEF Reply, store, Typed
<1>16. CASE CommitOp(x)
  <2> DEFINE id == Head(inbox[x]).opId
             r == CHOOSE i \in DOMAIN log' : log'[i] = id
  <2>1. id \in OpIds /\ inbox' \in [Sessions -> Seq(FromBrowser(log))]
    BY <1>8, <1>16 DEF CommitOp, FromBrowser
  <2>2. AppendToLog(id) /\ Goto(x, "ack") /\ UNCHANGED <<lost, failures, seen, clients,
                                                         fan, server, socket, browser, sent>>
    BY <1>16 DEF CommitOp
  <2>3. request' = [request EXCEPT ![x] = Frame("op", id, 0, r)]
    BY <1>16 DEF CommitOp
  <2> HIDE DEF id
  <2>4. /\ log' \in Seq(OpIds) /\ IsInjective(log')
        /\ channel' \in [Servers -> Seq(Announcing(log'))]
        /\ Len(log) <= Len(log') /\ \A i \in DOMAIN log : log'[i] = log[i]
        /\ id \in ToSet(log')
    BY <2>1, <2>2, CommitTyped
  <2>5. r \in DOMAIN log' /\ log'[r] = id
    BY <2>4 DEF ToSet
  <2> HIDE DEF r
  <2>6. Frame("op", id, 0, r) \in Announcing(log')
    BY <2>1, <2>4, <2>5 DEF Frame, Announcing, FramesOf, RevsOf
  <2>7. Frame("op", id, 0, r) \in ToBrowser(log')
    <3>1. <<>> \in Seq(DOMAIN log')
      OBVIOUS
    <3> QED
      BY <2>6, <3>1 DEF ToBrowser, Announcing
  <2>8. StoreTyped'
    BY <2>2, <2>4, OthersTyped DEF StoreTyped, Typed
  <2>9. ThreadsTyped'
    <3>1. /\ fan \in [Servers \cup Sessions -> Fans(log')]
          /\ request \in [Sessions -> ToBrowser(log')]
          /\ \A y \in Sessions : pc[y] \in {"ack", "mark"} => request[y] \in Announcing(log')
      BY <2>4, OthersTyped
    <3>2. pc' \in [Sessions -> Labels] /\ \A y \in Sessions : y # x => pc'[y] = pc[y]
      BY <1>4, <2>2 DEF Goto, Labels
    <3>3. request' \in [Sessions -> ToBrowser(log')]
      BY <2>3, <2>7, <3>1
    <3>4. \A y \in Sessions : pc'[y] \in {"ack", "mark"} => request'[y] \in Announcing(log')
      BY <1>4, <2>3, <2>6, <3>1, <3>2
    <3> QED
      BY <1>4, <2>2, <3>1, <3>2, <3>3, <3>4 DEF ThreadsTyped
  <2>10. BrowsersTyped'
    <3>1. /\ socket \in [Sessions -> Seq(ToBrowser(log'))]
          /\ browser \in [Browsers -> BrowsersOf(log')]
          /\ sent \in [Sessions -> SentOf(log')]
      BY <2>4, OthersTyped
    <3>2. inbox' \in [Sessions -> Seq(FromBrowser(log'))]
      BY <1>4, <2>1, <2>4, LogGrows, SeqMonotonic
    <3> QED
      BY <2>2, <3>1, <3>2 DEF BrowsersTyped
  <2> QED
    BY <1>2, <2>2, <2>8, <2>9, <2>10 DEF Typed
<1>17. CASE CommitThrows(x)
  <2> DEFINE id == Head(inbox[x]).opId
  <2>1. id \in OpIds /\ inbox' \in [Sessions -> Seq(FromBrowser(log))]
    BY <1>8, <1>17 DEF CommitThrows, FromBrowser
  <2>2. /\ AppendToLog(id) \/ UNCHANGED store
        /\ failures' \in 0 .. MaxFailures
        /\ Send(x, ErrorFrame)
        /\ UNCHANGED <<lost, seen, clients, fan, pc, request, server, browser, sent>>
    BY <1>17, FailsTyped DEF CommitThrows, threads
  <2> HIDE DEF id
  <2>3. /\ log' \in Seq(OpIds) /\ IsInjective(log')
        /\ channel' \in [Servers -> Seq(Announcing(log'))]
        /\ Len(log) <= Len(log') /\ \A i \in DOMAIN log : log'[i] = log[i]
    <3>1. CASE AppendToLog(id)
      BY <2>1, <3>1, CommitTyped
    <3>2. CASE UNCHANGED store
      BY <1>4, <3>2 DEF store, Typed, StoreTyped
    <3> QED
      BY <2>2, <3>1, <3>2
  <2>5. socket' \in [Sessions -> Seq(ToBrowser(log))]
    BY <1>5, <1>6, <2>2, SendTyped
  <2>6. StoreTyped'
    BY <2>2, <2>3, OthersTyped DEF StoreTyped, Typed
  <2>7. ThreadsTyped'
    <3>1. /\ fan \in [Servers \cup Sessions -> Fans(log')]
          /\ request \in [Sessions -> ToBrowser(log')]
          /\ \A y \in Sessions : pc[y] \in {"ack", "mark"} => request[y] \in Announcing(log')
      BY <2>3, OthersTyped
    <3> QED
      BY <1>4, <2>2, <3>1 DEF ThreadsTyped
  <2>8. BrowsersTyped'
    <3>1. /\ browser \in [Browsers -> BrowsersOf(log')]
          /\ sent \in [Sessions -> SentOf(log')]
      BY <2>3, OthersTyped
    <3>2. /\ inbox' \in [Sessions -> Seq(FromBrowser(log'))]
          /\ socket' \in [Sessions -> Seq(ToBrowser(log'))]
      BY <1>4, <2>1, <2>3, <2>5, LogGrows, SeqMonotonic
    <3> QED
      BY <2>2, <3>1, <3>2 DEF BrowsersTyped
  <2> QED
    BY <1>2, <2>2, <2>6, <2>7, <2>8 DEF Typed
<1>18. CASE Acknowledge(x)
  <2>1. request[x] \in ToBrowser(log) /\ request[x].to \in RevsOf(log)
    BY <1>4 DEF ToBrowser, FramesOf
  <2>2. socket' \in [Sessions -> Seq(ToBrowser(log))]
    BY <1>5, <1>18, <2>1, SendTyped DEF Acknowledge
  <2>3. sent' \in [Sessions -> SentOf(log)]
    <3>1. [sent[x] EXCEPT !.acks = @ \cup {request[x].to}] \in SentOf(log)
      BY <1>5, <2>1 DEF SentOf
    <3> QED
      BY <1>5, <1>18, <3>1 DEF Acknowledge
  <2>4. ThreadsTyped'
    BY <1>4, <1>18 DEF Acknowledge, Goto, Labels, ThreadsTyped, store
  <2>5. BrowsersTyped'
    BY <1>5, <1>18, <2>2, <2>3 DEF Acknowledge, BrowsersTyped, store
  <2> QED
    BY <1>1, <1>2, <1>18, <2>4, <2>5 DEF Acknowledge, store, Typed
<1>19. CASE MarkCommitted(x)
  <2> DEFINE s == server[x]
             others == Without(clients[s], x)
  <2>1. s \in Servers /\ request[x] \in Announcing(log)
    BY <1>4, <1>19 DEF MarkCommitted
  <2>2. request[x].opId \in OpIds
    BY <1>4, <2>1 DEF Announcing
  <2>3. others \in Seq(Sessions)
    BY <1>4, <2>1, WithoutHolds
  <2>4. IF Seen(s, request[x]) THEN UNCHANGED <<seen, fan>>
        ELSE MarkSeen(s, request[x]) /\ SendAll(x, request[x], others)
    BY <1>19 DEF MarkCommitted
  <2> HIDE DEF s, others
  <2>5. SeenTyped'
    BY <1>2, <2>1, <2>2, <2>4, MarkSeenTyped DEF Typed
  <2>6. fan' \in [Servers \cup Sessions -> Fans(log)]
    <3>1. CASE ~Seen(s, request[x])
      BY <1>4, <2>1, <2>3, <2>4, <3>1, SendAllTyped
    <3> QED
      BY <1>4, <2>4, <3>1
  <2>7. ThreadsTyped'
    BY <1>4, <1>7, <1>19, <2>6 DEF MarkCommitted, ThreadsTyped, store
  <2> QED
    BY <1>1, <1>3, <1>19, <2>5, <2>7 DEF MarkCommitted, store, Typed
<1> QED
  BY <1>9, <1>10, <1>11, <1>12, <1>15, <1>16, <1>17, <1>18, <1>19 DEF Serve, Looks

(* Broadcasts and subscribers.                                             *)
LEMMA BroadcastTyped ==
  ASSUME Typed,
         \/ \E a \in Sessions \cup Servers : SendNext(a)
         \/ \E s \in Servers : Subscriber(s)
         \/ \E id \in OpIds : CommitElsewhere(id)
  PROVE  Typed'
<1>1. UNCHANGED <<log, channel, lost, failures>> => StoreTyped'
  BY DEF Typed, StoreTyped
<1>2. UNCHANGED seen => SeenTyped'
  BY DEF Typed, SeenTyped
<1>3. UNCHANGED <<log, inbox, socket, browser, sent>> => BrowsersTyped'
  BY DEF Typed, BrowsersTyped
<1>4. UNCHANGED <<log, clients, fan, pc, request, server>> => ThreadsTyped'
  BY DEF Typed, ThreadsTyped
<1>5. /\ log \in Seq(OpIds) /\ Len(log) \in Nat
      /\ channel \in [Servers -> Seq(Announcing(log))]
      /\ lost \in [Servers -> SUBSET RevsOf(log)]
      /\ clients \in [Servers -> Seq(Sessions)]
      /\ fan \in [Servers \cup Sessions -> Fans(log)]
      /\ socket \in [Sessions -> Seq(ToBrowser(log))]
      /\ sent \in [Sessions -> SentOf(log)]
  BY DEF Typed, StoreTyped, ThreadsTyped, BrowsersTyped
<1>6. \A f \in Announcing(log) : /\ f \in ToBrowser(log) /\ f.to \in RevsOf(log)
                                /\ f.opId \in OpIds
  <2>1. <<>> \in Seq(DOMAIN log)
    OBVIOUS
  <2> QED
    BY <1>5, <2>1 DEF Announcing, ToBrowser, FramesOf
<1>7. ASSUME NEW a \in Sessions \cup Servers, SendNext(a) PROVE Typed'
  <2>1. /\ fan[a].op \in Announcing(log) /\ fan[a].todo \in Seq(Sessions)
        /\ fan[a].todo # <<>>
    BY <1>5, <1>7 DEF SendNext, Fans
  <2> DEFINE x == Head(fan[a].todo)
             rest == Tail(fan[a].todo)
  <2>2. x \in Sessions /\ rest \in Seq(Sessions)
    BY <2>1, TailHolds
  <2>3. /\ Send(x, fan[a].op) /\ SendAll(a, fan[a].op, rest)
        /\ sent' = [sent EXCEPT ![x].broadcasts = Append(@, fan[a].op.to)]
        /\ UNCHANGED <<log, channel, lost, failures, seen, clients, pc, request,
                       server, inbox, browser>>
    BY <1>7 DEF SendNext, store
  <2> HIDE DEF x, rest
  <2>4. fan' \in [Servers \cup Sessions -> Fans(log)]
    BY <1>5, <2>1, <2>2, <2>3, SendAllTyped
  <2>5. socket' \in [Sessions -> Seq(ToBrowser(log))]
    <3>1. fan[a].op \in ToBrowser(log)
      BY <1>6, <2>1
    <3> QED
      BY <1>5, <2>2, <2>3, <3>1, SendTyped
  <2>6. sent' \in [Sessions -> SentOf(log)]
    <3>1. fan[a].op.to \in RevsOf(log)
      BY <1>6, <2>1
    <3>3. sent[x] \in SentOf(log)
      BY <1>5, <2>2
    <3>4. Append(sent[x].broadcasts, fan[a].op.to) \in Seq(RevsOf(log))
      BY <3>1, <3>3 DEF SentOf
    <3> DEFINE more == Append(sent[x].broadcasts, fan[a].op.to)
    <3> HIDE DEF more
    <3>5. [sent[x] EXCEPT !.broadcasts = more] \in SentOf(log)
      BY <3>3, <3>4 DEF SentOf, more
    <3>2. [sent[x] EXCEPT !.broadcasts = Append(@, fan[a].op.to)] \in SentOf(log)
      BY <3>5 DEF more
    <3> QED
      BY <1>5, <2>3, <3>2
  <2>7. ThreadsTyped'
    BY <2>3, <2>4 DEF ThreadsTyped, Typed
  <2>8. BrowsersTyped'
    BY <2>3, <2>5, <2>6 DEF BrowsersTyped, Typed
  <2> QED
    BY <1>1, <1>2, <2>3, <2>7, <2>8 DEF Typed
<1>8. ASSUME NEW s \in Servers, channel[s] # <<>>
      PROVE  /\ Head(channel[s]) \in Announcing(log)
             /\ [channel EXCEPT ![s] = Tail(@)] \in [Servers -> Seq(Announcing(log))]
  <2>1. /\ Head(channel[s]) \in Announcing(log)
        /\ Tail(channel[s]) \in Seq(Announcing(log))
    BY <1>5, <1>8, TailHolds
  <2> QED
    BY <1>5, <2>1
<1>9. ASSUME NEW s \in Servers, Deliver(s) PROVE Typed'
  <2> DEFINE op == Head(channel[s])
  <2>1. /\ op \in Announcing(log)
        /\ channel' \in [Servers -> Seq(Announcing(log))]
    BY <1>8, <1>9 DEF Deliver
  <2>2. /\ IF Seen(s, op) THEN UNCHANGED <<seen, fan>>
           ELSE MarkSeen(s, op) /\ SendAll(s, op, clients[s])
        /\ UNCHANGED <<log, lost, failures, clients, pc, request, server, inbox,
                       socket, browser, sent>>
    BY <1>9 DEF Deliver
  <2> HIDE DEF op
  <2>3. SeenTyped'
    BY <1>2, <1>6, <2>1, <2>2, MarkSeenTyped DEF Typed
  <2>4. fan' \in [Servers \cup Sessions -> Fans(log)]
    <3>1. CASE ~Seen(s, op)
      BY <1>5, <2>1, <2>2, <3>1, SendAllTyped
    <3> QED
      BY <1>5, <2>2, <3>1
  <2>5. StoreTyped'
    BY <2>1, <2>2 DEF StoreTyped, Typed
  <2>6. ThreadsTyped'
    BY <2>2, <2>4 DEF ThreadsTyped, Typed
  <2> QED
    BY <1>3, <2>2, <2>3, <2>5, <2>6 DEF Typed
<1>10. ASSUME NEW s \in Servers, LoseMessage(s) PROVE Typed'
  <2>1. /\ Head(channel[s]) \in Announcing(log)
        /\ channel' \in [Servers -> Seq(Announcing(log))]
    BY <1>8, <1>10 DEF LoseMessage
  <2>2. lost' \in [Servers -> SUBSET RevsOf(log)]
    <3>1. lost[s] \cup {Head(channel[s]).to} \in SUBSET RevsOf(log)
      BY <1>5, <1>6, <2>1
    <3> QED
      BY <1>5, <1>10, <3>1 DEF LoseMessage
  <2>3. UNCHANGED <<log, failures, seen, clients, fan, pc, request, server,
                    inbox, socket, browser, sent>>
    BY <1>10 DEF LoseMessage, threads
  <2>4. StoreTyped'
    BY <2>1, <2>2, <2>3 DEF StoreTyped, Typed
  <2> QED
    BY <1>2, <1>3, <1>4, <2>3, <2>4 DEF Typed
<1>11. ASSUME NEW id \in OpIds, CommitElsewhere(id) PROVE Typed'
  <2>1. /\ AppendToLog(id)
        /\ UNCHANGED <<lost, failures, seen, clients, fan, pc, request, server,
                       inbox, socket, browser, sent>>
    BY <1>11 DEF CommitElsewhere, threads
  <2>2. /\ log' \in Seq(OpIds) /\ IsInjective(log')
        /\ channel' \in [Servers -> Seq(Announcing(log'))]
        /\ Len(log) <= Len(log') /\ \A i \in DOMAIN log : log'[i] = log[i]
    BY <2>1, CommitTyped
  <2>3. /\ lost \in [Servers -> SUBSET RevsOf(log')]
        /\ fan \in [Servers \cup Sessions -> Fans(log')]
        /\ request \in [Sessions -> ToBrowser(log')]
        /\ \A x \in Sessions : pc[x] \in {"ack", "mark"} => request[x] \in Announcing(log')
        /\ inbox \in [Sessions -> Seq(FromBrowser(log'))]
        /\ socket \in [Sessions -> Seq(ToBrowser(log'))]
        /\ browser \in [Browsers -> BrowsersOf(log')]
        /\ sent \in [Sessions -> SentOf(log')]
    BY <2>2, OthersTyped
  <2>4. StoreTyped'
    BY <2>1, <2>2, <2>3 DEF StoreTyped, Typed
  <2>5. ThreadsTyped'
    BY <2>1, <2>3 DEF ThreadsTyped, Typed
  <2>6. BrowsersTyped'
    BY <2>1, <2>3 DEF BrowsersTyped
  <2> QED
    BY <1>2, <2>1, <2>4, <2>5, <2>6 DEF Typed
<1> QED
  BY <1>7, <1>9, <1>10, <1>11 DEF Subscriber

(* app.js and its connections.                                             *)
LEMMA BrowserTyped ==
  ASSUME Typed, NEW b \in Browsers,
         \/ \E x \in Sessions : Connect(b, x)
         \/ Disconnect(b)
         \/ \E id \in OpIds : Edit(b, id)
         \/ Receive(b)
  PROVE  Typed'
<1>1. UNCHANGED <<log, channel, lost, failures>> => StoreTyped'
  BY DEF Typed, StoreTyped
<1>2. UNCHANGED seen => SeenTyped'
  BY DEF Typed, SeenTyped
<1>3. UNCHANGED <<log, clients, fan, pc, request, server>> => ThreadsTyped'
  BY DEF Typed, ThreadsTyped
<1>4. /\ log \in Seq(OpIds) /\ Len(log) \in Nat
      /\ inbox \in [Sessions -> Seq(FromBrowser(log))]
      /\ socket \in [Sessions -> Seq(ToBrowser(log))]
      /\ browser \in [Browsers -> BrowsersOf(log)]
      /\ sent \in [Sessions -> SentOf(log)]
  BY DEF Typed, StoreTyped, BrowsersTyped
<1>5. browser[b] \in BrowsersOf(log)
  BY <1>4
<1>6. Sync(b) \in FromBrowser(log)
  <2>1. <<>> \in Seq(RevsOf(log))
    OBVIOUS
  <2> QED
    BY <1>4, <1>5, <2>1 DEF Sync, Frame, FromBrowser, FramesOf, BrowsersOf, RevsOf
<1>7. \A id \in OpIds : Op(id) \in FromBrowser(log)
  <2>1. <<>> \in Seq(RevsOf(log))
    OBVIOUS
  <2> QED
    BY <1>4, <2>1 DEF Op, Frame, FromBrowser, FramesOf, RevsOf
<1>8. ASSUME browser[b].session # NoSession PROVE browser[b].session \in Sessions
  BY <1>5, <1>8 DEF BrowsersOf
<1>9. ASSUME NEW x \in Sessions, Connect(b, x) PROVE Typed'
  <2>1. /\ browser' = [browser EXCEPT ![b].session = x]
        /\ inbox' = [inbox EXCEPT ![x] = IF browser[b].hasSession THEN <<Sync(b)>> ELSE <<>>]
        /\ Goto(x, "register")
        /\ UNCHANGED <<log, channel, lost, failures, seen, clients, fan, request,
                       server, socket, sent>>
    BY <1>9 DEF Connect, store
  <2>2. browser' \in [Browsers -> BrowsersOf(log)]
    <3>1. [browser[b] EXCEPT !.session = x] \in BrowsersOf(log)
      BY <1>5 DEF BrowsersOf
    <3> QED
      BY <1>4, <2>1, <3>1
  <2>3. inbox' \in [Sessions -> Seq(FromBrowser(log))]
    <3>1. (IF browser[b].hasSession THEN <<Sync(b)>> ELSE <<>>) \in Seq(FromBrowser(log))
      BY <1>6
    <3> QED
      BY <1>4, <2>1, <3>1
  <2>4. BrowsersTyped'
    BY <1>4, <2>1, <2>2, <2>3 DEF BrowsersTyped
  <2>5. ThreadsTyped'
    BY <2>1 DEF Goto, Labels, ThreadsTyped, Typed
  <2> QED
    BY <1>1, <1>2, <2>1, <2>4, <2>5 DEF Typed
<1>10. CASE Disconnect(b)
  <2> DEFINE x == browser[b].session
  <2>1. x \in Sessions
    BY <1>8, <1>10 DEF Disconnect
  <2>2. /\ browser' = [browser EXCEPT ![b].session = NoSession, ![b].enabled = FALSE]
        /\ socket' = [socket EXCEPT ![x] = <<>>]
        /\ UNCHANGED <<log, channel, lost, failures, seen, clients, fan, pc, request,
                       server, sent>>
    BY <1>10 DEF Disconnect, store, threads
  <2>3. PICK n \in 0 .. Len(inbox[x]) : inbox' = [inbox EXCEPT ![x] = SubSeq(@, 1, n)]
    BY <1>10 DEF Disconnect
  <2> HIDE DEF x
  <2>4. inbox' \in [Sessions -> Seq(FromBrowser(log))]
    <3>1. SubSeq(inbox[x], 1, n) \in Seq(FromBrowser(log))
      BY <1>4, <2>1, SubSeqProperties
    <3> QED
      BY <1>4, <2>3, <3>1
  <2>5. socket' \in [Sessions -> Seq(ToBrowser(log))]
    <3>1. <<>> \in Seq(ToBrowser(log))
      OBVIOUS
    <3> QED
      BY <1>4, <2>2, <3>1
  <2>6. browser' \in [Browsers -> BrowsersOf(log)]
    <3>1. [browser[b] EXCEPT !.session = NoSession, !.enabled = FALSE] \in BrowsersOf(log)
      BY <1>5 DEF BrowsersOf
    <3> QED
      BY <1>4, <2>2, <3>1
  <2>7. BrowsersTyped'
    BY <1>4, <2>2, <2>4, <2>5, <2>6 DEF BrowsersTyped
  <2> QED
    BY <1>1, <1>2, <1>3, <2>2, <2>7 DEF Typed
<1>11. ASSUME NEW id \in OpIds, Edit(b, id) PROVE Typed'
  <2> DEFINE x == browser[b].session
  <2>2. /\ browser' = [browser EXCEPT ![b].pending = Append(@, id),
                                      ![b].edited = @ \cup {id}]
        /\ inbox' = [inbox EXCEPT ![x] = Append(@, Op(id))]
        /\ UNCHANGED <<log, channel, lost, failures, seen, clients, fan, pc, request,
                       server, socket, sent>>
    BY <1>11 DEF Edit, store, threads
  <2> HIDE DEF x
  <2>3. inbox' \in [Sessions -> Seq(FromBrowser(log))]
    <3>1. ASSUME x \in Sessions PROVE Append(inbox[x], Op(id)) \in Seq(FromBrowser(log))
      BY <1>4, <1>7, <3>1
    <3> QED
      BY <1>4, <2>2, <3>1
  <2>4. browser' \in [Browsers -> BrowsersOf(log)]
    <3> DEFINE pending == Append(browser[b].pending, id)
               edited  == browser[b].edited \cup {id}
    <3>2. pending \in Seq(OpIds) /\ edited \in SUBSET OpIds
      BY <1>5 DEF BrowsersOf
    <3> HIDE DEF pending, edited
    <3>3. [browser[b] EXCEPT !.pending = pending, !.edited = edited] \in BrowsersOf(log)
      BY <1>5, <3>2 DEF BrowsersOf
    <3>1. [browser[b] EXCEPT !.pending = Append(@, id), !.edited = @ \cup {id}]
            \in BrowsersOf(log)
      BY <3>3 DEF pending, edited
    <3> QED
      BY <1>4, <2>2, <3>1
  <2>5. BrowsersTyped'
    BY <1>4, <2>2, <2>3, <2>4 DEF BrowsersTyped
  <2> QED
    BY <1>1, <1>2, <1>3, <2>2, <2>5 DEF Typed
<1>12. ASSUME NEW kind, NEW br \in BrowsersOf(log), NEW frames \in Seq(FromBrowser(log)),
              Take(b, kind, br, frames)
       PROVE  Typed'
  <2> DEFINE x == browser[b].session
  <2>1. x \in Sessions /\ socket[x] # <<>>
    BY <1>8, <1>12 DEF Take
  <2>2. /\ socket' = [socket EXCEPT ![x] = Tail(@)]
        /\ browser' = [browser EXCEPT ![b] = br]
        /\ inbox' = [inbox EXCEPT ![x] = @ \o frames]
        /\ UNCHANGED <<log, channel, lost, failures, seen, clients, fan, pc, request,
                       server, sent>>
    BY <1>12 DEF Take, store, threads
  <2> HIDE DEF x
  <2>3. socket' \in [Sessions -> Seq(ToBrowser(log))]
    <3>1. Tail(socket[x]) \in Seq(ToBrowser(log))
      BY <1>4, <2>1, TailHolds
    <3> QED
      BY <1>4, <2>2, <3>1
  <2>4. inbox' \in [Sessions -> Seq(FromBrowser(log))]
    <3>1. inbox[x] \o frames \in Seq(FromBrowser(log))
      BY <1>4, <2>1, ConcatProperties
    <3> QED
      BY <1>4, <2>2, <3>1
  <2>5. BrowsersTyped'
    BY <1>4, <2>2, <2>3, <2>4 DEF BrowsersTyped
  <2> QED
    BY <1>1, <1>2, <1>3, <2>2, <2>5 DEF Typed
<1>13. ASSUME NEW kind, NEW br, NEW frames, Take(b, kind, br, frames)
       PROVE  /\ Arriving(b) \in ToBrowser(log) /\ Arriving(b).kind = kind
              /\ Arriving(b).from \in RevsOf(log) /\ Arriving(b).to \in RevsOf(log)
  <2>1. browser[b].session \in Sessions /\ socket[browser[b].session] # <<>>
    BY <1>8, <1>13 DEF Take
  <2>2. Arriving(b) \in ToBrowser(log)
    BY <1>4, <2>1, TailHolds DEF Arriving
  <2> QED
    BY <1>13, <2>2 DEF Take, Arriving, ToBrowser, FramesOf
<1>14. ASSUME NEW f, f.from \in RevsOf(log), f.to \in RevsOf(log)
       PROVE  Reset(browser[b], f) \in BrowsersOf(log)
  <2>2. <<>> \in Seq(OpIds)
    OBVIOUS
  <2> DEFINE text == SubSeq(log, 1, f.from)
             orderly == /\ f.from = f.to
                        /\ browser[b].applied \cap ToSet(SubSeq(log, f.to + 1, Len(log))) = {}
  <2>3. text \in Seq(OpIds) /\ orderly \in BOOLEAN
    BY <1>4, <1>14, SubSeqProperties DEF RevsOf
  <2>4. Reset(browser[b], f) =
          [browser[b] EXCEPT !.revision = f.to, !.text = text, !.pending = <<>>,
                             !.applied = {}, !.base = f.to, !.orderly = orderly]
    BY DEF Reset
  <2> HIDE DEF text, orderly
  <2> QED
    BY <1>5, <1>14, <2>2, <2>3, <2>4 DEF BrowsersOf
<1>15. <<>> \in Seq(FromBrowser(log))
  OBVIOUS
<1>16. CASE ReceiveFirstInit(b)
  <2> DEFINE r  == Reset(browser[b], Arriving(b))
             br == [r EXCEPT !.hasSession = TRUE, !.enabled = TRUE]
  <2>1. Take(b, "init", br, <<>>)
    BY <1>16 DEF ReceiveFirstInit
  <2> HIDE DEF br
  <2>2. r \in BrowsersOf(log)
    BY <1>13, <1>14, <2>1
  <2> HIDE DEF r
  <2>3. br \in BrowsersOf(log)
    BY <2>2 DEF br, BrowsersOf
  <2> QED
    BY <1>12, <1>15, <2>1, <2>3
<1>17. CASE ReceiveInitAgain(b)
  <2>1. [browser[b] EXCEPT !.enabled = TRUE] \in BrowsersOf(log)
    BY <1>5 DEF BrowsersOf
  <2>2. <<Sync(b)>> \in Seq(FromBrowser(log))
    BY <1>6
  <2> QED
    BY <1>12, <1>17, <2>1, <2>2 DEF ReceiveInitAgain
<1>18. CASE ReceiveOp(b)
  <2> DEFINE br == Received(browser[b], Arriving(b).to)
  <2>1. Take(b, "op", br, <<>>)
    BY <1>18 DEF ReceiveOp
  <2>2. Arriving(b) \in ToBrowser(log) /\ Arriving(b).kind = "op"
    BY <1>13, <2>1
  <2>3. Arriving(b).to \in DOMAIN log
    BY <2>2 DEF ToBrowser, Announcing
  <2>4. br \in BrowsersOf(log)
    BY <1>4, <1>5, <2>3, ReceivedTyped
  <2> HIDE DEF br
  <2> QED
    BY <1>12, <1>15, <2>1, <2>4
<1>19. CASE ReceiveCatchup(b)
  <2> DEFINE f    == Arriving(b)
             br   == FoldLeft(Received, browser[b], f.ops)
             frames == [i \in DOMAIN br.pending |-> Op(br.pending[i])]
  <2>1. Take(b, "catchup", br, frames)
    BY <1>19 DEF ReceiveCatchup
  <2>2. f.ops \in Seq(DOMAIN log)
    BY <1>13, <2>1 DEF ToBrowser
  <2> HIDE DEF f
  <2>3. br \in BrowsersOf(log)
    BY <1>4, <1>5, <2>2, CatchupTyped
  <2> HIDE DEF br
  <2>4. br.pending \in Seq(OpIds)
    BY <2>3 DEF BrowsersOf
  <2>5. frames \in Seq(FromBrowser(log))
    BY <1>7, <2>4
  <2> HIDE DEF frames
  <2> QED
    BY <1>12, <2>1, <2>3, <2>5
<1>20. CASE ReceiveSnapshot(b)
  <2> DEFINE r  == Reset(browser[b], Arriving(b))
             br == [r EXCEPT !.cleared = @ \/ browser[b].pending # <<>>]
  <2>1. Take(b, "snapshot", br, <<>>)
    BY <1>20 DEF ReceiveSnapshot
  <2> HIDE DEF br
  <2>2. r \in BrowsersOf(log)
    BY <1>13, <1>14, <2>1
  <2> HIDE DEF r
  <2>3. br \in BrowsersOf(log)
    BY <2>2 DEF br, BrowsersOf
  <2> QED
    BY <1>12, <1>15, <2>1, <2>3
<1>21. CASE ReceiveError(b)
  BY <1>5, <1>12, <1>15, <1>21 DEF ReceiveError
<1> QED
  BY <1>9, <1>10, <1>11, <1>16, <1>17, <1>18, <1>19, <1>20, <1>21 DEF Receive

LEMMA NextTyped == Typed /\ [Next]_vars => Typed'
<1> SUFFICES ASSUME Typed, [Next]_vars PROVE Typed'
  OBVIOUS
<1>1. CASE UNCHANGED vars
  BY <1>1 DEF vars, store, threads, Typed, StoreTyped, SeenTyped, ThreadsTyped,
              BrowsersTyped
<1>2. CASE Next
  BY <1>2, ServeTyped, BroadcastTyped, BrowserTyped DEF Next
<1> QED
  BY <1>1, <1>2

LEMMA TypedAlways == Spec => []Typed
  BY InitTyped, NextTyped, PTL DEF Spec

(* Types everywhere: no session, broadcast or browser knows a revision the *)
(* log does not have, no operation is committed or remembered as seen      *)
(* twice, and what a server remembers as seen stays within its limit.      *)
THEOREM FanoutTypes == Spec => []TypeOK
<1>1. Typed => TypeOK
  <2> SUFFICES ASSUME Typed PROVE TypeOK
    OBVIOUS
  <2>1. Revs = RevsOf(log) /\ Frames = FramesOf(log) /\ BrowserStates = BrowsersOf(log)
    BY DEF Revs, Frames, BrowserStates, RevsOf, FramesOf, BrowsersOf
  <2>2. /\ Announcing(log) \subseteq Frames /\ ToBrowser(log) \subseteq Frames
        /\ FromBrowser(log) \subseteq Frames
    BY <2>1 DEF Announcing, ToBrowser, FromBrowser
  <2>3. /\ Seq(Announcing(log)) \subseteq Seq(Frames)
        /\ Seq(ToBrowser(log)) \subseteq Seq(Frames)
        /\ Seq(FromBrowser(log)) \subseteq Seq(Frames)
    BY <2>2, SeqMonotonic
  <2>4. channel \in [Servers -> Seq(Frames)] /\ lost \in [Servers -> SUBSET Revs]
    BY <2>1, <2>3 DEF Typed, StoreTyped
  <2>5. fan \in [Servers \cup Sessions -> [op: Frames, todo: Seq(Sessions)]]
    <3>1. NoFrame \in Frames
      BY <2>2, FramesMade DEF Typed, StoreTyped
    <3>2. NoFan \in [op: Frames, todo: Seq(Sessions)]
      BY <3>1 DEF NoFan
    <3>3. [op: Announcing(log), todo: Seq(Sessions) \ {<<>>}]
            \subseteq [op: Frames, todo: Seq(Sessions)]
      BY <2>2
    <3>4. Fans(log) \subseteq [op: Frames, todo: Seq(Sessions)]
      BY <3>2, <3>3 DEF Fans
    <3> QED
      BY <3>4 DEF Typed, ThreadsTyped
  <2>6. request \in [Sessions -> Frames]
    BY <2>2 DEF Typed, ThreadsTyped
  <2>7. inbox \in [Sessions -> Seq(Frames)] /\ socket \in [Sessions -> Seq(Frames)]
    BY <2>3 DEF Typed, BrowsersTyped
  <2>8. /\ browser \in [Browsers -> BrowserStates]
        /\ sent \in [Sessions -> [since: Revs, acks: SUBSET Revs, broadcasts: Seq(Revs)]]
    BY <2>1 DEF Typed, BrowsersTyped, SentOf
  <2> QED
    BY <2>4, <2>5, <2>6, <2>7, <2>8
       DEF TypeOK, Typed, StoreTyped, SeenTyped, ThreadsTyped
<1> QED
  BY <1>1, TypedAlways, PTL

-----------------------------------------------------------------------------
(* Who is a client, and who is sent to.                                    *)

(* broadcast() from server or session a, begun or gone on with.            *)
LEMMA SendAllEffect ==
  ASSUME fan \in [Servers \cup Sessions -> Fans(log)],
         NEW a \in Servers \cup Sessions, NEW op,
         NEW todo, SendAll(a, op, todo)
  PROVE  /\ fan'[a].todo = todo
         /\ fan'[a] # NoFan => fan'[a].op = op
         /\ fan'[a] = NoFan => todo = <<>>
         /\ \A b \in Servers \cup Sessions : b # a => fan'[b] = fan[b]
<1>1. fan'[a] = IF todo = <<>> THEN NoFan ELSE [op |-> op, todo |-> todo]
  BY DEF SendAll
<1>2. \A b \in Servers \cup Sessions : b # a => fan'[b] = fan[b]
  BY DEF SendAll
<1>3. NoFan.todo = <<>>
  BY DEF NoFan
<1>4. CASE todo = <<>>
  BY <1>1, <1>2, <1>3, <1>4
<1>5. CASE todo # <<>>
  <2>1. fan'[a].todo = todo /\ fan'[a].op = op
    BY <1>1, <1>5
  <2> QED
    BY <1>2, <1>3, <1>5, <2>1
<1> QED
  BY <1>4, <1>5

LEMMA FanTyped ==
  ASSUME Typed, NEW a \in Servers \cup Sessions
  PROVE  /\ fan[a].todo \in Seq(Sessions)
         /\ fan[a] # NoFan => fan[a].todo # <<>> /\ fan[a].op \in Announcing(log)
<1>1. fan[a] \in Fans(log)
  BY DEF Typed, ThreadsTyped
<1>2. NoFan.todo = <<>> /\ <<>> \in Seq(Sessions)
  BY DEF NoFan
<1> QED
  BY <1>1, <1>2 DEF Fans

LEMMA InitMembers == Init => Members
<1> SUFFICES ASSUME Init PROVE Members
  OBVIOUS
<1>1. Enlisted
  BY EmptyHolds DEF Init, Enlisted, Active
<1>2. SendsFirst
  BY DEF Init, SendsFirst
<1>3. Recipients
  BY EmptyHolds DEF Init, Recipients, NoFan
<1> QED
  BY <1>1, <1>2, <1>3 DEF Members

LEMMA NextMembers ==
  ASSUME Typed, Members, [Next]_vars
  PROVE  Members'
<1>1. /\ clients \in [Servers -> Seq(Sessions)]
      /\ fan \in [Servers \cup Sessions -> Fans(log)]
      /\ pc \in [Sessions -> Labels] /\ server \in [Sessions -> Servers]
  BY DEF Typed, ThreadsTyped
<1>2. Enlisted /\ SendsFirst /\ Recipients
  BY DEF Members
<1>3. \A x \in Sessions : x \notin Servers /\ Home(x) = server[x]
  BY FanoutAssumption DEF Home
<1>4. ASSUME UNCHANGED <<clients, server>>, \A y \in Sessions : Active(y)' <=> Active(y)
      PROVE  Enlisted'
  <2>1. \A s \in Servers : ToSet(clients[s]) \subseteq Sessions
    BY <1>1 DEF ToSet
  <2> QED
    BY <1>2, <1>4, <2>1 DEF Enlisted
<1>5. ASSUME UNCHANGED <<fan, server>> PROVE Recipients'
  BY <1>2, <1>5 DEF Recipients, Home
<1>6. ASSUME NEW a \in Servers \cup Sessions, NEW op, NEW todo \in Seq(Sessions),
             SendAll(a, op, todo), UNCHANGED server,
             IsInjective(todo), \A x \in ToSet(todo) : server[x] = Home(a)
      PROVE  Recipients'
  <2>1. /\ fan'[a].todo = todo
        /\ \A b \in Servers \cup Sessions : b # a => fan'[b] = fan[b]
    BY <1>1, <1>6, SendAllEffect
  <2> QED
    BY <1>2, <1>6, <2>1 DEF Recipients, Home
<1>7. ASSUME UNCHANGED <<clients, fan, server>>, NEW x \in Sessions, NEW label,
             Goto(x, label), Active(x) <=> label \notin {"unused", "register", "done"},
             fan[x] = NoFan
      PROVE  Members'
  <2>1. \A y \in Sessions : Active(y)' <=> Active(y)
    BY <1>1, <1>7 DEF Goto, Active
  <2>2. SendsFirst'
    BY <1>1, <1>2, <1>7 DEF SendsFirst, Goto
  <2> QED
    BY <1>4, <1>5, <1>7, <2>1, <2>2 DEF Members
<1>8. ASSUME UNCHANGED <<clients, fan, pc, server>> PROVE Members'
  <2>1. SendsFirst'
    BY <1>2, <1>8 DEF SendsFirst
  <2>2. \A y \in Sessions : Active(y)' <=> Active(y)
    BY <1>8 DEF Active
  <2> QED
    BY <1>4, <1>5, <1>8, <2>1, <2>2 DEF Members
<1>9. ASSUME NEW x \in Sessions, pc[x] # "read" PROVE fan[x] = NoFan
  BY <1>2, <1>9 DEF SendsFirst
<1>10. ASSUME NEW x \in Sessions, Register(x) PROVE Members'
  <2> DEFINE s == server[x]
  <2>1. /\ pc[x] = "register" /\ Goto(x, "content") /\ s \in Servers
        /\ clients' = [clients EXCEPT ![s] = Append(@, x)]
        /\ UNCHANGED <<fan, server>> /\ server[x] = s
    BY <1>1, <1>10 DEF Register
  <2> HIDE DEF s
  <2>2. x \notin ToSet(clients[s]) /\ IsInjective(clients[s]) /\ clients[s] \in Seq(Sessions)
    BY <1>1, <1>2, <2>1 DEF Enlisted, Active
  <2>3. /\ IsInjective(clients'[s]) /\ ToSet(clients'[s]) = ToSet(clients[s]) \cup {x}
        /\ \A u \in Servers : u # s => clients'[u] = clients[u]
    BY <1>1, <2>1, <2>2, AppendHolds
  <2>4. \A y \in Sessions : Active(y)' <=> Active(y) \/ y = x
    BY <1>1, <2>1 DEF Goto, Active
  <2>5. \A u \in Servers : ToSet(clients[u]) \subseteq Sessions
    BY <1>1 DEF ToSet
  <2>6. Enlisted'
    <3>1. \A u \in Servers : IsInjective(clients'[u])
      BY <1>2, <2>3 DEF Enlisted
    <3>2. ASSUME NEW u \in Servers, NEW y \in ToSet(clients'[u])
          PROVE  server[y] = u /\ Active(y)'
      <4>1. CASE y \in ToSet(clients[u])
        BY <1>2, <2>4, <2>5, <4>1 DEF Enlisted
      <4>2. CASE y \notin ToSet(clients[u])
        BY <2>1, <2>3, <2>4, <4>2
      <4> QED
        BY <4>1, <4>2
    <3>3. ASSUME NEW y \in Sessions, Active(y)' PROVE y \in ToSet(clients'[server[y]])
      <4>1. server[y] \in Servers
        BY <1>1
      <4>2. CASE y = x
        BY <2>1, <2>3, <4>2
      <4>3. CASE y # x
        <5>1. y \in ToSet(clients[server[y]])
          BY <1>2, <2>4, <3>3, <4>3 DEF Enlisted
        <5> QED
          BY <2>3, <4>1, <5>1
      <4> QED
        BY <4>2, <4>3
    <3> QED
      BY <2>1, <3>1, <3>2, <3>3 DEF Enlisted
  <2>7. SendsFirst'
    BY <1>1, <1>2, <1>9, <2>1 DEF SendsFirst, Goto
  <2> QED
    BY <1>5, <2>1, <2>6, <2>7 DEF Members
<1>11. ASSUME NEW x \in Sessions, ReadClosed(x) PROVE Members'
  <2> DEFINE s == server[x]
  <2>1. /\ pc[x] = "read" /\ fan[x] = NoFan /\ Goto(x, "done") /\ s \in Servers
        /\ clients' = [clients EXCEPT ![s] = Without(@, x)]
        /\ UNCHANGED <<fan, server>> /\ server[x] = s
    BY <1>1, <1>11 DEF ReadClosed
  <2> HIDE DEF s
  <2>2. IsInjective(clients[s]) /\ clients[s] \in Seq(Sessions)
    BY <1>1, <1>2, <2>1 DEF Enlisted
  <2>3. /\ IsInjective(clients'[s]) /\ ToSet(clients'[s]) = ToSet(clients[s]) \ {x}
        /\ \A u \in Servers : u # s => clients'[u] = clients[u]
    BY <1>1, <2>1, <2>2, WithoutHolds
  <2>4. \A y \in Sessions : Active(y)' <=> Active(y) /\ y # x
    BY <1>1, <2>1 DEF Goto, Active
  <2>5. \A u \in Servers : ToSet(clients[u]) \subseteq Sessions
    BY <1>1 DEF ToSet
  <2>6. Enlisted'
    <3>1. \A u \in Servers : IsInjective(clients'[u])
      BY <1>2, <2>3 DEF Enlisted
    <3>2. ASSUME NEW u \in Servers, NEW y \in ToSet(clients'[u])
          PROVE  server[y] = u /\ Active(y)'
      <4>1. y \in ToSet(clients[u]) /\ y \in Sessions
        BY <2>3, <2>5
      <4>2. server[y] = u /\ Active(y)
        BY <1>2, <4>1 DEF Enlisted
      <4>3. y # x
        BY <2>1, <2>3, <4>2
      <4> QED
        BY <2>4, <4>1, <4>2, <4>3
    <3>3. ASSUME NEW y \in Sessions, Active(y)' PROVE y \in ToSet(clients'[server[y]])
      <4>1. server[y] \in Servers /\ y \in ToSet(clients[server[y]]) /\ y # x
        BY <1>1, <1>2, <2>4, <3>3 DEF Enlisted
      <4> QED
        BY <2>3, <4>1
    <3> QED
      BY <2>1, <3>1, <3>2, <3>3 DEF Enlisted
  <2>7. SendsFirst'
    BY <1>1, <1>2, <2>1 DEF SendsFirst, Goto
  <2> QED
    BY <1>5, <2>1, <2>6, <2>7 DEF Members
<1>12. ASSUME NEW x \in Sessions, MarkCommitted(x) PROVE Members'
  <2> DEFINE s == server[x]
             others == Without(clients[s], x)
  <2>1. /\ pc[x] = "mark" /\ Goto(x, "read") /\ s \in Servers
        /\ UNCHANGED <<clients, server>>
    BY <1>1, <1>12 DEF MarkCommitted, ReadNext
  <2>2. UNCHANGED fan \/ SendAll(x, request[x], others)
    BY <1>12 DEF MarkCommitted
  <2>3. /\ others \in Seq(Sessions) /\ ToSet(others) \subseteq ToSet(clients[s])
        /\ IsInjective(others)
    <3>1. clients[s] \in Seq(Sessions) /\ IsInjective(clients[s])
      BY <1>1, <1>2, <2>1 DEF Enlisted
    <3> QED
      BY <3>1, WithoutHolds
  <2>4. \A y \in ToSet(others) : server[y] = Home(x)
    BY <1>2, <1>3, <2>1, <2>3 DEF Enlisted
  <2> HIDE DEF others
  <2>5. Recipients'
    BY <1>5, <1>6, <2>1, <2>2, <2>3, <2>4
  <2>6. \A y \in Sessions : Active(y)' <=> Active(y)
    BY <1>1, <2>1 DEF Goto, Active
  <2>7. Enlisted'
    BY <1>4, <2>1, <2>6
  <2>8. SendsFirst'
    <3>1. ASSUME NEW y \in Sessions, pc'[y] # "read" PROVE fan'[y] = NoFan
      <4>1. y # x /\ pc[y] # "read"
        BY <1>1, <2>1, <3>1 DEF Goto
      <4>2. fan'[y] = fan[y]
        BY <1>1, <2>2, <4>1 DEF SendAll
      <4> QED
        BY <1>9, <4>1, <4>2
    <3> QED
      BY <3>1 DEF SendsFirst
  <2> QED
    BY <2>5, <2>7, <2>8 DEF Members
<1>13. ASSUME NEW x \in Sessions, Serve(x) PROVE Members'
  <2>1. ASSUME NEW kind, Reads(x, kind) PROVE pc[x] = "read" /\ fan[x] = NoFan
    BY <2>1 DEF Reads
  <2>2. CASE Looks(x)
    <3>1. /\ UNCHANGED <<clients, fan, server>>
          /\ Active(x) /\ fan[x] = NoFan
      BY <1>9, <2>2, LooksEffect DEF Active
    <3>2. PICK label \in {"revision", "init", "behind", "operations", "persisted", "reply"} :
                 Goto(x, label)
      BY <2>2, LooksEffect DEF Goto
    <3> QED
      BY <1>7, <3>1, <3>2
  <2>3. CASE SendInit(x)
    BY <1>7, <1>9, <2>3 DEF SendInit, ReadNext, Active
  <2>6. CASE Reply(x)
    BY <1>7, <1>9, <2>6 DEF Reply, ReadNext, Active
  <2>7. CASE CommitOp(x)
    BY <1>7, <2>1, <2>7 DEF CommitOp, Active
  <2>8. CASE CommitThrows(x)
    BY <1>8, <2>8 DEF CommitThrows, threads
  <2>9. CASE Acknowledge(x)
    BY <1>7, <1>9, <2>9 DEF Acknowledge, Active
  <2> QED
    BY <1>10, <1>11, <1>12, <1>13, <2>2, <2>3, <2>6, <2>7, <2>8, <2>9
       DEF Serve, Looks
<1>14. ASSUME NEW a \in Sessions \cup Servers, SendNext(a) PROVE Members'
  <2>1. fan[a] # NoFan /\ SendAll(a, fan[a].op, Tail(fan[a].todo))
        /\ UNCHANGED <<clients, pc, server>>
    BY <1>14 DEF SendNext
  <2>2. fan[a].todo \in Seq(Sessions) /\ fan[a].todo # <<>>
    BY <2>1, FanTyped
  <2>3. IsInjective(fan[a].todo) /\ \A x \in ToSet(fan[a].todo) : server[x] = Home(a)
    BY <1>2 DEF Recipients
  <2>4. /\ Tail(fan[a].todo) \in Seq(Sessions) /\ IsInjective(Tail(fan[a].todo))
        /\ ToSet(Tail(fan[a].todo)) \subseteq ToSet(fan[a].todo)
    BY <2>2, <2>3, TailHolds
  <2>5. Recipients'
    BY <1>6, <2>1, <2>3, <2>4
  <2>6. Enlisted'
    BY <1>4, <2>1 DEF Active
  <2>7. SendsFirst'
    <3>1. ASSUME NEW y \in Sessions, pc[y] # "read" PROVE fan'[y] = NoFan
      BY <1>1, <1>9, <2>1, <3>1 DEF SendAll
    <3> QED
      BY <2>1, <3>1 DEF SendsFirst
  <2> QED
    BY <2>5, <2>6, <2>7 DEF Members
<1>15. ASSUME NEW s \in Servers, Deliver(s) PROVE Members'
  <2>1. /\ UNCHANGED fan \/ SendAll(s, Head(channel[s]), clients[s])
        /\ UNCHANGED <<clients, pc, server>>
    BY <1>15 DEF Deliver
  <2>2. Recipients'
    <3>1. /\ clients[s] \in Seq(Sessions) /\ IsInjective(clients[s])
          /\ \A x \in ToSet(clients[s]) : server[x] = Home(s)
      BY <1>1, <1>2 DEF Enlisted, Home
    <3> QED
      BY <1>5, <1>6, <2>1, <3>1
  <2>3. Enlisted'
    BY <1>4, <2>1 DEF Active
  <2>4. SendsFirst'
    <3>1. \A y \in Sessions : fan'[y] = fan[y]
      BY <1>1, <1>3, <2>1 DEF SendAll
    <3> QED
      BY <1>2, <2>1, <3>1 DEF SendsFirst
  <2> QED
    BY <2>2, <2>3, <2>4 DEF Members
<1>16. CASE UNCHANGED vars
  BY <1>8, <1>16 DEF vars, threads
<1>17. ASSUME NEW s \in Servers, LoseMessage(s) PROVE Members'
  BY <1>8, <1>17 DEF LoseMessage, threads
<1>18. ASSUME NEW id, CommitElsewhere(id) PROVE Members'
  BY <1>8, <1>18 DEF CommitElsewhere, threads
<1>19. ASSUME NEW b \in Browsers,
              \/ Disconnect(b)
              \/ \E id \in OpIds : Edit(b, id)
              \/ Receive(b)
       PROVE  Members'
  <2>1. UNCHANGED threads
    BY <1>19 DEF Disconnect, Edit, Receive, ReceiveFirstInit, ReceiveInitAgain, ReceiveOp,
                 ReceiveCatchup, ReceiveSnapshot, ReceiveError, Take
  <2> QED
    BY <1>8, <2>1 DEF threads
<1>20. ASSUME NEW b \in Browsers, NEW x \in Sessions, Connect(b, x) PROVE Members'
  BY <1>7, <1>9, <1>20 DEF Connect, Active
<1> QED
  BY <1>13, <1>14, <1>15, <1>16, <1>17, <1>18, <1>19, <1>20 DEF Next, Subscriber

-----------------------------------------------------------------------------
(* No session is sent an operation by two broadcasts.                      *)

(* The log only grows, and sessions stay where they are.                   *)
LEMMA LogKept ==
  ASSUME Typed, [Next]_vars
  PROVE  /\ log' \in Seq(OpIds) /\ Len(log) <= Len(log')
         /\ \A i \in DOMAIN log : log'[i] = log[i]
         /\ DOMAIN log \subseteq DOMAIN log' /\ ToSet(log) \subseteq ToSet(log')
         /\ server' = server
<1>1. log \in Seq(OpIds) /\ Len(log) \in Nat
  BY DEF Typed, StoreTyped
<1>2. server' = server
  BY ZenonT(40) DEF Next, Serve, Subscriber, Receive, Register, SendInit, ReadClosed,
         SnapshotContent, SnapshotRevision, CatchUpContent, CatchUpRevision,
         CatchUpOperations, CatchUpPersisted, Reply, CommitOp, CommitThrows, Acknowledge,
         MarkCommitted, Deliver, LoseMessage, SendNext, CommitElsewhere, Connect,
         Disconnect, Edit, ReceiveFirstInit, ReceiveInitAgain, ReceiveOp, ReceiveCatchup,
         ReceiveSnapshot, ReceiveError, Take, vars, threads
<1>3. log' = log \/ \E id \in OpIds : AppendToLog(id)
  <2>1. ASSUME NEW x \in Sessions, NEW kind, Reads(x, kind), kind = "op"
        PROVE  Head(inbox[x]).opId \in OpIds
    <3>1. inbox[x] \in Seq(FromBrowser(log)) /\ inbox[x] # <<>>
      BY <2>1 DEF Reads, Typed, BrowsersTyped
    <3>2. Head(inbox[x]) \in FromBrowser(log)
      BY <3>1, TailHolds
    <3> QED
      BY <2>1, <3>2 DEF Reads, FromBrowser
  <2>2. ASSUME NEW x \in Sessions, Serve(x) PROVE log' = log \/ \E id \in OpIds : AppendToLog(id)
    <3>1. CASE CommitOp(x)
      BY <2>1, <3>1 DEF CommitOp
    <3>2. CASE CommitThrows(x)
      BY <2>1, <3>2 DEF CommitThrows, store
    <3>3. CASE Looks(x)
      BY <3>3, LooksEffect
    <3>4. CASE ~CommitOp(x) /\ ~CommitThrows(x) /\ ~Looks(x)
      BY <2>2, <3>4 DEF Serve, Looks, Register, SendInit, ReadClosed,
                        Reply, Acknowledge, MarkCommitted, store
    <3> QED
      BY <3>1, <3>2, <3>3, <3>4
  <2>3. ASSUME NEW b \in Browsers,
               \/ \E x \in Sessions : Connect(b, x)
               \/ Disconnect(b)
               \/ \E id \in OpIds : Edit(b, id)
               \/ Receive(b)
        PROVE  log' = log
    BY <2>3 DEF Connect, Disconnect, Edit, Receive, ReceiveFirstInit, ReceiveInitAgain,
                ReceiveOp, ReceiveCatchup, ReceiveSnapshot, ReceiveError, Take, store
  <2>4. ASSUME NEW s \in Servers, Subscriber(s) PROVE log' = log
    BY <2>4 DEF Subscriber, Deliver, LoseMessage
  <2>5. ASSUME NEW a \in Sessions \cup Servers, SendNext(a) PROVE log' = log
    BY <2>5 DEF SendNext, store
  <2>6. ASSUME NEW id \in OpIds, CommitElsewhere(id) PROVE AppendToLog(id)
    BY <2>6 DEF CommitElsewhere
  <2>7. UNCHANGED vars => log' = log
    BY DEF vars, store
  <2> QED
    BY <2>2, <2>3, <2>4, <2>5, <2>6, <2>7 DEF Next
<1>4. /\ log' \in Seq(OpIds) /\ Len(log) <= Len(log')
      /\ \A i \in DOMAIN log : log'[i] = log[i]
  BY <1>1, <1>3, CommitTyped
<1>5. DOMAIN log \subseteq DOMAIN log'
  BY <1>1, <1>4
<1>6. ToSet(log) \subseteq ToSet(log')
  BY <1>4, <1>5 DEF ToSet
<1> QED
  BY <1>2, <1>4, <1>5, <1>6

(* What a sequence that holds nothing twice, and lacks one of t's          *)
(* elements, is shorter than.                                              *)
LEMMA Shorter ==
  ASSUME NEW T, NEW s \in Seq(T), NEW t \in Seq(T), NEW e \in ToSet(t),
         IsInjective(s), ToSet(s) \subseteq ToSet(t), e \notin ToSet(s)
  PROVE  Len(s) < Len(t)
<1> DEFINE u == Append(s, e)
           f == [i \in 1 .. Len(s) + 1 |-> CHOOSE j \in DOMAIN t : t[j] = u[i]]
<1>1. e \in T /\ Len(s) \in Nat /\ Len(t) \in Nat
  BY DEF ToSet
<1>2. /\ u \in Seq(T) /\ IsInjective(u) /\ ToSet(u) \subseteq ToSet(t)
      /\ DOMAIN u = 1 .. Len(s) + 1
  BY <1>1, AppendHolds
<1> HIDE DEF u
<1>3. \A i \in 1 .. Len(s) + 1 : f[i] \in DOMAIN t /\ t[f[i]] = u[i]
  <2> TAKE i \in 1 .. Len(s) + 1
  <2>1. u[i] \in ToSet(t)
    BY <1>2 DEF ToSet
  <2> QED
    BY <2>1 DEF ToSet
<1>4. DOMAIN f = 1 .. Len(s) + 1 /\ DOMAIN t = 1 .. Len(t)
  OBVIOUS
<1> HIDE DEF f
<1>5. f \in [1 .. Len(s) + 1 -> 1 .. Len(t)]
  <2>1. f = [i \in 1 .. Len(s) + 1 |-> f[i]]
    BY DEF f
  <2> QED
    BY <1>3, <1>4, <2>1
<1>6. IsInjective(f)
  BY <1>2, <1>3, <1>4 DEF IsInjective
<1>7. f \in Injection(1 .. Len(s) + 1, 1 .. Len(t))
  BY <1>5, <1>6 DEF Injection
<1>8. IsFiniteSet(1 .. Len(t)) /\ Cardinality(1 .. Len(t)) = Len(t)
  <2>1. 1 \in Int /\ Len(t) \in Int
    BY <1>1
  <2>2. /\ IsFiniteSet(1 .. Len(t))
        /\ Cardinality(1 .. Len(t)) = IF 1 > Len(t) THEN 0 ELSE Len(t) - 1 + 1
    BY <2>1, FS_Interval
  <2> QED
    BY <1>1, <2>2
<1>9. Cardinality(1 .. Len(s) + 1) <= Cardinality(1 .. Len(t))
  BY <1>7, <1>8, FS_Injection
<1>10. Cardinality(1 .. Len(s) + 1) = Len(s) + 1
  <2> DEFINE n == Len(s) + 1
  <2>1. 1 \in Int /\ n \in Int /\ n >= 1
    BY <1>1
  <2> HIDE DEF n
  <2>2. Cardinality(1 .. n) = IF 1 > n THEN 0 ELSE n - 1 + 1
    BY <2>1, FS_Interval
  <2>3. Cardinality(1 .. n) = n
    BY <2>1, <2>2
  <2> QED
    BY <2>3 DEF n
<1> QED
  BY <1>1, <1>8, <1>9, <1>10

(* mark_seen_op: what a server remembers then.                             *)
LEMMA MarkSeenEffect ==
  ASSUME Typed, SeenIsCommitted, NEW s \in Servers, NEW op \in Announcing(log),
         ~Seen(s, op), MarkSeen(s, op)
  PROVE  /\ op.opId \in ToSet(log) /\ op.opId \notin ToSet(seen[s])
         /\ ToSet(seen'[s]) \subseteq ToSet(seen[s]) \cup {op.opId}
         /\ \A u \in Servers : u # s => seen'[u] = seen[u]
         /\ Len(log) <= SeenLimit => ToSet(seen'[s]) = ToSet(seen[s]) \cup {op.opId}
<1> DEFINE longer == Append(seen[s], op.opId)
<1>1. log \in Seq(OpIds) /\ seen \in [Servers -> Seq(OpIds)] /\ IsInjective(seen[s])
  BY DEF Typed, StoreTyped, SeenTyped
<1>2. op.opId \in OpIds /\ op.opId \in ToSet(log) /\ op.opId \notin ToSet(seen[s])
  BY <1>1 DEF Announcing, Seen, ToSet
<1>3. /\ longer \in Seq(OpIds) /\ longer # <<>> /\ Len(longer) = Len(seen[s]) + 1
      /\ ToSet(longer) = ToSet(seen[s]) \cup {op.opId}
  BY <1>1, <1>2, AppendHolds
<1>4. /\ seen'[s] = IF Len(longer) > SeenLimit THEN Tail(longer) ELSE longer
      /\ \A u \in Servers : u # s => seen'[u] = seen[u]
  BY <1>1 DEF MarkSeen
<1>5. Len(seen[s]) < Len(log) /\ Len(seen[s]) \in Nat /\ Len(log) \in Nat
  <2>1. ToSet(seen[s]) \subseteq ToSet(log)
    BY DEF SeenIsCommitted
  <2> QED
    BY <1>1, <1>2, <2>1, Shorter
<1> HIDE DEF longer
<1>6. ToSet(Tail(longer)) \subseteq ToSet(longer)
  BY <1>3, TailHolds
<1>7. Len(log) <= SeenLimit => ~(Len(longer) > SeenLimit)
  BY <1>3, <1>5, FanoutAssumption
<1> QED
  BY <1>2, <1>3, <1>4, <1>6, <1>7

LEMMA InitOnce == Init => OnceInv
<1> SUFFICES ASSUME Init PROVE OnceInv
  OBVIOUS
<1>1. SeenIsCommitted
  BY EmptyHolds DEF Init, SeenIsCommitted
<1>2. SeenWhenSent /\ SentOnce
  BY EmptyHolds DEF Init, SeenWhenSent, SentOnce, NotSent
<1>3. FansSeen /\ FansDiffer
  BY DEF Init, FansSeen, FansDiffer
<1>4. NotSentYet
  BY EmptyHolds DEF Init, NotSentYet, NoFan
<1> QED
  BY <1>1, <1>2, <1>3, <1>4 DEF OnceInv, Once

(* Steps that begin no broadcast and send none.                            *)
LEMMA OnceKept ==
  ASSUME Typed, [Next]_vars, OnceInv, UNCHANGED <<seen, fan>>,
         \A x \in Sessions : sent'[x].broadcasts \in {sent[x].broadcasts, <<>>}
  PROVE  OnceInv'
<1>1. /\ log' \in Seq(OpIds) /\ Len(log) <= Len(log')
      /\ \A i \in DOMAIN log : i \in DOMAIN log' /\ log'[i] = log[i]
      /\ ToSet(log) \subseteq ToSet(log') /\ server' = server
  BY LogKept
<1>2. SeenIsCommitted'
  BY <1>1 DEF OnceInv, SeenIsCommitted
<1>3. ASSUME Len(log') <= SeenLimit PROVE Once'
  <2>1. Once
    <3>1. Len(log) \in Nat /\ Len(log') \in Nat
      BY <1>1 DEF Typed, StoreTyped
    <3> QED
      BY <1>1, <1>3, <3>1, FanoutAssumption DEF OnceInv
  <2>2. \A x \in Sessions : /\ ToSet(sent'[x].broadcasts) \subseteq ToSet(sent[x].broadcasts)
                            /\ IsInjective(sent[x].broadcasts) => IsInjective(sent'[x].broadcasts)
    BY EmptyHolds
  <2>3. SeenWhenSent'
    BY <1>1, <2>1, <2>2 DEF Once, SeenWhenSent
  <2>4. FansSeen' /\ FansDiffer'
    BY <1>1, <2>1 DEF Once, FansSeen, FansDiffer, Home
  <2>5. NotSentYet'
    <3>1. \A a \in Servers \cup Sessions : ToSet(fan[a].todo) \subseteq Sessions
      BY FanTyped DEF ToSet
    <3> QED
      BY <2>1, <2>2, <3>1 DEF Once, NotSentYet
  <2>6. SentOnce'
    BY <2>1, <2>2 DEF Once, SentOnce
  <2> QED
    BY <2>3, <2>4, <2>5, <2>6 DEF Once
<1> QED
  BY <1>2, <1>3 DEF OnceInv

(* broadcast() begins: what a server marks as seen now, it sent before to  *)
(* nobody.                                                                 *)
LEMMA OnceBegun ==
  ASSUME Typed, [Next]_vars, OnceInv, UNCHANGED <<log, sent>>,
         NEW a \in Servers \cup Sessions, NEW s \in Servers, s = Home(a), fan[a] = NoFan,
         NEW op \in Announcing(log), ~Seen(s, op), MarkSeen(s, op),
         NEW todo \in Seq(Sessions), \A x \in ToSet(todo) : server[x] = s,
         SendAll(a, op, todo)
  PROVE  OnceInv'
<1>1. /\ log \in Seq(OpIds) /\ server' = server /\ SeenIsCommitted
      /\ server \in [Sessions -> Servers]
      /\ fan \in [Servers \cup Sessions -> Fans(log)]
  BY LogKept DEF Typed, StoreTyped, ThreadsTyped, OnceInv
<1>2. /\ op.opId \in ToSet(log) /\ op.opId \notin ToSet(seen[s])
      /\ ToSet(seen'[s]) \subseteq ToSet(seen[s]) \cup {op.opId}
      /\ \A u \in Servers : u # s => seen'[u] = seen[u]
      /\ Len(log) <= SeenLimit => ToSet(seen'[s]) = ToSet(seen[s]) \cup {op.opId}
  BY <1>1, MarkSeenEffect
<1>3. SeenIsCommitted'
  BY <1>1, <1>2 DEF SeenIsCommitted
<1>4. /\ fan'[a].todo = todo /\ (fan'[a] # NoFan => fan'[a].op = op)
      /\ (fan'[a] = NoFan => todo = <<>>)
      /\ \A b \in Servers \cup Sessions : b # a => fan'[b] = fan[b]
  BY <1>1, SendAllEffect
<1>5. \A b \in Servers \cup Sessions : Home(b)' = Home(b) /\ Home(b) \in Servers
  BY <1>1 DEF Home
<1>6. \A f \in Announcing(log) : f.to \in DOMAIN log /\ f.opId = log[f.to]
  BY DEF Announcing
<1>7. ASSUME Len(log') <= SeenLimit PROVE Once'
  <2>1. Once /\ \A u \in Servers : ToSet(seen[u]) \subseteq ToSet(seen'[u])
    BY <1>2, <1>7 DEF OnceInv
  <2>2. op.opId \in ToSet(seen'[s])
    BY <1>2, <1>7
  <2>3. SeenWhenSent'
    BY <1>1, <2>1 DEF Once, SeenWhenSent
  <2>4. FansSeen'
    <3>1. ASSUME NEW b \in Servers \cup Sessions, fan'[b] # NoFan
          PROVE  fan'[b].op.opId \in ToSet(seen'[Home(b)])
      <4>1. CASE b = a
        BY <1>4, <2>2, <3>1, <4>1
      <4>2. CASE b # a
        BY <1>4, <1>5, <2>1, <3>1, <4>2 DEF Once, FansSeen
      <4> QED
        BY <4>1, <4>2
    <3> QED
      BY <1>5, <3>1 DEF FansSeen
  <2>5. ASSUME NEW b \in Servers \cup Sessions, b # a, fan[b] # NoFan, Home(b) = s
        PROVE  fan[b].op.to # op.to
    <3>1. fan[b].op.opId \in ToSet(seen[s])
      BY <2>1, <2>5 DEF Once, FansSeen
    <3>2. fan[b].op \in Announcing(log)
      BY <2>5, FanTyped
    <3> QED
      BY <1>2, <1>6, <3>1, <3>2
  <2>6. FansDiffer'
    <3>1. ASSUME NEW b \in Servers \cup Sessions, NEW c \in Servers \cup Sessions,
                 fan'[b] # NoFan, fan'[c] # NoFan, b # c, Home(b) = Home(c)
          PROVE  fan'[b].op.to # fan'[c].op.to
      <4>1. CASE b = a
        BY <1>4, <2>5, <3>1, <4>1
      <4>2. CASE c = a
        BY <1>4, <2>5, <3>1, <4>2
      <4>3. CASE b # a /\ c # a
        BY <1>4, <2>1, <3>1, <4>3 DEF Once, FansDiffer
      <4> QED
        BY <4>1, <4>2, <4>3
    <3> QED
      BY <1>5, <3>1 DEF FansDiffer
  <2>7. NotSentYet'
    <3>1. ASSUME NEW b \in Servers \cup Sessions, NEW x \in ToSet(fan'[b].todo)
          PROVE  fan'[b].op.to \notin ToSet(sent[x].broadcasts)
      <4>1. CASE b = a
        <5>1. x \in ToSet(todo) /\ x \in Sessions /\ server[x] = s
          BY <1>4, <3>1, <4>1 DEF ToSet
        <5>2. fan'[a].op = op
          BY <1>4, <5>1, EmptyHolds
        <5>3. ASSUME op.to \in ToSet(sent[x].broadcasts) PROVE FALSE
          <6>1. log[op.to] \in ToSet(seen[s])
            BY <2>1, <5>1, <5>3 DEF Once, SeenWhenSent
          <6> QED
            BY <1>2, <1>6, <6>1
        <5> QED
          BY <4>1, <5>2, <5>3
      <4>2. CASE b # a
        BY <1>4, <2>1, <3>1, <4>2 DEF Once, NotSentYet
      <4> QED
        BY <4>1, <4>2
    <3> QED
      BY <3>1 DEF NotSentYet
  <2>8. SentOnce'
    BY <2>1 DEF Once, SentOnce
  <2> QED
    BY <2>3, <2>4, <2>6, <2>7, <2>8 DEF Once
<1> QED
  BY <1>3, <1>7 DEF OnceInv

(* broadcast() goes on.                                                    *)
LEMMA OnceSent ==
  ASSUME Typed, Members, OnceInv, NEW a \in Servers \cup Sessions, SendNext(a)
  PROVE  OnceInv'
<1> DEFINE op == fan[a].op
           x == Head(fan[a].todo)
           rest == Tail(fan[a].todo)
<1>1. /\ fan[a] # NoFan /\ SendAll(a, op, rest)
      /\ sent' = [sent EXCEPT ![x].broadcasts = Append(@, op.to)]
      /\ UNCHANGED <<log, seen, server>>
  BY DEF SendNext, store
<1>2. /\ fan \in [Servers \cup Sessions -> Fans(log)] /\ sent \in [Sessions -> SentOf(log)]
      /\ log \in Seq(OpIds)
  BY DEF Typed, StoreTyped, ThreadsTyped, BrowsersTyped
<1>3. fan[a].todo \in Seq(Sessions) /\ fan[a].todo # <<>> /\ op \in Announcing(log)
  BY <1>1, FanTyped
<1>4. IsInjective(fan[a].todo) /\ \A y \in ToSet(fan[a].todo) : server[y] = Home(a)
  BY DEF Members, Recipients
<1>5. /\ x \in Sessions /\ x \notin ToSet(rest)
      /\ ToSet(fan[a].todo) = {x} \cup ToSet(rest)
  BY <1>3, <1>4, TailHolds
<1>6. op.to \in DOMAIN log /\ op.to \in RevsOf(log) /\ op.opId = log[op.to]
  BY <1>2, <1>3 DEF Announcing, FramesOf
<1>7. server[x] = Home(a)
  BY <1>4, <1>5
<1> HIDE DEF x, rest
<1>8. /\ fan'[a].todo = rest /\ (fan'[a] # NoFan => fan'[a].op = op)
      /\ (fan'[a] = NoFan => rest = <<>>)
      /\ \A b \in Servers \cup Sessions : b # a => fan'[b] = fan[b]
  BY <1>1, <1>2, SendAllEffect
<1>9. /\ sent'[x].broadcasts = Append(sent[x].broadcasts, op.to)
      /\ \A y \in Sessions : y # x => sent'[y] = sent[y]
      /\ sent[x].broadcasts \in Seq(RevsOf(log))
  <2>1. sent[x] \in SentOf(log)
    BY <1>2, <1>5
  <2> QED
    BY <1>1, <1>2, <1>5, <2>1 DEF SentOf
<1>10. ToSet(sent'[x].broadcasts) = ToSet(sent[x].broadcasts) \cup {op.to}
  BY <1>6, <1>9, AppendHolds
<1>11. \A b \in Servers \cup Sessions : Home(b)' = Home(b)
  BY <1>1 DEF Home
<1>12. SeenIsCommitted'
  BY <1>1 DEF OnceInv, SeenIsCommitted
<1>13. ASSUME Len(log') <= SeenLimit PROVE Once'
  <2>1. Once
    BY <1>1, <1>13 DEF OnceInv
  <2>2. op.to \notin ToSet(sent[x].broadcasts)
    BY <1>5, <2>1 DEF Once, NotSentYet
  <2>3. SentOnce'
    <3>1. IsInjective(sent'[x].broadcasts)
      BY <1>5, <1>6, <1>9, <2>1, <2>2, AppendHolds DEF Once, SentOnce
    <3> QED
      BY <1>9, <2>1, <3>1 DEF Once, SentOnce
  <2>4. SeenWhenSent'
    <3>1. log[op.to] \in ToSet(seen[server[x]])
      BY <1>1, <1>6, <1>7, <2>1 DEF Once, FansSeen
    <3>2. ASSUME NEW y \in Sessions, NEW r \in ToSet(sent'[y].broadcasts)
          PROVE  r \in DOMAIN log /\ log[r] \in ToSet(seen[server[y]])
      BY <1>6, <1>9, <1>10, <2>1, <3>1 DEF Once, SeenWhenSent
    <3> QED
      BY <1>1, <3>2 DEF SeenWhenSent
  <2>5. \A b \in Servers \cup Sessions :
          fan'[b] # NoFan => fan[b] # NoFan /\ fan'[b].op = fan[b].op
    BY <1>1, <1>8
  <2>6. FansSeen'
    BY <1>1, <1>11, <2>1, <2>5 DEF Once, FansSeen
  <2>7. FansDiffer'
    BY <1>11, <2>1, <2>5 DEF Once, FansDiffer
  <2>8. NotSentYet'
    <3>1. ASSUME NEW b \in Servers \cup Sessions, NEW y \in ToSet(fan'[b].todo)
          PROVE  fan'[b].op.to \notin ToSet(sent'[y].broadcasts)
      <4>1. y \in ToSet(fan[b].todo)
        BY <1>5, <1>8, <3>1
      <4>2. fan'[b] # NoFan
        BY <3>1, EmptyHolds DEF NoFan
      <4>3. fan[b] # NoFan /\ fan'[b].op = fan[b].op
        BY <2>5, <4>2
      <4>4. fan[b].op.to \notin ToSet(sent[y].broadcasts)
        BY <2>1, <4>1 DEF Once, NotSentYet
      <4>5. y \in Sessions
        BY <4>1, FanTyped DEF ToSet
      <4>6. CASE y # x
        BY <1>9, <4>3, <4>4, <4>5, <4>6
      <4>7. CASE y = x
        <5>1. b # a
          BY <1>5, <1>8, <3>1, <4>7
        <5>2. Home(b) = Home(a)
          BY <1>7, <4>1, <4>7 DEF Members, Recipients
        <5>3. fan[b].op.to # op.to
          BY <1>1, <2>1, <4>3, <5>1, <5>2 DEF Once, FansDiffer
        <5> QED
          BY <1>10, <4>3, <4>4, <4>7, <5>3
      <4> QED
        BY <4>6, <4>7
    <3> QED
      BY <3>1 DEF NotSentYet
  <2> QED
    BY <2>3, <2>4, <2>6, <2>7, <2>8 DEF Once
<1> QED
  BY <1>12, <1>13 DEF OnceInv

LEMMA NextOnce ==
  ASSUME Typed, Members, OnceInv, [Next]_vars
  PROVE  OnceInv'
<1>1. /\ sent \in [Sessions -> SentOf(log)] /\ server \in [Sessions -> Servers]
      /\ clients \in [Servers -> Seq(Sessions)]
      /\ channel \in [Servers -> Seq(Announcing(log))]
  BY DEF Typed, StoreTyped, ThreadsTyped, BrowsersTyped
<1>2. ASSUME UNCHANGED <<seen, fan, sent>> PROVE OnceInv'
  BY <1>2, OnceKept
<1>3. ASSUME NEW x \in Sessions, MarkCommitted(x) PROVE OnceInv'
  <2> DEFINE s == server[x]
             others == Without(clients[s], x)
  <2>1. /\ IF Seen(s, request[x]) THEN UNCHANGED <<seen, fan>>
           ELSE MarkSeen(s, request[x]) /\ SendAll(x, request[x], others)
        /\ pc[x] = "mark" /\ UNCHANGED <<log, sent>>
    BY <1>3 DEF MarkCommitted, store
  <2>2. /\ s \in Servers /\ s = Home(x) /\ fan[x] = NoFan /\ request[x] \in Announcing(log)
    BY <1>1, <2>1, FanoutAssumption
       DEF Home, Members, SendsFirst, Typed, ThreadsTyped
  <2>3. others \in Seq(Sessions) /\ ToSet(others) \subseteq ToSet(clients[s])
    BY <1>1, <2>2, WithoutHolds
  <2>4. \A y \in ToSet(others) : server[y] = s
    BY <2>2, <2>3 DEF Members, Enlisted
  <2> HIDE DEF s, others
  <2>5. CASE Seen(s, request[x])
    BY <1>2, <2>1, <2>5
  <2>6. CASE ~Seen(s, request[x])
    BY <2>1, <2>2, <2>3, <2>4, <2>6, OnceBegun
  <2> QED
    BY <2>5, <2>6
<1>4. ASSUME NEW s \in Servers, Deliver(s) PROVE OnceInv'
  <2> DEFINE op == Head(channel[s])
  <2>1. /\ IF Seen(s, op) THEN UNCHANGED <<seen, fan>>
           ELSE MarkSeen(s, op) /\ SendAll(s, op, clients[s])
        /\ fan[s] = NoFan /\ channel[s] # <<>> /\ UNCHANGED <<log, sent>>
    BY <1>4 DEF Deliver
  <2>2. op \in Announcing(log)
    BY <1>1, <2>1, TailHolds
  <2>3. s = Home(s) /\ clients[s] \in Seq(Sessions)
        /\ \A y \in ToSet(clients[s]) : server[y] = s
    BY <1>1 DEF Home, Members, Enlisted
  <2> HIDE DEF op
  <2>4. CASE Seen(s, op)
    BY <1>2, <2>1, <2>4
  <2>5. CASE ~Seen(s, op)
    BY <2>1, <2>2, <2>3, <2>5, OnceBegun
  <2> QED
    BY <2>4, <2>5
<1>5. ASSUME NEW x \in Sessions, Serve(x) PROVE OnceInv'
  <2>1. CASE SendInit(x) \/ Reply(x) \/ CommitOp(x) \/ CommitThrows(x)
    BY <1>2, <2>1 DEF SendInit, Reply, CommitOp, CommitThrows, threads
  <2>4. CASE Looks(x)
    BY <1>2, <2>4, LooksEffect
  <2>2. CASE Register(x) \/ Acknowledge(x)
    <3>3. PICK new : /\ sent' = [sent EXCEPT ![x] = new]
                     /\ new.broadcasts = sent[x].broadcasts
      <4>1. sent[x] \in SentOf(log)
        BY <1>1
      <4>2. /\ [sent[x] EXCEPT !.since = Len(log)].broadcasts = sent[x].broadcasts
            /\ [sent[x] EXCEPT !.acks = @ \cup {request[x].to}].broadcasts
                 = sent[x].broadcasts
        BY <4>1 DEF SentOf
      <4>3. \/ sent' = [sent EXCEPT ![x] = [sent[x] EXCEPT !.since = Len(log)]]
            \/ sent' = [sent EXCEPT ![x] = [sent[x] EXCEPT !.acks = @ \cup {request[x].to}]]
        BY <1>1, <2>2 DEF Register, Acknowledge
      <4> QED
        BY <4>2, <4>3
    <3>1. \A y \in Sessions : sent'[y].broadcasts = sent[y].broadcasts
      BY <1>1, <3>3
    <3>2. UNCHANGED <<seen, fan>>
      BY <2>2 DEF Register, Acknowledge
    <3> QED
      BY <3>1, <3>2, OnceKept
  <2>3. CASE ReadClosed(x)
    <3>1. \A y \in Sessions : sent'[y].broadcasts \in {sent[y].broadcasts, <<>>}
      BY <1>1, <2>3 DEF ReadClosed, NotSent
    <3>2. UNCHANGED <<seen, fan>>
      BY <2>3 DEF ReadClosed
    <3> QED
      BY <3>1, <3>2, OnceKept
  <2> QED
    BY <1>3, <1>5, <2>1, <2>2, <2>3, <2>4 DEF Serve, Looks
<1>6. ASSUME NEW a \in Sessions \cup Servers, SendNext(a) PROVE OnceInv'
  BY <1>6, OnceSent
<1>7. ASSUME NEW s \in Servers, LoseMessage(s) PROVE OnceInv'
  BY <1>2, <1>7 DEF LoseMessage, threads
<1>8. ASSUME NEW id \in OpIds, CommitElsewhere(id) PROVE OnceInv'
  BY <1>2, <1>8 DEF CommitElsewhere, threads
<1>9. ASSUME NEW b \in Browsers,
             \/ \E x \in Sessions : Connect(b, x)
             \/ Disconnect(b)
             \/ \E id \in OpIds : Edit(b, id)
             \/ Receive(b)
      PROVE  OnceInv'
  <2>1. UNCHANGED <<seen, fan, sent>>
    BY <1>9 DEF Connect, Disconnect, Edit, Receive, ReceiveFirstInit, ReceiveInitAgain,
                ReceiveOp, ReceiveCatchup, ReceiveSnapshot, ReceiveError, Take, threads
  <2> QED
    BY <1>2, <2>1
<1>10. CASE UNCHANGED vars
  BY <1>2, <1>10 DEF vars, threads
<1> QED
  BY <1>4, <1>5, <1>6, <1>7, <1>8, <1>9, <1>10 DEF Next, Subscriber

LEMMA OnceAlways == Spec => [](Typed /\ Members /\ OnceInv)
<1>1. Init => Typed /\ Members /\ OnceInv
  BY InitTyped, InitMembers, InitOnce
<1>2. Typed /\ Members /\ OnceInv /\ [Next]_vars => (Typed /\ Members /\ OnceInv)'
  BY NextTyped, NextMembers, NextOnce
<1> QED
  BY <1>1, <1>2, PTL DEF Spec

(* As long as a server remembers every operation there is, its own commits *)
(* and the echoes from Redis together send a session an operation once.    *)
THEOREM NobodyIsToldTwice == Spec => []ToldOnce
<1>1. OnceInv => ToldOnce
  BY DEF OnceInv, Once, SentOnce, ToldOnce
<1> QED
  BY <1>1, OnceAlways, PTL

-----------------------------------------------------------------------------
(* Every session is sent what it has to learn of.                          *)

LEMMA InitTold == Init => ToldInv
  BY DEF Init, ToldInv, Reaches, SeenIsCovered, MarkedIsAcked, Active

(* Steps of sessions that neither commit nor broadcast.                    *)
LEMMA ToldKept ==
  ASSUME Typed, ToldInv, UNCHANGED <<log, channel, lost, seen, fan, server>>,
         \A x \in Sessions : Active(x)' =>
           \/ sent'[x].since = Len(log)
           \/ /\ Active(x) /\ sent'[x].since = sent[x].since
              /\ sent[x].acks \subseteq sent'[x].acks
              /\ sent'[x].broadcasts = sent[x].broadcasts,
         MarkedIsAcked'
  PROVE  ToldInv'
<1>1. log \in Seq(OpIds)
  BY DEF Typed, StoreTyped
<1>2. ASSUME NEW x \in Sessions, Active(x)', NEW r \in DOMAIN log
      PROVE  Covered(x, r)' \/ (Active(x) /\ (Covered(x, r) => Covered(x, r)'))
  <2>1. CASE sent'[x].since = Len(log)
    <3>1. r <= Len(log)
      BY <1>1
    <3> QED
      BY <2>1, <3>1 DEF Covered
  <2>2. CASE sent'[x].since # Len(log)
    <3>1. /\ Active(x) /\ sent'[x].since = sent[x].since
          /\ sent[x].acks \subseteq sent'[x].acks
          /\ sent'[x].broadcasts = sent[x].broadcasts
      BY <1>2, <2>2
    <3>2. BeingSent(x, r)' = BeingSent(x, r)
      BY DEF BeingSent
    <3> QED
      BY <3>1, <3>2 DEF Covered
  <2> QED
    BY <2>1, <2>2
<1>3. \A x \in Sessions : \A r \in DOMAIN log : UnderWay(x, r)' = UnderWay(x, r)
  BY DEF UnderWay
<1>4. Reaches'
  BY <1>2, <1>3 DEF ToldInv, Reaches
<1>5. SeenIsCovered'
  BY <1>2 DEF ToldInv, SeenIsCovered
<1> QED
  BY <1>4, <1>5 DEF ToldInv

(* A commit: what it adds to the log, Redis has to deliver everywhere.     *)
LEMMA ToldCommitted ==
  ASSUME Typed, SeenIsCommitted, ToldInv, NEW id \in OpIds, AppendToLog(id),
         UNCHANGED <<lost, seen, fan, server, sent>>,
         \A x \in Sessions : Active(x)' => Active(x),
         MarkedIsAcked'
  PROVE  ToldInv'
<1>1. /\ log \in Seq(OpIds) /\ Len(log) \in Nat
      /\ channel \in [Servers -> Seq(Announcing(log))] /\ server \in [Sessions -> Servers]
  BY DEF Typed, StoreTyped, ThreadsTyped
<1>2. /\ log' \in Seq(OpIds) /\ Len(log) <= Len(log')
      /\ \A i \in DOMAIN log : log'[i] = log[i]
  BY CommitTyped
<1>3. ASSUME NEW x \in Sessions, NEW r \in DOMAIN log, Covered(x, r) PROVE Covered(x, r)'
  <2>1. BeingSent(x, r)' = BeingSent(x, r)
    BY DEF BeingSent
  <2> QED
    BY <1>3, <2>1 DEF Covered
<1>4. CASE id \in ToSet(log)
  <2>1. UNCHANGED <<log, channel>>
    BY <1>4 DEF AppendToLog, store
  <2>2. \A x \in Sessions : \A r \in DOMAIN log : UnderWay(x, r)' = UnderWay(x, r)
    BY <2>1 DEF UnderWay
  <2>3. Reaches'
    BY <1>3, <2>1, <2>2 DEF ToldInv, Reaches
  <2>4. SeenIsCovered'
    BY <1>3, <2>1 DEF ToldInv, SeenIsCovered
  <2> QED
    BY <2>3, <2>4 DEF ToldInv
<1>5. CASE id \notin ToSet(log)
  <2> DEFINE f == Frame("op", id, 0, Len(log'))
  <2>1. log' = Append(log, id) /\ channel' = [s \in Servers |-> Append(channel[s], f)]
    BY <1>5 DEF AppendToLog
  <2>2. Len(log') = Len(log) + 1 /\ log'[Len(log')] = id
    BY <1>1, <2>1
  <2>3. \A r \in DOMAIN log' : r \in DOMAIN log \/ r = Len(log')
    BY <1>1, <1>2, <2>2
  <2>4. f.to = Len(log')
    BY DEF Frame
  <2> HIDE DEF f
  <2>5. ASSUME NEW s \in Servers
        PROVE  /\ \A i \in DOMAIN channel[s] : i \in DOMAIN channel'[s] /\ channel'[s][i] = channel[s][i]
               /\ \E i \in DOMAIN channel'[s] : channel'[s][i] = f
    <3> DEFINE c == channel[s]
    <3>1. c \in Seq(Announcing(log)) /\ channel'[s] = Append(c, f)
      BY <1>1, <2>1
    <3> HIDE DEF c
    <3>2. /\ Len(c) \in Nat /\ DOMAIN c = 1 .. Len(c)
          /\ DOMAIN Append(c, f) = 1 .. Len(c) + 1
          /\ Append(c, f)[Len(c) + 1] = f
          /\ \A i \in 1 .. Len(c) : Append(c, f)[i] = c[i]
      BY <3>1
    <3>3. Len(c) + 1 \in 1 .. Len(c) + 1 /\ \A i \in 1 .. Len(c) : i \in 1 .. Len(c) + 1
      BY <3>2
    <3> QED
      BY <3>1, <3>2, <3>3 DEF c
  <2>6. Reaches'
    <3>1. ASSUME NEW x \in Sessions, NEW r \in DOMAIN log', Active(x)'
          PROVE  (Covered(x, r) \/ UnderWay(x, r))'
      <4>1. server[x] \in Servers
        BY <1>1
      <4>2. CASE r \in DOMAIN log
        <5>1. Covered(x, r) \/ UnderWay(x, r)
          BY <3>1, <4>2 DEF ToldInv, Reaches
        <5>2. UnderWay(x, r) => UnderWay(x, r)'
          BY <2>5, <4>1 DEF UnderWay
        <5> QED
          BY <1>3, <4>2, <5>1, <5>2
      <4>3. CASE r = Len(log')
        BY <2>4, <2>5, <4>1, <4>3 DEF UnderWay
      <4> QED
        BY <2>3, <4>2, <4>3
    <3> QED
      BY <3>1 DEF Reaches
  <2>7. SeenIsCovered'
    <3>1. ASSUME NEW x \in Sessions, NEW r \in DOMAIN log', Active(x)',
                 log'[r] \in ToSet(seen[server[x]])
          PROVE  Covered(x, r)'
      <4>1. log'[r] # id
        BY <1>1, <1>5, <3>1 DEF SeenIsCommitted
      <4>2. r \in DOMAIN log /\ log'[r] = log[r]
        BY <1>2, <2>2, <2>3, <4>1
      <4>3. Covered(x, r)
        BY <3>1, <4>2 DEF ToldInv, SeenIsCovered
      <4> QED
        BY <1>3, <4>2, <4>3
    <3> QED
      BY <3>1 DEF SeenIsCovered
  <2> QED
    BY <2>6, <2>7 DEF ToldInv
<1> QED
  BY <1>4, <1>5

(* broadcast() begins: whoever does not know the operation is sent it.     *)
LEMMA ToldBegun ==
  ASSUME Typed, SeenIsCommitted, ToldInv,
         UNCHANGED <<log, lost, server, sent>>,
         NEW a \in Servers \cup Sessions, NEW s \in Servers, fan[a] = NoFan,
         NEW op \in Announcing(log), ~Seen(s, op), MarkSeen(s, op),
         NEW todo, SendAll(a, op, todo),
         \A x \in Sessions : Active(x) /\ server[x] = s
                               => x \in ToSet(todo) \/ op.to \in sent[x].acks,
         \A x \in Sessions : (Active(x)' <=> Active(x)) /\ sent'[x].since = sent[x].since
  PROVE  /\ SeenIsCovered'
         /\ \A x \in Sessions : \A r \in DOMAIN log : Covered(x, r) => Covered(x, r)'
         /\ \A x \in Sessions : Active(x) /\ server[x] = s => Covered(x, op.to)'
<1>1. /\ log \in Seq(OpIds) /\ IsInjective(log) /\ server \in [Sessions -> Servers]
      /\ fan \in [Servers \cup Sessions -> Fans(log)]
  BY DEF Typed, StoreTyped, ThreadsTyped
<1>2. /\ ToSet(seen'[s]) \subseteq ToSet(seen[s]) \cup {op.opId}
      /\ \A u \in Servers : u # s => seen'[u] = seen[u]
  BY MarkSeenEffect
<1>3. /\ fan'[a].todo = todo /\ (fan'[a] # NoFan => fan'[a].op = op)
      /\ (fan'[a] = NoFan => todo = <<>>)
      /\ \A b \in Servers \cup Sessions : b # a => fan'[b] = fan[b]
  BY <1>1, SendAllEffect
<1>4. op.to \in DOMAIN log /\ op.opId = log[op.to]
  BY DEF Announcing
<1>5. ASSUME NEW x \in Sessions, NEW r \in DOMAIN log, Covered(x, r) PROVE Covered(x, r)'
  <2>1. BeingSent(x, r) => BeingSent(x, r)'
    BY <1>3 DEF BeingSent
  <2> QED
    BY <1>5, <2>1 DEF Covered
<1>6. ASSUME NEW x \in Sessions, Active(x), server[x] = s PROVE Covered(x, op.to)'
  <2>1. CASE x \in ToSet(todo)
    <3>1. fan'[a] # NoFan /\ fan'[a].op.to = op.to /\ x \in ToSet(fan'[a].todo)
      BY <1>3, <2>1, EmptyHolds
    <3>2. BeingSent(x, op.to)'
      BY <3>1 DEF BeingSent
    <3> QED
      BY <3>2 DEF Covered
  <2>2. CASE op.to \in sent[x].acks
    BY <2>2 DEF Covered
  <2> QED
    BY <1>6, <2>1, <2>2
<1>7. SeenIsCovered'
  <2>1. ASSUME NEW x \in Sessions, NEW r \in DOMAIN log, Active(x),
               log[r] \in ToSet(seen'[server[x]])
        PROVE  Covered(x, r)'
    <3>1. CASE log[r] \in ToSet(seen[server[x]])
      BY <1>5, <2>1, <3>1 DEF ToldInv, SeenIsCovered
    <3>2. CASE log[r] \notin ToSet(seen[server[x]])
      <4>1. server[x] = s /\ log[r] = op.opId
        BY <1>1, <1>2, <2>1, <3>2
      <4>2. r = op.to
        BY <1>1, <1>4, <4>1 DEF IsInjective
      <4> QED
        BY <1>6, <2>1, <4>1, <4>2
    <3> QED
      BY <3>1, <3>2
  <2> QED
    BY <2>1 DEF SeenIsCovered
<1> QED
  BY <1>5, <1>6, <1>7

(* A message leaves the channel of a subscriber: whoever it was for is     *)
(* covered.                                                                *)
LEMMA ReachesDropped ==
  ASSUME Typed, ToldInv, UNCHANGED <<log, server>>,
         NEW s \in Servers, channel[s] # <<>>, NEW op, op = Head(channel[s]),
         channel' = [channel EXCEPT ![s] = Tail(@)],
         \A x \in Sessions : Active(x)' <=> Active(x),
         \A x \in Sessions : \A r \in DOMAIN log : Covered(x, r) => Covered(x, r)',
         \A x \in Sessions : Active(x) /\ server[x] = s => Covered(x, op.to)'
  PROVE  Reaches'
<1>1. channel \in [Servers -> Seq(Announcing(log))] /\ server \in [Sessions -> Servers]
  BY DEF Typed, StoreTyped, ThreadsTyped
<1>2. \A u \in Servers : u # s => channel'[u] = channel[u]
  BY <1>1
<1> DEFINE c == channel[s]
<1>3. c \in Seq(Announcing(log)) /\ c # <<>> /\ channel'[s] = Tail(c)
  BY <1>1
<1>4. \A i \in DOMAIN c : c[i] = Head(c) \/ \E j \in DOMAIN Tail(c) : Tail(c)[j] = c[i]
  <2> HIDE DEF c
  <2>1. ToSet(c) = {Head(c)} \cup ToSet(Tail(c))
    BY <1>3, TailHolds
  <2> QED
    BY <2>1 DEF ToSet
<1> HIDE DEF c
<1>5. ASSUME NEW x \in Sessions, NEW r \in DOMAIN log, Active(x)
      PROVE  (Covered(x, r) \/ UnderWay(x, r))'
  <2>1. Covered(x, r) \/ UnderWay(x, r)
    BY <1>5 DEF ToldInv, Reaches
  <2>2. CASE Covered(x, r)
    BY <2>2
  <2>3. CASE UnderWay(x, r) /\ server[x] # s
    <3>1. server[x] \in Servers
      BY <1>1
    <3>2. UnderWay(x, r)'
      BY <1>2, <2>3, <3>1 DEF UnderWay
    <3> QED
      BY <3>2
  <2>4. CASE UnderWay(x, r) /\ server[x] = s
    <3>1. PICK i \in DOMAIN c : c[i].to = r
      BY <2>4 DEF UnderWay, c
    <3>2. CASE c[i] = Head(c)
      BY <1>5, <2>4, <3>1, <3>2 DEF c
    <3>3. CASE c[i] # Head(c)
      <4>1. PICK j \in DOMAIN Tail(c) : Tail(c)[j] = c[i]
        BY <1>4, <3>3
      <4>2. UnderWay(x, r)'
        BY <1>3, <2>4, <3>1, <4>1 DEF UnderWay
      <4> QED
        BY <4>2
    <3> QED
      BY <3>2, <3>3
  <2> QED
    BY <2>1, <2>2, <2>3, <2>4
<1> QED
  BY <1>5 DEF Reaches

(* broadcast() goes on.                                                    *)
LEMMA ToldSent ==
  ASSUME Typed, ToldInv, NEW a \in Servers \cup Sessions, SendNext(a)
  PROVE  ToldInv'
<1>1. /\ fan \in [Servers \cup Sessions -> Fans(log)] /\ sent \in [Sessions -> SentOf(log)]
      /\ log \in Seq(OpIds)
  BY DEF Typed, StoreTyped, ThreadsTyped, BrowsersTyped
<1>2. PICK op, todo : op = fan[a].op /\ todo = fan[a].todo
  OBVIOUS
<1>3. PICK x, rest : x = Head(todo) /\ rest = Tail(todo)
  OBVIOUS
<1>4. /\ fan[a] # NoFan /\ SendAll(a, op, rest)
      /\ sent' = [sent EXCEPT ![x].broadcasts = Append(@, op.to)]
      /\ UNCHANGED <<log, channel, lost, seen, pc, request, server>>
  BY <1>2, <1>3 DEF SendNext, store
<1>5. todo \in Seq(Sessions) /\ todo # <<>> /\ op.to \in RevsOf(log)
  BY <1>2, <1>4, FanTyped DEF Announcing, FramesOf
<1>6. x \in Sessions /\ ToSet(todo) = {x} \cup ToSet(rest)
  BY <1>3, <1>5, TailHolds
<1>7. /\ fan'[a].todo = rest /\ (fan'[a] # NoFan => fan'[a].op = op)
      /\ (fan'[a] = NoFan => rest = <<>>)
      /\ \A b \in Servers \cup Sessions : b # a => fan'[b] = fan[b]
  BY <1>1, <1>4, SendAllEffect
<1>8. /\ \A y \in Sessions : /\ sent'[y].since = sent[y].since /\ sent'[y].acks = sent[y].acks
                             /\ ToSet(sent[y].broadcasts) \subseteq ToSet(sent'[y].broadcasts)
      /\ op.to \in ToSet(sent'[x].broadcasts)
  <2>1. sent[x] \in SentOf(log) /\ sent[x].broadcasts \in Seq(RevsOf(log))
    BY <1>1, <1>6 DEF SentOf
  <2>2. /\ sent'[x].since = sent[x].since /\ sent'[x].acks = sent[x].acks
        /\ sent'[x].broadcasts = Append(sent[x].broadcasts, op.to)
        /\ \A y \in Sessions : y # x => sent'[y] = sent[y]
    BY <1>1, <1>4, <1>6, <2>1 DEF SentOf
  <2>3. ToSet(sent'[x].broadcasts) = ToSet(sent[x].broadcasts) \cup {op.to}
    BY <1>5, <2>1, <2>2, AppendHolds
  <2> QED
    BY <2>2, <2>3
<1>9. ASSUME NEW y \in Sessions, NEW r \in DOMAIN log, Covered(y, r) PROVE Covered(y, r)'
  <2>1. sent'[y].since = sent[y].since
    BY <1>4, <1>8
  <2>2. CASE BeingSent(y, r)
    <3>1. PICK b \in Servers \cup Sessions :
             fan[b] # NoFan /\ fan[b].op.to = r /\ y \in ToSet(fan[b].todo)
      BY <2>2 DEF BeingSent
    <3>2. CASE b # a
      <4>1. BeingSent(y, r)'
        BY <1>7, <3>1, <3>2 DEF BeingSent
      <4> QED
        BY <4>1 DEF Covered
    <3>3. CASE b = a /\ y = x
      BY <1>2, <1>8, <3>1, <3>3 DEF Covered
    <3>4. CASE b = a /\ y # x
      <4>1. y \in ToSet(rest) /\ r = op.to
        BY <1>2, <1>6, <3>1, <3>4
      <4>2. fan'[a] # NoFan /\ fan'[a].op.to = r /\ y \in ToSet(fan'[a].todo)
        BY <1>7, <4>1, EmptyHolds
      <4>3. BeingSent(y, r)'
        BY <4>2 DEF BeingSent
      <4> QED
        BY <4>3 DEF Covered
    <3> QED
      BY <3>2, <3>3, <3>4
  <2>3. CASE ~BeingSent(y, r)
    <3>1. \/ r <= sent[y].since
          \/ r \in sent[y].acks \cup ToSet(sent[y].broadcasts) \cup lost[server[y]]
      BY <1>9, <2>3 DEF Covered
    <3>2. \/ r <= sent'[y].since
          \/ r \in sent'[y].acks \cup ToSet(sent'[y].broadcasts) \cup lost'[server'[y]]
      BY <1>4, <1>8, <2>1, <3>1
    <3> QED
      BY <3>2 DEF Covered
  <2> QED
    BY <2>2, <2>3
<1>10. Reaches'
  <2>1. \A y \in Sessions : \A r \in DOMAIN log : UnderWay(y, r)' = UnderWay(y, r)
    BY <1>4 DEF UnderWay
  <2> QED
    BY <1>4, <1>9, <2>1 DEF ToldInv, Reaches, Active
<1>11. SeenIsCovered'
  BY <1>4, <1>9 DEF ToldInv, SeenIsCovered, Active
<1>12. MarkedIsAcked'
  BY <1>4, <1>8 DEF ToldInv, MarkedIsAcked
<1> QED
  BY <1>10, <1>11, <1>12 DEF ToldInv

(* mark_seen_op and broadcast_except, by the session that committed.       *)
LEMMA ToldMarked ==
  ASSUME Typed, Members, SeenIsCommitted, ToldInv, NEW x \in Sessions, MarkCommitted(x)
  PROVE  ToldInv'
<1>1. /\ clients \in [Servers -> Seq(Sessions)] /\ pc \in [Sessions -> Labels]
      /\ request \in [Sessions -> ToBrowser(log)] /\ server \in [Sessions -> Servers]
  BY DEF Typed, ThreadsTyped
<1>2. PICK s, op, others :
         s = server[x] /\ op = request[x] /\ others = Without(clients[s], x)
  OBVIOUS
<1>3. /\ pc[x] = "mark"
      /\ IF Seen(s, op) THEN UNCHANGED <<seen, fan>>
         ELSE MarkSeen(s, op) /\ SendAll(x, op, others)
      /\ pc' = [pc EXCEPT ![x] = "read"] /\ request' = [request EXCEPT ![x] = NoFrame]
      /\ UNCHANGED <<log, channel, lost, clients, server, sent>>
  BY <1>2 DEF MarkCommitted, ReadNext, Goto, store
<1>4. s \in Servers /\ op \in Announcing(log) /\ fan[x] = NoFan
  BY <1>1, <1>2, <1>3 DEF Typed, ThreadsTyped, Members, SendsFirst
<1>5. \A y \in Sessions : (Active(y)' <=> Active(y)) /\ sent'[y].since = sent[y].since
  <2>1. Active(x) /\ Active(x)' /\ sent[x].since = sent[x].since /\ sent'[x].since = sent[x].since
    BY <1>1, <1>3 DEF Active
  <2>2. \A y \in Sessions : y # x => pc'[y] = pc[y] /\ request'[y] = request[y]
    BY <1>1, <1>3
  <2> QED
    BY <1>3, <2>1, <2>2 DEF Active
<1>6. MarkedIsAcked'
  BY <1>1, <1>3 DEF ToldInv, MarkedIsAcked
<1>7. \A y \in Sessions : \A r \in DOMAIN log : UnderWay(y, r)' = UnderWay(y, r)
  BY <1>3 DEF UnderWay
<1>8. CASE Seen(s, op)
  BY <1>3, <1>5, <1>6, <1>8, ToldKept
<1>9. CASE ~Seen(s, op)
  <2>1. ASSUME NEW y \in Sessions, Active(y), server[y] = s
        PROVE  y \in ToSet(others) \/ op.to \in sent[y].acks
    <3>1. CASE y = x
      BY <1>2, <1>3, <3>1 DEF ToldInv, MarkedIsAcked
    <3>2. CASE y # x
      <4>1. y \in ToSet(clients[s])
        BY <2>1 DEF Members, Enlisted
      <4>2. ToSet(others) = ToSet(clients[s]) \ {x}
        BY <1>1, <1>2, <1>4, WithoutHolds
      <4> QED
        BY <3>2, <4>1, <4>2
    <3> QED
      BY <3>1, <3>2
  <2>2. /\ SeenIsCovered'
        /\ \A y \in Sessions : \A r \in DOMAIN log : Covered(y, r) => Covered(y, r)'
    BY <1>3, <1>4, <1>5, <1>9, <2>1, ToldBegun
  <2>3. Reaches'
    BY <1>3, <1>5, <1>7, <2>2 DEF ToldInv, Reaches
  <2> QED
    BY <1>6, <2>2, <2>3 DEF ToldInv
<1> QED
  BY <1>8, <1>9

(* subscribe_loop, for a message it gets or that passes it by.             *)
LEMMA ToldDelivered ==
  ASSUME Typed, Members, SeenIsCommitted, ToldInv, NEW s \in Servers,
         Deliver(s) \/ LoseMessage(s)
  PROVE  ToldInv'
<1>1. /\ channel \in [Servers -> Seq(Announcing(log))]
      /\ lost \in [Servers -> SUBSET RevsOf(log)] /\ server \in [Sessions -> Servers]
      /\ log \in Seq(OpIds)
  BY DEF Typed, StoreTyped, ThreadsTyped
<1>2. PICK op : op = Head(channel[s])
  OBVIOUS
<1>3. /\ channel[s] # <<>> /\ channel' = [channel EXCEPT ![s] = Tail(@)]
      /\ UNCHANGED <<log, clients, pc, request, server, sent>>
  BY DEF Deliver, LoseMessage, threads
<1>4. op \in Announcing(log)
  BY <1>1, <1>2, <1>3, TailHolds
<1>5. op.to \in DOMAIN log /\ op.opId = log[op.to]
  BY <1>4 DEF Announcing
<1>6. \A y \in Sessions : (Active(y)' <=> Active(y)) /\ sent'[y].since = sent[y].since
  BY <1>3 DEF Active
<1>7. MarkedIsAcked'
  BY <1>3 DEF ToldInv, MarkedIsAcked
<1>8. CASE Deliver(s) /\ ~Seen(s, op)
  <2>1. MarkSeen(s, op) /\ SendAll(s, op, clients[s]) /\ fan[s] = NoFan /\ lost' = lost
    BY <1>2, <1>8 DEF Deliver
  <2>2. PICK todo : todo = clients[s]
    OBVIOUS
  <2>3. \A y \in Sessions : Active(y) /\ server[y] = s => y \in ToSet(todo)
    BY <2>2 DEF Members, Enlisted
  <2>4. SendAll(s, op, todo)
    BY <2>1, <2>2
  <2>5. /\ SeenIsCovered'
        /\ \A y \in Sessions : \A r \in DOMAIN log : Covered(y, r) => Covered(y, r)'
        /\ \A y \in Sessions : Active(y) /\ server[y] = s => Covered(y, op.to)'
    BY <1>3, <1>4, <1>6, <1>8, <2>1, <2>3, <2>4, ToldBegun
  <2>6. Reaches'
    BY <1>2, <1>3, <1>6, <2>5, ReachesDropped
  <2> QED
    BY <1>7, <2>5, <2>6 DEF ToldInv
<1>9. ASSUME UNCHANGED <<seen, fan>>,
             \A u \in Servers : lost[u] \subseteq lost'[u],
             \A y \in Sessions : Active(y) /\ server[y] = s => Covered(y, op.to)'
      PROVE  ToldInv'
  <2>1. ASSUME NEW y \in Sessions, NEW r \in DOMAIN log, Covered(y, r)
        PROVE  Covered(y, r)'
    <3>1. BeingSent(y, r)' = BeingSent(y, r)
      BY <1>9 DEF BeingSent
    <3>2. server[y] \in Servers
      BY <1>1
    <3>3. \/ r <= sent'[y].since
          \/ r \in sent'[y].acks \cup ToSet(sent'[y].broadcasts) \cup lost'[server'[y]]
          \/ BeingSent(y, r)'
      BY <1>3, <1>6, <1>9, <2>1, <3>1, <3>2 DEF Covered
    <3> QED
      BY <3>3 DEF Covered
  <2>2. Reaches'
    BY <1>2, <1>3, <1>6, <1>9, <2>1, ReachesDropped
  <2>3. SeenIsCovered'
    BY <1>3, <1>6, <1>9, <2>1 DEF ToldInv, SeenIsCovered
  <2> QED
    BY <1>7, <2>2, <2>3 DEF ToldInv
<1>10. CASE Deliver(s) /\ Seen(s, op)
  <2>1. UNCHANGED <<seen, fan, lost>>
    BY <1>2, <1>10 DEF Deliver
  <2>2. ASSUME NEW y \in Sessions, Active(y), server[y] = s PROVE Covered(y, op.to)'
    <3>1. Covered(y, op.to)
      BY <1>5, <1>10, <2>2 DEF ToldInv, SeenIsCovered, Seen
    <3>2. BeingSent(y, op.to)' = BeingSent(y, op.to)
      BY <2>1 DEF BeingSent
    <3> QED
      BY <1>3, <1>6, <2>1, <3>1, <3>2 DEF Covered
  <2> QED
    BY <1>9, <2>1, <2>2
<1>11. CASE LoseMessage(s)
  <2>1. /\ lost' = [lost EXCEPT ![s] = @ \cup {op.to}] /\ UNCHANGED <<seen, fan>>
    BY <1>2, <1>11 DEF LoseMessage, threads
  <2>2. \A u \in Servers : lost[u] \subseteq lost'[u]
    BY <1>1, <2>1
  <2>3. ASSUME NEW y \in Sessions, server[y] = s PROVE Covered(y, op.to)'
    <3>1. op.to \in lost'[server'[y]]
      BY <1>1, <1>3, <2>1, <2>3
    <3> QED
      BY <3>1 DEF Covered
  <2> QED
    BY <1>9, <2>1, <2>2, <2>3
<1> QED
  BY <1>8, <1>10, <1>11


(* websocket_session, the steps that neither commit nor broadcast.         *)
LEMMA ToldServed ==
  ASSUME Typed, Members, ToldInv, NEW x \in Sessions,
         \/ Register(x) \/ Looks(x) \/ SendInit(x) \/ ReadClosed(x)
         \/ Reply(x) \/ Acknowledge(x)
  PROVE  ToldInv'
<1>1. /\ pc \in [Sessions -> Labels] /\ request \in [Sessions -> ToBrowser(log)]
      /\ sent \in [Sessions -> SentOf(log)]
  BY DEF Typed, ThreadsTyped, BrowsersTyped
<1>2. sent[x] \in SentOf(log)
  BY <1>1
<1>3. UNCHANGED <<log, channel, lost, seen, fan, server>>
  BY LooksEffect DEF Register, SendInit, ReadClosed, Reply, Acknowledge, store
<1>4. ASSUME UNCHANGED sent, NEW label, Goto(x, label), label # "mark", Active(x),
             \A y \in Sessions : y # x => request'[y] = request[y]
      PROVE  ToldInv'
  <2>1. \A y \in Sessions : y # x => pc'[y] = pc[y]
    BY <1>1, <1>4 DEF Goto
  <2>2. MarkedIsAcked'
    BY <1>1, <1>4, <2>1 DEF ToldInv, MarkedIsAcked, Goto
  <2>3. \A y \in Sessions : y # x => (Active(y)' <=> Active(y))
    BY <2>1 DEF Active
  <2> QED
    BY <1>3, <1>4, <2>2, <2>3, ToldKept
<1>5. CASE Register(x)
  <2>1. pc' = [pc EXCEPT ![x] = "content"] /\ UNCHANGED request
        /\ sent' = [sent EXCEPT ![x].since = Len(log)]
    BY <1>5 DEF Register, Goto
  <2>2. /\ pc'[x] = "content" /\ sent'[x].since = Len(log)
        /\ \A y \in Sessions : y # x => pc'[y] = pc[y] /\ sent'[y] = sent[y]
    BY <1>1, <1>2, <2>1 DEF SentOf
  <2>3. MarkedIsAcked'
    BY <2>1, <2>2 DEF ToldInv, MarkedIsAcked
  <2>4. \A y \in Sessions : y # x => (Active(y)' <=> Active(y)) /\ sent'[y] = sent[y]
    BY <2>2 DEF Active
  <2> QED
    BY <1>3, <2>2, <2>3, <2>4, ToldKept
<1>6. CASE Looks(x)
  <2>1. PICK f \in ToBrowser(log),
             label \in {"revision", "init", "behind", "operations", "persisted", "reply"} :
               request' = [request EXCEPT ![x] = f] /\ pc' = [pc EXCEPT ![x] = label]
    BY <1>6, LooksEffect
  <2>2. Active(x) /\ UNCHANGED sent
    BY <1>6, LooksEffect DEF Active
  <2> QED
    BY <1>1, <1>4, <2>1, <2>2 DEF Goto
<1>7. CASE SendInit(x) \/ Reply(x)
  <2>1. /\ Goto(x, "read") /\ UNCHANGED sent /\ Active(x)
        /\ \A y \in Sessions : y # x => request'[y] = request[y]
    BY <1>1, <1>7 DEF SendInit, Reply, ReadNext, Active
  <2> QED
    BY <1>4, <2>1
<1>9. CASE ReadClosed(x)
  <2>1. /\ pc' = [pc EXCEPT ![x] = "done"] /\ UNCHANGED request
        /\ sent' = [sent EXCEPT ![x] = NotSent]
    BY <1>9 DEF ReadClosed, Goto
  <2>2. pc'[x] = "done" /\ \A y \in Sessions : y # x => pc'[y] = pc[y] /\ sent'[y] = sent[y]
    BY <1>1, <2>1
  <2>3. ~Active(x)' /\ MarkedIsAcked'
    BY <2>1, <2>2 DEF Active, ToldInv, MarkedIsAcked
  <2>4. \A y \in Sessions : y # x => (Active(y)' <=> Active(y)) /\ sent'[y].since = sent[y].since
    BY <1>3, <2>1, <2>2 DEF Active
  <2> QED
    BY <1>3, <2>2, <2>3, <2>4, ToldKept
<1>10. CASE Acknowledge(x)
  <2>1. /\ pc[x] = "ack" /\ pc' = [pc EXCEPT ![x] = "mark"] /\ UNCHANGED request
        /\ sent' = [sent EXCEPT ![x].acks = @ \cup {request[x].to}]
    BY <1>10 DEF Acknowledge, Goto
  <2>2. /\ sent'[x].since = sent[x].since
        /\ sent'[x].acks = sent[x].acks \cup {request[x].to}
        /\ sent'[x].broadcasts = sent[x].broadcasts
        /\ \A y \in Sessions : y # x => sent'[y] = sent[y]
    BY <1>1, <1>2, <2>1 DEF SentOf
  <2>3. pc'[x] = "mark" /\ \A y \in Sessions : y # x => pc'[y] = pc[y]
    BY <1>1, <2>1
  <2>4. MarkedIsAcked'
    BY <2>1, <2>2, <2>3 DEF ToldInv, MarkedIsAcked
  <2>5. \A y \in Sessions : (Active(y)' <=> Active(y)) /\ sent'[y].since = sent[y].since
    BY <1>3, <2>1, <2>2, <2>3 DEF Active
  <2> QED
    BY <1>3, <2>2, <2>4, <2>5, ToldKept
<1> QED
  BY <1>5, <1>6, <1>7, <1>9, <1>10

(* commit(), and the commits of another server.                            *)
LEMMA ToldCommits ==
  ASSUME Typed, SeenIsCommitted, ToldInv,
         \/ \E x \in Sessions : CommitOp(x) \/ CommitThrows(x)
         \/ \E id \in OpIds : CommitElsewhere(id)
  PROVE  ToldInv'
<1>1. /\ pc \in [Sessions -> Labels] /\ request \in [Sessions -> ToBrowser(log)]
  BY DEF Typed, ThreadsTyped
<1>2. ASSUME NEW x \in Sessions, Reads(x, "op") PROVE Head(inbox[x]).opId \in OpIds
  <2>1. inbox[x] \in Seq(FromBrowser(log)) /\ inbox[x] # <<>> /\ Head(inbox[x]).kind = "op"
    BY <1>2 DEF Reads, Typed, BrowsersTyped
  <2>2. Head(inbox[x]) \in FromBrowser(log)
    BY <2>1, TailHolds
  <2> QED
    BY <2>1, <2>2 DEF FromBrowser
<1>3. ASSUME NEW id \in OpIds, AppendToLog(id),
             UNCHANGED <<lost, seen, fan, pc, request, server, sent>>
      PROVE  ToldInv'
  <2>1. \A y \in Sessions : Active(y)' <=> Active(y)
    BY <1>3 DEF Active
  <2>3. MarkedIsAcked'
    BY <1>3 DEF ToldInv, MarkedIsAcked
  <2> QED
    BY <1>3, <2>1, <2>3, ToldCommitted
<1>4. ASSUME NEW id \in OpIds, CommitElsewhere(id) PROVE ToldInv'
  BY <1>3, <1>4 DEF CommitElsewhere, threads
<1>5. ASSUME NEW x \in Sessions, CommitThrows(x) PROVE ToldInv'
  <2>1. UNCHANGED <<lost, seen, fan, pc, request, server, sent, clients>>
    BY <1>5 DEF CommitThrows, threads
  <2>2. CASE AppendToLog(Head(inbox[x]).opId)
    BY <1>2, <1>3, <1>5, <2>1, <2>2 DEF CommitThrows
  <2>3. CASE UNCHANGED store
    <3>1. UNCHANGED <<log, channel>>
      BY <2>3 DEF store
    <3>2. MarkedIsAcked'
      BY <2>1 DEF ToldInv, MarkedIsAcked
    <3>3. \A y \in Sessions : (Active(y)' <=> Active(y)) /\ sent'[y].since = sent[y].since
      BY <2>1, <3>1 DEF Active
    <3> QED
      BY <2>1, <3>1, <3>2, <3>3, ToldKept
  <2> QED
    BY <1>5, <2>2, <2>3 DEF CommitThrows
<1>6. ASSUME NEW x \in Sessions, CommitOp(x) PROVE ToldInv'
  <2>1. PICK id, f : /\ id = Head(inbox[x]).opId
                     /\ f = Frame("op", id, 0, CHOOSE r \in DOMAIN log' : log'[r] = id)
    OBVIOUS
  <2>2. /\ Reads(x, "op") /\ AppendToLog(id)
        /\ request' = [request EXCEPT ![x] = f] /\ pc' = [pc EXCEPT ![x] = "ack"]
        /\ UNCHANGED <<lost, seen, fan, server, sent>>
    BY <1>6, <2>1 DEF CommitOp, Goto
  <2>3. id \in OpIds /\ pc[x] = "read"
    BY <1>2, <2>1, <2>2 DEF Reads
  <2>4. pc'[x] = "ack" /\ \A y \in Sessions : y # x => pc'[y] = pc[y] /\ request'[y] = request[y]
    BY <1>1, <2>2
  <2>5. \A y \in Sessions : Active(y)' <=> Active(y)
    BY <2>3, <2>4 DEF Active
  <2>6. MarkedIsAcked'
    BY <2>2, <2>4 DEF ToldInv, MarkedIsAcked
  <2> QED
    BY <2>2, <2>3, <2>5, <2>6, ToldCommitted
<1> QED
  BY <1>4, <1>5, <1>6

LEMMA NextTold ==
  ASSUME Typed, Members, OnceInv, ToldInv, [Next]_vars
  PROVE  ToldInv'
<1>1. SeenIsCommitted
  BY DEF OnceInv
<1>2. ASSUME UNCHANGED <<log, channel, lost, seen, fan, pc, request, server, sent>>
      PROVE  ToldInv'
  <2>1. MarkedIsAcked'
    BY <1>2 DEF ToldInv, MarkedIsAcked
  <2>2. \A y \in Sessions : (Active(y)' <=> Active(y)) /\ sent'[y].since = sent[y].since
    BY <1>2 DEF Active
  <2> QED
    BY <1>2, <2>1, <2>2, ToldKept
<1>3. ASSUME NEW x \in Sessions, Serve(x) PROVE ToldInv'
  BY <1>1, <1>3, ToldServed, ToldCommits, ToldMarked DEF Serve, Looks
<1>4. ASSUME NEW a \in Sessions \cup Servers, SendNext(a) PROVE ToldInv'
  BY <1>4, ToldSent
<1>5. ASSUME NEW s \in Servers, Subscriber(s) PROVE ToldInv'
  BY <1>1, <1>5, ToldDelivered DEF Subscriber
<1>6. ASSUME NEW id \in OpIds, CommitElsewhere(id) PROVE ToldInv'
  BY <1>1, <1>6, ToldCommits
<1>7. ASSUME NEW b \in Browsers, NEW x \in Sessions, Connect(b, x) PROVE ToldInv'
  <2>1. /\ pc[x] = "unused" /\ pc' = [pc EXCEPT ![x] = "register"]
        /\ UNCHANGED <<log, channel, lost, seen, fan, request, server, sent>>
    BY <1>7 DEF Connect, Goto, store
  <2>2. pc \in [Sessions -> Labels]
    BY DEF Typed, ThreadsTyped
  <2>3. pc'[x] = "register" /\ \A y \in Sessions : y # x => pc'[y] = pc[y]
    BY <2>1, <2>2
  <2>4. MarkedIsAcked'
    BY <2>1, <2>3 DEF ToldInv, MarkedIsAcked
  <2>5. \A y \in Sessions : Active(y)' => Active(y) /\ sent'[y].since = sent[y].since
    BY <2>1, <2>3 DEF Active
  <2> QED
    BY <2>1, <2>4, <2>5, ToldKept
<1>8. ASSUME NEW b \in Browsers,
             \/ Disconnect(b)
             \/ \E id \in OpIds : Edit(b, id)
             \/ Receive(b)
      PROVE  ToldInv'
  <2>1. UNCHANGED <<store, lost, threads, sent>>
    BY <1>8 DEF Disconnect, Edit, Receive, ReceiveFirstInit, ReceiveInitAgain, ReceiveOp,
                ReceiveCatchup, ReceiveSnapshot, ReceiveError, Take
  <2> QED
    BY <1>2, <2>1 DEF store, threads
<1>9. CASE UNCHANGED vars
  BY <1>2, <1>9 DEF vars, store, threads
<1> QED
  BY <1>3, <1>4, <1>5, <1>6, <1>7, <1>8, <1>9 DEF Next

(* When nothing is under way, every session was sent every operation that  *)
(* was committed after it was registered, but for those whose message      *)
(* passed its server by: joining, committing, broadcasting and marking as  *)
(* seen lose none however they interleave, and no size of the set of seen  *)
(* operations makes them.                                                  *)
THEOREM EverySessionIsTold == Spec => []EveryoneIsTold
<1>1. ASSUME Typed, ToldInv PROVE EveryoneIsTold
  <2>1. SUFFICES ASSUME Quiet, NEW x \in Sessions, pc[x] = "read",
                        NEW r \in sent[x].since + 1 .. Len(log)
                 PROVE  r \in sent[x].acks \cup ToSet(sent[x].broadcasts) \cup lost[server[x]]
    BY DEF EveryoneIsTold
  <2>2. log \in Seq(OpIds) /\ sent[x].since \in RevsOf(log) /\ server[x] \in Servers
    BY <1>1 DEF Typed, StoreTyped, ThreadsTyped, BrowsersTyped, SentOf
  <2>3. r \in DOMAIN log /\ ~(r <= sent[x].since)
    BY <2>1, <2>2 DEF RevsOf
  <2>4. Active(x) /\ sent[x].since = sent[x].since
    BY <2>1 DEF Active
  <2>5. ~BeingSent(x, r)
    BY <2>1 DEF Quiet, BeingSent
  <2>6. ~UnderWay(x, r)
    <3>1. channel[server[x]] = <<>>
      BY <2>1, <2>2 DEF Quiet
    <3>2. DOMAIN channel[server[x]] = {}
      BY <3>1
    <3> QED
      BY <3>2 DEF UnderWay
  <2> QED
    BY <1>1, <2>3, <2>4, <2>5, <2>6 DEF ToldInv, Reaches, Covered
<1>2. Init => ToldInv
  BY InitTold
<1>3. Typed /\ Members /\ OnceInv /\ ToldInv /\ [Next]_vars => ToldInv'
  BY NextTold
<1>4. Typed /\ ToldInv => EveryoneIsTold
  BY <1>1
<1> QED
  BY <1>2, <1>3, <1>4, OnceAlways, PTL DEF Spec

-----------------------------------------------------------------------------
(* What a browser has when it has received the frames on its socket.       *)

(* What a browser knows of a log, its text and what was typed left aside.  *)
View(br) ==
  [hasSession |-> br.hasSession, revision |-> br.revision, base |-> br.base,
   applied |-> br.applied, orderly |-> br.orderly]
Views ==
  [hasSession: BOOLEAN, revision: Nat, base: Nat, applied: SUBSET OpIds, orderly: BOOLEAN]

(* How a frame changes that: an operation, a text that replaces the one    *)
(* shown, the operations of a catch-up.                                    *)
Learns(l, v, r, w) ==
  IF l[r] \in v.applied
  THEN w = v
  ELSE /\ w.applied = v.applied \cup {l[r]} /\ w.revision = r
       /\ w.hasSession = v.hasSession /\ w.base = v.base
       /\ w.orderly => v.orderly /\ r <= v.revision + 1 /\ r > v.base

Clears(l, v, to, w) ==
  /\ w.revision = to /\ w.base = to /\ w.applied = {}
  /\ w.orderly => \A r \in to + 1 .. Len(l) : l[r] \notin v.applied

Catches(l, v, f, w) ==
  \E u \in [0 .. Len(f.ops) -> Views] :
    /\ u[0] = v /\ u[Len(f.ops)] = w
    /\ \A i \in 1 .. Len(f.ops) : Learns(l, u[i - 1], f.ops[i], u[i])

Takes(l, v, f, w) ==
  \/ f.kind = "op" /\ Learns(l, v, f.to, w)
  \/ f.kind = "init" /\ v.hasSession /\ w = v
  \/ f.kind = "init" /\ ~v.hasSession /\ w.hasSession /\ Clears(l, v, f.to, w)
  \/ f.kind = "snapshot" /\ w.hasSession = v.hasSession /\ Clears(l, v, f.to, w)
  \/ f.kind = "catchup" /\ Catches(l, v, f, w)
  \/ f.kind \in {"none", "sync", "error"} /\ w = v

TakesAll(l, t, v, fs) ==
  t[0] = v /\ \A i \in 1 .. Len(fs) : Takes(l, t[i - 1], fs[i], t[i])
Outcome(l, v, fs, w) ==
  \E t \in [0 .. Len(fs) -> Views] : TakesAll(l, t, v, fs) /\ t[Len(fs)] = w

LEMMA OutcomeOfNone ==
  ASSUME NEW l, NEW v \in Views
  PROVE  /\ Outcome(l, v, <<>>, v)
         /\ \A w : Outcome(l, v, <<>>, w) => w = v
<1>1. Len(<<>>) = 0
  OBVIOUS
<1>2. Outcome(l, v, <<>>, v)
  <2> DEFINE t == [i \in 0 .. 0 |-> v]
  <2>1. t \in [0 .. Len(<<>>) -> Views] /\ t[0] = v
    BY <1>1
  <2>2. \A i \in 1 .. Len(<<>>) : FALSE
    BY <1>1
  <2> HIDE DEF t
  <2> QED
    BY <1>1, <2>1, <2>2 DEF Outcome, TakesAll
<1> QED
  BY <1>1, <1>2 DEF Outcome, TakesAll

(* A frame more is taken after those there were ...                        *)
LEMMA OutcomeOfMore ==
  ASSUME NEW l, NEW v \in Views, NEW F, NEW fs \in Seq(F), NEW f \in F, NEW w,
         Outcome(l, v, Append(fs, f), w)
  PROVE  w \in Views /\ \E m \in Views : Outcome(l, v, fs, m) /\ Takes(l, m, f, w)
<1> DEFINE gs == Append(fs, f)
<1>1. /\ Len(fs) \in Nat /\ Len(gs) = Len(fs) + 1 /\ gs[Len(gs)] = f
      /\ \A i \in 1 .. Len(fs) : gs[i] = fs[i]
  OBVIOUS
<1>2. PICK t \in [0 .. Len(gs) -> Views] : TakesAll(l, t, v, gs) /\ t[Len(gs)] = w
  BY DEF Outcome
<1> HIDE DEF gs
<1> DEFINE m == t[Len(fs)]
           s == [i \in 0 .. Len(fs) |-> t[i]]
<1>3. m \in Views /\ w \in Views
  BY <1>1, <1>2
<1>4. s \in [0 .. Len(fs) -> Views] /\ \A i \in 0 .. Len(fs) : s[i] = t[i]
  BY <1>1, <1>2
<1>5. Takes(l, m, f, w)
  <2>1. Len(gs) \in 1 .. Len(gs) /\ Len(gs) - 1 = Len(fs)
    BY <1>1
  <2> QED
    BY <1>1, <1>2, <2>1 DEF TakesAll
<1>6. TakesAll(l, s, v, fs)
  <2>1. \A i \in 1 .. Len(fs) : i \in 1 .. Len(gs) /\ i - 1 \in 0 .. Len(fs) /\ i \in 0 .. Len(fs)
    BY <1>1
  <2>2. 0 \in 0 .. Len(fs)
    BY <1>1
  <2> HIDE DEF s
  <2> QED
    BY <1>1, <1>2, <1>4, <2>1, <2>2 DEF TakesAll
<1>7. s[Len(fs)] = m
  BY <1>1, <1>4
<1> HIDE DEF s, m
<1> QED
  BY <1>3, <1>4, <1>5, <1>6, <1>7 DEF Outcome

(* ... and the first before the others.                                    *)
LEMMA OutcomeOfFirst ==
  ASSUME NEW l, NEW v \in Views, NEW F, NEW fs \in Seq(F), fs # <<>>, NEW m \in Views,
         Takes(l, v, Head(fs), m), NEW w, Outcome(l, m, Tail(fs), w)
  PROVE  Outcome(l, v, fs, w)
<1> DEFINE n == Len(fs)
<1>1. /\ n \in Nat \ {0} /\ Len(Tail(fs)) = n - 1 /\ Head(fs) = fs[1]
      /\ \A i \in 1 .. n - 1 : Tail(fs)[i] = fs[i + 1]
  OBVIOUS
<1>2. PICK t \in [0 .. n - 1 -> Views] : TakesAll(l, t, m, Tail(fs)) /\ t[n - 1] = w
  BY <1>1 DEF Outcome
<1> DEFINE s == [i \in 0 .. n |-> IF i = 0 THEN v ELSE t[i - 1]]
<1>3. \A i \in 0 .. n : i = 0 \/ i - 1 \in 0 .. n - 1
  BY <1>1
<1>4. s \in [0 .. n -> Views]
  BY <1>2, <1>3
<1>5. s[0] = v /\ s[n] = w /\ \A i \in 1 .. n : s[i] = t[i - 1]
  BY <1>1, <1>2
<1>6. ASSUME NEW i \in 1 .. n PROVE Takes(l, s[i - 1], fs[i], s[i])
  <2>1. CASE i = 1
    <3>1. s[i - 1] = v /\ s[i] = m
      <4>1. i - 1 = 0 /\ 1 \in 1 .. n /\ 1 - 1 = 0 /\ t[0] = m
        BY <1>1, <1>2, <2>1 DEF TakesAll
      <4> HIDE DEF s
      <4> QED
        BY <1>5, <2>1, <4>1
    <3> HIDE DEF s
    <3> QED
      BY <1>1, <2>1, <3>1
  <2>2. CASE i # 1
    <3>1. PICK j : j = i - 1
      OBVIOUS
    <3>2. j \in 1 .. n - 1 /\ j \in 1 .. n /\ i = j + 1
      BY <1>1, <1>6, <2>2, <3>1
    <3>3. s[i - 1] = t[j - 1] /\ s[i] = t[j]
      <4> HIDE DEF s
      <4> QED
        BY <1>5, <3>1, <3>2
    <3>4. Takes(l, t[j - 1], Tail(fs)[j], t[j]) /\ Tail(fs)[j] = fs[i]
      BY <1>1, <1>2, <3>2 DEF TakesAll
    <3> HIDE DEF s
    <3> QED
      BY <3>3, <3>4
  <2> QED
    BY <2>1, <2>2
<1> HIDE DEF s
<1> QED
  BY <1>4, <1>5, <1>6 DEF Outcome, TakesAll

(* What frames of a log do, they do not lose when the log grows.           *)
LEMMA OutcomeGrows ==
  ASSUME NEW l \in Seq(OpIds), NEW k \in Seq(OpIds),
         Len(l) <= Len(k), \A i \in DOMAIN l : k[i] = l[i],
         NEW v \in Views, NEW fs \in Seq(ToBrowser(l)), NEW w, Outcome(k, v, fs, w)
  PROVE  Outcome(l, v, fs, w)
<1>1. Len(l) \in Nat /\ DOMAIN l = 1 .. Len(l) /\ Len(k) \in Nat
  OBVIOUS
<1>2. ASSUME NEW a, NEW b, NEW r \in DOMAIN l, Learns(k, a, r, b)
      PROVE  Learns(l, a, r, b)
  BY <1>2 DEF Learns
<1>3. ASSUME NEW a, NEW b, NEW to \in Nat, Clears(k, a, to, b)
      PROVE  Clears(l, a, to, b)
  <2>1. \A r \in to + 1 .. Len(l) : r \in to + 1 .. Len(k) /\ r \in DOMAIN l
    BY <1>1
  <2> QED
    BY <1>3, <2>1 DEF Clears
<1>4. ASSUME NEW f \in ToBrowser(l), NEW a, NEW b, Takes(k, a, f, b)
      PROVE  Takes(l, a, f, b)
  <2>1. f.from \in 0 .. Len(l) /\ f.to \in 0 .. Len(l) /\ (f.kind = "op" => f.to \in DOMAIN l)
    BY DEF ToBrowser, FramesOf, RevsOf, Announcing
  <2>2. f.to \in Nat
    BY <1>1, <2>1
  <2>3. Catches(k, a, f, b) => Catches(l, a, f, b)
    <3>1. \A i \in 1 .. Len(f.ops) : f.ops[i] \in DOMAIN l
      BY DEF ToBrowser
    <3> QED
      BY <1>2, <3>1 DEF Catches
  <2> QED
    BY <1>2, <1>3, <1>4, <2>1, <2>2, <2>3 DEF Takes
<1>5. PICK t \in [0 .. Len(fs) -> Views] : TakesAll(k, t, v, fs) /\ t[Len(fs)] = w
  BY DEF Outcome
<1>6. \A i \in 1 .. Len(fs) : fs[i] \in ToBrowser(l)
  OBVIOUS
<1>7. TakesAll(l, t, v, fs)
  BY <1>4, <1>5, <1>6 DEF TakesAll
<1> QED
  BY <1>5, <1>7 DEF Outcome

-----------------------------------------------------------------------------
(* What holds of what a browser will know then: of the log l, with its     *)
(* session at p, working on q, having sent s and yet to read in.           *)

Joining == {"register", "content", "revision", "init"}

Unsent(s, r) == r \notin s.acks \cup ToSet(s.broadcasts)

(* A revision that EveryoneIsTold has sent.                                *)
Due(p, s, r) == p \notin Joining /\ r > s.since /\ Unsent(s, r)

(* It asked for what it does not know, or the answer is being made.        *)
Asked(p, q, in, v) ==
  \/ \E f \in ToSet(in) : f.kind = "sync" /\ f.from <= v.revision
  \/ p \in {"behind", "operations"} /\ q.from <= v.revision

Answered(p, q, v, r) ==
  /\ p = "reply"
  /\ \/ q.kind = "snapshot"
     \/ q.kind = "catchup" /\ r \in ToSet(q.ops)

(* What counts as applied is in the text, unless revisions were skipped,   *)
(* and all that came into it since it was taken over is.                   *)
Known(l, v) ==
  /\ v.applied \subseteq ToSet(l) /\ v.revision <= Len(l)
  /\ v.orderly => \A r \in DOMAIN l : l[r] \in v.applied => r <= v.revision
  /\ v.orderly => \A r \in v.base + 1 .. v.revision : l[r] \in v.applied

(* Its first text is on its way, or while it joins again its request is.   *)
Welcome(p, q, in, v) ==
  /\ ~v.hasSession => p \in Joining
  /\ v.hasSession /\ v.orderly /\ p \in Joining => Asked(p, q, in, v)

(* A text that is going to be sent: the operations after it were received  *)
(* since the last one, or are still to be sent.                            *)
Renewing(p, q, v) ==
  \/ p = "init" /\ ~v.hasSession
  \/ p = "reply" /\ q.kind = "snapshot"
Renewed(l, p, q, s, v) ==
  Renewing(p, q, v) =>
    \A r \in q.to + 1 .. Len(l) : l[r] \in v.applied \/ Unsent(s, r)

Covers(l, p, q, s, in, v) ==
  v.hasSession /\ v.orderly =>
    \A r \in v.revision + 1 .. Len(l) : Due(p, s, r) \/ Asked(p, q, in, v) \/ Answered(p, q, v, r)

Good(l, p, q, s, in, v) ==
  Known(l, v) /\ Welcome(p, q, in, v) /\ Renewed(l, p, q, s, v) /\ Covers(l, p, q, s, in, v)

(* What was asked for stays asked for when the revision gets higher.       *)
LEMMA AskedStill ==
  ASSUME NEW l, NEW in \in Seq(FromBrowser(l)), NEW q \in FramesOf(l), Len(l) \in Nat,
         NEW v \in Views, NEW w \in Views, v.revision <= w.revision, NEW p, NEW r
  PROVE  /\ Asked(p, q, in, v) => Asked(p, q, in, w)
         /\ Answered(p, q, v, r) => Answered(p, q, w, r)
<1>1. v.revision \in Nat /\ w.revision \in Nat /\ q.from \in Nat
  BY DEF Views, FramesOf, RevsOf
<1>2. \A f \in ToSet(in) : f.from \in Nat
  BY DEF ToSet, FromBrowser, FramesOf, RevsOf
<1> QED
  BY <1>1, <1>2 DEF Asked, Answered

LEMMA LearnsKnown ==
  ASSUME NEW l \in Seq(OpIds), IsInjective(l), NEW to \in DOMAIN l,
         NEW v \in Views, Known(l, v), NEW w \in Views, Learns(l, v, to, w)
  PROVE  /\ Known(l, w) /\ w.hasSession = v.hasSession
         /\ v.applied \subseteq w.applied /\ l[to] \in w.applied
         /\ w.orderly => v.orderly /\ v.revision <= w.revision /\ to <= w.revision
         /\ w.orderly /\ l[to] \notin v.applied => to = v.revision + 1
<1>1. to \in 1 .. Len(l) /\ DOMAIN l = 1 .. Len(l) /\ Len(l) \in Nat /\ l[to] \in ToSet(l)
  BY DEF ToSet
<1>2. v.revision \in Nat /\ w.revision \in Nat /\ v.base \in Nat
  BY DEF Views
<1>3. \A r \in DOMAIN l : l[r] = l[to] => r = to
  BY DEF IsInjective
<1>4. CASE l[to] \in v.applied
  BY <1>1, <1>2, <1>4 DEF Learns, Known
<1>5. CASE l[to] \notin v.applied
  <2>1. /\ w.applied = v.applied \cup {l[to]} /\ w.revision = to
        /\ w.hasSession = v.hasSession /\ w.base = v.base
        /\ w.orderly => v.orderly /\ to <= v.revision + 1 /\ to > v.base
    BY <1>5 DEF Learns
  <2>2. ASSUME w.orderly PROVE to = v.revision + 1
    <3>1. to \notin v.base + 1 .. v.revision
      BY <1>5, <2>1, <2>2 DEF Known
    <3> QED
      BY <1>1, <1>2, <2>1, <2>2, <3>1
  <2>3. w.applied \subseteq ToSet(l) /\ w.revision <= Len(l)
    BY <1>1, <2>1 DEF Known
  <2>4. ASSUME w.orderly, NEW r \in DOMAIN l, l[r] \in w.applied PROVE r <= w.revision
    <3>1. CASE l[r] = l[to]
      BY <1>1, <1>3, <2>1, <3>1
    <3>2. CASE l[r] \in v.applied
      BY <1>1, <1>2, <2>1, <2>4, <2>2, <3>2 DEF Known
    <3> QED
      BY <2>1, <2>4, <3>1, <3>2
  <2>5. ASSUME w.orderly, NEW r \in w.base + 1 .. w.revision PROVE l[r] \in w.applied
    <3>1. r = to \/ r \in v.base + 1 .. v.revision
      BY <1>1, <1>2, <2>1, <2>2, <2>5
    <3>2. r \in v.base + 1 .. v.revision => l[r] \in v.applied
      BY <2>1, <2>5 DEF Known
    <3> QED
      BY <2>1, <3>1, <3>2
  <2> QED
    BY <1>1, <1>2, <1>5, <2>1, <2>3, <2>4, <2>2, <2>5 DEF Known
<1> QED
  BY <1>4, <1>5

(* An operation is received: an acknowledgement or a broadcast.            *)
LEMMA GoodLearns ==
  ASSUME NEW l \in Seq(OpIds), IsInjective(l), NEW to \in DOMAIN l,
         NEW p, NEW q \in FramesOf(l), NEW s, NEW in \in Seq(FromBrowser(l)),
         NEW v \in Views, Good(l, p, q, s, in, v),
         NEW w \in Views, Learns(l, v, to, w),
         NEW p2, p2 = p \/ (p = "ack" /\ p2 = "mark"),
         NEW s2, s2.since = s.since,
         \A r : Unsent(s2, r) <=> Unsent(s, r) /\ r # to
  PROVE  Good(l, p2, q, s2, in, w)
<1>1. /\ Known(l, w) /\ w.hasSession = v.hasSession
      /\ v.applied \subseteq w.applied /\ l[to] \in w.applied
      /\ w.orderly => v.orderly /\ v.revision <= w.revision /\ to <= w.revision
  BY LearnsKnown DEF Good
<1>2. /\ Len(l) \in Nat /\ to \in 1 .. Len(l)
      /\ v.revision \in Nat /\ w.revision \in Nat
  BY DEF Views
<1>3. ASSUME w.orderly
      PROVE  /\ Asked(p, q, in, v) => Asked(p2, q, in, w)
             /\ \A r : Answered(p, q, v, r) => Answered(p2, q, w, r)
  <2>1. Asked(p, q, in, v) => Asked(p, q, in, w)
    BY <1>1, <1>2, <1>3, AskedStill
  <2>2. \A r : Answered(p, q, v, r) => Answered(p, q, w, r)
    BY <1>1, <1>2, <1>3, AskedStill
  <2> QED
    BY <2>1, <2>2 DEF Asked, Answered
<1>4. Welcome(p2, q, in, w)
  BY <1>1, <1>3 DEF Good, Welcome, Joining
<1>5. Renewed(l, p2, q, s2, w)
  <2>1. SUFFICES ASSUME Renewing(p2, q, w), NEW r \in q.to + 1 .. Len(l)
                 PROVE  l[r] \in w.applied \/ Unsent(s2, r)
    BY DEF Renewed
  <2>2. Renewing(p, q, v)
    BY <1>1, <2>1 DEF Renewing
  <2>3. l[r] \in v.applied \/ Unsent(s, r)
    BY <2>1, <2>2 DEF Good, Renewed
  <2> QED
    BY <1>1, <2>3
<1>6. Covers(l, p2, q, s2, in, w)
  <2>1. SUFFICES ASSUME w.hasSession, w.orderly, NEW r \in w.revision + 1 .. Len(l)
                 PROVE  Due(p2, s2, r) \/ Asked(p2, q, in, w) \/ Answered(p2, q, w, r)
    BY DEF Covers
  <2>2. r \in v.revision + 1 .. Len(l) /\ r # to
    BY <1>1, <1>2, <2>1
  <2>3. Due(p, s, r) \/ Asked(p, q, in, v) \/ Answered(p, q, v, r)
    BY <1>1, <2>1, <2>2 DEF Good, Covers
  <2>4. Due(p, s, r) => Due(p2, s2, r)
    BY <2>2 DEF Due, Joining
  <2> QED
    BY <1>3, <2>1, <2>3, <2>4
<1> QED
  BY <1>1, <1>4, <1>5, <1>6 DEF Good

(* The operations of a catch-up are.                                       *)
LEMMA GoodCatches ==
  ASSUME NEW l \in Seq(OpIds), IsInjective(l),
         NEW q \in ToBrowser(l), q.kind = "catchup", NEW s, NEW in \in Seq(FromBrowser(l)),
         NEW v \in Views, Good(l, "reply", q, s, in, v),
         NEW w \in Views, Catches(l, v, q, w), NEW q2
  PROVE  Good(l, "read", q2, s, in, w)
<1>1. /\ Len(l) \in Nat /\ DOMAIN l = 1 .. Len(l)
      /\ v.revision \in Nat /\ w.revision \in Nat
      /\ q \in FramesOf(l) /\ q.ops \in Seq(DOMAIN l)
  BY DEF Views, ToBrowser
<1> DEFINE n == Len(q.ops)
<1>2. PICK u \in [0 .. n -> Views] :
        u[0] = v /\ u[n] = w /\ \A i \in 1 .. n : Learns(l, u[i - 1], q.ops[i], u[i])
  BY DEF Catches
<1>3. /\ n \in Nat /\ \A i \in 1 .. n : q.ops[i] \in DOMAIN l /\ i - 1 \in 0 .. n /\ i \in 0 .. n
      /\ 0 \in 0 .. n /\ n \in 0 .. n /\ DOMAIN q.ops = 1 .. n
  BY <1>1
<1> HIDE DEF n
<1> DEFINE Part(i) ==
             /\ Known(l, u[i]) /\ u[i].hasSession = v.hasSession
             /\ v.applied \subseteq u[i].applied
             /\ u[i].orderly =>
                  /\ v.orderly /\ v.revision <= u[i].revision
                  /\ \A j \in 1 .. i : q.ops[j] <= u[i].revision
           S == { i \in 0 .. n : Part(i) }
<1>4. 0 \in S
  BY <1>1, <1>2, <1>3 DEF Good
<1>5. ASSUME NEW i \in 1 .. n, i - 1 \in S PROVE i \in S
  <2>1. PICK a, b, r : a = u[i - 1] /\ b = u[i] /\ r = q.ops[i]
    OBVIOUS
  <2>2. a \in Views /\ b \in Views /\ r \in DOMAIN l /\ Learns(l, a, r, b) /\ Known(l, a)
    BY <1>2, <1>3, <1>5, <2>1
  <2>3. /\ Known(l, b) /\ b.hasSession = a.hasSession /\ a.applied \subseteq b.applied
        /\ b.orderly => a.orderly /\ a.revision <= b.revision /\ r <= b.revision
    BY <2>2, LearnsKnown
  <2>4. a.revision \in Nat /\ b.revision \in Nat
    BY <2>2 DEF Views
  <2>6. /\ i \in Nat /\ \A j \in 1 .. i : j \in 1 .. n /\ (j = i \/ j \in 1 .. i - 1)
    BY <1>3
  <2>7. \A j \in 1 .. n : q.ops[j] \in Nat
    BY <1>1, <1>3
  <2>8. ASSUME b.orderly, NEW j \in 1 .. i PROVE q.ops[j] <= b.revision
    <3>1. CASE j = i
      BY <2>1, <2>3, <2>8, <3>1
    <3>2. CASE j # i
      <4>1. j \in 1 .. i - 1 /\ a.orderly
        BY <2>3, <2>6, <2>8, <3>2
      <4>2. q.ops[j] <= a.revision
        BY <1>5, <2>1, <4>1
      <4> QED
        BY <2>3, <2>4, <2>6, <2>7, <2>8, <4>2
    <3> QED
      BY <3>1, <3>2
  <2>5. Part(i)
    BY <1>1, <1>5, <2>1, <2>3, <2>4, <2>8
  <2> QED
    BY <1>3, <2>5
<1>6. Part(n)
  <2> HIDE DEF Part
  <2>1. n \in S
    <3> HIDE DEF S
    <3>1. \A i \in 0 .. n : i \in S
      BY <1>3, <1>4, <1>5, UpTo
    <3> QED
      BY <1>3, <3>1
  <2> QED
    BY <2>1
<1>7. /\ Known(l, w) /\ w.hasSession = v.hasSession /\ v.applied \subseteq w.applied
      /\ w.orderly =>
           /\ v.orderly /\ v.revision <= w.revision
           /\ \A r \in ToSet(q.ops) : r <= w.revision
  BY <1>1, <1>2, <1>3, <1>6 DEF ToSet
<1>8. Welcome("read", q2, in, w)
  BY <1>7 DEF Good, Welcome, Joining
<1>9. Renewed(l, "read", q2, s, w)
  BY DEF Renewed, Renewing
<1>10. Covers(l, "read", q2, s, in, w)
  <2>1. SUFFICES ASSUME w.hasSession, w.orderly, NEW r \in w.revision + 1 .. Len(l)
                 PROVE  Due("read", s, r) \/ Asked("read", q2, in, w)
    BY DEF Covers
  <2>2. r \in v.revision + 1 .. Len(l)
    BY <1>1, <1>7, <2>1
  <2>3. Due("reply", s, r) \/ Asked("reply", q, in, v) \/ Answered("reply", q, v, r)
    BY <1>7, <2>1, <2>2 DEF Good, Covers
  <2>4. Asked("reply", q, in, v) => Asked("reply", q, in, w)
    BY <1>1, <1>7, <2>1, AskedStill
  <2>5. ~Answered("reply", q, v, r)
    BY <1>1, <1>7, <2>1 DEF Answered
  <2> QED
    BY <2>3, <2>4, <2>5 DEF Due, Asked, Joining
<1> QED
  BY <1>7, <1>8, <1>9, <1>10 DEF Good

(* A text is: the first one of a session, or that of a snapshot.           *)
LEMMA GoodClears ==
  ASSUME NEW l \in Seq(OpIds), NEW p, NEW q \in FramesOf(l), NEW s, NEW in,
         NEW v \in Views, Good(l, p, q, s, in, v), Renewing(p, q, v),
         NEW w \in Views, Clears(l, v, q.to, w), p = "init" => w.hasSession,
         p = "reply" => w.hasSession = v.hasSession,
         NEW s2, s2.since \in Nat, s2.since <= q.to, \A r : Unsent(s2, r) <=> Unsent(s, r), NEW q2
  PROVE  Good(l, "read", q2, s2, in, w)
<1>1. Len(l) \in Nat /\ q.to \in 0 .. Len(l)
  BY DEF FramesOf, RevsOf
<1>2. w.hasSession
  BY DEF Renewing, Good, Welcome, Joining
<1>3. Known(l, w) /\ Welcome("read", q2, in, w) /\ Renewed(l, "read", q2, s2, w)
  BY <1>1, <1>2 DEF Clears, Known, Welcome, Renewed, Renewing, Joining
<1>4. Covers(l, "read", q2, s2, in, w)
  <2>1. SUFFICES ASSUME w.orderly, NEW r \in q.to + 1 .. Len(l) PROVE Due("read", s2, r)
    BY DEF Covers, Clears
  <2>2. l[r] \notin v.applied
    BY <2>1 DEF Clears
  <2>3. Unsent(s, r)
    BY <2>1, <2>2 DEF Good, Renewed
  <2>4. r > s2.since
    BY <1>1, <2>1
  <2> QED
    BY <2>3, <2>4 DEF Due, Joining
<1> QED
  BY <1>3, <1>4 DEF Good

(* The session's first message, to a browser that had a session before.    *)
LEMMA GoodJoins ==
  ASSUME NEW l, NEW q, NEW s, NEW in, NEW v \in Views, Good(l, "init", q, s, in, v),
         v.hasSession, NEW s2, NEW q2
  PROVE  Good(l, "read", q2, s2, in, v)
<1>1. v.orderly => Asked("read", q2, in, v)
  BY DEF Good, Welcome, Asked, Joining
<1> QED
  BY <1>1 DEF Good, Welcome, Joining, Renewed, Renewing, Covers

(* The log grows.                                                          *)
LEMMA GoodGrows ==
  ASSUME NEW l \in Seq(OpIds), NEW k \in Seq(OpIds), IsInjective(k),
         Len(l) <= Len(k), \A i \in DOMAIN l : k[i] = l[i],
         NEW p, NEW q \in FramesOf(l), NEW s \in SentOf(l), NEW in,
         NEW v \in Views, Good(l, p, q, s, in, v)
  PROVE  Good(k, p, q, s, in, v)
<1>1. /\ Len(l) \in Nat /\ Len(k) \in Nat /\ DOMAIN l = 1 .. Len(l) /\ DOMAIN k = 1 .. Len(k)
      /\ v.revision \in Nat /\ v.base \in Nat /\ q.to \in Nat
  BY DEF Views, FramesOf, RevsOf
<1>2. ASSUME NEW r \in DOMAIN k, r \notin DOMAIN l
      PROVE  Unsent(s, r) /\ r > s.since /\ k[r] \notin v.applied
  <2>1. r > Len(l)
    BY <1>1, <1>2
  <2>2. s.since \in 0 .. Len(l) /\ s.acks \subseteq 0 .. Len(l) /\ s.broadcasts \in Seq(0 .. Len(l))
    BY DEF SentOf, RevsOf
  <2>3. r > s.since /\ r \notin 0 .. Len(l)
    BY <1>1, <2>1, <2>2
  <2>4. ToSet(s.broadcasts) \subseteq 0 .. Len(l)
    BY <2>2 DEF ToSet
  <2>5. k[r] \notin ToSet(l)
    <3>1. \A i \in DOMAIN l : i \in DOMAIN k /\ k[i] # k[r]
      BY <1>1, <1>2 DEF IsInjective
    <3> QED
      BY <3>1 DEF ToSet
  <2> QED
    BY <2>2, <2>3, <2>4, <2>5 DEF Unsent, Good, Known
<1>3. Known(k, v)
  <2>1. ToSet(l) \subseteq ToSet(k)
    <3>1. \A i \in DOMAIN l : i \in DOMAIN k
      BY <1>1
    <3> QED
      BY <3>1 DEF ToSet
  <2>2. v.applied \subseteq ToSet(k) /\ v.revision <= Len(k)
    BY <1>1, <2>1 DEF Good, Known
  <2>3. ASSUME v.orderly, NEW r \in DOMAIN k, k[r] \in v.applied PROVE r <= v.revision
    <3>1. r \in DOMAIN l /\ l[r] = k[r]
      BY <1>2, <2>3
    <3> QED
      BY <2>3, <3>1 DEF Good, Known
  <2>4. ASSUME v.orderly, NEW r \in v.base + 1 .. v.revision PROVE k[r] \in v.applied
    <3>1. r \in DOMAIN l /\ l[r] \in v.applied
      BY <1>1, <2>4 DEF Good, Known
    <3> QED
      BY <3>1
  <2> QED
    BY <2>2, <2>3, <2>4 DEF Known
<1>4. Renewed(k, p, q, s, v)
  <2>1. SUFFICES ASSUME Renewing(p, q, v), NEW r \in q.to + 1 .. Len(k)
                 PROVE  k[r] \in v.applied \/ Unsent(s, r)
    BY DEF Renewed
  <2>2. CASE r \in DOMAIN l
    <3>1. r \in q.to + 1 .. Len(l)
      BY <1>1, <2>1, <2>2
    <3> QED
      BY <2>1, <2>2, <3>1 DEF Good, Renewed
  <2>3. CASE r \in DOMAIN k /\ r \notin DOMAIN l
    BY <1>2, <2>3
  <2>4. r \in DOMAIN k
    BY <1>1, <2>1
  <2> QED
    BY <2>2, <2>3, <2>4
<1>5. Covers(k, p, q, s, in, v)
  <2>1. SUFFICES ASSUME v.hasSession, v.orderly, NEW r \in v.revision + 1 .. Len(k)
                 PROVE  Due(p, s, r) \/ Asked(p, q, in, v) \/ Answered(p, q, v, r)
    BY DEF Covers
  <2>2. CASE r \in DOMAIN l
    <3>1. r \in v.revision + 1 .. Len(l)
      BY <1>1, <2>1, <2>2
    <3> QED
      BY <2>1, <3>1 DEF Good, Covers
  <2>3. CASE r \notin DOMAIN l
    <3>1. r \in DOMAIN k
      BY <1>1, <2>1
    <3>2. Unsent(s, r) /\ r > s.since
      BY <1>2, <2>3, <3>1
    <3> QED
      BY <2>1, <3>2 DEF Good, Welcome, Due
  <2> QED
    BY <2>2, <2>3
<1> QED
  BY <1>3, <1>4, <1>5 DEF Good

(* The session goes on, or gets more to read.                              *)
LEMMA GoodMoves ==
  ASSUME NEW l \in Seq(OpIds), NEW p, NEW q, NEW s, NEW in, NEW v, Good(l, p, q, s, in, v),
         NEW p2, NEW q2, NEW in2, p2 \in Joining <=> p \in Joining,
         Renewing(p2, q2, v) => q2.to = Len(l) \/ (Renewing(p, q, v) /\ q2 = q),
         p2 \in Joining /\ Asked(p, q, in, v) => Asked(p2, q2, in2, v),
         \A r \in v.revision + 1 .. Len(l) : Asked(p, q, in, v) \/ Answered(p, q, v, r) =>
           Asked(p2, q2, in2, v) \/ Answered(p2, q2, v, r)
  PROVE  Good(l, p2, q2, s, in2, v)
<1>1. Known(l, v) /\ Welcome(p2, q2, in2, v)
  BY DEF Good, Welcome
<1>2. Renewed(l, p2, q2, s, v)
  <2>1. CASE Renewing(p2, q2, v) /\ q2.to = Len(l)
    <3>1. Len(l) + 1 .. Len(l) = {}
      OBVIOUS
    <3> QED
      BY <2>1, <3>1 DEF Renewed
  <2> QED
    BY <2>1 DEF Good, Renewed
<1>3. Covers(l, p2, q2, s, in2, v)
  BY DEF Good, Covers, Due
<1> QED
  BY <1>1, <1>2, <1>3 DEF Good

-----------------------------------------------------------------------------
(* What a browser shows and keeps.                                         *)

ShownOf(br) ==
  /\ Known(log, View(br))
  /\ br.orderly => br.text = SubSeq(log, 1, br.revision)

(* What was typed is committed or pending, nothing before the first text.  *)
KeptOf(br) ==
  /\ ~br.hasSession => br.pending = <<>> /\ br.edited = {}
  /\ ~br.cleared => br.edited \subseteq ToSet(log) \cup ToSet(br.pending)

(* Neither the connection changes nor what was typed.                      *)
SameUser(w, br) ==
  /\ w.session = br.session /\ w.enabled = br.enabled /\ w.hasSession = br.hasSession
  /\ w.edited = br.edited /\ w.cleared = br.cleared

LEMMA NothingHeld ==
  ASSUME NEW T, NEW s \in Seq(T), ToSet(s) = {}
  PROVE  s = <<>>
<1>1. Len(s) \in Nat /\ DOMAIN s = 1 .. Len(s)
  OBVIOUS
<1>2. ASSUME Len(s) # 0 PROVE FALSE
  <2>1. 1 \in DOMAIN s
    BY <1>1, <1>2
  <2> QED
    BY <2>1 DEF ToSet
<1> QED
  BY <1>2

LEMMA ViewTyped ==
  ASSUME NEW l \in Seq(OpIds), NEW br \in BrowsersOf(l)
  PROVE  View(br) \in Views
<1>1. Len(l) \in Nat
  OBVIOUS
<1> QED
  BY <1>1 DEF View, Views, BrowsersOf, RevsOf

(* receiveOp is what an operation does to a view; an orderly browser goes  *)
(* on to show the first operations of the log.                             *)
LEMMA ReceivedShown ==
  ASSUME log \in Seq(OpIds), IsInjective(log), NEW br \in BrowsersOf(log), NEW rev \in DOMAIN log
  PROVE  /\ Learns(log, View(br), rev, View(Received(br, rev)))
         /\ ShownOf(br) => ShownOf(Received(br, rev))
         /\ KeptOf(br) => KeptOf(Received(br, rev))
         /\ ToSet(Received(br, rev).pending) = ToSet(br.pending) \ {log[rev]}
         /\ SameUser(Received(br, rev), br)
<1> DEFINE w == Received(br, rev)
           id == log[rev]
<1>1. /\ Len(log) \in Nat /\ rev \in 1 .. Len(log) /\ id \in OpIds /\ id \in ToSet(log)
      /\ br.revision \in 0 .. Len(log) /\ br.pending \in Seq(OpIds) /\ br.applied \subseteq OpIds
  BY DEF BrowsersOf, RevsOf, ToSet
<1>2. PICK rest \in Seq(OpIds) : rest = Without(br.pending, id) /\ ToSet(rest) = ToSet(br.pending) \ {id}
  BY <1>1, WithoutHolds
<1>3. w = IF id \in br.applied
          THEN [br EXCEPT !.pending = rest]
          ELSE [br EXCEPT !.pending = rest, !.applied = @ \cup {id}, !.revision = rev,
                          !.text = Append(@, id),
                          !.orderly = @ /\ rev <= br.revision + 1 /\ rev > br.base]
  BY <1>2 DEF Received, News
<1>4. w \in BrowsersOf(log) /\ View(br) \in Views /\ View(w) \in Views
  BY ReceivedTyped, ViewTyped
<1> HIDE DEF w
<1>5. /\ w.pending = rest /\ w.session = br.session /\ w.enabled = br.enabled
      /\ w.hasSession = br.hasSession /\ w.edited = br.edited /\ w.cleared = br.cleared
  BY <1>3 DEF BrowsersOf
<1>6. ASSUME id \in br.applied
      PROVE  Learns(log, View(br), rev, View(w)) /\ (ShownOf(br) => ShownOf(w))
  <2>1. View(w) = View(br) /\ w.text = br.text /\ w.orderly = br.orderly /\ w.revision = br.revision
    BY <1>3, <1>6 DEF View, BrowsersOf
  <2>2. Learns(log, View(br), rev, View(w))
    BY <1>6, <2>1 DEF Learns, View
  <2>3. ShownOf(br) => ShownOf(w)
    BY <2>1 DEF ShownOf
  <2> QED
    BY <2>2, <2>3
<1>7. ASSUME id \notin br.applied
      PROVE  Learns(log, View(br), rev, View(w)) /\ (ShownOf(br) => ShownOf(w))
  <2>1. /\ w.applied = br.applied \cup {id} /\ w.revision = rev /\ w.text = Append(br.text, id)
        /\ w.orderly = (br.orderly /\ rev <= br.revision + 1 /\ rev > br.base)
        /\ w.base = br.base
    BY <1>3, <1>7 DEF BrowsersOf
  <2>2. Learns(log, View(br), rev, View(w))
    BY <1>5, <1>7, <2>1 DEF Learns, View
  <2>3. ASSUME ShownOf(br) PROVE ShownOf(w)
    <3>1. Known(log, View(w))
      BY <1>4, <2>2, <2>3, LearnsKnown DEF ShownOf
    <3>2. ASSUME w.orderly PROVE w.text = SubSeq(log, 1, w.revision)
      <4>1. Known(log, View(br)) /\ View(w).orderly /\ log[rev] \notin View(br).applied
        BY <1>7, <2>3, <3>2 DEF ShownOf, View
      <4>2. rev = View(br).revision + 1
        BY <1>4, <2>2, <4>1, LearnsKnown
      <4>3. br.text = SubSeq(log, 1, br.revision) /\ rev = br.revision + 1
        BY <2>1, <2>3, <3>2, <4>2 DEF ShownOf, View
      <4>4. Append(SubSeq(log, 1, rev - 1), log[rev]) = SubSeq(log, 1, rev)
        BY <1>1
      <4>5. br.revision = rev - 1
        BY <1>1, <4>3
      <4>6. br.text = SubSeq(log, 1, rev - 1)
        BY <4>3, <4>5
      <4> QED
        BY <2>1, <4>4, <4>6
    <3> QED
      BY <3>1, <3>2 DEF ShownOf
  <2> QED
    BY <2>2, <2>3
<1>8. ASSUME KeptOf(br) PROVE KeptOf(w)
  <2>1. ~br.hasSession => rest = <<>>
    <3>1. ASSUME ~br.hasSession PROVE ToSet(rest) = {}
      <4>1. br.pending = <<>>
        BY <1>8, <3>1 DEF KeptOf
      <4> QED
        BY <1>2, <4>1, EmptyHolds
    <3> QED
      BY <3>1, NothingHeld
  <2>2. ~br.cleared => br.edited \subseteq ToSet(log) \cup ToSet(rest)
    BY <1>1, <1>2, <1>8 DEF KeptOf
  <2> QED
    BY <1>5, <1>8, <2>1, <2>2 DEF KeptOf
<1>9. SameUser(w, br)
  BY <1>5 DEF SameUser
<1> QED
  BY <1>2, <1>5, <1>6, <1>7, <1>8, <1>9 DEF w

(* applyCatchup, before flushPending, is what a catch-up does to a view.   *)
LEMMA CatchupShown ==
  ASSUME log \in Seq(OpIds), IsInjective(log), NEW br \in BrowsersOf(log),
         NEW f \in ToBrowser(log), NEW w, w = CaughtUp(br, f.ops)
  PROVE  /\ w \in BrowsersOf(log)
         /\ Catches(log, View(br), f, View(w))
         /\ ShownOf(br) => ShownOf(w)
         /\ KeptOf(br) => KeptOf(w)
         /\ w.session = br.session /\ w.enabled = br.enabled /\ w.hasSession = br.hasSession
<1> DEFINE n == Len(f.ops)
<1>1. f.ops \in Seq(DOMAIN log)
  BY DEF ToBrowser
<1>2. n \in Nat /\ \A i \in 1 .. n : f.ops[i] \in DOMAIN log /\ i - 1 \in 0 .. n /\ i \in 0 .. n
  BY <1>1
<1>3. PICK t \in [0 .. n -> BrowsersOf(log)] :
        t[0] = br /\ t[n] = w /\ \A i \in 1 .. n : t[i] = Received(t[i - 1], f.ops[i])
  BY <1>1, CatchupRuns
<1> HIDE DEF n
<1>4. 0 \in 0 .. n /\ n \in 0 .. n
  BY <1>2
<1>5. Catches(log, View(br), f, View(w))
  <2> DEFINE u == [i \in 0 .. n |-> View(t[i])]
  <2>1. u \in [0 .. n -> Views]
    BY <1>3, ViewTyped
  <2>2. u[0] = View(br) /\ u[n] = View(w)
    BY <1>3, <1>4
  <2>3. ASSUME NEW i \in 1 .. n PROVE Learns(log, u[i - 1], f.ops[i], u[i])
    <3>1. t[i - 1] \in BrowsersOf(log) /\ t[i] = Received(t[i - 1], f.ops[i])
      BY <1>2, <1>3
    <3>2. Learns(log, View(t[i - 1]), f.ops[i], View(t[i]))
      BY <1>2, <3>1, ReceivedShown
    <3>3. u[i - 1] = View(t[i - 1]) /\ u[i] = View(t[i])
      BY <1>2
    <3> QED
      BY <3>2, <3>3
  <2> HIDE DEF u
  <2> QED
    BY <2>1, <2>2, <2>3 DEF Catches, n
<1>6. \A i \in 0 .. n :
        /\ ShownOf(br) => ShownOf(t[i])
        /\ KeptOf(br) => KeptOf(t[i])
        /\ t[i].session = br.session /\ t[i].enabled = br.enabled /\ t[i].hasSession = br.hasSession
  <2> DEFINE Part(i) ==
        /\ ShownOf(br) => ShownOf(t[i])
        /\ KeptOf(br) => KeptOf(t[i])
        /\ t[i].session = br.session /\ t[i].enabled = br.enabled /\ t[i].hasSession = br.hasSession
      S == { i \in 0 .. n : Part(i) }
  <2>1. 0 \in S
    BY <1>3, <1>4
  <2>2. ASSUME NEW i \in 1 .. n, i - 1 \in S PROVE i \in S
    <3>1. PICK a, c, r : a = t[i - 1] /\ c = t[i] /\ r = f.ops[i]
      OBVIOUS
    <3>2. a \in BrowsersOf(log) /\ r \in DOMAIN log /\ c = Received(a, r)
      BY <1>2, <1>3, <3>1
    <3>3. /\ ShownOf(a) => ShownOf(c)
          /\ KeptOf(a) => KeptOf(c)
          /\ SameUser(c, a)
      BY <3>2, ReceivedShown
    <3>4. c.session = a.session /\ c.enabled = a.enabled /\ c.hasSession = a.hasSession
      BY <3>3 DEF SameUser
    <3>5. Part(i - 1)
      BY <2>2
    <3>6. Part(i)
      BY <3>1, <3>3, <3>4, <3>5
    <3> QED
      BY <1>2, <3>6
  <2> HIDE DEF S
  <2>3. \A i \in 0 .. n : i \in S
    BY <1>2, <2>1, <2>2, UpTo
  <2> QED
    BY <2>3 DEF S
<1> QED
  BY <1>3, <1>4, <1>5, <1>6

(* A text taken over.                                                      *)
LEMMA ResetShown ==
  ASSUME log \in Seq(OpIds), NEW br \in BrowsersOf(log), NEW f,
         f.from \in RevsOf(log), f.to \in RevsOf(log)
  PROVE  /\ Reset(br, f) \in BrowsersOf(log)
         /\ Clears(log, View(br), f.to, View(Reset(br, f)))
         /\ ShownOf(Reset(br, f))
         /\ Reset(br, f).pending = <<>>
         /\ SameUser(Reset(br, f), br)
<1>0. PICK to : to = f.to
  OBVIOUS
<1> DEFINE w == Reset(br, f)
           Later == SubSeq(log, to + 1, Len(log))
<1>1. Len(log) \in Nat /\ to \in 0 .. Len(log) /\ f.from \in 0 .. Len(log) /\ DOMAIN log = 1 .. Len(log)
  BY <1>0 DEF RevsOf
<1>2. SubSeq(log, 1, f.from) \in Seq(OpIds) /\ \A i \in 1 .. Len(log) : log[i] \in OpIds
  BY <1>1
<1>3. \A r \in to + 1 .. Len(log) : log[r] \in ToSet(Later)
  <2>1. ASSUME NEW r \in to + 1 .. Len(log) PROVE log[r] \in ToSet(Later)
    <3>1. r - to \in DOMAIN Later /\ Later[r - to] = log[r]
      BY <1>1
    <3> QED
      BY <3>1 DEF ToSet
  <2> QED
    BY <2>1
<1>4. /\ w.revision = to /\ w.base = to
      /\ w.text = SubSeq(log, 1, f.from) /\ w.pending = <<>> /\ w.applied = {}
      /\ w.orderly = (f.from = f.to /\ br.applied \cap ToSet(Later) = {})
      /\ w.session = br.session /\ w.enabled = br.enabled
      /\ w.hasSession = br.hasSession /\ w.edited = br.edited /\ w.cleared = br.cleared
      /\ w \in BrowsersOf(log)
  <2>1. PICK o, te : o = (f.from = f.to /\ br.applied \cap ToSet(Later) = {}) /\ te = SubSeq(log, 1, f.from)
    OBVIOUS
  <2>2. o \in BOOLEAN /\ te \in Seq(OpIds)
    BY <1>2, <2>1
  <2>3. w = [br EXCEPT !.revision = to, !.text = te, !.pending = <<>>, !.applied = {},
                       !.base = to, !.orderly = o]
    BY <1>0, <2>1 DEF Reset
  <2> HIDE DEF w, Later
  <2>4. /\ w.revision = to /\ w.base = to /\ w.text = te /\ w.pending = <<>> /\ w.applied = {}
        /\ w.orderly = o /\ w.session = br.session /\ w.enabled = br.enabled
        /\ w.hasSession = br.hasSession /\ w.edited = br.edited /\ w.cleared = br.cleared
    BY <2>3 DEF BrowsersOf
  <2>5. w \in BrowsersOf(log)
    <3>1. {} \in SUBSET OpIds /\ <<>> \in Seq(OpIds)
      OBVIOUS
    <3>2. br \in BrowsersOf(log) /\ DOMAIN w = DOMAIN br
      BY <2>3
    <3>3. PICK no \in SUBSET OpIds, e \in Seq(OpIds) : no = {} /\ e = <<>>
      BY <3>1
    <3>4. w = [br EXCEPT !.revision = to, !.text = te, !.pending = e, !.applied = no,
                         !.base = to, !.orderly = o]
      BY <2>3, <3>3
    <3>5. to \in RevsOf(log)
      BY <1>0
    <3> QED
      BY <2>2, <3>4, <3>5 DEF BrowsersOf
  <2> QED
    BY <2>1, <2>4, <2>5
<1> HIDE DEF w, Later
<1>5. Clears(log, View(br), f.to, View(w))
  BY <1>0, <1>3, <1>4 DEF Clears, View
<1>6. ShownOf(w)
  <2>1. Known(log, View(w))
    BY <1>1, <1>4 DEF Known, View
  <2>2. w.orderly => w.text = SubSeq(log, 1, w.revision)
    BY <1>0, <1>4
  <2> QED
    BY <2>1, <2>2 DEF ShownOf
<1>7. SameUser(w, br)
  BY <1>4 DEF SameUser
<1> QED
  BY <1>4, <1>5, <1>6, <1>7 DEF w

-----------------------------------------------------------------------------
(* Sessions and browsers.                                                  *)

(* A session has one browser, which was never another's; it runs while the *)
(* browser is connected, and only then has frames for it.                  *)
Sole ==
  /\ \A b, c \in Browsers :
       browser[b].session = browser[c].session /\ b # c => browser[b].session = NoSession
  /\ \A b \in Browsers :
       browser[b].session # NoSession => pc[browser[b].session] \notin {"unused", "done"}
  /\ \A x \in Sessions : ~Connected(x) => socket[x] = <<>>
  /\ \A b \in Browsers :
       browser[b].enabled => browser[b].session # NoSession /\ browser[b].hasSession

(* The frame a session is about to send: while no call of the store fails, *)
(* no error, and no text older than the session.                           *)
Answer0(p, q, s) ==
  /\ p = "init" => s.since <= q.to
  /\ p = "reply" => q.kind # "error"
  /\ p = "reply" /\ q.kind = "snapshot" => s.since <= q.to

Answers ==
  \A x \in Sessions :
    /\ pc[x] = "init" => request[x].kind = "init"
    /\ pc[x] = "reply" => request[x].kind \in {"catchup", "snapshot", "error"}
    /\ failures = 0 => Answer0(pc[x], request[x], sent[x])

(* While none fails, the browser will know of all that its session does not*)
(* still owe it.                                                           *)
ShowsTo(b) ==
  LET x == browser[b].session
  IN  x # NoSession /\ failures = 0 =>
        \A v \in Views : Outcome(log, View(browser[b]), socket[x], v) =>
                           Good(log, pc[x], request[x], sent[x], inbox[x], v)

(* The operation is on its way to the log, or what settles it on its way   *)
(* to the browser.                                                         *)
Resends(f, id) == f.kind = "sync" \/ (f.kind = "op" /\ f.opId = id)
Settles(f, id) == f.kind \in {"catchup", "snapshot"} \/ (f.kind = "op" /\ f.opId = id)

Carried(x, id) ==
  \/ \E f \in ToSet(inbox[x]) : Resends(f, id)
  \/ pc[x] \in {"behind", "operations", "persisted", "reply"}
  \/ pc[x] = "ack" /\ request[x].opId = id
  \/ \E f \in ToSet(socket[x]) : Settles(f, id)

CarriedFor(b) ==
  failures = 0 /\ browser[b].enabled =>
    \A id \in ToSet(browser[b].pending) : Carried(browser[b].session, id)

BrowsersInv ==
  /\ Sole /\ Answers
  /\ \A b \in Browsers :
       ShownOf(browser[b]) /\ KeptOf(browser[b]) /\ ShowsTo(b) /\ CarriedFor(b)

Longer == Len(log) <= Len(log') /\ \A i \in DOMAIN log : log'[i] = log[i]

LEMMA SendEffect ==
  ASSUME NEW F, socket \in [Sessions -> Seq(F)], NEW x \in Sessions, NEW f, Send(x, f)
  PROVE  /\ \A y \in Sessions : y # x => socket'[y] = socket[y]
         /\ socket'[x] = IF Connected(x) THEN Append(socket[x], f) ELSE socket[x]
  BY DEF Send

LEMMA SessionOf ==
  ASSUME Typed, NEW b \in Browsers, browser[b].session # NoSession
  PROVE  browser[b].session \in Sessions /\ Connected(browser[b].session)
<1>1. browser[b] \in BrowsersOf(log)
  BY DEF Typed, BrowsersTyped
<1> QED
  BY <1>1 DEF BrowsersOf, Connected

(* What is typed of a session and its browser.                             *)
LEMMA TypedFor ==
  ASSUME Typed
  PROVE  /\ log \in Seq(OpIds) /\ IsInjective(log) /\ Len(log) \in Nat
         /\ \A x \in Sessions :
              /\ request[x] \in ToBrowser(log) /\ request[x] \in FramesOf(log)
              /\ sent[x] \in SentOf(log)
              /\ inbox[x] \in Seq(FromBrowser(log)) /\ socket[x] \in Seq(ToBrowser(log))
         /\ \A b \in Browsers : browser[b] \in BrowsersOf(log) /\ View(browser[b]) \in Views
<1>1. log \in Seq(OpIds) /\ IsInjective(log) /\ Len(log) \in Nat
  BY DEF Typed, StoreTyped
<1>2. \A b \in Browsers : browser[b] \in BrowsersOf(log)
  BY DEF Typed, BrowsersTyped
<1>3. \A b \in Browsers : View(browser[b]) \in Views
  BY <1>1, <1>2, ViewTyped
<1>4. \A f \in ToBrowser(log) : f \in FramesOf(log)
  BY DEF ToBrowser
<1> QED
  BY <1>1, <1>2, <1>3, <1>4 DEF Typed, ThreadsTyped, BrowsersTyped

(* The session gets more to read.                                          *)
LEMMA GoodReads ==
  ASSUME NEW l \in Seq(OpIds), NEW p, NEW q, NEW s, NEW in, NEW v, Good(l, p, q, s, in, v),
         NEW in2, ToSet(in) \subseteq ToSet(in2)
  PROVE  Good(l, p, q, s, in2, v)
<1>1. Asked(p, q, in, v) => Asked(p, q, in2, v)
  BY DEF Asked
<1>2. Welcome(p, q, in2, v)
  BY <1>1 DEF Good, Welcome
<1>3. Covers(l, p, q, s, in2, v)
  BY <1>1 DEF Good, Covers
<1> QED
  BY <1>2, <1>3 DEF Good

-----------------------------------------------------------------------------
(* What a step does to one browser: nothing is sent to it, ...             *)
LEMMA ShowsMoves ==
  ASSUME Typed, Typed', Longer, failures' = 0 => failures = 0, NEW b \in Browsers, ShowsTo(b),
         View(browser'[b]) = View(browser[b]), NEW x, x = browser[b].session,
         browser'[b].session = x,
         x # NoSession =>
           /\ socket'[x] = socket[x]
           /\ \A v \in Views :
                Good(log', pc[x], request[x], sent[x], inbox[x], v) =>
                  Good(log', pc'[x], request'[x], sent'[x], inbox'[x], v)
  PROVE  ShowsTo(b)'
<1>1. SUFFICES ASSUME x # NoSession, failures' = 0, NEW v \in Views,
                      Outcome(log', View(browser[b]), socket[x], v)
               PROVE  Good(log', pc'[x], request'[x], sent'[x], inbox'[x], v)
  BY DEF ShowsTo
<1>2. x \in Sessions
  BY <1>1, SessionOf
<1>3. /\ log \in Seq(OpIds) /\ request[x] \in FramesOf(log) /\ sent[x] \in SentOf(log)
      /\ socket[x] \in Seq(ToBrowser(log)) /\ View(browser[b]) \in Views
  BY <1>2, TypedFor
<1>4. log' \in Seq(OpIds) /\ IsInjective(log')
  BY DEF Typed, StoreTyped
<1>5. Outcome(log, View(browser[b]), socket[x], v)
  BY <1>1, <1>3, <1>4, OutcomeGrows DEF Longer
<1>6. Good(log, pc[x], request[x], sent[x], inbox[x], v)
  BY <1>1, <1>5 DEF ShowsTo
<1>7. Good(log', pc[x], request[x], sent[x], inbox[x], v)
  BY <1>3, <1>4, <1>6, GoodGrows DEF Longer
<1> QED
  BY <1>1, <1>7

(* ... a frame is, ...                                                     *)
LEMMA ShowsSent ==
  ASSUME Typed, Typed', Longer, failures' = 0 => failures = 0, NEW b \in Browsers, ShowsTo(b),
         browser'[b] = browser[b], NEW x, x = browser[b].session, x # NoSession,
         NEW f \in ToBrowser(log'), socket'[x] = Append(socket[x], f),
         \A v, w \in Views :
           Good(log', pc[x], request[x], sent[x], inbox[x], v) /\ Takes(log', v, f, w) =>
             Good(log', pc'[x], request'[x], sent'[x], inbox'[x], w)
  PROVE  ShowsTo(b)'
<1>1. SUFFICES ASSUME failures' = 0, NEW w \in Views, Outcome(log', View(browser[b]), socket'[x], w)
               PROVE  Good(log', pc'[x], request'[x], sent'[x], inbox'[x], w)
  BY DEF ShowsTo
<1>2. x \in Sessions
  BY SessionOf
<1>3. /\ log \in Seq(OpIds) /\ request[x] \in FramesOf(log) /\ sent[x] \in SentOf(log)
      /\ socket[x] \in Seq(ToBrowser(log)) /\ View(browser[b]) \in Views
  BY <1>2, TypedFor
<1>4. log' \in Seq(OpIds) /\ IsInjective(log')
  BY DEF Typed, StoreTyped
<1>5. socket[x] \in Seq(ToBrowser(log'))
  <2>1. ToBrowser(log) \subseteq ToBrowser(log')
    BY <1>3, <1>4, LogGrows DEF Longer
  <2> QED
    BY <1>3, <2>1, SeqMonotonic
<1>6. PICK m \in Views : Outcome(log', View(browser[b]), socket[x], m) /\ Takes(log', m, f, w)
  BY <1>1, <1>3, <1>5, OutcomeOfMore
<1>7. Outcome(log, View(browser[b]), socket[x], m)
  BY <1>3, <1>4, <1>6, OutcomeGrows DEF Longer
<1>8. Good(log, pc[x], request[x], sent[x], inbox[x], m)
  BY <1>1, <1>7 DEF ShowsTo
<1>9. Good(log', pc[x], request[x], sent[x], inbox[x], m)
  BY <1>3, <1>4, <1>8, GoodGrows DEF Longer
<1> QED
  BY <1>6, <1>9

(* ... or it takes one.                                                    *)
LEMMA ShowsTaken ==
  ASSUME Typed, Typed', NEW b \in Browsers, ShowsTo(b),
         NEW x, x = browser[b].session, x # NoSession, browser'[b].session = x,
         socket[x] # <<>>, socket'[x] = Tail(socket[x]),
         Takes(log, View(browser[b]), Head(socket[x]), View(browser'[b])),
         UNCHANGED <<log, failures, pc, request, sent>>,
         ToSet(inbox[x]) \subseteq ToSet(inbox'[x])
  PROVE  ShowsTo(b)'
<1>1. SUFFICES ASSUME failures = 0, NEW v \in Views, Outcome(log, View(browser'[b]), Tail(socket[x]), v)
               PROVE  Good(log, pc[x], request[x], sent[x], inbox'[x], v)
  BY DEF ShowsTo
<1>2. x \in Sessions
  BY SessionOf
<1>3. socket[x] \in Seq(ToBrowser(log)) /\ View(browser[b]) \in Views
  BY <1>2, TypedFor
<1>4. View(browser'[b]) \in Views
  BY ViewTyped DEF Typed, StoreTyped, BrowsersTyped
<1>5. Outcome(log, View(browser[b]), socket[x], v)
  BY <1>1, <1>3, <1>4, OutcomeOfFirst
<1>6. Good(log, pc[x], request[x], sent[x], inbox[x], v)
  BY <1>1, <1>5 DEF ShowsTo
<1>7. log \in Seq(OpIds)
  BY TypedFor
<1> QED
  BY <1>6, <1>7, GoodReads

(* The session goes on.                                                    *)
LEMMA SessionMoves ==
  ASSUME Typed, Typed', Longer, failures' = 0 => failures = 0, NEW b \in Browsers, ShowsTo(b),
         View(browser'[b]) = View(browser[b]), NEW x, x = browser[b].session,
         browser'[b].session = x, x # NoSession,
         socket'[x] = socket[x], sent'[x] = sent[x],
         pc'[x] \in Joining <=> pc[x] \in Joining,
         \A v \in Views :
           /\ Renewing(pc'[x], request'[x], v) =>
                \/ request'[x].to = Len(log')
                \/ Renewing(pc[x], request[x], v) /\ request'[x] = request[x]
           /\ pc'[x] \in Joining /\ Asked(pc[x], request[x], inbox[x], v)
                => Asked(pc'[x], request'[x], inbox'[x], v)
           /\ \A r \in v.revision + 1 .. Len(log') :
                Asked(pc[x], request[x], inbox[x], v) \/ Answered(pc[x], request[x], v, r) =>
                  Asked(pc'[x], request'[x], inbox'[x], v) \/ Answered(pc'[x], request'[x], v, r)
  PROVE  ShowsTo(b)'
<1>1. log' \in Seq(OpIds)
  BY DEF Typed, StoreTyped
<1>2. ASSUME NEW v \in Views, Good(log', pc[x], request[x], sent[x], inbox[x], v)
      PROVE  Good(log', pc'[x], request'[x], sent'[x], inbox'[x], v)
  <2> DEFINE p == pc[x]  p2 == pc'[x]  q == request[x]  q2 == request'[x]
             in == inbox[x]  in2 == inbox'[x]
  <2>1. /\ Good(log', p, q, sent[x], in, v) /\ (p2 \in Joining <=> p \in Joining)
        /\ Renewing(p2, q2, v) => q2.to = Len(log') \/ (Renewing(p, q, v) /\ q2 = q)
        /\ p2 \in Joining /\ Asked(p, q, in, v) => Asked(p2, q2, in2, v)
        /\ \A r \in v.revision + 1 .. Len(log') :
             Asked(p, q, in, v) \/ Answered(p, q, v, r) =>
               Asked(p2, q2, in2, v) \/ Answered(p2, q2, v, r)
    BY <1>2
  <2> HIDE DEF p, p2, q, q2, in, in2
  <2>2. Good(log', p2, q2, sent[x], in2, v)
    BY <1>1, <2>1, GoodMoves
  <2> QED
    BY <2>2 DEF p2, q2, in2
<1> QED
  BY <1>2, ShowsMoves

(* A step of a session leaves the others and the browsers alone.           *)
LEMMA ServeElsewhere ==
  ASSUME Typed, NEW x \in Sessions, Serve(x)
  PROVE  /\ browser' = browser /\ failures <= failures'
         /\ \A y \in Sessions : y # x =>
              /\ pc'[y] = pc[y] /\ request'[y] = request[y] /\ sent'[y] = sent[y]
              /\ inbox'[y] = inbox[y] /\ socket'[y] = socket[y]
<1>1. /\ pc \in [Sessions -> Labels] /\ request \in [Sessions -> ToBrowser(log)]
      /\ sent \in [Sessions -> SentOf(log)] /\ inbox \in [Sessions -> Seq(FromBrowser(log))]
      /\ socket \in [Sessions -> Seq(ToBrowser(log))] /\ failures \in Nat
  BY FanoutAssumption DEF Typed, StoreTyped, ThreadsTyped, BrowsersTyped
<1>2. \A f : Send(x, f) => \A y \in Sessions : y # x => socket'[y] = socket[y]
  BY <1>1, SendEffect
<1>3. CASE Register(x)
  BY <1>1, <1>3 DEF Register, Goto, store
<1>4. CASE Looks(x)
  <2>1. /\ UNCHANGED <<socket, browser, sent>> /\ failures <= failures'
        /\ \E f, label : request' = [request EXCEPT ![x] = f] /\ pc' = [pc EXCEPT ![x] = label]
    BY <1>4, LooksEffect
  <2>2. \A y \in Sessions : y # x => inbox'[y] = inbox[y]
    BY <1>1, <1>4 DEF Looks, SnapshotContent, SnapshotRevision, CatchUpContent, CatchUpRevision,
                      CatchUpOperations, CatchUpPersisted, Reads
  <2> QED
    BY <1>1, <2>1, <2>2
<1>5. CASE SendInit(x)
  BY <1>1, <1>2, <1>5 DEF SendInit, ReadNext, Goto, store
<1>6. CASE ReadClosed(x)
  BY <1>1, <1>6 DEF ReadClosed, Goto, store
<1>9. CASE Reply(x)
  BY <1>1, <1>2, <1>9 DEF Reply, ReadNext, Goto, store
<1>10. CASE CommitOp(x)
  BY <1>1, <1>10 DEF CommitOp, Reads, Goto, store
<1>11. CASE CommitThrows(x)
  BY <1>1, <1>2, <1>11 DEF CommitThrows, Reads, Fails, threads
<1>12. CASE Acknowledge(x)
  BY <1>1, <1>2, <1>12 DEF Acknowledge, Goto, store
<1>13. CASE MarkCommitted(x)
  BY <1>1, <1>13 DEF MarkCommitted, ReadNext, Goto, store
<1> QED
  BY <1>3, <1>4, <1>5, <1>6, <1>9, <1>10, <1>11, <1>12, <1>13 DEF Serve, Looks

LEMMA AfterHolds ==
  ASSUME NEW from \in Nat, NEW to \in Nat, NEW r \in from + 1 .. to
  PROVE  r \in ToSet(After(from, to))
<1>1. r - from \in 1 .. to - from /\ from + (r - from) = r
  OBVIOUS
<1>2. /\ DOMAIN After(from, to) = 1 .. to - from
      /\ \A i \in 1 .. to - from : After(from, to)[i] = from + i
  BY DEF After
<1> QED
  BY <1>1, <1>2 DEF ToSet

(* Joining, and the messages for one session.                              *)
LEMMA ServeShows ==
  ASSUME Typed, Typed', Longer, Sole, Answers, NEW x \in Sessions, Serve(x),
         NEW b \in Browsers, ShowsTo(b)
  PROVE  ShowsTo(b)'
<1>0. SUFFICES ASSUME failures' = 0 PROVE ShowsTo(b)'
  BY DEF ShowsTo
<1>1. browser' = browser /\ failures = 0 /\ ~Fails
  <2>1. browser' = browser /\ failures <= failures' /\ failures \in Nat
    BY ServeElsewhere, FanoutAssumption DEF Typed, StoreTyped
  <2> QED
    BY <1>0, <2>1 DEF Fails
<1>2. CASE browser[b].session # x
  <2>1. PICK y : y = browser[b].session
    OBVIOUS
  <2>2. y # NoSession => y \in Sessions
    BY <2>1, SessionOf
  <2>3. y # NoSession =>
           /\ pc'[y] = pc[y] /\ request'[y] = request[y] /\ sent'[y] = sent[y]
           /\ inbox'[y] = inbox[y] /\ socket'[y] = socket[y]
    BY <1>2, <2>1, <2>2, ServeElsewhere
  <2> QED
    BY <1>1, <2>1, <2>3, ShowsMoves
<1>3. CASE browser[b].session = x
  <2>1. /\ x # NoSession /\ Connected(x)
        /\ browser'[b].session = x /\ View(browser'[b]) = View(browser[b])
    BY <1>1, <1>3, FanoutAssumption DEF Connected
  <2>2. /\ pc \in [Sessions -> Labels] /\ request \in [Sessions -> ToBrowser(log)]
        /\ sent \in [Sessions -> SentOf(log)] /\ inbox \in [Sessions -> Seq(FromBrowser(log))]
        /\ socket \in [Sessions -> Seq(ToBrowser(log))]
        /\ log \in Seq(OpIds) /\ IsInjective(log) /\ Len(log) \in Nat
        /\ log' \in Seq(OpIds) /\ IsInjective(log')
    BY DEF Typed, StoreTyped, ThreadsTyped, BrowsersTyped
  <2>3. \A f : Send(x, f) => socket'[x] = Append(socket[x], f)
    BY <2>1, <2>2, SendEffect
  <2>4. \A v \in Views : v.revision \in Nat
    BY DEF Views
  <2>5. CASE Register(x)
    <3>1. /\ pc[x] = "register" /\ pc'[x] = "content" /\ request'[x] = request[x]
          /\ inbox'[x] = inbox[x] /\ socket'[x] = socket[x]
      BY <2>2, <2>5 DEF Register, Goto
    <3>2. ASSUME NEW v \in Views, NEW q, NEW s, NEW s2, NEW in, Good(log', "register", q, s, in, v)
          PROVE  Good(log', "content", q, s2, in, v)
      <4>1. /\ Asked("register", q, in, v) => Asked("content", q, in, v)
            /\ \A r : ~Answered("register", q, v, r)
        BY DEF Asked, Answered
      <4>2. Welcome("content", q, in, v) /\ Renewed(log', "content", q, s2, v)
        BY <3>2, <4>1 DEF Good, Welcome, Renewed, Renewing, Joining
      <4>3. Covers(log', "content", q, s2, in, v)
        BY <3>2, <4>1 DEF Good, Covers, Due, Joining
      <4> QED
        BY <3>2, <4>2, <4>3 DEF Good
    <3> QED
      BY <1>1, <1>3, <2>1, <3>1, <3>2, ShowsMoves
  <2>6. CASE SnapshotContent(x)
    <3>1. /\ pc[x] = "content" /\ pc'[x] = "revision" /\ log' = log
          /\ sent'[x] = sent[x] /\ inbox'[x] = inbox[x] /\ socket'[x] = socket[x]
      BY <1>1, <2>2, <2>6 DEF SnapshotContent, Answer, Goto, store
    <3> QED
      BY <1>1, <1>3, <2>1, <3>1, SessionMoves DEF Joining, Renewing, Asked, Answered
  <2>6a. CASE SnapshotRevision(x)
    <3>1. /\ pc[x] = "revision" /\ pc'[x] = "init" /\ request'[x].to = Len(log)
          /\ log' = log
          /\ sent'[x] = sent[x] /\ inbox'[x] = inbox[x] /\ socket'[x] = socket[x]
      BY <1>1, <2>2, <2>6a DEF SnapshotRevision, Answer, Goto, store, Frame
    <3> QED
      BY <1>1, <1>3, <2>1, <3>1, SessionMoves DEF Joining, Renewing, Asked, Answered
  <2>7. CASE SendInit(x)
    <3>1. /\ pc[x] = "init" /\ pc'[x] = "read" /\ log' = log
          /\ sent'[x] = sent[x]
          /\ inbox'[x] = inbox[x] /\ socket'[x] = Append(socket[x], request[x])
      BY <2>2, <2>3, <2>7 DEF SendInit, ReadNext, Goto, store
    <3>2. PICK s : s = sent[x]
      OBVIOUS
    <3>4. PICK q : q = request[x]
      OBVIOUS
    <3>5. q \in ToBrowser(log) /\ q \in FramesOf(log) /\ q.kind = "init" /\ s.since <= q.to
      BY <1>1, <2>2, <3>1, <3>2, <3>4 DEF Answers, Answer0, ToBrowser
    <3>7. q.to \in Nat /\ s.since \in Nat
      BY <2>2, <3>2, <3>5 DEF FramesOf, RevsOf, SentOf
    <3>9. ASSUME NEW v \in Views, NEW w \in Views, Good(log, "init", q, s, inbox[x], v),
                 Takes(log, v, q, w)
          PROVE  Good(log, "read", request'[x], s, inbox[x], w)
      <4>1. CASE v.hasSession
        <5>1. w = v
          BY <3>5, <3>9, <4>1 DEF Takes
        <5> QED
          BY <3>9, <4>1, <5>1, GoodJoins
      <4>2. CASE ~v.hasSession
        <5>1. w.hasSession /\ Clears(log, v, q.to, w) /\ Renewing("init", q, v)
          BY <3>5, <3>9, <4>2 DEF Takes, Renewing
        <5> QED
          BY <2>2, <3>5, <3>7, <3>9, <5>1, GoodClears
      <4> QED
        BY <4>1, <4>2
    <3>10. /\ socket'[x] = Append(socket[x], q) /\ q \in ToBrowser(log')
           /\ log' = log /\ pc[x] = "init" /\ pc'[x] = "read" /\ request[x] = q
           /\ sent[x] = s /\ sent'[x] = s /\ inbox'[x] = inbox[x]
      BY <3>1, <3>2, <3>4, <3>5
    <3> QED
      BY <1>1, <1>3, <2>1, <3>9, <3>10, ShowsSent
  <2>8. CASE ReadClosed(x)
    BY <2>1, <2>8 DEF ReadClosed
  <2>9. CASE CatchUpContent(x)
    <3> DEFINE f == Head(inbox[x])
    <3>1. /\ pc[x] = "read" /\ inbox[x] # <<>> /\ f.kind = "sync" /\ log' = log
          /\ inbox'[x] = Tail(inbox[x]) /\ sent'[x] = sent[x] /\ socket'[x] = socket[x]
          /\ pc'[x] = "behind" /\ request'[x].from = f.from
      BY <1>1, <2>2, <2>9 DEF CatchUpContent, Reads, Answer, Goto, store, Frame
    <3>2. ToSet(inbox[x]) = {f} \cup ToSet(inbox'[x])
      <4>1. inbox[x] \in Seq(FromBrowser(log))
        BY <2>2
      <4> QED
        BY <3>1, <4>1, TailHolds
    <3> HIDE DEF f
    <3> QED
      BY <1>1, <1>3, <2>1, <3>1, <3>2, SessionMoves DEF Joining, Renewing, Asked, Answered
  <2>9a. CASE CatchUpRevision(x)
    <3>1. request[x].from \in 0 .. Len(log)
      BY <2>2 DEF ToBrowser, FramesOf, RevsOf
    <3>2. AnswerSync(x, request[x].from, request[x].to, Len(log))
      BY <1>1, <2>9a DEF CatchUpRevision
    <3>3. /\ pc[x] = "behind" /\ log' = log
          /\ inbox'[x] = inbox[x] /\ sent'[x] = sent[x] /\ socket'[x] = socket[x]
          /\ \/ /\ pc'[x] = "reply" /\ request'[x].kind = "snapshot"
                /\ request'[x].to = Len(log)
             \/ pc'[x] = "operations" /\ request'[x].from = request[x].from
      BY <2>2, <2>9a, <3>1, <3>2 DEF CatchUpRevision, AnswerSync, Answer, Goto, store, Frame
    <3> QED
      BY <1>1, <1>3, <2>1, <3>3, SessionMoves DEF Joining, Renewing, Asked, Answered
  <2>10. CASE CatchUpOperations(x)
    <3> DEFINE ops == After(request[x].from, Len(log))
    <3>1. request[x].from \in 0 .. Len(log)
      BY <2>2 DEF ToBrowser, FramesOf, RevsOf
    <3>2. Fetched(x, ops)
      BY <1>1, <2>10 DEF CatchUpOperations
    <3>3. \A r \in request[x].from + 1 .. Len(log) : r \in ToSet(ops)
      BY <2>2, <3>1, AfterHolds
    <3>4. ops = <<>> => ToSet(ops) = {}
      BY EmptyHolds
    <3> HIDE DEF ops
    <3>5. /\ pc[x] = "operations" /\ log' = log
          /\ sent'[x] = sent[x] /\ inbox'[x] = inbox[x] /\ socket'[x] = socket[x]
          /\ pc'[x] = IF ops = <<>> THEN "persisted" ELSE "reply"
          /\ request'[x].kind = "catchup" /\ request'[x].ops = ops
      BY <2>2, <2>10, <3>2 DEF CatchUpOperations, Fetched, Answer, Goto, store, CatchupFrame, Frame
    <3>6. ASSUME NEW v \in Views, NEW r \in v.revision + 1 .. Len(log),
                 Asked(pc[x], request[x], inbox[x], v) \/ Answered(pc[x], request[x], v, r)
          PROVE  Asked(pc'[x], request'[x], inbox'[x], v) \/ Answered(pc'[x], request'[x], v, r)
      <4>1. \/ \E f \in ToSet(inbox[x]) : f.kind = "sync" /\ f.from <= v.revision
            \/ request[x].from <= v.revision
        BY <3>5, <3>6 DEF Asked, Answered
      <4>2. CASE \E f \in ToSet(inbox[x]) : f.kind = "sync" /\ f.from <= v.revision
        BY <3>5, <4>2 DEF Asked
      <4>3. CASE request[x].from <= v.revision
        <5>1. r \in request[x].from + 1 .. Len(log)
          BY <2>2, <2>4, <3>1, <4>3
        <5>2. r \in ToSet(ops)
          BY <3>3, <5>1
        <5> QED
          BY <3>4, <3>5, <5>2 DEF Answered
      <4> QED
        BY <4>1, <4>2, <4>3
    <3>7. \A v \in Views : ~Renewing(pc'[x], request'[x], v)
      BY <3>5 DEF Renewing
    <3>8. pc'[x] \notin Joining /\ pc[x] \notin Joining
      BY <3>5 DEF Joining
    <3> QED
      BY <1>1, <1>3, <2>1, <3>5, <3>6, <3>7, <3>8, SessionMoves
  <2>10a. CASE CatchUpPersisted(x)
    <3>1. /\ pc[x] = "persisted" /\ pc'[x] = "reply" /\ log' = log
          /\ request'[x].kind = "catchup"
          /\ sent'[x] = sent[x] /\ inbox'[x] = inbox[x] /\ socket'[x] = socket[x]
      BY <2>2, <2>10a DEF CatchUpPersisted, Answer, Goto, store, CatchupFrame, Frame
    <3> QED
      BY <1>1, <1>3, <2>1, <3>1, SessionMoves DEF Joining, Renewing, Asked, Answered
  <2>11. CASE Reply(x)
    <3>1. /\ pc[x] = "reply" /\ pc'[x] = "read" /\ log' = log
          /\ sent'[x] = sent[x]
          /\ inbox'[x] = inbox[x] /\ socket'[x] = Append(socket[x], request[x])
      BY <2>2, <2>3, <2>11 DEF Reply, ReadNext, Goto, store
    <3>2. PICK s : s = sent[x]
      OBVIOUS
    <3>3. PICK q : q = request[x]
      OBVIOUS
    <3>4. /\ q \in ToBrowser(log) /\ q \in FramesOf(log) /\ q.kind \in {"catchup", "snapshot"}
          /\ q.kind = "snapshot" => s.since <= q.to
      BY <1>1, <2>2, <3>1, <3>2, <3>3 DEF Answers, Answer0, ToBrowser
    <3>5. q.to \in Nat /\ s.since \in Nat
      BY <2>2, <3>2, <3>4 DEF FramesOf, RevsOf, SentOf
    <3>6. inbox[x] \in Seq(FromBrowser(log))
      BY <2>2
    <3>7. ASSUME NEW v \in Views, NEW w \in Views, Good(log, "reply", q, s, inbox[x], v),
                 Takes(log, v, q, w)
          PROVE  Good(log, "read", request'[x], s, inbox[x], w)
      <4>1. CASE q.kind = "catchup"
        <5>1. Catches(log, v, q, w)
          BY <3>7, <4>1 DEF Takes
        <5> QED
          BY <2>2, <3>4, <3>6, <3>7, <4>1, <5>1, GoodCatches
      <4>2. CASE q.kind = "snapshot"
        <5>1. /\ w.hasSession = v.hasSession /\ Clears(log, v, q.to, w)
              /\ Renewing("reply", q, v)
          BY <3>7, <4>2 DEF Takes, Renewing
        <5> QED
          BY <2>2, <3>4, <3>5, <3>7, <4>2, <5>1, GoodClears
      <4> QED
        BY <3>4, <4>1, <4>2
    <3> QED
      BY <1>1, <1>3, <2>1, <3>1, <3>2, <3>3, <3>4, <3>7, ShowsSent
  <2>12. CASE CommitOp(x)
    <3> DEFINE f == Head(inbox[x])
    <3>1. /\ pc[x] = "read" /\ pc'[x] = "ack" /\ inbox[x] # <<>> /\ f.kind = "op"
          /\ inbox'[x] = Tail(inbox[x]) /\ sent'[x] = sent[x] /\ socket'[x] = socket[x]
      BY <2>2, <2>12 DEF CommitOp, Reads, Goto
    <3>2. ToSet(inbox[x]) = {f} \cup ToSet(inbox'[x])
      <4>1. inbox[x] \in Seq(FromBrowser(log))
        BY <2>2
      <4> QED
        BY <3>1, <4>1, TailHolds
    <3> HIDE DEF f
    <3> QED
      BY <1>1, <1>3, <2>1, <3>1, <3>2, SessionMoves DEF Joining, Renewing, Asked, Answered
  <2>13. CASE CommitThrows(x)
    BY <1>1, <2>13 DEF CommitThrows
  <2>14. CASE Acknowledge(x)
    <3>1. /\ pc[x] = "ack" /\ pc'[x] = "mark" /\ log' = log /\ request'[x] = request[x]
          /\ sent'[x] = [sent[x] EXCEPT !.acks = @ \cup {request[x].to}]
          /\ inbox'[x] = inbox[x] /\ socket'[x] = Append(socket[x], request[x])
      BY <2>2, <2>3, <2>14 DEF Acknowledge, Goto, store
    <3>2. PICK s : s = sent[x]
      OBVIOUS
    <3>3. PICK s2 : s2 = sent'[x]
      OBVIOUS
    <3>4. PICK q : q = request[x]
      OBVIOUS
    <3>5. q \in Announcing(log)
      BY <3>1, <3>4 DEF Typed, ThreadsTyped
    <3>6. /\ q \in ToBrowser(log) /\ q \in FramesOf(log) /\ q.kind = "op" /\ q.to \in DOMAIN log
          /\ inbox[x] \in Seq(FromBrowser(log))
      BY <2>2, <3>4, <3>5 DEF Announcing
    <3>7. s2.since = s.since /\ s2.acks = s.acks \cup {q.to} /\ s2.broadcasts = s.broadcasts
      BY <2>2, <3>1, <3>2, <3>3, <3>4 DEF SentOf
    <3>8. \A r : Unsent(s2, r) <=> Unsent(s, r) /\ r # q.to
      BY <3>7 DEF Unsent
    <3>9. ASSUME NEW v \in Views, NEW w \in Views, Good(log, "ack", q, s, inbox[x], v),
                 Takes(log, v, q, w)
          PROVE  Good(log, "mark", q, s2, inbox[x], w)
      <4>1. Learns(log, v, q.to, w)
        BY <3>6, <3>9 DEF Takes
      <4> QED
        BY <2>2, <3>6, <3>7, <3>8, <3>9, <4>1, GoodLearns
    <3>10. /\ socket'[x] = Append(socket[x], q) /\ q \in ToBrowser(log')
           /\ log' = log /\ pc[x] = "ack" /\ pc'[x] = "mark" /\ request[x] = q
           /\ sent[x] = s /\ sent'[x] = s2 /\ inbox'[x] = inbox[x] /\ request'[x] = q
      BY <3>1, <3>2, <3>3, <3>4, <3>6
    <3> QED
      BY <1>1, <1>3, <2>1, <3>9, <3>10, ShowsSent
  <2>15. CASE MarkCommitted(x)
    <3>1. /\ pc[x] = "mark" /\ pc'[x] = "read"
          /\ sent'[x] = sent[x] /\ inbox'[x] = inbox[x] /\ socket'[x] = socket[x]
      BY <2>2, <2>15 DEF MarkCommitted, ReadNext, Goto
    <3> QED
      BY <1>1, <1>3, <2>1, <3>1, SessionMoves DEF Joining, Renewing, Asked, Answered
  <2> QED
    BY <2>5, <2>6, <2>6a, <2>7, <2>8, <2>9, <2>9a, <2>10, <2>10a, <2>11, <2>12, <2>13, <2>14, <2>15 DEF Serve
<1> QED
  BY <1>2, <1>3

-----------------------------------------------------------------------------
(* A browser takes a frame, becomes br and answers with frames.            *)
Taking(b, br, frames) ==
  LET x == browser[b].session
  IN  /\ x \in Sessions /\ socket[x] # <<>> /\ frames \in Seq(FromBrowser(log))
      /\ socket' = [socket EXCEPT ![x] = Tail(@)]
      /\ browser' = [browser EXCEPT ![b] = br]
      /\ inbox' = [inbox EXCEPT ![x] = @ \o frames]
      /\ UNCHANGED <<log, failures, pc, request, sent>>
      /\ Takes(log, View(browser[b]), Arriving(b), View(br))
      /\ ShownOf(br) /\ KeptOf(br)
      /\ br.session = x /\ (br.enabled => br.hasSession)
      /\ br.enabled => \A id \in ToSet(br.pending) :
           \/ \E f \in ToSet(frames) : Resends(f, id)
           \/ /\ browser[b].enabled /\ id \in ToSet(browser[b].pending)
              /\ ~Settles(Arriving(b), id)

LEMMA ReceiveTaken ==
  ASSUME Typed, NEW b \in Browsers, ShownOf(browser[b]), KeptOf(browser[b]),
         browser[b].enabled => browser[b].hasSession, Receive(b)
  PROVE  \E br, frames : Taking(b, br, frames)
<1> DEFINE old == browser[b]
           x == old.session
           f == Arriving(b)
<1>1. /\ log \in Seq(OpIds) /\ IsInjective(log) /\ Len(log) \in Nat /\ old \in BrowsersOf(log)
      /\ \A y \in Sessions : socket[y] \in Seq(ToBrowser(log))
  BY TypedFor
<1>2. x \in Sessions \cup {NoSession}
  BY <1>1 DEF BrowsersOf
<1>3. ASSUME NEW kind, NEW br, NEW frames, Take(b, kind, br, frames),
             frames \in Seq(FromBrowser(log)),
             Takes(log, View(old), f, View(br)), ShownOf(br), KeptOf(br),
             br.session = x, br.enabled => br.hasSession,
             br.enabled => \A id \in ToSet(br.pending) :
               \/ \E g \in ToSet(frames) : Resends(g, id)
               \/ old.enabled /\ id \in ToSet(old.pending) /\ ~Settles(f, id)
      PROVE  Taking(b, br, frames)
  BY <1>2, <1>3 DEF Take, Taking, store, threads
<1>4. ASSUME NEW kind, NEW br, NEW frames, Take(b, kind, br, frames)
      PROVE  /\ f \in ToBrowser(log) /\ f \in FramesOf(log) /\ f.kind = kind
             /\ f.from \in RevsOf(log) /\ f.to \in RevsOf(log)
  <2>1. x \in Sessions /\ socket[x] # <<>>
    BY <1>2, <1>4 DEF Take
  <2>2. f \in ToBrowser(log)
    BY <1>1, <2>1, TailHolds DEF Arriving
  <2> QED
    BY <1>4, <2>2 DEF Take, Arriving, ToBrowser, FramesOf
<1>5. <<>> \in Seq(FromBrowser(log)) /\ ToSet(<<>>) = {}
  BY EmptyHolds
<1> HIDE DEF f
<1>6. CASE ReceiveFirstInit(b)
  <2>1. PICK r : r = Reset(old, f)
    OBVIOUS
  <2>2. PICK br : br = [r EXCEPT !.hasSession = TRUE, !.enabled = TRUE]
    OBVIOUS
  <2>3. ~old.hasSession /\ Take(b, "init", br, <<>>)
    BY <1>6, <2>1, <2>2 DEF ReceiveFirstInit, f
  <2>4. f.kind = "init" /\ f.from \in RevsOf(log) /\ f.to \in RevsOf(log)
    BY <1>4, <2>3
  <2>5. /\ r \in BrowsersOf(log) /\ Clears(log, View(old), f.to, View(r)) /\ ShownOf(r)
        /\ r.pending = <<>> /\ r.session = old.session /\ r.edited = old.edited
        /\ r.cleared = old.cleared
    BY <1>1, <2>1, <2>4, ResetShown DEF SameUser
  <2>6. /\ br.session = x /\ br.hasSession = TRUE /\ br.enabled = TRUE /\ br.pending = <<>>
        /\ br.edited = r.edited /\ br.cleared = r.cleared /\ br.revision = r.revision
        /\ br.applied = r.applied /\ br.orderly = r.orderly /\ br.text = r.text
        /\ br.base = r.base
    BY <2>2, <2>5 DEF BrowsersOf
  <2>7. Takes(log, View(old), f, View(br))
    BY <2>3, <2>4, <2>5, <2>6 DEF Takes, Clears, View
  <2>8. ShownOf(br)
    BY <2>5, <2>6 DEF ShownOf, Known, View
  <2>9. KeptOf(br)
    BY <2>3, <2>5, <2>6 DEF KeptOf
  <2> QED
    BY <1>3, <1>5, <2>3, <2>6, <2>7, <2>8, <2>9
<1>7. CASE ReceiveInitAgain(b)
  <2>1. PICK br : br = [old EXCEPT !.enabled = TRUE]
    OBVIOUS
  <2>2. PICK g : g = Sync(b)
    OBVIOUS
  <2>3. old.hasSession /\ Take(b, "init", br, <<g>>)
    BY <1>7, <2>1, <2>2 DEF ReceiveInitAgain
  <2>4. f.kind = "init"
    BY <1>4, <2>3
  <2>5. g \in FromBrowser(log) /\ g.kind = "sync"
    <3>1. <<>> \in Seq(RevsOf(log)) /\ 0 \in RevsOf(log) /\ old.revision \in RevsOf(log)
      BY <1>1 DEF BrowsersOf, RevsOf
    <3> QED
      BY <2>2, <3>1 DEF Sync, Frame, FromBrowser, FramesOf
  <2>6. <<g>> \in Seq(FromBrowser(log)) /\ g \in ToSet(<<g>>)
    <3>1. <<g>> \in Seq(FromBrowser(log)) /\ 1 \in DOMAIN <<g>> /\ <<g>>[1] = g
      BY <2>5
    <3> QED
      BY <3>1 DEF ToSet
  <2>7. /\ br.session = x /\ br.hasSession = old.hasSession /\ br.pending = old.pending
        /\ br.edited = old.edited /\ br.cleared = old.cleared /\ br.revision = old.revision
        /\ br.applied = old.applied /\ br.orderly = old.orderly /\ br.text = old.text
        /\ br.base = old.base
    BY <1>1, <2>1 DEF BrowsersOf
  <2>8. View(br) = View(old) /\ ShownOf(br) /\ KeptOf(br)
    BY <2>7 DEF View, ShownOf, KeptOf
  <2>9. Takes(log, View(old), f, View(br))
    BY <2>3, <2>4, <2>8 DEF Takes, View
  <2>10. \A id : Resends(g, id)
    BY <2>5 DEF Resends
  <2> QED
    BY <1>3, <2>3, <2>6, <2>7, <2>8, <2>9, <2>10
<1>8. CASE ReceiveOp(b)
  <2>1. PICK br : br = Received(old, f.to)
    OBVIOUS
  <2>2. Take(b, "op", br, <<>>)
    BY <1>8, <2>1 DEF ReceiveOp, f
  <2>3. f.kind = "op" /\ f.to \in DOMAIN log /\ f.opId = log[f.to]
    BY <1>4, <2>2 DEF ToBrowser, Announcing
  <2>4. /\ Learns(log, View(old), f.to, View(br)) /\ ShownOf(br) /\ KeptOf(br)
        /\ ToSet(br.pending) = ToSet(old.pending) \ {log[f.to]}
        /\ SameUser(br, old)
    BY <1>1, <2>1, <2>3, ReceivedShown
  <2>5. br.session = x /\ br.enabled = old.enabled /\ br.hasSession = old.hasSession
    BY <2>4 DEF SameUser
  <2>6. Takes(log, View(old), f, View(br))
    BY <2>3, <2>4 DEF Takes
  <2>7. \A id \in ToSet(br.pending) : id \in ToSet(old.pending) /\ ~Settles(f, id)
    BY <2>3, <2>4 DEF Settles
  <2> QED
    BY <1>3, <1>5, <2>2, <2>4, <2>5, <2>6, <2>7
<1>9. CASE ReceiveCatchup(b)
  <2>1. PICK br : br = CaughtUp(old, f.ops)
    OBVIOUS
  <2>2. PICK frames : frames = [i \in DOMAIN br.pending |-> Op(br.pending[i])]
    OBVIOUS
  <2>3. Take(b, "catchup", br, frames)
    BY <1>9, <2>1, <2>2 DEF ReceiveCatchup, CaughtUp, f
  <2>4. f.kind = "catchup" /\ f \in ToBrowser(log)
    BY <1>4, <2>3
  <2>5. /\ br \in BrowsersOf(log) /\ Catches(log, View(old), f, View(br)) /\ ShownOf(br)
        /\ KeptOf(br)
        /\ br.session = x /\ br.enabled = old.enabled /\ br.hasSession = old.hasSession
    BY <1>1, <2>1, <2>4, CatchupShown
  <2>6. Takes(log, View(old), f, View(br))
    BY <2>4, <2>5 DEF Takes
  <2>7. br.pending \in Seq(OpIds)
    BY <2>5 DEF BrowsersOf
  <2>8. \A id \in OpIds : Op(id) \in FromBrowser(log) /\ Op(id).kind = "op" /\ Op(id).opId = id
    <3>1. <<>> \in Seq(RevsOf(log)) /\ 0 \in RevsOf(log)
      BY <1>1 DEF RevsOf
    <3> QED
      BY <3>1 DEF Op, Frame, FromBrowser, FramesOf
  <2>9. frames \in Seq(FromBrowser(log)) /\ DOMAIN frames = DOMAIN br.pending
    BY <2>2, <2>7, <2>8
  <2>10. ASSUME NEW id \in ToSet(br.pending) PROVE \E g \in ToSet(frames) : Resends(g, id)
    <3>1. PICK i \in DOMAIN br.pending : id = br.pending[i]
      BY DEF ToSet
    <3>2. id \in OpIds
      BY <2>7, <3>1
    <3>3. frames[i] = Op(id) /\ frames[i] \in ToSet(frames)
      BY <2>2, <2>9, <3>1 DEF ToSet
    <3> QED
      BY <2>8, <3>2, <3>3 DEF Resends
  <2> QED
    BY <1>3, <2>3, <2>5, <2>6, <2>9, <2>10
<1>10. CASE ReceiveSnapshot(b)
  <2>1. PICK r : r = Reset(old, f)
    OBVIOUS
  <2>2. PICK c : c = (r.cleared \/ old.pending # <<>>)
    OBVIOUS
  <2>3. PICK br : br = [r EXCEPT !.cleared = c]
    OBVIOUS
  <2>4. Take(b, "snapshot", br, <<>>)
    BY <1>10, <2>1, <2>2, <2>3 DEF ReceiveSnapshot, f
  <2>5. f.kind = "snapshot" /\ f.from \in RevsOf(log) /\ f.to \in RevsOf(log)
    BY <1>4, <2>4
  <2>6. /\ r \in BrowsersOf(log) /\ Clears(log, View(old), f.to, View(r)) /\ ShownOf(r)
        /\ r.pending = <<>> /\ r.session = old.session /\ r.edited = old.edited
        /\ r.cleared = old.cleared /\ r.hasSession = old.hasSession /\ r.enabled = old.enabled
    BY <1>1, <2>1, <2>5, ResetShown DEF SameUser
  <2>7. /\ br.session = x /\ br.hasSession = old.hasSession /\ br.enabled = old.enabled
        /\ br.pending = <<>>
        /\ br.edited = r.edited /\ br.cleared = c /\ br.revision = r.revision
        /\ br.applied = r.applied /\ br.orderly = r.orderly /\ br.text = r.text
        /\ br.base = r.base
    BY <2>3, <2>6 DEF BrowsersOf
  <2>8. Takes(log, View(old), f, View(br))
    BY <2>5, <2>6, <2>7 DEF Takes, Clears, View
  <2>9. ShownOf(br)
    BY <2>6, <2>7 DEF ShownOf, Known, View
  <2>10. KeptOf(br)
    <3>1. ASSUME ~c PROVE br.edited \subseteq ToSet(log)
      <4>1. old.pending = <<>> /\ ~old.cleared
        BY <2>2, <2>6, <3>1
      <4> QED
        BY <1>5, <2>6, <2>7, <4>1 DEF KeptOf
    <3>2. ~br.hasSession => br.edited = {}
      BY <2>6, <2>7 DEF KeptOf
    <3> QED
      BY <2>7, <3>1, <3>2 DEF KeptOf
  <2> QED
    BY <1>3, <1>5, <2>4, <2>7, <2>8, <2>9, <2>10
<1>11. CASE ReceiveError(b)
  <2>1. Take(b, "error", old, <<>>)
    BY <1>11 DEF ReceiveError
  <2>2. f.kind = "error"
    BY <1>4, <2>1
  <2>3. Takes(log, View(old), f, View(old))
    BY <2>2 DEF Takes
  <2>4. \A id : ~Settles(f, id)
    BY <2>2 DEF Settles
  <2> QED
    BY <1>3, <1>5, <2>1, <2>3, <2>4
<1> QED
  BY <1>6, <1>7, <1>8, <1>9, <1>10, <1>11 DEF Receive

(* A broadcast reaches one session; the rest of what servers do, none.     *)
LEMMA SendNextEffect ==
  ASSUME Typed, NEW a \in Sessions \cup Servers, SendNext(a)
  PROVE  \E x \in Sessions, op \in Announcing(log) :
           /\ Send(x, op)
           /\ sent' = [sent EXCEPT ![x].broadcasts = Append(@, op.to)]
           /\ UNCHANGED <<log, failures, pc, request, inbox, browser>>
<1>1. fan[a] # NoFan /\ a \in Servers \cup Sessions
  BY DEF SendNext
<1>2. fan[a].todo \in Seq(Sessions) /\ fan[a].todo # <<>> /\ fan[a].op \in Announcing(log)
  BY <1>1, FanTyped
<1>3. Head(fan[a].todo) \in Sessions
  BY <1>2, TailHolds
<1> QED
  BY <1>2, <1>3 DEF SendNext, store

LEMMA BroadcastShows ==
  ASSUME Typed, Typed', Longer, NEW b \in Browsers, ShowsTo(b),
         \/ \E a \in Sessions \cup Servers : SendNext(a)
         \/ \E s \in Servers : Subscriber(s)
         \/ \E id \in OpIds : CommitElsewhere(id)
  PROVE  ShowsTo(b)'
<1>1. PICK y : y = browser[b].session
  OBVIOUS
<1>2. y # NoSession => y \in Sessions /\ Connected(y)
  BY <1>1, SessionOf
<1>3. /\ sent \in [Sessions -> SentOf(log)] /\ socket \in [Sessions -> Seq(ToBrowser(log))]
      /\ log \in Seq(OpIds) /\ IsInjective(log)
      /\ \A x \in Sessions : request[x] \in FramesOf(log) /\ inbox[x] \in Seq(FromBrowser(log))
  BY TypedFor DEF Typed, BrowsersTyped
<1>4. ASSUME NEW a \in Sessions \cup Servers, SendNext(a) PROVE ShowsTo(b)'
  <2>1. PICK x \in Sessions, op \in Announcing(log) :
           /\ Send(x, op)
           /\ sent' = [sent EXCEPT ![x].broadcasts = Append(@, op.to)]
           /\ UNCHANGED <<log, failures, pc, request, inbox, browser>>
    BY <1>4, SendNextEffect
  <2>2. CASE y # x
    <3>1. y # NoSession => socket'[y] = socket[y] /\ sent'[y] = sent[y]
      BY <1>2, <1>3, <2>1, <2>2, SendEffect
    <3> QED
      BY <1>1, <2>1, <3>1, ShowsMoves
  <2>3. CASE y = x
    <3>1. y # NoSession /\ socket'[y] = Append(socket[y], op)
      BY <1>2, <1>3, <2>1, <2>3, FanoutAssumption, SendEffect
    <3>2. PICK s : s = sent[y]
      OBVIOUS
    <3>3. PICK s2 : s2 = sent'[y]
      OBVIOUS
    <3>4. /\ s2.since = s.since /\ s2.acks = s.acks /\ s2.broadcasts = Append(s.broadcasts, op.to)
          /\ s.broadcasts \in Seq(RevsOf(log))
      BY <1>3, <2>1, <2>3, <3>2, <3>3 DEF SentOf
    <3>5. op \in ToBrowser(log) /\ op.kind = "op" /\ op.to \in DOMAIN log /\ op.to \in RevsOf(log)
      BY DEF Announcing, ToBrowser, FramesOf
    <3>6. ToSet(s2.broadcasts) = ToSet(s.broadcasts) \cup {op.to}
      BY <3>4, <3>5, AppendHolds
    <3>7. \A r : Unsent(s2, r) <=> Unsent(s, r) /\ r # op.to
      BY <3>4, <3>6 DEF Unsent
    <3>8. ASSUME NEW v \in Views, NEW w \in Views,
                 Good(log, pc[y], request[y], s, inbox[y], v), Takes(log, v, op, w)
          PROVE  Good(log, pc[y], request[y], s2, inbox[y], w)
      <4>1. Learns(log, v, op.to, w)
        BY <3>5, <3>8 DEF Takes
      <4>2. request[y] \in FramesOf(log) /\ inbox[y] \in Seq(FromBrowser(log))
        BY <1>3, <2>3
      <4> QED
        BY <1>3, <3>4, <3>5, <3>7, <3>8, <4>1, <4>2, GoodLearns
    <3>9. /\ sent[y] = s /\ sent'[y] = s2 /\ op \in ToBrowser(log')
          /\ UNCHANGED <<log, failures, pc, request, inbox, browser>>
      BY <2>1, <3>2, <3>3, <3>5
    <3> QED
      BY <1>1, <3>1, <3>8, <3>9, ShowsSent
  <2> QED
    BY <2>2, <2>3
<1>5. CASE \/ \E s \in Servers : Subscriber(s)
           \/ \E id \in OpIds : CommitElsewhere(id)
  <2>1. UNCHANGED <<failures, pc, request, sent, inbox, socket, browser>>
    BY <1>5 DEF Subscriber, Deliver, LoseMessage, CommitElsewhere, threads
  <2> QED
    BY <1>1, <2>1, ShowsMoves
<1> QED
  BY <1>4, <1>5

(* What the browsers do: only its own steps concern a browser.             *)
LEMMA BrowserShows ==
  ASSUME Typed, Typed', Longer, Sole, NEW c \in Browsers, ShownOf(browser[c]), ShowsTo(c),
         NEW b \in Browsers, ShownOf(browser[b]), KeptOf(browser[b]),
         \/ \E x \in Sessions : Connect(b, x)
         \/ Disconnect(b)
         \/ \E id \in OpIds : Edit(b, id)
         \/ Receive(b)
  PROVE  ShowsTo(c)'
<1>1. PICK y : y = browser[c].session
  OBVIOUS
<1>2. y # NoSession => y \in Sessions
  BY <1>1, SessionOf
<1>3. /\ sent \in [Sessions -> SentOf(log)] /\ socket \in [Sessions -> Seq(ToBrowser(log))]
      /\ inbox \in [Sessions -> Seq(FromBrowser(log))] /\ pc \in [Sessions -> Labels]
      /\ request \in [Sessions -> ToBrowser(log)]
      /\ browser \in [Browsers -> BrowsersOf(log)]
      /\ log \in Seq(OpIds) /\ IsInjective(log)
  BY DEF Typed, StoreTyped, ThreadsTyped, BrowsersTyped
<1>4. ASSUME NEW x \in Sessions, Connect(b, x) PROVE ShowsTo(c)'
  <2>1. /\ browser[b].session = NoSession /\ pc[x] = "unused"
        /\ browser' = [browser EXCEPT ![b].session = x]
        /\ inbox' = [inbox EXCEPT ![x] = IF browser[b].hasSession THEN <<Sync(b)>> ELSE <<>>]
        /\ pc' = [pc EXCEPT ![x] = "register"]
        /\ UNCHANGED <<log, failures, request, socket, sent>>
    BY <1>4 DEF Connect, Goto, store
  <2>2. ~Connected(x)
    BY <2>1, FanoutAssumption DEF Sole, Connected
  <2>3. CASE c # b
    <3>1. y # x /\ browser'[c] = browser[c]
      BY <1>1, <2>1, <2>2, <2>3 DEF Connected
    <3>2. y # NoSession => pc'[y] = pc[y] /\ inbox'[y] = inbox[y]
      BY <1>2, <1>3, <2>1, <3>1
    <3> QED
      BY <1>1, <2>1, <3>1, <3>2, ShowsMoves
  <2>4. CASE c = b
    <3>1. socket[x] = <<>>
      BY <2>2 DEF Sole
    <3>2. PICK v : v = View(browser[b])
      OBVIOUS
    <3>3. /\ browser'[b].session = x /\ View(browser'[b]) = v /\ pc'[x] = "register"
          /\ inbox'[x] = IF browser[b].hasSession THEN <<Sync(b)>> ELSE <<>>
      BY <1>3, <2>1, <3>2 DEF View, BrowsersOf
    <3>4. v \in Views /\ v.hasSession = browser[b].hasSession /\ v.revision = browser[b].revision
      BY <3>2, TypedFor DEF View
    <3>5. v.hasSession => Asked("register", request[x], inbox'[x], v)
      <4>1. ASSUME v.hasSession PROVE Sync(b) \in ToSet(inbox'[x])
        <5>1. inbox'[x] = <<Sync(b)>>
          BY <3>3, <3>4, <4>1
        <5>2. 1 \in DOMAIN inbox'[x] /\ inbox'[x][1] = Sync(b)
          BY <5>1
        <5> QED
          BY <5>2 DEF ToSet
      <4>2. Sync(b).kind = "sync" /\ Sync(b).from <= v.revision
        BY <3>4 DEF Sync, Frame, Views
      <4> QED
        BY <4>1, <4>2 DEF Asked
    <3>6. Known(log, v)
      BY <3>2 DEF ShownOf
    <3>7. Good(log, "register", request[x], sent[x], inbox'[x], v)
      BY <3>5, <3>6 DEF Good, Welcome, Joining, Renewed, Renewing, Covers
    <3>8. \A w : Outcome(log, v, <<>>, w) => w = v
      BY <3>4, OutcomeOfNone
    <3> QED
      BY <2>1, <2>4, <3>1, <3>3, <3>7, <3>8 DEF ShowsTo
  <2> QED
    BY <2>3, <2>4
<1>5. CASE Disconnect(b)
  <2>1. PICK x : x = browser[b].session
    OBVIOUS
  <2>2. PICK n : inbox' = [inbox EXCEPT ![x] = SubSeq(@, 1, n)]
    BY <1>5, <2>1 DEF Disconnect
  <2>3. /\ x # NoSession
        /\ browser' = [browser EXCEPT ![b].session = NoSession, ![b].enabled = FALSE]
        /\ socket' = [socket EXCEPT ![x] = <<>>]
        /\ UNCHANGED <<log, failures, pc, request, sent>>
    BY <1>5, <2>1 DEF Disconnect, store, threads
  <2>4. CASE c = b
    <3>1. browser'[c].session = NoSession
      BY <1>3, <2>3, <2>4 DEF BrowsersOf
    <3> QED
      BY <3>1 DEF ShowsTo
  <2>5. CASE c # b
    <3>1. browser'[c] = browser[c] /\ y # x
      BY <1>1, <1>3, <2>1, <2>3, <2>5 DEF Sole
    <3>2. y # NoSession => inbox'[y] = inbox[y] /\ socket'[y] = socket[y]
      BY <1>2, <1>3, <2>2, <2>3, <3>1
    <3> QED
      BY <1>1, <2>3, <3>1, <3>2, ShowsMoves
  <2> QED
    BY <2>4, <2>5
<1>6. ASSUME NEW id \in OpIds, Edit(b, id) PROVE ShowsTo(c)'
  <2>1. PICK x : x = browser[b].session
    OBVIOUS
  <2>2. /\ browser' = [browser EXCEPT ![b].pending = Append(@, id), ![b].edited = @ \cup {id}]
        /\ inbox' = [inbox EXCEPT ![x] = Append(@, Op(id))]
        /\ UNCHANGED <<log, failures, pc, request, socket, sent>>
    BY <1>6, <2>1 DEF Edit, store, threads
  <2>3. browser'[c].session = y /\ View(browser'[c]) = View(browser[c])
    BY <1>1, <1>3, <2>2 DEF View, BrowsersOf
  <2>4. y # NoSession => ToSet(inbox[y]) \subseteq ToSet(inbox'[y])
    <3>1. CASE y # NoSession /\ y = x
      <4>1. PICK g : g = Op(id)
        OBVIOUS
      <4>2. inbox[y] \in Seq(FromBrowser(log)) /\ inbox'[y] = Append(inbox[y], g)
        BY <1>2, <1>3, <2>2, <3>1, <4>1
      <4>3. g \in FromBrowser(log)
        <5>1. <<>> \in Seq(RevsOf(log)) /\ 0 \in RevsOf(log)
          BY <1>3 DEF RevsOf
        <5> QED
          BY <4>1, <5>1 DEF Op, Frame, FromBrowser, FramesOf
      <4> QED
        BY <4>2, <4>3, AppendHolds
    <3>2. CASE y # NoSession /\ y # x
      BY <1>2, <1>3, <2>2, <3>2
    <3> QED
      BY <3>1, <3>2
  <2>5. y # NoSession =>
          \A v \in Views : Good(log, pc[y], request[y], sent[y], inbox[y], v) =>
                             Good(log, pc[y], request[y], sent[y], inbox'[y], v)
    BY <1>3, <2>4, GoodReads
  <2> QED
    BY <1>1, <2>2, <2>3, <2>5, ShowsMoves
<1>7. CASE Receive(b)
  <2>1. browser[b].enabled => browser[b].hasSession
    BY DEF Sole
  <2>2. PICK br, frames : Taking(b, br, frames)
    BY <1>7, <2>1, ReceiveTaken
  <2>3. PICK x : x = browser[b].session
    OBVIOUS
  <2>4. /\ x \in Sessions /\ socket[x] # <<>> /\ frames \in Seq(FromBrowser(log))
        /\ socket' = [socket EXCEPT ![x] = Tail(@)]
        /\ browser' = [browser EXCEPT ![b] = br]
        /\ inbox' = [inbox EXCEPT ![x] = @ \o frames]
        /\ UNCHANGED <<log, failures, pc, request, sent>>
        /\ Takes(log, View(browser[b]), Head(socket[x]), View(br)) /\ br.session = x
    BY <2>2, <2>3 DEF Taking, Arriving
  <2>5. CASE c # b
    <3>1. browser'[c] = browser[c] /\ y # x
      BY <1>1, <2>3, <2>4, <2>5, FanoutAssumption DEF Sole
    <3>2. y # NoSession => inbox'[y] = inbox[y] /\ socket'[y] = socket[y]
      BY <1>2, <1>3, <2>4, <3>1
    <3> QED
      BY <1>1, <2>4, <3>1, <3>2, ShowsMoves
  <2>6. CASE c = b
    <3>1. /\ browser'[b] = br /\ socket'[x] = Tail(socket[x]) /\ inbox'[x] = inbox[x] \o frames
          /\ inbox[x] \in Seq(FromBrowser(log)) /\ x # NoSession
      BY <1>3, <2>4, FanoutAssumption
    <3>2. ToSet(inbox[x]) \subseteq ToSet(inbox[x] \o frames)
      <4>1. \A i \in DOMAIN inbox[x] : i \in DOMAIN (inbox[x] \o frames)
                                       /\ (inbox[x] \o frames)[i] = inbox[x][i]
        BY <2>4, <3>1
      <4> QED
        BY <4>1 DEF ToSet
    <3> QED
      BY <2>3, <2>4, <2>6, <3>1, <3>2, ShowsTaken
  <2> QED
    BY <2>5, <2>6
<1> QED
  BY <1>4, <1>5, <1>6, <1>7

-----------------------------------------------------------------------------
(* Sessions keep their browsers, and answer what was asked.                *)
LEMMA ServeSole ==
  ASSUME Typed, Sole, Answers, NEW x \in Sessions, Serve(x)
  PROVE  Sole' /\ Answers'
<1>1. /\ browser' = browser /\ (failures' = 0 => failures = 0 /\ ~Fails)
      /\ \A y \in Sessions : y # x =>
           /\ pc'[y] = pc[y] /\ request'[y] = request[y] /\ sent'[y] = sent[y]
           /\ socket'[y] = socket[y]
  <2>1. failures \in Nat /\ failures <= failures'
    BY ServeElsewhere, FanoutAssumption DEF Typed, StoreTyped
  <2> QED
    BY <2>1, ServeElsewhere DEF Fails
<1>2. /\ pc \in [Sessions -> Labels] /\ request \in [Sessions -> ToBrowser(log)]
      /\ socket \in [Sessions -> Seq(ToBrowser(log))] /\ sent \in [Sessions -> SentOf(log)]
      /\ Len(log) \in Nat
  BY DEF Typed, StoreTyped, ThreadsTyped, BrowsersTyped
<1>3. sent[x].since <= Len(log) /\ request[x].from \in 0 .. Len(log)
  BY <1>2 DEF SentOf, ToBrowser, FramesOf, RevsOf
<1> DEFINE Fine ==
             /\ pc'[x] \in {"unused", "done"} => ~Connected(x)
             /\ ~Connected(x) => socket'[x] = socket[x]
             /\ pc'[x] = "init" => request'[x].kind = "init"
             /\ pc'[x] = "reply" => request'[x].kind \in {"catchup", "snapshot", "error"}
             /\ failures' = 0 => Answer0(pc'[x], request'[x], sent'[x])
<1>4. Fine
  <2>1. CASE Register(x)
    BY <1>2, <2>1 DEF Register, Goto, Answer0
  <2>2. CASE SnapshotContent(x)
    BY <1>1, <1>2, <2>2 DEF SnapshotContent, Answer, Goto, Frame, Answer0
  <2>3. CASE SnapshotRevision(x)
    <3>1. /\ sent' = sent /\ socket' = socket /\ pc'[x] = "init" /\ request'[x].kind = "init"
          /\ failures' = 0 => request'[x].to = Len(log)
      BY <1>1, <1>2, <2>3 DEF SnapshotRevision, Answer, Goto, Frame
    <3> QED
      BY <1>3, <3>1 DEF Answer0
  <2>4. CASE SendInit(x)
    BY <1>2, <2>4 DEF SendInit, ReadNext, Goto, Send, Answer0
  <2>5. CASE ReadClosed(x)
    BY <1>2, <2>5 DEF ReadClosed, Goto, Answer0
  <2>6. ASSUME NEW from, NEW text, NEW to, AnswerSync(x, from, text, to)
        PROVE  \/ pc'[x] = "reply" /\ request'[x].kind = "error" /\ to < from
               \/ pc'[x] = "reply" /\ request'[x].kind = "snapshot" /\ request'[x].to = to
               \/ pc'[x] = "operations"
    BY <1>2, <2>6 DEF AnswerSync, Answer, Goto, Frame, ErrorFrame
  <2>7. CASE CatchUpContent(x)
    <3>1. /\ sent' = sent /\ socket' = socket
          /\ \/ pc'[x] = "behind"
             \/ Fails /\ AnswerSync(x, Head(inbox[x]).from, 0, 0)
      BY <1>2, <2>7 DEF CatchUpContent, Answer, Goto
    <3> QED
      BY <1>1, <2>6, <3>1 DEF Answer0
  <2>8. CASE CatchUpRevision(x)
    <3>1. /\ sent' = sent /\ socket' = socket
          /\ \/ AnswerSync(x, request[x].from, request[x].to, Len(log))
             \/ Fails /\ AnswerSync(x, request[x].from, request[x].to, 0)
      BY <2>8 DEF CatchUpRevision
    <3>2. CASE AnswerSync(x, request[x].from, request[x].to, Len(log))
      <4>1. \/ pc'[x] = "reply" /\ request'[x].kind = "snapshot" /\ request'[x].to = Len(log)
            \/ pc'[x] = "operations"
        BY <1>2, <1>3, <2>6, <3>2
      <4> QED
        BY <1>3, <3>1, <4>1 DEF Answer0
    <3>3. CASE Fails /\ AnswerSync(x, request[x].from, request[x].to, 0)
      BY <1>1, <2>6, <3>1, <3>3
    <3> QED
      BY <3>1, <3>2, <3>3
  <2>9. CASE CatchUpOperations(x) \/ CatchUpPersisted(x)
    <3>1. /\ sent' = sent /\ socket' = socket /\ pc'[x] \in {"persisted", "reply"}
          /\ request'[x].kind = "catchup"
      BY <1>2, <2>9 DEF CatchUpOperations, CatchUpPersisted, Fetched, Answer, Goto, CatchupFrame, Frame
    <3> QED
      BY <3>1 DEF Answer0
  <2>10. CASE Reply(x)
    BY <1>2, <2>10 DEF Reply, ReadNext, Goto, Send, Answer0
  <2>11. CASE CommitOp(x)
    BY <1>2, <2>11 DEF CommitOp, Goto, Answer0
  <2>12. CASE CommitThrows(x)
    BY <1>2, <2>12 DEF CommitThrows, Reads, threads, Send, Answer0
  <2>13. CASE Acknowledge(x)
    BY <1>2, <2>13 DEF Acknowledge, Goto, Send, Answer0
  <2>14. CASE MarkCommitted(x)
    BY <1>2, <2>14 DEF MarkCommitted, ReadNext, Goto, Answer0
  <2> QED
    BY <2>1, <2>2, <2>3, <2>4, <2>5, <2>7, <2>8, <2>9, <2>10, <2>11, <2>12, <2>13, <2>14 DEF Serve
<1>5. Answers'
  BY <1>1, <1>4 DEF Answers
<1>6. \A y \in Sessions : Connected(y)' <=> Connected(y)
  BY <1>1 DEF Connected
<1>7. \A y \in Sessions : ~Connected(y) => socket'[y] = <<>>
  BY <1>1, <1>4 DEF Sole
<1>8. ASSUME NEW b \in Browsers, browser[b].session # NoSession
      PROVE  pc'[browser[b].session] \notin {"unused", "done"}
  <2>1. browser[b].session \in Sessions /\ Connected(browser[b].session)
    BY <1>8, SessionOf
  <2> QED
    BY <1>1, <1>4, <1>8, <2>1 DEF Sole
<1>9. Sole'
  BY <1>1, <1>6, <1>7, <1>8 DEF Sole
<1> QED
  BY <1>5, <1>9

LEMMA BroadcastSole ==
  ASSUME Typed, Sole, Answers,
         \/ \E a \in Sessions \cup Servers : SendNext(a)
         \/ \E s \in Servers : Subscriber(s)
         \/ \E id \in OpIds : CommitElsewhere(id)
  PROVE  Sole' /\ Answers'
<1>1. /\ socket \in [Sessions -> Seq(ToBrowser(log))] /\ sent \in [Sessions -> SentOf(log)]
  BY DEF Typed, BrowsersTyped
<1>2. /\ UNCHANGED <<failures, pc, request, browser>>
      /\ \A y \in Sessions : ~Connected(y) => socket'[y] = socket[y]
      /\ \A y \in Sessions : sent'[y].since = sent[y].since
  <2>1. ASSUME NEW a \in Sessions \cup Servers, SendNext(a)
        PROVE  /\ UNCHANGED <<failures, pc, request, browser>>
               /\ \A y \in Sessions : ~Connected(y) => socket'[y] = socket[y]
               /\ \A y \in Sessions : sent'[y].since = sent[y].since
    <3>1. PICK x \in Sessions, op \in Announcing(log) :
             /\ Send(x, op)
             /\ sent' = [sent EXCEPT ![x].broadcasts = Append(@, op.to)]
             /\ UNCHANGED <<log, failures, pc, request, inbox, browser>>
      BY <2>1, SendNextEffect
    <3>2. \A y \in Sessions : ~Connected(y) => socket'[y] = socket[y]
      BY <1>1, <3>1, SendEffect
    <3>3. \A y \in Sessions : sent'[y].since = sent[y].since
      BY <1>1, <3>1 DEF SentOf
    <3> QED
      BY <3>1, <3>2, <3>3
  <2>2. CASE \/ \E s \in Servers : Subscriber(s)
             \/ \E id \in OpIds : CommitElsewhere(id)
    BY <2>2 DEF Subscriber, Deliver, LoseMessage, CommitElsewhere, threads
  <2> QED
    BY <2>1, <2>2
<1>3. Answers'
  BY <1>2 DEF Answers, Answer0
<1>4. \A y \in Sessions : Connected(y)' <=> Connected(y)
  BY <1>2 DEF Connected
<1> QED
  BY <1>2, <1>3, <1>4 DEF Sole

LEMMA BrowserSole ==
  ASSUME Typed, Sole, Answers, NEW b \in Browsers, ShownOf(browser[b]), KeptOf(browser[b]),
         \/ \E x \in Sessions : Connect(b, x)
         \/ Disconnect(b)
         \/ \E id \in OpIds : Edit(b, id)
         \/ Receive(b)
  PROVE  Sole' /\ Answers'
<1>1. /\ socket \in [Sessions -> Seq(ToBrowser(log))] /\ pc \in [Sessions -> Labels]
      /\ browser \in [Browsers -> BrowsersOf(log)]
  BY DEF Typed, ThreadsTyped, BrowsersTyped
<1>2. ASSUME NEW x \in Sessions, Connect(b, x) PROVE Sole' /\ Answers'
  <2>1. /\ browser[b].session = NoSession /\ pc[x] = "unused"
        /\ browser' = [browser EXCEPT ![b].session = x]
        /\ pc' = [pc EXCEPT ![x] = "register"]
        /\ UNCHANGED <<failures, request, socket, sent>>
    BY <1>2 DEF Connect, Goto
  <2>2. \A c \in Browsers : browser[c].session # x
    BY <2>1, FanoutAssumption DEF Sole
  <2>3. /\ browser'[b].session = x /\ ~browser'[b].enabled
        /\ \A c \in Browsers : c # b => browser'[c] = browser[c]
    BY <1>1, <2>1 DEF Sole, BrowsersOf
  <2>4. pc'[x] = "register" /\ \A y : y \in Sessions /\ y # x => pc'[y] = pc[y]
    BY <1>1, <2>1
  <2>5. Answers'
    BY <2>1, <2>4 DEF Answers, Answer0
  <2>6. \A y \in Sessions : ~Connected(y)' => ~Connected(y)
    BY <2>1, <2>3, FanoutAssumption DEF Connected
  <2>7. \A y \in Sessions : ~Connected(y)' => socket'[y] = <<>>
    BY <2>1, <2>6 DEF Sole
  <2>8. ASSUME NEW c \in Browsers, browser'[c].session # NoSession
        PROVE  pc'[browser'[c].session] \notin {"unused", "done"}
    <3>1. CASE c = b
      BY <2>3, <2>4, <3>1
    <3>2. CASE c # b
      <4>1. browser'[c] = browser[c] /\ browser[c].session \in Sessions
        BY <2>3, <2>8, <3>2, SessionOf
      <4> QED
        BY <2>2, <2>4, <2>8, <4>1 DEF Sole
    <3> QED
      BY <3>1, <3>2
  <2>9. \A c, d \in Browsers : browser'[c].session = browser'[d].session /\ c # d
                                 => browser'[c].session = NoSession
    BY <2>2, <2>3 DEF Sole
  <2>10. \A c \in Browsers : browser'[c].enabled => browser'[c].session # NoSession /\ browser'[c].hasSession
    BY <2>3 DEF Sole
  <2> QED
    BY <2>5, <2>7, <2>8, <2>9, <2>10 DEF Sole
<1>3. ASSUME browser' = [browser EXCEPT ![b] = browser'[b]],
             browser'[b].session \in {browser[b].session, NoSession},
             browser'[b].enabled => browser'[b].session # NoSession /\ browser'[b].hasSession,
             UNCHANGED <<failures, pc, request, sent>>,
             NEW x, x = browser[b].session,
             \A y \in Sessions : y # x => socket'[y] = socket[y],
             browser'[b].session = x \/ socket'[x] = <<>>
      PROVE  Sole' /\ Answers'
  <2>1. Answers'
    BY <1>3 DEF Answers, Answer0
  <2>2. \A c \in Browsers : c # b => browser'[c] = browser[c]
    BY <1>1, <1>3
  <2>3. ASSUME NEW y \in Sessions, ~Connected(y)' PROVE socket'[y] = <<>>
    <3>1. CASE y = x
      BY <1>3, <2>3, <3>1 DEF Connected
    <3>2. CASE y # x
      <4>1. ~Connected(y)
        BY <1>3, <2>2, <2>3, <3>2 DEF Connected
      <4> QED
        BY <1>3, <3>2, <4>1 DEF Sole
    <3> QED
      BY <3>1, <3>2
  <2>4. \A c, d \in Browsers : browser'[c].session = browser'[d].session /\ c # d
                                 => browser'[c].session = NoSession
    BY <1>3, <2>2 DEF Sole
  <2>5. \A c \in Browsers : browser'[c].session # NoSession
                              => pc'[browser'[c].session] \notin {"unused", "done"}
    BY <1>3, <2>2 DEF Sole
  <2>6. \A c \in Browsers : browser'[c].enabled => browser'[c].session # NoSession /\ browser'[c].hasSession
    BY <1>3, <2>2 DEF Sole
  <2> QED
    BY <2>1, <2>3, <2>4, <2>5, <2>6 DEF Sole
<1>4. CASE Disconnect(b)
  <2>1. PICK x : x = browser[b].session
    OBVIOUS
  <2>2. /\ browser' = [browser EXCEPT ![b].session = NoSession, ![b].enabled = FALSE]
        /\ socket' = [socket EXCEPT ![x] = <<>>] /\ x # NoSession
        /\ UNCHANGED <<failures, pc, request, sent>>
    BY <1>4, <2>1 DEF Disconnect, threads
  <2>3. x \in Sessions
    BY <2>1, <2>2, SessionOf
  <2>4. /\ browser' = [browser EXCEPT ![b] = browser'[b]]
        /\ browser'[b].session = NoSession /\ ~browser'[b].enabled
    BY <1>1, <2>2 DEF BrowsersOf
  <2>5. socket'[x] = <<>> /\ \A y \in Sessions : y # x => socket'[y] = socket[y]
    BY <1>1, <2>2, <2>3
  <2> QED
    BY <1>3, <2>1, <2>2, <2>4, <2>5
<1>5. ASSUME NEW id \in OpIds, Edit(b, id) PROVE Sole' /\ Answers'
  <2>1. /\ browser' = [browser EXCEPT ![b].pending = Append(@, id), ![b].edited = @ \cup {id}]
        /\ UNCHANGED <<failures, pc, request, socket, sent>>
    BY <1>5 DEF Edit, threads
  <2>2. /\ browser' = [browser EXCEPT ![b] = browser'[b]]
        /\ browser'[b].session = browser[b].session /\ browser'[b].enabled = browser[b].enabled
        /\ browser'[b].hasSession = browser[b].hasSession
    BY <1>1, <2>1 DEF BrowsersOf
  <2> QED
    BY <1>3, <2>1, <2>2 DEF Sole
<1>6. CASE Receive(b)
  <2>1. browser[b].enabled => browser[b].hasSession
    BY DEF Sole
  <2>2. PICK br, frames : Taking(b, br, frames)
    BY <1>6, <2>1, ReceiveTaken
  <2>3. PICK x : x = browser[b].session
    OBVIOUS
  <2>4. /\ x \in Sessions /\ socket' = [socket EXCEPT ![x] = Tail(@)]
        /\ browser' = [browser EXCEPT ![b] = br]
        /\ UNCHANGED <<failures, pc, request, sent>>
        /\ br.session = x /\ (br.enabled => br.hasSession)
    BY <2>2, <2>3 DEF Taking
  <2>5. browser'[b] = br /\ x # NoSession /\ \A y \in Sessions : y # x => socket'[y] = socket[y]
    BY <1>1, <2>4, FanoutAssumption
  <2> QED
    BY <1>3, <2>3, <2>4, <2>5
<1> QED
  BY <1>2, <1>4, <1>5, <1>6

-----------------------------------------------------------------------------
(* A browser's text and what was typed, when the log grows.                *)
LEMMA TextKept ==
  ASSUME Typed, Typed', Longer, NEW c \in Browsers, ShownOf(browser[c]), NEW w,
         View(w) = View(browser[c]), w.text = browser[c].text
  PROVE  ShownOf(w)'
<1>1. /\ log \in Seq(OpIds) /\ Len(log) \in Nat /\ log' \in Seq(OpIds) /\ IsInjective(log')
      /\ Len(log') \in Nat /\ browser[c] \in BrowsersOf(log)
  BY DEF Typed, StoreTyped, BrowsersTyped
<1>2. PICK v : v = View(browser[c])
  OBVIOUS
<1>3. /\ v.revision = browser[c].revision /\ v.orderly = browser[c].orderly
      /\ w.revision = v.revision /\ w.orderly = v.orderly
      /\ v.revision \in 0 .. Len(log) /\ v.base \in Nat
  BY <1>1, <1>2 DEF View, BrowsersOf, RevsOf
<1>4. Known(log, v)
  BY <1>2 DEF ShownOf
<1>5. ToSet(log) \subseteq ToSet(log')
  <2>1. \A i \in DOMAIN log : i \in DOMAIN log' /\ log'[i] = log[i]
    BY <1>1 DEF Longer
  <2> QED
    BY <2>1 DEF ToSet
<1>6. ASSUME v.orderly, NEW r \in DOMAIN log', log'[r] \in v.applied PROVE r <= v.revision
  <2>1. PICK i \in DOMAIN log : log[i] = log'[r]
    BY <1>4, <1>6 DEF Known, ToSet
  <2>2. i \in DOMAIN log' /\ log'[i] = log'[r]
    BY <1>1, <2>1 DEF Longer
  <2>3. i = r
    BY <1>1, <1>6, <2>2 DEF IsInjective
  <2> QED
    BY <1>4, <1>6, <2>1, <2>3 DEF Known
<1>7. ASSUME v.orderly, NEW r \in v.base + 1 .. v.revision PROVE log'[r] \in v.applied
  <2>1. r \in DOMAIN log /\ log[r] \in v.applied
    BY <1>1, <1>3, <1>4, <1>7 DEF Known
  <2> QED
    BY <2>1 DEF Longer
<1>8. Known(log', v)
  BY <1>1, <1>3, <1>4, <1>5, <1>6, <1>7 DEF Known, Longer
<1>9. SubSeq(log', 1, v.revision) = SubSeq(log, 1, v.revision)
  <2>1. \A i \in 1 .. v.revision : i \in DOMAIN log /\ log'[i] = log[i]
    BY <1>1, <1>3 DEF Longer
  <2> QED
    BY <1>1, <1>3, <2>1 DEF Longer
<1>10. w.orderly => w.text = SubSeq(log', 1, w.revision)
  BY <1>3, <1>9 DEF ShownOf
<1> QED
  BY <1>2, <1>8, <1>10 DEF ShownOf

LEMMA TypedInKept ==
  ASSUME Typed, Typed', Longer, NEW c \in Browsers, KeptOf(browser[c]), NEW w,
         w.hasSession = browser[c].hasSession, w.pending = browser[c].pending,
         w.edited = browser[c].edited, w.cleared = browser[c].cleared
  PROVE  KeptOf(w)'
<1>1. log \in Seq(OpIds) /\ Len(log) \in Nat /\ log' \in Seq(OpIds) /\ Len(log') \in Nat
  BY DEF Typed, StoreTyped
<1>2. \A i \in DOMAIN log : i \in DOMAIN log' /\ log'[i] = log[i]
  BY <1>1 DEF Longer
<1>3. ToSet(log) \subseteq ToSet(log')
  BY <1>2 DEF ToSet
<1> QED
  BY <1>3 DEF KeptOf

LEMMA BrowserKeeps ==
  ASSUME Typed, Typed', Longer, Sole, NEW c \in Browsers,
         ShownOf(browser[c]), KeptOf(browser[c]),
         NEW b \in Browsers, ShownOf(browser[b]), KeptOf(browser[b]),
         \/ \E x \in Sessions : Connect(b, x)
         \/ Disconnect(b)
         \/ \E id \in OpIds : Edit(b, id)
         \/ Receive(b)
  PROVE  ShownOf(browser[c])' /\ KeptOf(browser[c])'
<1>1. browser \in [Browsers -> BrowsersOf(log)]
  BY DEF Typed, BrowsersTyped
<1>2. CASE /\ View(browser'[c]) = View(browser[c]) /\ browser'[c].text = browser[c].text
           /\ browser'[c].hasSession = browser[c].hasSession
           /\ browser'[c].pending = browser[c].pending
           /\ browser'[c].edited = browser[c].edited /\ browser'[c].cleared = browser[c].cleared
  <2>1. PICK w : w = browser'[c]
    OBVIOUS
  <2>2. ShownOf(w)'
    BY <1>2, <2>1, TextKept
  <2>3. KeptOf(w)'
    BY <1>2, <2>1, TypedInKept
  <2> QED
    BY <2>1, <2>2, <2>3 DEF ShownOf, KeptOf
<1>3. CASE (\E x \in Sessions : Connect(b, x)) \/ Disconnect(b)
  <2>1. \/ \E x : browser' = [browser EXCEPT ![b].session = x]
        \/ browser' = [browser EXCEPT ![b].session = NoSession, ![b].enabled = FALSE]
    BY <1>3 DEF Connect, Disconnect
  <2>2. /\ browser'[c].revision = browser[c].revision /\ browser'[c].text = browser[c].text
        /\ browser'[c].applied = browser[c].applied /\ browser'[c].orderly = browser[c].orderly
        /\ browser'[c].base = browser[c].base
        /\ browser'[c].hasSession = browser[c].hasSession
        /\ browser'[c].pending = browser[c].pending
        /\ browser'[c].edited = browser[c].edited /\ browser'[c].cleared = browser[c].cleared
    <3>1. CASE \E x : browser' = [browser EXCEPT ![b].session = x]
      BY <1>1, <3>1 DEF BrowsersOf
    <3>2. CASE browser' = [browser EXCEPT ![b].session = NoSession, ![b].enabled = FALSE]
      BY <1>1, <3>2 DEF BrowsersOf
    <3> QED
      BY <2>1, <3>1, <3>2
  <2> QED
    BY <1>2, <2>2 DEF View
<1>4. ASSUME NEW id \in OpIds, Edit(b, id)
      PROVE  ShownOf(browser[c])' /\ KeptOf(browser[c])'
  <2>1. /\ browser' = [browser EXCEPT ![b].pending = Append(@, id), ![b].edited = @ \cup {id}]
        /\ browser[b].enabled /\ log' = log
    BY <1>4 DEF Edit, store
  <2>2. CASE c # b
    <3>1. browser'[c] = browser[c]
      BY <1>1, <2>1, <2>2
    <3> QED
      BY <1>2, <3>1
  <2>3. CASE c = b
    <3>1. PICK w : w = browser'[b]
      OBVIOUS
    <3>2. /\ w.pending = Append(browser[b].pending, id) /\ w.edited = browser[b].edited \cup {id}
          /\ w.hasSession = browser[b].hasSession /\ w.cleared = browser[b].cleared
          /\ View(w) = View(browser[b]) /\ w.text = browser[b].text
      BY <1>1, <2>1, <3>1 DEF View, BrowsersOf
    <3>3. ShownOf(w)'
      BY <2>3, <3>2, TextKept
    <3>4. browser[b].pending \in Seq(OpIds) /\ w.hasSession
      BY <1>1, <2>1, <3>2 DEF Sole, BrowsersOf
    <3>5. ToSet(w.pending) = ToSet(browser[b].pending) \cup {id}
      BY <3>2, <3>4, AppendHolds
    <3>6. KeptOf(w)
      BY <3>2, <3>4, <3>5 DEF KeptOf
    <3> QED
      BY <2>1, <2>3, <3>1, <3>3, <3>6 DEF ShownOf, KeptOf
  <2> QED
    BY <2>2, <2>3
<1>5. CASE Receive(b)
  <2>1. browser[b].enabled => browser[b].hasSession
    BY DEF Sole
  <2>2. PICK br, frames : Taking(b, br, frames)
    BY <1>5, <2>1, ReceiveTaken
  <2>3. /\ browser' = [browser EXCEPT ![b] = br] /\ log' = log
        /\ ShownOf(br) /\ KeptOf(br)
    BY <2>2 DEF Taking
  <2>4. CASE c # b
    <3>1. browser'[c] = browser[c]
      BY <1>1, <2>3, <2>4
    <3> QED
      BY <1>2, <3>1
  <2>5. CASE c = b
    <3>1. browser'[c] = br
      BY <1>1, <2>3, <2>5
    <3> QED
      BY <2>3, <3>1 DEF ShownOf, KeptOf
  <2> QED
    BY <2>4, <2>5
<1> QED
  BY <1>3, <1>4, <1>5

-----------------------------------------------------------------------------
(* What is typed stays on its way until it is settled.                     *)
LEMMA ServeCarries ==
  ASSUME Typed, Answers, NEW x \in Sessions, Serve(x), failures' = 0,
         NEW y \in Sessions, Connected(y), NEW id, Carried(y, id)
  PROVE  Carried(y, id)'
<1>1. /\ failures = 0 /\ ~Fails
      /\ \A z \in Sessions : z # x =>
           /\ pc'[z] = pc[z] /\ request'[z] = request[z]
           /\ inbox'[z] = inbox[z] /\ socket'[z] = socket[z]
  <2>1. failures \in Nat /\ failures <= failures'
    BY ServeElsewhere, FanoutAssumption DEF Typed, StoreTyped
  <2> QED
    BY <2>1, ServeElsewhere DEF Fails
<1>2. /\ pc \in [Sessions -> Labels] /\ request \in [Sessions -> ToBrowser(log)]
      /\ inbox \in [Sessions -> Seq(FromBrowser(log))] /\ socket \in [Sessions -> Seq(ToBrowser(log))]
      /\ failures \in Nat
  BY FanoutAssumption DEF Typed, StoreTyped, ThreadsTyped, BrowsersTyped
<1>3. CASE y # x
  BY <1>1, <1>3 DEF Carried
<1>4. CASE y = x
  <2>1. inbox[x] \in Seq(FromBrowser(log)) /\ socket[x] \in Seq(ToBrowser(log))
        /\ request[x] \in ToBrowser(log)
    BY <1>2
  <2>2. ASSUME NEW f \in ToBrowser(log), Send(x, f)
        PROVE  ToSet(socket'[x]) = ToSet(socket[x]) \cup {f}
    <3>1. socket'[x] = Append(socket[x], f)
      BY <1>2, <1>4, <2>2, SendEffect
    <3> QED
      BY <2>1, <3>1, AppendHolds
  <2>3. ASSUME inbox[x] # <<>>, inbox'[x] = Tail(inbox[x])
        PROVE  ToSet(inbox[x]) = {Head(inbox[x])} \cup ToSet(inbox'[x])
    BY <2>1, <2>3, TailHolds
  <2>4. CASE Register(x)
    <3>1. pc[x] = "register" /\ UNCHANGED <<inbox, socket>>
      BY <2>4 DEF Register
    <3> QED
      BY <1>4, <3>1 DEF Carried
  <2>5. CASE SnapshotContent(x) \/ SnapshotRevision(x)
    <3>1. pc[x] \in {"content", "revision"} /\ UNCHANGED <<inbox, socket>>
      BY <2>5 DEF SnapshotContent, SnapshotRevision
    <3> QED
      BY <1>4, <3>1 DEF Carried
  <2>6. CASE SendInit(x)
    <3>1. pc[x] = "init" /\ UNCHANGED inbox /\ Send(x, request[x])
      BY <2>6 DEF SendInit
    <3>2. ToSet(socket[x]) \subseteq ToSet(socket'[x])
      BY <2>1, <2>2, <3>1
    <3> QED
      BY <1>4, <3>1, <3>2 DEF Carried
  <2>7. CASE ReadClosed(x)
    BY <1>4, <2>7 DEF ReadClosed
  <2>8. ASSUME NEW f, NEW label, Answer(x, f, label) PROVE pc'[x] = label
    BY <1>2, <2>8 DEF Answer, Goto
  <2>9. CASE CatchUpContent(x) \/ CatchUpRevision(x) \/ CatchUpOperations(x) \/ CatchUpPersisted(x)
    <3>1. pc'[x] \in {"behind", "operations", "persisted", "reply"}
      BY <2>8, <2>9 DEF CatchUpContent, CatchUpRevision, CatchUpOperations, CatchUpPersisted,
                        AnswerSync, Fetched
    <3> QED
      BY <1>4, <3>1 DEF Carried
  <2>10. CASE Reply(x)
    <3>1. pc[x] = "reply" /\ Send(x, request[x])
      BY <2>10 DEF Reply
    <3>2. request[x] \in ToSet(socket'[x])
      BY <2>1, <2>2, <3>1
    <3>3. Settles(request[x], id)
      BY <1>1, <3>1 DEF Answers, Answer0, Settles
    <3> QED
      BY <1>4, <3>2, <3>3 DEF Carried
  <2>11. CASE CommitOp(x)
    <3>1. PICK f, q : f = Head(inbox[x]) /\ q = request'[x]
      OBVIOUS
    <3>2. /\ pc[x] = "read" /\ inbox[x] # <<>> /\ inbox'[x] = Tail(inbox[x]) /\ UNCHANGED socket
          /\ f.kind = "op" /\ pc'[x] = "ack" /\ q.opId = f.opId
      BY <1>2, <2>11, <3>1 DEF CommitOp, Reads, Goto, Frame
    <3>3. ToSet(inbox[x]) = {f} \cup ToSet(inbox'[x])
      BY <2>3, <3>1, <3>2
    <3>4. Resends(f, id) => q.opId = id
      BY <3>2 DEF Resends
    <3> QED
      BY <1>4, <3>1, <3>2, <3>3, <3>4 DEF Carried
  <2>12. CASE CommitThrows(x)
    BY <1>1, <2>12 DEF CommitThrows
  <2>13. CASE Acknowledge(x)
    <3>1. pc[x] = "ack" /\ UNCHANGED inbox /\ Send(x, request[x])
      BY <2>13 DEF Acknowledge
    <3>2. ToSet(socket'[x]) = ToSet(socket[x]) \cup {request[x]}
      BY <2>1, <2>2, <3>1
    <3>3. request[x].kind = "op"
      BY <3>1 DEF Typed, ThreadsTyped, Announcing
    <3>4. request[x].opId = id => Settles(request[x], id)
      BY <3>3 DEF Settles
    <3> QED
      BY <1>4, <3>1, <3>2, <3>4 DEF Carried
  <2>14. CASE MarkCommitted(x)
    <3>1. pc[x] = "mark" /\ UNCHANGED <<inbox, socket>>
      BY <2>14 DEF MarkCommitted
    <3> QED
      BY <1>4, <3>1 DEF Carried
  <2> QED
    BY <2>4, <2>5, <2>6, <2>7, <2>9, <2>10, <2>11, <2>12, <2>13, <2>14 DEF Serve
<1> QED
  BY <1>3, <1>4

LEMMA BroadcastCarries ==
  ASSUME Typed, NEW y \in Sessions, NEW id, Carried(y, id),
         \/ \E a \in Sessions \cup Servers : SendNext(a)
         \/ \E s \in Servers : Subscriber(s)
         \/ \E i \in OpIds : CommitElsewhere(i)
  PROVE  Carried(y, id)'
<1>1. ASSUME NEW a \in Sessions \cup Servers, SendNext(a) PROVE Carried(y, id)'
  <2>1. PICK x \in Sessions, op \in Announcing(log) :
           Send(x, op) /\ UNCHANGED <<pc, request, inbox>>
    BY <1>1, SendNextEffect
  <2>2. ToSet(socket[y]) \subseteq ToSet(socket'[y])
    <3>1. socket \in [Sessions -> Seq(ToBrowser(log))] /\ op \in ToBrowser(log)
      <4>1. op \in ToBrowser(log)
        BY DEF ToBrowser, Announcing, FramesOf
      <4> QED
        BY <4>1 DEF Typed, BrowsersTyped
    <3>2. socket'[y] = socket[y] \/ socket'[y] = Append(socket[y], op)
      BY <2>1, <3>1, SendEffect
    <3>3. socket[y] \in Seq(ToBrowser(log))
      BY <3>1
    <3> QED
      <4>1. ToSet(Append(socket[y], op)) = ToSet(socket[y]) \cup {op}
        BY <3>1, <3>3, AppendHolds
      <4> QED
        BY <3>2, <4>1
  <2> QED
    BY <2>1, <2>2 DEF Carried
<1>2. CASE \/ \E s \in Servers : Subscriber(s)
           \/ \E i \in OpIds : CommitElsewhere(i)
  <2>1. UNCHANGED <<pc, request, inbox, socket>>
    BY <1>2 DEF Subscriber, Deliver, LoseMessage, CommitElsewhere, threads
  <2> QED
    BY <2>1 DEF Carried
<1> QED
  BY <1>1, <1>2

LEMMA BrowserCarries ==
  ASSUME Typed, Sole, NEW c \in Browsers, CarriedFor(c),
         NEW b \in Browsers, ShownOf(browser[b]), KeptOf(browser[b]),
         \/ \E x \in Sessions : Connect(b, x)
         \/ Disconnect(b)
         \/ \E id \in OpIds : Edit(b, id)
         \/ Receive(b)
  PROVE  CarriedFor(c)'
<1>1. /\ socket \in [Sessions -> Seq(ToBrowser(log))] /\ inbox \in [Sessions -> Seq(FromBrowser(log))]
      /\ pc \in [Sessions -> Labels] /\ request \in [Sessions -> ToBrowser(log)]
      /\ browser \in [Browsers -> BrowsersOf(log)] /\ log \in Seq(OpIds)
  BY DEF Typed, StoreTyped, ThreadsTyped, BrowsersTyped
<1>2. PICK y : y = browser[c].session
  OBVIOUS
<1>3. y # NoSession => y \in Sessions
  BY <1>2, SessionOf
<1>4. ASSUME c # b, browser'[c] = browser[c], failures' = failures,
             y # NoSession =>
               /\ pc'[y] = pc[y] /\ request'[y] = request[y]
               /\ inbox'[y] = inbox[y] /\ socket'[y] = socket[y]
      PROVE  CarriedFor(c)'
  <2>1. browser[c].enabled => y # NoSession
    BY <1>2 DEF Sole
  <2> QED
    BY <1>2, <1>4, <2>1 DEF CarriedFor, Carried
<1>5. c # b /\ y # NoSession => y # browser[b].session
  BY <1>2 DEF Sole
<1>6. ASSUME NEW x \in Sessions, Connect(b, x) PROVE CarriedFor(c)'
  <2>1. /\ browser[b].session = NoSession /\ pc[x] = "unused"
        /\ browser' = [browser EXCEPT ![b].session = x]
        /\ inbox' = [inbox EXCEPT ![x] = IF browser[b].hasSession THEN <<Sync(b)>> ELSE <<>>]
        /\ pc' = [pc EXCEPT ![x] = "register"]
        /\ UNCHANGED <<failures, request, socket>>
    BY <1>6 DEF Connect, Goto
  <2>2. CASE c = b
    <3>1. ~browser'[c].enabled
      BY <1>1, <2>1, <2>2 DEF Sole, BrowsersOf
    <3> QED
      BY <3>1 DEF CarriedFor
  <2>3. CASE c # b
    <3>1. y # NoSession => y # x
      BY <1>2, <2>1 DEF Sole
    <3>2. y # NoSession => pc'[y] = pc[y] /\ inbox'[y] = inbox[y]
      BY <1>1, <1>3, <2>1, <3>1
    <3>3. browser'[c] = browser[c]
      BY <1>1, <2>1, <2>3
    <3> QED
      BY <1>4, <2>1, <2>3, <3>2, <3>3
  <2> QED
    BY <2>2, <2>3
<1>7. CASE Disconnect(b)
  <2>1. PICK x : x = browser[b].session
    OBVIOUS
  <2>2. PICK n : inbox' = [inbox EXCEPT ![x] = SubSeq(@, 1, n)]
    BY <1>7, <2>1 DEF Disconnect
  <2>3. /\ browser' = [browser EXCEPT ![b].session = NoSession, ![b].enabled = FALSE]
        /\ socket' = [socket EXCEPT ![x] = <<>>]
        /\ UNCHANGED <<failures, pc, request>>
    BY <1>7, <2>1 DEF Disconnect, threads
  <2>4. CASE c = b
    <3>1. ~browser'[c].enabled
      BY <1>1, <2>3, <2>4 DEF BrowsersOf
    <3> QED
      BY <3>1 DEF CarriedFor
  <2>5. CASE c # b
    <3>1. browser'[c] = browser[c]
      BY <1>1, <2>3, <2>5
    <3>2. y # NoSession => inbox'[y] = inbox[y] /\ socket'[y] = socket[y]
      BY <1>1, <1>3, <1>5, <2>1, <2>2, <2>3, <2>5
    <3> QED
      BY <1>4, <2>3, <2>5, <3>1, <3>2
  <2> QED
    BY <2>4, <2>5
<1>8. ASSUME NEW id \in OpIds, Edit(b, id) PROVE CarriedFor(c)'
  <2>1. PICK x : x = browser[b].session
    OBVIOUS
  <2>2. PICK g : g = Op(id)
    OBVIOUS
  <2>3. /\ browser' = [browser EXCEPT ![b].pending = Append(@, id), ![b].edited = @ \cup {id}]
        /\ inbox' = [inbox EXCEPT ![x] = Append(@, g)] /\ browser[b].enabled
        /\ UNCHANGED <<failures, pc, request, socket>>
    BY <1>8, <2>1, <2>2 DEF Edit, threads
  <2>4. CASE c # b
    <3>1. browser'[c] = browser[c]
      BY <1>1, <2>3, <2>4
    <3>2. y # NoSession => inbox'[y] = inbox[y]
      BY <1>1, <1>3, <1>5, <2>1, <2>3, <2>4
    <3> QED
      BY <1>4, <2>3, <2>4, <3>1, <3>2
  <2>5. CASE c = b
    <3>1. y = x /\ x \in Sessions
      BY <1>2, <1>3, <2>1, <2>3, <2>5 DEF Sole
    <3>2. g \in FromBrowser(log) /\ g.kind = "op" /\ g.opId = id
      <4>1. <<>> \in Seq(RevsOf(log)) /\ 0 \in RevsOf(log)
        BY <1>1 DEF RevsOf
      <4> QED
        BY <2>2, <4>1 DEF Op, Frame, FromBrowser, FramesOf
    <3>3. ToSet(inbox'[x]) = ToSet(inbox[x]) \cup {g}
      <4>1. inbox[x] \in Seq(FromBrowser(log)) /\ inbox'[x] = Append(inbox[x], g)
        BY <1>1, <2>3, <3>1
      <4> QED
        BY <3>2, <4>1, AppendHolds
    <3>4. /\ browser'[b].session = x /\ browser'[b].enabled = browser[b].enabled
          /\ browser'[b].pending = Append(browser[b].pending, id)
          /\ browser[b].pending \in Seq(OpIds)
      BY <1>1, <2>1, <2>3 DEF BrowsersOf
    <3>5. ToSet(browser'[b].pending) = ToSet(browser[b].pending) \cup {id}
      BY <3>4, AppendHolds
    <3>6. Carried(x, id)'
      BY <3>2, <3>3 DEF Carried, Resends
    <3>7. \A i : Carried(x, i) => Carried(x, i)'
      BY <2>3, <3>3 DEF Carried
    <3> QED
      BY <1>2, <2>3, <2>5, <3>1, <3>4, <3>5, <3>6, <3>7 DEF CarriedFor
  <2> QED
    BY <2>4, <2>5
<1>9. CASE Receive(b)
  <2>1. browser[b].enabled => browser[b].hasSession
    BY DEF Sole
  <2>2. PICK br, frames : Taking(b, br, frames)
    BY <1>9, <2>1, ReceiveTaken
  <2>3. PICK x, f : x = browser[b].session /\ f = Arriving(b)
    OBVIOUS
  <2>4. /\ x \in Sessions /\ socket[x] # <<>> /\ frames \in Seq(FromBrowser(log))
        /\ socket' = [socket EXCEPT ![x] = Tail(@)]
        /\ browser' = [browser EXCEPT ![b] = br]
        /\ inbox' = [inbox EXCEPT ![x] = @ \o frames]
        /\ UNCHANGED <<failures, pc, request>>
        /\ br.session = x /\ f = Head(socket[x])
        /\ br.enabled => \A id \in ToSet(br.pending) :
             \/ \E g \in ToSet(frames) : Resends(g, id)
             \/ browser[b].enabled /\ id \in ToSet(browser[b].pending) /\ ~Settles(f, id)
    BY <2>2, <2>3 DEF Taking, Arriving
  <2>5. CASE c # b
    <3>1. browser'[c] = browser[c]
      BY <1>1, <2>4, <2>5
    <3>2. y # NoSession => inbox'[y] = inbox[y] /\ socket'[y] = socket[y]
      BY <1>1, <1>3, <1>5, <2>3, <2>4, <2>5
    <3> QED
      BY <1>4, <2>4, <2>5, <3>1, <3>2
  <2>6. CASE c = b
    <3>1. /\ browser'[b] = br /\ socket'[x] = Tail(socket[x]) /\ inbox'[x] = inbox[x] \o frames
          /\ inbox[x] \in Seq(FromBrowser(log)) /\ socket[x] \in Seq(ToBrowser(log))
      BY <1>1, <2>4
    <3>2. ToSet(inbox[x]) \subseteq ToSet(inbox'[x]) /\ ToSet(frames) \subseteq ToSet(inbox'[x])
      <4>1. /\ \A i \in DOMAIN inbox[x] : i \in DOMAIN inbox'[x] /\ inbox'[x][i] = inbox[x][i]
            /\ \A i \in DOMAIN frames : Len(inbox[x]) + i \in DOMAIN inbox'[x]
                                        /\ inbox'[x][Len(inbox[x]) + i] = frames[i]
        BY <2>4, <3>1
      <4> QED
        BY <4>1 DEF ToSet
    <3>3. ToSet(socket[x]) = {f} \cup ToSet(socket'[x])
      BY <2>4, <3>1, TailHolds
    <3>4. SUFFICES ASSUME failures = 0, br.enabled, NEW id \in ToSet(br.pending)
                   PROVE  Carried(x, id)'
      BY <2>4, <2>6, <3>1 DEF CarriedFor
    <3>5. CASE \E g \in ToSet(frames) : Resends(g, id)
      BY <3>2, <3>5 DEF Carried
    <3>6. CASE browser[b].enabled /\ id \in ToSet(browser[b].pending) /\ ~Settles(f, id)
      <4>1. Carried(x, id)
        BY <2>3, <2>6, <3>4, <3>6 DEF CarriedFor
      <4> QED
        BY <2>4, <3>2, <3>3, <3>6, <4>1 DEF Carried
    <3> QED
      BY <2>4, <3>4, <3>5, <3>6
  <2> QED
    BY <2>5, <2>6
<1> QED
  BY <1>6, <1>7, <1>8, <1>9

LEMMA InitShown == Init => BrowsersInv
<1> SUFFICES ASSUME Init PROVE BrowsersInv
  OBVIOUS
<1>1. Sole
  BY FanoutAssumption DEF Init, Sole, Connected, NewBrowser
<1>2. Answers
  BY DEF Init, Answers, Answer0
<1>3. ASSUME NEW b \in Browsers
      PROVE  ShownOf(browser[b]) /\ KeptOf(browser[b]) /\ ShowsTo(b) /\ CarriedFor(b)
  <2>1. browser[b] = NewBrowser /\ log = <<>> /\ Len(log) = 0
    BY DEF Init
  <2>2. SubSeq(log, 1, 0) = <<>>
    BY <2>1
  <2>3. ShownOf(browser[b])
    BY <2>1, <2>2 DEF ShownOf, Known, View, NewBrowser
  <2> QED
    BY <2>1, <2>3, EmptyHolds DEF NewBrowser, KeptOf, ShowsTo, CarriedFor
<1> QED
  BY <1>1, <1>2, <1>3 DEF BrowsersInv

LEMMA NextShown ==
  ASSUME Typed, Typed', BrowsersInv, [Next]_vars
  PROVE  BrowsersInv'
<1>1. Longer
  BY LogKept DEF Longer
<1>2. /\ Sole /\ Answers
      /\ \A b \in Browsers :
           ShownOf(browser[b]) /\ KeptOf(browser[b]) /\ ShowsTo(b) /\ CarriedFor(b)
  BY DEF BrowsersInv
<1>3. ASSUME NEW b \in Browsers, browser'[b] = browser[b]
      PROVE  ShownOf(browser[b])' /\ KeptOf(browser[b])'
  <2>1. PICK w : w = browser'[b]
    OBVIOUS
  <2>2. ShownOf(w)'
    BY <1>1, <1>2, <1>3, <2>1, TextKept
  <2>3. KeptOf(w)'
    BY <1>1, <1>2, <1>3, <2>1, TypedInKept
  <2> QED
    BY <2>1, <2>2, <2>3 DEF ShownOf, KeptOf
<1>4. ASSUME NEW b \in Browsers, browser' = browser, failures \in Nat, failures' \in Nat,
             failures <= failures',
             \A y \in Sessions : \A id : failures' = 0 /\ Connected(y) /\ Carried(y, id) => Carried(y, id)'
      PROVE  CarriedFor(b)'
  <2>1. SUFFICES ASSUME failures' = 0, browser[b].enabled, NEW id \in ToSet(browser[b].pending)
                 PROVE  Carried(browser[b].session, id)'
    BY <1>4 DEF CarriedFor
  <2>2. failures = 0 /\ browser[b].session # NoSession
    BY <1>2, <1>4, <2>1 DEF Sole
  <2>3. browser[b].session \in Sessions /\ Connected(browser[b].session)
    BY <2>2, SessionOf
  <2> QED
    BY <1>2, <1>4, <2>1, <2>2, <2>3 DEF CarriedFor
<1>5. failures \in Nat /\ failures' \in Nat
  BY FanoutAssumption DEF Typed, StoreTyped
<1>6. ASSUME NEW x \in Sessions, Serve(x) PROVE BrowsersInv'
  <2>1. browser' = browser /\ failures <= failures'
    BY <1>6, ServeElsewhere
  <2>2. Sole' /\ Answers'
    BY <1>2, <1>6, ServeSole
  <2>3. \A y \in Sessions : \A id : failures' = 0 /\ Connected(y) /\ Carried(y, id) => Carried(y, id)'
    BY <1>2, <1>6, ServeCarries
  <2>4. \A b \in Browsers : ShowsTo(b)'
    BY <1>1, <1>2, <1>6, ServeShows
  <2>5. \A b \in Browsers : ShownOf(browser[b])' /\ KeptOf(browser[b])'
    BY <1>3, <2>1
  <2>6. \A b \in Browsers : CarriedFor(b)'
    BY <1>4, <1>5, <2>1, <2>3
  <2> QED
    BY <2>2, <2>4, <2>5, <2>6 DEF BrowsersInv
<1>7. CASE \/ \E a \in Sessions \cup Servers : SendNext(a)
           \/ \E s \in Servers : Subscriber(s)
           \/ \E id \in OpIds : CommitElsewhere(id)
  <2>1. browser' = browser /\ failures' = failures
    BY <1>7 DEF SendNext, Subscriber, Deliver, LoseMessage, CommitElsewhere
  <2>2. Sole' /\ Answers'
    BY <1>2, <1>7, BroadcastSole
  <2>3. \A y \in Sessions : \A id : Carried(y, id) => Carried(y, id)'
    BY <1>7, BroadcastCarries
  <2>4. \A b \in Browsers : ShowsTo(b)'
    BY <1>1, <1>2, <1>7, BroadcastShows
  <2>5. \A b \in Browsers : ShownOf(browser[b])' /\ KeptOf(browser[b])'
    BY <1>3, <2>1
  <2>6. \A b \in Browsers : CarriedFor(b)'
    BY <1>4, <1>5, <2>1, <2>3
  <2> QED
    BY <2>2, <2>4, <2>5, <2>6 DEF BrowsersInv
<1>8. ASSUME NEW b \in Browsers,
             \/ \E x \in Sessions : Connect(b, x)
             \/ Disconnect(b)
             \/ \E id \in OpIds : Edit(b, id)
             \/ Receive(b)
      PROVE  BrowsersInv'
  <2>1. Sole' /\ Answers'
    BY <1>2, <1>8, BrowserSole
  <2>2. \A c \in Browsers : ShowsTo(c)'
    BY <1>1, <1>2, <1>8, BrowserShows
  <2>3. \A c \in Browsers : ShownOf(browser[c])' /\ KeptOf(browser[c])'
    BY <1>1, <1>2, <1>8, BrowserKeeps
  <2>4. \A c \in Browsers : CarriedFor(c)'
    BY <1>2, <1>8, BrowserCarries
  <2> QED
    BY <2>1, <2>2, <2>3, <2>4 DEF BrowsersInv
<1>9. CASE UNCHANGED vars
  <2>1. UNCHANGED <<log, failures, pc, request, inbox, socket, browser, sent>>
    BY <1>9 DEF vars, store, threads
  <2>2. Sole' /\ Answers'
    BY <1>2, <2>1 DEF Sole, Answers, Answer0, Connected
  <2>3. \A b \in Browsers : ShownOf(browser[b])' /\ KeptOf(browser[b])'
    BY <1>3, <2>1
  <2>4. \A b \in Browsers : ShowsTo(b)'
    BY <1>2, <2>1 DEF ShowsTo
  <2>5. \A b \in Browsers : CarriedFor(b)'
    BY <1>2, <2>1 DEF CarriedFor, Carried
  <2> QED
    BY <2>2, <2>3, <2>4, <2>5 DEF BrowsersInv
<1> QED
  BY <1>6, <1>7, <1>8, <1>9 DEF Next

LEMMA ShownAlways == Spec => [](Typed /\ BrowsersInv)
<1>1. Init => Typed /\ BrowsersInv
  BY InitTyped, InitShown
<1>2. (Typed /\ BrowsersInv) /\ [Next]_vars => (Typed /\ BrowsersInv)'
  BY NextTyped, NextShown
<1> QED
  BY <1>1, <1>2, PTL DEF Spec

(* Browsers that received every operation in its turn show the text of     *)
(* their revision, whatever connections ended, catch-ups overlapped        *)
(* broadcasts, sessions were joined and calls of the store failed          *)
(* meanwhile.  While none fails they show the server's text when nothing is*)
(* under way: what the client loop, send_catch_up and the fan-out owe a    *)
(* browser is on its socket, being sent, or asked for.                     *)
THEOREM OrderlyBrowsersConverge == Spec => []OrderlyConverge
<1>1. ASSUME Typed, BrowsersInv, EveryoneIsTold, Quiet, NothingLost, failures = 0,
             NEW b \in Browsers, browser[b].enabled, browser[b].orderly
      PROVE  browser[b].text = log
  <2>2. PICK x, v : x = browser[b].session /\ v = View(browser[b])
    OBVIOUS
  <2>3. x # NoSession /\ browser[b].hasSession /\ pc[x] \notin {"unused", "done"}
    BY <1>1, <2>2 DEF BrowsersInv, Sole
  <2>4. x \in Sessions
    BY <1>1, <2>2, <2>3, SessionOf
  <2>5. pc[x] = "read" /\ inbox[x] = <<>> /\ socket[x] = <<>>
    BY <1>1, <2>3, <2>4 DEF Quiet
  <2>6. /\ log \in Seq(OpIds) /\ Len(log) \in Nat /\ v \in Views
        /\ sent[x] \in SentOf(log) /\ server[x] \in Servers
    BY <1>1, <2>2, <2>4, TypedFor DEF Typed, ThreadsTyped
  <2>7. Outcome(log, v, <<>>, v)
    BY <2>6, OutcomeOfNone
  <2>8. Good(log, "read", request[x], sent[x], <<>>, v)
    BY <1>1, <2>2, <2>3, <2>5, <2>6, <2>7 DEF BrowsersInv, ShowsTo
  <2>9. v.revision <= Len(log) /\ v.hasSession /\ v.orderly /\ v.revision \in Nat
    BY <1>1, <2>2, <2>3, <2>6, <2>8 DEF Good, Known, View, Views
  <2>10. ASSUME NEW r \in v.revision + 1 .. Len(log) PROVE FALSE
    <3>1. Due("read", sent[x], r) \/ Asked("read", request[x], <<>>, v) \/ Answered("read", request[x], v, r)
      BY <2>8, <2>9, <2>10 DEF Good, Covers
    <3>2. r > sent[x].since /\ Unsent(sent[x], r)
      BY <3>1, EmptyHolds DEF Due, Asked, Answered
    <3>3. r \in sent[x].since + 1 .. Len(log)
      BY <2>6, <2>9, <2>10, <3>2 DEF SentOf, RevsOf
    <3>4. lost[server[x]] = {}
      BY <1>1, <2>6 DEF NothingLost
    <3>5. r \in sent[x].acks \cup ToSet(sent[x].broadcasts)
      BY <1>1, <2>4, <2>5, <3>3, <3>4 DEF EveryoneIsTold
    <3> QED
      BY <3>2, <3>5 DEF Unsent
  <2>11. v.revision = Len(log)
    BY <2>6, <2>9, <2>10
  <2>12. browser[b].text = SubSeq(log, 1, Len(log))
    BY <1>1, <2>2, <2>11 DEF BrowsersInv, ShownOf, View
  <2>13. SubSeq(log, 1, Len(log)) = log
    BY <2>6
  <2> QED
    BY <2>12, <2>13
<1>2. ASSUME BrowsersInv, NEW b \in Browsers, browser[b].orderly
      PROVE  browser[b].text = SubSeq(log, 1, browser[b].revision)
  BY <1>2 DEF BrowsersInv, ShownOf
<1>3. Typed /\ BrowsersInv /\ EveryoneIsTold => OrderlyConverge
  BY <1>1, <1>2 DEF OrderlyConverge
<1> QED
  BY <1>3, ShownAlways, EverySessionIsTold, PTL

(* No edit is lost without a sign: what a browser made is in the log or    *)
(* still pending, whatever fails, and with nothing under way in the log -  *)
(* whichever of its connections carried it or ended before it did - unless *)
(* a call of the store failed, or a snapshot took it back on the screen.   *)
THEOREM EditsReachTheLog == Spec => []EditsCommitted
<1>1. ASSUME Typed, BrowsersInv, Quiet, failures = 0,
             NEW b \in Browsers, browser[b].enabled, ~browser[b].cleared
      PROVE  browser[b].edited \subseteq ToSet(log) /\ browser[b].pending = <<>>
  <2>2. PICK x : x = browser[b].session
    OBVIOUS
  <2>3. x # NoSession
    BY <1>1, <2>2 DEF BrowsersInv, Sole
  <2>4. x \in Sessions
    BY <1>1, <2>2, <2>3, SessionOf
  <2>5. pc[x] \in {"unused", "read", "done"} /\ inbox[x] = <<>> /\ socket[x] = <<>>
    BY <1>1, <2>4 DEF Quiet
  <2>6. \A id : ~Carried(x, id)
    BY <2>5, EmptyHolds DEF Carried
  <2>7. ToSet(browser[b].pending) = {}
    BY <1>1, <2>2, <2>6 DEF BrowsersInv, CarriedFor
  <2>8. browser[b].pending \in Seq(OpIds)
    BY <1>1, TypedFor DEF BrowsersOf
  <2> QED
    BY <1>1, <2>7, <2>8, NothingHeld DEF BrowsersInv, KeptOf
<1>2. ASSUME BrowsersInv, NEW b \in Browsers, ~browser[b].cleared
      PROVE  browser[b].edited \subseteq ToSet(log) \cup ToSet(browser[b].pending)
  BY <1>2 DEF BrowsersInv, KeptOf
<1>3. Typed /\ BrowsersInv => EditsCommitted
  BY <1>1, <1>2 DEF EditsCommitted
<1> QED
  BY <1>3, ShownAlways, PTL

=============================================================================

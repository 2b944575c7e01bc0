---------------------------- MODULE EditorProofs ----------------------------
(***************************************************************************)
(* What the editor promises, proved for any number of browsers, operations *)
(* and lost connections, and any limit of a catch-up.                      *)
(*                                                                         *)
(*   EditorTypes         types, and that nothing applied is pending still  *)
(*   ConfirmedIsShared   the confirmed text is the server's                *)
(*   EditorsMeet         at rest every editor shows the server's document  *)
(*   AcksAreInvisible    an acknowledgement does not change the display    *)
(*                                                                         *)
(* EditorInv is the inductive invariant.  LogInv is about the server, the  *)
(* three parts of BrowserInv about one browser: Held, what its variables   *)
(* hold; Shown, what they have to do with the server's texts; Echoes, what *)
(* a pending operation has to do with the forms in which it was sent and   *)
(* committed.  They survive each operation received (ReceivedKeeps), hence *)
(* each message (FoldKeeps).  Underway says for each pending operation and *)
(* each revision what is on its way to settle it, Followed what still      *)
(* comes behind a snapshot.                                                *)
(***************************************************************************)
EXTENDS Editor, OTProofs

-----------------------------------------------------------------------------
(* The server's side.                                                      *)

TypedIds(b, br) == { OpIds[b][k] : k \in 1 .. br.typed }

(* The document at revision r.                                             *)
TextAt(hist, r) == FoldLeft(Apply, Initial, SubSeq(hist, 1, r))

LogTyped(hist) ==
  /\ hist \in Seq(Edits(Nat))
  /\ \A r \in 1 .. Len(hist) : hist[r].revision = r
  /\ \A r, q \in 1 .. Len(hist) : hist[r].opId = hist[q].opId => r = q

LogInv ==
  /\ LogTyped(history)
  /\ document = TextAt(history, Len(history))
  /\ \A r \in 1 .. Len(history) : \E b \in Browsers :
       history[r].opId \in TypedIds(b, browser[b])

OpMessage == [kind: {"op"}, op: Edits(Nat)]
ToServerMessage == [kind: {"sync"}, from: Nat] \cup OpMessage
ToBrowserMessage ==
  { m \in [kind: {"init", "op", "catchup", "snapshot", "error"}, from: Nat, to: Nat] :
      m.kind \in {"init", "error"} => m.from = m.to }

(* What the threads of a browser's ended connections have not read yet.    *)
Unread(queues) == UNION { ToSet(queues[i]) : i \in 1 .. Len(queues) }

(* The forms in which a browser's operations are still to be committed.    *)
SentOf(ts, fm) == { m.op : m \in { x \in ts : x.kind = "op" } \cup fm }

-----------------------------------------------------------------------------
(* One browser, given the history and what it has sent.                    *)

Browser(editors) ==
  [online: BOOLEAN, enabled: BOOLEAN, revision: Nat, confirmed: Seq(Nat),
   pending: Seq(Edits(Nat)), applied: SUBSET Nat, editor: editors, typed: Nat,
   base: Nat, orderly: BOOLEAN, cleared: BOOLEAN, refused: BOOLEAN]

Held(b, br, hist) ==
  /\ br \in Browser({br.editor})
  /\ br.revision <= Len(hist) /\ br.typed <= Len(OpIds[b])
  /\ \A id \in br.applied : \E r \in 1 .. Len(hist) : hist[r].opId = id
  /\ \A i \in 1 .. Len(br.pending) :
       /\ br.pending[i].opId \notin br.applied
       /\ \E k \in 1 .. br.typed : br.pending[i].opId = OpIds[b][k]
  /\ \A i, j \in 1 .. Len(br.pending) :
       br.pending[i].opId = br.pending[j].opId => br.pending[i] = br.pending[j]
  /\ ~br.cleared => \A k \in 1 .. br.typed :
       \/ \E r \in 1 .. Len(hist) : hist[r].opId = OpIds[b][k]
       \/ \E i \in 1 .. Len(br.pending) : br.pending[i].opId = OpIds[b][k]

(* What an orderly browser has applied since it took a text over is what   *)
(* was committed since: so it applies nothing again.                       *)
Shown(br, hist) ==
  /\ br.orderly =>
       /\ br.confirmed = TextAt(hist, br.revision)
       /\ \A id \in br.applied : \E r \in 1 .. br.revision : hist[r].opId = id
       /\ br.base <= br.revision
       /\ \A r \in br.base + 1 .. br.revision : hist[r].opId \in br.applied
  /\ br.pending = <<>> => br.editor = br.confirmed

(* Two operations that do the same to every text.                          *)
Same(p, q) ==
  /\ p.type = q.type /\ p.text = q.text /\ p.opId = q.opId /\ p.clientId = q.clientId
  /\ IsNoop(p) <=> IsNoop(q)
  /\ ~IsNoop(p) => p.position = q.position /\ p.count = q.count

Missed(hist, from, to) == SubSeq(hist, from + 1, to)

(* No operation of b is among the revisions after `from' up to `to'.       *)
Foreign(b, hist, from, to) ==
  \A r \in from + 1 .. to : hist[r].opId \notin ToSet(OpIds[b])

(* What was sent of p becomes p where the browser is ...                   *)
SentAsPending(p, revision, hist, sent) ==
  \A op \in sent : op.opId = p.opId =>
    /\ op.baseRevision <= revision
    /\ Same(TransformOver(op, Missed(hist, op.baseRevision, revision)), p)

(* ... and what was committed of it is what p becomes further on.          *)
CommittedAsPending(p, revision, hist) ==
  \A n \in revision + 1 .. Len(hist) : hist[n].opId = p.opId =>
    \E x \in Edits(Nat) :
      /\ hist[n] = Entered(x, Len(TextAt(hist, n - 1)), n)
      /\ Same(x, TransformOver(p, Missed(hist, revision, n - 1)))

Echoes(b, br, hist, sent) ==
  br.orderly => \A i \in 1 .. Len(br.pending) :
    LET p == br.pending[i]
    IN  /\ p.baseRevision <= br.revision
        /\ Foreign(b, hist, p.baseRevision, br.revision) =>
             /\ SentAsPending(p, br.revision, hist, sent)
             /\ CommittedAsPending(p, br.revision, hist)

BrowserInv(b, br, hist, sent) ==
  Held(b, br, hist) /\ Shown(br, hist) /\ Echoes(b, br, hist, sent)

-----------------------------------------------------------------------------
(* What is on its way: the sets of messages to the server, left by former  *)
(* connections, and to the browser.                                        *)

Announces(m, r) == m.from < r /\ r <= m.to

(* A connection that is still to ask what was missed.                      *)
Starting(br, tb) == ~br.online \/ \E m \in tb : m.kind = "init"

(* A sync of the connection was refused.                                   *)
Refused(br, tb) == br.refused \/ \E m \in tb : m.kind = "error"

(* A pending operation is sent, or answered, or will be sent again or      *)
(* dropped.                                                                *)
PendingUnderway(br, ts, tb, hist, id) ==
  \/ Starting(br, tb) \/ Refused(br, tb)
  \/ \E m \in tb : m.kind \in {"catchup", "snapshot"}
  \/ \E m \in ts : m.kind = "sync" \/ (m.kind = "op" /\ m.op.opId = id)
  \/ \E m \in tb : \E r \in 1 .. Len(hist) : hist[r].opId = id /\ Announces(m, r)

(* A revision beyond the browser's is announced, or will be asked for.     *)
RevisionUnderway(br, ts, tb, r) ==
  \/ Starting(br, tb) \/ Refused(br, tb)
  \/ \E m \in ts : m.kind = "sync" /\ m.from < r
  \/ \E m \in tb : m.kind = "snapshot" \/ Announces(m, r)

Underway(br, ts, tb, hist) ==
  /\ ~br.online => ts = {} /\ tb = {} /\ ~br.enabled
  /\ \A i \in 1 .. Len(br.pending) :
       PendingUnderway(br, ts, tb, hist, br.pending[i].opId)
  /\ br.orderly => \A r \in br.revision + 1 .. Len(hist) : RevisionUnderway(br, ts, tb, r)

Sound(b, br, ts, fm, tb, hist) ==
  /\ \A m \in ts : m.kind = "sync" => m.from <= Len(hist)
  /\ \A m \in tb : m.from <= m.to /\ m.to <= Len(hist)
  /\ \A op \in SentOf(ts, fm) : op.opId \in TypedIds(b, br)

Link(b, br, ts, fm, tb, hist) ==
  /\ BrowserInv(b, br, hist, SentOf(ts, fm))
  /\ Sound(b, br, ts, fm, tb, hist)
  /\ Underway(br, ts, tb, hist)

(* Behind a snapshot comes everything that was committed since.            *)
Followed(s, hist) ==
  \A j \in 1 .. Len(s) : s[j].kind = "snapshot" =>
    \A r \in s[j].to + 1 .. Len(hist) : \E k \in j + 1 .. Len(s) : Announces(s[k], r)

Shape ==
  /\ browser = [b \in Browsers |-> browser[b]]
  /\ toServer \in [Browsers -> Seq(ToServerMessage)]
  /\ former \in [Browsers -> Seq(Seq(OpMessage))]
  /\ toBrowser \in [Browsers -> Seq(ToBrowserMessage)]
  /\ closed \in [Browsers -> Nat]

Linked(b) ==
  Link(b, browser[b], ToSet(toServer[b]), Unread(former[b]), ToSet(toBrowser[b]), history)

EditorInv ==
  /\ LogInv /\ Shape
  /\ \A b \in Browsers : Linked(b)
  /\ \A b \in Browsers : Followed(toBrowser[b], history)

-----------------------------------------------------------------------------
(* The two copies of apply and transform.                                  *)

LEMMA Associated ==
  ASSUME NEW x \in Seq(Nat), NEW y \in Seq(Nat), NEW z \in Seq(Nat)
  PROVE  x \o (y \o z) = (x \o y) \o z
<1>1. PICK u, v : u = y \o z /\ v = x \o y
  OBVIOUS
<1>2. /\ u \in Seq(Nat) /\ Len(u) = Len(y) + Len(z)
      /\ \A k \in 1 .. Len(u) : u[k] = IF k <= Len(y) THEN y[k] ELSE z[k - Len(y)]
  BY <1>1
<1>3. /\ v \in Seq(Nat) /\ Len(v) = Len(x) + Len(y)
      /\ \A k \in 1 .. Len(v) : v[k] = IF k <= Len(x) THEN x[k] ELSE y[k - Len(x)]
  BY <1>1
<1>4. PICK a, c : a = x \o u /\ c = v \o z
  OBVIOUS
<1>5. /\ a \in Seq(Nat) /\ Len(a) = Len(x) + Len(u)
      /\ \A k \in 1 .. Len(a) : a[k] = IF k <= Len(x) THEN x[k] ELSE u[k - Len(x)]
  <2>1. u \in Seq(Nat)
    BY <1>2
  <2> QED
    BY <1>4, <2>1, ConcatProperties
<1>6. /\ c \in Seq(Nat) /\ Len(c) = Len(v) + Len(z)
      /\ \A k \in 1 .. Len(c) : c[k] = IF k <= Len(v) THEN v[k] ELSE z[k - Len(v)]
  <2>1. v \in Seq(Nat)
    BY <1>3
  <2> QED
    BY <1>4, <2>1, ConcatProperties
<1>0. Len(x) \in Nat /\ Len(y) \in Nat /\ Len(z) \in Nat
  OBVIOUS
<1>7. Len(a) = Len(c)
  BY <1>0, <1>2, <1>3, <1>5, <1>6
<1>8. ASSUME NEW k \in 1 .. Len(a) PROVE a[k] = c[k]
  <2>1. CASE k <= Len(x)
    <3>1. k \in 1 .. Len(v) /\ k \in 1 .. Len(c)
      BY <1>0, <1>3, <1>7, <2>1
    <3>2. a[k] = x[k]
      BY <1>5, <2>1
    <3>3. v[k] = x[k]
      BY <1>3, <2>1, <3>1
    <3>4. c[k] = v[k]
      BY <1>6, <3>1
    <3> QED
      BY <3>2, <3>3, <3>4
  <2>2. CASE k > Len(x)
    <3>1. PICK m : m = k - Len(x)
      OBVIOUS
    <3>2. /\ m \in 1 .. Len(u) /\ ~(k <= Len(x))
          /\ k <= Len(v) <=> m <= Len(y)
          /\ m - Len(y) = k - Len(v)
          /\ k <= Len(v) => k \in 1 .. Len(v)
      BY <1>0, <1>2, <1>3, <1>5, <2>2, <3>1
    <3>3. a[k] = u[m]
      BY <1>5, <3>1, <3>2
    <3>4. u[m] = IF m <= Len(y) THEN y[m] ELSE z[m - Len(y)]
      BY <1>2, <3>2
    <3>5. c[k] = IF k <= Len(v) THEN v[k] ELSE z[k - Len(v)]
      BY <1>6, <1>7
    <3>6. k <= Len(v) => v[k] = y[m]
      BY <1>3, <3>1, <3>2
    <3> QED
      BY <3>2, <3>3, <3>4, <3>5, <3>6
  <2> QED
    BY <1>0, <1>5, <2>1, <2>2
<1>9. a = c
  BY <1>5, <1>6, <1>7, <1>8, SameSeq
<1> QED
  BY <1>1, <1>4, <1>9

LEMMA ApplyOpIs ==
  ASSUME NEW d \in Seq(Nat), NEW op \in Edits(Nat)
  PROVE  ApplyOp(d, op) = Apply(d, op)
<1>1. PICK c : c = Clamp(op, Len(d))
  OBVIOUS
<1>2. Len(d) \in Nat /\ op.position \in Nat /\ op.count \in Nat /\ op.type \in {"insert", "delete"}
  BY EditFields
<1>3. /\ c.type = op.type /\ c.text = op.text /\ c.position = Smaller(op.position, Len(d))
      /\ op.type = "delete" => c.count = Smaller(op.count, Len(d) - c.position)
  <2>1. /\ c.type = op.type /\ c.text = op.text /\ c.position = Smaller(op.position, Len(d))
        /\ op.type = "delete" =>
             c.count = Smaller(op.count, Len(d) - Smaller(op.position, Len(d)))
    <3>1. PICK l \in Nat : l = Len(d)
      BY <1>2
    <3>2. c = Clamp(op, l)
      BY <1>1, <3>1
    <3>3. Clamp(op, l).type = op.type /\ Clamp(op, l).text = op.text
      BY ClampFits
    <3>4. Clamp(op, l).position = Smaller(op.position, l)
      BY ClampFits
    <3>5. op.type = "delete" => Clamp(op, l).count = Smaller(op.count, l - Smaller(op.position, l))
      BY ClampFits
    <3> QED
      BY <3>1, <3>2, <3>3, <3>4, <3>5
  <2> QED
    BY <2>1
<1>4. c.position \in Nat /\ c.position <= Len(d)
  BY <1>2, <1>3 DEF Smaller
<1>5. ASSUME op.type = "delete"
      PROVE  SubSeq(d, c.position + op.count + 1, Len(d))
               = SubSeq(d, c.position + c.count + 1, Len(d))
  <2>1. CASE c.count = op.count
    BY <2>1
  <2>2. CASE c.count # op.count
    <3>1. c.count = Len(d) - c.position /\ c.count < op.count
      BY <1>2, <1>3, <1>4, <1>5, <2>2 DEF Smaller
    <3>2. \A k \in Nat : k > Len(d) => SubSeq(d, k, Len(d)) = <<>>
      OBVIOUS
    <3>3. /\ c.position + op.count + 1 \in Nat /\ c.position + op.count + 1 > Len(d)
          /\ c.position + c.count + 1 \in Nat /\ c.position + c.count + 1 > Len(d)
      BY <1>2, <1>4, <3>1
    <3>4. SubSeq(d, c.position + op.count + 1, Len(d)) = <<>>
      BY <3>2, <3>3
    <3>5. SubSeq(d, c.position + c.count + 1, Len(d)) = <<>>
      BY <3>2, <3>3
    <3> QED
      BY <3>4, <3>5
  <2> QED
    BY <2>1, <2>2
<1>6. Apply(d, op) = IF op.type = "insert"
                     THEN SubSeq(d, 1, c.position) \o op.text \o SubSeq(d, c.position + 1, Len(d))
                     ELSE SubSeq(d, 1, c.position) \o SubSeq(d, c.position + c.count + 1, Len(d))
  BY <1>1, <1>3 DEF Apply
<1>7. CASE op.type = "insert"
  <2>1. ApplyOp(d, op) = SubSeq(d, 1, c.position) \o (op.text \o SubSeq(d, c.position + 1, Len(d)))
    BY <1>3, <1>7 DEF ApplyOp
  <2>2. op.text \in Seq(Nat) /\ SubSeq(d, 1, c.position) \in Seq(Nat)
    BY <1>2, <1>4, EditFields
  <2>3. SubSeq(d, c.position + 1, Len(d)) \in Seq(Nat)
    BY <1>2, <1>4, SubSeqOf
  <2>4. PICK x, y, z : /\ x = SubSeq(d, 1, c.position) /\ y = op.text
                       /\ z = SubSeq(d, c.position + 1, Len(d))
    OBVIOUS
  <2>5. x \o (y \o z) = (x \o y) \o z
    BY <2>2, <2>3, <2>4, Associated
  <2>6. ApplyOp(d, op) = x \o (y \o z)
    BY <2>1, <2>4
  <2>7. Apply(d, op) = (x \o y) \o z
    BY <1>6, <1>7, <2>4
  <2> QED
    BY <2>5, <2>6, <2>7
<1>8. CASE op.type = "delete"
  <2>1. ApplyOp(d, op) = SubSeq(d, 1, c.position) \o SubSeq(d, c.position + op.count + 1, Len(d))
    BY <1>3, <1>8 DEF ApplyOp
  <2> QED
    BY <1>5, <1>6, <1>8, <2>1
<1> QED
  BY <1>2, <1>7, <1>8

(* Where app.js moves an operation to, and how much it deletes there.      *)
RebasedStart(op, b) ==
  IF b.type = "insert"
  THEN IF \/ op.type = "insert" /\ (op.position > b.position
                                      \/ (op.position = b.position /\ WinsTie(b, op)))
          \/ op.type # "insert" /\ op.position >= b.position
       THEN op.position + Len(b.text) ELSE op.position
  ELSE IF op.type = "delete" /\ op.position + op.count <= b.position THEN op.position
       ELSE IF \/ op.type = "insert" /\ op.position > b.position + b.count
               \/ op.type # "insert" /\ op.position >= b.position + b.count
            THEN op.position - b.count
            ELSE Smaller(op.position, b.position)

RebasedCount(op, b) ==
  IF op.type = "insert" THEN op.count
  ELSE IF b.type = "insert"
       THEN IF op.position < b.position /\ op.position + op.count > b.position
            THEN op.count + Len(b.text) ELSE op.count
       ELSE IF op.position + op.count <= b.position \/ op.position >= b.position + b.count
            THEN op.count
            ELSE op.count - Larger(0, Smaller(op.position + op.count, b.position + b.count)
                                        - Larger(op.position, b.position))

LEMMA RebaseIs ==
  ASSUME NEW op \in Edits(Nat), NEW b \in Edits(Nat)
  PROVE  /\ Rebase(op, b) = Moved(op, RebasedStart(op, b), RebasedCount(op, b))
         /\ RebasedStart(op, b) \in Nat /\ RebasedCount(op, b) \in Nat
         /\ op.type = "insert" => RebasedCount(op, b) = 0
<1>1. /\ op \in Operation(Nat) /\ op.type \in {"insert", "delete"}
      /\ op.position \in Nat /\ op.count \in Nat
      /\ op.type = "insert" => op.count = 0
  BY EditFields
<1>2. /\ b.type \in {"insert", "delete"} /\ b.position \in Nat
      /\ b.count \in Nat /\ Len(b.text) \in Nat
  BY EditFields
<1>3. \A p, n : /\ Moved(op, p, op.count) = [op EXCEPT !.position = p]
                /\ Moved(op, op.position, n) = [op EXCEPT !.count = n]
                /\ Moved(op, op.position, op.count) = op
                /\ Moved(op, p, n) = [op EXCEPT !.count = n, !.position = p]
  BY <1>1 DEF Moved, Operation
<1>4. RebasedStart(op, b) \in Nat /\ RebasedCount(op, b) \in Nat
  <2>1. RebasedStart(op, b) \in Nat
    <3>1. CASE op.type = "insert"
      BY <1>1, <1>2, <3>1, SMTT(30) DEF RebasedStart, Smaller
    <3>2. CASE op.type = "delete"
      BY <1>1, <1>2, <3>2 DEF RebasedStart, Smaller
    <3> QED
      BY <1>1, <3>1, <3>2
  <2>2. CASE op.position + op.count <= b.position \/ op.position >= b.position + b.count
    BY <1>1, <1>2, <2>1, <2>2 DEF RebasedCount
  <2>3. CASE ~(op.position + op.count <= b.position \/ op.position >= b.position + b.count)
    <3>1. op.count - Larger(0, Smaller(op.position + op.count, b.position + b.count)
                                 - Larger(op.position, b.position)) \in Nat
      BY <1>1, <1>2, <2>3 DEF Smaller, Larger
    <3> QED
      BY <1>1, <1>2, <2>1, <2>3, <3>1 DEF RebasedCount
  <2> QED
    BY <2>2, <2>3
<1>5. op.type = "insert" => RebasedCount(op, b) = 0
  BY <1>1 DEF RebasedCount
<1>6. PICK p, n : p = RebasedStart(op, b) /\ n = RebasedCount(op, b)
  OBVIOUS
<1>7. Rebase(op, b) = Moved(op, p, n)
  <2>1. CASE b.type = "insert" /\ op.type = "insert"
    <3>1. n = op.count
      BY <1>6, <2>1 DEF RebasedCount
    <3>2. CASE op.position > b.position \/ (op.position = b.position /\ WinsTie(b, op))
      <4>1. p = op.position + Len(b.text)
        BY <1>6, <2>1, <3>2 DEF RebasedStart
      <4>2. Rebase(op, b) = [op EXCEPT !.position = op.position + Len(b.text)]
        BY <1>1, <2>1, <3>2 DEF Rebase, RebaseOverInsert
      <4> QED
        BY <1>3, <3>1, <4>1, <4>2
    <3>3. CASE ~(op.position > b.position \/ (op.position = b.position /\ WinsTie(b, op)))
      <4>1. p = op.position
        BY <1>6, <2>1, <3>3 DEF RebasedStart
      <4>2. Rebase(op, b) = op
        BY <1>1, <2>1, <3>3 DEF Rebase, RebaseOverInsert
      <4> QED
        BY <1>3, <3>1, <4>1, <4>2
    <3> QED
      BY <3>2, <3>3
  <2>2. CASE b.type = "insert" /\ op.type = "delete"
    <3>1. CASE op.position >= b.position
      <4>1. p = op.position + Len(b.text) /\ n = op.count
        BY <1>1, <1>2, <1>6, <2>2, <3>1 DEF RebasedStart, RebasedCount
      <4>2. Rebase(op, b) = [op EXCEPT !.position = op.position + Len(b.text)]
        BY <1>1, <2>2, <3>1 DEF Rebase, RebaseOverInsert
      <4> QED
        BY <1>3, <4>1, <4>2
    <3>2. CASE op.position < b.position /\ op.position + op.count > b.position
      <4>1. p = op.position /\ n = op.count + Len(b.text)
        BY <1>1, <1>2, <1>6, <2>2, <3>2 DEF RebasedStart, RebasedCount
      <4>0. ~(op.position >= b.position)
        BY <1>1, <1>2, <3>2
      <4>2. Rebase(op, b) = [op EXCEPT !.count = op.count + Len(b.text)]
        BY <1>1, <2>2, <3>2, <4>0 DEF Rebase, RebaseOverInsert
      <4> QED
        BY <1>3, <4>1, <4>2
    <3>3. CASE op.position < b.position /\ ~(op.position + op.count > b.position)
      <4>1. p = op.position /\ n = op.count
        BY <1>1, <1>2, <1>6, <2>2, <3>3 DEF RebasedStart, RebasedCount
      <4>0. ~(op.position >= b.position)
        BY <1>1, <1>2, <3>3
      <4>2. Rebase(op, b) = op
        BY <1>1, <2>2, <3>3, <4>0 DEF Rebase, RebaseOverInsert
      <4> QED
        BY <1>3, <4>1, <4>2
    <3> QED
      BY <1>1, <1>2, <3>1, <3>2, <3>3
  <2>3. CASE b.type = "delete" /\ op.type = "insert"
    <3>1. n = op.count
      BY <1>6, <2>3 DEF RebasedCount
    <3>2. CASE op.position > b.position + b.count
      <4>1. p = op.position - b.count
        BY <1>6, <2>3, <3>2 DEF RebasedStart
      <4>2. Rebase(op, b) = [op EXCEPT !.position = op.position - b.count]
        BY <1>1, <2>3, <3>2 DEF Rebase, RebaseOverDelete
      <4> QED
        BY <1>3, <3>1, <4>1, <4>2
    <3>3. CASE ~(op.position > b.position + b.count)
      <4>1. p = Smaller(op.position, b.position)
        BY <1>6, <2>3, <3>3 DEF RebasedStart
      <4>2. Rebase(op, b) = [op EXCEPT !.count = op.count,
                                       !.position = Smaller(op.position, b.position)]
        BY <1>1, <2>3, <3>3 DEF Rebase, RebaseOverDelete, Operation
      <4> QED
        BY <1>3, <3>1, <4>1, <4>2
    <3> QED
      BY <3>2, <3>3
  <2>4. CASE b.type = "delete" /\ op.type = "delete"
    <3>1. CASE op.position + op.count <= b.position
      <4>1. p = op.position /\ n = op.count
        BY <1>1, <1>2, <1>6, <2>4, <3>1 DEF RebasedStart, RebasedCount
      <4>2. Rebase(op, b) = op
        BY <1>1, <2>4, <3>1 DEF Rebase, RebaseOverDelete
      <4> QED
        BY <1>3, <4>1, <4>2
    <3>2. CASE ~(op.position + op.count <= b.position) /\ op.position >= b.position + b.count
      <4>1. p = op.position - b.count /\ n = op.count
        BY <1>1, <1>2, <1>6, <2>4, <3>2 DEF RebasedStart, RebasedCount
      <4>2. Rebase(op, b) = [op EXCEPT !.position = op.position - b.count]
        BY <1>1, <2>4, <3>2 DEF Rebase, RebaseOverDelete
      <4> QED
        BY <1>3, <4>1, <4>2
    <3>3. CASE ~(op.position + op.count <= b.position) /\ ~(op.position >= b.position + b.count)
      <4>1. PICK m : m = op.count - Larger(0, Smaller(op.position + op.count, b.position + b.count)
                                                - Larger(op.position, b.position))
        OBVIOUS
      <4>2. PICK q : q = Smaller(op.position, b.position)
        OBVIOUS
      <4>3. p = q /\ n = m
        BY <1>6, <2>4, <3>3, <4>1, <4>2 DEF RebasedStart, RebasedCount
      <4>4. Rebase(op, b) = [op EXCEPT !.count = m, !.position = q]
        BY <1>1, <2>4, <3>3, <4>1, <4>2 DEF Rebase, RebaseOverDelete
      <4> QED
        BY <1>3, <4>3, <4>4
    <3> QED
      BY <3>1, <3>2, <3>3
  <2> QED
    BY <1>1, <1>2, <2>1, <2>2, <2>3, <2>4
<1> QED
  BY <1>4, <1>5, <1>6, <1>7

LEMMA RebaseTyped ==
  ASSUME NEW op \in Edits(Nat), NEW b \in Edits(Nat)
  PROVE  /\ Rebase(op, b) \in Edits(Nat)
         /\ Rebase(op, b).type = op.type /\ Rebase(op, b).text = op.text
         /\ Rebase(op, b).clientId = op.clientId /\ Rebase(op, b).opId = op.opId
         /\ Rebase(op, b).baseRevision = op.baseRevision
         /\ Rebase(op, b).position = RebasedStart(op, b)
         /\ Rebase(op, b).count = RebasedCount(op, b)
<1>1. PICK p, n : p = RebasedStart(op, b) /\ n = RebasedCount(op, b)
  OBVIOUS
<1>2. Rebase(op, b) = [op EXCEPT !.position = p, !.count = n]
  BY <1>1, RebaseIs DEF Moved
<1>3. p \in Nat /\ n \in Nat /\ (op.type = "insert" => n = 0)
  BY <1>1, RebaseIs
<1>4. Rebase(op, b) \in Edits(Nat)
  <2>1. [op EXCEPT !.position = p, !.count = n] \in Edits(Nat)
    BY <1>3, MovedEdit
  <2> QED
    BY <1>2, <2>1
<1>5. op \in Operation(Nat)
  BY EditFields
<1> QED
  BY <1>1, <1>2, <1>4, <1>5 DEF Operation

-----------------------------------------------------------------------------
(* Operations that do the same.                                            *)

LEMMA SameIs ==
  ASSUME NEW p \in Edits(Nat), NEW q \in Edits(Nat), NEW x \in Edits(Nat)
  PROVE  /\ Same(p, p)
         /\ Same(p, q) => Same(q, p)
         /\ Same(p, q) /\ Same(q, x) => Same(p, x)
         /\ (/\ p.type = q.type /\ p.text = q.text /\ p.opId = q.opId
             /\ p.clientId = q.clientId /\ p.position = q.position /\ p.count = q.count)
              => Same(p, q)
  BY DEF Same, IsNoop

(* They do the same to every text ...                                      *)
LEMMA SameApplies ==
  ASSUME NEW d \in Seq(Nat), NEW p \in Edits(Nat), NEW q \in Edits(Nat), Same(p, q)
  PROVE  Apply(d, p) = Apply(d, q)
<1>1. CASE IsNoop(p)
  <2>1. IsNoop(q)
    BY <1>1 DEF Same
  <2> QED
    BY <1>1, <2>1, ApplySplices
<1>2. CASE ~IsNoop(p)
  <2>1. /\ p.type = q.type /\ p.text = q.text
        /\ p.position = q.position /\ p.count = q.count
    BY <1>2 DEF Same
  <2>2. p \in Operation(Nat) /\ q \in Operation(Nat)
    BY EditFields
  <2>3. /\ Clamp(p, Len(d)).position = Clamp(q, Len(d)).position
        /\ Clamp(p, Len(d)).count = Clamp(q, Len(d)).count
        /\ Clamp(p, Len(d)).type = Clamp(q, Len(d)).type
        /\ Clamp(p, Len(d)).text = Clamp(q, Len(d)).text
    BY <2>1, <2>2 DEF Clamp, Operation
  <2> QED
    BY <2>3 DEF Apply
<1> QED
  BY <1>1, <1>2

(* ... and stay so over whatever both are transformed over.                *)
LEMMA TransformSame ==
  ASSUME NEW p \in Edits(Nat), NEW q \in Edits(Nat), NEW com \in Edits(Nat), Same(p, q)
  PROVE  Same(Transform(p, com), Transform(q, com))
<1>1. CASE IsNoop(p) \/ IsNoop(com)
  <2>1. IsNoop(q) \/ IsNoop(com)
    BY <1>1 DEF Same
  <2>2. Transform(p, com) = p
    BY <1>1, TransformIs
  <2>3. Transform(q, com) = q
    BY <2>1, TransformIs
  <2> QED
    BY <2>2, <2>3
<1>2. CASE ~IsNoop(p) /\ ~IsNoop(com)
  <2>1. /\ ~IsNoop(q) /\ p.type = q.type /\ p.text = q.text /\ p.opId = q.opId
        /\ p.clientId = q.clientId /\ p.position = q.position /\ p.count = q.count
    BY <1>2 DEF Same
  <2>2. PICK x, y : x = Transform(p, com) /\ y = Transform(q, com)
    OBVIOUS
  <2>3. /\ x \in Edits(Nat) /\ x.type = p.type /\ x.text = p.text
        /\ x.clientId = p.clientId /\ x.opId = p.opId
    BY <2>2, TransformTyped
  <2>4. /\ y \in Edits(Nat) /\ y.type = q.type /\ y.text = q.text
        /\ y.clientId = q.clientId /\ y.opId = q.opId
    BY <2>2, TransformTyped
  <2>5. x.position = StartOver(p, com) /\ x.count = CountOver(p, com)
    BY <1>2, <2>2, TransformMoves
  <2>6. y.position = StartOver(q, com) /\ y.count = CountOver(q, com)
    BY <1>2, <2>1, <2>2, TransformMoves
  <2>7. StartOver(p, com) = StartOver(q, com) /\ CountOver(p, com) = CountOver(q, com)
    BY <2>1 DEF StartOver, CountOver, WinsTie
  <2>8. /\ x.type = y.type /\ x.text = y.text /\ x.opId = y.opId
        /\ x.clientId = y.clientId /\ x.position = y.position /\ x.count = y.count
    BY <2>1, <2>3, <2>4, <2>5, <2>6, <2>7
  <2> QED
    BY <2>2, <2>3, <2>4, <2>8, SameIs
<1> QED
  BY <1>1, <1>2

LEMMA TransformOverSame ==
  ASSUME NEW p \in Edits(Nat), NEW q \in Edits(Nat), NEW s \in Seq(Edits(Nat)), Same(p, q)
  PROVE  Same(TransformOver(p, s), TransformOver(q, s))
<1>1. PICK t \in [0 .. Len(s) -> Edits(Nat)] :
        Transforms(t, p, s) /\ TransformOver(p, s) = t[Len(s)]
  BY TransformRuns DEF TransformOver
<1>2. PICK u \in [0 .. Len(s) -> Edits(Nat)] :
        Transforms(u, q, s) /\ TransformOver(q, s) = u[Len(s)]
  BY TransformRuns DEF TransformOver
<1> DEFINE Good == { i \in 0 .. Len(s) : Same(t[i], u[i]) }
<1>3. Len(s) \in Nat /\ 0 \in Good
  BY <1>1, <1>2 DEF Transforms
<1>4. ASSUME NEW i \in 1 .. Len(s), i - 1 \in Good PROVE i \in Good
  <2>1. i - 1 \in 0 .. Len(s) /\ i \in 0 .. Len(s)
    BY <1>3
  <2>2. t[i - 1] \in Edits(Nat) /\ u[i - 1] \in Edits(Nat) /\ s[i] \in Edits(Nat)
    BY <2>1
  <2>3. Same(t[i - 1], u[i - 1])
    BY <1>4
  <2>4. t[i] = Transform(t[i - 1], s[i]) /\ u[i] = Transform(u[i - 1], s[i])
    BY <1>1, <1>2 DEF Transforms
  <2>5. Same(t[i], u[i])
    BY <2>2, <2>3, <2>4, TransformSame
  <2> QED
    BY <2>1, <2>5
<1> HIDE DEF Good
<1>5. \A i \in 0 .. Len(s) : i \in Good
  BY <1>3, <1>4, UpTo
<1>6. Len(s) \in Good
  BY <1>3, <1>5
<1> QED
  BY <1>1, <1>2, <1>6 DEF Good

(* The browser's transform does the same as the server's.                  *)
LEMMA RebaseSame ==
  ASSUME NEW op \in Edits(Nat), NEW b \in Edits(Nat)
  PROVE  Same(Transform(op, b), Rebase(op, b))
<1>1. PICK r : r = Rebase(op, b)
  OBVIOUS
<1>2. /\ r \in Edits(Nat) /\ r.type = op.type /\ r.text = op.text
      /\ r.clientId = op.clientId /\ r.opId = op.opId
      /\ r.position = RebasedStart(op, b) /\ r.count = RebasedCount(op, b)
  BY <1>1, RebaseTyped
<1>3. /\ op.type \in {"insert", "delete"} /\ op.position \in Nat /\ op.count \in Nat
      /\ op.type = "insert" => op.count = 0
  BY EditFields
<1>4. /\ b.type \in {"insert", "delete"} /\ b.position \in Nat /\ b.count \in Nat
      /\ Len(b.text) \in Nat /\ b.text \in Seq(Nat)
  BY EditFields
<1>5. CASE IsNoop(op)
  <2>1. Transform(op, b) = op
    BY <1>5, TransformIs
  <2>2. CASE op.type = "insert"
    BY <1>1, <1>2, <1>5, <2>1, <2>2 DEF Same, IsNoop
  <2>3. CASE op.type = "delete"
    <3>1. op.count = 0
      BY <1>5, <2>3 DEF IsNoop
    <3>2. RebasedCount(op, b) = 0
      BY <1>3, <1>4, <2>3, <3>1 DEF RebasedCount, Smaller, Larger
    <3> QED
      BY <1>1, <1>2, <1>5, <2>1, <2>3, <3>2 DEF Same, IsNoop
  <2> QED
    BY <1>3, <2>2, <2>3
<1>6. CASE ~IsNoop(op) /\ IsNoop(b)
  <2>1. Transform(op, b) = op
    BY <1>6, TransformIs
  <2>2. RebasedStart(op, b) = op.position /\ RebasedCount(op, b) = op.count
    <3>1. CASE b.type = "insert"
      <4>1. Len(b.text) = 0
        BY <1>6, <3>1 DEF IsNoop
      <4> QED
        BY <1>3, <3>1, <4>1 DEF RebasedStart, RebasedCount
    <3>2. CASE b.type = "delete"
      <4>1. b.count = 0
        BY <1>6, <3>2 DEF IsNoop
      <4>2. CASE op.type = "insert"
        BY <1>3, <1>4, <3>2, <4>1, <4>2 DEF RebasedStart, RebasedCount, Smaller
      <4>3. CASE op.type = "delete"
        BY <1>3, <1>4, <3>2, <4>1, <4>3 DEF RebasedStart, RebasedCount, Smaller, Larger
      <4> QED
        BY <1>3, <4>2, <4>3
    <3> QED
      BY <1>4, <3>1, <3>2
  <2> QED
    BY <1>1, <1>2, <2>1, <2>2, SameIs
<1>7. CASE ~IsNoop(op) /\ ~IsNoop(b)
  <2>1. PICK x : x = Transform(op, b)
    OBVIOUS
  <2>2. /\ x \in Edits(Nat) /\ x.type = op.type /\ x.text = op.text
        /\ x.clientId = op.clientId /\ x.opId = op.opId
    BY <2>1, TransformTyped
  <2>3. x.position = StartOver(op, b) /\ x.count = CountOver(op, b)
    BY <1>7, <2>1, TransformMoves
  <2>4. StartOver(op, b) = RebasedStart(op, b)
    <3>1. CASE op.type = "insert"
      BY <1>3, <1>4, <3>1, SMTT(30) DEF StartOver, RebasedStart, Smaller
    <3>2. CASE op.type = "delete"
      BY <1>3, <1>4, <3>2 DEF StartOver, RebasedStart, Smaller
    <3> QED
      BY <1>3, <3>1, <3>2
  <2>5. CountOver(op, b) = RebasedCount(op, b)
    <3>1. CASE op.type = "insert" \/ b.type = "insert"
      BY <1>3, <1>4, <3>1 DEF CountOver, RebasedCount
    <3>2. CASE op.type = "delete" /\ b.type = "delete"
      <4>1. CASE op.position + op.count <= b.position \/ op.position >= b.position + b.count
        BY <3>2, <4>1 DEF CountOver, RebasedCount
      <4>2. CASE ~(op.position + op.count <= b.position \/ op.position >= b.position + b.count)
        <5>1. PICK m : m = Smaller(op.position + op.count, b.position + b.count)
                             - Larger(op.position, b.position)
          OBVIOUS
        <5>2. m \in Int /\ m >= 0
          BY <1>3, <1>4, <4>2, <5>1 DEF Smaller, Larger
        <5>3. Larger(0, m) = m
          BY <5>2 DEF Larger
        <5> QED
          BY <3>2, <4>2, <5>1, <5>3 DEF CountOver, RebasedCount
      <4> QED
        BY <4>1, <4>2
    <3> QED
      BY <1>3, <1>4, <3>1, <3>2
  <2>6. /\ x.type = r.type /\ x.text = r.text /\ x.opId = r.opId
        /\ x.clientId = r.clientId /\ x.position = r.position /\ x.count = r.count
    BY <1>2, <2>2, <2>3, <2>4, <2>5
  <2> QED
    BY <1>1, <1>2, <2>1, <2>2, <2>6, SameIs
<1> QED
  BY <1>5, <1>6, <1>7

-----------------------------------------------------------------------------
(* The history: what was missed, and the texts.                            *)

LEMMA MissedIs ==
  ASSUME NEW hist \in Seq(Edits(Nat)), NEW from \in Nat, NEW to \in Nat,
         from <= to, to <= Len(hist)
  PROVE  /\ Missed(hist, from, to) \in Seq(Edits(Nat))
         /\ Len(Missed(hist, from, to)) = to - from
         /\ \A k \in 1 .. to - from : Missed(hist, from, to)[k] = hist[from + k]
  BY SubSeqOf DEF Missed, IsPart

(* The same of a sequence that is known by a name.                         *)
IsMissed(s, hist, from, n) ==
  s \in Seq(Edits(Nat)) /\ Len(s) = n /\ \A k \in 1 .. n : s[k] = hist[from + k]

LEMMA MissedNamed ==
  ASSUME NEW hist \in Seq(Edits(Nat)), NEW from \in Nat, NEW to \in Nat,
         from <= to, to <= Len(hist), NEW n, n = to - from
  PROVE  IsMissed(Missed(hist, from, to), hist, from, n)
  BY MissedIs DEF IsMissed

LEMMA MissedNext ==
  ASSUME NEW hist \in Seq(Edits(Nat)), NEW from \in Nat, NEW to \in Nat,
         from <= to, to < Len(hist), NEW op \in Edits(Nat)
  PROVE  TransformOver(op, Missed(hist, from, to + 1))
           = Transform(TransformOver(op, Missed(hist, from, to)), hist[to + 1])
<1>1. PICK s, r, n : s = Missed(hist, from, to) /\ r = Missed(hist, from, n) /\ n = to + 1
  OBVIOUS
<1>2. n \in Nat /\ from <= n /\ n <= Len(hist) /\ to <= Len(hist)
  BY <1>1
<1>3. /\ s \in Seq(Edits(Nat)) /\ Len(s) = to - from
      /\ \A k \in 1 .. to - from : s[k] = hist[from + k]
  <2>1. PICK m : m = to - from
    OBVIOUS
  <2>2. IsMissed(s, hist, from, m)
    BY <1>1, <1>2, <2>1, MissedNamed
  <2> QED
    BY <2>1, <2>2 DEF IsMissed
<1>4. /\ r \in Seq(Edits(Nat)) /\ Len(r) = n - from
      /\ \A k \in 1 .. n - from : r[k] = hist[from + k]
  <2>1. PICK m : m = n - from
    OBVIOUS
  <2>2. IsMissed(r, hist, from, m)
    BY <1>1, <1>2, <2>1, MissedNamed
  <2> QED
    BY <2>1, <2>2 DEF IsMissed
<1>5. Len(r) = Len(s) + 1 /\ Len(r) \in 1 .. n - from /\ from + Len(r) = to + 1
  BY <1>1, <1>3, <1>4
<1>6. ASSUME NEW k \in 1 .. Len(s) PROVE r[k] = s[k]
  <2>1. k \in 1 .. to - from /\ k \in 1 .. n - from
    BY <1>1, <1>3
  <2> QED
    BY <1>3, <1>4, <2>1
<1>7. r[Len(r)] = hist[to + 1]
  <2>1. r[Len(r)] = hist[from + Len(r)]
    BY <1>4, <1>5
  <2> QED
    BY <1>5, <2>1
<1>8. TransformOver(op, r) = Transform(TransformOver(op, s), r[Len(r)])
  BY <1>3, <1>4, <1>5, <1>6, TransformOverLast
<1> QED
  BY <1>1, <1>7, <1>8

LEMMA MissedNothing ==
  ASSUME NEW hist \in Seq(Edits(Nat)), NEW from \in Nat, from <= Len(hist), NEW op \in Edits(Nat)
  PROVE  TransformOver(op, Missed(hist, from, from)) = op
<1>1. Missed(hist, from, from) \in Seq(Edits(Nat)) /\ Len(Missed(hist, from, from)) = 0
  BY MissedIs
<1> QED
  BY <1>1, TransformOverNothing

LEMMA MissedSplit ==
  ASSUME NEW hist \in Seq(Edits(Nat)), NEW from \in Nat, NEW mid \in Nat, NEW to \in Nat,
         from <= mid, mid <= to, to <= Len(hist), NEW op \in Edits(Nat)
  PROVE  TransformOver(op, Missed(hist, from, to))
           = TransformOver(TransformOver(op, Missed(hist, from, mid)), Missed(hist, mid, to))
<1>1. PICK x : x = TransformOver(op, Missed(hist, from, mid))
  OBVIOUS
<1>2. x \in Edits(Nat)
  <2>1. Missed(hist, from, mid) \in Seq(Edits(Nat))
    BY MissedIs
  <2> QED
    BY <1>1, <2>1, TransformOverTyped
<1> DEFINE Good == { i \in 0 .. to - mid :
             TransformOver(op, Missed(hist, from, mid + i))
               = TransformOver(x, Missed(hist, mid, mid + i)) }
<1>3. to - mid \in Nat
  OBVIOUS
<1>4. 0 \in Good
  <2>1. TransformOver(x, Missed(hist, mid, mid)) = x
    BY <1>2, MissedNothing
  <2>2. mid + 0 = mid /\ 0 \in 0 .. to - mid
    BY <1>3
  <2> QED
    BY <1>1, <2>1, <2>2
<1>5. ASSUME NEW i \in 1 .. to - mid, i - 1 \in Good PROVE i \in Good
  <2>1. PICK r : r = mid + (i - 1)
    OBVIOUS
  <2>2. r \in Nat /\ r < Len(hist) /\ from <= r /\ mid <= r /\ mid + i = r + 1 /\ i \in 0 .. to - mid
    BY <1>3, <2>1
  <2>3. TransformOver(op, Missed(hist, from, r)) = TransformOver(x, Missed(hist, mid, r))
    BY <1>5, <2>1
  <2>4. TransformOver(op, Missed(hist, from, r + 1))
          = Transform(TransformOver(op, Missed(hist, from, r)), hist[r + 1])
    BY <2>2, MissedNext
  <2>5. TransformOver(x, Missed(hist, mid, r + 1))
          = Transform(TransformOver(x, Missed(hist, mid, r)), hist[r + 1])
    BY <1>2, <2>2, MissedNext
  <2> QED
    BY <2>2, <2>3, <2>4, <2>5
<1> HIDE DEF Good
<1>6. \A i \in 0 .. to - mid : i \in Good
  BY <1>3, <1>4, <1>5, UpTo
<1>7. to - mid \in Good
  BY <1>3, <1>6
<1>8. mid + (to - mid) = to
  OBVIOUS
<1> QED
  BY <1>1, <1>7, <1>8 DEF Good

(* What is appended changes nothing that was there.                        *)
LEMMA MissedOfAppend ==
  ASSUME NEW hist \in Seq(Edits(Nat)), NEW e \in Edits(Nat), NEW from \in Nat, NEW to \in Nat,
         from <= to, to <= Len(hist)
  PROVE  Missed(Append(hist, e), from, to) = Missed(hist, from, to)
<1>1. PICK b : b = from + 1
  OBVIOUS
<1>2. to \in 0 .. Len(hist) /\ b \in 1 .. to + 1
  BY <1>1
<1>3. SubSeq(Append(hist, e), b, to) = SubSeq(hist, b, to)
  BY <1>2, SubSeqOfAppend
<1> QED
  BY <1>1, <1>3 DEF Missed

LEMMA TextOfAppend ==
  ASSUME NEW hist \in Seq(Edits(Nat)), NEW e \in Edits(Nat), NEW r \in 0 .. Len(hist)
  PROVE  TextAt(Append(hist, e), r) = TextAt(hist, r)
<1>1. 1 \in 1 .. r + 1
  OBVIOUS
<1>2. SubSeq(Append(hist, e), 1, r) = SubSeq(hist, 1, r)
  BY <1>1, SubSeqOfAppend
<1> QED
  BY <1>2 DEF TextAt

LEMMA ApplyLast ==
  ASSUME NEW d \in Seq(Nat), NEW s \in Seq(Edits(Nat)), NEW r \in Seq(Edits(Nat)),
         Len(r) = Len(s) + 1, \A i \in 1 .. Len(s) : r[i] = s[i]
  PROVE  FoldLeft(Apply, d, r) = Apply(FoldLeft(Apply, d, s), r[Len(r)])
<1> DEFINE n == Len(s)
<1>1. PICK t \in [0 .. Len(s) -> Seq(Nat)] :
        Applies(t, d, s) /\ FoldLeft(Apply, d, s) = t[Len(s)]
  BY ApplyRuns
<1>2. PICK u \in [0 .. Len(r) -> Seq(Nat)] :
        Applies(u, d, r) /\ FoldLeft(Apply, d, r) = u[Len(r)]
  BY ApplyRuns
<1> DEFINE Good == { i \in 0 .. n : u[i] = t[i] }
<1>3. n \in Nat /\ Len(r) \in Nat /\ 0 \in Good
  BY <1>1, <1>2 DEF Applies
<1>4. ASSUME NEW i \in 1 .. n, i - 1 \in Good PROVE i \in Good
  <2>1. i \in 1 .. Len(r) /\ r[i] = s[i] /\ u[i - 1] = t[i - 1]
    BY <1>3, <1>4
  <2>2. t[i] = Apply(t[i - 1], s[i]) /\ u[i] = Apply(u[i - 1], r[i])
    BY <1>1, <1>2, <2>1 DEF Applies
  <2> QED
    BY <2>1, <2>2
<1> HIDE DEF Good
<1>5. \A i \in 0 .. n : i \in Good
  BY <1>3, <1>4, UpTo
<1>6. u[n] = t[n]
  BY <1>3, <1>5 DEF Good
<1>7. u[Len(r)] = Apply(u[Len(r) - 1], r[Len(r)])
  <2>1. Len(r) \in 1 .. Len(r)
    BY <1>3
  <2> QED
    BY <1>2, <2>1 DEF Applies
<1>8. Len(r) - 1 = n
  BY <1>3
<1> QED
  BY <1>1, <1>2, <1>6, <1>7, <1>8

LEMMA TextStart ==
  ASSUME NEW hist \in Seq(Edits(Nat))
  PROVE  TextAt(hist, 0) = Initial
<1>1. PICK s : s = SubSeq(hist, 1, 0)
  OBVIOUS
<1>2. s \in Seq(Edits(Nat)) /\ Len(s) = 0
  BY <1>1
<1>3. Initial \in Seq(Nat)
  BY EditorAssumption
<1>4. PICK t \in [0 .. Len(s) -> Seq(Nat)] :
        Applies(t, Initial, s) /\ FoldLeft(Apply, Initial, s) = t[Len(s)]
  BY <1>2, <1>3, ApplyRuns
<1> QED
  BY <1>1, <1>2, <1>4 DEF Applies, TextAt

LEMMA TextNext ==
  ASSUME NEW hist \in Seq(Edits(Nat)), NEW r \in Nat, r < Len(hist)
  PROVE  TextAt(hist, r + 1) = Apply(TextAt(hist, r), hist[r + 1])
<1>1. PICK n, s, x : n = r + 1 /\ s = SubSeq(hist, 1, r) /\ x = SubSeq(hist, 1, n)
  OBVIOUS
<1>2. n \in Nat /\ n <= Len(hist) /\ 0 + 1 = 1 /\ r <= Len(hist)
  BY <1>1
<1>3. s \in Seq(Edits(Nat)) /\ Len(s) = r /\ \A k \in 1 .. r : s[k] = hist[k]
  BY <1>1, <1>2
<1>4. x \in Seq(Edits(Nat)) /\ Len(x) = n /\ \A k \in 1 .. n : x[k] = hist[k]
  BY <1>1, <1>2
<1>5. Len(x) = Len(s) + 1 /\ n \in 1 .. n
  BY <1>1, <1>3, <1>4
<1>6. \A k \in 1 .. Len(s) : x[k] = s[k]
  BY <1>1, <1>3, <1>4
<1>7. Initial \in Seq(Nat)
  BY EditorAssumption
<1>8. FoldLeft(Apply, Initial, x) = Apply(FoldLeft(Apply, Initial, s), x[Len(x)])
  BY <1>3, <1>4, <1>5, <1>6, <1>7, ApplyLast
<1>9. x[Len(x)] = hist[n]
  BY <1>4, <1>5
<1> QED
  BY <1>1, <1>8, <1>9 DEF TextAt

LEMMA TextTyped ==
  ASSUME NEW hist \in Seq(Edits(Nat)), NEW r \in 0 .. Len(hist)
  PROVE  TextAt(hist, r) \in Seq(Nat)
<1>1. PICK s : s = SubSeq(hist, 1, r)
  OBVIOUS
<1>2. s \in Seq(Edits(Nat)) /\ Len(s) \in Nat
  BY <1>1
<1>3. Initial \in Seq(Nat)
  BY EditorAssumption
<1>4. PICK t \in [0 .. Len(s) -> Seq(Nat)] :
        Applies(t, Initial, s) /\ FoldLeft(Apply, Initial, s) = t[Len(s)]
  BY <1>2, <1>3, ApplyRuns
<1>5. t[Len(s)] \in Seq(Nat)
  BY <1>2
<1> QED
  BY <1>1, <1>4, <1>5 DEF TextAt

-----------------------------------------------------------------------------
(* receiveOp, field by field.                                              *)

DisplayOf(confirmed, pending) == FoldLeft(ApplyOp, confirmed, Normalized(pending))

(* What the editor may show, given that it shows e now.                    *)
Displays(e) ==
  {e} \cup { DisplayOf(confirmed, pending) : confirmed \in Seq(Nat), pending \in Seq(Edits(Nat)) }

LEMMA DisplayNothing ==
  ASSUME NEW d
  PROVE  DisplayOf(d, <<>>) = d
<1>1. DOMAIN <<>> = {} /\ SUBSET {} = {{}}
  OBVIOUS
<1>2. Normalized(<<>>) = <<>>
  <2> DEFINE Body(iter) == [S \in SUBSET {} |->
               IF S = {} THEN <<>>
               ELSE Append(iter[S \ {Max(S)}],
                           FoldLeft(Rebase, <<>>[Max(S)], iter[S \ {Max(S)}]))]
             it == [S \in SUBSET {} |-> <<>>]
             iter == CHOOSE f : f = Body(f)
  <2>1. Normalized(<<>>) = iter[{}]
    BY <1>1 DEF Normalized, FoldLeft, MapThenFoldSet
  <2>2. it = Body(it)
    BY <1>1
  <2> HIDE DEF Body, it
  <2>3. iter = Body(iter)
    BY <2>2
  <2> HIDE DEF iter
  <2>4. Body(iter)[{}] = <<>>
    BY <1>1 DEF Body
  <2> QED
    BY <2>1, <2>3, <2>4
<1>3. FoldLeft(ApplyOp, d, <<>>) = d
  <2> DEFINE Body(iter) == [S \in SUBSET {} |->
               IF S = {} THEN d
               ELSE ApplyOp(iter[S \ {Max(S)}], <<>>[Max(S)])]
             it == [S \in SUBSET {} |-> d]
             iter == CHOOSE f : f = Body(f)
  <2>1. FoldLeft(ApplyOp, d, <<>>) = iter[{}]
    BY <1>1 DEF FoldLeft, MapThenFoldSet
  <2>2. it = Body(it)
    BY <1>1
  <2> HIDE DEF Body, it
  <2>3. iter = Body(iter)
    BY <2>2
  <2> HIDE DEF iter
  <2>4. Body(iter)[{}] = d
    BY <1>1 DEF Body
  <2> QED
    BY <2>1, <2>3, <2>4
<1> QED
  BY <1>2, <1>3 DEF DisplayOf

(* The filter that takes out what is acknowledged.                         *)
IsWithout(w, pending, id) ==
  /\ \A k \in 1 .. Len(w) : \E j \in 1 .. Len(pending) :
       w[k] = pending[j] /\ pending[j].opId # id
  /\ \A j \in 1 .. Len(pending) : pending[j].opId # id =>
       \E k \in 1 .. Len(w) : w[k] = pending[j]

LEMMA WithoutIs ==
  ASSUME NEW pending \in Seq(Edits(Nat)), NEW id
  PROVE  /\ Without(pending, id) \in Seq(Edits(Nat))
         /\ IsWithout(Without(pending, id), pending, id)
<1>1. PICK T : T = { p \in ToSet(pending) : p.opId # id }
  OBVIOUS
<1>2. PICK w : w = Those(pending, T)
  OBVIOUS
<1>3. w \in Seq(Edits(Nat)) /\ KeptUpTo(w, pending, T, Len(pending))
  BY <1>2, ThoseAre
<1>4. \A j \in 1 .. Len(pending) : pending[j] \in T <=> pending[j].opId # id
  <2>1. \A j \in 1 .. Len(pending) : pending[j] \in ToSet(pending)
    BY DEF ToSet
  <2> QED
    BY <1>1, <2>1
<1>5. w = Without(pending, id)
  BY <1>1, <1>2 DEF Without
<1>6. \A k \in 1 .. Len(w) : \E j \in 1 .. Len(pending) :
        w[k] = pending[j] /\ pending[j].opId # id
  BY <1>3, <1>4 DEF KeptUpTo
<1>7. \A j \in 1 .. Len(pending) : pending[j].opId # id =>
        \E k \in 1 .. Len(w) : w[k] = pending[j]
  BY <1>3, <1>4 DEF KeptUpTo
<1>8. IsWithout(w, pending, id)
  BY <1>6, <1>7 DEF IsWithout
<1> QED
  BY <1>3, <1>5, <1>8

Mine(br, op) == \E i \in 1 .. Len(br.pending) : br.pending[i].opId = op.opId

Rebased(pending, op) == [i \in 1 .. Len(pending) |-> Rebase(pending[i], op)]

LEMMA RebasedTyped ==
  ASSUME NEW pending \in Seq(Edits(Nat)), NEW op \in Edits(Nat)
  PROVE  /\ Rebased(pending, op) \in Seq(Edits(Nat))
         /\ Len(Rebased(pending, op)) = Len(pending)
         /\ \A i \in 1 .. Len(pending) : Rebased(pending, op)[i] = Rebase(pending[i], op)
<1>1. ASSUME NEW i \in 1 .. Len(pending) PROVE Rebase(pending[i], op) \in Edits(Nat)
  <2>1. pending[i] \in Edits(Nat)
    OBVIOUS
  <2> QED
    BY <2>1, RebaseTyped
<1> QED
  BY <1>1 DEF Rebased

(* An operation that was applied before.                                   *)
LEMMA ReceivedBefore ==
  ASSUME NEW E, NEW br \in Browser(E), NEW op \in Edits(Nat), op.opId \in br.applied
  PROVE  /\ Received(br, op) \in Browser(E)
         /\ Received(br, op) = [br EXCEPT !.pending = Without(br.pending, op.opId)]
<1>1. Received(br, op) = [br EXCEPT !.pending = Without(br.pending, op.opId)]
  BY DEF Received
<1>2. br.pending \in Seq(Edits(Nat))
  BY DEF Browser
<1>3. Without(br.pending, op.opId) \in Seq(Edits(Nat))
  BY <1>2, WithoutIs
<1>4. PICK w : w = Without(br.pending, op.opId)
  OBVIOUS
<1>5. [br EXCEPT !.pending = w] \in Browser(E)
  BY <1>3, <1>4 DEF Browser
<1> QED
  BY <1>1, <1>4, <1>5

(* A new one.                                                              *)
IsNews(nx, br, op) ==
  /\ nx.online = br.online /\ nx.enabled = br.enabled /\ nx.typed = br.typed
  /\ nx.applied = br.applied \cup {op.opId}
  /\ nx.revision = op.revision
  /\ nx.confirmed = Apply(br.confirmed, op)
  /\ nx.pending = IF Mine(br, op) THEN Without(br.pending, op.opId) ELSE Rebased(br.pending, op)
  /\ nx.base = br.base /\ nx.cleared = br.cleared /\ nx.refused = br.refused
  /\ nx.orderly <=> br.orderly /\ op.revision <= br.revision + 1 /\ op.revision > br.base
  /\ nx.editor = DisplayOf(nx.confirmed, nx.pending)

LEMMA ReceivedNew ==
  ASSUME NEW E, \A confirmed \in Seq(Nat), pending \in Seq(Edits(Nat)) :
                  DisplayOf(confirmed, pending) \in E,
         NEW br \in Browser(E), NEW op \in Edits(Nat), op.opId \notin br.applied
  PROVE  Received(br, op) \in Browser(E) /\ IsNews(Received(br, op), br, op)
<1>1. /\ br.pending \in Seq(Edits(Nat)) /\ br.confirmed \in Seq(Nat) /\ br.revision \in Nat
      /\ br.applied \in SUBSET Nat /\ br.orderly \in BOOLEAN
  BY DEF Browser
<1>2. op.opId \in Nat /\ op.revision \in Nat
  BY EditFields
<1>3. PICK rest : rest = Without(br.pending, op.opId)
  OBVIOUS
<1>4. rest \in Seq(Edits(Nat))
  BY <1>1, <1>3, WithoutIs
<1>5. Rebased(br.pending, op) \in Seq(Edits(Nat))
  BY <1>1, RebasedTyped
<1>6. PICK pending : pending = IF Mine(br, op) THEN rest ELSE Rebased(br.pending, op)
  OBVIOUS
<1>7. pending \in Seq(Edits(Nat))
  BY <1>4, <1>5, <1>6
<1>8. PICK confirmed : confirmed = Apply(br.confirmed, op)
  OBVIOUS
<1>9. confirmed \in Seq(Nat) /\ ApplyOp(br.confirmed, op) = confirmed
  BY <1>1, <1>8, ApplyOpIs, ApplySplices
<1>10. PICK orderly \in BOOLEAN :
         orderly <=> br.orderly /\ op.revision <= br.revision + 1 /\ op.revision > br.base
  OBVIOUS
<1>11. (br.orderly /\ op.revision <= br.revision + 1 /\ op.revision > br.base) = orderly
  BY <1>1, <1>10, Zenon
<1>12. DOMAIN br.pending = 1 .. Len(br.pending)
  BY <1>1
<1>13. PICK applied : applied = br.applied \cup {op.opId}
  OBVIOUS
<1>14. applied \in SUBSET Nat
  BY <1>1, <1>2, <1>13
<1>15. PICK next : next = [br EXCEPT
          !.applied = applied, !.revision = op.revision, !.confirmed = confirmed,
          !.pending = pending, !.orderly = orderly]
  OBVIOUS
<1>16. /\ next \in Browser(E)
       /\ next.confirmed = confirmed /\ next.pending = pending /\ next.orderly = orderly
       /\ next.applied = applied /\ next.revision = op.revision
       /\ next.online = br.online /\ next.enabled = br.enabled /\ next.typed = br.typed
       /\ next.base = br.base /\ next.cleared = br.cleared /\ next.refused = br.refused
  BY <1>2, <1>7, <1>9, <1>10, <1>14, <1>15 DEF Browser
<1>17. PICK e : e = DisplayOf(confirmed, pending)
  OBVIOUS
<1>18. e \in E /\ ComposeDisplay(next) = e
  BY <1>7, <1>9, <1>16, <1>17 DEF ComposeDisplay, DisplayOf
<1>19. Received(br, op) = [next EXCEPT !.editor = e]
  <2>1. Mine(br, op) <=> \E i \in DOMAIN br.pending : br.pending[i].opId = op.opId
    BY <1>12 DEF Mine
  <2>2. pending = IF \E i \in DOMAIN br.pending : br.pending[i].opId = op.opId
                  THEN rest ELSE [i \in DOMAIN br.pending |-> Rebase(br.pending[i], op)]
    BY <1>6, <1>12, <2>1 DEF Rebased
  <2> QED
    BY <1>3, <1>9, <1>11, <1>13, <1>15, <1>18, <2>2 DEF Received, News
<1>20. PICK nx : nx = [next EXCEPT !.editor = e]
  OBVIOUS
<1>21. /\ nx \in Browser(E) /\ nx.editor = e
       /\ nx.confirmed = confirmed /\ nx.pending = pending /\ nx.orderly = orderly
       /\ nx.applied = applied /\ nx.revision = op.revision
       /\ nx.online = br.online /\ nx.enabled = br.enabled /\ nx.typed = br.typed
       /\ nx.base = br.base /\ nx.cleared = br.cleared /\ nx.refused = br.refused
  <2>1. e \in E /\ next \in Browser(E)
    BY <1>16, <1>18
  <2> QED
    BY <1>16, <1>20, <2>1 DEF Browser
<1>22. IsNews(nx, br, op)
  BY <1>3, <1>6, <1>8, <1>10, <1>13, <1>17, <1>21 DEF IsNews
<1> QED
  BY <1>19, <1>20, <1>21, <1>22

LEMMA ReceivedTyped ==
  ASSUME NEW E, \A confirmed \in Seq(Nat), pending \in Seq(Edits(Nat)) :
                  DisplayOf(confirmed, pending) \in E,
         NEW br \in Browser(E), NEW op \in Edits(Nat)
  PROVE  Received(br, op) \in Browser(E)
<1>1. CASE op.opId \in br.applied
  BY <1>1, ReceivedBefore
<1>2. CASE op.opId \notin br.applied
  BY <1>2, ReceivedNew
<1> QED
  BY <1>1, <1>2

-----------------------------------------------------------------------------
(* receiveOp keeps the invariant of a browser.                             *)

(* The echoes of a pending operation, seen from the next revision.         *)
LEMMA RebasedEchoes ==
  ASSUME NEW hist \in Seq(Edits(Nat)), NEW revision \in Nat, revision < Len(hist),
         NEW p \in Edits(Nat), NEW sent \in SUBSET Edits(Nat),
         SentAsPending(p, revision, hist, sent), CommittedAsPending(p, revision, hist)
  PROVE  /\ SentAsPending(Rebase(p, hist[revision + 1]), revision + 1, hist, sent)
         /\ CommittedAsPending(Rebase(p, hist[revision + 1]), revision + 1, hist)
<1>1. PICK r, h, q : r = revision + 1 /\ h = hist[r] /\ q = Rebase(p, h)
  OBVIOUS
<1>2. r \in Nat /\ r \in 1 .. Len(hist) /\ r <= Len(hist) /\ revision <= r /\ Len(hist) \in Nat
  BY <1>1
<1>3. h \in Edits(Nat)
  BY <1>1, <1>2
<1>4. q \in Edits(Nat) /\ q.opId = p.opId
  BY <1>1, <1>3, RebaseTyped
<1>5. Transform(p, h) \in Edits(Nat) /\ Same(Transform(p, h), q)
  BY <1>1, <1>3, TransformTyped, RebaseSame
<1>6. ASSUME NEW op \in sent, op.opId = q.opId
      PROVE  op.baseRevision <= r /\ Same(TransformOver(op, Missed(hist, op.baseRevision, r)), q)
  <2>1. PICK base : base = op.baseRevision
    OBVIOUS
  <2>2. base \in Nat /\ op \in Edits(Nat)
    BY <2>1, EditFields
  <2>3. PICK x : x = TransformOver(op, Missed(hist, base, revision))
    OBVIOUS
  <2>4. base <= revision /\ Same(x, p)
    BY <1>4, <1>6, <2>1, <2>3 DEF SentAsPending
  <2>5. x \in Edits(Nat)
    <3>1. Missed(hist, base, revision) \in Seq(Edits(Nat))
      BY <2>2, <2>4, MissedIs
    <3> QED
      BY <2>2, <2>3, <3>1, TransformOverTyped
  <2>6. TransformOver(op, Missed(hist, base, r)) = Transform(x, h)
    BY <1>1, <2>2, <2>3, <2>4, MissedNext
  <2>7. Transform(x, h) \in Edits(Nat) /\ Same(Transform(x, h), Transform(p, h))
    BY <1>3, <2>4, <2>5, TransformTyped, TransformSame
  <2>8. Same(Transform(x, h), q)
    BY <1>4, <1>5, <2>7, SameIs
  <2> QED
    BY <1>2, <2>1, <2>2, <2>4, <2>6, <2>8
<1>7. ASSUME NEW n \in r + 1 .. Len(hist), hist[n].opId = q.opId
      PROVE  \E x \in Edits(Nat) : /\ hist[n] = Entered(x, Len(TextAt(hist, n - 1)), n)
                                   /\ Same(x, TransformOver(q, Missed(hist, r, n - 1)))
  <2>1. PICK m : m = n - 1
    OBVIOUS
  <2>2. m \in Nat /\ r <= m /\ revision <= m /\ m <= Len(hist) /\ n \in revision + 1 .. Len(hist)
    BY <1>1, <1>2, <2>1
  <2>3. PICK x \in Edits(Nat) : /\ hist[n] = Entered(x, Len(TextAt(hist, n - 1)), n)
                                /\ Same(x, TransformOver(p, Missed(hist, revision, m)))
    BY <1>4, <1>7, <2>1, <2>2 DEF CommittedAsPending
  <2>4. TransformOver(p, Missed(hist, revision, r)) = Transform(p, h)
    <3>1. TransformOver(p, Missed(hist, revision, revision)) = p
      BY MissedNothing
    <3> QED
      BY <1>1, <3>1, MissedNext
  <2>5. TransformOver(p, Missed(hist, revision, m))
          = TransformOver(Transform(p, h), Missed(hist, r, m))
    BY <1>2, <2>2, <2>4, MissedSplit
  <2>6. Missed(hist, r, m) \in Seq(Edits(Nat))
    BY <1>2, <2>2, MissedIs
  <2>7. Same(TransformOver(Transform(p, h), Missed(hist, r, m)),
             TransformOver(q, Missed(hist, r, m)))
    BY <1>4, <1>5, <2>6, TransformOverSame
  <2>8. /\ TransformOver(Transform(p, h), Missed(hist, r, m)) \in Edits(Nat)
        /\ TransformOver(q, Missed(hist, r, m)) \in Edits(Nat)
    BY <1>4, <1>5, <2>6, TransformOverTyped
  <2>9. Same(x, TransformOver(q, Missed(hist, r, m)))
    BY <2>3, <2>5, <2>7, <2>8, SameIs
  <2> QED
    BY <2>1, <2>3, <2>9
<1>8. SentAsPending(q, r, hist, sent)
  BY <1>6 DEF SentAsPending
<1>9. CommittedAsPending(q, r, hist)
  BY <1>7 DEF CommittedAsPending
<1> QED
  BY <1>1, <1>8, <1>9

(* What stays of the old state: pending operations are old ones, rebased   *)
(* or not, and none of them is what was received.                          *)
Continues(nx, br) ==
  /\ nx.online = br.online /\ nx.typed = br.typed
  /\ br.refused => nx.refused
  /\ nx.orderly => br.orderly /\ br.revision <= nx.revision
  /\ \A i \in 1 .. Len(nx.pending) : \E j \in 1 .. Len(br.pending) :
       nx.pending[i].opId = br.pending[j].opId

Settles(nx, r, hist) ==
  /\ nx.orderly => r <= nx.revision
  /\ \A i \in 1 .. Len(nx.pending) : nx.pending[i].opId # hist[r].opId

LEMMA BrowserHeld ==
  ASSUME NEW E, NEW br \in Browser(E)
  PROVE  br \in Browser({br.editor})
  BY DEF Browser

LEMMA ReceivedBeforeKeeps ==
  ASSUME NEW b \in Browsers, NEW hist, LogTyped(hist), NEW sent \in SUBSET Edits(Nat),
         NEW br, BrowserInv(b, br, hist, sent), NEW r \in 1 .. Len(hist),
         hist[r].opId \in br.applied
  PROVE  /\ BrowserInv(b, Received(br, hist[r]), hist, sent)
         /\ Continues(Received(br, hist[r]), br) /\ Settles(Received(br, hist[r]), r, hist)
<1>1. PICK nx, h, w : /\ h = hist[r] /\ nx = Received(br, h)
                      /\ w = Without(br.pending, h.opId)
  OBVIOUS
<1>2. hist \in Seq(Edits(Nat)) /\ h \in Edits(Nat)
  BY <1>1 DEF LogTyped
<1>3. br \in Browser({br.editor})
  BY DEF BrowserInv, Held
<1>4. nx \in Browser({br.editor}) /\ nx = [br EXCEPT !.pending = w]
  BY <1>1, <1>2, <1>3, ReceivedBefore
<1>5. /\ nx.online = br.online /\ nx.enabled = br.enabled /\ nx.typed = br.typed
      /\ nx.applied = br.applied /\ nx.revision = br.revision /\ nx.orderly = br.orderly
      /\ nx.confirmed = br.confirmed /\ nx.editor = br.editor /\ nx.pending = w
      /\ nx.base = br.base /\ nx.cleared = br.cleared /\ nx.refused = br.refused
  BY <1>3, <1>4 DEF Browser
<1>6. br.pending \in Seq(Edits(Nat)) /\ br.revision \in Nat
  BY <1>3 DEF Browser
<1>7. /\ w \in Seq(Edits(Nat))
      /\ \A k \in 1 .. Len(w) : \E j \in 1 .. Len(br.pending) :
           w[k] = br.pending[j] /\ br.pending[j].opId # h.opId
      /\ \A j \in 1 .. Len(br.pending) : br.pending[j].opId # h.opId =>
           \E k \in 1 .. Len(w) : w[k] = br.pending[j]
  <2>1. w \in Seq(Edits(Nat)) /\ IsWithout(w, br.pending, h.opId)
    BY <1>1, <1>6, WithoutIs
  <2> QED
    BY <2>1 DEF IsWithout
<1>8. \A i \in 1 .. Len(br.pending) : br.pending[i].opId # h.opId
  BY <1>1 DEF BrowserInv, Held
<1>9. Held(b, nx, hist)
  <2>1. nx \in Browser({nx.editor})
    BY <1>4, <1>5
  <2>2. /\ br.revision <= Len(hist) /\ br.typed <= Len(OpIds[b])
        /\ \A id \in br.applied : \E q \in 1 .. Len(hist) : hist[q].opId = id
    BY DEF BrowserInv, Held
  <2>3. \A i \in 1 .. Len(w) :
          w[i].opId \notin br.applied /\ \E k \in 1 .. br.typed : w[i].opId = OpIds[b][k]
    <3>1. TAKE i \in 1 .. Len(w)
    <3>2. PICK j \in 1 .. Len(br.pending) : w[i] = br.pending[j]
      BY <1>7
    <3>3. /\ br.pending[j].opId \notin br.applied
          /\ \E k \in 1 .. br.typed : br.pending[j].opId = OpIds[b][k]
      BY DEF BrowserInv, Held
    <3> QED
      BY <3>2, <3>3
  <2>4. ASSUME ~br.cleared, NEW k \in 1 .. br.typed,
               ~\E q \in 1 .. Len(hist) : hist[q].opId = OpIds[b][k]
        PROVE  \E i \in 1 .. Len(w) : w[i].opId = OpIds[b][k]
    <3>1. PICK j \in 1 .. Len(br.pending) : br.pending[j].opId = OpIds[b][k]
      BY <2>4 DEF BrowserInv, Held
    <3> QED
      BY <1>7, <1>8, <3>1
  <2>5. \A i, j \in 1 .. Len(w) : w[i].opId = w[j].opId => w[i] = w[j]
    <3>1. TAKE i, j \in 1 .. Len(w)
    <3>2. PICK k \in 1 .. Len(br.pending) : w[i] = br.pending[k]
      BY <1>7
    <3>3. PICK l \in 1 .. Len(br.pending) : w[j] = br.pending[l]
      BY <1>7
    <3>4. br.pending[k].opId = br.pending[l].opId => br.pending[k] = br.pending[l]
      BY DEF BrowserInv, Held
    <3> QED
      BY <3>2, <3>3, <3>4
  <2>6. /\ nx.revision <= Len(hist) /\ nx.typed <= Len(OpIds[b])
        /\ \A id \in nx.applied : \E q \in 1 .. Len(hist) : hist[q].opId = id
    BY <1>5, <2>2
  <2>7. \A i \in 1 .. Len(nx.pending) :
          /\ nx.pending[i].opId \notin nx.applied
          /\ \E k \in 1 .. nx.typed : nx.pending[i].opId = OpIds[b][k]
    BY <1>5, <2>3
  <2>8. ~nx.cleared => \A k \in 1 .. nx.typed :
          \/ \E q \in 1 .. Len(hist) : hist[q].opId = OpIds[b][k]
          \/ \E i \in 1 .. Len(nx.pending) : nx.pending[i].opId = OpIds[b][k]
    BY <1>5, <2>4
  <2>9. \A i, j \in 1 .. Len(nx.pending) :
          nx.pending[i].opId = nx.pending[j].opId => nx.pending[i] = nx.pending[j]
    BY <1>5, <2>5
  <2> QED
    BY <2>1, <2>6, <2>7, <2>8, <2>9 DEF Held
<1>10. Shown(nx, hist)
  <2>1. nx.orderly => /\ nx.confirmed = TextAt(hist, nx.revision)
                      /\ \A id \in nx.applied : \E q \in 1 .. nx.revision : hist[q].opId = id
                      /\ nx.base <= nx.revision
                      /\ \A q \in nx.base + 1 .. nx.revision : hist[q].opId \in nx.applied
    BY <1>5 DEF BrowserInv, Shown
  <2>2. ASSUME nx.pending = <<>> PROVE nx.editor = nx.confirmed
    <3>1. Len(w) = 0
      BY <1>5, <2>2
    <3>2. ~\E j \in 1 .. Len(br.pending) : TRUE
      BY <1>7, <1>8, <3>1
    <3>3. br.pending = <<>>
      BY <1>6, <3>2
    <3> QED
      BY <1>5, <3>3 DEF BrowserInv, Shown
  <2> QED
    BY <2>1, <2>2 DEF Shown
<1>11. Echoes(b, nx, hist, sent)
  <2>1. SUFFICES ASSUME nx.orderly, NEW i \in 1 .. Len(w)
                 PROVE  /\ w[i].baseRevision <= br.revision
                        /\ Foreign(b, hist, w[i].baseRevision, br.revision) =>
                             /\ SentAsPending(w[i], br.revision, hist, sent)
                             /\ CommittedAsPending(w[i], br.revision, hist)
    BY <1>5 DEF Echoes
  <2>2. PICK j \in 1 .. Len(br.pending) : w[i] = br.pending[j]
    BY <1>7
  <2> QED
    BY <1>5, <2>1, <2>2 DEF BrowserInv, Echoes
<1>12. Continues(nx, br)
  <2>1. \A i \in 1 .. Len(w) : \E j \in 1 .. Len(br.pending) : w[i].opId = br.pending[j].opId
    BY <1>7
  <2>2. nx.orderly => br.orderly /\ br.revision <= nx.revision
    BY <1>5, <1>6
  <2> QED
    BY <1>5, <2>1, <2>2 DEF Continues
<1>13. Settles(nx, r, hist)
  <2>1. ASSUME nx.orderly PROVE r <= nx.revision
    <3>1. PICK q \in 1 .. br.revision : hist[q].opId = hist[r].opId
      BY <1>1, <1>5, <2>1 DEF BrowserInv, Shown
    <3>2. q \in 1 .. Len(hist) /\ q <= br.revision
      BY <1>2, <1>6 DEF BrowserInv, Held
    <3>3. q = r
      BY <3>1, <3>2 DEF LogTyped
    <3> QED
      BY <1>5, <3>2, <3>3
  <2>2. \A i \in 1 .. Len(w) : w[i].opId # h.opId
    BY <1>7
  <2> QED
    BY <1>1, <1>5, <2>1, <2>2 DEF Settles
<1> QED
  BY <1>1, <1>9, <1>10, <1>11, <1>12, <1>13 DEF BrowserInv

LEMMA ReceivedNewKeeps ==
  ASSUME NEW b \in Browsers, NEW hist, LogTyped(hist), NEW sent \in SUBSET Edits(Nat),
         NEW br, BrowserInv(b, br, hist, sent), NEW r \in 1 .. Len(hist),
         hist[r].opId \notin br.applied
  PROVE  /\ BrowserInv(b, Received(br, hist[r]), hist, sent)
         /\ Continues(Received(br, hist[r]), br) /\ Settles(Received(br, hist[r]), r, hist)
<1>1. PICK nx, h : h = hist[r] /\ nx = Received(br, h)
  OBVIOUS
<1>2. hist \in Seq(Edits(Nat)) /\ h \in Edits(Nat) /\ h.revision = r /\ Len(hist) \in Nat
  BY <1>1 DEF LogTyped
<1>3. br \in Browser({br.editor})
  BY DEF BrowserInv, Held
<1>4. nx \in Browser(Displays(br.editor)) /\ IsNews(nx, br, h)
  <2>1. PICK E : E = Displays(br.editor)
    OBVIOUS
  <2>2. \A confirmed \in Seq(Nat), pending \in Seq(Edits(Nat)) :
          DisplayOf(confirmed, pending) \in E
    BY <2>1 DEF Displays
  <2>3. br \in Browser(E)
    BY <1>3, <2>1 DEF Browser, Displays
  <2> QED
    BY <1>1, <1>2, <2>1, <2>2, <2>3, ReceivedNew
<1>5. /\ nx.online = br.online /\ nx.enabled = br.enabled /\ nx.typed = br.typed
      /\ nx.applied = br.applied \cup {h.opId} /\ nx.revision = r
      /\ nx.confirmed = Apply(br.confirmed, h)
      /\ nx.base = br.base /\ nx.cleared = br.cleared /\ nx.refused = br.refused
      /\ nx.editor = DisplayOf(nx.confirmed, nx.pending)
  BY <1>2, <1>4 DEF IsNews
<1>6. /\ br.pending \in Seq(Edits(Nat)) /\ br.revision \in Nat /\ br.typed \in Nat
      /\ br.base \in Nat
  BY <1>3 DEF Browser
<1>0. nx.orderly <=> br.orderly /\ r = br.revision + 1
  <2>1. nx.orderly <=> br.orderly /\ r <= br.revision + 1 /\ r > br.base
    BY <1>2, <1>4 DEF IsNews
  <2>2. br.orderly => /\ br.base <= br.revision
                      /\ \A q \in br.base + 1 .. br.revision : hist[q].opId \in br.applied
    BY DEF BrowserInv, Shown
  <2>3. br.orderly /\ r > br.base => ~(r <= br.revision)
    <3>1. r > br.base /\ r <= br.revision => r \in br.base + 1 .. br.revision
      BY <1>6
    <3> QED
      BY <2>2, <3>1
  <2>4. ASSUME br.orderly PROVE (r <= br.revision + 1 /\ r > br.base) <=> r = br.revision + 1
    <3>1. br.base <= br.revision /\ (r > br.base => ~(r <= br.revision)) /\ r \in Nat
      BY <2>2, <2>3, <2>4
    <3> QED
      BY <1>6, <3>1
  <2> QED
    BY <2>1, <2>4
<1>7. PICK w, u : w = Without(br.pending, h.opId) /\ u = Rebased(br.pending, h)
  OBVIOUS
<1>8. nx.pending = IF Mine(br, h) THEN w ELSE u
  BY <1>4, <1>7 DEF IsNews
<1>9. /\ w \in Seq(Edits(Nat))
      /\ \A k \in 1 .. Len(w) : \E j \in 1 .. Len(br.pending) :
           w[k] = br.pending[j] /\ br.pending[j].opId # h.opId
      /\ \A j \in 1 .. Len(br.pending) : br.pending[j].opId # h.opId =>
           \E k \in 1 .. Len(w) : w[k] = br.pending[j]
  <2>1. w \in Seq(Edits(Nat)) /\ IsWithout(w, br.pending, h.opId)
    BY <1>6, <1>7, WithoutIs
  <2> QED
    BY <2>1 DEF IsWithout
<1>10. /\ u \in Seq(Edits(Nat)) /\ Len(u) = Len(br.pending)
       /\ \A i \in 1 .. Len(br.pending) :
            /\ u[i] = Rebase(br.pending[i], h)
            /\ u[i].opId = br.pending[i].opId /\ u[i].baseRevision = br.pending[i].baseRevision
  <2>1. /\ u \in Seq(Edits(Nat)) /\ Len(u) = Len(br.pending)
        /\ \A i \in 1 .. Len(br.pending) : u[i] = Rebase(br.pending[i], h)
    BY <1>2, <1>6, <1>7, RebasedTyped
  <2>2. ASSUME NEW i \in 1 .. Len(br.pending)
        PROVE  u[i].opId = br.pending[i].opId /\ u[i].baseRevision = br.pending[i].baseRevision
    <3>1. br.pending[i] \in Edits(Nat)
      BY <1>6
    <3> QED
      BY <1>2, <2>1, <3>1, RebaseTyped
  <2> QED
    BY <2>1, <2>2
<1>11. \A i \in 1 .. Len(nx.pending) :
         /\ nx.pending[i].opId # h.opId
         /\ \E j \in 1 .. Len(br.pending) : nx.pending[i].opId = br.pending[j].opId
  <2>1. CASE Mine(br, h)
    <3>1. PICK q : q = nx.pending
      OBVIOUS
    <3>2. q = w
      BY <1>8, <2>1, <3>1
    <3>3. ASSUME NEW i \in 1 .. Len(q)
          PROVE  q[i].opId # h.opId /\ \E j \in 1 .. Len(br.pending) : q[i].opId = br.pending[j].opId
      <4>1. PICK j \in 1 .. Len(br.pending) : w[i] = br.pending[j] /\ br.pending[j].opId # h.opId
        BY <1>9, <3>2
      <4> QED
        BY <3>2, <4>1
    <3> QED
      BY <3>1, <3>3
  <2>2. CASE ~Mine(br, h)
    <3>1. \A j \in 1 .. Len(br.pending) : br.pending[j].opId # h.opId
      BY <2>2 DEF Mine
    <3> QED
      BY <1>8, <1>10, <2>2, <3>1
  <2> QED
    BY <2>1, <2>2
<1>12. \A j \in 1 .. Len(br.pending) : br.pending[j].opId # h.opId =>
         \E i \in 1 .. Len(nx.pending) : nx.pending[i].opId = br.pending[j].opId
  <2>1. CASE Mine(br, h)
    BY <1>8, <1>9, <2>1
  <2>2. CASE ~Mine(br, h)
    BY <1>8, <1>10, <2>2
  <2> QED
    BY <2>1, <2>2
<1>13. Held(b, nx, hist)
  <2>1. nx \in Browser({nx.editor})
    BY <1>4, BrowserHeld
  <2>2. nx.revision <= Len(hist) /\ nx.typed <= Len(OpIds[b])
    BY <1>2, <1>5 DEF BrowserInv, Held
  <2>3. \A id \in nx.applied : \E q \in 1 .. Len(hist) : hist[q].opId = id
    BY <1>1, <1>5 DEF BrowserInv, Held
  <2>4. \A i \in 1 .. Len(nx.pending) :
          /\ nx.pending[i].opId \notin nx.applied
          /\ \E k \in 1 .. nx.typed : nx.pending[i].opId = OpIds[b][k]
    <3>1. TAKE i \in 1 .. Len(nx.pending)
    <3>2. PICK j \in 1 .. Len(br.pending) : nx.pending[i].opId = br.pending[j].opId
      BY <1>11
    <3>3. br.pending[j].opId \notin br.applied
      BY DEF BrowserInv, Held
    <3>4. PICK k \in 1 .. br.typed : br.pending[j].opId = OpIds[b][k]
      BY DEF BrowserInv, Held
    <3> QED
      BY <1>5, <1>11, <3>2, <3>3, <3>4
  <2>5. ASSUME ~nx.cleared, NEW k \in 1 .. nx.typed,
               ~\E q \in 1 .. Len(hist) : hist[q].opId = OpIds[b][k]
        PROVE  \E i \in 1 .. Len(nx.pending) : nx.pending[i].opId = OpIds[b][k]
    <3>1. PICK j \in 1 .. Len(br.pending) : br.pending[j].opId = OpIds[b][k]
      BY <1>5, <2>5 DEF BrowserInv, Held
    <3>2. br.pending[j].opId # h.opId
      BY <1>1, <2>5, <3>1
    <3> QED
      BY <1>12, <3>1, <3>2
  <2>6. \A i, j \in 1 .. Len(nx.pending) :
          nx.pending[i].opId = nx.pending[j].opId => nx.pending[i] = nx.pending[j]
    <3>0. \A k, l \in 1 .. Len(br.pending) :
            br.pending[k].opId = br.pending[l].opId => br.pending[k] = br.pending[l]
      BY DEF BrowserInv, Held
    <3>1. CASE Mine(br, h)
      <4>1. TAKE i, j \in 1 .. Len(nx.pending)
      <4>2. PICK k \in 1 .. Len(br.pending) : nx.pending[i] = br.pending[k]
        BY <1>8, <1>9, <3>1
      <4>3. PICK l \in 1 .. Len(br.pending) : nx.pending[j] = br.pending[l]
        BY <1>8, <1>9, <3>1
      <4> QED
        BY <3>0, <4>2, <4>3
    <3>2. CASE ~Mine(br, h)
      <4>1. TAKE i, j \in 1 .. Len(nx.pending)
      <4>2. /\ i \in 1 .. Len(br.pending) /\ j \in 1 .. Len(br.pending)
            /\ nx.pending[i] = u[i] /\ nx.pending[j] = u[j]
        BY <1>8, <1>10, <3>2
      <4>3. u[i].opId = u[j].opId => br.pending[i] = br.pending[j]
        BY <1>10, <3>0, <4>2
      <4>4. br.pending[i] = br.pending[j] => u[i] = u[j]
        BY <1>10, <4>2
      <4> QED
        BY <4>2, <4>3, <4>4
    <3> QED
      BY <3>1, <3>2
  <2> QED
    BY <2>1, <2>2, <2>3, <2>4, <2>5, <2>6 DEF Held
<1>14. Shown(nx, hist)
  <2>1. ASSUME nx.orderly
        PROVE  /\ nx.confirmed = TextAt(hist, nx.revision)
               /\ \A id \in nx.applied : \E q \in 1 .. nx.revision : hist[q].opId = id
               /\ nx.base <= nx.revision
               /\ \A q \in nx.base + 1 .. nx.revision : hist[q].opId \in nx.applied
    <3>1. br.orderly /\ r = br.revision + 1
      BY <1>0, <2>1
    <3>2. /\ br.confirmed = TextAt(hist, br.revision)
          /\ \A id \in br.applied : \E q \in 1 .. br.revision : hist[q].opId = id
          /\ br.base <= br.revision
          /\ \A q \in br.base + 1 .. br.revision : hist[q].opId \in br.applied
      BY <3>1 DEF BrowserInv, Shown
    <3>3. br.revision < Len(hist) /\ r \in 1 .. r /\ 1 .. br.revision \subseteq 1 .. r
      BY <1>2, <1>6, <3>1
    <3>4. TextAt(hist, r) = Apply(TextAt(hist, br.revision), hist[r])
      BY <1>2, <1>6, <3>1, <3>3, TextNext
    <3>5. nx.base <= nx.revision
      BY <1>5, <1>6, <3>1, <3>2
    <3>6. ASSUME NEW q \in nx.base + 1 .. nx.revision PROVE hist[q].opId \in nx.applied
      <4>1. q \in br.base + 1 .. br.revision \/ q = r
        BY <1>5, <1>6, <3>1, <3>6
      <4> QED
        BY <1>1, <1>5, <3>2, <4>1
    <3>7. \A id \in nx.applied : \E q \in 1 .. nx.revision : hist[q].opId = id
      BY <1>1, <1>5, <3>2, <3>3
    <3> QED
      BY <1>1, <1>5, <3>2, <3>4, <3>5, <3>6, <3>7
  <2>2. ASSUME nx.pending = <<>> PROVE nx.editor = nx.confirmed
    <3>1. nx.editor = DisplayOf(nx.confirmed, <<>>)
      BY <1>5, <2>2
    <3> QED
      BY <3>1, DisplayNothing
  <2> QED
    BY <2>1, <2>2 DEF Shown
<1>15. Echoes(b, nx, hist, sent)
  <2>1. SUFFICES ASSUME nx.orderly, NEW i \in 1 .. Len(nx.pending)
                 PROVE  /\ nx.pending[i].baseRevision <= r
                        /\ Foreign(b, hist, nx.pending[i].baseRevision, r) =>
                             /\ SentAsPending(nx.pending[i], r, hist, sent)
                             /\ CommittedAsPending(nx.pending[i], r, hist)
    BY <1>5 DEF Echoes
  <2>2. br.orderly /\ r = br.revision + 1 /\ br.revision < Len(hist)
    BY <1>0, <1>2, <1>6, <2>1
  <2>3. CASE Mine(br, h)
    <3>1. PICK j \in 1 .. Len(br.pending) : nx.pending[i] = br.pending[j]
      BY <1>8, <1>9, <2>1, <2>3
    <3>2. PICK base : base = nx.pending[i].baseRevision
      OBVIOUS
    <3>3. base <= br.revision
      BY <2>2, <3>1, <3>2 DEF BrowserInv, Echoes
    <3>4. base \in Nat
      <4>1. br.pending[j] \in Edits(Nat)
        BY <1>6
      <4> QED
        BY <3>1, <3>2, <4>1, EditFields
    <3>5. r \in base + 1 .. r /\ base <= r
      BY <1>6, <2>2, <3>3, <3>4
    <3>6. h.opId \in ToSet(OpIds[b])
      <4>1. PICK m \in 1 .. Len(br.pending) : br.pending[m].opId = h.opId
        BY <2>3 DEF Mine
      <4>5. \E k \in 1 .. br.typed : br.pending[m].opId = OpIds[b][k]
        BY DEF BrowserInv, Held
      <4>2. PICK k \in 1 .. br.typed : h.opId = OpIds[b][k]
        BY <4>1, <4>5
      <4>3. OpIds[b] \in Seq(Nat) /\ br.typed <= Len(OpIds[b])
        BY EditorAssumption DEF BrowserInv, Held
      <4>4. k \in DOMAIN OpIds[b]
        BY <1>6, <4>3
      <4> QED
        BY <4>2, <4>4 DEF ToSet
    <3>7. ~Foreign(b, hist, base, r)
      BY <1>1, <3>5, <3>6 DEF Foreign
    <3> QED
      BY <3>2, <3>5, <3>7
  <2>4. CASE ~Mine(br, h)
    <3>1. i \in 1 .. Len(br.pending) /\ nx.pending[i] = u[i]
      BY <1>8, <1>10, <2>1, <2>4
    <3>2. PICK p : p = br.pending[i]
      OBVIOUS
    <3>3. /\ p \in Edits(Nat) /\ nx.pending[i] = Rebase(p, h)
          /\ nx.pending[i].baseRevision = p.baseRevision
      BY <1>6, <1>10, <3>1, <3>2
    <3>4. /\ p.baseRevision <= br.revision
          /\ Foreign(b, hist, p.baseRevision, br.revision) =>
               /\ SentAsPending(p, br.revision, hist, sent)
               /\ CommittedAsPending(p, br.revision, hist)
      BY <2>2, <3>1, <3>2 DEF BrowserInv, Echoes
    <3>5. p.baseRevision \in Nat
      BY <3>3, EditFields
    <3>6. p.baseRevision <= r
      BY <1>6, <2>2, <3>4, <3>5
    <3>7. ASSUME Foreign(b, hist, p.baseRevision, r)
          PROVE  /\ SentAsPending(nx.pending[i], r, hist, sent)
                 /\ CommittedAsPending(nx.pending[i], r, hist)
      <4>1. p.baseRevision + 1 .. br.revision \subseteq p.baseRevision + 1 .. r
        BY <1>6, <2>2, <3>5
      <4>2. Foreign(b, hist, p.baseRevision, br.revision)
        BY <3>7, <4>1 DEF Foreign
      <4>3. SentAsPending(p, br.revision, hist, sent) /\ CommittedAsPending(p, br.revision, hist)
        BY <3>4, <4>2
      <4> QED
        BY <1>1, <1>2, <1>6, <2>2, <3>3, <4>3, RebasedEchoes
    <3> QED
      BY <3>3, <3>6, <3>7
  <2> QED
    BY <2>3, <2>4
<1>16. Continues(nx, br)
  <2>1. nx.orderly => br.orderly /\ br.revision <= nx.revision
    BY <1>0, <1>5, <1>6
  <2> QED
    BY <1>5, <1>11, <2>1 DEF Continues
<1>17. Settles(nx, r, hist)
  BY <1>0, <1>1, <1>5, <1>11 DEF Settles
<1> QED
  BY <1>1, <1>13, <1>14, <1>15, <1>16, <1>17 DEF BrowserInv

LEMMA ReceivedKeeps ==
  ASSUME NEW b \in Browsers, NEW hist, LogTyped(hist), NEW sent \in SUBSET Edits(Nat),
         NEW br, BrowserInv(b, br, hist, sent), NEW r \in 1 .. Len(hist)
  PROVE  /\ BrowserInv(b, Received(br, hist[r]), hist, sent)
         /\ Continues(Received(br, hist[r]), br) /\ Settles(Received(br, hist[r]), r, hist)
<1>1. CASE hist[r].opId \in br.applied
  BY <1>1, ReceivedBeforeKeeps
<1>2. CASE hist[r].opId \notin br.applied
  BY <1>2, ReceivedNewKeeps
<1> QED
  BY <1>1, <1>2

-----------------------------------------------------------------------------
(* A message: receiveOp for each of its operations.                        *)
Receives(t, base, s) ==
  /\ t[0] = base
  /\ \A i \in 1 .. Len(s) : t[i] = Received(t[i - 1], s[i])

LEMMA ReceivedRuns ==
  ASSUME NEW E, \A confirmed \in Seq(Nat), pending \in Seq(Edits(Nat)) :
                  DisplayOf(confirmed, pending) \in E,
         NEW base \in Browser(E), NEW s \in Seq(Edits(Nat))
  PROVE  \E t \in [0 .. Len(s) -> Browser(E)] :
           Receives(t, base, s) /\ FoldLeft(Received, base, s) = t[Len(s)]
<1> DEFINE n == Len(s)
           A == Browser(E)
           Body(iter) == [S \in SUBSET (1 .. n) |->
                            IF S = {} THEN base
                            ELSE Received(iter[S \ {Max(S)}], s[Max(S)])]
           iter == CHOOSE it : it = Body(it)
           step == [p \in A \X (1 .. n) |-> Received(p[1], s[p[2]])]
<1>1. n \in Nat /\ n \in Int /\ DOMAIN s = 1 .. n /\ \A i \in 1 .. n : s[i] \in Edits(Nat)
  OBVIOUS
<1>2. step \in [A \X (1 .. n) -> A]
  <2>1. \A x \in A, i \in 1 .. n : Received(x, s[i]) \in A
    BY <1>1, ReceivedTyped
  <2> HIDE DEF A
  <2> QED
    BY <2>1
<1>3. base \in A
  OBVIOUS
<1>4. FoldLeft(Received, base, s) = iter[1 .. n]
  BY <1>1 DEF FoldLeft, MapThenFoldSet
<1>5. ASSUME NEW x \in A, NEW i \in 1 .. n PROVE step[<<x, i>>] = Received(x, s[i])
  OBVIOUS
<1> HIDE DEF A, n
<1> HIDE DEF step
<1>6. iter = Body(iter)
  <2>1. PICK it \in [SUBSET (1 .. n) -> A] : IsFold(it, base, step, n)
    BY <1>1, <1>2, <1>3, FoldExists
  <2>2. ASSUME NEW S \in SUBSET (1 .. n), S # {}
        PROVE  it[S] = Received(it[S \ {Max(S)}], s[Max(S)])
    <3>1. Max(S) \in 1 .. n /\ it[S \ {Max(S)}] \in A
      BY <1>1, <2>2, MaxOf
    <3>2. it[S] = step[<<it[S \ {Max(S)}], Max(S)>>]
      BY <2>1, <2>2 DEF IsFold
    <3> QED
      BY <1>5, <3>1, <3>2
  <2>3. it[{}] = base
    BY <2>1 DEF IsFold
  <2>4. it = Body(it)
    BY <2>2, <2>3
  <2> HIDE DEF Body
  <2> QED
    BY <2>4
<1> HIDE DEF iter
<1>7. FoldsWithin(iter, A, base, step, n)
  <2>1. ASSUME NEW S \in SUBSET (1 .. n), S # {}, iter[S \ {Max(S)}] \in A
        PROVE  iter[S] = step[<<iter[S \ {Max(S)}], Max(S)>>]
    <3>1. Max(S) \in 1 .. n
      BY <1>1, <2>1, MaxOf
    <3>2. Body(iter)[S] = Received(iter[S \ {Max(S)}], s[Max(S)])
      BY <2>1
    <3> HIDE DEF Body
    <3> QED
      BY <1>5, <1>6, <2>1, <3>1, <3>2
  <2>2. Body(iter)[{}] = base
    OBVIOUS
  <2> HIDE DEF Body
  <2>3. iter[{}] = base
    BY <1>6, <2>2
  <2> QED
    BY <2>1, <2>3 DEF FoldsWithin
<1> HIDE DEF Body
<1>8. PICK t \in [0 .. n -> A] : IsRun(t, base, step, n) /\ t[n] = iter[1 .. n]
  <2>1. RunsTo(iter[1 .. n], A, base, step, n)
    BY <1>1, <1>2, <1>3, <1>7, FoldRuns
  <2> QED
    BY <2>1 DEF RunsTo
<1>9. Receives(t, base, s)
  <2>1. ASSUME NEW i \in 1 .. n PROVE t[i] = Received(t[i - 1], s[i])
    <3>1. i - 1 \in 0 .. n
      BY <1>1
    <3>2. t[i - 1] \in A /\ t[i] = step[<<t[i - 1], i>>]
      BY <1>8, <3>1 DEF IsRun
    <3> QED
      BY <1>5, <3>2
  <2> QED
    BY <1>8, <2>1 DEF IsRun, Receives, n
<1> QED
  BY <1>4, <1>8, <1>9 DEF A, n

LEMMA ContinuesOn ==
  ASSUME NEW x, NEW y, NEW z, Continues(x, y), Continues(y, z),
         x.revision \in Nat, y.revision \in Nat, z.revision \in Nat
  PROVE  Continues(x, z)
<1>1. x.orderly => x.revision \in Nat /\ z.revision <= x.revision
  BY DEF Continues
<1>2. \A i \in 1 .. Len(x.pending) : \E j \in 1 .. Len(z.pending) :
        x.pending[i].opId = z.pending[j].opId
  <2>1. TAKE i \in 1 .. Len(x.pending)
  <2>2. PICK j \in 1 .. Len(y.pending) : x.pending[i].opId = y.pending[j].opId
    BY DEF Continues
  <2>3. PICK k \in 1 .. Len(z.pending) : y.pending[j].opId = z.pending[k].opId
    BY DEF Continues
  <2> QED
    BY <2>2, <2>3
<1> QED
  BY <1>1, <1>2 DEF Continues

LEMMA SettlesOn ==
  ASSUME NEW x, NEW y, NEW r \in Nat, NEW hist, Continues(x, y), Settles(y, r, hist),
         x.revision \in Nat, y.revision \in Nat
  PROVE  Settles(x, r, hist)
<1>1. x.orderly => r <= x.revision
  BY DEF Continues, Settles
<1>2. \A i \in 1 .. Len(x.pending) : x.pending[i].opId # hist[r].opId
  <2>1. TAKE i \in 1 .. Len(x.pending)
  <2>2. PICK j \in 1 .. Len(y.pending) : x.pending[i].opId = y.pending[j].opId
    BY DEF Continues
  <2> QED
    BY <2>2 DEF Settles
<1> QED
  BY <1>1, <1>2 DEF Settles

LEMMA FoldKeeps ==
  ASSUME NEW b \in Browsers, NEW hist, LogTyped(hist), NEW sent \in SUBSET Edits(Nat),
         NEW br, BrowserInv(b, br, hist, sent),
         NEW from \in Nat, NEW to \in Nat, from <= to, to <= Len(hist)
  PROVE  LET nx == FoldLeft(Received, br, Missed(hist, from, to))
         IN  /\ BrowserInv(b, nx, hist, sent) /\ Continues(nx, br)
             /\ \A r \in from + 1 .. to : Settles(nx, r, hist)
<1>1. PICK s, E : s = Missed(hist, from, to) /\ E = Displays(br.editor)
  OBVIOUS
<1>2. hist \in Seq(Edits(Nat)) /\ Len(hist) \in Nat
  BY DEF LogTyped
<1>3. /\ s \in Seq(Edits(Nat)) /\ Len(s) = to - from /\ Len(s) \in Nat
      /\ \A k \in 1 .. to - from : s[k] = hist[from + k]
  <2>1. /\ s \in Seq(Edits(Nat)) /\ Len(s) = to - from
        /\ \A k \in 1 .. to - from : s[k] = hist[from + k]
    <3>1. PICK m : m = to - from
      OBVIOUS
    <3>2. IsMissed(s, hist, from, m)
      BY <1>1, <1>2, <3>1, MissedNamed
    <3> QED
      BY <3>1, <3>2 DEF IsMissed
  <2> QED
    BY <2>1
<1>4. PICK t \in [0 .. Len(s) -> Browser(E)] :
        Receives(t, br, s) /\ FoldLeft(Received, br, s) = t[Len(s)]
  <2>1. \A confirmed \in Seq(Nat), pending \in Seq(Edits(Nat)) :
          DisplayOf(confirmed, pending) \in E
    BY <1>1 DEF Displays
  <2>2. br \in Browser(E)
    BY <1>1 DEF Browser, Displays, BrowserInv, Held
  <2> QED
    BY <1>3, <2>1, <2>2, ReceivedRuns
<1> DEFINE Good == { i \in 0 .. Len(s) :
             /\ BrowserInv(b, t[i], hist, sent) /\ Continues(t[i], br)
             /\ \A r \in from + 1 .. from + i : Settles(t[i], r, hist) }
<1>5. 0 \in Good
  <2>1. t[0] = br
    BY <1>4 DEF Receives
  <2>2. from + 1 .. from + 0 = {} /\ 0 \in 0 .. Len(s)
    BY <1>3
  <2>3. br.revision \in Nat
    BY DEF BrowserInv, Held, Browser
  <2>4. Continues(br, br)
    BY <2>3 DEF Continues
  <2> QED
    BY <2>1, <2>2, <2>4
<1>6. ASSUME NEW i \in 1 .. Len(s), i - 1 \in Good PROVE i \in Good
  <2>1. PICK x, y, q : x = t[i - 1] /\ y = t[i] /\ q = from + i
    OBVIOUS
  <2>2. /\ BrowserInv(b, x, hist, sent) /\ Continues(x, br)
        /\ \A r \in from + 1 .. from + (i - 1) : Settles(x, r, hist)
    BY <1>6, <2>1
  <2>3. y = Received(x, s[i])
    BY <1>4, <2>1 DEF Receives
  <2>4. q \in 1 .. Len(hist) /\ s[i] = hist[q]
    BY <1>2, <1>3, <2>1
  <2>5. BrowserInv(b, y, hist, sent) /\ Continues(y, x) /\ Settles(y, q, hist)
    BY <2>2, <2>3, <2>4, ReceivedKeeps
  <2>6. x.revision \in Nat /\ y.revision \in Nat /\ br.revision \in Nat
    BY <2>2, <2>5 DEF BrowserInv, Held, Browser
  <2>7. Continues(y, br)
    BY <2>2, <2>5, <2>6, ContinuesOn
  <2>8. ASSUME NEW r \in from + 1 .. from + i PROVE Settles(y, r, hist)
    <3>1. CASE r = q
      BY <2>5, <3>1
    <3>2. CASE r # q
      <4>1. r \in from + 1 .. from + (i - 1) /\ r \in Nat
        BY <1>3, <2>1, <3>2
      <4> QED
        BY <2>2, <2>5, <2>6, <4>1, SettlesOn
    <3> QED
      BY <3>1, <3>2
  <2>9. i \in 0 .. Len(s)
    BY <1>3
  <2> QED
    BY <2>1, <2>5, <2>7, <2>8, <2>9
<1> HIDE DEF Good
<1>7. \A i \in 0 .. Len(s) : i \in Good
  BY <1>3, <1>5, <1>6, UpTo
<1>8. Len(s) \in Good /\ from + Len(s) = to
  BY <1>3, <1>7
<1> QED
  BY <1>1, <1>4, <1>8 DEF Good

-----------------------------------------------------------------------------
(* A commit.                                                               *)

Fresh(hist, op) == \A r \in 1 .. Len(hist) : hist[r].opId # op.opId

Arrived(hist, op) == TransformOver(op, Missed(hist, Smaller(op.baseRevision, Len(hist)), Len(hist)))

LEMMA EnteredEdit ==
  ASSUME NEW x \in Edits(Nat), NEW size \in Nat, NEW r \in Nat, NEW e, e = Entered(x, size, r)
  PROVE  e \in Edits(Nat) /\ e.opId = x.opId /\ e.revision = r
  BY EnteredTyped, SMTT(30)

LEMMA CommittedIs ==
  ASSUME NEW hist, LogTyped(hist), NEW op \in Edits(Nat), NEW e,
         e = CommittedTo(TextAt(hist, Len(hist)), hist, op)
  PROVE  /\ Arrived(hist, op) \in Edits(Nat)
         /\ e = Entered(Arrived(hist, op), Len(TextAt(hist, Len(hist))), Len(hist) + 1)
         /\ e \in Edits(Nat) /\ e.opId = op.opId /\ e.revision = Len(hist) + 1
<1>1. PICK x, d, n : x = Arrived(hist, op) /\ d = TextAt(hist, Len(hist)) /\ n = Len(hist) + 1
  OBVIOUS
<1>2. hist \in Seq(Edits(Nat)) /\ Len(hist) \in Nat /\ n \in Nat
  BY <1>1 DEF LogTyped
<1>3. d \in Seq(Nat)
  BY <1>1, <1>2, TextTyped
<1>4. PICK start : start = Smaller(op.baseRevision, Len(hist))
  OBVIOUS
<1>5. start \in Nat /\ start <= Len(hist)
  BY <1>2, <1>4, EditFields DEF Smaller
<1>6. Missed(hist, start, Len(hist)) \in Seq(Edits(Nat))
  BY <1>2, <1>5, MissedIs
<1>7. x \in Edits(Nat) /\ x.opId = op.opId
  BY <1>1, <1>4, <1>6, TransformOverTyped DEF Arrived
<1>8. e = Entered(x, Len(d), n)
  BY <1>1, <1>4 DEF CommittedTo, Arrived, Missed, Entered
<1>9. PICK size \in Nat : size = Len(d)
  BY <1>3
<1>10. e \in Edits(Nat) /\ e.opId = x.opId /\ e.revision = n
  <2>1. e = Entered(x, size, n)
    BY <1>8, <1>9
  <2>2. x \in Edits(Nat) /\ n \in Nat /\ size \in Nat
    BY <1>2, <1>7
  <2> QED
    BY <2>1, <2>2, EnteredEdit
<1> QED
  BY <1>1, <1>7, <1>8, <1>10

LEMMA CommitLogs ==
  ASSUME NEW hist, LogTyped(hist), NEW op \in Edits(Nat), Fresh(hist, op), NEW e,
         e = CommittedTo(TextAt(hist, Len(hist)), hist, op)
  PROVE  /\ LogTyped(Append(hist, e)) /\ Len(Append(hist, e)) = Len(hist) + 1
         /\ \A r \in 1 .. Len(hist) : Append(hist, e)[r] = hist[r]
         /\ Append(hist, e)[Len(hist) + 1] = e
         /\ TextAt(Append(hist, e), Len(Append(hist, e))) = Apply(TextAt(hist, Len(hist)), e)
<1>1. PICK more, n : more = Append(hist, e) /\ n = Len(hist)
  OBVIOUS
<1>2. hist \in Seq(Edits(Nat)) /\ n \in Nat
  BY <1>1 DEF LogTyped
<1>3. e \in Edits(Nat) /\ e.opId = op.opId /\ e.revision = n + 1
  BY <1>1, CommittedIs
<1>4. /\ more \in Seq(Edits(Nat)) /\ Len(more) = n + 1
      /\ \A r \in 1 .. n : more[r] = hist[r]
      /\ more[n + 1] = e
  BY <1>1, <1>2, <1>3
<1>5. \A r \in 1 .. n + 1 : r \in 1 .. n \/ r = n + 1
  BY <1>2
<1>6. \A r \in 1 .. n + 1 : more[r].revision = r
  <2>1. TAKE r \in 1 .. n + 1
  <2>2. r \in 1 .. n => hist[r].revision = r
    BY <1>1 DEF LogTyped
  <2> QED
    BY <1>3, <1>4, <1>5, <2>2
<1>7. \A r, q \in 1 .. n + 1 : more[r].opId = more[q].opId => r = q
  <2>1. TAKE r, q \in 1 .. n + 1
  <2>2. r \in 1 .. n => more[r].opId # e.opId
    BY <1>1, <1>3, <1>4 DEF Fresh
  <2>3. q \in 1 .. n => more[q].opId # e.opId
    BY <1>1, <1>3, <1>4 DEF Fresh
  <2>4. r \in 1 .. n /\ q \in 1 .. n => (hist[r].opId = hist[q].opId => r = q)
    BY <1>1 DEF LogTyped
  <2> QED
    BY <1>4, <1>5, <2>2, <2>3, <2>4
<1>8. LogTyped(more)
  BY <1>4, <1>6, <1>7 DEF LogTyped
<1>9. TextAt(more, n + 1) = Apply(TextAt(more, n), more[n + 1])
  <2>1. n < Len(more)
    BY <1>2, <1>4
  <2> QED
    BY <1>2, <1>4, <2>1, TextNext
<1>10. TextAt(more, n) = TextAt(hist, n)
  <2>1. n \in 0 .. Len(hist)
    BY <1>1, <1>2
  <2> QED
    BY <1>1, <1>2, <1>3, <2>1, TextOfAppend
<1> QED
  BY <1>1, <1>4, <1>8, <1>9, <1>10

(* What the commit of an operation is to a browser that has sent it, or to *)
(* one that has not.                                                       *)
LEMMA CommitKeeps ==
  ASSUME NEW b \in Browsers, NEW hist, LogTyped(hist), NEW sent \in SUBSET Edits(Nat),
         NEW br, BrowserInv(b, br, hist, sent),
         NEW op \in Edits(Nat), op.opId \in ToSet(OpIds[b]) => op \in sent, Fresh(hist, op),
         NEW e, e = CommittedTo(TextAt(hist, Len(hist)), hist, op)
  PROVE  BrowserInv(b, br, Append(hist, e), sent)
<1>1. PICK more, n : more = Append(hist, e) /\ n = Len(hist)
  OBVIOUS
<1>2. hist \in Seq(Edits(Nat)) /\ n \in Nat /\ e \in Edits(Nat) /\ e.opId = op.opId
  BY <1>1, CommittedIs DEF LogTyped
<1>3. /\ Len(more) = n + 1 /\ more[n + 1] = e
      /\ \A r \in 1 .. n : more[r] = hist[r]
  BY <1>1, CommitLogs
<1>4. /\ br \in Browser({br.editor}) /\ br.revision \in Nat /\ br.revision <= n
      /\ br.pending \in Seq(Edits(Nat)) /\ br.typed \in Nat /\ br.base \in Nat
  BY <1>1 DEF BrowserInv, Held, Browser
<1>5. ASSUME NEW from \in Nat, NEW to \in Nat, from <= to, to <= n
      PROVE  Missed(more, from, to) = Missed(hist, from, to)
  BY <1>1, <1>2, <1>5, MissedOfAppend
<1>6. ASSUME NEW r \in 0 .. n PROVE TextAt(more, r) = TextAt(hist, r)
  BY <1>1, <1>2, <1>6, TextOfAppend
<1>7. Held(b, br, more)
  <2>1. br.revision <= Len(more)
    BY <1>2, <1>3, <1>4
  <2>2. ASSUME NEW id \in br.applied PROVE \E r \in 1 .. Len(more) : more[r].opId = id
    <3>1. PICK r \in 1 .. n : hist[r].opId = id
      BY <1>1 DEF BrowserInv, Held
    <3>2. r \in 1 .. Len(more)
      BY <1>2, <1>3
    <3> QED
      BY <1>3, <3>1, <3>2
  <2>3. ASSUME NEW id, \E r \in 1 .. n : hist[r].opId = id
        PROVE  \E r \in 1 .. Len(more) : more[r].opId = id
    <3>1. PICK r \in 1 .. n : hist[r].opId = id
      BY <2>3
    <3>2. r \in 1 .. Len(more)
      BY <1>2, <1>3
    <3> QED
      BY <1>3, <3>1, <3>2
  <2>4. ~br.cleared => \A k \in 1 .. br.typed :
          \/ \E r \in 1 .. Len(more) : more[r].opId = OpIds[b][k]
          \/ \E i \in 1 .. Len(br.pending) : br.pending[i].opId = OpIds[b][k]
    BY <1>1, <2>3 DEF BrowserInv, Held
  <2> QED
    BY <2>1, <2>2, <2>4 DEF BrowserInv, Held
<1>8. Shown(br, more)
  <2>1. br.revision \in 0 .. n
    BY <1>2, <1>4
  <2>2. ASSUME br.orderly, NEW id \in br.applied
        PROVE  \E r \in 1 .. br.revision : more[r].opId = id
    <3>1. PICK r \in 1 .. br.revision : hist[r].opId = id
      BY <2>2 DEF BrowserInv, Shown
    <3>2. r \in 1 .. n
      BY <1>2, <1>4
    <3> QED
      BY <1>3, <3>1, <3>2
  <2>3. br.orderly => br.confirmed = TextAt(more, br.revision)
    BY <1>6, <2>1 DEF BrowserInv, Shown
  <2>4. ASSUME br.orderly, NEW r \in br.base + 1 .. br.revision PROVE more[r].opId \in br.applied
    <3>1. r \in 1 .. n /\ hist[r].opId \in br.applied
      BY <1>2, <1>4, <2>4 DEF BrowserInv, Shown
    <3> QED
      BY <1>3, <3>1
  <2> QED
    BY <2>2, <2>3, <2>4 DEF BrowserInv, Shown
<1>9. Echoes(b, br, more, sent)
  <2>1. SUFFICES ASSUME br.orderly, NEW i \in 1 .. Len(br.pending), NEW p, p = br.pending[i]
                 PROVE  /\ p.baseRevision <= br.revision
                        /\ Foreign(b, more, p.baseRevision, br.revision) =>
                             /\ SentAsPending(p, br.revision, more, sent)
                             /\ CommittedAsPending(p, br.revision, more)
    BY DEF Echoes
  <2>2. /\ p.baseRevision <= br.revision
        /\ Foreign(b, hist, p.baseRevision, br.revision) =>
             /\ SentAsPending(p, br.revision, hist, sent)
             /\ CommittedAsPending(p, br.revision, hist)
    BY <2>1 DEF BrowserInv, Echoes
  <2>3. p \in Edits(Nat) /\ p.baseRevision \in Nat
    BY <1>4, <2>1, EditFields
  <2>4. SUFFICES ASSUME Foreign(b, more, p.baseRevision, br.revision)
                 PROVE  /\ SentAsPending(p, br.revision, more, sent)
                        /\ CommittedAsPending(p, br.revision, more)
    BY <2>2
  <2>5. Foreign(b, hist, p.baseRevision, br.revision)
    <3>1. \A r \in p.baseRevision + 1 .. br.revision : more[r] = hist[r]
      BY <1>2, <1>3, <1>4, <2>3
    <3> QED
      BY <2>4, <3>1 DEF Foreign
  <2>6. SentAsPending(p, br.revision, hist, sent) /\ CommittedAsPending(p, br.revision, hist)
    BY <2>2, <2>5
  <2>7. SentAsPending(p, br.revision, more, sent)
    <3>1. ASSUME NEW o \in sent, o.opId = p.opId
          PROVE  /\ o.baseRevision <= br.revision
                 /\ Same(TransformOver(o, Missed(more, o.baseRevision, br.revision)), p)
      <4>1. /\ o.baseRevision <= br.revision
            /\ Same(TransformOver(o, Missed(hist, o.baseRevision, br.revision)), p)
        BY <2>6, <3>1 DEF SentAsPending
      <4>2. o.baseRevision \in Nat
        BY EditFields
      <4>3. Missed(more, o.baseRevision, br.revision) = Missed(hist, o.baseRevision, br.revision)
        BY <1>4, <1>5, <4>1, <4>2
      <4> QED
        BY <4>1, <4>3
    <3> QED
      BY <3>1 DEF SentAsPending
  <2>8. CommittedAsPending(p, br.revision, more)
    <3>1. ASSUME NEW m \in br.revision + 1 .. Len(more), more[m].opId = p.opId
          PROVE  \E x \in Edits(Nat) :
                   /\ more[m] = Entered(x, Len(TextAt(more, m - 1)), m)
                   /\ Same(x, TransformOver(p, Missed(more, br.revision, m - 1)))
      <4>1. PICK l : l = m - 1
        OBVIOUS
      <4>2. l \in Nat /\ l \in 0 .. n /\ br.revision <= l /\ l <= n
        BY <1>2, <1>3, <1>4, <4>1
      <4>3. /\ TextAt(more, l) = TextAt(hist, l)
            /\ Missed(more, br.revision, l) = Missed(hist, br.revision, l)
        BY <1>4, <1>5, <1>6, <4>2
      <4>4. CASE m <= n
        <5>1. m \in br.revision + 1 .. n /\ more[m] = hist[m]
          BY <1>2, <1>3, <1>4, <4>4
        <5>2. PICK x \in Edits(Nat) :
                 /\ hist[m] = Entered(x, Len(TextAt(hist, m - 1)), m)
                 /\ Same(x, TransformOver(p, Missed(hist, br.revision, m - 1)))
          BY <1>1, <2>6, <3>1, <5>1 DEF CommittedAsPending
        <5> QED
          BY <4>1, <4>3, <5>1, <5>2
      <4>5. CASE m > n
        <5>1. m = n + 1 /\ l = n /\ more[m] = e
          BY <1>2, <1>3, <1>4, <4>1, <4>5
        <5>2. p.opId = op.opId
          BY <1>2, <3>1, <5>1
        <5>3. op \in sent
          <6>1. OpIds[b] \in Seq(Nat) /\ br.typed <= Len(OpIds[b])
            BY EditorAssumption DEF BrowserInv, Held
          <6>2. \E k \in 1 .. br.typed : br.pending[i].opId = OpIds[b][k]
            BY DEF BrowserInv, Held
          <6>3. PICK k \in 1 .. br.typed : p.opId = OpIds[b][k]
            BY <2>1, <6>2
          <6>4. k \in DOMAIN OpIds[b]
            BY <1>4, <6>1
          <6>5. p.opId \in ToSet(OpIds[b])
            BY <6>3, <6>4 DEF ToSet
          <6> QED
            BY <5>2, <6>5
        <5>4. PICK base : base = op.baseRevision
          OBVIOUS
        <5>5. PICK y : y = TransformOver(op, Missed(hist, base, br.revision))
          OBVIOUS
        <5>6. base <= br.revision /\ Same(y, p) /\ base \in Nat
          BY <2>6, <5>2, <5>3, <5>4, <5>5, EditFields DEF SentAsPending
        <5>7. y \in Edits(Nat)
          <6>1. Missed(hist, base, br.revision) \in Seq(Edits(Nat))
            BY <1>1, <1>2, <1>4, <5>6, MissedIs
          <6> QED
            BY <5>5, <6>1, TransformOverTyped
        <5>8. Smaller(base, n) = base
          BY <1>2, <1>4, <5>6 DEF Smaller
        <5>9. Arrived(hist, op) = TransformOver(op, Missed(hist, base, n))
          BY <1>1, <5>4, <5>8 DEF Arrived
        <5>10. TransformOver(op, Missed(hist, base, n)) = TransformOver(y, Missed(hist, br.revision, n))
          BY <1>1, <1>2, <1>4, <5>5, <5>6, MissedSplit
        <5>11. Missed(hist, br.revision, n) \in Seq(Edits(Nat))
          <6>1. PICK v \in Nat : v = br.revision
            BY <1>1, <1>2, <1>4
          <6>2. v \in 0 .. n /\ n \in 0 .. Len(hist) /\ v <= n /\ hist \in Seq(Edits(Nat))
            BY <1>1, <1>2, <1>4, <6>1
          <6>3. v \in Nat /\ n \in Nat /\ v <= n /\ n <= Len(hist)
            BY <1>1, <1>2, <1>4, <6>1
          <6>4. Missed(hist, v, n) \in Seq(Edits(Nat))
            BY <6>2, <6>3, MissedIs, ZenonT(30)
          <6> QED
            BY <6>1, <6>4
        <5>12. Same(TransformOver(y, Missed(hist, br.revision, n)),
                    TransformOver(p, Missed(hist, br.revision, n)))
          BY <2>3, <5>6, <5>7, <5>11, TransformOverSame
        <5>13. /\ Arrived(hist, op) \in Edits(Nat)
               /\ e = Entered(Arrived(hist, op), Len(TextAt(hist, n)), n + 1)
          BY <1>1, CommittedIs
        <5>14. Same(Arrived(hist, op), TransformOver(p, Missed(more, br.revision, l)))
          BY <4>3, <5>1, <5>9, <5>10, <5>12
        <5> QED
          BY <4>1, <4>3, <5>1, <5>13, <5>14
      <4> QED
        BY <1>2, <1>3, <1>4, <4>4, <4>5
    <3> QED
      BY <3>1 DEF CommittedAsPending
  <2> QED
    BY <2>7, <2>8
<1> QED
  BY <1>1, <1>7, <1>8, <1>9 DEF BrowserInv

-----------------------------------------------------------------------------
(* Messages, as sets.                                                      *)

LEMMA SetOfSeq ==
  ASSUME NEW S, NEW s \in Seq(S)
  PROVE  /\ ToSet(s) \in SUBSET S
         /\ \A i \in 1 .. Len(s) : s[i] \in ToSet(s)
         /\ \A x \in ToSet(s) : \E i \in 1 .. Len(s) : x = s[i]
  BY DEF ToSet

LEMMA SetOfNothing ==
  ASSUME NEW s, s = <<>>
  PROVE  ToSet(s) = {}
  BY DEF ToSet

LEMMA SetOfAppend ==
  ASSUME NEW S, NEW s \in Seq(S), NEW e \in S
  PROVE  Append(s, e) \in Seq(S) /\ ToSet(Append(s, e)) = ToSet(s) \cup {e}
<1>1. PICK t : t = Append(s, e)
  OBVIOUS
<1>2. /\ t \in Seq(S) /\ Len(t) = Len(s) + 1 /\ Len(s) \in Nat
      /\ t[Len(t)] = e /\ \A i \in 1 .. Len(s) : t[i] = s[i]
  BY <1>1
<1>3. DOMAIN t = 1 .. Len(s) + 1 /\ DOMAIN s = 1 .. Len(s)
  BY <1>2
<1>4. ASSUME NEW x \in ToSet(t) PROVE x \in ToSet(s) \cup {e}
  <2>1. PICK i \in DOMAIN t : x = t[i]
    BY DEF ToSet
  <2>2. i \in 1 .. Len(s) \/ i = Len(t)
    BY <1>2, <1>3
  <2> QED
    BY <1>2, <1>3, <2>1, <2>2 DEF ToSet
<1>5. ASSUME NEW x \in ToSet(s) PROVE x \in ToSet(t)
  <2>1. PICK i \in DOMAIN s : x = s[i]
    BY DEF ToSet
  <2>2. i \in DOMAIN t /\ t[i] = s[i]
    BY <1>2, <1>3
  <2> QED
    BY <2>1, <2>2 DEF ToSet
<1>6. e \in ToSet(t)
  <2>1. Len(t) \in DOMAIN t
    BY <1>2, <1>3
  <2> QED
    BY <1>2, <2>1 DEF ToSet
<1> QED
  BY <1>1, <1>2, <1>4, <1>5, <1>6

LEMMA SetOfConcat ==
  ASSUME NEW S, NEW s \in Seq(S), NEW t \in Seq(S)
  PROVE  s \o t \in Seq(S) /\ ToSet(s \o t) = ToSet(s) \cup ToSet(t)
<1>1. PICK u : u = s \o t
  OBVIOUS
<1>2. /\ u \in Seq(S) /\ Len(u) = Len(s) + Len(t)
      /\ \A i \in 1 .. Len(s) + Len(t) : u[i] = IF i <= Len(s) THEN s[i] ELSE t[i - Len(s)]
  BY <1>1, ConcatProperties
<1>3. /\ DOMAIN u = 1 .. Len(s) + Len(t) /\ DOMAIN s = 1 .. Len(s) /\ DOMAIN t = 1 .. Len(t)
      /\ Len(s) \in Nat /\ Len(t) \in Nat
  BY <1>2
<1>4. ASSUME NEW x \in ToSet(u) PROVE x \in ToSet(s) \cup ToSet(t)
  <2>1. PICK i \in DOMAIN u : x = u[i]
    BY DEF ToSet
  <2>2. CASE i <= Len(s)
    <3>1. i \in DOMAIN s /\ u[i] = s[i]
      BY <1>2, <1>3, <2>2
    <3> QED
      BY <2>1, <3>1 DEF ToSet
  <2>3. CASE ~(i <= Len(s))
    <3>1. i - Len(s) \in DOMAIN t /\ u[i] = t[i - Len(s)]
      BY <1>2, <1>3, <2>3
    <3> QED
      BY <2>1, <3>1 DEF ToSet
  <2> QED
    BY <2>2, <2>3
<1>5. ASSUME NEW x \in ToSet(s) PROVE x \in ToSet(u)
  <2>1. PICK i \in DOMAIN s : x = s[i]
    BY DEF ToSet
  <2>2. i \in DOMAIN u /\ i <= Len(s)
    BY <1>3
  <2>3. u[i] = s[i]
    BY <1>2, <1>3, <2>2
  <2> QED
    BY <2>1, <2>2, <2>3 DEF ToSet
<1>6. ASSUME NEW x \in ToSet(t) PROVE x \in ToSet(u)
  <2>1. PICK i \in DOMAIN t : x = t[i]
    BY DEF ToSet
  <2>2. PICK j : j = Len(s) + i
    OBVIOUS
  <2>3. j \in DOMAIN u /\ ~(j <= Len(s)) /\ j - Len(s) = i
    BY <1>3, <2>2
  <2>4. u[j] = t[j - Len(s)]
    BY <1>2, <1>3, <2>3
  <2> QED
    BY <2>1, <2>3, <2>4 DEF ToSet
<1> QED
  BY <1>1, <1>2, <1>4, <1>5, <1>6

LEMMA SetOfTail ==
  ASSUME NEW S, NEW s \in Seq(S), s # <<>>
  PROVE  /\ Head(s) \in S /\ Tail(s) \in Seq(S)
         /\ ToSet(s) = {Head(s)} \cup ToSet(Tail(s))
<1>1. PICK h, t : h = Head(s) /\ t = Tail(s)
  OBVIOUS
<1>2. /\ t \in Seq(S) /\ Len(s) \in Nat /\ Len(s) >= 1 /\ Len(t) = Len(s) - 1 /\ h = s[1]
      /\ \A i \in 1 .. Len(t) : t[i] = s[i + 1]
  BY <1>1
<1>3. DOMAIN t = 1 .. Len(s) - 1 /\ DOMAIN s = 1 .. Len(s)
  BY <1>2
<1>4. ASSUME NEW x \in ToSet(s) PROVE x \in {h} \cup ToSet(t)
  <2>1. PICK i \in DOMAIN s : x = s[i]
    BY DEF ToSet
  <2>2. CASE i = 1
    BY <1>2, <2>1, <2>2
  <2>3. CASE i # 1
    <3>1. i - 1 \in DOMAIN t /\ i - 1 \in 1 .. Len(t) /\ i - 1 + 1 = i
      BY <1>2, <1>3, <2>3
    <3>2. t[i - 1] = s[i]
      BY <1>2, <3>1
    <3> QED
      BY <2>1, <3>1, <3>2 DEF ToSet
  <2> QED
    BY <2>2, <2>3
<1>5. h \in ToSet(s)
  <2>1. 1 \in DOMAIN s
    BY <1>2, <1>3
  <2> QED
    BY <1>2, <2>1 DEF ToSet
<1>6. ASSUME NEW x \in ToSet(t) PROVE x \in ToSet(s)
  <2>1. PICK i \in DOMAIN t : x = t[i]
    BY DEF ToSet
  <2>2. i \in 1 .. Len(t) /\ i + 1 \in DOMAIN s
    BY <1>2, <1>3
  <2> QED
    BY <1>2, <2>1, <2>2 DEF ToSet
<1>7. h \in S
  BY <1>2
<1> QED
  BY <1>1, <1>2, <1>4, <1>5, <1>6, <1>7

IsConcat(u, s, t) ==
  /\ Len(u) = Len(s) + Len(t)
  /\ \A i \in 1 .. Len(s) : u[i] = s[i]
  /\ \A j \in 1 .. Len(t) : u[Len(s) + j] = t[j]

LEMMA ConcatAt ==
  ASSUME NEW S, NEW s \in Seq(S), NEW t \in Seq(S), NEW u, u = s \o t
  PROVE  u \in Seq(S) /\ IsConcat(u, s, t)
<1>1. /\ u \in Seq(S) /\ Len(u) = Len(s) + Len(t)
      /\ \A i \in 1 .. Len(s) + Len(t) : u[i] = IF i <= Len(s) THEN s[i] ELSE t[i - Len(s)]
  BY ConcatProperties
<1>2. Len(s) \in Nat /\ Len(t) \in Nat
  OBVIOUS
<1>3. \A i \in 1 .. Len(s) : i \in 1 .. Len(s) + Len(t) /\ i <= Len(s)
  BY <1>2
<1>4. ASSUME NEW j \in 1 .. Len(t) PROVE u[Len(s) + j] = t[j]
  <2>1. PICK i : i = Len(s) + j
    OBVIOUS
  <2>2. i \in 1 .. Len(s) + Len(t) /\ ~(i <= Len(s)) /\ i - Len(s) = j
    BY <1>2, <2>1
  <2>3. u[i] = t[i - Len(s)]
    BY <1>1, <2>2
  <2> QED
    BY <2>1, <2>2, <2>3
<1> QED
  BY <1>1, <1>3, <1>4 DEF IsConcat

-----------------------------------------------------------------------------
(* What the steps do to one browser and its messages.                      *)

LEMMA FewerSent ==
  ASSUME NEW b, NEW br, NEW hist, NEW sent, BrowserInv(b, br, hist, sent),
         NEW less \in SUBSET sent
  PROVE  BrowserInv(b, br, hist, less)
<1>1. ASSUME NEW p, NEW revision, SentAsPending(p, revision, hist, sent)
      PROVE  SentAsPending(p, revision, hist, less)
  BY <1>1 DEF SentAsPending
<1>2. Echoes(b, br, hist, less)
  BY <1>1 DEF BrowserInv, Echoes
<1> QED
  BY <1>2 DEF BrowserInv

(* Opening and closing a connection leaves the rest of a browser alone.    *)
Switched(nx, br) ==
  /\ nx.revision = br.revision /\ nx.confirmed = br.confirmed /\ nx.pending = br.pending
  /\ nx.applied = br.applied /\ nx.editor = br.editor /\ nx.typed = br.typed
  /\ nx.base = br.base /\ nx.orderly = br.orderly /\ nx.cleared = br.cleared

LEMMA SwitchKeeps ==
  ASSUME NEW b, NEW br, NEW hist, NEW sent, BrowserInv(b, br, hist, sent),
         NEW nx \in Browser({br.editor}), Switched(nx, br)
  PROVE  BrowserInv(b, nx, hist, sent)
<1>1. nx \in Browser({nx.editor})
  BY DEF Switched
<1>2. Held(b, nx, hist)
  BY <1>1 DEF Switched, BrowserInv, Held
<1>3. Shown(nx, hist)
  BY DEF Switched, BrowserInv, Shown
<1>4. Echoes(b, nx, hist, sent)
  BY DEF Switched, BrowserInv, Echoes
<1> QED
  BY <1>2, <1>3, <1>4 DEF BrowserInv

(* A message the server has read is answered: an operation by a revision,  *)
(* a sync by a catch-up, a snapshot or an error.                           *)
Answered(m, tb, hist) ==
  \/ /\ m.kind = "op"
     /\ \E x \in tb : \E r \in 1 .. Len(hist) : hist[r].opId = m.op.opId /\ Announces(x, r)
  \/ /\ m.kind = "sync"
     /\ \E x \in tb :
          \/ x.kind = "catchup" /\ x.from = m.from /\ x.to = Len(hist)
          \/ x.kind \in {"snapshot", "error"}

LEMMA LinkServed ==
  ASSUME NEW b, NEW br, NEW hist, LogTyped(hist), NEW ts \in SUBSET ToServerMessage, NEW fm, NEW tb,
         Link(b, br, ts, fm, tb, hist),
         NEW ts2 \in SUBSET ts, NEW fm2 \in SUBSET fm, NEW tb2, tb \subseteq tb2,
         \A m \in ts : m \in ts2 \/ Answered(m, tb2, hist),
         \A m \in tb2 : m.from <= m.to /\ m.to <= Len(hist),
         br.online \/ tb2 = tb
  PROVE  Link(b, br, ts2, fm2, tb2, hist)
<1>1. SentOf(ts2, fm2) \subseteq SentOf(ts, fm)
  BY DEF SentOf
<1>2. BrowserInv(b, br, hist, SentOf(ts2, fm2))
  BY <1>1, FewerSent DEF Link
<1>3. Sound(b, br, ts2, fm2, tb2, hist)
  BY <1>1 DEF Link, Sound
<1>4. ~br.online => ts2 = {} /\ tb2 = {} /\ ~br.enabled
  BY DEF Link, Underway
<1>5. /\ Starting(br, tb) => Starting(br, tb2)
      /\ Refused(br, tb) => Refused(br, tb2)
  BY DEF Starting, Refused
<1>6. ASSUME NEW i \in 1 .. Len(br.pending)
      PROVE  PendingUnderway(br, ts2, tb2, hist, br.pending[i].opId)
  <2>1. PICK id : id = br.pending[i].opId
    OBVIOUS
  <2>2. PendingUnderway(br, ts, tb, hist, id)
    BY <2>1 DEF Link, Underway
  <2>3. ASSUME NEW m \in ts, m.kind = "sync" \/ (m.kind = "op" /\ m.op.opId = id)
        PROVE  PendingUnderway(br, ts2, tb2, hist, id)
    <3>1. CASE m \in ts2
      BY <2>3, <3>1 DEF PendingUnderway
    <3>2. CASE Answered(m, tb2, hist)
      BY <2>3, <3>2 DEF PendingUnderway, Answered, Refused
    <3> QED
      BY <3>1, <3>2
  <2> QED
    BY <1>5, <2>1, <2>2, <2>3 DEF PendingUnderway
<1>7. ASSUME br.orderly, NEW r \in br.revision + 1 .. Len(hist)
      PROVE  RevisionUnderway(br, ts2, tb2, r)
  <2>1. RevisionUnderway(br, ts, tb, r)
    BY <1>7 DEF Link, Underway
  <2>2. ASSUME NEW m \in ts, m.kind = "sync", m.from < r
        PROVE  RevisionUnderway(br, ts2, tb2, r)
    <3>1. CASE m \in ts2
      BY <2>2, <3>1 DEF RevisionUnderway
    <3>2. CASE Answered(m, tb2, hist)
      <4>1. PICK x \in tb2 : \/ x.from = m.from /\ x.to = Len(hist)
                             \/ x.kind \in {"snapshot", "error"}
        BY <2>2, <3>2 DEF Answered
      <4>2. r <= Len(hist)
        BY DEF LogTyped, Link, BrowserInv, Held, Browser
      <4>3. CASE x.from = m.from /\ x.to = Len(hist)
        BY <2>2, <4>2, <4>3 DEF RevisionUnderway, Announces
      <4>4. CASE x.kind \in {"snapshot", "error"}
        BY <4>4 DEF RevisionUnderway, Refused
      <4> QED
        BY <4>1, <4>3, <4>4
    <3> QED
      BY <2>2, <3>1, <3>2
  <2> QED
    BY <1>5, <2>1, <2>2 DEF RevisionUnderway
<1>8. Underway(br, ts2, tb2, hist)
  BY <1>4, <1>6, <1>7 DEF Underway
<1> QED
  BY <1>2, <1>3, <1>8 DEF Link

(* A commit, before what was committed is taken from where it came.        *)
LEMMA LinkGrows ==
  ASSUME NEW b \in Browsers, NEW hist, LogTyped(hist), NEW br,
         NEW ts \in SUBSET ToServerMessage, NEW fm \in SUBSET OpMessage,
         NEW tb \in SUBSET ToBrowserMessage,
         Link(b, br, ts, fm, tb, hist),
         NEW op \in Edits(Nat), op.opId \in ToSet(OpIds[b]) => op \in SentOf(ts, fm),
         Fresh(hist, op), NEW e, e = CommittedTo(TextAt(hist, Len(hist)), hist, op),
         NEW tb2, tb2 = IF br.online THEN tb \cup {Ops(Len(hist), Len(hist) + 1)} ELSE tb
  PROVE  Link(b, br, ts, fm, tb2, Append(hist, e))
<1>1. PICK more, n : more = Append(hist, e) /\ n = Len(hist)
  OBVIOUS
<1>2. n \in Nat /\ hist \in Seq(Edits(Nat))
  BY <1>1 DEF LogTyped
<1>3. /\ Len(more) = n + 1 /\ \A r \in 1 .. n : more[r] = hist[r]
  BY <1>1, CommitLogs
<1>4. SentOf(ts, fm) \in SUBSET Edits(Nat)
  BY DEF SentOf, ToServerMessage, OpMessage
<1>5. BrowserInv(b, br, more, SentOf(ts, fm))
  <2>1. BrowserInv(b, br, hist, SentOf(ts, fm))
    BY DEF Link
  <2> QED
    BY <1>1, <1>4, <2>1, CommitKeeps
<1>6. PICK new : new = Ops(n, n + 1)
  OBVIOUS
<1>7. new.from = n /\ new.to = n + 1
  BY <1>6 DEF Ops
<1>8. tb \subseteq tb2 /\ (br.online => new \in tb2) /\ (~br.online => tb2 = tb)
      /\ \A m \in tb2 : m \in tb \/ m = new
  BY <1>1, <1>6
<1>9. Sound(b, br, ts, fm, tb2, more)
  <2>1. ASSUME NEW m \in ts, m.kind = "sync" PROVE m.from <= n + 1
    <3>1. m.from <= n
      BY <1>1, <2>1 DEF Link, Sound
    <3>2. m.from \in Nat
      BY <2>1 DEF ToServerMessage, OpMessage
    <3> QED
      BY <1>2, <3>1, <3>2
  <2>2. ASSUME NEW m \in tb2 PROVE m.from <= m.to /\ m.to <= n + 1
    <3>1. CASE m = new
      BY <1>2, <1>7, <3>1
    <3>2. CASE m \in tb
      <4>1. m.from <= m.to /\ m.to <= n
        BY <1>1, <3>2 DEF Link, Sound
      <4>2. m.from \in Nat /\ m.to \in Nat
        BY <3>2 DEF ToBrowserMessage
      <4> QED
        BY <1>2, <4>1, <4>2
    <3> QED
      BY <1>8, <3>1, <3>2
  <2> QED
    BY <1>3, <2>1, <2>2 DEF Link, Sound
<1>10. /\ Starting(br, tb) => Starting(br, tb2)
       /\ Refused(br, tb) => Refused(br, tb2)
  BY <1>8 DEF Starting, Refused
<1>11. ASSUME NEW i \in 1 .. Len(br.pending)
       PROVE  PendingUnderway(br, ts, tb2, more, br.pending[i].opId)
  <2>1. PICK id : id = br.pending[i].opId
    OBVIOUS
  <2>2. PendingUnderway(br, ts, tb, hist, id)
    BY <2>1 DEF Link, Underway
  <2>3. ASSUME NEW m \in tb, NEW r \in 1 .. Len(hist), hist[r].opId = id, Announces(m, r)
        PROVE  PendingUnderway(br, ts, tb2, more, id)
    <3>1. r \in 1 .. Len(more) /\ more[r] = hist[r]
      BY <1>1, <1>2, <1>3
    <3> QED
      BY <1>8, <2>3, <3>1 DEF PendingUnderway
  <2> QED
    BY <1>8, <1>10, <2>1, <2>2, <2>3 DEF PendingUnderway
<1>12. ASSUME br.orderly, NEW r \in br.revision + 1 .. Len(more)
       PROVE  RevisionUnderway(br, ts, tb2, r)
  <2>1. br.revision \in Nat
    BY DEF Link, BrowserInv, Held, Browser
  <2>2. CASE r \in br.revision + 1 .. n
    <3>1. RevisionUnderway(br, ts, tb, r)
      BY <1>1, <1>12, <2>2 DEF Link, Underway
    <3> QED
      BY <1>8, <1>10, <3>1 DEF RevisionUnderway
  <2>3. CASE r = n + 1
    <3>1. Announces(new, r)
      BY <1>2, <1>7, <2>3 DEF Announces
    <3>2. ~br.online => Starting(br, tb2)
      BY DEF Starting
    <3> QED
      BY <1>8, <3>1, <3>2 DEF RevisionUnderway
  <2> QED
    BY <1>2, <1>3, <2>1, <2>2, <2>3
<1>13. Underway(br, ts, tb2, more)
  BY <1>8, <1>11, <1>12 DEF Link, Underway
<1> QED
  BY <1>1, <1>5, <1>9, <1>13 DEF Link

(* The operations flushPending sends again are where the browser is.       *)
ResentOf(br) == { [br.pending[i] EXCEPT !.baseRevision = br.revision] : i \in 1 .. Len(br.pending) }

Resends(b, br) ==
  /\ \A i \in 1 .. Len(br.pending) : \E op \in ResentOf(br) : op.opId = br.pending[i].opId
  /\ \A op \in ResentOf(br) : op.opId \in TypedIds(b, br)

LEMMA ResentKeeps ==
  ASSUME NEW b \in Browsers, NEW hist, LogTyped(hist), NEW sent \in SUBSET Edits(Nat),
         NEW br, BrowserInv(b, br, hist, sent)
  PROVE  Resends(b, br) /\ BrowserInv(b, br, hist, sent \cup ResentOf(br))
<1>1. /\ br.pending \in Seq(Edits(Nat)) /\ br.revision \in Nat /\ br.revision <= Len(hist)
      /\ hist \in Seq(Edits(Nat))
  BY DEF BrowserInv, Held, Browser, LogTyped
<1>2. ASSUME NEW i \in 1 .. Len(br.pending), NEW p, p = br.pending[i],
             NEW op, op = [p EXCEPT !.baseRevision = br.revision]
      PROVE  /\ p \in Edits(Nat) /\ op \in Edits(Nat) /\ op.opId = p.opId
             /\ op.baseRevision = br.revision /\ Same(op, p)
  <2>1. p \in Edits(Nat)
    BY <1>1, <1>2
  <2>2. p \in Operation(Nat) /\ (p.type = "insert" => p.count = 0) /\ (p.type = "delete" => p.text = <<>>)
    BY <2>1, EditFields
  <2>3. /\ op \in Operation(Nat) /\ op.type = p.type /\ op.text = p.text /\ op.opId = p.opId
        /\ op.clientId = p.clientId /\ op.position = p.position /\ op.count = p.count
        /\ op.baseRevision = br.revision
    BY <1>1, <1>2, <2>2 DEF Operation
  <2>4. op \in Edits(Nat)
    BY <2>2, <2>3 DEF Edits
  <2> QED
    BY <2>1, <2>3, <2>4, SameIs
<1>3. ASSUME NEW op \in ResentOf(br)
      PROVE  \E i \in 1 .. Len(br.pending) : op = [br.pending[i] EXCEPT !.baseRevision = br.revision]
  BY DEF ResentOf
<1>5. ASSUME NEW i \in 1 .. Len(br.pending)
      PROVE  \E op \in ResentOf(br) : op.opId = br.pending[i].opId
  <2>1. PICK op : op = [br.pending[i] EXCEPT !.baseRevision = br.revision]
    OBVIOUS
  <2>2. op \in ResentOf(br)
    BY <2>1 DEF ResentOf
  <2> QED
    BY <1>2, <2>1, <2>2
<1>6. ASSUME NEW op \in ResentOf(br) PROVE op.opId \in TypedIds(b, br)
  <2>1. PICK i \in 1 .. Len(br.pending) : op = [br.pending[i] EXCEPT !.baseRevision = br.revision]
    BY <1>3
  <2>2. op.opId = br.pending[i].opId
    BY <1>2, <2>1
  <2>3. \E k \in 1 .. br.typed : br.pending[i].opId = OpIds[b][k]
    BY DEF BrowserInv, Held
  <2> QED
    BY <2>2, <2>3 DEF TypedIds
<1>7. Echoes(b, br, hist, sent \cup ResentOf(br))
  <2>1. SUFFICES ASSUME br.orderly, NEW i \in 1 .. Len(br.pending), NEW p, p = br.pending[i],
                        Foreign(b, hist, p.baseRevision, br.revision),
                        NEW op \in ResentOf(br), op.opId = p.opId
                 PROVE  /\ op.baseRevision <= br.revision
                        /\ Same(TransformOver(op, Missed(hist, op.baseRevision, br.revision)), p)
    BY DEF BrowserInv, Echoes, SentAsPending
  <2>2. PICK j \in 1 .. Len(br.pending) : op = [br.pending[j] EXCEPT !.baseRevision = br.revision]
    BY <1>3
  <2>3. PICK q : q = br.pending[j]
    OBVIOUS
  <2>4. /\ op \in Edits(Nat) /\ op.opId = q.opId /\ op.baseRevision = br.revision /\ Same(op, q)
    BY <1>2, <2>2, <2>3
  <2>5. q = p
    <3>1. br.pending[i].opId = br.pending[j].opId => br.pending[i] = br.pending[j]
      BY DEF BrowserInv, Held
    <3> QED
      BY <2>1, <2>3, <2>4, <3>1
  <2>6. TransformOver(op, Missed(hist, br.revision, br.revision)) = op
    BY <1>1, <2>4, MissedNothing
  <2> QED
    BY <1>1, <2>4, <2>5, <2>6
<1> QED
  BY <1>5, <1>6, <1>7 DEF BrowserInv, Resends

(* A message other than a snapshot read by the browser, which then is nx.  *)
LEMMA LinkReads ==
  ASSUME NEW b \in Browsers, NEW hist, LogTyped(hist), NEW br,
         NEW ts \in SUBSET ToServerMessage, NEW fm \in SUBSET OpMessage,
         NEW tb \in SUBSET ToBrowserMessage, Link(b, br, ts, fm, tb, hist),
         NEW m \in tb, m.kind # "snapshot",
         NEW tb2 \in SUBSET tb, \A x \in tb : x \in tb2 \/ x = m,
         NEW nx, m.kind = "error" => nx.refused, BrowserInv(b, nx, hist, SentOf(ts, fm)), Continues(nx, br),
         \A r \in m.from + 1 .. m.to : Settles(nx, r, hist),
         NEW ts2, ts \subseteq ts2,
         \A x \in ts2 : x \in ts \/ x = Sync(nx) \/ \E op \in ResentOf(nx) : x = Op(op),
         m.kind = "init" => Sync(nx) \in ts2,
         m.kind = "catchup" => \A op \in ResentOf(nx) : Op(op) \in ts2
  PROVE  Link(b, nx, ts2, fm, tb2, hist)
<1>1. /\ m.from \in Nat /\ m.to \in Nat /\ m.kind \in {"init", "op", "catchup", "error"}
      /\ m.from <= m.to /\ m.to <= Len(hist)
  BY DEF ToBrowserMessage, Link, Sound
<1>2. PICK first \in SUBSET Edits(Nat) : first = SentOf(ts, fm)
  <2>1. SentOf(ts, fm) \in SUBSET Edits(Nat)
    BY DEF SentOf, ToServerMessage, OpMessage
  <2> QED
    BY <2>1
<1>4. /\ nx.pending \in Seq(Edits(Nat)) /\ nx.revision \in Nat /\ nx.revision <= Len(hist)
      /\ br.revision \in Nat /\ nx.typed = br.typed /\ nx.online = br.online
      /\ Len(hist) \in Nat
  BY DEF Link, BrowserInv, Held, Browser, Continues, LogTyped
<1>5. br.online
  BY DEF Link, Underway
<1>6. PICK s : s = first \cup ResentOf(nx)
  OBVIOUS
<1>7. /\ \A i \in 1 .. Len(nx.pending) : \E op \in ResentOf(nx) : op.opId = nx.pending[i].opId
      /\ \A op \in ResentOf(nx) : op.opId \in TypedIds(b, br)
      /\ BrowserInv(b, nx, hist, s)
  <2>1. TypedIds(b, nx) = TypedIds(b, br)
    BY <1>4 DEF TypedIds
  <2>3. BrowserInv(b, nx, hist, first)
    BY <1>2
  <2>4. Resends(b, nx) /\ BrowserInv(b, nx, hist, first \cup ResentOf(nx))
    BY <2>3, ResentKeeps
  <2> QED
    BY <1>6, <2>1, <2>4 DEF Resends
<1>11. /\ Sync(nx).kind = "sync" /\ Sync(nx).from = nx.revision
       /\ \A op : Op(op).kind = "op" /\ Op(op).op = op
  BY DEF Sync, Op
<1>13. \A op \in SentOf(ts2, fm) : op \in SentOf(ts, fm) \/ op \in ResentOf(nx)
  <2>1. TAKE op \in SentOf(ts2, fm)
  <2>2. PICK x : x.op = op /\ (x \in fm \/ (x \in ts2 /\ x.kind = "op"))
    BY DEF SentOf
  <2>3. CASE x \in fm \/ x \in ts
    BY <2>2, <2>3 DEF SentOf, OpMessage
  <2>4. CASE x \in ts2 /\ x.kind = "op" /\ x \notin ts
    BY <1>11, <2>2, <2>4
  <2> QED
    BY <2>2, <2>3, <2>4
<1>14. BrowserInv(b, nx, hist, SentOf(ts2, fm))
  <2>1. SentOf(ts2, fm) \in SUBSET s
    BY <1>2, <1>6, <1>13
  <2> QED
    BY <1>7, <2>1, FewerSent
<1>15. Sound(b, nx, ts2, fm, tb2, hist)
  <2>1. TypedIds(b, nx) = TypedIds(b, br)
    BY <1>4 DEF TypedIds
  <2>2. \A op \in SentOf(ts2, fm) : op.opId \in TypedIds(b, nx)
    BY <1>7, <1>13, <2>1 DEF Link, Sound
  <2>3. ASSUME NEW x \in ts2, x.kind = "sync" PROVE x.from <= Len(hist)
    <3>1. CASE x \in ts
      BY <2>3, <3>1 DEF Link, Sound
    <3>2. CASE x \notin ts
      BY <1>4, <1>11, <2>3, <3>2
    <3> QED
      BY <3>1, <3>2
  <2>4. \A x \in tb2 : x.from <= x.to /\ x.to <= Len(hist)
    BY DEF Link, Sound
  <2> QED
    BY <2>2, <2>3, <2>4 DEF Sound
<1>16. ASSUME Starting(br, tb) PROVE Starting(nx, tb2) \/ Sync(nx) \in ts2
  <2>1. PICK x \in tb : x.kind = "init"
    BY <1>5, <1>16 DEF Starting
  <2> QED
    BY <2>1 DEF Starting
<1>10. Refused(br, tb) => Refused(nx, tb2)
  BY DEF Refused, Continues
<1>17. ASSUME NEW i \in 1 .. Len(nx.pending)
       PROVE  PendingUnderway(nx, ts2, tb2, hist, nx.pending[i].opId)
  <2>1. PICK id : id = nx.pending[i].opId
    OBVIOUS
  <2>2. i \in 1 .. Len(nx.pending) /\ id = nx.pending[i].opId
    BY <2>1
  <2>3. PICK j \in 1 .. Len(br.pending) : id = br.pending[j].opId
    BY <2>2 DEF Continues
  <2>4. PendingUnderway(br, ts, tb, hist, id)
    BY <2>3 DEF Link, Underway
  <2>5. CASE Starting(br, tb)
    BY <1>11, <1>16, <2>1, <2>5 DEF PendingUnderway
  <2>9. CASE Refused(br, tb)
    BY <1>10, <2>1, <2>9 DEF PendingUnderway
  <2>6. CASE \E x \in tb : x.kind \in {"catchup", "snapshot"}
    <3>1. PICK x \in tb : x.kind \in {"catchup", "snapshot"}
      BY <2>6
    <3>2. CASE x = m
      <4>1. PICK op \in ResentOf(nx) : op.opId = id
        BY <1>7, <2>2
      <4> QED
        BY <1>11, <2>1, <3>1, <3>2, <4>1 DEF PendingUnderway
    <3> QED
      BY <2>1, <3>1, <3>2 DEF PendingUnderway
  <2>7. CASE \E x \in ts : x.kind = "sync" \/ (x.kind = "op" /\ x.op.opId = id)
    BY <2>1, <2>7 DEF PendingUnderway
  <2>8. CASE \E x \in tb : \E r \in 1 .. Len(hist) : hist[r].opId = id /\ Announces(x, r)
    <3>1. PICK x \in tb, r \in 1 .. Len(hist) : hist[r].opId = id /\ Announces(x, r)
      BY <2>8
    <3>2. x # m
      <4>1. ASSUME x = m PROVE FALSE
        <5>1. r \in m.from + 1 .. m.to
          BY <1>1, <1>4, <3>1, <4>1 DEF Announces
        <5>2. Settles(nx, r, hist)
          BY <5>1
        <5> QED
          BY <2>2, <3>1, <5>2 DEF Settles
      <4> QED
        BY <4>1
    <3> QED
      BY <2>1, <3>1, <3>2 DEF PendingUnderway
  <2> QED
    BY <2>4, <2>5, <2>6, <2>7, <2>8, <2>9 DEF PendingUnderway
<1>18. ASSUME nx.orderly, NEW r \in nx.revision + 1 .. Len(hist)
       PROVE  RevisionUnderway(nx, ts2, tb2, r)
  <2>1. /\ br.orderly /\ br.revision <= nx.revision /\ r \in Nat /\ nx.revision < r
    BY <1>4, <1>18 DEF Continues
  <2>2. r \in br.revision + 1 .. Len(hist)
    BY <1>4, <1>18, <2>1
  <2>3. RevisionUnderway(br, ts, tb, r)
    BY <2>1, <2>2 DEF Link, Underway
  <2>4. CASE Starting(br, tb)
    BY <1>11, <1>16, <2>1, <2>4 DEF RevisionUnderway
  <2>5. CASE \E x \in ts : x.kind = "sync" /\ x.from < r
    BY <2>5 DEF RevisionUnderway
  <2>7. CASE Refused(br, tb)
    BY <1>10, <2>7 DEF RevisionUnderway
  <2>8. CASE \E x \in tb : x.kind = "snapshot"
    BY <2>8 DEF RevisionUnderway
  <2>6. CASE \E x \in tb : Announces(x, r)
    <3>1. PICK x \in tb : Announces(x, r)
      BY <2>6
    <3>2. x # m
      <4>1. ASSUME x = m PROVE FALSE
        <5>1. r \in m.from + 1 .. m.to
          BY <1>1, <2>1, <3>1, <4>1 DEF Announces
        <5>2. Settles(nx, r, hist)
          BY <5>1
        <5> QED
          BY <1>4, <1>18, <2>1, <5>2 DEF Settles
      <4> QED
        BY <4>1
    <3> QED
      BY <3>1, <3>2 DEF RevisionUnderway
  <2> QED
    BY <2>3, <2>4, <2>5, <2>6, <2>7, <2>8 DEF RevisionUnderway
<1>19. Underway(nx, ts2, tb2, hist)
  BY <1>4, <1>5, <1>17, <1>18 DEF Underway
<1> QED
  BY <1>14, <1>15, <1>19 DEF Link

(* The browser takes the text at revision r over.                          *)
IsTakenOver(nx, br, r, hist) ==
  /\ nx.online = br.online /\ nx.enabled = br.enabled /\ nx.refused = br.refused
  /\ nx.typed = br.typed /\ nx.revision = r /\ nx.base = r
  /\ nx.confirmed = TextAt(hist, r) /\ nx.editor = nx.confirmed
  /\ nx.pending = <<>> /\ nx.applied = {}
  /\ nx.cleared <=> br.cleared \/ br.pending # <<>>

(* A snapshot read by the browser.                                         *)
LEMMA LinkTakesOver ==
  ASSUME NEW b, NEW hist, LogTyped(hist), NEW br, NEW ts, NEW fm, NEW tb,
         Link(b, br, ts, fm, tb, hist),
         NEW r \in 0 .. Len(hist), NEW tb2 \in SUBSET tb,
         \A q \in r + 1 .. Len(hist) : \E x \in tb2 : Announces(x, q),
         NEW nx, nx \in Browser({nx.editor}), IsTakenOver(nx, br, r, hist)
  PROVE  Link(b, nx, ts, fm, tb2, hist)
<1>1. /\ nx.pending = <<>> /\ nx.applied = {} /\ nx.revision = r /\ nx.base = r
      /\ nx.typed = br.typed /\ nx.online = br.online /\ nx.enabled = br.enabled
      /\ nx.confirmed = TextAt(hist, r) /\ nx.editor = nx.confirmed
      /\ nx.cleared <=> br.cleared \/ br.pending # <<>>
  BY DEF IsTakenOver
<1>2. Len(nx.pending) = 0 /\ r \in Nat /\ r <= Len(hist) /\ 1 .. Len(nx.pending) = {}
  BY <1>1 DEF LogTyped
<1>3. Held(b, nx, hist)
  <2>1. nx.revision <= Len(hist) /\ nx.typed <= Len(OpIds[b])
    BY <1>1, <1>2 DEF Link, BrowserInv, Held
  <2>2. ASSUME ~nx.cleared, NEW k \in 1 .. nx.typed
        PROVE  \E q \in 1 .. Len(hist) : hist[q].opId = OpIds[b][k]
    <3>1. ~br.cleared /\ br.pending = <<>> /\ k \in 1 .. br.typed
      BY <1>1, <2>2
    <3>2. ~\E i \in 1 .. Len(br.pending) : br.pending[i].opId = OpIds[b][k]
      BY <3>1
    <3> QED
      BY <3>1, <3>2 DEF Link, BrowserInv, Held
  <2> QED
    BY <1>1, <1>2, <2>1, <2>2 DEF Held
<1>4. Shown(nx, hist)
  <2>1. nx.base + 1 .. nx.revision = {} /\ nx.base <= nx.revision
    BY <1>1, <1>2
  <2> QED
    BY <1>1, <2>1 DEF Shown
<1>5. Echoes(b, nx, hist, SentOf(ts, fm))
  BY <1>2 DEF Echoes
<1>6. Sound(b, nx, ts, fm, tb2, hist)
  <2>1. TypedIds(b, nx) = TypedIds(b, br)
    BY <1>1 DEF TypedIds
  <2> QED
    BY <2>1 DEF Link, Sound
<1>7. Underway(nx, ts, tb2, hist)
  <2>1. ~nx.online => ts = {} /\ tb2 = {} /\ ~nx.enabled
    BY <1>1 DEF Link, Underway
  <2>2. \A q \in nx.revision + 1 .. Len(hist) : RevisionUnderway(nx, ts, tb2, q)
    BY <1>1 DEF RevisionUnderway
  <2> QED
    BY <1>2, <2>1, <2>2 DEF Underway
<1> QED
  BY <1>3, <1>4, <1>5, <1>6, <1>7 DEF Link, BrowserInv

-----------------------------------------------------------------------------
(* What comes behind a snapshot, and what ended connections hold.          *)

LEMMA FollowedNothing ==
  ASSUME NEW hist, NEW s, s = <<>> \/ s = <<[kind |-> "init", from |-> Len(hist), to |-> Len(hist)]>>
  PROVE  Followed(s, hist)
<1>1. \A j \in 1 .. Len(s) : s[j].kind # "snapshot"
  OBVIOUS
<1> QED
  BY <1>1 DEF Followed

(* An answer.                                                              *)
LEMMA FollowedAnswer ==
  ASSUME NEW hist, Len(hist) \in Nat, NEW s \in Seq(ToBrowserMessage), Followed(s, hist),
         NEW m \in ToBrowserMessage, m.kind = "snapshot" => m.to = Len(hist)
  PROVE  Followed(Append(s, m), hist)
<1>1. PICK t, n : t = Append(s, m) /\ n = Len(s)
  OBVIOUS
<1>2. /\ n \in Nat /\ Len(t) = n + 1 /\ t[n + 1] = m
      /\ \A i \in 1 .. n : t[i] = s[i]
  BY <1>1
<1>3. ASSUME NEW j \in 1 .. Len(t), t[j].kind = "snapshot", NEW r \in t[j].to + 1 .. Len(hist)
      PROVE  \E k \in j + 1 .. Len(t) : Announces(t[k], r)
  <2>1. CASE j = n + 1
    BY <1>2, <1>3, <2>1
  <2>2. CASE j # n + 1
    <3>1. j \in 1 .. n /\ t[j] = s[j] /\ 1 .. Len(s) = 1 .. n
      BY <1>1, <1>2, <2>2
    <3>2. PICK k \in j + 1 .. n : Announces(s[k], r)
      BY <1>1, <1>3, <3>1 DEF Followed
    <3>3. k \in j + 1 .. Len(t) /\ t[k] = s[k]
      BY <1>2, <3>1, <3>2
    <3> QED
      BY <3>2, <3>3
  <2> QED
    BY <2>1, <2>2
<1> QED
  BY <1>1, <1>3 DEF Followed

(* A commit, announced to everyone who is there.                           *)
LEMMA FollowedCommit ==
  ASSUME NEW hist, NEW n \in Nat, n = Len(hist), NEW more, Len(more) = n + 1,
         NEW s \in Seq(ToBrowserMessage), Followed(s, hist)
  PROVE  Followed(Append(s, Ops(n, n + 1)), more)
<1>1. PICK m, t, l : m = Ops(n, n + 1) /\ t = Append(s, m) /\ l = Len(s)
  OBVIOUS
<1>2. m \in ToBrowserMessage /\ m.kind = "op" /\ m.from = n /\ m.to = n + 1
  BY <1>1 DEF Ops, ToBrowserMessage
<1>3. /\ l \in Nat /\ Len(t) = l + 1 /\ t[l + 1] = m
      /\ \A i \in 1 .. l : t[i] = s[i] /\ s[i] \in ToBrowserMessage
  BY <1>1, <1>2
<1>4. ASSUME NEW j \in 1 .. Len(t), t[j].kind = "snapshot", NEW r \in t[j].to + 1 .. Len(more)
      PROVE  \E k \in j + 1 .. Len(t) : Announces(t[k], r)
  <2>1. j \in 1 .. l /\ t[j] = s[j] /\ t[j].to \in Nat
    <3>1. j # l + 1
      BY <1>2, <1>3, <1>4
    <3>2. j \in 1 .. l
      BY <1>3, <3>1
    <3> QED
      BY <1>3, <3>2 DEF ToBrowserMessage
  <2>2. CASE r = n + 1
    <3>1. Announces(t[l + 1], r) /\ l + 1 \in j + 1 .. Len(t)
      BY <1>2, <1>3, <2>1, <2>2 DEF Announces
    <3> QED
      BY <3>1
  <2>3. CASE r # n + 1
    <3>1. r \in s[j].to + 1 .. Len(hist)
      BY <1>4, <2>1, <2>3
    <3>2. PICK k \in j + 1 .. Len(s) : Announces(s[k], r)
      BY <1>1, <1>4, <2>1, <3>1 DEF Followed
    <3>3. k \in j + 1 .. Len(t) /\ t[k] = s[k]
      BY <1>1, <1>3, <2>1, <3>2
    <3> QED
      BY <3>2, <3>3
  <2> QED
    BY <2>2, <2>3
<1> QED
  BY <1>1, <1>4 DEF Followed

(* A message is read.                                                      *)
LEMMA FollowedTail ==
  ASSUME NEW hist, NEW s \in Seq(ToBrowserMessage), s # <<>>, Followed(s, hist)
  PROVE  /\ Followed(Tail(s), hist)
         /\ Head(s).kind = "snapshot" =>
              \A r \in Head(s).to + 1 .. Len(hist) : \E x \in ToSet(Tail(s)) : Announces(x, r)
<1>1. PICK t, n : t = Tail(s) /\ n = Len(s)
  OBVIOUS
<1>2. /\ n \in Nat /\ n # 0 /\ Len(t) = n - 1 /\ Head(s) = s[1]
      /\ \A i \in 1 .. n - 1 : t[i] = s[i + 1]
      /\ t \in Seq(ToBrowserMessage)
  BY <1>1
<1>3. ASSUME NEW j \in 1 .. Len(t), t[j].kind = "snapshot", NEW r \in t[j].to + 1 .. Len(hist)
      PROVE  \E k \in j + 1 .. Len(t) : Announces(t[k], r)
  <2>1. j + 1 \in 1 .. n /\ t[j] = s[j + 1]
    BY <1>2
  <2>2. PICK k \in (j + 1) + 1 .. n : Announces(s[k], r)
    BY <1>1, <1>3, <2>1 DEF Followed
  <2>3. k - 1 \in j + 1 .. Len(t) /\ t[k - 1] = s[k]
    BY <1>2, <2>2
  <2> QED
    BY <2>2, <2>3
<1>4. ASSUME s[1].kind = "snapshot", NEW r \in s[1].to + 1 .. Len(hist)
      PROVE  \E x \in ToSet(t) : Announces(x, r)
  <2>1. 1 \in 1 .. n
    BY <1>2
  <2>2. PICK k \in 1 + 1 .. n : Announces(s[k], r)
    BY <1>1, <1>4, <2>1 DEF Followed
  <2>3. k - 1 \in 1 .. Len(t) /\ t[k - 1] = s[k]
    BY <1>2, <2>2
  <2>4. t[k - 1] \in ToSet(t)
    BY <1>2, <2>3, SetOfSeq
  <2> QED
    BY <2>2, <2>3, <2>4
<1> QED
  BY <1>1, <1>2, <1>3, <1>4 DEF Followed

LEMMA UnreadTyped ==
  ASSUME NEW S, NEW queues \in Seq(Seq(S))
  PROVE  /\ Unread(queues) \in SUBSET S
         /\ \A i \in 1 .. Len(queues) : queues[i] \in Seq(S) /\ ToSet(queues[i]) \subseteq Unread(queues)
<1>1. \A i \in 1 .. Len(queues) : queues[i] \in Seq(S) /\ ToSet(queues[i]) \in SUBSET S
  <2>1. TAKE i \in 1 .. Len(queues)
  <2>2. queues[i] \in Seq(S)
    OBVIOUS
  <2> QED
    BY <2>2, SetOfSeq
<1> QED
  BY <1>1 DEF Unread

(* One more connection ended.                                              *)
LEMMA UnreadAppend ==
  ASSUME NEW S, NEW queues \in Seq(Seq(S)), NEW s \in Seq(S)
  PROVE  /\ Append(queues, s) \in Seq(Seq(S))
         /\ Unread(Append(queues, s)) \subseteq Unread(queues) \cup ToSet(s)
<1>1. PICK more, n : more = Append(queues, s) /\ n = Len(queues)
  OBVIOUS
<1>2. /\ n \in Nat /\ more \in Seq(Seq(S)) /\ Len(more) = n + 1
      /\ \A i \in 1 .. n + 1 : more[i] = IF i = n + 1 THEN s ELSE queues[i]
  BY <1>1
<1>3. ASSUME NEW x \in Unread(more) PROVE x \in Unread(queues) \cup ToSet(s)
  <2>1. PICK i \in 1 .. n + 1 : x \in ToSet(more[i])
    BY <1>2 DEF Unread
  <2>2. i = n + 1 \/ i \in 1 .. Len(queues)
    BY <1>1, <1>2
  <2> QED
    BY <1>2, <2>1, <2>2 DEF Unread
<1> QED
  BY <1>1, <1>2, <1>3

(* The thread of one reads.                                                *)
LEMMA UnreadTail ==
  ASSUME NEW queues \in Seq(Seq(OpMessage)), NEW i \in 1 .. Len(queues), queues[i] # <<>>
  PROVE  LET less == [queues EXCEPT ![i] = Tail(@)]
         IN  /\ less \in Seq(Seq(OpMessage)) /\ Unread(less) \subseteq Unread(queues)
             /\ Head(queues[i]) \in OpMessage /\ Head(queues[i]) \in Unread(queues)
<1>1. PICK q, n, less : /\ q = queues[i] /\ n = Len(queues)
                        /\ less = [queues EXCEPT ![i] = Tail(@)]
  OBVIOUS
<1>2. q \in Seq(OpMessage) /\ q # <<>> /\ n \in Nat /\ queues \in [1 .. n -> Seq(OpMessage)]
  BY <1>1
<1>3. Tail(q) \in Seq(OpMessage) /\ ToSet(q) = {Head(q)} \cup ToSet(Tail(q)) /\ Head(q) \in OpMessage
  BY <1>2, SetOfTail
<1>4. less = [queues EXCEPT ![i] = Tail(q)]
  BY <1>1
<1>5. less \in [1 .. n -> Seq(OpMessage)]
  BY <1>2, <1>3, <1>4
<1>6. less \in Seq(Seq(OpMessage)) /\ Len(less) = n
  BY <1>2, <1>5
<1>7. \A j \in 1 .. n : less[j] = IF j = i THEN Tail(q) ELSE queues[j]
  BY <1>2, <1>4
<1>8. \A j \in 1 .. n : ToSet(less[j]) \subseteq ToSet(queues[j])
  BY <1>1, <1>3, <1>7
<1>9. Unread(less) \subseteq Unread(queues)
  BY <1>1, <1>6, <1>8 DEF Unread
<1>10. Head(q) \in Unread(queues)
  BY <1>1, <1>3 DEF Unread
<1> QED
  BY <1>1, <1>3, <1>6, <1>9, <1>10

-----------------------------------------------------------------------------
(* The server's steps.                                                     *)

LEMMA Messages ==
  ASSUME EditorInv, NEW b \in Browsers
  PROVE  /\ toServer[b] \in Seq(ToServerMessage) /\ ToSet(toServer[b]) \in SUBSET ToServerMessage
         /\ former[b] \in Seq(Seq(OpMessage)) /\ Unread(former[b]) \in SUBSET OpMessage
         /\ toBrowser[b] \in Seq(ToBrowserMessage)
         /\ ToSet(toBrowser[b]) \in SUBSET ToBrowserMessage
         /\ Linked(b) /\ LogTyped(history) /\ Followed(toBrowser[b], history)
<1>1. /\ toServer[b] \in Seq(ToServerMessage) /\ former[b] \in Seq(Seq(OpMessage))
      /\ toBrowser[b] \in Seq(ToBrowserMessage) /\ Linked(b) /\ LogTyped(history)
      /\ Followed(toBrowser[b], history)
  BY DEF EditorInv, Shape, LogInv
<1>2. Unread(former[b]) \in SUBSET OpMessage
  BY <1>1, UnreadTyped
<1> QED
  BY <1>1, <1>2, SetOfSeq

(* An operation is one browser's.                                          *)
LEMMA TypedByOne ==
  ASSUME NEW a \in Browsers, NEW d \in Browsers, NEW br, NEW id,
         br.typed \in Nat, br.typed <= Len(OpIds[a]),
         id \in TypedIds(a, br), id \in ToSet(OpIds[d])
  PROVE  a = d
<1>1. OpIds[a] \in Seq(Nat) /\ OpIds[d] \in Seq(Nat)
  BY EditorAssumption
<1>2. PICK k \in 1 .. br.typed : id = OpIds[a][k]
  BY DEF TypedIds
<1>3. PICK j \in DOMAIN OpIds[d] : id = OpIds[d][j]
  BY DEF ToSet
<1>4. k \in DOMAIN OpIds[a]
  BY <1>1, <1>2
<1> QED
  BY <1>2, <1>3, <1>4, EditorAssumption

IsAnnounced(id, tb, hist) ==
  \E x \in tb : \E r \in 1 .. Len(hist) : hist[r].opId = id /\ Announces(x, r)

LinkedSo(d, tb, hist) ==
  Link(d, browser[d], ToSet(toServer[d]), Unread(former[d]), tb, hist)

(* An operation that was committed before.                                 *)
LEMMA CommitOld ==
  ASSUME EditorInv, NEW op, NEW answered \in SUBSET Browsers,
         \A d \in answered : browser[d].online,
         IsCommitted(op.opId), CommitOp(op, answered)
  PROVE  /\ history' = history /\ document' = document
         /\ toBrowser' \in [Browsers -> Seq(ToBrowserMessage)]
         /\ \A d \in Browsers : LinkedSo(d, ToSet(toBrowser'[d]), history')
         /\ \A d \in Browsers : Followed(toBrowser'[d], history')
         /\ \A d \in answered : IsAnnounced(op.opId, ToSet(toBrowser'[d]), history')
<1>1. PICK r : r = RevisionOf(op.opId)
  OBVIOUS
<1>2. r \in DOMAIN history /\ history[r].opId = op.opId
  BY <1>1 DEF IsCommitted, RevisionOf
<1>3. history \in Seq(Edits(Nat)) /\ r \in 1 .. Len(history) /\ r \in Nat /\ r - 1 \in Nat
      /\ Len(history) \in Nat
  <2>1. history \in Seq(Edits(Nat))
    BY DEF EditorInv, LogInv, LogTyped
  <2> QED
    BY <1>2, <2>1
<1>4. PICK m : m = Ops(r - 1, r)
  OBVIOUS
<1>5. m \in ToBrowserMessage /\ m.from = r - 1 /\ m.to = r
  BY <1>3, <1>4 DEF Ops, ToBrowserMessage
<1>6. /\ history' = history /\ document' = document
      /\ toBrowser' = [d \in Browsers |->
           IF d \in answered THEN Append(toBrowser[d], m) ELSE toBrowser[d]]
  BY <1>1, <1>4 DEF CommitOp
<1>7. ASSUME NEW d \in Browsers
      PROVE  /\ toBrowser'[d] \in Seq(ToBrowserMessage)
             /\ d \in answered => ToSet(toBrowser'[d]) = ToSet(toBrowser[d]) \cup {m}
             /\ d \notin answered => ToSet(toBrowser'[d]) = ToSet(toBrowser[d])
  <2>1. toBrowser[d] \in Seq(ToBrowserMessage)
    BY Messages
  <2>2. Append(toBrowser[d], m) \in Seq(ToBrowserMessage)
        /\ ToSet(Append(toBrowser[d], m)) = ToSet(toBrowser[d]) \cup {m}
    BY <1>5, <2>1, SetOfAppend
  <2> QED
    BY <1>6, <2>1, <2>2
<1>8. ASSUME NEW d \in Browsers PROVE LinkedSo(d, ToSet(toBrowser'[d]), history)
  <2>1. PICK br, ts, fm, tb, tb2 :
          /\ br = browser[d] /\ ts = ToSet(toServer[d]) /\ fm = Unread(former[d])
          /\ tb = ToSet(toBrowser[d]) /\ tb2 = ToSet(toBrowser'[d])
    OBVIOUS
  <2>2. /\ ts \in SUBSET ToServerMessage /\ Link(d, br, ts, fm, tb, history) /\ LogTyped(history)
    BY <2>1, Messages DEF Linked
  <2>3. tb \subseteq tb2 /\ (br.online \/ tb2 = tb) /\ \A x \in tb2 : x \in tb \/ x = m
    BY <1>7, <2>1
  <2>4. \A x \in tb2 : x.from <= x.to /\ x.to <= Len(history)
    <3>1. m.from <= m.to /\ m.to <= Len(history)
      BY <1>3, <1>5
    <3> QED
      BY <2>2, <2>3, <3>1 DEF Link, Sound
  <2>5. Link(d, br, ts, fm, tb2, history)
    BY <2>2, <2>3, <2>4, LinkServed
  <2> QED
    BY <2>1, <2>5 DEF LinkedSo
<1>9. ASSUME NEW d \in answered PROVE IsAnnounced(op.opId, ToSet(toBrowser'[d]), history)
  <2>1. m \in ToSet(toBrowser'[d])
    BY <1>7
  <2>2. Announces(m, r)
    BY <1>3, <1>5 DEF Announces
  <2> QED
    BY <1>2, <1>3, <2>1, <2>2 DEF IsAnnounced
<1>10. toBrowser' \in [Browsers -> Seq(ToBrowserMessage)]
  BY <1>6, <1>7
<1>11. ASSUME NEW d \in Browsers PROVE Followed(toBrowser'[d], history)
  <2>1. toBrowser[d] \in Seq(ToBrowserMessage) /\ Followed(toBrowser[d], history)
    BY Messages
  <2>2. m.kind # "snapshot"
    BY <1>4 DEF Ops
  <2>3. Followed(Append(toBrowser[d], m), history)
    BY <1>3, <1>5, <2>1, <2>2, FollowedAnswer
  <2> QED
    BY <1>6, <2>1, <2>3
<1> QED
  BY <1>6, <1>8, <1>9, <1>10, <1>11

(* A new one.                                                              *)
LEMMA CommitFresh ==
  ASSUME EditorInv, NEW op \in Edits(Nat), NEW answered \in SUBSET Browsers,
         \A d \in answered : browser[d].online,
         NEW a \in Browsers, op \in SentOf(ToSet(toServer[a]), Unread(former[a])),
         ~IsCommitted(op.opId), CommitOp(op, answered), browser' = browser
  PROVE  /\ LogInv'
         /\ toBrowser' \in [Browsers -> Seq(ToBrowserMessage)]
         /\ \A d \in Browsers : LinkedSo(d, ToSet(toBrowser'[d]), history')
         /\ \A d \in Browsers : Followed(toBrowser'[d], history')
         /\ \A d \in answered : IsAnnounced(op.opId, ToSet(toBrowser'[d]), history')
<1>1. PICK n, e, m : n = Len(history) /\ e = Committed(op) /\ m = Ops(n, n + 1)
  OBVIOUS
<1>2. LogTyped(history) /\ history \in Seq(Edits(Nat)) /\ n \in Nat
      /\ document = TextAt(history, n)
  BY <1>1 DEF EditorInv, LogInv, LogTyped
<1>3. e = CommittedTo(TextAt(history, Len(history)), history, op)
  BY <1>1, <1>2 DEF Committed
<1>4. Fresh(history, op)
  <2>1. DOMAIN history = 1 .. Len(history)
    BY <1>2
  <2> QED
    BY <2>1 DEF IsCommitted, Fresh
<1>5. e.opId = op.opId
  BY <1>2, <1>3, CommittedIs
<1>6. /\ history' = Append(history, e) /\ document' = Apply(document, e)
      /\ toBrowser' = [d \in Browsers |->
           IF browser[d].online THEN Append(toBrowser[d], m) ELSE toBrowser[d]]
  BY <1>1 DEF CommitOp, Commit, Revision
<1>7. /\ LogTyped(history') /\ Len(history') = n + 1
      /\ \A r \in 1 .. n : history'[r] = history[r]
      /\ history'[n + 1] = e
      /\ TextAt(history', Len(history')) = document'
  BY <1>1, <1>2, <1>3, <1>4, <1>6, CommitLogs
<1>8. m \in ToBrowserMessage /\ m.from = n /\ m.to = n + 1
  BY <1>1, <1>2 DEF Ops, ToBrowserMessage
<1>9. Sound(a, browser[a], ToSet(toServer[a]), Unread(former[a]), ToSet(toBrowser[a]), history)
      /\ browser[a].typed \in Nat /\ browser[a].typed <= Len(OpIds[a])
  <2>1. Linked(a)
    BY Messages
  <2> QED
    BY <2>1 DEF Linked, Link, BrowserInv, Held, Browser
<1>10. op.opId \in TypedIds(a, browser[a])
  BY <1>9 DEF Sound
<1>11. LogInv'
  <2>1. ASSUME NEW r \in 1 .. n + 1
        PROVE  \E b \in Browsers : history'[r].opId \in TypedIds(b, browser[b])
    <3>1. CASE r \in 1 .. n
      <4>1. \E b \in Browsers : history[r].opId \in TypedIds(b, browser[b])
        BY <1>1, <3>1 DEF EditorInv, LogInv
      <4> QED
        BY <1>7, <3>1, <4>1
    <3>2. CASE r = n + 1
      BY <1>5, <1>7, <1>10, <3>2
    <3> QED
      BY <1>2, <3>1, <3>2
  <2>2. \A r \in 1 .. Len(history') : \E b \in Browsers :
          history'[r].opId \in TypedIds(b, browser'[b])
    BY <1>7, <2>1
  <2> QED
    BY <1>7, <2>2 DEF LogInv, TypedIds
<1>12. ASSUME NEW d \in Browsers
       PROVE  /\ toBrowser'[d] \in Seq(ToBrowserMessage)
              /\ browser[d].online => ToSet(toBrowser'[d]) = ToSet(toBrowser[d]) \cup {m}
              /\ ~browser[d].online => ToSet(toBrowser'[d]) = ToSet(toBrowser[d])
  <2>1. toBrowser[d] \in Seq(ToBrowserMessage)
    BY Messages
  <2>2. Append(toBrowser[d], m) \in Seq(ToBrowserMessage)
        /\ ToSet(Append(toBrowser[d], m)) = ToSet(toBrowser[d]) \cup {m}
    BY <1>8, <2>1, SetOfAppend
  <2> QED
    BY <1>6, <2>1, <2>2
<1>13. ASSUME NEW d \in Browsers PROVE LinkedSo(d, ToSet(toBrowser'[d]), history')
  <2>1. PICK br, ts, fm, tb, tb2 :
          /\ br = browser[d] /\ ts = ToSet(toServer[d]) /\ fm = Unread(former[d])
          /\ tb = ToSet(toBrowser[d]) /\ tb2 = ToSet(toBrowser'[d])
    OBVIOUS
  <2>2. /\ ts \in SUBSET ToServerMessage /\ fm \in SUBSET OpMessage
        /\ tb \in SUBSET ToBrowserMessage /\ Link(d, br, ts, fm, tb, history)
    BY <2>1, Messages DEF Linked
  <2>3. tb2 = IF br.online THEN tb \cup {Ops(Len(history), Len(history) + 1)} ELSE tb
    BY <1>1, <1>12, <2>1
  <2>4. op.opId \in ToSet(OpIds[d]) => op \in SentOf(ts, fm)
    <3>1. op.opId \in ToSet(OpIds[d]) => a = d
      BY <1>9, <1>10, TypedByOne
    <3> QED
      BY <2>1, <3>1
  <2>5. Link(d, br, ts, fm, tb2, Append(history, e))
    BY <1>2, <1>3, <1>4, <2>2, <2>3, <2>4, LinkGrows
  <2> QED
    BY <1>6, <2>1, <2>5 DEF LinkedSo
<1>14. ASSUME NEW d \in answered PROVE IsAnnounced(op.opId, ToSet(toBrowser'[d]), history')
  <2>1. m \in ToSet(toBrowser'[d])
    BY <1>12
  <2>2. Announces(m, n + 1) /\ n + 1 \in 1 .. Len(history')
    BY <1>2, <1>7, <1>8 DEF Announces
  <2> QED
    BY <1>5, <1>7, <2>1, <2>2 DEF IsAnnounced
<1>15. toBrowser' \in [Browsers -> Seq(ToBrowserMessage)]
  BY <1>6, <1>12
<1>16. ASSUME NEW d \in Browsers PROVE Followed(toBrowser'[d], history')
  <2>1. toBrowser[d] \in Seq(ToBrowserMessage) /\ Followed(toBrowser[d], history) /\ Linked(d)
    BY Messages
  <2>2. CASE browser[d].online
    <3>1. Followed(Append(toBrowser[d], m), history')
      BY <1>1, <1>2, <1>7, <2>1, FollowedCommit
    <3> QED
      BY <1>6, <2>2, <3>1
  <2>3. CASE ~browser[d].online
    <3>1. ToSet(toBrowser[d]) = {}
      BY <2>1, <2>3 DEF Linked, Link, Underway
    <3>2. toBrowser[d] = <<>>
      BY <2>1, <3>1, SetOfSeq
    <3> QED
      BY <1>6, <2>3, <3>2, FollowedNothing
  <2> QED
    BY <2>2, <2>3
<1> QED
  BY <1>11, <1>13, <1>14, <1>15, <1>16

LEMMA CommitOpKeeps ==
  ASSUME EditorInv, NEW op \in Edits(Nat), NEW answered \in SUBSET Browsers,
         \A d \in answered : browser[d].online,
         NEW a \in Browsers, op \in SentOf(ToSet(toServer[a]), Unread(former[a])),
         CommitOp(op, answered), browser' = browser
  PROVE  /\ LogInv'
         /\ toBrowser' \in [Browsers -> Seq(ToBrowserMessage)]
         /\ \A d \in Browsers : LinkedSo(d, ToSet(toBrowser'[d]), history')
         /\ \A d \in Browsers : Followed(toBrowser'[d], history')
         /\ \A d \in answered : IsAnnounced(op.opId, ToSet(toBrowser'[d]), history')
<1>1. CASE IsCommitted(op.opId)
  <2>1. /\ history' = history /\ document' = document
        /\ toBrowser' \in [Browsers -> Seq(ToBrowserMessage)]
        /\ \A d \in Browsers : LinkedSo(d, ToSet(toBrowser'[d]), history')
        /\ \A d \in Browsers : Followed(toBrowser'[d], history')
        /\ \A d \in answered : IsAnnounced(op.opId, ToSet(toBrowser'[d]), history')
    BY <1>1, CommitOld
  <2>2. LogInv'
    BY <2>1 DEF EditorInv, LogInv, TypedIds
  <2> QED
    BY <2>1, <2>2
<1>2. CASE ~IsCommitted(op.opId)
  BY <1>2, CommitFresh
<1> QED
  BY <1>1, <1>2

(* What is sent and answered may go.                                       *)
LEMMA LinkAnswers ==
  ASSUME NEW d, NEW tb, NEW hist, LogTyped(hist), LinkedSo(d, tb, hist),
         ToSet(toServer[d]) \in SUBSET ToServerMessage,
         NEW ts2 \in SUBSET ToSet(toServer[d]), NEW fm2 \in SUBSET Unread(former[d]),
         \A m \in ToSet(toServer[d]) : m \in ts2 \/ Answered(m, tb, hist)
  PROVE  Link(d, browser[d], ts2, fm2, tb, hist)
<1>1. \A m \in tb : m.from <= m.to /\ m.to <= Len(hist)
  BY DEF LinkedSo, Link, Sound
<1> QED
  BY <1>1, LinkServed DEF LinkedSo

LEMMA ServeOpKeeps ==
  ASSUME EditorInv, NEW b \in Browsers, ServeOp(b)
  PROVE  EditorInv'
<1>1. PICK m, op : m = Head(toServer[b]) /\ op = m.op
  OBVIOUS
<1>2. /\ toServer[b] # <<>> /\ m.kind = "op" /\ CommitOp(op, {b})
      /\ toServer' = [toServer EXCEPT ![b] = Tail(@)]
      /\ browser' = browser /\ former' = former /\ closed' = closed
  BY <1>1 DEF ServeOp
<1>3. /\ m \in ToServerMessage /\ Tail(toServer[b]) \in Seq(ToServerMessage)
      /\ ToSet(toServer[b]) = {m} \cup ToSet(Tail(toServer[b]))
  <2>1. toServer[b] \in Seq(ToServerMessage)
    BY Messages
  <2> QED
    BY <1>1, <1>2, <2>1, SetOfTail
<1>4. op \in Edits(Nat) /\ op \in SentOf(ToSet(toServer[b]), Unread(former[b]))
  <2>1. m \in OpMessage
    BY <1>2, <1>3 DEF ToServerMessage
  <2>2. m \in ToSet(toServer[b])
    BY <1>3
  <2> QED
    BY <1>1, <1>2, <2>1, <2>2 DEF OpMessage, SentOf
<1>5. browser[b].online
  <2>1. Linked(b)
    BY Messages
  <2>2. ToSet(toServer[b]) # {}
    BY <1>3
  <2> QED
    BY <2>1, <2>2 DEF Linked, Link, Underway
<1>6. /\ LogInv' /\ toBrowser' \in [Browsers -> Seq(ToBrowserMessage)]
      /\ \A d \in Browsers : LinkedSo(d, ToSet(toBrowser'[d]), history')
      /\ \A d \in Browsers : Followed(toBrowser'[d], history')
      /\ IsAnnounced(op.opId, ToSet(toBrowser'[b]), history')
  <2>1. {b} \in SUBSET Browsers /\ \A d \in {b} : browser[d].online
    BY <1>5
  <2> QED
    BY <1>2, <1>4, <2>1, CommitOpKeeps
<1>7. toServer' \in [Browsers -> Seq(ToServerMessage)]
      /\ toServer'[b] = Tail(toServer[b])
      /\ \A d \in Browsers : d # b => toServer'[d] = toServer[d]
  BY <1>2, <1>3 DEF EditorInv, Shape
<1>8. Shape'
  BY <1>2, <1>6, <1>7 DEF EditorInv, Shape
<1>9. ASSUME NEW d \in Browsers PROVE Linked(d)'
  <2>1. PICK tb, hist : tb = ToSet(toBrowser'[d]) /\ hist = history'
    OBVIOUS
  <2>2. LogTyped(hist) /\ LinkedSo(d, tb, hist) /\ ToSet(toServer[d]) \in SUBSET ToServerMessage
    BY <1>6, <2>1, Messages DEF LogInv
  <2>3. PICK ts2, fm2 : ts2 = ToSet(toServer'[d]) /\ fm2 = Unread(former[d])
    OBVIOUS
  <2>4. ts2 \in SUBSET ToSet(toServer[d])
    BY <1>3, <1>7, <2>3
  <2>5. ASSUME NEW x \in ToSet(toServer[d]), x \notin ts2 PROVE Answered(x, tb, hist)
    <3>1. d = b /\ x = m
      BY <1>3, <1>7, <2>3, <2>5
    <3> QED
      BY <1>1, <1>2, <1>6, <2>1, <3>1 DEF IsAnnounced, Answered
  <2>6. Link(d, browser[d], ts2, fm2, tb, hist)
    BY <2>2, <2>3, <2>4, <2>5, LinkAnswers
  <2> QED
    BY <1>2, <2>1, <2>3, <2>6 DEF Linked
<1> QED
  BY <1>6, <1>8, <1>9 DEF EditorInv

LEMMA ServeFormerKeeps ==
  ASSUME EditorInv, NEW b \in Browsers, ServeFormer(b)
  PROVE  EditorInv'
<1>1. PICK i \in DOMAIN former[b] :
        /\ former[b][i] # <<>> /\ CommitOp(Head(former[b][i]).op, {})
        /\ former' = [former EXCEPT ![b][i] = Tail(@)]
        /\ browser' = browser /\ toServer' = toServer /\ closed' = closed
  BY DEF ServeFormer
<1>2. PICK queues, less, m, op :
        /\ queues = former[b] /\ less = [queues EXCEPT ![i] = Tail(@)]
        /\ m = Head(queues[i]) /\ op = m.op
  OBVIOUS
<1>3. /\ queues \in Seq(Seq(OpMessage)) /\ i \in 1 .. Len(queues)
      /\ less \in Seq(Seq(OpMessage)) /\ Unread(less) \subseteq Unread(queues)
      /\ m \in OpMessage /\ m \in Unread(queues)
  <2>1. queues \in Seq(Seq(OpMessage)) /\ i \in 1 .. Len(queues)
    BY <1>2, Messages
  <2>2. queues[i] # <<>>
    BY <1>1, <1>2
  <2>3. PICK next : next = [queues EXCEPT ![i] = Tail(@)]
    OBVIOUS
  <2>4. /\ next \in Seq(Seq(OpMessage)) /\ Unread(next) \subseteq Unread(queues)
        /\ Head(queues[i]) \in OpMessage /\ Head(queues[i]) \in Unread(queues)
    BY <2>1, <2>2, <2>3, UnreadTail
  <2> QED
    BY <1>2, <2>1, <2>3, <2>4
<1>4. op \in Edits(Nat) /\ op \in SentOf(ToSet(toServer[b]), Unread(former[b]))
  BY <1>2, <1>3 DEF OpMessage, SentOf
<1>5. /\ LogInv' /\ toBrowser' \in [Browsers -> Seq(ToBrowserMessage)]
      /\ \A d \in Browsers : LinkedSo(d, ToSet(toBrowser'[d]), history')
      /\ \A d \in Browsers : Followed(toBrowser'[d], history')
  <2>1. {} \in SUBSET Browsers /\ \A d \in {} : browser[d].online
    OBVIOUS
  <2> QED
    BY <1>1, <1>2, <1>4, <2>1, CommitOpKeeps
<1>6. former' \in [Browsers -> Seq(Seq(OpMessage))]
      /\ former'[b] = less
      /\ \A d \in Browsers : d # b => former'[d] = former[d]
  BY <1>1, <1>2, <1>3 DEF EditorInv, Shape
<1>7. Shape'
  BY <1>1, <1>5, <1>6 DEF EditorInv, Shape
<1>8. ASSUME NEW d \in Browsers PROVE Linked(d)'
  <2>1. PICK tb, hist : tb = ToSet(toBrowser'[d]) /\ hist = history'
    OBVIOUS
  <2>2. LogTyped(hist) /\ LinkedSo(d, tb, hist) /\ ToSet(toServer[d]) \in SUBSET ToServerMessage
    BY <1>5, <2>1, Messages DEF LogInv
  <2>3. PICK ts2, fm2 : ts2 = ToSet(toServer[d]) /\ fm2 = Unread(former'[d])
    OBVIOUS
  <2>4. fm2 \in SUBSET Unread(former[d])
    BY <1>2, <1>3, <1>6, <2>3
  <2>5. Link(d, browser[d], ts2, fm2, tb, hist)
    BY <2>2, <2>3, <2>4, LinkAnswers
  <2> QED
    BY <1>1, <2>1, <2>3, <2>5 DEF Linked
<1> QED
  BY <1>5, <1>7, <1>8 DEF EditorInv

LEMMA ServeSyncKeeps ==
  ASSUME EditorInv, NEW b \in Browsers, ServeSync(b)
  PROVE  EditorInv'
<1>1. PICK m : m = Head(toServer[b])
  OBVIOUS
<1>2. /\ toServer[b] # <<>> /\ m.kind = "sync"
      /\ toServer' = [toServer EXCEPT ![b] = Tail(@)]
      /\ document' = document /\ history' = history
      /\ browser' = browser /\ former' = former /\ closed' = closed
  BY <1>1 DEF ServeSync
<1>0. PICK c : /\ toBrowser' = [toBrowser EXCEPT ![b] = Append(@, c)]
               /\ c = Answer(m.from) \/ c = Refusal
  BY <1>1 DEF ServeSync
<1>3. /\ m \in ToServerMessage /\ Tail(toServer[b]) \in Seq(ToServerMessage)
      /\ ToSet(toServer[b]) = {m} \cup ToSet(Tail(toServer[b]))
  <2>1. toServer[b] \in Seq(ToServerMessage)
    BY Messages
  <2> QED
    BY <1>1, <1>2, <2>1, SetOfTail
<1>4. /\ c \in ToBrowserMessage /\ c.from <= c.to /\ c.to <= Len(history)
      /\ \/ c.kind = "catchup" /\ c.from = m.from /\ c.to = Len(history)
         \/ c.kind = "snapshot" /\ c.to = Len(history)
         \/ c.kind = "error"
      /\ m.from <= Len(history) /\ Len(history) \in Nat
  <2>1. m.from \in Nat /\ Len(history) \in Nat
    <3>1. LogTyped(history)
      BY Messages
    <3> QED
      BY <1>2, <1>3, <3>1 DEF ToServerMessage, OpMessage, LogTyped
  <2>2. Linked(b) /\ m \in ToSet(toServer[b])
    BY <1>3, Messages
  <2>3. m.from <= Len(history)
    BY <1>2, <2>2 DEF Linked, Link, Sound
  <2>4. CASE c = Refusal
    BY <2>1, <2>3, <2>4 DEF Refusal, ToBrowserMessage
  <2>5. CASE c = [kind |-> "snapshot", from |-> Len(history), to |-> Len(history)]
    BY <2>1, <2>3, <2>5 DEF ToBrowserMessage
  <2>6. CASE c = [kind |-> "catchup", from |-> m.from, to |-> Len(history)]
    BY <2>1, <2>3, <2>6 DEF ToBrowserMessage
  <2> QED
    BY <1>0, <2>4, <2>5, <2>6 DEF Answer, Revision
<1>5. /\ toBrowser' \in [Browsers -> Seq(ToBrowserMessage)]
      /\ ToSet(toBrowser'[b]) = ToSet(toBrowser[b]) \cup {c}
      /\ \A d \in Browsers : d # b => toBrowser'[d] = toBrowser[d]
  <2>1. toBrowser[b] \in Seq(ToBrowserMessage) /\ toBrowser \in [Browsers -> Seq(ToBrowserMessage)]
    BY Messages DEF EditorInv, Shape
  <2>2. Append(toBrowser[b], c) \in Seq(ToBrowserMessage)
        /\ ToSet(Append(toBrowser[b], c)) = ToSet(toBrowser[b]) \cup {c}
    BY <1>4, <2>1, SetOfAppend
  <2> QED
    BY <1>0, <2>1, <2>2
<1>6. toServer' \in [Browsers -> Seq(ToServerMessage)]
      /\ toServer'[b] = Tail(toServer[b])
      /\ \A d \in Browsers : d # b => toServer'[d] = toServer[d]
  BY <1>2, <1>3 DEF EditorInv, Shape
<1>7. Shape'
  BY <1>2, <1>5, <1>6 DEF EditorInv, Shape
<1>8. Linked(b)'
  <2>1. PICK br, ts, fm, tb, ts2, tb2 :
          /\ br = browser[b] /\ ts = ToSet(toServer[b]) /\ fm = Unread(former[b])
          /\ tb = ToSet(toBrowser[b]) /\ ts2 = ToSet(toServer'[b]) /\ tb2 = ToSet(toBrowser'[b])
    OBVIOUS
  <2>2. /\ ts \in SUBSET ToServerMessage /\ Link(b, br, ts, fm, tb, history) /\ LogTyped(history)
    BY <2>1, Messages DEF Linked
  <2>3. ts = {m} \cup ts2 /\ tb2 = tb \cup {c}
    BY <1>3, <1>5, <1>6, <2>1
  <2>4. br.online
    BY <2>2, <2>3 DEF Link, Underway
  <2>5. \A x \in tb2 : x.from <= x.to /\ x.to <= Len(history)
    BY <1>4, <2>2, <2>3 DEF Link, Sound
  <2>6. Answered(m, tb2, history)
    BY <1>2, <1>4, <2>3 DEF Answered
  <2>7. ts2 \in SUBSET ts /\ tb \subseteq tb2 /\ (\A x \in ts : x \in ts2 \/ Answered(x, tb2, history))
        /\ fm \in SUBSET fm
    BY <2>3, <2>6
  <2>8. Link(b, br, ts2, fm, tb2, history)
    BY <2>2, <2>4, <2>5, <2>7, LinkServed
  <2> QED
    BY <1>2, <2>1, <2>8 DEF Linked
<1>9. ASSUME NEW d \in Browsers PROVE Linked(d)'
  <2>1. CASE d = b
    BY <1>8, <2>1
  <2>2. CASE d # b
    <3>1. Linked(d)
      BY Messages
    <3> QED
      BY <1>2, <1>5, <1>6, <2>2, <3>1 DEF Linked
  <2> QED
    BY <2>1, <2>2
<1>10. LogInv'
  BY <1>2 DEF EditorInv, LogInv, TypedIds
<1>11. ASSUME NEW d \in Browsers PROVE Followed(toBrowser'[d], history')
  <2>1. toBrowser[d] \in Seq(ToBrowserMessage) /\ Followed(toBrowser[d], history)
        /\ toBrowser \in [Browsers -> Seq(ToBrowserMessage)]
    BY Messages DEF EditorInv, Shape
  <2>2. c.kind = "snapshot" => c.to = Len(history)
    BY <1>4
  <2>3. Followed(Append(toBrowser[d], c), history)
    BY <1>4, <2>1, <2>2, FollowedAnswer
  <2> QED
    BY <1>0, <1>2, <2>1, <2>3
<1> QED
  BY <1>7, <1>9, <1>10, <1>11 DEF EditorInv

-----------------------------------------------------------------------------
(* The browsers' steps: the other browsers see nothing of them.            *)

Alone(b) ==
  /\ history' = history /\ document' = document
  /\ \A d \in Browsers \ {b} :
       /\ browser'[d] = browser[d] /\ toServer'[d] = toServer[d]
       /\ former'[d] = former[d] /\ toBrowser'[d] = toBrowser[d]

LEMMA AloneKeeps ==
  ASSUME EditorInv, NEW b \in Browsers, Alone(b), Shape', Linked(b)',
         Followed(toBrowser'[b], history),
         browser[b].typed <= browser'[b].typed, browser'[b].typed \in Nat
  PROVE  EditorInv'
<1>1. ASSUME NEW d \in Browsers PROVE Linked(d)'
  <2>1. CASE d = b
    BY <2>1
  <2>2. CASE d # b
    <3>1. Linked(d)
      BY Messages
    <3> QED
      BY <2>2, <3>1 DEF Alone, Linked
  <2> QED
    BY <2>1, <2>2
<1>2. ASSUME NEW d \in Browsers PROVE TypedIds(d, browser[d]) \subseteq TypedIds(d, browser'[d])
  <2>1. CASE d = b
    <3>1. browser[b].typed \in Nat
      BY Messages DEF Linked, Link, BrowserInv, Held, Browser
    <3>2. 1 .. browser[b].typed \subseteq 1 .. browser'[b].typed
      BY <3>1
    <3> QED
      BY <2>1, <3>2 DEF TypedIds
  <2>2. CASE d # b
    BY <2>2 DEF Alone
  <2> QED
    BY <2>1, <2>2
<1>3. LogInv'
  <2>1. /\ LogTyped(history) /\ document = TextAt(history, Len(history))
        /\ \A r \in 1 .. Len(history) : \E d \in Browsers :
             history[r].opId \in TypedIds(d, browser[d])
    BY DEF EditorInv, LogInv
  <2>2. \A r \in 1 .. Len(history) : \E d \in Browsers :
          history[r].opId \in TypedIds(d, browser'[d])
    BY <1>2, <2>1
  <2>3. history' = history /\ document' = document
    BY DEF Alone
  <2> QED
    BY <2>1, <2>2, <2>3 DEF LogInv, TypedIds
<1>4. ASSUME NEW d \in Browsers PROVE Followed(toBrowser'[d], history')
  <2>1. Followed(toBrowser[d], history)
    BY Messages
  <2> QED
    BY <2>1 DEF Alone
<1> QED
  BY <1>1, <1>3, <1>4 DEF EditorInv

(* What the message listener sends.                                        *)
Sends(br, kind) ==
  CASE kind = "init" -> <<Sync(br)>>
    [] kind \in {"catchup", "snapshot"} -> Resent(br)
    [] OTHER -> <<>>

SendsRight(s, br, kind) ==
  /\ \A x \in ToSet(s) :
       (kind = "init" /\ x = Sync(br)) \/ \E op \in ResentOf(br) : x = Op(op)
  /\ kind = "init" => Sync(br) \in ToSet(s)
  /\ kind = "catchup" => \A op \in ResentOf(br) : Op(op) \in ToSet(s)

LEMMA SendsAre ==
  ASSUME NEW br, br.pending \in Seq(Edits(Nat)), br.revision \in Nat,
         NEW kind \in {"init", "op", "catchup", "snapshot", "error"}
  PROVE  Sends(br, kind) \in Seq(ToServerMessage) /\ SendsRight(Sends(br, kind), br, kind)
<1>1. CASE kind = "init"
  <2>1. Sends(br, kind) = <<Sync(br)>>
    BY <1>1 DEF Sends
  <2>2. Sync(br) \in ToServerMessage
    BY DEF Sync, ToServerMessage
  <2>3. <<Sync(br)>> \in Seq(ToServerMessage) /\ ToSet(<<Sync(br)>>) = {Sync(br)}
    BY <2>2 DEF ToSet
  <2> QED
    BY <1>1, <2>1, <2>3 DEF SendsRight
<1>2. CASE kind \in {"catchup", "snapshot"}
  <2>1. PICK s : s = Resent(br)
    OBVIOUS
  <2>2. Sends(br, kind) = s
    BY <1>2, <2>1 DEF Sends
  <2>3. DOMAIN br.pending = 1 .. Len(br.pending) /\ Len(br.pending) \in Nat
    OBVIOUS
  <2>4. s = [i \in 1 .. Len(br.pending) |-> Op([br.pending[i] EXCEPT !.baseRevision = br.revision])]
    BY <2>1, <2>3 DEF Resent
  <2>5. ASSUME NEW i \in 1 .. Len(br.pending)
        PROVE  /\ [br.pending[i] EXCEPT !.baseRevision = br.revision] \in ResentOf(br)
               /\ s[i] = Op([br.pending[i] EXCEPT !.baseRevision = br.revision])
               /\ s[i] \in ToServerMessage
    <3>1. PICK p : p = br.pending[i]
      OBVIOUS
    <3>2. p \in Edits(Nat)
      BY <3>1
    <3>3. PICK op : op = [p EXCEPT !.baseRevision = br.revision]
      OBVIOUS
    <3>4. op \in Edits(Nat)
      BY <3>2, <3>3 DEF Edits, Operation
    <3>5. op \in ResentOf(br)
      BY <3>1, <3>3 DEF ResentOf
    <3>6. s[i] = Op(op)
      BY <2>4, <3>1, <3>3
    <3>7. Op(op) \in ToServerMessage
      BY <3>4 DEF Op, ToServerMessage, OpMessage
    <3> QED
      BY <3>1, <3>3, <3>5, <3>6, <3>7
  <2>6. s \in Seq(ToServerMessage) /\ Len(s) = Len(br.pending)
    <3>1. PICK n \in Nat : n = Len(br.pending)
      BY <2>3
    <3>2. s \in [1 .. n -> ToServerMessage]
      BY <2>4, <2>5, <3>1
    <3> QED
      BY <3>1, <3>2
  <2>7. ASSUME NEW x \in ToSet(s) PROVE \E op \in ResentOf(br) : x = Op(op)
    <3>1. PICK i \in 1 .. Len(s) : x = s[i]
      BY <2>6, SetOfSeq
    <3> QED
      BY <2>5, <2>6, <3>1
  <2>8. ASSUME NEW op \in ResentOf(br) PROVE Op(op) \in ToSet(s)
    <3>1. PICK i \in 1 .. Len(br.pending) : op = [br.pending[i] EXCEPT !.baseRevision = br.revision]
      BY DEF ResentOf
    <3>2. i \in 1 .. Len(s) /\ s[i] = Op(op)
      BY <2>5, <2>6, <3>1
    <3>3. s[i] \in ToSet(s)
      BY <2>6, <3>2, SetOfSeq
    <3> QED
      BY <3>2, <3>3
  <2>9. SendsRight(s, br, kind)
    BY <1>2, <2>7, <2>8 DEF SendsRight
  <2> QED
    BY <2>2, <2>6, <2>9
<1>3. CASE kind \in {"op", "error"}
  <2>1. Sends(br, kind) = <<>>
    BY <1>3 DEF Sends
  <2>2. PICK s : s = <<>>
    OBVIOUS
  <2>3. ToSet(s) = {} /\ s \in Seq(ToServerMessage)
    BY <2>2, SetOfNothing
  <2>4. SendsRight(s, br, kind)
    BY <1>3, <2>3 DEF SendsRight
  <2> QED
    BY <2>1, <2>2, <2>3, <2>4
<1> QED
  BY <1>1, <1>2, <1>3

(* What a message other than a snapshot makes of a browser.                *)
LEMMA ReadsKeeps ==
  ASSUME NEW b \in Browsers, LogTyped(history), NEW sent \in SUBSET Edits(Nat),
         NEW br, BrowserInv(b, br, history, sent),
         NEW m \in ToBrowserMessage, m.kind # "snapshot", m.from <= m.to, m.to <= Len(history),
         NEW ny, ny = Reads(br, m)
  PROVE  /\ BrowserInv(b, ny, history, sent) /\ Continues(ny, br)
         /\ m.kind = "error" => ny.refused
         /\ \A r \in m.from + 1 .. m.to : Settles(ny, r, history)
<1>1. PICK from \in Nat, to \in Nat : from = m.from /\ to = m.to
  BY DEF ToBrowserMessage
<1>2. m.kind \in {"init", "error"} => from = to
  BY <1>1 DEF ToBrowserMessage
<1>3. br \in Browser({br.editor}) /\ br.revision \in Nat
  BY DEF BrowserInv, Held, Browser
<1>4. CASE m.kind = "init" \/ m.kind = "error"
  <2>1. ny = [br EXCEPT !.enabled = TRUE] \/ (ny = [br EXCEPT !.refused = TRUE])
    BY <1>4 DEF Reads
  <2>2. m.kind = "error" => ny = [br EXCEPT !.refused = TRUE]
    BY <1>4 DEF Reads
  <2>3. /\ ny \in Browser({br.editor}) /\ Switched(ny, br) /\ ny.online = br.online
        /\ br.refused => ny.refused
    BY <1>3, <2>1 DEF Browser, Switched
  <2>4. m.kind = "error" => ny.refused
    BY <1>3, <2>2 DEF Browser
  <2>5. BrowserInv(b, ny, history, sent)
    BY <2>3, SwitchKeeps
  <2>6. Continues(ny, br)
    <3>1. br.revision <= br.revision
      BY <1>3
    <3> QED
      BY <2>3, <3>1 DEF Switched, Continues
  <2>7. m.from + 1 .. m.to = {}
    BY <1>1, <1>2, <1>4
  <2> QED
    BY <2>4, <2>5, <2>6, <2>7
<1>5. CASE m.kind # "init" /\ m.kind # "error"
  <2>1. PICK s : s = SubSeq(history, m.from + 1, m.to)
    OBVIOUS
  <2>2. ny = FoldLeft(Received, br, s)
    BY <1>5, <2>1 DEF Reads
  <2>3. s = Missed(history, from, to)
    BY <1>1, <2>1 DEF Missed
  <2>4. /\ BrowserInv(b, ny, history, sent) /\ Continues(ny, br)
        /\ \A r \in from + 1 .. to : Settles(ny, r, history)
    BY <1>1, <2>2, <2>3, FoldKeeps
  <2> QED
    BY <1>1, <1>5, <2>4
<1> QED
  BY <1>4, <1>5

LEMMA ReadsTakesOver ==
  ASSUME LogTyped(history), NEW br, br \in Browser({br.editor}),
         NEW m, m.kind = "snapshot", NEW r \in 0 .. Len(history), r = m.to,
         NEW ny, ny = Reads(br, m)
  PROVE  ny \in Browser({ny.editor}) /\ IsTakenOver(ny, br, r, history)
<1>1. PICK text : text = TextAt(history, r)
  OBVIOUS
<1>2. text \in Seq(Nat) /\ r \in Nat
  <2>1. history \in Seq(Edits(Nat))
    BY DEF LogTyped
  <2> QED
    BY <1>1, <2>1, TextTyped
<1>3. PICK cleared \in BOOLEAN : cleared <=> br.cleared \/ br.pending # <<>>
  OBVIOUS
<1>4. br.cleared \in BOOLEAN
  BY DEF Browser
<1>5. (br.cleared \/ br.pending # <<>>) = cleared
  BY <1>3, <1>4, Zenon
<1>6. ny = TakenOver(br, r)
  BY DEF Reads
<1>7. ny = [br EXCEPT !.revision = r, !.confirmed = text, !.pending = <<>>,
                      !.applied = {}, !.editor = text, !.base = r, !.orderly = TRUE,
                      !.cleared = cleared]
  BY <1>1, <1>5, <1>6 DEF TakenOver, TextAt
<1>8. <<>> \in Seq(Edits(Nat)) /\ {} \in SUBSET Nat
  OBVIOUS
<1>9. /\ ny \in Browser({text})
      /\ ny.online = br.online /\ ny.enabled = br.enabled /\ ny.refused = br.refused
      /\ ny.typed = br.typed /\ ny.revision = r /\ ny.base = r
      /\ ny.confirmed = text /\ ny.editor = text /\ ny.pending = <<>> /\ ny.applied = {}
      /\ ny.cleared = cleared
  <2>1. PICK nx : nx = [br EXCEPT !.revision = r, !.confirmed = text, !.pending = <<>>,
                                  !.applied = {}]
    OBVIOUS
  <2>2. /\ nx \in Browser({br.editor})
        /\ nx.online = br.online /\ nx.enabled = br.enabled /\ nx.refused = br.refused
        /\ nx.typed = br.typed /\ nx.revision = r /\ nx.confirmed = text
        /\ nx.pending = <<>> /\ nx.applied = {}
    BY <1>2, <1>8, <2>1 DEF Browser
  <2>3. ny = [nx EXCEPT !.editor = text, !.base = r, !.orderly = TRUE, !.cleared = cleared]
    BY <1>7, <2>1
  <2>4. /\ ny \in Browser({text})
        /\ ny.editor = text /\ ny.base = r /\ ny.orderly = TRUE /\ ny.cleared = cleared
        /\ ny.online = nx.online /\ ny.enabled = nx.enabled /\ ny.refused = nx.refused
        /\ ny.typed = nx.typed /\ ny.revision = nx.revision /\ ny.confirmed = nx.confirmed
        /\ ny.pending = nx.pending /\ ny.applied = nx.applied
    BY <1>2, <1>3, <2>2, <2>3 DEF Browser
  <2> QED
    BY <2>2, <2>4
<1>10. IsTakenOver(ny, br, r, history)
  BY <1>1, <1>3, <1>9 DEF IsTakenOver
<1> QED
  BY <1>9, <1>10

LEMMA ReceiveKeeps ==
  ASSUME EditorInv, NEW b \in Browsers, Receive(b)
  PROVE  EditorInv'
<1>1. PICK m, br, hist, ny, sends :
        /\ m = Head(toBrowser[b]) /\ br = browser[b] /\ hist = history
        /\ ny = Reads(br, m) /\ sends = Sends(ny, m.kind)
  OBVIOUS
<1>2. /\ toBrowser[b] # <<>> /\ toBrowser' = [toBrowser EXCEPT ![b] = Tail(@)]
      /\ browser' = [browser EXCEPT ![b] = ny]
      /\ toServer' = [toServer EXCEPT ![b] = @ \o sends]
      /\ document' = document /\ history' = history /\ former' = former /\ closed' = closed
  BY <1>1 DEF Receive, Sends
<1>3. PICK ts, fm, tb, tb2 :
        /\ ts = ToSet(toServer[b]) /\ fm = Unread(former[b]) /\ tb = ToSet(toBrowser[b])
        /\ tb2 = ToSet(Tail(toBrowser[b]))
  OBVIOUS
<1>4. /\ ts \in SUBSET ToServerMessage /\ fm \in SUBSET OpMessage /\ tb \in SUBSET ToBrowserMessage
      /\ Link(b, br, ts, fm, tb, hist) /\ LogTyped(hist)
  BY <1>1, <1>3, Messages DEF Linked
<1>5. /\ m \in ToBrowserMessage /\ Tail(toBrowser[b]) \in Seq(ToBrowserMessage)
      /\ tb = {m} \cup tb2
      /\ Followed(Tail(toBrowser[b]), hist)
      /\ m.kind = "snapshot" =>
           \A r \in m.to + 1 .. Len(hist) : \E x \in tb2 : Announces(x, r)
  <2>1. toBrowser[b] \in Seq(ToBrowserMessage) /\ Followed(toBrowser[b], hist)
    BY <1>1, Messages
  <2> QED
    BY <1>1, <1>2, <1>3, <2>1, SetOfTail, FollowedTail
<1>6. /\ m.from \in Nat /\ m.to \in Nat /\ m.from <= m.to /\ m.to <= Len(hist)
      /\ m.kind \in {"init", "op", "catchup", "snapshot", "error"}
  BY <1>4, <1>5 DEF Link, Sound, ToBrowserMessage
<1>7. PICK sent \in SUBSET Edits(Nat) : sent = SentOf(ts, fm)
  <2>1. SentOf(ts, fm) \in SUBSET Edits(Nat)
    BY <1>4 DEF SentOf, ToServerMessage, OpMessage
  <2> QED
    BY <2>1
<1>8. BrowserInv(b, br, hist, sent) /\ br \in Browser({br.editor}) /\ br.typed \in Nat
  BY <1>4, <1>7 DEF Link, BrowserInv, Held, Browser
<1>9. ASSUME m.kind # "snapshot"
      PROVE  /\ BrowserInv(b, ny, hist, sent) /\ Continues(ny, br)
             /\ m.kind = "error" => ny.refused
             /\ \A r \in m.from + 1 .. m.to : Settles(ny, r, hist)
  BY <1>1, <1>4, <1>5, <1>6, <1>8, <1>9, ReadsKeeps
<1>10. ASSUME m.kind = "snapshot"
       PROVE  /\ ny \in Browser({ny.editor}) /\ m.to \in 0 .. Len(hist)
              /\ IsTakenOver(ny, br, m.to, hist)
  <2>1. PICK r : r = m.to
    OBVIOUS
  <2>2. r \in 0 .. Len(history)
    BY <1>1, <1>4, <1>6, <2>1 DEF LogTyped
  <2>3. LogTyped(history)
    BY <1>1, <1>4
  <2>4. ny \in Browser({ny.editor}) /\ IsTakenOver(ny, br, r, history)
    BY <1>1, <1>8, <1>10, <2>1, <2>2, <2>3, ReadsTakesOver
  <2> QED
    BY <1>1, <2>1, <2>2, <2>4
<1>11. ny.pending \in Seq(Edits(Nat)) /\ ny.revision \in Nat /\ ny.typed = br.typed
  <2>1. CASE m.kind # "snapshot"
    BY <1>9, <2>1 DEF BrowserInv, Held, Browser, Continues
  <2>2. CASE m.kind = "snapshot"
    BY <1>10, <2>2 DEF Browser, IsTakenOver
  <2> QED
    BY <2>1, <2>2
<1>12. sends \in Seq(ToServerMessage) /\ SendsRight(sends, ny, m.kind)
  <2>1. Sends(ny, m.kind) \in Seq(ToServerMessage) /\ SendsRight(Sends(ny, m.kind), ny, m.kind)
    BY <1>6, <1>11, SendsAre
  <2> QED
    BY <1>1, <2>1
<1>13. /\ toServer[b] \o sends \in Seq(ToServerMessage)
       /\ ToSet(toServer[b] \o sends) = ts \cup ToSet(sends)
  <2>1. toServer[b] \in Seq(ToServerMessage)
    BY Messages
  <2> QED
    BY <1>3, <1>12, <2>1, SetOfConcat
<1>14. PICK ts2 : ts2 = ts \cup ToSet(sends)
  OBVIOUS
<1>15. Link(b, ny, ts2, fm, tb2, hist)
  <2>1. m \in tb /\ tb2 \in SUBSET tb /\ \A x \in tb : x \in tb2 \/ x = m
    BY <1>5
  <2>2. CASE m.kind # "snapshot"
    <3>1. /\ ts \subseteq ts2
          /\ \A x \in ts2 : x \in ts \/ x = Sync(ny) \/ \E op \in ResentOf(ny) : x = Op(op)
          /\ m.kind = "init" => Sync(ny) \in ts2
          /\ m.kind = "catchup" => \A op \in ResentOf(ny) : Op(op) \in ts2
      BY <1>12, <1>14 DEF SendsRight
    <3>2. BrowserInv(b, ny, hist, SentOf(ts, fm))
      BY <1>7, <1>9, <2>2
    <3> QED
      BY <1>4, <1>9, <2>1, <2>2, <3>1, <3>2, LinkReads
  <2>3. CASE m.kind = "snapshot"
    <3>1. /\ ny \in Browser({ny.editor}) /\ m.to \in 0 .. Len(hist)
          /\ IsTakenOver(ny, br, m.to, hist)
      BY <1>10, <2>3
    <3>2. ResentOf(ny) = {}
      <4>1. 1 .. Len(ny.pending) = {}
        BY <3>1 DEF IsTakenOver
      <4> QED
        BY <4>1 DEF ResentOf
    <3>3. ToSet(sends) = {}
      BY <1>12, <2>3, <3>2 DEF SendsRight
    <3>4. ts2 = ts
      BY <1>14, <3>3
    <3>5. Link(b, ny, ts, fm, tb2, hist)
      BY <1>4, <1>5, <2>1, <2>3, <3>1, LinkTakesOver
    <3> QED
      BY <3>4, <3>5
  <2> QED
    BY <2>2, <2>3
<1>16. /\ browser'[b] = ny /\ toServer'[b] = toServer[b] \o sends
       /\ toBrowser'[b] = Tail(toBrowser[b]) /\ former'[b] = former[b] /\ Alone(b)
  BY <1>2 DEF EditorInv, Shape, Alone
<1>17. Linked(b)'
  BY <1>1, <1>2, <1>3, <1>13, <1>14, <1>15, <1>16 DEF Linked
<1>18. Shape'
  BY <1>2, <1>5, <1>13 DEF EditorInv, Shape
<1>19. browser[b].typed <= browser'[b].typed /\ browser'[b].typed \in Nat
  <2>1. browser[b].typed = br.typed /\ browser'[b].typed = br.typed
    BY <1>1, <1>11, <1>16
  <2> QED
    BY <1>8, <2>1
<1>20. Followed(toBrowser'[b], history)
  BY <1>1, <1>5, <1>16
<1> QED
  BY <1>16, <1>17, <1>18, <1>19, <1>20, AloneKeeps

LEMMA OpsAmongAre ==
  ASSUME NEW s \in Seq(ToServerMessage)
  PROVE  /\ OpsAmong(s) \in Seq(OpMessage)
         /\ \A m \in ToSet(OpsAmong(s)) : m \in ToSet(s) /\ m.kind = "op"
<1>1. PICK T : T = { m \in ToSet(s) : m.kind = "op" }
  OBVIOUS
<1>2. PICK w : w = Those(s, T)
  OBVIOUS
<1>3. w \in Seq(ToServerMessage) /\ KeptUpTo(w, s, T, Len(s))
  BY <1>2, ThoseAre
<1>4. w = OpsAmong(s)
  BY <1>1, <1>2 DEF OpsAmong
<1>5. \A k \in 1 .. Len(w) : w[k] \in T
  BY <1>3 DEF KeptUpTo
<1>6. PICK n \in Nat : n = Len(w)
  BY <1>3
<1>7. \A m \in T : m \in OpMessage
  <2>1. ToSet(s) \in SUBSET ToServerMessage
    BY SetOfSeq
  <2> QED
    BY <1>1, <2>1 DEF ToServerMessage
<1>8. w \in Seq(OpMessage)
  <2>1. w \in [1 .. n -> OpMessage]
    BY <1>3, <1>5, <1>6, <1>7
  <2> QED
    BY <2>1
<1>9. \A m \in ToSet(w) : m \in T
  BY <1>3, <1>5, SetOfSeq
<1> QED
  BY <1>1, <1>4, <1>8, <1>9

LEMMA DisconnectKeeps ==
  ASSUME EditorInv, NEW b \in Browsers, Disconnect(b)
  PROVE  EditorInv'
<1>1. PICK br, hist, nx : /\ br = browser[b] /\ hist = history
                          /\ nx = [br EXCEPT !.online = FALSE, !.enabled = FALSE]
  OBVIOUS
<1>2. PICK n \in 0 .. Len(toServer[b]) :
        former' = [former EXCEPT ![b] = Append(@, OpsAmong(SubSeq(toServer[b], 1, n)))]
  BY DEF Disconnect
<1>3. /\ closed' = [closed EXCEPT ![b] = @ + 1]
      /\ browser' = [browser EXCEPT ![b].online = FALSE, ![b].enabled = FALSE]
      /\ toServer' = [toServer EXCEPT ![b] = <<>>] /\ toBrowser' = [toBrowser EXCEPT ![b] = <<>>]
      /\ document' = document /\ history' = history
  BY DEF Disconnect
<1>4. PICK ts, fm, tb : ts = ToSet(toServer[b]) /\ fm = Unread(former[b]) /\ tb = ToSet(toBrowser[b])
  OBVIOUS
<1>5. /\ ts \in SUBSET ToServerMessage /\ fm \in SUBSET OpMessage /\ tb \in SUBSET ToBrowserMessage
      /\ Link(b, br, ts, fm, tb, hist) /\ LogTyped(hist)
      /\ toServer[b] \in Seq(ToServerMessage) /\ former[b] \in Seq(Seq(OpMessage))
  BY <1>1, <1>4, Messages DEF Linked
<1>6. PICK s, w : s = SubSeq(toServer[b], 1, n) /\ w = OpsAmong(s)
  OBVIOUS
<1>7. s \in Seq(ToServerMessage) /\ \A m \in ToSet(s) : m \in ts
  <2>1. Len(toServer[b]) \in Nat /\ n \in Nat /\ n <= Len(toServer[b])
    BY <1>5
  <2>2. s \in Seq(ToServerMessage) /\ Len(s) = n /\ \A k \in 1 .. n : s[k] = toServer[b][k]
    BY <1>5, <1>6, <2>1
  <2>3. ASSUME NEW m \in ToSet(s) PROVE m \in ts
    <3>1. PICK k \in 1 .. Len(s) : m = s[k]
      BY <2>2, SetOfSeq
    <3>2. k \in 1 .. Len(toServer[b]) /\ m = toServer[b][k]
      BY <2>1, <2>2, <3>1
    <3> QED
      BY <1>4, <1>5, <3>2, SetOfSeq
  <2> QED
    BY <2>2, <2>3
<1>8. w \in Seq(OpMessage) /\ \A m \in ToSet(w) : m \in ts /\ m.kind = "op"
  BY <1>6, <1>7, OpsAmongAre
<1>9. /\ Append(former[b], w) \in Seq(Seq(OpMessage))
      /\ Unread(Append(former[b], w)) \subseteq fm \cup ToSet(w)
  BY <1>4, <1>5, <1>8, UnreadAppend
<1>10. PICK fm2 : fm2 = Unread(Append(former[b], w))
  OBVIOUS
<1>11. /\ br \in Browser({br.editor}) /\ br.typed \in Nat
  BY <1>5 DEF Link, BrowserInv, Held, Browser
<1>12. nx \in Browser({br.editor}) /\ Switched(nx, br) /\ nx.online = FALSE /\ nx.enabled = FALSE
  BY <1>1, <1>11 DEF Browser, Switched
<1>13. BrowserInv(b, nx, hist, SentOf({}, fm2))
  <2>1. SentOf({}, fm2) \in SUBSET SentOf(ts, fm)
    BY <1>8, <1>9, <1>10 DEF SentOf
  <2>2. BrowserInv(b, nx, hist, SentOf(ts, fm))
    BY <1>5, <1>12, SwitchKeeps DEF Link
  <2> QED
    BY <2>1, <2>2, FewerSent
<1>14. Sound(b, nx, {}, fm2, {}, hist)
  <2>1. SentOf({}, fm2) \in SUBSET SentOf(ts, fm)
    BY <1>8, <1>9, <1>10 DEF SentOf
  <2>2. TypedIds(b, nx) = TypedIds(b, br)
    BY <1>12 DEF Switched, TypedIds
  <2> QED
    BY <1>5, <2>1, <2>2 DEF Link, Sound
<1>15. Underway(nx, {}, {}, hist)
  <2>1. Starting(nx, {})
    BY <1>12 DEF Starting
  <2> QED
    BY <1>12, <2>1 DEF Underway, PendingUnderway, RevisionUnderway
<1>16. Link(b, nx, {}, fm2, {}, hist)
  BY <1>13, <1>14, <1>15 DEF Link
<1>17. /\ browser'[b] = nx /\ toServer'[b] = <<>> /\ toBrowser'[b] = <<>>
       /\ former'[b] = Append(former[b], w) /\ Alone(b)
  BY <1>1, <1>2, <1>3, <1>6 DEF EditorInv, Shape, Alone
<1>18. Linked(b)'
  <2>1. ToSet(toServer'[b]) = {} /\ ToSet(toBrowser'[b]) = {}
    BY <1>17, SetOfNothing
  <2> QED
    BY <1>1, <1>3, <1>9, <1>10, <1>16, <1>17, <2>1 DEF Linked
<1>19. Shape'
  <2>1. Shape
    BY DEF EditorInv
  <2>2. closed' \in [Browsers -> Nat]
    BY <1>3, <2>1 DEF Shape
  <2>3. former' \in [Browsers -> Seq(Seq(OpMessage))]
    BY <1>2, <1>6, <1>9, <2>1 DEF Shape
  <2>4. <<>> \in Seq(ToServerMessage) /\ <<>> \in Seq(ToBrowserMessage)
    OBVIOUS
  <2>5. toServer' \in [Browsers -> Seq(ToServerMessage)]
    BY <1>3, <2>1, <2>4 DEF Shape
  <2>6. toBrowser' \in [Browsers -> Seq(ToBrowserMessage)]
    BY <1>3, <2>1, <2>4 DEF Shape
  <2>7. browser' = [d \in Browsers |-> browser'[d]]
    BY <1>3, <2>1 DEF Shape
  <2> QED
    BY <2>2, <2>3, <2>5, <2>6, <2>7 DEF Shape
<1>20. browser[b].typed <= browser'[b].typed /\ browser'[b].typed \in Nat
  <2>1. browser[b].typed = br.typed /\ browser'[b].typed = br.typed
    BY <1>1, <1>12, <1>17 DEF Switched
  <2> QED
    BY <1>11, <2>1
<1>21. Followed(toBrowser'[b], history)
  BY <1>17, FollowedNothing
<1> QED
  BY <1>17, <1>18, <1>19, <1>20, <1>21, AloneKeeps

LEMMA ConnectKeeps ==
  ASSUME EditorInv, NEW b \in Browsers, Connect(b)
  PROVE  EditorInv'
<1>1. PICK br, hist, nx, m : /\ br = browser[b] /\ hist = history
                             /\ nx = [br EXCEPT !.online = TRUE, !.refused = FALSE]
                             /\ m = [kind |-> "init", from |-> Len(hist), to |-> Len(hist)]
  OBVIOUS
<1>2. /\ ~br.online
      /\ browser' = [browser EXCEPT ![b].online = TRUE, ![b].refused = FALSE]
      /\ toServer' = [toServer EXCEPT ![b] = <<Sync(br)>>]
      /\ toBrowser' = [toBrowser EXCEPT ![b] = <<m>>]
      /\ document' = document /\ history' = history /\ former' = former /\ closed' = closed
  BY <1>1 DEF Connect, Revision
<1>3. PICK ts, fm, tb : ts = ToSet(toServer[b]) /\ fm = Unread(former[b]) /\ tb = ToSet(toBrowser[b])
  OBVIOUS
<1>4. /\ Link(b, br, ts, fm, tb, hist) /\ LogTyped(hist)
      /\ fm \in SUBSET OpMessage
  BY <1>1, <1>3, Messages DEF Linked
<1>5. br \in Browser({br.editor}) /\ br.typed \in Nat /\ br.revision \in Nat
      /\ br.revision <= Len(hist) /\ Len(hist) \in Nat
  BY <1>4 DEF Link, BrowserInv, Held, Browser, LogTyped
<1>6. nx \in Browser({br.editor}) /\ Switched(nx, br) /\ nx.online = TRUE
  BY <1>1, <1>5 DEF Browser, Switched
<1>7. PICK ts2, tb2 : ts2 = {Sync(br)} /\ tb2 = {m}
  OBVIOUS
<1>8. Sync(br) \in ToServerMessage /\ Sync(br).kind = "sync" /\ Sync(br).from = br.revision
  BY <1>5 DEF Sync, ToServerMessage
<1>9. m \in ToBrowserMessage /\ m.kind = "init" /\ m.from = Len(hist) /\ m.to = Len(hist)
  BY <1>1, <1>5 DEF ToBrowserMessage
<1>10. SentOf(ts2, fm) \in SUBSET SentOf(ts, fm)
  BY <1>7, <1>8 DEF SentOf
<1>11. BrowserInv(b, nx, hist, SentOf(ts2, fm))
  <2>1. BrowserInv(b, nx, hist, SentOf(ts, fm))
    BY <1>4, <1>6, SwitchKeeps DEF Link
  <2> QED
    BY <1>10, <2>1, FewerSent
<1>12. Sound(b, nx, ts2, fm, tb2, hist)
  <2>1. TypedIds(b, nx) = TypedIds(b, br)
    BY <1>6 DEF Switched, TypedIds
  <2>2. \A op \in SentOf(ts2, fm) : op.opId \in TypedIds(b, nx)
    BY <1>4, <1>10, <2>1 DEF Link, Sound
  <2>3. \A x \in ts2 : x.kind = "sync" => x.from <= Len(hist)
    BY <1>5, <1>7, <1>8
  <2>4. \A x \in tb2 : x.from <= x.to /\ x.to <= Len(hist)
    BY <1>5, <1>7, <1>9
  <2> QED
    BY <2>2, <2>3, <2>4 DEF Sound
<1>13. Underway(nx, ts2, tb2, hist)
  <2>1. Starting(nx, tb2)
    BY <1>7, <1>9 DEF Starting
  <2> QED
    BY <1>6, <2>1 DEF Underway, PendingUnderway, RevisionUnderway
<1>14. Link(b, nx, ts2, fm, tb2, hist)
  BY <1>11, <1>12, <1>13 DEF Link
<1>15. /\ browser'[b] = nx /\ toServer'[b] = <<Sync(br)>> /\ toBrowser'[b] = <<m>>
       /\ former'[b] = former[b] /\ Alone(b)
  BY <1>1, <1>2 DEF EditorInv, Shape, Alone
<1>16. /\ <<Sync(br)>> \in Seq(ToServerMessage) /\ ToSet(<<Sync(br)>>) = ts2
       /\ <<m>> \in Seq(ToBrowserMessage) /\ ToSet(<<m>>) = tb2
  BY <1>7, <1>8, <1>9 DEF ToSet
<1>17. Linked(b)'
  BY <1>1, <1>2, <1>3, <1>14, <1>15, <1>16 DEF Linked
<1>18. Shape'
  BY <1>2, <1>16 DEF EditorInv, Shape
<1>19. browser[b].typed <= browser'[b].typed /\ browser'[b].typed \in Nat
  <2>1. browser[b].typed = br.typed /\ browser'[b].typed = br.typed
    BY <1>1, <1>6, <1>15 DEF Switched
  <2> QED
    BY <1>5, <2>1
<1>20. Followed(toBrowser'[b], history)
  BY <1>1, <1>15, FollowedNothing
<1> QED
  BY <1>15, <1>17, <1>18, <1>19, <1>20, AloneKeeps

-----------------------------------------------------------------------------
(* Typing.                                                                 *)

(* What is new when n operations are typed.                                *)
TypedMore(nx, br, ops, n) ==
  /\ nx \in Browser({nx.editor})
  /\ nx.online = br.online /\ nx.enabled = br.enabled /\ nx.revision = br.revision
  /\ nx.confirmed = br.confirmed /\ nx.applied = br.applied /\ nx.orderly = br.orderly
  /\ nx.base = br.base /\ nx.cleared = br.cleared /\ nx.refused = br.refused
  /\ nx.pending = br.pending \o ops /\ nx.typed = br.typed + n

Unused(b, br, ops, n, hist) ==
  /\ br.typed + n <= Len(OpIds[b])
  /\ \A j \in 1 .. n :
       /\ ops[j].opId = OpIds[b][br.typed + j] /\ ops[j].baseRevision = br.revision
       /\ \A r \in 1 .. Len(hist) : hist[r].opId # ops[j].opId

SendsAll(ts2, ts, ops, n) == ts2 = ts \cup { Op(ops[j]) : j \in 1 .. n }

LEMMA LinkTyped ==
  ASSUME NEW b \in Browsers, NEW hist, LogTyped(hist), NEW br,
         NEW ts \in SUBSET ToServerMessage, NEW fm \in SUBSET OpMessage,
         NEW tb, Link(b, br, ts, fm, tb, hist), br.online,
         NEW n \in Nat, n # 0, NEW ops \in Seq(Edits(Nat)), Len(ops) = n,
         Unused(b, br, ops, n, hist), NEW nx, TypedMore(nx, br, ops, n),
         NEW ts2, SendsAll(ts2, ts, ops, n)
  PROVE  Link(b, nx, ts2, fm, tb, hist)
<1>1. /\ br.pending \in Seq(Edits(Nat)) /\ br.typed \in Nat /\ br.revision \in Nat
      /\ br.revision <= Len(hist) /\ Len(hist) \in Nat /\ hist \in Seq(Edits(Nat))
      /\ br.applied \in SUBSET Nat
  BY DEF Link, BrowserInv, Held, Browser, LogTyped
<1>2. PICK l, old, new : l = Len(br.pending) /\ old = br.pending /\ new = nx.pending
  OBVIOUS
<1>3. /\ l \in Nat /\ Len(new) = l + n /\ old \in Seq(Edits(Nat))
      /\ \A i \in 1 .. l : new[i] = old[i]
      /\ \A j \in 1 .. n : new[l + j] = ops[j]
  <2>1. new = old \o ops /\ old \in Seq(Edits(Nat)) /\ l = Len(old)
    BY <1>1, <1>2 DEF TypedMore
  <2>2. IsConcat(new, old, ops)
    BY <2>1, ConcatAt
  <2>3. l \in Nat
    BY <2>1
  <2> QED
    BY <2>1, <2>2, <2>3 DEF IsConcat
<1>4. ASSUME NEW i \in 1 .. Len(new)
      PROVE  (\E k \in 1 .. l : new[i] = old[k]) \/ (\E j \in 1 .. n : new[i] = ops[j])
  <2>1. CASE i <= l
    <3>1. i \in 1 .. l
      BY <1>3, <2>1
    <3> QED
      BY <1>3, <3>1
  <2>2. CASE ~(i <= l)
    <3>1. PICK j : j = i - l
      OBVIOUS
    <3>2. j \in 1 .. n /\ i = l + j
      BY <1>3, <2>2, <3>1
    <3>3. new[l + j] = ops[j]
      BY <1>3, <3>2
    <3> QED
      BY <3>2, <3>3
  <2> QED
    BY <2>1, <2>2
<1>5. OpIds[b] \in Seq(Nat) /\ br.typed + n <= Len(OpIds[b]) /\ Len(OpIds[b]) \in Nat
  BY EditorAssumption DEF Unused
<1>6. ASSUME NEW i \in 1 .. br.typed + n, NEW j \in 1 .. br.typed + n, OpIds[b][i] = OpIds[b][j]
      PROVE  i = j
  <2>1. i \in DOMAIN OpIds[b] /\ j \in DOMAIN OpIds[b]
    <3>1. PICK t \in Nat : t = br.typed + n
      BY <1>1
    <3>2. PICK d \in Nat : d = Len(OpIds[b])
      BY <1>5
    <3>3. i \in 1 .. d /\ j \in 1 .. d
      BY <1>5, <3>1, <3>2
    <3> QED
      BY <1>5, <3>2, <3>3
  <2> QED
    BY <1>6, <2>1, EditorAssumption
<1>7. \A j \in 1 .. n : /\ ops[j].opId = OpIds[b][br.typed + j] /\ ops[j].baseRevision = br.revision
                        /\ br.typed + j \in 1 .. br.typed + n
                        /\ \A r \in 1 .. Len(hist) : hist[r].opId # ops[j].opId
  BY <1>1, SMTT(30) DEF Unused
<1>8. ASSUME NEW k \in 1 .. br.typed, NEW j \in 1 .. n PROVE OpIds[b][k] # ops[j].opId
  <2>1. k \in 1 .. br.typed + n /\ k # br.typed + j
    BY <1>1
  <2> QED
    BY <1>6, <1>7, <2>1
<1>9. ASSUME NEW i \in 1 .. n, NEW j \in 1 .. n, ops[i].opId = ops[j].opId PROVE i = j
  <2>1. br.typed + i = br.typed + j
    BY <1>6, <1>7, <1>9
  <2> QED
    BY <1>1, <2>1
<1>10. \A i \in 1 .. l : \E k \in 1 .. br.typed : old[i].opId = OpIds[b][k]
  BY <1>2 DEF Link, BrowserInv, Held
<1>11. \A i \in 1 .. l, j \in 1 .. n : old[i].opId # ops[j].opId
  BY <1>8, <1>10
<1>12. nx.typed = br.typed + n /\ nx.typed \in Nat /\ 1 .. br.typed \subseteq 1 .. nx.typed
  BY <1>1 DEF TypedMore
<1>13. Held(b, nx, hist)
  <2>1. nx \in Browser({nx.editor}) /\ nx.revision <= Len(hist) /\ nx.typed <= Len(OpIds[b])
    BY <1>1, <1>5, <1>12 DEF TypedMore
  <2>2. \A id \in nx.applied : \E r \in 1 .. Len(hist) : hist[r].opId = id
    BY DEF TypedMore, Link, BrowserInv, Held
  <2>3. ASSUME NEW i \in 1 .. Len(new)
        PROVE  new[i].opId \notin nx.applied /\ \E k \in 1 .. nx.typed : new[i].opId = OpIds[b][k]
    <3>1. CASE \E k \in 1 .. l : new[i] = old[k]
      <4>1. PICK k \in 1 .. l : new[i] = old[k]
        BY <3>1
      <4>2. old[k].opId \notin br.applied
        BY <1>2 DEF Link, BrowserInv, Held
      <4>3. nx.applied = br.applied
        BY DEF TypedMore
      <4> QED
        BY <1>10, <1>12, <4>1, <4>2, <4>3
    <3>2. CASE \E j \in 1 .. n : new[i] = ops[j]
      <4>1. PICK j \in 1 .. n : new[i] = ops[j]
        BY <3>2
      <4>2. ops[j].opId \notin nx.applied
        BY <1>7, <2>2
      <4>3. \E k \in 1 .. nx.typed : ops[j].opId = OpIds[b][k]
        BY <1>7, <1>12
      <4> QED
        BY <4>1, <4>2, <4>3
    <3> QED
      BY <1>4, <3>1, <3>2
  <2>4. ASSUME NEW i \in 1 .. Len(new), NEW j \in 1 .. Len(new), new[i].opId = new[j].opId
        PROVE  new[i] = new[j]
    <3>1. ASSUME NEW x \in 1 .. l, NEW y \in 1 .. l, old[x].opId = old[y].opId
          PROVE  old[x] = old[y]
      BY <1>2, <3>1 DEF Link, BrowserInv, Held
    <3>2. ASSUME NEW x \in 1 .. n, NEW y \in 1 .. n, ops[x].opId = ops[y].opId
          PROVE  ops[x] = ops[y]
      BY <1>9, <3>2
    <3> QED
      BY <1>4, <1>11, <2>4, <3>1, <3>2
  <2>5. ASSUME ~nx.cleared, NEW k \in 1 .. nx.typed
        PROVE  \/ \E r \in 1 .. Len(hist) : hist[r].opId = OpIds[b][k]
               \/ \E i \in 1 .. Len(new) : new[i].opId = OpIds[b][k]
    <3>1. CASE k \in 1 .. br.typed
      <4>1. \/ \E r \in 1 .. Len(hist) : hist[r].opId = OpIds[b][k]
            \/ \E i \in 1 .. l : old[i].opId = OpIds[b][k]
        <5>1. ~br.cleared
          BY <2>5 DEF TypedMore
        <5> QED
          BY <1>2, <3>1, <5>1 DEF Link, BrowserInv, Held
      <4>2. 1 .. l \subseteq 1 .. Len(new)
        BY <1>3
      <4> QED
        BY <1>3, <4>1, <4>2
    <3>2. CASE k \notin 1 .. br.typed
      <4>1. PICK j : j = k - br.typed
        OBVIOUS
      <4>2. j \in 1 .. n /\ k = br.typed + j
        BY <1>1, <1>12, <3>2, <4>1
      <4>3. l + j \in 1 .. Len(new)
        BY <1>3, <4>2
      <4> QED
        <5>1. new[l + j].opId = OpIds[b][k]
          BY <1>3, <1>7, <4>2
        <5> QED
          BY <4>3, <5>1
    <3> QED
      BY <3>1, <3>2
  <2> QED
    BY <1>2, <2>1, <2>2, <2>3, <2>4, <2>5 DEF Held
<1>14. Shown(nx, hist)
  <2>1. new # <<>>
    BY <1>3
  <2> QED
    BY <1>2, <2>1 DEF TypedMore, Link, BrowserInv, Shown
<1>15. /\ \A j \in 1 .. n : Op(ops[j]).kind = "op" /\ Op(ops[j]).op = ops[j] /\ Op(ops[j]) \in ts2
       /\ ts \subseteq ts2
       /\ \A x \in ts2 : x \in ts \/ \E j \in 1 .. n : x = Op(ops[j])
  BY DEF Op, SendsAll
<1>16. \A op \in SentOf(ts2, fm) : op \in SentOf(ts, fm) \/ \E j \in 1 .. n : op = ops[j]
  <2>1. TAKE op \in SentOf(ts2, fm)
  <2>2. PICK x : x.op = op /\ (x \in fm \/ (x \in ts2 /\ x.kind = "op"))
    BY DEF SentOf
  <2>3. CASE x \in fm \/ x \in ts
    BY <2>2, <2>3 DEF SentOf
  <2>4. CASE x \in ts2 /\ x \notin ts
    BY <1>15, <2>2, <2>4
  <2> QED
    BY <2>2, <2>3, <2>4
<1>17. Echoes(b, nx, hist, SentOf(ts2, fm))
  <2>1. SUFFICES ASSUME br.orderly, NEW i \in 1 .. Len(new), NEW p, p = new[i]
                 PROVE  /\ p.baseRevision <= br.revision
                        /\ Foreign(b, hist, p.baseRevision, br.revision) =>
                             /\ SentAsPending(p, br.revision, hist, SentOf(ts2, fm))
                             /\ CommittedAsPending(p, br.revision, hist)
    BY <1>2 DEF Echoes, TypedMore
  <2>2. CASE \E k \in 1 .. l : p = old[k]
    <3>1. PICK k \in 1 .. l : p = old[k]
      BY <2>2
    <3>2. /\ p.baseRevision <= br.revision
          /\ Foreign(b, hist, p.baseRevision, br.revision) =>
               /\ SentAsPending(p, br.revision, hist, SentOf(ts, fm))
               /\ CommittedAsPending(p, br.revision, hist)
      BY <1>2, <2>1, <3>1 DEF Link, BrowserInv, Echoes
    <3>3. \A op \in SentOf(ts2, fm) : op.opId = p.opId => op \in SentOf(ts, fm)
      BY <1>11, <1>16, <3>1
    <3> QED
      BY <3>2, <3>3 DEF SentAsPending
  <2>3. CASE \E j \in 1 .. n : p = ops[j]
    <3>1. PICK j \in 1 .. n : p = ops[j]
      BY <2>3
    <3>2. p \in Edits(Nat) /\ p.baseRevision = br.revision
      BY <1>7, <3>1
    <3>3. ASSUME NEW op \in SentOf(ts2, fm), op.opId = p.opId
          PROVE  /\ op.baseRevision <= br.revision
                 /\ Same(TransformOver(op, Missed(hist, op.baseRevision, br.revision)), p)
      <4>1. op \notin SentOf(ts, fm)
        <5>1. ASSUME op \in SentOf(ts, fm) PROVE FALSE
          <6>1. op.opId \in TypedIds(b, br)
            BY <5>1 DEF Link, Sound
          <6> QED
            BY <1>8, <3>1, <3>3, <6>1 DEF TypedIds
        <5> QED
          BY <5>1
      <4>2. op = p
        BY <1>9, <1>16, <3>1, <3>3, <4>1
      <4>3. TransformOver(p, Missed(hist, br.revision, br.revision)) = p
        BY <1>1, <3>2, MissedNothing
      <4>4. Same(p, p)
        BY <3>2, SameIs
      <4> QED
        BY <1>1, <3>2, <4>2, <4>3, <4>4
    <3>4. SentAsPending(p, br.revision, hist, SentOf(ts2, fm))
      BY <3>3 DEF SentAsPending
    <3>5. CommittedAsPending(p, br.revision, hist)
      <4>1. br.revision + 1 .. Len(hist) \subseteq 1 .. Len(hist)
        BY <1>1
      <4>2. \A r \in br.revision + 1 .. Len(hist) : hist[r].opId # p.opId
        BY <1>7, <3>1, <4>1
      <4> QED
        BY <4>2 DEF CommittedAsPending
    <3> QED
      BY <1>1, <3>2, <3>4, <3>5
  <2> QED
    BY <1>4, <2>1, <2>2, <2>3
<1>18. Sound(b, nx, ts2, fm, tb, hist)
  <2>1. \A op \in SentOf(ts2, fm) : op.opId \in TypedIds(b, nx)
    <3>1. TAKE op \in SentOf(ts2, fm)
    <3>2. CASE op \in SentOf(ts, fm)
      <4>1. op.opId \in TypedIds(b, br)
        BY <3>2 DEF Link, Sound
      <4> QED
        BY <1>12, <4>1 DEF TypedIds
    <3>3. CASE op \notin SentOf(ts, fm)
      <4>1. PICK j \in 1 .. n : op = ops[j]
        BY <1>16, <3>3
      <4>2. op.opId = OpIds[b][br.typed + j] /\ br.typed + j \in 1 .. nx.typed
        BY <1>7, <1>12, <4>1
      <4> QED
        BY <4>2 DEF TypedIds
    <3> QED
      BY <3>2, <3>3
  <2>2. \A x \in ts2 : x.kind = "sync" => x \in ts
    BY <1>15
  <2> QED
    BY <2>1, <2>2 DEF Link, Sound
<1>19. Underway(nx, ts2, tb, hist)
  <2>1. /\ nx.online /\ ts \subseteq ts2 /\ (Starting(br, tb) => Starting(nx, tb))
        /\ Refused(br, tb) => Refused(nx, tb)
    BY <1>15 DEF TypedMore, Starting, Refused
  <2>2. ASSUME NEW i \in 1 .. Len(new) PROVE PendingUnderway(nx, ts2, tb, hist, new[i].opId)
    <3>1. CASE \E k \in 1 .. l : new[i] = old[k]
      <4>1. PICK k \in 1 .. l : new[i] = old[k]
        BY <3>1
      <4>2. PendingUnderway(br, ts, tb, hist, old[k].opId)
        BY <1>2 DEF Link, Underway
      <4> QED
        BY <2>1, <4>1, <4>2 DEF PendingUnderway
    <3>2. CASE \E j \in 1 .. n : new[i] = ops[j]
      BY <1>15, <3>2 DEF PendingUnderway
    <3> QED
      BY <1>4, <3>1, <3>2
  <2>3. ASSUME nx.orderly, NEW r \in nx.revision + 1 .. Len(hist)
        PROVE  RevisionUnderway(nx, ts2, tb, r)
    <3>1. RevisionUnderway(br, ts, tb, r)
      BY <2>3 DEF TypedMore, Link, Underway
    <3> QED
      BY <2>1, <3>1 DEF RevisionUnderway
  <2> QED
    BY <1>2, <2>1, <2>2, <2>3 DEF Underway
<1> QED
  BY <1>13, <1>14, <1>17, <1>18, <1>19 DEF Link, BrowserInv

(* The parts diffToOp makes: a delete, an insert, or one after the other.  *)
Part == { part \in [type: OpType, position: Nat, text: Seq(Nat), count: Nat] :
            /\ part.type = "insert" => part.count = 0
            /\ part.type = "delete" => part.text = <<>> }

LEMMA DiffIs ==
  ASSUME NEW start \in Nat, NEW removed \in Nat, NEW text \in Seq(Nat)
  PROVE  DiffToOp(start, removed, text) \in Seq(Part)
<1>1. PICK d, i :
        /\ d = [type |-> "delete", position |-> start, text |-> <<>>, count |-> removed]
        /\ i = [type |-> "insert", position |-> start, text |-> text, count |-> 0]
  OBVIOUS
<1>2. d \in Part
  <2>1. <<>> \in Seq(Nat)
    OBVIOUS
  <2> QED
    BY <1>1, <2>1 DEF Part, OpType
<1>3. i \in Part
  BY <1>1 DEF Part, OpType
<1>4. PICK x, y : /\ x = (IF removed > 0 THEN <<d>> ELSE <<>>)
                  /\ y = (IF text # <<>> THEN <<i>> ELSE <<>>)
  OBVIOUS
<1>5. x \in Seq(Part) /\ y \in Seq(Part)
  BY <1>2, <1>3, <1>4
<1>6. DiffToOp(start, removed, text) = x \o y
  BY <1>1, <1>4 DEF DiffToOp
<1> QED
  BY <1>5, <1>6

IsStamped(ops, parts, b) ==
  /\ Len(ops) = Len(parts)
  /\ \A j \in 1 .. Len(parts) : /\ ops[j].opId = OpIds[b][browser[b].typed + j]
                                /\ ops[j].baseRevision = browser[b].revision

LEMMA OperationOf ==
  ASSUME NEW type \in OpType, NEW position \in Nat, NEW text \in Seq(Nat), NEW count \in Nat,
         NEW revision \in Nat, NEW id \in Nat
  PROVE  [type |-> type, position |-> position, text |-> text, count |-> count,
          baseRevision |-> revision, revision |-> 0, clientId |-> 0, opId |-> id]
           \in Operation(Nat)
  BY DEF Operation

LEMMA Within ==
  ASSUME NEW t \in Nat, NEW n \in Nat, NEW d \in Nat, t + n <= d, NEW i \in 1 .. n
  PROVE  t + i \in 1 .. d
  OBVIOUS

LEMMA StampedIs ==
  ASSUME NEW b \in Browsers, NEW parts \in Seq(Part), browser[b].revision \in Nat,
         browser[b].typed \in Nat, browser[b].typed + Len(parts) <= Len(OpIds[b])
  PROVE  Stamped(b, parts) \in Seq(Edits(Nat)) /\ IsStamped(Stamped(b, parts), parts, b)
<1>1. PICK n, r, t, ids : /\ n \in Nat /\ r \in Nat /\ t \in Nat /\ n = Len(parts)
                          /\ r = browser[b].revision /\ t = browser[b].typed /\ ids = OpIds[b]
  OBVIOUS
<1>2. ids \in Seq(Nat) /\ t + n <= Len(ids) /\ Len(ids) \in Nat
  BY <1>1, EditorAssumption
<1>3. PICK ops : ops = Stamped(b, parts)
  OBVIOUS
<1>4. ops = [i \in 1 .. n |->
               [type |-> parts[i].type, position |-> parts[i].position,
                text |-> parts[i].text, count |-> parts[i].count,
                baseRevision |-> r, revision |-> 0, clientId |-> 0, opId |-> ids[t + i]]]
  <2>1. DOMAIN parts = 1 .. n
    BY <1>1
  <2> QED
    BY <1>1, <1>3, <2>1, SMTT(60) DEF Stamped
<1>5. ASSUME NEW i \in 1 .. n
      PROVE  ops[i] \in Edits(Nat) /\ ops[i].opId = ids[t + i] /\ ops[i].baseRevision = r
  <2>1. PICK part \in Part : part = parts[i]
    BY <1>1
  <2>2. t + i \in 1 .. Len(ids)
    <3>1. PICK d \in Nat : d = Len(ids)
      BY <1>2
    <3>2. t + n <= d
      BY <1>2, <3>1
    <3>3. t + i \in 1 .. d
      BY <1>1, <3>1, <3>2, Within
    <3> QED
      BY <3>1, <3>3
  <2>3. PICK id \in Nat : id = ids[t + i]
    BY <1>2, <2>2
  <2>4. ops[i] = [type |-> part.type, position |-> part.position,
                  text |-> part.text, count |-> part.count,
                  baseRevision |-> r, revision |-> 0, clientId |-> 0, opId |-> id]
    BY <1>4, <2>1, <2>3, SMTT(60)
  <2>5. /\ part.type \in OpType /\ part.position \in Nat /\ part.text \in Seq(Nat)
        /\ part.count \in Nat /\ (part.type = "insert" => part.count = 0)
        /\ (part.type = "delete" => part.text = <<>>)
    BY DEF Part
  <2>6. ops[i] \in Edits(Nat)
    <3>1. PICK ty, po, te, co : /\ ty = part.type /\ po = part.position
                               /\ te = part.text /\ co = part.count
      OBVIOUS
    <3>2. PICK op : op = ops[i]
      OBVIOUS
    <3>3. op = [type |-> ty, position |-> po, text |-> te, count |-> co,
                baseRevision |-> r, revision |-> 0, clientId |-> 0, opId |-> id]
      BY <2>4, <3>1, <3>2
    <3>4. op \in Operation(Nat)
      BY <1>1, <2>3, <2>5, <3>1, <3>3, OperationOf
    <3>5. op.type = ty /\ op.text = te /\ op.count = co
      BY <3>3
    <3> QED
      BY <2>5, <3>1, <3>2, <3>4, <3>5 DEF Edits
  <2> QED
    BY <2>3, <2>4, <2>6
<1>6. ops \in Seq(Edits(Nat)) /\ Len(ops) = n
  <2>1. \A i \in 1 .. n : ops[i] \in Edits(Nat)
    BY <1>5
  <2>2. PICK s \in [1 .. n -> Edits(Nat)] : s = ops
    <3>1. ops = [i \in 1 .. n |-> ops[i]]
      BY <1>4
    <3> QED
      BY <2>1, <3>1
  <2>3. s \in Seq(Edits(Nat)) /\ Len(s) = n
    BY <1>1
  <2> QED
    BY <2>2, <2>3
<1>7. IsStamped(ops, parts, b)
  BY <1>1, <1>5, <1>6 DEF IsStamped
<1> QED
  BY <1>3, <1>6, <1>7

(* An id that was committed is one of those its browser has typed.         *)
LEMMA CommittedIsTyped ==
  ASSUME EditorInv, NEW b \in Browsers, NEW r \in 1 .. Len(history),
         NEW k \in DOMAIN OpIds[b], history[r].opId = OpIds[b][k]
  PROVE  k \in 1 .. browser[b].typed
<1>1. PICK a \in Browsers : history[r].opId \in TypedIds(a, browser[a])
  BY DEF EditorInv, LogInv
<1>2. browser[a].typed \in Nat /\ browser[a].typed <= Len(OpIds[a])
  BY Messages DEF Linked, Link, BrowserInv, Held, Browser
<1>3. PICK j \in 1 .. browser[a].typed : history[r].opId = OpIds[a][j]
  BY <1>1 DEF TypedIds
<1>4. j \in DOMAIN OpIds[a]
  <2>1. OpIds[a] \in Seq(Nat)
    BY EditorAssumption
  <2> QED
    BY <1>2, <2>1
<1>5. a = b /\ j = k
  <2>1. OpIds[a][j] = OpIds[b][k]
    BY <1>3
  <2>2. \A i \in DOMAIN OpIds[a], l \in DOMAIN OpIds[b] : OpIds[a][i] = OpIds[b][l] => a = b /\ i = l
    BY EditorAssumption
  <2> QED
    BY <1>4, <2>1, <2>2
<1> QED
  BY <1>5

LEMMA TypeKeeps ==
  ASSUME EditorInv, NEW b \in Browsers, NEW start \in Nat, NEW removed \in Nat,
         NEW text \in Seq(Nat), Type(b, start, removed, text)
  PROVE  EditorInv'
<1>1. PICK br, hist, parts, ops, n, e :
        /\ br = browser[b] /\ hist = history
        /\ parts = DiffToOp(start, removed, text) /\ ops = Stamped(b, parts) /\ n = Len(parts)
        /\ e = SubSeq(br.editor, 1, start) \o text
                 \o SubSeq(br.editor, start + removed + 1, Len(br.editor))
  OBVIOUS
<1>2. PICK nx : nx = [br EXCEPT !.pending = @ \o ops, !.typed = @ + n, !.editor = e]
  OBVIOUS
<1>3. PICK sends : sends = [i \in DOMAIN ops |-> Op(ops[i])]
  OBVIOUS
<1>4. /\ br.online /\ parts # <<>> /\ br.typed + n <= Len(OpIds[b])
      /\ browser' = [browser EXCEPT ![b] = nx]
      /\ toServer' = [toServer EXCEPT ![b] = @ \o sends]
      /\ document' = document /\ history' = history /\ former' = former
      /\ toBrowser' = toBrowser /\ closed' = closed
  BY <1>1, <1>2, <1>3 DEF Type
<1>5. PICK ts, fm, tb : ts = ToSet(toServer[b]) /\ fm = Unread(former[b]) /\ tb = ToSet(toBrowser[b])
  OBVIOUS
<1>6. /\ ts \in SUBSET ToServerMessage /\ fm \in SUBSET OpMessage
      /\ Link(b, br, ts, fm, tb, hist) /\ LogTyped(hist) /\ toServer[b] \in Seq(ToServerMessage)
  BY <1>1, <1>5, Messages DEF Linked
<1>7. /\ br \in Browser({br.editor}) /\ br.typed \in Nat /\ br.revision \in Nat
      /\ br.pending \in Seq(Edits(Nat)) /\ Len(hist) \in Nat
  BY <1>6 DEF Link, BrowserInv, Held, Browser, LogTyped
<1>8. parts \in Seq(Part) /\ n \in Nat /\ n # 0
  <2>1. parts \in Seq(Part)
    BY <1>1, DiffIs
  <2> QED
    BY <1>1, <1>4, <2>1
<1>9. /\ ops \in Seq(Edits(Nat)) /\ Len(ops) = n
      /\ \A j \in 1 .. n : /\ ops[j].opId = OpIds[b][br.typed + j]
                           /\ ops[j].baseRevision = br.revision
  <2>1. /\ browser[b].revision \in Nat /\ browser[b].typed \in Nat
        /\ browser[b].typed + Len(parts) <= Len(OpIds[b])
    BY <1>1, <1>4, <1>7
  <2>2. Stamped(b, parts) \in Seq(Edits(Nat)) /\ IsStamped(Stamped(b, parts), parts, b)
    BY <1>8, <2>1, StampedIs
  <2> QED
    BY <1>1, <2>2 DEF IsStamped
<1>10. Unused(b, br, ops, n, hist)
  <2>1. ASSUME NEW j \in 1 .. n, NEW r \in 1 .. Len(hist), hist[r].opId = ops[j].opId
        PROVE  FALSE
    <3>1. PICK k : k = br.typed + j
      OBVIOUS
    <3>2. PICK ids \in Seq(Nat), t \in Nat : ids = OpIds[b] /\ t = br.typed
      BY <1>7, EditorAssumption
    <3>3. k \in DOMAIN OpIds[b] /\ k \notin 1 .. br.typed
      <4>1. k = t + j /\ t + n <= Len(ids) /\ n \in Nat /\ Len(ids) \in Nat
        BY <1>4, <1>8, <3>1, <3>2
      <4>2. k \in 1 .. Len(ids) /\ k \notin 1 .. t
        BY <4>1
      <4>3. DOMAIN ids = 1 .. Len(ids)
        OBVIOUS
      <4> QED
        BY <3>2, <4>2, <4>3
    <3>4. history[r].opId = OpIds[b][k] /\ r \in 1 .. Len(history)
      BY <1>1, <1>9, <2>1, <3>1
    <3>5. k \in 1 .. browser[b].typed
      BY <3>3, <3>4, CommittedIsTyped
    <3> QED
      BY <1>1, <3>3, <3>5
  <2> QED
    BY <1>4, <1>9, <2>1 DEF Unused
<1>11. TypedMore(nx, br, ops, n)
  <2>1. PICK more, count : more = br.pending \o ops /\ count = br.typed + n
    OBVIOUS
  <2>2. more \in Seq(Edits(Nat)) /\ count \in Nat
    BY <1>7, <1>8, <1>9, <2>1, SetOfConcat
  <2>3. nx = [br EXCEPT !.pending = more, !.typed = count, !.editor = e]
    BY <1>2, <2>1
  <2>4. /\ nx \in Browser({nx.editor})
        /\ nx.online = br.online /\ nx.enabled = br.enabled /\ nx.revision = br.revision
        /\ nx.confirmed = br.confirmed /\ nx.applied = br.applied /\ nx.orderly = br.orderly
        /\ nx.base = br.base /\ nx.cleared = br.cleared /\ nx.refused = br.refused
        /\ nx.pending = more /\ nx.typed = count
    BY <1>7, <2>2, <2>3 DEF Browser
  <2> QED
    BY <2>1, <2>4 DEF TypedMore
<1>12. /\ sends \in Seq(ToServerMessage)
       /\ ToSet(sends) = { Op(ops[j]) : j \in 1 .. n }
  <2>1. DOMAIN ops = 1 .. n
    BY <1>8, <1>9
  <2>2. sends = [j \in 1 .. n |-> Op(ops[j])]
    BY <1>3, <2>1
  <2>3. \A j \in 1 .. n : ops[j] \in Edits(Nat) /\ Op(ops[j]) \in ToServerMessage
    BY <1>9 DEF Op, ToServerMessage, OpMessage
  <2>4. sends \in [1 .. n -> ToServerMessage]
    BY <2>2, <2>3
  <2> QED
    BY <1>8, <2>2, <2>4 DEF ToSet
<1>13. /\ toServer[b] \o sends \in Seq(ToServerMessage)
       /\ ToSet(toServer[b] \o sends) = ts \cup ToSet(sends)
  BY <1>5, <1>6, <1>12, SetOfConcat
<1>14. PICK ts2 : ts2 = ts \cup { Op(ops[j]) : j \in 1 .. n }
  OBVIOUS
<1>15. Link(b, nx, ts2, fm, tb, hist)
  <2>1. SendsAll(ts2, ts, ops, n)
    BY <1>14 DEF SendsAll
  <2> QED
    BY <1>4, <1>6, <1>8, <1>9, <1>10, <1>11, <2>1, LinkTyped
<1>16. /\ browser'[b] = nx /\ toServer'[b] = toServer[b] \o sends
       /\ toBrowser'[b] = toBrowser[b] /\ former'[b] = former[b] /\ Alone(b)
  BY <1>4 DEF EditorInv, Shape, Alone
<1>17. Linked(b)'
  BY <1>1, <1>4, <1>5, <1>12, <1>13, <1>14, <1>15, <1>16 DEF Linked
<1>18. Shape'
  BY <1>4, <1>13 DEF EditorInv, Shape
<1>19. browser[b].typed <= browser'[b].typed /\ browser'[b].typed \in Nat
  BY <1>1, <1>7, <1>8, <1>11, <1>16 DEF TypedMore
<1>20. Followed(toBrowser'[b], history)
  BY <1>16, Messages
<1> QED
  BY <1>16, <1>17, <1>18, <1>19, <1>20, AloneKeeps

LEMMA TypingKeeps ==
  ASSUME EditorInv, NEW b \in Browsers, Typing(b)
  PROVE  EditorInv'
<1>1. PICK size : size = Len(browser[b].editor)
  OBVIOUS
<1>2. PICK start \in 0 .. size : \E removed \in 0 .. size - start :
        \/ Type(b, start, removed, <<>>)
        \/ Type(b, start, removed, FreshText(b))
  BY <1>1 DEF Typing
<1>3. PICK removed \in 0 .. size - start :
        \/ Type(b, start, removed, <<>>)
        \/ Type(b, start, removed, FreshText(b))
  BY <1>2
<1>4. start \in Nat /\ removed \in Nat
  OBVIOUS
<1>5. <<>> \in Seq(Nat)
  OBVIOUS
<1>6. FreshText(b) \in Seq(Nat)
  <2>1. PICK t : t = browser[b].typed
    OBVIOUS
  <2>2. t \in Nat
    BY <2>1, Messages DEF Linked, Link, BrowserInv, Held, Browser
  <2>3. b \in Nat /\ TextSize \in Nat
    BY EditorAssumption
  <2>4. FreshText(b) = [k \in 1 .. TextSize |-> 100 * b + 10 * t + k]
    BY <2>1 DEF FreshText
  <2>5. FreshText(b) \in [1 .. TextSize -> Nat]
    BY <2>2, <2>3, <2>4
  <2> QED
    BY <2>3, <2>5
<1>7. CASE Type(b, start, removed, <<>>)
  BY <1>4, <1>5, <1>7, TypeKeeps
<1>8. CASE Type(b, start, removed, FreshText(b))
  BY <1>4, <1>6, <1>8, TypeKeeps
<1> QED
  BY <1>3, <1>7, <1>8

-----------------------------------------------------------------------------
(* The theorems.                                                           *)

LEMMA EditorStarts ==
  ASSUME EditorInit
  PROVE  EditorInv
<1>1. PICK none : none = <<>>
  OBVIOUS
<1>2. /\ document = Initial /\ history = none
      /\ toServer = [b \in Browsers |-> none] /\ former = [b \in Browsers |-> none]
      /\ toBrowser = [b \in Browsers |-> none] /\ closed = [b \in Browsers |-> 0]
  BY <1>1 DEF EditorInit, Init
<1>3. none \in Seq(Edits(Nat)) /\ Len(none) = 0 /\ ToSet(none) = {}
  BY <1>1, SetOfNothing
<1>4. LogInv
  <2>1. LogTyped(history)
    BY <1>2, <1>3 DEF LogTyped
  <2>2. document = TextAt(history, Len(history))
    BY <1>2, <1>3, TextStart
  <2> QED
    BY <1>2, <1>3, <2>1, <2>2 DEF LogInv
<1>5. Shape
  <2>1. /\ none \in Seq(ToServerMessage) /\ none \in Seq(Seq(OpMessage))
        /\ none \in Seq(ToBrowserMessage)
    BY <1>1
  <2>2. browser = [b \in Browsers |-> browser[b]]
    BY DEF EditorInit
  <2> QED
    BY <1>2, <2>1, <2>2 DEF Shape
<1>6. ASSUME NEW b \in Browsers PROVE Linked(b)
  <2>1. PICK br : br = browser[b]
    OBVIOUS
  <2>2. br = [online |-> TRUE, enabled |-> TRUE, revision |-> 0, confirmed |-> Initial,
              pending |-> none, applied |-> {}, editor |-> Initial, typed |-> 0,
              base |-> 0, orderly |-> TRUE, cleared |-> FALSE, refused |-> FALSE]
    BY <1>1, <2>1 DEF EditorInit
  <2>3. Initial \in Seq(Nat) /\ OpIds[b] \in Seq(Nat)
    BY EditorAssumption
  <2>4. br \in Browser({br.editor})
    BY <1>3, <2>2, <2>3 DEF Browser
  <2>5. /\ br.online /\ br.revision = 0 /\ br.confirmed = Initial /\ br.pending = none
        /\ br.applied = {} /\ br.editor = Initial /\ br.typed = 0 /\ br.base = 0
    BY <2>2
  <2>6. Held(b, br, none)
    <3>1. 0 <= Len(OpIds[b])
      BY <2>3
    <3> QED
      BY <1>3, <2>4, <2>5, <3>1 DEF Held
  <2>7. Shown(br, none)
    <3>1. TextAt(none, 0) = Initial
      BY <1>3, TextStart
    <3> QED
      BY <2>5, <3>1 DEF Shown
  <2>8. Echoes(b, br, none, SentOf({}, {}))
    BY <1>3, <2>5 DEF Echoes
  <2>9. Sound(b, br, {}, {}, {}, none)
    BY DEF Sound, SentOf
  <2>10. Underway(br, {}, {}, none)
    BY <1>3, <2>5 DEF Underway
  <2>11. Link(b, br, {}, {}, {}, none)
    BY <2>6, <2>7, <2>8, <2>9, <2>10 DEF Link, BrowserInv
  <2>12. /\ ToSet(toServer[b]) = {} /\ Unread(former[b]) = {} /\ ToSet(toBrowser[b]) = {}
         /\ history = none
    <3>1. Unread(none) = {}
      BY <1>3 DEF Unread
    <3> QED
      BY <1>2, <1>3, <3>1
  <2> QED
    BY <2>1, <2>11, <2>12 DEF Linked
<1>7. ASSUME NEW b \in Browsers PROVE Followed(toBrowser[b], history)
  BY <1>1, <1>2, FollowedNothing
<1> QED
  BY <1>4, <1>5, <1>6, <1>7 DEF EditorInv

LEMMA EditorSteps ==
  ASSUME EditorInv, [Next]_vars
  PROVE  EditorInv'
<1>1. CASE UNCHANGED vars
  BY <1>1 DEF vars, net, EditorInv, LogInv, Shape, Linked, TypedIds
<1>2. ASSUME NEW b \in Browsers, System(b) PROVE EditorInv'
  BY <1>2, ServeOpKeeps, ServeSyncKeeps, ServeFormerKeeps, ReceiveKeeps, ConnectKeeps DEF System
<1>3. ASSUME NEW b \in Browsers, Disconnect(b) PROVE EditorInv'
  BY <1>3, DisconnectKeeps
<1>4. ASSUME NEW b \in Browsers, Typing(b) PROVE EditorInv'
  BY <1>4, TypingKeeps
<1> QED
  BY <1>1, <1>2, <1>3, <1>4 DEF Next

(* Every reachable state satisfies the inductive invariant: the log is a   *)
(* typed history, and every browser is linked to it.                       *)
THEOREM EditorHolds == Spec => []EditorInv
<1>1. EditorInit => EditorInv
  BY EditorStarts
<1>2. EditorInv /\ [Next]_vars => EditorInv'
  BY EditorSteps
<1> QED
  BY <1>1, <1>2, PTL DEF Spec

(* The confirmed text of a browser that skipped no revision and was not    *)
(* sent again what its last snapshot had is what the server's document was *)
(* at the browser's revision: Shown says so, for Received applies no       *)
(* operation twice and TakenOver takes text and revision together.         *)
THEOREM ConfirmedIsShared == Spec => []ConfirmedIsServers
<1>1. EditorInv => ConfirmedIsServers
  <2>1. SUFFICES ASSUME EditorInv, NEW b \in Browsers, browser[b].orderly
                 PROVE  browser[b].confirmed
                          = FoldLeft(Apply, Initial, SubSeq(history, 1, browser[b].revision))
    BY DEF ConfirmedIsServers
  <2> QED
    BY <2>1, Messages DEF Linked, Link, BrowserInv, Shown, TextAt
<1> QED
  BY <1>1, EditorHolds, PTL

(* When nothing is under way and no sync of the connection was refused,    *)
(* Underway leaves nothing pending and no revision to learn of; Held and   *)
(* Shown say the rest.                                                     *)
THEOREM EditorsMeet == Spec => []EditorsAgree
<1>1. EditorInv => EditorsAgree
  <2>1. SUFFICES ASSUME EditorInv, Quiet, NEW b \in Browsers, ~browser[b].refused
                 PROVE  /\ browser[b].pending = <<>>
                        /\ ~browser[b].cleared =>
                             \A i \in 1 .. browser[b].typed : IsCommitted(OpIds[b][i])
                        /\ browser[b].orderly => browser[b].editor = document
    BY DEF EditorsAgree
  <2>2. PICK br : br = browser[b]
    OBVIOUS
  <2>3. /\ ToSet(toServer[b]) = {} /\ Unread(former[b]) = {} /\ ToSet(toBrowser[b]) = {}
        /\ br.enabled
    <3>1. ASSUME NEW i \in 1 .. Len(former[b]) PROVE ToSet(former[b][i]) = {}
      <4>1. former[b] \in Seq(Seq(OpMessage))
        BY <2>1, Messages
      <4>2. i \in DOMAIN former[b]
        BY <4>1
      <4>3. former[b][i] = <<>>
        BY <2>1, <4>2 DEF Quiet
      <4> QED
        BY <4>3, SetOfNothing
    <3>2. Unread(former[b]) = {}
      BY <3>1 DEF Unread
    <3> QED
      BY <2>1, <2>2, <3>2, SetOfNothing DEF Quiet
  <2>4. Link(b, br, {}, {}, {}, history) /\ LogTyped(history)
    BY <2>1, <2>2, <2>3, Messages DEF Linked
  <2>5. /\ br.pending \in Seq(Edits(Nat)) /\ br.revision \in Nat /\ br.revision <= Len(history)
        /\ Len(history) \in Nat /\ DOMAIN history = 1 .. Len(history)
    BY <2>4 DEF Link, BrowserInv, Held, Browser, LogTyped
  <2>6. br.online
    BY <2>3, <2>4 DEF Link, Underway
  <2>7. \A id : ~PendingUnderway(br, {}, {}, history, id)
    BY <2>1, <2>2, <2>6 DEF PendingUnderway, Starting, Refused
  <2>8. \A r : ~RevisionUnderway(br, {}, {}, r)
    BY <2>1, <2>2, <2>6 DEF RevisionUnderway, Starting, Refused
  <2>9. Len(br.pending) = 0
    <3>1. 1 \notin 1 .. Len(br.pending)
      BY <2>4, <2>7 DEF Link, Underway
    <3>2. Len(br.pending) \in Nat
      BY <2>5
    <3> QED
      BY <3>1, <3>2
  <2>10. br.pending = <<>>
    BY <2>5, <2>9
  <2>11. ASSUME ~br.cleared, NEW i \in 1 .. br.typed PROVE IsCommitted(OpIds[b][i])
    <3>1. \E r \in 1 .. Len(history) : history[r].opId = OpIds[b][i]
      BY <2>4, <2>9, <2>11 DEF Link, BrowserInv, Held
    <3> QED
      BY <2>5, <3>1 DEF IsCommitted
  <2>12. ASSUME br.orderly PROVE br.editor = document
    <3>1. \A r \in br.revision + 1 .. Len(history) : FALSE
      BY <2>4, <2>8, <2>12 DEF Link, Underway
    <3>2. br.revision = Len(history)
      <4>1. ASSUME br.revision < Len(history) PROVE FALSE
        <5>1. br.revision + 1 \in br.revision + 1 .. Len(history)
          BY <2>5, <4>1
        <5> QED
          BY <3>1, <5>1
      <4> QED
        BY <2>5, <4>1
    <3>3. br.editor = br.confirmed /\ br.confirmed = TextAt(history, br.revision)
      BY <2>4, <2>10, <2>12 DEF Link, BrowserInv, Shown
    <3>4. document = TextAt(history, Len(history))
      BY <2>1 DEF EditorInv, LogInv
    <3> QED
      BY <3>2, <3>3, <3>4
  <2> QED
    BY <2>2, <2>10, <2>11, <2>12
<1> QED
  BY <1>1, EditorHolds, PTL

LEMMA SeqOfEdits ==
  ASSUME NEW s \in Seq(Edits(Nat))
  PROVE  s \in Seq(Operation(Nat))
<1>1. \A op \in Edits(Nat) : op \in Operation(Nat)
  BY EditFields
<1>2. PICK n \in Nat : n = Len(s)
  OBVIOUS
<1>3. s \in [1 .. n -> Operation(Nat)]
  BY <1>1, <1>2
<1> QED
  BY <1>3

(* The types; the history holds no opId twice and nothing applied is       *)
(* pending still, as LogTyped and Held say.                                *)
THEOREM EditorTypes == Spec => []TypeOK
<1>1. EditorInv => TypeOK
  <2>1. SUFFICES ASSUME EditorInv PROVE TypeOK
    OBVIOUS
  <2>2. LogTyped(history) /\ history \in Seq(Edits(Nat)) /\ Len(history) \in Nat
        /\ DOMAIN history = 1 .. Len(history)
    BY <2>1 DEF EditorInv, LogInv, LogTyped
  <2>3. history \in Seq(Operation(Nat))
    BY <2>2, SeqOfEdits
  <2>4. document \in Seq(Nat)
    <3>1. Len(history) \in 0 .. Len(history)
      BY <2>2
    <3>2. document = TextAt(history, Len(history))
      BY <2>1 DEF EditorInv, LogInv
    <3> QED
      BY <2>2, <3>1, <3>2, TextTyped
  <2>5. IsInjective([r \in DOMAIN history |-> history[r].opId])
    <3>1. \A r, q \in DOMAIN history : history[r].opId = history[q].opId => r = q
      BY <2>2 DEF LogTyped
    <3> QED
      BY <3>1 DEF IsInjective
  <2>6. closed \in [Browsers -> Nat]
    BY <2>1 DEF EditorInv, Shape
  <2>7. ASSUME NEW b \in Browsers
        PROVE  /\ browser[b].pending \in Seq(Operation(Nat))
               /\ browser[b].revision \in 0 .. Revision
               /\ browser[b].applied \subseteq AllIds
               /\ \A i \in DOMAIN browser[b].pending :
                    browser[b].pending[i].opId \notin browser[b].applied
               /\ \A m \in ToSet(toServer[b]) :
                    IF m.kind = "sync" THEN m.from \in 0 .. Revision
                                       ELSE m.op \in Operation(Nat)
               /\ \A i \in DOMAIN former[b] : \A m \in ToSet(former[b][i]) :
                    m.kind = "op" /\ m.op \in Operation(Nat)
               /\ \A m \in ToSet(toBrowser[b]) :
                    /\ m.kind \in {"init", "op", "catchup", "snapshot", "error"}
                    /\ m.from <= m.to /\ m.to <= Revision
    <3>1. PICK br : br = browser[b]
      OBVIOUS
    <3>2. /\ Link(b, br, ToSet(toServer[b]), Unread(former[b]), ToSet(toBrowser[b]), history)
          /\ toServer[b] \in Seq(ToServerMessage) /\ former[b] \in Seq(Seq(OpMessage))
          /\ toBrowser[b] \in Seq(ToBrowserMessage)
          /\ ToSet(toServer[b]) \in SUBSET ToServerMessage
          /\ Unread(former[b]) \in SUBSET OpMessage
          /\ ToSet(toBrowser[b]) \in SUBSET ToBrowserMessage
      BY <2>1, <3>1, Messages DEF Linked
    <3>3. br.pending \in Seq(Edits(Nat)) /\ br.revision \in Nat /\ br.revision <= Len(history)
      BY <3>2 DEF Link, BrowserInv, Held, Browser
    <3>4. br.pending \in Seq(Operation(Nat)) /\ DOMAIN br.pending = 1 .. Len(br.pending)
      BY <3>3, SeqOfEdits
    <3>5. br.revision \in 0 .. Revision
      BY <2>2, <3>3 DEF Revision
    <3>6. ASSUME NEW id \in br.applied PROVE id \in AllIds
      <4>1. PICK r \in 1 .. Len(history) : history[r].opId = id
        BY <3>2 DEF Link, BrowserInv, Held
      <4>2. PICK a \in Browsers : id \in TypedIds(a, browser[a])
        BY <2>1, <4>1 DEF EditorInv, LogInv
      <4>3. browser[a].typed \in Nat /\ browser[a].typed <= Len(OpIds[a])
        BY <2>1, Messages DEF Linked, Link, BrowserInv, Held, Browser
      <4>4. PICK k \in 1 .. browser[a].typed : id = OpIds[a][k]
        BY <4>2 DEF TypedIds
      <4>5. OpIds[a] \in Seq(Nat)
        BY EditorAssumption
      <4>6. k \in DOMAIN OpIds[a]
        BY <4>3, <4>5
      <4>7. id \in ToSet(OpIds[a])
        BY <4>4, <4>6 DEF ToSet
      <4> QED
        BY <4>7 DEF AllIds
    <3>7. \A i \in 1 .. Len(br.pending) : br.pending[i].opId \notin br.applied
      BY <3>2 DEF Link, BrowserInv, Held
    <3>8. ASSUME NEW m \in ToSet(toServer[b])
          PROVE  IF m.kind = "sync" THEN m.from \in 0 .. Revision ELSE m.op \in Operation(Nat)
      <4>1. CASE m.kind = "sync"
        <5>1. m.from \in Nat
          BY <3>2, <4>1 DEF ToServerMessage, OpMessage
        <5>2. m.from <= Len(history)
          BY <3>2, <4>1 DEF Link, Sound
        <5> QED
          BY <2>2, <4>1, <5>1, <5>2 DEF Revision
      <4>2. CASE m.kind # "sync"
        <5>1. m.op \in Edits(Nat)
          BY <3>2, <4>2 DEF ToServerMessage, OpMessage
        <5> QED
          BY <4>2, <5>1, EditFields
      <4> QED
        BY <4>1, <4>2
    <3>9. ASSUME NEW i \in DOMAIN former[b], NEW m \in ToSet(former[b][i])
          PROVE  m.kind = "op" /\ m.op \in Operation(Nat)
      <4>1. i \in 1 .. Len(former[b])
        BY <3>2
      <4>2. m \in OpMessage
        BY <3>2, <4>1 DEF Unread
      <4>3. m.kind = "op" /\ m.op \in Edits(Nat)
        BY <4>2 DEF OpMessage
      <4> QED
        BY <4>3, EditFields
    <3>10. ASSUME NEW m \in ToSet(toBrowser[b])
           PROVE  /\ m.kind \in {"init", "op", "catchup", "snapshot", "error"}
                  /\ m.from <= m.to /\ m.to <= Revision
      BY <3>2 DEF ToBrowserMessage, Link, Sound, Revision
    <3> QED
      BY <3>1, <3>4, <3>5, <3>6, <3>7, <3>8, <3>9, <3>10
  <2> QED
    BY <2>3, <2>4, <2>5, <2>6, <2>7 DEF TypeOK
<1> QED
  BY <1>1, EditorHolds, PTL

(* What the server committed of the oldest pending operation does to the   *)
(* confirmed text what the browser's rebased form of it does: Echoes at    *)
(* the revision after the browser's.                                       *)
THEOREM AcksAreInvisible == Spec => []AckKeepsDisplay
<1>1. EditorInv => AckKeepsDisplay
  <2>1. SUFFICES ASSUME EditorInv, NEW b \in Browsers, NEW br, br = browser[b],
                        NEW p, p = br.pending[1], NEW n, n = br.revision + 1,
                        br.orderly, br.pending # <<>>, n <= Len(history),
                        history[n].opId = p.opId,
                        \A r \in p.baseRevision + 1 .. br.revision :
                          history[r].opId \notin ToSet(OpIds[b])
                 PROVE  ApplyOp(br.confirmed, p) = ApplyOp(br.confirmed, history[n])
    BY DEF AckKeepsDisplay, Revision
  <2>2. PICK hist : hist = history
    OBVIOUS
  <2>3. /\ LogTyped(hist) /\ hist \in Seq(Edits(Nat)) /\ Len(hist) \in Nat
        /\ Link(b, br, ToSet(toServer[b]), Unread(former[b]), ToSet(toBrowser[b]), hist)
    BY <2>1, <2>2, Messages DEF Linked, LogTyped
  <2>4. br.pending \in Seq(Edits(Nat)) /\ br.revision \in Nat
    BY <2>3 DEF Link, BrowserInv, Held, Browser
  <2>5. n \in Nat /\ n \in br.revision + 1 .. Len(hist) /\ n \in 1 .. Len(hist) /\ n - 1 = br.revision
        /\ br.revision \in 0 .. Len(hist) /\ br.revision <= Len(hist)
    <3>1. br.revision \in Nat /\ Len(hist) \in Nat /\ n <= Len(hist)
      BY <2>1, <2>2, <2>3, <2>4, ZenonT(30)
    <3>2. PICK v, l : v = br.revision /\ l = Len(hist)
      OBVIOUS
    <3>3. v \in Nat /\ l \in Nat /\ n = v + 1 /\ n <= l
      BY <2>1, <3>1, <3>2
    <3>4. /\ n \in Nat /\ n \in v + 1 .. l /\ n \in 1 .. l /\ n - 1 = v
          /\ v \in 0 .. l /\ v <= l
      BY <3>3
    <3> QED
      BY <3>2, <3>4
  <2>6. 1 \in 1 .. Len(br.pending) /\ p \in Edits(Nat)
    BY <2>1, <2>4
  <2>7. PICK d \in Seq(Nat) : d = TextAt(hist, br.revision)
    BY <2>3, <2>5, TextTyped
  <2>8. br.confirmed = d
    BY <2>1, <2>3, <2>7 DEF Link, BrowserInv, Shown
  <2>9. CommittedAsPending(p, br.revision, hist)
    <3>1. Foreign(b, hist, p.baseRevision, br.revision)
      BY <2>1, <2>2 DEF Foreign
    <3> QED
      BY <2>1, <2>3, <2>6, <3>1 DEF Link, BrowserInv, Echoes
  <2>10. PICK x \in Edits(Nat) :
           /\ hist[n] = Entered(x, Len(TextAt(hist, n - 1)), n)
           /\ Same(x, TransformOver(p, Missed(hist, br.revision, n - 1)))
    BY <2>1, <2>2, <2>5, <2>9 DEF CommittedAsPending
  <2>11. hist[n] = Entered(x, Len(d), n)
    BY <2>5, <2>7, <2>10
  <2>12. Same(x, p)
    <3>1. TransformOver(p, Missed(hist, br.revision, br.revision)) = p
      BY <2>3, <2>4, <2>5, <2>6, MissedNothing
    <3> QED
      BY <2>5, <2>10, <3>1
  <2>13. Apply(d, hist[n]) = Apply(d, x)
    BY <2>5, <2>11, EnteredApplies
  <2>14. Apply(d, x) = Apply(d, p)
    BY <2>6, <2>12, SameApplies
  <2>15. ApplyOp(d, p) = Apply(d, p)
    BY <2>6, ApplyOpIs
  <2>16. ApplyOp(d, hist[n]) = Apply(d, hist[n])
    <3>1. hist[n] \in Edits(Nat)
      BY <2>3, <2>5
    <3> QED
      BY <3>1, ApplyOpIs
  <2> QED
    BY <2>2, <2>8, <2>13, <2>14, <2>15, <2>16
<1> QED
  BY <1>1, EditorHolds, PTL

=============================================================================

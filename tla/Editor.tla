------------------------------- MODULE Editor -------------------------------
(***************************************************************************)
(* The browser editor (public/app.js): typing, rebasing what is pending    *)
(* over what arrives, losing the connection, catching up and resending.    *)
(* The server is a DocumentSession behind a store that knows the opIds it  *)
(* has committed, as RedisStore does.                                      *)
(*                                                                         *)
(* Each connection is FIFO in both directions, and a call of the store and *)
(* what is sent of it are one step: Fanout is about the steps in between   *)
(* and the reads that say less than the log.  Here a read may fail for     *)
(* good: the answer to a sync is then an error.  opIds are compared with < *)
(* only in ties; a browser's own increase with time.                       *)
(***************************************************************************)
EXTENDS DocumentSession, Selection

CONSTANTS
  Browsers,
  OpIds,        \* OpIds[b]: the ids b gives to its operations, in order
  CatchUpLimit, \* kCatchUpSnapshotThreshold
  TextSize,     \* bound: characters inserted by one input event
  MaxClosed     \* bound: MaxClosed[b] connections of b end

(* sendOp makes an opId of the clientId, the time and a random number: no  *)
(* two operations have the same.                                           *)
ASSUME EditorAssumption ==
  /\ Initial \in Seq(Nat)
  /\ Browsers \subseteq Nat /\ OpIds \in [Browsers -> Seq(Nat)]
  /\ \A a, b \in Browsers : \A i \in DOMAIN OpIds[a], j \in DOMAIN OpIds[b] :
       OpIds[a][i] = OpIds[b][j] => a = b /\ i = j
  /\ CatchUpLimit \in Nat /\ TextSize \in Nat /\ MaxClosed \in [Browsers -> Nat]

VARIABLES
  browser,      \* the variables of app.js, per browser
  toServer,     \* what the browser sent on its connection
  former,       \* what each ended connection still holds for its thread
  toBrowser,    \* what the server sent on the connection
  closed        \* number of connections of each browser that ended

net  == <<toServer, former, toBrowser, closed>>
vars == <<document, history, browser, net>>

-----------------------------------------------------------------------------
(* app.js has its own apply and transform: it neither clamps nor asks for  *)
(* no-ops.                                                                 *)
ApplyOp(text, op) ==
  LET position == Smaller(op.position, Len(text))
      after(n) == SubSeq(text, n + 1, Len(text))
  IN  SubSeq(text, 1, position) \o
        IF op.type = "insert" THEN op.text \o after(position)
                              ELSE after(position + op.count)

RebaseOverInsert(op, b) ==
  LET moves == IF op.type = "insert"
               THEN \/ op.position > b.position
                    \/ op.position = b.position /\ WinsTie(b, op)
               ELSE op.position >= b.position
      grows == op.type = "delete" /\ op.position + op.count > b.position
  IN  CASE moves -> [op EXCEPT !.position = @ + Len(b.text)]
        [] ~moves /\ grows -> [op EXCEPT !.count = @ + Len(b.text)]
        [] OTHER -> op

(* Mutant: an insert behind the deleted range moves into it.               *)
RebaseOverDeleteInto(op, b) == [op EXCEPT !.position = Smaller(@, b.position)]

RebaseOverDelete(op, b) ==
  LET first  == b.position
      last   == b.position + b.count
      end    == op.position + op.count
      shared == Smaller(end, last) - Larger(op.position, first)
      before == op.type = "delete" /\ end <= first
      behind == IF op.type = "insert" THEN op.position > last
                                      ELSE ~before /\ op.position >= last
  IN  CASE before -> op
        [] behind -> [op EXCEPT !.position = @ - b.count]
        [] OTHER ->
             [op EXCEPT !.count = IF op.type = "delete" THEN @ - Larger(0, shared) ELSE @,
                        !.position = Smaller(@, first)]

(* Named Rebase: OT's Transform is the server's.                           *)
Rebase(op, b) ==
  IF b.type = "insert" THEN RebaseOverInsert(op, b) ELSE RebaseOverDelete(op, b)

(* The pending operations, each rebased over those before it.              *)
Normalized(pending) ==
  FoldLeft(LAMBDA done, raw : Append(done, FoldLeft(Rebase, raw, done)),
           <<>>, pending)

ComposeDisplay(br) == FoldLeft(ApplyOp, br.confirmed, Normalized(br.pending))

-----------------------------------------------------------------------------
EditorInit ==
  /\ Init
  /\ browser = [b \in Browsers |->
       [online |-> TRUE, enabled |-> TRUE, revision |-> 0, confirmed |-> Initial,
        pending |-> <<>>, applied |-> {}, editor |-> Initial, typed |-> 0,
        base |-> 0, orderly |-> TRUE, cleared |-> FALSE, refused |-> FALSE]]
  /\ toServer = [b \in Browsers |-> <<>>]
  /\ former = [b \in Browsers |-> <<>>]
  /\ toBrowser = [b \in Browsers |-> <<>>]
  /\ closed = [b \in Browsers |-> 0]

Sync(br) == [kind |-> "sync", from |-> br.revision]
Op(op)   == [kind |-> "op", op |-> op]

(* What diffToOp makes of replacing `removed' characters behind `start'.   *)
DiffToOp(start, removed, text) ==
  LET part(type, count, t) ==
        [type |-> type, position |-> start, text |-> t, count |-> count]
  IN  (IF removed > 0 THEN <<part("delete", removed, <<>>)>> ELSE <<>>) \o
      (IF text # <<>> THEN <<part("insert", 0, text)>> ELSE <<>>)

(* The operations sendOp makes of them.  The server puts its own clientId  *)
(* in; it decides between equal opIds only.                                *)
Stamped(b, parts) ==
  [i \in DOMAIN parts |->
     [type |-> parts[i].type, position |-> parts[i].position,
      text |-> parts[i].text, count |-> parts[i].count,
      baseRevision |-> browser[b].revision, revision |-> 0,
      clientId |-> 0, opId |-> OpIds[b][browser[b].typed + i]]]

(* The input listener: one input event replaces a range with other text.   *)
Type(b, start, removed, text) ==
  LET br    == browser[b]
      parts == DiffToOp(start, removed, text)
      ops   == Stamped(b, parts)
  IN  /\ br.online /\ br.enabled
      /\ parts # <<>>
      /\ br.typed + Len(parts) <= Len(OpIds[b])
      /\ browser' = [browser EXCEPT ![b] =
           [br EXCEPT !.pending = @ \o ops, !.typed = @ + Len(parts),
                      !.editor = SubSeq(@, 1, start) \o text
                                   \o SubSeq(@, start + removed + 1, Len(@))]]
      /\ toServer' = [toServer EXCEPT ![b] = @ \o [i \in DOMAIN ops |-> Op(ops[i])]]
      /\ UNCHANGED <<document, history, former, toBrowser, closed>>

-----------------------------------------------------------------------------
(* The server.  A browser is sent revisions: the operations after `from'   *)
(* up to `to'.                                                             *)
Ops(from, to) == [kind |-> "op", from |-> from, to |-> to]

IsCommitted(id) == \E r \in DOMAIN history : history[r].opId = id
RevisionOf(id)  == CHOOSE r \in DOMAIN history : history[r].opId = id

(* Mutant: a store that does not know what it committed. *)
CommitOpBlind(op, answered) ==
  /\ Commit(op)
  /\ toBrowser' = [b \in Browsers |->
       IF browser[b].online THEN Append(toBrowser[b], Ops(Revision, Revision + 1))
                            ELSE toBrowser[b]]

(* A new operation is committed and sent to every client; one that is      *)
(* committed is only answered, on the connection it came from.             *)
CommitOp(op, answered) ==
  IF IsCommitted(op.opId)
  THEN LET r == RevisionOf(op.opId)
       IN  /\ toBrowser' = [b \in Browsers |->
                IF b \in answered THEN Append(toBrowser[b], Ops(r - 1, r))
                                  ELSE toBrowser[b]]
           /\ UNCHANGED <<document, history>>
  ELSE /\ Commit(op)
       /\ toBrowser' = [b \in Browsers |->
            IF browser[b].online THEN Append(toBrowser[b], Ops(Revision, Revision + 1))
                                 ELSE toBrowser[b]]

ServeOp(b) ==
  /\ toServer[b] # <<>> /\ Head(toServer[b]).kind = "op"
  /\ CommitOp(Head(toServer[b]).op, {b})
  /\ toServer' = [toServer EXCEPT ![b] = Tail(@)]
  /\ UNCHANGED <<browser, former, closed>>

(* send_catch_up.  A browser that is too far behind is sent the text.  The *)
(* error answers one that is ahead of the revision read: only a read that  *)
(* failed, and says 0, is behind.                                          *)
Answer(from) ==
  IF Revision - from > CatchUpLimit
  THEN [kind |-> "snapshot", from |-> Revision, to |-> Revision]
  ELSE [kind |-> "catchup", from |-> from, to |-> Revision]

Refusal == [kind |-> "error", from |-> 0, to |-> 0]

ServeSync(b) ==
  LET from == Head(toServer[b]).from
  IN  /\ toServer[b] # <<>> /\ Head(toServer[b]).kind = "sync"
      /\ \/ toBrowser' = [toBrowser EXCEPT ![b] = Append(@, Answer(from))]
         \/ /\ from > 0
            /\ toBrowser' = [toBrowser EXCEPT ![b] = Append(@, Refusal)]
      /\ toServer' = [toServer EXCEPT ![b] = Tail(@)]
      /\ UNCHANGED <<document, history, browser, former, closed>>

(* The thread of the i-th ended connection commits what had arrived on it; *)
(* its answers (and a catch-up it would send) reach nobody.                *)
ServeFormer(b) ==
  \E i \in DOMAIN former[b] :
    /\ former[b][i] # <<>>
    /\ CommitOp(Head(former[b][i]).op, {})
    /\ former' = [former EXCEPT ![b][i] = Tail(@)]
    /\ UNCHANGED <<browser, toServer, closed>>

-----------------------------------------------------------------------------
(* The filter that takes what is acknowledged out of the pending ones.     *)
Without(pending, id) == Those(pending, { p \in ToSet(pending) : p.opId # id })

(* What receiveOp makes of an operation that was not applied before.  An   *)
(* `orderly' browser never missed a revision, since it took over the       *)
(* server's text at revision `base', and was not sent again what that text *)
(* had: with the text it forgets what it applied.                          *)
News(br, op) ==
  LET mine == \E i \in DOMAIN br.pending : br.pending[i].opId = op.opId
      next == [br EXCEPT
        !.applied = @ \cup {op.opId},
        !.revision = op.revision,
        !.confirmed = ApplyOp(@, op),
        !.pending = IF mine THEN Without(@, op.opId)
                            ELSE [i \in DOMAIN @ |-> Rebase(@[i], op)],
        !.orderly = @ /\ op.revision <= br.revision + 1 /\ op.revision > br.base]
  IN  [next EXCEPT !.editor = ComposeDisplay(next)]

(* Mutant: an operation that was applied before is applied again.          *)
ReceivedAgain(br, op) == News(br, op)

(* receiveOp.                                                              *)
Received(br, op) ==
  IF op.opId \in br.applied THEN [br EXCEPT !.pending = Without(@, op.opId)]
                            ELSE News(br, op)

(* Mutant: the revision of the text is not taken over with it.             *)
TakenOverLate(br, r) ==
  LET text == FoldLeft(Apply, Initial, SubSeq(history, 1, r))
  IN  [br EXCEPT !.confirmed = text, !.pending = <<>>,
                 !.applied = {}, !.editor = text, !.base = r, !.orderly = TRUE,
                 !.cleared = @ \/ br.pending # <<>>]

(* Mutant: the text is not shown. *)
TakenOverUnseen(br, r) ==
  LET text == FoldLeft(Apply, Initial, SubSeq(history, 1, r))
  IN  [br EXCEPT !.revision = r, !.confirmed = text, !.pending = <<>>,
                 !.applied = {}, !.base = r, !.orderly = TRUE,
                 !.cleared = @ \/ br.pending # <<>>]

(* applySnapshot: the text at revision r is taken over, what is pending is *)
(* dropped (`cleared').                                                    *)
TakenOver(br, r) ==
  LET text == FoldLeft(Apply, Initial, SubSeq(history, 1, r))
  IN  [br EXCEPT !.revision = r, !.confirmed = text, !.pending = <<>>,
                 !.applied = {}, !.editor = text, !.base = r, !.orderly = TRUE,
                 !.cleared = @ \/ br.pending # <<>>]

(* Mutant: catching up does not send anything again. *)
ResentNothing(br) == <<>>

Resent(br) ==
  [i \in DOMAIN br.pending |-> Op([br.pending[i] EXCEPT !.baseRevision = br.revision])]

(* What the message listener makes of a message.                           *)
Reads(br, m) ==
  LET next == FoldLeft(Received, br, SubSeq(history, m.from + 1, m.to))
  IN  CASE m.kind = "init" -> [br EXCEPT !.enabled = TRUE]
        [] m.kind = "snapshot" -> TakenOver(br, m.to)
        [] m.kind = "error" -> [br EXCEPT !.refused = TRUE]
        [] OTHER -> next

(* The message listener; a catch-up and a snapshot end with flushPending,  *)
(* which finds nothing after a snapshot.                                   *)
Receive(b) ==
  LET m  == Head(toBrowser[b])
      br == Reads(browser[b], m)
  IN  /\ toBrowser[b] # <<>>
      /\ toBrowser' = [toBrowser EXCEPT ![b] = Tail(@)]
      /\ browser' = [browser EXCEPT ![b] = br]
      /\ toServer' = [toServer EXCEPT ![b] = @ \o
           CASE m.kind = "init" -> <<Sync(br)>>
             [] m.kind \in {"catchup", "snapshot"} -> Resent(br)
             [] OTHER -> <<>>]
      /\ UNCHANGED <<document, history, former, closed>>

OpsAmong(messages) == Those(messages, { m \in ToSet(messages) : m.kind = "op" })

(* A connection ends; of what the browser sent its thread may still read   *)
(* the first n messages.                                                   *)
Disconnect(b) ==
  /\ browser[b].online /\ closed[b] < MaxClosed[b]
  /\ closed' = [closed EXCEPT ![b] = @ + 1]
  /\ browser' = [browser EXCEPT ![b].online = FALSE, ![b].enabled = FALSE]
  /\ \E n \in 0 .. Len(toServer[b]) :
       former' = [former EXCEPT ![b] = Append(@, OpsAmong(SubSeq(toServer[b], 1, n)))]
  /\ toServer' = [toServer EXCEPT ![b] = <<>>]
  /\ toBrowser' = [toBrowser EXCEPT ![b] = <<>>]
  /\ UNCHANGED <<document, history>>

(* connect(): the open handler and the server's init message.              *)
Connect(b) ==
  /\ ~browser[b].online
  /\ browser' = [browser EXCEPT ![b].online = TRUE, ![b].refused = FALSE]
  /\ toServer' = [toServer EXCEPT ![b] = <<Sync(browser[b])>>]
  /\ toBrowser' = [toBrowser EXCEPT ![b] =
       <<[kind |-> "init", from |-> Revision, to |-> Revision]>>]
  /\ UNCHANGED <<document, history, former, closed>>

System(b) ==
  ServeOp(b) \/ ServeSync(b) \/ ServeFormer(b) \/ Receive(b) \/ Connect(b)

FreshText(b) == [k \in 1 .. TextSize |-> 100 * b + 10 * browser[b].typed + k]

Typing(b) ==
  \E start \in 0 .. Len(browser[b].editor) :
    \E removed \in 0 .. Len(browser[b].editor) - start :
      \/ Type(b, start, removed, <<>>)
      \/ Type(b, start, removed, FreshText(b))

Next == \E b \in Browsers : System(b) \/ Disconnect(b) \/ Typing(b)

Spec == EditorInit /\ [][Next]_vars

-----------------------------------------------------------------------------
AllIds == UNION {ToSet(OpIds[b]) : b \in Browsers}

(* The types, that the history holds no opId twice, and that nothing       *)
(* applied is pending still.                                               *)
TypeOK ==
  /\ history \in Seq(Operation(Nat)) /\ document \in Seq(Nat)
  /\ IsInjective([r \in DOMAIN history |-> history[r].opId])
  /\ closed \in [Browsers -> Nat]
  /\ \A b \in Browsers :
       /\ browser[b].pending \in Seq(Operation(Nat))
       /\ browser[b].revision \in 0 .. Revision
       /\ browser[b].applied \subseteq AllIds
       /\ \A i \in DOMAIN browser[b].pending :
            browser[b].pending[i].opId \notin browser[b].applied
       /\ \A m \in ToSet(toServer[b]) :
            IF m.kind = "sync" THEN m.from \in 0 .. Revision
                               ELSE m.op \in Operation(Nat)
       /\ \A i \in DOMAIN former[b] : \A m \in ToSet(former[b][i]) :
            m.kind = "op" /\ m.op \in Operation(Nat)
       /\ \A m \in ToSet(toBrowser[b]) :
            /\ m.kind \in {"init", "op", "catchup", "snapshot", "error"}
            /\ m.from <= m.to /\ m.to <= Revision

(* However operations, acknowledgements, two catch-ups of one connection,  *)
(* snapshots and echoes of former connections interleave, and however      *)
(* often an operation is delivered: while no revision is skipped the       *)
(* confirmed text is the server's at the browser's revision, with every    *)
(* operation in it once (receiveOp, applyCatchup, applySnapshot).          *)
ConfirmedIsServers ==
  \A b \in Browsers : browser[b].orderly =>
    browser[b].confirmed = FoldLeft(Apply, Initial, SubSeq(history, 1, browser[b].revision))

Quiet == \A b \in Browsers :
  /\ toServer[b] = <<>> /\ toBrowser[b] = <<>> /\ browser[b].enabled
  /\ \A i \in DOMAIN former[b] : former[b][i] = <<>>

(* When nothing is under way every editor shows the server's document and  *)
(* nothing is pending, unless a sync of the connection was refused; unless *)
(* a snapshot dropped operations, everything typed was committed.          *)
EditorsAgree ==
  Quiet => \A b \in Browsers : ~browser[b].refused =>
    /\ browser[b].pending = <<>>
    /\ ~browser[b].cleared =>
         \A i \in 1 .. browser[b].typed : IsCommitted(OpIds[b][i])
    /\ browser[b].orderly => browser[b].editor = document

(* While a browser's operations are acknowledged one at a time, the        *)
(* display does not change when the server's form of one replaces the      *)
(* rebased pending one: the two copies of transform agree.                 *)
AckKeepsDisplay ==
  \A b \in Browsers :
    LET br   == browser[b]
        next == br.revision + 1
    IN  /\ br.orderly /\ br.pending # <<>> /\ next <= Revision
        /\ history[next].opId = br.pending[1].opId
        /\ \A r \in br.pending[1].baseRevision + 1 .. br.revision :
             history[r].opId \notin ToSet(OpIds[b])
        => ApplyOp(br.confirmed, br.pending[1]) = ApplyOp(br.confirmed, history[next])

(* "When composing, transform each against earlier pending so display      *)
(* matches server OT" (app.js).  Violated: after the acknowledgement of an *)
(* operation the next one, typed behind it, is shown where it was typed;   *)
(* the server transforms it over the first, whose effect it has already.   *)
DisplayMatchesServer ==
  \A b \in Browsers :
    LET br == browser[b]
    IN  /\ br.orderly /\ br.revision = Revision
        /\ Len(br.pending) = 1 /\ toServer[b] = <<Op(br.pending[1])>>
        => ComposeDisplay(br) = Apply(document, Committed(br.pending[1]))

=============================================================================

------------------------------- MODULE Fanout -------------------------------
(***************************************************************************)
(* Server sessions, Redis subscribers and browsers (src/main.cpp,          *)
(* subscribe_loop of src/redis_store.hpp, public/app.js): how a committed  *)
(* operation reaches every browser, past sessions that join, browsers that *)
(* reconnect and catch up, and subscribers that lose their connection.     *)
(*                                                                         *)
(* The store is module DocumentStore: a log to which a commit adds an      *)
(* operation not yet in it, so an operation's revision is its place, and   *)
(* which RedisCommit implements while leases last.  Its reads are those of *)
(* RedisCommit and Wire: snapshot() is two GETs, any read may get an error *)
(* for a reply, and operations_since a part of the history.  A text is the *)
(* sequence of operations applied to it.  Each frame arrives in one piece. *)
(***************************************************************************)
EXTENDS Naturals, Sequences, SequencesExt, FiniteSets

CONSTANTS
  Servers, Browsers,
  Sessions,        \* bound: one for every connection ever made
  OpIds, NoSession,
  SeenLimit,       \* kSeenOpLimit
  CatchUpLimit,    \* kCatchUpSnapshotThreshold
  MaxLost,         \* bound: messages a subscriber does not get
  MaxFailures,     \* bound: calls of the store that fail
  MaxClosed        \* bound: connections that end

ASSUME FanoutAssumption ==
  /\ NoSession \notin Sessions /\ Servers \cap Sessions = {}
  /\ SeenLimit \in Nat \ {0}
  /\ {CatchUpLimit, MaxLost, MaxFailures, MaxClosed} \subseteq Nat

VARIABLES
  log,         \* the store: what is committed
  channel,     \* channel[s]: what Redis has sent to the subscriber of s
  lost,        \* lost[s]: the revisions its subscriber did not get
  failures,    \* history: calls of the store that failed
  seen,        \* seen[s]: seen_op_ids
  clients,     \* clients[s]
  fan,         \* fan[a]: what session or server a is broadcasting to whom
  pc,          \* pc[x]: where the thread of session x is
  request,     \* request[x]: the message it works on
  server,      \* server[x]: where session x runs
  inbox,       \* inbox[x]: frames from the browser
  socket,      \* socket[x]: frames to the browser
  browser,     \* browser[b]: the state of app.js
  sent         \* history variable: revisions an open session was sent

store == <<log, channel>>
threads == <<seen, clients, fan, pc, request, server>>
vars == <<store, lost, failures, threads, inbox, socket, browser, sent>>

(* A frame of either direction.  For "op" from the server, to is its       *)
(* revision; for "init" and "snapshot" it is the revision sent, and from   *)
(* the one of the text; for "catchup" ops are those of the operations.     *)
Frame(kind, id, from, to) ==
  [kind |-> kind, opId |-> id, from |-> from, to |-> to, ops |-> <<>>]
NoFrame    == Frame("none", NoSession, 0, 0)
ErrorFrame == Frame("error", NoSession, 0, 0)
CatchupFrame(from, ops) == [Frame("catchup", NoSession, from, 0) EXCEPT !.ops = ops]
(* since: the revision when the session was registered.                    *)
NotSent == [since |-> 0, acks |-> {}, broadcasts |-> <<>>]
NoFan == [op |-> NoFrame, todo |-> <<>>]

NewBrowser ==
  [session |-> NoSession, enabled |-> FALSE, hasSession |-> FALSE,
   revision |-> 0, text |-> <<>>, pending |-> <<>>, applied |-> {},
   edited |-> {},       \* history: the operations made here
   base |-> 0,          \* history: the revision taken over last
   orderly |-> TRUE,    \* history: see Received
   cleared |-> FALSE]   \* history: a snapshot cleared pending operations

Init ==
  /\ log = <<>> /\ failures = 0
  /\ channel = [s \in Servers |-> <<>>] /\ lost = [s \in Servers |-> {}]
  /\ seen = [s \in Servers |-> <<>>] /\ clients = [s \in Servers |-> <<>>]
  /\ fan = [a \in Servers \cup Sessions |-> NoFan]
  /\ pc = [x \in Sessions |-> "unused"]
  /\ request = [x \in Sessions |-> NoFrame]
  /\ server \in [Sessions -> Servers]
  /\ inbox = [x \in Sessions |-> <<>>] /\ socket = [x \in Sessions |-> <<>>]
  /\ browser = [b \in Browsers |-> NewBrowser]
  /\ sent = [x \in Sessions |-> NotSent]

-----------------------------------------------------------------------------
(* Frames.                                                                 *)

Connected(x) == \E b \in Browsers : browser[b].session = x

(* send_all to a socket that the browser has closed is lost.               *)
Send(x, frame) ==
  socket' = IF Connected(x) THEN [socket EXCEPT ![x] = Append(@, frame)] ELSE socket

(* remove_if, and filter in app.js: the sequence without an element.       *)
Without(s, x) ==
  FoldLeft(LAMBDA rest, y : IF y = x THEN rest ELSE Append(rest, y), <<>>, s)

Goto(x, label) == pc' = [pc EXCEPT ![x] = label]

(* Goes on with a frame to answer with, or to remember.                    *)
Answer(x, frame, label) == request' = [request EXCEPT ![x] = frame] /\ Goto(x, label)

(* Back to read_frame: nothing is left of the message worked on.           *)
ReadNext(x) == Goto(x, "read") /\ request' = [request EXCEPT ![x] = NoFrame]

-----------------------------------------------------------------------------
(* Calls of the store.  A command that gets an error, or finds no          *)
(* connection, stands for an empty reply, and so do those after it in the  *)
(* same call.  mutex_ is held by one call of the server at a time: only    *)
(* other servers commit between the two GETs of snapshot().                *)

Fails == failures < MaxFailures /\ failures' = failures + 1

Free(s) == \A y \in Sessions : server[y] = s => pc[y] \notin {"revision", "behind"}

-----------------------------------------------------------------------------
(* websocket_session: joining.                                             *)

Register(x) ==
  /\ pc[x] = "register"
  /\ clients' = [clients EXCEPT ![server[x]] = Append(@, x)]
  /\ sent' = [sent EXCEPT ![x].since = Len(log)]
  /\ Goto(x, "content")
  /\ UNCHANGED <<store, lost, failures, seen, fan, request, server,
                 inbox, socket, browser>>

(* The text, or the default document and revision 0 ...                    *)
SnapshotContent(x) ==
  /\ pc[x] = "content" /\ Free(server[x])
  /\ \/ Answer(x, Frame("init", NoSession, Len(log), 0), "revision") /\ UNCHANGED failures
     \/ Answer(x, Frame("init", NoSession, 0, 0), "init") /\ Fails
  /\ UNCHANGED <<store, lost, seen, clients, fan, server, inbox, socket, browser, sent>>

(* ... and then the revision, or 0.                                        *)
SnapshotRevision(x) ==
  /\ pc[x] = "revision"
  /\ \/ Answer(x, Frame("init", NoSession, request[x].from, Len(log)), "init")
        /\ UNCHANGED failures
     \/ Answer(x, Frame("init", NoSession, request[x].from, 0), "init") /\ Fails
  /\ UNCHANGED <<store, lost, seen, clients, fan, server, inbox, socket, browser, sent>>

SendInit(x) ==
  /\ pc[x] = "init"
  /\ Send(x, request[x])
  /\ ReadNext(x)
  /\ UNCHANGED <<store, lost, failures, seen, clients, fan, server, inbox, browser, sent>>

(* read_frame fails: remove_client.                                        *)
ReadClosed(x) ==
  /\ pc[x] = "read" /\ fan[x] = NoFan
  /\ inbox[x] = <<>> /\ ~Connected(x)
  /\ clients' = [clients EXCEPT ![server[x]] = Without(@, x)]
  /\ Goto(x, "done")
  /\ sent' = [sent EXCEPT ![x] = NotSent]
  /\ UNCHANGED <<store, lost, failures, seen, fan, request, server,
                 inbox, socket, browser>>

-----------------------------------------------------------------------------
(* send_catch_up.                                                          *)

Reads(x, kind) ==
  /\ pc[x] = "read" /\ fan[x] = NoFan
  /\ inbox[x] # <<>> /\ Head(inbox[x]).kind = kind
  /\ inbox' = [inbox EXCEPT ![x] = Tail(@)]

(* The answer to a sync from a revision, given a snapshot: to is its       *)
(* revision and text that of its text.                                     *)
AnswerSync(x, from, text, to) ==
  \/ to < from /\ Answer(x, ErrorFrame, "reply")
  \/ to - from > CatchUpLimit /\ Answer(x, Frame("snapshot", NoSession, text, to), "reply")
  \/ to \in from .. from + CatchUpLimit
     /\ Answer(x, Frame("sync", NoSession, from, to), "operations")

CatchUpContent(x) ==
  LET from == Head(inbox[x]).from
  IN  /\ Reads(x, "sync") /\ Free(server[x])
      /\ \/ Answer(x, Frame("sync", NoSession, from, Len(log)), "behind") /\ UNCHANGED failures
         \/ AnswerSync(x, from, 0, 0) /\ Fails
      /\ UNCHANGED <<store, lost, seen, clients, fan, server, socket, browser, sent>>

CatchUpRevision(x) ==
  /\ pc[x] = "behind"
  /\ \/ AnswerSync(x, request[x].from, request[x].to, Len(log)) /\ UNCHANGED failures
     \/ AnswerSync(x, request[x].from, request[x].to, 0) /\ Fails
  /\ UNCHANGED <<store, lost, seen, clients, fan, server, inbox, socket, browser, sent>>

(* operations_since: the revisions after one, up to another.               *)
After(from, to) == [i \in 1 .. to - from |-> from + i]

Fetched(x, ops) ==
  Answer(x, CatchupFrame(request[x].from, ops), IF ops = <<>> THEN "persisted" ELSE "reply")

(* Mutant: the range ends one operation too early.                         *)
CatchUpOperationsShort(x) ==
  /\ pc[x] = "operations" /\ Free(server[x])
  /\ Fetched(x, After(request[x].from, Len(log) - 1))
  /\ UNCHANGED <<store, lost, failures, seen, clients, fan, server, inbox,
                 socket, browser, sent>>

CatchUpOperations(x) ==
  /\ pc[x] = "operations" /\ Free(server[x])
  /\ \/ Fetched(x, After(request[x].from, Len(log))) /\ UNCHANGED failures
     \/ /\ \E n \in request[x].from .. Len(log) - 1 : Fetched(x, After(request[x].from, n))
        /\ Fails
  /\ UNCHANGED <<store, lost, seen, clients, fan, server, inbox, socket, browser, sent>>

(* Where Redis had none, those in PostgreSQL: any of them, as its rows are *)
(* written behind, by every server for itself (Recovery).                  *)
CatchUpPersisted(x) ==
  /\ pc[x] = "persisted"
  /\ \E n \in 0 .. Len(log) - request[x].from :
       \E ops \in [1 .. n -> request[x].from + 1 .. Len(log)] :
         /\ \A i, j \in 1 .. n : i < j => ops[i] < ops[j]
         /\ Answer(x, CatchupFrame(request[x].from, ops), "reply")
  /\ UNCHANGED <<store, lost, failures, seen, clients, fan, server, inbox,
                 socket, browser, sent>>

Reply(x) ==
  /\ pc[x] = "reply"
  /\ Send(x, request[x])
  /\ ReadNext(x)
  /\ UNCHANGED <<store, lost, failures, seen, clients, fan, server, inbox, browser, sent>>

-----------------------------------------------------------------------------
(* An operation: commit, acknowledge, fan out.                             *)

(* DocumentStore's Commit, with what kLuaCommitOp publishes.               *)
AppendToLog(id) ==
  IF id \in ToSet(log)
  THEN UNCHANGED store
  ELSE /\ log' = Append(log, id)
       /\ channel' = [s \in Servers |->
                        Append(channel[s], Frame("op", id, 0, Len(log')))]

CommitOp(x) ==
  LET id == Head(inbox[x]).opId
  IN  /\ Reads(x, "op") /\ Free(server[x])
      /\ AppendToLog(id)
      /\ request' = [request EXCEPT ![x] =
                       Frame("op", id, 0, CHOOSE r \in DOMAIN log' : log'[r] = id)]
      /\ Goto(x, "ack")
      /\ UNCHANGED <<lost, failures, seen, clients, fan, server, socket, browser,
                     sent>>

(* Another server, with sessions of its own, commits.                      *)
CommitElsewhere(id) ==
  /\ id \notin ToSet(log) /\ \A b \in Browsers : id \notin browser[b].edited
  /\ AppendToLog(id)
  /\ UNCHANGED <<lost, failures, threads, inbox, socket, browser, sent>>

(* commit() throws, before or after the script ran.                        *)
CommitThrows(x) ==
  /\ Reads(x, "op") /\ Free(server[x]) /\ Fails
  /\ AppendToLog(Head(inbox[x]).opId) \/ UNCHANGED store
  /\ Send(x, ErrorFrame)
  /\ UNCHANGED <<lost, threads, browser, sent>>

Acknowledge(x) ==
  /\ pc[x] = "ack"
  /\ Send(x, request[x])
  /\ sent' = [sent EXCEPT ![x].acks = @ \cup {request[x].to}]
  /\ Goto(x, "mark")
  /\ UNCHANGED <<store, lost, failures, seen, clients, fan, request,
                 server, inbox, browser>>

(* mark_seen_op, and the list of clients copied by broadcast() or          *)
(* broadcast_except(): registering between the two is like registering     *)
(* before both.                                                            *)
Seen(s, op) == op.opId \in ToSet(seen[s])

(* Mutant: the size is looked at before the push.                          *)
MarkSeenOneMore(s, op) ==
  LET longer == Append(seen[s], op.opId)
  IN  seen' = [seen EXCEPT ![s] =
                 IF Len(seen[s]) > SeenLimit THEN Tail(longer) ELSE longer]

MarkSeen(s, op) ==
  LET longer == Append(seen[s], op.opId)
  IN  seen' = [seen EXCEPT ![s] =
                 IF Len(longer) > SeenLimit THEN Tail(longer) ELSE longer]

SendAll(a, op, todo) ==
  fan' = [fan EXCEPT ![a] = IF todo = <<>> THEN NoFan ELSE [op |-> op, todo |-> todo]]

(* Mutant: marked as seen, but left to Pub/Sub to send.                    *)
MarkCommittedOnly(x) ==
  LET s == server[x]
  IN  /\ pc[x] = "mark"
      /\ IF Seen(s, request[x]) THEN UNCHANGED seen ELSE MarkSeen(s, request[x])
      /\ ReadNext(x)
      /\ UNCHANGED <<store, lost, failures, clients, fan, server, inbox,
                     socket, browser, sent>>

MarkCommitted(x) ==
  LET s      == server[x]
      others == Without(clients[s], x)
  IN  /\ pc[x] = "mark"
      /\ IF Seen(s, request[x])
         THEN UNCHANGED <<seen, fan>>
         ELSE MarkSeen(s, request[x]) /\ SendAll(x, request[x], others)
      /\ ReadNext(x)
      /\ UNCHANGED <<store, lost, failures, clients, server, inbox,
                     socket, browser, sent>>

(* Mutant: the echo of an own operation is broadcast as well.              *)
DeliverEcho(s) ==
  LET op == Head(channel[s])
  IN  /\ fan[s] = NoFan /\ channel[s] # <<>>
      /\ channel' = [channel EXCEPT ![s] = Tail(@)]
      /\ IF Seen(s, op) THEN UNCHANGED seen ELSE MarkSeen(s, op)
      /\ SendAll(s, op, clients[s])
      /\ UNCHANGED <<log, lost, failures, clients, pc, request, server, inbox,
                     socket, browser, sent>>

(* subscribe_loop and broadcast_op.                                        *)
Deliver(s) ==
  LET op == Head(channel[s])
  IN  /\ fan[s] = NoFan /\ channel[s] # <<>>
      /\ channel' = [channel EXCEPT ![s] = Tail(@)]
      /\ IF Seen(s, op)
         THEN UNCHANGED <<seen, fan>>
         ELSE MarkSeen(s, op) /\ SendAll(s, op, clients[s])
      /\ UNCHANGED <<log, lost, failures, clients, pc, request, server, inbox,
                     socket, browser, sent>>

(* One send_all after the other.                                           *)
SendNext(a) ==
  LET x == Head(fan[a].todo)
  IN  /\ fan[a] # NoFan
      /\ Send(x, fan[a].op)
      /\ sent' = [sent EXCEPT ![x].broadcasts = Append(@, fan[a].op.to)]
      /\ SendAll(a, fan[a].op, Tail(fan[a].todo))
      /\ UNCHANGED <<store, lost, failures, seen, clients, pc, request, server,
                     inbox, browser>>

(* While a subscriber has no connection, messages pass it by.              *)
LoseMessage(s) ==
  /\ channel[s] # <<>>
  /\ Cardinality(UNION { lost[u] : u \in Servers }) < MaxLost
  /\ lost' = [lost EXCEPT ![s] = @ \cup {Head(channel[s]).to}]
  /\ channel' = [channel EXCEPT ![s] = Tail(@)]
  /\ UNCHANGED <<log, failures, threads, inbox, socket, browser, sent>>

-----------------------------------------------------------------------------
(* app.js                                                                  *)

Sync(b) == Frame("sync", NoSession, browser[b].revision, 0)
Op(id)  == Frame("op", id, 0, 0)

(* connect() and its open handler; the session's thread starts.            *)
Connect(b, x) ==
  /\ browser[b].session = NoSession /\ pc[x] = "unused"
  /\ browser' = [browser EXCEPT ![b].session = x]
  /\ inbox' = [inbox EXCEPT ![x] = IF browser[b].hasSession THEN <<Sync(b)>> ELSE <<>>]
  /\ Goto(x, "register")
  /\ UNCHANGED <<store, lost, failures, seen, clients, fan, request,
                 server, socket, sent>>

(* The connection ends: what is under way to the browser is lost, and some *)
(* of what is under way to the server.                                     *)
Disconnect(b) ==
  LET x == browser[b].session
  IN  /\ x # NoSession
      /\ Cardinality({y \in Sessions : pc[y] # "unused" /\ ~Connected(y)}) < MaxClosed
      /\ browser' = [browser EXCEPT ![b].session = NoSession, ![b].enabled = FALSE]
      /\ socket' = [socket EXCEPT ![x] = <<>>]
      /\ \E n \in 0 .. Len(inbox[x]) : inbox' = [inbox EXCEPT ![x] = SubSeq(@, 1, n)]
      /\ UNCHANGED <<store, lost, failures, threads, sent>>

(* The input listener and sendOp; operation ids are not used twice.        *)
Edit(b, id) ==
  /\ browser[b].enabled
  /\ id \notin ToSet(log) /\ \A c \in Browsers : id \notin browser[c].edited
  /\ browser' = [browser EXCEPT ![b].pending = Append(@, id),
                                ![b].edited = @ \cup {id}]
  /\ inbox' = [inbox EXCEPT ![browser[b].session] = Append(@, Op(id))]
  /\ UNCHANGED <<store, lost, failures, threads, socket, sent>>

(* What receiveOp makes of an operation that was not applied before.  A    *)
(* browser is orderly while it skips no revision and is not sent again     *)
(* what the text it took over had: with that it forgets what it applied.   *)
News(br, rev) ==
  LET id == log[rev]
  IN  [br EXCEPT !.pending = Without(@, id),
                 !.applied = @ \cup {id},
                 !.revision = rev,
                 !.text = Append(@, id),
                 !.orderly = @ /\ rev <= br.revision + 1 /\ rev > br.base]

(* Mutant: an operation that was applied before is applied again.          *)
ReceivedAgain(br, rev) == News(br, rev)

(* receiveOp, for the operation of a revision.                             *)
Received(br, rev) ==
  IF log[rev] \in br.applied THEN [br EXCEPT !.pending = Without(@, log[rev])]
                             ELSE News(br, rev)

(* Takes the next frame: the browser becomes br and answers with frames.   *)
Take(b, kind, br, frames) ==
  LET x == browser[b].session
  IN  /\ x # NoSession /\ socket[x] # <<>>
      /\ Head(socket[x]).kind = kind
      /\ socket' = [socket EXCEPT ![x] = Tail(@)]
      /\ browser' = [browser EXCEPT ![b] = br]
      /\ inbox' = [inbox EXCEPT ![x] = @ \o frames]
      /\ UNCHANGED <<store, lost, failures, threads, sent>>

Arriving(b) == Head(socket[browser[b].session])

(* Takes over the text of an init or snapshot message: nothing is pending  *)
(* and nothing counts as applied.  The browser is orderly again if the     *)
(* text is that of its revision, unless it drops an operation of a later   *)
(* one with the text it had.                                               *)
Reset(br, f) ==
  [br EXCEPT !.revision = f.to, !.text = SubSeq(log, 1, f.from),
             !.pending = <<>>, !.applied = {}, !.base = f.to,
             !.orderly = /\ f.from = f.to
                         /\ br.applied \cap ToSet(SubSeq(log, f.to + 1, Len(log))) = {}]

ReceiveFirstInit(b) ==
  /\ ~browser[b].hasSession
  /\ Take(b, "init",
          [Reset(browser[b], Arriving(b)) EXCEPT !.hasSession = TRUE, !.enabled = TRUE],
          <<>>)

(* Mutant: takes over the revision, but not the text.                      *)
ReceiveInitRevision(b) ==
  /\ browser[b].hasSession
  /\ Take(b, "init", [browser[b] EXCEPT !.enabled = TRUE, !.revision = Arriving(b).to],
          <<Sync(b)>>)

ReceiveInitAgain(b) ==
  /\ browser[b].hasSession
  /\ Take(b, "init", [browser[b] EXCEPT !.enabled = TRUE], <<Sync(b)>>)

ReceiveOp(b) == Take(b, "op", Received(browser[b], Arriving(b).to), <<>>)

(* Mutant: pending operations are not sent again.                          *)
ReceiveCatchupOnly(b) ==
  Take(b, "catchup", FoldLeft(Received, browser[b], Arriving(b).ops), <<>>)

(* applyCatchup, with flushPending.                                        *)
ReceiveCatchup(b) ==
  LET br == FoldLeft(Received, browser[b], Arriving(b).ops)
  IN  Take(b, "catchup", br, [i \in DOMAIN br.pending |-> Op(br.pending[i])])

(* applySnapshot: flushPending then has nothing to send.                   *)
ReceiveSnapshot(b) ==
  Take(b, "snapshot",
       [Reset(browser[b], Arriving(b))
          EXCEPT !.cleared = @ \/ browser[b].pending # <<>>],
       <<>>)

(* Mutant: what was sent is taken for refused.                             *)
ReceiveErrorDrops(b) == Take(b, "error", [browser[b] EXCEPT !.pending = <<>>], <<>>)

ReceiveError(b) == Take(b, "error", browser[b], <<>>)

-----------------------------------------------------------------------------
Serve(x) ==
  \/ Register(x) \/ SnapshotContent(x) \/ SnapshotRevision(x) \/ SendInit(x)
  \/ ReadClosed(x)
  \/ CatchUpContent(x) \/ CatchUpRevision(x)
  \/ CatchUpOperations(x) \/ CatchUpPersisted(x) \/ Reply(x)
  \/ CommitOp(x) \/ CommitThrows(x) \/ Acknowledge(x) \/ MarkCommitted(x)

Subscriber(s) == Deliver(s) \/ LoseMessage(s)

Receive(b) ==
  \/ ReceiveFirstInit(b) \/ ReceiveInitAgain(b) \/ ReceiveOp(b)
  \/ ReceiveCatchup(b) \/ ReceiveSnapshot(b) \/ ReceiveError(b)

Next ==
  \/ \E x \in Sessions : Serve(x)
  \/ \E a \in Sessions \cup Servers : SendNext(a)
  \/ \E s \in Servers : Subscriber(s)
  \/ \E id \in OpIds : CommitElsewhere(id)
  \/ \E b \in Browsers :
       \/ \E x \in Sessions : Connect(b, x)
       \/ Disconnect(b)
       \/ \E id \in OpIds : Edit(b, id)
       \/ Receive(b)

Spec == Init /\ [][Next]_vars

-----------------------------------------------------------------------------
Labels ==
  {"unused", "register", "content", "revision", "init", "read", "behind",
   "operations", "persisted", "reply", "ack", "mark", "done"}

Revs == 0 .. Len(log)

Frames == [kind: {"none", "init", "sync", "op", "catchup", "snapshot", "error"},
           opId: OpIds \cup {NoSession}, from: Revs, to: Revs, ops: Seq(Revs)]

BrowserStates ==
  [session: Sessions \cup {NoSession}, enabled: BOOLEAN, hasSession: BOOLEAN,
   revision: Revs, text: Seq(OpIds), pending: Seq(OpIds),
   applied: SUBSET OpIds, edited: SUBSET OpIds, base: Revs,
   orderly: BOOLEAN, cleared: BOOLEAN]

(* The types, that no revision is ahead of the log anywhere, that nothing  *)
(* is committed or kept as seen twice, and that the set of seen operations *)
(* is bounded.                                                             *)
TypeOK ==
  /\ log \in Seq(OpIds) /\ IsInjective(log)
  /\ channel \in [Servers -> Seq(Frames)]
  /\ lost \in [Servers -> SUBSET Revs] /\ failures \in 0 .. MaxFailures
  /\ seen \in [Servers -> Seq(OpIds)]
  /\ \A s \in Servers : IsInjective(seen[s]) /\ Len(seen[s]) <= SeenLimit
  /\ clients \in [Servers -> Seq(Sessions)]
  /\ fan \in [Servers \cup Sessions -> [op: Frames, todo: Seq(Sessions)]]
  /\ pc \in [Sessions -> Labels]
  /\ request \in [Sessions -> Frames]
  /\ server \in [Sessions -> Servers]
  /\ inbox \in [Sessions -> Seq(Frames)] /\ socket \in [Sessions -> Seq(Frames)]
  /\ browser \in [Browsers -> BrowserStates]
  /\ sent \in [Sessions -> [since: Revs, acks: SUBSET Revs, broadcasts: Seq(Revs)]]

(* Nothing is under way anywhere.                                          *)
Quiet ==
  /\ \A s \in Servers : channel[s] = <<>>
  /\ \A a \in Servers \cup Sessions : fan[a] = NoFan
  /\ \A x \in Sessions : /\ pc[x] \in {"unused", "read", "done"}
                         /\ inbox[x] = <<>> /\ socket[x] = <<>>

NothingLost == \A s \in Servers : lost[s] = {}

(* However joining, committing and the two threads that may broadcast      *)
(* interleave, a session's browser was sent everything that was committed  *)
(* after it was registered - but for what passed the subscriber of its     *)
(* server by.                                                              *)
EveryoneIsTold ==
  Quiet =>
    \A x \in Sessions : pc[x] = "read" =>
      sent[x].since + 1 .. Len(log) \subseteq
        sent[x].acks \cup ToSet(sent[x].broadcasts) \cup lost[server[x]]

(* "Deduplicate local commit broadcast vs Redis Pub/Sub echo" (main.cpp):  *)
(* no session is sent one operation by two broadcasts, as long as a server *)
(* remembers all the operations there are.                                 *)
ToldOnce ==
  Len(log) <= SeenLimit => \A x \in Sessions : IsInjective(sent[x].broadcasts)

(* A browser that started from the text of its revision and skipped none - *)
(* over init messages, broadcasts, acknowledgements and the catch-ups of   *)
(* all its connections - shows the text of its revision, with every        *)
(* operation in it once however often it was sent; and misses no operation *)
(* when nothing is under way, no call of the store has failed and no       *)
(* message passed by.                                                      *)
OrderlyConverge ==
  \A b \in Browsers :
    LET br == browser[b]
    IN  br.orderly =>
          /\ br.text = SubSeq(log, 1, br.revision)
          /\ Quiet /\ NothingLost /\ failures = 0 /\ br.enabled => br.text = log

(* What was typed is committed or still pending, whatever connections end  *)
(* and calls of the store fail, unless a snapshot cleared it; and committed*)
(* once nothing is under way, if no call failed: after an error answer, to *)
(* a commit or to the sync of a new connection, nothing sends it again.    *)
EditsCommitted ==
  \A b \in Browsers :
    LET br == browser[b]
    IN  ~br.cleared =>
          /\ br.edited \subseteq ToSet(log) \cup ToSet(br.pending)
          /\ Quiet /\ failures = 0 /\ br.enabled =>
               br.edited \subseteq ToSet(log) /\ br.pending = <<>>

(* "Duplicate ACK / Pub/Sub echo - do not apply twice" (app.js).  Violated:*)
(* an operation that the init message holds already is applied again when  *)
(* its broadcast, to a session that registered before it took the          *)
(* snapshot, arrives after it.                                             *)
NotAppliedTwice == \A b \in Browsers : IsInjective(browser[b].text)

=============================================================================

-------------------------------- MODULE Wire --------------------------------
(***************************************************************************)
(* The two connections of a RedisStore (src/redis_store.hpp) at the level  *)
(* of what recv() returns: the command connection, on which calls read the *)
(* keys and commit, and the subscriber's; with Redis and connections that  *)
(* go down, and with stop().                                               *)
(*                                                                         *)
(* What RedisCommit takes for one step, a command and its reply, is here a *)
(* request, its execution, the arrival of the reply piece by piece and the *)
(* reading of it.  Left to RedisCommit are the lock and the look-ups, whose*)
(* replies are one line: a call holds mutex_ as long as it is not idle,    *)
(* and the lock while it commits.  Redis keeps its data (else: Recovery).  *)
(***************************************************************************)
EXTENDS RedisClient, Json, Frame, Selection, FiniteSets, FiniteSetsExt

CONSTANTS
  MaxCommits,  \* bound: commit scripts that Redis runs
  MaxBreaks,   \* bound: connections broken, and restarts of Redis
  Texts,       \* texts of operations, as tokens of Json
  FrameSizes   \* sizes of messages

ASSUME WireAssumption == {MaxCommits, MaxBreaks} \cup FrameSizes \subseteq Nat

VARIABLES
  redisUp, breaks,
  history,     \* what Redis holds: one entry for every operation
  client,      \* client_
  call,        \* the call that holds mutex_
  answer,      \* history variable: what the last call returned
  sub,         \* the connection of subscribe_loop
  listening,   \* where subscribe_loop is
  since,       \* history variable: the revision of its last SUBSCRIBE
  delivered,   \* what broadcast_handler_ has passed on
  running,     \* running_
  stopping     \* where stop() is

redis == <<redisUp, breaks>>
calls == <<client, call, answer>>
subscriber == <<sub, listening, since, delivered>>
stop == <<running, stopping>>
vars == <<redis, history, calls, subscriber, stop>>

(* pc is the command whose reply the call waits for; content and over what *)
(* it has read; served (history) how long the list was when Redis read it; *)
(* own (history) the revision at which Redis ran the commit of this call.  *)
NoCall == [kind |-> "none", pc |-> "idle", from |-> 0, revision |-> 0,
           content |-> <<>>, over |-> <<>>, served |-> 0, own |-> 0]
NoAnswer ==
  [kind |-> "none", from |-> 0, ops |-> <<>>, served |-> 0, own |-> 0, linked |-> TRUE]

Init ==
  /\ redisUp = TRUE /\ breaks = 0 /\ history = <<>>
  /\ client = Connect(Disconnected) /\ call = NoCall /\ answer = NoAnswer
  /\ sub = Disconnected /\ listening = "start" /\ since = 0 /\ delivered = <<>>
  /\ running = TRUE /\ stopping = "no"

-----------------------------------------------------------------------------
(* Redis.  The JSON of operation i is two units; the content at revision r *)
(* holds a CRLF, as a document may.                                        *)

Payload(i) == <<Unit("op", i), Unit("more", i)>>
Payloads(from, to) == [k \in 1 .. to - from |-> Payload(from + k)]
Content(r) == <<Unit("text", r), CRLF>>
Shutdown   == <<Unit("shutdown", 0)>>
Push(kind, payload) ==
  Array(<<Bulk(<<Unit(kind, 0)>>), Bulk(<<Unit("channel", 0)>>), payload>>)

Publish(payload) ==
  IF sub.subscribed THEN [sub EXCEPT !.stream = @ \o Push("message", Bulk(payload))] ELSE sub

Reply(link, units) == [link EXCEPT !.stream = @ \o units, !.request = "none"]

ServeGet ==
  /\ redisUp /\ client.request \in {"content", "revision"}
  /\ client' = Reply(client, Bulk(IF client.request = "content" THEN Content(Len(history))
                                  ELSE <<Unit("number", Len(history))>>))
  /\ UNCHANGED <<redis, history, call, answer, subscriber, stop>>

ServeRange ==
  LET to    == IF call.kind = "since" THEN Len(history) ELSE Min({call.revision, Len(history)})
      range == Payloads(call.from, to)
  IN  /\ redisUp /\ client.request = "history"
      /\ client' = Reply(client, Array([k \in DOMAIN range |-> Bulk(range[k])]))
      /\ call' = [call EXCEPT !.served = to]
      /\ UNCHANGED <<redis, history, answer, subscriber, stop>>

(* kLuaCommitOp.  An entry keeps what its commit had read. *)
RunCommit(entry) ==
  /\ redisUp /\ Len(history) < MaxCommits
  /\ history' = Append(history, entry)
  /\ sub' = Publish(Payload(Len(history) + 1))
  /\ UNCHANGED <<redis, answer, listening, since, delivered, stop>>

ServeCommit ==
  /\ client.request = "commit"
  /\ RunCommit([from |-> call.from, content |-> call.content, over |-> call.over])
  /\ client' = Reply(client, Bulk(Payload(Len(history) + 1)))
  /\ call' = [call EXCEPT !.own = Len(history) + 1]

(* Another server commits: not while a commit here has the lock. *)
CommitElsewhere ==
  /\ call.kind # "commit"
  /\ RunCommit([from |-> Len(history), content |-> Content(Len(history)), over |-> <<>>])
  /\ UNCHANGED <<client, call>>

ServeSubscribe ==
  /\ redisUp /\ sub.request = "subscribe"
  /\ sub' = [Reply(sub, Push("subscribe", Line(":", 1))) EXCEPT !.subscribed = TRUE]
  /\ since' = Len(history)
  /\ UNCHANGED <<redis, history, calls, listening, delivered, stop>>

(* A connection ends: a request not yet run is lost, and of what was sent  *)
(* a part may still arrive; all of it when it is Redis that stops.         *)
Cut(link, kept) ==
  IF link.state # "up" THEN link
  ELSE [link EXCEPT !.state = "cut", !.request = "none", !.subscribed = FALSE,
                    !.stream = SubSeq(@, 1, kept)]

Cuts(link) == { Cut(link, kept) : kept \in 0 .. Len(link.stream) }
Closed(link) == Cut(link, Len(link.stream))

Break ==
  /\ breaks < MaxBreaks /\ breaks' = breaks + 1
  /\ \/ client.state = "up" /\ client' \in Cuts(client) /\ UNCHANGED <<sub, redisUp>>
     \/ sub.state = "up" /\ sub' \in Cuts(sub) /\ UNCHANGED <<client, redisUp>>
     \/ redisUp /\ redisUp' = FALSE /\ client' = Closed(client) /\ sub' = Closed(sub)
  /\ UNCHANGED <<history, call, answer, listening, since, delivered, stop>>

RedisStarts ==
  /\ ~redisUp /\ redisUp' = TRUE
  /\ UNCHANGED <<breaks, history, calls, subscriber, stop>>

(* recv() may return any part of what was sent.  Where a reply is split    *)
(* matters most for one that is cut, which Cut leaves open; of the others, *)
(* a reply to a call may lack its last unit at first, and what is pushed   *)
(* to the subscriber comes with all that follows it.                       *)
ReceiveReply ==
  LET sent == Len(client.stream)
  IN  /\ call.pc # "idle"
      /\ \E n \in {sent - 1, sent} \ {0, -1} : client' = Received(client, n)
      /\ UNCHANGED <<redis, history, call, answer, subscriber, stop>>

ReadReply ==
  /\ call.pc # "idle" /\ CanRead(client) /\ client' = ReadOn(client)
  /\ UNCHANGED <<redis, history, call, answer, subscriber, stop>>

ReceivePush ==
  /\ listening \in {"first", "again", "message"} /\ sub.stream # <<>>
  /\ sub' = Received(sub, Len(sub.stream))
  /\ UNCHANGED <<redis, history, calls, listening, since, delivered, stop>>

ReadPush ==
  /\ listening \in {"first", "again", "message"} /\ CanRead(sub) /\ sub' = ReadOn(sub)
  /\ UNCHANGED <<redis, history, calls, listening, since, delivered, stop>>

-----------------------------------------------------------------------------
(* Calls.  ensure_recovery_locked connects where there is no connection,   *)
(* and a call goes on without one where that fails.                        *)

Connected(link) == IF link.state = "down" /\ redisUp THEN Connect(link) ELSE link

Begin(kind, pc, from) ==
  /\ call.pc = "idle" /\ stopping = "no"
  /\ call' = [NoCall EXCEPT !.kind = kind, !.pc = pc, !.from = from]
  /\ client' = Command(Connected(client), pc)
  /\ answer' = NoAnswer
  /\ UNCHANGED <<redis, history, subscriber, stop>>

OperationsSince == \E from \in 0 .. Len(history) : Begin("since", "history", from)

Commit ==
  /\ Len(history) < MaxCommits
  /\ \E base \in 0 .. Len(history) : Begin("commit", "content", base)

(* The answer to the command waited for, and the next command. *)
Continue(pc, name) ==
  /\ call.pc = pc /\ Answered(client)
  /\ call'.pc = name
  /\ client' = Command(AfterAnswer(client), name)
  /\ UNCHANGED <<redis, history, answer, subscriber, stop>>

Returned(pc, kind, ops) ==
  /\ call.pc = pc /\ Answered(client)
  /\ client' = AfterAnswer(client)
  /\ answer' = [kind |-> kind, from |-> call.from, ops |-> ops, served |-> call.served,
                own |-> call.own, linked |-> client'.state # "down"]
  /\ call' = NoCall
  /\ UNCHANGED <<redis, history, subscriber, stop>>

ContentRead ==
  /\ call' = [call EXCEPT !.pc = "revision", !.content = client.value.bulk]
  /\ Continue("content", "revision")

RevisionRead ==
  LET bulk     == client.value.bulk
      revision == IF bulk = <<>> THEN 0 ELSE Head(bulk).n
      start    == Min({call.from, revision})
      next     == IF start < revision THEN "history" ELSE "commit"
  IN  /\ call' = [call EXCEPT !.pc = next, !.revision = revision, !.from = start]
      /\ Continue("revision", next)

ParseHistory(value) ==
  LET bulks == Those(value.array, { item \in ToSet(value.array) : item.type = "Bulk" })
  IN  [k \in DOMAIN bulks |-> bulks[k].bulk]

HistoryRead ==
  /\ call.kind = "commit"
  /\ call' = [call EXCEPT !.pc = "commit", !.over = ParseHistory(client.value)]
  /\ Continue("history", "commit")

SinceReturns == call.kind = "since" /\ Returned("history", "since", ParseHistory(client.value))

CommitReturns ==
  LET value == client.value
  IN  Returned("commit", IF value.type = "Bulk" THEN "commit" ELSE "error", <<value.bulk>>)

-----------------------------------------------------------------------------
(* subscribe_loop.                                                         *)

SubscriberStarts ==
  /\ listening = "start"
  /\ \/ redisUp /\ sub' = Command(Connect(sub), "subscribe") /\ listening' = "first"
     \/ ~redisUp /\ listening' = "ended" /\ UNCHANGED sub
  /\ UNCHANGED <<redis, history, calls, since, delivered, stop>>

(* subscribe() holds for every array, complete or not. *)
Subscribed ==
  /\ listening \in {"first", "again"} /\ Answered(sub)
  /\ sub' = AfterAnswer(sub)
  /\ listening' = CASE sub.value.type = "Array" /\ listening = "first" -> "loop"
                    [] sub.value.type = "Array" /\ listening = "again" -> "recover"
                    [] OTHER -> IF listening = "first" THEN "ended" ELSE "loop"
  /\ UNCHANGED <<redis, history, calls, since, delivered, stop>>

(* on_redis_recovered: waits for mutex_; its commands are Recovery's, but  *)
(* they find out whether the connection is cut.                            *)
Recovered ==
  /\ listening = "recover" /\ call.pc = "idle"
  /\ client' = IF client.state = "cut" THEN Disconnect(client) ELSE Connected(client)
  /\ listening' = "loop"
  /\ UNCHANGED <<redis, history, call, answer, sub, since, delivered, stop>>

(* Mutant: while (true). *)
LoopForever ==
  /\ listening = "loop" /\ listening' = "message"
  /\ UNCHANGED <<redis, history, calls, sub, since, delivered, stop>>

Loop ==
  /\ listening = "loop"
  /\ listening' = IF running THEN "message" ELSE "ended"
  /\ UNCHANGED <<redis, history, calls, sub, since, delivered, stop>>

NextMessage ==
  /\ listening = "message" /\ Answered(sub)
  /\ sub' = AfterAnswer(sub)
  /\ UNCHANGED <<redis, history, calls, since, stop>>

MessageFails ==
  /\ NextMessage /\ sub.value.type = "Error"
  /\ listening' = IF running THEN "sleep" ELSE "ended"
  /\ UNCHANGED delivered

(* The string of a message, empty if the connection ended before its end;  *)
(* an operation read from that has no opId, which mark_seen_op refuses.    *)
Contents(value) == value.array[3].bulk
IsMessage(value) ==
  value.type = "Array" /\ Len(value.array) >= 3 /\ value.array[1].bulk = <<Unit("message", 0)>>

(* Mutant: what is left of a message that was cut is passed on. *)
BroadcastAny(payload) == delivered' = Append(delivered, payload)

BroadcastOp(payload) ==
  delivered' = IF payload = <<>> THEN delivered ELSE Append(delivered, payload)

MessageIgnored ==
  /\ NextMessage /\ sub.value.type # "Error" /\ ~IsMessage(sub.value)
  /\ listening' = "loop" /\ UNCHANGED delivered

ShutdownRead ==
  /\ NextMessage /\ IsMessage(sub.value) /\ Contents(sub.value) = Shutdown
  /\ listening' = IF running THEN "loop" ELSE "ended"
  /\ UNCHANGED delivered

MessageRead ==
  /\ NextMessage /\ IsMessage(sub.value) /\ Contents(sub.value) # Shutdown
  /\ BroadcastOp(Contents(sub.value)) /\ listening' = "loop"

(* Mutant: no second attempt. *)
ReconnectNot ==
  /\ listening = "sleep" /\ listening' = "loop"
  /\ UNCHANGED <<redis, history, calls, sub, since, delivered, stop>>

(* 200 ms after an error. *)
Reconnect ==
  /\ listening = "sleep"
  /\ \/ redisUp /\ sub' = Command(Connect(sub), "subscribe") /\ listening' = "again"
     \/ ~redisUp /\ sub' = Disconnect(sub) /\ listening' = "loop"
  /\ UNCHANGED <<redis, history, calls, since, delivered, stop>>

-----------------------------------------------------------------------------
(* stop(), from ~RedisStore: main() leaves before any session when bind()  *)
(* or listen() fails.  It publishes on a connection of its own.            *)

Stop ==
  /\ stopping = "no" /\ call = NoCall /\ answer = NoAnswer
  /\ stopping' = "publish" /\ running' = FALSE
  /\ UNCHANGED <<redis, history, calls, subscriber>>

StopPublishes ==
  /\ stopping = "publish" /\ stopping' = "join"
  /\ sub' = Publish(Shutdown)
  /\ UNCHANGED <<redis, history, calls, listening, since, delivered, running>>

StopJoins ==
  /\ stopping = "join" /\ listening = "ended" /\ stopping' = "done"
  /\ client' = Disconnect(client)
  /\ UNCHANGED <<redis, history, call, answer, subscriber, running>>

-----------------------------------------------------------------------------
RedisRuns == ServeGet \/ ServeRange \/ ServeCommit \/ ServeSubscribe
CallRuns ==
  \/ ReceiveReply \/ ReadReply \/ ContentRead \/ RevisionRead \/ HistoryRead
  \/ SinceReturns \/ CommitReturns
Listens ==
  \/ SubscriberStarts \/ ReceivePush \/ ReadPush \/ Subscribed \/ Recovered \/ Loop
  \/ MessageFails \/ MessageIgnored \/ ShutdownRead \/ MessageRead \/ Reconnect
Stops == StopPublishes \/ StopJoins

Next ==
  \/ RedisRuns \/ CallRuns \/ Listens \/ Stops
  \/ OperationsSince \/ Commit \/ CommitElsewhere \/ Stop
  \/ Break \/ RedisStarts

Spec == Init /\ [][Next]_vars

(* Redis runs what it is sent, and threads run.  Nothing makes Redis start *)
(* again, or anybody call or stop.                                         *)
FairSpec ==
  /\ Spec
  /\ WF_vars(ServeGet \/ ServeRange \/ ServeCommit) /\ WF_vars(ServeSubscribe)
  /\ WF_vars(CallRuns) /\ WF_vars(Listens) /\ WF_vars(Stops)

-----------------------------------------------------------------------------
(* What is read of an inserted text after a server, or sendOp, wrote it.   *)
Typed(text) ==
  [type |-> "insert", position |-> "#position", text |-> text, count |-> "#count",
   baseRevision |-> "#baseRevision", revision |-> "#revision",
   clientId |-> <<"client">>, opId |-> <<"id">>]
OfServer  == [text \in Texts |-> OpFromJson(OpToJson(Typed(text)))]
OfBrowser == [text \in Texts |-> OpFromJson(Stringify(Typed(text)))]

-----------------------------------------------------------------------------
(* A commit that Redis ran had read the whole content and exactly the      *)
(* operations after its base: whatever an earlier command of the call lost *)
(* with its connection (when the code goes on with the default document,   *)
(* revision 0 or a part of the history), no later one may get through      *)
(* (commit).                                                               *)
CommitsSawAll ==
  \A k \in DOMAIN history :
    LET entry == history[k]
    IN  /\ entry.content = Content(k - 1)
        /\ \/ entry.over = Payloads(entry.from, k - 1)
           \/ entry.from = k - 1 /\ entry.over = <<>>

(* What a call returns is the reply to its own command, never a late one   *)
(* to an earlier: a commit the operation of the revision at which Redis    *)
(* ran it for this call, operations_since an initial part of the           *)
(* operations asked for, all of them if the connection lives.              *)
AnswersMatch ==
  /\ answer.kind = "commit" =>
       answer.own \in DOMAIN history /\ answer.ops = <<Payload(answer.own)>>
  /\ answer.kind = "since" =>
       LET asked == Payloads(answer.from, answer.served)
       IN  IsPrefix(answer.ops, asked) /\ (answer.linked => answer.ops = asked)

NothingOnItsWay ==
  /\ sub.subscribed /\ listening = "message"
  /\ sub.stream = <<>> /\ sub.buffer = <<>> /\ sub.value = NoValue

(* The subscriber passes on operations of the history, whole, in order and *)
(* at most once, over lost connections and new subscriptions; and while a  *)
(* subscription lasts it skips none: with nothing on its way, everything   *)
(* committed since it began has been passed on.                            *)
DeliveredInOrder ==
  /\ \A k \in DOMAIN delivered : delivered[k] \in { Payload(i) : i \in DOMAIN history }
  /\ \A j, k \in DOMAIN delivered : j < k => delivered[j][1].n < delivered[k][1].n
  /\ NothingOnItsWay => IsSuffix(Payloads(since, Len(history)), delivered)

(* An operation that is passed on was written as JSON and read again, by   *)
(* the browser and by servers: it is read as it was written, except for    *)
(* control characters, and unless its text is, or ends with a quote and,   *)
(* the name of a field that follows the text: then that field is misread   *)
(* (not if it is the very next field, whose value is found either way, and *)
(* from the browser not `revision', which commit() assigns).  A browser    *)
(* where the word opId is pasted sends the opId "opId".                    *)
Spells(text, key) == text = <<key>> \/ IsSuffix(<<"\"", key>>, text)
Plain(text) == [k \in DOMAIN text |-> IF text[k] = "control" THEN "u00XX" ELSE text[k]]
Misread(op, text) == { f \in DOMAIN op : op[f] # [Typed(text) EXCEPT !.text = Plain(text)][f] }

TextsSurvive ==
  \A text \in Texts :
    /\ Misread(OfServer[text], text) =
         { key \in {"revision", "baseRevision", "clientId", "opId"} : Spells(text, key) }
    /\ Misread(OfBrowser[text], text) \ {"revision"} =
         { key \in {"clientId", "opId"} : Spells(text, key) }

(* A frame's length arrives, in either direction, with no byte of the      *)
(* header taken for payload, at and around the sizes where its form        *)
(* changes.                                                                *)
SizesSurvive ==
  \A size \in FrameSizes :
    \A bytes \in {EncodeFrame(size), BrowserFrame(size)} :
      ReadFrame(bytes) = [size |-> size, used |-> Len(bytes)]

(* What is passed on comes out of JSON and frames as it went in            *)
(* (op_to_json, op_from_json, encode_frame, read_frame).                   *)
ConversionsSurvive == delivered # <<>> => TextsSurvive /\ SizesSurvive

(* Every call returns, also when its connection ends in the middle of a    *)
(* reply or Redis stays down.                                              *)
CallsReturn == call.pc # "idle" ~> call.pc = "idle"

(* stop() returns: wherever the subscriber is when running_ is cleared, it *)
(* sees that, the message or the end of its connection, and join() ends.   *)
StopReturns == stopping = "publish" ~> stopping = "done"

(* If Redis is up from some time on, the subscriber is subscribed in the   *)
(* end, unless its very first attempt failed or the server stops.          *)
SubscribesAgain ==
  (<>[]redisUp) => <>[](sub.subscribed \/ listening = "ended")

=============================================================================

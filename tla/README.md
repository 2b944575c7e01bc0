# Verification of the real-time collaborative editor

TLA+ models of the collaborative text editor of this repository, the TLC runs
that check them on small instances, and proofs, checked by TLAPS, of what
matters most for every instance. Paths are relative to the repository root.

## The system

Browsers edit one shared document through WebSocket sessions on several
servers behind nginx. Every operation is committed through Redis, which holds
the document, its revision, the history and an index of operation ids, and
publishes each commit to all the servers; PostgreSQL gets a copy later.

| component | source | state | operations | talks to |
|---|---|---|---|---|
| OT engine | `src/ot.hpp` | none | `transform`, `clamp`, `apply`, `is_noop` | called by both stores; the editor has its own copy |
| In-memory document session | `src/ot.hpp`, `src/store.hpp` | text, revision, history | `commit`, `operations_since`, `snapshot` | a server without Redis |
| Document store interface | `src/store.hpp` | (abstract) | `commit`, `operations_since`, `snapshot` | what sessions rely on |
| Redis commit protocol | `src/redis_store.hpp`, `src/redis_lua.hpp` | Redis keys content, revision, history, opids, lock; `mutex_`, `lock_token_` | `commit`, `snapshot`, `operations_since`, the Lua scripts | Redis, shared by all servers |
| Persistence and recovery | `src/redis_store.hpp`, `src/postgres.hpp` | `pg_queue_`, the tables `documents` and `operations`, the command connection | `enqueue_persist`, `pg_worker_loop`, `persist`, `load`, `start`, `on_redis_recovered`, `ensure_recovery_locked` | PostgreSQL and Redis |
| Redis subscriber | `src/redis_store.hpp` | a connection | `subscribe_loop` | Redis channel -> `broadcast_op`; recovery |
| Server sessions | `src/main.cpp` | `clients`, `seen_op_ids` | `websocket_session`, `broadcast`, `broadcast_op`, `send_catch_up` | store, browsers |
| Browser editor | `public/app.js` | `revision`, `confirmedText`, `pending`, `appliedOpIds` | `sendOp`, `receiveOp`, `applyCatchup`, `applySnapshot`, `flushPending`, `connect` | one session at a time |
| Redis client | `src/redis_client.hpp` | socket, read buffer | `command`, `eval`, `subscribe`, `next_message`, `read_value` | Redis |
| JSON | `src/json_util.hpp` | none | `json_escape`, `json_string`, `json_size`, `op_to_json`, `op_from_json` | every message |
| HTTP, WebSocket, TCP | `src/main.cpp`, `src/net.hpp` | sockets | handshake, frames, static files | browsers |
| Metrics, mutex wrappers | `src/metrics.hpp`, `src/sync.hpp` | counters, a mutex | | |
| Scripts, deployment | `scripts/`, `docker-compose.yml`, `deploy/` | | drive or configure a running system | |

What is hard in it, and what makes each part correct:

* **OT engine.** Overlapping and touching ranges, ties, an operation that was
  already transformed several times. Correct when what a user meant to insert
  or delete survives, and when concurrent operations that the tests call
  convergent converge in every order.
* **Redis commit protocol.** `commit()` reads three keys with three commands
  and writes them back in a script; `mutex_` serialises one server's threads, a
  lock with a 30 s lease the servers, and the script's own look-up retries.
  Connections break before or after a command ran. Correct when the keys are
  always one log, when an answer once given stays true, when no operation
  commits twice, when the lock never blocks anybody for good.
* **Persistence and recovery.** Jobs are queued after all locks are gone,
  written by one worker per server in two statements, dropped by a crash;
  recovery is a sequence of EXISTS, two SELECTs and a script that several
  servers run against each other and against commits. Correct when PostgreSQL
  holds parts of the log, and all of it in the end; when a start or a recovery
  does not undo commits; when Redis gets back what PostgreSQL had.
* **Server sessions and subscriber.** A session registers before it takes its
  snapshot, a commit is broadcast by the session's thread and by the
  subscriber's, whichever comes first, and nothing orders the broadcasts of two
  revisions. Correct when each connected browser gets every operation, once.
* **Browser editor.** Pending operations are rebased, by a copy of `transform`
  in another language, over what arrives, and sent again after a reconnect,
  while what the former connection carried is still being served. Correct when
  the confirmed text is the server's, and all editors show it in the end.
* **Redis client and subscriber.** Replies come in parts, a connection may end
  in the middle of one, an incomplete array is not an error, and a thread waits
  in `recv()` until something comes. Correct when no reply is taken for
  another's, no commit is computed from part of an answer, messages are passed
  on whole and in order, and calls, `stop()` and the subscription never hang.
* **JSON and frames.** Keys are searched for, not parsed. Correct when an
  operation is read as it was written.

## The modules

| module | models | role |
|---|---|---|
| `OT` | `src/ot.hpp` | operators, one per case of `transform`; text is a sequence of distinct characters |
| `DocumentSession` | `DocumentSession`, `MemoryStore` | state `document`, `history`; action `Commit` |
| `EditSession` | a session edited by clients that author on any revision they have seen, and the same operations committed in another order | composes `DocumentSession` with what `diffToOp` can produce; a second instance of it for the other order |
| `Editor` | `public/app.js` on real texts: typing, rebasing, acknowledgements, reconnecting, resending | composes browsers and FIFO connections with `DocumentSession` |
| `CommitLog` | the shape of a history entry | shared by the next three |
| `DocumentStore` | the abstract store: one atomic commit | what `RedisCommit` implements |
| `RedisCommit` | `RedisStore::commit` and `snapshot`, one action per Redis command | main model |
| `Recovery` | persistence, start, recovery, restarts and crashes | coarser commit, see its head |
| `Fanout` | server sessions, subscribers and browsers over the abstract store | composes what a commit publishes with what `app.js` makes of it |
| `RedisClient` | `src/redis_client.hpp`: a connection, and RESP values that arrive piece by piece | operators on a connection record |
| `Json` | `src/json_util.hpp`, on tokens | operators |
| `Frame` | the length of a WebSocket frame | operators |
| `Wire` | the two connections of a `RedisStore` as bytes arrive: calls, `subscribe_loop`, `stop()` | composes `RedisClient` twice; operations go through `Json` and `Frame` |
| `Selection` | the elements of an array that a loop keeps | used by `Editor` and `Wire` |
| `InductionLemmas` | induction up to a number, and what a fold or a selection does, as lemmas | proofs |
| `OTProofs` | lemmas about `OT`: what `transform` and `apply` do to any text | used by the next two |
| `EditSessionProofs` | theorems about `DocumentSession` and `EditSession` | proofs |
| `EditorProofs` | theorems about `Editor` | proofs |
| `RedisCommitProofs` | theorems about `RedisCommit` | proofs |
| `RecoveryProofs` | theorems about `Recovery` | proofs |
| `FanoutProofs` | theorems about `Fanout` | proofs |
| `WireProofs` | theorems about `Wire` and `RedisClient` | proofs |
| `MC*` | instances for TLC | |

**Correspondence.** In `OT` the four cases of `transform` are four operators,
`DeleteOverInsert` being a delete transformed over an insert, and so on.
In `RedisCommit` the label `pc[t]` is the next command of the thread's call:
`lookup` the first HGET, `acquire` one attempt of `acquire_lock`, `recheck` the
second HGET, `content`, `revision`, `history` the three reads, `commit` the
EVAL, `release` the release; `snapEnter`, `snapContent`, `snapRevision` are
`snapshot()`. `call[t]` holds the locals. `renew_lock` has no action: its reply
is ignored, and a lease is either assumed to outlive the call
(`LeaseMayLapse = FALSE`) or not. A token is the clock value that
`acquire_lock` reads; that no two calls read the same value is assumed. What a text contains is
abstracted to the sequence of operation ids it includes and what an operation
was transformed over to the sequence of ids it missed (`over`): that is what an
interleaving can get wrong, while `OT` and its users model the text itself.
In `Recovery` an agent is a session's thread or a server's own thread;
the labels follow `ensure_recovery_locked` (`exists`, `load`, `loadOps`,
`reload`; `loadInit`, `loadInitOps`, `init` for `load_state_into_redis(false)`)
and then `commit()` in three steps. `link[s]` is the server's `client_`, which
after a restart of Redis is stale until a command fails on it.

In `Fanout` a frame is a record, a text the sequence of operations in it, and
the store a log to which a commit appends an operation it does not have, as in
`DocumentStore`; what Redis publishes goes into one queue per server. Reads are
those of the code. `snapshot()` is two GETs, between which other servers commit
(`Free` is `mutex_`, which the threads of one server share), and either may get an
error for a reply: the text is then the default one, or the revision 0.
`operations_since` may return only the first of the operations, and when it
returns none PostgreSQL is asked, which may have any of them. Calls that fail are
counted in `failures`. `pc[x]` is where the thread of session `x` is: `register`,
`content` and `revision` (the two GETs) and `init` before its loop, `read` in
`read_frame`, `behind` (the second GET), `operations`, `persisted` (PostgreSQL)
and `reply` inside `send_catch_up`, `ack` and `mark` after `commit()`. `fan[a]`
is the rest of a broadcast that a session or a subscriber is sending, one
`send_all` a step. A browser is a record of `app.js`'s variables, and its
handlers are the `Receive` actions. `sent`, `failures`, and the fields `edited`,
`base`, `orderly` and `cleared` of a browser, are history that only properties
and bounds read. `base` is the revision at which the browser took over a text; it
is `orderly` if that text was of that revision, no revision was skipped since
and nothing up to `base` was applied again. The last is `fanout_twice`; with the
text the browser forgets what it had applied. `CommitElsewhere` is a commit by a
session of another server that the instance does not spell out.

In `Editor` a browser is a record of `app.js`'s variables with its real texts;
`Type` is the input listener with `diffToOp` and `sendOp`, `Receive` the message
handler with `receiveOp`, `applyCatchup`, `composeDisplay` and `flushPending`,
`Rebase` the editor's own `transform`, which neither clamps nor drops no-ops.
`ServeOp`, `ServeSync` and `ServeFormer` are the server's side: a commit and its
frames are one step, which `Fanout` takes apart, with the reads that fall short.
`ServeSync` is `send_catch_up`: it answers with the operations, with the text
(`TakenOver`) if they are more than `CatchUpLimit`, or with an error, which a
browser with a revision above 0 gets when the read of the revision failed.
`former` has one queue for each connection that ended, of what its thread may still
read and commit; the threads run independently. `base` and `orderly` are as in
`Fanout`, `cleared` says that a snapshot dropped pending operations, `refused` that
an error answered a sync of the present connection.

In `RedisClient` a reply is a sequence of units, a line or a piece of a bulk
string; `Received` is `recv()` with any number of them, and `ReadOn` one line or
bulk string of `read_value`. In `Wire`, `client.request` is what was sent and
Redis has not run, `call.pc` the command whose reply is awaited, `call.content`
and `call.over` what the call has read, kept in the history entry so that
`CommitsSawAll` can compare it with what there was to read. `call.own` is the
revision at which Redis ran this call's commit script, which only
`AnswersMatch` reads. `listening` is where
`subscribe_loop` is: `first` and `again` wait for a SUBSCRIBE's reply, `message`
is `next_message()`, `recover` is `on_redis_recovered()`. `stop()` runs from
`~RedisStore`, which `main()` reaches when `bind()` or `listen()` fails.

Each module contains operators commented "Mutant: ...": the definition that
follows them changed the way a plausible bug would. Replacing the definition by
its mutant makes the property that `PROJECT.json` names with it fail, which is
how the properties are known to depend on the code.

## The runs

| run | instance | what it shows |
|---|---|---|
| `edit_session` | initial text of a few characters, three commits on any seen revision | `InsertionIntent`, `DeletionIntent`: what an operation meant survives the transformations; `SwallowsOnlyInside`: a delete takes another's text only from inside its range; `CatchUpReproduces`: replaying the history from any revision gives the document; committed in another order inserts converge, deletes converge (`SameKindConverge`), so does an insert not strictly inside a deleted range (`DisjointConverge`), and inside it the text is swallowed or kept whole (`InsideSwallowedOrKept`) |
| `editor` | two browsers, two operations of the first and one of the second, which loses its connection once, a catch-up of at most one operation | the confirmed text is the server's at the browser's revision, each operation in it once however often it is delivered (`ConfirmedIsServers`); when nothing is under way every editor shows the document with everything typed committed, unless a sync was refused or a snapshot dropped it (`EditorsAgree`); while operations are acknowledged one at a time, that does not change the display (`AckKeepsDisplay`) |
| `editor_display` | the same, expected violation | with two operations pending the display is not what the server will commit |
| `wire` | two commits, one break or restart of Redis at any unit, texts of two tokens and some of three, sizes at which the frame changes | `CommitsSawAll`: a commit that Redis ran had read everything; `AnswersMatch`: a commit returns the operation Redis ran for that very call, a catch-up the operations asked for; `DeliveredInOrder`: messages whole, in order, none skipped while subscribed; `ConversionsSurvive`: what JSON and frames do to an operation; `CallsReturn`, `StopReturns`, `SubscribesAgain`: nothing hangs |
| `redis_lease` | two servers, three threads, two ids, four calls, two faults; leases outlive calls | the keys stay one log (`LogIntegrity`), one holder (`MutualExclusion`), answers stay true (`AckedIsCommitted`), the lock is released on every path, a rejected script among them, while no connection breaks (`LockReleased`), and the abstract store is implemented (`ImplementsStore`) |
| `redis_lapse` | two servers, two threads, two ids, three calls, two faults; leases may lapse | `Idempotent`, `AtMostOnce`, and `EveryCallReturns` under fairness |
| `recovery_crash` | two servers, four calls, one crash, one lost reply | starting servers never undo a commit (`CommitsAreKept`), PostgreSQL matches the log (`PersistedMatches`) and has all of it when the queues are empty (`HistoryPersisted`) |
| `recovery_restart` | two servers, two calls, queue of one, two restarts of Redis with or without data, one subscriber reconnect | what PostgreSQL was complete with comes back (`PersistedSurvives`), no commit starts from an empty Redis (`CommitsFindDocument`), the queue stays bounded (`TypeOK`) |
| `recovery_reconnect` | one server, expected violation | a mere reconnect of the subscriber undoes commits |
| `fanout_told` | two servers, two browsers, two sessions, one operation, one lost publication, one call of the store that fails, at any place | however joining, committing and the two broadcasting threads interleave, an open session is sent everything committed after it was registered (`EveryoneIsTold`), by one broadcast at most (`ToldOnce`); over error answers, default texts, revision 0 and catch-ups that fall short an orderly browser still shows the text of its revision (`OrderlyConverge`), and what was typed is committed or still pending (`EditsCommitted`) |
| `fanout_converge` | one server and commits elsewhere, one browser that reconnects, two operations, a seen set of one; no call of the store fails | a browser that skipped no revision shows the text of its revision, and in the end the server's (`OrderlyConverge`), with each operation in it once though the forgetful seen set sends it again |
| `fanout_twice` | one server, two browsers, expected violation | an operation in the init message is applied again |

**Bounds.** Calls, faults, attempts, restarts, drops and crashes are counted,
and the constants that bound them say so. Two threads on one server and one on
another cover the interplay of `mutex_` with the lock; a fourth call lets a
caller retry after two others committed; two ids let one operation be retried
while another commits. `acquire_lock`'s 100 attempts are two: a third adds
nothing but another failed attempt. A queue of one makes the drop of the oldest
job happen with two commits. Three operations are the fewest where an already
transformed operation is transformed over, or is, an already transformed one.
In `Fanout` sessions, connections that end, lost messages and throwing commits
are counted, and so are calls of the store that fail (`MaxFailures`); two sessions let a joining session meet a committing one, or one
browser come back; `CatchUpLimit` 0 or 1 stands for 500 so that both a snapshot
and a catch-up are answers, and a seen set of one forgets an operation that is
still on its way. In `EditSession` and `Editor` two characters per insert make "inside an
insert" exist. In `Editor` ids 1 and 3 of one browser and 2 of the other make
ties go both ways, and one lost connection is enough for a resend to meet the
first sending; `CatchUpLimit` 1 has both answers to a sync. That several
threads commit what one browser sent on connections that ended is in the model,
and in the proofs, but not in this instance. In `Wire` one break at any unit reaches every command and every
line of a reply, because calls and the subscriber go on after it; Redis's
restart is such a break and takes both connections. Reply parts are chosen
where a value may be incomplete (all of it, or all but its last unit; a cut
anywhere). Two commits are the fewest that an answer can be short by one. Deadlock is not checked (`CHECK_DEADLOCK FALSE`) because every
system here may come to rest: the calls are bounded and nobody has to edit.
That no call hangs is `EveryCallReturns`.

**Fairness.** `FairSpec` of `RedisCommit` has weak fairness of each thread's
own steps: a thread inside a call runs on, `sleep_ms` ends, a command on a dead
connection fails. The lease's end and faults are not fair; that
is enough because `acquire_lock` gives up after its attempts. `FairSpec` of
`Wire` has weak fairness of Redis running what it was sent and of each thread: a
call, the subscriber, `stop()`. Redis's restart, calls and `stop()` being called
are not fair, so a call returns also while Redis stays down, and
`SubscribesAgain` supposes that Redis is up from some time on.

## What the runs found

* `on_redis_recovered()` reloads the keys whenever the subscriber reconnects,
  although Redis was not flushed, and commits that PostgreSQL does not have yet
  are gone (`recovery_reconnect`, against `src/redis_lua.hpp:45`).
* A session's client is registered before the snapshot of its init message is
  taken. An operation that is in the snapshot may be broadcast to the client
  afterwards, and since the editor forgets `appliedOpIds` with the init message,
  it applies the operation to a text that has it (`fanout_twice`, against
  `public/app.js:201`). Registering after the snapshot would lose operations
  instead, which is what `EveryoneIsTold` rules out.
* When a browser's first operation is acknowledged, the second, authored on a
  text that has the first, stays as it is, while the server transforms it over
  the first once more because its `baseRevision` is older. The editor shows
  something else than what the server will commit until the acknowledgement of
  the second (`editor_display`, against `public/app.js:77-78`). The texts agree
  again afterwards (`EditorsAgree`), but the characters may be elsewhere than
  where they were typed.

Met on the way, documented by the way a property is stated:

* `kLuaCommitOp` does not look at the lock. When a lease ends between the GETs
  and the EVAL, two commits write the same revision, although
  `tests/ot_tests.cpp:121` calls revision numbers strictly increasing.
  `LogIntegrity` and the refinement are about leases that outlive calls;
  `AtMostOnce` and `Idempotent` do not need the lock and hold even then.
* `enqueue_persist()` runs outside all locks and the upsert is unconditional,
  so the newest document may be overwritten by an older one with nothing left
  to correct it. `PersistedMatches` asks that the row is a state of the log,
  not that it is the latest.
* A connection that ends inside an array gives an array whose last elements are
  errors, which `parse_history` leaves out. A catch-up may therefore be short,
  and `AnswersMatch` asks for all of it only if the connection lives; no commit
  goes through after that, because the connection it would need is gone
  (`CommitsSawAll`).
* `json_string` looks for a quoted key anywhere. A text that is the word `opId`
  is taken for the key: the operation gets the opId `opId`, and the next such
  text is taken for a retry of it. `ConversionsSurvive` says which field is
  misread for which text; `flushPending` orders the fields in another way, and
  then it is `baseRevision`.
* A control character arrives as the five characters after the backslash of its
  escape (`ConversionsSurvive`).
* Positions are UTF-16 units in the browser and bytes in the server. The models
  have characters of one kind, as in ASCII texts.
* A subscriber whose first connect or SUBSCRIBE fails ends; `SubscribesAgain`
  excepts it.

* An insert strictly inside a range that somebody else deletes concurrently
  diverges between the two orders, and three operations with a delete between
  two inserts may. `DisjointConverge` and `InsideSwallowedOrKept` say what is
  true. The tests claim no more.
* `snapshot()` reads text and revision with two GETs and takes no lock. Another
  server may commit in between: the browser then starts from a text that is older
  than its revision, and no catch-up ever sends it the operation it lacks. When a
  GET gets an error reply the text is the default one or the revision 0
  (`SnapshotNeverAhead`, which `SnapshotsLagBehind` proves, excepts the latter). `Fanout` has all of it: a browser with
  such a text is not `orderly` until a text that agrees with its revision replaces
  it, and `OrderlyConverge` is about orderly ones.
* A reconnecting browser whose `sync` meets revision 0 gets the error "client
  revision ahead of server", which it only logs: it does not catch up, and does
  not send again what is pending, until it reconnects once more. `EditsCommitted`
  therefore says that what was typed is committed *or still pending* whatever
  fails, and that it is committed in the end only if no call of the store failed;
  `EditorsAgree` excepts a browser whose sync was refused.
* After an init message or a snapshot the editor has forgotten `appliedOpIds`. An
  operation that its text already had and that arrives again, by a broadcast or as
  the answer to one sent twice, is applied a second time. It is the same cause as
  `fanout_twice`; `base` keeps such browsers out of `OrderlyConverge` and
  `ConfirmedIsServers`, which rule out every other second application.
* An operation whose commit reply was lost is never queued for PostgreSQL: the
  retry returns from the first look-up. `HistoryPersisted` is about runs
  without lost replies.
* When Redis ends a connection that no command has used since,
  `on_redis_recovered()` believes `connected()`: its EXISTS and its reload both
  fail. Redis gets its document back at the next call instead
  (`ExistsFails`; `CommitsFindDocument` shows that the call finds it).
* A reload of an incomplete `operations` table leaves a history whose positions
  are no longer revisions. `PersistedSurvives` is therefore about the first
  time Redis loses its data, with PostgreSQL complete.
* After a subscriber reconnects, a job of an operation that the reload took back
  may still be queued; when its worker writes it, the document's row is of a log
  that no longer exists. `Complete` therefore also asks that no reconnect and no
  restart came before. The runs are too small to reach it; the proof of
  `RecoveryGivesBack` did not go through without.
* Broadcasts of two revisions may reach a browser in the wrong order, or one
  that overtakes an init or snapshot message is dropped with the text it was
  applied to. The editor takes `op.revision` as its own either way, so a later
  catch-up does not send what it missed. `orderly` records that no revision was
  skipped, and `OrderlyConverge` is about browsers of which that is true.
* `applySnapshot` clears the pending operations before `flushPending` runs:
  what was typed before a reconnect of more than 500 revisions is lost.
  `EditsCommitted` and `EditorsAgree` except such browsers. When `commit()` throws,
  the editor only logs the error, and the operation stays pending until the next
  catch-up.
* Once `main()` accepts connections it never returns, and it handles no signal:
  `stop()`, which would drain the queue, does not run then. `Crash` stands for
  every end of such a server. `stop()` runs only when `bind()` or `listen()`
  fails; `StopReturns` is about that, with an empty queue.

## What is proved

Every theorem is about the specification the runs check, for every value of the
constants that its module's assumption allows. The column *assumes* has what is
assumed beyond that. No run checks `SnapshotNeverAhead`: what browsers make of such
snapshots is in `fanout_told` and `fanout_converge`.

| theorem | states | assumes |
|---|---|---|
| `RedisCommitProofs` | | |
| `TypeCorrect` | `TypeOK` | |
| `CommitsAreIdempotent` | `Idempotent` | |
| `CommitsAtMostOnce` | `AtMostOnce` | |
| `LockExcludes` | `MutualExclusion` | `~LeaseMayLapse` |
| `LogIsIntact` | `LogIntegrity` | `~LeaseMayLapse` |
| `AcknowledgedStays` | `AckedIsCommitted` | `~LeaseMayLapse` |
| `RefinesDocumentStore` | `ImplementsStore` | `~LeaseMayLapse` |
| `LockLeftByNoCall` | `LockReleased` | |
| `SnapshotsLagBehind` | `SnapshotNeverAhead` | `~LeaseMayLapse` |
| `RecoveryProofs` | | |
| `RecoveryTypes` | `TypeOK` | |
| `CommitsFindTheDocument` | `CommitsFindDocument` | |
| `RowsAreOfTheLog` | `Undisturbed => PersistedMatches` | |
| `CommitsStay` | `CommitsAreKept` | `Restarts = {}`, `MaxDrops = 0` |
| `NothingIsLost` | `HistoryPersisted` | at most `QueueLimit` operations |
| `RecoveryGivesBack` | `PersistedSurvives` | |
| `FanoutProofs` | | |
| `FanoutTypes` | `TypeOK` | |
| `NobodyIsToldTwice` | `ToldOnce` | |
| `EverySessionIsTold` | `EveryoneIsTold` | |
| `OrderlyBrowsersConverge` | `OrderlyConverge` | |
| `EditsReachTheLog` | `EditsCommitted` | |
| `EditSessionProofs` | | |
| `EditTypes` | `TypeOK` | |
| `CatchUpArrives` | `CatchUpReproduces` | |
| `ConcurrentEditsConverge` | `DisjointConverge` | |
| `OneKindConverges` | `SameKindConverge` | |
| `InsertionsStayInPlace` | `InsertionIntent` | |
| `DeletionsRemoveTheRange` | `DeletionIntent` | |
| `DeletesSwallowOnlyInside` | `SwallowsOnlyInside` | |
| `DivergenceIsTheText` | `InsideSwallowedOrKept` | |
| `EditorProofs` | | |
| `EditorTypes` | `TypeOK` | |
| `ConfirmedIsShared` | `ConfirmedIsServers` | |
| `EditorsMeet` | `EditorsAgree` | |
| `AcksAreInvisible` | `AckKeepsDisplay` | |
| `WireProofs` | | |
| `CommitsSound` | `CommitsSawAll` | |
| `AnswersSound` | `AnswersMatch` | |
| `Delivers` | `DeliveredInOrder` | |

`~LeaseMayLapse` is the 30 s lease outliving a call of a few commands; the code
has no other defence, and without it the statements are false ("What the runs
found"). The assumptions of `Recovery` are those of the runs: with a reconnect
`CommitsAreKept` is false (`recovery_reconnect`), and a full queue drops jobs by
design. `RowsAreOfTheLog` says `Undisturbed` (no restart of Redis, no reconnect)
where the run's instance has neither. `EditAssumption` only fixes how characters
are numbered, so that none occurs twice: up to 100 in the first text and from 100 r + 1
on those of revision r, which bounds an insert to 99 characters. The code has no
such bound, and positions in it know nothing of the labels. `EditorAssumption` has
every operation id given once: `sendOp` makes it of the client's id, the time and
a random number.

**`RedisCommit`.** Layers of inductive invariants, each using those before it.

1. `TypeInv`, the types, with what a thread's label says of its locals.
2. `KeysInv`: history, channel and index hold the same operations, each id at
   most once, and answers given or about to be given are in the index. It is
   preserved because only `EvalCommit` adds an entry and looks the id up first,
   whoever holds the lock. This gives idempotence and at-most-once.
3. `TokenInv` and `LockInv`: tokens in use are below the clock and differ, and a
   thread between acquire and release holds the lock with its token. Only a
   lapse could take it away. This gives mutual exclusion.
4. `LocalsCurrent` and `LogInv`: what the holder has read of content, revision
   and history is still what Redis has, because nobody else writes meanwhile.
   So `EvalCommit` appends exactly what `DocumentStore!Commit` appends, which is
   the log's integrity and the step of the refinement; every other step
   acknowledges something of the log or changes nothing of it.
5. `HeldInv`: until a connection is first lost the token in the lock key belongs to
   a thread on its way to `release_lock`, on every early return and exception, that
   of a rejected commit script included. `SnapInv`:
   the text that `snapshot()` has read is that of a revision it has not passed.

**`Recovery`.** `TypeInv` has the bound of the queues. `FindInv` holds whatever
happens: an agent at a label inside `mutex_` has the mutex, and beyond
`ensure_recovery_locked` Redis has a document; restarts break both together.
`CalmInv` holds while nothing has disturbed Redis: log and document agree, only
the lock's holder is about to write and what it read is current, every job, row
and document anywhere is that of a revision of the log, and an operation waits in
one place at most and not once it has its row. Appending keeps all of it because
what names a revision keeps naming it (prefixes). `NothingLost` adds, while
nothing fails at all, that each operation of the log has its row, or its job, or
a thread about to queue it; a queue with room for all operations never drops one.
`KeptInv` starts where `CalmInv` ends: at the step that sets `kept` the tables
are the log, and from there a document anywhere (Redis, the table, a job, an
agent's locals) starts with what was kept, and an operation anywhere is one of
the kept ones or has a later revision.

**`Fanout`.** `Typed` says that a frame announcing an operation names one of the
log, at its place, and that a catch-up holds revisions of the log. `Members`: a server's list has its open sessions, each once,
and what is left of a broadcast names sessions in that order. `Once`: while a
server has forgotten nothing, an operation is being broadcast by one thread or
has been, if and only if it is in the seen set, so a session gets it from one.
`Told`: each revision after a session's init message was sent to it, or was lost,
or is still in the channel, in a broadcast that has the session before it, or
with the session's own thread about to broadcast it. Broadcasts of several threads
reach a browser in no order, and a frame means something only in the state it is
received in, so `ShowsTo` is about the future: whatever a browser comes to know
by receiving the frames on its socket (`Outcome`, a run of `Takes`), each revision it
then lacks is still to be sent by a broadcast or acknowledgement (`Due`), or asked for
by a `sync` from its revision or an earlier one (`Asked`), or in the answer being made
(`Answered`). This is kept because an orderly browser has applied nothing beyond its
revision and everything from `base` up to it (`Known`): so what it applies is the
next operation, and a second delivery changes nothing. What a first text or a
snapshot lacks was received since the last one, which makes the browser disorderly
when the text is replaced, or is still to be sent (`Renewed`). That is so while no
call of the store has failed; that the text is the one of the revision (`ShownOf`)
and that what was typed is in the log or pending (`KeptOf`) hold whatever fails.
When all queues are empty the outcome is what the browser has, and with
`EveryoneIsTold` it lacks nothing. `CarriedFor` follows each pending operation: it is on its way to the
log, or what settles it is on its way to the browser, or a catch-up that has
everything resent is.

**`EditSession`.** Every operation changes a document by one splice
(`ApplySplices`), and `transform` gives an operation of the same kind that fits
the document after the other one (`TransformTyped`, `TransformFits`). `Commute`
is TP1: two operations that fit one document and of which neither inserts
strictly inside what the other deletes lead to one document in both orders; its
cases are the splices' identities (`InsertInsert`, `InsertBeforeDelete`,
`DeleteDelete`, `DeleteAround` and so on). `ThirdAlike` is TP2 for inserts among
inserts and deletes among deletes: a third operation comes out the same over
either order. `EditInv`, the inductive invariant, says that each revision is the
document before with what its author sent, transformed over everything it missed
and clamped, and that the labels of the characters tell where they are from.
`ExchangeTwo` computes what the session does with two neighbours of the history
the other way round from that. For what an operation meant, `Tracks` relates the
document its author saw to a later one: a character in both lies in front of the
insertion, or in the range, in both or in neither. One step of `transform` keeps
it (`TouchesMoves`), by induction a whole history does (`HistoryTracks`), and
`Dated` (a revision inserts labels above all earlier ones, and a document has
none from later ones) keeps new characters apart from old. A character that a
delete takes though its author did not see it was inserted at some revision, and
there the delete grew over it (`GrowsOver`): it went strictly inside the range
as it then stood. `DivergenceIsTheText` computes both orders of that case.

**`Editor`.** `EditorInv` has to link what a browser holds to the server's history
while operations, answers and catch-ups are under way on the present connection
and operations on former ones. `LogInv`: revisions count up, ids occur once, and
the document is the replay of the history. `Held`: a browser's pending operations
were typed by it, none has been applied, and unless a snapshot cleared some each of
what it typed is pending or committed. `Shown`: the confirmed text of an orderly
browser is the document at its revision. That alone is not inductive when
operations arrive that were applied before, hence that what is applied is in the
history up to there, and that every revision after `base` up to there was applied:
then what is news and skips nothing is the next operation. `Followed`: behind a
snapshot on a connection, everything committed since it was taken is announced.
`Sound`: no message names a revision the server does not have. `Underway`: while no
sync of the connection is refused, what is pending is on its way to the server, or
committed and on its way back, or the browser is about to resend it or to be sent
a text; and each revision it lacks is announced or will be asked for. All this for
any number of connections that ended and any `CatchUpLimit`. When all queues are empty that leaves nothing pending and nothing to
learn (`EditorsMeet`). `Echoes` is what `AckKeepsDisplay` needs: as long as what a
pending operation missed is foreign, every copy of it, sent on any connection and
whatever its `baseRevision`, becomes the pending one at the browser's revision when
the server transforms it; and what was committed is what the pending one becomes
further on. It is stated up to `Same`, which lets operations without an effect
differ in their positions: there the two copies of `transform` disagree, and
everywhere else they agree (`RebaseSame`).

**`Wire`.** What is still to come on a connection is a sequence of units, in
the buffer, in the socket, or lost if the connection was cut: `Holds`. On top of it
`Reading` says which array is being read, how much of it was, and what follows. One
lemma for each step of `RedisClient` (units arrive, a unit is read, an array is
complete, an end is met) moves it on, also when the end is met inside an array and
its last elements are errors. `CallInv` says, for each label of a call, that its
command is on its way, or its reply is, or the connection is gone; no reply
of an earlier call can be left, because a connection at rest holds nothing
(`Idle`). The reply to a commit is therefore the operation at the revision where
Redis ran this call's script (`own`), which is what `AnswersSound` says. `ReadSoFar` is what `CommitsSawAll` needs and holds only while the
connection lasts: what the call has read of content, revision and history is all of
it. A commit command is sent only on a connection that has lasted, since a
command on a broken one fails, also when the connection is cut after the command
was sent. `SubInv` is about the subscriber: `Told` splits what was delivered into
what earlier subscriptions delivered and what this one has, which starts at the
revision where it was subscribed; the messages under way go on from there, each
telling the next operation or `stop()`'s message (`Announces`), up to the last
operation of all as long as the subscription lasts. `InStep` says where
`subscribe_loop` is in reading the first of them.

**`InductionLemmas`.** The library's induction theorems take an operator, which
no backend can instantiate. `Least` (every nonempty set of naturals has a least
element) follows from the well-foundedness of `<`, and `UpTo` from it: a set that
has 0 and with each number the next has all of them. `FoldExists` and `FoldRuns`
say that `FoldLeft` is the end of the sequence of its intermediate results;
`TransformOver` and the replay of a history are unrolled with them.

Only model-checked: `ConversionsSurvive` of `Wire`, about texts of a few tokens
(what `json_string` reads of any text would take an induction over its tokens);
and the liveness properties `CallsReturn`, `StopReturns`, `SubscribesAgain` and
`EveryCallReturns`, since liveness under fairness is outside the prover.

## What is not modelled

* Of the editor: the cursor, the status line, and trimming `appliedOpIds` at
  5000 entries.
* Of the server: the handshake with SHA-1 and base64, HTTP requests and static
  files, masking, environment variables: parsing and I/O without state that a
  property is about. The metrics, which nothing reads back. The mutex wrappers,
  whose effect is the `mutex` of `RedisCommit` and `Recovery`. A send is one step:
  two threads that interleave the bytes of two frames on one socket, a socket
  number used again, and SIGPIPE are left out.
* Failures of PostgreSQL, `size_t` overflow (positions are clamped to the
  text's length), and half-open connections, on which `recv()` waits for as
  long as the kernel lets it.
* In `Wire`: the lock and the look-ups, whose replies are one line
  (`RedisCommit` has them); Redis's loss of data (`Recovery`); a break of
  `stop()`'s own connection, after which its message is lost and `join()` waits.
* A crash of a server in the middle of a broadcast.
* Scripts and deployment: drivers and configuration of a running system.

## Plan

1. Done: `OT`, `DocumentSession`, `EditSession`; `DocumentStore`, `RedisCommit`
   and its refinement; `Recovery`; `Fanout`; `Editor`; `RedisClient`, `Json`,
   `Frame` and `Wire`; the theorems above.
2. Done: all safety properties that the runs check are theorems but
   `ConversionsSurvive` ("Only model-checked").
3. Left: interleaved sends on one socket, and connections to PostgreSQL that are
   lost ("What is not modelled").

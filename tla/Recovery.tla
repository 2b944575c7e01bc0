------------------------------ MODULE Recovery ------------------------------
(***************************************************************************)
(* The servers' PostgreSQL side and the recovery of Redis from it          *)
(* (src/redis_store.hpp, src/postgres.hpp, src/redis_lua.hpp): the queue   *)
(* of persistence jobs and its worker, start-up, ensure_recovery_locked,   *)
(* the restart of Redis and the crash of a server.                         *)
(*                                                                         *)
(* commit() is coarser here than in module RedisCommit, which models every *)
(* command of it: reading under the lock is one step and the commit script *)
(* with the release another, because what matters here is which writes of  *)
(* the keys, of PostgreSQL and of the queue come between them.  A text is  *)
(* again the sequence of operations it includes; what an operation was     *)
(* transformed over is left out.  Leases outlive calls.                    *)
(*                                                                         *)
(* An agent is a session or a server; a server stands for the thread that  *)
(* runs start() and then subscribe_loop(), on_redis_recovered() included   *)
(* (the /readyz handler calls it in the same way).                         *)
(***************************************************************************)
EXTENDS Naturals, Sequences, SequencesExt, FiniteSets

CONSTANTS
  Servers, Sessions,
  Host,          \* Host[t] is the server of session t
  OpIds, NoOp, NoAgent,
  QueueLimit,    \* 10000
  Restarts,      \* how Redis may restart: "kept" its data, or "lost" it
  MaxCalls,      \* bound: commits called
  MaxRestarts,   \* bound: restarts of Redis
  MaxDrops,      \* bound: subscriber connections lost
  MaxCrashes,    \* bound: servers killed
  MaxLost        \* bound: replies of the commit script lost

ASSUME RecoveryAssumption ==
  /\ Host \in [Sessions -> Servers]
  /\ NoOp \notin OpIds
  /\ NoAgent \notin Sessions \cup Servers
  /\ Sessions \cap Servers = {}
  /\ QueueLimit \in Nat \ {0}
  /\ Restarts \subseteq {"kept", "lost"}
  /\ {MaxCalls, MaxRestarts, MaxDrops, MaxCrashes, MaxLost} \subseteq Nat

VARIABLES
  keys,        \* the document's keys in Redis
  lock,        \* the agent whose token is in the lock key
  documents,   \* PostgreSQL's documents table: no row or one
  operations,  \* PostgreSQL's operations table
  queue,       \* queue[s]: pg_queue_
  inflight,    \* inflight[s]: the job between its two statements, if any
  mutex,       \* mutex[s]: the agent inside mutex_
  link,        \* link[s]: client_, "stale" when Redis ended a connection
               \* and no command has noticed yet
  pc, call,    \* where each agent is, and its locals
  happened,    \* how often each bounded event has happened
  acked,       \* history variable: the operations commit() returned
  kept         \* history variable: see Restart

redis == <<keys, lock>>
postgres == <<documents, operations>>
jobs == <<queue, inflight>>
ghosts == <<acked, kept>>
vars == <<redis, postgres, jobs, mutex, link, pc, call, happened, ghosts>>

Agents == Sessions \cup Servers
HostOf(a) == IF a \in Servers THEN a ELSE Host[a]

CommittedOp == [opId: OpIds, revision: Nat]

State(present, content, revision, history) ==
  [present |-> present, content |-> content, revision |-> revision,
   history |-> history]

NoKeys == State(FALSE, <<>>, 0, <<>>)
DefaultState == State(TRUE, <<>>, 0, <<>>)

Job(content, op) == [content |-> content, op |-> op]
NoJob == Job(<<>>, [opId |-> NoOp, revision |-> 0])

(* why: what the agent takes mutex_ for.  empty: what EXISTS said.         *)
(* loaded: what goes into Redis.  job: the outcome of commit().            *)
Call(why, id) ==
  [why |-> why, opId |-> id, empty |-> FALSE, loaded |-> NoKeys, job |-> NoJob]

Init ==
  /\ keys = NoKeys /\ lock = NoAgent
  /\ documents = {} /\ operations = {}
  /\ queue = [s \in Servers |-> <<>>] /\ inflight = [s \in Servers |-> {}]
  /\ mutex = [s \in Servers |-> NoAgent] /\ link = [s \in Servers |-> "up"]
  /\ pc = [a \in Agents |-> IF a \in Servers THEN "enter" ELSE "idle"]
  /\ call = [a \in Agents |-> Call(IF a \in Servers THEN "start" ELSE "commit", NoOp)]
  /\ happened = [calls |-> 0, restarts |-> 0, drops |-> 0, crashes |-> 0, lost |-> 0]
  /\ acked = {} /\ kept = <<>>

-----------------------------------------------------------------------------
Goto(a, label) == pc' = [pc EXCEPT ![a] = label]

Count(event, limit) ==
  /\ happened[event] < limit
  /\ happened' = [happened EXCEPT ![event] = @ + 1]

Ids(history) == [i \in DOMAIN history |-> history[i].opId]

(* HGET opids: what the last HSET for the opId stored, as a set.           *)
Existing(id) ==
  LET found == { i \in DOMAIN keys.history : keys.history[i].opId = id }
  IN  { keys.history[i] : i \in { j \in found : \A k \in found : k <= j } }

(* Where an agent is when its function has returned; a server that has     *)
(* started waits in subscribe_loop.                                        *)
Resting(a) == IF a \in Servers THEN "listening" ELSE "idle"
RestingCall(a) == Call(IF a \in Servers THEN "recover" ELSE "commit", NoOp)

Leave(a) ==
  /\ Goto(a, Resting(a))
  /\ call' = [call EXCEPT ![a] = RestingCall(a)]
  /\ mutex' = [mutex EXCEPT ![HostOf(a)] = NoAgent]

Started(s) == call[s].why = "recover"

-----------------------------------------------------------------------------
(* mutex_ and ensure_recovery_locked / ensure_initialized.                 *)

CommitCall(t, id) ==
  /\ pc[t] = "idle" /\ Started(Host[t])
  /\ Count("calls", MaxCalls)
  /\ call' = [call EXCEPT ![t] = Call("commit", id)]
  /\ Goto(t, "enter")
  /\ UNCHANGED <<redis, postgres, jobs, mutex, ghosts, link>>

(* The connection is made again when a command has found it broken.        *)
Enter(a) ==
  /\ pc[a] = "enter" /\ mutex[HostOf(a)] = NoAgent
  /\ mutex' = [mutex EXCEPT ![HostOf(a)] = a]
  /\ link' = [link EXCEPT ![HostOf(a)] = IF @ = "down" THEN "up" ELSE @]
  /\ Goto(a, "exists")
  /\ UNCHANGED <<redis, postgres, jobs, call, happened, ghosts>>

(* EXISTS is the first command on a stale connection: no later one of this *)
(* call has a connection either.  A session throws; a server loads from    *)
(* PostgreSQL for nothing.                                                 *)
ExistsFails(a) ==
  /\ pc[a] = "exists" /\ link[HostOf(a)] = "stale"
  /\ link' = [link EXCEPT ![HostOf(a)] = "down"]
  /\ Leave(a)
  /\ UNCHANGED <<redis, postgres, jobs, happened, ghosts>>

(* EXISTS doc:...:revision: nothing to do unless the reload is forced.     *)
ExistsSkips(a) ==
  /\ pc[a] = "exists" /\ link[HostOf(a)] = "up"
  /\ keys.present /\ call[a].why # "recover"
  /\ IF a \in Servers
     THEN Leave(a)
     ELSE Goto(a, "lookup") /\ UNCHANGED <<mutex, call>>
  /\ UNCHANGED <<redis, postgres, jobs, happened, ghosts, link>>

ExistsLoads(a) ==
  /\ pc[a] = "exists" /\ link[HostOf(a)] = "up"
  /\ ~keys.present \/ call[a].why = "recover"
  /\ call' = [call EXCEPT ![a].empty = ~keys.present]
  /\ Goto(a, IF call[a].why = "start" THEN "loadInit" ELSE "load")
  /\ UNCHANGED <<redis, postgres, jobs, mutex, happened, ghosts, link>>

(* PostgresStore's own mutex: load() and persist() of a server exclude     *)
(* each other.                                                             *)
Loading(s) ==
  \E a \in Agents : HostOf(a) = s /\ pc[a] \in {"loadOps", "loadInitOps"}

(* PostgresStore::load, first SELECT.  From "load" it decides between the  *)
(* reload and load_state_into_redis(false), which calls load() once more.  *)
LoadDocument(a) ==
  /\ pc[a] \in {"load", "loadInit"} /\ inflight[HostOf(a)] = {}
  /\ \E row \in documents :
       call' = [call EXCEPT ![a].loaded =
                  State(TRUE, row.content, row.revision, <<>>)]
  /\ Goto(a, IF pc[a] = "load" THEN "loadOps" ELSE "loadInitOps")
  /\ UNCHANGED <<redis, postgres, jobs, mutex, happened, ghosts, link>>

(* Mutant: ensure_recovery_locked without `if (redis_empty)' here. *)
LoadNothingStops(a) ==
  /\ pc[a] = "load" /\ documents = {} /\ inflight[HostOf(a)] = {}
  /\ IF a \in Servers
     THEN Leave(a)
     ELSE Goto(a, "lookup") /\ UNCHANGED <<mutex, call>>
  /\ UNCHANGED <<redis, postgres, jobs, happened, ghosts, link>>

LoadNothing(a) ==
  /\ pc[a] = "load" /\ documents = {} /\ inflight[HostOf(a)] = {}
  /\ IF call[a].empty
     THEN Goto(a, "loadInit") /\ UNCHANGED <<mutex, call>>
     ELSE Leave(a)
  /\ UNCHANGED <<redis, postgres, jobs, happened, ghosts, link>>

LoadDefault(a) ==
  /\ pc[a] = "loadInit" /\ documents = {} /\ inflight[HostOf(a)] = {}
  /\ call' = [call EXCEPT ![a].loaded = DefaultState]
  /\ Goto(a, "init")
  /\ UNCHANGED <<redis, postgres, jobs, mutex, happened, ghosts, link>>

(* SELECT ... ORDER BY revision ASC *)
ByRevision(rows) ==
  CHOOSE s \in [1 .. Cardinality(rows) -> rows] :
    \A i, j \in DOMAIN s : i < j => s[i].revision < s[j].revision

(* Mutant: ORDER BY revision DESC. *)
LoadOperationsBackwards(a) ==
  /\ pc[a] \in {"loadOps", "loadInitOps"}
  /\ call' = [call EXCEPT ![a].loaded.history = Reverse(ByRevision(operations))]
  /\ Goto(a, IF pc[a] = "loadOps" THEN "reload" ELSE "init")
  /\ UNCHANGED <<redis, postgres, jobs, mutex, happened, ghosts, link>>

(* PostgresStore::load, second SELECT. *)
LoadOperations(a) ==
  /\ pc[a] \in {"loadOps", "loadInitOps"}
  /\ call' = [call EXCEPT ![a].loaded.history = ByRevision(operations)]
  /\ Goto(a, IF pc[a] = "loadOps" THEN "reload" ELSE "init")
  /\ UNCHANGED <<redis, postgres, jobs, mutex, happened, ghosts, link>>

(* After the script a session goes on with its commit.                     *)
Recovered(a) ==
  IF a \in Servers
  THEN Leave(a)
  ELSE /\ Goto(a, "lookup")
       /\ call' = [call EXCEPT ![a] = Call("commit", @.opId)]
       /\ UNCHANGED mutex

(* Mutant: kLuaInitState without its EXISTS. *)
InitStateAlways(a) ==
  /\ pc[a] = "init"
  /\ keys' = call[a].loaded
  /\ Recovered(a)
  /\ UNCHANGED <<lock, postgres, jobs, happened, ghosts, link>>

(* kLuaInitState *)
InitState(a) ==
  /\ pc[a] = "init"
  /\ keys' = IF keys.present THEN keys ELSE call[a].loaded
  /\ Recovered(a)
  /\ UNCHANGED <<lock, postgres, jobs, happened, ghosts, link>>

(* kLuaReloadState *)
ReloadState(a) ==
  /\ pc[a] = "reload"
  /\ keys' = call[a].loaded
  /\ Recovered(a)
  /\ UNCHANGED <<lock, postgres, jobs, happened, ghosts, link>>

-----------------------------------------------------------------------------
(* commit()                                                                *)

(* The look-up finds the opId: an early return, nothing is queued.         *)
LookupFound(t) ==
  /\ pc[t] = "lookup"
  /\ Existing(call[t].opId) # {}
  /\ acked' = acked \cup Existing(call[t].opId)
  /\ Leave(t)
  /\ UNCHANGED <<redis, postgres, jobs, happened, kept, link>>

(* Mutant: the document is taken before the operation is applied to it. *)
ReadKeysStale(t) ==
  /\ pc[t] = "lookup"
  /\ Existing(call[t].opId) = {} /\ lock = NoAgent
  /\ lock' = t
  /\ call' = [call EXCEPT ![t].job =
                Job(keys.content,
                    [opId |-> call[t].opId, revision |-> keys.revision + 1])]
  /\ Goto(t, "write")
  /\ UNCHANGED <<keys, postgres, jobs, mutex, happened, ghosts, link>>

(* acquire_lock, the second look-up, the GETs, transform and apply.        *)
ReadKeys(t) ==
  LET id == call[t].opId
  IN  /\ pc[t] = "lookup"
      /\ Existing(id) = {} /\ lock = NoAgent
      /\ lock' = t
      /\ call' = [call EXCEPT ![t].job =
                    Job(Append(keys.content, id),
                        [opId |-> id, revision |-> keys.revision + 1])]
      /\ Goto(t, "write")
      /\ UNCHANGED <<keys, postgres, jobs, mutex, happened, ghosts, link>>

(* "could not acquire redis document lock"                                 *)
GiveUp(t) ==
  /\ pc[t] = "lookup"
  /\ Existing(call[t].opId) = {} /\ lock # NoAgent
  /\ Leave(t)
  /\ UNCHANGED <<redis, postgres, jobs, happened, ghosts, link>>

(* kLuaCommitOp: what it returns, and the keys it leaves.                  *)
Committed(t) ==
  LET job == call[t].job
  IN  IF Existing(job.op.opId) # {} THEN Existing(job.op.opId) ELSE {job.op}

CommitScript(t) ==
  LET job == call[t].job
  IN  keys' = IF Existing(job.op.opId) # {}
              THEN keys
              ELSE State(TRUE, job.content, job.op.revision,
                         Append(keys.history, job.op))

(* The script, release_lock and the end of mutex_.                         *)
WriteKeys(t) ==
  /\ pc[t] = "write"
  /\ CommitScript(t)
  /\ lock' = IF lock = t THEN NoAgent ELSE lock
  /\ \E op \in Committed(t) : call' = [call EXCEPT ![t].job.op = op]
  /\ mutex' = [mutex EXCEPT ![Host[t]] = NoAgent]
  /\ Goto(t, "enqueue")
  /\ UNCHANGED <<postgres, jobs, happened, ghosts, link>>

(* The reply is lost: an exception, the lock stays until its lease ends    *)
(* and nothing is queued.                                                  *)
LoseWriteReply(t) ==
  /\ pc[t] = "write" /\ Count("lost", MaxLost)
  /\ CommitScript(t)
  /\ link' = [link EXCEPT ![Host[t]] = "down"]
  /\ Leave(t)
  /\ UNCHANGED <<lock, postgres, jobs, ghosts>>

LockExpires ==
  /\ lock # NoAgent /\ pc[lock] # "write"
  /\ lock' = NoAgent
  /\ UNCHANGED <<keys, postgres, jobs, mutex, pc, call, happened, ghosts, link>>

(* Mutant: a new job replaces the one that waits. *)
EnqueuePersistLatest(t) ==
  /\ pc[t] = "enqueue"
  /\ queue' = [queue EXCEPT ![Host[t]] = <<call[t].job>>]
  /\ acked' = acked \cup {call[t].job.op}
  /\ Goto(t, "idle")
  /\ call' = [call EXCEPT ![t] = RestingCall(t)]
  /\ UNCHANGED <<redis, postgres, inflight, mutex, happened, kept, link>>

(* Mutant: the bound is looked at before the push. *)
EnqueuePersistUnbounded(t) ==
  LET before == queue[Host[t]]
      bounded == IF Len(before) > QueueLimit THEN Tail(before) ELSE before
  IN  /\ pc[t] = "enqueue"
      /\ queue' = [queue EXCEPT ![Host[t]] = Append(bounded, call[t].job)]
      /\ acked' = acked \cup {call[t].job.op}
      /\ Goto(t, "idle")
      /\ call' = [call EXCEPT ![t] = RestingCall(t)]
      /\ UNCHANGED <<redis, postgres, inflight, mutex, happened, kept, link>>

(* enqueue_persist, under pg_mutex_ only, and the return of commit().      *)
EnqueuePersist(t) ==
  LET longer == Append(queue[Host[t]], call[t].job)
  IN  /\ pc[t] = "enqueue"
      /\ queue' = [queue EXCEPT ![Host[t]] =
                     IF Len(longer) > QueueLimit THEN Tail(longer) ELSE longer]
      /\ acked' = acked \cup {call[t].job.op}
      /\ Goto(t, "idle")
      /\ call' = [call EXCEPT ![t] = RestingCall(t)]
      /\ UNCHANGED <<redis, postgres, inflight, mutex, happened, kept, link>>

-----------------------------------------------------------------------------
(* pg_worker_loop and PostgresStore::persist: two statements.              *)

UpsertDocument(s) ==
  /\ inflight[s] = {} /\ queue[s] # <<>> /\ ~Loading(s)
  /\ LET job == Head(queue[s])
     IN  /\ documents' = {[content |-> job.content, revision |-> job.op.revision]}
         /\ inflight' = [inflight EXCEPT ![s] = {job}]
  /\ queue' = [queue EXCEPT ![s] = Tail(@)]
  /\ UNCHANGED <<redis, operations, mutex, pc, call, happened, ghosts, link>>

(* ON CONFLICT(document_id, revision) DO NOTHING                           *)
InsertOperation(s) ==
  /\ \E job \in inflight[s] :
       operations' = IF \E o \in operations : o.revision = job.op.revision
                     THEN operations
                     ELSE operations \cup {job.op}
  /\ inflight' = [inflight EXCEPT ![s] = {}]
  /\ UNCHANGED <<redis, documents, queue, mutex, pc, call, happened, ghosts, link>>

-----------------------------------------------------------------------------
(* Failures.                                                               *)

InMutex(a) == mutex[HostOf(a)] = a

(* Redis has never restarted, no subscriber has reconnected, and           *)
(* PostgreSQL has all that is in Redis.  After a reconnect a job of an     *)
(* operation that the reload took back may still be queued, and what it    *)
(* writes replaces the document's row.                                     *)
Complete ==
  /\ happened.restarts = 0 /\ happened.drops = 0
  /\ Ids(keys.history) = keys.content
  /\ documents = {[content |-> keys.content, revision |-> keys.revision]}
  /\ operations = { keys.history[i] : i \in DOMAIN keys.history }

(* Redis restarts, with its data (docker compose stop and start) or        *)
(* without (a new pod).  Connections break: a session inside mutex_ gets   *)
(* an error and throws; a server inside it, or waiting in subscribe_loop,  *)
(* ends in on_redis_recovered(), except that start() ignores the error.    *)
(* A server's client_ is down if a command found it broken meanwhile.      *)
(* `kept' becomes what PostgreSQL was complete with when the data went.    *)
Restart(how) ==
  /\ link' \in [Servers -> {"stale", "down"}]
  /\ \A s \in Servers :
       link[s] = "down" \/ mutex[s] # NoAgent => link'[s] = "down"
  /\ Count("restarts", MaxRestarts)
  /\ keys' = IF how = "lost" THEN NoKeys ELSE keys
  /\ lock' = IF how = "lost" THEN NoAgent ELSE lock
  /\ mutex' = [s \in Servers |-> NoAgent]
  /\ pc' = [a \in Agents |->
              CASE a \in Sessions /\ InMutex(a) -> "idle"
                [] a \in Servers /\ Started(a) -> "enter"
                [] a \in Servers /\ ~Started(a) /\ InMutex(a) -> "listening"
                [] OTHER -> pc[a]]
  /\ call' = [a \in Agents |->
                IF InMutex(a) THEN RestingCall(a) ELSE call[a]]
  /\ kept' = IF how = "lost" /\ keys.present /\ Complete THEN keys.history ELSE kept
  /\ UNCHANGED <<postgres, jobs, acked>>

(* The subscriber's connection breaks; Redis is well.                      *)
DropSubscriber(s) ==
  /\ pc[s] = "listening"
  /\ Count("drops", MaxDrops)
  /\ Goto(s, "enter")
  /\ UNCHANGED <<redis, postgres, jobs, mutex, call, ghosts, link>>

(* The process ends, at once or on a SIGTERM, which main() does not handle *)
(* either, and starts again.                                               *)
Crash(s) ==
  /\ Count("crashes", MaxCrashes)
  /\ queue' = [queue EXCEPT ![s] = <<>>]
  /\ inflight' = [inflight EXCEPT ![s] = {}]
  /\ mutex' = [mutex EXCEPT ![s] = NoAgent]
  /\ link' = [link EXCEPT ![s] = "up"]
  /\ pc' = [a \in Agents |->
              IF a = s THEN "enter" ELSE IF HostOf(a) = s THEN "idle" ELSE pc[a]]
  /\ call' = [a \in Agents |->
                IF a = s THEN Call("start", NoOp)
                ELSE IF HostOf(a) = s THEN RestingCall(a) ELSE call[a]]
  /\ UNCHANGED <<redis, postgres, ghosts>>

-----------------------------------------------------------------------------
Recovering(a) ==
  \/ Enter(a)
  \/ ExistsFails(a) \/ ExistsSkips(a) \/ ExistsLoads(a)
  \/ LoadDocument(a) \/ LoadNothing(a) \/ LoadDefault(a) \/ LoadOperations(a)
  \/ InitState(a) \/ ReloadState(a)

Committing(t) ==
  \/ LookupFound(t) \/ ReadKeys(t) \/ GiveUp(t)
  \/ WriteKeys(t) \/ EnqueuePersist(t)

Persisting(s) == UpsertDocument(s) \/ InsertOperation(s)

Next ==
  \/ \E a \in Agents : Recovering(a)
  \/ \E t \in Sessions :
       \/ \E id \in OpIds : CommitCall(t, id)
       \/ Committing(t)
       \/ LoseWriteReply(t)
  \/ \E s \in Servers : Persisting(s) \/ DropSubscriber(s) \/ Crash(s)
  \/ \E how \in Restarts : Restart(how)
  \/ LockExpires

Spec == Init /\ [][Next]_vars

-----------------------------------------------------------------------------
Labels ==
  {"idle", "listening", "enter", "exists", "load", "loadInit", "loadOps",
   "loadInitOps", "init", "reload", "lookup", "write", "enqueue"}

StateRecord ==
  [present: BOOLEAN, content: Seq(OpIds), revision: Nat, history: Seq(CommittedOp)]

JobRecord ==
  [content: Seq(OpIds), op: [opId: OpIds \cup {NoOp}, revision: Nat]]

(* The types, and that the tables keep what their constraints say.         *)
TypeOK ==
  /\ keys \in StateRecord
  /\ lock \in Agents \cup {NoAgent}
  /\ documents \in SUBSET [content: Seq(OpIds), revision: Nat]
  /\ Cardinality(documents) <= 1
  /\ operations \in SUBSET CommittedOp
  /\ \A o, p \in operations : o.revision = p.revision => o = p
  /\ queue \in [Servers -> Seq(JobRecord)]
  /\ \A s \in Servers : Len(queue[s]) <= QueueLimit
  /\ inflight \in [Servers -> SUBSET JobRecord]
  /\ mutex \in [Servers -> Agents \cup {NoAgent}]
  /\ link \in [Servers -> {"up", "stale", "down"}]
  /\ pc \in [Agents -> Labels]
  /\ call \in [Agents -> [why: {"start", "recover", "commit"},
                          opId: OpIds \cup {NoOp}, empty: BOOLEAN,
                          loaded: StateRecord, job: JobRecord]]
  /\ acked \in SUBSET CommittedOp
  /\ kept \in Seq(CommittedOp)

(* "Redis is the hot-path source of truth" (redis_store.hpp): whoever      *)
(* starts or crashes meanwhile, no step takes a committed operation back.  *)
(* True as long as Redis does not restart and no subscriber reconnects.    *)
CommitsAreKept == [][IsPrefix(keys.history, keys'.history)]_keys

(* What PostgreSQL holds is part of the log: the document's row is the     *)
(* document of the revision it names, and every operation's row is that    *)
(* operation, in whatever order the servers' workers write them.           *)
PersistedMatches ==
  /\ \A row \in documents :
       row.content = SubSeq(Ids(keys.history), 1, row.revision)
  /\ operations \subseteq { keys.history[i] : i \in DOMAIN keys.history }

Quiet ==
  /\ \A t \in Sessions : pc[t] = "idle"
  /\ \A s \in Servers : queue[s] = <<>> /\ inflight[s] = {}

NoFailures ==
  happened.restarts + happened.drops + happened.crashes + happened.lost = 0

(* When nothing failed and the queues are empty every committed operation  *)
(* has its row, whichever server committed it.                             *)
HistoryPersisted ==
  Quiet /\ NoFailures =>
    operations = { keys.history[i] : i \in DOMAIN keys.history }

(* What PostgreSQL was complete with (Complete) when Redis first lost its  *)
(* data is there again, at the same revisions, whenever Redis has a        *)
(* document, whoever reloads it, in whatever order and across further      *)
(* restarts and reconnects, and a retry of it does not commit again.       *)
PersistedSurvives ==
  keys.present =>
    /\ IsPrefix(kept, keys.history)
    /\ IsPrefix(Ids(kept), keys.content)
    /\ \A i \in DOMAIN kept, j \in DOMAIN keys.history :
         kept[i].opId = keys.history[j].opId => i = j

(* No commit works on the document and revision that the code falls back   *)
(* on when Redis has none.                                                 *)
CommitsFindDocument ==
  \A t \in Sessions : pc[t] \in {"lookup", "write"} => keys.present

=============================================================================

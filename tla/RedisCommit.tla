---------------------------- MODULE RedisCommit ----------------------------
(***************************************************************************)
(* RedisStore::commit and RedisStore::snapshot (src/redis_store.hpp) with  *)
(* the Lua scripts they run (src/redis_lua.hpp), on several servers that   *)
(* share one Redis.  No PostgreSQL is configured (postgres_ is null) and   *)
(* Redis keeps its keys.                                                   *)
(*                                                                         *)
(* A thread is a session of some server.  It holds the server's mutex_     *)
(* for the whole of the call; each Redis command is one atomic step, and   *)
(* between two of them the other servers run.                              *)
(*                                                                         *)
(* renew_lock only extends the lease of a lock that is still the caller's  *)
(* and its reply is ignored, so it has no step: when the lease may end is  *)
(* LeaseExpires.                                                           *)
(***************************************************************************)
EXTENDS CommitLog, FiniteSets

CONSTANTS
  Servers, Threads,
  Host,            \* Host[t] is the server thread t belongs to
  NoOp, NoThread,
  LeaseMayLapse,   \* may a lease end while its holder is still at work?
  Attempts,        \* kLockAcquireAttempts
  MaxCalls,        \* bound: calls to the store
  MaxFaults        \* bound: lost connections

ASSUME CommitAssumption ==
  /\ Host \in [Threads -> Servers]
  /\ NoOp \notin OpIds
  /\ NoThread \notin Threads
  /\ LeaseMayLapse \in BOOLEAN
  /\ Attempts \in Nat \ {0}
  /\ MaxCalls \in Nat
  /\ MaxFaults \in Nat

VARIABLES
  content, revision, history, opids,   \* the document's keys in Redis
  lock,        \* the token in the lock key, NoToken when there is no key
  published,   \* every message ever sent on the channel, oldest first
  mutex,       \* mutex[s]: the thread inside server s's mutex_
  pc, call,    \* where each thread is in its call, and its local variables
  clock,       \* calls so far; steady_clock, whose reading is the token
  faults,      \* connections lost so far
  acked,       \* history variable: what commit() has returned
  snapshots    \* history variable: what snapshot() has returned

redisData == <<content, revision, history, opids, published>>
redis == <<redisData, lock>>
vars == <<redis, mutex, pc, call, clock, faults, acked, snapshots>>

NoToken == 0

(* The locals of a call: `doc', `cur' and `over' are what the GETs and the *)
(* LRANGE returned, `result' holds the operation to return once known.     *)
Call(id, base, token) ==
  [opId |-> id, base |-> base, token |-> token, tries |-> 0,
   doc |-> <<>>, cur |-> 0, over |-> <<>>, result |-> {}]

NoCall == Call(NoOp, 0, NoToken)

Init ==
  /\ content = <<>> /\ revision = 0 /\ history = <<>> /\ opids = {}
  /\ published = <<>>
  /\ lock = NoToken
  /\ mutex = [s \in Servers |-> NoThread]
  /\ pc = [t \in Threads |-> "idle"]
  /\ call = [t \in Threads |-> NoCall]
  /\ clock = 0 /\ faults = 0
  /\ acked = {} /\ snapshots = {}

-----------------------------------------------------------------------------
(* The pieces of a call.                                                   *)

Goto(t, label) == pc' = [pc EXCEPT ![t] = label]

(* Leaving the function releases mutex_ on every path.                     *)
Leave(t) ==
  /\ Goto(t, "idle")
  /\ call' = [call EXCEPT ![t] = NoCall]
  /\ mutex' = [mutex EXCEPT ![Host[t]] = NoThread]

Return(t, result) == Leave(t) /\ acked' = acked \cup result
Throw(t)          == Leave(t) /\ UNCHANGED acked

(* The reply of HGET doc:...:opids <opId>, {} for nil.                     *)
Existing(id) == { e \in opids : e.opId = id }

Fault == faults < MaxFaults /\ faults' = faults + 1

-----------------------------------------------------------------------------
(* commit(op)                                                              *)

(* The op of a client that has seen some revision up to the current one.   *)
CommitCall(t, id, base) ==
  /\ pc[t] = "idle" /\ clock < MaxCalls
  /\ clock' = clock + 1
  /\ call' = [call EXCEPT ![t] = Call(id, base, clock + 1)]
  /\ Goto(t, "enter")
  /\ UNCHANGED <<redis, mutex, faults, acked, snapshots>>

(* Take mutex_; ensure_recovery_locked reconnects when it has to, finds    *)
(* the revision key and returns.                                           *)
Enter(t, from, to) ==
  /\ pc[t] = from
  /\ mutex[Host[t]] = NoThread
  /\ mutex' = [mutex EXCEPT ![Host[t]] = t]
  /\ Goto(t, to)
  /\ UNCHANGED <<redis, call, clock, faults, acked, snapshots>>

EnterCommit(t) == Enter(t, "enter", "lookup")

LookupFound(t) ==
  /\ pc[t] = "lookup"
  /\ Existing(call[t].opId) # {}
  /\ Return(t, Existing(call[t].opId))
  /\ UNCHANGED <<redis, clock, faults, snapshots>>

LookupMissing(t) ==
  /\ pc[t] = "lookup"
  /\ Existing(call[t].opId) = {}
  /\ Goto(t, "acquire")
  /\ UNCHANGED <<redis, mutex, call, clock, faults, acked, snapshots>>

(* Mutant: SET without NX. *)
AcquireOverwriting(t) ==
  /\ pc[t] = "acquire"
  /\ lock' = call[t].token
  /\ Goto(t, "recheck")
  /\ UNCHANGED <<redisData, mutex, call, clock, faults, acked, snapshots>>

(* kLuaAcquireLock: SET lock token NX PX ttl.                              *)
Acquire(t) ==
  /\ pc[t] = "acquire"
  /\ lock = NoToken
  /\ lock' = call[t].token
  /\ Goto(t, "recheck")
  /\ UNCHANGED <<redisData, mutex, call, clock, faults, acked, snapshots>>

(* Mutant: the attempts are not counted. *)
AcquireForever(t) ==
  /\ pc[t] = "acquire"
  /\ lock # NoToken
  /\ UNCHANGED vars

AcquireRetry(t) ==
  /\ pc[t] = "acquire"
  /\ lock # NoToken /\ call[t].tries + 1 < Attempts
  /\ call' = [call EXCEPT ![t].tries = @ + 1]
  /\ UNCHANGED <<redis, mutex, pc, clock, faults, acked, snapshots>>

(* "could not acquire redis document lock"                                 *)
AcquireGiveUp(t) ==
  /\ pc[t] = "acquire"
  /\ lock # NoToken /\ call[t].tries + 1 = Attempts
  /\ Throw(t)
  /\ UNCHANGED <<redis, clock, faults, snapshots>>

(* Mutant: the early return forgets release_lock. *)
RecheckFoundKeepsLock(t) ==
  /\ pc[t] = "recheck"
  /\ Existing(call[t].opId) # {}
  /\ Return(t, Existing(call[t].opId))
  /\ UNCHANGED <<redis, clock, faults, snapshots>>

(* The second HGET, now under the lock.                                    *)
RecheckFound(t) ==
  /\ pc[t] = "recheck"
  /\ Existing(call[t].opId) # {}
  /\ call' = [call EXCEPT ![t].result = Existing(call[t].opId)]
  /\ Goto(t, "release")
  /\ UNCHANGED <<redis, mutex, clock, faults, acked, snapshots>>

RecheckMissing(t) ==
  /\ pc[t] = "recheck"
  /\ Existing(call[t].opId) = {}
  /\ Goto(t, "content")
  /\ UNCHANGED <<redis, mutex, call, clock, faults, acked, snapshots>>

GetContent(t) ==
  /\ pc[t] = "content"
  /\ call' = [call EXCEPT ![t].doc = content]
  /\ Goto(t, "revision")
  /\ UNCHANGED <<redis, mutex, clock, faults, acked, snapshots>>

GetRevision(t) ==
  /\ pc[t] = "revision"
  /\ call' = [call EXCEPT ![t].cur = revision]
  /\ Goto(t, "history")
  /\ UNCHANGED <<redis, mutex, clock, faults, acked, snapshots>>

(* Mutant: LRANGE starts one operation late. *)
GetHistoryLate(t) ==
  LET reach == StartOf(call[t].cur, Len(history))
  IN  /\ pc[t] = "history"
      /\ call' = [call EXCEPT ![t].over =
                    IF call[t].base < call[t].cur
                    THEN Ids(SubSeq(history, call[t].base + 2, reach))
                    ELSE <<>>]
      /\ Goto(t, "commit")
      /\ UNCHANGED <<redis, mutex, clock, faults, acked, snapshots>>

(* LRANGE start cur-1, which stops at the end of the list; the loop over   *)
(* transform, clamp and apply follow.                                      *)
GetHistory(t) ==
  LET reach == StartOf(call[t].cur, Len(history))
  IN  /\ pc[t] = "history"
      /\ call' = [call EXCEPT ![t].over =
                    IF call[t].base < call[t].cur
                    THEN Ids(SubSeq(history, call[t].base + 1, reach))
                    ELSE <<>>]
      /\ Goto(t, "commit")
      /\ UNCHANGED <<redis, mutex, clock, faults, acked, snapshots>>

(* Mutant: the script does not look the opId up. *)
CommitScriptBlind(t) ==
  LET c  == call[t]
      op == Entry(c.opId, c.base, c.cur + 1, c.over)
  IN  /\ content' = Append(c.doc, c.opId)
      /\ revision' = c.cur + 1
      /\ history' = Append(history, op)
      /\ opids' = (opids \ Existing(c.opId)) \cup {op}
      /\ published' = Append(published, op)

(* Mutant: the revision counts down. *)
CommitScriptDown(t) ==
  LET c  == call[t]
      op == Entry(c.opId, c.base, c.cur - 1, c.over)
  IN  IF Existing(c.opId) # {}
      THEN UNCHANGED redisData
      ELSE /\ content' = Append(c.doc, c.opId)
           /\ revision' = c.cur - 1
           /\ history' = Append(history, op)
           /\ opids' = opids \cup {op}
           /\ published' = Append(published, op)

(* kLuaCommitOp: the look-up by opId, the four writes and the PUBLISH.     *)
CommitScript(t) ==
  LET c  == call[t]
      op == Entry(c.opId, c.base, c.cur + 1, c.over)
  IN  IF Existing(c.opId) # {}
      THEN UNCHANGED redisData
      ELSE /\ content' = Append(c.doc, c.opId)
           /\ revision' = c.cur + 1
           /\ history' = Append(history, op)
           /\ opids' = opids \cup {op}
           /\ published' = Append(published, op)

EvalCommit(t) ==
  /\ pc[t] = "commit"
  /\ CommitScript(t)
  /\ call' = [call EXCEPT ![t].result = { e \in opids' : e.opId = call[t].opId }]
  /\ Goto(t, "release")
  /\ UNCHANGED <<lock, mutex, clock, faults, acked, snapshots>>

(* Mutant: the error reply is taken for a commit. *)
CommitRejectedUnnoticed(t) ==
  LET c == call[t]
  IN  /\ pc[t] = "commit"
      /\ call' = [call EXCEPT ![t].result =
                    {Entry(c.opId, c.base, c.cur + 1, c.over)}]
      /\ Goto(t, "release")
      /\ UNCHANGED <<redis, mutex, clock, faults, acked, snapshots>>

(* Mutant: the exception leaves without the catch block. *)
CommitRejectedKeepsLock(t) ==
  /\ pc[t] = "commit"
  /\ Throw(t)
  /\ UNCHANGED <<redis, clock, faults, snapshots>>

(* Redis answers the EVAL with an error, any number of times: the catch    *)
(* block releases.                                                         *)
CommitRejected(t) ==
  /\ pc[t] = "commit"
  /\ Goto(t, "release")
  /\ UNCHANGED <<redis, mutex, call, clock, faults, acked, snapshots>>

(* kLuaReleaseLock: DEL if the token is still ours.  With no result this   *)
(* is the release of the catch block, and the call throws.                 *)
Release(t) ==
  /\ pc[t] = "release"
  /\ lock' = IF lock = call[t].token THEN NoToken ELSE lock
  /\ Return(t, call[t].result)
  /\ UNCHANGED <<redisData, clock, faults, snapshots>>

-----------------------------------------------------------------------------
(* snapshot(): two GETs under mutex_, without the lock.                    *)

SnapshotCall(t) ==
  /\ pc[t] = "idle" /\ clock < MaxCalls
  /\ clock' = clock + 1
  /\ Goto(t, "snapEnter")
  /\ UNCHANGED <<redis, mutex, call, faults, acked, snapshots>>

EnterSnapshot(t) == Enter(t, "snapEnter", "snapContent")

SnapshotContent(t) ==
  /\ pc[t] = "snapContent"
  /\ call' = [call EXCEPT ![t].doc = content]
  /\ Goto(t, "snapRevision")
  /\ UNCHANGED <<redis, mutex, clock, faults, acked, snapshots>>

SnapshotRevision(t) ==
  /\ pc[t] = "snapRevision"
  /\ snapshots' = snapshots \cup {[document |-> call[t].doc, revision |-> revision]}
  /\ Throw(t)
  /\ UNCHANGED <<redis, clock, faults>>

-----------------------------------------------------------------------------
(* Faults.  A command on a broken connection returns an error, and so does *)
(* every later one of the same call: only ensure_recovery_locked, at the   *)
(* start of the next call, reconnects.                                     *)

(* The connection breaks before the command reaches Redis, or while the    *)
(* reply of a read travels.  Up to the commit script the call ends in an   *)
(* exception with nothing more sent; the reply of the release is ignored.  *)
LoseConnection(t) ==
  /\ pc[t] \in {"lookup", "acquire", "recheck", "content", "revision",
                "history", "commit", "release"}
  /\ Fault
  /\ IF pc[t] = "release" THEN Return(t, call[t].result) ELSE Throw(t)
  /\ UNCHANGED <<redis, clock, snapshots>>

(* The lock is taken, and nobody knows.                                    *)
LoseAcquireReply(t) ==
  /\ pc[t] = "acquire" /\ Fault
  /\ lock = NoToken
  /\ lock' = call[t].token
  /\ Throw(t)
  /\ UNCHANGED <<redisData, clock, snapshots>>

(* The operation is committed and published, and the caller gets an error. *)
LoseCommitReply(t) ==
  /\ pc[t] = "commit" /\ Fault
  /\ CommitScript(t)
  /\ Throw(t)
  /\ UNCHANGED <<lock, clock, snapshots>>

(* snapshot() takes an error for a missing key: the default document, or   *)
(* revision 0.                                                             *)
LoseSnapshotReply(t) ==
  /\ pc[t] \in {"snapContent", "snapRevision"}
  /\ Fault
  /\ snapshots' = snapshots \cup
       {[document |-> IF pc[t] = "snapContent" THEN <<>> ELSE call[t].doc,
         revision |-> 0]}
  /\ Throw(t)
  /\ UNCHANGED <<redis, clock>>

Holding(t) ==
  pc[t] \in {"recheck", "content", "revision", "history", "commit", "release"}

(* The lock key's PX runs out.  Unless LeaseMayLapse, only after the call  *)
(* that took the lock has ended: the 30 s lease outlives any call.         *)
LeaseExpires ==
  /\ lock # NoToken
  /\ LeaseMayLapse \/ \A t \in Threads : Holding(t) => call[t].token # lock
  /\ lock' = NoToken
  /\ UNCHANGED <<redisData, mutex, pc, call, clock, faults, acked, snapshots>>

-----------------------------------------------------------------------------
Progress(t) ==
  \/ EnterCommit(t)
  \/ LookupFound(t) \/ LookupMissing(t)
  \/ Acquire(t) \/ AcquireRetry(t) \/ AcquireGiveUp(t)
  \/ RecheckFound(t) \/ RecheckMissing(t)
  \/ GetContent(t) \/ GetRevision(t) \/ GetHistory(t)
  \/ EvalCommit(t)
  \/ Release(t)
  \/ EnterSnapshot(t) \/ SnapshotContent(t) \/ SnapshotRevision(t)

Faulty(t) ==
  \/ CommitRejected(t)
  \/ LoseConnection(t)
  \/ LoseAcquireReply(t) \/ LoseCommitReply(t) \/ LoseSnapshotReply(t)

Next ==
  \/ \E t \in Threads :
       \/ \E id \in OpIds, base \in 0 .. revision : CommitCall(t, id, base)
       \/ SnapshotCall(t)
       \/ Progress(t)
       \/ Faulty(t)
  \/ LeaseExpires

Spec == Init /\ [][Next]_vars

(* A thread inside a call keeps running: neither mutex_ nor the lock is    *)
(* waited for forever, sleep_ms ends and a TCP error surfaces.             *)
FairSpec == Spec /\ \A t \in Threads : WF_vars(Progress(t))

-----------------------------------------------------------------------------
Labels ==
  {"idle", "enter", "lookup", "acquire", "recheck", "content", "revision",
   "history", "commit", "release", "snapEnter", "snapContent", "snapRevision"}

CallRecord ==
  [opId: OpIds \cup {NoOp}, base: Nat, token: Nat, tries: Nat,
   doc: Seq(OpIds), cur: Nat, over: Seq(OpIds), result: SUBSET CommittedOp]

TypeOK ==
  /\ content \in Seq(OpIds) /\ revision \in Nat
  /\ history \in Seq(CommittedOp) /\ published \in Seq(CommittedOp)
  /\ opids \in SUBSET CommittedOp
  /\ lock \in Nat
  /\ mutex \in [Servers -> Threads \cup {NoThread}]
  /\ pc \in [Threads -> Labels]
  /\ call \in [Threads -> CallRecord]
  /\ clock \in Nat /\ faults \in Nat
  /\ acked \in SUBSET CommittedOp
  /\ snapshots \in SUBSET [document: Seq(OpIds), revision: Nat]

(* "Duplicate opId (idempotency): same revision returned twice" (README):  *)
(* whatever two servers, retries, lost replies and lapsed leases do, every *)
(* call that returns for one opId returns the same operation.              *)
Idempotent == \A a, b \in acked : a.opId = b.opId => a = b

(* No operation enters the history, or goes out on the channel, twice:     *)
(* this needs only the look-up inside kLuaCommitOp, not the lock.          *)
AtMostOnce ==
  /\ \A i, j \in DOMAIN history : history[i].opId = history[j].opId => i = j
  /\ \A i, j \in DOMAIN published : published[i].opId = published[j].opId => i = j

(* While leases last, one thread at a time is between acquire_lock and     *)
(* release_lock, among all the servers.                                    *)
MutualExclusion ==
  \A t, u \in Threads : Holding(t) /\ Holding(u) => t = u

(* While leases last, the four keys describe one log: the revision counts  *)
(* it, each operation was transformed over exactly what was committed      *)
(* after its base, and the document includes all of it in order, although  *)
(* commit() reads the keys one by one and writes what it computed from     *)
(* them later.                                                             *)
LogIntegrity ==
  /\ revision = Len(history)
  /\ content = Ids(history)
  /\ opids = { history[i] : i \in DOMAIN history }
  /\ WellFormed(history)

(* An operation whose caller got an answer stays in the document, at the   *)
(* revision the answer named.                                              *)
AckedIsCommitted ==
  \A a \in acked :
    /\ a.revision \in DOMAIN history
    /\ history[a.revision] = a
    /\ content[a.revision] = a.opId

(* While no connection breaks no call leaves the lock behind: not at its   *)
(* end, the early return or the exception of a rejected commit script.     *)
LockReleased ==
  faults = 0 /\ (\A t \in Threads : pc[t] = "idle") => lock = NoToken

(* A snapshot's document is that of a revision that was current, never of  *)
(* a later one than the revision returned with it (the GETs are in that    *)
(* order) - unless that is the 0 which stands for an error reply.          *)
SnapshotNeverAhead ==
  \A s \in snapshots :
    /\ s.document = SubSeq(Ids(history), 1, Len(s.document))
    /\ s.revision # 0 => Len(s.document) <= s.revision
    /\ s.revision <= Len(history)

(* The keys of the document are those of the abstract store.               *)
Store == INSTANCE DocumentStore WITH document <- content, log <- history
ImplementsStore == Store!Spec

(* Whatever the other servers do, and even when a lock is left behind,     *)
(* every call returns or throws.                                           *)
EveryCallReturns ==
  \A t \in Threads : pc[t] # "idle" ~> pc[t] = "idle"

=============================================================================

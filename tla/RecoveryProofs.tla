--------------------------- MODULE RecoveryProofs ---------------------------
(***************************************************************************)
(* What Recovery promises, proved for any number of servers, threads,      *)
(* operations and faults.                                                  *)
(*                                                                         *)
(*   RecoveryTypes           the types and the limit of the queues         *)
(*   CommitsFindTheDocument  a commit works on a document that Redis has   *)
(*   RowsAreOfTheLog         PostgreSQL holds parts of the log             *)
(*   CommitsStay             a commit stays in the log                     *)
(*   NothingIsLost           and gets to PostgreSQL                        *)
(*   RecoveryGivesBack       what it was complete with comes back          *)
(*                                                                         *)
(* TypeInv and FindInv hold always: the second says what a thread knows    *)
(* at each label inside the server's mutex.  CalmInv holds until Redis     *)
(* restarts or a subscriber reconnects (Undisturbed): log, document and    *)
(* rows are all of one log, and each document anywhere is a prefix of it.  *)
(* NothingLost holds while nothing fails at all: each operation of the log *)
(* has its row, its job or a thread about to queue it.  KeptInv starts     *)
(* where CalmInv ends: while `kept' is empty there is nothing to show; it  *)
(* is set by a loss of data before which nothing was disturbed.  After it, *)
(* a document anywhere (in Redis, in the table, in a job, loaded by an     *)
(* agent) starts with what was kept, and an operation anywhere is one of   *)
(* the kept ones or comes after them.                                      *)
(***************************************************************************)
EXTENDS Recovery, InductionLemmas, SequenceTheorems

CallRecord ==
  [why: {"start", "recover", "commit"}, opId: OpIds \cup {NoOp}, empty: BOOLEAN,
   loaded: StateRecord, job: JobRecord]

(* A job of an operation, as EnqueuePersist puts it into the queue.        *)
TrueJob == [content: Seq(OpIds), op: CommittedOp]

RedisTypes ==
  /\ keys \in StateRecord
  /\ lock \in Agents \cup {NoAgent}

RowTypes ==
  /\ documents \in SUBSET [content: Seq(OpIds), revision: Nat]
  /\ Cardinality(documents) <= 1
  /\ operations \in SUBSET CommittedOp
  /\ IsFiniteSet(operations)
  /\ \A o, p \in operations : o.revision = p.revision => o = p

JobTypes ==
  /\ queue \in [Servers -> Seq(TrueJob)]
  /\ \A s \in Servers : Len(queue[s]) <= QueueLimit
  /\ inflight \in [Servers -> SUBSET TrueJob]

AgentTypes ==
  /\ mutex \in [Servers -> Agents \cup {NoAgent}]
  /\ link \in [Servers -> {"up", "stale", "down"}]
  /\ pc \in [Agents -> Labels]

CallTypes ==
  /\ call \in [Agents -> CallRecord]
  /\ \A t \in Sessions : pc[t] # "idle" => call[t].opId \in OpIds
  /\ \A t \in Sessions : pc[t] \in {"write", "enqueue"} => call[t].job \in TrueJob

HistoryTypes ==
  /\ happened \in [calls: Nat, restarts: Nat, drops: Nat, crashes: Nat, lost: Nat]
  /\ acked \in SUBSET CommittedOp
  /\ kept \in Seq(CommittedOp)

TypeInv ==
  /\ RedisTypes /\ RowTypes /\ JobTypes /\ AgentTypes /\ CallTypes /\ HistoryTypes

-----------------------------------------------------------------------------
LEMMA AgentTyping ==
  /\ \A t \in Sessions : Host[t] \in Servers /\ t \notin Servers
  /\ \A s \in Servers : s \notin Sessions
  /\ \A a \in Agents : HostOf(a) \in Servers
  /\ NoAgent \notin Agents
BY RecoveryAssumption DEF Agents, HostOf

LEMMA RecordTyping ==
  /\ NoKeys \in StateRecord /\ DefaultState \in StateRecord
  /\ \A why \in {"start", "recover", "commit"}, id \in OpIds \cup {NoOp} :
       Call(why, id) \in CallRecord
  /\ \A a \in Agents : RestingCall(a) \in CallRecord
<1>1. <<>> \in Seq(OpIds) /\ <<>> \in Seq(CommittedOp)
  OBVIOUS
<1>2. NoKeys \in StateRecord /\ DefaultState \in StateRecord
  BY <1>1 DEF NoKeys, DefaultState, State, StateRecord
<1>3. NoJob \in JobRecord
  BY <1>1 DEF NoJob, Job, JobRecord
<1>4. \A why \in {"start", "recover", "commit"}, id \in OpIds \cup {NoOp} :
        Call(why, id) \in CallRecord
  BY <1>2, <1>3 DEF Call, CallRecord
<1> QED
  BY <1>2, <1>4 DEF RestingCall

LEMMA JobTyping == TrueJob \subseteq JobRecord
BY DEF TrueJob, JobRecord, CommittedOp

LEMMA TypeInvImpliesTypeOK == TypeInv => TypeOK
<1> SUFFICES ASSUME TypeInv PROVE TypeOK
  OBVIOUS
<1>1. queue \in [Servers -> Seq(JobRecord)]
  BY JobTyping, SeqMonotonic DEF TypeInv, JobTypes
<1>2. inflight \in [Servers -> SUBSET JobRecord]
  BY JobTyping DEF TypeInv, JobTypes
<1> QED
  BY <1>1, <1>2 DEF TypeInv, RedisTypes, RowTypes, JobTypes, AgentTypes, CallTypes,
     HistoryTypes, TypeOK, CallRecord

LEMMA TypeInit == Init => TypeInv
<1> SUFFICES ASSUME Init PROVE TypeInv
  OBVIOUS
<1>1. RedisTypes
  BY RecordTyping DEF Init, RedisTypes
<1>2. RowTypes
  BY FS_EmptySet DEF Init, RowTypes
<1>3. JobTypes
  BY RecoveryAssumption DEF Init, JobTypes
<1>4. AgentTypes
  BY DEF Init, AgentTypes, Labels
<1>5. CallTypes
  BY RecordTyping, AgentTyping DEF Init, CallTypes, Agents
<1>6. HistoryTypes
  BY DEF Init, HistoryTypes
<1> QED
  BY <1>1, <1>2, <1>3, <1>4, <1>5, <1>6 DEF TypeInv

(* Where an agent goes when its function returns. *)
LEMMA LeaveTypes ==
  ASSUME TypeInv, NEW a \in Agents, Leave(a)
  PROVE  /\ mutex' \in [Servers -> Agents \cup {NoAgent}]
         /\ pc' \in [Agents -> Labels]
         /\ CallTypes'
<1>1. mutex' \in [Servers -> Agents \cup {NoAgent}]
  BY AgentTyping DEF Leave, TypeInv, AgentTypes
<1>2. pc' \in [Agents -> Labels]
  BY DEF Leave, Goto, Resting, TypeInv, AgentTypes, Labels
<1>3. CallTypes'
  BY RecordTyping, AgentTyping
     DEF Leave, Goto, Resting, TypeInv, AgentTypes, CallTypes, Agents
<1> QED
  BY <1>1, <1>2, <1>3

LEMMA RecoveredTypes ==
  ASSUME TypeInv, NEW a \in Agents, Recovered(a), pc[a] # "idle"
  PROVE  /\ mutex' \in [Servers -> Agents \cup {NoAgent}]
         /\ pc' \in [Agents -> Labels]
         /\ CallTypes'
<1>1. CASE a \in Servers
  BY <1>1, LeaveTypes DEF Recovered
<1>2. CASE a \notin Servers
  <2>1. mutex' \in [Servers -> Agents \cup {NoAgent}]
    BY <1>2 DEF Recovered, TypeInv, AgentTypes
  <2>2. pc' \in [Agents -> Labels]
    BY <1>2 DEF Recovered, Goto, TypeInv, AgentTypes, Labels
  <2>3. a \in Sessions /\ call[a].opId \in OpIds
    BY <1>2 DEF Agents, TypeInv, CallTypes
  <2>4. call' = [call EXCEPT ![a] = Call("commit", call[a].opId)]
    BY <1>2 DEF Recovered
  <2>5. Call("commit", call[a].opId) \in CallRecord /\ Call("commit", call[a].opId).opId \in OpIds
    BY <2>3, RecordTyping DEF Call
  <2>6. \A b \in Agents : b # a => pc'[b] = pc[b]
    BY <1>2 DEF Recovered, Goto, TypeInv, AgentTypes
  <2>7. pc'[a] = "lookup"
    BY <1>2 DEF Recovered, Goto, TypeInv, AgentTypes
  <2> QED
    BY <2>1, <2>2, <2>3, <2>4, <2>5, <2>6, <2>7 DEF TypeInv, CallTypes, Agents
<1> QED
  BY <1>1, <1>2

(* The loaded history is a sequence of the rows in ascending order. *)
LEMMA ByRevisionSorts ==
  ASSUME RowTypes
  PROVE  LET rows == ByRevision(operations)
         IN  /\ Cardinality(operations) \in Nat
             /\ rows \in [1 .. Cardinality(operations) -> operations]
             /\ Ascending(rows)
             /\ rows \in Seq(CommittedOp)
<1>1. Cardinality(operations) \in Nat
  BY FS_CardinalityType DEF RowTypes
<1>2. \A o \in operations : o.revision \in Nat
  BY DEF RowTypes, CommittedOp
<1>3. \E s \in [1 .. Cardinality(operations) -> operations] : Ascending(s)
  BY <1>2, AscendingExists DEF RowTypes
<1> DEFINE rows == ByRevision(operations)
<1>4. rows \in [1 .. Cardinality(operations) -> operations] /\ Ascending(rows)
  BY <1>3 DEF ByRevision, Ascending
<1> HIDE DEF rows
<1>5. rows \in Seq(CommittedOp)
  <2>1. rows \in [1 .. Cardinality(operations) -> CommittedOp]
    BY <1>4 DEF RowTypes
  <2> QED
    BY <1>1, <2>1
<1> QED
  BY <1>1, <1>4, <1>5 DEF rows

(* What HGET finds is one of the committed operations. *)
LEMMA ExistingTypes ==
  ASSUME RedisTypes, NEW id
  PROVE  /\ Existing(id) \subseteq CommittedOp
         /\ \A op \in Existing(id) :
              op.opId = id /\ \E i \in DOMAIN keys.history : keys.history[i] = op
         /\ Existing(id) = {} => \A i \in DOMAIN keys.history : keys.history[i].opId # id
<1>1. keys.history \in Seq(CommittedOp)
  BY DEF RedisTypes, StateRecord
<1>2. \A i \in DOMAIN keys.history : keys.history[i] \in CommittedOp
  BY <1>1
<1> DEFINE found == { i \in DOMAIN keys.history : keys.history[i].opId = id }
<1>3. Existing(id) = { keys.history[i] : i \in { j \in found : \A k \in found : k <= j } }
  BY DEF Existing
<1>4. found # {} => \E j \in found : \A k \in found : k <= j
  <2> SUFFICES ASSUME found # {} PROVE \E j \in found : \A k \in found : k <= j
    OBVIOUS
  <2>1. DOMAIN keys.history = 1 .. Len(keys.history) /\ Len(keys.history) \in Nat
    BY <1>1, LenProperties
  <2>2. found \subseteq 1 .. Len(keys.history)
    BY <2>1
  <2> DEFINE above == { Len(keys.history) - j : j \in found }
  <2> HIDE DEF found
  <2>3. above \in SUBSET Nat /\ above # {}
    BY <2>1, <2>2
  <2>4. PICK d \in above : \A e \in above : d <= e
    BY <2>3, Least
  <2>5. PICK j \in found : d = Len(keys.history) - j
    OBVIOUS
  <2>6. \A k \in found : Len(keys.history) - j <= Len(keys.history) - k
    BY <2>4, <2>5
  <2> QED
    BY <2>1, <2>2, <2>6
<1> QED
  BY <1>2, <1>3, <1>4

LEMMA AttemptsTypes ==
  ASSUME TypeInv, NEW a \in Agents,
         Enter(a) \/ ExistsFails(a) \/ ExistsSkips(a) \/ ExistsLoads(a)
  PROVE  TypeInv'
<1>1. ASSUME Enter(a) PROVE TypeInv'
  <2>1. AgentTypes'
    BY <1>1, AgentTyping DEF Enter, Goto, TypeInv, AgentTypes, Labels
  <2>2. CallTypes'
    BY <1>1 DEF Enter, Goto, TypeInv, AgentTypes, CallTypes, Agents
  <2> QED
    BY <1>1, <2>1, <2>2 DEF Enter, redis, postgres, jobs, ghosts, TypeInv, RedisTypes,
       RowTypes, JobTypes, HistoryTypes
<1>2. ASSUME ExistsFails(a) PROVE TypeInv'
  <2>1. AgentTypes' /\ CallTypes'
    BY <1>2, LeaveTypes, AgentTyping DEF ExistsFails, TypeInv, AgentTypes
  <2> QED
    BY <1>2, <2>1 DEF ExistsFails, redis, postgres, jobs, ghosts, TypeInv, RedisTypes,
       RowTypes, JobTypes, HistoryTypes
<1>3. ASSUME ExistsSkips(a) PROVE TypeInv'
  <2>1. AgentTypes' /\ CallTypes'
    <3>1. CASE a \in Servers
      BY <1>3, <3>1, LeaveTypes DEF ExistsSkips, TypeInv, AgentTypes
    <3>2. CASE a \notin Servers
      BY <1>3, <3>2 DEF ExistsSkips, Goto, TypeInv, AgentTypes, CallTypes, Agents, Labels
    <3> QED
      BY <3>1, <3>2
  <2> QED
    BY <1>3, <2>1 DEF ExistsSkips, redis, postgres, jobs, ghosts, TypeInv, RedisTypes,
       RowTypes, JobTypes, HistoryTypes
<1>4. ASSUME ExistsLoads(a) PROVE TypeInv'
  <2>1. AgentTypes'
    BY <1>4 DEF ExistsLoads, Goto, TypeInv, AgentTypes, Labels
  <2>2. CallTypes'
    BY <1>4, ZenonT(40) DEF ExistsLoads, Goto, TypeInv, AgentTypes, CallTypes, CallRecord, Agents
  <2> QED
    BY <1>4, <2>1, <2>2 DEF ExistsLoads, redis, postgres, jobs, ghosts, TypeInv, RedisTypes,
       RowTypes, JobTypes, HistoryTypes
<1> QED
  BY <1>1, <1>2, <1>3, <1>4

LEMMA LoadedTypes ==
  ASSUME TypeInv, NEW a \in Agents, pc[a] # "idle",
         NEW loaded \in StateRecord, call' = [call EXCEPT ![a].loaded = loaded],
         NEW label, label \notin {"write", "enqueue"}, Goto(a, label)
  PROVE  CallTypes'
BY DEF Goto, TypeInv, AgentTypes, CallTypes, CallRecord, Agents

LEMMA LoadingTypes ==
  ASSUME TypeInv, NEW a \in Agents,
         LoadDocument(a) \/ LoadNothing(a) \/ LoadDefault(a) \/ LoadOperations(a)
  PROVE  TypeInv'
<1>1. ASSUME LoadDocument(a) PROVE TypeInv'
  <2>1. AgentTypes'
    BY <1>1 DEF LoadDocument, Goto, TypeInv, AgentTypes, Labels
  <2>2. CallTypes'
    <3>1. PICK row \in documents :
            call' = [call EXCEPT ![a].loaded = State(TRUE, row.content, row.revision, <<>>)]
      BY <1>1 DEF LoadDocument
    <3>2. row.content \in Seq(OpIds) /\ row.revision \in Nat
      BY DEF TypeInv, RowTypes
    <3>3. State(TRUE, row.content, row.revision, <<>>) \in StateRecord
      BY <3>2 DEF State, StateRecord
    <3> QED
      BY <1>1, <3>1, <3>3, LoadedTypes DEF LoadDocument
  <2> QED
    BY <1>1, <2>1, <2>2 DEF LoadDocument, redis, postgres, jobs, ghosts, TypeInv, RedisTypes,
       RowTypes, JobTypes, HistoryTypes
<1>2. ASSUME LoadNothing(a) PROVE TypeInv'
  <2>1. AgentTypes' /\ CallTypes'
    <3>1. CASE call[a].empty
      BY <1>2, <3>1 DEF LoadNothing, Goto, TypeInv, AgentTypes, CallTypes, Agents, Labels
    <3>2. CASE ~call[a].empty
      BY <1>2, <3>2, LeaveTypes DEF LoadNothing, TypeInv, AgentTypes
    <3> QED
      BY <3>1, <3>2
  <2> QED
    BY <1>2, <2>1 DEF LoadNothing, redis, postgres, jobs, ghosts, TypeInv, RedisTypes,
       RowTypes, JobTypes, HistoryTypes
<1>3. ASSUME LoadDefault(a) PROVE TypeInv'
  <2>1. AgentTypes'
    BY <1>3 DEF LoadDefault, Goto, TypeInv, AgentTypes, Labels
  <2>2. CallTypes'
    BY <1>3, RecordTyping, SMTT(30)
       DEF LoadDefault, Goto, TypeInv, AgentTypes, CallTypes, CallRecord, Agents
  <2> QED
    BY <1>3, <2>1, <2>2 DEF LoadDefault, redis, postgres, jobs, ghosts, TypeInv, RedisTypes,
       RowTypes, JobTypes, HistoryTypes
<1>4. ASSUME LoadOperations(a) PROVE TypeInv'
  <2>1. AgentTypes'
    BY <1>4 DEF LoadOperations, Goto, TypeInv, AgentTypes, Labels
  <2>2. CallTypes'
    <3>1. ByRevision(operations) \in Seq(CommittedOp)
      BY ByRevisionSorts DEF TypeInv
    <3>2. call[a].loaded \in StateRecord
      BY DEF TypeInv, CallTypes, CallRecord
    <3>3. [call[a].loaded EXCEPT !.history = ByRevision(operations)] \in StateRecord
      BY <3>1, <3>2 DEF StateRecord
    <3>4. call' = [call EXCEPT ![a].loaded =
                     [call[a].loaded EXCEPT !.history = ByRevision(operations)]]
      BY <1>4 DEF LoadOperations
    <3> QED
      BY <1>4, <3>3, <3>4, LoadedTypes DEF LoadOperations
  <2> QED
    BY <1>4, <2>1, <2>2 DEF LoadOperations, redis, postgres, jobs, ghosts, TypeInv, RedisTypes,
       RowTypes, JobTypes, HistoryTypes
<1> QED
  BY <1>1, <1>2, <1>3, <1>4

LEMMA RecoveringTypes ==
  ASSUME TypeInv, NEW a \in Agents, Recovering(a)
  PROVE  TypeInv'
<1>1. ASSUME InitState(a) PROVE TypeInv'
  <2>1. RedisTypes'
    BY <1>1 DEF InitState, TypeInv, RedisTypes, CallTypes, CallRecord
  <2>2. AgentTypes' /\ CallTypes'
    BY <1>1, RecoveredTypes DEF InitState, TypeInv, AgentTypes
  <2> QED
    BY <1>1, <2>1, <2>2 DEF InitState, postgres, jobs, ghosts, TypeInv,
       RowTypes, JobTypes, HistoryTypes
<1>2. ASSUME ReloadState(a) PROVE TypeInv'
  <2>1. RedisTypes'
    BY <1>2 DEF ReloadState, TypeInv, RedisTypes, CallTypes, CallRecord
  <2>2. AgentTypes' /\ CallTypes'
    BY <1>2, RecoveredTypes DEF ReloadState, TypeInv, AgentTypes
  <2> QED
    BY <1>2, <2>1, <2>2 DEF ReloadState, postgres, jobs, ghosts, TypeInv,
       RowTypes, JobTypes, HistoryTypes
<1> QED
  BY <1>1, <1>2, AttemptsTypes, LoadingTypes DEF Recovering

LEMMA CommitCallTypes ==
  ASSUME TypeInv, NEW t \in Sessions, NEW id \in OpIds, CommitCall(t, id)
  PROVE  TypeInv'
<1>1. AgentTypes'
  BY DEF CommitCall, Goto, TypeInv, AgentTypes, Labels, Agents
<1>2. CallTypes'
  <2>1. Call("commit", id) \in CallRecord /\ Call("commit", id).opId \in OpIds
    BY RecordTyping DEF Call
  <2>2. t \in Agents /\ call' = [call EXCEPT ![t] = Call("commit", id)]
    BY DEF CommitCall, Agents
  <2>3. \A u \in Sessions : u # t => pc'[u] = pc[u] /\ call'[u] = call[u]
    BY <2>2 DEF CommitCall, Goto, TypeInv, AgentTypes, CallTypes, Agents
  <2>4. pc'[t] = "enter"
    BY DEF CommitCall, Goto, TypeInv, AgentTypes, Agents
  <2> QED
    BY <2>1, <2>2, <2>3, <2>4 DEF TypeInv, CallTypes
<1>3. HistoryTypes'
  BY DEF CommitCall, Count, ghosts, TypeInv, HistoryTypes
<1> QED
  BY <1>1, <1>2, <1>3 DEF CommitCall, redis, postgres, jobs, TypeInv, RedisTypes,
     RowTypes, JobTypes

(* What the commit script makes of a typed job. *)
LEMMA CommitScriptTypes ==
  ASSUME TypeInv, NEW t \in Sessions, pc[t] = "write", CommitScript(t)
  PROVE  /\ keys' \in StateRecord
         /\ Committed(t) \subseteq CommittedOp
<1>1. call[t].job \in TrueJob
  BY DEF TypeInv, CallTypes
<1>2. keys.history \in Seq(CommittedOp)
  BY DEF TypeInv, RedisTypes, StateRecord
<1>3. State(TRUE, call[t].job.content, call[t].job.op.revision,
            Append(keys.history, call[t].job.op)) \in StateRecord
  <2>1. Append(keys.history, call[t].job.op) \in Seq(CommittedOp)
    BY <1>1, <1>2 DEF TrueJob
  <2> QED
    BY <1>1, <2>1 DEF TrueJob, CommittedOp, State, StateRecord
<1>4. keys' \in StateRecord
  BY <1>3 DEF CommitScript, TypeInv, RedisTypes
<1>5. Committed(t) \subseteq CommittedOp
  BY <1>1, ExistingTypes DEF Committed, TypeInv, TrueJob
<1> QED
  BY <1>4, <1>5

LEMMA CommittingTypes ==
  ASSUME TypeInv, NEW t \in Sessions, Committing(t)
  PROVE  TypeInv'
<1>0. t \in Agents /\ t \notin Servers /\ Host[t] \in Servers
  BY AgentTyping DEF Agents
<1>1. ASSUME LookupFound(t) PROVE TypeInv'
  <2>1. AgentTypes' /\ CallTypes'
    BY <1>0, <1>1, LeaveTypes DEF LookupFound, TypeInv, AgentTypes
  <2>2. HistoryTypes'
    BY <1>1, ExistingTypes DEF LookupFound, TypeInv, HistoryTypes
  <2> QED
    BY <1>1, <2>1, <2>2 DEF LookupFound, redis, postgres, jobs, TypeInv, RedisTypes,
       RowTypes, JobTypes
<1>2. ASSUME ReadKeys(t) PROVE TypeInv'
  <2>1. RedisTypes'
    BY <1>0, <1>2 DEF ReadKeys, TypeInv, RedisTypes
  <2>2. AgentTypes'
    BY <1>2 DEF ReadKeys, Goto, TypeInv, AgentTypes, Labels
  <2>3. CallTypes'
    <3> DEFINE job == Job(Append(keys.content, call[t].opId),
                          [opId |-> call[t].opId, revision |-> keys.revision + 1])
    <3>1. call[t].opId \in OpIds
      BY <1>2 DEF ReadKeys, TypeInv, CallTypes
    <3>2. keys.content \in Seq(OpIds) /\ keys.revision + 1 \in Nat
      BY DEF TypeInv, RedisTypes, StateRecord
    <3>3. job \in TrueJob
      BY <3>1, <3>2 DEF Job, TrueJob, CommittedOp
    <3>4. call' = [call EXCEPT ![t].job = job] /\ pc' = [pc EXCEPT ![t] = "write"]
      BY <1>2 DEF ReadKeys, Goto
    <3> HIDE DEF job
    <3>5. call' \in [Agents -> CallRecord]
      BY <1>0, <3>3, <3>4, JobTyping DEF TypeInv, CallTypes, CallRecord
    <3>6. call'[t].job = job /\ call'[t].opId = call[t].opId
      BY <1>0, <3>4 DEF TypeInv, CallTypes, CallRecord
    <3>7. \A u \in Sessions : u # t => pc'[u] = pc[u] /\ call'[u] = call[u]
      BY <3>4 DEF TypeInv, AgentTypes, CallTypes, Agents
    <3> QED
      BY <3>1, <3>3, <3>5, <3>6, <3>7 DEF TypeInv, CallTypes
  <2> QED
    BY <1>2, <2>1, <2>2, <2>3 DEF ReadKeys, postgres, jobs, ghosts, TypeInv,
       RowTypes, JobTypes, HistoryTypes
<1>3. ASSUME GiveUp(t) PROVE TypeInv'
  <2>1. AgentTypes' /\ CallTypes'
    BY <1>0, <1>3, LeaveTypes DEF GiveUp, TypeInv, AgentTypes
  <2> QED
    BY <1>3, <2>1 DEF GiveUp, redis, postgres, jobs, ghosts, TypeInv, RedisTypes,
       RowTypes, JobTypes, HistoryTypes
<1>4. ASSUME WriteKeys(t) PROVE TypeInv'
  <2>0. pc[t] = "write" /\ CommitScript(t)
    BY <1>4 DEF WriteKeys
  <2>1. RedisTypes'
    BY <1>4, <2>0, CommitScriptTypes DEF WriteKeys, TypeInv, RedisTypes
  <2>2. AgentTypes'
    BY <1>0, <1>4 DEF WriteKeys, Goto, TypeInv, AgentTypes, Labels
  <2>3. CallTypes'
    <3>1. PICK op \in Committed(t) : call' = [call EXCEPT ![t].job.op = op]
      BY <1>4 DEF WriteKeys
    <3>2. op \in CommittedOp
      BY <2>0, CommitScriptTypes
    <3>3. call[t].job \in TrueJob
      BY <2>0 DEF TypeInv, CallTypes
    <3> DEFINE job == [call[t].job EXCEPT !.op = op]
    <3>4. job \in TrueJob
      BY <3>2, <3>3 DEF TrueJob
    <3>5. call' = [call EXCEPT ![t].job = job] /\ pc' = [pc EXCEPT ![t] = "enqueue"]
      BY <1>4, <3>1 DEF WriteKeys, Goto
    <3> HIDE DEF job
    <3>6. call' \in [Agents -> CallRecord]
      BY <1>0, <3>4, <3>5, JobTyping DEF TypeInv, CallTypes, CallRecord
    <3>7. call'[t].job = job /\ call'[t].opId = call[t].opId
      BY <1>0, <3>5 DEF TypeInv, CallTypes, CallRecord
    <3>8. \A u \in Sessions : u # t => pc'[u] = pc[u] /\ call'[u] = call[u]
      BY <3>5 DEF TypeInv, AgentTypes, CallTypes, Agents
    <3> QED
      BY <2>0, <3>4, <3>6, <3>7, <3>8 DEF TypeInv, CallTypes
  <2> QED
    BY <1>4, <2>1, <2>2, <2>3 DEF WriteKeys, postgres, jobs, ghosts, TypeInv,
       RowTypes, JobTypes, HistoryTypes
<1>5. ASSUME EnqueuePersist(t) PROVE TypeInv'
  <2>0. call[t].job \in TrueJob
    BY <1>5 DEF EnqueuePersist, TypeInv, CallTypes
  <2>1. JobTypes'
    <3> DEFINE longer == Append(queue[Host[t]], call[t].job)
               kept_ == IF Len(longer) > QueueLimit THEN Tail(longer) ELSE longer
    <3>1. queue[Host[t]] \in Seq(TrueJob) /\ Len(queue[Host[t]]) <= QueueLimit
      BY <1>0 DEF TypeInv, JobTypes
    <3>2. longer \in Seq(TrueJob) /\ Len(longer) = Len(queue[Host[t]]) + 1 /\ longer # <<>>
      BY <2>0, <3>1
    <3>3. Tail(longer) \in Seq(TrueJob) /\ Len(Tail(longer)) = Len(longer) - 1
      BY <3>2, HeadTailProperties
    <3>4. Len(queue[Host[t]]) \in Nat /\ QueueLimit \in Nat
      BY <3>1, RecoveryAssumption
    <3>5. queue' = [queue EXCEPT ![Host[t]] = kept_] /\ inflight' = inflight
      BY <1>5 DEF EnqueuePersist
    <3> HIDE DEF longer
    <3>6. kept_ \in Seq(TrueJob) /\ Len(kept_) <= QueueLimit
      BY <3>1, <3>2, <3>3, <3>4
    <3> HIDE DEF kept_
    <3> QED
      BY <1>0, <3>5, <3>6 DEF TypeInv, JobTypes
  <2>2. AgentTypes'
    BY <1>5 DEF EnqueuePersist, Goto, TypeInv, AgentTypes, Labels
  <2>3. CallTypes'
    BY <1>0, <1>5, RecordTyping
       DEF EnqueuePersist, Goto, TypeInv, AgentTypes, CallTypes, Agents
  <2>4. HistoryTypes'
    BY <1>5, <2>0 DEF EnqueuePersist, TrueJob, TypeInv, HistoryTypes
  <2> QED
    BY <1>5, <2>1, <2>2, <2>3, <2>4 DEF EnqueuePersist, redis, postgres, TypeInv,
       RedisTypes, RowTypes
<1> QED
  BY <1>1, <1>2, <1>3, <1>4, <1>5 DEF Committing

LEMMA PersistingTypes ==
  ASSUME TypeInv, NEW s \in Servers, Persisting(s)
  PROVE  TypeInv'
<1>1. ASSUME UpsertDocument(s) PROVE TypeInv'
  <2>1. queue[s] \in Seq(TrueJob) /\ queue[s] # <<>>
    BY <1>1 DEF UpsertDocument, TypeInv, JobTypes
  <2>2. /\ Head(queue[s]) \in TrueJob
        /\ Tail(queue[s]) \in Seq(TrueJob)
        /\ Len(Tail(queue[s])) = Len(queue[s]) - 1
    BY <2>1, HeadTailProperties
  <2>3. RowTypes'
    <3>1. documents' = {[content |-> Head(queue[s]).content,
                         revision |-> Head(queue[s]).op.revision]}
      BY <1>1 DEF UpsertDocument
    <3>2. Cardinality(documents') = 1
      BY <3>1, FS_Singleton
    <3>3. operations' = operations
      BY <1>1 DEF UpsertDocument
    <3>4. documents' \in SUBSET [content: Seq(OpIds), revision: Nat]
      BY <2>2, <3>1 DEF TrueJob, CommittedOp
    <3>5. Cardinality(documents') <= 1
      BY <3>2
    <3> QED
      BY <3>3, <3>4, <3>5 DEF TypeInv, RowTypes
  <2>4. JobTypes'
    <3>1. Len(queue[s]) \in Nat /\ QueueLimit \in Nat /\ Len(queue[s]) <= QueueLimit
      BY <2>1, RecoveryAssumption DEF TypeInv, JobTypes
    <3>2. Len(Tail(queue[s])) <= QueueLimit
      BY <2>2, <3>1
    <3>3. /\ queue' = [queue EXCEPT ![s] = Tail(queue[s])]
          /\ inflight' = [inflight EXCEPT ![s] = {Head(queue[s])}]
      BY <1>1 DEF UpsertDocument
    <3> QED
      BY <2>2, <3>2, <3>3 DEF TypeInv, JobTypes
  <2> QED
    BY <1>1, <2>3, <2>4 DEF UpsertDocument, redis, ghosts, TypeInv, RedisTypes,
       AgentTypes, CallTypes, HistoryTypes
<1>2. ASSUME InsertOperation(s) PROVE TypeInv'
  <2>1. PICK job \in inflight[s] :
          operations' = IF \E o \in operations : o.revision = job.op.revision
                        THEN operations
                        ELSE operations \cup {job.op}
    BY <1>2 DEF InsertOperation
  <2>2. job.op \in CommittedOp
    BY DEF TypeInv, JobTypes, TrueJob
  <2>3. IsFiniteSet(operations')
    BY <2>1, FS_AddElement DEF TypeInv, RowTypes
  <2>4. RowTypes'
    BY <1>2, <2>1, <2>2, <2>3 DEF InsertOperation, TypeInv, RowTypes
  <2>5. JobTypes'
    BY <1>2 DEF InsertOperation, TypeInv, JobTypes
  <2> QED
    BY <1>2, <2>4, <2>5 DEF InsertOperation, redis, ghosts, TypeInv, RedisTypes,
       AgentTypes, CallTypes, HistoryTypes
<1> QED
  BY <1>1, <1>2 DEF Persisting

LEMMA FailureTypes ==
  ASSUME TypeInv,
         \/ \E t \in Sessions : LoseWriteReply(t)
         \/ LockExpires
         \/ \E how \in Restarts : Restart(how)
         \/ \E s \in Servers : DropSubscriber(s) \/ Crash(s)
  PROVE  TypeInv'
<1>1. ASSUME NEW t \in Sessions, LoseWriteReply(t) PROVE TypeInv'
  <2>1. RedisTypes'
    BY <1>1, CommitScriptTypes DEF LoseWriteReply, TypeInv, RedisTypes
  <2>2. AgentTypes' /\ CallTypes'
    BY <1>1, LeaveTypes, AgentTyping DEF LoseWriteReply, TypeInv, AgentTypes, Agents
  <2>3. HistoryTypes'
    BY <1>1 DEF LoseWriteReply, Count, ghosts, TypeInv, HistoryTypes
  <2> QED
    BY <1>1, <2>1, <2>2, <2>3 DEF LoseWriteReply, postgres, jobs, TypeInv, RowTypes, JobTypes
<1>2. ASSUME LockExpires PROVE TypeInv'
  BY <1>2 DEF LockExpires, postgres, jobs, ghosts, TypeInv, RedisTypes,
     RowTypes, JobTypes, AgentTypes, CallTypes, HistoryTypes
<1>3. ASSUME NEW how \in Restarts, Restart(how) PROVE TypeInv'
  <2>1. RedisTypes'
    BY <1>3, RecordTyping DEF Restart, TypeInv, RedisTypes
  <2>2. AgentTypes'
    <3>1. pc' \in [Agents -> Labels]
      BY <1>3 DEF Restart, TypeInv, AgentTypes, Labels
    <3>2. link' \in [Servers -> {"up", "stale", "down"}]
      BY <1>3 DEF Restart
    <3> QED
      BY <1>3, <3>1, <3>2 DEF Restart, AgentTypes
  <2>3. CallTypes'
    <3>1. call' \in [Agents -> CallRecord]
      BY <1>3, RecordTyping DEF Restart, TypeInv, CallTypes
    <3>2. ASSUME NEW t \in Sessions
          PROVE  \/ pc'[t] = "idle"
                 \/ pc'[t] = pc[t] /\ call'[t] = call[t]
      <4>1. t \in Agents /\ t \notin Servers
        BY AgentTyping DEF Agents
      <4>2. CASE InMutex(t)
        BY <1>3, <4>1, <4>2 DEF Restart
      <4>3. CASE ~InMutex(t)
        BY <1>3, <4>1, <4>3 DEF Restart
      <4> QED
        BY <4>2, <4>3
    <3> QED
      BY <3>1, <3>2 DEF TypeInv, CallTypes
  <2>4. HistoryTypes'
    <3>1. keys.history \in Seq(CommittedOp) /\ kept \in Seq(CommittedOp)
      BY DEF TypeInv, RedisTypes, StateRecord, HistoryTypes
    <3>2. kept' = keys.history \/ kept' = kept
      BY <1>3 DEF Restart
    <3>3. happened' = [happened EXCEPT !.restarts = happened.restarts + 1]
      BY <1>3 DEF Restart, Count
    <3>4. acked' = acked
      BY <1>3 DEF Restart
    <3> QED
      BY <3>1, <3>2, <3>3, <3>4 DEF TypeInv, HistoryTypes
  <2> QED
    BY <1>3, <2>1, <2>2, <2>3, <2>4 DEF Restart, postgres, jobs, TypeInv, RowTypes, JobTypes
<1>4. ASSUME NEW s \in Servers, DropSubscriber(s) PROVE TypeInv'
  <2>1. AgentTypes'
    BY <1>4 DEF DropSubscriber, Goto, TypeInv, AgentTypes, Labels
  <2>2. CallTypes'
    <3>1. \A t \in Sessions : pc'[t] = pc[t]
      BY <1>4, AgentTyping DEF DropSubscriber, Goto, TypeInv, AgentTypes, Agents
    <3> QED
      BY <1>4, <3>1 DEF DropSubscriber, TypeInv, CallTypes
  <2>3. HistoryTypes'
    BY <1>4 DEF DropSubscriber, Count, ghosts, TypeInv, HistoryTypes
  <2> QED
    BY <1>4, <2>1, <2>2, <2>3 DEF DropSubscriber, redis, postgres, jobs, TypeInv,
       RedisTypes, RowTypes, JobTypes
<1>5. ASSUME NEW s \in Servers, Crash(s) PROVE TypeInv'
  <2>1. JobTypes'
    <3>1. <<>> \in Seq(TrueJob) /\ Len(<<>>) <= QueueLimit
      BY RecoveryAssumption
    <3> QED
      BY <1>5, <3>1 DEF Crash, TypeInv, JobTypes
  <2>2. AgentTypes'
    BY <1>5 DEF Crash, TypeInv, AgentTypes, Labels
  <2>3. CallTypes'
    <3>1. call' \in [Agents -> CallRecord]
      BY <1>5, RecordTyping DEF Crash, TypeInv, CallTypes
    <3>2. \A t \in Sessions : \/ pc'[t] = "idle"
                              \/ pc'[t] = pc[t] /\ call'[t] = call[t]
      BY <1>5, AgentTyping DEF Crash, Agents
    <3> QED
      BY <3>1, <3>2 DEF TypeInv, CallTypes
  <2>4. HistoryTypes'
    BY <1>5, SMTT(30) DEF Crash, Count, ghosts, TypeInv, HistoryTypes
  <2> QED
    BY <1>5, <2>1, <2>2, <2>3, <2>4 DEF Crash, redis, postgres, TypeInv, RedisTypes, RowTypes
<1> QED
  BY <1>1, <1>2, <1>3, <1>4, <1>5

LEMMA TypeStep == TypeInv /\ [Next]_vars => TypeInv'
<1> SUFFICES ASSUME TypeInv, [Next]_vars PROVE TypeInv'
  OBVIOUS
<1>1. CASE Next
  BY <1>1, RecoveringTypes, CommitCallTypes, CommittingTypes, PersistingTypes, FailureTypes
     DEF Next
<1>2. CASE UNCHANGED vars
  BY <1>2 DEF vars, redis, postgres, jobs, ghosts, TypeInv, RedisTypes,
     RowTypes, JobTypes, AgentTypes, CallTypes, HistoryTypes
<1> QED
  BY <1>1, <1>2

LEMMA AlwaysTyped == Spec => []TypeInv
<1> QED
  BY TypeInit, TypeStep, PTL DEF Spec

(* Whatever fails, no queue outgrows its limit, the documents table has one *)
(* row at most, the operations table one row per revision, and every       *)
(* variable keeps its type.                                                *)
THEOREM RecoveryTypes == Spec => []TypeOK
<1> QED
  BY AlwaysTyped, TypeInvImpliesTypeOK, PTL

-----------------------------------------------------------------------------
(* Who is inside mutex_, and what it finds there.                          *)

InMutexLabels ==
  {"exists", "load", "loadInit", "loadOps", "loadInitOps", "init", "reload",
   "lookup", "write"}

MutexInv == \A a \in Agents : pc[a] \in InMutexLabels => InMutex(a)

LoadedInv ==
  \A a \in Agents :
    pc[a] \in {"loadOps", "loadInitOps", "init", "reload"} => call[a].loaded.present

FindInv == MutexInv /\ LoadedInv /\ CommitsFindDocument

LEMMA GotoEffect ==
  ASSUME TypeInv, NEW a \in Agents, NEW label, Goto(a, label)
  PROVE  pc'[a] = label /\ \A b \in Agents : b # a => pc'[b] = pc[b]
BY DEF Goto, TypeInv, AgentTypes

LEMMA LeaveEffect ==
  ASSUME TypeInv, NEW a \in Agents, Leave(a)
  PROVE  /\ pc'[a] = Resting(a) /\ call'[a] = RestingCall(a)
         /\ \A b \in Agents : b # a => pc'[b] = pc[b] /\ call'[b] = call[b]
         /\ mutex' = [mutex EXCEPT ![HostOf(a)] = NoAgent]
BY DEF Leave, Goto, TypeInv, AgentTypes, CallTypes

LEMMA RecoveredEffect ==
  ASSUME TypeInv, NEW a \in Agents, Recovered(a)
  PROVE  /\ \A b \in Agents : b # a => pc'[b] = pc[b] /\ call'[b] = call[b]
         /\ a \in Servers =>
              /\ pc'[a] = "listening" /\ call'[a] = RestingCall(a)
              /\ mutex' = [mutex EXCEPT ![HostOf(a)] = NoAgent]
         /\ a \notin Servers =>
              /\ pc'[a] = "lookup" /\ call'[a] = Call("commit", call[a].opId)
              /\ mutex' = mutex
BY LeaveEffect DEF Recovered, Resting, Goto, TypeInv, AgentTypes, CallTypes

LEMMA CallEffect ==
  ASSUME TypeInv, NEW a \in Agents, NEW c, call' = [call EXCEPT ![a] = c]
  PROVE  call'[a] = c /\ \A b \in Agents : b # a => call'[b] = call[b]
BY DEF TypeInv, CallTypes

(* mutex_ is neither taken nor left. *)
LEMMA MutexStays ==
  ASSUME MutexInv, mutex' = mutex,
         \A b \in Agents : pc'[b] \in InMutexLabels => pc[b] \in InMutexLabels
  PROVE  MutexInv'
BY DEF MutexInv, InMutex

(* The agent inside leaves. *)
LEMMA MutexLeft ==
  ASSUME TypeInv, MutexInv, NEW a \in Agents, pc[a] \in InMutexLabels,
         mutex' = [mutex EXCEPT ![HostOf(a)] = NoAgent], pc'[a] \notin InMutexLabels,
         \A b \in Agents : b # a => pc'[b] = pc[b]
  PROVE  MutexInv'
<1> SUFFICES ASSUME NEW b \in Agents, pc'[b] \in InMutexLabels
             PROVE  mutex'[HostOf(b)] = b
  BY DEF MutexInv, InMutex
<1>1. b # a /\ pc[b] \in InMutexLabels
  OBVIOUS
<1>2. mutex[HostOf(b)] = b /\ mutex[HostOf(a)] = a
  BY <1>1 DEF MutexInv, InMutex
<1>3. HostOf(b) # HostOf(a)
  BY <1>1, <1>2
<1> QED
  BY <1>2, <1>3, AgentTyping DEF TypeInv, AgentTypes

LEMMA MutexLeave ==
  ASSUME TypeInv, MutexInv, NEW a \in Agents, pc[a] \in InMutexLabels, Leave(a)
  PROVE  MutexInv'
<1>1. Resting(a) \notin InMutexLabels
  BY DEF Resting, InMutexLabels
<1> QED
  BY <1>1, LeaveEffect, MutexLeft

LEMMA RecoveringMutex ==
  ASSUME TypeInv, MutexInv, NEW a \in Agents, Recovering(a)
  PROVE  MutexInv'
<1>1. ASSUME Enter(a) PROVE MutexInv'
  <2> SUFFICES ASSUME NEW b \in Agents, pc'[b] \in InMutexLabels
               PROVE  mutex'[HostOf(b)] = b
    BY DEF MutexInv, InMutex
  <2>1. mutex[HostOf(a)] = NoAgent /\ mutex' = [mutex EXCEPT ![HostOf(a)] = a]
    BY <1>1 DEF Enter
  <2>2. CASE b = a
    BY <2>1, <2>2, AgentTyping DEF TypeInv, AgentTypes
  <2>3. CASE b # a
    <3>1. pc'[b] = pc[b]
      BY <1>1, <2>3, GotoEffect DEF Enter
    <3>2. mutex[HostOf(b)] = b
      BY <3>1 DEF MutexInv, InMutex
    <3>3. HostOf(b) # HostOf(a)
      BY <2>1, <3>2, AgentTyping
    <3> QED
      BY <2>1, <3>2, <3>3, AgentTyping DEF TypeInv, AgentTypes
  <2> QED
    BY <2>2, <2>3
<1>2. ASSUME ExistsFails(a) PROVE MutexInv'
  BY <1>2, MutexLeave DEF ExistsFails, InMutexLabels
<1>3. ASSUME ExistsSkips(a) PROVE MutexInv'
  <2>1. CASE a \in Servers
    BY <1>3, <2>1, MutexLeave DEF ExistsSkips, InMutexLabels
  <2>2. CASE a \notin Servers
    BY <1>3, <2>2, GotoEffect, MutexStays DEF ExistsSkips, InMutexLabels
  <2> QED
    BY <2>1, <2>2
<1>4. ASSUME ExistsLoads(a) PROVE MutexInv'
  BY <1>4, GotoEffect, MutexStays DEF ExistsLoads, InMutexLabels
<1>5. ASSUME LoadDocument(a) PROVE MutexInv'
  BY <1>5, GotoEffect, MutexStays DEF LoadDocument, InMutexLabels
<1>6. ASSUME LoadNothing(a) PROVE MutexInv'
  <2>1. CASE ~call[a].empty
    BY <1>6, <2>1, MutexLeave DEF LoadNothing, InMutexLabels
  <2>2. CASE call[a].empty
    BY <1>6, <2>2, GotoEffect, MutexStays DEF LoadNothing, InMutexLabels
  <2> QED
    BY <2>1, <2>2
<1>7. ASSUME LoadDefault(a) PROVE MutexInv'
  BY <1>7, GotoEffect, MutexStays DEF LoadDefault, InMutexLabels
<1>8. ASSUME LoadOperations(a) PROVE MutexInv'
  BY <1>8, GotoEffect, MutexStays DEF LoadOperations, InMutexLabels
<1>9. ASSUME pc[a] \in {"init", "reload"}, Recovered(a) PROVE MutexInv'
  <2>1. CASE a \in Servers
    BY <1>9, <2>1, RecoveredEffect, MutexLeft DEF InMutexLabels
  <2>2. CASE a \notin Servers
    BY <1>9, <2>2, RecoveredEffect, MutexStays DEF InMutexLabels
  <2> QED
    BY <2>1, <2>2
<1> QED
  BY <1>1, <1>2, <1>3, <1>4, <1>5, <1>6, <1>7, <1>8, <1>9
     DEF Recovering, InitState, ReloadState

LEMMA OtherMutex ==
  ASSUME TypeInv, MutexInv,
         \/ \E t \in Sessions : \/ \E id \in OpIds : CommitCall(t, id)
                                \/ Committing(t) \/ LoseWriteReply(t)
         \/ \E s \in Servers : Persisting(s) \/ DropSubscriber(s) \/ Crash(s)
         \/ \E how \in Restarts : Restart(how)
         \/ LockExpires
  PROVE  MutexInv'
<1>0. \A t \in Sessions : t \in Agents /\ HostOf(t) = Host[t]
  BY AgentTyping DEF Agents, HostOf
<1>1. ASSUME NEW t \in Sessions, NEW id \in OpIds, CommitCall(t, id) PROVE MutexInv'
  BY <1>0, <1>1, GotoEffect, MutexStays DEF CommitCall, InMutexLabels
<1>2. ASSUME NEW t \in Sessions, LookupFound(t) \/ GiveUp(t) \/ LoseWriteReply(t)
      PROVE  MutexInv'
  BY <1>0, <1>2, MutexLeave DEF LookupFound, GiveUp, LoseWriteReply, InMutexLabels
<1>3. ASSUME NEW t \in Sessions, ReadKeys(t) PROVE MutexInv'
  BY <1>0, <1>3, GotoEffect, MutexStays DEF ReadKeys, InMutexLabels
<1>4. ASSUME NEW t \in Sessions, WriteKeys(t) PROVE MutexInv'
  <2>1. pc[t] = "write" /\ mutex' = [mutex EXCEPT ![HostOf(t)] = NoAgent]
    BY <1>0, <1>4 DEF WriteKeys
  <2>2. pc'[t] = "enqueue" /\ \A b \in Agents : b # t => pc'[b] = pc[b]
    BY <1>0, <1>4, GotoEffect DEF WriteKeys
  <2> QED
    BY <1>0, <2>1, <2>2, MutexLeft DEF InMutexLabels
<1>5. ASSUME NEW t \in Sessions, EnqueuePersist(t) PROVE MutexInv'
  BY <1>0, <1>5, GotoEffect, MutexStays DEF EnqueuePersist, InMutexLabels
<1>6. ASSUME NEW s \in Servers, Persisting(s) PROVE MutexInv'
  BY <1>6, MutexStays DEF Persisting, UpsertDocument, InsertOperation
<1>7. ASSUME NEW s \in Servers, DropSubscriber(s) PROVE MutexInv'
  BY <1>7, GotoEffect, MutexStays DEF DropSubscriber, InMutexLabels, Agents
<1>8. ASSUME NEW s \in Servers, Crash(s) PROVE MutexInv'
  <2> SUFFICES ASSUME NEW b \in Agents, pc'[b] \in InMutexLabels
               PROVE  mutex'[HostOf(b)] = b
    BY DEF MutexInv, InMutex
  <2>1. pc'[b] = pc[b] /\ HostOf(b) # s
    BY <1>8 DEF Crash, InMutexLabels, HostOf
  <2> QED
    BY <1>8, <2>1, AgentTyping DEF Crash, MutexInv, InMutex, TypeInv, AgentTypes
<1>9. ASSUME NEW how \in Restarts, Restart(how) PROVE MutexInv'
  <2> SUFFICES ASSUME NEW b \in Agents, pc'[b] \in InMutexLabels PROVE FALSE
    BY DEF MutexInv
  <2>1. CASE InMutex(b)
    BY <1>9, <2>1, AgentTyping DEF Restart, InMutexLabels, Agents
  <2>2. CASE ~InMutex(b)
    BY <1>9, <2>2 DEF Restart, InMutexLabels, MutexInv
  <2> QED
    BY <2>1, <2>2
<1>10. ASSUME LockExpires PROVE MutexInv'
  BY <1>10, MutexStays DEF LockExpires
<1> QED
  BY <1>1, <1>2, <1>3, <1>4, <1>5, <1>6, <1>7, <1>8, <1>9, <1>10 DEF Committing

LoadedLabels == {"loadOps", "loadInitOps", "init", "reload"}

LEMMA LoadedStays ==
  ASSUME LoadedInv,
         \A b \in Agents : pc'[b] \in LoadedLabels =>
                             pc[b] \in LoadedLabels /\ call'[b].loaded = call[b].loaded
  PROVE  LoadedInv'
BY DEF LoadedInv, LoadedLabels

LEMMA FindsStays ==
  ASSUME CommitsFindDocument, keys.present => keys'.present,
         \A t \in Sessions : pc'[t] \in {"lookup", "write"} =>
                               keys'.present \/ pc[t] \in {"lookup", "write"}
  PROVE  CommitsFindDocument'
BY DEF CommitsFindDocument

LEMMA RecoveringFinds ==
  ASSUME TypeInv, FindInv, NEW a \in Agents, Recovering(a)
  PROVE  LoadedInv' /\ CommitsFindDocument'
<1>0. Sessions \subseteq Agents
  BY DEF Agents
<1>1. ASSUME Enter(a) PROVE LoadedInv' /\ CommitsFindDocument'
  BY <1>0, <1>1, GotoEffect, LoadedStays, FindsStays DEF Enter, FindInv, LoadedLabels, redis
<1>2. ASSUME ExistsFails(a) PROVE LoadedInv' /\ CommitsFindDocument'
  BY <1>0, <1>2, LeaveEffect, LoadedStays, FindsStays
     DEF ExistsFails, FindInv, LoadedLabels, Resting, redis
<1>3. ASSUME ExistsSkips(a) PROVE LoadedInv' /\ CommitsFindDocument'
  <2>1. CASE a \in Servers
    BY <1>0, <1>3, <2>1, LeaveEffect, LoadedStays, FindsStays
       DEF ExistsSkips, FindInv, LoadedLabels, Resting, redis
  <2>2. CASE a \notin Servers
    BY <1>0, <1>3, <2>2, GotoEffect, LoadedStays, FindsStays
       DEF ExistsSkips, FindInv, LoadedLabels, redis
  <2> QED
    BY <2>1, <2>2
<1>4. ASSUME ExistsLoads(a) PROVE LoadedInv' /\ CommitsFindDocument'
  <2>1. pc'[a] \in {"loadInit", "load"} /\ \A b \in Agents : b # a => pc'[b] = pc[b]
    BY <1>4, GotoEffect DEF ExistsLoads
  <2>2. \A b \in Agents : b # a => call'[b] = call[b]
    BY <1>4 DEF ExistsLoads, TypeInv, CallTypes
  <2> QED
    BY <1>0, <1>4, <2>1, <2>2, LoadedStays, FindsStays
       DEF ExistsLoads, FindInv, LoadedLabels, redis
<1>5. ASSUME LoadDocument(a) PROVE LoadedInv' /\ CommitsFindDocument'
  <2>1. pc'[a] \in {"loadOps", "loadInitOps"} /\ \A b \in Agents : b # a => pc'[b] = pc[b]
    BY <1>5, GotoEffect DEF LoadDocument
  <2>2. CommitsFindDocument'
    BY <1>0, <1>5, <2>1, FindsStays DEF LoadDocument, FindInv, redis
  <2>3. PICK row \in documents :
          call' = [call EXCEPT ![a].loaded = State(TRUE, row.content, row.revision, <<>>)]
    BY <1>5 DEF LoadDocument
  <2>4. /\ call'[a].loaded = State(TRUE, row.content, row.revision, <<>>)
        /\ \A b \in Agents : b # a => call'[b] = call[b]
    BY <2>3 DEF TypeInv, CallTypes, CallRecord
  <2>5. LoadedInv'
    BY <2>1, <2>4 DEF FindInv, LoadedInv, State
  <2> QED
    BY <2>2, <2>5
<1>6. ASSUME LoadNothing(a) PROVE LoadedInv' /\ CommitsFindDocument'
  <2>1. CASE ~call[a].empty
    BY <1>0, <1>6, <2>1, LeaveEffect, LoadedStays, FindsStays
       DEF LoadNothing, FindInv, LoadedLabels, Resting, redis
  <2>2. CASE call[a].empty
    BY <1>0, <1>6, <2>2, GotoEffect, LoadedStays, FindsStays
       DEF LoadNothing, FindInv, LoadedLabels, redis
  <2> QED
    BY <2>1, <2>2
<1>7. ASSUME LoadDefault(a) PROVE LoadedInv' /\ CommitsFindDocument'
  <2>1. pc'[a] = "init" /\ \A b \in Agents : b # a => pc'[b] = pc[b]
    BY <1>7, GotoEffect DEF LoadDefault
  <2>2. CommitsFindDocument'
    BY <1>0, <1>7, <2>1, FindsStays DEF LoadDefault, FindInv, redis
  <2>3. /\ call'[a].loaded = DefaultState
        /\ \A b \in Agents : b # a => call'[b] = call[b]
    BY <1>7 DEF LoadDefault, TypeInv, CallTypes, CallRecord
  <2>4. LoadedInv'
    BY <2>1, <2>3 DEF FindInv, LoadedInv, DefaultState, State
  <2> QED
    BY <2>2, <2>4
<1>8. ASSUME LoadOperations(a) PROVE LoadedInv' /\ CommitsFindDocument'
  <2>1. pc'[a] \in {"reload", "init"} /\ \A b \in Agents : b # a => pc'[b] = pc[b]
    BY <1>8, GotoEffect DEF LoadOperations
  <2>2. CommitsFindDocument'
    BY <1>0, <1>8, <2>1, FindsStays DEF LoadOperations, FindInv, redis
  <2>3. /\ call'[a].loaded.present = call[a].loaded.present
        /\ \A b \in Agents : b # a => call'[b] = call[b]
    BY <1>8 DEF LoadOperations, TypeInv, CallTypes, CallRecord, StateRecord
  <2>4. LoadedInv'
    BY <1>8, <2>1, <2>3 DEF LoadOperations, FindInv, LoadedInv
  <2> QED
    BY <2>2, <2>4
<1>9. ASSUME InitState(a) \/ ReloadState(a) PROVE LoadedInv' /\ CommitsFindDocument'
  <2>1. keys'.present
    BY <1>9 DEF InitState, ReloadState, FindInv, LoadedInv
  <2>2. pc'[a] \in {"lookup", "listening"}
    BY <1>9, RecoveredEffect DEF InitState, ReloadState
  <2>3. LoadedInv'
    BY <1>9, <2>2, RecoveredEffect, LoadedStays DEF InitState, ReloadState, FindInv, LoadedLabels
  <2> QED
    BY <2>1, <2>3 DEF CommitsFindDocument
<1> QED
  BY <1>1, <1>2, <1>3, <1>4, <1>5, <1>6, <1>7, <1>8, <1>9 DEF Recovering

LEMMA OtherFinds ==
  ASSUME TypeInv, FindInv,
         \/ \E t \in Sessions : \/ \E id \in OpIds : CommitCall(t, id)
                                \/ Committing(t) \/ LoseWriteReply(t)
         \/ \E s \in Servers : Persisting(s) \/ DropSubscriber(s) \/ Crash(s)
         \/ \E how \in Restarts : Restart(how)
         \/ LockExpires
  PROVE  LoadedInv' /\ CommitsFindDocument'
<1>0. Sessions \subseteq Agents /\ \A t \in Sessions : t \notin Servers
  BY AgentTyping DEF Agents
<1>1. ASSUME NEW t \in Sessions, NEW id \in OpIds, CommitCall(t, id)
      PROVE  LoadedInv' /\ CommitsFindDocument'
  BY <1>0, <1>1, GotoEffect, CallEffect, LoadedStays, FindsStays
     DEF CommitCall, FindInv, LoadedLabels, redis
<1>2. ASSUME NEW t \in Sessions, LookupFound(t) \/ GiveUp(t)
      PROVE  LoadedInv' /\ CommitsFindDocument'
  BY <1>0, <1>2, LeaveEffect, LoadedStays, FindsStays
     DEF LookupFound, GiveUp, FindInv, LoadedLabels, Resting, redis
<1>3. ASSUME NEW t \in Sessions, ReadKeys(t)
      PROVE  LoadedInv' /\ CommitsFindDocument'
  <2>1. pc[t] = "lookup" /\ pc'[t] = "write" /\ \A b \in Agents : b # t => pc'[b] = pc[b]
    BY <1>0, <1>3, GotoEffect DEF ReadKeys
  <2>2. \A b \in Agents : b # t => call'[b] = call[b]
    BY <1>3 DEF ReadKeys, TypeInv, CallTypes
  <2> QED
    BY <1>0, <1>3, <2>1, <2>2, LoadedStays, FindsStays DEF ReadKeys, FindInv, LoadedLabels
<1>4. ASSUME NEW t \in Sessions, WriteKeys(t) \/ LoseWriteReply(t)
      PROVE  LoadedInv' /\ CommitsFindDocument'
  <2>1. keys'.present
    BY <1>4 DEF WriteKeys, LoseWriteReply, CommitScript, State, FindInv, CommitsFindDocument
  <2>2. pc'[t] \in {"enqueue", "idle"} /\ \A b \in Agents : b # t => pc'[b] = pc[b]
    BY <1>0, <1>4, GotoEffect DEF WriteKeys, LoseWriteReply, Leave, Resting
  <2>3. \A b \in Agents : b # t => call'[b] = call[b]
    BY <1>0, <1>4, LeaveEffect DEF WriteKeys, LoseWriteReply, TypeInv, CallTypes
  <2>4. LoadedInv'
    BY <2>2, <2>3, LoadedStays DEF FindInv, LoadedLabels
  <2> QED
    BY <2>1, <2>4 DEF CommitsFindDocument
<1>5. ASSUME NEW t \in Sessions, EnqueuePersist(t)
      PROVE  LoadedInv' /\ CommitsFindDocument'
  BY <1>0, <1>5, GotoEffect, CallEffect, LoadedStays, FindsStays
     DEF EnqueuePersist, FindInv, LoadedLabels, redis
<1>6. ASSUME NEW s \in Servers, Persisting(s)
      PROVE  LoadedInv' /\ CommitsFindDocument'
  BY <1>6, LoadedStays, FindsStays
     DEF Persisting, UpsertDocument, InsertOperation, FindInv, LoadedLabels, redis
<1>7. ASSUME NEW s \in Servers, DropSubscriber(s)
      PROVE  LoadedInv' /\ CommitsFindDocument'
  <2>1. s \in Agents
    BY DEF Agents
  <2> QED
    BY <1>0, <1>7, <2>1, GotoEffect, LoadedStays, FindsStays
       DEF DropSubscriber, FindInv, LoadedLabels, redis
<1>8. ASSUME NEW s \in Servers, Crash(s)
      PROVE  LoadedInv' /\ CommitsFindDocument'
  <2>1. \A b \in Agents : \/ pc'[b] \in {"enter", "idle"}
                          \/ pc'[b] = pc[b] /\ call'[b] = call[b]
    BY <1>8 DEF Crash, HostOf
  <2> QED
    BY <1>0, <1>8, <2>1, LoadedStays, FindsStays DEF Crash, FindInv, LoadedLabels, redis
<1>9. ASSUME NEW how \in Restarts, Restart(how)
      PROVE  LoadedInv' /\ CommitsFindDocument'
  <2>1. ASSUME NEW b \in Agents PROVE pc'[b] \notin InMutexLabels
    <3>1. CASE InMutex(b)
      BY <1>9, <2>1, <3>1, AgentTyping DEF Restart, InMutexLabels, Agents
    <3>2. CASE ~InMutex(b)
      BY <1>9, <2>1, <3>2 DEF Restart, InMutexLabels, FindInv, MutexInv
    <3> QED
      BY <3>1, <3>2
  <2> QED
    BY <1>0, <2>1 DEF InMutexLabels, LoadedInv, CommitsFindDocument
<1>10. ASSUME LockExpires PROVE LoadedInv' /\ CommitsFindDocument'
  BY <1>10, LoadedStays, FindsStays DEF LockExpires, FindInv
<1> QED
  BY <1>1, <1>2, <1>3, <1>4, <1>5, <1>6, <1>7, <1>8, <1>9, <1>10 DEF Committing

LEMMA FindStep == TypeInv /\ FindInv /\ [Next]_vars => FindInv'
<1> SUFFICES ASSUME TypeInv, FindInv, [Next]_vars PROVE FindInv'
  OBVIOUS
<1>1. CASE Next
  BY <1>1, RecoveringMutex, OtherMutex, RecoveringFinds, OtherFinds DEF Next, FindInv
<1>2. CASE UNCHANGED vars
  BY <1>2 DEF vars, redis, FindInv, MutexInv, InMutex, LoadedInv, CommitsFindDocument
<1> QED
  BY <1>1, <1>2

LEMMA AlwaysFinds == Spec => []FindInv
<1>1. Init => FindInv
  BY AgentTyping
     DEF Init, FindInv, MutexInv, InMutexLabels, LoadedInv, CommitsFindDocument, Agents
<1> QED
  BY <1>1, AlwaysTyped, FindStep, PTL DEF Spec

(* CommitsFindDocument: a session that has come through                    *)
(* ensure_recovery_locked works on a document that Redis has, whatever     *)
(* restarts, reconnects and crashes come between.                          *)
THEOREM CommitsFindTheDocument == Spec => []CommitsFindDocument
<1>1. FindInv => CommitsFindDocument
  BY DEF FindInv
<1> QED
  BY <1>1, AlwaysFinds, PTL

-----------------------------------------------------------------------------
(* What holds until Redis restarts or a subscriber reconnects, whoever     *)
(* starts, crashes or loses a reply meanwhile.                             *)

Undisturbed == happened.restarts = 0 /\ happened.drops = 0

(* A server is in start() or has returned from it, and then Redis has a    *)
(* document.                                                               *)
ServersInv ==
  \A s \in Servers :
    /\ link[s] # "stale"
    /\ pc[s] \in {"enter", "exists", "loadInit", "loadInitOps", "init", "listening"}
    /\ call[s].why = IF pc[s] = "listening" THEN "recover" ELSE "start"
    /\ pc[s] = "listening" => keys.present

(* A session that commits has a started server, so it never loads.         *)
SessionsInv ==
  \A t \in Sessions :
    /\ pc[t] \in {"idle", "enter", "exists", "lookup", "write", "enqueue"}
    /\ call[t].why = "commit"
    /\ pc[t] # "idle" => keys.present

(* Before the first InitState nothing is stored anywhere.                  *)
EmptyInv ==
  ~keys.present =>
    /\ keys = NoKeys /\ documents = {} /\ operations = {}
    /\ \A s \in Servers :
         /\ queue[s] = <<>> /\ inflight[s] = {}
         /\ pc[s] # "loadInitOps"
         /\ pc[s] = "init" => call[s].loaded = DefaultState

(* The document is that of the log.                                        *)
LogInv ==
  /\ keys.content = Ids(keys.history)
  /\ keys.revision = Len(keys.history)
  /\ \A i \in DOMAIN keys.history : keys.history[i].revision = i
  /\ \A i, j \in DOMAIN keys.history :
       keys.history[i].opId = keys.history[j].opId => i = j

(* Only the holder of the lock is about to write, and what it read is      *)
(* still what Redis has.                                                   *)
WriterInv ==
  \A t \in Sessions : pc[t] = "write" =>
       /\ lock = t
       /\ call[t].job = Job(Append(keys.content, call[t].opId),
                            [opId |-> call[t].opId, revision |-> keys.revision + 1])
       /\ Existing(call[t].opId) = {}

(* An operation of the log, with the document that it made.                *)
DocumentAt(history, content, revision) ==
  revision \in 1 .. Len(history) /\ content = SubSeq(Ids(history), 1, revision)

JobOf(history, job) ==
  /\ DocumentAt(history, job.content, job.op.revision)
  /\ job.op = history[job.op.revision]

RowsInv ==
  /\ \A t \in Sessions : pc[t] = "enqueue" => JobOf(keys.history, call[t].job)
  /\ \A s \in Servers, i \in Nat : i \in DOMAIN queue[s] => JobOf(keys.history, queue[s][i])
  /\ \A s \in Servers : \A job \in inflight[s] : JobOf(keys.history, job)
  /\ \A row \in documents : DocumentAt(keys.history, row.content, row.revision)
  /\ \A op \in operations :
       op.revision \in DOMAIN keys.history /\ keys.history[op.revision] = op

(* Where an operation waits for PostgreSQL: with the session that          *)
(* committed it (0), in flight (0), or at a place of a queue.              *)
Holds(a, i, op) ==
  \/ a \in Sessions /\ i = 0 /\ pc[a] = "enqueue" /\ call[a].job.op = op
  \/ a \in Servers /\ i = 0 /\ \E job \in inflight[a] : job.op = op
  \/ a \in Servers /\ i \in DOMAIN queue[a] /\ queue[a][i].op = op

(* An operation waits in one place at most, and not once it has its row.   *)
OnceInv ==
  /\ \A s \in Servers : \A job, other \in inflight[s] : job = other
  /\ \A a, b \in Agents, i, k \in Nat, op \in CommittedOp :
       Holds(a, i, op) /\ Holds(b, k, op) => a = b /\ i = k
  /\ \A a \in Agents, i \in Nat, op \in CommittedOp :
       Holds(a, i, op) => op \notin operations

CalmInv ==
  ServersInv /\ SessionsInv /\ EmptyInv /\ LogInv /\ WriterInv /\ RowsInv /\ OnceInv

LEMMA IdsTyping ==
  ASSUME NEW h \in Seq(CommittedOp)
  PROVE  /\ Ids(h) \in Seq(OpIds) /\ Len(Ids(h)) = Len(h) /\ DOMAIN Ids(h) = DOMAIN h
         /\ \A i \in DOMAIN h : Ids(h)[i] = h[i].opId
<1>1. DOMAIN h = 1 .. Len(h) /\ Len(h) \in Nat /\ \A i \in 1 .. Len(h) : h[i] \in CommittedOp
  OBVIOUS
<1>2. Ids(h) \in [1 .. Len(h) -> OpIds]
  BY <1>1 DEF Ids, CommittedOp
<1>3. Ids(h) \in Seq(OpIds) /\ Len(Ids(h)) = Len(h)
  BY <1>1, <1>2
<1> QED
  BY <1>1, <1>2, <1>3 DEF Ids

LEMMA IdsAppend ==
  ASSUME NEW h \in Seq(CommittedOp), NEW op \in CommittedOp
  PROVE  /\ Append(h, op) \in Seq(CommittedOp)
         /\ Ids(Append(h, op)) = Append(Ids(h), op.opId)
<1>1. Append(h, op) \in Seq(CommittedOp) /\ Len(Append(h, op)) = Len(h) + 1
  OBVIOUS
<1>2. Ids(h) \in Seq(OpIds) /\ Len(Ids(h)) = Len(h) /\ op.opId \in OpIds
  BY IdsTyping DEF CommittedOp
<1>3. Append(Ids(h), op.opId) \in Seq(OpIds) /\ Len(Append(Ids(h), op.opId)) = Len(h) + 1
  BY <1>2
<1>4. Ids(Append(h, op)) \in Seq(OpIds) /\ Len(Ids(Append(h, op))) = Len(h) + 1
  BY <1>1, IdsTyping
<1>5. ASSUME NEW i \in 1 .. Len(h) + 1
      PROVE  Ids(Append(h, op))[i] = Append(Ids(h), op.opId)[i]
  <2>0. Len(h) \in Nat /\ i \in DOMAIN Append(h, op)
    OBVIOUS
  <2>1. Ids(Append(h, op))[i] = Append(h, op)[i].opId
    BY <1>1, <2>0, IdsTyping
  <2>2. CASE i = Len(h) + 1
    BY <1>2, <2>1, <2>2
  <2>3. CASE i \in 1 .. Len(h)
    <3>1. Append(h, op)[i] = h[i] /\ Append(Ids(h), op.opId)[i] = Ids(h)[i]
      BY <1>2, <2>3
    <3> QED
      BY <2>1, <2>3, <3>1, IdsTyping
  <2>4. i = Len(h) + 1 \/ i \in 1 .. Len(h)
    BY <2>0
  <2> QED
    BY <2>2, <2>3, <2>4
<1> QED
  BY <1>1, <1>3, <1>4, <1>5, SeqEqual

(* What is written for a log is still right for a longer one. *)
LEMMA LongerLog ==
  ASSUME NEW h \in Seq(CommittedOp), NEW op \in CommittedOp
  PROVE  /\ \A content, revision :
              DocumentAt(h, content, revision) => DocumentAt(Append(h, op), content, revision)
         /\ \A job : JobOf(h, job) => JobOf(Append(h, op), job)
<1>1. ASSUME NEW content, NEW revision, DocumentAt(h, content, revision)
      PROVE  DocumentAt(Append(h, op), content, revision)
  <2>1. revision \in 1 .. Len(h) /\ revision \in Nat /\ Len(Append(h, op)) = Len(h) + 1
    BY <1>1 DEF DocumentAt
  <2>2. revision \in 1 .. Len(Append(h, op))
    BY <2>1
  <2>3. Ids(h) \in Seq(OpIds) /\ Len(Ids(h)) = Len(h) /\ <<op.opId>> \in Seq(OpIds)
    <3>1. op.opId \in OpIds
      BY DEF CommittedOp
    <3> QED
      BY <3>1, IdsTyping
  <2>4. Append(Ids(h), op.opId) = Ids(h) \o <<op.opId>>
    BY <2>3
  <2>5. SubSeq(Ids(h) \o <<op.opId>>, 1, revision) = SubSeq(Ids(h), 1, revision)
    BY <2>1, <2>3, SubSeqOfConcat1
  <2> QED
    BY <1>1, <2>2, <2>4, <2>5, IdsAppend DEF DocumentAt
<1>2. ASSUME NEW job, JobOf(h, job) PROVE JobOf(Append(h, op), job)
  <2>1. job.op.revision \in 1 .. Len(h)
    BY <1>2 DEF JobOf, DocumentAt
  <2>2. Append(h, op)[job.op.revision] = h[job.op.revision]
    BY <2>1
  <2> QED
    BY <1>1, <1>2, <2>2 DEF JobOf
<1> QED
  BY <1>1, <1>2

LEMMA CalmInit == Init => CalmInv
<1> SUFFICES ASSUME Init PROVE CalmInv
  OBVIOUS
<1>1. ServersInv /\ SessionsInv
  BY AgentTyping DEF Init, ServersInv, SessionsInv, Call, Agents
<1>2. EmptyInv
  BY AgentTyping DEF Init, EmptyInv, Agents
<1>3. keys.history = <<>> /\ keys.content = <<>> /\ keys.revision = 0
  BY DEF Init, NoKeys, State
<1>4. Ids(<<>>) = <<>>
  BY IdsTyping, EmptySeq
<1>5. LogInv
  BY <1>3, <1>4 DEF LogInv
<1>8. WriterInv
  BY AgentTyping DEF Init, WriterInv, Agents
<1>6. RowsInv
  BY AgentTyping DEF Init, RowsInv, Agents
<1>7. OnceInv
  BY AgentTyping DEF Init, OnceInv, Holds, Agents
<1> QED
  BY <1>1, <1>2, <1>5, <1>6, <1>7, <1>8 DEF CalmInv

(* A calm step: no restart, no reconnect. *)
CalmNext ==
  \/ \E a \in Agents : Recovering(a)
  \/ \E t \in Sessions :
       \/ \E id \in OpIds : CommitCall(t, id)
       \/ Committing(t)
       \/ LoseWriteReply(t)
  \/ \E s \in Servers : Persisting(s) \/ Crash(s)
  \/ LockExpires

(* What the bounded events count of a calm step. *)
LEMMA CalmHappened ==
  ASSUME CalmNext
  PROVE  happened' = happened \/ \E e \in {"calls", "crashes", "lost"} :
                                   happened' = [happened EXCEPT ![e] = @ + 1]
<1>1. ASSUME NEW a \in Agents, Recovering(a) PROVE happened' = happened
  BY <1>1 DEF Recovering, Enter, ExistsFails, ExistsSkips, ExistsLoads, LoadDocument,
     LoadNothing, LoadDefault, LoadOperations, InitState, ReloadState
<1>2. ASSUME NEW t \in Sessions, Committing(t) PROVE happened' = happened
  BY <1>2 DEF Committing, LookupFound, ReadKeys, GiveUp, WriteKeys, EnqueuePersist
<1>3. ASSUME NEW s \in Servers, Persisting(s) PROVE happened' = happened
  BY <1>3 DEF Persisting, UpsertDocument, InsertOperation
<1>4. ASSUME NEW t \in Sessions, NEW id \in OpIds, CommitCall(t, id)
      PROVE happened' = [happened EXCEPT !["calls"] = @ + 1]
  BY <1>4 DEF CommitCall, Count
<1>5. ASSUME NEW t \in Sessions, LoseWriteReply(t)
      PROVE happened' = [happened EXCEPT !["lost"] = @ + 1]
  BY <1>5 DEF LoseWriteReply, Count
<1>6. ASSUME NEW s \in Servers, Crash(s)
      PROVE happened' = [happened EXCEPT !["crashes"] = @ + 1]
  BY <1>6 DEF Crash, Count
<1>7. LockExpires => happened' = happened
  BY DEF LockExpires
<1> QED
  BY <1>1, <1>2, <1>3, <1>4, <1>5, <1>6, <1>7 DEF CalmNext

LEMMA CalmBefore ==
  ASSUME TypeInv, Next, Undisturbed'
  PROVE  Undisturbed /\ CalmNext
<1>1. happened.restarts \in Nat /\ happened.drops \in Nat
      /\ happened \in [calls: Nat, restarts: Nat, drops: Nat, crashes: Nat, lost: Nat]
  BY DEF TypeInv, HistoryTypes
<1>2. ASSUME NEW how \in Restarts, Restart(how) PROVE FALSE
  BY <1>1, <1>2 DEF Restart, Count, Undisturbed
<1>3. ASSUME NEW s \in Servers, DropSubscriber(s) PROVE FALSE
  BY <1>1, <1>3 DEF DropSubscriber, Count, Undisturbed
<1>4. CalmNext
  BY <1>2, <1>3 DEF Next, CalmNext
<1>5. Undisturbed
  BY <1>1, <1>4, CalmHappened DEF Undisturbed
<1> QED
  BY <1>4, <1>5

(* What a calm step does to the document: nothing, or it stores the        *)
(* default one, or a session commits.                                      *)
Commits(t) ==
  LET op == [opId |-> call[t].opId, revision |-> keys.revision + 1]
  IN  /\ pc[t] = "write" /\ Existing(op.opId) = {}
      /\ call[t].job = Job(Append(keys.content, op.opId), op)
      /\ keys' = State(TRUE, Append(keys.content, op.opId), op.revision,
                       Append(keys.history, op))

LEMMA RestingWhy ==
  /\ \A s \in Servers : RestingCall(s).why = "recover"
  /\ \A t \in Sessions : RestingCall(t).why = "commit"
BY AgentTyping DEF RestingCall, Call

LEMMA CalmScript ==
  ASSUME WriterInv, NEW t \in Sessions, pc[t] = "write", CommitScript(t)
  PROVE  Commits(t) /\ Committed(t) = {call[t].job.op}
<1>1. /\ call[t].job = Job(Append(keys.content, call[t].opId),
                            [opId |-> call[t].opId, revision |-> keys.revision + 1])
      /\ Existing(call[t].opId) = {}
  BY DEF WriterInv
<1>2. call[t].job.op = [opId |-> call[t].opId, revision |-> keys.revision + 1]
  BY <1>1 DEF Job
<1>3. call[t].job.content = Append(keys.content, call[t].opId)
  BY <1>1 DEF Job
<1>4. call[t].job.op.opId = call[t].opId /\ call[t].job.op.revision = keys.revision + 1
  BY <1>2
<1>5. keys' = State(TRUE, call[t].job.content, call[t].job.op.revision,
                    Append(keys.history, call[t].job.op))
  BY <1>1, <1>4 DEF CommitScript
<1>6. Committed(t) = {call[t].job.op}
  BY <1>1, <1>4 DEF Committed
<1>7. Commits(t)
  BY <1>1, <1>2, <1>3, <1>5 DEF Commits
<1> QED
  BY <1>6, <1>7

LEMMA CommitsEffect ==
  ASSUME NEW t \in Sessions, Commits(t)
  PROVE  LET op == [opId |-> call[t].opId, revision |-> keys.revision + 1]
         IN  /\ pc[t] = "write" /\ Existing(op.opId) = {}
             /\ call[t].job.op = op
             /\ call[t].job.content = Append(keys.content, op.opId)
             /\ keys'.present
             /\ keys'.content = Append(keys.content, op.opId)
             /\ keys'.revision = keys.revision + 1
             /\ keys'.history = Append(keys.history, op)
<1> DEFINE op == [opId |-> call[t].opId, revision |-> keys.revision + 1]
<1>1. /\ pc[t] = "write" /\ Existing(op.opId) = {}
      /\ call[t].job = Job(Append(keys.content, op.opId), op)
      /\ keys' = State(TRUE, Append(keys.content, op.opId), op.revision,
                       Append(keys.history, op))
  BY DEF Commits
<1>2. op.revision = keys.revision + 1
  OBVIOUS
<1> HIDE DEF op
<1>3. call[t].job.op = op /\ call[t].job.content = Append(keys.content, op.opId)
  BY <1>1 DEF Job
<1>4. /\ keys'.present
      /\ keys'.content = Append(keys.content, op.opId)
      /\ keys'.revision = op.revision
      /\ keys'.history = Append(keys.history, op)
  BY <1>1 DEF State
<1> QED
  BY <1>1, <1>2, <1>3, <1>4 DEF op

LEMMA CalmRecovering ==
  ASSUME TypeInv, FindInv, CalmInv, NEW a \in Agents, Recovering(a)
  PROVE  /\ ServersInv' /\ SessionsInv' /\ EmptyInv'
         /\ \/ keys' = keys
            \/ ~keys.present /\ keys' = DefaultState
         /\ \A t \in Sessions :
              /\ pc'[t] \in {"write", "enqueue"} => pc'[t] = pc[t] /\ call'[t] = call[t]
         /\ <<lock, postgres, jobs>>' = <<lock, postgres, jobs>>
<1>0. /\ Sessions \subseteq Agents /\ Servers \subseteq Agents
      /\ \A s \in Servers : HostOf(s) = s /\ s \notin Sessions
  BY AgentTyping DEF Agents, HostOf
<1>1. ASSUME Enter(a) PROVE ServersInv' /\ SessionsInv' /\ EmptyInv' /\ keys' = keys
  <2>1. /\ pc[a] = "enter" /\ pc'[a] = "exists" /\ call' = call
        /\ \A b \in Agents : b # a => pc'[b] = pc[b]
    BY <1>1, GotoEffect DEF Enter
  <2>2. ServersInv'
    BY <1>0, <1>1, <2>1, AgentTyping DEF Enter, CalmInv, ServersInv, redis, TypeInv, AgentTypes
  <2>3. SessionsInv'
    BY <1>0, <1>1, <2>1 DEF Enter, CalmInv, SessionsInv, redis
  <2>4. EmptyInv'
    BY <1>0, <1>1, <2>1 DEF Enter, CalmInv, EmptyInv, redis, postgres, jobs
  <2> QED
    BY <1>1, <2>2, <2>3, <2>4 DEF Enter, redis
<1>2. ASSUME ExistsFails(a) PROVE FALSE
  BY <1>2, AgentTyping DEF ExistsFails, CalmInv, ServersInv
<1>3. ASSUME ExistsSkips(a) PROVE ServersInv' /\ SessionsInv' /\ EmptyInv' /\ keys' = keys
  <2>1. keys.present /\ keys' = keys /\ link' = link /\ pc[a] = "exists"
    BY <1>3 DEF ExistsSkips, redis
  <2>2. EmptyInv'
    BY <2>1 DEF EmptyInv
  <2>3. CASE a \in Servers
    <3>1. /\ pc'[a] = "listening" /\ call'[a].why = "recover"
          /\ \A b \in Agents : b # a => pc'[b] = pc[b] /\ call'[b] = call[b]
      BY <1>3, <2>3, LeaveEffect, RestingWhy DEF ExistsSkips, Resting
    <3> QED
      BY <1>0, <2>1, <2>2, <2>3, <3>1 DEF CalmInv, ServersInv, SessionsInv
  <2>4. CASE a \notin Servers
    <3>1. /\ pc'[a] = "lookup" /\ call' = call
          /\ \A b \in Agents : b # a => pc'[b] = pc[b]
      BY <1>0, <1>3, <2>4, GotoEffect DEF ExistsSkips
    <3> QED
      BY <1>0, <2>1, <2>2, <2>4, <3>1 DEF CalmInv, ServersInv, SessionsInv
  <2> QED
    BY <2>1, <2>3, <2>4
<1>4. ASSUME ExistsLoads(a) PROVE ServersInv' /\ SessionsInv' /\ EmptyInv' /\ keys' = keys
  <2>1. a \in Servers
    BY <1>4 DEF ExistsLoads, CalmInv, SessionsInv, Agents
  <2>2. call[a].why = "start"
    BY <1>4, <2>1 DEF ExistsLoads, CalmInv, ServersInv
  <2>3. /\ pc'[a] = "loadInit"
        /\ \A b \in Agents : b # a => pc'[b] = pc[b]
    BY <1>4, <2>2, GotoEffect DEF ExistsLoads
  <2>4. call'[a].why = call[a].why /\ \A b \in Agents : b # a => call'[b] = call[b]
    BY <1>4 DEF ExistsLoads, TypeInv, CallTypes, CallRecord
  <2>5. ServersInv'
    BY <1>0, <1>4, <2>1, <2>2, <2>3, <2>4 DEF ExistsLoads, CalmInv, ServersInv, redis
  <2>6. SessionsInv'
    BY <1>0, <1>4, <2>1, <2>3, <2>4 DEF ExistsLoads, CalmInv, SessionsInv, redis
  <2>7. EmptyInv'
    BY <1>0, <1>4, <2>1, <2>3, <2>4
       DEF ExistsLoads, CalmInv, EmptyInv, redis, postgres, jobs
  <2> QED
    BY <1>4, <2>5, <2>6, <2>7 DEF ExistsLoads, redis
<1>5. ASSUME LoadDocument(a) PROVE ServersInv' /\ SessionsInv' /\ EmptyInv' /\ keys' = keys
  <2>1. a \in Servers /\ pc[a] = "loadInit"
    BY <1>5 DEF LoadDocument, CalmInv, SessionsInv, ServersInv, Agents
  <2>2. pc'[a] = "loadInitOps" /\ \A b \in Agents : b # a => pc'[b] = pc[b]
    BY <1>5, <2>1, GotoEffect DEF LoadDocument
  <2>3. call'[a].why = call[a].why /\ \A b \in Agents : b # a => call'[b] = call[b]
    BY <1>5 DEF LoadDocument, TypeInv, CallTypes, CallRecord
  <2>4. keys.present
    BY <1>5 DEF LoadDocument, CalmInv, EmptyInv
  <2>5. ServersInv'
    BY <1>0, <1>5, <2>1, <2>2, <2>3 DEF LoadDocument, CalmInv, ServersInv, redis
  <2>6. SessionsInv'
    BY <1>0, <1>5, <2>1, <2>2, <2>3 DEF LoadDocument, CalmInv, SessionsInv, redis
  <2>7. EmptyInv'
    BY <1>5, <2>4 DEF LoadDocument, EmptyInv, redis
  <2> QED
    BY <1>5, <2>5, <2>6, <2>7 DEF LoadDocument, redis
<1>6. ASSUME LoadNothing(a) PROVE FALSE
  BY <1>6 DEF LoadNothing, CalmInv, SessionsInv, ServersInv, Agents
<1>7. ASSUME LoadDefault(a) PROVE ServersInv' /\ SessionsInv' /\ EmptyInv' /\ keys' = keys
  <2>1. a \in Servers /\ pc[a] = "loadInit"
    BY <1>7 DEF LoadDefault, CalmInv, SessionsInv, ServersInv, Agents
  <2>2. pc'[a] = "init" /\ \A b \in Agents : b # a => pc'[b] = pc[b]
    BY <1>7, GotoEffect DEF LoadDefault
  <2>3. /\ call'[a].why = call[a].why /\ call'[a].loaded = DefaultState
        /\ \A b \in Agents : b # a => call'[b] = call[b]
    BY <1>7 DEF LoadDefault, TypeInv, CallTypes, CallRecord
  <2>4. ServersInv'
    BY <1>0, <1>7, <2>1, <2>2, <2>3 DEF LoadDefault, CalmInv, ServersInv, redis
  <2>5. SessionsInv'
    BY <1>0, <1>7, <2>1, <2>2, <2>3 DEF LoadDefault, CalmInv, SessionsInv, redis
  <2>6. EmptyInv'
    BY <1>0, <1>7, <2>1, <2>2, <2>3
       DEF LoadDefault, CalmInv, EmptyInv, redis, postgres, jobs
  <2> QED
    BY <1>7, <2>4, <2>5, <2>6 DEF LoadDefault, redis
<1>8. ASSUME LoadOperations(a) PROVE ServersInv' /\ SessionsInv' /\ EmptyInv' /\ keys' = keys
  <2>1. a \in Servers /\ pc[a] = "loadInitOps"
    BY <1>8 DEF LoadOperations, CalmInv, SessionsInv, ServersInv, Agents
  <2>2. pc'[a] = "init" /\ \A b \in Agents : b # a => pc'[b] = pc[b]
    BY <1>8, <2>1, GotoEffect DEF LoadOperations
  <2>3. call'[a].why = call[a].why /\ \A b \in Agents : b # a => call'[b] = call[b]
    BY <1>8 DEF LoadOperations, TypeInv, CallTypes, CallRecord
  <2>4. keys.present
    BY <2>1 DEF CalmInv, EmptyInv
  <2>5. ServersInv'
    BY <1>0, <1>8, <2>1, <2>2, <2>3 DEF LoadOperations, CalmInv, ServersInv, redis
  <2>6. SessionsInv'
    BY <1>0, <1>8, <2>1, <2>2, <2>3 DEF LoadOperations, CalmInv, SessionsInv, redis
  <2>7. EmptyInv'
    BY <1>8, <2>4 DEF LoadOperations, EmptyInv, redis
  <2> QED
    BY <1>8, <2>5, <2>6, <2>7 DEF LoadOperations, redis
<1>9. ASSUME InitState(a)
      PROVE  /\ ServersInv' /\ SessionsInv' /\ EmptyInv'
             /\ keys' = keys \/ (~keys.present /\ keys' = DefaultState)
  <2>1. a \in Servers /\ pc[a] = "init"
    BY <1>9 DEF InitState, CalmInv, SessionsInv, ServersInv, Agents
  <2>2. keys'.present
    BY <1>9, <2>1 DEF InitState, FindInv, LoadedInv
  <2>3. keys' = keys \/ (~keys.present /\ keys' = DefaultState)
    BY <1>9, <2>1 DEF InitState, CalmInv, EmptyInv
  <2>4. /\ pc'[a] = "listening" /\ call'[a].why = "recover"
        /\ \A b \in Agents : b # a => pc'[b] = pc[b] /\ call'[b] = call[b]
    BY <1>9, <2>1, RecoveredEffect, RestingWhy DEF InitState
  <2>5. ServersInv' /\ SessionsInv'
    BY <1>0, <1>9, <2>1, <2>2, <2>4 DEF InitState, CalmInv, ServersInv, SessionsInv
  <2>6. EmptyInv'
    BY <2>2 DEF EmptyInv
  <2> QED
    BY <2>3, <2>5, <2>6
<1>10. ASSUME ReloadState(a) PROVE FALSE
  BY <1>10 DEF ReloadState, CalmInv, SessionsInv, ServersInv, Agents
<1>11. ASSUME NEW t \in Sessions, pc'[t] \in {"write", "enqueue"}
       PROVE  pc'[t] = pc[t] /\ call'[t] = call[t]
  <2>1. CASE a = t
    <3>1. a \notin Servers
      BY <2>1, AgentTyping
    <3>2. ASSUME Enter(a) PROVE FALSE
      BY <1>11, <2>1, <3>2, GotoEffect DEF Enter
    <3>3. ASSUME ExistsSkips(a) PROVE FALSE
      BY <1>11, <2>1, <3>1, <3>3, GotoEffect DEF ExistsSkips
    <3>4. ~ExistsLoads(a)
      BY <2>1 DEF ExistsLoads, CalmInv, SessionsInv
    <3>5. ~LoadDocument(a) /\ ~LoadDefault(a) /\ ~LoadOperations(a) /\ ~InitState(a)
      BY <2>1 DEF LoadDocument, LoadDefault, LoadOperations, InitState, CalmInv, SessionsInv
    <3> QED
      BY <1>2, <1>6, <1>10, <3>2, <3>3, <3>4, <3>5 DEF Recovering
  <2>2. CASE a # t
    <3>1. t \in Agents
      BY <1>0
    <3>2. pc'[t] = pc[t]
      <4>1. ASSUME NEW label, Goto(a, label) PROVE pc'[t] = pc[t]
        BY <2>2, <3>1, <4>1, GotoEffect
      <4>2. Recovered(a) \/ Leave(a) => pc'[t] = pc[t]
        BY <2>2, <3>1, LeaveEffect, RecoveredEffect
      <4> QED
        BY <1>2, <1>6, <1>10, <4>1, <4>2 DEF Recovering, Enter, ExistsSkips, ExistsLoads,
           LoadDocument, LoadDefault, LoadOperations, InitState
    <3>3. call'[t] = call[t]
      <4>1. Recovered(a) \/ Leave(a) => call'[t] = call[t]
        BY <2>2, <3>1, LeaveEffect, RecoveredEffect
      <4>2. ASSUME NEW c, call' = [call EXCEPT ![a] = c] PROVE call'[t] = call[t]
        BY <2>2, <3>1, <4>2, CallEffect
      <4>3. ExistsLoads(a) => call'[t] = call[t]
        BY <4>2 DEF ExistsLoads
      <4>4. LoadDocument(a) => call'[t] = call[t]
        BY <4>2 DEF LoadDocument
      <4>5. LoadDefault(a) \/ LoadOperations(a) => call'[t] = call[t]
        BY <4>2 DEF LoadDefault, LoadOperations
      <4>6. Enter(a) \/ ExistsSkips(a) \/ InitState(a) => call'[t] = call[t]
        BY <4>1 DEF Enter, ExistsSkips, InitState
      <4> QED
        BY <1>2, <1>6, <1>10, <4>3, <4>4, <4>5, <4>6 DEF Recovering
    <3> QED
      BY <3>2, <3>3
  <2> QED
    BY <2>1, <2>2
<1>12. <<lock, postgres, jobs>>' = <<lock, postgres, jobs>>
  BY DEF Recovering, Enter, ExistsFails, ExistsSkips, ExistsLoads, LoadDocument,
     LoadNothing, LoadDefault, LoadOperations, InitState, ReloadState, redis, postgres, jobs
<1> QED
  BY <1>1, <1>2, <1>3, <1>4, <1>5, <1>6, <1>7, <1>8, <1>9, <1>10, <1>11, <1>12 DEF Recovering

(* A session's step, once Redis has a document. *)
LEMMA SessionSteps ==
  ASSUME CalmInv, NEW t \in Sessions, keys'.present, link' = link \/ link'[Host[t]] = "down",
         \A s \in Servers : link'[s] = link[s] \/ link'[s] = "down",
         pc'[t] \in {"idle", "enter", "exists", "lookup", "write", "enqueue"},
         call'[t].why = "commit",
         \A b \in Agents : b # t => pc'[b] = pc[b] /\ call'[b] = call[b]
  PROVE  ServersInv' /\ SessionsInv' /\ EmptyInv'
<1>1. ServersInv'
  BY AgentTyping DEF CalmInv, ServersInv, Agents
<1>2. SessionsInv'
  BY DEF CalmInv, SessionsInv, Agents
<1>3. EmptyInv'
  BY DEF EmptyInv
<1> QED
  BY <1>1, <1>2, <1>3

LEMMA CalmSession ==
  ASSUME TypeInv, CalmInv, NEW t \in Sessions,
         (\E id \in OpIds : CommitCall(t, id)) \/ Committing(t) \/ LoseWriteReply(t)
  PROVE  ServersInv' /\ SessionsInv' /\ EmptyInv'
<1>0. t \in Agents /\ t \notin Servers /\ Host[t] \in Servers /\ call[t].why = "commit"
  BY AgentTyping DEF Agents, CalmInv, SessionsInv
<1>1. ASSUME NEW id \in OpIds, CommitCall(t, id) PROVE ServersInv' /\ SessionsInv' /\ EmptyInv'
  <2>1. keys'.present /\ link' = link
    BY <1>0, <1>1 DEF CommitCall, Started, CalmInv, ServersInv, redis
  <2>2. call'[t] = Call("commit", id) /\ \A b \in Agents : b # t => call'[b] = call[b]
    BY <1>0, <1>1, CallEffect DEF CommitCall
  <2>3. pc'[t] = "enter" /\ \A b \in Agents : b # t => pc'[b] = pc[b]
    BY <1>0, <1>1, GotoEffect DEF CommitCall
  <2>4. call'[t].why = "commit"
    BY <2>2 DEF Call
  <2> QED
    BY <2>1, <2>2, <2>3, <2>4, SessionSteps
<1>2. ASSUME LookupFound(t) \/ GiveUp(t) PROVE ServersInv' /\ SessionsInv' /\ EmptyInv'
  <2>1. keys'.present /\ link' = link
    BY <1>2 DEF LookupFound, GiveUp, CalmInv, SessionsInv, redis
  <2>2. /\ pc'[t] = "idle" /\ call'[t].why = "commit"
        /\ \A b \in Agents : b # t => pc'[b] = pc[b] /\ call'[b] = call[b]
    BY <1>0, <1>2, LeaveEffect, RestingWhy DEF LookupFound, GiveUp, Resting
  <2> QED
    BY <2>1, <2>2, SessionSteps
<1>3. ASSUME ReadKeys(t) PROVE ServersInv' /\ SessionsInv' /\ EmptyInv'
  <2>1. keys'.present /\ link' = link
    BY <1>3 DEF ReadKeys, CalmInv, SessionsInv
  <2>2. pc'[t] = "write" /\ \A b \in Agents : b # t => pc'[b] = pc[b]
    BY <1>0, <1>3, GotoEffect DEF ReadKeys
  <2>3. call'[t].why = "commit" /\ \A b \in Agents : b # t => call'[b] = call[b]
    BY <1>0, <1>3 DEF ReadKeys, TypeInv, CallTypes, CallRecord
  <2> QED
    BY <2>1, <2>2, <2>3, SessionSteps
<1>4. ASSUME WriteKeys(t) PROVE ServersInv' /\ SessionsInv' /\ EmptyInv'
  <2>1. keys'.present /\ link' = link
    BY <1>4, CalmScript, CommitsEffect DEF WriteKeys, CalmInv
  <2>2. pc'[t] = "enqueue" /\ \A b \in Agents : b # t => pc'[b] = pc[b]
    BY <1>0, <1>4, GotoEffect DEF WriteKeys
  <2>3. call'[t].why = "commit" /\ \A b \in Agents : b # t => call'[b] = call[b]
    BY <1>0, <1>4 DEF WriteKeys, TypeInv, CallTypes, CallRecord
  <2> QED
    BY <2>1, <2>2, <2>3, SessionSteps
<1>5. ASSUME LoseWriteReply(t) PROVE ServersInv' /\ SessionsInv' /\ EmptyInv'
  <2>1. keys'.present
    BY <1>5, CalmScript, CommitsEffect DEF LoseWriteReply, CalmInv
  <2>2. /\ pc'[t] = "idle" /\ call'[t].why = "commit"
        /\ \A b \in Agents : b # t => pc'[b] = pc[b] /\ call'[b] = call[b]
    BY <1>0, <1>5, LeaveEffect, RestingWhy DEF LoseWriteReply, Resting
  <2>3. /\ link'[Host[t]] = "down"
        /\ \A s \in Servers : link'[s] = link[s] \/ link'[s] = "down"
    BY <1>0, <1>5 DEF LoseWriteReply, TypeInv, AgentTypes
  <2> QED
    BY <2>1, <2>2, <2>3, SessionSteps
<1>6. ASSUME EnqueuePersist(t) PROVE ServersInv' /\ SessionsInv' /\ EmptyInv'
  <2>1. keys'.present /\ link' = link
    BY <1>6 DEF EnqueuePersist, CalmInv, SessionsInv, redis
  <2>2. pc'[t] = "idle" /\ \A b \in Agents : b # t => pc'[b] = pc[b]
    BY <1>0, <1>6, GotoEffect DEF EnqueuePersist
  <2>3. call'[t] = RestingCall(t) /\ \A b \in Agents : b # t => call'[b] = call[b]
    BY <1>0, <1>6, CallEffect DEF EnqueuePersist
  <2> QED
    BY <2>1, <2>2, <2>3, RestingWhy, SessionSteps
<1> QED
  BY <1>1, <1>2, <1>3, <1>4, <1>5, <1>6 DEF Committing

LEMMA CalmRest ==
  ASSUME TypeInv, CalmInv,
         (\E s \in Servers : Persisting(s) \/ Crash(s)) \/ LockExpires
  PROVE  ServersInv' /\ SessionsInv' /\ EmptyInv'
<1>1. ASSUME NEW s \in Servers, Persisting(s) PROVE ServersInv' /\ SessionsInv' /\ EmptyInv'
  <2>1. keys'.present
    BY <1>1 DEF Persisting, UpsertDocument, InsertOperation, CalmInv, EmptyInv, redis
  <2>2. ServersInv' /\ SessionsInv'
    BY <1>1 DEF Persisting, UpsertDocument, InsertOperation, CalmInv, ServersInv,
       SessionsInv, redis
  <2> QED
    BY <2>1, <2>2 DEF EmptyInv
<1>2. ASSUME NEW s \in Servers, Crash(s) PROVE ServersInv' /\ SessionsInv' /\ EmptyInv'
  <2>1. ServersInv'
    <3> SUFFICES ASSUME NEW r \in Servers
                 PROVE  /\ link'[r] # "stale"
                        /\ pc'[r] \in {"enter", "exists", "loadInit", "loadInitOps",
                                       "init", "listening"}
                        /\ call'[r].why = IF pc'[r] = "listening" THEN "recover" ELSE "start"
                        /\ pc'[r] = "listening" => keys'.present
      BY DEF ServersInv
    <3>1. r \in Agents /\ HostOf(r) = r
      BY DEF Agents, HostOf
    <3>2. CASE r = s
      BY <1>2, <3>1, <3>2 DEF Crash, Call, TypeInv, AgentTypes
    <3>3. CASE r # s
      BY <1>2, <3>1, <3>3 DEF Crash, TypeInv, AgentTypes, CalmInv, ServersInv, redis
    <3> QED
      BY <3>2, <3>3
  <2>2. SessionsInv'
    <3> SUFFICES ASSUME NEW t \in Sessions
                 PROVE  /\ pc'[t] \in {"idle", "enter", "exists", "lookup", "write", "enqueue"}
                        /\ call'[t].why = "commit"
                        /\ pc'[t] # "idle" => keys'.present
      BY DEF SessionsInv
    <3>1. t \in Agents /\ t # s
      BY AgentTyping DEF Agents
    <3>2. CASE HostOf(t) = s
      BY <1>2, <3>1, <3>2, RestingWhy DEF Crash
    <3>3. CASE HostOf(t) # s
      BY <1>2, <3>1, <3>3 DEF Crash, CalmInv, SessionsInv, redis
    <3> QED
      BY <3>2, <3>3
  <2>3. EmptyInv'
    <3>1. \A r \in Servers : r # s => pc'[r] = pc[r] /\ call'[r] = call[r]
      BY <1>2 DEF Crash, HostOf, Agents
    <3>2. pc'[s] = "enter"
      BY <1>2 DEF Crash, Agents
    <3>3. /\ queue' = [queue EXCEPT ![s] = <<>>] /\ inflight' = [inflight EXCEPT ![s] = {}]
          /\ <<redis, postgres>>' = <<redis, postgres>>
      BY <1>2 DEF Crash
    <3> QED
      BY <3>1, <3>2, <3>3 DEF CalmInv, EmptyInv, redis, postgres, TypeInv, JobTypes
  <2> QED
    BY <2>1, <2>2, <2>3
<1>3. ASSUME LockExpires PROVE ServersInv' /\ SessionsInv' /\ EmptyInv'
  BY <1>3 DEF LockExpires, CalmInv, ServersInv, SessionsInv, EmptyInv, postgres, jobs
<1> QED
  BY <1>1, <1>2, <1>3

LEMMA PrefixIff ==
  ASSUME NEW S, NEW s \in Seq(S), NEW t \in Seq(S)
  PROVE  IsPrefix(s, t) <=> Len(s) <= Len(t) /\ \A i \in 1 .. Len(s) : s[i] = t[i]
<1>1. CASE Len(s) <= Len(t)
  <2>1. Len(s) \in Nat /\ Len(t) \in Nat /\ 1 .. Len(s) \subseteq 1 .. Len(t)
    BY <1>1, LenProperties
  <2>2. /\ \A i \in 1 .. Len(s) : s[i] \in S
        /\ \A i \in 1 .. Len(s) : t[i] \in S
    BY <2>1, ElementOfSeq
  <2>3. /\ SubSeq(s, 1, Len(s)) \in Seq(S) /\ Len(SubSeq(s, 1, Len(s))) = Len(s)
        /\ \A i \in 1 .. Len(s) : SubSeq(s, 1, Len(s))[i] = s[i]
    BY <2>1, <2>2, SubSeqProperties
  <2>4. /\ SubSeq(t, 1, Len(s)) \in Seq(S) /\ Len(SubSeq(t, 1, Len(s))) = Len(s)
        /\ \A i \in 1 .. Len(s) : SubSeq(t, 1, Len(s))[i] = t[i]
    BY <2>1, <2>2, SubSeqProperties
  <2>5. SubSeq(s, 1, Len(s)) = SubSeq(t, 1, Len(s)) <=> \A i \in 1 .. Len(s) : s[i] = t[i]
    BY <2>3, <2>4, SeqEqual
  <2> QED
    BY <1>1, <2>5 DEF IsPrefix
<1>2. CASE ~(Len(s) <= Len(t))
  BY <1>2 DEF IsPrefix
<1> QED
  BY <1>1, <1>2

LEMMA CalmKeys ==
  ASSUME TypeInv, FindInv, CalmInv, CalmNext
  PROVE  \/ keys' = keys
         \/ ~keys.present /\ keys' = DefaultState
         \/ \E t \in Sessions : Commits(t) /\ (WriteKeys(t) \/ LoseWriteReply(t))
<1>1. ASSUME NEW a \in Agents, Recovering(a)
      PROVE  keys' = keys \/ (~keys.present /\ keys' = DefaultState)
  BY <1>1, CalmRecovering
<1>2. ASSUME NEW t \in Sessions, WriteKeys(t) \/ LoseWriteReply(t)
      PROVE  Commits(t)
  BY <1>2, CalmScript DEF WriteKeys, LoseWriteReply, CalmInv
<1>3. ASSUME NEW t \in Sessions,
             \/ \E id \in OpIds : CommitCall(t, id)
             \/ LookupFound(t) \/ ReadKeys(t) \/ GiveUp(t) \/ EnqueuePersist(t)
      PROVE  keys' = keys
  BY <1>3 DEF CommitCall, LookupFound, ReadKeys, GiveUp, EnqueuePersist, redis
<1>4. ASSUME (\E s \in Servers : Persisting(s) \/ Crash(s)) \/ LockExpires
      PROVE  keys' = keys
  BY <1>4 DEF Persisting, UpsertDocument, InsertOperation, Crash, LockExpires, redis
<1> QED
  BY <1>1, <1>2, <1>3, <1>4 DEF CalmNext, Committing

(* A commit adds one operation that the log did not have. *)
LEMMA CommitLogs ==
  ASSUME TypeInv, LogInv, NEW t \in Sessions, Commits(t)
  PROVE  LET op == [opId |-> call[t].opId, revision |-> keys.revision + 1]
         IN  /\ op \in CommittedOp /\ keys.history \in Seq(CommittedOp)
             /\ keys'.history = Append(keys.history, op)
             /\ op.revision = Len(keys.history) + 1
             /\ \A i \in DOMAIN keys.history : keys.history[i].opId # op.opId
             /\ LogInv'
<1> DEFINE op == [opId |-> call[t].opId, revision |-> keys.revision + 1]
<1>1. pc[t] = "write" /\ Existing(op.opId) = {} /\ keys'.content = Append(keys.content, op.opId)
      /\ keys'.revision = keys.revision + 1 /\ keys'.history = Append(keys.history, op)
  BY CommitsEffect
<1>2. keys.revision \in Nat /\ keys.history \in Seq(CommittedOp) /\ call[t].opId \in OpIds
  BY <1>1 DEF TypeInv, RedisTypes, StateRecord, CallTypes
<1>3. op \in CommittedOp /\ op.revision = keys.revision + 1
  BY <1>2 DEF CommittedOp
<1>4. \A i \in DOMAIN keys.history : keys.history[i].opId # op.opId
  BY <1>1, ExistingTypes DEF TypeInv
<1>5. keys.revision = Len(keys.history) /\ op.revision = Len(keys.history) + 1
  BY <1>3 DEF LogInv
<1> HIDE DEF op
<1>6. /\ Len(keys'.history) = Len(keys.history) + 1
      /\ DOMAIN keys.history = 1 .. Len(keys.history) /\ Len(keys.history) \in Nat
      /\ DOMAIN keys'.history = 1 .. Len(keys.history) + 1
      /\ \A i \in 1 .. Len(keys.history) : keys'.history[i] = keys.history[i]
      /\ keys'.history[Len(keys.history) + 1] = op
  BY <1>1, <1>2, <1>3
<1>7. LogInv'
  <2>1. keys'.content = Ids(keys'.history)
    BY <1>1, <1>2, <1>3, IdsAppend DEF LogInv
  <2>2. keys'.revision = Len(keys'.history)
    BY <1>1, <1>5, <1>6
  <2>3. \A i \in DOMAIN keys'.history : keys'.history[i].revision = i
    BY <1>5, <1>6 DEF LogInv
  <2>4. \A i, j \in DOMAIN keys'.history :
          keys'.history[i].opId = keys'.history[j].opId => i = j
    <3> SUFFICES ASSUME NEW i \in 1 .. Len(keys.history) + 1,
                        NEW j \in 1 .. Len(keys.history) + 1,
                        keys'.history[i].opId = keys'.history[j].opId
                 PROVE  i = j
      BY <1>6
    <3>1. \A k \in 1 .. Len(keys.history) + 1 :
            k \in 1 .. Len(keys.history) \/ k = Len(keys.history) + 1
      BY <1>6
    <3>2. CASE i \in 1 .. Len(keys.history) /\ j \in 1 .. Len(keys.history)
      BY <1>6, <3>2 DEF LogInv
    <3>3. CASE i \in 1 .. Len(keys.history) /\ j = Len(keys.history) + 1
      BY <1>4, <1>6, <3>3
    <3>4. CASE i = Len(keys.history) + 1 /\ j \in 1 .. Len(keys.history)
      BY <1>4, <1>6, <3>4
    <3> QED
      BY <3>1, <3>2, <3>3, <3>4
  <2> QED
    BY <2>1, <2>2, <2>3, <2>4 DEF LogInv
<1> QED
  BY <1>1, <1>2, <1>3, <1>4, <1>5, <1>7 DEF op

(* What a step leaves of the log: everything. *)
KeepsLog ==
  /\ \A content, revision : DocumentAt(keys.history, content, revision) =>
                              DocumentAt(keys'.history, content, revision)
  /\ \A job : JobOf(keys.history, job) => JobOf(keys'.history, job)
  /\ \A i \in DOMAIN keys.history : /\ i \in DOMAIN keys'.history
                                    /\ keys'.history[i] = keys.history[i]

LEMMA CalmLog ==
  ASSUME TypeInv, FindInv, CalmInv, CalmNext
  PROVE  LogInv' /\ KeepsLog /\ IsPrefix(keys.history, keys'.history)
<1>0. keys.history \in Seq(CommittedOp)
  BY DEF TypeInv, RedisTypes, StateRecord
<1>1. CASE keys' = keys
  <2>1. IsPrefix(keys.history, keys'.history)
    BY <1>0, <1>1, PrefixIff
  <2> QED
    BY <1>1, <2>1 DEF CalmInv, LogInv, KeepsLog
<1>2. CASE ~keys.present /\ keys' = DefaultState
  <2>1. keys.history = <<>> /\ keys'.history = <<>> /\ keys.content = keys'.content
        /\ keys.revision = keys'.revision
    BY <1>2 DEF CalmInv, EmptyInv, NoKeys, DefaultState, State
  <2>2. IsPrefix(keys.history, keys'.history)
    <3>1. keys'.history \in Seq(CommittedOp) /\ keys.history = keys'.history
      BY <1>0, <2>1
    <3>2. Len(keys.history) <= Len(keys'.history)
      BY <2>1
    <3> QED
      BY <1>0, <3>1, <3>2, PrefixIff
  <2> QED
    BY <2>1, <2>2 DEF CalmInv, LogInv, KeepsLog
<1>3. CASE \E t \in Sessions : Commits(t)
  <2>1. PICK t \in Sessions : Commits(t)
    BY <1>3
  <2> DEFINE op == [opId |-> call[t].opId, revision |-> keys.revision + 1]
  <2>2. op \in CommittedOp /\ keys'.history = Append(keys.history, op) /\ LogInv'
    BY <2>1, CommitLogs DEF CalmInv
  <2> HIDE DEF op
  <2>3. KeepsLog
    BY <1>0, <2>2, LongerLog DEF KeepsLog
  <2>4. IsPrefix(keys.history, keys'.history)
    <3>1. /\ keys'.history \in Seq(CommittedOp)
          /\ Len(keys.history) <= Len(keys'.history)
          /\ \A i \in 1 .. Len(keys.history) : keys.history[i] = keys'.history[i]
      BY <1>0, <2>2
    <3> QED
      BY <1>0, <3>1, PrefixIff
  <2> QED
    BY <2>2, <2>3, <2>4
<1> QED
  BY <1>1, <1>2, <1>3, CalmKeys

LEMMA WriterStays ==
  ASSUME WriterInv, keys' = keys,
         \A u \in Sessions : pc'[u] = "write" =>
                               pc[u] = "write" /\ call'[u] = call[u] /\ lock' = lock
  PROVE  WriterInv'
<1>1. \A id : Existing(id)' = Existing(id)
  BY DEF Existing
<1> QED
  BY <1>1 DEF WriterInv

LEMMA CalmWriter ==
  ASSUME TypeInv, FindInv, CalmInv, CalmNext
  PROVE  WriterInv'
<1>0. WriterInv /\ Sessions \subseteq Agents
  BY DEF CalmInv, Agents
<1>1. ASSUME NEW a \in Agents, Recovering(a) PROVE WriterInv'
  <2>1. /\ keys' = keys \/ (~keys.present /\ keys' = DefaultState)
        /\ \A u \in Sessions : pc'[u] = "write" => pc[u] = "write" /\ call'[u] = call[u]
        /\ lock' = lock
    BY <1>1, CalmRecovering
  <2>2. CASE keys' = keys
    BY <1>0, <2>1, <2>2, WriterStays
  <2>3. CASE ~keys.present
    BY <2>1, <2>3 DEF CalmInv, SessionsInv, WriterInv
  <2> QED
    BY <2>1, <2>2, <2>3
<1>2. ASSUME NEW t \in Sessions, NEW id \in OpIds, CommitCall(t, id) PROVE WriterInv'
  BY <1>0, <1>2, GotoEffect, CallEffect, WriterStays DEF CommitCall, redis
<1>3. ASSUME NEW t \in Sessions, LookupFound(t) \/ GiveUp(t) PROVE WriterInv'
  BY <1>0, <1>3, LeaveEffect, AgentTyping, WriterStays DEF LookupFound, GiveUp, Resting, redis
<1>4. ASSUME NEW t \in Sessions, ReadKeys(t) PROVE WriterInv'
  <2>1. /\ lock = NoAgent /\ lock' = t /\ keys' = keys /\ Existing(call[t].opId) = {}
        /\ pc'[t] = "write"
        /\ \A u \in Sessions : u # t => pc'[u] = pc[u]
    BY <1>0, <1>4, GotoEffect DEF ReadKeys
  <2>2. \A u \in Sessions : pc[u] # "write"
    BY <1>0, <2>1, AgentTyping DEF WriterInv
  <2>3. /\ call'[t].job = Job(Append(keys.content, call[t].opId),
                              [opId |-> call[t].opId, revision |-> keys.revision + 1])
        /\ call'[t].opId = call[t].opId
    BY <1>0, <1>4 DEF ReadKeys, TypeInv, CallTypes, CallRecord
  <2>4. \A id : Existing(id)' = Existing(id)
    BY <2>1 DEF Existing
  <2> QED
    BY <2>1, <2>2, <2>3, <2>4 DEF WriterInv
<1>5. ASSUME NEW t \in Sessions, WriteKeys(t) \/ LoseWriteReply(t) PROVE WriterInv'
  <2>1. pc[t] = "write" /\ pc'[t] # "write" /\ \A u \in Sessions : u # t => pc'[u] = pc[u]
    BY <1>0, <1>5, GotoEffect, LeaveEffect, AgentTyping DEF WriteKeys, LoseWriteReply, Resting
  <2>2. \A u \in Sessions : pc[u] = "write" => u = t
    BY <1>0, <2>1 DEF WriterInv
  <2> QED
    BY <2>1, <2>2 DEF WriterInv
<1>6. ASSUME NEW t \in Sessions, EnqueuePersist(t) PROVE WriterInv'
  BY <1>0, <1>6, GotoEffect, CallEffect, WriterStays DEF EnqueuePersist, redis
<1>7. ASSUME NEW s \in Servers, Persisting(s) PROVE WriterInv'
  BY <1>0, <1>7, WriterStays DEF Persisting, UpsertDocument, InsertOperation, redis
<1>8. ASSUME NEW s \in Servers, Crash(s) PROVE WriterInv'
  <2>1. \A u \in Sessions : pc'[u] = "write" => pc[u] = "write" /\ call'[u] = call[u]
    BY <1>0, <1>8, AgentTyping DEF Crash
  <2> QED
    BY <1>0, <1>8, <2>1, WriterStays DEF Crash, redis
<1>9. ASSUME LockExpires PROVE WriterInv'
  <2>1. \A u \in Sessions : pc[u] # "write"
    BY <1>0, <1>9 DEF LockExpires, WriterInv
  <2> QED
    BY <1>9, <2>1 DEF LockExpires, WriterInv
<1> QED
  BY <1>1, <1>2, <1>3, <1>4, <1>5, <1>6, <1>7, <1>8, <1>9 DEF CalmNext, Committing

(* No job and no row appears. *)
LEMMA RowsStay ==
  ASSUME RowsInv, KeepsLog, <<postgres, jobs>>' = <<postgres, jobs>>,
         \A t \in Sessions : pc'[t] = "enqueue" => pc[t] = "enqueue" /\ call'[t] = call[t]
  PROVE  RowsInv'
BY DEF RowsInv, KeepsLog, postgres, jobs

(* The operation just committed, and its job. *)
LEMMA WrittenJob ==
  ASSUME TypeInv, LogInv, WriterInv, NEW t \in Sessions, WriteKeys(t)
  PROVE  LET op == [opId |-> call[t].opId, revision |-> keys.revision + 1]
         IN  /\ Commits(t)
             /\ pc'[t] = "enqueue" /\ call'[t].job.op = op
             /\ JobOf(keys'.history, call'[t].job)
             /\ \A u \in Sessions : u # t => pc'[u] = pc[u] /\ call'[u] = call[u]
             /\ op \in CommittedOp
             /\ \A i \in DOMAIN keys.history : keys.history[i] # op
             /\ op.revision \in DOMAIN keys'.history /\ keys'.history[op.revision] = op
<1> DEFINE op == [opId |-> call[t].opId, revision |-> keys.revision + 1]
<1>0. t \in Agents /\ Sessions \subseteq Agents
  BY DEF Agents
<1>1. Commits(t) /\ Committed(t) = {call[t].job.op} /\ pc[t] = "write"
  BY CalmScript DEF WriteKeys
<1>2. call[t].job.op = op /\ call[t].job.content = Append(keys.content, op.opId)
  BY <1>1, CommitsEffect
<1>3. /\ op \in CommittedOp /\ keys.history \in Seq(CommittedOp)
      /\ keys'.history = Append(keys.history, op)
      /\ op.revision = Len(keys.history) + 1
      /\ \A i \in DOMAIN keys.history : keys.history[i].opId # op.opId
      /\ LogInv'
  BY <1>1, CommitLogs
<1> HIDE DEF op
<1>4. call' = [call EXCEPT ![t].job.op = op]
  BY <1>1, <1>2 DEF WriteKeys
<1>5. call[t].job \in TrueJob
  BY <1>1 DEF TypeInv, CallTypes
<1>6. call'[t].job.op = op /\ call'[t].job.content = Append(keys.content, op.opId)
  BY <1>0, <1>2, <1>4, <1>5 DEF TypeInv, CallTypes, CallRecord, TrueJob
<1>7. \A u \in Sessions : u # t => pc'[u] = pc[u] /\ call'[u] = call[u]
  BY <1>0, <1>4, GotoEffect DEF WriteKeys, TypeInv, CallTypes
<1>8. pc'[t] = "enqueue"
  BY <1>0, GotoEffect DEF WriteKeys
<1>9. /\ Len(keys'.history) = op.revision /\ op.revision \in 1 .. Len(keys'.history)
      /\ op.revision \in DOMAIN keys'.history /\ keys'.history[op.revision] = op
      /\ keys'.history \in Seq(CommittedOp)
  BY <1>3
<1>10. call'[t].job.content = Ids(keys'.history)
  <2>1. Append(keys.content, op.opId) = Ids(keys'.history)
    BY <1>3, IdsAppend DEF LogInv
  <2> QED
    BY <1>6, <2>1
<1>11. Ids(keys'.history) = SubSeq(Ids(keys'.history), 1, op.revision)
  <2>1. Ids(keys'.history) \in Seq(OpIds) /\ Len(Ids(keys'.history)) = op.revision
    BY <1>9, IdsTyping
  <2> QED
    BY <2>1, SubSeqFull
<1>12. JobOf(keys'.history, call'[t].job)
  BY <1>6, <1>9, <1>10, <1>11 DEF JobOf, DocumentAt
<1>13. \A i \in DOMAIN keys.history : keys.history[i] # op
  BY <1>3
<1> QED
  BY <1>1, <1>3, <1>6, <1>7, <1>8, <1>9, <1>12, <1>13 DEF op

(* The queue after enqueue_persist: the new job is last, the first one may *)
(* be gone.                                                                *)
LEMMA LongerQueue ==
  ASSUME TypeInv, NEW t \in Sessions, EnqueuePersist(t)
  PROVE  LET s == Host[t]
             n == Len(queue[s])
             d == IF n + 1 > QueueLimit THEN 1 ELSE 0
         IN  /\ s \in Servers /\ n \in Nat
             /\ DOMAIN queue[s] = 1 .. n /\ DOMAIN queue'[s] = 1 .. n + 1 - d
             /\ \A i \in 1 .. n - d : queue'[s][i] = queue[s][i + d]
             /\ queue'[s][n + 1 - d] = call[t].job
             /\ \A r \in Servers : r # s => queue'[r] = queue[r]
<1> DEFINE s == Host[t]
           n == Len(queue[s])
           d == IF n + 1 > QueueLimit THEN 1 ELSE 0
           longer == Append(queue[s], call[t].job)
<1>1. s \in Servers /\ queue[s] \in Seq(TrueJob) /\ call[t].job \in TrueJob
  BY AgentTyping DEF EnqueuePersist, TypeInv, JobTypes, CallTypes
<1>2. queue' = [queue EXCEPT ![s] = IF Len(longer) > QueueLimit THEN Tail(longer) ELSE longer]
  BY DEF EnqueuePersist
<1>3. /\ n \in Nat /\ DOMAIN queue[s] = 1 .. n
      /\ longer \in Seq(TrueJob) /\ Len(longer) = n + 1 /\ DOMAIN longer = 1 .. n + 1
      /\ \A i \in 1 .. n : longer[i] = queue[s][i]
      /\ longer[n + 1] = call[t].job
  BY <1>1
<1>4. /\ Tail(longer) \in Seq(TrueJob) /\ Len(Tail(longer)) = n
      /\ \A i \in 1 .. n : Tail(longer)[i] = longer[i + 1]
  <2>1. longer # <<>>
    BY <1>3
  <2>2. /\ Tail(longer) \in Seq(TrueJob) /\ Len(Tail(longer)) = Len(longer) - 1
        /\ \A i \in 1 .. Len(Tail(longer)) : Tail(longer)[i] = longer[i + 1]
    BY <1>3, <2>1, HeadTailProperties
  <2>3. Len(Tail(longer)) = n
    BY <1>3, <2>2
  <2> QED
    BY <2>2, <2>3
<1>5. \A r \in Servers : r # s => queue'[r] = queue[r]
  BY <1>2 DEF TypeInv, JobTypes
<1>6. queue'[s] = IF n + 1 > QueueLimit THEN Tail(longer) ELSE longer
  BY <1>1, <1>2, <1>3 DEF TypeInv, JobTypes
<1> HIDE DEF longer
<1>7. CASE n + 1 > QueueLimit
  <2>1. /\ DOMAIN queue'[s] = 1 .. n
        /\ \A i \in 1 .. n - 1 : queue'[s][i] = queue[s][i + 1]
    BY <1>3, <1>4, <1>6, <1>7
  <2>2. n > 0
    BY <1>3, <1>7, RecoveryAssumption
  <2>3. queue'[s][n] = call[t].job
    BY <1>3, <1>4, <1>6, <1>7, <2>2
  <2>4. d = 1 /\ n + 1 - 1 = n
    BY <1>3, <1>7
  <2> HIDE DEF d
  <2>5. /\ DOMAIN queue'[s] = 1 .. n + 1 - d
        /\ \A i \in 1 .. n - d : queue'[s][i] = queue[s][i + d]
        /\ queue'[s][n + 1 - d] = call[t].job
    BY <2>1, <2>3, <2>4
  <2> QED
    BY <1>1, <1>3, <1>5, <2>5 DEF d
<1>8. CASE ~(n + 1 > QueueLimit)
  <2>1. queue'[s] = longer
    BY <1>6, <1>8
  <2>2. /\ DOMAIN queue'[s] = 1 .. n + 1
        /\ \A i \in 1 .. n : queue'[s][i] = queue[s][i]
        /\ queue'[s][n + 1] = call[t].job
    BY <1>3, <2>1
  <2>3. d = 0 /\ n + 1 - 0 = n + 1 /\ n - 0 = n
    BY <1>3, <1>8
  <2>4. \A i \in 1 .. n : i + 0 = i
    OBVIOUS
  <2> HIDE DEF d
  <2>5. /\ DOMAIN queue'[s] = 1 .. n + 1 - d
        /\ \A i \in 1 .. n - d : queue'[s][i] = queue[s][i + d]
        /\ queue'[s][n + 1 - d] = call[t].job
    BY <2>2, <2>3, <2>4
  <2> QED
    BY <1>1, <1>3, <1>5, <2>5 DEF d
<1> QED
  BY <1>7, <1>8

(* The steps that neither write a job nor a row. *)
Quietly ==
  \/ \E a \in Agents : Recovering(a)
  \/ \E t \in Sessions :
       \/ \E id \in OpIds : CommitCall(t, id)
       \/ LookupFound(t) \/ ReadKeys(t) \/ GiveUp(t) \/ LoseWriteReply(t)
  \/ LockExpires

LEMMA QuietSteps ==
  ASSUME TypeInv, FindInv, CalmInv, Quietly
  PROVE  /\ <<postgres, jobs>>' = <<postgres, jobs>>
         /\ \A t \in Sessions : pc'[t] = "enqueue" => pc[t] = "enqueue" /\ call'[t] = call[t]
<1>0. Sessions \subseteq Agents /\ \A t \in Sessions : t \notin Servers
  BY AgentTyping DEF Agents
<1> DEFINE Same == \A t \in Sessions : pc'[t] = "enqueue" => pc[t] = "enqueue" /\ call'[t] = call[t]
<1>1. ASSUME NEW a \in Agents, Recovering(a) PROVE <<postgres, jobs>>' = <<postgres, jobs>> /\ Same
  BY <1>1, CalmRecovering DEF postgres, jobs
<1>2. ASSUME NEW t \in Sessions, NEW id \in OpIds, CommitCall(t, id)
      PROVE  <<postgres, jobs>>' = <<postgres, jobs>> /\ Same
  <2>1. pc'[t] = "enter" /\ \A b \in Agents : b # t => pc'[b] = pc[b] /\ call'[b] = call[b]
    BY <1>0, <1>2, GotoEffect, CallEffect DEF CommitCall
  <2> QED
    BY <1>0, <1>2, <2>1 DEF CommitCall
<1>3. ASSUME NEW t \in Sessions, LookupFound(t) \/ GiveUp(t) \/ LoseWriteReply(t)
      PROVE  <<postgres, jobs>>' = <<postgres, jobs>> /\ Same
  <2>1. pc'[t] = "idle" /\ \A b \in Agents : b # t => pc'[b] = pc[b] /\ call'[b] = call[b]
    BY <1>0, <1>3, LeaveEffect DEF LookupFound, GiveUp, LoseWriteReply, Resting
  <2> QED
    BY <1>0, <1>3, <2>1 DEF LookupFound, GiveUp, LoseWriteReply
<1>4. ASSUME NEW t \in Sessions, ReadKeys(t)
      PROVE  <<postgres, jobs>>' = <<postgres, jobs>> /\ Same
  <2>1. pc'[t] = "write" /\ \A b \in Agents : b # t => pc'[b] = pc[b]
    BY <1>0, <1>4, GotoEffect DEF ReadKeys
  <2>2. \A b \in Agents : b # t => call'[b] = call[b]
    BY <1>4 DEF ReadKeys, TypeInv, CallTypes
  <2> QED
    BY <1>0, <1>4, <2>1, <2>2 DEF ReadKeys
<1>5. LockExpires => <<postgres, jobs>>' = <<postgres, jobs>> /\ Same
  BY DEF LockExpires
<1> HIDE DEF Same
<1>6. <<postgres, jobs>>' = <<postgres, jobs>> /\ Same
  BY <1>1, <1>2, <1>3, <1>4, <1>5 DEF Quietly
<1> QED
  BY <1>6 DEF Same

LEMMA CalmRows ==
  ASSUME TypeInv, FindInv, CalmInv, CalmNext
  PROVE  RowsInv'
<1>0. RowsInv /\ KeepsLog /\ Sessions \subseteq Agents /\ \A t \in Sessions : t \notin Servers
  BY CalmLog, AgentTyping DEF CalmInv, Agents
<1>1. CASE Quietly
  BY <1>0, <1>1, QuietSteps, RowsStay
<1>2. ASSUME NEW t \in Sessions, WriteKeys(t) PROVE RowsInv'
  <2>1. /\ JobOf(keys'.history, call'[t].job)
        /\ \A u \in Sessions : u # t => pc'[u] = pc[u] /\ call'[u] = call[u]
    BY <1>2, WrittenJob DEF CalmInv
  <2>2. <<postgres, jobs>>' = <<postgres, jobs>>
    BY <1>2 DEF WriteKeys
  <2> QED
    BY <1>0, <2>1, <2>2 DEF RowsInv, KeepsLog, postgres, jobs
<1>3. ASSUME NEW t \in Sessions, EnqueuePersist(t) PROVE RowsInv'
  <2> DEFINE s == Host[t]
             n == Len(queue[s])
             d == IF n + 1 > QueueLimit THEN 1 ELSE 0
  <2>1. /\ s \in Servers /\ n \in Nat
        /\ DOMAIN queue[s] = 1 .. n /\ DOMAIN queue'[s] = 1 .. n + 1 - d
        /\ \A i \in 1 .. n - d : queue'[s][i] = queue[s][i + d]
        /\ queue'[s][n + 1 - d] = call[t].job
        /\ \A r \in Servers : r # s => queue'[r] = queue[r]
    BY <1>3, LongerQueue
  <2>2. d = 0 \/ d = 1
    OBVIOUS
  <2> HIDE DEF s, n, d
  <2>3. /\ pc[t] = "enqueue" /\ inflight' = inflight /\ <<redis, postgres>>' = <<redis, postgres>>
        /\ pc'[t] = "idle" /\ \A u \in Sessions : u # t => pc'[u] = pc[u] /\ call'[u] = call[u]
    BY <1>0, <1>3, GotoEffect, CallEffect DEF EnqueuePersist
  <2>4. JobOf(keys.history, call[t].job)
    BY <1>0, <2>3 DEF RowsInv
  <2>5. \A i \in 1 .. n + 1 - d : i = n + 1 - d \/ (i \in 1 .. n - d /\ i + d \in 1 .. n)
    BY <2>1, <2>2
  <2>6. \A i \in Nat : i \in DOMAIN queue'[s] => JobOf(keys.history, queue'[s][i])
    BY <1>0, <2>1, <2>4, <2>5 DEF RowsInv
  <2> QED
    BY <1>0, <2>1, <2>3, <2>6 DEF RowsInv, redis, postgres
<1>4. ASSUME NEW s \in Servers, UpsertDocument(s) PROVE RowsInv'
  <2>1. queue[s] \in Seq(TrueJob) /\ queue[s] # <<>>
    BY <1>4 DEF UpsertDocument, TypeInv, JobTypes
  <2>2. /\ Len(queue[s]) \in Nat /\ DOMAIN queue[s] = 1 .. Len(queue[s]) /\ 1 \in DOMAIN queue[s]
        /\ Head(queue[s]) = queue[s][1]
    BY <2>1
  <2>3. /\ DOMAIN Tail(queue[s]) = 1 .. Len(queue[s]) - 1
        /\ \A i \in 1 .. Len(queue[s]) - 1 : /\ Tail(queue[s])[i] = queue[s][i + 1]
                                             /\ i + 1 \in DOMAIN queue[s]
    BY <2>1, <2>2, HeadTailProperties
  <2>4. JobOf(keys.history, Head(queue[s]))
    BY <1>0, <2>2 DEF RowsInv
  <2>5. /\ documents' = {[content |-> Head(queue[s]).content,
                          revision |-> Head(queue[s]).op.revision]}
        /\ inflight' = [inflight EXCEPT ![s] = {Head(queue[s])}]
        /\ queue' = [queue EXCEPT ![s] = Tail(queue[s])]
        /\ <<keys, operations, pc, call>>' = <<keys, operations, pc, call>>
    BY <1>4 DEF UpsertDocument, redis
  <2>6. \A row \in documents' : DocumentAt(keys.history, row.content, row.revision)
    BY <2>4, <2>5 DEF JobOf
  <2>7. \A i \in Nat : i \in DOMAIN queue'[s] => JobOf(keys.history, queue'[s][i])
    <3>1. queue'[s] = Tail(queue[s])
      BY <2>5 DEF TypeInv, JobTypes
    <3> QED
      BY <1>0, <2>3, <3>1 DEF RowsInv
  <2>8. \A r \in Servers : /\ r # s => queue'[r] = queue[r] /\ inflight'[r] = inflight[r]
                           /\ inflight'[s] = {Head(queue[s])}
    BY <2>5 DEF TypeInv, JobTypes
  <2> QED
    BY <1>0, <2>4, <2>5, <2>6, <2>7, <2>8 DEF RowsInv
<1>5. ASSUME NEW s \in Servers, InsertOperation(s) PROVE RowsInv'
  <2>1. PICK job \in inflight[s] :
          operations' = IF \E o \in operations : o.revision = job.op.revision
                        THEN operations
                        ELSE operations \cup {job.op}
    BY <1>5 DEF InsertOperation
  <2>2. job.op.revision \in DOMAIN keys.history /\ keys.history[job.op.revision] = job.op
    <3>1. JobOf(keys.history, job)
      BY <1>0 DEF RowsInv
    <3>2. DOMAIN keys.history = 1 .. Len(keys.history)
      BY DEF TypeInv, RedisTypes, StateRecord
    <3> QED
      BY <3>1, <3>2 DEF JobOf, DocumentAt
  <2>3. /\ inflight' = [inflight EXCEPT ![s] = {}]
        /\ <<keys, documents, queue, pc, call>>' = <<keys, documents, queue, pc, call>>
    BY <1>5 DEF InsertOperation, redis
  <2>4. \A r \in Servers : inflight'[r] \subseteq inflight[r]
    BY <2>3 DEF TypeInv, JobTypes
  <2> QED
    BY <1>0, <2>1, <2>2, <2>3, <2>4 DEF RowsInv
<1>6. ASSUME NEW s \in Servers, Crash(s) PROVE RowsInv'
  <2>1. \A t \in Sessions : pc'[t] = "enqueue" => pc[t] = "enqueue" /\ call'[t] = call[t]
    BY <1>0, <1>6 DEF Crash
  <2>2. \A r \in Servers : /\ queue'[r] = queue[r] \/ queue'[r] = <<>>
                           /\ inflight'[r] \subseteq inflight[r]
    BY <1>6 DEF Crash, TypeInv, JobTypes
  <2>3. <<redis, postgres>>' = <<redis, postgres>>
    BY <1>6 DEF Crash
  <2>4. \A r \in Servers, i \in Nat : i \in DOMAIN queue'[r] => queue'[r] = queue[r]
    <3>1. DOMAIN <<>> = {}
      OBVIOUS
    <3> QED
      BY <2>2, <3>1
  <2> QED
    BY <1>0, <2>1, <2>2, <2>3, <2>4 DEF RowsInv, redis, postgres
<1> QED
  BY <1>1, <1>2, <1>3, <1>4, <1>5, <1>6 DEF CalmNext, Quietly, Committing, Persisting

(* What waits for PostgreSQL is in the log. *)
LEMMA HeldIsLogged ==
  ASSUME TypeInv, RowsInv, NEW a \in Agents, NEW i \in Nat, NEW op, Holds(a, i, op)
  PROVE  op \in CommittedOp /\ \E n \in DOMAIN keys.history : keys.history[n] = op
<1>1. \E job \in TrueJob : job.op = op /\ JobOf(keys.history, job)
  <2>1. CASE a \in Sessions /\ pc[a] = "enqueue" /\ call[a].job.op = op
    <3>1. call[a].job \in TrueJob /\ JobOf(keys.history, call[a].job)
      BY <2>1 DEF TypeInv, CallTypes, RowsInv
    <3> QED
      BY <2>1, <3>1
  <2>2. CASE a \in Servers /\ \E job \in inflight[a] : job.op = op
    BY <2>2 DEF TypeInv, JobTypes, RowsInv
  <2>3. CASE a \in Servers /\ i \in DOMAIN queue[a] /\ queue[a][i].op = op
    <3>1. queue[a][i] \in TrueJob /\ JobOf(keys.history, queue[a][i])
      BY <2>3, ElementOfSeq, LenProperties DEF TypeInv, JobTypes, RowsInv
    <3> QED
      BY <2>3, <3>1
  <2> QED
    BY <2>1, <2>2, <2>3 DEF Holds
<1>2. DOMAIN keys.history = 1 .. Len(keys.history)
  BY DEF TypeInv, RedisTypes, StateRecord
<1> QED
  BY <1>1, <1>2 DEF JobOf, DocumentAt, TrueJob

(* Nothing is held anew. *)
LEMMA OnceStays ==
  ASSUME OnceInv, operations' = operations,
         \A s \in Servers : inflight'[s] \subseteq inflight[s],
         \A s \in Servers : queue'[s] = queue[s] \/ queue'[s] = <<>>,
         \A t \in Sessions : pc'[t] = "enqueue" => pc[t] = "enqueue" /\ call'[t] = call[t]
  PROVE  OnceInv'
<1>1. ASSUME NEW a \in Agents, NEW i \in Nat, NEW op, Holds(a, i, op)' PROVE Holds(a, i, op)
  <2>1. CASE a \in Sessions /\ i = 0 /\ pc'[a] = "enqueue" /\ call'[a].job.op = op
    BY <2>1 DEF Holds
  <2>2. CASE a \in Servers /\ i = 0 /\ \E job \in inflight'[a] : job.op = op
    BY <2>2 DEF Holds
  <2>3. CASE a \in Servers /\ i \in DOMAIN queue'[a] /\ queue'[a][i].op = op
    <3>1. DOMAIN <<>> = {}
      OBVIOUS
    <3>2. queue'[a] = queue[a]
      BY <2>3, <3>1
    <3> QED
      BY <2>3, <3>2 DEF Holds
  <2> QED
    BY <1>1, <2>1, <2>2, <2>3 DEF Holds
<1>2. \A s \in Servers : \A job, other \in inflight'[s] : job = other
  BY DEF OnceInv
<1>3. \A a, b \in Agents, i, k \in Nat, op \in CommittedOp :
        Holds(a, i, op)' /\ Holds(b, k, op)' => a = b /\ i = k
  BY <1>1 DEF OnceInv
<1>4. \A a \in Agents, i \in Nat, op \in CommittedOp : Holds(a, i, op)' => op \notin operations'
  BY <1>1 DEF OnceInv
<1> QED
  BY <1>2, <1>3, <1>4 DEF OnceInv

LEMMA OnceEnqueue ==
  ASSUME TypeInv, OnceInv, NEW t \in Sessions, EnqueuePersist(t)
  PROVE  OnceInv'
<1> DEFINE s == Host[t]
           n == Len(queue[s])
           d == IF n + 1 > QueueLimit THEN 1 ELSE 0
<1>1. /\ s \in Servers /\ n \in Nat
      /\ DOMAIN queue[s] = 1 .. n /\ DOMAIN queue'[s] = 1 .. n + 1 - d
      /\ \A i \in 1 .. n - d : queue'[s][i] = queue[s][i + d]
      /\ queue'[s][n + 1 - d] = call[t].job
      /\ \A r \in Servers : r # s => queue'[r] = queue[r]
  BY LongerQueue
<1>2. d = 0 \/ d = 1
  OBVIOUS
<1> HIDE DEF s, n, d
<1>3. t \in Agents /\ s \in Agents /\ s # t /\ \A u \in Sessions : u \in Agents /\ u \notin Servers
  BY <1>1, AgentTyping DEF Agents
<1>4. /\ pc[t] = "enqueue" /\ inflight' = inflight /\ operations' = operations
      /\ pc'[t] = "idle" /\ \A u \in Sessions : u # t => pc'[u] = pc[u] /\ call'[u] = call[u]
  BY <1>3, GotoEffect, CallEffect DEF EnqueuePersist, postgres
<1>5. Holds(t, 0, call[t].job.op)
  BY <1>4 DEF Holds
<1>6. ASSUME NEW a \in Agents, NEW i \in Nat, NEW op, Holds(a, i, op)'
      PROVE  \/ (a # s \/ i = 0) /\ a # t /\ Holds(a, i, op)
             \/ a = s /\ i \in 1 .. n - d /\ Holds(s, i + d, op)
             \/ a = s /\ i = n + 1 - d /\ Holds(t, 0, op)
  <2>1. CASE a \in Sessions /\ i = 0 /\ pc'[a] = "enqueue" /\ call'[a].job.op = op
    BY <1>1, <1>3, <1>4, <2>1 DEF Holds
  <2>2. CASE a \in Servers /\ i = 0 /\ \E job \in inflight'[a] : job.op = op
    BY <1>3, <1>4, <2>2 DEF Holds
  <2>3. CASE a \in Servers /\ i \in DOMAIN queue'[a] /\ queue'[a][i].op = op /\ a # s
    BY <1>1, <1>3, <2>3 DEF Holds
  <2>4. CASE i \in DOMAIN queue'[s] /\ queue'[s][i].op = op /\ a = s
    <3>1. CASE i = n + 1 - d
      BY <1>1, <1>5, <2>4, <3>1
    <3>2. CASE i # n + 1 - d
      <4>1. i \in 1 .. n - d /\ i + d \in 1 .. n /\ i + d \in Nat
        BY <1>1, <1>2, <2>4, <3>2
      <4> QED
        BY <1>1, <2>4, <4>1 DEF Holds
    <3> QED
      BY <3>1, <3>2
  <2> QED
    BY <1>6, <2>1, <2>2, <2>3, <2>4 DEF Holds
<1>7. ASSUME NEW a \in Agents, NEW b \in Agents, NEW i \in Nat, NEW k \in Nat,
             NEW op \in CommittedOp, Holds(a, i, op)', Holds(b, k, op)'
      PROVE  a = b /\ i = k
  <2>0. \A x, y \in Agents, j, l \in Nat : Holds(x, j, op) /\ Holds(y, l, op) => x = y /\ j = l
    BY DEF OnceInv
  <2>1. d \in Nat /\ \A j \in 1 .. n - d : j + d \in Nat /\ j + d # 0
    BY <1>1, <1>2
  <2>2. CASE (a # s \/ i = 0) /\ a # t /\ Holds(a, i, op)
    BY <1>3, <1>6, <1>7, <2>0, <2>1, <2>2
  <2>3. CASE a = s /\ i \in 1 .. n - d /\ Holds(s, i + d, op)
    <3>1. b = s /\ k \in 1 .. n - d /\ Holds(s, k + d, op)
      BY <1>3, <1>6, <1>7, <2>0, <2>1, <2>3
    <3>2. i + d = k + d
      BY <1>3, <2>0, <2>1, <2>3, <3>1
    <3> QED
      BY <2>1, <2>3, <3>1, <3>2
  <2>4. CASE a = s /\ i = n + 1 - d /\ Holds(t, 0, op)
    BY <1>3, <1>6, <1>7, <2>0, <2>1, <2>4
  <2> QED
    BY <1>6, <1>7, <2>2, <2>3, <2>4
<1>8. ASSUME NEW a \in Agents, NEW i \in Nat, NEW op \in CommittedOp, Holds(a, i, op)'
      PROVE  op \notin operations'
  <2>1. \A j \in 1 .. n - d : j + d \in Nat
    BY <1>1, <1>2
  <2> QED
    BY <1>3, <1>4, <1>6, <1>8, <2>1 DEF OnceInv
<1> QED
  BY <1>4, <1>7, <1>8 DEF OnceInv

LEMMA OnceUpsert ==
  ASSUME TypeInv, OnceInv, NEW s \in Servers, UpsertDocument(s)
  PROVE  OnceInv'
<1>1. queue[s] \in Seq(TrueJob) /\ queue[s] # <<>>
  BY DEF UpsertDocument, TypeInv, JobTypes
<1>2. /\ Len(queue[s]) \in Nat /\ DOMAIN queue[s] = 1 .. Len(queue[s]) /\ 1 \in DOMAIN queue[s]
      /\ Head(queue[s]) = queue[s][1]
  BY <1>1
<1>3. /\ DOMAIN Tail(queue[s]) = 1 .. Len(queue[s]) - 1
      /\ \A i \in 1 .. Len(queue[s]) - 1 : /\ Tail(queue[s])[i] = queue[s][i + 1]
                                           /\ i + 1 \in DOMAIN queue[s]
  BY <1>1, <1>2, HeadTailProperties
<1>4. /\ inflight[s] = {} /\ inflight'[s] = {Head(queue[s])} /\ queue'[s] = Tail(queue[s])
      /\ \A r \in Servers : r # s => queue'[r] = queue[r] /\ inflight'[r] = inflight[r]
      /\ <<operations, pc, call>>' = <<operations, pc, call>>
  BY DEF UpsertDocument, TypeInv, JobTypes
<1>5. s \in Agents /\ s \notin Sessions
  BY AgentTyping DEF Agents
<1>6. ASSUME NEW a \in Agents, NEW i \in Nat, NEW op, Holds(a, i, op)'
      PROVE  \/ a = s /\ Holds(s, i + 1, op)
             \/ a # s /\ Holds(a, i, op)
  <2>1. CASE a = s /\ i = 0 /\ Head(queue[s]).op = op
    BY <1>2, <2>1 DEF Holds
  <2>2. CASE a = s /\ i \in DOMAIN Tail(queue[s]) /\ Tail(queue[s])[i].op = op
    BY <1>3, <2>2 DEF Holds
  <2>3. CASE a # s
    BY <1>4, <1>6, <2>3 DEF Holds
  <2> QED
    BY <1>4, <1>5, <1>6, <2>1, <2>2, <2>3 DEF Holds
<1>7. ASSUME NEW a \in Agents, NEW b \in Agents, NEW i \in Nat, NEW k \in Nat,
             NEW op \in CommittedOp, Holds(a, i, op)', Holds(b, k, op)'
      PROVE  a = b /\ i = k
  <2>1. \A x, y \in Agents, j, l \in Nat : Holds(x, j, op) /\ Holds(y, l, op) => x = y /\ j = l
    BY DEF OnceInv
  <2>2. i + 1 \in Nat /\ k + 1 \in Nat /\ (i + 1 = k + 1 => i = k)
    OBVIOUS
  <2> QED
    BY <1>5, <1>6, <1>7, <2>1, <2>2
<1>8. ASSUME NEW a \in Agents, NEW i \in Nat, NEW op \in CommittedOp, Holds(a, i, op)'
      PROVE  op \notin operations'
  <2>1. i + 1 \in Nat
    OBVIOUS
  <2> QED
    BY <1>4, <1>5, <1>6, <1>8, <2>1 DEF OnceInv
<1>9. \A r \in Servers : \A job, other \in inflight'[r] : job = other
  BY <1>4 DEF OnceInv
<1> QED
  BY <1>7, <1>8, <1>9 DEF OnceInv

LEMMA CalmOnce ==
  ASSUME TypeInv, FindInv, CalmInv, CalmNext
  PROVE  OnceInv'
<1>0. OnceInv /\ Sessions \subseteq Agents /\ \A t \in Sessions : t \notin Servers
  BY AgentTyping DEF CalmInv, Agents
<1>1. CASE Quietly
  BY <1>0, <1>1, QuietSteps, OnceStays DEF postgres, jobs
<1>2. ASSUME NEW t \in Sessions, WriteKeys(t) PROVE OnceInv'
  <2> DEFINE new == [opId |-> call[t].opId, revision |-> keys.revision + 1]
  <2>1. /\ call'[t].job.op = new /\ new \in CommittedOp
        /\ \A i \in DOMAIN keys.history : keys.history[i] # new
        /\ \A u \in Sessions : u # t => pc'[u] = pc[u] /\ call'[u] = call[u]
    BY <1>2, WrittenJob DEF CalmInv
  <2> HIDE DEF new
  <2>2. operations' = operations /\ inflight' = inflight /\ queue' = queue /\ pc[t] = "write"
    BY <1>2 DEF WriteKeys, postgres, jobs
  <2>3. new \notin operations
    BY <2>1 DEF CalmInv, RowsInv
  <2>4. \A a \in Agents, i \in Nat : ~Holds(a, i, new)
    BY <2>1, HeldIsLogged DEF CalmInv
  <2>5. ASSUME NEW a \in Agents, NEW i \in Nat, NEW op, Holds(a, i, op)'
        PROVE  (a = t /\ i = 0 /\ op = new) \/ Holds(a, i, op)
    BY <1>0, <2>1, <2>2, <2>5 DEF Holds
  <2>6. ASSUME NEW a \in Agents, NEW b \in Agents, NEW i \in Nat, NEW k \in Nat,
               NEW op \in CommittedOp, Holds(a, i, op)', Holds(b, k, op)'
        PROVE  a = b /\ i = k
    <3>1. CASE op = new
      BY <2>4, <2>5, <2>6, <3>1
    <3>2. CASE op # new
      BY <1>0, <2>5, <2>6, <3>2 DEF OnceInv
    <3> QED
      BY <3>1, <3>2
  <2>7. \A a \in Agents, i \in Nat, op \in CommittedOp : Holds(a, i, op)' => op \notin operations'
    BY <1>0, <2>2, <2>3, <2>5 DEF OnceInv
  <2> QED
    BY <1>0, <2>2, <2>6, <2>7 DEF OnceInv
<1>3. ASSUME NEW t \in Sessions, EnqueuePersist(t) PROVE OnceInv'
  BY <1>0, <1>3, OnceEnqueue
<1>4. ASSUME NEW s \in Servers, UpsertDocument(s) PROVE OnceInv'
  BY <1>0, <1>4, OnceUpsert
<1>5. ASSUME NEW s \in Servers, InsertOperation(s) PROVE OnceInv'
  <2>1. PICK job \in inflight[s] :
          operations' = IF \E o \in operations : o.revision = job.op.revision
                        THEN operations
                        ELSE operations \cup {job.op}
    BY <1>5 DEF InsertOperation
  <2>2. /\ inflight'[s] = {} /\ \A r \in Servers : r # s => inflight'[r] = inflight[r]
        /\ <<queue, pc, call>>' = <<queue, pc, call>>
    BY <1>5 DEF InsertOperation, TypeInv, JobTypes
  <2>3. s \in Agents /\ s \notin Sessions /\ Holds(s, 0, job.op)
    BY AgentTyping DEF Agents, Holds
  <2>4. ASSUME NEW a \in Agents, NEW i \in Nat, NEW op, Holds(a, i, op)'
        PROVE  Holds(a, i, op) /\ ~(a = s /\ i = 0)
    <3>1. 0 \notin DOMAIN queue[s]
      BY LenProperties DEF TypeInv, JobTypes
    <3> QED
      BY <2>2, <2>3, <2>4, <3>1 DEF Holds
  <2>5. \A a, b \in Agents, i, k \in Nat, op \in CommittedOp :
          Holds(a, i, op)' /\ Holds(b, k, op)' => a = b /\ i = k
    BY <1>0, <2>4 DEF OnceInv
  <2>6. ASSUME NEW a \in Agents, NEW i \in Nat, NEW op \in CommittedOp, Holds(a, i, op)'
        PROVE  op \notin operations'
    <3>1. op \notin operations
      BY <1>0, <2>4, <2>6 DEF OnceInv
    <3>2. op # job.op
      BY <1>0, <2>3, <2>4, <2>6 DEF OnceInv
    <3> QED
      BY <2>1, <3>1, <3>2
  <2>7. \A r \in Servers : \A one, other \in inflight'[r] : one = other
    BY <1>0, <2>2 DEF OnceInv
  <2> QED
    BY <2>5, <2>6, <2>7 DEF OnceInv
<1>6. ASSUME NEW s \in Servers, Crash(s) PROVE OnceInv'
  <2>1. \A t \in Sessions : pc'[t] = "enqueue" => pc[t] = "enqueue" /\ call'[t] = call[t]
    BY <1>0, <1>6 DEF Crash
  <2>2. \A r \in Servers : /\ queue'[r] = queue[r] \/ queue'[r] = <<>>
                           /\ inflight'[r] \subseteq inflight[r]
    BY <1>6 DEF Crash, TypeInv, JobTypes
  <2>3. operations' = operations
    BY <1>6 DEF Crash, postgres
  <2> QED
    BY <1>0, <2>1, <2>2, <2>3, OnceStays
<1> QED
  BY <1>1, <1>2, <1>3, <1>4, <1>5, <1>6 DEF CalmNext, Quietly, Committing, Persisting

LEMMA CalmStep ==
  ASSUME TypeInv, FindInv, CalmInv, CalmNext
  PROVE  CalmInv'
<1>1. ServersInv' /\ SessionsInv' /\ EmptyInv'
  <2>1. ASSUME NEW a \in Agents, Recovering(a) PROVE ServersInv' /\ SessionsInv' /\ EmptyInv'
    BY <2>1, CalmRecovering
  <2> QED
    BY <2>1, CalmSession, CalmRest DEF CalmNext
<1> QED
  BY <1>1, CalmLog, CalmWriter, CalmRows, CalmOnce DEF CalmInv

AllInv == TypeInv /\ FindInv /\ (Undisturbed => CalmInv)

LEMMA AllStep == AllInv /\ [Next]_vars => AllInv'
<1> SUFFICES ASSUME AllInv, [Next]_vars PROVE AllInv'
  OBVIOUS
<1>1. TypeInv' /\ FindInv'
  BY TypeStep, FindStep DEF AllInv
<1>2. CASE Next
  <2>1. ASSUME Undisturbed' PROVE CalmInv'
    BY <1>2, <2>1, CalmBefore, CalmStep DEF AllInv
  <2> QED
    BY <1>1, <2>1 DEF AllInv
<1>3. CASE UNCHANGED vars
  <2>1. \A id : Existing(id)' = Existing(id)
    BY <1>3 DEF Existing, vars, redis
  <2>2. Undisturbed' => Undisturbed
    BY <1>3 DEF vars, Undisturbed
  <2>3. WriterInv => WriterInv'
    BY <1>3, <2>1 DEF vars, redis, WriterInv
  <2>4. ServersInv /\ SessionsInv /\ EmptyInv /\ LogInv => ServersInv' /\ SessionsInv' /\ EmptyInv' /\ LogInv'
    BY <1>3 DEF vars, redis, postgres, jobs, ServersInv, SessionsInv, EmptyInv, LogInv
  <2>5. RowsInv => RowsInv'
    BY <1>3 DEF vars, redis, postgres, jobs, RowsInv
  <2>6. OnceInv => OnceInv'
    BY <1>3, OnceStays DEF vars, postgres, jobs
  <2> QED
    BY <1>1, <2>2, <2>3, <2>4, <2>5, <2>6 DEF AllInv, CalmInv
<1> QED
  BY <1>2, <1>3

LEMMA AlwaysAll == Spec => []AllInv
<1>1. Init => AllInv
  <2>1. Init => FindInv
    BY AgentTyping
       DEF Init, FindInv, MutexInv, InMutexLabels, LoadedInv, CommitsFindDocument, Agents
  <2> QED
    BY <2>1, TypeInit, CalmInit DEF AllInv
<1> QED
  BY <1>1, AllStep, PTL DEF Spec

(* PersistedMatches: until Redis restarts or a subscriber reconnects, what *)
(* PostgreSQL holds is part of the log, whatever the servers' workers do   *)
(* and whoever crashes.                                                    *)
THEOREM RowsAreOfTheLog == Spec => [](Undisturbed => PersistedMatches)
<1>1. ASSUME AllInv, Undisturbed PROVE PersistedMatches
  <2>1. LogInv /\ RowsInv
    BY <1>1 DEF AllInv, CalmInv
  <2>2. \A row \in documents : row.content = SubSeq(Ids(keys.history), 1, row.revision)
    BY <2>1 DEF RowsInv, DocumentAt
  <2>3. \A op \in operations : op \in { keys.history[i] : i \in DOMAIN keys.history }
    BY <2>1 DEF RowsInv
  <2> QED
    BY <2>2, <2>3 DEF PersistedMatches
<1> QED
  BY <1>1, AlwaysAll, PTL

(* No restart and no reconnect can happen. *)
LEMMA AlwaysUndisturbed ==
  ASSUME Restarts = {}, MaxDrops = 0
  PROVE  Spec => []Undisturbed
<1>1. Init => Undisturbed
  BY DEF Init, Undisturbed
<1>2. AllInv /\ Undisturbed /\ [Next]_vars => Undisturbed'
  <2> SUFFICES ASSUME AllInv, Undisturbed, [Next]_vars PROVE Undisturbed'
    OBVIOUS
  <2>1. happened \in [calls: Nat, restarts: Nat, drops: Nat, crashes: Nat, lost: Nat]
    BY DEF AllInv, TypeInv, HistoryTypes
  <2>2. ASSUME NEW s \in Servers, DropSubscriber(s) PROVE FALSE
    BY <2>1, <2>2 DEF DropSubscriber, Count
  <2>3. CASE CalmNext
    BY <2>1, <2>3, CalmHappened DEF Undisturbed
  <2>4. Next => CalmNext
    BY <2>2 DEF Next, CalmNext
  <2>5. CASE UNCHANGED vars
    BY <2>5 DEF vars, Undisturbed
  <2> QED
    BY <2>3, <2>4, <2>5
<1> QED
  BY <1>1, <1>2, AlwaysAll, PTL DEF Spec

(* CommitsAreKept: while Redis keeps running and every subscriber stays    *)
(* connected, no step of any agent, a start or a crash included, takes a   *)
(* committed operation out of the log or moves it.                         *)
THEOREM CommitsStay ==
  ASSUME Restarts = {}, MaxDrops = 0
  PROVE  Spec => CommitsAreKept
<1>1. ASSUME AllInv, Undisturbed, Undisturbed', [Next]_vars
      PROVE  [IsPrefix(keys.history, keys'.history)]_keys
  <2>1. CASE Next
    BY <1>1, <2>1, CalmBefore, CalmLog DEF AllInv
  <2>2. CASE UNCHANGED vars
    BY <2>2 DEF vars, redis
  <2> QED
    BY <1>1, <2>1, <2>2
<1>2. Spec => []Undisturbed
  BY AlwaysUndisturbed
<1> QED
  BY <1>1, <1>2, AlwaysAll, PTL DEF Spec, CommitsAreKept

-----------------------------------------------------------------------------
(* When nothing fails, nothing gets lost on the way to PostgreSQL, as long *)
(* as a queue has room for every operation there is.                       *)

NothingLost ==
  \A op \in CommittedOp :
    (\E n \in DOMAIN keys.history : keys.history[n] = op) =>
      op \in operations \/ \E a \in Agents, i \in Nat : Holds(a, i, op)

LEMMA QueueHasRoom ==
  ASSUME TypeInv, CalmInv, NEW t \in Sessions, EnqueuePersist(t),
         IsFiniteSet(OpIds), Cardinality(OpIds) <= QueueLimit
  PROVE  Len(queue[Host[t]]) + 1 <= QueueLimit
<1> DEFINE s == Host[t]
           n == Len(queue[s])
           op(i) == IF i = n + 1 THEN call[t].job.op ELSE queue[s][i].op
           f == [i \in 1 .. n + 1 |-> op(i).opId]
<1>1. /\ s \in Servers /\ s \in Agents /\ t \in Agents /\ s # t
      /\ queue[s] \in Seq(TrueJob) /\ pc[t] = "enqueue"
      /\ call[t].job \in TrueJob
  BY AgentTyping DEF Agents, EnqueuePersist, TypeInv, JobTypes, CallTypes
<1>2. n \in Nat /\ DOMAIN queue[s] = 1 .. n
  BY <1>1
<1>3. ASSUME NEW i \in 1 .. n + 1
      PROVE  op(i) \in CommittedOp /\ Holds(IF i = n + 1 THEN t ELSE s, IF i = n + 1 THEN 0 ELSE i, op(i))
  <2>1. CASE i = n + 1
    BY <1>1, <2>1 DEF TrueJob, Holds
  <2>2. CASE i # n + 1
    <3>1. i \in DOMAIN queue[s] /\ queue[s][i] \in TrueJob
      BY <1>1, <1>2, <2>2
    <3> QED
      BY <1>1, <2>2, <3>1 DEF TrueJob, Holds
  <2> QED
    BY <2>1, <2>2
<1> HIDE DEF op
<1>4. ASSUME NEW i \in 1 .. n + 1, NEW j \in 1 .. n + 1, op(i).opId = op(j).opId
      PROVE  i = j
  <2>0. i \in Nat /\ j \in Nat
    BY <1>2
  <2> DEFINE a == IF i = n + 1 THEN t ELSE s
             k == IF i = n + 1 THEN 0 ELSE i
             b == IF j = n + 1 THEN t ELSE s
             l == IF j = n + 1 THEN 0 ELSE j
  <2>1. a \in Agents /\ b \in Agents /\ k \in Nat /\ l \in Nat
    BY <1>1, <2>0
  <2>2. Holds(a, k, op(i)) /\ Holds(b, l, op(j)) /\ op(i) \in CommittedOp /\ op(j) \in CommittedOp
    BY <1>3
  <2>3. op(i) = op(j)
    <3> HIDE DEF a, b, k, l
    <3>1. PICK x \in DOMAIN keys.history : keys.history[x] = op(i)
      BY <2>1, <2>2, HeldIsLogged DEF CalmInv
    <3>2. PICK y \in DOMAIN keys.history : keys.history[y] = op(j)
      BY <2>1, <2>2, HeldIsLogged DEF CalmInv
    <3>3. x = y
      BY <1>4, <3>1, <3>2 DEF CalmInv, LogInv
    <3> QED
      BY <3>1, <3>2, <3>3
  <2>4. a = b /\ k = l
    <3> HIDE DEF a, b, k, l
    <3> QED
      BY <2>1, <2>2, <2>3 DEF CalmInv, OnceInv
  <2> QED
    BY <1>1, <2>0, <2>4
<1>5. f \in Injection(1 .. n + 1, OpIds)
  <2>1. \A i \in 1 .. n + 1 : op(i).opId \in OpIds
    BY <1>3 DEF CommittedOp
  <2>2. f \in [1 .. n + 1 -> OpIds]
    BY <2>1
  <2>3. \A i, j \in 1 .. n + 1 : f[i] = f[j] => i = j
    BY <1>4
  <2> QED
    BY <2>2, <2>3 DEF Injection, IsInjective
<1>6. Cardinality(1 .. n + 1) <= Cardinality(OpIds)
  BY <1>5, FS_Injection
<1>7. Cardinality(1 .. n + 1) = n + 1
  BY <1>2, FS_Interval
<1>8. Cardinality(OpIds) \in Nat /\ QueueLimit \in Nat
  BY FS_CardinalityType, RecoveryAssumption
<1> HIDE DEF n
<1>9. n + 1 <= QueueLimit
  BY <1>2, <1>6, <1>7, <1>8
<1> QED
  BY <1>9 DEF n

(* A step without failures is one of these. *)
FailureFree ==
  \/ \E a \in Agents : Recovering(a)
  \/ \E t \in Sessions :
       \/ \E id \in OpIds : CommitCall(t, id)
       \/ Committing(t)
  \/ \E s \in Servers : Persisting(s)
  \/ LockExpires

LEMMA FailureFreeBefore ==
  ASSUME TypeInv, Next, NoFailures'
  PROVE  NoFailures /\ Undisturbed /\ FailureFree
<1>1. /\ happened \in [calls: Nat, restarts: Nat, drops: Nat, crashes: Nat, lost: Nat]
      /\ \A e \in {"calls", "restarts", "drops", "crashes", "lost"} : happened[e] \in Nat
  BY DEF TypeInv, HistoryTypes
<1>2. happened'.restarts \in Nat /\ happened'.drops \in Nat
      /\ happened'.crashes \in Nat /\ happened'.lost \in Nat
  BY TypeStep DEF TypeInv, HistoryTypes
<1>3. /\ happened'.restarts = 0 /\ happened'.drops = 0
      /\ happened'.crashes = 0 /\ happened'.lost = 0
  <2>1. happened'.restarts + happened'.drops + happened'.crashes + happened'.lost = 0
    BY DEF NoFailures
  <2>2. \A a, b, c, d \in Nat : a + b + c + d = 0 => a = 0 /\ b = 0 /\ c = 0 /\ d = 0
    OBVIOUS
  <2> QED
    BY <1>2, <2>1, <2>2
<1>4. Undisturbed /\ CalmNext
  BY <1>3, CalmBefore DEF Undisturbed
<1>5. ASSUME NEW s \in Servers, Crash(s) PROVE FALSE
  BY <1>1, <1>3, <1>5 DEF Crash, Count
<1>6. ASSUME NEW t \in Sessions, LoseWriteReply(t) PROVE FALSE
  BY <1>1, <1>3, <1>6 DEF LoseWriteReply, Count
<1>7. FailureFree
  BY <1>4, <1>5, <1>6 DEF CalmNext, FailureFree
<1>8. happened.crashes = 0 /\ happened.lost = 0
  <2>1. CASE happened' = happened
    BY <1>3, <2>1
  <2>2. CASE \E e \in {"calls", "crashes", "lost"} : happened' = [happened EXCEPT ![e] = @ + 1]
    BY <1>1, <1>3, <2>2
  <2> QED
    BY <1>4, <2>1, <2>2, CalmHappened
<1> QED
  BY <1>4, <1>7, <1>8 DEF NoFailures, Undisturbed

(* An agent that recovers neither waits to queue a job nor touches another.*)
LEMMA RecoveringMoves ==
  ASSUME TypeInv, NEW a \in Agents, Recovering(a)
  PROVE  pc[a] # "enqueue" /\ \A b \in Agents : b # a => pc'[b] = pc[b] /\ call'[b] = call[b]
<1> DEFINE Moves == /\ pc[a] # "enqueue"
                    /\ \A b \in Agents : b # a => pc'[b] = pc[b] /\ call'[b] = call[b]
<1>1. ASSUME Enter(a) PROVE Moves
  BY <1>1, GotoEffect DEF Enter
<1>2. ASSUME ExistsFails(a) PROVE Moves
  BY <1>2, LeaveEffect DEF ExistsFails
<1>3. ASSUME ExistsSkips(a) PROVE Moves
  <2>1. CASE a \in Servers
    BY <1>3, <2>1, LeaveEffect DEF ExistsSkips
  <2>2. CASE a \notin Servers
    BY <1>3, <2>2, GotoEffect DEF ExistsSkips
  <2> QED
    BY <2>1, <2>2
<1>4. ASSUME ExistsLoads(a) PROVE Moves
  BY <1>4, GotoEffect DEF ExistsLoads, TypeInv, CallTypes
<1>5. ASSUME LoadDocument(a) PROVE Moves
  BY <1>5, GotoEffect DEF LoadDocument, TypeInv, CallTypes
<1>6. ASSUME LoadNothing(a) PROVE Moves
  <2>1. CASE ~call[a].empty
    BY <1>6, <2>1, LeaveEffect DEF LoadNothing
  <2>2. CASE call[a].empty
    BY <1>6, <2>2, GotoEffect DEF LoadNothing
  <2> QED
    BY <2>1, <2>2
<1>7. ASSUME LoadDefault(a) PROVE Moves
  BY <1>7, GotoEffect DEF LoadDefault, TypeInv, CallTypes
<1>8. ASSUME LoadOperations(a) PROVE Moves
  BY <1>8, GotoEffect DEF LoadOperations, TypeInv, CallTypes
<1>9. ASSUME InitState(a) PROVE Moves
  BY <1>9, RecoveredEffect DEF InitState
<1>10. ASSUME ReloadState(a) PROVE Moves
  BY <1>10, RecoveredEffect DEF ReloadState
<1> HIDE DEF Moves
<1>11. Moves
  BY <1>1, <1>2, <1>3, <1>4, <1>5, <1>6, <1>7, <1>8, <1>9, <1>10 DEF Recovering
<1> QED
  BY <1>11 DEF Moves

(* What the log has is still held or has its row.                          *)
LEMMA LostNowhere ==
  ASSUME NothingLost, keys'.history = keys.history, operations \subseteq operations',
         \A a \in Agents, i \in Nat : \A op :
           Holds(a, i, op) => \/ op \in operations'
                              \/ \E b \in Agents, k \in Nat : Holds(b, k, op)'
  PROVE  NothingLost'
BY DEF NothingLost

(* Nothing is let go of.                                                   *)
LEMMA HeldStays ==
  ASSUME <<operations, jobs>>' = <<operations, jobs>>,
         \A t \in Sessions : pc[t] = "enqueue" => pc'[t] = "enqueue" /\ call'[t] = call[t]
  PROVE  \A a \in Agents, i \in Nat : \A op : Holds(a, i, op) => Holds(a, i, op)'
BY DEF Holds, jobs

LEMMA NothingLostStep ==
  ASSUME TypeInv, FindInv, CalmInv, NothingLost, FailureFree,
         IsFiniteSet(OpIds), Cardinality(OpIds) <= QueueLimit
  PROVE  NothingLost'
<1>0. Sessions \subseteq Agents /\ Servers \subseteq Agents /\ \A t \in Sessions : t \notin Servers
  BY AgentTyping DEF Agents
<1>1. ASSUME NEW a \in Agents, Recovering(a) PROVE NothingLost'
  <2>1. <<lock, postgres, jobs>>' = <<lock, postgres, jobs>>
    BY <1>1, CalmRecovering
  <2>2. keys'.history = keys.history
    <3>1. CASE ~keys.present /\ keys' = DefaultState
      BY <3>1 DEF CalmInv, EmptyInv, NoKeys, DefaultState, State
    <3> QED
      BY <1>1, <3>1, CalmRecovering
  <2>3. \A t \in Sessions : pc[t] = "enqueue" => pc'[t] = "enqueue" /\ call'[t] = call[t]
    BY <1>0, <1>1, RecoveringMoves
  <2>4. \A b \in Agents, i \in Nat : \A op : Holds(b, i, op) => Holds(b, i, op)'
    BY <2>1, <2>3, HeldStays DEF postgres
  <2> QED
    BY <2>1, <2>2, <2>4, LostNowhere DEF postgres
<1>2. ASSUME NEW t \in Sessions,
             \/ \E id \in OpIds : CommitCall(t, id)
             \/ LookupFound(t) \/ ReadKeys(t) \/ GiveUp(t)
      PROVE  NothingLost'
  <2>1. /\ <<keys, operations, jobs>>' = <<keys, operations, jobs>>
        /\ pc[t] # "enqueue"
    BY <1>2 DEF CommitCall, LookupFound, ReadKeys, GiveUp, redis, postgres
  <2>2. \A b \in Agents : b # t => pc'[b] = pc[b] /\ call'[b] = call[b]
    BY <1>0, <1>2, GotoEffect, LeaveEffect
       DEF CommitCall, LookupFound, ReadKeys, GiveUp, TypeInv, CallTypes
  <2>3. \A b \in Agents, i \in Nat : \A op : Holds(b, i, op) => Holds(b, i, op)'
    BY <1>0, <2>1, <2>2, HeldStays
  <2> QED
    BY <2>1, <2>3, LostNowhere
<1>3. ASSUME NEW t \in Sessions, WriteKeys(t) PROVE NothingLost'
  <2>0. PICK new : new = [opId |-> call[t].opId, revision |-> keys.revision + 1]
    OBVIOUS
  <2>1. /\ pc'[t] = "enqueue" /\ call'[t].job.op = new /\ Commits(t)
        /\ \A u \in Sessions : u # t => pc'[u] = pc[u] /\ call'[u] = call[u]
    BY <1>3, <2>0, WrittenJob DEF CalmInv
  <2>2. /\ keys.history \in Seq(CommittedOp) /\ new \in CommittedOp
        /\ keys'.history = Append(keys.history, new)
    BY <2>0, <2>1, CommitLogs DEF CalmInv
  <2>3. pc[t] # "enqueue" /\ <<operations, jobs>>' = <<operations, jobs>>
    BY <1>3 DEF WriteKeys, postgres
  <2>4. \A b \in Agents, i \in Nat : \A op : Holds(b, i, op) => Holds(b, i, op)'
    BY <2>1, <2>3, HeldStays
  <2>5. Holds(t, 0, new)'
    BY <2>1 DEF Holds
  <2>6. ASSUME NEW op, NEW n \in DOMAIN keys'.history, keys'.history[n] = op
        PROVE  op = new \/ \E k \in DOMAIN keys.history : keys.history[k] = op
    <3>1. CASE n = Len(keys.history) + 1
      BY <2>2, <2>6, <3>1
    <3>2. CASE n # Len(keys.history) + 1
      <4>1. n \in DOMAIN keys.history /\ keys'.history[n] = keys.history[n]
        BY <2>2, <3>2
      <4> QED
        BY <2>6, <4>1
    <3> QED
      BY <3>1, <3>2
  <2> QED
    BY <1>0, <2>3, <2>4, <2>5, <2>6 DEF NothingLost
<1>4. ASSUME NEW t \in Sessions, EnqueuePersist(t) PROVE NothingLost'
  <2> DEFINE s == Host[t]
             n == Len(queue[s])
             d == IF n + 1 > QueueLimit THEN 1 ELSE 0
  <2>1. /\ s \in Servers /\ n \in Nat
        /\ DOMAIN queue[s] = 1 .. n /\ DOMAIN queue'[s] = 1 .. n + 1 - d
        /\ \A i \in 1 .. n - d : queue'[s][i] = queue[s][i + d]
        /\ queue'[s][n + 1 - d] = call[t].job
        /\ \A r \in Servers : r # s => queue'[r] = queue[r]
    BY <1>4, LongerQueue
  <2>2. d = 0
    <3>1. n + 1 <= QueueLimit /\ QueueLimit \in Nat
      BY <1>4, QueueHasRoom, RecoveryAssumption
    <3> QED
      BY <2>1, <3>1
  <2> HIDE DEF s, n, d
  <2>6. PICK m \in Nat : m = n + 1
    BY <2>1
  <2>3. /\ m \in DOMAIN queue'[s] /\ queue'[s][m] = call[t].job
        /\ \A i \in DOMAIN queue[s] : queue'[s][i] = queue[s][i] /\ i \in DOMAIN queue'[s]
    BY <2>1, <2>2, <2>6
  <2>4. /\ inflight' = inflight /\ operations' = operations /\ keys' = keys
        /\ \A u \in Sessions : u # t => pc'[u] = pc[u] /\ call'[u] = call[u]
    BY <1>0, <1>4, GotoEffect, CallEffect DEF EnqueuePersist, postgres, redis
  <2>5. ASSUME NEW a \in Agents, NEW i \in Nat, NEW op, Holds(a, i, op)
        PROVE  Holds(a, i, op)' \/ Holds(s, m, op)'
    <3>1. CASE a = t
      BY <1>0, <2>1, <2>3, <2>5, <3>1 DEF Holds
    <3>2. CASE a # t /\ a \in Sessions
      BY <1>0, <2>4, <2>5, <3>2 DEF Holds
    <3>3. CASE a \in Servers /\ i = 0 /\ \E job \in inflight[a] : job.op = op
      BY <2>4, <3>3 DEF Holds
    <3>4. CASE a \in Servers /\ i \in DOMAIN queue[a] /\ queue[a][i].op = op
      BY <1>0, <2>1, <2>3, <3>4 DEF Holds
    <3> QED
      BY <2>5, <3>1, <3>2, <3>3, <3>4 DEF Holds
  <2> QED
    BY <1>0, <2>1, <2>3, <2>4, <2>5, LostNowhere
<1>5. ASSUME NEW s \in Servers, UpsertDocument(s) PROVE NothingLost'
  <2>1. queue[s] \in Seq(TrueJob) /\ queue[s] # <<>>
    BY <1>5 DEF UpsertDocument, TypeInv, JobTypes
  <2>2. /\ Len(queue[s]) \in Nat /\ DOMAIN queue[s] = 1 .. Len(queue[s])
        /\ Head(queue[s]) = queue[s][1]
    BY <2>1
  <2>3. /\ DOMAIN Tail(queue[s]) = 1 .. Len(queue[s]) - 1
        /\ \A i \in 1 .. Len(queue[s]) - 1 : Tail(queue[s])[i] = queue[s][i + 1]
    BY <2>1, <2>2, HeadTailProperties
  <2>4. /\ inflight[s] = {} /\ inflight'[s] = {Head(queue[s])} /\ queue'[s] = Tail(queue[s])
        /\ \A r \in Servers : r # s => queue'[r] = queue[r] /\ inflight'[r] = inflight[r]
        /\ <<keys, operations, pc, call>>' = <<keys, operations, pc, call>>
    BY <1>5 DEF UpsertDocument, TypeInv, JobTypes, redis
  <2>5. ASSUME NEW a \in Agents, NEW i \in Nat, NEW op, Holds(a, i, op)
        PROVE  \E k \in Nat : Holds(a, k, op)'
    <3>1. CASE a # s
      BY <2>4, <2>5, <3>1 DEF Holds
    <3>2. CASE a = s /\ i = 1
      <4>1. Head(queue[s]).op = op
        BY <1>0, <2>2, <2>4, <2>5, <3>2 DEF Holds
      <4>2. Holds(s, 0, op)'
        BY <2>4, <4>1 DEF Holds
      <4> QED
        BY <3>2, <4>2
    <3>3. CASE a = s /\ i # 1
      <4>1. i \in 2 .. Len(queue[s]) /\ queue[s][i].op = op
        BY <1>0, <2>2, <2>4, <2>5, <3>3 DEF Holds
      <4>2. i - 1 \in Nat /\ i - 1 \in 1 .. Len(queue[s]) - 1 /\ (i - 1) + 1 = i
        BY <2>2, <4>1
      <4>3. Tail(queue[s])[i - 1] = queue[s][i]
        BY <2>3, <4>2
      <4>4. Holds(s, i - 1, op)'
        BY <2>3, <2>4, <4>1, <4>2, <4>3 DEF Holds
      <4> QED
        BY <3>3, <4>2, <4>4
    <3> QED
      BY <3>1, <3>2, <3>3
  <2> QED
    BY <2>4, <2>5, LostNowhere
<1>6. ASSUME NEW s \in Servers, InsertOperation(s) PROVE NothingLost'
  <2>1. PICK job \in inflight[s] :
          operations' = IF \E o \in operations : o.revision = job.op.revision
                        THEN operations
                        ELSE operations \cup {job.op}
    BY <1>6 DEF InsertOperation
  <2>2. /\ inflight'[s] = {} /\ \A r \in Servers : r # s => inflight'[r] = inflight[r]
        /\ <<keys, queue, pc, call>>' = <<keys, queue, pc, call>>
    BY <1>6 DEF InsertOperation, TypeInv, JobTypes, redis
  <2>3. \A other \in inflight[s] : other = job
    BY DEF CalmInv, OnceInv
  <2>4. operations \subseteq operations' /\ job.op \in operations'
    <3>1. job.op = keys.history[job.op.revision]
      BY DEF CalmInv, RowsInv, JobOf
    <3>2. ASSUME NEW o \in operations, o.revision = job.op.revision PROVE o = job.op
      BY <3>1, <3>2 DEF CalmInv, RowsInv
    <3> QED
      BY <2>1, <3>2
  <2>5. ASSUME NEW a \in Agents, NEW i \in Nat, NEW op, Holds(a, i, op)
        PROVE  op \in operations' \/ Holds(a, i, op)'
    BY <1>0, <2>2, <2>3, <2>4, <2>5 DEF Holds
  <2> QED
    BY <2>2, <2>4, <2>5, LostNowhere
<1>7. ASSUME LockExpires PROVE NothingLost'
  BY <1>7, HeldStays, LostNowhere DEF LockExpires, postgres
<1> QED
  BY <1>1, <1>2, <1>3, <1>4, <1>5, <1>6, <1>7 DEF FailureFree, Committing, Persisting

LEMMA AlwaysNothingLost ==
  ASSUME IsFiniteSet(OpIds), Cardinality(OpIds) <= QueueLimit
  PROVE  Spec => [](NoFailures => NothingLost)
<1>1. Init => NothingLost
  <2>1. NoKeys.history = <<>> /\ DOMAIN <<>> = {}
    BY DEF NoKeys, State
  <2> QED
    BY <2>1 DEF Init, NothingLost
<1>2. AllInv /\ (NoFailures => NothingLost) /\ [Next]_vars => (NoFailures => NothingLost)'
  <2> SUFFICES ASSUME AllInv, NoFailures => NothingLost, [Next]_vars, NoFailures'
               PROVE  NothingLost'
    OBVIOUS
  <2>1. CASE Next
    <3>1. NoFailures /\ Undisturbed /\ FailureFree
      BY <2>1, FailureFreeBefore DEF AllInv
    <3> QED
      BY <3>1, NothingLostStep DEF AllInv
  <2>2. CASE UNCHANGED vars
    <3>1. NoFailures /\ keys' = keys /\ <<operations, jobs, pc, call>>' = <<operations, jobs, pc, call>>
      BY <2>2 DEF vars, NoFailures, redis, postgres
    <3>2. \A a \in Agents, i \in Nat : \A op : Holds(a, i, op) => Holds(a, i, op)'
      BY <3>1, HeldStays
    <3> QED
      BY <3>1, <3>2, LostNowhere
  <2> QED
    BY <2>1, <2>2
<1> QED
  BY <1>1, <1>2, AlwaysAll, PTL DEF Spec

(* HistoryPersisted: when Redis, the servers and the connections never     *)
(* failed, no commit is at work and the queues are empty, PostgreSQL's     *)
(* operations are those of the log, none missing and none other.  The code *)
(* drops the oldest job of a full queue, so there must not be more         *)
(* operations than a queue holds.                                          *)
THEOREM NothingIsLost ==
  ASSUME IsFiniteSet(OpIds), Cardinality(OpIds) <= QueueLimit
  PROVE  Spec => []HistoryPersisted
<1>1. ASSUME AllInv, NoFailures => NothingLost PROVE HistoryPersisted
  <2> SUFFICES ASSUME Quiet, NoFailures
               PROVE  operations = { keys.history[i] : i \in DOMAIN keys.history }
    BY DEF HistoryPersisted
  <2>1. Undisturbed
    <3>1. /\ happened.restarts \in Nat /\ happened.drops \in Nat
          /\ happened.crashes \in Nat /\ happened.lost \in Nat
      BY <1>1 DEF AllInv, TypeInv, HistoryTypes
    <3> QED
      BY <3>1 DEF NoFailures, Undisturbed
  <2>2. \A op \in operations : \E i \in DOMAIN keys.history : keys.history[i] = op
    BY <1>1, <2>1 DEF AllInv, CalmInv, RowsInv
  <2>3. \A a \in Agents, i \in Nat : \A op : ~Holds(a, i, op)
    <3>1. DOMAIN <<>> = {}
      OBVIOUS
    <3> QED
      BY <3>1 DEF Quiet, Holds
  <2>4. \A i \in DOMAIN keys.history : keys.history[i] \in operations
    <3>1. \A i \in DOMAIN keys.history : keys.history[i] \in CommittedOp
      BY <1>1 DEF AllInv, TypeInv, RedisTypes, StateRecord
    <3> QED
      BY <1>1, <2>3, <3>1 DEF NothingLost
  <2> QED
    BY <2>2, <2>4
<1> QED
  BY <1>1, AlwaysAll, AlwaysNothingLost, PTL

-----------------------------------------------------------------------------
(* What was kept comes back.                                               *)

(* A document that starts with the operations k. *)
Includes(k, content) == IsPrefix(Ids(k), content)

(* An operation that comes after those of k and is none of them. *)
Beyond(k, op) ==
  /\ op.revision > Len(k)
  /\ \A i \in DOMAIN k : k[i].opId # op.opId

(* A log that starts with k and has nothing of k again. *)
Continues(k, history) ==
  /\ IsPrefix(k, history)
  /\ \A j \in DOMAIN history : j > Len(k) => Beyond(k, history[j])

JobAfter(k, job) == Includes(k, job.content) /\ Beyond(k, job.op)

KeptLog(k) ==
  /\ k \in Seq(CommittedOp)
  /\ \A i \in DOMAIN k : k[i].revision = i
  /\ \A i, j \in DOMAIN k : k[i].opId = k[j].opId => i = j

KeptInRedis(k) ==
  keys.present =>
    /\ Includes(k, keys.content) /\ keys.revision >= Len(k)
    /\ Continues(k, keys.history)

KeptInRows(k) ==
  /\ documents = {} => k = <<>>
  /\ \A row \in documents : Includes(k, row.content) /\ row.revision >= Len(k)
  /\ \A i \in DOMAIN k : k[i] \in operations
  /\ \A op \in operations : Beyond(k, op) \/ \E i \in DOMAIN k : k[i] = op

KeptByCommits(k) ==
  \A t \in Sessions : pc[t] \in {"write", "enqueue"} => JobAfter(k, call[t].job)

KeptByJobs(k) ==
  \A s \in Servers :
    /\ \A i \in DOMAIN queue[s] : JobAfter(k, queue[s][i])
    /\ \A job \in inflight[s] : JobAfter(k, job)

KeptByLoads(k) ==
  \A a \in Agents :
    /\ pc[a] \in LoadedLabels =>
         Includes(k, call[a].loaded.content) /\ call[a].loaded.revision >= Len(k)
    /\ pc[a] \in {"init", "reload"} => Continues(k, call[a].loaded.history)

KeptAs(k) ==
  /\ KeptLog(k)
  /\ KeptInRedis(k) /\ KeptInRows(k)
  /\ KeptByCommits(k) /\ KeptByJobs(k) /\ KeptByLoads(k)

KeptInv == KeptAs(kept)

-----------------------------------------------------------------------------
(* About logs. *)

LEMMA IncludesNothing ==
  ASSUME NEW content \in Seq(OpIds)
  PROVE  Includes(<<>>, content)
<1>1. Ids(<<>>) \in Seq(OpIds) /\ Len(Ids(<<>>)) = 0
  BY IdsTyping, EmptySeq
<1>2. Len(content) \in Nat
  BY LenProperties
<1> QED
  BY <1>1, <1>2, PrefixIff DEF Includes

LEMMA IncludesAppend ==
  ASSUME NEW k \in Seq(CommittedOp), NEW content \in Seq(OpIds), NEW id \in OpIds,
         Includes(k, content)
  PROVE  Includes(k, Append(content, id))
<1>1. Ids(k) \in Seq(OpIds) /\ Len(Ids(k)) \in Nat /\ Len(content) \in Nat
  BY IdsTyping, LenProperties
<1>2. Len(Ids(k)) <= Len(content) /\ \A i \in 1 .. Len(Ids(k)) : Ids(k)[i] = content[i]
  BY <1>1, PrefixIff DEF Includes
<1>3. /\ Append(content, id) \in Seq(OpIds) /\ Len(Append(content, id)) = Len(content) + 1
      /\ \A i \in 1 .. Len(content) : Append(content, id)[i] = content[i]
  OBVIOUS
<1>4. /\ Len(Ids(k)) <= Len(Append(content, id))
      /\ \A i \in 1 .. Len(Ids(k)) : Ids(k)[i] = Append(content, id)[i]
  BY <1>1, <1>2, <1>3
<1> QED
  BY <1>1, <1>3, <1>4, PrefixIff DEF Includes

LEMMA ContinuesIff ==
  ASSUME NEW k \in Seq(CommittedOp), NEW h \in Seq(CommittedOp)
  PROVE  Continues(k, h) <=>
           /\ Len(k) <= Len(h)
           /\ \A i \in 1 .. Len(k) : k[i] = h[i]
           /\ \A j \in 1 .. Len(h) : j > Len(k) => Beyond(k, h[j])
<1>1. DOMAIN h = 1 .. Len(h)
  OBVIOUS
<1>2. IsPrefix(k, h) <=> Len(k) <= Len(h) /\ \A i \in 1 .. Len(k) : k[i] = h[i]
  BY PrefixIff
<1> QED
  BY <1>1, <1>2 DEF Continues

LEMMA ContinuesAppend ==
  ASSUME NEW k \in Seq(CommittedOp), NEW h \in Seq(CommittedOp), NEW op \in CommittedOp,
         Continues(k, h), Beyond(k, op)
  PROVE  Continues(k, Append(h, op))
<1>1. /\ Append(h, op) \in Seq(CommittedOp) /\ Len(Append(h, op)) = Len(h) + 1
      /\ \A i \in 1 .. Len(h) : Append(h, op)[i] = h[i]
      /\ Append(h, op)[Len(h) + 1] = op
      /\ Len(k) \in Nat /\ Len(h) \in Nat
  OBVIOUS
<1>2. /\ Len(k) <= Len(h)
      /\ \A i \in 1 .. Len(k) : k[i] = h[i]
      /\ \A j \in 1 .. Len(h) : j > Len(k) => Beyond(k, h[j])
  BY ContinuesIff
<1>3. \A j \in 1 .. Len(h) + 1 : j = Len(h) + 1 \/ j \in 1 .. Len(h)
  BY <1>1
<1>4. \A j \in 1 .. Len(Append(h, op)) : j > Len(k) => Beyond(k, Append(h, op)[j])
  BY <1>1, <1>2, <1>3
<1>5. /\ Len(k) <= Len(Append(h, op))
      /\ \A i \in 1 .. Len(k) : k[i] = Append(h, op)[i]
  BY <1>1, <1>2
<1> QED
  BY <1>1, <1>4, <1>5, ContinuesIff

(* What is kept is empty or starts the whole of a log. *)
LEMMA ContinuesItself ==
  ASSUME NEW k \in Seq(CommittedOp)
  PROVE  Continues(k, k) /\ Includes(k, Ids(k))
<1>1. Len(k) \in Nat
  OBVIOUS
<1>2. Continues(k, k)
  BY <1>1, ContinuesIff
<1>3. Ids(k) \in Seq(OpIds) /\ Len(Ids(k)) \in Nat
  BY IdsTyping, LenProperties
<1>4. IsPrefix(Ids(k), Ids(k))
  BY <1>3, PrefixIff
<1> QED
  BY <1>2, <1>4 DEF Includes

LEMMA ContinuesNothing ==
  Continues(<<>>, <<>>)
<1>1. <<>> \in Seq(CommittedOp)
  OBVIOUS
<1> QED
  BY <1>1, ContinuesItself

(* SELECT ... ORDER BY revision ASC gives the kept operations first: each  *)
(* has its row, at its revision, and every other row comes later.          *)
LEMMA SelectContinues ==
  ASSUME RowTypes, NEW k, KeptLog(k), KeptInRows(k)
  PROVE  Continues(k, ByRevision(operations))
<1> DEFINE n == Cardinality(operations)
           s == ByRevision(operations)
<1>1. /\ n \in Nat /\ s \in [1 .. n -> operations] /\ Ascending(s)
      /\ s \in Seq(CommittedOp) /\ IsFiniteSet(operations)
  BY ByRevisionSorts DEF RowTypes
<1> HIDE DEF n, s
<1>2. /\ k \in Seq(CommittedOp) /\ Len(k) \in Nat /\ DOMAIN k = 1 .. Len(k)
      /\ \A i \in 1 .. Len(k) : k[i] \in CommittedOp /\ k[i].revision = i
  BY DEF KeptLog
<1>3. DOMAIN s = 1 .. n /\ Len(s) = n
  BY <1>1
<1>4. \A i, j \in 1 .. n : i < j => s[i].revision < s[j].revision
  BY <1>1, <1>3 DEF Ascending
<1>5. \A i \in 1 .. n : s[i] \in operations /\ s[i].revision \in Nat
  BY <1>1 DEF RowTypes, CommittedOp
<1>6. \A i, j \in 1 .. n : s[i] = s[j] => i = j
  <2> SUFFICES ASSUME NEW i \in 1 .. n, NEW j \in 1 .. n, s[i] = s[j], i # j PROVE FALSE
    OBVIOUS
  <2>1. i < j \/ j < i
    BY <1>1
  <2> QED
    BY <1>4, <1>5, <2>1
(* Every row is selected. *)
<1>7. ASSUME NEW op \in operations PROVE \E i \in 1 .. n : s[i] = op
  <2> SUFFICES ASSUME \A i \in 1 .. n : s[i] # op PROVE FALSE
    OBVIOUS
  <2>1. s \in Injection(1 .. n, operations \ {op})
    BY <1>1, <1>6 DEF Injection, IsInjective
  <2>2. IsFiniteSet(operations \ {op}) /\ Cardinality(operations \ {op}) = n - 1
    BY <1>1, FS_RemoveElement DEF n
  <2>3. Cardinality(1 .. n) <= n - 1
    BY <2>1, <2>2, FS_Injection
  <2>4. Cardinality(1 .. n) = n
    BY <1>1, FS_Interval
  <2> QED
    BY <1>1, <2>3, <2>4
<1>8. \A i \in 1 .. Len(k) : i <= n /\ s[i] = k[i]
  <2> DEFINE wrong == { i \in 1 .. Len(k) : ~(i <= n /\ s[i] = k[i]) }
  <2> SUFFICES ASSUME wrong # {} PROVE FALSE
    OBVIOUS
  <2>1. wrong \in SUBSET Nat
    OBVIOUS
  <2>2. PICK i \in wrong : \A m \in wrong : i <= m
    BY <2>1, Least
  <2>3. i \in 1 .. Len(k) /\ i \in Nat /\ ~(i <= n /\ s[i] = k[i])
    BY <2>1, <2>2
  <2>4. \A l \in 1 .. Len(k) : l < i => l \in 1 .. n /\ s[l] = k[l]
    BY <1>1, <1>2, <2>2, <2>3
  <2>5. k[i] \in operations
    BY <1>2, <2>3 DEF KeptInRows
  <2>6. PICK x \in 1 .. n : s[x] = k[i]
    BY <1>7, <2>5
  <2>7. ~(x < i)
    <3> SUFFICES ASSUME x < i PROVE FALSE
      OBVIOUS
    <3>1. x \in 1 .. Len(k)
      BY <1>1, <1>2, <2>3
    <3>2. k[x] = k[i]
      BY <2>4, <2>6, <3>1
    <3> QED
      BY <1>2, <2>3, <3>1, <3>2
  <2>8. i < x
    <3>1. i # x
      BY <1>1, <2>3, <2>6
    <3> QED
      BY <1>1, <2>3, <2>7, <3>1
  <2>9. i \in 1 .. n /\ s[i].revision < i
    <3>1. i \in 1 .. n
      BY <1>1, <2>3, <2>8
    <3>2. s[x].revision = i
      BY <1>2, <2>3, <2>6
    <3> QED
      BY <1>4, <2>8, <3>1, <3>2
  <2>10. ~Beyond(k, s[i])
    BY <1>2, <1>5, <2>3, <2>9 DEF Beyond
  <2>11. PICK l \in 1 .. Len(k) : k[l] = s[i]
    BY <1>2, <1>5, <2>9, <2>10 DEF KeptInRows
  <2>12. l < i
    BY <1>2, <2>9, <2>11
  <2> QED
    BY <1>6, <2>4, <2>9, <2>11, <2>12, <1>2
<1>9. Len(k) <= n
  BY <1>1, <1>2, <1>8
<1>10. ASSUME NEW j \in 1 .. n, j > Len(k) PROVE Beyond(k, s[j])
  <2>1. CASE \E i \in 1 .. Len(k) : k[i] = s[j]
    BY <1>1, <1>2, <1>6, <1>8, <1>10, <2>1
  <2> QED
    BY <1>2, <1>5, <2>1 DEF KeptInRows
<1>11. Continues(k, s)
  BY <1>1, <1>2, <1>3, <1>8, <1>9, <1>10, ContinuesIff
<1> QED
  BY <1>11 DEF s

-----------------------------------------------------------------------------
(* Steps that do not change `kept'.                                        *)

(* No commit holds a job that it did not hold before.                      *)
SameCommits ==
  \A t \in Sessions : pc'[t] \in {"write", "enqueue"} => pc'[t] = pc[t] /\ call'[t] = call[t]

(* No agent has anything loaded that it had not before.                    *)
SameLoads ==
  \A a \in Agents : pc'[a] \in LoadedLabels => pc'[a] = pc[a] /\ call'[a] = call[a]

LEMMA KeptStays ==
  ASSUME NEW k
  PROVE  /\ keys' = keys /\ KeptInRedis(k) => KeptInRedis(k)'
         /\ postgres' = postgres /\ KeptInRows(k) => KeptInRows(k)'
         /\ SameCommits /\ KeptByCommits(k) => KeptByCommits(k)'
         /\ jobs' = jobs /\ KeptByJobs(k) => KeptByJobs(k)'
         /\ SameLoads /\ KeptByLoads(k) => KeptByLoads(k)'
<1>1. keys' = keys /\ KeptInRedis(k) => KeptInRedis(k)'
  BY DEF KeptInRedis
<1>2. postgres' = postgres /\ KeptInRows(k) => KeptInRows(k)'
  BY DEF KeptInRows, postgres
<1>3. SameCommits /\ KeptByCommits(k) => KeptByCommits(k)'
  BY DEF KeptByCommits, SameCommits
<1>4. jobs' = jobs /\ KeptByJobs(k) => KeptByJobs(k)'
  BY DEF KeptByJobs, jobs
<1>5. SameLoads /\ KeptByLoads(k) => KeptByLoads(k)'
  BY DEF KeptByLoads, SameLoads, LoadedLabels
<1> QED
  BY <1>1, <1>2, <1>3, <1>4, <1>5

(* An agent that moves by itself, to a place where it has nothing loaded   *)
(* and no job.                                                             *)
LEMMA SameButOne ==
  ASSUME NEW a \in Agents, pc'[a] \notin LoadedLabels, pc'[a] \notin {"write", "enqueue"},
         \A b \in Agents : b # a => pc'[b] = pc[b] /\ call'[b] = call[b]
  PROVE  SameCommits /\ SameLoads
<1>1. Sessions \subseteq Agents
  BY DEF Agents
<1> QED
  BY <1>1 DEF SameCommits, SameLoads

LEMMA RecoveringKeeps ==
  ASSUME TypeInv, FindInv, NEW k, KeptAs(k), NEW a \in Agents, Recovering(a)
  PROVE  KeptAs(k)'
<1>0. /\ KeptLog(k)
      /\ KeptInRedis(k) /\ KeptInRows(k)
      /\ KeptByCommits(k) /\ KeptByJobs(k) /\ KeptByLoads(k)
  BY DEF KeptAs
<1>1. postgres' = postgres /\ jobs' = jobs
  BY DEF Recovering, Enter, ExistsFails, ExistsSkips, ExistsLoads, LoadDocument,
     LoadNothing, LoadDefault, LoadOperations, InitState, ReloadState, postgres, jobs
<1>2. \A b \in Agents : b # a => pc'[b] = pc[b] /\ call'[b] = call[b]
  BY RecoveringMoves
<1>3. SameCommits /\ SameLoads /\ keys' = keys => KeptAs(k)'
  BY <1>0, <1>1, KeptStays DEF KeptAs
<1>4. CASE Enter(a) \/ ExistsFails(a) \/ ExistsSkips(a) \/ ExistsLoads(a) \/ LoadNothing(a)
  <2>1. keys' = keys
    BY <1>4 DEF Enter, ExistsFails, ExistsSkips, ExistsLoads, LoadNothing, redis
  <2>2. pc'[a] \in {"exists", "lookup", "load", "loadInit", "idle", "listening"}
    BY <1>4, GotoEffect, LeaveEffect
       DEF Enter, ExistsFails, ExistsSkips, ExistsLoads, LoadNothing, Resting
  <2>3. SameCommits /\ SameLoads
    BY <1>2, <2>2, SameButOne DEF LoadedLabels
  <2> QED
    BY <1>3, <2>1, <2>3
(* What an agent has just loaded. *)
<1>5. ASSUME pc'[a] \in LoadedLabels, keys' = keys,
             Includes(k, call'[a].loaded.content), call'[a].loaded.revision >= Len(k),
             pc'[a] \in {"init", "reload"} => Continues(k, call'[a].loaded.history)
      PROVE  KeptAs(k)'
  <2>1. SameCommits
    <3>1. Sessions \subseteq Agents
      BY DEF Agents
    <3> QED
      BY <1>2, <1>5, <3>1 DEF SameCommits, LoadedLabels
  <2>2. KeptByLoads(k)'
    BY <1>0, <1>2, <1>5 DEF KeptByLoads
  <2> QED
    BY <1>0, <1>1, <1>5, <2>1, <2>2, KeptStays DEF KeptAs
<1>6. CASE LoadDocument(a)
  <2>1. PICK row \in documents :
          call' = [call EXCEPT ![a].loaded = State(TRUE, row.content, row.revision, <<>>)]
    BY <1>6 DEF LoadDocument
  <2>2. call'[a].loaded = State(TRUE, row.content, row.revision, <<>>)
    BY <2>1 DEF TypeInv, CallTypes, CallRecord
  <2>3. call'[a].loaded.content = row.content /\ call'[a].loaded.revision = row.revision
    BY <2>2 DEF State
  <2>4. pc'[a] \in {"loadOps", "loadInitOps"} /\ keys' = keys
    BY <1>6, GotoEffect DEF LoadDocument, redis
  <2> QED
    BY <1>0, <1>5, <2>3, <2>4 DEF KeptInRows, LoadedLabels
<1>7. CASE LoadDefault(a)
  <2>1. k = <<>>
    BY <1>0, <1>7 DEF LoadDefault, KeptInRows
  <2>2. call'[a].loaded = DefaultState
    BY <1>7 DEF LoadDefault, TypeInv, CallTypes, CallRecord
  <2>3. /\ call'[a].loaded.content = <<>> /\ call'[a].loaded.revision = 0
        /\ call'[a].loaded.history = <<>>
    BY <2>2 DEF DefaultState, State
  <2>4. pc'[a] = "init" /\ keys' = keys
    BY <1>7, GotoEffect DEF LoadDefault, redis
  <2>5. Includes(<<>>, <<>>) /\ Len(<<>>) = 0
    <3>1. <<>> \in Seq(OpIds)
      OBVIOUS
    <3>2. Len(<<>>) = 0
      OBVIOUS
    <3> QED
      BY <3>1, <3>2, IncludesNothing
  <2> QED
    BY <1>5, <2>1, <2>3, <2>4, <2>5, ContinuesNothing DEF LoadedLabels
<1>8. CASE LoadOperations(a)
  <2>1. /\ call'[a].loaded.content = call[a].loaded.content
        /\ call'[a].loaded.revision = call[a].loaded.revision
        /\ call'[a].loaded.history = ByRevision(operations)
    BY <1>8 DEF LoadOperations, TypeInv, CallTypes, CallRecord, StateRecord
  <2>2. pc'[a] \in {"reload", "init"} /\ keys' = keys /\ pc[a] \in LoadedLabels
    BY <1>8, GotoEffect DEF LoadOperations, redis, LoadedLabels
  <2>3. Continues(k, ByRevision(operations))
    BY <1>0, SelectContinues DEF TypeInv
  <2> QED
    BY <1>0, <1>5, <2>1, <2>2, <2>3 DEF KeptByLoads, LoadedLabels
<1>9. CASE InitState(a) \/ ReloadState(a)
  <2>1. keys' = keys \/ keys' = call[a].loaded
    BY <1>9 DEF InitState, ReloadState
  <2>2. KeptInRedis(k)'
    BY <1>0, <1>9, <2>1, KeptStays
       DEF InitState, ReloadState, KeptByLoads, KeptInRedis, LoadedLabels
  <2>3. pc'[a] \in {"lookup", "listening"}
    BY <1>9, RecoveredEffect DEF InitState, ReloadState
  <2>4. SameCommits /\ SameLoads
    BY <1>2, <2>3, SameButOne DEF LoadedLabels
  <2> QED
    BY <1>0, <1>1, <2>2, <2>4, KeptStays DEF KeptAs
<1> QED
  BY <1>4, <1>6, <1>7, <1>8, <1>9 DEF Recovering

(* A commit that finds its operation already committed finds one that      *)
(* comes after the kept ones.                                              *)
LEMMA ExistingIsBeyond ==
  ASSUME TypeInv, NEW k, KeptLog(k), KeptInRedis(k), keys.present,
         NEW op \in CommittedOp, Beyond(k, op), NEW found \in Existing(op.opId)
  PROVE  Beyond(k, found)
<1>1. keys.history \in Seq(CommittedOp) /\ k \in Seq(CommittedOp)
  BY DEF TypeInv, RedisTypes, StateRecord, KeptLog
<1>2. PICK j \in DOMAIN keys.history : keys.history[j] = found /\ found.opId = op.opId
  BY ExistingTypes DEF TypeInv
<1>3. DOMAIN keys.history = 1 .. Len(keys.history) /\ DOMAIN k = 1 .. Len(k) /\ Len(k) \in Nat
  BY <1>1
<1>4. /\ \A i \in 1 .. Len(k) : k[i] = keys.history[i]
      /\ \A i \in 1 .. Len(keys.history) : i > Len(k) => Beyond(k, keys.history[i])
  BY <1>1, ContinuesIff DEF KeptInRedis
<1>5. ~(j \in 1 .. Len(k))
  BY <1>2, <1>3, <1>4 DEF Beyond
<1>6. j > Len(k)
  BY <1>2, <1>3, <1>5
<1> QED
  BY <1>2, <1>3, <1>4, <1>6

(* The commit script.                                                      *)
LEMMA ScriptKeeps ==
  ASSUME TypeInv, FindInv, NEW k, KeptAs(k), NEW t \in Sessions, pc[t] = "write", CommitScript(t)
  PROVE  /\ KeptInRedis(k)'
         /\ \A op \in Committed(t) : Beyond(k, op)
<1> DEFINE job == call[t].job
<1>1. /\ KeptLog(k) /\ KeptInRedis(k) /\ keys.present
      /\ Includes(k, job.content) /\ Beyond(k, job.op)
  BY DEF KeptAs, KeptByCommits, JobAfter, FindInv, CommitsFindDocument
<1>2. /\ job.op \in CommittedOp /\ job.content \in Seq(OpIds)
      /\ keys.history \in Seq(CommittedOp) /\ k \in Seq(CommittedOp)
  BY <1>1 DEF TypeInv, CallTypes, TrueJob, RedisTypes, StateRecord, KeptLog
<1>3. CASE Existing(job.op.opId) # {}
  <2>1. keys' = keys /\ Committed(t) = Existing(job.op.opId)
    BY <1>3 DEF CommitScript, Committed
  <2>2. \A op \in Existing(job.op.opId) : Beyond(k, op)
    BY <1>1, <1>2, ExistingIsBeyond
  <2> QED
    BY <1>1, <2>1, <2>2, KeptStays
<1>4. CASE Existing(job.op.opId) = {}
  <2>1. /\ keys' = State(TRUE, job.content, job.op.revision, Append(keys.history, job.op))
        /\ Committed(t) = {job.op}
    BY <1>4 DEF CommitScript, Committed
  <2> HIDE DEF job
  <2>2. /\ keys'.content = job.content /\ keys'.revision = job.op.revision
        /\ keys'.history = Append(keys.history, job.op)
    BY <2>1 DEF State
  <2>3. Continues(k, Append(keys.history, job.op))
    BY <1>1, <1>2, ContinuesAppend DEF KeptInRedis
  <2>4. job.op.revision >= Len(k)
    <3>1. job.op.revision > Len(k) /\ job.op.revision \in Nat /\ Len(k) \in Nat
      BY <1>1, <1>2 DEF Beyond, CommittedOp
    <3> QED
      BY <3>1
  <2>5. KeptInRedis(k)'
    BY <1>1, <2>2, <2>3, <2>4 DEF KeptInRedis
  <2> QED
    BY <1>1, <2>1, <2>5
<1> QED
  BY <1>3, <1>4

LEMMA CommittingKeeps ==
  ASSUME TypeInv, FindInv, NEW k, KeptAs(k), NEW t \in Sessions,
         \/ \E id \in OpIds : CommitCall(t, id)
         \/ Committing(t) \/ LoseWriteReply(t)
  PROVE  KeptAs(k)'
<1>0. /\ KeptLog(k)
      /\ KeptInRedis(k) /\ KeptInRows(k)
      /\ KeptByCommits(k) /\ KeptByJobs(k) /\ KeptByLoads(k)
      /\ t \in Agents /\ Sessions \subseteq Agents /\ t \notin Servers
  BY AgentTyping DEF KeptAs, Agents
<1>1. ASSUME NEW id \in OpIds, CommitCall(t, id) PROVE KeptAs(k)'
  <2>1. pc'[t] = "enter" /\ \A b \in Agents : b # t => pc'[b] = pc[b] /\ call'[b] = call[b]
    BY <1>0, <1>1, GotoEffect, CallEffect DEF CommitCall
  <2>2. SameCommits /\ SameLoads
    BY <1>0, <2>1, SameButOne DEF LoadedLabels
  <2> QED
    BY <1>0, <1>1, <2>2, KeptStays DEF KeptAs, CommitCall, redis
<1>2. ASSUME LookupFound(t) \/ GiveUp(t) PROVE KeptAs(k)'
  <2>1. pc'[t] = "idle" /\ \A b \in Agents : b # t => pc'[b] = pc[b] /\ call'[b] = call[b]
    BY <1>0, <1>2, LeaveEffect DEF LookupFound, GiveUp, Resting
  <2>2. SameCommits /\ SameLoads
    BY <1>0, <2>1, SameButOne DEF LoadedLabels
  <2> QED
    BY <1>0, <1>2, <2>2, KeptStays DEF KeptAs, LookupFound, GiveUp, redis
<1>3. ASSUME ReadKeys(t) PROVE KeptAs(k)'
  <2> DEFINE id == call[t].opId
             op == [opId |-> id, revision |-> keys.revision + 1]
  <2>1. /\ pc[t] = "lookup" /\ keys.present /\ Existing(id) = {} /\ id \in OpIds
        /\ pc'[t] = "write" /\ \A b \in Agents : b # t => pc'[b] = pc[b]
        /\ <<keys, postgres, jobs>>' = <<keys, postgres, jobs>>
    BY <1>0, <1>3, GotoEffect
       DEF ReadKeys, TypeInv, CallTypes, FindInv, CommitsFindDocument
  <2>2. call' = [call EXCEPT ![t].job = Job(Append(keys.content, id), op)]
    BY <1>3 DEF ReadKeys
  <2>3. call'[t].job = Job(Append(keys.content, id), op)
    BY <1>0, <2>2 DEF TypeInv, CallTypes, CallRecord
  <2>4. \A b \in Agents : b # t => call'[b] = call[b]
    BY <2>2 DEF TypeInv, CallTypes
  <2>5. /\ keys.history \in Seq(CommittedOp) /\ k \in Seq(CommittedOp)
        /\ keys.content \in Seq(OpIds) /\ keys.revision \in Nat
    BY <1>0 DEF TypeInv, RedisTypes, StateRecord, KeptLog
  <2>6. op.opId = id /\ op.revision = keys.revision + 1
    OBVIOUS
  <2> HIDE DEF op
  <2>7. call'[t].job.content = Append(keys.content, id) /\ call'[t].job.op = op
    BY <2>3 DEF Job
  <2>8. Includes(k, Append(keys.content, id))
    BY <1>0, <2>1, <2>5, IncludesAppend DEF KeptInRedis
  <2>9. Beyond(k, op)
    <3>1. op.revision > Len(k)
      <4>1. keys.revision >= Len(k) /\ Len(k) \in Nat
        BY <1>0, <2>1, <2>5 DEF KeptInRedis
      <4> QED
        BY <2>5, <2>6, <4>1
    <3>2. \A i \in 1 .. Len(k) : k[i] = keys.history[i] /\ i \in DOMAIN keys.history
      <4>1. Len(k) <= Len(keys.history) /\ \A i \in 1 .. Len(k) : k[i] = keys.history[i]
        BY <1>0, <2>1, <2>5, ContinuesIff DEF KeptInRedis
      <4> QED
        BY <2>5, <4>1
    <3>3. \A i \in DOMAIN keys.history : keys.history[i].opId # id
      BY <2>1, ExistingTypes DEF TypeInv
    <3>4. DOMAIN k = 1 .. Len(k)
      BY <2>5
    <3> QED
      BY <2>6, <3>1, <3>2, <3>3, <3>4 DEF Beyond
  <2>10. KeptByCommits(k)'
    BY <1>0, <2>1, <2>4, <2>7, <2>8, <2>9 DEF KeptByCommits, JobAfter
  <2>11. SameLoads
    BY <2>1, <2>4 DEF SameLoads, LoadedLabels
  <2> QED
    BY <1>0, <2>1, <2>10, <2>11, KeptStays DEF KeptAs
<1>4. ASSUME WriteKeys(t) PROVE KeptAs(k)'
  <2>1. /\ pc[t] = "write" /\ CommitScript(t) /\ postgres' = postgres /\ jobs' = jobs
        /\ pc'[t] = "enqueue" /\ \A b \in Agents : b # t => pc'[b] = pc[b]
    BY <1>0, <1>4, GotoEffect DEF WriteKeys
  <2>2. PICK op \in Committed(t) : call' = [call EXCEPT ![t].job.op = op]
    BY <1>4 DEF WriteKeys
  <2>3. call[t].job \in TrueJob
    BY <2>1 DEF TypeInv, CallTypes
  <2>4. call'[t].job.op = op /\ call'[t].job.content = call[t].job.content
    BY <1>0, <2>2, <2>3 DEF TypeInv, CallTypes, CallRecord, TrueJob
  <2>5. \A b \in Agents : b # t => call'[b] = call[b]
    BY <2>2 DEF TypeInv, CallTypes
  <2>6. KeptInRedis(k)' /\ Beyond(k, op)
    BY <2>1, <2>2, ScriptKeeps
  <2>7. KeptByCommits(k)'
    BY <1>0, <2>1, <2>4, <2>5, <2>6 DEF KeptByCommits, JobAfter
  <2>8. SameLoads
    BY <2>1, <2>5 DEF SameLoads, LoadedLabels
  <2> QED
    BY <1>0, <2>1, <2>6, <2>7, <2>8, KeptStays DEF KeptAs
<1>5. ASSUME LoseWriteReply(t) PROVE KeptAs(k)'
  <2>1. pc'[t] = "idle" /\ \A b \in Agents : b # t => pc'[b] = pc[b] /\ call'[b] = call[b]
    BY <1>0, <1>5, LeaveEffect DEF LoseWriteReply, Resting
  <2>2. SameCommits /\ SameLoads
    BY <1>0, <2>1, SameButOne DEF LoadedLabels
  <2>3. KeptInRedis(k)' /\ postgres' = postgres /\ jobs' = jobs
    BY <1>5, ScriptKeeps DEF LoseWriteReply
  <2> QED
    BY <1>0, <2>2, <2>3, KeptStays DEF KeptAs
<1>6. ASSUME EnqueuePersist(t) PROVE KeptAs(k)'
  <2>1. /\ pc[t] = "enqueue" /\ pc'[t] = "idle"
        /\ \A b \in Agents : b # t => pc'[b] = pc[b] /\ call'[b] = call[b]
        /\ keys' = keys /\ postgres' = postgres /\ inflight' = inflight
    BY <1>0, <1>6, GotoEffect, CallEffect DEF EnqueuePersist, redis
  <2>2. SameCommits /\ SameLoads
    BY <1>0, <2>1, SameButOne DEF LoadedLabels
  <2> DEFINE s == Host[t]
             n == Len(queue[s])
             d == IF n + 1 > QueueLimit THEN 1 ELSE 0
  <2>3. /\ s \in Servers /\ n \in Nat
        /\ DOMAIN queue[s] = 1 .. n /\ DOMAIN queue'[s] = 1 .. n + 1 - d
        /\ \A i \in 1 .. n - d : queue'[s][i] = queue[s][i + d]
        /\ queue'[s][n + 1 - d] = call[t].job
        /\ \A r \in Servers : r # s => queue'[r] = queue[r]
    BY <1>6, LongerQueue
  <2>4. d = 0 \/ d = 1
    OBVIOUS
  <2> HIDE DEF s, n, d
  <2>5. JobAfter(k, call[t].job)
    BY <1>0, <2>1 DEF KeptByCommits
  <2>6. \A i \in 1 .. n + 1 - d : i = n + 1 - d \/ (i \in 1 .. n - d /\ i + d \in 1 .. n)
    BY <2>3, <2>4
  <2>7. \A i \in DOMAIN queue'[s] : JobAfter(k, queue'[s][i])
    BY <1>0, <2>3, <2>5, <2>6 DEF KeptByJobs
  <2>8. KeptByJobs(k)'
    BY <1>0, <2>1, <2>3, <2>7 DEF KeptByJobs
  <2> QED
    BY <1>0, <2>1, <2>2, <2>8, KeptStays DEF KeptAs
<1> QED
  BY <1>1, <1>2, <1>3, <1>4, <1>5, <1>6 DEF Committing

LEMMA PersistingKeeps ==
  ASSUME TypeInv, NEW k, KeptAs(k), NEW s \in Servers, Persisting(s)
  PROVE  KeptAs(k)'
<1>0. /\ KeptLog(k)
      /\ KeptInRedis(k) /\ KeptInRows(k)
      /\ KeptByCommits(k) /\ KeptByJobs(k) /\ KeptByLoads(k)
  BY DEF KeptAs
<1>1. keys' = keys /\ SameCommits /\ SameLoads
  BY DEF Persisting, UpsertDocument, InsertOperation, SameCommits, SameLoads, redis
<1>2. ASSUME UpsertDocument(s) PROVE KeptInRows(k)' /\ KeptByJobs(k)'
  <2>1. queue[s] \in Seq(TrueJob) /\ queue[s] # <<>>
    BY <1>2 DEF UpsertDocument, TypeInv, JobTypes
  <2>2. /\ 1 \in DOMAIN queue[s] /\ Head(queue[s]) = queue[s][1] /\ Head(queue[s]) \in TrueJob
        /\ DOMAIN queue[s] = 1 .. Len(queue[s]) /\ Len(queue[s]) \in Nat
    BY <2>1
  <2>3. /\ DOMAIN Tail(queue[s]) = 1 .. Len(queue[s]) - 1
        /\ \A i \in 1 .. Len(queue[s]) - 1 : Tail(queue[s])[i] = queue[s][i + 1]
    BY <2>1, <2>2, HeadTailProperties
  <2>4. JobAfter(k, Head(queue[s]))
    BY <1>0, <2>2 DEF KeptByJobs
  <2>5. /\ documents' = {[content |-> Head(queue[s]).content,
                          revision |-> Head(queue[s]).op.revision]}
        /\ operations' = operations
        /\ inflight'[s] = {Head(queue[s])} /\ queue'[s] = Tail(queue[s])
        /\ \A r \in Servers : r # s => queue'[r] = queue[r] /\ inflight'[r] = inflight[r]
    BY <1>2 DEF UpsertDocument, TypeInv, JobTypes
  <2>6. KeptInRows(k)'
    <3>1. /\ Head(queue[s]).op.revision > Len(k) /\ Head(queue[s]).op.revision \in Nat
          /\ Len(k) \in Nat
      BY <1>0, <2>2, <2>4 DEF JobAfter, Beyond, TrueJob, CommittedOp, KeptLog
    <3>2. \A row \in documents' : Includes(k, row.content) /\ row.revision >= Len(k)
      BY <2>4, <2>5, <3>1 DEF JobAfter
    <3> QED
      BY <1>0, <2>5, <3>2 DEF KeptInRows
  <2>7. \A i \in DOMAIN Tail(queue[s]) : JobAfter(k, Tail(queue[s])[i])
    <3>1. \A i \in 1 .. Len(queue[s]) - 1 : i + 1 \in DOMAIN queue[s]
      BY <2>2
    <3> QED
      BY <1>0, <2>3, <3>1 DEF KeptByJobs
  <2>8. KeptByJobs(k)'
    BY <1>0, <2>4, <2>5, <2>7 DEF KeptByJobs
  <2> QED
    BY <2>6, <2>8
<1>3. ASSUME InsertOperation(s) PROVE KeptInRows(k)' /\ KeptByJobs(k)'
  <2>1. PICK job \in inflight[s] :
          operations' = IF \E o \in operations : o.revision = job.op.revision
                        THEN operations
                        ELSE operations \cup {job.op}
    BY <1>3 DEF InsertOperation
  <2>2. /\ inflight'[s] = {} /\ \A r \in Servers : r # s => inflight'[r] = inflight[r]
        /\ queue' = queue /\ documents' = documents
    BY <1>3 DEF InsertOperation, TypeInv, JobTypes
  <2>3. Beyond(k, job.op)
    BY <1>0 DEF KeptByJobs, JobAfter
  <2>4. KeptInRows(k)'
    BY <1>0, <2>1, <2>2, <2>3 DEF KeptInRows
  <2>5. KeptByJobs(k)'
    BY <1>0, <2>2 DEF KeptByJobs
  <2> QED
    BY <2>4, <2>5
<1> QED
  BY <1>0, <1>1, <1>2, <1>3, KeptStays DEF Persisting, KeptAs

LEMMA FailureKeeps ==
  ASSUME TypeInv, NEW k, KeptAs(k),
         LockExpires \/ \E s \in Servers : DropSubscriber(s) \/ Crash(s)
  PROVE  KeptAs(k)'
<1>0. /\ KeptLog(k)
      /\ KeptInRedis(k) /\ KeptInRows(k)
      /\ KeptByCommits(k) /\ KeptByJobs(k) /\ KeptByLoads(k)
      /\ Sessions \subseteq Agents /\ \A t \in Sessions : t \notin Servers
  BY AgentTyping DEF KeptAs, Agents
<1>1. ASSUME LockExpires PROVE KeptAs(k)'
  BY <1>0, <1>1, KeptStays DEF LockExpires, SameCommits, SameLoads, KeptAs
<1>2. ASSUME NEW s \in Servers, DropSubscriber(s) PROVE KeptAs(k)'
  <2>1. /\ s \in Agents /\ pc'[s] = "enter"
        /\ \A b \in Agents : b # s => pc'[b] = pc[b] /\ call'[b] = call[b]
    BY <1>2, GotoEffect DEF DropSubscriber, Agents
  <2>2. SameCommits /\ SameLoads
    BY <2>1, SameButOne DEF LoadedLabels
  <2> QED
    BY <1>0, <1>2, <2>2, KeptStays DEF DropSubscriber, KeptAs, redis
<1>3. ASSUME NEW s \in Servers, Crash(s) PROVE KeptAs(k)'
  <2>1. \A a \in Agents : \/ pc'[a] \in {"enter", "idle"}
                          \/ pc'[a] = pc[a] /\ call'[a] = call[a]
    BY <1>0, <1>3 DEF Crash
  <2>2. SameCommits /\ SameLoads
    BY <1>0, <2>1 DEF SameCommits, SameLoads, LoadedLabels
  <2>3. \A r \in Servers : \/ queue'[r] = queue[r] /\ inflight'[r] = inflight[r]
                           \/ queue'[r] = <<>> /\ inflight'[r] = {}
    BY <1>3 DEF Crash, TypeInv, JobTypes
  <2>4. KeptByJobs(k)'
    <3>1. DOMAIN <<>> = {}
      OBVIOUS
    <3> QED
      BY <1>0, <2>3, <3>1 DEF KeptByJobs
  <2> QED
    BY <1>0, <1>3, <2>2, <2>4, KeptStays DEF Crash, KeptAs, redis
<1> QED
  BY <1>1, <1>2, <1>3

-----------------------------------------------------------------------------
(* Restart.                                                                *)

(* Where the restart leaves the agents: none has anything loaded, and none *)
(* is about to write.                                                      *)
LEMMA RestartStops ==
  ASSUME TypeInv, FindInv, NEW how \in Restarts, Restart(how)
  PROVE  /\ \A a \in Agents : pc'[a] \notin LoadedLabels /\ pc'[a] # "write"
         /\ SameCommits /\ SameLoads
<1>0. Sessions \subseteq Agents /\ \A t \in Sessions : t \notin Servers
  BY AgentTyping DEF Agents
<1>1. ASSUME NEW a \in Agents PROVE pc'[a] \notin LoadedLabels /\ pc'[a] # "write"
  <2>1. CASE InMutex(a)
    <3>1. pc'[a] \in {"idle", "enter", "listening"}
      BY <1>0, <2>1 DEF Restart, Agents
    <3> QED
      BY <3>1 DEF LoadedLabels
  <2>2. CASE ~InMutex(a)
    <3>1. pc[a] \notin InMutexLabels
      BY <2>2 DEF FindInv, MutexInv
    <3>2. pc'[a] = pc[a] \/ pc'[a] = "enter"
      BY <2>2 DEF Restart
    <3> QED
      BY <3>1, <3>2 DEF LoadedLabels, InMutexLabels
  <2> QED
    BY <2>1, <2>2
<1>2. SameCommits
  <2> SUFFICES ASSUME NEW t \in Sessions, pc'[t] = "enqueue"
               PROVE  pc'[t] = pc[t] /\ call'[t] = call[t]
    BY <1>0, <1>1 DEF SameCommits
  <2>1. ~InMutex(t)
    BY <1>0 DEF Restart
  <2> QED
    BY <1>0, <2>1 DEF Restart
<1> QED
  BY <1>1, <1>2 DEF SameLoads

LEMMA RestartKeeps ==
  ASSUME TypeInv, FindInv, NEW k, KeptAs(k), NEW how \in Restarts, Restart(how)
  PROVE  KeptAs(k)'
<1>0. /\ KeptLog(k)
      /\ KeptInRedis(k) /\ KeptInRows(k)
      /\ KeptByCommits(k) /\ KeptByJobs(k) /\ KeptByLoads(k)
  BY DEF KeptAs
<1>1. KeptInRedis(k)'
  <2>1. keys' = keys \/ ~keys'.present
    BY DEF Restart, NoKeys, State
  <2> QED
    BY <1>0, <2>1 DEF KeptInRedis
<1>2. postgres' = postgres /\ jobs' = jobs
  BY DEF Restart
<1> QED
  BY <1>0, <1>1, <1>2, RestartStops, KeptStays DEF KeptAs

(* When the data went PostgreSQL was complete with the log, so nothing was *)
(* held for it any more: what is held has no row.                          *)
LEMMA RestartLoses ==
  ASSUME TypeInv, FindInv, CalmInv, NEW how \in Restarts, Restart(how), Complete,
         ~keys'.present, NEW h, h = keys.history
  PROVE  KeptAs(h)'
<1>0. /\ h \in Seq(CommittedOp) /\ Sessions \subseteq Agents /\ Servers \subseteq Agents
      /\ documents = {[content |-> keys.content, revision |-> keys.revision]}
      /\ operations = { keys.history[i] : i \in DOMAIN keys.history }
      /\ LogInv /\ RowsInv /\ OnceInv
  BY DEF TypeInv, RedisTypes, StateRecord, Agents, Complete, CalmInv
<1>2. KeptLog(h)
  BY <1>0 DEF KeptLog, LogInv
<1>3. KeptInRows(h)
  <2>1. documents # {} /\ \A row \in documents : row.content = Ids(h) /\ row.revision = Len(h)
    BY <1>0 DEF LogInv
  <2>2. Includes(h, Ids(h)) /\ Len(h) >= Len(h)
    <3>1. Len(h) \in Nat
      BY <1>0
    <3> QED
      BY <1>0, <3>1, ContinuesItself
  <2> QED
    BY <1>0, <2>1, <2>2 DEF KeptInRows
<1>4. \A a \in Agents, i \in Nat : \A op : ~Holds(a, i, op)
  <2> SUFFICES ASSUME NEW a \in Agents, NEW i \in Nat, NEW op, Holds(a, i, op) PROVE FALSE
    OBVIOUS
  <2>1. op \in CommittedOp /\ op \in operations
    BY <1>0, HeldIsLogged
  <2> QED
    BY <1>0, <2>1 DEF OnceInv
<1>5. \A t \in Sessions : pc[t] # "enqueue"
  <2>1. \A t \in Sessions : pc[t] = "enqueue" => Holds(t, 0, call[t].job.op)
    BY DEF Holds
  <2> QED
    BY <1>0, <1>4, <2>1
<1>6. \A s \in Servers : DOMAIN queue[s] = {} /\ inflight[s] = {}
  <2>1. ASSUME NEW s \in Servers, NEW i \in DOMAIN queue[s] PROVE FALSE
    <3>1. i \in Nat
      BY LenProperties DEF TypeInv, JobTypes
    <3>2. Holds(s, i, queue[s][i].op)
      BY DEF Holds
    <3> QED
      BY <1>0, <1>4, <3>1, <3>2
  <2>2. ASSUME NEW s \in Servers, NEW job \in inflight[s] PROVE FALSE
    <3>1. Holds(s, 0, job.op)
      BY DEF Holds
    <3> QED
      BY <1>0, <1>4, <3>1
  <2> QED
    BY <2>1, <2>2
<1>7. KeptByCommits(h)' /\ KeptByLoads(h)'
  <2>1. \A t \in Sessions : pc'[t] \notin {"write", "enqueue"}
    BY <1>0, <1>5, RestartStops DEF SameCommits
  <2>2. \A a \in Agents : pc'[a] \notin LoadedLabels
    BY RestartStops
  <2> QED
    BY <2>1, <2>2 DEF KeptByCommits, KeptByLoads, LoadedLabels
<1>8. KeptByJobs(h)' /\ KeptInRows(h)' /\ KeptInRedis(h)'
  <2>1. postgres' = postgres /\ queue' = queue /\ inflight' = inflight
    BY DEF Restart, jobs
  <2> QED
    BY <1>3, <1>6, <2>1, KeptStays DEF KeptByJobs, KeptInRedis
<1> QED
  BY <1>2, <1>7, <1>8 DEF KeptAs

LEMMA KeptInit == Init => KeptInv
<1> SUFFICES ASSUME Init PROVE KeptAs(<<>>)
  BY DEF KeptInv, Init
<1>1. KeptLog(<<>>)
  <2>1. <<>> \in Seq(CommittedOp) /\ DOMAIN <<>> = {}
    OBVIOUS
  <2> QED
    BY <2>1 DEF KeptLog
<1>2. KeptInRedis(<<>>)
  BY DEF Init, NoKeys, State, KeptInRedis
<1>3. KeptInRows(<<>>)
  <2>1. DOMAIN <<>> = {}
    OBVIOUS
  <2> QED
    BY <2>1 DEF Init, KeptInRows
<1>4. KeptByCommits(<<>>) /\ KeptByLoads(<<>>)
  BY AgentTyping DEF Init, KeptByCommits, KeptByLoads, LoadedLabels, Agents
<1>5. KeptByJobs(<<>>)
  <2>1. DOMAIN <<>> = {}
    OBVIOUS
  <2> QED
    BY <2>1 DEF Init, KeptByJobs
<1> QED
  BY <1>1, <1>2, <1>3, <1>4, <1>5 DEF KeptAs

LEMMA KeptStep == AllInv /\ KeptInv /\ [Next]_vars => KeptInv'
<1> SUFFICES ASSUME AllInv, KeptInv, [Next]_vars PROVE KeptInv'
  OBVIOUS
<1>0. TypeInv /\ FindInv
  BY DEF AllInv
<1>1. PICK k : k = kept
  OBVIOUS
<1>2. KeptAs(k)
  BY <1>1 DEF KeptInv
<1>3. ASSUME NEW a \in Agents, Recovering(a) PROVE KeptAs(k)' /\ kept' = kept
  BY <1>0, <1>2, <1>3, RecoveringKeeps
     DEF Recovering, Enter, ExistsFails, ExistsSkips, ExistsLoads, LoadDocument,
         LoadNothing, LoadDefault, LoadOperations, InitState, ReloadState, ghosts
<1>4. ASSUME NEW t \in Sessions,
             (\E id \in OpIds : CommitCall(t, id)) \/ Committing(t) \/ LoseWriteReply(t)
      PROVE  KeptAs(k)' /\ kept' = kept
  BY <1>0, <1>2, <1>4, CommittingKeeps
     DEF Committing, CommitCall, LookupFound, ReadKeys, GiveUp, WriteKeys, EnqueuePersist,
         LoseWriteReply, ghosts
<1>5. ASSUME NEW s \in Servers, Persisting(s) PROVE KeptAs(k)' /\ kept' = kept
  BY <1>0, <1>2, <1>5, PersistingKeeps
     DEF Persisting, UpsertDocument, InsertOperation, ghosts
<1>6. ASSUME LockExpires \/ \E s \in Servers : DropSubscriber(s) \/ Crash(s)
      PROVE  KeptAs(k)' /\ kept' = kept
  BY <1>0, <1>2, <1>6, FailureKeeps DEF LockExpires, DropSubscriber, Crash, ghosts
<1>7. ASSUME NEW how \in Restarts, Restart(how) PROVE KeptInv'
  <2>1. CASE how = "lost" /\ keys.present /\ Complete
    <3>1. Undisturbed
      BY <2>1 DEF Complete, Undisturbed
    <3>2. kept' = keys.history /\ ~keys'.present
      BY <1>7, <2>1 DEF Restart, NoKeys, State
    <3>3. PICK h : h = keys.history
      OBVIOUS
    <3>4. KeptAs(h)'
      BY <1>0, <1>7, <2>1, <3>1, <3>2, <3>3, RestartLoses DEF AllInv
    <3> QED
      BY <3>2, <3>3, <3>4 DEF KeptInv
  <2>2. CASE ~(how = "lost" /\ keys.present /\ Complete)
    <3>1. kept' = kept
      BY <1>7, <2>2 DEF Restart
    <3> QED
      BY <1>0, <1>1, <1>2, <1>7, <3>1, RestartKeeps DEF KeptInv
  <2> QED
    BY <2>1, <2>2
<1>8. CASE UNCHANGED vars
  <2>1. KeptAs(k)'
    <3>1. /\ keys' = keys /\ postgres' = postgres /\ jobs' = jobs
          /\ SameCommits /\ SameLoads
      BY <1>8 DEF vars, redis, SameCommits, SameLoads
    <3> QED
      BY <1>2, <3>1, KeptStays DEF KeptAs
  <2> QED
    BY <1>1, <1>8, <2>1 DEF KeptInv, vars, ghosts
<1>9. ASSUME KeptAs(k)' /\ kept' = kept PROVE KeptInv'
  BY <1>1, <1>9 DEF KeptInv
<1> QED
  BY <1>3, <1>4, <1>5, <1>6, <1>7, <1>8, <1>9 DEF Next

LEMMA AlwaysKept == Spec => []KeptInv
<1> QED
  BY KeptInit, KeptStep, AlwaysAll, PTL DEF Spec

(* PersistedSurvives: what PostgreSQL was complete with when Redis first   *)
(* lost its data is in Redis again whenever Redis has a document, in the   *)
(* log and in the text, at the same revisions and once: whoever reloads,   *)
(* whatever was half way, and across any further restarts, reconnects,     *)
(* crashes and lost replies.                                               *)
THEOREM RecoveryGivesBack == Spec => []PersistedSurvives
<1>1. ASSUME AllInv, KeptInv PROVE PersistedSurvives
  <2> SUFFICES ASSUME keys.present
               PROVE  /\ IsPrefix(kept, keys.history)
                      /\ IsPrefix(Ids(kept), keys.content)
                      /\ \A i \in DOMAIN kept, j \in DOMAIN keys.history :
                           kept[i].opId = keys.history[j].opId => i = j
    BY DEF PersistedSurvives
  <2>1. Includes(kept, keys.content) /\ Continues(kept, keys.history) /\ KeptLog(kept)
    BY <1>1 DEF KeptInv, KeptAs, KeptInRedis
  <2>2. keys.history \in Seq(CommittedOp) /\ kept \in Seq(CommittedOp)
    BY <1>1, <2>1 DEF AllInv, TypeInv, RedisTypes, StateRecord, KeptLog
  <2>3. ASSUME NEW i \in DOMAIN kept, NEW j \in DOMAIN keys.history,
               kept[i].opId = keys.history[j].opId
        PROVE  i = j
    <3>1. i \in 1 .. Len(kept) /\ j \in 1 .. Len(keys.history) /\ DOMAIN kept = 1 .. Len(kept)
      BY <2>2
    <3>2. /\ \A x \in 1 .. Len(kept) : kept[x] = keys.history[x]
          /\ \A x \in 1 .. Len(keys.history) : x > Len(kept) => Beyond(kept, keys.history[x])
      BY <2>1, <2>2, ContinuesIff
    <3>3. j \in 1 .. Len(kept) \/ j > Len(kept)
      BY <2>2, <3>1
    <3>4. CASE j > Len(kept)
      BY <2>3, <3>1, <3>2, <3>4 DEF Beyond
    <3>5. CASE j \in 1 .. Len(kept)
      BY <2>1, <2>3, <3>1, <3>2, <3>5 DEF KeptLog
    <3> QED
      BY <3>3, <3>4, <3>5
  <2> QED
    BY <2>1, <2>3 DEF Includes, Continues
<1> QED
  BY <1>1, AlwaysAll, AlwaysKept, PTL

=============================================================================

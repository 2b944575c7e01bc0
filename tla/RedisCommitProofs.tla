------------------------- MODULE RedisCommitProofs -------------------------
(***************************************************************************)
(* Theorems about RedisCommit for any servers, sessions, operations,       *)
(* number of calls, retries and faults.                                    *)
(*                                                                         *)
(*   TypeCorrect            the type invariant                             *)
(*   CommitsAreIdempotent   one opId, one answer                           *)
(*   CommitsAtMostOnce      one opId, one entry of the log                 *)
(*   LockLeftByNoCall       no call leaves the lock behind                 *)
(* and, while leases outlive the calls that took them,                     *)
(*   LockExcludes           one thread of all servers at a time            *)
(*   LogIsIntact            the keys of a document describe one log        *)
(*   AcknowledgedStays      what was answered stays true                   *)
(*   RefinesDocumentStore   the protocol implements DocumentStore          *)
(*   SnapshotsLagBehind     a snapshot is never ahead of its revision      *)
(***************************************************************************)
EXTENDS RedisCommit, SequenceTheorems, TLAPS

-----------------------------------------------------------------------------
(* The operators of CommitLog: what they return, and that appending an     *)
(* entry leaves the part before it alone.                                  *)

(* Ids keeps the length of the log and yields identifiers. *)
LEMMA IdsType ==
  ASSUME NEW log \in Seq(CommittedOp)
  PROVE  /\ Ids(log) \in Seq(OpIds)
         /\ Len(Ids(log)) = Len(log)
         /\ \A i \in 1 .. Len(log) : Ids(log)[i] = log[i].opId
<1>1. DOMAIN log = 1 .. Len(log) /\ Len(log) \in Nat
  BY LenProperties
<1>2. ASSUME NEW i \in 1 .. Len(log)
      PROVE  log[i].opId \in OpIds
  <2>1. log[i] \in CommittedOp
    BY ElementOfSeq
  <2> QED
    BY <2>1 DEF CommittedOp
<1>3. Ids(log) \in [1 .. Len(log) -> OpIds]
  BY <1>1, <1>2 DEF Ids
<1> QED
  BY <1>1, <1>3 DEF Ids

(* Appending an entry appends its identifier. *)
LEMMA IdsAppend ==
  ASSUME NEW log \in Seq(CommittedOp), NEW e \in CommittedOp
  PROVE  Ids(Append(log, e)) = Append(Ids(log), e.opId)
<1>1. Append(log, e) \in Seq(CommittedOp) /\ Len(Append(log, e)) = Len(log) + 1
  OBVIOUS
<1>2. e.opId \in OpIds
  BY DEF CommittedOp
<1>3. /\ Append(Ids(log), e.opId) \in Seq(OpIds)
      /\ Len(Append(Ids(log), e.opId)) = Len(log) + 1
  BY <1>2, IdsType
<1>4. ASSUME NEW i \in 1 .. Len(log) + 1
      PROVE  Ids(Append(log, e))[i] = Append(Ids(log), e.opId)[i]
  <2>1. Ids(Append(log, e))[i] = Append(log, e)[i].opId
    BY <1>1, IdsType
  <2>2. CASE i = Len(log) + 1
    BY <2>1, <2>2, IdsType, <1>2
  <2>3. CASE i \in 1 .. Len(log)
    BY <2>1, <2>3, IdsType, <1>2
  <2>4. i = Len(log) + 1 \/ i \in 1 .. Len(log)
    BY LenProperties
  <2> QED
    BY <2>2, <2>3, <2>4
<1>5. /\ Ids(Append(log, e)) \in Seq(OpIds)
      /\ Len(Ids(Append(log, e))) = Len(log) + 1
  BY <1>1, IdsType
<1> QED
  BY <1>3, <1>4, <1>5, SeqEqual

(* A stretch of the log that the appended entry is not in stays the same.  *)
LEMMA SubSeqOfAppend ==
  ASSUME NEW log \in Seq(CommittedOp), NEW e \in CommittedOp,
         NEW m \in Nat, NEW n \in Nat, m >= 1, n <= Len(log)
  PROVE  SubSeq(Append(log, e), m, n) = SubSeq(log, m, n)
<1>1. \A i \in m .. n : Append(log, e)[i] = log[i] /\ log[i] \in CommittedOp
  BY LenProperties, ElementOfSeq
<1>2. /\ SubSeq(log, m, n) \in Seq(CommittedOp)
      /\ Len(SubSeq(log, m, n)) = IF m <= n THEN n - m + 1 ELSE 0
      /\ \A i \in 1 .. n - m + 1 : SubSeq(log, m, n)[i] = log[m + i - 1]
  BY <1>1, SubSeqProperties
<1>3. /\ SubSeq(Append(log, e), m, n) \in Seq(CommittedOp)
      /\ Len(SubSeq(Append(log, e), m, n)) = IF m <= n THEN n - m + 1 ELSE 0
      /\ \A i \in 1 .. n - m + 1 :
           SubSeq(Append(log, e), m, n)[i] = Append(log, e)[m + i - 1]
  BY <1>1, SubSeqProperties
<1>4. \A i \in 1 .. Len(SubSeq(log, m, n)) :
        SubSeq(Append(log, e), m, n)[i] = SubSeq(log, m, n)[i]
  BY <1>1, <1>2, <1>3
<1> QED
  BY <1>2, <1>3, <1>4, SeqEqual

(* A prefix of a sequence is a prefix of what is appended to. *)
LEMMA PrefixOfAppend ==
  ASSUME NEW S, NEW s \in Seq(S), NEW e \in S, NEW n \in Nat, n <= Len(s)
  PROVE  SubSeq(Append(s, e), 1, n) = SubSeq(s, 1, n)
<1>1. \A i \in 1 .. n : Append(s, e)[i] = s[i] /\ s[i] \in S
  BY LenProperties, ElementOfSeq
<1>2. /\ SubSeq(s, 1, n) \in Seq(S) /\ Len(SubSeq(s, 1, n)) = n
      /\ \A i \in 1 .. n : SubSeq(s, 1, n)[i] = s[i]
  BY <1>1, SubSeqProperties
<1>3. /\ SubSeq(Append(s, e), 1, n) \in Seq(S) /\ Len(SubSeq(Append(s, e), 1, n)) = n
      /\ \A i \in 1 .. n : SubSeq(Append(s, e), 1, n)[i] = Append(s, e)[i]
  BY <1>1, SubSeqProperties
<1> QED
  BY <1>1, <1>2, <1>3, SeqEqual

LEMMA StartOfType ==
  ASSUME NEW base \in Nat, NEW current \in Nat
  PROVE  /\ StartOf(base, current) \in Nat
         /\ StartOf(base, current) <= current
BY DEF StartOf

(* What an operation missed is a sequence of identifiers, and stays what   *)
(* it was when the log grows.                                              *)
LEMMA MissedType ==
  ASSUME NEW log \in Seq(CommittedOp), NEW base \in Nat, NEW current \in Nat,
         current <= Len(log)
  PROVE  Missed(log, base, current) \in Seq(OpIds)
<1> DEFINE start == StartOf(base, current)
<1>1. start \in Nat /\ Len(log) \in Nat
  BY StartOfType, LenProperties
<1> HIDE DEF start
<1>2. ASSUME NEW i \in start + 1 .. current
      PROVE  log[i] \in CommittedOp
  <2>1. i \in 1 .. Len(log)
    BY <1>1
  <2> QED
    BY <2>1, ElementOfSeq
<1>3. SubSeq(log, start + 1, current) \in Seq(CommittedOp)
  BY <1>1, <1>2, SubSeqProperties
<1> QED
  BY <1>3, IdsType DEF Missed, start

LEMMA MissedOfAppend ==
  ASSUME NEW log \in Seq(CommittedOp), NEW e \in CommittedOp,
         NEW base \in Nat, NEW current \in Nat, current <= Len(log)
  PROVE  Missed(Append(log, e), base, current) = Missed(log, base, current)
<1> DEFINE start == StartOf(base, current)
<1>1. start \in Nat
  BY StartOfType
<1> HIDE DEF start
<1>2. SubSeq(Append(log, e), start + 1, current) = SubSeq(log, start + 1, current)
  BY <1>1, SubSeqOfAppend
<1> QED
  BY <1>2 DEF Missed, start

(* A commit that appends the operation, transformed over everything it     *)
(* missed, under an opId the log does not have yet, keeps a log well       *)
(* formed.                                                                 *)
LEMMA WellFormedAppend ==
  ASSUME NEW log \in Seq(CommittedOp), NEW id \in OpIds, NEW base \in Nat,
         WellFormed(log),
         \A i \in DOMAIN log : log[i].opId # id
  PROVE  WellFormed(Append(log, Entry(id, base, Len(log) + 1,
                                      Missed(log, base, Len(log)))))
<1> DEFINE e    == Entry(id, base, Len(log) + 1, Missed(log, base, Len(log)))
           next == Append(log, e)
<1>1. Len(log) \in Nat /\ DOMAIN log = 1 .. Len(log)
  BY LenProperties
<1>2. e \in CommittedOp
  <2>1. Missed(log, base, Len(log)) \in Seq(OpIds)
    BY <1>1, MissedType
  <2> QED
    BY <1>1, <2>1 DEF Entry, CommittedOp
<1>3. /\ DOMAIN next = 1 .. Len(log) + 1
      /\ \A i \in 1 .. Len(log) : next[i] = log[i]
      /\ next[Len(log) + 1] = e
  BY <1>1, <1>2
<1>4. /\ e.opId = id /\ e.base = base /\ e.revision = Len(log) + 1
      /\ e.over = Missed(log, base, Len(log))
  BY DEF Entry
<1> HIDE DEF e, next
<1>5. ASSUME NEW i \in DOMAIN next
      PROVE  /\ next[i].revision = i
             /\ next[i].over = Missed(next, next[i].base, i - 1)
  <2>1. CASE i \in 1 .. Len(log)
    <3>1. /\ log[i].revision = i
          /\ log[i].over = Missed(log, log[i].base, i - 1)
      BY <1>1, <2>1 DEF WellFormed
    <3>2. log[i].base \in Nat
      <4>1. log[i] \in CommittedOp
        BY <2>1, ElementOfSeq
      <4> QED
        BY <4>1 DEF CommittedOp
    <3>3. Missed(next, log[i].base, i - 1) = Missed(log, log[i].base, i - 1)
      <4>1. i - 1 \in Nat /\ i - 1 <= Len(log)
        BY <1>1, <2>1
      <4> QED
        BY <1>2, <3>2, <4>1, MissedOfAppend DEF next
    <3> QED
      BY <1>3, <2>1, <3>1, <3>3
  <2>2. CASE i = Len(log) + 1
    <3>1. Missed(next, base, i - 1) = Missed(log, base, Len(log))
      BY <1>1, <1>2, <2>2, MissedOfAppend DEF next
    <3> QED
      BY <1>3, <1>4, <2>2, <3>1
  <2> QED
    BY <1>1, <1>3, <2>1, <2>2
<1>6. ASSUME NEW i \in DOMAIN next, NEW j \in DOMAIN next,
             next[i].opId = next[j].opId
      PROVE  i = j
  BY <1>1, <1>3, <1>4, <1>6 DEF WellFormed
<1>7. WellFormed(next)
  BY <1>5, <1>6 DEF WellFormed
<1> QED
  BY <1>7 DEF next, e

-----------------------------------------------------------------------------
(* Types.                                                                  *)

CommitLabels ==
  {"enter", "lookup", "acquire", "recheck", "content", "revision",
   "history", "commit", "release"}

InCommit(t) == pc[t] \in CommitLabels

(* A thread inside commit() has a call record that names its operation.    *)
TypeInv ==
  /\ TypeOK
  /\ \A t \in Threads : InCommit(t) => call[t].opId \in OpIds

LEMMA InitType == Init => TypeInv
<1> SUFFICES ASSUME Init PROVE TypeInv
  OBVIOUS
<1>1. NoCall \in CallRecord
  BY EmptySeq DEF NoCall, Call, NoToken, CallRecord
<1>2. TypeOK
  BY <1>1, EmptySeq DEF Init, TypeOK, Labels, NoToken
<1> QED
  BY <1>2 DEF Init, TypeInv, InCommit, CommitLabels

(* What a thread that leaves the function does to the types. *)
LEMMA LeaveType ==
  ASSUME TypeInv, NEW t \in Threads, Leave(t)
  PROVE  /\ pc' \in [Threads -> Labels]
         /\ call' \in [Threads -> CallRecord]
         /\ mutex' \in [Servers -> Threads \cup {NoThread}]
         /\ \A u \in Threads : InCommit(u)' => call'[u].opId \in OpIds
<1>1. NoCall \in CallRecord
  BY EmptySeq DEF NoCall, Call, NoToken, CallRecord
<1> QED
  BY <1>1 DEF Leave, Goto, TypeInv, TypeOK, InCommit, CommitLabels, Labels

(* The variables that are not about one thread.                            *)
DataType ==
  /\ content \in Seq(OpIds) /\ revision \in Nat
  /\ history \in Seq(CommittedOp) /\ published \in Seq(CommittedOp)
  /\ opids \in SUBSET CommittedOp
  /\ lock \in Nat /\ clock \in Nat /\ faults \in Nat
  /\ acked \in SUBSET CommittedOp
  /\ snapshots \in SUBSET [document: Seq(OpIds), revision: Nat]

LEMMA LeavingType ==
  ASSUME TypeInv, NEW t \in Threads, Leave(t), DataType'
  PROVE  TypeInv'
<1>1. /\ pc' \in [Threads -> Labels]
      /\ call' \in [Threads -> CallRecord]
      /\ mutex' \in [Servers -> Threads \cup {NoThread}]
      /\ \A u \in Threads : InCommit(u)' => call'[u].opId \in OpIds
  BY LeaveType
<1>2. TypeOK'
  BY <1>1 DEF DataType, TypeOK
<1> QED
  BY <1>1, <1>2 DEF TypeInv

LEMMA ScriptType ==
  ASSUME TypeInv, NEW t \in Threads, pc[t] = "commit", CommitScript(t)
  PROVE  /\ content' \in Seq(OpIds) /\ revision' \in Nat
         /\ history' \in Seq(CommittedOp) /\ published' \in Seq(CommittedOp)
         /\ opids' \in SUBSET CommittedOp
<1>1. /\ call[t] \in CallRecord /\ call[t].opId \in OpIds
      /\ content \in Seq(OpIds) /\ revision \in Nat
      /\ history \in Seq(CommittedOp) /\ published \in Seq(CommittedOp)
      /\ opids \in SUBSET CommittedOp
  BY DEF TypeInv, TypeOK, InCommit, CommitLabels
<1>2. Entry(call[t].opId, call[t].base, call[t].cur + 1, call[t].over) \in CommittedOp
  BY <1>1, SMTT(30) DEF Entry, CommittedOp, CallRecord
<1>3. Append(call[t].doc, call[t].opId) \in Seq(OpIds) /\ call[t].cur + 1 \in Nat
  BY <1>1, SMTT(30) DEF CallRecord
<1>4. CASE Existing(call[t].opId) # {}
  BY <1>1, <1>4 DEF CommitScript, redisData
<1>5. CASE Existing(call[t].opId) = {}
  <2> DEFINE op == Entry(call[t].opId, call[t].base, call[t].cur + 1, call[t].over)
  <2>1. /\ content' = Append(call[t].doc, call[t].opId)
        /\ revision' = call[t].cur + 1
        /\ history' = Append(history, op)
        /\ opids' = opids \cup {op}
        /\ published' = Append(published, op)
    BY <1>5 DEF CommitScript
  <2>2. op \in CommittedOp
    BY <1>2
  <2> HIDE DEF op
  <2> QED
    BY <1>1, <1>3, <2>1, <2>2
<1> QED
  BY <1>4, <1>5

(* A thread that changes one of its locals and goes on, in the same call.  *)
LEMMA LocalType ==
  ASSUME TypeInv, NEW t \in Threads, NEW local \in CallRecord,
         local.opId = call[t].opId,
         call' = [call EXCEPT ![t] = local]
  PROVE  /\ call' \in [Threads -> CallRecord]
         /\ \A u \in Threads : call'[u].opId = call[u].opId
<1>1. call \in [Threads -> CallRecord]
  BY DEF TypeInv, TypeOK
<1> QED
  BY <1>1

LEMMA GotoType ==
  ASSUME TypeInv, NEW t \in Threads, NEW label \in Labels, Goto(t, label),
         label \in CommitLabels => InCommit(t)
  PROVE  /\ pc' \in [Threads -> Labels]
         /\ \A u \in Threads : InCommit(u)' => InCommit(u)
<1>1. pc \in [Threads -> Labels]
  BY DEF TypeInv, TypeOK
<1> QED
  BY <1>1 DEF Goto, InCommit

LEMMA NextType == TypeInv /\ [Next]_vars => TypeInv'
<1> SUFFICES ASSUME TypeInv, [Next]_vars
             PROVE  TypeInv'
  OBVIOUS
<1> USE CommitAssumption
<1>1. ASSUME NEW t \in Threads, NEW id \in OpIds, NEW base \in 0 .. revision,
             CommitCall(t, id, base)
      PROVE  TypeInv'
  <2>1. Call(id, base, clock + 1) \in CallRecord
    BY EmptySeq DEF Call, CallRecord, TypeInv, TypeOK
  <2>2. call'[t].opId = id
    BY <1>1 DEF CommitCall, Call, TypeInv, TypeOK
  <2> QED
    BY <1>1, <2>1, <2>2
    DEF CommitCall, Goto, redis, redisData, TypeInv, TypeOK, InCommit, CommitLabels, Labels
<1>2. ASSUME NEW t \in Threads, SnapshotCall(t)
      PROVE  TypeInv'
  BY <1>2
  DEF SnapshotCall, Goto, redis, redisData, TypeInv, TypeOK, InCommit, CommitLabels, Labels
<1>3. ASSUME NEW t \in Threads, Progress(t)
      PROVE  TypeInv'
  <2>1. CASE EnterCommit(t)
    BY <2>1
    DEF EnterCommit, Enter, Goto, redis, redisData, TypeInv, TypeOK, InCommit, CommitLabels, Labels
  <2>2. CASE LookupFound(t)
    <3>1. Leave(t)
      BY <2>2 DEF LookupFound, Return
    <3>2. DataType'
      BY <2>2 DEF LookupFound, Return, Existing, redis, redisData, DataType, TypeInv, TypeOK
    <3> QED
      BY <3>1, <3>2, LeavingType
  <2>3. CASE LookupMissing(t)
    BY <2>3
    DEF LookupMissing, Goto, redis, redisData, TypeInv, TypeOK, InCommit, CommitLabels, Labels
  <2>4. CASE Acquire(t)
    BY <2>4, GotoType
    DEF Acquire, redis, redisData, TypeInv, TypeOK, InCommit, CommitLabels, Labels, CallRecord
  <2>5. CASE AcquireRetry(t)
    <3>1. call[t].tries + 1 \in Nat
      BY DEF TypeInv, TypeOK, CallRecord
    <3>2. [call[t] EXCEPT !.tries = @ + 1] \in CallRecord
      BY <3>1, ZenonT(40) DEF TypeInv, TypeOK, CallRecord
    <3>3. call' = [call EXCEPT ![t] = [call[t] EXCEPT !.tries = @ + 1]]
      BY <2>5 DEF AcquireRetry
    <3>4. call' \in [Threads -> CallRecord]
      BY <3>2, <3>3 DEF TypeInv, TypeOK
    <3>5. \A u \in Threads : call'[u].opId = call[u].opId
      BY <3>3 DEF TypeInv, TypeOK, CallRecord
    <3> QED
      BY <2>5, <3>4, <3>5
      DEF AcquireRetry, redis, redisData, TypeInv, TypeOK, InCommit
  <2>6. CASE AcquireGiveUp(t)
    <3>1. Leave(t)
      BY <2>6 DEF AcquireGiveUp, Throw
    <3>2. DataType'
      BY <2>6 DEF AcquireGiveUp, Throw, redis, redisData, DataType, TypeInv, TypeOK
    <3> QED
      BY <3>1, <3>2, LeavingType
  <2>7. CASE RecheckFound(t)
    <3>1. Existing(call[t].opId) \in SUBSET CommittedOp
      BY DEF Existing, TypeInv, TypeOK
    <3>2. [call[t] EXCEPT !.result = Existing(call[t].opId)] \in CallRecord
      BY <3>1, ZenonT(40) DEF TypeInv, TypeOK, CallRecord
    <3>3. call' = [call EXCEPT ![t] = [call[t] EXCEPT !.result = Existing(call[t].opId)]]
      BY <2>7 DEF RecheckFound
    <3>4. /\ call' \in [Threads -> CallRecord]
          /\ \A u \in Threads : call'[u].opId = call[u].opId
      BY <3>2, <3>3, LocalType DEF TypeInv, TypeOK, CallRecord
    <3>5. /\ pc' \in [Threads -> Labels]
          /\ \A u \in Threads : InCommit(u)' => InCommit(u)
      BY <2>7, GotoType DEF RecheckFound, InCommit, CommitLabels, Labels
    <3> QED
      BY <2>7, <3>4, <3>5 DEF RecheckFound, redis, redisData, TypeInv, TypeOK
  <2>8. CASE RecheckMissing(t)
    BY <2>8
    DEF RecheckMissing, Goto, redis, redisData, TypeInv, TypeOK, InCommit, CommitLabels, Labels
  <2>9. CASE GetContent(t)
    <3>1. [call[t] EXCEPT !.doc = content] \in CallRecord
      BY ZenonT(40) DEF TypeInv, TypeOK, CallRecord
    <3>2. call' = [call EXCEPT ![t] = [call[t] EXCEPT !.doc = content]]
      BY <2>9 DEF GetContent
    <3>3. /\ call' \in [Threads -> CallRecord]
          /\ \A u \in Threads : call'[u].opId = call[u].opId
      BY <3>1, <3>2, LocalType DEF TypeInv, TypeOK, CallRecord
    <3>4. /\ pc' \in [Threads -> Labels]
          /\ \A u \in Threads : InCommit(u)' => InCommit(u)
      BY <2>9, GotoType DEF GetContent, InCommit, CommitLabels, Labels
    <3> QED
      BY <2>9, <3>3, <3>4 DEF GetContent, redis, redisData, TypeInv, TypeOK
  <2>10. CASE GetRevision(t)
    <3>1. [call[t] EXCEPT !.cur = revision] \in CallRecord
      BY ZenonT(40) DEF TypeInv, TypeOK, CallRecord
    <3>2. call' = [call EXCEPT ![t] = [call[t] EXCEPT !.cur = revision]]
      BY <2>10 DEF GetRevision
    <3>3. /\ call' \in [Threads -> CallRecord]
          /\ \A u \in Threads : call'[u].opId = call[u].opId
      BY <3>1, <3>2, LocalType DEF TypeInv, TypeOK, CallRecord
    <3>4. /\ pc' \in [Threads -> Labels]
          /\ \A u \in Threads : InCommit(u)' => InCommit(u)
      BY <2>10, GotoType DEF GetRevision, InCommit, CommitLabels, Labels
    <3> QED
      BY <2>10, <3>3, <3>4 DEF GetRevision, redis, redisData, TypeInv, TypeOK
  <2>11. CASE GetHistory(t)
    <3> DEFINE reach == StartOf(call[t].cur, Len(history))
               over  == IF call[t].base < call[t].cur
                        THEN Ids(SubSeq(history, call[t].base + 1, reach))
                        ELSE <<>>
    <3>1. call[t].base \in Nat /\ call[t].cur \in Nat /\ history \in Seq(CommittedOp)
      BY DEF TypeInv, TypeOK, CallRecord
    <3>2. Len(history) \in Nat
      BY <3>1, LenProperties
    <3>3. reach \in Nat /\ reach <= Len(history)
      BY <3>1, <3>2, StartOfType
    <3>4. over \in Seq(OpIds)
      <4> HIDE DEF reach
      <4>1. ASSUME NEW i \in call[t].base + 1 .. reach
            PROVE  history[i] \in CommittedOp
        <5>1. i \in 1 .. Len(history)
          BY <3>1, <3>2, <3>3
        <5> QED
          BY <3>1, <5>1, ElementOfSeq
      <4>2. SubSeq(history, call[t].base + 1, reach) \in Seq(CommittedOp)
        BY <3>1, <3>3, <4>1, SubSeqProperties
      <4> QED
        BY <4>2, IdsType, EmptySeq
    <3>5. /\ pc[t] = "history"
          /\ call' = [call EXCEPT ![t].over = over]
          /\ Goto(t, "commit")
          /\ UNCHANGED <<redis, mutex, clock, faults, acked, snapshots>>
      BY <2>11 DEF GetHistory
    <3> HIDE DEF over
    <3>6. [call[t] EXCEPT !.over = over] \in CallRecord
      BY <3>4, ZenonT(40) DEF TypeInv, TypeOK, CallRecord
    <3>7. call' = [call EXCEPT ![t] = [call[t] EXCEPT !.over = over]]
      BY <3>5
    <3>8. /\ call' \in [Threads -> CallRecord]
          /\ \A u \in Threads : call'[u].opId = call[u].opId
      BY <3>6, <3>7, LocalType DEF TypeInv, TypeOK, CallRecord
    <3>9. /\ pc' \in [Threads -> Labels]
          /\ \A u \in Threads : InCommit(u)' => InCommit(u)
      BY <3>5, GotoType DEF InCommit, CommitLabels, Labels
    <3> QED
      BY <3>5, <3>8, <3>9 DEF redis, redisData, TypeInv, TypeOK
  <2>12. CASE EvalCommit(t)
    <3>1. CommitScript(t) /\ pc[t] = "commit"
      BY <2>12 DEF EvalCommit
    <3>2. /\ pc' \in [Threads -> Labels]
          /\ \A u \in Threads : InCommit(u)' => InCommit(u)
      BY <2>12, GotoType DEF EvalCommit, InCommit, CommitLabels, Labels
    <3>3. /\ call' \in [Threads -> CallRecord]
          /\ \A u \in Threads : call'[u].opId = call[u].opId
      <4> DEFINE found == { e \in opids' : e.opId = call[t].opId }
      <4>1. found \in SUBSET CommittedOp
        BY <3>1, ScriptType
      <4>2. call' = [call EXCEPT ![t] = [call[t] EXCEPT !.result = found]]
        BY <2>12 DEF EvalCommit
      <4> HIDE DEF found
      <4>3. [call[t] EXCEPT !.result = found] \in CallRecord
        BY <4>1, ZenonT(40) DEF TypeInv, TypeOK, CallRecord
      <4> QED
        BY <4>2, <4>3, LocalType DEF TypeInv, TypeOK, CallRecord
    <3> QED
      BY <2>12, <3>1, <3>2, <3>3, ScriptType DEF EvalCommit, TypeInv, TypeOK
  <2>13. CASE Release(t)
    <3>1. Leave(t)
      BY <2>13 DEF Release, Return
    <3>2. DataType'
      BY <2>13 DEF Release, Return, redisData, NoToken, CallRecord, DataType, TypeInv, TypeOK
    <3> QED
      BY <3>1, <3>2, LeavingType
  <2>14. CASE EnterSnapshot(t)
    BY <2>14
    DEF EnterSnapshot, Enter, Goto, redis, redisData, TypeInv, TypeOK, InCommit, CommitLabels, Labels
  <2>15. CASE SnapshotContent(t)
    <3>1. [call[t] EXCEPT !.doc = content] \in CallRecord
      BY ZenonT(40) DEF TypeInv, TypeOK, CallRecord
    <3>2. call' = [call EXCEPT ![t] = [call[t] EXCEPT !.doc = content]]
      BY <2>15 DEF SnapshotContent
    <3>3. /\ call' \in [Threads -> CallRecord]
          /\ \A u \in Threads : call'[u].opId = call[u].opId
      BY <3>1, <3>2, LocalType DEF TypeInv, TypeOK, CallRecord
    <3>4. /\ pc' \in [Threads -> Labels]
          /\ \A u \in Threads : InCommit(u)' => InCommit(u)
      BY <2>15, GotoType DEF SnapshotContent, CommitLabels, Labels
    <3> QED
      BY <2>15, <3>3, <3>4 DEF SnapshotContent, redis, redisData, TypeInv, TypeOK
  <2>16. CASE SnapshotRevision(t)
    <3>1. call[t].doc \in Seq(OpIds) /\ revision \in Nat
      BY DEF TypeInv, TypeOK, CallRecord
    <3>2. snapshots' \in SUBSET [document: Seq(OpIds), revision: Nat]
      BY <2>16, <3>1 DEF SnapshotRevision, TypeInv, TypeOK
    <3>3. Leave(t) /\ UNCHANGED <<redis, clock, faults, acked>>
      BY <2>16 DEF SnapshotRevision, Throw
    <3>4. DataType'
      BY <3>2, <3>3 DEF redis, redisData, DataType, TypeInv, TypeOK
    <3> QED
      BY <3>3, <3>4, LeavingType
  <2> QED
    BY <1>3, <2>1, <2>2, <2>3, <2>4, <2>5, <2>6, <2>7, <2>8, <2>9, <2>10, <2>11,
       <2>12, <2>13, <2>14, <2>15, <2>16
    DEF Progress
<1>4. ASSUME NEW t \in Threads, Faulty(t)
      PROVE  TypeInv'
  <2>1. CASE CommitRejected(t)
    BY <2>1
    DEF CommitRejected, Goto, redis, redisData, TypeInv, TypeOK, InCommit, CommitLabels, Labels
  <2>2. CASE LoseConnection(t)
    <3>1. /\ Leave(t) /\ (acked' = acked \/ acked' = acked \cup call[t].result)
          /\ faults' = faults + 1
          /\ UNCHANGED <<redis, clock, snapshots>>
      BY <2>2 DEF LoseConnection, Return, Throw, Fault
    <3>2. call[t].result \in SUBSET CommittedOp
      BY DEF TypeInv, TypeOK, CallRecord
    <3>3. acked' \in SUBSET CommittedOp /\ faults' \in Nat
      BY <3>1, <3>2 DEF TypeInv, TypeOK
    <3>4. DataType'
      BY <3>1, <3>3 DEF redis, redisData, DataType, TypeInv, TypeOK
    <3> QED
      BY <3>1, <3>4, LeavingType
  <2>3. CASE LoseAcquireReply(t)
    <3>1. Leave(t)
      BY <2>3 DEF LoseAcquireReply, Throw
    <3>2. DataType'
      BY <2>3 DEF LoseAcquireReply, Throw, Fault, redisData, CallRecord, DataType, TypeInv, TypeOK
    <3> QED
      BY <3>1, <3>2, LeavingType
  <2>4. CASE LoseCommitReply(t)
    <3>1. /\ pc[t] = "commit" /\ CommitScript(t) /\ Leave(t)
          /\ faults' = faults + 1
          /\ UNCHANGED <<lock, clock, snapshots, acked>>
      BY <2>4 DEF LoseCommitReply, Fault, Throw
    <3>2. DataType'
      BY <3>1, ScriptType DEF DataType, TypeInv, TypeOK
    <3> QED
      BY <3>1, <3>2, LeavingType
  <2>5. CASE LoseSnapshotReply(t)
    <3> DEFINE document == IF pc[t] = "snapContent" THEN <<>> ELSE call[t].doc
    <3>1. document \in Seq(OpIds)
      BY EmptySeq DEF TypeInv, TypeOK, CallRecord
    <3>2. /\ snapshots' = snapshots \cup {[document |-> document, revision |-> 0]}
          /\ faults' = faults + 1
          /\ Leave(t)
          /\ UNCHANGED <<redis, clock, acked>>
      BY <2>5 DEF LoseSnapshotReply, Fault, Throw
    <3> HIDE DEF document
    <3>3. snapshots' \in SUBSET [document: Seq(OpIds), revision: Nat]
      BY <3>1, <3>2 DEF TypeInv, TypeOK
    <3>4. DataType'
      BY <3>2, <3>3 DEF redis, redisData, DataType, TypeInv, TypeOK
    <3> QED
      BY <3>2, <3>4, LeavingType
  <2> QED
    BY <1>4, <2>1, <2>2, <2>3, <2>4, <2>5 DEF Faulty
<1>5. CASE LeaseExpires
  BY <1>5 DEF LeaseExpires, redisData, NoToken, TypeInv, TypeOK, InCommit
<1>6. CASE UNCHANGED vars
  BY <1>6 DEF vars, redis, redisData, TypeInv, TypeOK, InCommit
<1> QED
  BY <1>1, <1>2, <1>3, <1>4, <1>5, <1>6 DEF Next

(* Every variable keeps its type, whatever the constants. *)
THEOREM TypeCorrect == Spec => []TypeOK
<1>1. TypeInv => TypeOK
  BY DEF TypeInv
<1> QED
  BY InitType, NextType, <1>1, PTL DEF Spec

-----------------------------------------------------------------------------
(* One operation per opId.  The look-up inside kLuaCommitOp keeps the      *)
(* history free of repetitions; what commit() returns comes from opids,    *)
(* which holds exactly the operations of the history.                      *)

OncePerId(log) == \A i, j \in DOMAIN log : log[i].opId = log[j].opId => i = j

KeysAgree ==
  /\ opids = { history[i] : i \in DOMAIN history }
  /\ published = history
  /\ OncePerId(history)

KeysInv ==
  /\ TypeInv
  /\ KeysAgree
  /\ acked \subseteq opids
  /\ \A t \in Threads : call[t].result \subseteq opids

LEMMA ScriptKeys ==
  ASSUME TypeInv, KeysAgree, NEW t \in Threads, pc[t] = "commit", CommitScript(t)
  PROVE  KeysAgree' /\ opids \subseteq opids'
<1>1. CASE Existing(call[t].opId) # {}
  BY <1>1 DEF CommitScript, redisData, KeysAgree, OncePerId
<1>2. CASE Existing(call[t].opId) = {}
  <2> DEFINE op == Entry(call[t].opId, call[t].base, call[t].cur + 1, call[t].over)
  <2>1. /\ history' = Append(history, op)
        /\ opids' = opids \cup {op}
        /\ published' = Append(published, op)
    BY <1>2 DEF CommitScript
  <2>2. op.opId = call[t].opId
    BY DEF Entry
  <2>3. \A e \in opids : e.opId # op.opId
    BY <1>2, <2>2 DEF Existing
  <2> HIDE DEF op
  <2>4. history \in Seq(CommittedOp) /\ history' \in Seq(CommittedOp)
    BY ScriptType DEF TypeInv, TypeOK
  <2>5. /\ Len(history) \in Nat /\ DOMAIN history = 1 .. Len(history)
        /\ Len(history') = Len(history) + 1
        /\ DOMAIN history' = 1 .. Len(history) + 1
    BY <2>1, <2>4, LenProperties
  <2>6. /\ \A i \in 1 .. Len(history) : history'[i] = history[i]
        /\ history'[Len(history) + 1] = op
    BY <2>1, <2>4
  <2>7. opids' = { history'[i] : i \in DOMAIN history' }
    <3>1. ASSUME NEW i \in DOMAIN history'
          PROVE  history'[i] \in opids'
      BY <2>1, <2>5, <2>6 DEF KeysAgree
    <3>2. ASSUME NEW e \in opids'
          PROVE  \E i \in DOMAIN history' : history'[i] = e
      <4>1. CASE e = op
        BY <4>1, <2>5, <2>6
      <4>2. CASE e \in opids
        <5>1. PICK i \in DOMAIN history : history[i] = e
          BY <4>2 DEF KeysAgree
        <5> QED
          BY <5>1, <2>5, <2>6
      <4> QED
        BY <2>1, <4>1, <4>2
    <3> QED
      BY <3>1, <3>2
  <2>8. OncePerId(history')
    <3> SUFFICES ASSUME NEW i \in DOMAIN history', NEW j \in DOMAIN history',
                        history'[i].opId = history'[j].opId
                 PROVE  i = j
      BY DEF OncePerId
    <3>1. \A k \in 1 .. Len(history) : history[k].opId # op.opId
      BY <2>3, <2>5 DEF KeysAgree
    <3> QED
      BY <2>5, <2>6, <3>1 DEF KeysAgree, OncePerId
  <2>9. published' = history'
    BY <2>1 DEF KeysAgree
  <2> QED
    BY <2>1, <2>7, <2>8, <2>9 DEF KeysAgree, OncePerId
<1> QED
  BY <1>1, <1>2

LEMMA InitKeys == Init => KeysInv
<1> SUFFICES ASSUME Init PROVE KeysInv
  OBVIOUS
<1>1. DOMAIN history = {}
  BY DEF Init
<1>2. KeysAgree /\ acked \subseteq opids
  BY <1>1 DEF Init, KeysAgree, OncePerId
<1>3. \A t \in Threads : call[t].result \subseteq opids
  BY DEF Init, NoCall, Call
<1> QED
  BY <1>2, <1>3, InitType DEF KeysInv

(* A step that leaves the keys alone and returns or stores only what opids *)
(* holds.                                                                  *)
LEMMA SameKeys ==
  ASSUME KeysInv, TypeInv', UNCHANGED redisData,
         acked' \subseteq opids,
         \A t \in Threads : call'[t].result \subseteq opids
  PROVE  KeysInv'
BY DEF KeysInv, KeysAgree, OncePerId, redisData

LEMMA LeaveKeys ==
  ASSUME KeysInv, NEW t \in Threads, Leave(t)
  PROVE  \A u \in Threads : call'[u].result \subseteq opids
BY DEF Leave, NoCall, Call, KeysInv, TypeInv, TypeOK

LEMMA NextKeys == KeysInv /\ [Next]_vars => KeysInv'
<1> SUFFICES ASSUME KeysInv, [Next]_vars
             PROVE  KeysInv'
  OBVIOUS
<1>0. TypeInv /\ TypeInv' /\ call \in [Threads -> CallRecord]
  BY NextType DEF KeysInv, TypeInv, TypeOK
<1>1. ASSUME NEW t \in Threads, NEW id \in OpIds, NEW base \in 0 .. revision,
             CommitCall(t, id, base)
      PROVE  KeysInv'
  <2>1. \A u \in Threads : call'[u].result \subseteq opids
    BY <1>0, <1>1 DEF CommitCall, Call, KeysInv
  <2> QED
    BY <1>0, <1>1, <2>1, SameKeys DEF CommitCall, redis, KeysInv
<1>2. ASSUME NEW t \in Threads, SnapshotCall(t)
      PROVE  KeysInv'
  BY <1>0, <1>2, SameKeys DEF SnapshotCall, redis, KeysInv
<1>3. ASSUME NEW t \in Threads, Progress(t)
      PROVE  KeysInv'
  <2>1. CASE EnterCommit(t)
    BY <1>0, <2>1, SameKeys DEF EnterCommit, Enter, redis, KeysInv
  <2>2. CASE LookupFound(t)
    <3>1. acked' \subseteq opids
      BY <2>2 DEF LookupFound, Return, Existing, KeysInv
    <3> QED
      BY <1>0, <2>2, <3>1, LeaveKeys, SameKeys DEF LookupFound, Return, redis
  <2>3. CASE LookupMissing(t)
    BY <1>0, <2>3, SameKeys DEF LookupMissing, redis, KeysInv
  <2>4. CASE Acquire(t)
    BY <1>0, <2>4, SameKeys DEF Acquire, KeysInv
  <2>5. CASE AcquireRetry(t)
    <3>1. \A u \in Threads : call'[u].result = call[u].result
      BY <1>0, <2>5 DEF AcquireRetry, CallRecord
    <3> QED
      BY <1>0, <2>5, <3>1, SameKeys DEF AcquireRetry, redis, KeysInv
  <2>6. CASE AcquireGiveUp(t)
    BY <1>0, <2>6, LeaveKeys, SameKeys DEF AcquireGiveUp, Throw, redis, KeysInv
  <2>7. CASE RecheckFound(t)
    <3>1. \A u \in Threads : call'[u].result \subseteq opids
      BY <1>0, <2>7 DEF RecheckFound, Existing, CallRecord, KeysInv
    <3> QED
      BY <1>0, <2>7, <3>1, SameKeys DEF RecheckFound, redis, KeysInv
  <2>8. CASE RecheckMissing(t)
    BY <1>0, <2>8, SameKeys DEF RecheckMissing, redis, KeysInv
  <2>9. CASE GetContent(t)
    <3>1. \A u \in Threads : call'[u].result = call[u].result
      BY <1>0, <2>9 DEF GetContent, CallRecord
    <3> QED
      BY <1>0, <2>9, <3>1, SameKeys DEF GetContent, redis, KeysInv
  <2>10. CASE GetRevision(t)
    <3>1. \A u \in Threads : call'[u].result = call[u].result
      BY <1>0, <2>10 DEF GetRevision, CallRecord
    <3> QED
      BY <1>0, <2>10, <3>1, SameKeys DEF GetRevision, redis, KeysInv
  <2>11. CASE GetHistory(t)
    <3>1. \A u \in Threads : call'[u].result = call[u].result
      BY <1>0, <2>11 DEF GetHistory, CallRecord
    <3> QED
      BY <1>0, <2>11, <3>1, SameKeys DEF GetHistory, redis, KeysInv
  <2>12. CASE EvalCommit(t)
    <3>1. KeysAgree' /\ opids \subseteq opids'
      BY <2>12, ScriptKeys DEF EvalCommit, KeysInv
    <3>2. \A u \in Threads : call'[u].result \subseteq opids'
      BY <1>0, <2>12, <3>1 DEF EvalCommit, CallRecord, KeysInv
    <3> QED
      BY <1>0, <2>12, <3>1, <3>2 DEF EvalCommit, KeysInv
  <2>13. CASE Release(t)
    <3>1. acked' \subseteq opids
      BY <2>13 DEF Release, Return, KeysInv
    <3> QED
      BY <1>0, <2>13, <3>1, LeaveKeys, SameKeys DEF Release, Return
  <2>14. CASE EnterSnapshot(t)
    BY <1>0, <2>14, SameKeys DEF EnterSnapshot, Enter, redis, KeysInv
  <2>15. CASE SnapshotContent(t)
    <3>1. \A u \in Threads : call'[u].result = call[u].result
      BY <1>0, <2>15 DEF SnapshotContent, CallRecord
    <3> QED
      BY <1>0, <2>15, <3>1, SameKeys DEF SnapshotContent, redis, KeysInv
  <2>16. CASE SnapshotRevision(t)
    BY <1>0, <2>16, LeaveKeys, SameKeys DEF SnapshotRevision, Throw, redis, KeysInv
  <2> QED
    BY <1>3, <2>1, <2>2, <2>3, <2>4, <2>5, <2>6, <2>7, <2>8, <2>9, <2>10, <2>11,
       <2>12, <2>13, <2>14, <2>15, <2>16
    DEF Progress
<1>4. ASSUME NEW t \in Threads, Faulty(t)
      PROVE  KeysInv'
  <2>1. CASE CommitRejected(t)
    BY <1>0, <2>1, SameKeys DEF CommitRejected, redis, KeysInv
  <2>2. CASE LoseConnection(t)
    <3>1. Leave(t) /\ acked' \subseteq opids
      BY <2>2 DEF LoseConnection, Return, Throw, KeysInv
    <3> QED
      BY <1>0, <2>2, <3>1, LeaveKeys, SameKeys DEF LoseConnection, redis
  <2>3. CASE LoseAcquireReply(t)
    BY <1>0, <2>3, LeaveKeys, SameKeys DEF LoseAcquireReply, Throw, KeysInv
  <2>4. CASE LoseCommitReply(t)
    <3>1. KeysAgree' /\ opids \subseteq opids'
      BY <2>4, ScriptKeys DEF LoseCommitReply, KeysInv
    <3> QED
      BY <1>0, <2>4, <3>1, LeaveKeys DEF LoseCommitReply, Throw, KeysInv
  <2>5. CASE LoseSnapshotReply(t)
    BY <1>0, <2>5, LeaveKeys, SameKeys DEF LoseSnapshotReply, Throw, redis, KeysInv
  <2> QED
    BY <1>4, <2>1, <2>2, <2>3, <2>4, <2>5 DEF Faulty
<1>5. CASE LeaseExpires
  BY <1>0, <1>5, SameKeys DEF LeaseExpires, KeysInv
<1>6. CASE UNCHANGED vars
  BY <1>0, <1>6, SameKeys DEF vars, redis, KeysInv
<1> QED
  BY <1>1, <1>2, <1>3, <1>4, <1>5, <1>6 DEF Next

LEMMA KeysInvariant == Spec => []KeysInv
BY InitKeys, NextKeys, PTL DEF Spec

(* Every call that returns for one opId returns the same operation, even   *)
(* when leases lapse and replies are lost.                                 *)
THEOREM CommitsAreIdempotent == Spec => []Idempotent
<1>1. ASSUME KeysInv PROVE Idempotent
  <2> SUFFICES ASSUME NEW a \in acked, NEW b \in acked, a.opId = b.opId
               PROVE  a = b
    BY DEF Idempotent
  <2>1. PICK i \in DOMAIN history : history[i] = a
    BY <1>1 DEF KeysInv, KeysAgree
  <2>2. PICK j \in DOMAIN history : history[j] = b
    BY <1>1 DEF KeysInv, KeysAgree
  <2> QED
    BY <1>1, <2>1, <2>2 DEF KeysInv, KeysAgree, OncePerId
<1> QED
  BY <1>1, KeysInvariant, PTL

(* No opId enters the history, or is published, twice. *)
THEOREM CommitsAtMostOnce == Spec => []AtMostOnce
<1>1. KeysInv => AtMostOnce
  BY DEF KeysInv, KeysAgree, OncePerId, AtMostOnce
<1> QED
  BY <1>1, KeysInvariant, PTL

-----------------------------------------------------------------------------
(* Mutual exclusion.  As long as a lease outlives the call that took it, a *)
(* thread between acquire_lock and release_lock finds its own token in the *)
(* lock key; tokens of running calls differ, so there is one such thread.  *)

TokenInv ==
  /\ lock \in 0 .. clock
  /\ \A t \in Threads : InCommit(t) => call[t].token \in 1 .. clock
  /\ \A t, u \in Threads :
       InCommit(t) /\ InCommit(u) /\ call[t].token = call[u].token => t = u
  /\ \A t \in Threads : Holding(t) => lock = call[t].token

LockInv == KeysInv /\ TokenInv

LEMMA InitLock == Init => LockInv
BY InitKeys DEF Init, LockInv, TokenInv, InCommit, CommitLabels, Holding, NoToken

LEMMA OneHolder == TokenInv => MutualExclusion
BY DEF TokenInv, MutualExclusion, Holding, InCommit, CommitLabels

(* A step that takes no lock and starts no call keeps TokenInv when every  *)
(* thread that is still inside commit() was there before.                  *)
LEMMA SameTokens ==
  ASSUME TokenInv, UNCHANGED <<lock, clock>>,
         \A t \in Threads : InCommit(t)' =>
                              InCommit(t) /\ call'[t].token = call[t].token,
         \A t \in Threads : Holding(t)' => Holding(t)
  PROVE  TokenInv'
BY DEF TokenInv, Holding, InCommit, CommitLabels

LEMMA LeaveTokens ==
  ASSUME TypeInv, NEW t \in Threads, Leave(t)
  PROVE  /\ \A u \in Threads : InCommit(u)' =>
              InCommit(u) /\ u # t /\ call'[u].token = call[u].token
         /\ \A u \in Threads : Holding(u)' => Holding(u) /\ u # t
BY DEF Leave, Goto, TypeInv, TypeOK, InCommit, CommitLabels, Holding

LEMMA NextLock ==
  ASSUME ~LeaseMayLapse
  PROVE  LockInv /\ [Next]_vars => LockInv'
<1> SUFFICES ASSUME LockInv, [Next]_vars
             PROVE  TokenInv'
  BY NextKeys DEF LockInv
<1>0. /\ TypeInv /\ TokenInv /\ call \in [Threads -> CallRecord]
      /\ pc \in [Threads -> Labels] /\ clock \in Nat /\ lock \in Nat
  BY DEF LockInv, KeysInv, TypeInv, TypeOK
<1>1. ASSUME NEW t \in Threads, NEW id \in OpIds, NEW base \in 0 .. revision,
             CommitCall(t, id, base)
      PROVE  TokenInv'
  <2>1. /\ clock' = clock + 1 /\ lock' = lock
        /\ pc' = [pc EXCEPT ![t] = "enter"]
        /\ call' = [call EXCEPT ![t] = Call(id, base, clock + 1)]
    BY <1>1 DEF CommitCall, Goto, redis
  <2>2. Call(id, base, clock + 1).token = clock + 1
    BY DEF Call
  <2>3. \A u \in Threads :
          call'[u].token = IF u = t THEN clock + 1 ELSE call[u].token
    BY <1>0, <2>1, <2>2
  <2>4. \A u \in Threads : u # t => pc'[u] = pc[u]
    BY <1>0, <2>1
  <2>5. pc'[t] = "enter"
    BY <1>0, <2>1
  <2> QED
    BY <1>0, <2>1, <2>3, <2>4, <2>5 DEF TokenInv, InCommit, CommitLabels, Holding
<1>2. ASSUME NEW t \in Threads, SnapshotCall(t)
      PROVE  TokenInv'
  <2>1. /\ clock' = clock + 1 /\ lock' = lock /\ call' = call
        /\ pc' = [pc EXCEPT ![t] = "snapEnter"]
    BY <1>2 DEF SnapshotCall, Goto, redis
  <2>2. \A u \in Threads : /\ InCommit(u)' => InCommit(u)
                           /\ Holding(u)' => Holding(u)
    BY <1>0, <2>1 DEF InCommit, CommitLabels, Holding
  <2> QED
    BY <1>0, <2>1, <2>2 DEF TokenInv, InCommit, CommitLabels, Holding
<1>3. ASSUME NEW t \in Threads, Progress(t)
      PROVE  TokenInv'
  <2>1. CASE EnterCommit(t)
    BY <1>0, <2>1, SameTokens
    DEF EnterCommit, Enter, Goto, redis, InCommit, CommitLabels, Holding
  <2>2. CASE LookupFound(t)
    BY <1>0, <2>2, SameTokens, LeaveTokens DEF LookupFound, Return, redis
  <2>3. CASE LookupMissing(t)
    BY <1>0, <2>3, SameTokens
    DEF LookupMissing, Goto, redis, InCommit, CommitLabels, Holding
  <2>4. CASE Acquire(t)
    <3>1. /\ InCommit(t) /\ lock = NoToken /\ lock' = call[t].token
          /\ pc' = [pc EXCEPT ![t] = "recheck"] /\ UNCHANGED <<call, clock>>
      BY <2>4 DEF Acquire, Goto, InCommit, CommitLabels
    <3>2. \A u \in Threads : InCommit(u)' => InCommit(u)
      BY <1>0, <3>1 DEF InCommit, CommitLabels
    <3>3. \A u \in Threads : ~Holding(u)
      BY <1>0, <3>1 DEF TokenInv, Holding, InCommit, CommitLabels, NoToken
    <3>4. \A u \in Threads : Holding(u)' => u = t
      BY <1>0, <3>1, <3>3 DEF Holding
    <3> QED
      BY <1>0, <3>1, <3>2, <3>4 DEF TokenInv, InCommit
  <2>5. CASE AcquireRetry(t)
    <3>1. \A u \in Threads : call'[u].token = call[u].token
      BY <1>0, <2>5 DEF AcquireRetry, CallRecord
    <3> QED
      BY <1>0, <2>5, <3>1, SameTokens DEF AcquireRetry, redis, InCommit, Holding
  <2>6. CASE AcquireGiveUp(t)
    BY <1>0, <2>6, SameTokens, LeaveTokens DEF AcquireGiveUp, Throw, redis
  <2>7. CASE RecheckFound(t)
    <3>1. \A u \in Threads : call'[u].token = call[u].token
      BY <1>0, <2>7 DEF RecheckFound, CallRecord
    <3> QED
      BY <1>0, <2>7, <3>1, SameTokens
      DEF RecheckFound, Goto, redis, InCommit, CommitLabels, Holding
  <2>8. CASE RecheckMissing(t)
    BY <1>0, <2>8, SameTokens
    DEF RecheckMissing, Goto, redis, InCommit, CommitLabels, Holding
  <2>9. CASE GetContent(t)
    <3>1. \A u \in Threads : call'[u].token = call[u].token
      BY <1>0, <2>9 DEF GetContent, CallRecord
    <3> QED
      BY <1>0, <2>9, <3>1, SameTokens
      DEF GetContent, Goto, redis, InCommit, CommitLabels, Holding
  <2>10. CASE GetRevision(t)
    <3>1. \A u \in Threads : call'[u].token = call[u].token
      BY <1>0, <2>10 DEF GetRevision, CallRecord
    <3> QED
      BY <1>0, <2>10, <3>1, SameTokens
      DEF GetRevision, Goto, redis, InCommit, CommitLabels, Holding
  <2>11. CASE GetHistory(t)
    <3>1. \A u \in Threads : call'[u].token = call[u].token
      BY <1>0, <2>11 DEF GetHistory, CallRecord
    <3> QED
      BY <1>0, <2>11, <3>1, SameTokens
      DEF GetHistory, Goto, redis, InCommit, CommitLabels, Holding
  <2>12. CASE EvalCommit(t)
    <3>1. \A u \in Threads : call'[u].token = call[u].token
      BY <1>0, <2>12 DEF EvalCommit, CallRecord
    <3> QED
      BY <1>0, <2>12, <3>1, SameTokens
      DEF EvalCommit, Goto, InCommit, CommitLabels, Holding
  <2>13. CASE Release(t)
    <3>1. Leave(t) /\ clock' = clock /\ lock' \in {lock, NoToken} /\ Holding(t)
      BY <2>13 DEF Release, Return, Holding
    <3>2. \A u \in Threads : ~Holding(u)'
      BY <1>0, <3>1, LeaveTokens, OneHolder DEF MutualExclusion
    <3> QED
      BY <1>0, <3>1, <3>2, LeaveTokens DEF TokenInv, NoToken
  <2>14. CASE EnterSnapshot(t)
    BY <1>0, <2>14, SameTokens
    DEF EnterSnapshot, Enter, Goto, redis, InCommit, CommitLabels, Holding
  <2>15. CASE SnapshotContent(t)
    <3>1. \A u \in Threads : call'[u].token = call[u].token
      BY <1>0, <2>15 DEF SnapshotContent, CallRecord
    <3> QED
      BY <1>0, <2>15, <3>1, SameTokens
      DEF SnapshotContent, Goto, redis, InCommit, CommitLabels, Holding
  <2>16. CASE SnapshotRevision(t)
    BY <1>0, <2>16, SameTokens, LeaveTokens DEF SnapshotRevision, Throw, redis
  <2> QED
    BY <1>3, <2>1, <2>2, <2>3, <2>4, <2>5, <2>6, <2>7, <2>8, <2>9, <2>10, <2>11,
       <2>12, <2>13, <2>14, <2>15, <2>16
    DEF Progress
<1>4. ASSUME NEW t \in Threads, Faulty(t)
      PROVE  TokenInv'
  <2>1. CASE CommitRejected(t)
    BY <1>0, <2>1, SameTokens
    DEF CommitRejected, Goto, redis, InCommit, CommitLabels, Holding
  <2>2. CASE LoseConnection(t)
    <3>1. Leave(t) /\ UNCHANGED <<lock, clock>>
      BY <2>2 DEF LoseConnection, Return, Throw, redis
    <3> QED
      BY <1>0, <3>1, SameTokens, LeaveTokens
  <2>3. CASE LoseAcquireReply(t)
    <3>1. /\ Leave(t) /\ InCommit(t) /\ clock' = clock
          /\ lock = NoToken /\ lock' = call[t].token
      BY <2>3 DEF LoseAcquireReply, Throw, InCommit, CommitLabels
    <3>2. \A u \in Threads : ~Holding(u)
      BY <1>0, <3>1 DEF TokenInv, Holding, InCommit, CommitLabels, NoToken
    <3> QED
      BY <1>0, <3>1, <3>2, LeaveTokens DEF TokenInv
  <2>4. CASE LoseCommitReply(t)
    BY <1>0, <2>4, SameTokens, LeaveTokens DEF LoseCommitReply, Throw
  <2>5. CASE LoseSnapshotReply(t)
    BY <1>0, <2>5, SameTokens, LeaveTokens DEF LoseSnapshotReply, Throw, redis
  <2> QED
    BY <1>4, <2>1, <2>2, <2>3, <2>4, <2>5 DEF Faulty
<1>5. CASE LeaseExpires
  <2>1. /\ lock' = NoToken /\ UNCHANGED <<clock, call, pc>>
        /\ \A t \in Threads : Holding(t) => call[t].token # lock
    BY <1>5 DEF LeaseExpires
  <2>2. \A t \in Threads : ~Holding(t)
    BY <1>0, <2>1 DEF TokenInv
  <2> QED
    BY <1>0, <2>1, <2>2 DEF TokenInv, InCommit, Holding, NoToken
<1>6. CASE UNCHANGED vars
  BY <1>0, <1>6, SameTokens DEF vars, redis, InCommit, Holding
<1> QED
  BY <1>1, <1>2, <1>3, <1>4, <1>5, <1>6 DEF Next

LEMMA LockInvariant ==
  ASSUME ~LeaseMayLapse
  PROVE  Spec => []LockInv
BY InitLock, NextLock, PTL DEF Spec

(* While leases last, one thread of all the servers holds the lock. *)
THEOREM LockExcludes ==
  ASSUME ~LeaseMayLapse
  PROVE  Spec => []MutualExclusion
<1>1. LockInv => MutualExclusion
  BY OneHolder DEF LockInv
<1> QED
  BY <1>1, LockInvariant, PTL

-----------------------------------------------------------------------------
(* The log.  Between the GETs and kLuaCommitOp only the holder of the lock *)
(* can write the keys, so what it has read still stands when the script    *)
(* writes back what was computed from it.                                  *)

LocalsCurrent(t) ==
  /\ InCommit(t) => call[t].base <= revision
  /\ pc[t] \in {"content", "revision", "history", "commit"} =>
       Existing(call[t].opId) = {}
  /\ pc[t] \in {"revision", "history", "commit"} => call[t].doc = content
  /\ pc[t] \in {"history", "commit"} => call[t].cur = revision
  /\ pc[t] = "commit" => call[t].over = Missed(history, call[t].base, revision)
  /\ call[t].result \subseteq Existing(call[t].opId)

LogInv ==
  /\ LockInv
  /\ LogIntegrity
  /\ \A t \in Threads : LocalsCurrent(t)

LEMMA InitLog == Init => LogInv
<1> SUFFICES ASSUME Init PROVE LogInv
  OBVIOUS
<1>1. DOMAIN history = {} /\ Len(history) = 0
  BY DEF Init
<1>2. Ids(history) = <<>>
  <2>1. history \in Seq(CommittedOp)
    BY EmptySeq DEF Init
  <2>2. Len(Ids(history)) = 0 /\ Ids(history) \in Seq(OpIds)
    BY <1>1, <2>1, IdsType
  <2> QED
    BY <2>2, EmptySeq
<1>3. LogIntegrity
  BY <1>1, <1>2 DEF Init, LogIntegrity, WellFormed
<1>4. \A t \in Threads : LocalsCurrent(t)
  BY DEF Init, LocalsCurrent, InCommit, CommitLabels, NoCall, Call
<1> QED
  BY <1>3, <1>4, InitLock DEF LogInv

(* What the script does when it finds no operation under the opId: the     *)
(* step of the abstract store.                                             *)
LEMMA ScriptAppends ==
  ASSUME LogInv, NEW t \in Threads, pc[t] = "commit", CommitScript(t)
  PROVE  LET id == call[t].opId  base == call[t].base
         IN  /\ id \in OpIds /\ base \in 0 .. Len(history)
             /\ \A i \in DOMAIN history : history[i].opId # id
             /\ history' = Append(history, Entry(id, base, Len(history) + 1,
                                                 Missed(history, base, Len(history))))
             /\ content' = Append(content, id)
             /\ revision' = Len(history) + 1
<1>1. /\ call[t].opId \in OpIds /\ call[t].base \in Nat
      /\ history \in Seq(CommittedOp)
  BY DEF LogInv, LockInv, KeysInv, TypeInv, TypeOK, InCommit, CommitLabels, CallRecord
<1>2. /\ Existing(call[t].opId) = {}
      /\ call[t].doc = content
      /\ call[t].cur = revision
      /\ call[t].over = Missed(history, call[t].base, revision)
      /\ call[t].base <= revision
      /\ revision = Len(history)
  BY DEF LogInv, LocalsCurrent, LogIntegrity, InCommit, CommitLabels
<1>3. \A i \in DOMAIN history : history[i].opId # call[t].opId
  BY <1>2 DEF Existing, LogInv, LogIntegrity
<1>4. Len(history) \in Nat
  BY <1>1, LenProperties
<1> QED
  BY <1>1, <1>2, <1>3, <1>4 DEF CommitScript

LEMMA ScriptLog ==
  ASSUME LogInv, KeysAgree', NEW t \in Threads, pc[t] = "commit", CommitScript(t)
  PROVE  LogIntegrity'
<1> DEFINE id   == call[t].opId
           base == call[t].base
           op   == Entry(id, base, Len(history) + 1, Missed(history, base, Len(history)))
<1>1. /\ id \in OpIds /\ base \in 0 .. Len(history)
      /\ \A i \in DOMAIN history : history[i].opId # id
      /\ history' = Append(history, op)
      /\ content' = Append(content, id)
      /\ revision' = Len(history) + 1
  BY ScriptAppends
<1>2. /\ history \in Seq(CommittedOp) /\ Len(history) \in Nat
      /\ WellFormed(history) /\ content = Ids(history)
  BY LenProperties
  DEF LogInv, LockInv, KeysInv, TypeInv, TypeOK, LogIntegrity
<1>3. op.opId = id
  BY DEF Entry
<1>4. op \in CommittedOp
  <2>1. Missed(history, base, Len(history)) \in Seq(OpIds)
    BY <1>1, <1>2, MissedType
  <2> QED
    BY <1>1, <1>2, <2>1 DEF Entry, CommittedOp
<1>5. WellFormed(history')
  BY <1>1, <1>2, WellFormedAppend
<1> HIDE DEF id, base, op
<1>6. revision' = Len(history')
  BY <1>1, <1>2, <1>4
<1>7. content' = Ids(history')
  BY <1>1, <1>2, <1>3, <1>4, IdsAppend
<1>8. opids' = { history'[i] : i \in DOMAIN history' }
  BY DEF KeysAgree
<1> QED
  BY <1>5, <1>6, <1>7, <1>8 DEF LogIntegrity

(* A step of t that leaves the keys alone matters to t's locals only.      *)
LEMMA OtherLocals ==
  ASSUME LogInv, UNCHANGED redisData, NEW t \in Threads,
         \A u \in Threads : u # t => pc'[u] = pc[u] /\ call'[u] = call[u],
         LocalsCurrent(t)'
  PROVE  LogIntegrity' /\ \A u \in Threads : LocalsCurrent(u)'
<1>1. LogIntegrity'
  BY DEF LogInv, LogIntegrity, redisData
<1>2. ASSUME NEW u \in Threads, u # t
      PROVE  LocalsCurrent(u)'
  BY <1>2 DEF LogInv, LocalsCurrent, InCommit, Existing, redisData
<1> QED
  BY <1>1, <1>2

(* A thread that has left is idle with no locals.                          *)
LEMMA LeaveLocals ==
  ASSUME LogInv, NEW t \in Threads, Leave(t)
  PROVE  /\ \A u \in Threads : u # t => pc'[u] = pc[u] /\ call'[u] = call[u]
         /\ LocalsCurrent(t)'
<1>1. pc \in [Threads -> Labels] /\ call \in [Threads -> CallRecord]
  BY DEF LogInv, LockInv, KeysInv, TypeInv, TypeOK
<1>2. pc'[t] = "idle" /\ call'[t].result = {}
  BY <1>1 DEF Leave, Goto, NoCall, Call
<1> QED
  BY <1>1, <1>2 DEF Leave, Goto, LocalsCurrent, InCommit, CommitLabels

(* The script is the only step that writes the keys; the others are not    *)
(* between the GETs and the script while t is.                             *)
LEMMA ScriptLocals ==
  ASSUME LogInv, LogIntegrity', NEW t \in Threads, pc[t] = "commit", CommitScript(t),
         opids \subseteq opids',
         \A u \in Threads : u # t => pc'[u] = pc[u] /\ call'[u] = call[u]
  PROVE  \A u \in Threads : u # t => LocalsCurrent(u)'
<1> SUFFICES ASSUME NEW u \in Threads, u # t
             PROVE  LocalsCurrent(u)'
  OBVIOUS
<1>1. ~Holding(u)
  BY OneHolder DEF LogInv, LockInv, MutualExclusion, Holding
<1>2. revision <= revision'
  <2>1. revision' = revision + 1
    BY ScriptAppends DEF LogInv, LogIntegrity
  <2> QED
    BY <2>1 DEF LogInv, LockInv, KeysInv, TypeInv, TypeOK
<1>3. InCommit(u)' => call'[u].base <= revision'
  <2>1. call[u].base \in Nat /\ revision \in Nat /\ revision' \in Nat
    BY ScriptType DEF LogInv, LockInv, KeysInv, TypeInv, TypeOK, CallRecord
  <2> QED
    BY <1>2, <2>1 DEF LogInv, LocalsCurrent, InCommit
<1>4. (call[u].result \subseteq Existing(call[u].opId))'
  BY DEF LogInv, LocalsCurrent, Existing
<1> QED
  BY <1>1, <1>3, <1>4 DEF LocalsCurrent, Holding

LEMMA NextLog ==
  ASSUME ~LeaseMayLapse
  PROVE  LogInv /\ [Next]_vars => LogInv'
<1> SUFFICES ASSUME LogInv, [Next]_vars
             PROVE  LogIntegrity' /\ \A t \in Threads : LocalsCurrent(t)'
  BY NextLock DEF LogInv
<1>0. /\ LockInv' /\ pc \in [Threads -> Labels] /\ call \in [Threads -> CallRecord]
      /\ revision = Len(history) /\ revision \in Nat
      /\ \A t \in Threads : LocalsCurrent(t)
  BY NextLock DEF LogInv, LockInv, KeysInv, TypeInv, TypeOK, LogIntegrity
<1> DEFINE Others(t) == \A u \in Threads : u # t => pc'[u] = pc[u] /\ call'[u] = call[u]
           Goal      == LogIntegrity' /\ \A u \in Threads : LocalsCurrent(u)'
<1>1. ASSUME NEW t \in Threads, NEW id \in OpIds, NEW base \in 0 .. revision,
             CommitCall(t, id, base)
      PROVE  Goal
  <2>1. /\ pc'[t] = "enter" /\ call'[t].base = base /\ call'[t].result = {}
        /\ UNCHANGED redisData /\ Others(t)
    BY <1>0, <1>1 DEF CommitCall, Goto, Call, redis
  <2>2. LocalsCurrent(t)'
    BY <2>1 DEF LocalsCurrent, redisData
  <2> QED
    BY <2>1, <2>2, OtherLocals
<1>2. ASSUME NEW t \in Threads, SnapshotCall(t)
      PROVE  Goal
  <2>1. pc'[t] = "snapEnter" /\ call' = call /\ UNCHANGED redisData /\ Others(t)
    BY <1>0, <1>2 DEF SnapshotCall, Goto, redis
  <2>2. LocalsCurrent(t)'
    BY <1>0, <2>1 DEF LocalsCurrent, InCommit, CommitLabels, Existing, redisData
  <2> QED
    BY <2>1, <2>2, OtherLocals
<1>3. ASSUME NEW t \in Threads, Progress(t)
      PROVE  Goal
  <2>1. CASE EnterCommit(t)
    <3>1. /\ pc[t] = "enter" /\ pc'[t] = "lookup" /\ call' = call
          /\ UNCHANGED redisData /\ Others(t)
      BY <1>0, <2>1 DEF EnterCommit, Enter, Goto, redis
    <3>2. LocalsCurrent(t)'
      BY <1>0, <3>1 DEF LocalsCurrent, InCommit, CommitLabels, Existing, redisData
    <3> QED
      BY <3>1, <3>2, OtherLocals
  <2>2. CASE LookupFound(t)
    BY <2>2, LeaveLocals, OtherLocals DEF LookupFound, Return, redis
  <2>3. CASE LookupMissing(t)
    <3>1. /\ pc[t] = "lookup" /\ pc'[t] = "acquire" /\ call' = call
          /\ UNCHANGED redisData /\ Others(t)
      BY <1>0, <2>3 DEF LookupMissing, Goto, redis
    <3>2. LocalsCurrent(t)'
      BY <1>0, <3>1 DEF LocalsCurrent, InCommit, CommitLabels, Existing, redisData
    <3> QED
      BY <3>1, <3>2, OtherLocals
  <2>4. CASE Acquire(t)
    <3>1. /\ pc[t] = "acquire" /\ pc'[t] = "recheck" /\ call' = call
          /\ UNCHANGED redisData /\ Others(t)
      BY <1>0, <2>4 DEF Acquire, Goto
    <3>2. LocalsCurrent(t)'
      BY <1>0, <3>1 DEF LocalsCurrent, InCommit, CommitLabels, Existing, redisData
    <3> QED
      BY <3>1, <3>2, OtherLocals
  <2>5. CASE AcquireRetry(t)
    <3>1. /\ pc[t] = "acquire" /\ pc' = pc
          /\ UNCHANGED redisData /\ Others(t)
          /\ call'[t].base = call[t].base /\ call'[t].opId = call[t].opId
          /\ call'[t].result = call[t].result
      BY <1>0, <2>5 DEF AcquireRetry, redis, CallRecord
    <3>2. LocalsCurrent(t)'
      BY <1>0, <3>1 DEF LocalsCurrent, InCommit, CommitLabels, Existing, redisData
    <3> QED
      BY <3>1, <3>2, OtherLocals
  <2>6. CASE AcquireGiveUp(t)
    BY <2>6, LeaveLocals, OtherLocals DEF AcquireGiveUp, Throw, redis
  <2>7. CASE RecheckFound(t)
    <3>1. /\ pc[t] = "recheck" /\ pc'[t] = "release"
          /\ UNCHANGED redisData /\ Others(t)
          /\ call'[t].base = call[t].base /\ call'[t].opId = call[t].opId
          /\ call'[t].result = Existing(call[t].opId)
      BY <1>0, <2>7 DEF RecheckFound, Goto, redis, CallRecord
    <3>2. LocalsCurrent(t)'
      BY <1>0, <3>1 DEF LocalsCurrent, InCommit, CommitLabels, Existing, redisData
    <3> QED
      BY <3>1, <3>2, OtherLocals
  <2>8. CASE RecheckMissing(t)
    <3>1. /\ pc[t] = "recheck" /\ pc'[t] = "content" /\ call' = call
          /\ Existing(call[t].opId) = {}
          /\ UNCHANGED redisData /\ Others(t)
      BY <1>0, <2>8 DEF RecheckMissing, Goto, redis
    <3>2. LocalsCurrent(t)'
      BY <1>0, <3>1 DEF LocalsCurrent, InCommit, CommitLabels, Existing, redisData
    <3> QED
      BY <3>1, <3>2, OtherLocals
  <2>9. CASE GetContent(t)
    <3>1. /\ pc[t] = "content" /\ pc'[t] = "revision"
          /\ UNCHANGED redisData /\ Others(t)
          /\ call'[t].base = call[t].base /\ call'[t].opId = call[t].opId
          /\ call'[t].result = call[t].result /\ call'[t].doc = content
      BY <1>0, <2>9 DEF GetContent, Goto, redis, CallRecord
    <3>2. LocalsCurrent(t)'
      BY <1>0, <3>1 DEF LocalsCurrent, InCommit, CommitLabels, Existing, redisData
    <3> QED
      BY <3>1, <3>2, OtherLocals
  <2>10. CASE GetRevision(t)
    <3>1. /\ pc[t] = "revision" /\ pc'[t] = "history"
          /\ UNCHANGED redisData /\ Others(t)
          /\ call'[t].base = call[t].base /\ call'[t].opId = call[t].opId
          /\ call'[t].result = call[t].result /\ call'[t].doc = call[t].doc
          /\ call'[t].cur = revision
      BY <1>0, <2>10 DEF GetRevision, Goto, redis, CallRecord
    <3>2. LocalsCurrent(t)'
      BY <1>0, <3>1 DEF LocalsCurrent, InCommit, CommitLabels, Existing, redisData
    <3> QED
      BY <3>1, <3>2, OtherLocals
  <2>11. CASE GetHistory(t)
    <3> DEFINE over == IF call[t].base < call[t].cur
                       THEN Ids(SubSeq(history, call[t].base + 1,
                                       StartOf(call[t].cur, Len(history))))
                       ELSE <<>>
    <3>1. /\ pc[t] = "history" /\ pc'[t] = "commit"
          /\ UNCHANGED redisData /\ Others(t)
          /\ call' = [call EXCEPT ![t].over = over]
      BY <1>0, <2>11 DEF GetHistory, Goto, redis
    <3>2. over = Missed(history, call[t].base, revision)
      <4>1. /\ call[t].cur = revision /\ call[t].base <= revision
            /\ call[t].base \in Nat
        BY <1>0, <3>1 DEF LocalsCurrent, InCommit, CommitLabels, CallRecord
      <4>2. StartOf(call[t].cur, Len(history)) = revision
        BY <1>0, <4>1 DEF StartOf
      <4>3. StartOf(call[t].base, revision) = call[t].base
        BY <1>0, <4>1 DEF StartOf
      <4>4. CASE call[t].base < revision
        BY <4>1, <4>2, <4>3, <4>4 DEF Missed
      <4>5. CASE call[t].base = revision
        <5>1. SubSeq(history, revision + 1, revision) = <<>>
          BY <1>0, SubSeqEmpty
        <5>2. Ids(<<>>) = <<>>
          <6>1. Len(Ids(<<>>)) = 0 /\ Ids(<<>>) \in Seq(OpIds)
            BY EmptySeq, IdsType
          <6> QED
            BY <6>1, EmptySeq
        <5> QED
          BY <1>0, <4>1, <4>3, <4>5, <5>1, <5>2 DEF Missed
      <4> QED
        BY <1>0, <4>1, <4>4, <4>5
    <3> HIDE DEF over
    <3>3. /\ call'[t].base = call[t].base /\ call'[t].opId = call[t].opId
          /\ call'[t].result = call[t].result /\ call'[t].doc = call[t].doc
          /\ call'[t].cur = call[t].cur /\ call'[t].over = over
      BY <1>0, <3>1 DEF CallRecord
    <3>4. LocalsCurrent(t)'
      BY <1>0, <3>1, <3>2, <3>3
      DEF LocalsCurrent, InCommit, CommitLabels, Existing, redisData
    <3> QED
      BY <3>1, <3>4, OtherLocals
  <2>12. CASE EvalCommit(t)
    <3>1. /\ pc[t] = "commit" /\ pc'[t] = "release" /\ CommitScript(t)
          /\ call'[t].base = call[t].base /\ call'[t].opId = call[t].opId
          /\ call'[t].result = { e \in opids' : e.opId = call[t].opId }
          /\ Others(t)
      BY <1>0, <2>12 DEF EvalCommit, Goto, CallRecord
    <3>2. KeysAgree' /\ opids \subseteq opids'
      BY <3>1, ScriptKeys DEF LogInv, LockInv, KeysInv
    <3>3. LogIntegrity'
      BY <3>1, <3>2, ScriptLog
    <3>4. LocalsCurrent(t)'
      <4>1. call'[t].base <= revision'
        BY <1>0, <3>1, ScriptAppends, SMTT(30) DEF LogInv, LockInv, KeysInv, TypeInv, TypeOK
      <4> QED
        BY <3>1, <4>1 DEF LocalsCurrent, Existing
    <3> QED
      BY <3>1, <3>2, <3>3, <3>4, ScriptLocals
  <2>13. CASE Release(t)
    BY <2>13, LeaveLocals, OtherLocals DEF Release, Return
  <2>14. CASE EnterSnapshot(t)
    <3>1. /\ pc'[t] = "snapContent" /\ call' = call
          /\ UNCHANGED redisData /\ Others(t)
      BY <1>0, <2>14 DEF EnterSnapshot, Enter, Goto, redis
    <3>2. LocalsCurrent(t)'
      BY <1>0, <3>1 DEF LocalsCurrent, InCommit, CommitLabels, Existing, redisData
    <3> QED
      BY <3>1, <3>2, OtherLocals
  <2>15. CASE SnapshotContent(t)
    <3>1. /\ pc'[t] = "snapRevision"
          /\ UNCHANGED redisData /\ Others(t)
          /\ call'[t].opId = call[t].opId /\ call'[t].result = call[t].result
      BY <1>0, <2>15 DEF SnapshotContent, Goto, redis, CallRecord
    <3>2. LocalsCurrent(t)'
      BY <1>0, <3>1 DEF LocalsCurrent, InCommit, CommitLabels, Existing, redisData
    <3> QED
      BY <3>1, <3>2, OtherLocals
  <2>16. CASE SnapshotRevision(t)
    BY <2>16, LeaveLocals, OtherLocals DEF SnapshotRevision, Throw, redis
  <2> QED
    BY <1>3, <2>1, <2>2, <2>3, <2>4, <2>5, <2>6, <2>7, <2>8, <2>9, <2>10, <2>11,
       <2>12, <2>13, <2>14, <2>15, <2>16
    DEF Progress
<1>4. ASSUME NEW t \in Threads, Faulty(t)
      PROVE  Goal
  <2>1. CASE CommitRejected(t)
    <3>1. /\ pc[t] = "commit" /\ pc'[t] = "release" /\ call' = call
          /\ UNCHANGED redisData /\ Others(t)
      BY <1>0, <2>1 DEF CommitRejected, Goto, redis
    <3>2. LocalsCurrent(t)'
      BY <1>0, <3>1 DEF LocalsCurrent, InCommit, CommitLabels, Existing, redisData
    <3> QED
      BY <3>1, <3>2, OtherLocals
  <2>2. CASE LoseConnection(t)
    <3>1. Leave(t) /\ UNCHANGED redisData
      BY <2>2 DEF LoseConnection, Return, Throw, redis
    <3> QED
      BY <3>1, LeaveLocals, OtherLocals
  <2>3. CASE LoseAcquireReply(t)
    BY <2>3, LeaveLocals, OtherLocals DEF LoseAcquireReply, Throw
  <2>4. CASE LoseCommitReply(t)
    <3>1. pc[t] = "commit" /\ CommitScript(t) /\ Leave(t)
      BY <2>4 DEF LoseCommitReply, Throw
    <3>2. KeysAgree' /\ opids \subseteq opids'
      BY <3>1, ScriptKeys DEF LogInv, LockInv, KeysInv
    <3>3. LogIntegrity'
      BY <3>1, <3>2, ScriptLog
    <3> QED
      BY <3>1, <3>2, <3>3, LeaveLocals, ScriptLocals
  <2>5. CASE LoseSnapshotReply(t)
    BY <2>5, LeaveLocals, OtherLocals DEF LoseSnapshotReply, Throw, redis
  <2> QED
    BY <1>4, <2>1, <2>2, <2>3, <2>4, <2>5 DEF Faulty
<1>5. ASSUME UNCHANGED <<redisData, pc, call>>
      PROVE  Goal
  <2>1. LogIntegrity'
    BY <1>5 DEF LogInv, LogIntegrity, redisData
  <2>2. \A t \in Threads : LocalsCurrent(t)'
    BY <1>0, <1>5 DEF LocalsCurrent, InCommit, Existing, redisData
  <2> QED
    BY <2>1, <2>2
<1>6. CASE LeaseExpires
  BY <1>5, <1>6 DEF LeaseExpires
<1>7. CASE UNCHANGED vars
  BY <1>5, <1>7 DEF vars, redis
<1> QED
  BY <1>1, <1>2, <1>3, <1>4, <1>6, <1>7 DEF Next

LEMMA LogInvariant ==
  ASSUME ~LeaseMayLapse
  PROVE  Spec => []LogInv
BY InitLog, NextLog, PTL DEF Spec

(* The four keys describe one log, every operation at its revision and     *)
(* transformed over exactly what was committed after its base.             *)
THEOREM LogIsIntact ==
  ASSUME ~LeaseMayLapse
  PROVE  Spec => []LogIntegrity
<1>1. LogInv => LogIntegrity
  BY DEF LogInv
<1> QED
  BY <1>1, LogInvariant, PTL

(* An acknowledged operation stays in the document at its revision.        *)
THEOREM AcknowledgedStays ==
  ASSUME ~LeaseMayLapse
  PROVE  Spec => []AckedIsCommitted
<1>1. ASSUME LogInv PROVE AckedIsCommitted
  <2> SUFFICES ASSUME NEW a \in acked
               PROVE  /\ a.revision \in DOMAIN history
                      /\ history[a.revision] = a
                      /\ content[a.revision] = a.opId
    BY DEF AckedIsCommitted
  <2>1. PICK i \in DOMAIN history : history[i] = a
    BY <1>1 DEF LogInv, LockInv, KeysInv, KeysAgree
  <2>2. a.revision = i
    BY <1>1, <2>1 DEF LogInv, LogIntegrity, WellFormed
  <2>3. content[i] = history[i].opId
    BY <1>1, <2>1 DEF LogInv, LogIntegrity, Ids
  <2> QED
    BY <2>1, <2>2, <2>3
<1> QED
  BY <1>1, LogInvariant, PTL

-----------------------------------------------------------------------------
(* The abstract store.  The script is its Commit, a return its             *)
(* Acknowledge; every other step changes none of its variables.            *)

LEMMA ExistingIsOne ==
  ASSUME KeysInv, NEW id, NEW e \in Existing(id)
  PROVE  \E i \in DOMAIN history : history[i] = e /\ Existing(id) = {history[i]}
<1>1. PICK i \in DOMAIN history : history[i] = e
  BY DEF Existing, KeysInv, KeysAgree
<1>2. ASSUME NEW f \in Existing(id)
      PROVE  f = e
  <2>1. PICK j \in DOMAIN history : history[j] = f
    BY DEF Existing, KeysInv, KeysAgree
  <2> QED
    BY <1>1, <2>1 DEF Existing, KeysInv, KeysAgree, OncePerId
<1> QED
  BY <1>1, <1>2

(* Adding to acked what one look-up found is an Acknowledge or nothing.    *)
LEMMA ReturnAcknowledges ==
  ASSUME KeysInv, UNCHANGED <<content, history>>, NEW id, NEW result,
         result \subseteq Existing(id), acked' = acked \cup result
  PROVE  [Store!Next]_(Store!storeVars)
<1>1. CASE result = {}
  BY <1>1 DEF Store!storeVars
<1>2. CASE result # {}
  <2>1. PICK e \in result : TRUE
    BY <1>2
  <2>2. PICK i \in DOMAIN history : Existing(id) = {history[i]}
    BY <2>1, ExistingIsOne
  <2>3. result = {history[i]}
    BY <1>2, <2>2
  <2>4. Store!Acknowledge(i)
    BY <2>3 DEF Store!Acknowledge
  <2> QED
    BY <2>4 DEF Store!Next
<1> QED
  BY <1>1, <1>2

LEMMA ScriptCommits ==
  ASSUME LogInv, NEW t \in Threads, pc[t] = "commit", CommitScript(t),
         acked' = acked
  PROVE  [Store!Next]_(Store!storeVars)
<1> DEFINE id == call[t].opId  base == call[t].base
<1>1. /\ id \in OpIds /\ base \in 0 .. Len(history)
      /\ \A i \in DOMAIN history : history[i].opId # id
      /\ history' = Append(history, Entry(id, base, Len(history) + 1,
                                          Missed(history, base, Len(history))))
      /\ content' = Append(content, id)
  BY ScriptAppends
<1> HIDE DEF id, base
<1>2. Store!Commit(id, base)
  BY <1>1
  DEF Store!Commit, Store!Entry, Store!Missed, Store!Ids, Store!StartOf,
      Entry, Missed, Ids, StartOf
<1> QED
  BY <1>1, <1>2 DEF Store!Next

LEMMA StepRefines ==
  LogInv /\ [Next]_vars => [Store!Next]_(Store!storeVars)
<1> SUFFICES ASSUME LogInv, [Next]_vars
             PROVE  [Store!Next]_(Store!storeVars)
  OBVIOUS
<1>0. KeysInv /\ \A t \in Threads : call[t].result \subseteq Existing(call[t].opId)
  BY DEF LogInv, LockInv, LocalsCurrent
<1>1. ASSUME UNCHANGED <<content, history, acked>>
      PROVE  UNCHANGED Store!storeVars
  BY <1>1 DEF Store!storeVars
<1>2. ASSUME NEW t \in Threads, NEW id \in OpIds, NEW base \in 0 .. revision,
             CommitCall(t, id, base)
      PROVE  UNCHANGED Store!storeVars
  BY <1>1, <1>2 DEF CommitCall, redis, redisData
<1>3. ASSUME NEW t \in Threads, SnapshotCall(t)
      PROVE  UNCHANGED Store!storeVars
  BY <1>1, <1>3 DEF SnapshotCall, redis, redisData
<1>4. ASSUME NEW t \in Threads, Progress(t)
      PROVE  [Store!Next]_(Store!storeVars)
  <2>1. CASE LookupFound(t)
    BY <1>0, <2>1, ReturnAcknowledges DEF LookupFound, Return, redis, redisData
  <2>2. CASE Release(t)
    BY <1>0, <2>2, ReturnAcknowledges DEF Release, Return, redisData
  <2>3. CASE EvalCommit(t)
    BY <2>3, ScriptCommits DEF EvalCommit
  <2>4. CASE EnterCommit(t) \/ EnterSnapshot(t)
    BY <1>1, <2>4 DEF EnterCommit, EnterSnapshot, Enter, redis, redisData
  <2>5. CASE LookupMissing(t) \/ Acquire(t) \/ AcquireRetry(t) \/ AcquireGiveUp(t)
    BY <1>1, <2>5
    DEF LookupMissing, Acquire, AcquireRetry, AcquireGiveUp, Throw, redis, redisData
  <2>6. CASE \/ RecheckFound(t) \/ RecheckMissing(t)
             \/ GetContent(t) \/ GetRevision(t) \/ GetHistory(t)
    BY <1>1, <2>6
    DEF RecheckFound, RecheckMissing, GetContent, GetRevision, GetHistory, redis, redisData
  <2>7. CASE SnapshotContent(t) \/ SnapshotRevision(t)
    BY <1>1, <2>7 DEF SnapshotContent, SnapshotRevision, Throw, redis, redisData
  <2> QED
    BY <1>4, <2>1, <2>2, <2>3, <2>4, <2>5, <2>6, <2>7 DEF Progress
<1>5. ASSUME NEW t \in Threads, Faulty(t)
      PROVE  [Store!Next]_(Store!storeVars)
  <2>1. CASE LoseConnection(t)
    <3>1. acked' = acked \/ acked' = acked \cup call[t].result
      BY <2>1 DEF LoseConnection, Return, Throw
    <3> QED
      BY <1>0, <1>1, <2>1, <3>1, ReturnAcknowledges DEF LoseConnection, redis, redisData
  <2>2. CASE LoseCommitReply(t)
    BY <2>2, ScriptCommits DEF LoseCommitReply, Throw
  <2>3. CASE CommitRejected(t) \/ LoseAcquireReply(t) \/ LoseSnapshotReply(t)
    BY <1>1, <2>3
    DEF CommitRejected, LoseAcquireReply, LoseSnapshotReply, Throw, redis, redisData
  <2> QED
    BY <1>5, <2>1, <2>2, <2>3 DEF Faulty
<1>6. CASE LeaseExpires
  BY <1>1, <1>6 DEF LeaseExpires, redisData
<1>7. CASE UNCHANGED vars
  BY <1>1, <1>7 DEF vars, redis, redisData
<1> QED
  BY <1>2, <1>3, <1>4, <1>5, <1>6, <1>7 DEF Next

(* Redis, the lock and the scripts implement one log shared by all the     *)
(* servers.                                                                *)
THEOREM RefinesDocumentStore ==
  ASSUME ~LeaseMayLapse
  PROVE  Spec => ImplementsStore
<1>1. Init => Store!Init
  BY DEF Init, Store!Init
<1> QED
  BY <1>1, LogInvariant, StepRefines, PTL DEF Spec, ImplementsStore, Store!Spec

-----------------------------------------------------------------------------
(* The lock.  Until the first fault a token in the lock key is that of a   *)
(* thread between acquire_lock and release_lock.                           *)

LockIsHeld ==
  faults = 0 /\ lock # NoToken =>
    \E t \in Threads : Holding(t) /\ call[t].token = lock

HeldInv == TypeInv /\ LockIsHeld

(* A step of t that leaves the lock alone and keeps t holding if it held.  *)
LEMMA StillHeld ==
  ASSUME HeldInv, NEW t \in Threads, UNCHANGED <<lock, faults>>,
         Holding(t) => Holding(t)' /\ call'[t].token = call[t].token,
         \A u \in Threads \ {t} : pc'[u] = pc[u] /\ call'[u] = call[u]
  PROVE  LockIsHeld'
BY DEF HeldInv, LockIsHeld, Holding

(* A thread that leaves without the lock. *)
LEMMA LeaveHeld ==
  ASSUME HeldInv, NEW t \in Threads, Leave(t), ~Holding(t), UNCHANGED <<lock, faults>>
  PROVE  LockIsHeld'
<1>1. \A u \in Threads \ {t} : pc'[u] = pc[u] /\ call'[u] = call[u]
  BY DEF Leave, Goto, HeldInv, TypeInv, TypeOK
<1> QED
  BY <1>1, StillHeld

LEMMA InitHeld == Init => HeldInv
BY InitType DEF Init, HeldInv, LockIsHeld

LEMMA NextHeld == HeldInv /\ [Next]_vars => HeldInv'
<1> SUFFICES ASSUME HeldInv, [Next]_vars
             PROVE  LockIsHeld'
  BY NextType DEF HeldInv
<1>0. /\ TypeInv /\ call \in [Threads -> CallRecord]
      /\ pc \in [Threads -> Labels] /\ faults \in Nat
  BY DEF HeldInv, TypeInv, TypeOK
<1>1. ASSUME NEW t \in Threads, NEW id \in OpIds, NEW base \in 0 .. revision,
             CommitCall(t, id, base)
      PROVE  LockIsHeld'
  <2>1. \A u \in Threads \ {t} : pc'[u] = pc[u] /\ call'[u] = call[u]
    BY <1>0, <1>1 DEF CommitCall, Goto
  <2> QED
    BY <1>1, <2>1, StillHeld DEF CommitCall, redis, Holding
<1>2. ASSUME NEW t \in Threads, SnapshotCall(t)
      PROVE  LockIsHeld'
  <2>1. \A u \in Threads \ {t} : pc'[u] = pc[u] /\ call'[u] = call[u]
    BY <1>0, <1>2 DEF SnapshotCall, Goto
  <2> QED
    BY <1>2, <2>1, StillHeld DEF SnapshotCall, redis, Holding
<1>3. ASSUME NEW t \in Threads, Progress(t)
      PROVE  LockIsHeld'
  <2>1. CASE Acquire(t)
    <3>1. Holding(t)' /\ call'[t].token = lock'
      BY <1>0, <2>1 DEF Acquire, Goto, Holding
    <3> QED
      BY <3>1 DEF LockIsHeld
  <2>2. CASE Release(t)
    <3>1. /\ faults' = faults /\ Leave(t)
          /\ lock' = IF lock = call[t].token THEN NoToken ELSE lock
      BY <2>2 DEF Release, Return
    <3>2. \A u \in Threads \ {t} : pc'[u] = pc[u] /\ call'[u] = call[u]
      BY <1>0, <3>1 DEF Leave, Goto
    <3>3. CASE lock = call[t].token
      BY <3>1, <3>3 DEF LockIsHeld
    <3>4. CASE lock # call[t].token
      <4> SUFFICES ASSUME faults = 0, lock # NoToken
                   PROVE  \E u \in Threads : Holding(u)' /\ call'[u].token = lock
        BY <3>1, <3>4 DEF LockIsHeld
      <4>1. PICK u \in Threads : Holding(u) /\ call[u].token = lock
        BY DEF HeldInv, LockIsHeld
      <4> QED
        BY <3>2, <3>4, <4>1 DEF Holding
    <3> QED
      BY <3>3, <3>4
  <2>3. CASE \/ LookupFound(t) \/ AcquireGiveUp(t) \/ SnapshotRevision(t)
    BY <2>3, LeaveHeld
    DEF LookupFound, AcquireGiveUp, SnapshotRevision, Return, Throw, redis, Holding
  <2>4. CASE EnterCommit(t) \/ LookupMissing(t) \/ RecheckMissing(t) \/ EnterSnapshot(t)
    <3>1. \A u \in Threads \ {t} : pc'[u] = pc[u] /\ call'[u] = call[u]
      BY <1>0, <2>4
      DEF EnterCommit, EnterSnapshot, Enter, LookupMissing, RecheckMissing, Goto
    <3>2. /\ UNCHANGED <<lock, faults>>
          /\ Holding(t) => Holding(t)' /\ call'[t].token = call[t].token
      BY <1>0, <2>4
      DEF EnterCommit, EnterSnapshot, Enter, LookupMissing, RecheckMissing, Goto,
          redis, Holding
    <3> QED
      BY <3>1, <3>2, StillHeld
  <2>5. CASE \/ AcquireRetry(t) \/ RecheckFound(t) \/ GetContent(t)
             \/ GetRevision(t) \/ SnapshotContent(t)
    <3>1. \A u \in Threads \ {t} : pc'[u] = pc[u] /\ call'[u] = call[u]
      BY <1>0, <2>5
      DEF AcquireRetry, RecheckFound, GetContent, GetRevision, SnapshotContent, Goto
    <3>2. /\ UNCHANGED <<lock, faults>>
          /\ call'[t].token = call[t].token
          /\ Holding(t) => Holding(t)'
      BY <1>0, <2>5
      DEF AcquireRetry, RecheckFound, GetContent, GetRevision, SnapshotContent,
          Goto, redis, Holding, CallRecord
    <3> QED
      BY <3>1, <3>2, StillHeld
  <2>6. CASE GetHistory(t) \/ EvalCommit(t)
    <3>1. \A u \in Threads \ {t} : pc'[u] = pc[u] /\ call'[u] = call[u]
      BY <1>0, <2>6 DEF GetHistory, EvalCommit, Goto
    <3>2. /\ UNCHANGED <<lock, faults>>
          /\ call'[t].token = call[t].token
          /\ Holding(t) => Holding(t)'
      BY <1>0, <2>6 DEF GetHistory, EvalCommit, Goto, redis, Holding, CallRecord
    <3> QED
      BY <3>1, <3>2, StillHeld
  <2> QED
    BY <1>3, <2>1, <2>2, <2>3, <2>4, <2>5, <2>6 DEF Progress
<1>4. ASSUME NEW t \in Threads, Faulty(t)
      PROVE  LockIsHeld'
  <2>1. CASE CommitRejected(t)
    <3>1. \A u \in Threads \ {t} : pc'[u] = pc[u] /\ call'[u] = call[u]
      BY <1>0, <2>1 DEF CommitRejected, Goto
    <3>2. /\ UNCHANGED <<lock, faults>>
          /\ call'[t].token = call[t].token
          /\ Holding(t) => Holding(t)'
      BY <1>0, <2>1 DEF CommitRejected, Goto, redis, Holding
    <3> QED
      BY <3>1, <3>2, StillHeld
  <2>2. CASE ~CommitRejected(t)
    <3>1. faults' = faults + 1
      BY <1>4, <2>2
      DEF Faulty, LoseConnection, LoseAcquireReply, LoseCommitReply, LoseSnapshotReply, Fault
    <3> QED
      BY <1>0, <3>1 DEF LockIsHeld
  <2> QED
    BY <2>1, <2>2
<1>5. CASE LeaseExpires
  BY <1>5 DEF LeaseExpires, LockIsHeld
<1>6. CASE UNCHANGED vars
  BY <1>6 DEF vars, redis, HeldInv, LockIsHeld, Holding
<1> QED
  BY <1>1, <1>2, <1>3, <1>4, <1>5, <1>6 DEF Next

(* While no connection breaks no call leaves the lock behind on any of its *)
(* paths, even when leases lapse while their holders are at work.          *)
THEOREM LockLeftByNoCall == Spec => []LockReleased
<1>1. HeldInv => LockReleased
  BY DEF HeldInv, LockIsHeld, LockReleased, Holding
<1> QED
  BY <1>1, InitHeld, NextHeld, PTL DEF Spec

-----------------------------------------------------------------------------
(* Snapshots.  The document is read first; until the revision follows, the *)
(* log only grows past what was read.                                      *)

(* The document of a revision up to the current one. *)
WasCurrent(doc) ==
  /\ Len(doc) <= Len(history)
  /\ doc = SubSeq(Ids(history), 1, Len(doc))

Honest(s) ==
  /\ WasCurrent(s.document)
  /\ s.revision # 0 => Len(s.document) <= s.revision
  /\ s.revision <= Len(history)

SnapInv ==
  /\ LogInv
  /\ \A t \in Threads : pc[t] = "snapRevision" => WasCurrent(call[t].doc)
  /\ \A s \in snapshots : Honest(s)

(* The only steps that touch snapshots and their documents. *)
LEMMA SnapshotSteps ==
  ASSUME TypeInv, [Next]_vars
  PROVE  /\ \A t \in Threads : pc'[t] = "snapRevision" =>
              \/ pc[t] = "snapRevision" /\ call'[t].doc = call[t].doc
              \/ call'[t].doc = content
         /\ \A s \in snapshots' \ snapshots :
              \/ s = [document |-> <<>>, revision |-> 0]
              \/ \E t \in Threads, r \in {0, revision} :
                   /\ pc[t] = "snapRevision"
                   /\ s = [document |-> call[t].doc, revision |-> r]
<1>0. /\ call \in [Threads -> CallRecord] /\ pc \in [Threads -> Labels]
  BY DEF TypeInv, TypeOK
<1> DEFINE Reading(u) ==
             pc'[u] = "snapRevision" =>
               \/ pc[u] = "snapRevision" /\ call'[u].doc = call[u].doc
               \/ call'[u].doc = content
           Taken ==
             \A s \in snapshots' \ snapshots :
               \/ s = [document |-> <<>>, revision |-> 0]
               \/ \E t \in Threads, r \in {0, revision} :
                    /\ pc[t] = "snapRevision"
                    /\ s = [document |-> call[t].doc, revision |-> r]
           Steps == (\A u \in Threads : Reading(u)) /\ Taken
<1> SUFFICES Steps
  OBVIOUS
(* A step of t that is not about snapshots. *)
<1>1. ASSUME NEW t \in Threads, snapshots' = snapshots,
             pc'[t] # "snapRevision",
             \A u \in Threads \ {t} : pc'[u] = pc[u] /\ call'[u] = call[u]
      PROVE  Steps
  BY <1>1
<1>2. ASSUME NEW t \in Threads, Leave(t)
      PROVE  /\ pc'[t] # "snapRevision"
             /\ \A u \in Threads \ {t} : pc'[u] = pc[u] /\ call'[u] = call[u]
  BY <1>0, <1>2 DEF Leave, Goto
<1>3. ASSUME NEW t \in Threads, NEW id \in OpIds, NEW base \in 0 .. revision,
             CommitCall(t, id, base)
      PROVE  Steps
  BY <1>0, <1>1, <1>3 DEF CommitCall, Goto
<1>4. ASSUME NEW t \in Threads, SnapshotCall(t)
      PROVE  Steps
  BY <1>0, <1>1, <1>4 DEF SnapshotCall, Goto
<1>5. ASSUME NEW t \in Threads, Progress(t)
      PROVE  Steps
  <2>1. CASE EnterCommit(t) \/ EnterSnapshot(t)
    BY <1>0, <1>1, <2>1 DEF EnterCommit, EnterSnapshot, Enter, Goto
  <2>2. CASE LookupFound(t) \/ AcquireGiveUp(t) \/ Release(t)
    BY <1>1, <1>2, <2>2 DEF LookupFound, AcquireGiveUp, Release, Return, Throw
  <2>3. CASE LookupMissing(t) \/ Acquire(t) \/ AcquireRetry(t)
    BY <1>0, <1>1, <2>3 DEF LookupMissing, Acquire, AcquireRetry, Goto
  <2>4. CASE \/ RecheckFound(t) \/ RecheckMissing(t)
             \/ GetContent(t) \/ GetRevision(t)
    BY <1>0, <1>1, <2>4 DEF RecheckFound, RecheckMissing, GetContent, GetRevision, Goto
  <2>5. CASE GetHistory(t) \/ EvalCommit(t)
    BY <1>0, <1>1, <2>5 DEF GetHistory, EvalCommit, Goto
  <2>6. CASE SnapshotContent(t)
    BY <1>0, <2>6 DEF SnapshotContent, Goto, CallRecord
  <2>7. CASE SnapshotRevision(t)
    <3>1. /\ pc[t] = "snapRevision" /\ Leave(t)
          /\ snapshots' = snapshots \cup
                            {[document |-> call[t].doc, revision |-> revision]}
      BY <2>7 DEF SnapshotRevision, Throw
    <3>2. Taken
      BY <3>1
    <3> QED
      BY <1>2, <3>1, <3>2
  <2> QED
    BY <1>5, <2>1, <2>2, <2>3, <2>4, <2>5, <2>6, <2>7 DEF Progress
<1>6. ASSUME NEW t \in Threads, Faulty(t)
      PROVE  Steps
  <2>1. CASE CommitRejected(t)
    BY <1>0, <1>1, <2>1 DEF CommitRejected, Goto
  <2>2. CASE LoseConnection(t) \/ LoseAcquireReply(t) \/ LoseCommitReply(t)
    BY <1>1, <1>2, <2>2
    DEF LoseConnection, LoseAcquireReply, LoseCommitReply, Return, Throw
  <2>3. CASE LoseSnapshotReply(t)
    <3>1. /\ pc[t] \in {"snapContent", "snapRevision"} /\ Leave(t)
          /\ snapshots' = snapshots \cup
               {[document |-> IF pc[t] = "snapContent" THEN <<>> ELSE call[t].doc,
                 revision |-> 0]}
      BY <2>3 DEF LoseSnapshotReply, Throw
    <3>2. Taken
      BY <3>1
    <3> QED
      BY <1>2, <3>1, <3>2
  <2> QED
    BY <1>6, <2>1, <2>2, <2>3 DEF Faulty
<1>7. CASE LeaseExpires
  BY <1>7 DEF LeaseExpires
<1>8. CASE UNCHANGED vars
  BY <1>8 DEF vars
<1> QED
  BY <1>3, <1>4, <1>5, <1>6, <1>7, <1>8 DEF Next

(* The history only grows at its end. *)
LEMMA HistoryGrows ==
  ASSUME LogInv, [Next]_vars
  PROVE  history' = history \/ \E e \in CommittedOp : history' = Append(history, e)
<1>1. history \in Seq(CommittedOp) /\ Len(history) \in Nat
  BY LenProperties DEF LogInv, LockInv, KeysInv, TypeInv, TypeOK
<1>2. CASE UNCHANGED Store!storeVars
  BY <1>2 DEF Store!storeVars
<1>3. ASSUME NEW id \in OpIds, NEW base \in 0 .. Len(history), Store!Commit(id, base)
      PROVE  \E e \in CommittedOp : history' = Append(history, e)
  <2>1. Missed(history, base, Len(history)) \in Seq(OpIds)
    BY <1>1, MissedType
  <2>2. Entry(id, base, Len(history) + 1, Missed(history, base, Len(history)))
          \in CommittedOp
    BY <1>1, <2>1 DEF Entry, CommittedOp
  <2>3. history' = Append(history, Entry(id, base, Len(history) + 1,
                                         Missed(history, base, Len(history))))
    BY <1>3
    DEF Store!Commit, Store!Entry, Store!Missed, Store!Ids, Store!StartOf,
        Entry, Missed, Ids, StartOf
  <2> QED
    BY <2>2, <2>3
<1>4. ASSUME NEW i, Store!Acknowledge(i)
      PROVE  history' = history
  BY <1>4 DEF Store!Acknowledge
<1> QED
  BY <1>2, <1>3, <1>4, StepRefines DEF Store!Next

LEMMA StaysCurrent ==
  ASSUME LogInv, [Next]_vars, NEW doc \in Seq(OpIds), WasCurrent(doc)
  PROVE  WasCurrent(doc)' /\ Len(history) <= Len(history')
<1>1. /\ history \in Seq(CommittedOp) /\ Len(history) \in Nat
      /\ Len(doc) \in Nat
  BY LenProperties DEF LogInv, LockInv, KeysInv, TypeInv, TypeOK
<1>2. CASE history' = history
  BY <1>1, <1>2 DEF WasCurrent
<1>3. ASSUME NEW e \in CommittedOp, history' = Append(history, e)
      PROVE  WasCurrent(doc)' /\ Len(history) <= Len(history')
  <2>1. /\ Ids(history') = Append(Ids(history), e.opId)
        /\ Ids(history) \in Seq(OpIds) /\ Len(Ids(history)) = Len(history)
        /\ Len(history') = Len(history) + 1
    BY <1>1, <1>3, IdsAppend, IdsType
  <2>2. e.opId \in OpIds
    BY DEF CommittedOp
  <2>3. SubSeq(Ids(history'), 1, Len(doc)) = SubSeq(Ids(history), 1, Len(doc))
    BY <1>1, <2>1, <2>2, PrefixOfAppend DEF WasCurrent
  <2> QED
    BY <1>1, <2>1, <2>3 DEF WasCurrent
<1> QED
  BY <1>2, <1>3, HistoryGrows

LEMMA InitSnap == Init => SnapInv
BY InitLog DEF Init, SnapInv

LEMMA NextSnap ==
  ASSUME ~LeaseMayLapse
  PROVE  SnapInv /\ [Next]_vars => SnapInv'
<1> SUFFICES ASSUME SnapInv, [Next]_vars
             PROVE  SnapInv'
  OBVIOUS
<1>0. /\ LogInv /\ LogInv' /\ TypeInv
      /\ history \in Seq(CommittedOp) /\ Len(history) \in Nat
      /\ revision = Len(history) /\ content = Ids(history) /\ content \in Seq(OpIds)
      /\ \A t \in Threads : call[t].doc \in Seq(OpIds)
      /\ \A s \in snapshots : s.document \in Seq(OpIds) /\ s.revision \in Nat
  BY NextLog, LenProperties
  DEF SnapInv, LogInv, LogIntegrity, LockInv, KeysInv, TypeInv, TypeOK, CallRecord
<1>1. WasCurrent(content) /\ WasCurrent(<<>>)
  <2>1. Len(content) = Len(history) /\ SubSeq(content, 1, Len(content)) = content
    BY <1>0, IdsType, SubSeqFull
  <2>2. <<>> = SubSeq(Ids(history), 1, 0)
    BY SubSeqEmpty
  <2> QED
    BY <1>0, <2>1, <2>2, EmptySeq DEF WasCurrent
<1>2. ASSUME NEW t \in Threads, pc'[t] = "snapRevision"
      PROVE  WasCurrent(call[t].doc)'
  <2>1. PICK doc \in Seq(OpIds) : doc = call'[t].doc /\ WasCurrent(doc)
    BY <1>0, <1>1, <1>2, SnapshotSteps DEF SnapInv
  <2>2. WasCurrent(doc)'
    BY <1>0, <2>1, StaysCurrent
  <2> QED
    BY <2>1, <2>2 DEF WasCurrent
<1>3. ASSUME NEW s \in snapshots'
      PROVE  Honest(s)'
  <2>1. /\ WasCurrent(s.document) /\ s.document \in Seq(OpIds) /\ s.revision \in Nat
        /\ s.revision # 0 => Len(s.document) <= s.revision
        /\ s.revision <= Len(history)
    <3>1. CASE s \in snapshots
      BY <1>0, <3>1 DEF SnapInv, Honest
    <3>2. CASE s = [document |-> <<>>, revision |-> 0]
      BY <1>0, <1>1, <3>2, EmptySeq
    <3>3. CASE \E t \in Threads, r \in {0, revision} :
                 /\ pc[t] = "snapRevision"
                 /\ s = [document |-> call[t].doc, revision |-> r]
      <4>1. PICK t \in Threads, r \in {0, revision} :
                 /\ pc[t] = "snapRevision"
                 /\ s = [document |-> call[t].doc, revision |-> r]
        BY <3>3
      <4>2. WasCurrent(call[t].doc) /\ call[t].doc \in Seq(OpIds)
        BY <1>0, <4>1 DEF SnapInv
      <4> QED
        BY <1>0, <4>1, <4>2 DEF WasCurrent
    <3> QED
      BY <1>0, <3>1, <3>2, <3>3, SnapshotSteps
  <2>2. WasCurrent(s.document)' /\ Len(history) <= Len(history')
    BY <1>0, <2>1, StaysCurrent DEF WasCurrent
  <2>3. Len(history') \in Nat
    BY <1>0, LenProperties DEF LogInv, LockInv, KeysInv, TypeInv, TypeOK
  <2> QED
    BY <1>0, <2>1, <2>2, <2>3 DEF Honest
<1>4. \A t \in Threads : pc'[t] = "snapRevision" => WasCurrent(call[t].doc)'
  BY <1>2
<1>5. \A s \in snapshots' : Honest(s)'
  BY <1>3
<1> QED
  BY <1>0, <1>4, <1>5 DEF SnapInv

(* A snapshot's document is one the store had, and not of a later revision *)
(* than the one returned with it.                                          *)
THEOREM SnapshotsLagBehind ==
  ASSUME ~LeaseMayLapse
  PROVE  Spec => []SnapshotNeverAhead
<1>1. SnapInv => SnapshotNeverAhead
  BY DEF SnapInv, Honest, WasCurrent, SnapshotNeverAhead
<1> QED
  BY <1>1, InitSnap, NextSnap, PTL DEF Spec

=============================================================================

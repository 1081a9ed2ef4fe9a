---------------------- MODULE FinalizationStore_proofs ----------------------
(***************************************************************************)
(* Proofs about FinalizationStore, for any number of concurrent calls, any *)
(* set of commands and any retry limits.                                   *)
(***************************************************************************)
EXTENDS FinalizationStore, FinalizationPolicy_proofs

\* The inductive invariant.
IInv == TypeOK /\ PointerRecordAgree /\ ItemsOwned /\ NoStaleAuthority

-----------------------------------------------------------------------------
\* Lemmas on the local state of a call.

\* Only queue applies where there is no record.
LEMMA AppliedToNothing ==
    ASSUME NEW m \in Commands, isApplied(NoRecord, m)
    PROVE  m.kind = "queue"
BY StoreConstants DEF isApplied, isInvalid, isIdempotent, isSticky, nextScenario, isTerminal

\* A call that returns has a local state of the right type.
LEMMA ReturnedOK ==
    ASSUME NEW k \in Call, NEW result \in Results, NEW told \in RecordOrNone
    PROVE  Returned(k, result, told) \in Call /\ CallOK(Returned(k, result, told))
<1> DEFINE n == Returned(k, result, told)
<1>1. Idle \in Call
  BY DEF Idle, Call, Pcs, Goals, Results
<1>2. n = [Idle EXCEPT !.pc = "done", !.cmd = k.cmd, !.result = result, !.told = told]
  BY DEF Returned
<1>3. n \in Call
  BY <1>1, <1>2 DEF Call, Pcs, RecordOrNone
<1>4. n.pc = "done"
  BY <1>1, <1>2 DEF Call
<1> QED BY <1>3, <1>4 DEF CallOK

\* A call that returns is done.
LEMMA ReturnedDone ==
    ASSUME NEW k, NEW result, NEW told
    PROVE  Returned(k, result, told).pc = "done"
BY DEF Returned, Idle

\* What the coordinator does with a loaded authority.
LEMMA TransitionLoad ==
    ASSUME NEW k \in Call, k.cmd \in Commands, k.goal = "transition",
           NEW p \in Pointer \cup {NoItem}, NEW cur \in RecordOrNone,
           p = NoItem => cur = NoRecord,
           p # NoItem => /\ Anchored(p) /\ cur # NoRecord /\ cur.fid = p.fid
                         /\ item[p.fid].rev = p.rev => item[p.fid].rec = cur
    PROVE  LET n == AfterTransitionLoad(k, p, cur) IN n \in Call /\ CallOK(n)
<1> DEFINE n == AfterTransitionLoad(k, p, cur)
<1>1. k.cmd \in FinalizationCommand /\ (k.cmd.kind = "fail" => k.cmd.code \in Codes)
  BY StoreConstants
<1>2. CASE ~isApplied(cur, k.cmd)
  <2>1. \E result \in Results, told \in RecordOrNone : n = Returned(k, result, told)
    BY <1>2 DEF AfterTransitionLoad, Results, RecordOrNone
  <2> QED BY <2>1, ReturnedOK
<1>3. CASE isApplied(cur, k.cmd)
  <2>1. n = [k EXCEPT !.pc = "ttl", !.ptr = p, !.cur = cur, !.next = nextRecord(cur, k.cmd)]
    BY <1>3 DEF AfterTransitionLoad
  <2>2. nextRecord(cur, k.cmd) \in FinalizationRecord
    BY <1>1, <1>3, AppliedScenario, NextRecordType
  <2>3. n \in Call
    BY <2>1, <2>2 DEF Call, Pcs, RecordOrNone
  <2>4. /\ n.pc = "ttl" /\ n.ptr = p /\ n.cur = cur /\ n.next = nextRecord(cur, k.cmd)
        /\ n.cmd = k.cmd /\ n.goal = "transition"
    BY <2>1 DEF Call
  <2>5. LoadedAuthority(n)
    <3>1. CASE p = NoItem
      BY <3>1, <2>4, <1>3 DEF LoadedAuthority
    <3>2. CASE p # NoItem
      <4>1. cur \in FinalizationRecord /\ cur.fid = k.cmd.fid
        BY <3>2, <1>1, <1>3, AppliedToUnfinished DEF RecordOrNone
      <4> QED BY <3>2, <4>1, <2>4, <1>3 DEF LoadedAuthority
    <3> QED BY <3>1, <3>2
  <2> QED BY <2>3, <2>4, <2>5 DEF CallOK
<1> QED BY <1>2, <1>3

\* A call that starts over from the pointer keeps its command and its goal's
\* preparation.
LEMMA ReadingOK ==
    ASSUME NEW k \in Call, k.cmd \in Commands, NEW goal \in Goals,
           goal \in {"prepare", "commit"} => k.cmd.kind = "succeed",
           goal = "commit" => PreparedCommit(k)
    PROVE  LET n == Reading(k, goal) IN n \in Call /\ CallOK(n)
<1> DEFINE n == Reading(k, goal)
<1>1. n = [k EXCEPT !.pc = "pointer", !.goal = goal]
  BY DEF Reading
<1>2. n \in Call
  BY <1>1 DEF Call, Pcs
<1>3. n.pc = "pointer" /\ n.goal = goal /\ n.cmd = k.cmd /\ n.next = k.next
  BY <1>1 DEF Call
<1>4. goal = "commit" => PreparedCommit(n)
  BY <1>3 DEF PreparedCommit
<1> QED BY <1>2, <1>3, <1>4 DEF CallOK

\* A counted attempt changes nothing else.
LEMMA CountedOK ==
    ASSUME NEW k \in Call
    PROVE  LET n == [k EXCEPT !.tries = @ + 1]
           IN  /\ n \in Call /\ n.cmd = k.cmd /\ n.next = k.next
               /\ PreparedCommit(k) => PreparedCommit(n)
<1> DEFINE n == [k EXCEPT !.tries = @ + 1]
<1>1. n \in Call /\ n.cmd = k.cmd /\ n.next = k.next
  BY DEF Call
<1> QED BY <1>1 DEF PreparedCommit

\* What the coordinator does with a reload.
LEMMA ReloadLoad ==
    ASSUME NEW k \in Call, k.cmd \in Commands, NEW cur \in RecordOrNone
    PROVE  LET n == AfterReload(k, cur) IN n \in Call /\ CallOK(n)
<1> DEFINE n == AfterReload(k, cur)
<1>1. CASE cur = k.next
  BY <1>1, ReturnedOK DEF AfterReload, Results
<1>2. CASE cur # k.next /\ k.tries + 1 > StaleRetryLimit
  BY <1>2, ReturnedOK DEF AfterReload, Results
<1>3. CASE cur # k.next /\ ~(k.tries + 1 > StaleRetryLimit)
  <2> DEFINE j == [k EXCEPT !.tries = @ + 1]
  <2>1. j \in Call /\ j.cmd \in Commands
    BY CountedOK
  <2>2. n = Reading(j, "transition")
    BY <1>3 DEF AfterReload
  <2> HIDE DEF j
  <2> QED BY <2>1, <2>2, ReadingOK DEF Goals
<1> QED BY <1>1, <1>2, <1>3

\* The succeeded record built from a record of the same finalization.
LEMMA PreparedNext ==
    ASSUME NEW cur \in FinalizationRecord, NEW m \in Commands, m.kind = "succeed"
    PROVE  /\ nextRecord(cur, m) \in FinalizationRecord
           /\ nextRecord(cur, m) = [nextRecord(NoRecord, m) EXCEPT !.scenario = cur.scenario]
<1>1. m \in FinalizationCommand /\ m.scenario = NoScenario
  BY StoreConstants
<1>2. nextScenario(cur, m) = cur.scenario /\ cur.scenario \in Scenarios
  BY <1>1, PolicyConstants DEF nextScenario, FinalizationRecord
<1>3. nextRecord(cur, m) \in FinalizationRecord
  BY <1>1, <1>2, NextRecordType DEF RecordOrNone
<1>4. nextRecord(cur, m) = [nextRecord(NoRecord, m) EXCEPT !.scenario = cur.scenario]
  BY <1>2 DEF nextRecord
<1> QED BY <1>3, <1>4

\* What markAwsFinalizationSucceeded does with the record it reads.
LEMMA PrepareLoad ==
    ASSUME NEW k \in Call, k.cmd \in Commands, k.cmd.kind = "succeed",
           NEW cur \in RecordOrNone, cur # NoRecord => pointer # NoItem
    PROVE  LET n == AfterPrepareLoad(k, cur) IN n \in Call /\ CallOK(n)
<1> DEFINE n == AfterPrepareLoad(k, cur)
           go == /\ cur # NoRecord /\ admitCommand(k.cmd) /\ k.cmd.resultOk
                 /\ ~(cur.fid # k.cmd.fid \/ cur.status \in {"failed", "timeout"})
<1>1. CASE ~go
  <2>1. \E result \in Results, told \in RecordOrNone : n = Returned(k, result, told)
    BY <1>1 DEF AfterPrepareLoad, Results, RecordOrNone
  <2> QED BY <2>1, ReturnedOK
<1>2. CASE go
  <2> DEFINE j == [k EXCEPT !.next = nextRecord(cur, k.cmd)]
  <2>1. n = Reading(j, "commit")
    BY <1>2 DEF AfterPrepareLoad
  <2>2. cur \in FinalizationRecord /\ cur.scenario \in Scenarios
    BY <1>2 DEF RecordOrNone, FinalizationRecord
  <2>3. /\ nextRecord(cur, k.cmd) \in FinalizationRecord
        /\ nextRecord(cur, k.cmd) = [nextRecord(NoRecord, k.cmd) EXCEPT !.scenario = cur.scenario]
    BY <2>2, PreparedNext
  <2>4. j \in Call /\ j.cmd = k.cmd /\ j.next = nextRecord(cur, k.cmd)
    BY <2>3 DEF Call, RecordOrNone
  <2>5. PreparedCommit(j)
    BY <1>2, <2>2, <2>3, <2>4 DEF PreparedCommit
  <2> HIDE DEF j
  <2> QED BY <2>1, <2>4, <2>5, ReadingOK DEF Goals
<1> QED BY <1>1, <1>2

\* A success that the commit admits against an unfinished record is one that
\* the policy applies, and it carries that record's scenario context.
LEMMA CommitApplies ==
    ASSUME NEW cur \in FinalizationRecord, NEW m \in Commands, NEW next,
           m.kind = "succeed", admitCommand(m), m.resultOk,
           NEW sc \in Scenarios, next = [nextRecord(NoRecord, m) EXCEPT !.scenario = sc],
           commitAdmits(next, cur), ~isTerminal(cur)
    PROVE  isApplied(cur, m) /\ next = nextRecord(cur, m) /\ cur.fid = m.fid
<1>1. m \in FinalizationCommand /\ m.scenario = NoScenario /\ cur # NoRecord
  BY StoreConstants, PolicyConstants
<1>2. next.fid = m.fid /\ next.scenario = sc
  BY DEF nextRecord
<1>3. cur.fid = m.fid /\ cur.status \in {"pending", "running"} /\ cur.scenario = sc
  BY <1>1, <1>2 DEF commitAdmits, isTerminal, TerminalStatuses
<1>4. next = nextRecord(cur, m)
  BY <1>3, PreparedNext
<1>5. ~isSticky(cur, m) /\ ~isRejected(cur, m)
  BY <1>3 DEF isSticky, isTerminal, TerminalStatuses, isRejected
<1>6. nextRecord(cur, m).status = "succeeded"
  BY NextRecordFields DEF requestedFinalizationStatus
<1>7. ~isIdempotent(cur, m)
  BY <1>3, <1>5, <1>6 DEF isIdempotent
<1>8. nextScenario(cur, m) # NoScenario
  BY <1>1, <1>3, PolicyConstants DEF nextScenario
<1> QED BY <1>3, <1>4, <1>5, <1>7, <1>8 DEF isApplied, isInvalid

\* What an attempt of the commit does with the authority it loads.
LEMMA CommitLoad ==
    ASSUME NEW k \in Call, k.cmd \in Commands, k.cmd.kind = "succeed",
           k.goal = "commit", PreparedCommit(k),
           NEW p \in Pointer \cup {NoItem}, NEW cur \in RecordOrNone,
           p = NoItem => cur = NoRecord,
           p # NoItem => /\ Anchored(p) /\ cur # NoRecord /\ cur.fid = p.fid
                         /\ item[p.fid].rev = p.rev => item[p.fid].rec = cur
    PROVE  LET n == AfterCommitLoad(k, p, cur) IN n \in Call /\ CallOK(n)
<1> DEFINE n == AfterCommitLoad(k, p, cur)
           go == commitAdmits(k.next, cur) /\ ~isTerminal(cur)
<1>1. CASE ~go
  <2>1. \E result \in Results, told \in RecordOrNone : n = Returned(k, result, told)
    BY <1>1 DEF AfterCommitLoad, Results, RecordOrNone, isTerminal
  <2> QED BY <2>1, ReturnedOK
<1>2. CASE go
  <2>1. n = [k EXCEPT !.pc = "ttl", !.ptr = p, !.cur = cur]
    BY <1>2 DEF AfterCommitLoad
  <2>2. n \in Call
    BY <2>1 DEF Call, Pcs, RecordOrNone
  <2>3. /\ n.pc = "ttl" /\ n.ptr = p /\ n.cur = cur /\ n.next = k.next
        /\ n.cmd = k.cmd /\ n.goal = "commit"
    BY <2>1 DEF Call
  <2>4. PreparedCommit(n)
    BY <2>3 DEF PreparedCommit
  <2>5. LoadedAuthority(n)
    <3>1. CASE p = NoItem
      BY <3>1, <2>3 DEF LoadedAuthority
    <3>2. CASE p # NoItem
      <4>1. cur \in FinalizationRecord
        BY <3>2 DEF RecordOrNone
      <4>2. PICK sc \in Scenarios :
                k.next = [nextRecord(NoRecord, k.cmd) EXCEPT !.scenario = sc]
        BY DEF PreparedCommit
      <4>3. admitCommand(k.cmd) /\ k.cmd.resultOk
        BY DEF PreparedCommit
      <4>4. isApplied(cur, k.cmd) /\ k.next = nextRecord(cur, k.cmd) /\ cur.fid = k.cmd.fid
        BY <1>2, <4>1, <4>2, <4>3, CommitApplies
      <4> QED BY <3>2, <4>4, <2>3 DEF LoadedAuthority
    <3> QED BY <3>1, <3>2
  <2> QED BY <2>2, <2>3, <2>4, <2>5 DEF CallOK
<1> QED BY <1>1, <1>2

\* Whatever a call is loading the authority for.
LEMMA LoadOK ==
    ASSUME NEW k \in Call, k.pc \in {"pointer", "record"}, CallOK(k),
           NEW p \in Pointer \cup {NoItem}, NEW cur \in RecordOrNone,
           p = NoItem => cur = NoRecord,
           p # NoItem => /\ Anchored(p) /\ cur # NoRecord /\ cur.fid = p.fid
                         /\ item[p.fid].rev = p.rev => item[p.fid].rec = cur
    PROVE  LET n == AfterLoad(k, p, cur) IN n \in Call /\ CallOK(n)
<1>1. /\ k.cmd \in Commands
      /\ k.goal \in {"prepare", "commit"} => k.cmd.kind = "succeed"
      /\ k.goal = "commit" => PreparedCommit(k)
  BY DEF CallOK
<1>2. CASE k.goal = "transition"
  BY <1>1, <1>2, TransitionLoad DEF AfterLoad
<1>3. CASE k.goal = "reload"
  BY <1>1, <1>3, ReloadLoad DEF AfterLoad
<1>4. CASE k.goal = "prepare"
  <2>1. cur # NoRecord => pointer # NoItem
    BY DEF Anchored
  <2> QED BY <1>1, <1>4, <2>1, PrepareLoad DEF AfterLoad
<1>5. CASE k.goal = "commit"
  BY <1>1, <1>5, CommitLoad DEF AfterLoad
<1> QED BY <1>2, <1>3, <1>4, <1>5 DEF Call, Goals

\* After a failed condition.
LEMMA ConflictOK ==
    ASSUME NEW k \in Call, k.pc = "write", CallOK(k)
    PROVE  LET n == AfterConflict(k) IN n \in Call /\ CallOK(n)
<1> DEFINE n == AfterConflict(k)
<1>1. /\ k.cmd \in Commands
      /\ k.goal \in {"transition", "commit"}
      /\ k.goal = "commit" => k.cmd.kind = "succeed" /\ PreparedCommit(k)
  BY DEF CallOK
<1>2. CASE k.goal = "transition"
  BY <1>1, <1>2, ReadingOK DEF AfterConflict, Goals
<1>3. CASE k.goal = "commit" /\ k.tries + 1 = CommitAttempts
  BY <1>3, ReturnedOK DEF AfterConflict, Results, RecordOrNone
<1>4. CASE k.goal = "commit" /\ k.tries + 1 # CommitAttempts
  <2> DEFINE j == [k EXCEPT !.tries = @ + 1]
  <2>1. j \in Call /\ j.cmd = k.cmd /\ PreparedCommit(j)
    BY <1>1, <1>4, CountedOK
  <2>2. n = Reading(j, "commit")
    BY <1>4 DEF AfterConflict
  <2> HIDE DEF j
  <2> QED BY <1>1, <1>4, <2>1, <2>2, ReadingOK DEF Goals
<1> QED BY <1>1, <1>2, <1>3, <1>4

-----------------------------------------------------------------------------
\* Lemmas on the steps.

\* A step that changes one call and nothing in the table.
LEMMA LocalStep ==
    ASSUME IInv, UNCHANGED <<pointer, item, session, votingRev>>, used' \subseteq Fids,
           NEW c \in Clients, NEW n \in Call, CallOK(n),
           client' = [client EXCEPT ![c] = n]
    PROVE  IInv'
<1> USE DEF IInv
<1>1. TypeOK'
  BY DEF TypeOK
<1>2. PointerRecordAgree' /\ ItemsOwned'
  BY DEF PointerRecordAgree, ItemsOwned
<1>3. ASSUME NEW k, CallOK(k) PROVE CallOK(k)'
  BY <1>3 DEF CallOK, PreparedCommit, Anchored, LoadedAuthority
<1>4. NoStaleAuthority'
  <2> SUFFICES ASSUME NEW d \in Clients PROVE CallOK(client[d])'
    BY DEF NoStaleAuthority
  <2>1. CASE d = c
    <3>1. client'[d] = n
      BY <2>1 DEF TypeOK
    <3>2. CallOK(n)'
      BY <1>3
    <3> QED BY <3>1, <3>2
  <2>2. CASE d # c
    <3>1. client'[d] = client[d]
      BY <2>2 DEF TypeOK
    <3> QED BY <3>1, <1>3 DEF NoStaleAuthority
  <2> QED BY <2>1, <2>2
<1> QED BY <1>1, <1>2, <1>4

\* A write whose condition holds applies its command to the current record.
LEMMA WriteApplies ==
    ASSUME IInv, NEW c \in Clients, client[c].pc = "write", writeCondition(client[c])
    PROVE  LET k == client[c]
           IN  /\ k.cmd \in Commands
               /\ isApplied(Current, k.cmd)
               /\ k.next = nextRecord(Current, k.cmd)
               /\ k.next \in FinalizationRecord
               /\ k.next.fid = k.cmd.fid
               /\ Current = k.cur \/ k.ptr = NoItem
<1> DEFINE k == client[c]
<1> USE DEF IInv
<1>1. k \in Call /\ CallOK(k)
  BY DEF TypeOK, NoStaleAuthority
<1>2. /\ k.cmd \in Commands
      /\ LoadedAuthority(k)
      /\ k.goal = "commit" => pointer # NoItem
      /\ k.goal \in {"transition", "commit"}
  BY <1>1 DEF CallOK, PreparedCommit
<1>3. k.cmd \in FinalizationCommand /\ (k.cmd.kind = "fail" => k.cmd.code \in Codes)
  BY <1>2, StoreConstants
<1>4. /\ isApplied(Current, k.cmd) /\ k.next = nextRecord(Current, k.cmd)
      /\ Current = k.cur \/ k.ptr = NoItem
  <2>1. CASE k.ptr = NoItem
    <3>1. Current = NoRecord /\ k.goal = "transition"
      BY <1>2, <2>1 DEF writeCondition, Current
    <3> QED BY <1>2, <2>1, <3>1 DEF LoadedAuthority
  <2>2. CASE k.ptr # NoItem
    <3>1. /\ pointer # NoItem /\ pointer.fid = k.ptr.fid /\ k.ptr.fid = k.cmd.fid
          /\ item[pointer.fid] # NoItem /\ item[k.ptr.fid].rev = k.ptr.rev
      BY <1>2, <2>2 DEF writeCondition, LoadedAuthority
    <3>2. Current = k.cur
      BY <1>2, <2>2, <3>1 DEF Current, LoadedAuthority
    <3> QED BY <1>2, <2>2, <3>2 DEF LoadedAuthority
  <2> QED BY <2>1, <2>2
<1>5. Current \in RecordOrNone
  BY DEF Current, TypeOK, Pointer, Item, RecordOrNone
<1>6. k.next \in FinalizationRecord
  BY <1>3, <1>4, <1>5, AppliedScenario, NextRecordType
<1>7. k.next.fid = k.cmd.fid
  BY <1>4, NextRecordFields
<1> QED BY <1>2, <1>4, <1>6, <1>7

\* A committed write keeps the invariant, whatever its caller is told.
LEMMA WriteStep ==
    ASSUME IInv, NEW c \in Clients, client[c].pc = "write",
           writeCondition(client[c]), writeEffect(client[c]),
           NEW n \in Call, n.pc = "done", client' = [client EXCEPT ![c] = n]
    PROVE  IInv'
<1> DEFINE k == client[c]
           rev == IF k.ptr = NoItem THEN 1 ELSE k.ptr.rev + 1
<1> USE DEF IInv
<1>1. k \in Call /\ k.cmd \in Commands /\ k.cmd.fid \in Fids
  BY WriteApplies, StoreConstants DEF TypeOK, FinalizationCommand
<1>2. k.next \in FinalizationRecord /\ k.next.fid = k.cmd.fid
  BY WriteApplies
<1>3. rev \in Nat
  BY <1>1 DEF Call, Pointer
<1>4. /\ pointer' = [fid |-> k.cmd.fid, rev |-> rev, expired |-> FALSE]
      /\ item' = [item EXCEPT ![k.cmd.fid] = [rec |-> k.next, rev |-> rev]]
      /\ session' = "live" /\ votingRev' = votingRev /\ used' = used
  BY DEF writeEffect
<1>5. pointer' \in Pointer /\ pointer' # NoItem
  <2> HIDE DEF rev
  <2>1. pointer' \in Pointer
    BY <1>1, <1>3, <1>4 DEF Pointer
  <2> QED BY <2>1, StoreConstants
<1>6. [rec |-> k.next, rev |-> rev] \in Item /\ [rec |-> k.next, rev |-> rev] # NoItem
  <2> HIDE DEF rev
  <2>1. [rec |-> k.next, rev |-> rev] \in Item
    BY <1>2, <1>3 DEF Item
  <2> QED BY <2>1, StoreConstants
<1>7. TypeOK'
  BY <1>4, <1>5, <1>6 DEF TypeOK
<1>8. PointerRecordAgree'
  BY <1>1, <1>2, <1>4, <1>6 DEF PointerRecordAgree, TypeOK
<1>9. ItemsOwned'
  BY <1>1, <1>2, <1>4, <1>6 DEF ItemsOwned, TypeOK
<1>10. ASSUME NEW p \in Pointer, Anchored(p)
       PROVE  Anchored(p)' /\ (item'[p.fid].rev # p.rev \/ item'[p.fid] = item[p.fid])
  <2>1. k.ptr # NoItem
    BY <1>10 DEF Anchored, writeCondition
  <2>2. k.ptr.fid = k.cmd.fid /\ item[k.cmd.fid].rev = k.ptr.rev /\ p.fid = k.cmd.fid
    BY <2>1, <1>10 DEF Anchored, writeCondition, NoStaleAuthority, CallOK, LoadedAuthority
  <2>3. item'[p.fid].rev = k.ptr.rev + 1
    BY <1>1, <1>4, <2>1, <2>2 DEF TypeOK
  <2>4. k.ptr.rev \in Nat /\ p.rev \in Nat /\ k.ptr.rev >= p.rev
    BY <1>1, <1>10, <2>1, <2>2 DEF Call, Pointer, Anchored
  <2>5. item'[p.fid] # NoItem
    BY <1>1, <1>4, <1>6, <2>2 DEF TypeOK
  <2>6. pointer'.fid = p.fid
    BY <1>4, <2>2
  <2> QED BY <1>5, <2>3, <2>4, <2>5, <2>6 DEF Anchored
<1>11. NoStaleAuthority'
  <2> SUFFICES ASSUME NEW d \in Clients PROVE CallOK(client[d])'
    BY DEF NoStaleAuthority
  <2>1. CASE d = c
    <3>1. client'[d] = n
      BY <2>1 DEF TypeOK
    <3> QED BY <3>1 DEF CallOK
  <2>2. CASE d # c
    <3>1. client'[d] = client[d] /\ client[d] \in Call /\ CallOK(client[d])
      BY <2>2 DEF TypeOK, NoStaleAuthority
    <3>2. client[d].ptr # NoItem => client[d].ptr \in Pointer
      BY <3>1 DEF Call
    <3>3. PreparedCommit(client[d]) => PreparedCommit(client[d])'
      BY <1>5, <3>1 DEF PreparedCommit
    <3>4. LoadedAuthority(client[d]) => LoadedAuthority(client[d])'
      BY <1>10, <3>1, <3>2 DEF LoadedAuthority
    <3>5. client[d].ptr # NoItem /\ Anchored(client[d].ptr) => Anchored(client[d].ptr)'
      BY <1>10, <3>1, <3>2
    <3> QED BY <3>1, <3>3, <3>4, <3>5 DEF CallOK
  <2> QED BY <2>1, <2>2
<1> QED BY <1>7, <1>8, <1>9, <1>11

\* Expiry and other requests of the session keep the invariant.
LEMMA EnvironmentStep ==
    ASSUME IInv, Environment
    PROVE  IInv'
<1> USE DEF IInv
<1>1. CASE TouchSession \/ ExpireSession \/ DeleteSession
  <2>1. UNCHANGED <<pointer, item, used, client>> /\ votingRev' \in Nat
        /\ session' \in {"live", "expired", "deleted"}
    BY <1>1 DEF TouchSession, ExpireSession, DeleteSession, TypeOK
  <2>2. TypeOK' /\ PointerRecordAgree' /\ ItemsOwned'
    BY <2>1 DEF TypeOK, PointerRecordAgree, ItemsOwned
  <2>3. NoStaleAuthority'
    BY <2>1 DEF NoStaleAuthority, CallOK, PreparedCommit, Anchored, LoadedAuthority
  <2> QED BY <2>2, <2>3
<1>2. CASE ExpirePointer
  <2>1. /\ pointer \in Pointer /\ pointer' = [pointer EXCEPT !.expired = TRUE]
        /\ UNCHANGED <<item, session, votingRev, used, client>>
    BY <1>2 DEF ExpirePointer, TypeOK
  <2>2. /\ pointer' \in Pointer /\ pointer' # NoItem /\ pointer'.expired
        /\ pointer'.fid = pointer.fid /\ pointer'.rev = pointer.rev /\ pointer # NoItem
    BY <2>1, StoreConstants DEF Pointer
  <2>3. TypeOK' /\ PointerRecordAgree' /\ ItemsOwned'
    BY <2>1, <2>2 DEF TypeOK, PointerRecordAgree, ItemsOwned
  <2>4. NoStaleAuthority'
    BY <2>1, <2>2 DEF NoStaleAuthority, CallOK, PreparedCommit, Anchored, LoadedAuthority
  <2> QED BY <2>3, <2>4
<1>3. CASE DeletePointer \/ DeleteItem
  <2>1. Drained /\ client' = client /\ UNCHANGED <<session, votingRev, used>>
    BY <1>3 DEF DeletePointer, DeleteItem
  <2>2. NoStaleAuthority'
    BY <2>1 DEF Drained, InFlight, NoStaleAuthority, CallOK
  <2>3. CASE DeletePointer
    BY <2>1, <2>2, <2>3 DEF DeletePointer, TypeOK, PointerRecordAgree, ItemsOwned
  <2>4. CASE DeleteItem
    <3>1. PICK f \in Fids : /\ pointer # NoItem => pointer.fid # f \/ pointer.expired
                            /\ item' = [item EXCEPT ![f] = NoItem] /\ pointer' = pointer
      BY <2>4 DEF DeleteItem
    <3>2. TypeOK'
      BY <2>1, <3>1 DEF TypeOK
    <3>3. PointerRecordAgree' /\ ItemsOwned'
      BY <3>1 DEF TypeOK, PointerRecordAgree, ItemsOwned, Pointer
    <3> QED BY <2>2, <3>2, <3>3
  <2> QED BY <1>3, <2>3, <2>4
<1> QED BY <1>1, <1>2, <1>3 DEF Environment

\* A step of one call keeps the invariant.
LEMMA CallStep ==
    ASSUME IInv, NEW c \in Clients, Begin(c) \/ Step(c)
    PROVE  IInv'
<1> DEFINE k == client[c]
<1>1. k \in Call /\ CallOK(k) /\ used \subseteq Fids
  BY DEF IInv, TypeOK, NoStaleAuthority
<1>2. CASE Begin(c)
  <2>1. PICK m \in Commands :
            /\ used' = IF m.kind = "queue" THEN used \cup {m.fid} ELSE used
            /\ client' = [client EXCEPT ![c] =
                    Reading([@ EXCEPT !.cmd = m],
                            IF m.kind = "succeed" THEN "prepare" ELSE "transition")]
    BY <1>2 DEF Begin
  <2> DEFINE j == [k EXCEPT !.cmd = m]
             n == Reading(j, IF m.kind = "succeed" THEN "prepare" ELSE "transition")
  <2>2. j \in Call /\ j.cmd = m
    BY <1>1 DEF Call
  <2>3. client' = [client EXCEPT ![c] = n]
    BY <2>1
  <2>4. used' \subseteq Fids
    BY <1>1, <2>1, StoreConstants DEF FinalizationCommand
  <2>5. n \in Call /\ CallOK(n)
    <3> HIDE DEF j
    <3> QED BY <2>2, ReadingOK DEF Goals
  <2> HIDE DEF n
  <2> QED BY <1>2, <2>3, <2>4, <2>5, LocalStep DEF Begin
<1>3. CASE ReadPointer(c)
  <2> DEFINE n == IF session # "live" THEN Returned(k, "missing", NoRecord)
                  ELSE IF pointer = NoItem \/ (pointer # NoItem /\ pointer.expired)
                       THEN AfterLoad(k, NoItem, NoRecord)
                       ELSE [k EXCEPT !.pc = "record", !.ptr = pointer]
  <2>1. client' = [client EXCEPT ![c] = n] /\ k.pc = "pointer"
    BY <1>3 DEF ReadPointer
  <2>2. n \in Call /\ CallOK(n)
    <3>1. CASE session # "live"
      BY <1>1, <3>1, ReturnedOK DEF Results, RecordOrNone
    <3>2. CASE session = "live" /\ (pointer = NoItem \/ (pointer # NoItem /\ pointer.expired))
      BY <1>1, <2>1, <3>2, LoadOK DEF RecordOrNone
    <3>3. CASE session = "live" /\ pointer # NoItem /\ ~pointer.expired
      <4>1. n = [k EXCEPT !.pc = "record", !.ptr = pointer]
        BY <3>3
      <4>2. pointer \in Pointer
        BY <3>3 DEF IInv, TypeOK
      <4> HIDE DEF n
      <4>6. Anchored(pointer)
        <5>1. /\ item[pointer.fid] # NoItem /\ item[pointer.fid].rev = pointer.rev
              /\ pointer.rev \in Nat
          BY <3>3, <4>2 DEF IInv, PointerRecordAgree, Pointer
        <5> QED BY <3>3, <5>1 DEF Anchored
      <4>3. n \in Call
        BY <1>1, <4>1, <4>2 DEF Call, Pcs
      <4>4. n.pc = "record" /\ n.ptr = pointer /\ n.cmd = k.cmd /\ n.goal = k.goal /\ n.next = k.next
        BY <1>1, <4>1 DEF Call
      <4>5. PreparedCommit(k) => PreparedCommit(n)
        BY <4>4 DEF PreparedCommit
      <4> QED BY <1>1, <2>1, <3>3, <4>6, <4>3, <4>4, <4>5 DEF CallOK
    <3> QED BY <3>1, <3>2, <3>3
  <2> HIDE DEF n
  <2> QED BY <1>1, <1>3, <2>1, <2>2, LocalStep DEF ReadPointer
<1>4. CASE ReadRecord(c)
  <2> DEFINE n == IF recordMatches(k.ptr) THEN AfterLoad(k, k.ptr, item[k.ptr.fid].rec)
                  ELSE Returned(k, "invalid_record", NoRecord)
  <2>1. client' = [client EXCEPT ![c] = n] /\ k.pc = "record"
    BY <1>4 DEF ReadRecord
  <2>2. n \in Call /\ CallOK(n)
    <3>1. CASE ~recordMatches(k.ptr)
      BY <1>1, <3>1, ReturnedOK DEF Results, RecordOrNone
    <3>2. CASE recordMatches(k.ptr)
      <4>1. k.ptr # NoItem /\ k.ptr \in Pointer /\ Anchored(k.ptr) /\ k.ptr.fid \in Fids
        BY <1>1, <2>1 DEF CallOK, Call, Pointer
      <4>2. /\ item[k.ptr.fid].rec \in FinalizationRecord
            /\ item[k.ptr.fid].rec.fid = k.ptr.fid
        BY <3>2, <4>1 DEF IInv, TypeOK, ItemsOwned, recordMatches, Item
      <4>3. item[k.ptr.fid].rec # NoRecord
        BY <4>2, PolicyConstants
      <4> QED BY <1>1, <2>1, <3>2, <4>1, <4>2, <4>3, LoadOK DEF RecordOrNone
    <3> QED BY <3>1, <3>2
  <2> HIDE DEF n
  <2> QED BY <1>1, <1>4, <2>1, <2>2, LocalStep DEF ReadRecord
<1>5. CASE ReadTtl(c)
  <2> DEFINE n == IF session = "live" THEN [k EXCEPT !.pc = "write", !.vrev = votingRev]
                  ELSE Returned(k, "persistence_failure", NoRecord)
  <2>1. client' = [client EXCEPT ![c] = n] /\ k.pc = "ttl"
    BY <1>5 DEF ReadTtl
  <2>2. n \in Call /\ CallOK(n)
    <3>1. CASE session # "live"
      BY <1>1, <3>1, ReturnedOK DEF Results, RecordOrNone
    <3>2. CASE session = "live"
      <4>1. n = [k EXCEPT !.pc = "write", !.vrev = votingRev] /\ votingRev \in Nat
        BY <3>2 DEF IInv, TypeOK
      <4>2. n \in Call
        BY <1>1, <4>1 DEF Call, Pcs
      <4>3. /\ n.pc = "write" /\ n.ptr = k.ptr /\ n.cmd = k.cmd /\ n.goal = k.goal
            /\ n.next = k.next /\ n.cur = k.cur
        BY <1>1, <4>1 DEF Call
      <4> HIDE DEF n
      <4>4. PreparedCommit(k) => PreparedCommit(n)
        BY <4>3 DEF PreparedCommit
      <4>5. LoadedAuthority(k) => LoadedAuthority(n)
        BY <4>3 DEF LoadedAuthority
      <4> QED BY <1>1, <2>1, <4>2, <4>3, <4>4, <4>5 DEF CallOK
    <3> QED BY <3>1, <3>2
  <2> HIDE DEF n
  <2> QED BY <1>1, <1>5, <2>1, <2>2, LocalStep DEF ReadTtl
<1>6. CASE Write(c)
  <2> DEFINE n == Returned(k, "applied", k.next)
  <2>1. n \in Call /\ n.pc = "done"
    BY <1>1, ReturnedOK, ReturnedDone DEF Results, RecordOrNone, Call
  <2>2. client' = [client EXCEPT ![c] = n]
    BY <1>6 DEF Write
  <2> HIDE DEF n
  <2> QED BY <1>6, <2>1, <2>2, WriteStep DEF Write
<1>7. CASE WriteLost(c)
  <2> DEFINE n == Returned(k, "persistence_failure", NoRecord)
  <2>1. n \in Call /\ n.pc = "done"
    BY <1>1, ReturnedOK, ReturnedDone DEF Results, RecordOrNone
  <2>2. client' = [client EXCEPT ![c] = n]
    BY <1>7 DEF WriteLost
  <2> HIDE DEF n
  <2> QED BY <1>7, <2>1, <2>2, WriteStep DEF WriteLost
<1>8. CASE WriteConflict(c)
  <2> DEFINE n == AfterConflict(k)
  <2>1. n \in Call /\ CallOK(n)
    BY <1>1, <1>8, ConflictOK DEF WriteConflict
  <2>2. client' = [client EXCEPT ![c] = n]
    BY <1>8 DEF WriteConflict
  <2> HIDE DEF n
  <2> QED BY <1>1, <1>8, <2>1, <2>2, LocalStep DEF WriteConflict
<1>9. CASE RequestError(c)
  <2> DEFINE n == Returned(k, "persistence_failure", NoRecord)
  <2>1. n \in Call /\ CallOK(n)
    BY <1>1, ReturnedOK DEF Results, RecordOrNone
  <2>2. client' = [client EXCEPT ![c] = n]
    BY <1>9 DEF RequestError
  <2> HIDE DEF n
  <2> QED BY <1>1, <1>9, <2>1, <2>2, LocalStep DEF RequestError
<1> QED BY <1>2, <1>3, <1>4, <1>5, <1>6, <1>7, <1>8, <1>9 DEF Step

-----------------------------------------------------------------------------
\* The invariant holds in every reachable state.
LEMMA Invariance == Spec => []IInv
<1>1. Init => IInv
  <2> SUFFICES ASSUME Init PROVE IInv
    OBVIOUS
  <2>1. Idle \in Call /\ Idle.pc = "idle"
    BY DEF Idle, Call, Pcs, Goals, Results
  <2>2. CallOK(Idle)
    BY <2>1 DEF CallOK
  <2> QED BY <2>1, <2>2 DEF Init, IInv, TypeOK, PointerRecordAgree, ItemsOwned, NoStaleAuthority
<1>2. IInv /\ [Next]_vars => IInv'
  <2> SUFFICES ASSUME IInv, [Next]_vars PROVE IInv'
    OBVIOUS
  <2>1. CASE \E c \in Clients : Begin(c) \/ Step(c)
    BY <2>1, CallStep
  <2>2. CASE Environment
    BY <2>2, EnvironmentStep
  <2>3. CASE UNCHANGED vars
    BY <2>3 DEF vars, IInv, TypeOK, PointerRecordAgree, ItemsOwned, NoStaleAuthority,
                CallOK, PreparedCommit, Anchored, LoadedAuthority
  <2> QED BY <2>1, <2>2, <2>3 DEF Next
<1> QED BY <1>1, <1>2, PTL DEF Spec

\* Every variable keeps its type, for any number of concurrent calls.
THEOREM Typing == Spec => []TypeOK
BY Invariance, PTL DEF IInv

\* The pointer and the record it names never disagree
\* (applyFinalizationLifecycleMutation and the successful commit).
THEOREM PointerRecordAgreement == Spec => []PointerRecordAgree
BY Invariance, PTL DEF IInv

\* No call writes from an authority that has been replaced.
THEOREM FreshAuthority == Spec => []NoStaleAuthority
BY Invariance, PTL DEF IInv

-----------------------------------------------------------------------------
\* The refinement.

\* The policy seen through the instance is the policy.
LEMMA SamePolicy ==
    ASSUME NEW cur, NEW m
    PROVE  /\ Lifecycle!isApplied(cur, m) <=> isApplied(cur, m)
           /\ Lifecycle!nextRecord(cur, m) = nextRecord(cur, m)
BY DEF isApplied, isInvalid, isRejected, isIdempotent, isSticky, isTerminal, isUnfinished,
       isCurrentCancellable, nextRecord, nextScenario, requestedFinalizationStatus,
       admitCommand, hasValidStartedAt, hasValidOptionalStartedAt, hasValidTerminalAt,
       NoTime, NoCode, TerminalStatuses,
       Lifecycle!isApplied, Lifecycle!isInvalid, Lifecycle!isRejected, Lifecycle!isIdempotent,
       Lifecycle!isSticky, Lifecycle!isTerminal, Lifecycle!isUnfinished,
       Lifecycle!isCurrentCancellable, Lifecycle!nextRecord, Lifecycle!nextScenario,
       Lifecycle!requestedFinalizationStatus, Lifecycle!admitCommand,
       Lifecycle!hasValidStartedAt, Lifecycle!hasValidOptionalStartedAt,
       Lifecycle!hasValidTerminalAt, Lifecycle!NoTime, Lifecycle!NoCode,
       Lifecycle!TerminalStatuses

\* A step of the store changes the current record by one admitted command,
\* forgets it, or leaves it alone.
LEMMA LifecycleStep ==
    ASSUME IInv, IInv', [Next]_vars
    PROVE  [Lifecycle!Next]_Current
<1>1. CASE UNCHANGED <<pointer, item>>
  BY <1>1 DEF Current
<1>2. ASSUME NEW c \in Clients, client[c].pc = "write",
             writeCondition(client[c]), writeEffect(client[c])
      PROVE  Lifecycle!Apply
  <2> DEFINE k == client[c]
  <2>1. /\ k.cmd \in Commands
        /\ isApplied(Current, k.cmd) /\ k.next = nextRecord(Current, k.cmd)
    BY <1>2, WriteApplies
  <2>2. Current' = k.next
    <3>1. k.cmd.fid \in Fids
      BY <2>1, StoreConstants DEF FinalizationCommand
    <3>2. pointer'.fid = k.cmd.fid /\ item'[k.cmd.fid].rec = k.next
      BY <1>2, <3>1 DEF writeEffect, IInv, TypeOK
    <3>3. pointer' # NoItem
      <4>1. pointer' \in Pointer
        BY <1>2, <3>1 DEF writeEffect, Pointer, IInv, TypeOK, Call
      <4> QED BY <4>1, StoreConstants
    <3>4. item'[k.cmd.fid] # NoItem
      <4>1. item'[k.cmd.fid] \in Item
        BY <1>2, <2>1, <3>1, WriteApplies DEF writeEffect, IInv, TypeOK, Item, Call, Pointer
      <4> QED BY <4>1, StoreConstants
    <3> QED BY <3>2, <3>3, <3>4 DEF Current
  <2> QED BY <2>1, <2>2, SamePolicy DEF Lifecycle!Apply
<1>3. CASE ExpirePointer
  <2>1. Current' = Current
    BY <1>3, StoreConstants DEF ExpirePointer, Current, IInv, TypeOK, Pointer
  <2> QED BY <2>1
<1>4. CASE DeletePointer
  <2>1. Current' = NoRecord
    BY <1>4 DEF DeletePointer, Current
  <2> QED BY <2>1 DEF Lifecycle!Next, Lifecycle!Forget
<1>5. CASE DeleteItem
  <2>1. Current' \in {Current, NoRecord}
    BY <1>5 DEF DeleteItem, Current, IInv, TypeOK, Pointer
  <2> QED BY <2>1 DEF Lifecycle!Next, Lifecycle!Forget
<1>6. CASE UNCHANGED vars \/ TouchSession \/ ExpireSession \/ DeleteSession
  BY <1>1, <1>6 DEF vars, TouchSession, ExpireSession, DeleteSession
<1>7. ASSUME NEW c \in Clients, Begin(c) \/ Step(c)
      PROVE  [Lifecycle!Next]_Current
  <2>1. CASE Write(c) \/ WriteLost(c)
    BY <1>2, <2>1 DEF Write, WriteLost, Lifecycle!Next
  <2>2. CASE Begin(c) \/ ReadPointer(c) \/ ReadRecord(c) \/ ReadTtl(c)
             \/ WriteConflict(c) \/ RequestError(c)
    BY <1>1, <2>2 DEF Begin, ReadPointer, ReadRecord, ReadTtl, WriteConflict, RequestError
  <2> QED BY <1>7, <2>1, <2>2 DEF Step
<1> QED BY <1>3, <1>4, <1>5, <1>6, <1>7 DEF Next, Environment

\* The store implements the lifecycle: with any number of calls, crashes, lost
\* responses and expiry, each change of the current finalization is one command
\* that the transition policy admits against the record then current.
THEOREM Refinement == Spec => ImplementsLifecycle
<1>1. Init => Lifecycle!Init
  BY DEF Init, Lifecycle!Init, Current
<1>2. IInv /\ IInv' /\ [Next]_vars => [Lifecycle!Next]_Current
  BY LifecycleStep
<1> QED BY <1>1, <1>2, Invariance, PTL DEF Spec, ImplementsLifecycle, Lifecycle!Spec

\* Terminal states are sticky: no call, however late or often retried, replaces
\* a recorded outcome.
THEOREM StickyOutcome == Spec => OutcomeSticky
<1>1. ASSUME IInv, IInv', [Next]_vars
      PROVE  [isTerminal(Current) => Current' \in {Current, NoRecord}]_vars
  <2> SUFFICES ASSUME isTerminal(Current) PROVE Current' \in {Current, NoRecord}
    OBVIOUS
  <2>1. CASE Current' = Current
    BY <2>1
  <2>2. CASE Lifecycle!Forget
    BY <2>2 DEF Lifecycle!Forget
  <2>3. CASE Lifecycle!Apply
    <3>1. PICK m \in Commands : isApplied(Current, m)
      BY <2>3, SamePolicy DEF Lifecycle!Apply
    <3>2. Current \in FinalizationRecord
      BY <1>1 DEF isTerminal, Current, IInv, TypeOK, Pointer, Item
    <3>3. isUnfinished(Current)
      BY <3>1, <3>2, StoreConstants, AppliedToUnfinished
    <3> QED BY <3>3 DEF isUnfinished, isTerminal, TerminalStatuses
  <2> QED BY <1>1, <2>1, <2>2, <2>3, LifecycleStep DEF Lifecycle!Next
<1> QED BY <1>1, Invariance, PTL DEF Spec, OutcomeSticky

\* An admitted command makes a record whose times are in order.
LEMMA NextChronological ==
    ASSUME NEW cur, NEW m \in FinalizationCommand, isApplied(cur, m)
    PROVE  Chronological(nextRecord(cur, m))
<1>1. admitCommand(m)
  BY DEF isApplied, isInvalid
<1> QED BY <1>1 DEF admitCommand, hasValidStartedAt, hasValidOptionalStartedAt,
                    hasValidTerminalAt, nextRecord, Chronological, FinalizationCommand, Kinds,
                    requestedFinalizationStatus, TerminalStatuses, NoTime

\* No stored finalization starts before it was queued or ends before it started.
THEOREM Chronology == Spec => []RecordsChronological
<1>1. Init => RecordsChronological
  BY DEF Init, RecordsChronological
<1>2. IInv /\ RecordsChronological /\ [Next]_vars => RecordsChronological'
  <2> SUFFICES ASSUME IInv, RecordsChronological, [Next]_vars PROVE RecordsChronological'
    OBVIOUS
  <2>1. CASE item' = item
    BY <2>1 DEF RecordsChronological
  <2>2. CASE DeleteItem
    BY <2>2 DEF DeleteItem, RecordsChronological, IInv, TypeOK
  <2>3. ASSUME NEW c \in Clients, Write(c) \/ WriteLost(c) PROVE RecordsChronological'
    <3> DEFINE k == client[c]
    <3>1. client[c].pc = "write" /\ writeCondition(client[c]) /\ writeEffect(client[c])
      BY <2>3 DEF Write, WriteLost
    <3>2. k.cmd \in Commands /\ isApplied(Current, k.cmd) /\ k.next = nextRecord(Current, k.cmd)
      BY <3>1, WriteApplies
    <3>3. Chronological(k.next)
      BY <3>2, StoreConstants, NextChronological
    <3>4. \A f \in Fids : item'[f] = item[f] \/ item'[f].rec = k.next
      BY <3>1 DEF writeEffect, IInv, TypeOK
    <3> QED BY <3>3, <3>4 DEF RecordsChronological
  <2>4. CASE \E c \in Clients : Begin(c) \/ Step(c)
    BY <2>1, <2>3, <2>4 DEF Step, Begin, ReadPointer, ReadRecord, ReadTtl, WriteConflict, RequestError
  <2>5. CASE Environment
    BY <2>1, <2>2, <2>5 DEF Environment, TouchSession, ExpirePointer, ExpireSession,
                            DeletePointer, DeleteSession
  <2> QED BY <2>1, <2>4, <2>5 DEF Next, vars
<1> QED BY <1>1, <1>2, Invariance, PTL DEF Spec

\* The two tables always tell one history: pointer and record at one revision, the
\* record's times in order (DynamoSessionStore, applyFinalizationTransition).
THEOREM OneHistory == Spec => []RecordsSound
BY PointerRecordAgreement, Chronology, PTL DEF RecordsSound

-----------------------------------------------------------------------------
\* What callers are told.  Agreement and fresh authorities do not suffice: an
\* outcome would not be final if a finalization whose record was deleted could be
\* queued again, so the invariant also follows the queue commands in flight.

\* Call c is still to queue finalization f.
Queues(c, f) == InFlight(c) /\ client[c].cmd.kind = "queue" /\ client[c].cmd.fid = f

\* What was queued once and nobody queues again.
Known == {f \in used : \A c \in Clients : ~Queues(c, f)}

AsksFor(m, rec) ==
    rec # NoRecord /\ rec.fid = m.fid /\ rec.status = requestedFinalizationStatus(m)

AnswerOK(k) ==
    /\ k.pc # "done" => k.result = "none" /\ k.told = NoRecord
    /\ k.pc \notin {"idle", "done"} /\ k.goal = "reload" => AsksFor(k.cmd, k.next)
    /\ k.result \in {"applied", "already_applied"} => AsksFor(k.cmd, k.told)

QueuedOnce ==
    \A c \in Clients, f \in Fids :
        Queues(c, f) => f \in used /\ \A d \in Clients : Queues(d, f) => d = c

AInv ==
    /\ QueuedOnce
    /\ \A f \in Fids : item[f] # NoItem => f \in Known
    /\ \A c \in Clients : client[c].told # NoRecord => client[c].told.fid \in Known
    /\ \A c \in Clients : AnswerOK(client[c])
    /\ ToldOutcomeIsFinal

\* The fields of a call that returns.
LEMMA ReturnedFields ==
    ASSUME NEW k, NEW result, NEW told
    PROVE  LET n == Returned(k, result, told)
           IN  n.pc = "done" /\ n.cmd = k.cmd /\ n.result = result /\ n.told = told
BY DEF Returned, Idle

\* A call told nothing of an applied command is answered correctly.
LEMMA ReturnedAnswer ==
    ASSUME NEW k, NEW result, NEW told,
           result \in {"applied", "already_applied"} => AsksFor(k.cmd, told)
    PROVE  LET n == Returned(k, result, told)
           IN  AnswerOK(n) /\ n.told = told /\ n.cmd = k.cmd
<1> DEFINE n == Returned(k, result, told)
<1>1. n.pc = "done" /\ n.cmd = k.cmd /\ n.result = result /\ n.told = told
  BY ReturnedFields
<1> QED BY <1>1 DEF AnswerOK

\* A call that starts over has been told nothing.
LEMMA ReadingAnswer ==
    ASSUME NEW k \in Call, k.result = "none", k.told = NoRecord, NEW goal \in Goals,
           goal = "reload" => AsksFor(k.cmd, k.next)
    PROVE  LET n == Reading(k, goal)
           IN  AnswerOK(n) /\ n.told = NoRecord /\ n.cmd = k.cmd
<1> DEFINE n == Reading(k, goal)
<1>1. /\ n.pc = "pointer" /\ n.goal = goal /\ n.cmd = k.cmd /\ n.next = k.next
      /\ n.result = "none" /\ n.told = NoRecord
  BY DEF Reading, Call
<1> QED BY <1>1 DEF AnswerOK

\* What the policy calls a retry already has what the command asks for.
LEMMA IdempotentAsks ==
    ASSUME NEW cur \in RecordOrNone, NEW m, isIdempotent(cur, m)
    PROVE  AsksFor(m, cur)
<1>1. CASE isSticky(cur, m)
  BY <1>1 DEF isIdempotent, isSticky, isRejected, isTerminal, AsksFor
<1>2. CASE isUnfinished(cur) /\ cur = nextRecord(cur, m)
  BY <1>2, NextRecordFields DEF isUnfinished, AsksFor
<1> QED BY <1>1, <1>2 DEF isIdempotent

\* What a call is told of the authority it has loaded is that authority.
LEMMA LoadAnswer ==
    ASSUME NEW k \in Call, k.pc \in {"pointer", "record"}, CallOK(k), AnswerOK(k),
           NEW p \in Pointer \cup {NoItem}, NEW cur \in RecordOrNone
    PROVE  LET n == AfterLoad(k, p, cur)
           IN  AnswerOK(n) /\ n.told \in {NoRecord, cur} /\ n.cmd = k.cmd
<1> DEFINE n == AfterLoad(k, p, cur)
           ok(x) == AnswerOK(x) /\ x.told \in {NoRecord, cur} /\ x.cmd = k.cmd
<1>1. k.result = "none" /\ k.told = NoRecord
  BY DEF AnswerOK
<1>2. ASSUME NEW result, NEW told \in {NoRecord, cur},
             result \in {"applied", "already_applied"} => AsksFor(k.cmd, told)
      PROVE  ok(Returned(k, result, told))
  BY <1>2, ReturnedAnswer
<1>3. CASE k.goal = "transition"
  <2>1. n = AfterTransitionLoad(k, p, cur)
    BY <1>3 DEF AfterLoad
  <2>2. CASE isApplied(cur, k.cmd)
    <3>1. n = [k EXCEPT !.pc = "ttl", !.ptr = p, !.cur = cur, !.next = nextRecord(cur, k.cmd)]
      BY <2>1, <2>2 DEF AfterTransitionLoad
    <3>2. n.pc = "ttl" /\ n.goal = "transition" /\ n.cmd = k.cmd /\ n.result = "none" /\ n.told = NoRecord
      BY <1>1, <1>3, <3>1 DEF Call
    <3> QED BY <3>2 DEF AnswerOK
  <2>3. CASE ~isApplied(cur, k.cmd) /\ isIdempotent(cur, k.cmd)
    <3>3. ~isRejected(cur, k.cmd)
      BY <2>3 DEF isIdempotent
    <3>1. n = Returned(k, "already_applied", cur)
      BY <2>1, <2>3, <3>3 DEF AfterTransitionLoad
    <3>2. AsksFor(k.cmd, cur)
      BY <2>3, IdempotentAsks
    <3> QED BY <1>2, <3>1, <3>2
  <2>4. CASE ~isApplied(cur, k.cmd) /\ ~isIdempotent(cur, k.cmd)
    <3>1. n = Returned(k, "rejected", cur) \/ n = Returned(k, "invalid", NoRecord)
      BY <2>1, <2>4 DEF AfterTransitionLoad
    <3> QED BY <1>2, <3>1
  <2> QED BY <2>2, <2>3, <2>4
<1>4. CASE k.goal = "reload"
  <2>1. n = AfterReload(k, cur) /\ AsksFor(k.cmd, k.next)
    BY <1>4 DEF AfterLoad, AnswerOK
  <2>2. CASE cur = k.next
    BY <1>2, <2>1, <2>2 DEF AfterReload
  <2>3. CASE cur # k.next /\ k.tries + 1 > StaleRetryLimit
    BY <1>2, <2>1, <2>3 DEF AfterReload
  <2>4. CASE cur # k.next /\ ~(k.tries + 1 > StaleRetryLimit)
    <3> DEFINE j == [k EXCEPT !.tries = @ + 1]
    <3>1. j \in Call /\ j.cmd = k.cmd /\ j.result = "none" /\ j.told = NoRecord
      BY <1>1, CountedOK DEF Call
    <3>2. n = Reading(j, "transition")
      BY <2>1, <2>4 DEF AfterReload
    <3> HIDE DEF j
    <3> QED BY <3>1, <3>2, ReadingAnswer DEF Goals
  <2> QED BY <2>2, <2>3, <2>4
<1>5. CASE k.goal = "prepare"
  <2>1. n = AfterPrepareLoad(k, cur)
    BY <1>5 DEF AfterLoad
  <2> DEFINE j == [k EXCEPT !.next = nextRecord(cur, k.cmd)]
  <2>2. n = Returned(k, "invalid", NoRecord) \/ n = Returned(k, "retained", cur)
        \/ (n = Reading(j, "commit") /\ cur # NoRecord)
    BY <2>1 DEF AfterPrepareLoad
  <2>3. CASE n = Returned(k, "invalid", NoRecord) \/ n = Returned(k, "retained", cur)
    BY <1>2, <2>3
  <2>4. CASE n = Reading(j, "commit") /\ cur # NoRecord
    <3>1. cur \in FinalizationRecord /\ k.cmd \in Commands /\ k.cmd.kind = "succeed"
      BY <1>5, <2>4 DEF RecordOrNone, CallOK
    <3>2. nextRecord(cur, k.cmd) \in FinalizationRecord
      BY <3>1, PreparedNext
    <3>3. j \in Call /\ j.cmd = k.cmd /\ j.result = "none" /\ j.told = NoRecord
      BY <1>1, <3>2 DEF Call, RecordOrNone
    <3> HIDE DEF j
    <3> QED BY <2>4, <3>3, ReadingAnswer DEF Goals
  <2> QED BY <2>2, <2>3, <2>4
<1>6. CASE k.goal = "commit"
  <2>1. n = AfterCommitLoad(k, p, cur)
    BY <1>6 DEF AfterLoad
  <2>2. PICK sc \in Scenarios : k.next = [nextRecord(NoRecord, k.cmd) EXCEPT !.scenario = sc]
    BY <1>6 DEF CallOK, PreparedCommit
  <2>3. k.next.fid = k.cmd.fid /\ k.next.status = requestedFinalizationStatus(k.cmd)
    BY <2>2 DEF nextRecord
  <2>4. \/ n = Returned(k, "invalid", NoRecord)
        \/ n = Returned(k, "already_applied", cur) /\ cur = k.next /\ cur # NoRecord
        \/ n = [k EXCEPT !.pc = "ttl", !.ptr = p, !.cur = cur]
    BY <2>1 DEF AfterCommitLoad
  <2>5. CASE n = Returned(k, "invalid", NoRecord)
    BY <1>2, <2>5
  <2>6. CASE n = Returned(k, "already_applied", cur) /\ cur = k.next /\ cur # NoRecord
    <3>1. AsksFor(k.cmd, cur)
      BY <2>3, <2>6 DEF AsksFor
    <3> QED BY <1>2, <2>6, <3>1
  <2>7. CASE n = [k EXCEPT !.pc = "ttl", !.ptr = p, !.cur = cur]
    <3>1. n.pc = "ttl" /\ n.goal = "commit" /\ n.cmd = k.cmd /\ n.result = "none" /\ n.told = NoRecord
      BY <1>1, <1>6, <2>7 DEF Call
    <3> QED BY <3>1 DEF AnswerOK
  <2> QED BY <2>4, <2>5, <2>6, <2>7
<1> QED BY <1>3, <1>4, <1>5, <1>6 DEF Call, Goals

\* The queues of a finalization do not come back when calls only move on.
LEMMA KnownKept ==
    ASSUME used' = used, \A c \in Clients, f \in Fids : Queues(c, f)' => Queues(c, f)
    PROVE  /\ QueuedOnce => QueuedOnce'
           /\ \A f \in Fids : f \in Known => f \in Known'
BY DEF QueuedOnce, Known

\* A step of one call in flight that leaves the table alone.
LEMMA LocalAnswers ==
    ASSUME IInv, AInv, UNCHANGED <<item, used>>,
           NEW c \in Clients, InFlight(c), NEW n \in Call, n.cmd = client[c].cmd, AnswerOK(n),
           n.told # NoRecord => \E f \in Fids : item[f] # NoItem /\ n.told = item[f].rec,
           client' = [client EXCEPT ![c] = n]
    PROVE  AInv'
<1>1. \A d \in Clients : client'[d] = (IF d = c THEN n ELSE client[d])
  BY DEF IInv, TypeOK
<1>2. \A d \in Clients, f \in Fids : Queues(d, f)' => Queues(d, f)
  BY <1>1 DEF Queues, InFlight
<1>3. QueuedOnce' /\ \A f \in Fids : f \in Known => f \in Known'
  BY <1>2, KnownKept DEF AInv
<1>4. \A f \in Fids : item'[f] # NoItem => f \in Known'
  BY <1>3 DEF AInv
<1>5. ASSUME NEW f \in Fids, item[f] # NoItem PROVE item[f].rec.fid = f
  BY <1>5 DEF IInv, ItemsOwned
<1>6. ASSUME NEW d \in Clients, client'[d].told # NoRecord PROVE client'[d].told.fid \in Known'
  <2>1. CASE d = c
    BY <1>1, <1>4, <1>5, <1>6, <2>1
  <2>2. CASE d # c
    <3>1. client'[d].told = client[d].told /\ client[d].told.fid \in Fids
      BY <1>1, <1>6, <2>2 DEF IInv, TypeOK, Call, FinalizationRecord
    <3> QED BY <1>3, <1>6, <3>1 DEF AInv
  <2> QED BY <2>1, <2>2
<1>7. \A d \in Clients : AnswerOK(client'[d])
  BY <1>1 DEF AInv
<1>8. ToldOutcomeIsFinal'
  <2> SUFFICES ASSUME NEW d \in Clients, client'[d].pc = "done", isTerminal(client'[d].told)
               PROVE  item[client'[d].told.fid] = NoItem
                      \/ item[client'[d].told.fid].rec = client'[d].told
    BY DEF ToldOutcomeIsFinal
  <2>1. CASE d = c
    BY <1>1, <1>5, <2>1 DEF isTerminal
  <2>2. CASE d # c
    BY <1>1, <2>2 DEF AInv, ToldOutcomeIsFinal
  <2> QED BY <2>1, <2>2
<1>9. (\A d \in Clients : AnswerOK(client[d]))'
  BY <1>7 DEF AnswerOK
<1> QED BY <1>3, <1>4, <1>6, <1>8, <1>9 DEF AInv

\* A committed write: the record it makes is known, and no outcome told before is
\* replaced, since a command applies to unfinished records only and creates one
\* only for the finalization it queues.
LEMMA WriteAnswers ==
    ASSUME IInv, IInv', AInv, NEW c \in Clients, client[c].pc = "write",
           writeCondition(client[c]), writeEffect(client[c]),
           NEW result \in {"applied", "persistence_failure"},
           NEW told \in {client[c].next, NoRecord}, result = "applied" => told = client[c].next,
           client' = [client EXCEPT ![c] = Returned(client[c], result, told)]
    PROVE  AInv'
<1> DEFINE k == client[c]
           n == Returned(k, result, told)
           g == k.cmd.fid
<1>1. \A d \in Clients : client'[d] = (IF d = c THEN n ELSE client[d])
  BY DEF IInv, TypeOK
<1>2. n.pc = "done" /\ n.cmd = k.cmd /\ n.result = result /\ n.told = told
  BY ReturnedFields
<1>3. /\ k.cmd \in Commands /\ isApplied(Current, k.cmd) /\ k.next = nextRecord(Current, k.cmd)
      /\ k.next \in FinalizationRecord /\ k.next.fid = g /\ k.next # NoRecord
      /\ k.cmd \in FinalizationCommand /\ g \in Fids
  BY WriteApplies, StoreConstants, PolicyConstants DEF FinalizationCommand
<1>4. \A f \in Fids : item'[f] = item[f] \/ f = g
  BY <1>3 DEF writeEffect, IInv, TypeOK
<1>5. item'[g].rec = k.next /\ used' = used
  BY <1>3 DEF writeEffect, IInv, TypeOK
<1>6. ~InFlight(c)'
  BY <1>1, <1>2 DEF InFlight
<1> HIDE DEF n
<1>7. \A d \in Clients, f \in Fids : Queues(d, f)' => Queues(d, f) /\ d # c
  BY <1>1, <1>6 DEF Queues, InFlight
<1>8. QueuedOnce' /\ \A f \in Fids : f \in Known => f \in Known'
  BY <1>5, <1>7, KnownKept DEF AInv
<1>9. item[g] # NoItem \/ k.cmd.kind = "queue"
  <2>1. CASE k.ptr = NoItem
    <3>1. Current = NoRecord
      BY <2>1 DEF writeCondition, Current
    <3> QED BY <1>3, <3>1, AppliedToNothing
  <2>2. CASE k.ptr # NoItem
    BY <2>2 DEF writeCondition
  <2> QED BY <2>1, <2>2
<1>10. g \in Known'
  <2>1. CASE item[g] # NoItem
    BY <1>3, <1>8, <2>1 DEF AInv
  <2>2. CASE k.cmd.kind = "queue"
    <3>1. Queues(c, g)
      BY <2>2 DEF Queues, InFlight
    <3> QED BY <1>3, <1>5, <1>7, <3>1 DEF AInv, QueuedOnce, Known
  <2> QED BY <1>9, <2>1, <2>2
<1>11. \A f \in Fids : item'[f] # NoItem => f \in Known'
  BY <1>4, <1>8, <1>10 DEF AInv
<1>12. ASSUME NEW d \in Clients, client'[d].told # NoRecord PROVE client'[d].told.fid \in Known'
  <2>1. CASE d = c
    BY <1>1, <1>2, <1>3, <1>10, <1>12, <2>1
  <2>2. CASE d # c
    <3>1. client'[d].told = client[d].told /\ client[d].told.fid \in Fids
      BY <1>1, <1>12, <2>2 DEF IInv, TypeOK, Call, FinalizationRecord
    <3> QED BY <1>8, <1>12, <3>1 DEF AInv
  <2> QED BY <2>1, <2>2
<1>13. ASSUME NEW d \in Clients PROVE AnswerOK(client'[d])
  <2>1. CASE d = c
    <3>1. AsksFor(k.cmd, k.next)
      BY <1>3, NextRecordFields DEF AsksFor
    <3> QED BY <1>1, <1>2, <2>1, <3>1 DEF AnswerOK
  <2>2. CASE d # c
    BY <1>1, <2>2 DEF AInv
  <2> QED BY <2>1, <2>2
<1>14. ToldOutcomeIsFinal'
  <2> SUFFICES ASSUME NEW d \in Clients, client'[d].pc = "done", isTerminal(client'[d].told)
               PROVE  item'[client'[d].told.fid] = NoItem
                      \/ item'[client'[d].told.fid].rec = client'[d].told
    BY DEF ToldOutcomeIsFinal
  <2>1. CASE d = c
    BY <1>1, <1>2, <1>3, <1>5, <2>1 DEF isTerminal
  <2>2. CASE d # c
    <3> DEFINE t == client[d].told
    <3>1. client'[d] = client[d] /\ isTerminal(t) /\ t # NoRecord
      BY <1>1, <2>2 DEF isTerminal
    <3>2. t \in FinalizationRecord /\ t.fid \in Fids
      BY <3>1 DEF IInv, TypeOK, Call, FinalizationRecord
    <3>3. item[t.fid] = NoItem \/ item[t.fid].rec = t
      BY <3>1 DEF AInv, ToldOutcomeIsFinal
    <3>4. CASE t.fid # g
      BY <1>4, <3>1, <3>2, <3>3, <3>4
    <3>5. CASE t.fid = g
      <4>1. ~Queues(c, g)
        BY <3>1, <3>5 DEF AInv, Known
      <4>2. k.cmd.kind # "queue"
        BY <4>1 DEF Queues, InFlight
      <4>3. item[g] # NoItem
        BY <1>9, <4>2
      <4>4. k.ptr # NoItem
        BY <4>3 DEF writeCondition
      <4>5. k.ptr.fid = g /\ pointer # NoItem /\ pointer.fid = g
        BY <4>4 DEF writeCondition, IInv, NoStaleAuthority, CallOK, LoadedAuthority
      <4>6. Current = t
        BY <3>3, <3>5, <4>3, <4>5 DEF Current
      <4>7. isUnfinished(t)
        BY <1>3, <3>2, <4>6, AppliedToUnfinished
      <4> QED BY <3>1, <4>7 DEF isUnfinished, isTerminal, TerminalStatuses
    <3> QED BY <3>4, <3>5
  <2> QED BY <2>1, <2>2
<1>15. (\A d \in Clients : AnswerOK(client[d]))'
  BY <1>13 DEF AnswerOK
<1> QED BY <1>8, <1>11, <1>12, <1>14, <1>15 DEF AInv

\* A call begins: an id it queues was never carried by another queue command.
LEMMA BeginAnswers ==
    ASSUME IInv, AInv, NEW c \in Clients, Begin(c)
    PROVE  AInv'
<1> DEFINE k == client[c]
<1>1. PICK m \in Commands :
          /\ m.kind = "queue" => m.fid \notin used
          /\ used' = IF m.kind = "queue" THEN used \cup {m.fid} ELSE used
          /\ client' = [client EXCEPT ![c] =
                  Reading([@ EXCEPT !.cmd = m],
                          IF m.kind = "succeed" THEN "prepare" ELSE "transition")]
  BY DEF Begin
<1> DEFINE j == [k EXCEPT !.cmd = m]
           n == Reading(j, IF m.kind = "succeed" THEN "prepare" ELSE "transition")
<1>2. k \in Call /\ k.pc = "idle" /\ k.result = "none" /\ k.told = NoRecord
  BY DEF Begin, IInv, TypeOK, AInv, AnswerOK
<1>3. j \in Call /\ j.cmd = m /\ j.result = "none" /\ j.told = NoRecord
  BY <1>2 DEF Call
<1>4. AnswerOK(n) /\ n.told = NoRecord /\ n.cmd = m
  <2> HIDE DEF j
  <2> QED BY <1>3, ReadingAnswer DEF Goals
<1>5. \A d \in Clients : client'[d] = (IF d = c THEN n ELSE client[d])
  BY <1>1 DEF IInv, TypeOK
<1> HIDE DEF n
<1>6. ASSUME NEW d \in Clients, NEW f \in Fids, Queues(d, f)'
      PROVE  Queues(d, f) \/ (d = c /\ m.kind = "queue" /\ f = m.fid)
  BY <1>4, <1>5, <1>6 DEF Queues, InFlight
<1>7. QueuedOnce'
  <2> SUFFICES ASSUME NEW d \in Clients, NEW f \in Fids, Queues(d, f)'
               PROVE  f \in used' /\ \A e \in Clients : Queues(e, f)' => e = d
    BY DEF QueuedOnce
  <2> QED BY <1>1, <1>6 DEF AInv, QueuedOnce
<1>8. \A f \in Fids : f \in Known => f \in Known'
  BY <1>1, <1>6 DEF Known
<1>9. item' = item
  BY DEF Begin
<1>10. ASSUME NEW d \in Clients, client'[d].told # NoRecord PROVE client'[d].told.fid \in Known'
  <2>1. d # c
    BY <1>4, <1>5, <1>10
  <2>2. client'[d].told = client[d].told /\ client[d].told.fid \in Fids
    BY <1>5, <1>10, <2>1 DEF IInv, TypeOK, Call, FinalizationRecord
  <2> QED BY <1>8, <1>10, <2>2 DEF AInv
<1>11. ToldOutcomeIsFinal'
  BY <1>4, <1>5, <1>9 DEF AInv, ToldOutcomeIsFinal, isTerminal
<1>12. (\A d \in Clients : AnswerOK(client[d]))'
  BY <1>4, <1>5 DEF AInv
<1>13. \A f \in Fids : item'[f] # NoItem => f \in Known'
  BY <1>8, <1>9 DEF AInv
<1> QED BY <1>7, <1>10, <1>11, <1>12, <1>13 DEF AInv

\* Expiry and deletion only forget.
LEMMA EnvironmentAnswers ==
    ASSUME IInv, AInv, UNCHANGED <<used, client>>,
           \A f \in Fids : item'[f] \in {item[f], NoItem}
    PROVE  AInv'
<1>1. Known' = Known /\ QueuedOnce'
  BY DEF Known, Queues, InFlight, QueuedOnce, AInv
<1>2. ToldOutcomeIsFinal'
  <2> SUFFICES ASSUME NEW d \in Clients, client[d].pc = "done", isTerminal(client[d].told)
               PROVE  item'[client[d].told.fid] = NoItem
                      \/ item'[client[d].told.fid].rec = client[d].told
    BY DEF ToldOutcomeIsFinal
  <2>1. client[d].told.fid \in Fids
    BY DEF IInv, TypeOK, Call, isTerminal, FinalizationRecord
  <2> QED BY <2>1 DEF AInv, ToldOutcomeIsFinal
<1>3. (\A d \in Clients : AnswerOK(client[d]))'
  BY DEF AInv
<1> QED BY <1>1, <1>2, <1>3 DEF AInv

\* Every step of a call keeps what callers were told.
LEMMA CallAnswers ==
    ASSUME IInv, IInv', AInv, NEW c \in Clients, Begin(c) \/ Step(c)
    PROVE  AInv'
<1> DEFINE k == client[c]
<1>1. k \in Call /\ CallOK(k) /\ AnswerOK(k)
  BY DEF IInv, TypeOK, NoStaleAuthority, AInv
<1>2. CASE Begin(c)
  BY <1>2, BeginAnswers
<1>3. CASE ReadPointer(c)
  <2> DEFINE n == IF session # "live" THEN Returned(k, "missing", NoRecord)
                  ELSE IF pointer = NoItem \/ (pointer # NoItem /\ pointer.expired)
                       THEN AfterLoad(k, NoItem, NoRecord)
                       ELSE [k EXCEPT !.pc = "record", !.ptr = pointer]
  <2>1. client' = [client EXCEPT ![c] = n] /\ k.pc = "pointer" /\ UNCHANGED <<item, used>>
    BY <1>3 DEF ReadPointer
  <2>2. AnswerOK(n) /\ n.told = NoRecord /\ n.cmd = k.cmd
    <3>1. CASE session # "live"
      BY <3>1, ReturnedAnswer
    <3>2. CASE session = "live" /\ (pointer = NoItem \/ (pointer # NoItem /\ pointer.expired))
      BY <1>1, <2>1, <3>2, LoadAnswer DEF RecordOrNone
    <3>3. CASE session = "live" /\ pointer # NoItem /\ ~pointer.expired
      <4>1. n = [k EXCEPT !.pc = "record", !.ptr = pointer]
        BY <3>3
      <4> HIDE DEF n
      <4>2. /\ n.pc = "record" /\ n.goal = k.goal /\ n.cmd = k.cmd /\ n.next = k.next
            /\ n.result = k.result /\ n.told = k.told
        BY <1>1, <4>1 DEF Call
      <4> QED BY <1>1, <2>1, <4>2 DEF AnswerOK
    <3> QED BY <3>1, <3>2, <3>3
  <2>3. n \in Call
    <3>1. client'[c] = n
      BY <2>1 DEF IInv, TypeOK
    <3> QED BY <3>1 DEF IInv, TypeOK
  <2> HIDE DEF n
  <2> QED BY <2>1, <2>2, <2>3, LocalAnswers DEF InFlight
<1>4. CASE ReadRecord(c)
  <2> DEFINE n == IF recordMatches(k.ptr) THEN AfterLoad(k, k.ptr, item[k.ptr.fid].rec)
                  ELSE Returned(k, "invalid_record", NoRecord)
  <2>1. client' = [client EXCEPT ![c] = n] /\ k.pc = "record" /\ UNCHANGED <<item, used>>
    BY <1>4 DEF ReadRecord
  <2>2. /\ AnswerOK(n) /\ n.cmd = k.cmd
        /\ n.told # NoRecord => \E f \in Fids : item[f] # NoItem /\ n.told = item[f].rec
    <3>1. CASE ~recordMatches(k.ptr)
      BY <3>1, ReturnedAnswer
    <3>2. CASE recordMatches(k.ptr)
      <4>1. k.ptr \in Pointer /\ k.ptr.fid \in Fids
        BY <1>1, <2>1 DEF CallOK, Call, Pointer
      <4>2. item[k.ptr.fid] # NoItem /\ item[k.ptr.fid].rec \in FinalizationRecord
        BY <3>2, <4>1 DEF IInv, TypeOK, recordMatches, Item
      <4>3. /\ AnswerOK(n) /\ n.told \in {NoRecord, item[k.ptr.fid].rec} /\ n.cmd = k.cmd
        BY <1>1, <2>1, <3>2, <4>1, <4>2, LoadAnswer DEF RecordOrNone
      <4> QED BY <4>1, <4>2, <4>3
    <3> QED BY <3>1, <3>2
  <2>3. n \in Call
    <3>1. client'[c] = n
      BY <2>1 DEF IInv, TypeOK
    <3> QED BY <3>1 DEF IInv, TypeOK
  <2> HIDE DEF n
  <2> QED BY <2>1, <2>2, <2>3, LocalAnswers DEF InFlight
<1>5. CASE ReadTtl(c)
  <2> DEFINE n == IF session = "live" THEN [k EXCEPT !.pc = "write", !.vrev = votingRev]
                  ELSE Returned(k, "persistence_failure", NoRecord)
  <2>1. client' = [client EXCEPT ![c] = n] /\ k.pc = "ttl" /\ UNCHANGED <<item, used>>
    BY <1>5 DEF ReadTtl
  <2>2. AnswerOK(n) /\ n.told = NoRecord /\ n.cmd = k.cmd
    <3>1. CASE session # "live"
      BY <3>1, ReturnedAnswer
    <3>2. CASE session = "live"
      <4>1. n = [k EXCEPT !.pc = "write", !.vrev = votingRev]
        BY <3>2
      <4> HIDE DEF n
      <4>2. /\ n.pc = "write" /\ n.goal = k.goal /\ n.cmd = k.cmd /\ n.next = k.next
            /\ n.result = k.result /\ n.told = k.told
        BY <1>1, <4>1 DEF Call
      <4> QED BY <1>1, <2>1, <4>2 DEF AnswerOK
    <3> QED BY <3>1, <3>2
  <2>3. n \in Call
    <3>1. client'[c] = n
      BY <2>1 DEF IInv, TypeOK
    <3> QED BY <3>1 DEF IInv, TypeOK
  <2> HIDE DEF n
  <2> QED BY <2>1, <2>2, <2>3, LocalAnswers DEF InFlight
<1>6. CASE Write(c)
  BY <1>6, WriteAnswers DEF Write
<1>7. CASE WriteLost(c)
  BY <1>7, WriteAnswers DEF WriteLost
<1>8. CASE WriteConflict(c)
  <2> DEFINE n == AfterConflict(k)
  <2>1. client' = [client EXCEPT ![c] = n] /\ k.pc = "write" /\ UNCHANGED <<item, used>>
    BY <1>8 DEF WriteConflict
  <2>2. AnswerOK(n) /\ n.told = NoRecord /\ n.cmd = k.cmd
    <3>1. k.result = "none" /\ k.told = NoRecord /\ k.goal \in {"transition", "commit"}
      BY <1>1, <2>1 DEF AnswerOK, CallOK
    <3>2. CASE k.goal = "transition"
      <4>1. n = Reading(k, "reload") /\ LoadedAuthority(k) /\ k.cmd \in Commands
        BY <1>1, <2>1, <3>2 DEF AfterConflict, CallOK
      <4>2. PICK cur \in RecordOrNone : isApplied(cur, k.cmd) /\ k.next = nextRecord(cur, k.cmd)
        BY <1>1, <3>2, <4>1 DEF LoadedAuthority, Call, RecordOrNone
      <4>3. k.cmd \in FinalizationCommand /\ (k.cmd.kind = "fail" => k.cmd.code \in Codes)
        BY <4>1, StoreConstants
      <4>4. k.next # NoRecord
        BY <4>2, <4>3, AppliedScenario, NextRecordType, PolicyConstants
      <4>5. AsksFor(k.cmd, k.next)
        BY <4>2, <4>4, NextRecordFields DEF AsksFor
      <4> QED BY <1>1, <3>1, <4>1, <4>5, ReadingAnswer DEF Goals
    <3>3. CASE k.goal = "commit" /\ k.tries + 1 = CommitAttempts
      <4>1. n = Returned(k, "persistence_failure", NoRecord)
        BY <3>3 DEF AfterConflict
      <4> QED BY <4>1, ReturnedAnswer
    <3>4. CASE k.goal = "commit" /\ k.tries + 1 # CommitAttempts
      <4> DEFINE j == [k EXCEPT !.tries = @ + 1]
      <4>1. j \in Call /\ j.cmd = k.cmd /\ j.result = "none" /\ j.told = NoRecord
        BY <1>1, <3>1 DEF Call
      <4>2. n = Reading(j, "commit")
        BY <3>4 DEF AfterConflict
      <4> HIDE DEF j
      <4> QED BY <4>1, <4>2, ReadingAnswer DEF Goals
    <3> QED BY <3>1, <3>2, <3>3, <3>4
  <2>3. n \in Call
    <3>1. client'[c] = n
      BY <2>1 DEF IInv, TypeOK
    <3> QED BY <3>1 DEF IInv, TypeOK
  <2> HIDE DEF n
  <2> QED BY <2>1, <2>2, <2>3, LocalAnswers DEF InFlight
<1>9. CASE RequestError(c)
  <2> DEFINE n == Returned(k, "persistence_failure", NoRecord)
  <2>1. client' = [client EXCEPT ![c] = n] /\ InFlight(c) /\ UNCHANGED <<item, used>>
    BY <1>9 DEF RequestError
  <2>2. AnswerOK(n) /\ n.told = NoRecord /\ n.cmd = k.cmd
    BY ReturnedAnswer
  <2>3. n \in Call
    BY <1>1, ReturnedOK DEF Results, RecordOrNone
  <2> HIDE DEF n
  <2> QED BY <2>1, <2>2, <2>3, LocalAnswers
<1> QED BY <1>2, <1>3, <1>4, <1>5, <1>6, <1>7, <1>8, <1>9 DEF Step

\* A write over a record that has left the queue is not a queue command.
LEMMA LeavesTheQueue ==
    ASSUME IInv, IInv', AInv, [Next]_vars
    PROVE  [NeverQueuedAgain]_vars
<1> SUFFICES ASSUME Current # NoRecord, Current.status # "pending"
             PROVE  Current' = NoRecord \/ Current'.status # "pending"
  BY DEF NeverQueuedAgain
<1>1. CASE Current' \in {Current, NoRecord}
  BY <1>1
<1>2. ASSUME NEW c \in Clients, client[c].pc = "write",
             writeCondition(client[c]), writeEffect(client[c])
      PROVE  Current'.status # "pending"
  <2> DEFINE k == client[c]
  <2>1. /\ k.cmd \in Commands /\ k.next = nextRecord(Current, k.cmd)
        /\ k.cmd \in FinalizationCommand /\ k.cmd.fid \in Fids
    BY <1>2, WriteApplies, StoreConstants DEF FinalizationCommand
  <2>2. k.ptr # NoItem
    BY <1>2 DEF writeCondition, Current
  <2>3. item[k.cmd.fid] # NoItem
    BY <1>2, <2>2 DEF writeCondition
  <2>4. k.cmd.kind # "queue"
    BY <1>2, <2>1, <2>3 DEF AInv, Known, Queues, InFlight
  <2>5. k.next.status = requestedFinalizationStatus(k.cmd)
    BY <2>1, NextRecordFields
  <2>6. k.next.status # "pending"
    BY <2>1, <2>4, <2>5 DEF requestedFinalizationStatus, FinalizationCommand, Kinds
  <2>7. pointer'.fid = k.cmd.fid /\ item'[k.cmd.fid].rec = k.next
    BY <1>2, <2>1 DEF writeEffect, IInv, TypeOK
  <2>8. pointer' # NoItem /\ item'[k.cmd.fid] # NoItem
    <3>1. k.ptr.rev + 1 \in Nat /\ k.next \in FinalizationRecord
      BY <1>2, <2>2, WriteApplies DEF IInv, TypeOK, Call, Pointer
    <3>2. pointer' \in Pointer /\ item'[k.cmd.fid] \in Item
      BY <1>2, <2>1, <2>2, <3>1 DEF writeEffect, Pointer, Item, IInv, TypeOK
    <3> QED BY <3>2, StoreConstants
  <2> QED BY <2>6, <2>7, <2>8 DEF Current
<1>3. CASE \E c \in Clients : Begin(c) \/ Step(c)
  <2>1. ASSUME NEW c \in Clients, Begin(c) \/ ReadPointer(c) \/ ReadRecord(c) \/ ReadTtl(c)
                                  \/ WriteConflict(c) \/ RequestError(c)
        PROVE  Current' = Current
    BY <2>1 DEF Begin, ReadPointer, ReadRecord, ReadTtl, WriteConflict, RequestError, Current
  <2> QED BY <1>1, <1>2, <1>3, <2>1 DEF Step, Write, WriteLost
<1>4. CASE Environment
  <2>1. CASE ExpirePointer
    BY <1>1, <2>1, StoreConstants DEF ExpirePointer, Current, IInv, TypeOK, Pointer
  <2>2. CASE DeletePointer
    BY <1>1, <2>2 DEF DeletePointer, Current
  <2>3. CASE DeleteItem
    BY <1>1, <2>3 DEF DeleteItem, Current, IInv, TypeOK, Pointer
  <2>4. CASE TouchSession \/ ExpireSession \/ DeleteSession
    BY <1>1, <2>4 DEF TouchSession, ExpireSession, DeleteSession, Current
  <2> QED BY <1>4, <2>1, <2>2, <2>3, <2>4 DEF Environment
<1>5. CASE UNCHANGED vars
  BY <1>1, <1>5 DEF vars, Current
<1> QED BY <1>3, <1>4, <1>5 DEF Next

\* Whichever of success, failure, cancel and timeout comes first, a caller that was
\* told an outcome was told the one the table holds until it is forgotten, an
\* accepted command was told its own record, and what has left the queue does not
\* return to it (applyFinalizationTransition, markAwsFinalizationSucceeded).
THEOREM ToldIsKept == Spec => AnswersHold
<1>1. Init => AInv
  <2> SUFFICES ASSUME Init PROVE AInv
    OBVIOUS
  <2>1. Idle.pc = "idle" /\ Idle.result = "none" /\ Idle.told = NoRecord
    BY DEF Idle
  <2>2. AnswerOK(Idle)
    BY <2>1 DEF AnswerOK
  <2> QED BY <2>1, <2>2 DEF Init, AInv, QueuedOnce, Queues, InFlight, ToldOutcomeIsFinal
<1>2. IInv /\ IInv' /\ AInv /\ [Next]_vars => AInv'
  <2> SUFFICES ASSUME IInv, IInv', AInv, [Next]_vars PROVE AInv'
    OBVIOUS
  <2>1. CASE \E c \in Clients : Begin(c) \/ Step(c)
    BY <2>1, CallAnswers
  <2>2. CASE Environment \/ UNCHANGED vars
    <3>1. UNCHANGED <<used, client>> /\ \A f \in Fids : item'[f] \in {item[f], NoItem}
      BY <2>2 DEF Environment, TouchSession, ExpirePointer, ExpireSession, DeletePointer,
                  DeleteItem, DeleteSession, vars, IInv, TypeOK
    <3> QED BY <3>1, EnvironmentAnswers
  <2> QED BY <2>1, <2>2 DEF Next
<1>3. AInv => ToldOutcomeIsFinal /\ ToldWhatWasAsked
  BY DEF AInv, AnswerOK, AsksFor, ToldWhatWasAsked
<1>4. IInv /\ IInv' /\ AInv /\ [Next]_vars => [NeverQueuedAgain]_vars
  BY LeavesTheQueue
<1> QED BY <1>1, <1>2, <1>3, <1>4, Invariance, PTL DEF Spec, AnswersHold

=============================================================================

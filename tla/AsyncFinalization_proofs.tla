---------------------- MODULE AsyncFinalization_proofs ----------------------
(***************************************************************************)
(* Proofs about AsyncFinalization, for any number of finalize requests and *)
(* dispatchers and any bounds on time, deliveries, retries and faults.     *)
(***************************************************************************)
EXTENDS AsyncFinalization, FinalizationPolicy_proofs

-----------------------------------------------------------------------------
\* The inductive invariant.

\* Who holds a record, an error code or a callback when it needs one.
Held ==
    /\ \A f \in Fids : request[f].pc = "failing" => request[f].code \in Codes
    /\ \A f \in Fids : writer[f].pc # "idle" => writer[f].callback \in Callbacks
    /\ cancel.pc \in {"stop", "write"} => cancel.snap \in FinalizationRecord
    /\ sweep.pc # "idle" => sweep.snap \in FinalizationRecord

\* The current record is that of a request that was made.
RecordIsRequested ==
    cur # NoRecord =>
        /\ request[cur.fid].pc # "idle"
        /\ cur.queuedAt = request[cur.fid].queuedAt
        /\ cur.status = "pending" => cur.startedAt = NoTime

isCur(f) == cur # NoRecord /\ cur.fid = f

\* A request under way is that of the current record.
RequestsAreCurrent ==
    \A f \in Fids :
        /\ request[f].queuedAt <= now
        /\ request[f].pc \in {"persist", "publish", "failing"} => isCur(f) /\ request[f].told = f
        /\ request[f].pc = "publish" => f \in input
        /\ request[f].pc = "accepted" => isCur(request[f].told)

\* Messages, invocations and executions are for a stored input, inputs for the
\* current record.
WorkIsCurrent ==
    /\ queue \subseteq input
    /\ \A f \in input : isCur(f)
    /\ \A d \in Dispatchers : dispatcher[d].pc # "idle" => dispatcher[d].fid \in input
    /\ \A f \in Fids : exec[f].state # "none" => f \in input

\* An execution's callback has the time and the job that it reports.
ExecutionsInOrder ==
    \A f \in Fids :
        /\ exec[f].state \in {"none", "VerifyImageSignature"} => job[f].state = "none"
        /\ exec[f].state # "none" => request[f].queuedAt <= exec[f].entered
        /\ exec[f].state = "CallbackSucceeded" =>
                job[f].state = "succeeded" /\ job[f].startedAt <= exec[f].entered
        /\ exec[f].state = "none" => writer[f].pc = "idle"

\* A container that has started took its time after the request and before now.
JobsInOrder ==
    \A f \in Fids :
        /\ job[f].state \in {"none", "waiting"} => job[f].startedAt = NoTime
        /\ job[f].state \in {"admitting", "storing", "proving", "succeeded"} => job[f].startedAt # NoTime
        /\ job[f].startedAt # NoTime =>
                request[f].queuedAt <= job[f].startedAt /\ job[f].startedAt <= now
        /\ f \in bundles => job[f].state = "succeeded"

\* A callback invocation reports the time its state was entered, and commits
\* the start time of the container that succeeded.
WritersInOrder ==
    \A f \in Fids :
        /\ writer[f].pc # "idle" => request[f].queuedAt <= writer[f].at
        /\ writer[f].pc # "idle" /\ writer[f].callback = "CallbackSucceeded" =>
                job[f].state = "succeeded" /\ job[f].startedAt <= writer[f].at
        /\ writer[f].pc = "commit" =>
                /\ writer[f].callback = "CallbackSucceeded"
                /\ f \in bundles
                /\ writer[f].startedAt = job[f].startedAt

\* The start time of a record is the one of its container, which had asked for it.
StartedByContainer ==
    cur # NoRecord /\ cur.status \in {"running", "succeeded"} =>
        /\ job[cur.fid].state \notin {"none", "waiting", "admitting"}
        /\ cur.startedAt = job[cur.fid].startedAt

\* What a cancel request has read is of the current finalization.
CancelReadCurrent ==
    cancel.pc \in {"stop", "write"} =>
        /\ isCur(cancel.snap.fid)
        /\ \/ cancel.snap.startedAt = NoTime
           \/ /\ cur.queuedAt <= cancel.snap.startedAt
              /\ cancel.snap.startedAt <= now

Typed == TypeOK /\ Held

Attempt == RecordIsRequested /\ RequestsAreCurrent /\ WorkIsCurrent

Order == ExecutionsInOrder /\ JobsInOrder /\ WritersInOrder /\ StartedByContainer

Outcome == SuccessWasProved /\ SucceededExecutionRecorded /\ CancelReadCurrent /\ CancelEndsAttempt

IInv == Typed /\ Attempt /\ Order /\ Outcome

-----------------------------------------------------------------------------
\* Commands and what they make of the current record.

\* A command about a finalization is well formed.
LEMMA CommandType ==
    ASSUME TypeOK, NEW f \in Fids, NEW kind \in Kinds, NEW s \in Nat \cup {NoTime},
           NEW at \in Nat, NEW code \in Codes \cup {NoCode}
    PROVE  LET m == Command(kind, f, s, at, code)
           IN  /\ m \in FinalizationCommand
               /\ m.kind = kind /\ m.fid = f /\ m.queuedAt = request[f].queuedAt
               /\ m.startedAt = s /\ m.at = at /\ m.code = code /\ m.scenario = NoScenario
               /\ m.resultOk
BY DEF TypeOK, Command, FinalizationCommand

\* A command leaves the record as it is, or replaces an unfinished record of its
\* own finalization by the one it asks for.
LEMMA AfterCommand ==
    ASSUME TypeOK, NEW m \in FinalizationCommand, m.kind = "fail" => m.code \in Codes,
           NEW next \in {cur, After(m)}
    PROVE  /\ next \in RecordOrNone
           /\ cur # NoRecord => next # NoRecord /\ next.fid = cur.fid
           /\ cur = NoRecord /\ m.scenario = NoScenario => next = NoRecord
           /\ isTerminal(cur) => next = cur
           /\ next # cur => /\ next \in FinalizationRecord /\ admitCommand(m)
                            /\ next.fid = m.fid
                            /\ next.status = requestedFinalizationStatus(m)
                            /\ next.queuedAt = m.queuedAt
                            /\ next.startedAt = IF m.kind = "queue" THEN NoTime ELSE m.startedAt
<1>0. cur \in RecordOrNone
  BY DEF TypeOK, RecordOrNone
<1>1. CASE next = cur
  BY <1>0, <1>1
<1>2. CASE next # cur
  <2>1. isApplied(cur, m) /\ next = nextRecord(cur, m)
    BY <1>2 DEF After
  <2>2. next \in FinalizationRecord
    BY <1>0, <2>1, AppliedScenario, NextRecordType
  <2>3. cur # NoRecord => cur.fid = m.fid /\ isUnfinished(cur)
    BY <1>0, <2>1, AppliedToUnfinished DEF RecordOrNone
  <2>4. cur = NoRecord => m.scenario # NoScenario
    BY <2>1, NotAppliedToNothing
  <2>5. admitCommand(m)
    BY <2>1 DEF isApplied, isInvalid
  <2>6. ~isTerminal(cur)
    BY <2>3 DEF isTerminal, isUnfinished, TerminalStatuses
  <2> HIDE DEF NoTime
  <2>7. next # NoRecord
    BY <2>2, PolicyConstants
  <2> QED BY <1>2, <2>1, <2>2, <2>3, <2>4, <2>5, <2>6, <2>7, NextRecordFields DEF RecordOrNone
<1> QED BY <1>1, <1>2

\* An admitted command that ends the current finalization leaves it ended.
LEMMA AfterEnding ==
    ASSUME TypeOK, NEW m \in FinalizationCommand, m.kind = "fail" => m.code \in Codes,
           m.kind \in {"succeed", "fail", "time_out", "cancel"}, m.resultOk,
           admitCommand(m), cur # NoRecord, cur.fid = m.fid
    PROVE  isTerminal(After(m))
<1>1. cur \in FinalizationRecord
  BY DEF TypeOK
<1>2. CASE isUnfinished(cur)
  <2>1. isApplied(cur, m)
    BY <1>1, <1>2, EndingApplies
  <2>2. After(m) = nextRecord(cur, m)
    BY <2>1 DEF After
  <2>3. After(m) # NoRecord
    BY <1>1, <2>1, <2>2, AppliedScenario, NextRecordType, PolicyConstants DEF RecordOrNone
  <2>4. requestedFinalizationStatus(m) \in TerminalStatuses
    BY DEF requestedFinalizationStatus, TerminalStatuses
  <2> QED BY <2>2, <2>3, <2>4, NextRecordFields DEF isTerminal
<1>3. CASE ~isUnfinished(cur)
  <2>1. isTerminal(cur)
    BY <1>1, <1>3 DEF isTerminal, isUnfinished, FinalizationRecord, Statuses, TerminalStatuses
  <2> QED BY <2>1, AfterCommand
<1> QED BY <1>2, <1>3

\* The record goes on: it is of the same request, its outcome stays, and a new
\* status is a later one.
RecordGoesOn ==
    /\ cur' \in FinalizationRecord \cup {NoRecord}
    /\ cur = NoRecord => cur' = NoRecord
    /\ cur # NoRecord => cur' # NoRecord /\ cur'.fid = cur.fid /\ cur'.queuedAt = cur.queuedAt
    /\ isTerminal(cur) => cur' = cur
    /\ cur' # cur => cur'.status # "pending"

\* What the commands that the components build make of the record.
LEMMA CommandMoves ==
    ASSUME TypeOK, RecordIsRequested, NEW f \in Fids, NEW kind \in Kinds \ {"queue"},
           NEW s \in Nat \cup {NoTime}, NEW at \in Nat,
           NEW code \in Codes \cup {NoCode}, kind = "fail" => code \in Codes,
           cur' \in {cur, After(Command(kind, f, s, at, code))}
    PROVE  /\ RecordGoesOn
           /\ cur' # cur => /\ cur # NoRecord /\ cur.fid = f
                            /\ cur'.startedAt = s
                            /\ cur'.status = "running" => kind = "start"
                            /\ cur'.status = "succeeded" => kind = "succeed"
<1> DEFINE m == Command(kind, f, s, at, code)
<1>1. /\ m \in FinalizationCommand
      /\ m.kind = kind /\ m.fid = f /\ m.queuedAt = request[f].queuedAt
      /\ m.startedAt = s /\ m.code = code /\ m.scenario = NoScenario
  BY CommandType
<1>2. cur' \in {cur, After(m)}
  OBVIOUS
<1> HIDE DEF m
<1>3. /\ requestedFinalizationStatus(m) # "pending"
      /\ requestedFinalizationStatus(m) = "running" => kind = "start"
      /\ requestedFinalizationStatus(m) = "succeeded" => kind = "succeed"
  BY <1>1 DEF requestedFinalizationStatus, Kinds
<1>4. /\ cur' \in RecordOrNone
      /\ cur # NoRecord => cur' # NoRecord /\ cur'.fid = cur.fid
      /\ cur = NoRecord => cur' = NoRecord
      /\ isTerminal(cur) => cur' = cur
      /\ cur' # cur => /\ cur'.fid = f /\ cur'.queuedAt = request[f].queuedAt /\ cur'.startedAt = s
                       /\ cur'.status = requestedFinalizationStatus(m)
  BY <1>1, <1>2, AfterCommand
<1> QED BY <1>3, <1>4 DEF RecordGoesOn, RecordIsRequested, RecordOrNone

\* A command that reports a failure makes no record running or succeeded.
LEMMA FailureMoves ==
    ASSUME TypeOK, Attempt, NEW f \in Fids, NEW kind \in {"fail", "time_out", "cancel"},
           NEW s \in Nat \cup {NoTime}, NEW at \in Nat,
           NEW code \in Codes \cup {NoCode}, kind = "fail" => code \in Codes,
           cur' \in {cur, After(Command(kind, f, s, at, code))}
    PROVE  RecordGoesOn /\ (cur' # cur => cur'.status \notin {"running", "succeeded"})
<1>1. kind \in Kinds \ {"queue"} /\ kind # "start" /\ kind # "succeed"
  BY DEF Kinds
<1>2. RecordIsRequested
  BY DEF Attempt
<1>3. /\ RecordGoesOn
      /\ cur' # cur => /\ cur'.status = "running" => kind = "start"
                       /\ cur'.status = "succeeded" => kind = "succeed"
  BY <1>1, <1>2, CommandMoves
<1> QED BY <1>1, <1>3

\* An end of the current finalization whose times are in order is recorded, or
\* another one has been.
LEMMA CommandEnds ==
    ASSUME TypeOK, NEW f \in Fids, isCur(f),
           NEW kind \in {"succeed", "fail", "time_out", "cancel"},
           NEW s \in Nat \cup {NoTime}, NEW at \in Nat,
           NEW code \in Codes \cup {NoCode}, kind = "fail" => code \in Codes,
           kind = "succeed" => s # NoTime,
           request[f].queuedAt <= at, s # NoTime => request[f].queuedAt <= s /\ s <= at
    PROVE  isTerminal(After(Command(kind, f, s, at, code)))
<1> DEFINE m == Command(kind, f, s, at, code)
<1>1. /\ m \in FinalizationCommand
      /\ m.kind = kind /\ m.fid = f /\ m.queuedAt = request[f].queuedAt
      /\ m.startedAt = s /\ m.at = at /\ m.code = code /\ m.resultOk
  BY CommandType DEF Kinds
<1> HIDE DEF m
<1>2. request[f].queuedAt \in Nat
  BY DEF TypeOK
<1>3. admitCommand(m)
  BY <1>1, <1>2 DEF admitCommand, hasValidStartedAt, hasValidOptionalStartedAt, hasValidTerminalAt, NoTime
<1> QED BY <1>1, <1>3, AfterEnding DEF isCur, m

\* A queue command leaves a record, that of its own id where there was none.
LEMMA AfterQueue ==
    ASSUME TypeOK, NEW m \in FinalizationCommand, m.kind = "queue", m.scenario # NoScenario
    PROVE  /\ After(m) \in FinalizationRecord
           /\ cur = NoRecord => After(m) = nextRecord(NoRecord, m)
<1>1. CASE cur = NoRecord
  <2>1. isApplied(cur, m)
    BY <1>1, QueueApplies
  <2>2. After(m) = nextRecord(cur, m)
    BY <2>1 DEF After
  <2> QED BY <1>1, <2>1, <2>2, AppliedScenario, NextRecordType DEF RecordOrNone
<1>2. CASE cur # NoRecord
  BY <1>2, AfterCommand DEF RecordOrNone
<1> QED BY <1>1, <1>2

-----------------------------------------------------------------------------
\* Steps that replace a part of one member of a table.

RequestRecord ==
    [pc : {"idle", "persist", "publish", "failing", "accepted", "refused"},
     queuedAt : Nat, told : Fids, code : Codes \cup {NoCode}]

JobStates == {"none", "waiting", "admitting", "storing", "proving", "succeeded", "failed"}

LEMMA RequestGoesOn ==
    ASSUME TypeOK, NEW f \in Fids, NEW pc \in {"publish", "accepted", "refused"},
           request' = [request EXCEPT ![f].pc = pc]
    PROVE  /\ request' \in [Fids -> RequestRecord]
           /\ request'[f].pc = pc
           /\ request'[f].queuedAt = request[f].queuedAt /\ request'[f].told = request[f].told
           /\ \A g \in Fids : g # f => request'[g] = request[g]
<1> DEFINE r == [request[f] EXCEPT !.pc = pc]
<1>0. request \in [Fids -> RequestRecord]
  BY DEF TypeOK, RequestRecord
<1>1. r \in RequestRecord /\ r.pc = pc /\ r.queuedAt = request[f].queuedAt /\ r.told = request[f].told
  BY <1>0 DEF RequestRecord
<1>2. request' = [request EXCEPT ![f] = r]
  BY <1>0
<1> HIDE DEF r
<1> QED BY <1>0, <1>1, <1>2

LEMMA RequestFails ==
    ASSUME TypeOK, NEW f \in Fids, NEW c \in Codes,
           request' = [request EXCEPT ![f].pc = "failing", ![f].code = c]
    PROVE  /\ request' \in [Fids -> RequestRecord]
           /\ request'[f].pc = "failing" /\ request'[f].code = c
           /\ request'[f].queuedAt = request[f].queuedAt /\ request'[f].told = request[f].told
           /\ \A g \in Fids : g # f => request'[g] = request[g]
<1> DEFINE q == [request[f] EXCEPT !.pc = "failing"]
<1> DEFINE r == [q EXCEPT !.code = c]
<1> DEFINE first == [request EXCEPT ![f] = q]
<1>0. request \in [Fids -> RequestRecord]
  BY DEF TypeOK, RequestRecord
<1>1. q \in RequestRecord /\ q.pc = "failing" /\ q.queuedAt = request[f].queuedAt /\ q.told = request[f].told
  BY <1>0 DEF RequestRecord
<1>2. first \in [Fids -> RequestRecord] /\ first[f] = q
  BY <1>0, <1>1
<1>3. request' = [first EXCEPT ![f] = r]
  BY <1>0, <1>2
<1> HIDE DEF q
<1>4. r \in RequestRecord /\ r.pc = "failing" /\ r.code = c
      /\ r.queuedAt = request[f].queuedAt /\ r.told = request[f].told
  BY <1>1 DEF RequestRecord
<1> HIDE DEF r
<1> QED BY <1>0, <1>2, <1>3, <1>4

LEMMA JobChanges ==
    ASSUME TypeOK, NEW f \in Fids, NEW s \in JobStates, job' = [job EXCEPT ![f].state = s]
    PROVE  /\ job' \in [Fids -> Job]
           /\ job'[f].state = s /\ job'[f].startedAt = job[f].startedAt
           /\ \A g \in Fids : g # f => job'[g] = job[g]
<1> DEFINE j == [job[f] EXCEPT !.state = s]
<1>0. job \in [Fids -> Job]
  BY DEF TypeOK
<1>1. j \in Job /\ j.state = s /\ j.startedAt = job[f].startedAt
  BY <1>0 DEF Job, JobStates
<1>2. job' = [job EXCEPT ![f] = j]
  BY <1>0
<1> HIDE DEF j
<1> QED BY <1>0, <1>1, <1>2

ExecStates == OpenStates \cup ClosedStates \cup {"none"}

LEMMA Enters ==
    ASSUME TypeOK, NEW f \in Fids, NEW s \in ExecStates, exec' = Enter(f, s)
    PROVE  /\ exec' \in [Fids -> Execution]
           /\ exec'[f].state = s /\ exec'[f].entered = now /\ exec'[f].stopped = exec[f].stopped
           /\ \A g \in Fids : g # f => exec'[g] = exec[g]
<1> DEFINE e == [exec[f] EXCEPT !.state = s, !.entered = now, !.tries = 0]
<1>0. exec \in [Fids -> Execution] /\ now \in Nat
  BY AsyncConstants DEF TypeOK, MaxTime
<1>1. e \in Execution /\ e.state = s /\ e.entered = now /\ e.stopped = exec[f].stopped
  BY <1>0 DEF Execution, ExecStates
<1>2. exec' = [exec EXCEPT ![f] = e]
  BY <1>0 DEF Enter
<1> HIDE DEF e
<1> QED BY <1>0, <1>1, <1>2

LEMMA Closes ==
    ASSUME TypeOK, NEW f \in Fids, NEW s \in ExecStates, exec' = Close(f, s)
    PROVE  /\ exec' \in [Fids -> Execution]
           /\ exec'[f].state = s /\ exec'[f].entered = exec[f].entered /\ exec'[f].stopped = now
           /\ \A g \in Fids : g # f => exec'[g] = exec[g]
<1> DEFINE e == [exec[f] EXCEPT !.state = s, !.stopped = now]
<1>0. exec \in [Fids -> Execution] /\ now \in Nat
  BY AsyncConstants DEF TypeOK, MaxTime
<1>1. e \in Execution /\ e.state = s /\ e.entered = exec[f].entered /\ e.stopped = now
  BY <1>0 DEF Execution, ExecStates
<1>2. exec' = [exec EXCEPT ![f] = e]
  BY <1>0 DEF Close
<1> HIDE DEF e
<1> QED BY <1>0, <1>1, <1>2
\* A record of the writer's invocations.
Invocation ==
    [pc : {"idle", "run", "commit"}, callback : Callbacks \cup {"none"},
     at : Nat, startedAt : Nat \cup {NoTime}]

\* An invocation begins to commit the start time of the record.
LEMMA InvocationCommits ==
    ASSUME TypeOK, NEW f \in Fids, NEW s \in Nat \cup {NoTime},
           writer' = [writer EXCEPT ![f].pc = "commit", ![f].startedAt = s]
    PROVE  /\ writer' \in [Fids -> Invocation]
           /\ writer'[f].pc = "commit" /\ writer'[f].startedAt = s
           /\ writer'[f].callback = writer[f].callback /\ writer'[f].at = writer[f].at
           /\ \A g \in Fids : g # f => writer'[g] = writer[g]
<1> DEFINE v == [writer[f] EXCEPT !.pc = "commit"]
<1> DEFINE w == [v EXCEPT !.startedAt = s]
<1> DEFINE first == [writer EXCEPT ![f] = v]
<1>0. writer \in [Fids -> Invocation]
  BY DEF TypeOK, Invocation
<1>1. v \in Invocation /\ v.pc = "commit" /\ v.callback = writer[f].callback /\ v.at = writer[f].at
  BY <1>0 DEF Invocation
<1>2. first \in [Fids -> Invocation] /\ first[f] = v
  BY <1>0, <1>1
<1>3. writer' = [first EXCEPT ![f] = w]
  BY <1>0, <1>2
<1> HIDE DEF v
<1>4. w \in Invocation /\ w.pc = "commit" /\ w.startedAt = s
      /\ w.callback = writer[f].callback /\ w.at = writer[f].at
  BY <1>1 DEF Invocation
<1> HIDE DEF w
<1> QED BY <1>0, <1>2, <1>3, <1>4

\* An invocation ends: its execution is closed, waits for a retry, or was stopped
\* before.
LEMMA InvocationEnds ==
    ASSUME TypeOK, NEW f \in Fids, Returns(f) \/ ThrowsTransient(f) \/ ThrowsFatal(f)
    PROVE  /\ writer' \in [Fids -> Invocation] /\ writer'[f] = NoInvocation
           /\ exec' \in [Fids -> Execution]
           /\ \A g \in Fids : g # f => writer'[g] = writer[g] /\ exec'[g] = exec[g]
           /\ exec'[f].entered = exec[f].entered
           /\ \/ exec'[f].state = exec[f].state
              \/ exec[f].state \in Callbacks /\ exec'[f].state \in {"SUCCEEDED", "FAILED"}
           /\ ThrowsTransient(f) \/ ThrowsFatal(f) =>
                (exec'[f].state = "SUCCEEDED" => exec[f].state = "SUCCEEDED")
<1>0. exec \in [Fids -> Execution] /\ writer \in [Fids -> Invocation]
  BY DEF TypeOK, Invocation
<1>1. writer' = [writer EXCEPT ![f] = NoInvocation] /\ NoInvocation \in Invocation
  BY DEF Returns, ThrowsTransient, ThrowsFatal, NoInvocation, Invocation
<1>2. writer' \in [Fids -> Invocation] /\ writer'[f] = NoInvocation
      /\ \A g \in Fids : g # f => writer'[g] = writer[g]
  <2> HIDE DEF NoInvocation, Invocation
  <2> QED BY <1>0, <1>1
<1>3. \/ exec' = exec
      \/ exec[f].state \in Callbacks /\ exec' = [exec EXCEPT ![f].tries = @ + 1]
      \/ exec[f].state \in Callbacks /\ exec' = Close(f, "FAILED")
      \/ /\ exec[f].state \in Callbacks /\ exec' = Close(f, "SUCCEEDED")
         /\ ~(ThrowsTransient(f) \/ ThrowsFatal(f))
  BY DEF Returns, ThrowsTransient, ThrowsFatal
<1>4. CASE exec' = exec
  BY <1>0, <1>2, <1>4
<1>5. CASE exec[f].state \in Callbacks /\ exec' = [exec EXCEPT ![f].tries = @ + 1]
  <2> DEFINE e == [exec[f] EXCEPT !.tries = @ + 1]
  <2>1. e \in Execution /\ e.state = exec[f].state /\ e.entered = exec[f].entered
    BY <1>0 DEF Execution
  <2>2. exec' = [exec EXCEPT ![f] = e]
    BY <1>0, <1>5
  <2> HIDE DEF e
  <2> QED BY <1>0, <1>2, <2>1, <2>2
<1>6. CASE exec[f].state \in Callbacks /\ exec' = Close(f, "FAILED")
  BY <1>2, <1>6, Closes DEF ExecStates, ClosedStates
<1>7. CASE /\ exec[f].state \in Callbacks /\ exec' = Close(f, "SUCCEEDED")
           /\ ~(ThrowsTransient(f) \/ ThrowsFatal(f))
  BY <1>2, <1>7, Closes DEF ExecStates, ClosedStates
<1> QED BY <1>3, <1>4, <1>5, <1>6, <1>7

\* A busy dispatcher moves on with its message or becomes idle.
LEMMA DispatcherMoves ==
    ASSUME TypeOK, NEW d \in Dispatchers, dispatcher[d].pc # "idle",
           \/ dispatcher' = [dispatcher EXCEPT ![d] = Idle]
           \/ \E pc \in {"start", "existing"} : dispatcher' = [dispatcher EXCEPT ![d].pc = pc]
    PROVE  /\ dispatcher' \in [Dispatchers -> {Idle} \cup [pc : {"admit", "start", "existing"}, fid : Fids]]
           /\ \A e \in Dispatchers :
                dispatcher'[e].pc # "idle" => dispatcher[e].pc # "idle" /\ dispatcher'[e].fid = dispatcher[e].fid
<1> DEFINE Busy == [pc : {"admit", "start", "existing"}, fid : Fids]
<1>1. dispatcher[d] \in Busy /\ dispatcher \in [Dispatchers -> {Idle} \cup Busy]
  BY DEF TypeOK, Idle
<1>2. CASE dispatcher' = [dispatcher EXCEPT ![d] = Idle]
  BY <1>1, <1>2 DEF Idle
<1>3. ASSUME NEW pc \in {"start", "existing"}, dispatcher' = [dispatcher EXCEPT ![d].pc = pc]
      PROVE  /\ dispatcher' \in [Dispatchers -> {Idle} \cup Busy]
             /\ \A e \in Dispatchers :
                  dispatcher'[e].pc # "idle" => dispatcher[e].pc # "idle" /\ dispatcher'[e].fid = dispatcher[e].fid
  <2> DEFINE b == [dispatcher[d] EXCEPT !.pc = pc]
  <2>1. b \in Busy /\ b.fid = dispatcher[d].fid
    BY <1>1
  <2>2. dispatcher' = [dispatcher EXCEPT ![d] = b]
    BY <1>3
  <2> HIDE DEF b, Busy
  <2> QED BY <1>1, <2>1, <2>2
<1> QED BY <1>2, <1>3

\* The error codes of the components are codes of failures.
LEMMA ErrorCodes ==
    /\ "PROVER_INPUT_UPLOAD_FAILED" \in Codes /\ "SQS_PUBLISH_FAILED" \in Codes
    /\ "PROVER_IMAGE_SIGNATURE_FAILED" \in Codes /\ "PROVER_TASK_FAILED" \in Codes
    /\ "FINALIZATION_BUNDLE_RESTORE_FAILED" \in Codes
    /\ "FINALIZATION_DISPATCH_TIMEOUT" \in Codes /\ "FINALIZATION_OUTCOME_UNRECORDED" \in Codes
    /\ "PROVER_EXECUTION_FAILED" \in Codes /\ "PROVER_EXECUTION_ABORTED" \in Codes
BY AsyncConstants

-----------------------------------------------------------------------------
\* What keeps each part of the invariant, whoever takes the step.

\* Time passes.
Later == now \in Nat /\ now' \in Nat /\ now <= now'

LEMMA AttemptKept ==
    ASSUME Typed, Attempt, RecordGoesOn, Later, request' = request, input' = input, queue' \subseteq queue,
           \A d \in Dispatchers : dispatcher'[d].pc # "idle" => dispatcher'[d].fid \in input,
           \A f \in Fids : exec'[f].state # "none" => exec[f].state # "none" \/ f \in input
    PROVE  Attempt'
<1>1. \A f \in Fids : isCur(f) => isCur(f)'
  BY DEF RecordGoesOn, isCur
<1>2. request \in [Fids -> RequestRecord] /\ input \subseteq Fids
  BY DEF Typed, TypeOK, RequestRecord
<1>3. RecordIsRequested'
  BY DEF Attempt, RecordIsRequested, RecordGoesOn
<1>4. RequestsAreCurrent'
  BY <1>1, <1>2 DEF Attempt, RequestsAreCurrent, Later, RequestRecord
<1>5. WorkIsCurrent'
  BY <1>1, <1>2 DEF Attempt, WorkIsCurrent
<1> QED BY <1>3, <1>4, <1>5 DEF Attempt

\* Requests move on but keep their times; the rest stands still or is over.
LEMMA OrderKept ==
    ASSUME Typed, Order, RecordGoesOn, Later,
           \A f \in Fids : request'[f].queuedAt = request[f].queuedAt,
           exec' = exec, job' = job, writer' = writer, bundles' = bundles,
           cur' # cur => cur'.status \notin {"running", "succeeded"}
    PROVE  Order'
<1>1. ExecutionsInOrder'
  BY DEF Order, ExecutionsInOrder
<1>2. JobsInOrder'
  BY DEF Order, JobsInOrder, Later, Typed, TypeOK, Job, NoTime
<1>3. WritersInOrder'
  BY DEF Order, WritersInOrder
<1>4. StartedByContainer'
  BY DEF Order, StartedByContainer, RecordGoesOn
<1> QED BY <1>1, <1>2, <1>3, <1>4 DEF Order

LEMMA OutcomeKept ==
    ASSUME Typed, Outcome, RecordGoesOn, Later, cancel' = cancel,
           \A f \in Fids : f \in bundles => f \in bundles',
           \A f \in Fids : job[f].state = "succeeded" => job'[f] = job[f],
           \A f \in Fids : exec'[f].state = "SUCCEEDED" => exec[f].state = "SUCCEEDED" \/ isTerminal(cur'),
           cur' # cur => cur'.status # "succeeded"
    PROVE  Outcome'
<1>0. cur \in FinalizationRecord \cup {NoRecord} /\ cur' \in FinalizationRecord \cup {NoRecord}
  BY DEF Typed, TypeOK, RecordGoesOn
<1>1. SuccessWasProved'
  BY <1>0 DEF Outcome, SuccessWasProved, RecordGoesOn, FinalizationRecord
<1>2. SucceededExecutionRecorded'
  BY DEF Outcome, SucceededExecutionRecorded, RecordGoesOn
<1>3. CancelReadCurrent'
  <2>1. cancel.pc \in {"stop", "write"} => cancel.snap.startedAt \in Nat \cup {NoTime}
    BY DEF Typed, Held, FinalizationRecord
  <2> QED BY <2>1 DEF Outcome, CancelReadCurrent, isCur, RecordGoesOn, Later, NoTime
<1>4. CancelEndsAttempt'
  BY DEF Outcome, CancelEndsAttempt, RecordGoesOn
<1> QED BY <1>1, <1>2, <1>3, <1>4 DEF Outcome

-----------------------------------------------------------------------------
\* Every step keeps the invariant.

\* What no step does: it does not change the finalization, nor the start time of
\* a container that has started, nor start a proof without a running record.
Steady ==
    /\ cur # NoRecord => cur' # NoRecord /\ cur'.fid = cur.fid
    /\ \A f \in Fids : job[f].state # "waiting" => job'[f].startedAt = job[f].startedAt
    /\ NoProofAfterOutcome

LEMMA Clock ==
    ASSUME TypeOK
    PROVE  now \in Nat
BY AsyncConstants DEF TypeOK, MaxTime

\* A request that is queued starts the attempt, or is told of the one there is.
LEMMA QueueKeeps ==
    ASSUME IInv, NEW f \in Fids, markFinalizationQueued(f)
    PROVE  IInv' /\ Steady
<1> USE DEF IInv
<1>1. PICK sc \in Scenarios :
        LET m == [kind |-> "queue", fid |-> f, queuedAt |-> now, startedAt |-> NoTime,
                  at |-> now, code |-> NoCode, scenario |-> sc, resultOk |-> TRUE]
            next == After(m)
        IN  /\ cur' = next
            /\ request' = [request EXCEPT ![f] =
                 [pc |-> IF next.status = "pending" /\ next.fid = f THEN "persist" ELSE "accepted",
                  queuedAt |-> now, told |-> next.fid, code |-> NoCode]]
  BY DEF markFinalizationQueued
<1> DEFINE m == [kind |-> "queue", fid |-> f, queuedAt |-> now, startedAt |-> NoTime,
                 at |-> now, code |-> NoCode, scenario |-> sc, resultOk |-> TRUE]
<1>2. now \in Nat
  BY Clock DEF Typed
<1>3. m \in FinalizationCommand /\ m.kind = "queue" /\ m.fid = f /\ m.queuedAt = now /\ m.scenario # NoScenario
  BY <1>2, PolicyConstants DEF FinalizationCommand, Kinds, NoTime, NoCode
<1> HIDE DEF m
<1>4. cur' = After(m) /\ cur' \in FinalizationRecord /\ cur' # NoRecord
  BY <1>1, <1>3, AfterQueue, PolicyConstants DEF m, Typed
<1> DEFINE r == [pc |-> IF cur'.status = "pending" /\ cur'.fid = f THEN "persist" ELSE "accepted",
                 queuedAt |-> now, told |-> cur'.fid, code |-> NoCode]
<1>5. r \in RequestRecord /\ r.queuedAt = now /\ r.told = cur'.fid
      /\ r.pc \in {"persist", "accepted"} /\ (r.pc = "persist" => cur'.fid = f)
  BY <1>2, <1>4 DEF RequestRecord, FinalizationRecord
<1>6. request' = [request EXCEPT ![f] = r]
  BY <1>1, <1>4 DEF m
<1> HIDE DEF r
<1>7. request \in [Fids -> RequestRecord]
  BY DEF Typed, TypeOK, RequestRecord
<1>8. request' \in [Fids -> RequestRecord] /\ request'[f] = r
      /\ \A g \in Fids : g # f => request'[g] = request[g]
  BY <1>5, <1>6, <1>7
<1>9. request[f].pc = "idle"
  BY DEF markFinalizationQueued
<1>10. Typed'
  <2>1. TypeOK'
    BY <1>4, <1>8 DEF Typed, TypeOK, RequestRecord, markFinalizationQueued
  <2>2. Held'
    BY <1>5, <1>8 DEF Typed, Held, markFinalizationQueued
  <2> QED BY <2>1, <2>2 DEF Typed
<1>11. ~isCur(f) /\ f \notin input /\ exec[f].state = "none" /\ job[f].state = "none"
       /\ job[f].startedAt = NoTime /\ f \notin bundles /\ writer[f].pc = "idle"
  BY <1>9 DEF Attempt, RecordIsRequested, WorkIsCurrent, isCur, Order, ExecutionsInOrder, JobsInOrder
<1>12. ExecutionsInOrder' /\ JobsInOrder' /\ WritersInOrder'
  BY <1>8, <1>11 DEF Order, ExecutionsInOrder, JobsInOrder, WritersInOrder, markFinalizationQueued
<1>13. CASE cur # NoRecord
  <2>1. cur' = cur
    BY <1>3, <1>4, <1>11, <1>13, AfterCommand DEF isCur, Typed
  <2>2. RecordGoesOn /\ Later
    BY <1>2, <1>4, <1>13, <2>1 DEF RecordGoesOn, Later, markFinalizationQueued
  <2>3. RecordIsRequested'
    BY <1>8, <1>11, <2>1 DEF Attempt, RecordIsRequested, isCur, Typed, TypeOK, FinalizationRecord
  <2>4. RequestsAreCurrent'
    BY <1>2, <1>5, <1>8, <1>13, <2>1 DEF Attempt, RequestsAreCurrent, isCur, markFinalizationQueued
  <2>5. WorkIsCurrent'
    BY <2>1 DEF Attempt, WorkIsCurrent, isCur, markFinalizationQueued
  <2>6. StartedByContainer'
    BY <2>1 DEF Order, StartedByContainer, markFinalizationQueued
  <2>7. Outcome'
    BY <2>1, <2>2, OutcomeKept DEF markFinalizationQueued
  <2> QED BY <1>10, <1>12, <1>13, <2>1, <2>3, <2>4, <2>5, <2>6, <2>7
          DEF Attempt, Order, Steady, NoProofAfterOutcome, markFinalizationQueued
<1>14. CASE cur = NoRecord
  <2>1. cur' = nextRecord(NoRecord, m)
    BY <1>3, <1>4, <1>14, AfterQueue DEF Typed
  <2>2. cur'.fid = f /\ cur'.queuedAt = now /\ cur'.status = "pending" /\ cur'.startedAt = NoTime
    BY <1>3, <2>1, NextRecordFields DEF requestedFinalizationStatus
  <2>3. \A g : ~isCur(g)
    BY <1>14 DEF isCur
  <2>4. RecordIsRequested'
    BY <1>5, <1>8, <2>2 DEF RecordIsRequested
  <2>5. RequestsAreCurrent'
    BY <1>2, <1>4, <1>5, <1>8, <2>2, <2>3 DEF Attempt, RequestsAreCurrent, isCur, markFinalizationQueued
  <2>6. WorkIsCurrent'
    BY <2>3 DEF Attempt, WorkIsCurrent, markFinalizationQueued
  <2>7. StartedByContainer' /\ SuccessWasProved'
    BY <2>2 DEF StartedByContainer, SuccessWasProved
  <2>8. SucceededExecutionRecorded' /\ CancelReadCurrent' /\ CancelEndsAttempt'
    BY <1>14, <2>3 DEF Outcome, SucceededExecutionRecorded, CancelReadCurrent, CancelEndsAttempt,
                       isTerminal, markFinalizationQueued
  <2> QED BY <1>10, <1>12, <1>14, <2>4, <2>5, <2>6, <2>7, <2>8
          DEF Attempt, Order, Outcome, Steady, NoProofAfterOutcome, markFinalizationQueued
<1> QED BY <1>13, <1>14

\* A request's own steps after that, with the pointwise effect of each.
LEMMA RequestKeeps ==
    ASSUME IInv, NEW f \in Fids, RequestStep(f)
    PROVE  IInv' /\ Steady
<1> USE DEF IInv
<1>0. TypeOK /\ Held /\ now \in Nat
  BY Clock DEF Typed
<1>1. CASE markFinalizationQueued(f)
  BY <1>1, QueueKeeps
<1>2. CASE persistAsyncProverInput(f) \/ publish(f) \/ writeAsyncFailure(f)
  <2>1. \/ \E pc \in {"publish", "accepted", "refused"} : request' = [request EXCEPT ![f].pc = pc]
        \/ \E c \in Codes : request' = [request EXCEPT ![f].pc = "failing", ![f].code = c]
    BY <1>2, ErrorCodes DEF persistAsyncProverInput, publish, writeAsyncFailure
  <2>2. /\ request' \in [Fids -> RequestRecord]
        /\ request'[f].pc # "idle"
        /\ request'[f].pc = "failing" => request'[f].code \in Codes
        /\ request'[f].queuedAt = request[f].queuedAt /\ request'[f].told = request[f].told
        /\ \A g \in Fids : g # f => request'[g] = request[g]
    BY <1>0, <2>1, RequestGoesOn, RequestFails
  <2>3. request[f].pc \in {"persist", "publish", "failing"} /\ isCur(f)
    BY <1>2 DEF persistAsyncProverInput, publish, writeAsyncFailure, Attempt, RequestsAreCurrent
  <2>4. /\ input' \in {input, input \cup {f}} /\ queue' \in {queue, queue \cup {f}}
        /\ queue' # queue => f \in input
        /\ request'[f].pc = "publish" => f \in input'
        /\ request'[f].pc = "accepted" => request[f].pc = "publish"
        /\ faults' \in 0..MaxFaults
    <3>1. CASE persistAsyncProverInput(f)
      BY <1>0, <3>1, RequestGoesOn, RequestFails, ErrorCodes, AsyncConstants
         DEF persistAsyncProverInput, Fault, TypeOK
    <3>2. CASE publish(f)
      BY <1>0, <3>2, RequestGoesOn, RequestFails, ErrorCodes, AsyncConstants
         DEF publish, Fault, TypeOK, Attempt, RequestsAreCurrent
    <3>3. CASE writeAsyncFailure(f)
      BY <1>0, <3>3, RequestGoesOn DEF writeAsyncFailure, TypeOK
    <3> QED BY <1>2, <3>1, <3>2, <3>3
  <2>5. /\ RecordGoesOn
        /\ cur' # cur => cur'.status \notin {"running", "succeeded"}
    <3>1. CASE writeAsyncFailure(f)
      <4>1. request[f].code \in Codes
        BY <1>0, <3>1 DEF Held, writeAsyncFailure
      <4>2. cur' = After(Command("fail", f, NoTime, now, request[f].code))
        BY <3>1 DEF writeAsyncFailure
      <4> QED BY <1>0, <4>1, <4>2, FailureMoves
    <3>2. CASE cur' = cur
      BY <1>0, <3>2 DEF RecordGoesOn, TypeOK
    <3> QED BY <1>2, <3>1, <3>2 DEF persistAsyncProverInput, publish
  <2>6. UNCHANGED <<now, receives, dispatcher, exec, job, bundles, writer, arns, cancel, sweep>>
    BY <1>2 DEF persistAsyncProverInput, publish, writeAsyncFailure
  <2>7. Typed'
    <3>1. TypeOK'
      BY <1>0, <2>2, <2>4, <2>5, <2>6 DEF TypeOK, RequestRecord, RecordGoesOn
    <3>2. Held'
      BY <1>0, <2>2, <2>6 DEF Held
    <3> QED BY <3>1, <3>2 DEF Typed
  <2>8. Attempt'
    <3>1. \A g \in Fids : isCur(g) => isCur(g)'
      BY <2>5 DEF RecordGoesOn, isCur
    <3>2. RecordIsRequested'
      <4>1. cur # NoRecord => cur.fid \in Fids
        BY <1>0 DEF TypeOK, FinalizationRecord
      <4>2. \A g \in Fids : /\ request'[g].queuedAt = request[g].queuedAt
                            /\ request[g].pc # "idle" => request'[g].pc # "idle"
        BY <2>2
      <4> QED BY <2>5, <4>1, <4>2 DEF Attempt, RecordIsRequested, RecordGoesOn
    <3>3. RequestsAreCurrent'
      <4>1. \A g \in Fids : request[g].told \in Fids
        BY <1>0 DEF TypeOK
      <4>2. ASSUME NEW g \in Fids, g # f
            PROVE  /\ request'[g].queuedAt <= now'
                   /\ request'[g].pc \in {"persist", "publish", "failing"} => isCur(g)' /\ request'[g].told = g
                   /\ request'[g].pc = "publish" => g \in input'
                   /\ request'[g].pc = "accepted" => isCur(request[g].told)'
        BY <2>2, <2>4, <2>6, <3>1, <4>1, <4>2 DEF Attempt, RequestsAreCurrent
      <4>3. request[f].queuedAt <= now /\ request[f].told = f
        BY <2>3 DEF Attempt, RequestsAreCurrent
      <4>4. /\ request'[f].queuedAt <= now'
            /\ request'[f].pc \in {"persist", "publish", "failing"} => isCur(f)' /\ request'[f].told = f
            /\ request'[f].pc = "publish" => f \in input'
            /\ request'[f].pc = "accepted" => isCur(request[f].told)'
        BY <2>2, <2>3, <2>4, <2>6, <3>1, <4>3
      <4> QED BY <4>2, <4>4 DEF RequestsAreCurrent
    <3>4. WorkIsCurrent'
      BY <1>0, <2>3, <2>4, <2>6, <3>1 DEF Attempt, WorkIsCurrent, TypeOK
    <3> QED BY <3>2, <3>3, <3>4 DEF Attempt
  <2>9. Later
    BY <1>0, <2>6 DEF Later
  <2>10. Order' /\ Outcome'
    BY <2>2, <2>5, <2>6, <2>9, OrderKept, OutcomeKept
  <2> QED BY <2>5, <2>6, <2>7, <2>8, <2>10 DEF Steady, NoProofAfterOutcome, RecordGoesOn
<1> QED BY <1>1, <1>2 DEF RequestStep

\* Dispatchers act on messages only, and start an execution where there is none.
LEMMA DispatchKeeps ==
    ASSUME IInv, NEW d \in Dispatchers, Dispatch(d)
    PROVE  IInv' /\ Steady
<1> USE DEF IInv
<1> DEFINE Busy == [pc : {"admit", "start", "existing"}, fid : Fids]
<1>0. TypeOK /\ Held /\ now \in Nat
  BY Clock DEF Typed
<1>1. UNCHANGED <<now, cur, request, input, job, bundles, writer, arns, cancel, sweep>>
  BY DEF Dispatch, Receive, admitPendingFinalization, dispatchProverRecord, acknowledgeExistingExecution
<1>2. RecordGoesOn /\ Later
  BY <1>0, <1>1 DEF RecordGoesOn, Later, TypeOK
<1>3. /\ dispatcher' \in [Dispatchers -> {Idle} \cup Busy]
      /\ \A e \in Dispatchers : dispatcher'[e].pc # "idle" => dispatcher'[e].fid \in input
      /\ queue' \subseteq queue
      /\ receives' \in [Fids -> 0..MaxReceives]
      /\ faults' \in 0..MaxFaults
  <2>1. CASE Receive(d)
    <3>1. PICK f \in queue : /\ receives[f] < MaxReceives
                             /\ receives' = [receives EXCEPT ![f] = @ + 1]
                             /\ dispatcher' = [dispatcher EXCEPT ![d] = [pc |-> "admit", fid |-> f]]
      BY <2>1 DEF Receive
    <3>2. f \in Fids /\ f \in input
      BY <1>0 DEF TypeOK, Attempt, WorkIsCurrent
    <3>3. receives' \in [Fids -> 0..MaxReceives]
      BY <1>0, <3>1, <3>2, AsyncConstants DEF TypeOK
    <3>4. dispatcher' \in [Dispatchers -> {Idle} \cup Busy]
      BY <1>0, <3>1, <3>2 DEF TypeOK
    <3>5. \A e \in Dispatchers : dispatcher'[e].pc # "idle" => dispatcher'[e].fid \in input
      BY <1>0, <3>1, <3>2 DEF TypeOK, Attempt, WorkIsCurrent
    <3> QED BY <1>0, <2>1, <3>3, <3>4, <3>5 DEF Receive, TypeOK
  <2>2. CASE ~Receive(d)
    <3>1. dispatcher[d].pc # "idle"
      BY <2>2 DEF Dispatch, admitPendingFinalization, dispatchProverRecord, acknowledgeExistingExecution
    <3>2. \/ dispatcher' = [dispatcher EXCEPT ![d] = Idle]
          \/ dispatcher' = [dispatcher EXCEPT ![d].pc = "start"]
          \/ dispatcher' = [dispatcher EXCEPT ![d].pc = "existing"]
      BY <2>2 DEF Dispatch, admitPendingFinalization, dispatchProverRecord, acknowledgeExistingExecution,
                  Acknowledge, Throw
    <3>3. /\ dispatcher' \in [Dispatchers -> {Idle} \cup Busy]
          /\ \A e \in Dispatchers :
               dispatcher'[e].pc # "idle" => dispatcher[e].pc # "idle" /\ dispatcher'[e].fid = dispatcher[e].fid
      BY <1>0, <3>1, <3>2, DispatcherMoves
    <3>4. queue' \subseteq queue /\ receives' = receives
      BY <2>2 DEF Dispatch, admitPendingFinalization, dispatchProverRecord, acknowledgeExistingExecution,
                  Acknowledge, Throw
    <3>5. faults' \in 0..MaxFaults
      BY <1>0, <2>2, AsyncConstants
         DEF Dispatch, admitPendingFinalization, dispatchProverRecord, acknowledgeExistingExecution, Fault, TypeOK
    <3>6. receives' \in [Fids -> 0..MaxReceives]
      BY <1>0, <3>4 DEF TypeOK
    <3>7. \A e \in Dispatchers : dispatcher'[e].pc # "idle" => dispatcher'[e].fid \in input
      BY <3>3 DEF Attempt, WorkIsCurrent
    <3> QED BY <3>3, <3>4, <3>5, <3>6, <3>7
  <2> QED BY <2>1, <2>2
<1>4. /\ exec' \in [Fids -> Execution]
      /\ \A f \in Fids : \/ exec'[f] = exec[f]
                         \/ /\ f \in input /\ exec[f].state = "none"
                            /\ exec'[f].state = "VerifyImageSignature" /\ exec'[f].entered = now
  <2>1. CASE exec' = exec
    BY <1>0, <2>1 DEF TypeOK
  <2>2. CASE /\ dispatcher[d].pc = "start"
             /\ exec[dispatcher[d].fid].state = "none"
             /\ exec' = startedExecution(dispatcher[d].fid)
    <3> DEFINE f == dispatcher[d].fid
               e == [state |-> "VerifyImageSignature", entered |-> now, stopped |-> 0, tries |-> 0]
    <3>1. f \in Fids /\ f \in input
      BY <1>0, <2>2 DEF TypeOK, Attempt, WorkIsCurrent
    <3>2. e \in Execution /\ e.state = "VerifyImageSignature" /\ e.entered = now
      BY <1>0 DEF Execution, OpenStates
    <3>3. exec' = [exec EXCEPT ![f] = e]
      BY <2>2 DEF startedExecution
    <3>4. exec \in [Fids -> Execution] /\ exec[f].state = "none"
      BY <1>0, <2>2 DEF TypeOK
    <3> HIDE DEF e, f
    <3> QED BY <3>1, <3>2, <3>3, <3>4
  <2> QED BY <2>1, <2>2
          DEF Dispatch, Receive, admitPendingFinalization, dispatchProverRecord, acknowledgeExistingExecution
<1>5. Typed'
  <2>1. TypeOK'
    BY <1>0, <1>1, <1>3, <1>4 DEF TypeOK
  <2>2. Held'
    BY <1>0, <1>1 DEF Held
  <2> QED BY <2>1, <2>2 DEF Typed
<1>6. Attempt'
  BY <1>1, <1>2, <1>3, <1>4, AttemptKept
<1>7. Order'
  <2>1. ExecutionsInOrder'
    <3>1. \A f \in Fids : request[f].queuedAt <= now
      BY DEF Attempt, RequestsAreCurrent
    <3> QED BY <1>1, <1>4, <3>1 DEF Order, ExecutionsInOrder
  <2>2. JobsInOrder' /\ WritersInOrder' /\ StartedByContainer'
    BY <1>1 DEF Order, JobsInOrder, WritersInOrder, StartedByContainer
  <2> QED BY <2>1, <2>2 DEF Order
<1>8. Outcome'
  BY <1>1, <1>2, <1>4, OutcomeKept
<1> QED BY <1>1, <1>5, <1>6, <1>7, <1>8 DEF Steady, NoProofAfterOutcome

\* The queue gives up a message.
LEMMA DeadLetterKeeps ==
    ASSUME IInv, NEW f \in Fids, DeadLetter(f)
    PROVE  IInv' /\ Steady
<1> USE DEF IInv
<1>0. TypeOK /\ Held /\ now \in Nat
  BY Clock DEF Typed
<1>1. /\ UNCHANGED <<now, cur, request, input, receives, dispatcher, exec, job, bundles,
                     writer, arns, cancel, sweep, faults>>
      /\ queue' \subseteq queue
  BY DEF DeadLetter
<1>2. RecordGoesOn /\ Later
  BY <1>0, <1>1 DEF RecordGoesOn, Later, TypeOK
<1>3. Typed'
  BY <1>0, <1>1 DEF Typed, TypeOK, Held
<1>4. Attempt'
  BY <1>1, <1>2, AttemptKept DEF Attempt, WorkIsCurrent
<1>5. Order' /\ Outcome'
  BY <1>1, <1>2, OrderKept, OutcomeKept
<1> QED BY <1>1, <1>3, <1>4, <1>5 DEF Steady, NoProofAfterOutcome

\* The execution moves to its next state, and its callback is invoked.
LEMMA AdvanceKeeps ==
    ASSUME IInv, NEW f \in Fids, Advance(f) \/ AbortExecution(f)
    PROVE  IInv' /\ Steady
<1> USE DEF IInv
<1>0. TypeOK /\ Held /\ now \in Nat
  BY Clock DEF Typed
<1>1. UNCHANGED <<now, cur, request, input, queue, receives, dispatcher, bundles, arns, cancel, sweep>>
  BY DEF Advance, VerifyImageSignature, RunProver, InvokeWriter, AbortExecution
<1>2. RecordGoesOn /\ Later
  BY <1>0, <1>1 DEF RecordGoesOn, Later, TypeOK
<1>3. faults' \in 0..MaxFaults
  BY <1>0, AsyncConstants
     DEF Advance, VerifyImageSignature, RunProver, InvokeWriter, AbortExecution, Fault, TypeOK
<1>a. \A g \in Fids : request[g].queuedAt <= now
  BY DEF Attempt, RequestsAreCurrent
<1>4. /\ exec' \in [Fids -> Execution] /\ job' \in [Fids -> Job] /\ writer' \in [Fids -> Invocation]
      /\ \A g \in Fids : g # f => exec'[g] = exec[g] /\ job'[g] = job[g] /\ writer'[g] = writer[g]
      /\ exec[f].state # "none" /\ exec'[f].state \notin {"none", "VerifyImageSignature", "SUCCEEDED"}
      /\ request[f].queuedAt <= exec'[f].entered
      /\ exec'[f].state = "CallbackSucceeded" =>
            job'[f].state = "succeeded" /\ job'[f].startedAt <= exec'[f].entered
      /\ job'[f].startedAt = job[f].startedAt
      /\ \/ job'[f].state = job[f].state
         \/ job[f].state = "none" /\ job'[f].state = "waiting"
      /\ \/ writer'[f] = writer[f]
         \/ /\ writer'[f].pc = "run" /\ writer'[f].callback \in Callbacks
            /\ request[f].queuedAt <= writer'[f].at
            /\ writer'[f].callback = "CallbackSucceeded" =>
                  job'[f].state = "succeeded" /\ job'[f].startedAt <= writer'[f].at
  <2>0. exec \in [Fids -> Execution] /\ job \in [Fids -> Job] /\ writer \in [Fids -> Invocation]
    BY <1>0 DEF TypeOK, Invocation
  <2>1. CASE VerifyImageSignature(f)
    <3>1. job[f].state = "none" /\ exec[f].state = "VerifyImageSignature" /\ writer' = writer
      BY <2>1 DEF VerifyImageSignature, Order, ExecutionsInOrder
    <3>2. CASE exec' = Enter(f, "RunProver") /\ job' = [job EXCEPT ![f].state = "waiting"]
      <4>1. "RunProver" \in ExecStates /\ "waiting" \in JobStates
        BY DEF ExecStates, OpenStates, JobStates
      <4>2. /\ exec' \in [Fids -> Execution] /\ exec'[f].state = "RunProver" /\ exec'[f].entered = now
            /\ \A g \in Fids : g # f => exec'[g] = exec[g]
        BY <1>0, <3>2, <4>1, Enters
      <4>3. /\ job' \in [Fids -> Job] /\ job'[f].state = "waiting" /\ job'[f].startedAt = job[f].startedAt
            /\ \A g \in Fids : g # f => job'[g] = job[g]
        BY <1>0, <3>2, <4>1, JobChanges
      <4> QED BY <1>a, <2>0, <3>1, <4>2, <4>3
    <3>3. CASE exec' = Enter(f, "CallbackSignatureFailed") /\ job' = job
      <4>1. "CallbackSignatureFailed" \in ExecStates
        BY DEF ExecStates, OpenStates, Callbacks
      <4> QED BY <1>0, <1>a, <2>0, <3>1, <3>3, <4>1, Enters
    <3> QED BY <2>1, <3>2, <3>3 DEF VerifyImageSignature
  <2>2. CASE RunProver(f)
    <3>1. exec[f].state = "RunProver" /\ job' = job /\ writer' = writer
      BY <2>2 DEF RunProver
    <3>2. PICK s \in {"CallbackSucceeded", "CallbackFailed", "CallbackTimedOut"} :
            exec' = Enter(f, s) /\ (s = "CallbackSucceeded" => job[f].state = "succeeded")
      BY <2>2 DEF RunProver
    <3>3. s \in ExecStates
      BY DEF ExecStates, OpenStates, Callbacks
    <3>4. job[f].state = "succeeded" => job[f].startedAt <= now
      BY DEF Order, JobsInOrder
    <3> QED BY <1>0, <1>a, <2>0, <3>1, <3>2, <3>3, <3>4, Enters
  <2>3. CASE InvokeWriter(f)
    <3> DEFINE w == [pc |-> "run", callback |-> exec[f].state, at |-> exec[f].entered, startedAt |-> NoTime]
    <3>1. exec[f].state \in Callbacks /\ job' = job /\ exec' = exec /\ writer' = [writer EXCEPT ![f] = w]
      BY <2>3 DEF InvokeWriter
    <3>2. w \in Invocation /\ w.pc = "run" /\ w.callback = exec[f].state /\ w.at = exec[f].entered
      BY <2>0, <3>1 DEF Invocation, Execution
    <3>3. exec[f].state \notin {"none", "VerifyImageSignature", "SUCCEEDED"}
      BY <3>1 DEF Callbacks
    <3> HIDE DEF w
    <3>4. writer' \in [Fids -> Invocation] /\ writer'[f] = w /\ \A g \in Fids : g # f => writer'[g] = writer[g]
      BY <2>0, <3>1, <3>2
    <3> QED BY <2>0, <3>1, <3>2, <3>3, <3>4 DEF Order, ExecutionsInOrder
  <2>4. CASE AbortExecution(f)
    <3>1. exec[f].state \in OpenStates /\ exec' = Close(f, "ABORTED") /\ job' = job /\ writer' = writer
      BY <2>4 DEF AbortExecution
    <3>2. "ABORTED" \in ExecStates /\ exec[f].state # "none"
      BY <3>1 DEF ExecStates, OpenStates, Callbacks, ClosedStates
    <3> QED BY <1>0, <2>0, <3>1, <3>2, Closes DEF Order, ExecutionsInOrder
  <2> QED BY <2>1, <2>2, <2>3, <2>4 DEF Advance
<1>5. Typed'
  <2>1. TypeOK'
    BY <1>0, <1>1, <1>3, <1>4 DEF TypeOK, Invocation
  <2>2. Held'
    BY <1>0, <1>1, <1>4 DEF Held
  <2> QED BY <2>1, <2>2 DEF Typed
<1>6. Attempt'
  BY <1>1, <1>2, <1>4, AttemptKept DEF Attempt, WorkIsCurrent
<1>7. Order'
  <2>1. ExecutionsInOrder'
    BY <1>1, <1>4 DEF Order, ExecutionsInOrder
  <2>2. JobsInOrder'
    BY <1>1, <1>4 DEF Order, JobsInOrder
  <2>3. WritersInOrder'
    BY <1>1, <1>4 DEF Order, WritersInOrder
  <2>4. StartedByContainer'
    BY <1>0, <1>1, <1>4 DEF Order, StartedByContainer, TypeOK, FinalizationRecord
  <2> QED BY <2>1, <2>2, <2>3, <2>4 DEF Order
<1>8. Outcome'
  <2>1. \A g \in Fids : job[g].state = "succeeded" => job'[g] = job[g]
    BY <1>0, <1>4 DEF TypeOK, Job
  <2> QED BY <1>1, <1>2, <1>4, <2>1, OutcomeKept
<1>9. Steady
  BY <1>1, <1>4 DEF Steady, NoProofAfterOutcome
<1> QED BY <1>5, <1>6, <1>7, <1>8, <1>9

\* The container starts, asks for its admission, proves and ends.
LEMMA ContainerKeeps ==
    ASSUME IInv, NEW f \in Fids, Container(f)
    PROVE  IInv' /\ Steady
<1> USE DEF IInv
<1>0. TypeOK /\ Held /\ now \in Nat /\ job \in [Fids -> Job]
  BY Clock DEF Typed, TypeOK
<1>1. UNCHANGED <<now, request, input, queue, receives, dispatcher, exec, writer, cancel, sweep>>
  BY DEF Container, StartContainer, admit_batch_prover_start, loadAppliedFinalizationRecord,
         run_host_and_upload, TerminateJob
<1>2. Later
  BY <1>0, <1>1 DEF Later
<1>3. arns' \subseteq Fids /\ faults' \in 0..MaxFaults
  BY <1>0, AsyncConstants
     DEF Container, StartContainer, admit_batch_prover_start, loadAppliedFinalizationRecord,
         run_host_and_upload, TerminateJob, Fault, TypeOK
<1>4. /\ RecordGoesOn
      /\ cur' # cur => /\ cur'.fid = f /\ cur'.status # "succeeded"
                       /\ cur'.status = "running" => /\ job[f].state = "admitting"
                                                     /\ cur'.startedAt = job[f].startedAt
  <2>1. CASE cur' = cur
    BY <1>0, <2>1 DEF RecordGoesOn, TypeOK
  <2>2. CASE admit_batch_prover_start(f)
    <3>1. job[f].startedAt \in Nat \cup {NoTime}
      BY <1>0 DEF Job
    <3>2. cur' \in {cur, After(Command("start", f, job[f].startedAt, 0, NoCode))}
      BY <2>2 DEF admit_batch_prover_start
    <3> QED BY <1>0, <2>2, <3>1, <3>2, CommandMoves
            DEF Attempt, Kinds, RecordGoesOn, admit_batch_prover_start
  <2> QED BY <2>1, <2>2 DEF Container, StartContainer, loadAppliedFinalizationRecord,
                            run_host_and_upload, TerminateJob
<1>5. /\ job' \in [Fids -> Job]
      /\ \A g \in Fids : g # f => job'[g] = job[g]
      /\ job[f].state \notin {"none", "succeeded", "failed"} /\ job'[f].state \notin {"none", "waiting"}
      /\ job[f].state # "waiting" => job'[f].state # "admitting" /\ job'[f].startedAt = job[f].startedAt
      /\ job[f].state = "waiting" => \/ job'[f].state = "failed" /\ job'[f].startedAt = job[f].startedAt
                                     \/ job'[f].state = "admitting" /\ job'[f].startedAt = now
      /\ job'[f].state = "succeeded" => job[f].state = "proving"
      /\ job'[f].state \in {"storing", "proving"} => job[f].state # "waiting"
      /\ job'[f].state = "proving" => job[f].state = "storing" /\ isCurrent(f, {"running"})
      /\ bundles' \in {bundles, bundles \cup {f}}
      /\ bundles' # bundles => job'[f].state = "succeeded"
  <2>1. CASE StartContainer(f)
    <3> DEFINE j == [state |-> "admitting", startedAt |-> now]
    <3>1. j \in Job /\ j.state = "admitting" /\ j.startedAt = now
      BY <1>0 DEF Job
    <3>2. job[f].state = "waiting" /\ job' = [job EXCEPT ![f] = j] /\ bundles' = bundles
      BY <2>1 DEF StartContainer
    <3> HIDE DEF j
    <3> QED BY <1>0, <3>1, <3>2
  <2>2. CASE ~StartContainer(f)
    <3>1. PICK s \in {"storing", "proving", "succeeded", "failed"} :
            /\ job' = [job EXCEPT ![f].state = s]
            /\ job[f].state \in LiveJob
            /\ s # "failed" => job[f].state # "waiting"
            /\ s = "succeeded" => job[f].state = "proving"
            /\ s = "proving" => job[f].state = "storing" /\ isCurrent(f, {"running"})
            /\ bundles' \in {bundles, bundles \cup {f}}
            /\ bundles' # bundles => s = "succeeded"
      <4>1. CASE admit_batch_prover_start(f)
        BY <4>1 DEF admit_batch_prover_start, LiveJob
      <4>2. CASE loadAppliedFinalizationRecord(f)
        BY <4>2 DEF loadAppliedFinalizationRecord, LiveJob
      <4>3. CASE run_host_and_upload(f)
        BY <4>3 DEF run_host_and_upload, LiveJob
      <4>4. CASE TerminateJob(f)
        BY <4>4 DEF TerminateJob, LiveJob
      <4> QED BY <2>2, <4>1, <4>2, <4>3, <4>4 DEF Container
    <3>2. s \in JobStates
      BY DEF JobStates
    <3>3. /\ job' \in [Fids -> Job]
          /\ job'[f].state = s /\ job'[f].startedAt = job[f].startedAt
          /\ \A g \in Fids : g # f => job'[g] = job[g]
      BY <1>0, <3>1, <3>2, JobChanges
    <3> QED BY <3>1, <3>3 DEF LiveJob
  <2> QED BY <2>1, <2>2
<1>6. \A g \in Fids : job[g].state = "succeeded" => job'[g] = job[g]
  BY <1>5
<1>7. Typed'
  <2>1. TypeOK'
    BY <1>0, <1>1, <1>3, <1>4, <1>5 DEF TypeOK, RecordGoesOn
  <2>2. Held'
    BY <1>0, <1>1 DEF Held
  <2> QED BY <2>1, <2>2 DEF Typed
<1>8. Attempt'
  BY <1>1, <1>2, <1>4, AttemptKept DEF Attempt, WorkIsCurrent
<1>9. Order'
  <2>1. ExecutionsInOrder'
    BY <1>1, <1>5 DEF Order, ExecutionsInOrder
  <2>2. JobsInOrder'
    <3>1. \A g \in Fids : request[g].queuedAt <= now
      BY DEF Attempt, RequestsAreCurrent
    <3>2. job[f].state \in JobStates /\ job'[f].state \in JobStates
      BY <1>0, <1>5 DEF Job, JobStates
    <3>3. now # NoTime
      BY <1>0 DEF NoTime
    <3> DEFINE Ok(g) == /\ job[g].state \in {"none", "waiting"} => job[g].startedAt = NoTime
                        /\ job[g].state \in {"admitting", "storing", "proving", "succeeded"} =>
                              job[g].startedAt # NoTime
                        /\ job[g].startedAt # NoTime =>
                              request[g].queuedAt <= job[g].startedAt /\ job[g].startedAt <= now
                        /\ g \in bundles => job[g].state = "succeeded"
    <3>4. \A g \in Fids : Ok(g)
      BY DEF Order, JobsInOrder
    <3>5. \A g \in Fids : g # f => Ok(g)'
      BY <1>1, <1>5, <3>4
    <3>6. Ok(f)'
      <4>1. CASE job[f].state = "waiting" /\ job'[f].state = "admitting" /\ job'[f].startedAt = now
        BY <1>0, <1>1, <1>5, <3>1, <3>3, <3>4, <4>1
      <4>2. CASE job[f].state = "waiting" /\ job'[f].state = "failed" /\ job'[f].startedAt = job[f].startedAt
        BY <1>1, <1>5, <3>4, <4>2
      <4>3. CASE job[f].state \in {"admitting", "storing", "proving"}
        BY <1>1, <1>5, <3>4, <4>3
      <4> QED BY <1>5, <3>2, <4>1, <4>2, <4>3 DEF JobStates
    <3> QED BY <3>5, <3>6 DEF JobsInOrder
  <2>3. WritersInOrder'
    BY <1>1, <1>5, <1>6 DEF Order, WritersInOrder
  <2>4. StartedByContainer'
    <3>1. cur # NoRecord => cur.fid \in Fids
      BY <1>0 DEF TypeOK, FinalizationRecord
    <3> QED BY <1>4, <1>5, <3>1 DEF Order, StartedByContainer, RecordGoesOn
  <2> QED BY <2>1, <2>2, <2>3, <2>4 DEF Order
<1>10. Outcome'
  BY <1>1, <1>2, <1>4, <1>5, <1>6, OutcomeKept
<1>11. Steady
  BY <1>4, <1>5 DEF Steady, NoProofAfterOutcome, RecordGoesOn, isCurrent, Order, StartedByContainer
<1> QED BY <1>7, <1>8, <1>9, <1>10, <1>11

\* A callback records an outcome, or ends without one and does not report success.
LEMMA CallbackKeeps ==
    ASSUME IInv, NEW f \in Fids, Callback(f)
    PROVE  IInv' /\ Steady
<1> USE DEF IInv
<1>0. TypeOK /\ Held /\ now \in Nat /\ writer \in [Fids -> Invocation]
  BY Clock DEF Typed, TypeOK, Invocation
<1>1. UNCHANGED <<now, request, input, queue, receives, dispatcher, job, bundles, cancel, sweep>>
  BY DEF Callback, writeFailure, bindAdmittedStartedAt, commitAwsSuccess
<1>2. Later
  BY <1>0, <1>1 DEF Later
<1>3. arns' \subseteq Fids /\ faults' \in 0..MaxFaults
  BY <1>0, AsyncConstants
     DEF Callback, writeFailure, bindAdmittedStartedAt, commitAwsSuccess, Fault, TypeOK
<1>4. /\ writer[f].pc # "idle" /\ exec[f].state # "none" /\ isCur(f)
      /\ writer[f].at \in Nat /\ request[f].queuedAt <= writer[f].at
      /\ writer[f].callback \in Callbacks
  <2>1. writer[f].pc # "idle"
    BY DEF Callback, writeFailure, bindAdmittedStartedAt, commitAwsSuccess
  <2>2. exec[f].state # "none"
    BY <2>1 DEF Order, ExecutionsInOrder
  <2>3. isCur(f)
    BY <2>2 DEF Attempt, WorkIsCurrent
  <2>4. writer[f].at \in Nat
    BY <1>0 DEF Invocation
  <2> QED BY <1>0, <2>1, <2>2, <2>3, <2>4 DEF Order, WritersInOrder, Held
\* The record after a failure reported by the callback.
<1>5. ASSUME writeFailure(f)
      PROVE  /\ RecordGoesOn
             /\ cur' # cur => cur'.status \notin {"running", "succeeded"}
             /\ Returns(f) \/ ThrowsTransient(f) \/ ThrowsFatal(f)
             /\ Returns(f) => isTerminal(cur') \/ ThrowsTransient(f) \/ ThrowsFatal(f)
  <2>1. PICK kind \in {"fail", "time_out"}, code \in Codes \cup {NoCode} :
          /\ failureCommand(f) = Command(kind, f, NoTime, writer[f].at, code)
          /\ kind = "fail" => code \in Codes
    BY <1>4, ErrorCodes DEF failureCommand, Callbacks
  <2> DEFINE m == Command(kind, f, NoTime, writer[f].at, code)
  <2>2. \/ cur' = After(m) /\ Returns(f)
        \/ cur' \in {cur, After(m)} /\ (ThrowsTransient(f) \/ ThrowsFatal(f))
    BY <1>5, <2>1 DEF writeFailure, Throws
  <2>3. isTerminal(After(m))
    BY <1>0, <1>4, <2>1, CommandEnds
  <2>4. /\ RecordGoesOn
        /\ cur' # cur => cur'.status \notin {"running", "succeeded"}
    <3>1. cur' \in {cur, After(m)}
      BY <2>2
    <3> QED BY <1>0, <1>4, <2>1, <3>1, FailureMoves
  <2> QED BY <2>2, <2>3, <2>4
\* The record after the commit of a success.
<1>6. ASSUME commitAwsSuccess(f)
      PROVE  /\ RecordGoesOn
             /\ cur' # cur => /\ cur'.fid = f /\ cur'.status # "running"
                              /\ cur'.startedAt = job[f].startedAt
             /\ f \in bundles /\ job[f].state = "succeeded"
             /\ Returns(f) \/ ThrowsTransient(f) \/ ThrowsFatal(f)
             /\ Returns(f) => isTerminal(cur') \/ ThrowsTransient(f) \/ ThrowsFatal(f)
  <2> DEFINE m == Command("succeed", f, writer[f].startedAt, writer[f].at, NoCode)
  <2>1. /\ f \in bundles /\ job[f].state = "succeeded"
        /\ writer[f].startedAt = job[f].startedAt
        /\ writer[f].startedAt \in Nat \cup {NoTime} /\ writer[f].startedAt # NoTime
        /\ request[f].queuedAt <= writer[f].startedAt /\ writer[f].startedAt <= writer[f].at
    BY <1>0, <1>6 DEF commitAwsSuccess, Order, WritersInOrder, JobsInOrder, Invocation
  <2>2. \/ cur' = After(m) /\ Returns(f)
        \/ cur' \in {cur, After(m)} /\ (ThrowsTransient(f) \/ ThrowsFatal(f))
    BY <1>6 DEF commitAwsSuccess, Throws
  <2>3. isTerminal(After(m))
    BY <1>0, <1>4, <2>1, CommandEnds
  <2>4. /\ RecordGoesOn
        /\ cur' # cur => /\ cur.fid = f /\ cur'.startedAt = writer[f].startedAt
                         /\ cur'.status # "running"
    <3>1. cur' \in {cur, After(m)}
      BY <2>2
    <3> QED BY <1>0, <1>4, <2>1, <3>1, CommandMoves DEF Attempt, Kinds
  <2> QED BY <1>4, <2>1, <2>2, <2>3, <2>4 DEF RecordGoesOn, isCur
<1>7. /\ RecordGoesOn
      /\ cur' # cur => /\ cur'.fid = f /\ cur'.status # "running"
                       /\ cur'.status = "succeeded" =>
                            /\ cur'.startedAt = job[f].startedAt
                            /\ f \in bundles /\ job[f].state = "succeeded"
  <2>1. CASE bindAdmittedStartedAt(f)
    BY <1>0, <2>1 DEF RecordGoesOn, TypeOK, bindAdmittedStartedAt
  <2> QED BY <1>4, <1>5, <1>6, <2>1 DEF Callback, RecordGoesOn, isCur
<1>8. /\ writer' \in [Fids -> Invocation] /\ exec' \in [Fids -> Execution]
      /\ \A g \in Fids : g # f => writer'[g] = writer[g] /\ exec'[g] = exec[g]
      /\ exec'[f].entered = exec[f].entered
      /\ \/ exec'[f].state = exec[f].state
         \/ exec[f].state \in Callbacks /\ exec'[f].state \in {"SUCCEEDED", "FAILED"}
      /\ exec'[f].state = "SUCCEEDED" => exec[f].state = "SUCCEEDED" \/ isTerminal(cur')
      /\ \/ writer'[f].pc = "idle"
         \/ /\ writer'[f].pc = "commit" /\ writer'[f].callback = "CallbackSucceeded"
            /\ writer[f].callback = "CallbackSucceeded"
            /\ writer'[f].at = writer[f].at /\ f \in bundles
            /\ writer'[f].startedAt = job[f].startedAt
  <2>1. CASE Returns(f) \/ ThrowsTransient(f) \/ ThrowsFatal(f)
    <3>1. /\ writer' \in [Fids -> Invocation] /\ writer'[f] = NoInvocation
          /\ exec' \in [Fids -> Execution]
          /\ \A g \in Fids : g # f => writer'[g] = writer[g] /\ exec'[g] = exec[g]
          /\ exec'[f].entered = exec[f].entered
          /\ \/ exec'[f].state = exec[f].state
             \/ exec[f].state \in Callbacks /\ exec'[f].state \in {"SUCCEEDED", "FAILED"}
          /\ ThrowsTransient(f) \/ ThrowsFatal(f) =>
                (exec'[f].state = "SUCCEEDED" => exec[f].state = "SUCCEEDED")
      BY <1>0, <2>1, InvocationEnds
    <3>2. exec'[f].state = "SUCCEEDED" => exec[f].state = "SUCCEEDED" \/ isTerminal(cur')
      <4>1. bindAdmittedStartedAt(f) => exec' = exec \/ ThrowsTransient(f) \/ ThrowsFatal(f)
        BY DEF bindAdmittedStartedAt, Throws
      <4> QED BY <1>5, <1>6, <2>1, <3>1, <4>1 DEF Callback
    <3>3. writer'[f].pc = "idle"
      BY <3>1 DEF NoInvocation
    <3> QED BY <3>1, <3>2, <3>3
  <2>2. CASE ~(Returns(f) \/ ThrowsTransient(f) \/ ThrowsFatal(f))
    <3>1. /\ writer[f].callback = "CallbackSucceeded" /\ f \in bundles
          /\ isCurrent(f, {"running", "succeeded"}) /\ exec' = exec
          /\ writer' = [writer EXCEPT ![f].pc = "commit", ![f].startedAt = cur.startedAt]
      BY <1>5, <1>6, <2>2 DEF Callback, bindAdmittedStartedAt, Throws
    <3>2. cur.startedAt \in Nat \cup {NoTime} /\ cur.startedAt = job[f].startedAt
      BY <1>0, <3>1 DEF isCurrent, TypeOK, FinalizationRecord, Order, StartedByContainer
    <3>3. /\ writer' \in [Fids -> Invocation]
          /\ writer'[f].pc = "commit" /\ writer'[f].startedAt = cur.startedAt
          /\ writer'[f].callback = writer[f].callback /\ writer'[f].at = writer[f].at
          /\ \A g \in Fids : g # f => writer'[g] = writer[g]
      BY <1>0, <3>1, <3>2, InvocationCommits
    <3>4. exec' \in [Fids -> Execution]
      BY <1>0, <3>1 DEF TypeOK
    <3> QED BY <3>1, <3>2, <3>3, <3>4
  <2> QED BY <2>1, <2>2
<1>9. Typed'
  <2>1. TypeOK'
    BY <1>0, <1>1, <1>3, <1>7, <1>8 DEF TypeOK, RecordGoesOn, Invocation
  <2>2. Held'
    BY <1>0, <1>1, <1>8 DEF Held, Callbacks
  <2> QED BY <2>1, <2>2 DEF Typed
<1>10. Attempt'
  <2>1. \A g \in Fids : exec'[g].state # "none" => exec[g].state # "none"
    BY <1>4, <1>8
  <2> QED BY <1>1, <1>2, <1>7, <2>1, AttemptKept DEF Attempt, WorkIsCurrent
<1>11. Order'
  <2>1. ExecutionsInOrder'
    <3>1. exec'[f].state # "none"
      BY <1>4, <1>8
    <3> DEFINE Ok(g) == /\ exec[g].state \in {"none", "VerifyImageSignature"} => job[g].state = "none"
                        /\ exec[g].state # "none" => request[g].queuedAt <= exec[g].entered
                        /\ exec[g].state = "CallbackSucceeded" =>
                              job[g].state = "succeeded" /\ job[g].startedAt <= exec[g].entered
                        /\ exec[g].state = "none" => writer[g].pc = "idle"
    <3>2. \A g \in Fids : Ok(g)
      BY DEF Order, ExecutionsInOrder
    <3>3. \A g \in Fids : g # f => Ok(g)'
      BY <1>1, <1>8, <3>2
    <3>4. Ok(f)'
      BY <1>1, <1>4, <1>8, <3>1, <3>2
    <3> QED BY <3>3, <3>4 DEF ExecutionsInOrder
  <2>2. JobsInOrder'
    BY <1>1 DEF Order, JobsInOrder
  <2>3. WritersInOrder'
    BY <1>1, <1>4, <1>8 DEF Order, WritersInOrder
  <2>4. StartedByContainer'
    BY <1>1, <1>7 DEF Order, StartedByContainer, RecordGoesOn
  <2> QED BY <2>1, <2>2, <2>3, <2>4 DEF Order
<1>12. Outcome'
  <2>1. SuccessWasProved'
    BY <1>1, <1>7 DEF Outcome, SuccessWasProved, RecordGoesOn
  <2>2. SucceededExecutionRecorded'
    BY <1>7, <1>8 DEF Outcome, SucceededExecutionRecorded, RecordGoesOn
  <2>3. CancelReadCurrent'
    BY <1>1, <1>7 DEF Outcome, CancelReadCurrent, isCur, RecordGoesOn
  <2>4. CancelEndsAttempt'
    BY <1>1, <1>7 DEF Outcome, CancelEndsAttempt, RecordGoesOn
  <2> QED BY <2>1, <2>2, <2>3, <2>4 DEF Outcome
<1>13. Steady
  BY <1>1, <1>7 DEF Steady, NoProofAfterOutcome, RecordGoesOn
<1> QED BY <1>9, <1>10, <1>11, <1>12, <1>13

\* A cancel request acts on what it has read, and its answer is an outcome.
LEMMA CancelKeeps ==
    ASSUME IInv, Cancel
    PROVE  IInv' /\ Steady
<1> USE DEF IInv
<1>0. TypeOK /\ Held /\ now \in Nat
  BY Clock DEF Typed
<1>1. UNCHANGED <<now, request, input, queue, receives, dispatcher, job, bundles, writer, arns, sweep>>
  BY DEF Cancel, cancelFinalizationHandler, tryStopExecution, markCancelled
<1>2. Later
  BY <1>0, <1>1 DEF Later
<1>3. CASE cancelFinalizationHandler
  <2>1. cancel' = [pc |-> "stop", snap |-> cur] /\ cur' = cur /\ exec' = exec /\ faults' = faults
        /\ isUnfinished(cur) /\ cur \in FinalizationRecord
    BY <1>0, <1>3 DEF cancelFinalizationHandler, isUnfinished, TypeOK
  <2>2. RecordGoesOn
    BY <1>0, <2>1 DEF RecordGoesOn, TypeOK
  <2>3. Typed'
    BY <1>0, <1>1, <2>1 DEF Typed, TypeOK, Held
  <2>4. Attempt' /\ Order'
    BY <1>1, <1>2, <2>1, <2>2, AttemptKept, OrderKept DEF Attempt, WorkIsCurrent
  <2>5. SuccessWasProved' /\ SucceededExecutionRecorded'
    BY <1>1, <2>1 DEF Outcome, SuccessWasProved, SucceededExecutionRecorded
  <2>6. cur.startedAt = NoTime \/ (cur.queuedAt <= cur.startedAt /\ cur.startedAt <= now)
    <3>1. cur.fid \in Fids /\ cur.queuedAt = request[cur.fid].queuedAt
      BY <2>1 DEF Attempt, RecordIsRequested, FinalizationRecord, isUnfinished
    <3>2. CASE cur.status = "pending"
      BY <2>1, <3>2 DEF Attempt, RecordIsRequested, isUnfinished
    <3>3. CASE cur.status = "running"
      BY <2>1, <3>1, <3>3 DEF Order, StartedByContainer, JobsInOrder, isUnfinished
    <3> QED BY <2>1, <3>2, <3>3 DEF isUnfinished
  <2>7. CancelReadCurrent' /\ CancelEndsAttempt'
    BY <1>1, <2>1, <2>6 DEF CancelReadCurrent, CancelEndsAttempt, isCur, isUnfinished
  <2> QED BY <1>1, <2>1, <2>3, <2>4, <2>5, <2>7 DEF Outcome, Steady, NoProofAfterOutcome
<1>4. CASE tryStopExecution
  <2> DEFINE f == cancel.snap.fid
  <2>1. cancel.pc = "stop" /\ cancel' = [cancel EXCEPT !.pc = "write"] /\ cur' = cur
        /\ cancel.snap \in FinalizationRecord /\ f \in Fids
    BY <1>0, <1>4 DEF tryStopExecution, Held, FinalizationRecord
  <2>2. cancel' \in [pc : {"idle", "stop", "write", "done"}, snap : FinalizationRecord \cup {NoRecord}]
        /\ cancel'.pc = "write" /\ cancel'.snap = cancel.snap
    BY <1>0, <2>1 DEF TypeOK
  <2>3. exec' = exec \/ (exec[f].state \in OpenStates /\ exec' = Close(f, "ABORTED"))
    BY <1>4 DEF tryStopExecution
  <2>4. /\ exec' \in [Fids -> Execution]
        /\ \A g \in Fids : /\ exec'[g].entered = exec[g].entered
                           /\ \/ exec'[g].state = exec[g].state
                              \/ exec[g].state \in OpenStates /\ exec'[g].state = "ABORTED"
    <3>1. CASE exec' = exec
      BY <1>0, <3>1 DEF TypeOK
    <3>2. CASE exec[f].state \in OpenStates /\ exec' = Close(f, "ABORTED")
      <4>1. "ABORTED" \in ExecStates
        BY DEF ExecStates, ClosedStates
      <4> HIDE DEF f
      <4> QED BY <1>0, <2>1, <3>2, <4>1, Closes
    <3> QED BY <2>3, <3>1, <3>2
  <2>5. RecordGoesOn
    BY <1>0, <2>1 DEF RecordGoesOn, TypeOK
  <2>6. faults' \in 0..MaxFaults
    BY <1>0, <1>4, AsyncConstants DEF tryStopExecution, Fault, TypeOK
  <2>7. Typed'
    <3>1. TypeOK'
      BY <1>0, <1>1, <2>1, <2>2, <2>4, <2>6 DEF TypeOK
    <3>2. Held'
      BY <1>0, <1>1, <2>1, <2>2 DEF Held
    <3> QED BY <3>1, <3>2 DEF Typed
  <2>8. \A g \in Fids : exec'[g].state # "none" => exec[g].state # "none"
    BY <2>4 DEF OpenStates, Callbacks
  <2>9. Attempt'
    BY <1>1, <1>2, <2>5, <2>8, AttemptKept DEF Attempt, WorkIsCurrent
  <2>10. ExecutionsInOrder'
    <3>1. \A g \in Fids : exec[g].state = "none" => exec'[g].state = "none"
      BY <2>4 DEF OpenStates, Callbacks
    <3> QED BY <1>1, <2>4, <2>8, <3>1 DEF Order, ExecutionsInOrder
  <2>11. Order'
    BY <1>1, <2>1, <2>10 DEF Order, JobsInOrder, WritersInOrder, StartedByContainer
  <2>12. SucceededExecutionRecorded'
    BY <2>1, <2>4 DEF Outcome, SucceededExecutionRecorded
  <2>13. Outcome'
    BY <1>1, <2>1, <2>2, <2>12 DEF Outcome, SuccessWasProved, CancelReadCurrent, CancelEndsAttempt, isCur
  <2> QED BY <1>1, <2>1, <2>7, <2>9, <2>11, <2>13 DEF Steady, NoProofAfterOutcome
<1>5. CASE markCancelled
  <2> DEFINE f == cancel.snap.fid
             s == cancel.snap.startedAt
  <2>1. /\ cancel.pc = "write" /\ cancel' = [cancel EXCEPT !.pc = "done"]
        /\ cur' = After(Command("cancel", f, s, now, NoCode))
        /\ exec' = exec /\ faults' = faults
        /\ cancel.snap \in FinalizationRecord /\ f \in Fids /\ s \in Nat \cup {NoTime}
    BY <1>0, <1>5 DEF markCancelled, Held, FinalizationRecord
  <2>2. cancel' \in [pc : {"idle", "stop", "write", "done"}, snap : FinalizationRecord \cup {NoRecord}]
        /\ cancel'.pc = "done"
    BY <1>0, <2>1 DEF TypeOK
  <2>3. isCur(f) /\ (s = NoTime \/ (request[f].queuedAt <= s /\ s <= now)) /\ request[f].queuedAt <= now
    BY <2>1 DEF Outcome, CancelReadCurrent, Attempt, RecordIsRequested, RequestsAreCurrent, isCur
  <2> HIDE DEF f, s
  <2>4. isTerminal(cur')
    BY <1>0, <2>1, <2>3, CommandEnds
  <2>5. RecordGoesOn /\ (cur' # cur => cur'.status \notin {"running", "succeeded"})
    BY <1>0, <2>1, FailureMoves
  <2>6. Typed'
    <3>1. TypeOK'
      BY <1>0, <1>1, <2>1, <2>2, <2>5 DEF TypeOK, RecordGoesOn
    <3>2. Held'
      BY <1>0, <1>1, <2>2 DEF Held
    <3> QED BY <3>1, <3>2 DEF Typed
  <2>7. Attempt' /\ Order'
    BY <1>1, <1>2, <2>1, <2>5, AttemptKept, OrderKept DEF Attempt, WorkIsCurrent
  <2>8. SuccessWasProved'
    BY <1>1, <2>5 DEF Outcome, SuccessWasProved, RecordGoesOn
  <2>9. SucceededExecutionRecorded' /\ CancelReadCurrent' /\ CancelEndsAttempt'
    BY <2>2, <2>4 DEF SucceededExecutionRecorded, CancelReadCurrent, CancelEndsAttempt
  <2> QED BY <1>1, <2>5, <2>6, <2>7, <2>8, <2>9 DEF Outcome, Steady, NoProofAfterOutcome, RecordGoesOn
<1> QED BY <1>3, <1>4, <1>5 DEF Cancel

\* The sweep records failures only, and time changes nothing but the clock.
LEMMA SweepKeeps ==
    ASSUME IInv, Sweep \/ Tick
    PROVE  IInv' /\ Steady
<1> USE DEF IInv
<1>0. TypeOK /\ Held /\ now \in Nat
  BY Clock DEF Typed
<1>1. UNCHANGED <<request, input, queue, receives, dispatcher, exec, job, bundles, writer, arns, cancel, faults>>
  BY DEF Sweep, reconcileFinalization, observeExecution, writeReconciledOutcome, Tick
<1>2. Later /\ now' \in 0..MaxTime
  BY <1>0, AsyncConstants DEF Later, TypeOK, MaxTime, Sweep, reconcileFinalization, observeExecution,
                              writeReconciledOutcome, Tick
<1> DEFINE Sweeping == [pc : {"idle", "observe", "write"}, snap : FinalizationRecord \cup {NoRecord},
                        at : Nat, seen : ClosedStates \cup {"none"}, stopped : Nat]
<1>3. /\ RecordGoesOn
      /\ cur' # cur => cur'.status \notin {"running", "succeeded"}
      /\ sweep' \in Sweeping
      /\ sweep'.pc # "idle" => sweep'.snap \in FinalizationRecord
  <2>0. NoSweep \in Sweeping /\ NoSweep.pc = "idle"
    BY DEF NoSweep
  <2>1. CASE reconcileFinalization
    <3>1. cur' = cur /\ cur \in FinalizationRecord /\ RecordGoesOn
      BY <1>0, <2>1 DEF reconcileFinalization, isUnfinished, TypeOK, RecordGoesOn
    <3>2. sweep' = [NoSweep EXCEPT !.pc = "observe", !.snap = cur, !.at = now]
      BY <2>1 DEF reconcileFinalization
    <3>3. sweep' \in Sweeping /\ sweep'.snap = cur
      BY <1>0, <3>1, <3>2 DEF NoSweep
    <3> QED BY <3>1, <3>3
  <2>2. CASE observeExecution
    <3> DEFINE e == exec[sweep.snap.fid]
    <3>1. cur' = cur /\ RecordGoesOn /\ sweep \in Sweeping /\ sweep.snap \in FinalizationRecord
      BY <1>0, <2>2 DEF observeExecution, TypeOK, RecordGoesOn, Held
    <3>2. e \in Execution
      BY <1>0, <3>1 DEF TypeOK, FinalizationRecord
    <3>3. \/ sweep' = NoSweep
          \/ e.state \notin OpenStates /\ sweep' = [sweep EXCEPT !.pc = "write", !.seen = e.state, !.stopped = e.stopped]
      BY <2>2 DEF observeExecution, shouldReconcileExecution
    <3> HIDE DEF e
    <3>4. CASE /\ e.state \notin OpenStates
               /\ sweep' = [sweep EXCEPT !.pc = "write", !.seen = e.state, !.stopped = e.stopped]
      <4>1. e.state \in ClosedStates \cup {"none"} /\ e.stopped \in Nat
        BY <3>2, <3>4 DEF Execution
      <4> QED BY <3>1, <3>4, <4>1
    <3> QED BY <2>0, <3>1, <3>3, <3>4
  <2>3. CASE writeReconciledOutcome
    <3> DEFINE f == sweep.snap.fid
               s == sweep.snap.startedAt
               at == IF sweep.seen = "none" THEN sweep.at ELSE sweep.stopped
               code == resolveReconciliationFailureReason(sweep.snap, sweep.seen)
    <3>1. sweep.snap \in FinalizationRecord /\ sweep \in Sweeping
      BY <1>0, <2>3 DEF writeReconciledOutcome, Held, TypeOK
    <3>2. f \in Fids /\ s \in Nat \cup {NoTime} /\ at \in Nat /\ code \in Codes
      BY <3>1, ErrorCodes DEF FinalizationRecord, resolveReconciliationFailureReason
    <3>3. cur' = After(Command("fail", f, s, at, code)) /\ sweep' = NoSweep
      BY <2>3 DEF writeReconciledOutcome
    <3> HIDE DEF f, s, at, code
    <3> QED BY <1>0, <2>0, <3>2, <3>3, FailureMoves
  <2>4. CASE Tick
    BY <1>0, <2>4 DEF Tick, TypeOK, Held, RecordGoesOn
  <2> QED BY <2>1, <2>2, <2>3, <2>4 DEF Sweep
<1>4. Typed'
  <2>1. TypeOK'
    BY <1>0, <1>1, <1>2, <1>3 DEF TypeOK, RecordGoesOn
  <2>2. Held'
    BY <1>0, <1>1, <1>3 DEF Held
  <2> QED BY <2>1, <2>2 DEF Typed
<1>5. Attempt' /\ Order' /\ Outcome'
  BY <1>1, <1>2, <1>3, AttemptKept, OrderKept, OutcomeKept DEF Attempt, WorkIsCurrent
<1> QED BY <1>1, <1>3, <1>4, <1>5 DEF Steady, NoProofAfterOutcome, RecordGoesOn

-----------------------------------------------------------------------------
\* The theorems.

LEMMA Initially == Init => IInv
<1> SUFFICES ASSUME Init PROVE IInv
  OBVIOUS
<1> USE AsyncConstants DEF Init
<1>1. TypeOK
  BY DEF TypeOK, MaxTime, NotRequested, Idle, Execution, Job, NoInvocation, NoSweep, NoTime
<1>2. Held
  BY DEF Held, NotRequested, NoInvocation, NoSweep
<1>3. Attempt
  BY DEF Attempt, RecordIsRequested, RequestsAreCurrent, WorkIsCurrent, NotRequested, Idle
<1>4. Order
  BY DEF Order, ExecutionsInOrder, JobsInOrder, WritersInOrder, StartedByContainer, NoInvocation
<1>5. Outcome
  BY DEF Outcome, SuccessWasProved, SucceededExecutionRecorded, CancelReadCurrent, CancelEndsAttempt
<1> QED BY <1>1, <1>2, <1>3, <1>4, <1>5 DEF IInv, Typed

\* Every step keeps the invariant and what no step may change.
LEMMA StepKeeps == IInv /\ [Next]_vars => IInv' /\ [Steady]_vars
<1> SUFFICES ASSUME IInv, [Next]_vars PROVE IInv' /\ [Steady]_vars
  OBVIOUS
<1>1. ASSUME NEW f \in Fids,
             RequestStep(f) \/ DeadLetter(f) \/ Advance(f) \/ AbortExecution(f) \/ Container(f) \/ Callback(f)
      PROVE  IInv' /\ Steady
  BY <1>1, RequestKeeps, DeadLetterKeeps, AdvanceKeeps, ContainerKeeps, CallbackKeeps
<1>2. ASSUME NEW d \in Dispatchers, Dispatch(d)
      PROVE  IInv' /\ Steady
  BY <1>2, DispatchKeeps
<1>3. CASE Cancel
  BY <1>3, CancelKeeps
<1>4. CASE Sweep \/ Tick
  BY <1>4, SweepKeeps
<1>5. CASE UNCHANGED vars
  BY <1>5 DEF vars, IInv, Typed, TypeOK, Held, Attempt, RecordIsRequested, RequestsAreCurrent, WorkIsCurrent,
              isCur, Order, ExecutionsInOrder, JobsInOrder, WritersInOrder, StartedByContainer,
              Outcome, SuccessWasProved, SucceededExecutionRecorded, CancelReadCurrent, CancelEndsAttempt
<1> QED BY <1>1, <1>2, <1>3, <1>4, <1>5 DEF Next

\* The invariant of every state of the finalization.
LEMMA Invariance == Spec => []IInv
BY Initially, StepKeeps, PTL DEF Spec

\* Only the recorded finalization has an input, a message or an execution, every
\* accepted request was told of it, and its input is stored before any work is
\* announced or executed (finalizeAsync, dispatchProverRecord).
THEOREM OneAttemptOnly == Spec => []AttemptIsOne
<1>1. IInv => AttemptIsOne
  <2> SUFFICES ASSUME IInv PROVE AttemptIsOne
    OBVIOUS
  <2>1. OneAttempt
    BY DEF IInv, Attempt, RequestsAreCurrent, WorkIsCurrent, isCur, OneAttempt
  <2>2. InputBeforeWork
    BY DEF IInv, Attempt, WorkIsCurrent, InputBeforeWork
  <2> QED BY <2>1, <2>2 DEF IInv, Typed, AttemptIsOne
<1> QED BY <1>1, Invariance, PTL

\* A recorded success was proved by the finalization's own container, with the
\* start time that it was admitted with, and an execution that ends well has left
\* an outcome (bindAdmittedStartedAt, commitAwsSuccess, step_functions.tf).
THEOREM SuccessProved == Spec => []SuccessIsTrue
<1>1. IInv => SuccessIsTrue
  BY DEF IInv, Outcome, SuccessIsTrue
<1> QED BY <1>1, Invariance, PTL

\* An answered cancel leaves nothing in progress, no proof starts for an attempt
\* that is over or was started at another time, and the recorded start time does
\* not move (markCancelled, loadAppliedFinalizationRecord).
THEOREM WorkEndsWithOutcome == Spec => OutcomeEndsWork
<1>1. IInv => CancelEndsAttempt
  BY DEF IInv, Outcome
<1>2. IInv /\ IInv' /\ [Steady]_vars => [NoProofAfterOutcome /\ StartTimeKept]_vars
  <2> SUFFICES ASSUME IInv, IInv', Steady PROVE NoProofAfterOutcome /\ StartTimeKept
    OBVIOUS
  <2>1. NoProofAfterOutcome
    BY DEF Steady
  <2>2. StartTimeKept
    <3> SUFFICES ASSUME isUnfinished(cur), cur.startedAt # NoTime, cur'.status \in {"running", "succeeded"}
                 PROVE  cur'.startedAt = cur.startedAt
      BY DEF StartTimeKept
    <3>1. cur # NoRecord /\ cur.fid \in Fids /\ cur.status = "running"
      BY DEF isUnfinished, IInv, Typed, TypeOK, FinalizationRecord, Attempt, RecordIsRequested
    <3>2. job[cur.fid].state # "waiting" /\ cur.startedAt = job[cur.fid].startedAt
      BY <3>1 DEF IInv, Order, StartedByContainer
    <3>3. cur' # NoRecord /\ cur'.fid = cur.fid /\ job'[cur.fid].startedAt = job[cur.fid].startedAt
      BY <3>1, <3>2 DEF Steady
    <3>4. cur'.startedAt = job'[cur'.fid].startedAt
      BY <3>3 DEF IInv, Order, StartedByContainer
    <3> QED BY <3>2, <3>3, <3>4
  <2> QED BY <2>1, <2>2
<1> QED BY <1>1, <1>2, StepKeeps, Invariance, PTL DEF Spec, OutcomeEndsWork

=============================================================================

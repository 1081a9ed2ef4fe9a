------------------------- MODULE AsyncFinalization --------------------------
(***************************************************************************)
(* One session's asynchronous finalization on AWS, from the finalize       *)
(* request to the recorded outcome: the API request, the work queue, the   *)
(* proof dispatcher, the Step Functions execution, the Batch container,    *)
(* the finalization writer, the cancel request and the scheduled sweep.    *)
(* They share the current finalization record; each command on it is one   *)
(* atomic step, which is what FinalizationStore implements.                *)
(*                                                                         *)
(* All clocks are the one clock `now'.  It is bounded: after Horizon no    *)
(* request is made and time passes only when nothing is running that would *)
(* take a new time stamp.                                                  *)
(***************************************************************************)
EXTENDS FinalizationPolicy, FiniteSets

CONSTANTS
    Dispatchers,        \* concurrent proof-dispatcher invocations
    Grace,              \* the sweep's grace period (60 s)
    Deadline,           \* dispatch deadline of pending work (900 s)
    Horizon,            \* bound: last time of a request
    MaxReceives,        \* maxReceiveCount of the queue
    MaxRetries,         \* retries of a callback delivery
    MaxFaults,          \* bound: failed or lost operations
    LateContainers      \* may a container start after its execution closed?

ASSUME AsyncConstants ==
    /\ Grace \in Nat /\ Deadline \in Nat /\ Horizon \in Nat
    /\ MaxReceives \in Nat \ {0} /\ MaxRetries \in Nat /\ MaxFaults \in Nat
    /\ LateContainers \in BOOLEAN
    /\ Scenarios # {}
    /\ {"PROVER_INPUT_UPLOAD_FAILED", "SQS_PUBLISH_FAILED", "PROVER_IMAGE_SIGNATURE_FAILED",
        "PROVER_TASK_FAILED", "FINALIZATION_BUNDLE_RESTORE_FAILED",
        "FINALIZATION_DISPATCH_TIMEOUT", "FINALIZATION_OUTCOME_UNRECORDED",
        "PROVER_EXECUTION_FAILED", "PROVER_EXECUTION_ABORTED"} \subseteq Codes

VARIABLES
    now,            \* the clock
    cur,            \* the session's current finalization record
    request,        \* the finalize request of each id
    input,          \* ids whose prover input is in S3
    queue,          \* ids with a message in the work queue
    receives,       \* receive count of each id's message
    dispatcher,     \* dispatcher invocations
    exec,           \* Step Functions execution named by each id
    job,            \* Batch job of each execution
    bundles,        \* ids whose proof artifacts are in S3
    writer,         \* callback invocation of the finalization writer
    arns,           \* ids whose execution ARN is in the runtime metadata
    cancel,         \* the cancel request
    sweep,          \* the scheduled reconciliation
    faults

vars == <<now, cur, request, input, queue, receives, dispatcher, exec, job,
          bundles, writer, arns, cancel, sweep, faults>>

MaxTime == Horizon + Deadline + 1

Callbacks == {"CallbackSucceeded", "CallbackFailed", "CallbackTimedOut", "CallbackSignatureFailed"}
OpenStates == {"VerifyImageSignature", "RunProver"} \cup Callbacks
ClosedStates == {"SUCCEEDED", "FAILED", "ABORTED"}

\* entered: when a callback state was entered; stopped: when the execution closed.
Execution ==
    [state : OpenStates \cup ClosedStates \cup {"none"}, entered : Nat, stopped : Nat, tries : Nat]

Job == [state : {"none", "waiting", "admitting", "storing", "proving", "succeeded", "failed"},
        startedAt : Nat \cup {NoTime}]

LiveJob == {"waiting", "admitting", "storing", "proving"}

-----------------------------------------------------------------------------
\* Commands on the current record.

Command(kind, f, startedAt, at, code) ==
    [kind |-> kind, fid |-> f, queuedAt |-> request[f].queuedAt, startedAt |-> startedAt,
     at |-> at, code |-> code, scenario |-> NoScenario, resultOk |-> TRUE]

\* The record after a command, applied or not.
After(m) == IF isApplied(cur, m) THEN nextRecord(cur, m) ELSE cur

isCurrent(f, statuses) == cur # NoRecord /\ cur.fid = f /\ cur.status \in statuses

Fault == faults < MaxFaults /\ faults' = faults + 1

-----------------------------------------------------------------------------
\* The finalize request (finalizeAsync).

\* Faulty variant: any pending record returned is taken for the request's own.
markFinalizationQueuedAnyPending(f) ==
    /\ request[f].pc = "idle"
    /\ now <= Horizon
    /\ \E sc \in Scenarios :
        LET m == [kind |-> "queue", fid |-> f, queuedAt |-> now, startedAt |-> NoTime,
                  at |-> now, code |-> NoCode, scenario |-> sc, resultOk |-> TRUE]
            next == After(m)
        IN  /\ cur' = next
            /\ request' = [request EXCEPT ![f] =
                 [pc |-> IF next.status = "pending" THEN "persist" ELSE "accepted",
                  queuedAt |-> now, told |-> next.fid, code |-> NoCode]]
    /\ UNCHANGED <<now, input, queue, receives, dispatcher, exec, job, bundles, writer,
                   arns, cancel, sweep, faults>>

markFinalizationQueued(f) ==
    /\ request[f].pc = "idle"
    /\ now <= Horizon
    /\ \E sc \in Scenarios :
        LET m == [kind |-> "queue", fid |-> f, queuedAt |-> now, startedAt |-> NoTime,
                  at |-> now, code |-> NoCode, scenario |-> sc, resultOk |-> TRUE]
            next == After(m)
        IN  /\ cur' = next
            /\ request' = [request EXCEPT ![f] =
                 [pc |-> IF next.status = "pending" /\ next.fid = f THEN "persist" ELSE "accepted",
                  queuedAt |-> now, told |-> next.fid, code |-> NoCode]]
    /\ UNCHANGED <<now, input, queue, receives, dispatcher, exec, job, bundles, writer,
                   arns, cancel, sweep, faults>>

persistAsyncProverInput(f) ==
    /\ request[f].pc = "persist"
    /\ now <= Horizon
    /\ \/ /\ input' = input \cup {f}
          /\ request' = [request EXCEPT ![f].pc = "publish"]
          /\ UNCHANGED faults
       \/ /\ Fault
          /\ input' \in {input, input \cup {f}}
          /\ request' = [request EXCEPT ![f].pc = "failing", ![f].code = "PROVER_INPUT_UPLOAD_FAILED"]
    /\ UNCHANGED <<now, cur, queue, receives, dispatcher, exec, job, bundles, writer,
                   arns, cancel, sweep>>

\* A publish reported as failed may have delivered the message all the same.
publish(f) ==
    /\ request[f].pc = "publish"
    /\ now <= Horizon
    /\ \/ /\ queue' = queue \cup {f}
          /\ request' = [request EXCEPT ![f].pc = "accepted"]
          /\ UNCHANGED faults
       \/ /\ Fault
          /\ queue' \in {queue, queue \cup {f}}
          /\ request' = [request EXCEPT ![f].pc = "failing", ![f].code = "SQS_PUBLISH_FAILED"]
    /\ UNCHANGED <<now, cur, input, receives, dispatcher, exec, job, bundles, writer,
                   arns, cancel, sweep>>

writeAsyncFailure(f) ==
    /\ request[f].pc = "failing"
    /\ now <= Horizon
    /\ cur' = After(Command("fail", f, NoTime, now, request[f].code))
    /\ request' = [request EXCEPT ![f].pc = "refused"]
    /\ UNCHANGED <<now, input, queue, receives, dispatcher, exec, job, bundles, writer,
                   arns, cancel, sweep, faults>>

-----------------------------------------------------------------------------
\* The work queue delivers at least once, to several dispatchers at a time,
\* and gives up after MaxReceives deliveries.

Idle == [pc |-> "idle"]

Receive(d) ==
    /\ dispatcher[d].pc = "idle"
    /\ \E f \in queue :
        /\ receives[f] < MaxReceives
        /\ receives' = [receives EXCEPT ![f] = @ + 1]
        /\ dispatcher' = [dispatcher EXCEPT ![d] = [pc |-> "admit", fid |-> f]]
    /\ UNCHANGED <<now, cur, request, input, queue, exec, job, bundles, writer,
                   arns, cancel, sweep, faults>>

DeadLetter(f) ==
    /\ f \in queue
    /\ receives[f] = MaxReceives
    /\ \A d \in Dispatchers : dispatcher[d].pc = "idle"
    /\ queue' = queue \ {f}
    /\ UNCHANGED <<now, cur, request, input, receives, dispatcher, exec, job, bundles,
                   writer, arns, cancel, sweep, faults>>

\* The invocation returns and its message is deleted.
Acknowledge(d) ==
    /\ queue' = queue \ {dispatcher[d].fid}
    /\ dispatcher' = [dispatcher EXCEPT ![d] = Idle]

\* The invocation throws; the message becomes visible again.
Throw(d) ==
    /\ dispatcher' = [dispatcher EXCEPT ![d] = Idle]
    /\ UNCHANGED queue

admitPendingFinalization(d) ==
    /\ dispatcher[d].pc = "admit"
    /\ IF isCurrent(dispatcher[d].fid, {"pending"})
       THEN dispatcher' = [dispatcher EXCEPT ![d].pc = "start"] /\ UNCHANGED queue
       ELSE Acknowledge(d)
    /\ UNCHANGED <<now, cur, request, input, receives, exec, job, bundles, writer,
                   arns, cancel, sweep, faults>>

startedExecution(f) ==
    [exec EXCEPT ![f] = [state |-> "VerifyImageSignature", entered |-> now, stopped |-> 0, tries |-> 0]]

\* StartExecution; when an execution of that name exists already, the record is
\* read again.
dispatchProverRecord(d) ==
    LET f == dispatcher[d].fid
    IN  /\ dispatcher[d].pc = "start"
        /\ \/ /\ exec[f].state = "none"
              /\ exec' = startedExecution(f)
              /\ Acknowledge(d)
              /\ UNCHANGED faults
           \/ /\ exec[f].state # "none"
              /\ IF isCurrent(f, {"pending"})
                 THEN dispatcher' = [dispatcher EXCEPT ![d].pc = "existing"] /\ UNCHANGED queue
                 ELSE Acknowledge(d)
              /\ UNCHANGED <<exec, faults>>
           \/ /\ Fault
              /\ UNCHANGED exec \/ (exec[f].state = "none" /\ exec' = startedExecution(f))
              /\ Throw(d)
        /\ UNCHANGED <<now, cur, request, input, receives, job, bundles, writer,
                       arns, cancel, sweep>>

\* The finalization was still pending: only an open execution counts as
\* dispatched.
acknowledgeExistingExecution(d) ==
    /\ dispatcher[d].pc = "existing"
    /\ \/ /\ IF exec[dispatcher[d].fid].state \in OpenStates THEN Acknowledge(d) ELSE Throw(d)
          /\ UNCHANGED faults
       \/ Fault /\ Throw(d)
    /\ UNCHANGED <<now, cur, request, input, receives, exec, job, bundles, writer,
                   arns, cancel, sweep>>

-----------------------------------------------------------------------------
\* The execution (step_functions.tf) up to its callback.

Enter(f, state) == [exec EXCEPT ![f].state = state, ![f].entered = now, ![f].tries = 0]

Close(f, state) == [exec EXCEPT ![f].state = state, ![f].stopped = now]

VerifyImageSignature(f) ==
    /\ exec[f].state = "VerifyImageSignature"
    /\ \/ /\ exec' = Enter(f, "RunProver")
          /\ job' = [job EXCEPT ![f].state = "waiting"]
          /\ UNCHANGED faults
       \/ /\ Fault
          /\ exec' = Enter(f, "CallbackSignatureFailed")
          /\ UNCHANGED job
    /\ UNCHANGED <<now, cur, request, input, queue, receives, dispatcher, bundles, writer,
                   arns, cancel, sweep>>

\* The job ended, or the one deadline on queue wait and execution has passed.
RunProver(f) ==
    /\ exec[f].state = "RunProver"
    /\ \/ job[f].state = "succeeded" /\ exec' = Enter(f, "CallbackSucceeded")
       \/ job[f].state = "failed" /\ exec' = Enter(f, "CallbackFailed")
       \/ job[f].state \in LiveJob /\ exec' = Enter(f, "CallbackTimedOut")
    /\ UNCHANGED <<now, cur, request, input, queue, receives, dispatcher, job, bundles,
                   writer, arns, cancel, sweep, faults>>

\* An operator stops the execution.
AbortExecution(f) ==
    /\ exec[f].state \in OpenStates
    /\ Fault
    /\ exec' = Close(f, "ABORTED")
    /\ UNCHANGED <<now, cur, request, input, queue, receives, dispatcher, job, bundles,
                   writer, arns, cancel, sweep>>

-----------------------------------------------------------------------------
\* The Batch job and its container (entrypoint.sh).

StartContainer(f) ==
    /\ job[f].state = "waiting"
    /\ LateContainers \/ exec[f].state = "RunProver"
    /\ job' = [job EXCEPT ![f] = [state |-> "admitting", startedAt |-> now]]
    /\ UNCHANGED <<now, cur, request, input, queue, receives, dispatcher, exec, bundles,
                   writer, arns, cancel, sweep, faults>>

\* The container asks the writer to record it as running, with the time it took
\* itself; any other answer than its own running finalization ends it.
admit_batch_prover_start(f) ==
    LET next == After(Command("start", f, job[f].startedAt, 0, NoCode))
        ok == next # NoRecord /\ next.fid = f /\ next.status = "running"
    IN  /\ job[f].state = "admitting"
        /\ \/ /\ cur' = next
              /\ job' = [job EXCEPT ![f].state = IF ok THEN "storing" ELSE "failed"]
              /\ UNCHANGED faults
           \/ /\ Fault
              /\ cur' \in {cur, next}
              /\ job' = [job EXCEPT ![f].state = "failed"]
        /\ UNCHANGED <<now, request, input, queue, receives, dispatcher, exec, bundles,
                       writer, arns, cancel, sweep>>

\* Faulty variant: the admission answers without re-reading the record.
loadAppliedFinalizationRecordUnread(f) ==
    /\ job[f].state = "storing"
    /\ arns' = arns \cup {f}
    /\ job' = [job EXCEPT ![f].state = "proving"]
    /\ UNCHANGED <<now, cur, request, input, queue, receives, dispatcher, exec, bundles,
                   writer, cancel, sweep, faults>>

\* markAwsFinalizationRunning stores the execution ARN, then the writer re-reads
\* the record it has applied.
loadAppliedFinalizationRecord(f) ==
    /\ job[f].state = "storing"
    /\ arns' = arns \cup {f}
    /\ job' = [job EXCEPT ![f].state = IF isCurrent(f, {"running"}) THEN "proving" ELSE "failed"]
    /\ UNCHANGED <<now, cur, request, input, queue, receives, dispatcher, exec, bundles,
                   writer, cancel, sweep, faults>>

\* Input download, host run and upload; the exit status is that of all three.
run_host_and_upload(f) ==
    /\ job[f].state = "proving"
    /\ \/ /\ f \in input
          /\ bundles' = bundles \cup {f}
          /\ job' = [job EXCEPT ![f].state = "succeeded"]
          /\ UNCHANGED faults
       \/ /\ Fault
          /\ job' = [job EXCEPT ![f].state = "failed"]
          /\ UNCHANGED bundles
    /\ UNCHANGED <<now, cur, request, input, queue, receives, dispatcher, exec, writer,
                   arns, cancel, sweep>>

\* Batch ends the job of a state that is no longer waiting for it.
TerminateJob(f) ==
    /\ job[f].state \in LiveJob
    /\ exec[f].state \in Callbacks \cup ClosedStates
    /\ job' = [job EXCEPT ![f].state = "failed"]
    /\ UNCHANGED <<now, cur, request, input, queue, receives, dispatcher, exec, bundles,
                   writer, arns, cancel, sweep, faults>>

-----------------------------------------------------------------------------
\* Callbacks: the execution invokes the finalization writer, which may outlive
\* an execution that is stopped meanwhile.

InvokeWriter(f) ==
    /\ exec[f].state \in Callbacks
    /\ writer[f].pc = "idle"
    /\ writer' = [writer EXCEPT ![f] =
                    [pc |-> "run", callback |-> exec[f].state, at |-> exec[f].entered,
                     startedAt |-> NoTime]]
    /\ UNCHANGED <<now, cur, request, input, queue, receives, dispatcher, exec, job, bundles,
                   arns, cancel, sweep, faults>>

NoInvocation == [pc |-> "idle", callback |-> "none", at |-> 0, startedAt |-> NoTime]

\* The invocation ends; a stopped execution no longer listens.
Returns(f) ==
    /\ writer' = [writer EXCEPT ![f] = NoInvocation]
    /\ exec' = IF exec[f].state \in Callbacks THEN Close(f, "SUCCEEDED") ELSE exec

\* A Lambda or bundle error is retried, any other one is CallbackDeliveryFailed.
ThrowsTransient(f) ==
    /\ writer' = [writer EXCEPT ![f] = NoInvocation]
    /\ exec' = IF exec[f].state \notin Callbacks THEN exec
               ELSE IF exec[f].tries < MaxRetries THEN [exec EXCEPT ![f].tries = @ + 1]
               ELSE Close(f, "FAILED")

ThrowsFatal(f) ==
    /\ writer' = [writer EXCEPT ![f] = NoInvocation]
    /\ exec' = IF exec[f].state \in Callbacks THEN Close(f, "FAILED") ELSE exec

\* A fault of the Lambda service or of reading the bundle is retried, one of the
\* session table is not.
Throws(f) == ThrowsTransient(f) \/ ThrowsFatal(f)

\* The command of a callback that reports a failure.
failureCommand(f) ==
    CASE writer[f].callback = "CallbackTimedOut" ->
            Command("time_out", f, NoTime, writer[f].at, NoCode)
      [] writer[f].callback = "CallbackSignatureFailed" ->
            Command("fail", f, NoTime, writer[f].at, "PROVER_IMAGE_SIGNATURE_FAILED")
      [] writer[f].callback = "CallbackFailed" ->
            Command("fail", f, NoTime, writer[f].at, "PROVER_TASK_FAILED")
      [] writer[f].callback = "CallbackSucceeded" ->
            Command("fail", f, NoTime, writer[f].at, "FINALIZATION_BUNDLE_RESTORE_FAILED")

\* The failure is written.  After a job that succeeded there is one only when its
\* bundle cannot be restored.
writeFailure(f) ==
    /\ writer[f].pc = "run"
    /\ LET m == failureCommand(f)
           next == After(m)
           recorded == next # NoRecord /\ next.fid = f /\ next.status = requestedFinalizationStatus(m)
       IN  \/ /\ cur' = next
              /\ arns' = IF recorded THEN arns \cup {f} ELSE arns
              /\ Returns(f)
              /\ IF writer[f].callback = "CallbackSucceeded" THEN Fault ELSE UNCHANGED faults
           \/ /\ Fault
              /\ cur' \in {cur, next}
              /\ Throws(f)
              /\ UNCHANGED arns
    /\ UNCHANGED <<now, request, input, queue, receives, dispatcher, job, bundles, cancel, sweep>>

\* A success takes its start time from the stored record of its finalization.
bindAdmittedStartedAt(f) ==
    /\ writer[f].pc = "run"
    /\ writer[f].callback = "CallbackSucceeded"
    /\ f \in bundles
    /\ \/ /\ isCurrent(f, {"running", "succeeded"})
          /\ cur.queuedAt = request[f].queuedAt
          /\ writer' = [writer EXCEPT ![f].pc = "commit", ![f].startedAt = cur.startedAt]
          /\ UNCHANGED <<exec, faults>>
       \/ /\ ~(isCurrent(f, {"running", "succeeded"}) /\ cur.queuedAt = request[f].queuedAt)
          /\ ThrowsFatal(f)
          /\ UNCHANGED faults
       \/ Fault /\ Throws(f)
    /\ UNCHANGED <<now, cur, request, input, queue, receives, dispatcher, job, bundles, arns,
                   cancel, sweep>>

\* Faulty variant: the success is committed with the start time its transport
\* gives, whatever the record holds.
commitAwsSuccessTransport(f) ==
    /\ writer[f].pc = "commit"
    /\ cur' = After(Command("succeed", f, writer[f].at, writer[f].at, NoCode))
    /\ Returns(f)
    /\ UNCHANGED <<now, request, input, queue, receives, dispatcher, job, bundles, arns,
                   cancel, sweep, faults>>

\* markAwsFinalizationSucceeded: a failure recorded first is retained, a success
\* recorded first must be this one.
commitAwsSuccess(f) ==
    LET m == Command("succeed", f, writer[f].startedAt, writer[f].at, NoCode)
        matches == isCurrent(f, {"running"}) => cur.startedAt = writer[f].startedAt
        replays == isCurrent(f, {"succeeded"}) => cur = nextRecord(cur, m)
    IN  /\ writer[f].pc = "commit"
        /\ \/ /\ matches /\ replays
              /\ cur' = After(m)
              /\ Returns(f)
              /\ arns' = IF isApplied(cur, m) THEN arns \cup {f} ELSE arns
              /\ UNCHANGED faults
           \/ /\ ~(matches /\ replays)
              /\ ThrowsFatal(f)
              /\ UNCHANGED <<cur, arns, faults>>
           \/ /\ Fault
              /\ cur' \in {cur} \cup (IF matches /\ replays THEN {After(m)} ELSE {})
              /\ Throws(f)
              /\ UNCHANGED arns
        /\ UNCHANGED <<now, request, input, queue, receives, dispatcher, job, bundles, cancel, sweep>>

-----------------------------------------------------------------------------
\* The cancel request: it acts on the record and the ARN it has read.

cancelFinalizationHandler ==
    /\ cancel.pc = "idle"
    /\ now <= Horizon
    /\ isUnfinished(cur)
    /\ cancel' = [pc |-> "stop", snap |-> cur]
    /\ UNCHANGED <<now, cur, request, input, queue, receives, dispatcher, exec, job, bundles,
                   writer, arns, sweep, faults>>

tryStopExecution ==
    /\ cancel.pc = "stop"
    /\ LET f == cancel.snap.fid
       IN  \/ /\ exec' = IF f \in arns /\ exec[f].state \in OpenStates
                         THEN Close(f, "ABORTED") ELSE exec
              /\ UNCHANGED faults
           \/ f \in arns /\ Fault /\ UNCHANGED exec
    /\ cancel' = [cancel EXCEPT !.pc = "write"]
    /\ UNCHANGED <<now, cur, request, input, queue, receives, dispatcher, job, bundles,
                   writer, arns, sweep>>

markCancelled ==
    /\ cancel.pc = "write"
    /\ cur' = After(Command("cancel", cancel.snap.fid, cancel.snap.startedAt, now, NoCode))
    /\ cancel' = [cancel EXCEPT !.pc = "done"]
    /\ UNCHANGED <<now, request, input, queue, receives, dispatcher, exec, job, bundles,
                   writer, arns, sweep, faults>>

-----------------------------------------------------------------------------
\* The scheduled sweep (reconcileFinalization): read the record, observe the
\* execution, write an outcome.

NoSweep == [pc |-> "idle", snap |-> NoRecord, at |-> 0, seen |-> "none", stopped |-> 0]

reconcileFinalization ==
    /\ sweep.pc = "idle"
    /\ isUnfinished(cur)
    /\ now - cur.queuedAt >= Grace
    /\ sweep' = [NoSweep EXCEPT !.pc = "observe", !.snap = cur, !.at = now]
    /\ UNCHANGED <<now, cur, request, input, queue, receives, dispatcher, exec, job, bundles,
                   writer, arns, cancel, faults>>

shouldReconcileClosedOnly(snap, e, at) ==
    e.state \in ClosedStates /\ at - e.stopped >= Grace

shouldReconcileExecution(snap, e, at) ==
    /\ e.state \notin OpenStates
    /\ e.state = "none" => snap.status = "pending" /\ at - snap.queuedAt > Deadline
    /\ e.state \in ClosedStates => at - e.stopped >= Grace

observeExecution ==
    /\ sweep.pc = "observe"
    /\ LET e == exec[sweep.snap.fid]
       IN  sweep' = IF shouldReconcileExecution(sweep.snap, e, sweep.at)
                    THEN [sweep EXCEPT !.pc = "write", !.seen = e.state, !.stopped = e.stopped]
                    ELSE NoSweep
    /\ UNCHANGED <<now, cur, request, input, queue, receives, dispatcher, exec, job, bundles,
                   writer, arns, cancel, faults>>

resolveReconciliationFailureReason(snap, seen) ==
    IF seen = "none" THEN "FINALIZATION_DISPATCH_TIMEOUT"
    ELSE IF snap.status = "pending" \/ seen = "SUCCEEDED" THEN "FINALIZATION_OUTCOME_UNRECORDED"
    ELSE IF seen = "FAILED" THEN "PROVER_EXECUTION_FAILED" ELSE "PROVER_EXECUTION_ABORTED"

\* A command the policy refuses leaves the record as it is, and so does one
\* that it finds invalid.
writeReconciledOutcome ==
    /\ sweep.pc = "write"
    /\ cur' = After(Command("fail", sweep.snap.fid, sweep.snap.startedAt,
                            IF sweep.seen = "none" THEN sweep.at ELSE sweep.stopped,
                            resolveReconciliationFailureReason(sweep.snap, sweep.seen)))
    /\ sweep' = NoSweep
    /\ UNCHANGED <<now, request, input, queue, receives, dispatcher, exec, job, bundles,
                   writer, arns, cancel, faults>>

-----------------------------------------------------------------------------
\* Time passes; beyond the horizon only when no work is on its way.
Tick ==
    /\ now < MaxTime
    /\ now >= Horizon =>
            /\ queue = {}
            /\ \A d \in Dispatchers : dispatcher[d].pc = "idle"
            /\ \A f \in Fids : exec[f].state \notin OpenStates
    /\ now' = now + 1
    /\ UNCHANGED <<cur, request, input, queue, receives, dispatcher, exec, job, bundles,
                   writer, arns, cancel, sweep, faults>>

NotRequested(f) == [pc |-> "idle", queuedAt |-> 0, told |-> f, code |-> NoCode]

Init ==
    /\ now = 0
    /\ cur = NoRecord
    /\ request = [f \in Fids |-> NotRequested(f)]
    /\ input = {} /\ queue = {} /\ bundles = {} /\ arns = {}
    /\ receives = [f \in Fids |-> 0]
    /\ dispatcher = [d \in Dispatchers |-> Idle]
    /\ exec = [f \in Fids |-> [state |-> "none", entered |-> 0, stopped |-> 0, tries |-> 0]]
    /\ job = [f \in Fids |-> [state |-> "none", startedAt |-> NoTime]]
    /\ writer = [f \in Fids |-> NoInvocation]
    /\ cancel = [pc |-> "idle", snap |-> NoRecord]
    /\ sweep = NoSweep
    /\ faults = 0

RequestStep(f) ==
    \/ markFinalizationQueued(f) \/ persistAsyncProverInput(f)
    \/ publish(f) \/ writeAsyncFailure(f)

Dispatch(d) ==
    \/ Receive(d) \/ admitPendingFinalization(d)
    \/ dispatchProverRecord(d) \/ acknowledgeExistingExecution(d)

Container(f) ==
    \/ StartContainer(f) \/ admit_batch_prover_start(f) \/ loadAppliedFinalizationRecord(f)
    \/ run_host_and_upload(f) \/ TerminateJob(f)

Advance(f) == VerifyImageSignature(f) \/ RunProver(f) \/ InvokeWriter(f)

Callback(f) == writeFailure(f) \/ bindAdmittedStartedAt(f) \/ commitAwsSuccess(f)

Cancel == cancelFinalizationHandler \/ tryStopExecution \/ markCancelled

Sweep == reconcileFinalization \/ observeExecution \/ writeReconciledOutcome

Next ==
    \/ \E f \in Fids : RequestStep(f) \/ DeadLetter(f) \/ Advance(f) \/ AbortExecution(f)
                       \/ Container(f) \/ Callback(f)
    \/ \E d \in Dispatchers : Dispatch(d)
    \/ Cancel \/ Sweep \/ Tick

Spec == Init /\ [][Next]_vars

\* The queue delivers, invocations end, every state of an execution has a
\* deadline and the sweep is scheduled every minute.  Nothing is assumed of
\* requests, which may crash, nor of Batch capacity and containers.
Fairness ==
    /\ \A f \in Fids : WF_vars(Advance(f)) /\ WF_vars(Callback(f)) /\ WF_vars(DeadLetter(f))
    /\ \A d \in Dispatchers : WF_vars(Dispatch(d))
    /\ WF_vars(Sweep) /\ WF_vars(Tick)

FairSpec == Spec /\ Fairness

-----------------------------------------------------------------------------
TypeOK ==
    /\ now \in 0..MaxTime
    /\ cur \in FinalizationRecord \cup {NoRecord}
    /\ request \in [Fids -> [pc : {"idle", "persist", "publish", "failing", "accepted", "refused"},
                             queuedAt : Nat, told : Fids, code : Codes \cup {NoCode}]]
    /\ input \subseteq Fids /\ queue \subseteq Fids /\ bundles \subseteq Fids /\ arns \subseteq Fids
    /\ receives \in [Fids -> 0..MaxReceives]
    /\ dispatcher \in [Dispatchers -> {Idle} \cup [pc : {"admit", "start", "existing"}, fid : Fids]]
    /\ exec \in [Fids -> Execution]
    /\ job \in [Fids -> Job]
    /\ writer \in [Fids -> [pc : {"idle", "run", "commit"}, callback : Callbacks \cup {"none"},
                            at : Nat, startedAt : Nat \cup {NoTime}]]
    /\ cancel \in [pc : {"idle", "stop", "write", "done"}, snap : FinalizationRecord \cup {NoRecord}]
    /\ sweep \in [pc : {"idle", "observe", "write"}, snap : FinalizationRecord \cup {NoRecord},
                  at : Nat, seen : ClosedStates \cup {"none"}, stopped : Nat]
    /\ faults \in 0..MaxFaults

\* Duplicate finalize requests describe the existing attempt and start nothing:
\* only the recorded finalization ever has an input, a message or an
\* execution, and every accepted request was told that finalization.
OneAttempt ==
    \A f \in Fids :
        /\ f \in input \cup queue \/ exec[f].state # "none" => cur # NoRecord /\ cur.fid = f
        /\ request[f].pc = "accepted" => cur # NoRecord /\ cur.fid = request[f].told

\* No work is announced or executed before the prover input it will read is
\* stored.
InputBeforeWork ==
    /\ queue \subseteq input
    /\ \A f \in Fids : exec[f].state # "none" => f \in input

\* However often a finalization is requested and its message delivered, one
\* attempt exists, all work is done for it, and no work comes before its input.
AttemptIsOne == TypeOK /\ OneAttempt /\ InputBeforeWork

\* A finalization succeeds only with the artifacts of its own container, and
\* with the start time that this container was admitted with.
SuccessWasProved ==
    cur # NoRecord /\ cur.status = "succeeded" =>
        /\ cur.fid \in bundles
        /\ job[cur.fid].state = "succeeded"
        /\ cur.startedAt = job[cur.fid].startedAt

\* An execution that Step Functions reports as SUCCEEDED has left an outcome.
SucceededExecutionRecorded ==
    \A f \in Fids : exec[f].state = "SUCCEEDED" => isTerminal(cur)

\* Success and a succeeded execution vouch for each other: a recorded success was
\* proved by its own container, and an execution ends well only with an outcome.
SuccessIsTrue == SuccessWasProved /\ SucceededExecutionRecorded

\* A cancel request that has been answered leaves nothing in progress, even
\* when the finalization moved on after the request had read it.
CancelEndsAttempt == cancel.pc = "done" => isTerminal(cur)

\* A proof starts only for the finalization that is current and running with
\* this container's start time; one cancelled or failed while its job waited,
\* or while its admission was under way, is never proved.
NoProofAfterOutcome ==
    \A f \in Fids :
        job[f].state # "proving" /\ job'[f].state = "proving" =>
            isCurrent(f, {"running"}) /\ cur.startedAt = job[f].startedAt

\* The start time of a finalization never moves once it is recorded.
StartTimeKept ==
    isUnfinished(cur) /\ cur.startedAt # NoTime /\ cur'.status \in {"running", "succeeded"} =>
        cur'.startedAt = cur.startedAt

\* An outcome ends the work: an answered cancel leaves nothing in progress, no
\* proof starts for an attempt that is over or was started at another time, and
\* the start time that decides this does not move.
OutcomeEndsWork == []CancelEndsAttempt /\ [][NoProofAfterOutcome /\ StartTimeKept]_vars

\* Every attempt ends: whatever crashes, is lost or never starts, a queued
\* finalization eventually has an outcome.
AttemptEnds == isUnfinished(cur) ~> isTerminal(cur)

\* An execution that has closed without an outcome eventually gets one.
ClosedExecutionRecorded ==
    (isUnfinished(cur) /\ exec[cur.fid].state \in ClosedStates) ~> isTerminal(cur)

=============================================================================

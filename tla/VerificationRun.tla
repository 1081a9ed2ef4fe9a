-------------------------- MODULE VerificationRun ---------------------------
(***************************************************************************)
(* Running the verifier for one succeeded finalization: the POST           *)
(* verification handler, the verification queue, the worker Lambda, and    *)
(* the store's verification-result record with its rollback snapshot.      *)
(*                                                                         *)
(* A request that finds no result marks the record running (keeping what   *)
(* it replaces in a rollback item), publishes a work message and sets the  *)
(* queued marker of the delivery metadata; if publishing fails it rolls    *)
(* the record back.  A request that finds it running without the marker    *)
(* publishes again.  Each message is delivered at least once; the worker   *)
(* skips finished work, runs the verifier and completes the record.  A     *)
(* local profile runs the verifier inside the request.                     *)
(*                                                                         *)
(* Every read and every conditional write is a step of its own.  The       *)
(* message that request r publishes is processed by the process            *)
(* <<r, "worker">>.                                                        *)
(***************************************************************************)
EXTENDS Naturals, FiniteSets

CONSTANTS
    Requests,           \* POST requests, each made once
    Local,              \* the local profile: the request runs the verifier
    NoItem,             \* the key is absent from the table
    WriteAttempts,      \* MAX_CONDITIONAL_RETRIES (3)
    MaxReceives,        \* VERIFICATION_WORK_MAX_RECEIVE_COUNT and the redrive limit (3)
    MaxFaults           \* bound: crashes, failed publications and writes

Terminal == {"success", "failed", "dev_mode"}
Statuses == Terminal \cup {"not_run", "running"}
Procs == Requests \X {"request", "worker"}

VerificationItem == [status : Statuses, rev : Nat]
RollbackItem == [snapshot : VerificationItem \cup {NoItem}]

\* What an instance gives the constants.
RunConstants ==
    /\ NoItem \notin VerificationItem \cup RollbackItem
    /\ Local \in BOOLEAN
    /\ WriteAttempts \in Nat \ {0}
    /\ MaxReceives \in Nat \ {0}
    /\ MaxFaults \in Nat

VARIABLES
    verification,   \* VERIFICATION_RESULT item: status and revision, or NoItem
    rollback,       \* VERIFICATION_ROLLBACK item: the replaced status, or NoItem
    queuedMark,     \* delivery metadata: verificationWorkQueuedAtMs is set
    message,        \* message of each request: where it is
    receives,       \* its ApproximateReceiveCount
    rolledBack,     \* a rollback has removed or restored the record
    verdicts,       \* what the verifier has answered so far
    proc,           \* local state of each request and worker invocation
    faults          \* faults that have happened

vars == <<verification, rollback, rolledBack, queuedMark, message, receives, verdicts,
          proc, faults>>
store == <<verification, rollback, rolledBack>>
queue == <<message, receives>>

Idle == [pc |-> "idle", mode |-> "none", status |-> "unread", mark |-> "unread",
         cur |-> NoItem, rb |-> NoItem, write |-> "none", attempt |-> 0, answer |-> "none"]

Pcs == {"idle", "read", "mark", "markRollback", "markWrite", "markReread", "publish", "marker", "verify",
        "complete", "completeRollback", "completeWrite", "rollback", "rollbackItem",
        "rollbackWrite", "invoke", "upload", "done"}

Init ==
    /\ verification = NoItem
    /\ rollback = NoItem
    /\ rolledBack = FALSE
    /\ queuedMark = FALSE
    /\ message = [r \in Requests |-> "none"]
    /\ receives = [r \in Requests |-> 0]
    /\ verdicts = {}
    /\ proc = [p \in Procs |-> Idle]
    /\ faults = 0

StatusOf(item) == IF item = NoItem THEN "none" ELSE item.status

nextRevision(item) == IF item = NoItem THEN 1 ELSE item.rev + 1

\* Process p moves on; its other fields are updated by f.
Goto(p, pc) == proc' = [proc EXCEPT ![p].pc = pc]
Answer(p, a) == proc' = [proc EXCEPT ![p].pc = "done", ![p].answer = a]

Faulty == faults < MaxFaults /\ faults' = faults + 1

-----------------------------------------------------------------------------
\* writeVerificationResult and rollbackVerificationResult of the store.

\* The read that starts an attempt.  A terminal result is returned as it is: the
\* caller goes on as if its write had been made.
loadVerificationItem(p, at, then, afterTerminal) ==
    /\ proc[p].pc = at
    /\ IF StatusOf(verification) \in Terminal
       THEN Goto(p, afterTerminal)
       ELSE proc' = [proc EXCEPT ![p].cur = verification, ![p].pc = then]
    /\ UNCHANGED <<store, queuedMark, queue, verdicts, faults>>

readRollbackItem(p, at, then) ==
    /\ proc[p].pc = at
    /\ proc' = [proc EXCEPT ![p].rb = rollback, ![p].pc = then]
    /\ UNCHANGED <<store, queuedMark, queue, verdicts, faults>>

\* A refused condition starts the next attempt or, at the limit, is thrown.
Refused(p, retry, thrown) ==
    LET k == proc[p]
    IN  proc' = [proc EXCEPT ![p] =
            IF k.attempt + 1 = WriteAttempts
            THEN [k EXCEPT !.pc = thrown, !.attempt = 0, !.answer = "error"]
            ELSE [k EXCEPT !.pc = retry, !.attempt = k.attempt + 1]]

\* Faulty variant: the record is written at whatever revision it has.
SameRevisionUnchecked(k) == TRUE

\* matchItemRevision: the record is still at the revision read, or still absent.
SameRevision(k) ==
    IF k.cur = NoItem THEN verification = NoItem
    ELSE verification # NoItem /\ verification.rev = k.cur.rev

\* Start: the record becomes running; the first start keeps a snapshot.
writeStart(p) ==
    LET k == proc[p]
    IN  /\ k.pc = "markWrite"
        /\ IF SameRevision(k) /\ (k.rb = NoItem => rollback = NoItem)
           THEN /\ verification' = [status |-> "running", rev |-> nextRevision(k.cur)]
                /\ rollback' = IF k.rb = NoItem THEN [snapshot |-> k.cur] ELSE rollback
                /\ UNCHANGED rolledBack
                /\ proc' = [proc EXCEPT ![p].pc = IF Local THEN "verify" ELSE "publish",
                                        ![p].attempt = 0]
           ELSE Refused(p, "mark", "markReread") /\ UNCHANGED store
        /\ UNCHANGED <<queuedMark, queue, verdicts, faults>>

\* The snapshot found by the completion is deleted with the write.
completionRollback(k) == IF k.rb = NoItem THEN rollback ELSE NoItem

\* Completion: the record takes the terminal result.
writeCompletion(p, after) ==
    LET k == proc[p]
    IN  /\ k.pc = "completeWrite"
        /\ IF SameRevision(k)
           THEN /\ verification' = [status |-> k.write, rev |-> nextRevision(k.cur)]
                /\ rollback' = completionRollback(k)
                /\ UNCHANGED rolledBack
                /\ Goto(p, after)
           ELSE Refused(p, "complete", "failing") /\ UNCHANGED store
        /\ UNCHANGED <<queuedMark, queue, verdicts, faults>>

\* rollbackVerificationResult reads the record, then the snapshot, and restores
\* it at the revision read; it is not retried.
rollbackRead(p) ==
    /\ proc[p].pc = "rollback"
    /\ proc' = [proc EXCEPT ![p].cur = verification, ![p].pc = "rollbackItem"]
    /\ UNCHANGED <<store, queuedMark, queue, verdicts, faults>>

rollbackReadItem(p) ==
    /\ proc[p].pc = "rollbackItem"
    /\ IF rollback = NoItem THEN Answer(p, "error")
       ELSE proc' = [proc EXCEPT ![p].rb = rollback, ![p].pc = "rollbackWrite"]
    /\ UNCHANGED <<store, queuedMark, queue, verdicts, faults>>

rollbackWrite(p) ==
    LET k == proc[p]
    IN  /\ k.pc = "rollbackWrite"
        /\ IF SameRevision(k) /\ rollback # NoItem
           THEN /\ verification' =
                    IF k.rb.snapshot = NoItem THEN NoItem
                    ELSE [status |-> k.rb.snapshot.status, rev |-> nextRevision(k.cur)]
                /\ rollback' = NoItem
                /\ rolledBack' = TRUE
           ELSE UNCHANGED store
        /\ Answer(p, "error")
        /\ UNCHANGED <<queuedMark, queue, verdicts, faults>>

-----------------------------------------------------------------------------
\* runVerificationHandler.

request(r) == <<r, "request">>
worker(r) == <<r, "worker">>

Begin(r) ==
    /\ proc[request(r)].pc = "idle"
    /\ Goto(request(r), "read")
    /\ UNCHANGED <<store, queuedMark, queue, verdicts, faults>>

\* The record and the delivery metadata are requested together.
ReadStatus(r) ==
    LET p == request(r)
    IN  /\ proc[p].pc = "read" /\ proc[p].status = "unread"
        /\ proc' = [proc EXCEPT ![p].status = StatusOf(verification)]
        /\ UNCHANGED <<store, queuedMark, queue, verdicts, faults>>

ReadMark(r) ==
    LET p == request(r)
    IN  /\ proc[p].pc = "read" /\ proc[p].mark = "unread"
        /\ proc' = [proc EXCEPT ![p].mark = IF queuedMark THEN "set" ELSE "unset"]
        /\ UNCHANGED <<store, queuedMark, queue, verdicts, faults>>

\* A finished result is returned; running work is resumed if it was never
\* marked queued; anything else is started.
Decide(r) ==
    LET p == request(r)
        k == proc[p]
    IN  /\ k.pc = "read" /\ k.status # "unread" /\ k.mark # "unread"
        /\ CASE k.status \in Terminal -> Answer(p, k.status)
             [] k.status = "running" ->
                    IF ~Local /\ k.mark = "unset"
                    THEN proc' = [proc EXCEPT ![p].pc = "publish", ![p].mode = "resume"]
                    ELSE Answer(p, "running")
             [] OTHER -> proc' = [proc EXCEPT ![p].pc = "mark", ![p].mode = "start"]
        /\ UNCHANGED <<store, queuedMark, queue, verdicts, faults>>

\* The locator of the bundle or the expected image id cannot be resolved.
admissionFails(r) ==
    LET p == request(r)
    IN  /\ proc[p].pc = "read" /\ proc[p].mark # "unread"
        /\ proc[p].status \notin Terminal \cup {"unread"}
        /\ Faulty
        /\ Answer(p, "error")
        /\ UNCHANGED <<store, queuedMark, queue, verdicts>>

\* After the last refused start the record is read again: a verification that
\* another request has started is answered as running.
rereadStart(p) ==
    /\ proc[p].pc = "markReread"
    /\ Answer(p, IF StatusOf(verification) = "running" THEN "running" ELSE "error")
    /\ UNCHANGED <<store, queuedMark, queue, verdicts, faults>>

markVerificationRunning(r) ==
    LET p == request(r)
    IN  \/ loadVerificationItem(p, "mark", "markRollback",
                                IF Local THEN "verify" ELSE "publish")
        \/ readRollbackItem(p, "markRollback", "markWrite")
        \/ writeStart(p) \/ rereadStart(p)

\* publishVerificationWorkMessage succeeds.
Publish(r) ==
    /\ proc[request(r)].pc = "publish"
    /\ message' = [message EXCEPT ![r] = "queued"]
    /\ Goto(request(r), "marker")
    /\ UNCHANGED <<store, queuedMark, receives, verdicts, faults>>

\* It fails, the message sent or not: a start is rolled back, a resumption is
\* not.
PublishFails(r) ==
    LET p == request(r)
    IN  /\ proc[p].pc = "publish"
        /\ Faulty
        /\ message' \in {message, [message EXCEPT ![r] = "queued"]}
        /\ IF proc[p].mode = "start" THEN Goto(p, "rollback") ELSE Answer(p, "error")
        /\ UNCHANGED <<store, queuedMark, receives, verdicts>>

\* The queued marker; its failure is only logged.
recordQueuedMarker(r) ==
    /\ proc[request(r)].pc = "marker"
    /\ \/ queuedMark' = TRUE /\ UNCHANGED faults
       \/ Faulty /\ UNCHANGED queuedMark
    /\ Answer(request(r), "running")
    /\ UNCHANGED <<store, queue, verdicts>>

\* runLocalVerification: an answer is completed, an error rolled back.
LocalVerify(r) ==
    LET p == request(r)
    IN  /\ proc[p].pc = "verify"
        /\ \/ \E v \in Terminal :
                /\ verdicts' = verdicts \cup {v}
                /\ proc' = [proc EXCEPT ![p].write = v, ![p].pc = "complete"]
                /\ UNCHANGED faults
           \/ /\ Faulty
              /\ Goto(p, "rollback")
              /\ UNCHANGED verdicts
        /\ UNCHANGED <<store, queuedMark, queue>>

LocalComplete(r) ==
    LET p == request(r)
    IN  \/ loadVerificationItem(p, "complete", "completeRollback", "localDone")
        \/ readRollbackItem(p, "completeRollback", "completeWrite")
        \/ writeCompletion(p, "localDone")
        \/ /\ proc[p].pc \in {"localDone", "failing"}
           /\ Answer(p, IF proc[p].pc = "failing" THEN "error" ELSE proc[p].write)
           /\ UNCHANGED <<store, queuedMark, queue, verdicts, faults>>

Rollback(r) ==
    rollbackRead(request(r)) \/ rollbackReadItem(request(r)) \/ rollbackWrite(request(r))

\* The Lambda or the process dies between two steps.
RequestDies(r) ==
    /\ proc[request(r)].pc \notin {"idle", "done"}
    /\ Faulty
    /\ Answer(request(r), "crashed")
    /\ UNCHANGED <<store, queuedMark, queue, verdicts>>

-----------------------------------------------------------------------------
\* The queue and the worker.

\* A message is visible to one invocation at a time; the invocation starts with
\* resolveVerificationWorkDisposition.
Receive(r) ==
    LET p == worker(r)
    IN  /\ message[r] = "queued"
        /\ message' = [message EXCEPT ![r] = "received"]
        /\ receives' = [receives EXCEPT ![r] = @ + 1]
        /\ proc' = [proc EXCEPT ![p] = [Idle EXCEPT !.pc = "read"]]
        /\ UNCHANGED <<store, queuedMark, verdicts, faults>>

resolveVerificationWorkDisposition(r) ==
    LET p == worker(r)
    IN  /\ proc[p].pc = "read"
        /\ IF StatusOf(verification) \in Terminal
           THEN Goto(p, "deleted")
           ELSE Goto(p, "verify")
        /\ UNCHANGED <<store, queuedMark, queue, verdicts, faults>>

\* A stage of runVerificationPayload throws an infrastructure error.
stageFails(p) == Faulty /\ Goto(p, "failing")

\* The bundle is downloaded, inspected and extracted.
restoreVerificationWorkDirectory(r) ==
    LET p == worker(r)
    IN  /\ proc[p].pc = "verify"
        /\ (Goto(p, "invoke") /\ UNCHANGED faults) \/ stageFails(p)
        /\ UNCHANGED <<store, queuedMark, queue, verdicts>>

\* The verifier gives one of its three answers, or crashes or times out.
invokeBundleVerifier(r) ==
    LET p == worker(r)
    IN  /\ proc[p].pc = "invoke"
        /\ \/ \E v \in Terminal :
                /\ verdicts' = verdicts \cup {v}
                /\ proc' = [proc EXCEPT ![p].write = v, ![p].pc = "upload"]
                /\ UNCHANGED faults
           \/ stageFails(p) /\ UNCHANGED verdicts
        /\ UNCHANGED <<store, queuedMark, queue>>

\* The artifacts are uploaded and their delivery metadata recorded.
publishVerificationArtifacts(r) ==
    LET p == worker(r)
    IN  /\ proc[p].pc = "upload"
        /\ (Goto(p, "complete") /\ UNCHANGED faults) \/ stageFails(p)
        /\ UNCHANGED <<store, queuedMark, queue, verdicts>>

completeVerificationResult(r) ==
    LET p == worker(r)
    IN  \/ loadVerificationItem(p, "complete", "completeRollback", "deleted")
        \/ readRollbackItem(p, "completeRollback", "completeWrite")
        \/ writeCompletion(p, "deleted")

exhausted(r) == receives[r] >= MaxReceives

\* An error on the last delivery is stored as a failed verification; if that
\* write throws too, the error is only logged.
persistExhaustedVerificationFailure(r) ==
    LET p == worker(r)
    IN  /\ proc[p].pc = "failing"
        /\ IF exhausted(r) /\ proc[p].mode # "exhausted"
           THEN proc' = [proc EXCEPT ![p].pc = "complete", ![p].write = "failed",
                                     ![p].mode = "exhausted", ![p].attempt = 0]
           ELSE Goto(p, "returned")
        /\ UNCHANGED <<store, queuedMark, queue, verdicts, faults>>

\* A failed message becomes visible again or goes to the dead-letter queue; a
\* processed one, also one whose failure was stored, is deleted or redriven.
Redrive(r) ==
    message' = [message EXCEPT ![r] = IF receives[r] >= MaxReceives THEN "dead" ELSE "queued"]

Settle(r) ==
    LET p == worker(r)
    IN  /\ proc[p].pc \in {"deleted", "returned"}
        /\ IF proc[p].pc = "deleted" /\ proc[p].mode # "exhausted"
           THEN message' = [message EXCEPT ![r] = "gone"]
           ELSE Redrive(r)
        /\ proc' = [proc EXCEPT ![p] = Idle]
        /\ UNCHANGED <<store, queuedMark, receives, verdicts, faults>>

\* The worker dies: the visibility timeout returns the message.
WorkerDies(r) ==
    LET p == worker(r)
    IN  /\ proc[p].pc \notin {"idle"}
        /\ Faulty
        /\ Redrive(r)
        /\ proc' = [proc EXCEPT ![p] = Idle]
        /\ UNCHANGED <<store, queuedMark, receives, verdicts>>

-----------------------------------------------------------------------------
RequestStep(r) ==
    \/ ReadStatus(r) \/ ReadMark(r) \/ Decide(r) \/ admissionFails(r)
    \/ markVerificationRunning(r)
    \/ Publish(r) \/ PublishFails(r) \/ recordQueuedMarker(r) \/ Rollback(r)
    \/ Local /\ (LocalVerify(r) \/ LocalComplete(r))

WorkerStep(r) ==
    \/ Receive(r) \/ resolveVerificationWorkDisposition(r)
    \/ restoreVerificationWorkDirectory(r) \/ invokeBundleVerifier(r)
    \/ publishVerificationArtifacts(r)
    \/ completeVerificationResult(r) \/ persistExhaustedVerificationFailure(r) \/ Settle(r)

Next ==
    \E r \in Requests :
        Begin(r) \/ RequestStep(r) \/ WorkerStep(r) \/ RequestDies(r) \/ WorkerDies(r)

Spec == Init /\ [][Next]_vars

\* SQS delivers visible messages and Lambda invocations run on; every request
\* that has begun goes on until it answers or dies.
FairSpec ==
    Spec /\ \A r \in Requests : WF_vars(RequestStep(r)) /\ WF_vars(WorkerStep(r))

-----------------------------------------------------------------------------
TypeOK ==
    /\ verification # NoItem => verification.status \in Statuses /\ verification.rev \in Nat
    /\ rollback # NoItem => StatusOf(rollback.snapshot) \notin Terminal
    /\ queuedMark \in BOOLEAN
    /\ \A r \in Requests :
        /\ message[r] \in {"none", "queued", "received", "gone", "dead"}
        /\ receives[r] \in 0 .. MaxReceives
    /\ \A p \in Procs :
        /\ proc[p].pc \in Pcs \cup {"deleted", "returned", "failing", "localDone"}
        /\ proc[p].attempt < WriteAttempts
    /\ verdicts \subseteq Terminal

\* A stored result is one the verifier gave, or the failure of work whose
\* deliveries were used up.
ResultWasVerified ==
    StatusOf(verification) \in Terminal =>
        \/ verification.status \in verdicts
        \/ verification.status = "failed" /\ \E r \in Requests : receives[r] >= MaxReceives

\* Work is never forgotten: a record that is running although it is marked as
\* queued and no message for it is on its way had a message whose deliveries were
\* used up.  A rollback leaves the marker of another request's message behind, so
\* a start after it that dies is not covered.
RunningIsResumable ==
    /\ StatusOf(verification) = "running" /\ ~rolledBack
    /\ queuedMark
    /\ \A r \in Requests : message[r] \in {"none", "gone", "dead"}
    => \E r \in Requests : message[r] = "dead"

\* A stored result is never replaced by starts, resumptions, duplicate work or
\* exhausted deliveries that race it, as long as no rollback has been made.
StickyUnlessRolledBack ==
    StatusOf(verification) \in Terminal /\ ~rolledBack => verification' = verification

\* A published message leads to a result, unless its deliveries are used up.
WorkIsDone ==
    \A r \in Requests :
        message[r] = "queued" ~> (StatusOf(verification) \in Terminal \/ message[r] = "dead")

=============================================================================

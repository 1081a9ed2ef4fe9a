---------------------------- MODULE HostProcess ----------------------------
(***************************************************************************)
(* The local executor runs the prover's host as a process group of its     *)
(* own: a deadline, an exit or a shutdown begins the stop, which asks the  *)
(* group to end, then kills it, and settles the run when the output is     *)
(* closed and no process is left, or when the last wait is over. The       *)
(* executor then reads the files the host left and removes them.           *)
(* What a process does with a signal is its own affair: it may end at any  *)
(* time, or never.                                                         *)
(***************************************************************************)
EXTENDS Naturals, FiniteSets

CONSTANTS
    Runs,          \* executions of one server
    ExitCodes      \* the ways a host ends: "zero", "nonzero" or "signal"

VARIABLES
    run,           \* the supervisor's variables and the group it owns, for each execution
    shuttingDown,
    stopped,       \* the executions the shutdown waits for
    exitCode       \* of the server

vars == <<run, shuttingDown, stopped, exitCode>>

HostFiles == {"output", "receipt"}
Outcomes == {"none", "success", "timeout", "spawn_error", "nonzero_exit", "signal", "interrupted", "cleanup_failure"}
NoResult == [outcome |-> "none", cleanup |-> "none"]

Init ==
    /\ run = [r \in Runs |->
                [state |-> "idle", main |-> "none", code |-> "none", child |-> "none", exited |-> FALSE, closed |-> FALSE,
                 outcome |-> "none", timer |-> "none", result |-> NoResult, files |-> {}, answer |-> "none"]]
    /\ shuttingDown = FALSE /\ stopped = {} /\ exitCode = "none"

Set(r, new) == run' = [run EXCEPT ![r] = new] /\ UNCHANGED <<shuttingDown, stopped, exitCode>>

-----------------------------------------------------------------------------
(* The group of processes.                                                 *)

groupExists(p) == p.main = "alive" \/ p.child # "none"

(* The host writes its output first and the receipt last; the bitmaps between them are optional. *)
HostWrites(r) ==
    /\ run[r].main = "alive"
    /\ \E f \in HostFiles \ run[r].files :
         /\ f # "output" => "output" \in run[r].files
         /\ "receipt" \notin run[r].files
         /\ Set(r, [run[r] EXCEPT !.files = @ \cup {f}])

HostForks(r) ==
    /\ run[r].main = "alive" /\ run[r].child = "none"
    /\ \E c \in {"holding", "quiet"} : Set(r, [run[r] EXCEPT !.child = c])

HostExits(r) ==
    /\ run[r].main = "alive"
    /\ \E code \in ExitCodes :
         /\ code = "zero" => "receipt" \in run[r].files
         /\ Set(r, [run[r] EXCEPT !.main = "gone", !.code = code])

ChildExits(r) == run[r].child # "none" /\ Set(r, [run[r] EXCEPT !.child = "none"])

-----------------------------------------------------------------------------
(* The supervisor.                                                         *)

(* The first cause is kept. *)
orElse(outcome, cause) == IF outcome = "none" THEN cause ELSE outcome

resolvedOutcome(p, cleanup) ==
    IF cleanup = "unconfirmed" /\ p.outcome = "success" THEN "cleanup_failure" ELSE orElse(p.outcome, "spawn_error")

Settled(p) == p.result # NoResult

finish(p, cleanup) ==
    [p EXCEPT !.timer = "none", !.result = [outcome |-> resolvedOutcome(p, cleanup), cleanup |-> cleanup]]

(* Faulty variant: closed output means that the group is gone. *)
checkStoppedClosed(p) == p.closed

checkStopped(p) == p.closed /\ ~groupExists(p)

stopping(p) == [p EXCEPT !.timer = "grace"]

(* What stop does, and what polling sees at once. *)
stop(p) ==
    IF p.timer \in {"grace", "kill", "both"} \/ Settled(p) THEN p
    ELSE IF checkStopped(p) THEN finish(p, "complete") ELSE stopping(p)

refusesStart == shuttingDown

runHostProcess(r) ==
    /\ run[r].state = "input"
    /\ IF refusesStart THEN Set(r, [run[r] EXCEPT !.state = "cleanup", !.answer = "error"])
       ELSE \E main \in {"alive", "unspawned"} :
              Set(r, [run[r] EXCEPT !.state = "running", !.main = main, !.timer = "deadline"])

DeadlineFires(r) ==
    /\ run[r].timer \in {"deadline", "both"}
    /\ Set(r, stop([run[r] EXCEPT !.outcome = "timeout"]))

OnError(r) ==
    /\ run[r].main = "unspawned" /\ ~run[r].exited
    /\ LET p == [run[r] EXCEPT !.exited = TRUE]
       IN  Set(r, IF Settled(p) THEN p ELSE stop([p EXCEPT !.outcome = orElse(@, "spawn_error")]))

exitOutcome(code) ==
    CASE code = "signal" -> "signal" [] code = "zero" -> "success" [] code = "nonzero" -> "nonzero_exit"

OnExit(r) ==
    /\ run[r].main = "gone" /\ ~run[r].exited
    /\ LET p == [run[r] EXCEPT !.exited = TRUE]
       IN  Set(r, IF Settled(p) THEN p ELSE stop([p EXCEPT !.outcome = orElse(@, exitOutcome(p.code))]))

(* The output is closed when nobody holds it; after a failed spawn the event may not come at all. *)
OnClose(r) ==
    /\ run[r].exited /\ ~run[r].closed /\ run[r].child # "holding"
    /\ LET p == [run[r] EXCEPT !.closed = TRUE]
       IN  Set(r, IF checkStopped(p) /\ ~Settled(p) THEN finish(p, "complete") ELSE p)

Poll(r) ==
    /\ run[r].timer \in {"grace", "kill", "both"} /\ checkStopped(run[r])
    /\ Set(r, finish(run[r], "complete"))

lastWait == "kill"

Escalate(r) ==
    /\ run[r].timer \in {"grace", "both"}
    /\ Set(r, IF checkStopped(run[r]) THEN finish(run[r], "complete") ELSE [run[r] EXCEPT !.timer = lastWait])

FinalWait(r) ==
    /\ run[r].timer = "kill"
    /\ Set(r, finish(run[r], IF checkStopped(run[r]) THEN "complete" ELSE "unconfirmed"))

-----------------------------------------------------------------------------
(* The executor.                                                           *)

(* Writing the input may fail. *)
executeZkVM(r) ==
    /\ run[r].state = "idle" /\ exitCode = "none"
    /\ \/ Set(r, [run[r] EXCEPT !.state = "input", !.files = {"input"}])
       \/ Set(r, [run[r] EXCEPT !.state = "cleanup", !.answer = "error"])

succeeded(p) == p.result.outcome = "success"

executeHost(r) ==
    /\ run[r].state = "running" /\ Settled(run[r])
    /\ Set(r, IF succeeded(run[r]) THEN [run[r] EXCEPT !.state = "read"]
              ELSE [run[r] EXCEPT !.state = "cleanup", !.answer = "error"])

readable(p) == {"output", "receipt"} \subseteq p.files

(* What is read may still not be admitted. *)
readHostResult(r) ==
    /\ run[r].state = "read"
    /\ \/ readable(run[r]) /\ Set(r, [run[r] EXCEPT !.state = "cleanup", !.answer = "result"])
       \/ Set(r, [run[r] EXCEPT !.state = "cleanup", !.answer = "error"])

removed(p) == {}

cleanupHostArtifacts(r) ==
    /\ run[r].state = "cleanup"
    /\ Set(r, [run[r] EXCEPT !.state = "done", !.files = removed(run[r])])

-----------------------------------------------------------------------------
(* The server.                                                             *)

Active == {r \in Runs : run[r].state = "running" /\ ~Settled(run[r])}

shutdownHostProcesses ==
    /\ ~shuttingDown /\ shuttingDown' = TRUE
    /\ stopped' = Active
    /\ run' = [r \in Runs |-> IF r \in Active THEN stop([run[r] EXCEPT !.outcome = orElse(@, "interrupted")]) ELSE run[r]]
    /\ UNCHANGED exitCode

installStaticServerShutdown ==
    /\ shuttingDown /\ exitCode = "none" /\ \A r \in stopped : Settled(run[r])
    /\ exitCode' = IF \A r \in stopped : run[r].result.cleanup = "complete" THEN "clean" ELSE "failed"
    /\ UNCHANGED <<run, shuttingDown, stopped>>

Supervisor(r) ==
    runHostProcess(r) \/ DeadlineFires(r) \/ OnError(r) \/ OnExit(r) \/ Poll(r) \/ Escalate(r) \/ FinalWait(r)
    \/ executeHost(r) \/ readHostResult(r) \/ cleanupHostArtifacts(r)

Next == \/ \E r \in Runs : \/ HostWrites(r) \/ HostForks(r) \/ HostExits(r) \/ ChildExits(r)
                           \/ executeZkVM(r) \/ OnClose(r) \/ Supervisor(r)
        \/ shutdownHostProcesses \/ installStaticServerShutdown

Spec == Init /\ [][Next]_vars

(* Timers fire, and the executor goes on; a process need not end, nor its output be closed. *)
FairSpec == Spec /\ (\A r \in Runs : WF_vars(Supervisor(r))) /\ WF_vars(installStaticServerShutdown)

-----------------------------------------------------------------------------
(* The variables keep their types, and a group belongs to an execution that started one. *)
TypeOK ==
    /\ \A r \in Runs :
         /\ run[r].state \in {"idle", "input", "running", "read", "cleanup", "done"}
         /\ run[r].outcome \in Outcomes
         /\ run[r].timer \in {"none", "deadline", "grace", "kill"}
         /\ run[r].files \subseteq HostFiles \cup {"input"}
         /\ groupExists(run[r]) => run[r].state \notin {"idle", "input"}
         /\ run[r].timer = "none" <=> run[r].state # "running" \/ Settled(run[r])
    /\ stopped \subseteq Runs /\ exitCode \in {"none", "clean", "failed"}

(* An execution is a success only if the host ended by itself after it wrote the receipt, nothing of its    *)
(* group is left, and neither a deadline nor a shutdown came first (finish, stop).                          *)
SuccessIsWhole ==
    \A r \in Runs : run[r].result.outcome = "success" =>
        run[r].code = "zero" /\ ~groupExists(run[r]) /\ run[r].result.cleanup = "complete"

(* A result is only handed out with the files the host wrote. *)
ResultWasWritten == \A r \in Runs : run[r].answer = "result" => run[r].code = "zero" /\ run[r].outcome = "success"

(* When the cleanup is called complete, no process of the group is left, whichever of the exit, the close,  *)
(* the polls and the timers came last (checkStopped).                                                        *)
CompleteIsGone == \A r \in Runs : run[r].result.cleanup = "complete" => ~groupExists(run[r])

(* The votes of an execution that ended are not left on disk, unless its group could not be ended           *)
(* (cleanupHostArtifacts).                                                                                   *)
NothingLeftOnDisk ==
    \A r \in Runs : run[r].state = "done" /\ run[r].result.cleanup # "unconfirmed" => run[r].files = {}

(* A server that exits as if interrupted leaves no host behind, except one it had already reported as        *)
(* unconfirmed before the shutdown, and starts none after it (shutdownHostProcesses).                        *)
ShutdownLeavesNone ==
    exitCode = "clean" => \A r \in Runs : groupExists(run[r]) => r \notin stopped /\ run[r].result.cleanup = "unconfirmed"

(* The first cause of a stop is the one reported: a deadline that passes while a host is ended does not      *)
(* turn its success or its interruption into a timeout (stop clears the deadline).                           *)
FirstCauseKept == \A r \in Runs : run[r].outcome # "none" => run'[r].outcome = run[r].outcome

(* Every execution that started ends, whatever the processes of the host do with the signals. *)
ExecutionsEnd == \A r \in Runs : run[r].state = "input" ~> run[r].state = "done"

(* A server that is told to stop exits. *)
ServerExits == shuttingDown ~> exitCode # "none"
=============================================================================

--------------------------- MODULE RootDeployment ---------------------------
(***************************************************************************)
(* The deployment records of one Terraform root, packages/deployment-      *)
(* authority/src: the plan package that an execution publishes, the        *)
(* mutation owner that its Apply claims, the native build actions that     *)
(* run under it and the checkpoint that its Smoke publishes.               *)
(*                                                                         *)
(* The package holds every admission rule; the pipeline, the builds and    *)
(* Terraform that call them are not in the repository and are marked       *)
(* external.  Executions are not serialised here: the records have to hold *)
(* when an abandoned build of one execution is still running while the     *)
(* next execution plans, claims and applies.                               *)
(*                                                                         *)
(* S3 objects are sequences of versions: the last one is current, and a    *)
(* conditional put appends only when the current one is the one expected.  *)
(***************************************************************************)
EXTENDS Integers, Sequences, FiniteSets, TLC

CONSTANTS
  Execs,      \* pipeline (or local) executions
  Sources,    \* Git commits
  Images,     \* prover images a release selection may name
  Attempts,   \* bound: builds an execution may start
  MaxFaults,  \* bound: builds that fail, are abandoned or are started by hand
  None,       \* an absent object
  Unread      \* an object a plan has not read yet

VARIABLES
  exec,       \* per execution: its source, what it read, its package and approval
  native,     \* per execution and action: the statuses of its native action executions
  jobs,       \* the builds: [Execs \X 1..Attempts -> job]
  owner,      \* the versions of mutation-owner.json
  checkpoint, \* the versions of checkpoint.json
  starts,     \* the create-only action-start records
  infra,      \* what Terraform and the static deployment have put in place
  applied,    \* history: how often each execution's mutations ran
  faults      \* how many faults have happened

vars == <<exec, native, jobs, owner, checkpoint, starts, infra, applied, faults>>

Actions == {"Apply", "Static", "Smoke"}
Mutations == {"Apply", "Static"}

(* The native action that has to have succeeded before an action starts. *)
Predecessor(a) == CASE a = "Apply" -> None [] a = "Static" -> "Apply" [] a = "Smoke" -> "Static"

(* An object that is absent or not read is not an observation, and None is no action. *)
ASSUME RootConstants ==
  /\ Attempts \in Nat
  /\ MaxFaults \in Nat
  /\ {None, Unread} \cap [version : Nat, exec : Execs] = {}
  /\ None \notin Actions

LastOf(s) == s[Len(s)]
(* An ObjectObservation: key, version, digest and ETag of the current object. *)
Observation(object) ==
  IF object = <<>> THEN None ELSE [version |-> Len(object), exec |-> LastOf(object).exec]

Recipes == [source : Sources, image : Images]
NoJob == [action |-> None, pc |-> "idle", by |-> None, outputs |-> None]
NewExec == [stage |-> "new", source |-> None, initial |-> FALSE, checkpoint |-> Unread, owner |-> Unread,
            package |-> None, approval |-> None]

Init ==
  /\ exec = [e \in Execs |-> NewExec]
  /\ native = [e \in Execs |-> [a \in Actions |-> <<>>]]
  /\ jobs = [j \in Execs \X (1 .. Attempts) |-> NoJob]
  /\ owner = <<>>
  /\ checkpoint = <<>>
  /\ starts = {}
  /\ infra = [serial |-> 0, recipe |-> None, static |-> None]
  /\ applied = [e \in Execs |-> [a \in Mutations |-> 0]]
  /\ faults = 0

-----------------------------------------------------------------------------
(* Planning. *)

(* The pipeline starts an execution of a source; initial publication is a start choice. *)
StartExecution(e) ==
  /\ exec[e].stage = "new"
  /\ \E s \in Sources, initial \in BOOLEAN :
       exec' = [exec EXCEPT ![e].stage = "planning", ![e].source = s, ![e].initial = initial]
  /\ UNCHANGED <<native, jobs, owner, checkpoint, starts, infra, applied, faults>>

ReadCheckpoint(e) ==
  /\ exec[e].stage = "planning"
  /\ exec[e].checkpoint = Unread
  /\ exec' = [exec EXCEPT ![e].checkpoint = Observation(checkpoint)]
  /\ UNCHANGED <<native, jobs, owner, checkpoint, starts, infra, applied, faults>>

ReadOwner(e) ==
  /\ exec[e].stage = "planning"
  /\ exec[e].owner = Unread
  /\ exec' = [exec EXCEPT ![e].owner = Observation(owner)]
  /\ UNCHANGED <<native, jobs, owner, checkpoint, starts, infra, applied, faults>>

(* Absent records need an explicit initial plan. *)
admitPlanPublication(p) ==
  p.initial \/ (p.checkpoint # None /\ p.owner # None)

(* A recipe's artifacts and inputs are those of one source. *)
admitTerraformRecipe(recipe, source) == recipe.source = source

admitPlanPackage(p) ==
  /\ admitTerraformRecipe(p.recipe, p.source)
  /\ admitPlanPublication(p)

(* The saved plan is bound with everything it was made from and published create-only. *)
PublishPlan(e) ==
  /\ exec[e].stage = "planning"
  /\ exec[e].checkpoint # Unread
  /\ exec[e].owner # Unread
  /\ \E recipe \in Recipes :
       LET p == [exec |-> e, source |-> exec[e].source, recipe |-> recipe, initial |-> exec[e].initial,
                 checkpoint |-> exec[e].checkpoint, owner |-> exec[e].owner, serial |-> infra.serial]
       IN exec' = [exec EXCEPT ![e] = IF admitPlanPackage(p)
                                        THEN [@ EXCEPT !.stage = "planned", !.package = p]
                                        ELSE [@ EXCEPT !.stage = "ended"]]
  /\ UNCHANGED <<native, jobs, owner, checkpoint, starts, infra, applied, faults>>

(* The approval names the digest of the package it was asked for. *)
Approve(e) ==
  /\ exec[e].stage = "planned"
  /\ exec' = [exec EXCEPT ![e].stage = "approved", ![e].approval = exec[e].package]
  /\ UNCHANGED <<native, jobs, owner, checkpoint, starts, infra, applied, faults>>

-----------------------------------------------------------------------------
(* Native actions and builds. *)

JobIds == Execs \X (1 .. Attempts)

(* The next build of an execution. *)
Fresh(j) == jobs[j] = NoJob /\ \A n \in 1 .. (j[2] - 1) : jobs[<<j[1], n>>] # NoJob

(* The pipeline starts an action after its predecessor, or retries a failed one. *)
StartAction(j, a) ==
  LET e == j[1] IN
  /\ exec[e].stage = "approved"
  /\ Fresh(j)
  /\ Predecessor(a) # None =>
       native[e][Predecessor(a)] # <<>> /\ LastOf(native[e][Predecessor(a)]) = "Succeeded"
  /\ native[e][a] # <<>> => LastOf(native[e][a]) = "Failed"
  /\ native' = [native EXCEPT ![e][a] = Append(@, "InProgress")]
  /\ jobs' = [jobs EXCEPT ![j] = [NoJob EXCEPT !.action = a, !.pc = "start", !.by = "pipeline"]]
  /\ UNCHANGED <<exec, owner, checkpoint, starts, infra, applied, faults>>

(* Someone starts the project's build directly, naming the execution in its environment. *)
StartBuild(j, a) ==
  /\ faults < MaxFaults
  /\ faults' = faults + 1
  /\ exec[j[1]].stage = "approved"
  /\ Fresh(j)
  /\ jobs' = [jobs EXCEPT ![j] = [NoJob EXCEPT !.action = a, !.pc = "start", !.by = "operator"]]
  /\ UNCHANGED <<exec, native, owner, checkpoint, starts, infra, applied>>

(* The pipeline gives an action up while its build keeps running. *)
Abandon(e, a) ==
  /\ faults < MaxFaults
  /\ faults' = faults + 1
  /\ native[e][a] # <<>>
  /\ LastOf(native[e][a]) = "InProgress"
  /\ native' = [native EXCEPT ![e][a][Len(native[e][a])] = "Failed"]
  /\ UNCHANGED <<exec, jobs, owner, checkpoint, starts, infra, applied>>

(* What a build's end reports to the pipeline's own record of the action. *)
Report(j, status) ==
  LET e == j[1]  a == jobs[j].action  n == Len(native[e][a]) IN
  IF jobs[j].by = "pipeline" /\ n > 0 /\ native[e][a][n] = "InProgress"
    THEN [native EXCEPT ![e][a][n] = status]
    ELSE native

End(j, status) ==
  /\ jobs' = [jobs EXCEPT ![j].pc = "done", ![j].outputs = None]
  /\ native' = Report(j, status)

Goto(j, pc) == jobs' = [jobs EXCEPT ![j].pc = pc]

(* The build's own word for its execution. *)
admitBuildExecutionNamed(j) == jobs[j].action # None

(* The unique native action of this execution and stage is in progress, and the build is its. *)
admitBuildExecution(j) ==
  LET found == native[j[1]][jobs[j].action] IN
  /\ jobs[j].by = "pipeline"
  /\ Len(found) = 1
  /\ found[1] = "InProgress"

(* The package's bytes are the ones that were approved. *)
assertPlanPackageReference(e) ==
  exec[e].package # None /\ exec[e].approval = exec[e].package

AdmitBuild(j) ==
  /\ jobs[j].pc = "start"
  /\ IF admitBuildExecution(j) /\ assertPlanPackageReference(j[1])
       THEN Goto(j, IF jobs[j].action = "Apply" THEN "prepare" ELSE "continue") /\ UNCHANGED native
       ELSE End(j, "Failed")
  /\ UNCHANGED <<exec, owner, checkpoint, starts, infra, applied, faults>>

(* A build may fail, or be stopped, between any two of its steps. *)
FailBuild(j) ==
  /\ faults < MaxFaults
  /\ faults' = faults + 1
  /\ jobs[j].pc \notin {"idle", "done"}
  /\ End(j, "Failed")
  /\ UNCHANGED <<exec, owner, checkpoint, starts, infra, applied>>

-----------------------------------------------------------------------------
(* Ownership. *)

assertObjectPrecondition(expected, actual) == expected = actual

prepareMutationOwner(p) ==
  /\ assertObjectPrecondition(p.owner, Observation(owner))
  /\ Observation(owner) = None => p.initial

(* Apply checks that the owner is still the one its plan saw. *)
PrepareOwner(j) ==
  /\ jobs[j].pc = "prepare"
  /\ IF prepareMutationOwner(exec[j[1]].package)
       THEN Goto(j, "claim") /\ UNCHANGED native
       ELSE End(j, "Failed")
  /\ UNCHANGED <<exec, owner, checkpoint, starts, infra, applied, faults>>

(* The put without its condition. *)
ClaimOwnerBlind(j) ==
  /\ jobs[j].pc = "claim"
  /\ owner' = Append(owner, [exec |-> j[1], package |-> exec[j[1]].package])
  /\ Goto(j, "record")
  /\ UNCHANGED <<exec, native, checkpoint, starts, infra, applied, faults>>

(* The conditional put of the new owner: create-only, or on the observed version. *)
ClaimOwner(j) ==
  LET p == exec[j[1]].package IN
  /\ jobs[j].pc = "claim"
  /\ IF Observation(owner) = p.owner
       THEN /\ owner' = Append(owner, [exec |-> j[1], package |-> p])
            /\ Goto(j, "record")
            /\ UNCHANGED native
       ELSE End(j, "Failed") /\ UNCHANGED owner
  /\ UNCHANGED <<exec, checkpoint, starts, infra, applied, faults>>

(* The current owner is this execution with this package, and the predecessor succeeded. *)
assertMutationContinuation(j) ==
  LET e == j[1]  before == Predecessor(jobs[j].action) IN
  /\ owner # <<>>
  /\ LastOf(owner) = [exec |-> e, package |-> exec[e].package]
  /\ before # None => native[e][before] # <<>> /\ LastOf(native[e][before]) = "Succeeded"

Continue(j) ==
  /\ jobs[j].pc = "continue"
  /\ IF assertMutationContinuation(j)
       THEN Goto(j, "record") /\ UNCHANGED native
       ELSE End(j, "Failed")
  /\ UNCHANGED <<exec, owner, checkpoint, starts, infra, applied, faults>>

(* The create-only start record: one per execution and action. *)
RecordStart(j) ==
  LET key == <<j[1], jobs[j].action>> IN
  /\ jobs[j].pc = "record"
  /\ IF key \notin starts
       THEN /\ starts' = starts \cup {key}
            /\ Goto(j, IF jobs[j].action = "Smoke" THEN "observe" ELSE "mutate")
            /\ UNCHANGED native
       ELSE End(j, "Failed") /\ UNCHANGED starts
  /\ UNCHANGED <<exec, owner, checkpoint, infra, applied, faults>>

-----------------------------------------------------------------------------
(* Mutation, smoke and acceptance. *)

(* Terraform applies the saved plan under its lock, and refuses one whose state has moved on. *)
TerraformApply(j) ==
  LET p == exec[j[1]].package IN
  /\ jobs[j].pc = "mutate"
  /\ jobs[j].action = "Apply"
  /\ IF p.serial = infra.serial
       THEN /\ infra' = [infra EXCEPT !.serial = @ + 1, !.recipe = p.recipe]
            /\ applied' = [applied EXCEPT ![j[1]]["Apply"] = @ + 1]
            /\ End(j, "Succeeded")
       ELSE End(j, "Failed") /\ UNCHANGED <<infra, applied>>
  /\ UNCHANGED <<exec, owner, checkpoint, starts, faults>>

StaticDeploy(j) ==
  /\ jobs[j].pc = "mutate"
  /\ jobs[j].action = "Static"
  /\ infra' = [infra EXCEPT !.static = exec[j[1]].package.recipe]
  /\ applied' = [applied EXCEPT ![j[1]]["Static"] = @ + 1]
  /\ End(j, "Succeeded")
  /\ UNCHANGED <<exec, owner, checkpoint, starts, faults>>

(* Smoke reads what is deployed, whoever deployed it. *)
Observe(j) ==
  /\ jobs[j].pc = "observe"
  /\ jobs' = [jobs EXCEPT ![j].outputs = infra.recipe, ![j].pc = "recheck"]
  /\ UNCHANGED <<exec, native, owner, checkpoint, starts, infra, applied, faults>>

(* The outputs are the approved inputs; the smoke is of this execution and package. *)
admitRootCheckpoint(p, outputs) == outputs = p.recipe

(* Smoke checks the owner again, and builds the checkpoint from what it saw. *)
BuildRootCheckpoint(j) ==
  /\ jobs[j].pc = "recheck"
  /\ IF assertMutationContinuation(j) /\ admitRootCheckpoint(exec[j[1]].package, jobs[j].outputs)
       THEN Goto(j, "publish") /\ UNCHANGED native
       ELSE End(j, "Failed")
  /\ UNCHANGED <<exec, owner, checkpoint, starts, infra, applied, faults>>

(* The put without its condition, sent again when its answer is lost. *)
PublishCheckpointBlind(j) ==
  /\ jobs[j].pc = "publish"
  /\ checkpoint' = Append(checkpoint, [exec |-> j[1], package |-> exec[j[1]].package, outputs |-> jobs[j].outputs])
  /\ End(j, "Succeeded") \/ UNCHANGED <<jobs, native>>
  /\ UNCHANGED <<exec, owner, starts, infra, applied, faults>>

(* The conditional put of the checkpoint on the one the plan saw. *)
PublishCheckpoint(j) ==
  LET p == exec[j[1]].package IN
  /\ jobs[j].pc = "publish"
  /\ IF Observation(checkpoint) = p.checkpoint
       THEN /\ checkpoint' = Append(checkpoint, [exec |-> j[1], package |-> p, outputs |-> jobs[j].outputs])
            /\ End(j, "Succeeded")
       ELSE End(j, "Failed") /\ UNCHANGED checkpoint
  /\ UNCHANGED <<exec, owner, starts, infra, applied, faults>>

Job(j) ==
  \/ AdmitBuild(j)
  \/ FailBuild(j)
  \/ PrepareOwner(j)
  \/ ClaimOwner(j)
  \/ Continue(j)
  \/ RecordStart(j)
  \/ TerraformApply(j)
  \/ StaticDeploy(j)
  \/ Observe(j)
  \/ BuildRootCheckpoint(j)
  \/ PublishCheckpoint(j)

Next ==
  \/ \E e \in Execs :
       \/ StartExecution(e)
       \/ ReadCheckpoint(e)
       \/ ReadOwner(e)
       \/ PublishPlan(e)
       \/ Approve(e)
       \/ \E a \in Actions : Abandon(e, a)
  \/ \E j \in JobIds :
       \/ Job(j)
       \/ \E a \in Actions : StartAction(j, a) \/ StartBuild(j, a)

Spec == Init /\ [][Next]_vars
-----------------------------------------------------------------------------
(* Properties. *)

JobSteps == {"idle", "start", "prepare", "claim", "continue", "record", "mutate", "observe", "recheck",
             "publish", "done"}
(* The records stay in their domains: every claim and acceptance carries its execution's own  *)
(* package, and an accepted execution has the start record of each of its actions.            *)
TypeOK ==
  /\ \A j \in JobIds : jobs[j].pc \in JobSteps /\ jobs[j].action \in Actions \cup {None}
  /\ \A e \in Execs : exec[e].package # None => exec[e].package.exec = e
  /\ \A n \in DOMAIN owner : owner[n].package = exec[owner[n].exec].package
  /\ \A n \in DOMAIN checkpoint : checkpoint[n].package = exec[checkpoint[n].exec].package
  /\ starts \subseteq Execs \X Actions
  /\ \A n \in DOMAIN checkpoint : \A a \in Actions : <<checkpoint[n].exec, a>> \in starts

(* No claim is lost: whoever claims the root had planned on the claim before it, so two     *)
(* executions planned on the same owner cannot both become it (mutation-owner.js), and an   *)
(* execution never comes back to a root it has lost.                                        *)
NoClaimLost ==
  /\ \A n \in DOMAIN owner :
       owner[n].package.owner = IF n = 1 THEN None ELSE [version |-> n - 1, exec |-> owner[n - 1].exec]
  /\ \A n, k \in DOMAIN owner : owner[n].exec = owner[k].exec => n = k

ClaimOf(e) == CHOOSE n \in DOMAIN owner : owner[n].exec = e
(* Acceptance follows ownership: checkpoints are accepted in the order in which their        *)
(* executions claimed the root, each by an owner, although the claim and the checkpoint are  *)
(* separate objects and an overtaken Smoke may publish after its last look at the owner.     *)
AcceptanceFollowsOwnership ==
  /\ \A k \in DOMAIN checkpoint : \E n \in DOMAIN owner : owner[n].exec = checkpoint[k].exec
  /\ \A i, k \in DOMAIN checkpoint :
       i < k => ClaimOf(checkpoint[i].exec) < ClaimOf(checkpoint[k].exec)

(* An accepted execution really deployed: its approved package was applied once and its      *)
(* frontend once, and what Smoke saw in place is what was approved.                          *)
AcceptedWasDeployed ==
  \A k \in DOMAIN checkpoint :
    LET e == checkpoint[k].exec IN
    /\ applied[e] = [a \in Mutations |-> 1]
    /\ exec[e].approval = checkpoint[k].package
    /\ checkpoint[k].outputs.source = exec[e].source

(* Nothing is changed but by the one native action that the pipeline started for it: a       *)
(* retried action, a second build and a build started by hand change nothing.                *)
MutationsAreAdmitted ==
  \A e \in Execs, a \in Mutations :
    /\ applied[e][a] <= 1
    /\ applied[e][a] = 1 => /\ native[e][a] # <<>>
                            /\ \E n \in DOMAIN owner : owner[n].exec = e
                            /\ \E j \in JobIds : j[1] = e /\ jobs[j].action = a /\ jobs[j].by = "pipeline"
                                                 /\ jobs[j].pc = "done"

\* Records of a deployment tell what happened: every change was made once, by the
\* action the pipeline started for the claimant, and what is accepted was deployed.
DeploymentsReal == MutationsAreAdmitted /\ AcceptedWasDeployed

(* A checkpoint is only ever added to the record that its plan was made against.             *)
CheckpointsExtend ==
  [][\/ checkpoint' = checkpoint
     \/ /\ Len(checkpoint') = Len(checkpoint) + 1
        /\ SubSeq(checkpoint', 1, Len(checkpoint)) = checkpoint
        /\ checkpoint'[Len(checkpoint')].package.checkpoint = Observation(checkpoint)]_vars

\* Executions are alike, and so are commits.
Symmetry == Permutations(Execs) \cup Permutations(Sources)

=============================================================================

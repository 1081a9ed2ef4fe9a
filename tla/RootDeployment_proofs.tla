----------------------- MODULE RootDeployment_proofs -----------------------
(***************************************************************************)
(* Proofs about RootDeployment, for every set of executions, sources and   *)
(* images and any number of builds and faults.                             *)
(*                                                                         *)
(* The invariant comes in layers, each proved with the ones before it: the *)
(* types and what a stage of an execution means; the claims; what a plan   *)
(* saw of the checkpoint, against the claims; and the mutations.           *)
(***************************************************************************)
EXTENDS RootDeployment, SequenceTheorems, TLAPS

Obs == [version : Nat, exec : Execs]
Packages == [exec : Execs, source : Sources, recipe : Recipes, initial : BOOLEAN,
             checkpoint : Obs \cup {None, Unread}, owner : Obs \cup {None, Unread}, serial : Nat]
ExecStates == [stage : {"new", "planning", "planned", "approved", "ended"}, source : Sources \cup {None},
               initial : BOOLEAN, checkpoint : Obs \cup {None, Unread}, owner : Obs \cup {None, Unread},
               package : Packages \cup {None}, approval : Packages \cup {None}]
JobStates == [action : Actions \cup {None}, pc : JobSteps, by : {"pipeline", "operator", None},
              outputs : Recipes \cup {None}]
Statuses == {"InProgress", "Succeeded", "Failed"}
Claims == [exec : Execs, package : Packages]
Acceptances == [exec : Execs, package : Packages, outputs : Recipes \cup {None}]

Types ==
  /\ exec \in [Execs -> ExecStates]
  /\ native \in [Execs -> [Actions -> Seq(Statuses)]]
  /\ jobs \in [JobIds -> JobStates]
  /\ owner \in Seq(Claims)
  /\ checkpoint \in Seq(Acceptances)
  /\ starts \subseteq Execs \X Actions
  /\ infra \in [serial : Nat, recipe : Recipes \cup {None}, static : Recipes \cup {None}]
  /\ applied \in [Execs -> [Mutations -> Nat]]
  /\ faults \in Nat

(* A stage of an execution: a package is published once, of its own execution and source, and *)
(* builds belong to executions whose package was approved.                                    *)
Staged ==
  /\ \A e \in Execs :
       /\ exec[e].stage # "new" => exec[e].source \in Sources
       /\ exec[e].stage \in {"planned", "approved"} =>
            /\ exec[e].package \in Packages
            /\ exec[e].package.exec = e
            /\ exec[e].package.recipe.source = exec[e].source
       /\ exec[e].stage \notin {"planned", "approved"} => exec[e].package = None
       /\ exec[e].stage = "approved" => exec[e].approval = exec[e].package
  /\ \A j \in JobIds : jobs[j].pc # "idle" => exec[j[1]].stage = "approved" /\ jobs[j].action \in Actions

-----------------------------------------------------------------------------
(* Lemmas about the shared operators. *)

LEMMA Pairs == \A j \in JobIds : j[1] \in Execs
  BY DEF JobIds

(* The statuses of native actions after a build has ended: as many as before, and those that *)
(* changed are of the build's own action and have the reported status.                       *)
LEMMA EndProperties ==
  ASSUME Types, NEW j \in JobIds, jobs[j].action \in Actions,
         NEW status \in {"Succeeded", "Failed"}, End(j, status)
  PROVE  /\ native' \in [Execs -> [Actions -> Seq(Statuses)]]
         /\ jobs' \in [JobIds -> JobStates]
         /\ jobs'[j].pc = "done" /\ jobs'[j].action = jobs[j].action /\ jobs'[j].by = jobs[j].by
         /\ \A k \in JobIds : k # j => jobs'[k] = jobs[k]
         /\ \A e \in Execs, a \in Actions :
              /\ Len(native'[e][a]) = Len(native[e][a])
              /\ \A n \in 1 .. Len(native[e][a]) :
                   \/ native'[e][a][n] = native[e][a][n]
                   \/ native'[e][a][n] = status /\ e = j[1] /\ a = jobs[j].action
<1> DEFINE e == j[1]  a == jobs[j].action  n == Len(native[e][a])
<1>1. e \in Execs /\ a \in Actions /\ native[e][a] \in Seq(Statuses)
  BY Pairs DEF Types
<1>2. n \in Nat
  BY <1>1, LenProperties
<1>3. /\ jobs' \in [JobIds -> JobStates]
      /\ jobs'[j].pc = "done" /\ jobs'[j].action = jobs[j].action /\ jobs'[j].by = jobs[j].by
      /\ \A k \in JobIds : k # j => jobs'[k] = jobs[k]
  <2>1. jobs[j] \in JobStates
    BY DEF Types
  <2>2. [jobs[j] EXCEPT !.pc = "done", !.outputs = None] \in JobStates
    BY <2>1 DEF JobStates, JobSteps
  <2>3. jobs' = [jobs EXCEPT ![j] = [jobs[j] EXCEPT !.pc = "done", !.outputs = None]]
    BY DEF End, Types
  <2> QED
    BY <2>1, <2>2, <2>3 DEF Types, JobStates
<1>4. CASE jobs[j].by = "pipeline" /\ n > 0 /\ native[e][a][n] = "InProgress"
  <2>1. n \in 1 .. n /\ status \in Statuses
    BY <1>2, <1>4 DEF Statuses
  <2> DEFINE s == [native[e][a] EXCEPT ![n] = status]
  <2>2. /\ s \in Seq(Statuses) /\ Len(s) = Len(native[e][a])
        /\ \A i \in 1 .. Len(native[e][a]) : s[i] = IF i = n THEN status ELSE native[e][a][i]
    BY <1>1, <2>1, ExceptSeq
  <2>3. native' = [native EXCEPT ![e] = [native[e] EXCEPT ![a] = s]]
    BY <1>4 DEF End, Report
  <2> HIDE DEF s
  <2>4. \A f \in Execs, b \in Actions : native'[f][b] = IF f = e /\ b = a THEN s ELSE native[f][b]
    BY <1>1, <2>3 DEF Types
  <2>5. native' \in [Execs -> [Actions -> Seq(Statuses)]]
    BY <1>1, <2>2, <2>3 DEF Types
  <2> QED
    BY <1>1, <1>3, <2>2, <2>4, <2>5
<1>5. CASE ~(jobs[j].by = "pipeline" /\ n > 0 /\ native[e][a][n] = "InProgress")
  <2>1. native' = native
    BY <1>5 DEF End, Report
  <2> QED
    BY <1>3, <2>1 DEF Types
<1> QED
  BY <1>4, <1>5
(* A build that goes on changes nothing but its own step. *)
LEMMA GotoProperties ==
  ASSUME Types, NEW j \in JobIds, NEW pc \in JobSteps, Goto(j, pc)
  PROVE  /\ jobs' \in [JobIds -> JobStates]
         /\ jobs'[j].pc = pc /\ jobs'[j].action = jobs[j].action /\ jobs'[j].by = jobs[j].by
         /\ jobs'[j].outputs = jobs[j].outputs
         /\ \A k \in JobIds : k # j => jobs'[k] = jobs[k]
<1>1. jobs[j] \in JobStates
  BY DEF Types
<1>2. [jobs[j] EXCEPT !.pc = pc] \in JobStates
  BY <1>1 DEF JobStates
<1>3. jobs' = [jobs EXCEPT ![j] = [jobs[j] EXCEPT !.pc = pc]]
  BY DEF Goto, Types
<1> QED
  BY <1>1, <1>2, <1>3 DEF Types, JobStates

(* What is observed of a record of claims or of acceptances. *)
LEMMA Observations ==
  ASSUME Types
  PROVE  Observation(owner) \in Obs \cup {None} /\ Observation(checkpoint) \in Obs \cup {None}
<1>1. ASSUME NEW object, object # <<>>, object \in Seq(Claims) \/ object \in Seq(Acceptances)
      PROVE  Len(object) \in Nat /\ object[Len(object)].exec \in Execs
  <2>1. CASE object \in Seq(Claims)
    <3>1. Len(object) \in 1 .. Len(object)
      BY <1>1, <2>1, LenProperties, EmptySeq
    <3>2. object[Len(object)] \in Claims
      BY <2>1, <3>1, ElementOfSeq
    <3> QED
      BY <3>1, <3>2, <2>1, LenProperties DEF Claims
  <2>2. CASE object \in Seq(Acceptances)
    <3>1. Len(object) \in 1 .. Len(object)
      BY <1>1, <2>2, LenProperties, EmptySeq
    <3>2. object[Len(object)] \in Acceptances
      BY <2>2, <3>1, ElementOfSeq
    <3> QED
      BY <3>1, <3>2, <2>2, LenProperties DEF Acceptances
  <2> QED
    BY <1>1, <2>1, <2>2
<1> QED
  BY <1>1 DEF Observation, LastOf, Obs, Types

-----------------------------------------------------------------------------
(* Types and stages. *)

LEMMA StagedInit == Init => Types /\ Staged
<1> SUFFICES ASSUME Init PROVE Types /\ Staged
  OBVIOUS
<1>1. <<>> \in Seq(Statuses) /\ <<>> \in Seq(Claims) /\ <<>> \in Seq(Acceptances)
  OBVIOUS
<1>2. NewExec \in ExecStates /\ NewExec.stage = "new" /\ NewExec.package = None
  BY DEF NewExec, ExecStates
<1>3. NoJob \in JobStates /\ NoJob.pc = "idle"
  BY DEF NoJob, JobStates, JobSteps
<1>4. Types
  BY <1>1, <1>2, <1>3 DEF Init, Types, JobIds
<1>5. Staged
  BY <1>2, <1>3 DEF Init, Staged, JobIds
<1> QED
  BY <1>4, <1>5

(* Planning steps change one execution, before any of its builds. *)
LEMMA PlanningStaged ==
  ASSUME Types, Staged, NEW e \in Execs,
         StartExecution(e) \/ ReadCheckpoint(e) \/ ReadOwner(e) \/ PublishPlan(e) \/ Approve(e)
  PROVE  /\ Types' /\ Staged'
         /\ \A f \in Execs : f # e \/ exec[f].stage \in {"planned", "approved"} => exec'[f].package = exec[f].package
         /\ \A f \in Execs : exec[f].stage = "approved" => exec'[f].stage = "approved"
         /\ \A f \in Execs : exec[f].stage = "planned" => exec'[f].stage \in {"planned", "approved"}
<1>0. exec[e] \in ExecStates
  BY DEF Types
<1>1. /\ exec' = [exec EXCEPT ![e] = exec'[e]]
      /\ exec'[e] \in ExecStates
      /\ exec[e].stage # "approved"
      /\ exec[e].stage = "planned" => exec'[e].package = exec[e].package /\ exec'[e].stage = "approved"
      /\ exec'[e].stage # "new" => exec'[e].source \in Sources
      /\ exec'[e].stage \in {"planned", "approved"} =>
            /\ exec'[e].package \in Packages
            /\ exec'[e].package.exec = e
            /\ exec'[e].package.recipe.source = exec'[e].source
      /\ exec'[e].stage \notin {"planned", "approved"} => exec'[e].package = None
      /\ exec'[e].stage = "approved" => exec'[e].approval = exec'[e].package
  <2>1. CASE StartExecution(e)
    <3>1. PICK s \in Sources, initial \in BOOLEAN :
             exec' = [exec EXCEPT ![e].stage = "planning", ![e].source = s, ![e].initial = initial]
      BY <2>1 DEF StartExecution
    <3>2. exec'[e] = [exec[e] EXCEPT !.stage = "planning", !.source = s, !.initial = initial]
      BY <3>1 DEF Types
    <3> QED
      BY <1>0, <2>1, <3>1, <3>2 DEF StartExecution, ExecStates, Staged, Types
  <2>2. CASE ReadCheckpoint(e)
    <3>1. exec'[e] = [exec[e] EXCEPT !.checkpoint = Observation(checkpoint)]
      BY <2>2 DEF ReadCheckpoint, Types
    <3> QED
      BY <1>0, <2>2, <3>1, Observations DEF ReadCheckpoint, ExecStates, Staged, Types
  <2>3. CASE ReadOwner(e)
    <3>1. exec'[e] = [exec[e] EXCEPT !.owner = Observation(owner)]
      BY <2>3 DEF ReadOwner, Types
    <3> QED
      BY <1>0, <2>3, <3>1, Observations DEF ReadOwner, ExecStates, Staged, Types
  <2>4. CASE PublishPlan(e)
    <3>1. PICK recipe \in Recipes :
            LET p == [exec |-> e, source |-> exec[e].source, recipe |-> recipe, initial |-> exec[e].initial,
                 checkpoint |-> exec[e].checkpoint, owner |-> exec[e].owner, serial |-> infra.serial]
            IN exec' = [exec EXCEPT ![e] = IF admitPlanPackage(p)
                                        THEN [@ EXCEPT !.stage = "planned", !.package = p]
                                        ELSE [@ EXCEPT !.stage = "ended"]]
      BY <2>4 DEF PublishPlan
    <3> DEFINE p == [exec |-> e, source |-> exec[e].source, recipe |-> recipe, initial |-> exec[e].initial,
                 checkpoint |-> exec[e].checkpoint, owner |-> exec[e].owner, serial |-> infra.serial]
    <3>2. exec[e].stage = "planning" /\ exec[e].source \in Sources /\ exec[e].package = None /\ infra.serial \in Nat
      BY <2>4 DEF PublishPlan, Staged, Types
    <3>3. p \in Packages /\ p.exec = e /\ p.recipe = recipe /\ p.source = exec[e].source
      BY <1>0, <3>2 DEF Packages, ExecStates
    <3>4. admitPlanPackage(p) => p.recipe.source = exec[e].source
      BY <3>3 DEF admitPlanPackage, admitTerraformRecipe
    <3>5. exec'[e] = IF admitPlanPackage(p) THEN [exec[e] EXCEPT !.stage = "planned", !.package = p]
                                            ELSE [exec[e] EXCEPT !.stage = "ended"]
      BY <3>1 DEF Types
    <3> HIDE DEF p
    <3>6. exec' = [exec EXCEPT ![e] = exec'[e]]
      BY <3>1, <3>5 DEF Types
    <3>7. CASE admitPlanPackage(p)
      <4>1. exec'[e] = [exec[e] EXCEPT !.stage = "planned", !.package = p]
        BY <3>5, <3>7
      <4>2. exec'[e] \in ExecStates
        BY <1>0, <3>3, <4>1 DEF ExecStates
      <4>3. exec'[e].stage = "planned" /\ exec'[e].package = p /\ exec'[e].source = exec[e].source
        BY <1>0, <4>1 DEF ExecStates
      <4> QED
        BY <3>2, <3>3, <3>4, <3>6, <3>7, <4>2, <4>3
    <3>8. CASE ~admitPlanPackage(p)
      BY <1>0, <3>2, <3>5, <3>6, <3>8 DEF ExecStates
    <3> QED
      BY <3>7, <3>8
  <2>5. CASE Approve(e)
    <3>1. exec'[e] = [exec[e] EXCEPT !.stage = "approved", !.approval = exec[e].package]
      BY <2>5 DEF Approve, Types
    <3> QED
      BY <1>0, <2>5, <3>1 DEF Approve, ExecStates, Staged, Types
  <2> QED
    BY <2>1, <2>2, <2>3, <2>4, <2>5
<1>2. UNCHANGED <<native, jobs, owner, checkpoint, starts, infra, applied, faults>>
  BY DEF StartExecution, ReadCheckpoint, ReadOwner, PublishPlan, Approve
<1>3. Types'
  BY <1>1, <1>2 DEF Types, JobIds
<1>4. \A f \in Execs : f # e => exec'[f] = exec[f]
  BY <1>1 DEF Types
<1>5. Staged'
  <2>1. \A j \in JobIds : j[1] = e => jobs[j].pc = "idle"
    BY <1>1 DEF Staged
  <2> QED
    BY <1>1, <1>2, <1>4, <2>1, Pairs DEF Staged, JobIds
<1> QED
  BY <1>1, <1>3, <1>4, <1>5

(* What every step of a build keeps. *)
Frame(j) ==
  /\ exec' = exec
  /\ jobs' \in [JobIds -> JobStates]
  /\ jobs[j].pc # "idle" /\ jobs'[j].pc # "idle"
  /\ jobs'[j].action = jobs[j].action /\ jobs'[j].by = jobs[j].by
  /\ \A k \in JobIds : k # j => jobs'[k] = jobs[k]
  /\ native' \in [Execs -> [Actions -> Seq(Statuses)]]
  /\ \A e \in Execs, a \in Actions : Len(native'[e][a]) = Len(native[e][a])

LEMMA EndFrame ==
  ASSUME Types, Staged, NEW j \in JobIds, jobs[j].pc # "idle", UNCHANGED exec,
         NEW status \in {"Succeeded", "Failed"}, End(j, status)
  PROVE  Frame(j)
<1>1. jobs[j].action \in Actions
  BY DEF Staged
<1> QED
  BY <1>1, EndProperties DEF Frame

LEMMA GotoFrame ==
  ASSUME Types, Staged, NEW j \in JobIds, jobs[j].pc # "idle", UNCHANGED <<exec, native>>,
         NEW pc \in JobSteps \ {"idle"}, Goto(j, pc)
  PROVE  Frame(j)
<1>1. pc \in JobSteps
  OBVIOUS
<1>2. native \in [Execs -> [Actions -> Seq(Statuses)]]
  BY DEF Types
<1> QED
  BY <1>1, <1>2, GotoProperties DEF Frame

LEMMA FrameStaged ==
  ASSUME Types, Staged, NEW j \in JobIds, Frame(j)
  PROVE  Staged'
<1>1. exec[j[1]].stage = "approved" /\ jobs[j].action \in Actions
  BY DEF Staged, Frame
<1> QED
  BY <1>1 DEF Staged, Frame, JobIds

LEMMA JobFrame ==
  ASSUME Types, Staged, NEW j \in JobIds, Job(j)
  PROVE  Frame(j)
<1> USE DEF JobSteps
<1>1. CASE AdmitBuild(j)
  BY <1>1, EndFrame, GotoFrame DEF AdmitBuild
<1>2. CASE FailBuild(j)
  BY <1>2, EndFrame DEF FailBuild
<1>3. CASE PrepareOwner(j)
  BY <1>3, EndFrame, GotoFrame DEF PrepareOwner
<1>4. CASE ClaimOwner(j)
  BY <1>4, EndFrame, GotoFrame DEF ClaimOwner
<1>5. CASE Continue(j)
  BY <1>5, EndFrame, GotoFrame DEF Continue
<1>6. CASE RecordStart(j)
  BY <1>6, EndFrame, GotoFrame DEF RecordStart
<1>7. CASE TerraformApply(j)
  BY <1>7, EndFrame DEF TerraformApply
<1>8. CASE StaticDeploy(j)
  BY <1>8, EndFrame DEF StaticDeploy
<1>9. CASE Observe(j)
  <2>1. jobs[j] \in JobStates /\ infra.recipe \in Recipes \cup {None}
    BY DEF Types
  <2>2. [jobs[j] EXCEPT !.outputs = infra.recipe, !.pc = "recheck"] \in JobStates
    BY <2>1 DEF JobStates
  <2>3. jobs' = [jobs EXCEPT ![j] = [jobs[j] EXCEPT !.outputs = infra.recipe, !.pc = "recheck"]]
    BY <1>9 DEF Observe, Types
  <2> QED
    BY <1>9, <2>1, <2>2, <2>3 DEF Observe, Frame, Types, JobStates
<1>10. CASE BuildRootCheckpoint(j)
  BY <1>10, EndFrame, GotoFrame DEF BuildRootCheckpoint
<1>11. CASE PublishCheckpoint(j)
  BY <1>11, EndFrame, GotoFrame DEF PublishCheckpoint
<1> QED
  BY <1>1, <1>2, <1>3, <1>4, <1>5, <1>6, <1>7, <1>8, <1>9, <1>10, <1>11 DEF Job

(* A mutation is counted for its execution and action. *)
LEMMA Counted ==
  ASSUME Types, NEW e \in Execs, NEW m \in Mutations, applied' = [applied EXCEPT ![e][m] = @ + 1]
  PROVE  /\ applied' \in [Execs -> [Mutations -> Nat]]
         /\ applied'[e][m] = applied[e][m] + 1
         /\ \A f \in Execs, b \in Mutations : f # e \/ b # m => applied'[f][b] = applied[f][b]
<1> DEFINE row == [applied[e] EXCEPT ![m] = applied[e][m] + 1]
<1>1. applied[e] \in [Mutations -> Nat] /\ applied[e][m] \in Nat
  BY DEF Types
<1>2. row \in [Mutations -> Nat] /\ row[m] = applied[e][m] + 1 /\ \A b \in Mutations : b # m => row[b] = applied[e][b]
  BY <1>1
<1>3. applied' = [applied EXCEPT ![e] = row]
  BY <1>1 DEF Types
<1> HIDE DEF row
<1> QED
  BY <1>2, <1>3 DEF Types

LEMMA JobStaged ==
  ASSUME Types, Staged, NEW j \in JobIds, Job(j)
  PROVE  Types' /\ Staged'
<1>1. Frame(j)
  BY JobFrame
<1>2. Staged'
  BY <1>1, FrameStaged
<1>3. /\ j[1] \in Execs /\ jobs[j].action \in Actions
      /\ exec[j[1]].package \in Packages
      /\ jobs[j].outputs \in Recipes \cup {None}
  BY <1>1, Pairs DEF Staged, Frame, Types, JobStates
<1>4. owner' \in Seq(Claims)
  <2>1. [exec |-> j[1], package |-> exec[j[1]].package] \in Claims
    BY <1>3 DEF Claims
  <2>2. owner' = owner \/ owner' = Append(owner, [exec |-> j[1], package |-> exec[j[1]].package])
    BY DEF Job, AdmitBuild, FailBuild, PrepareOwner, ClaimOwner, Continue, RecordStart, TerraformApply,
           StaticDeploy, Observe, BuildRootCheckpoint, PublishCheckpoint
  <2>3. PICK c \in Claims : owner' = owner \/ owner' = Append(owner, c)
    BY <2>1, <2>2
  <2>4. owner \in Seq(Claims)
    BY DEF Types
  <2>5. Append(owner, c) \in Seq(Claims)
    BY <2>4, AppendProperties
  <2> QED
    BY <2>3, <2>4, <2>5
<1>5. checkpoint' \in Seq(Acceptances)
  <2>1. [exec |-> j[1], package |-> exec[j[1]].package, outputs |-> jobs[j].outputs] \in Acceptances
    BY <1>3 DEF Acceptances
  <2>2. \/ checkpoint' = checkpoint
        \/ checkpoint' = Append(checkpoint, [exec |-> j[1], package |-> exec[j[1]].package, outputs |-> jobs[j].outputs])
    BY DEF Job, AdmitBuild, FailBuild, PrepareOwner, ClaimOwner, Continue, RecordStart, TerraformApply,
           StaticDeploy, Observe, BuildRootCheckpoint, PublishCheckpoint
  <2>3. PICK c \in Acceptances : checkpoint' = checkpoint \/ checkpoint' = Append(checkpoint, c)
    BY <2>1, <2>2
  <2>4. checkpoint \in Seq(Acceptances)
    BY DEF Types
  <2>5. Append(checkpoint, c) \in Seq(Acceptances)
    BY <2>4, AppendProperties
  <2> QED
    BY <2>3, <2>4, <2>5
<1>6. starts' \subseteq Execs \X Actions
  BY <1>3 DEF Types, Job, AdmitBuild, FailBuild, PrepareOwner, ClaimOwner, Continue, RecordStart, TerraformApply,
           StaticDeploy, Observe, BuildRootCheckpoint, PublishCheckpoint
<1>7. /\ infra' \in [serial : Nat, recipe : Recipes \cup {None}, static : Recipes \cup {None}]
      /\ applied' \in [Execs -> [Mutations -> Nat]]
  <2>1. CASE TerraformApply(j)
    <3>1. exec[j[1]].package.recipe \in Recipes
      BY <1>3 DEF Packages
    <3>2. CASE infra' = infra /\ applied' = applied
      BY <3>2 DEF Types
    <3>3. CASE /\ infra' = [infra EXCEPT !.serial = @ + 1, !.recipe = exec[j[1]].package.recipe]
               /\ applied' = [applied EXCEPT ![j[1]]["Apply"] = @ + 1]
      <4>1. infra' \in [serial : Nat, recipe : Recipes \cup {None}, static : Recipes \cup {None}]
        <5>1. infra \in [serial : Nat, recipe : Recipes \cup {None}, static : Recipes \cup {None}]
          BY DEF Types
        <5>2. infra.serial + 1 \in Nat
          BY <5>1
        <5>3. infra' = [infra EXCEPT !.serial = infra.serial + 1, !.recipe = exec[j[1]].package.recipe]
          BY <3>3
        <5> QED
          BY <3>1, <5>1, <5>2, <5>3
      <4>2. "Apply" \in Mutations
        BY DEF Mutations
      <4> QED
        BY <1>3, <3>3, <4>1, <4>2, Counted
    <3> QED
      BY <2>1, <3>2, <3>3 DEF TerraformApply
  <2>2. CASE StaticDeploy(j)
    <3>1. exec[j[1]].package.recipe \in Recipes
      BY <1>3 DEF Packages
    <3> QED
      <4>1. infra' \in [serial : Nat, recipe : Recipes \cup {None}, static : Recipes \cup {None}]
        BY <2>2, <3>1 DEF Types, StaticDeploy
      <4>2. "Static" \in Mutations
        BY DEF Mutations
      <4>3. applied' = [applied EXCEPT ![j[1]]["Static"] = @ + 1]
        BY <2>2 DEF StaticDeploy
      <4> QED
        BY <1>3, <4>1, <4>2, <4>3, Counted
  <2>3. CASE UNCHANGED <<infra, applied>>
    BY <2>3 DEF Types
  <2> QED
    BY <2>1, <2>2, <2>3 DEF Job, AdmitBuild, FailBuild, PrepareOwner, ClaimOwner, Continue, RecordStart,
                            Observe, BuildRootCheckpoint, PublishCheckpoint
<1>8. faults' \in Nat
  BY DEF Types, Job, AdmitBuild, FailBuild, PrepareOwner, ClaimOwner, Continue, RecordStart, TerraformApply,
           StaticDeploy, Observe, BuildRootCheckpoint, PublishCheckpoint
<1> QED
  BY <1>1, <1>2, <1>4, <1>5, <1>6, <1>7, <1>8 DEF Types, Frame

LEMMA StartStaged ==
  ASSUME Types, Staged, NEW j \in JobIds, NEW a \in Actions, StartAction(j, a) \/ StartBuild(j, a)
  PROVE  /\ Types' /\ Staged' /\ exec' = exec
         /\ jobs[j].pc = "idle" /\ jobs'[j].pc = "start" /\ jobs'[j].action = a
         /\ jobs'[j].by \in {"pipeline", "operator"}
         /\ \A k \in JobIds : k # j => jobs'[k] = jobs[k]
         /\ native' = native \/ native' = [native EXCEPT ![j[1]][a] = Append(@, "InProgress")]
         /\ \A e \in Execs, b \in Actions :
              /\ Len(native'[e][b]) >= Len(native[e][b])
              /\ \A n \in 1 .. Len(native[e][b]) : native'[e][b][n] = native[e][b][n]
              /\ \A n \in 1 .. Len(native'[e][b]) : n > Len(native[e][b]) => native'[e][b][n] = "InProgress"
<1>1. /\ exec' = exec /\ j[1] \in Execs
      /\ exec[j[1]].stage = "approved" /\ jobs[j] = NoJob
      /\ UNCHANGED <<owner, checkpoint, starts, infra, applied>>
  BY Pairs DEF StartAction, StartBuild, Fresh
<1>2. PICK by \in {"pipeline", "operator"} :
        jobs' = [jobs EXCEPT ![j] = [NoJob EXCEPT !.action = a, !.pc = "start", !.by = by]]
  BY DEF StartAction, StartBuild
<1> DEFINE new == [NoJob EXCEPT !.action = a, !.pc = "start", !.by = by]
<1>3. NoJob.pc = "idle" /\ new \in JobStates /\ new.action = a /\ new.pc = "start" /\ new.by = by
  <2>1. NoJob \in JobStates /\ NoJob.pc = "idle"
    BY DEF NoJob, JobStates, JobSteps
  <2> QED
    BY <2>1 DEF JobStates, JobSteps
<1> HIDE DEF new
<1>4. /\ jobs' \in [JobIds -> JobStates]
      /\ jobs[j].pc = "idle" /\ jobs'[j].pc = "start" /\ jobs'[j].action = a /\ jobs'[j].by = by
      /\ \A k \in JobIds : k # j => jobs'[k] = jobs[k]
  BY <1>1, <1>2, <1>3 DEF Types, new
<1>5. /\ native' \in [Execs -> [Actions -> Seq(Statuses)]]
      /\ native' = native \/ native' = [native EXCEPT ![j[1]][a] = Append(@, "InProgress")]
      /\ \A e \in Execs, b \in Actions :
              /\ Len(native'[e][b]) >= Len(native[e][b])
              /\ \A n \in 1 .. Len(native[e][b]) : native'[e][b][n] = native[e][b][n]
              /\ \A n \in 1 .. Len(native'[e][b]) : n > Len(native[e][b]) => native'[e][b][n] = "InProgress"
  <2>0. \A e \in Execs, b \in Actions : native[e][b] \in Seq(Statuses) /\ Len(native[e][b]) \in Nat
    <3>1. \A e \in Execs, b \in Actions : native[e][b] \in Seq(Statuses)
      BY DEF Types
    <3> QED
      BY <3>1, LenProperties
  <2>1. CASE native' = native
    BY <2>0, <2>1 DEF Types
  <2>2. CASE native' = [native EXCEPT ![j[1]][a] = Append(@, "InProgress")]
    <3> DEFINE s == Append(native[j[1]][a], "InProgress")
    <3>1. "InProgress" \in Statuses
      BY DEF Statuses
    <3>2. /\ s \in Seq(Statuses) /\ Len(s) = Len(native[j[1]][a]) + 1
          /\ \A n \in 1 .. Len(native[j[1]][a]) : s[n] = native[j[1]][a][n]
          /\ s[Len(native[j[1]][a]) + 1] = "InProgress"
      BY <1>1, <2>0, <3>1, AppendProperties
    <3>3. native' = [native EXCEPT ![j[1]] = [native[j[1]] EXCEPT ![a] = s]]
      BY <2>2
    <3> HIDE DEF s
    <3>4. native' \in [Execs -> [Actions -> Seq(Statuses)]]
      BY <1>1, <3>2, <3>3 DEF Types
    <3>5. \A e \in Execs, b \in Actions : native'[e][b] = IF e = j[1] /\ b = a THEN s ELSE native[e][b]
      BY <1>1, <3>3 DEF Types
    <3> QED
      BY <1>1, <2>0, <2>2, <3>2, <3>4, <3>5
  <2> QED
    BY <2>1, <2>2 DEF StartAction, StartBuild
<1>6. faults' \in Nat
  BY DEF StartAction, StartBuild, Types
<1>7. Types'
  BY <1>1, <1>4, <1>5, <1>6 DEF Types
<1>8. Staged'
  BY <1>1, <1>4 DEF Staged, JobIds
<1> QED
  BY <1>1, <1>4, <1>5, <1>7, <1>8

LEMMA AbandonStaged ==
  ASSUME Types, Staged, NEW e \in Execs, NEW a \in Actions, Abandon(e, a)
  PROVE  /\ Types' /\ Staged'
         /\ UNCHANGED <<exec, jobs, owner, checkpoint, starts, infra, applied>>
         /\ \A f \in Execs, b \in Actions :
              /\ Len(native'[f][b]) = Len(native[f][b])
              /\ \A n \in 1 .. Len(native[f][b]) : native'[f][b][n] = native[f][b][n] \/ native'[f][b][n] = "Failed"
<1>1. native[e][a] \in Seq(Statuses)
  BY DEF Types
<1>2. Len(native[e][a]) \in 1 .. Len(native[e][a])
  BY <1>1, LenProperties, EmptySeq DEF Abandon
<1> DEFINE s == [native[e][a] EXCEPT ![Len(native[e][a])] = "Failed"]
<1>3. /\ s \in Seq(Statuses) /\ Len(s) = Len(native[e][a])
      /\ \A i \in 1 .. Len(native[e][a]) : s[i] = IF i = Len(native[e][a]) THEN "Failed" ELSE native[e][a][i]
  <2>1. "Failed" \in Statuses
    BY DEF Statuses
  <2> QED
    BY <1>1, <1>2, <2>1, ExceptSeq
<1>4. native' = [native EXCEPT ![e] = [native[e] EXCEPT ![a] = s]]
  BY DEF Abandon
<1> HIDE DEF s
<1>5. native' \in [Execs -> [Actions -> Seq(Statuses)]]
  BY <1>3, <1>4 DEF Types
<1>6. \A f \in Execs, b \in Actions : native'[f][b] = IF f = e /\ b = a THEN s ELSE native[f][b]
  BY <1>4 DEF Types
<1>7. UNCHANGED <<exec, jobs, owner, checkpoint, starts, infra, applied>> /\ faults' \in Nat
  BY DEF Abandon, Types
<1>8. Types'
  BY <1>5, <1>7 DEF Types
<1>9. Staged'
  BY <1>7 DEF Staged, JobIds
<1> QED
  BY <1>3, <1>6, <1>7, <1>8, <1>9

LEMMA StagedStep ==
  ASSUME Types, Staged, [Next]_vars
  PROVE  Types' /\ Staged'
<1>1. CASE UNCHANGED vars
  BY <1>1 DEF vars, Types, Staged, JobIds
<1>2. CASE Next
  BY <1>2, PlanningStaged, JobStaged, StartStaged, AbandonStaged DEF Next
<1> QED
  BY <1>1, <1>2

-----------------------------------------------------------------------------
(* Claims. *)

Claimed(e) == \E n \in DOMAIN owner : owner[n].exec = e

(* The steps of a build whose execution has been the owner. *)
Holding == {"record", "mutate", "observe", "recheck", "publish"}

(* Every claim is of the package its execution published, which saw the claim before it. *)
Owned ==
  /\ \A n \in DOMAIN owner :
       /\ exec[owner[n].exec].stage = "approved"
       /\ owner[n].package = exec[owner[n].exec].package
       /\ owner[n].package.owner = IF n = 1 THEN None ELSE [version |-> n - 1, exec |-> owner[n - 1].exec]
  /\ \A j \in JobIds : jobs[j].pc \in Holding => Claimed(j[1])

(* An execution claims the root once: its package saw one owner only. *)
LEMMA ClaimsDistinct ==
  ASSUME Types, Owned
  PROVE  \A n, k \in DOMAIN owner : owner[n].exec = owner[k].exec => n = k
<1> SUFFICES ASSUME NEW n \in DOMAIN owner, NEW k \in DOMAIN owner, owner[n].exec = owner[k].exec
             PROVE  n = k
  OBVIOUS
<1>1. owner \in Seq(Claims)
  BY DEF Types
<1>2. DOMAIN owner = 1 .. Len(owner) /\ Len(owner) \in Nat
  BY <1>1, LenProperties
<1>3. \A i \in DOMAIN owner : owner[i].exec \in Execs
  <2>1. \A i \in DOMAIN owner : owner[i] \in Claims
    BY <1>1, <1>2, ElementOfSeq
  <2> QED
    BY <2>1 DEF Claims
<1>4. owner[n].package.owner = owner[k].package.owner
  <2>1. \A i \in DOMAIN owner : owner[i].package = exec[owner[i].exec].package
    BY DEF Owned
  <2>2. owner[n].package = owner[k].package
    BY <2>1
  <2> QED
    BY <2>2
<1> DEFINE before(i) == [version |-> i - 1, exec |-> owner[i - 1].exec]
<1>5. \A i \in DOMAIN owner : i # 1 => before(i) \in [version : Nat, exec : Execs] /\ before(i).version = i - 1
  BY <1>2, <1>3
<1>6. \A i \in DOMAIN owner : owner[i].package.owner = IF i = 1 THEN None ELSE before(i)
  BY DEF Owned
<1> HIDE DEF before
<1>7. \A i \in DOMAIN owner : i # 1 => before(i) # None
  BY <1>5, RootConstants
<1>8. n # 1 /\ k # 1 => before(n) = before(k)
  BY <1>4, <1>6
<1>9. n # 1 /\ k # 1 => n - 1 = k - 1
  BY <1>5, <1>8
<1>10. n = 1 <=> k = 1
  BY <1>4, <1>6, <1>7
<1> QED
  BY <1>2, <1>9, <1>10

LEMMA OwnerDomain ==
  ASSUME Types
  PROVE  /\ Len(owner) \in Nat /\ DOMAIN owner = 1 .. Len(owner)
         /\ \A n \in DOMAIN owner : owner[n] \in Claims /\ owner[n].exec \in Execs
<1>1. owner \in Seq(Claims)
  BY DEF Types
<1>2. Len(owner) \in Nat /\ DOMAIN owner = 1 .. Len(owner)
  BY <1>1, LenProperties
<1>3. \A n \in DOMAIN owner : owner[n] \in Claims
  BY <1>1, <1>2, ElementOfSeq
<1> QED
  BY <1>2, <1>3 DEF Claims

(* A continuation is of a claimed execution, whose predecessor action has succeeded. *)
LEMMA ContinuationClaimed ==
  ASSUME Types, NEW j \in JobIds, assertMutationContinuation(j)
  PROVE  Claimed(j[1])
<1>1. owner # <<>> /\ LastOf(owner) = [exec |-> j[1], package |-> exec[j[1]].package]
  BY DEF assertMutationContinuation
<1>2. Len(owner) \in DOMAIN owner
  BY <1>1, OwnerDomain, EmptySeq DEF Types
<1>3. owner[Len(owner)].exec = j[1]
  BY <1>1 DEF LastOf
<1> QED
  BY <1>2, <1>3 DEF Claimed

(* Only ClaimOwner changes the owner, and it appends a claim on the current one. *)
LEMMA OwnerChanges ==
  ASSUME Types, Staged, NEW j \in JobIds, Job(j)
  PROVE  \/ owner' = owner
         \/ /\ jobs[j].pc = "claim" /\ Observation(owner) = exec[j[1]].package.owner
            /\ owner' = Append(owner, [exec |-> j[1], package |-> exec[j[1]].package])
BY DEF Job, AdmitBuild, FailBuild, PrepareOwner, ClaimOwner, Continue, RecordStart, TerraformApply,
       StaticDeploy, Observe, BuildRootCheckpoint, PublishCheckpoint

(* A build comes to hold the root only by a claim or by a continuation. *)
LEMMA HoldingKept ==
  ASSUME Types, Staged, Owned, NEW j \in JobIds, Job(j), owner' = owner, jobs'[j].pc \in Holding
  PROVE  Claimed(j[1])
<1>0. jobs[j].action \in Actions
  BY JobFrame DEF Frame, Staged
<1>1. ASSUME End(j, "Failed") \/ End(j, "Succeeded") PROVE FALSE
  BY <1>0, <1>1, EndProperties DEF Holding
<1>2. ASSUME jobs[j].pc \in Holding PROVE Claimed(j[1])
  BY <1>2 DEF Owned
<1>3. CASE AdmitBuild(j)
  <2>1. ASSUME NEW pc \in {"prepare", "continue"}, Goto(j, pc) PROVE FALSE
    BY <2>1, GotoProperties DEF JobSteps, Holding
  <2> QED
    BY <1>1, <1>3, <2>1 DEF AdmitBuild
<1>4. CASE PrepareOwner(j)
  <2>1. ASSUME Goto(j, "claim") PROVE FALSE
    BY <2>1, GotoProperties DEF JobSteps, Holding
  <2> QED
    BY <1>1, <1>4, <2>1 DEF PrepareOwner
<1>5. CASE ClaimOwner(j)
  <2>1. Len(owner) \in Nat /\ owner \in Seq(Claims)
    BY OwnerDomain DEF Types
  <2>2. [exec |-> j[1], package |-> exec[j[1]].package] \in Claims
    <3>1. j[1] \in Execs /\ exec[j[1]].package \in Packages
      BY Pairs, JobFrame DEF Frame, Staged
    <3> QED
      BY <3>1 DEF Claims
  <2>3. Append(owner, [exec |-> j[1], package |-> exec[j[1]].package]) # owner
    <3>1. \A c \in Claims : Len(Append(owner, c)) = Len(owner) + 1
      BY <2>1, AppendProperties
    <3> QED
      BY <2>1, <2>2, <3>1
  <2> QED
    BY <1>1, <1>5, <2>3 DEF ClaimOwner
<1>6. CASE Continue(j)
  BY <1>1, <1>6, ContinuationClaimed DEF Continue
<1>7. CASE FailBuild(j) \/ RecordStart(j) \/ TerraformApply(j) \/ StaticDeploy(j) \/ Observe(j)
           \/ BuildRootCheckpoint(j) \/ PublishCheckpoint(j)
  BY <1>1, <1>2, <1>7 DEF FailBuild, RecordStart, TerraformApply, StaticDeploy, Observe, BuildRootCheckpoint,
                          PublishCheckpoint, Holding
<1> QED
  BY <1>3, <1>4, <1>5, <1>6, <1>7 DEF Job

(* A claim keeps the claims before it, and is the next one. *)
LEMMA ClaimAppended ==
  ASSUME Types, Staged, NEW j \in JobIds, jobs[j].pc = "claim",
         owner' = Append(owner, [exec |-> j[1], package |-> exec[j[1]].package])
  PROVE  /\ DOMAIN owner' = 1 .. (Len(owner) + 1) /\ Len(owner') = Len(owner) + 1
         /\ \A n \in DOMAIN owner : n \in DOMAIN owner' /\ owner'[n] = owner[n]
         /\ owner'[Len(owner) + 1].exec = j[1] /\ owner'[Len(owner) + 1].package = exec[j[1]].package
<1> DEFINE c == [exec |-> j[1], package |-> exec[j[1]].package]
<1>1. owner \in Seq(Claims) /\ Len(owner) \in Nat /\ DOMAIN owner = 1 .. Len(owner)
  BY OwnerDomain DEF Types
<1>2. c \in Claims /\ c.exec = j[1] /\ c.package = exec[j[1]].package
  <2>1. j[1] \in Execs /\ exec[j[1]].package \in Packages
    BY Pairs DEF Staged
  <2> QED
    BY <2>1 DEF Claims
<1>3. owner' = Append(owner, c)
  OBVIOUS
<1> HIDE DEF c
<1>4. /\ owner' \in Seq(Claims) /\ Len(owner') = Len(owner) + 1
      /\ \A n \in 1 .. Len(owner) : owner'[n] = owner[n]
      /\ owner'[Len(owner) + 1] = c
  BY <1>1, <1>2, <1>3, AppendProperties
<1>5. DOMAIN owner' = 1 .. Len(owner')
  BY <1>4, LenProperties
<1> QED
  BY <1>1, <1>2, <1>4, <1>5

LEMMA OwnedStep ==
  ASSUME Types, Staged, Owned, [Next]_vars
  PROVE  Owned'
<1>1. CASE UNCHANGED vars
  BY <1>1 DEF vars, Owned, Claimed, JobIds
<1>2. ASSUME NEW e \in Execs,
             StartExecution(e) \/ ReadCheckpoint(e) \/ ReadOwner(e) \/ PublishPlan(e) \/ Approve(e)
      PROVE  Owned'
  <2>1. UNCHANGED <<owner, jobs>>
    BY <1>2 DEF StartExecution, ReadCheckpoint, ReadOwner, PublishPlan, Approve
  <2>2. \A f \in Execs : exec[f].stage = "approved" => exec'[f].stage = "approved" /\ exec'[f].package = exec[f].package
    BY <1>2, PlanningStaged
  <2> QED
    BY <2>1, <2>2, OwnerDomain DEF Owned, Claimed, JobIds
<1>3. ASSUME NEW e \in Execs, NEW a \in Actions, Abandon(e, a) PROVE Owned'
  BY <1>3 DEF Abandon, Owned, Claimed, JobIds
<1>4. ASSUME NEW j \in JobIds, NEW a \in Actions, StartAction(j, a) \/ StartBuild(j, a) PROVE Owned'
  <2>1. owner' = owner
    BY <1>4 DEF StartAction, StartBuild
  <2>2. exec' = exec /\ jobs'[j].pc = "start" /\ \A k \in JobIds : k # j => jobs'[k] = jobs[k]
    BY <1>4, StartStaged
  <2> QED
    BY <2>1, <2>2 DEF Owned, Claimed, JobIds, Holding
<1>5. ASSUME NEW j \in JobIds, Job(j) PROVE Owned'
  <2>1. Frame(j)
    BY <1>5, JobFrame
  <2>2. CASE owner' = owner
    <3>1. jobs'[j].pc \in Holding => Claimed(j[1])
      BY <1>5, <2>2, HoldingKept
    <3> QED
      BY <2>1, <2>2, <3>1 DEF Frame, Owned, Claimed, JobIds
  <2>3. CASE /\ jobs[j].pc = "claim" /\ Observation(owner) = exec[j[1]].package.owner
             /\ owner' = Append(owner, [exec |-> j[1], package |-> exec[j[1]].package])
    <3>1. /\ DOMAIN owner' = 1 .. (Len(owner) + 1) /\ Len(owner') = Len(owner) + 1
          /\ \A n \in DOMAIN owner : n \in DOMAIN owner' /\ owner'[n] = owner[n]
          /\ owner'[Len(owner) + 1].exec = j[1] /\ owner'[Len(owner) + 1].package = exec[j[1]].package
      BY <2>3, ClaimAppended
    <3>2. Len(owner) \in Nat /\ DOMAIN owner = 1 .. Len(owner)
      BY OwnerDomain
    <3>3. exec[j[1]].package.owner = IF Len(owner) + 1 = 1 THEN None
                                     ELSE [version |-> Len(owner), exec |-> owner[Len(owner)].exec]
      BY <2>3, <3>2, EmptySeq DEF Observation, LastOf, Types
    <3>4. \A n \in DOMAIN owner' :
            /\ exec'[owner'[n].exec].stage = "approved"
            /\ owner'[n].package = exec'[owner'[n].exec].package
            /\ owner'[n].package.owner = IF n = 1 THEN None ELSE [version |-> n - 1, exec |-> owner'[n - 1].exec]
      <4> SUFFICES ASSUME NEW n \in DOMAIN owner'
                   PROVE  /\ exec[owner'[n].exec].stage = "approved"
                          /\ owner'[n].package = exec[owner'[n].exec].package
                          /\ owner'[n].package.owner = IF n = 1 THEN None ELSE [version |-> n - 1, exec |-> owner'[n - 1].exec]
        BY <2>1 DEF Frame
      <4>1. CASE n \in DOMAIN owner
        <5>1. owner'[n] = owner[n] /\ (n # 1 => owner'[n - 1] = owner[n - 1])
          BY <3>1, <3>2, <4>1
        <5>2. /\ exec[owner[n].exec].stage = "approved"
              /\ owner[n].package = exec[owner[n].exec].package
              /\ owner[n].package.owner = IF n = 1 THEN None ELSE [version |-> n - 1, exec |-> owner[n - 1].exec]
          BY <4>1 DEF Owned
        <5> QED
          BY <5>1, <5>2
      <4>2. CASE n = Len(owner) + 1
        <5>1. exec[j[1]].stage = "approved"
          BY <2>3 DEF Staged
        <5>2. n # 1 => owner'[n - 1] = owner[Len(owner)] /\ n - 1 = Len(owner)
          BY <3>1, <3>2, <4>2
        <5> QED
          BY <3>1, <3>2, <3>3, <4>2, <5>1, <5>2
      <4> QED
        BY <3>1, <3>2, <4>1, <4>2
    <3>5. \A e \in Execs : Claimed(e) \/ e = j[1] => Claimed(e)'
      BY <3>1, <3>2 DEF Claimed
    <3>6. \A k \in JobIds : jobs'[k].pc \in Holding => Claimed(k[1])'
      BY <2>1, <3>5, Pairs DEF Owned, Frame
    <3> QED
      BY <3>4, <3>6 DEF Owned, JobIds
  <2> QED
    BY <1>5, <2>2, <2>3, OwnerChanges
<1> QED
  BY <1>1, <1>2, <1>3, <1>4, <1>5 DEF Next

-----------------------------------------------------------------------------
(* Acceptance. *)

(* Whoever saw a checkpoint saw one of an execution that had claimed the root; a claim comes *)
(* after the one of the execution whose checkpoint its plan was made against; and            *)
(* acceptances are in the order of the claims.                                               *)
Ordered ==
  /\ \A e \in Execs : exec[e].checkpoint \in Obs => Claimed(exec[e].checkpoint.exec)
  /\ \A e \in Execs : exec[e].stage \in {"planned", "approved"} /\ exec[e].package.checkpoint \in Obs
                        => Claimed(exec[e].package.checkpoint.exec)
  /\ \A n \in DOMAIN owner : owner[n].package.checkpoint \in Obs =>
       \E m \in DOMAIN owner : m < n /\ owner[m].exec = owner[n].package.checkpoint.exec
  /\ \A k \in DOMAIN checkpoint : /\ Claimed(checkpoint[k].exec)
                                  /\ exec[checkpoint[k].exec].stage = "approved"
                                  /\ checkpoint[k].package = exec[checkpoint[k].exec].package
  /\ \A i, k \in DOMAIN checkpoint, n, m \in DOMAIN owner :
       i < k /\ owner[n].exec = checkpoint[i].exec /\ owner[m].exec = checkpoint[k].exec => n < m

(* An execution whose plan saw the current owner has not claimed yet. *)
LEMMA ClaimFresh ==
  ASSUME Types, Owned, NEW e \in Execs, Observation(owner) = exec[e].package.owner
  PROVE  ~ Claimed(e)
<1> SUFFICES ASSUME NEW n \in DOMAIN owner, owner[n].exec = e PROVE FALSE
  BY DEF Claimed
<1>1. /\ Len(owner) \in Nat /\ DOMAIN owner = 1 .. Len(owner)
      /\ \A i \in DOMAIN owner : owner[i].exec \in Execs
  BY OwnerDomain
<1>2. owner # <<>>
  BY <1>1
<1>3. owner[n].package = exec[e].package
  BY DEF Owned
<1> DEFINE seen == [version |-> Len(owner), exec |-> owner[Len(owner)].exec]
           before == [version |-> n - 1, exec |-> owner[n - 1].exec]
<1>4. exec[e].package.owner = seen
  BY <1>2 DEF Observation, LastOf
<1>5. exec[e].package.owner = IF n = 1 THEN None ELSE before
  BY <1>3 DEF Owned
<1>6. seen \in [version : Nat, exec : Execs] /\ seen.version = Len(owner)
  BY <1>1
<1>7. n # 1 => before.version = n - 1
  OBVIOUS
<1> HIDE DEF seen, before
<1>8. seen # None
  BY <1>6, RootConstants
<1>9. n # 1 /\ seen = before
  BY <1>4, <1>5, <1>8
<1> QED
  BY <1>1, <1>6, <1>7, <1>9

LEMMA CheckpointDomain ==
  ASSUME Types
  PROVE  /\ Len(checkpoint) \in Nat /\ DOMAIN checkpoint = 1 .. Len(checkpoint)
         /\ \A k \in DOMAIN checkpoint : checkpoint[k] \in Acceptances /\ checkpoint[k].exec \in Execs
         /\ checkpoint # <<>> => Len(checkpoint) \in DOMAIN checkpoint
<1>1. checkpoint \in Seq(Acceptances)
  BY DEF Types
<1>2. Len(checkpoint) \in Nat /\ DOMAIN checkpoint = 1 .. Len(checkpoint)
  BY <1>1, LenProperties
<1>3. \A n \in DOMAIN checkpoint : checkpoint[n] \in Acceptances
  BY <1>1, <1>2, ElementOfSeq
<1>4. checkpoint # <<>> => Len(checkpoint) \in DOMAIN checkpoint
  BY <1>1, <1>2, EmptySeq
<1> QED
  BY <1>2, <1>3, <1>4 DEF Acceptances

(* What is observed of the checkpoint is the last accepted execution. *)
LEMMA SeenIsAccepted ==
  ASSUME Types, Observation(checkpoint) \in Obs
  PROVE  /\ Len(checkpoint) \in DOMAIN checkpoint
         /\ Observation(checkpoint).exec = checkpoint[Len(checkpoint)].exec
<1>1. checkpoint # <<>>
  BY RootConstants DEF Observation, Obs
<1> QED
  BY <1>1, CheckpointDomain DEF Observation, LastOf

(* Only PublishCheckpoint changes the checkpoint: the owner's, on the one its plan saw. *)
LEMMA CheckpointChanges ==
  ASSUME Types, Staged, NEW j \in JobIds, Job(j)
  PROVE  \/ checkpoint' = checkpoint
         \/ /\ jobs[j].pc = "publish" /\ Observation(checkpoint) = exec[j[1]].package.checkpoint
            /\ owner' = owner
            /\ checkpoint' = Append(checkpoint, [exec |-> j[1], package |-> exec[j[1]].package, outputs |-> jobs[j].outputs])
BY DEF Job, AdmitBuild, FailBuild, PrepareOwner, ClaimOwner, Continue, RecordStart, TerraformApply,
       StaticDeploy, Observe, BuildRootCheckpoint, PublishCheckpoint

LEMMA CheckpointAppended ==
  ASSUME Types, Staged, NEW j \in JobIds, jobs[j].pc = "publish",
         checkpoint' = Append(checkpoint, [exec |-> j[1], package |-> exec[j[1]].package, outputs |-> jobs[j].outputs])
  PROVE  /\ DOMAIN checkpoint' = 1 .. (Len(checkpoint) + 1) /\ Len(checkpoint') = Len(checkpoint) + 1
         /\ \A k \in DOMAIN checkpoint : k \in DOMAIN checkpoint' /\ checkpoint'[k] = checkpoint[k]
         /\ checkpoint'[Len(checkpoint) + 1].exec = j[1]
         /\ checkpoint'[Len(checkpoint) + 1].package = exec[j[1]].package
         /\ checkpoint'[Len(checkpoint) + 1].outputs = jobs[j].outputs
         /\ checkpoint' \in Seq(Acceptances)
<1> DEFINE c == [exec |-> j[1], package |-> exec[j[1]].package, outputs |-> jobs[j].outputs]
<1>1. checkpoint \in Seq(Acceptances) /\ Len(checkpoint) \in Nat /\ DOMAIN checkpoint = 1 .. Len(checkpoint)
  BY CheckpointDomain DEF Types
<1>2. c \in Acceptances /\ c.exec = j[1] /\ c.package = exec[j[1]].package /\ c.outputs = jobs[j].outputs
  <2>1. j[1] \in Execs /\ exec[j[1]].package \in Packages /\ jobs[j].outputs \in Recipes \cup {None}
    BY Pairs DEF Staged, Types, JobStates
  <2> QED
    BY <2>1 DEF Acceptances
<1>3. checkpoint' = Append(checkpoint, c)
  OBVIOUS
<1> HIDE DEF c
<1>4. /\ checkpoint' \in Seq(Acceptances) /\ Len(checkpoint') = Len(checkpoint) + 1
      /\ \A n \in 1 .. Len(checkpoint) : checkpoint'[n] = checkpoint[n]
      /\ checkpoint'[Len(checkpoint) + 1] = c
  BY <1>1, <1>2, <1>3, AppendProperties
<1>5. DOMAIN checkpoint' = 1 .. Len(checkpoint')
  BY <1>4, LenProperties
<1> QED
  BY <1>1, <1>2, <1>4, <1>5

(* Planning keeps the order: what a plan reads of the checkpoint has been claimed. *)
LEMMA OrderedPlanning ==
  ASSUME Types, Staged, Owned, Ordered, NEW e \in Execs,
         StartExecution(e) \/ ReadCheckpoint(e) \/ ReadOwner(e) \/ PublishPlan(e) \/ Approve(e)
  PROVE  Ordered'
<1>0. UNCHANGED <<owner, checkpoint>>
  BY DEF StartExecution, ReadCheckpoint, ReadOwner, PublishPlan, Approve
<1>1. \A f \in Execs : exec[f].stage = "approved" => exec'[f].stage = "approved" /\ exec'[f].package = exec[f].package
  BY PlanningStaged
<1>2. \A f \in Execs : Claimed(f)' <=> Claimed(f)
  BY <1>0 DEF Claimed
<1>3. \A f \in Execs : f # e => exec'[f] = exec[f]
  BY DEF StartExecution, ReadCheckpoint, ReadOwner, PublishPlan, Approve, Types
<1>4. exec[e] \in ExecStates
  BY DEF Types
<1>5. exec'[e].checkpoint \in Obs => Claimed(exec'[e].checkpoint.exec)
  <2>1. CASE exec'[e].checkpoint = exec[e].checkpoint
    BY <2>1 DEF Ordered
  <2>2. CASE exec'[e].checkpoint = Observation(checkpoint)
    BY <2>2, SeenIsAccepted DEF Ordered
  <2>3. CASE ReadCheckpoint(e)
    <3>1. exec'[e] = [exec[e] EXCEPT !.checkpoint = Observation(checkpoint)]
      BY <2>3 DEF ReadCheckpoint, Types
    <3> QED
      BY <1>4, <2>2, <3>1 DEF ExecStates
  <2>4. CASE StartExecution(e)
    <3>1. \E s \in Sources, initial \in BOOLEAN :
             exec'[e] = [exec[e] EXCEPT !.stage = "planning", !.source = s, !.initial = initial]
      BY <2>4 DEF StartExecution, Types
    <3> QED
      BY <1>4, <2>1, <3>1 DEF ExecStates
  <2>5. CASE ReadOwner(e)
    <3>1. exec'[e] = [exec[e] EXCEPT !.owner = Observation(owner)]
      BY <2>5 DEF ReadOwner, Types
    <3> QED
      BY <1>4, <2>1, <3>1 DEF ExecStates
  <2>6. CASE PublishPlan(e)
    <3>1. \E p : \/ exec'[e] = [exec[e] EXCEPT !.stage = "planned", !.package = p]
                 \/ exec'[e] = [exec[e] EXCEPT !.stage = "ended"]
      BY <2>6 DEF PublishPlan, Types
    <3> QED
      BY <1>4, <2>1, <3>1 DEF ExecStates
  <2>7. CASE Approve(e)
    <3>1. exec'[e] = [exec[e] EXCEPT !.stage = "approved", !.approval = exec[e].package]
      BY <2>7 DEF Approve, Types
    <3> QED
      BY <1>4, <2>1, <3>1 DEF ExecStates
  <2> QED
    BY <2>3, <2>4, <2>5, <2>6, <2>7
<1>6. exec'[e].stage \in {"planned", "approved"} /\ exec'[e].package.checkpoint \in Obs
        => Claimed(exec'[e].package.checkpoint.exec)
  <2>1. CASE exec[e].stage = "planned"
    <3>1. exec'[e].package = exec[e].package
      BY <2>1, PlanningStaged
    <3> QED
      BY <2>1, <3>1 DEF Ordered
  <2>2. CASE exec[e].stage # "planned" /\ ~PublishPlan(e)
    <3>1. exec'[e].stage \notin {"planned", "approved"}
      <4>1. CASE StartExecution(e)
        <5>1. \E s \in Sources, initial \in BOOLEAN :
             exec'[e] = [exec[e] EXCEPT !.stage = "planning", !.source = s, !.initial = initial]
          BY <4>1 DEF StartExecution, Types
        <5> QED
          BY <1>4, <5>1 DEF ExecStates
      <4>2. CASE ReadCheckpoint(e)
        <5>1. exec'[e] = [exec[e] EXCEPT !.checkpoint = Observation(checkpoint)] /\ exec[e].stage = "planning"
          BY <4>2 DEF ReadCheckpoint, Types
        <5> QED
          BY <1>4, <5>1 DEF ExecStates
      <4>3. CASE ReadOwner(e)
        <5>1. exec'[e] = [exec[e] EXCEPT !.owner = Observation(owner)] /\ exec[e].stage = "planning"
          BY <4>3 DEF ReadOwner, Types
        <5> QED
          BY <1>4, <5>1 DEF ExecStates
      <4> QED
        BY <2>2, <4>1, <4>2, <4>3 DEF Approve
    <3> QED
      BY <3>1
  <2>3. CASE PublishPlan(e)
    <3>1. PICK p : /\ p.checkpoint = exec[e].checkpoint
                   /\ \/ exec'[e] = [exec[e] EXCEPT !.stage = "planned", !.package = p]
                      \/ exec'[e] = [exec[e] EXCEPT !.stage = "ended"]
      BY <2>3 DEF PublishPlan, Types
    <3>2. exec'[e].stage \in {"planned", "approved"} => exec'[e].package = p
      BY <1>4, <3>1 DEF ExecStates
    <3> QED
      BY <3>1, <3>2 DEF Ordered
  <2> QED
    BY <2>1, <2>2, <2>3
<1>7. \A n \in DOMAIN owner : owner[n].exec \in Execs
  BY OwnerDomain
<1>8. \A k \in DOMAIN checkpoint : checkpoint[k].exec \in Execs
  BY CheckpointDomain
<1>9. \A f \in Execs : f # e => exec'[f].checkpoint = exec[f].checkpoint /\ exec'[f].stage = exec[f].stage /\ exec'[f].package = exec[f].package
  BY <1>3
<1>10. \A f \in Execs : exec'[f].checkpoint \in Obs => Claimed(exec'[f].checkpoint.exec)
  BY <1>5, <1>9 DEF Ordered
<1>11. \A f \in Execs : exec'[f].stage \in {"planned", "approved"} /\ exec'[f].package.checkpoint \in Obs
                         => Claimed(exec'[f].package.checkpoint.exec)
  BY <1>6, <1>9 DEF Ordered
<1>12. \A k \in DOMAIN checkpoint : /\ Claimed(checkpoint[k].exec)
                                   /\ exec'[checkpoint[k].exec].stage = "approved"
                                   /\ checkpoint[k].package = exec'[checkpoint[k].exec].package
  BY <1>1, <1>8 DEF Ordered
<1> QED
  BY <1>0, <1>10, <1>11, <1>12 DEF Ordered, Claimed

(* A claim keeps the order: its execution has no earlier claim, so it is no accepted one. *)
LEMMA OrderedClaim ==
  ASSUME Types, Staged, Owned, Ordered, NEW j \in JobIds, exec' = exec, checkpoint' = checkpoint,
         jobs[j].pc = "claim", Observation(owner) = exec[j[1]].package.owner,
         owner' = Append(owner, [exec |-> j[1], package |-> exec[j[1]].package])
  PROVE  Ordered'
<1> DEFINE L == Len(owner)
<1>1. /\ DOMAIN owner' = 1 .. (L + 1)
      /\ \A n \in DOMAIN owner : n \in DOMAIN owner' /\ owner'[n] = owner[n]
      /\ owner'[L + 1].exec = j[1] /\ owner'[L + 1].package = exec[j[1]].package
  BY ClaimAppended
<1>2. L \in Nat /\ DOMAIN owner = 1 .. L /\ \A n \in DOMAIN owner' : n \in DOMAIN owner \/ n = L + 1
  BY <1>1, OwnerDomain
<1>3. j[1] \in Execs /\ ~Claimed(j[1])
  BY Pairs, ClaimFresh
<1> HIDE DEF L
<1>4. \A e : Claimed(e) => Claimed(e)'
  BY <1>1 DEF Claimed
<1>5. \A n \in DOMAIN owner' : owner'[n].package.checkpoint \in Obs =>
        \E m \in DOMAIN owner' : m < n /\ owner'[m].exec = owner'[n].package.checkpoint.exec
  <2> SUFFICES ASSUME NEW n \in DOMAIN owner', owner'[n].package.checkpoint \in Obs
               PROVE  \E m \in DOMAIN owner' : m < n /\ owner'[m].exec = owner'[n].package.checkpoint.exec
    OBVIOUS
  <2>1. CASE n \in DOMAIN owner
    <3>1. PICK m \in DOMAIN owner : m < n /\ owner[m].exec = owner[n].package.checkpoint.exec
      BY <1>1, <2>1 DEF Ordered
    <3> QED
      BY <1>1, <2>1, <3>1
  <2>2. CASE n = L + 1
    <3>1. exec[j[1]].stage = "approved" /\ owner'[n].package = exec[j[1]].package
      BY <1>1, <2>2 DEF Staged
    <3>2. Claimed(exec[j[1]].package.checkpoint.exec)
      BY <1>3, <3>1 DEF Ordered
    <3>3. PICK m \in DOMAIN owner : owner[m].exec = exec[j[1]].package.checkpoint.exec
      BY <3>2 DEF Claimed
    <3> QED
      BY <1>1, <1>2, <2>2, <3>1, <3>3
  <2> QED
    BY <1>2, <2>1, <2>2
<1>6. \A i, k \in DOMAIN checkpoint, n, m \in DOMAIN owner' :
        i < k /\ owner'[n].exec = checkpoint[i].exec /\ owner'[m].exec = checkpoint[k].exec => n < m
  <2>1. \A k \in DOMAIN checkpoint : checkpoint[k].exec # j[1]
    BY <1>3 DEF Ordered
  <2>2. \A k \in DOMAIN checkpoint, n \in DOMAIN owner' : owner'[n].exec = checkpoint[k].exec =>
           n \in DOMAIN owner /\ owner[n].exec = checkpoint[k].exec
    BY <1>1, <1>2, <2>1
  <2> QED
    BY <2>2 DEF Ordered
<1>7. \A k \in DOMAIN checkpoint : /\ Claimed(checkpoint[k].exec)'
                                   /\ exec[checkpoint[k].exec].stage = "approved"
                                   /\ checkpoint[k].package = exec[checkpoint[k].exec].package
  BY <1>4 DEF Ordered
<1>8. \A e \in Execs : /\ exec[e].checkpoint \in Obs => Claimed(exec[e].checkpoint.exec)'
                       /\ exec[e].stage \in {"planned", "approved"} /\ exec[e].package.checkpoint \in Obs
                            => Claimed(exec[e].package.checkpoint.exec)'
  BY <1>4 DEF Ordered
<1> QED
  BY <1>5, <1>6, <1>7, <1>8 DEF Ordered, Claimed

(* An acceptance keeps the order: its plan saw the last one, whose execution claimed before. *)
LEMMA OrderedAcceptance ==
  ASSUME Types, Staged, Owned, Ordered, NEW j \in JobIds, exec' = exec, owner' = owner,
         jobs[j].pc = "publish", Observation(checkpoint) = exec[j[1]].package.checkpoint,
         checkpoint' = Append(checkpoint, [exec |-> j[1], package |-> exec[j[1]].package, outputs |-> jobs[j].outputs])
  PROVE  Ordered'
<1> DEFINE K == Len(checkpoint)
<1>1. /\ DOMAIN checkpoint' = 1 .. (K + 1)
      /\ \A k \in DOMAIN checkpoint : k \in DOMAIN checkpoint' /\ checkpoint'[k] = checkpoint[k]
      /\ checkpoint'[K + 1].exec = j[1] /\ checkpoint'[K + 1].package = exec[j[1]].package
  BY CheckpointAppended
<1>2. K \in Nat /\ DOMAIN checkpoint = 1 .. K /\ \A k \in DOMAIN checkpoint' : k \in DOMAIN checkpoint \/ k = K + 1
  BY <1>1, CheckpointDomain
<1>3. Claimed(j[1]) /\ exec[j[1]].stage = "approved" /\ j[1] \in Execs
  BY Pairs DEF Owned, Holding, Staged
<1>4. /\ DOMAIN owner = 1 .. Len(owner) /\ Len(owner) \in Nat
      /\ \A n, k \in DOMAIN owner : owner[n].exec = owner[k].exec => n = k
  BY OwnerDomain, ClaimsDistinct
<1>5. \A i \in DOMAIN checkpoint, n, m \in DOMAIN owner :
        owner[n].exec = checkpoint[i].exec /\ owner[m].exec = j[1] => n < m
  <2> SUFFICES ASSUME NEW i \in DOMAIN checkpoint, NEW n \in DOMAIN owner, NEW m \in DOMAIN owner,
                      owner[n].exec = checkpoint[i].exec, owner[m].exec = j[1]
               PROVE  n < m
    OBVIOUS
  <2>1. checkpoint # <<>> /\ Observation(checkpoint) \in Obs
    BY <1>2, Observations, CheckpointDomain DEF Observation, LastOf, Obs
  <2>2. K \in DOMAIN checkpoint /\ exec[j[1]].package.checkpoint.exec = checkpoint[K].exec
    BY <2>1, SeenIsAccepted
  <2>3. owner[m].package = exec[j[1]].package
    BY DEF Owned
  <2>4. PICK q \in DOMAIN owner : q < m /\ owner[q].exec = checkpoint[K].exec
    BY <2>1, <2>2, <2>3 DEF Ordered
  <2>5. CASE i = K
    BY <1>4, <2>4, <2>5
  <2>6. CASE i < K
    <3>1. n < q
      BY <2>2, <2>4, <2>6 DEF Ordered
    <3> QED
      BY <1>4, <2>4, <3>1
  <2> QED
    BY <1>2, <2>5, <2>6
<1> HIDE DEF K
<1>6. \A i, k \in DOMAIN checkpoint', n, m \in DOMAIN owner :
        i < k /\ owner[n].exec = checkpoint'[i].exec /\ owner[m].exec = checkpoint'[k].exec => n < m
  <2> SUFFICES ASSUME NEW i \in DOMAIN checkpoint', NEW k \in DOMAIN checkpoint', i < k,
                      NEW n \in DOMAIN owner, NEW m \in DOMAIN owner,
                      owner[n].exec = checkpoint'[i].exec, owner[m].exec = checkpoint'[k].exec
               PROVE  n < m
    OBVIOUS
  <2>1. i \in DOMAIN checkpoint /\ checkpoint'[i] = checkpoint[i]
    BY <1>1, <1>2
  <2>2. CASE k \in DOMAIN checkpoint
    BY <1>1, <2>1, <2>2 DEF Ordered
  <2>3. CASE k = K + 1
    BY <1>1, <1>5, <2>1, <2>3
  <2> QED
    BY <1>2, <2>2, <2>3
<1>7. \A k \in DOMAIN checkpoint' : /\ Claimed(checkpoint'[k].exec)
                                    /\ exec[checkpoint'[k].exec].stage = "approved"
                                    /\ checkpoint'[k].package = exec[checkpoint'[k].exec].package
  <2> SUFFICES ASSUME NEW k \in DOMAIN checkpoint'
               PROVE  /\ Claimed(checkpoint'[k].exec)
                      /\ exec[checkpoint'[k].exec].stage = "approved"
                      /\ checkpoint'[k].package = exec[checkpoint'[k].exec].package
    OBVIOUS
  <2>1. CASE k \in DOMAIN checkpoint
    BY <1>1, <2>1 DEF Ordered
  <2>2. CASE k = K + 1
    BY <1>1, <1>3, <2>2
  <2> QED
    BY <1>2, <2>1, <2>2
<1> QED
  BY <1>6, <1>7 DEF Ordered, Claimed

LEMMA OrderedStep ==
  ASSUME Types, Staged, Owned, Ordered, [Next]_vars
  PROVE  Ordered'
<1>1. ASSUME UNCHANGED <<exec, owner, checkpoint>> PROVE Ordered'
  BY <1>1 DEF Ordered, Claimed
<1>2. ASSUME NEW j \in JobIds, Job(j) PROVE Ordered'
  <2>1. exec' = exec
    BY <1>2, JobFrame DEF Frame
  <2>2. CASE owner' = owner /\ checkpoint' = checkpoint
    BY <1>1, <2>1, <2>2
  <2>3. CASE owner' # owner
    <3>1. /\ jobs[j].pc = "claim" /\ Observation(owner) = exec[j[1]].package.owner
          /\ owner' = Append(owner, [exec |-> j[1], package |-> exec[j[1]].package])
      BY <1>2, <2>3, OwnerChanges
    <3>2. checkpoint' = checkpoint
      BY <1>2, <2>3, CheckpointChanges
    <3> QED
      BY <2>1, <3>1, <3>2, OrderedClaim
  <2>4. CASE checkpoint' # checkpoint
    BY <1>2, <2>1, <2>4, CheckpointChanges, OrderedAcceptance
  <2> QED
    BY <2>2, <2>3, <2>4
<1>3. CASE UNCHANGED vars
  BY <1>1, <1>3 DEF vars
<1>4. ASSUME NEW j \in JobIds, NEW a \in Actions, StartAction(j, a) \/ StartBuild(j, a) PROVE Ordered'
  BY <1>1, <1>4 DEF StartAction, StartBuild
<1>5. ASSUME NEW e \in Execs, NEW a \in Actions, Abandon(e, a) PROVE Ordered'
  BY <1>1, <1>5 DEF Abandon
<1> QED
  BY <1>2, <1>3, <1>4, <1>5, OrderedPlanning DEF Next

-----------------------------------------------------------------------------
(* Mutations. *)

(* What a build that was admitted has behind it: the start record of its action before it    *)
(* mutates or observes, and the mutations of the actions before its own.                     *)
Admitted(j) ==
  /\ jobs[j].pc \in {"prepare", "claim"} => jobs[j].action = "Apply"
  /\ jobs[j].pc = "continue" => jobs[j].action \in {"Static", "Smoke"}
  /\ jobs[j].pc = "mutate" => /\ jobs[j].action \in Mutations
                              /\ <<j[1], jobs[j].action>> \in starts
                              /\ applied[j[1]][jobs[j].action] = 0
  /\ jobs[j].pc \in {"observe", "recheck", "publish"} => jobs[j].action = "Smoke" /\ <<j[1], "Smoke">> \in starts
  /\ jobs[j].pc \notin {"idle", "start", "done"} => jobs[j].by = "pipeline" /\ Len(native[j[1]][jobs[j].action]) > 0
  /\ jobs[j].action = "Static" /\ jobs[j].pc \in {"record", "mutate"} => applied[j[1]]["Apply"] = 1
  /\ jobs[j].action = "Smoke" /\ jobs[j].pc \in {"record", "observe", "recheck", "publish"}
       => applied[j[1]]["Static"] = 1
  /\ jobs[j].pc = "publish" => jobs[j].outputs = exec[j[1]].package.recipe

(* A mutation that ran: once, recorded and claimed, by a build of the pipeline that has ended. *)
Ran(e, a) ==
  /\ <<e, a>> \in starts
  /\ Len(native[e][a]) > 0
  /\ Claimed(e)
  /\ \E j \in JobIds : j[1] = e /\ jobs[j].action = a /\ jobs[j].by = "pipeline" /\ jobs[j].pc = "done"

Alone ==
  \A j, k \in JobIds : jobs[j].pc = "mutate" /\ jobs[k].pc = "mutate" /\ j[1] = k[1] /\ jobs[j].action = jobs[k].action
                         => j = k
Reported ==
  \A e \in Execs, a \in Mutations : \A n \in 1 .. Len(native[e][a]) :
    native[e][a][n] = "Succeeded" => applied[e][a] = 1
Accepted ==
  \A k \in DOMAIN checkpoint : /\ applied[checkpoint[k].exec]["Static"] = 1
                               /\ <<checkpoint[k].exec, "Smoke">> \in starts
                               /\ checkpoint[k].outputs = exec[checkpoint[k].exec].package.recipe
Mutated ==
  /\ \A j \in JobIds : Admitted(j)
  /\ Alone
  /\ \A e \in Execs, a \in Mutations : applied[e][a] \in {0, 1} /\ (applied[e][a] = 1 => Ran(e, a))
  /\ \A e \in Execs : applied[e]["Static"] = 1 => applied[e]["Apply"] = 1
  /\ Reported
  /\ Accepted

(* What every step lets grow. *)
Grows ==
  /\ starts \subseteq starts'
  /\ \A e \in Execs, a \in Mutations : applied[e][a] = 1 => applied'[e][a] = 1
  /\ \A e \in Execs, a \in Actions : Len(native[e][a]) > 0 => Len(native'[e][a]) > 0
  /\ \A e \in Execs : exec[e].stage = "approved" => exec'[e].package = exec[e].package
  /\ \A e \in Execs : Claimed(e) => Claimed(e)'

LEMMA NativeTyped ==
  ASSUME Types
  PROVE  \A e \in Execs, a \in Actions : native[e][a] \in Seq(Statuses) /\ Len(native[e][a]) \in Nat
<1>1. \A e \in Execs, a \in Actions : native[e][a] \in Seq(Statuses)
  BY DEF Types
<1> QED
  BY <1>1, LenProperties

LEMMA AdmittedKept ==
  ASSUME Types, Staged, Grows, NEW j \in JobIds, Admitted(j), jobs'[j] = jobs[j],
         jobs[j].pc = "mutate" => applied'[j[1]][jobs[j].action] = applied[j[1]][jobs[j].action]
  PROVE  Admitted(j)'
<1>1. j[1] \in Execs /\ "Apply" \in Mutations /\ "Static" \in Mutations
  BY Pairs DEF Mutations
<1>2. jobs[j].pc # "idle" => jobs[j].action \in Actions /\ exec'[j[1]].package = exec[j[1]].package
  BY <1>1 DEF Staged, Grows
<1>3. \A a \in Actions : <<j[1], a>> \in starts => <<j[1], a>> \in starts'
  BY DEF Grows
<1>4. "Smoke" \in Actions /\ Mutations \subseteq Actions
  BY DEF Actions, Mutations
<1>5. /\ applied[j[1]]["Apply"] = 1 => applied'[j[1]]["Apply"] = 1
      /\ applied[j[1]]["Static"] = 1 => applied'[j[1]]["Static"] = 1
  BY <1>1 DEF Grows
<1>6. jobs[j].pc # "idle" /\ Len(native[j[1]][jobs[j].action]) > 0 => Len(native'[j[1]][jobs[j].action]) > 0
  BY <1>1, <1>2 DEF Grows
<1> QED
  BY <1>2, <1>3, <1>4, <1>5, <1>6 DEF Admitted

LEMMA RanKept ==
  ASSUME Types, Grows, NEW e \in Execs, NEW a \in Mutations, Ran(e, a),
         \A k \in JobIds : jobs[k].pc = "done" => jobs'[k] = jobs[k]
  PROVE  Ran(e, a)'
<1>1. a \in Actions
  BY DEF Actions, Mutations
<1>2. PICK j \in JobIds : j[1] = e /\ jobs[j].action = a /\ jobs[j].by = "pipeline" /\ jobs[j].pc = "done"
  BY DEF Ran
<1>3. j[1] = e /\ jobs'[j].action = a /\ jobs'[j].by = "pipeline" /\ jobs'[j].pc = "done"
  BY <1>2
<1>4. <<e, a>> \in starts' /\ Len(native'[e][a]) > 0 /\ Claimed(e)'
  BY <1>1 DEF Ran, Grows
<1>5. JobIds' = JobIds
  BY DEF JobIds
<1> QED
  BY <1>3, <1>4, <1>5 DEF Ran

(* Steps outside the builds: they start nothing that is mutating, and report no success. *)
LEMMA QuietMutated ==
  ASSUME Types, Staged, Ordered, Mutated, Grows,
         UNCHANGED <<owner, checkpoint, starts, applied>>,
         \A k \in JobIds : jobs'[k] = jobs[k] \/ (jobs[k].pc = "idle" /\ jobs'[k].pc \in {"idle", "start"}),
         \A e \in Execs, a \in Mutations : \A n \in 1 .. Len(native'[e][a]) :
           native'[e][a][n] = "Succeeded" => n \in 1 .. Len(native[e][a]) /\ native[e][a][n] = "Succeeded"
  PROVE  Mutated'
<1>1. \A j \in JobIds : Admitted(j)'
  <2> SUFFICES ASSUME NEW j \in JobIds PROVE Admitted(j)'
    OBVIOUS
  <2>1. CASE jobs'[j] = jobs[j]
    BY <2>1, AdmittedKept DEF Mutated
  <2>2. CASE jobs'[j].pc \in {"idle", "start"}
    BY <2>2 DEF Admitted
  <2> QED
    BY <2>1, <2>2
<1>2. Alone'
  <2>1. \A k \in JobIds : jobs'[k].pc = "mutate" => jobs'[k] = jobs[k]
    OBVIOUS
  <2>2. JobIds' = JobIds
    BY DEF JobIds
  <2> QED
    BY <2>1, <2>2 DEF Mutated, Alone
<1>3. \A e \in Execs, a \in Mutations : applied'[e][a] \in {0, 1} /\ (applied'[e][a] = 1 => Ran(e, a)')
  <2>1. \A k \in JobIds : jobs[k].pc = "done" => jobs'[k] = jobs[k]
    OBVIOUS
  <2> QED
    BY <2>1, RanKept DEF Mutated
<1>4. \A e \in Execs : applied'[e]["Static"] = 1 => applied'[e]["Apply"] = 1
  BY DEF Mutated
<1>5. Reported'
  BY DEF Mutated, Reported
<1>6. Accepted'
  <2>1. \A k \in DOMAIN checkpoint : exec'[checkpoint[k].exec].package = exec[checkpoint[k].exec].package
    BY CheckpointDomain DEF Ordered, Grows
  <2> QED
    BY <2>1 DEF Mutated, Accepted
<1>7. JobIds' = JobIds
  BY DEF JobIds
<1> QED
  BY <1>1, <1>2, <1>3, <1>4, <1>5, <1>6, <1>7 DEF Mutated

(* A build's mutation is counted when it has run, from nought. *)
LEMMA AppliedChanges ==
  ASSUME Types, Staged, Mutated, NEW j \in JobIds, Job(j)
  PROVE  \/ applied' = applied
         \/ /\ jobs[j].pc = "mutate" /\ jobs[j].action \in Mutations /\ End(j, "Succeeded")
            /\ UNCHANGED <<owner, checkpoint, starts>>
            /\ applied' \in [Execs -> [Mutations -> Nat]]
            /\ applied[j[1]][jobs[j].action] = 0 /\ applied'[j[1]][jobs[j].action] = 1
            /\ \A e \in Execs, a \in Mutations : e # j[1] \/ a # jobs[j].action => applied'[e][a] = applied[e][a]
<1>1. CASE TerraformApply(j) /\ applied' # applied
  <2>1. /\ jobs[j].pc = "mutate" /\ jobs[j].action = "Apply" /\ End(j, "Succeeded")
        /\ applied' = [applied EXCEPT ![j[1]]["Apply"] = @ + 1]
        /\ UNCHANGED <<owner, checkpoint, starts>>
    BY <1>1 DEF TerraformApply
  <2>2. j[1] \in Execs /\ "Apply" \in Mutations /\ applied[j[1]]["Apply"] = 0
    BY <2>1, Pairs DEF Mutations, Mutated, Admitted
  <2>3. /\ applied' \in [Execs -> [Mutations -> Nat]]
        /\ applied'[j[1]]["Apply"] = 0 + 1
        /\ \A e \in Execs, a \in Mutations : e # j[1] \/ a # "Apply" => applied'[e][a] = applied[e][a]
    BY <2>1, <2>2, Counted
  <2> QED
    BY <2>1, <2>2, <2>3
<1>2. CASE StaticDeploy(j)
  <2>1. /\ jobs[j].pc = "mutate" /\ jobs[j].action = "Static" /\ End(j, "Succeeded")
        /\ applied' = [applied EXCEPT ![j[1]]["Static"] = @ + 1]
        /\ UNCHANGED <<owner, checkpoint, starts>>
    BY <1>2 DEF StaticDeploy
  <2>2. j[1] \in Execs /\ "Static" \in Mutations /\ applied[j[1]]["Static"] = 0
    BY <2>1, Pairs DEF Mutations, Mutated, Admitted
  <2>3. /\ applied' \in [Execs -> [Mutations -> Nat]]
        /\ applied'[j[1]]["Static"] = 0 + 1
        /\ \A e \in Execs, a \in Mutations : e # j[1] \/ a # "Static" => applied'[e][a] = applied[e][a]
    BY <2>1, <2>2, Counted
  <2> QED
    BY <2>1, <2>2, <2>3
<1>3. CASE ~TerraformApply(j) /\ ~StaticDeploy(j)
  BY <1>3 DEF Job, AdmitBuild, FailBuild, PrepareOwner, ClaimOwner, Continue, RecordStart, Observe,
              BuildRootCheckpoint, PublishCheckpoint
<1> QED
  BY <1>1, <1>2, <1>3

LEMMA JobGrows ==
  ASSUME Types, Staged, Mutated, NEW j \in JobIds, Job(j)
  PROVE  Grows
<1>1. Frame(j)
  BY JobFrame
<1>2. starts \subseteq starts'
  BY DEF Job, AdmitBuild, FailBuild, PrepareOwner, ClaimOwner, Continue, RecordStart, TerraformApply,
         StaticDeploy, Observe, BuildRootCheckpoint, PublishCheckpoint
<1>3. \A e \in Execs, a \in Mutations : applied[e][a] = 1 => applied'[e][a] = 1
  BY AppliedChanges
<1>4. \A e \in Execs, a \in Actions : Len(native[e][a]) > 0 => Len(native'[e][a]) > 0
  BY <1>1 DEF Frame
<1>5. \A e \in Execs : exec'[e] = exec[e]
  BY <1>1 DEF Frame
<1>6. \A e \in Execs : Claimed(e) => Claimed(e)'
  <2>1. CASE owner' = owner
    BY <2>1 DEF Claimed
  <2>2. CASE owner' # owner
    <3>1. \A n \in DOMAIN owner : n \in DOMAIN owner' /\ owner'[n] = owner[n]
      BY <2>2, OwnerChanges, ClaimAppended
    <3> QED
      BY <3>1 DEF Claimed
  <2> QED
    BY <2>1, <2>2
<1> QED
  BY <1>2, <1>3, <1>4, <1>5, <1>6 DEF Grows

(* A native action whose last status is a success had its mutation. *)
LEMMA SucceededRan ==
  ASSUME Types, Mutated, NEW e \in Execs, NEW a \in Mutations, native[e][a] # <<>>, LastOf(native[e][a]) = "Succeeded"
  PROVE  applied[e][a] = 1
<1>1. native[e][a] \in Seq(Statuses)
  BY NativeTyped DEF Actions, Mutations
<1>2. Len(native[e][a]) \in 1 .. Len(native[e][a])
  BY <1>1, LenProperties, EmptySeq
<1> QED
  BY <1>2 DEF LastOf, Mutated, Reported

(* The build that takes a step has behind it what its next step needs. *)
LEMMA JobAdmitted ==
  ASSUME Types, Staged, Mutated, NEW j \in JobIds, Job(j)
  PROVE  Admitted(j)'
<1>0. /\ j[1] \in Execs /\ jobs[j].pc # "idle" /\ jobs[j].action \in Actions /\ Admitted(j)
      /\ jobs'[j].action = jobs[j].action /\ jobs'[j].by = jobs[j].by
      /\ exec' = exec /\ Len(native'[j[1]][jobs[j].action]) = Len(native[j[1]][jobs[j].action])
  BY Pairs, JobFrame DEF Frame, Staged, Mutated
<1> DEFINE e == j[1]  a == jobs[j].action
<1>1. ASSUME End(j, "Failed") \/ End(j, "Succeeded") PROVE Admitted(j)'
  <2>1. jobs'[j].pc = "done"
    BY <1>0, <1>1, EndProperties
  <2> QED
    BY <2>1 DEF Admitted
<1>2. ASSUME NEW pc \in JobSteps, Goto(j, pc) PROVE jobs'[j].pc = pc /\ jobs'[j].outputs = jobs[j].outputs
  BY <1>2, GotoProperties
<1> USE DEF JobSteps
<1>3. CASE AdmitBuild(j)
  <2> SUFFICES ASSUME ~End(j, "Failed") PROVE Admitted(j)'
    BY <1>1
  <2>1. /\ jobs[j].by = "pipeline" /\ Len(native[e][a]) = 1
        /\ Goto(j, IF a = "Apply" THEN "prepare" ELSE "continue")
    BY <1>3 DEF AdmitBuild, admitBuildExecution
  <2>2. jobs'[j].pc = IF a = "Apply" THEN "prepare" ELSE "continue"
    BY <1>2, <2>1
  <2> QED
    BY <1>0, <2>1, <2>2 DEF Admitted, Actions
<1>4. CASE PrepareOwner(j)
  <2> SUFFICES ASSUME ~End(j, "Failed") PROVE Admitted(j)'
    BY <1>1
  <2>1. jobs[j].pc = "prepare" /\ jobs'[j].pc = "claim"
    BY <1>2, <1>4 DEF PrepareOwner
  <2> QED
    BY <1>0, <2>1 DEF Admitted
<1>5. CASE ClaimOwner(j)
  <2> SUFFICES ASSUME ~End(j, "Failed") PROVE Admitted(j)'
    BY <1>1
  <2>1. jobs[j].pc = "claim" /\ jobs'[j].pc = "record"
    BY <1>2, <1>5 DEF ClaimOwner
  <2> QED
    BY <1>0, <2>1 DEF Admitted
<1>6. CASE Continue(j)
  <2> SUFFICES ASSUME ~End(j, "Failed") PROVE Admitted(j)'
    BY <1>1
  <2>1. jobs[j].pc = "continue" /\ jobs'[j].pc = "record" /\ assertMutationContinuation(j) /\ applied' = applied
    BY <1>2, <1>6 DEF Continue
  <2>2. a \in {"Static", "Smoke"}
    BY <1>0, <2>1 DEF Admitted
  <2>3. a = "Static" => applied[e]["Apply"] = 1
    <3>1. a = "Static" => native[e]["Apply"] # <<>> /\ LastOf(native[e]["Apply"]) = "Succeeded"
      BY <2>1, RootConstants DEF assertMutationContinuation, Predecessor, Actions
    <3> QED
      BY <1>0, <3>1, SucceededRan DEF Mutations
  <2>4. a = "Smoke" => applied[e]["Static"] = 1
    <3>1. a = "Smoke" => native[e]["Static"] # <<>> /\ LastOf(native[e]["Static"]) = "Succeeded"
      BY <2>1, RootConstants DEF assertMutationContinuation, Predecessor, Actions
    <3> QED
      BY <1>0, <3>1, SucceededRan DEF Mutations
  <2> QED
    BY <1>0, <2>1, <2>2, <2>3, <2>4 DEF Admitted
<1>7. CASE RecordStart(j)
  <2> SUFFICES ASSUME ~End(j, "Failed") PROVE Admitted(j)'
    BY <1>1
  <2>1. /\ jobs[j].pc = "record" /\ <<e, a>> \notin starts /\ starts' = starts \cup {<<e, a>>} /\ applied' = applied
        /\ Goto(j, IF a = "Smoke" THEN "observe" ELSE "mutate")
    BY <1>7 DEF RecordStart
  <2>2. jobs'[j].pc = IF a = "Smoke" THEN "observe" ELSE "mutate"
    BY <1>2, <2>1
  <2>3. a \in Mutations => applied[e][a] = 0
    BY <1>0, <2>1 DEF Mutated, Ran
  <2>4. a # "Smoke" => a \in Mutations
    BY <1>0 DEF Actions, Mutations
  <2> QED
    BY <1>0, <2>1, <2>2, <2>3, <2>4 DEF Admitted
<1>8. CASE Observe(j)
  <2>1. jobs[j].pc = "observe" /\ starts' = starts /\ applied' = applied
    BY <1>8 DEF Observe
  <2>2. jobs[j] \in JobStates /\ jobs' = [jobs EXCEPT ![j] = [jobs[j] EXCEPT !.outputs = infra.recipe, !.pc = "recheck"]]
    BY <1>8 DEF Observe, Types
  <2>3. jobs'[j].pc = "recheck"
    BY <2>2 DEF Types, JobStates
  <2> QED
    BY <1>0, <2>1, <2>3 DEF Admitted
<1>9. CASE BuildRootCheckpoint(j)
  <2> SUFFICES ASSUME ~End(j, "Failed") PROVE Admitted(j)'
    BY <1>1
  <2>1. /\ jobs[j].pc = "recheck" /\ jobs'[j].pc = "publish" /\ starts' = starts /\ applied' = applied
        /\ jobs'[j].outputs = exec[e].package.recipe
    BY <1>2, <1>9 DEF BuildRootCheckpoint, admitRootCheckpoint
  <2> QED
    BY <1>0, <2>1 DEF Admitted
<1>10. CASE FailBuild(j) \/ TerraformApply(j) \/ StaticDeploy(j) \/ PublishCheckpoint(j)
  BY <1>1, <1>10 DEF FailBuild, TerraformApply, StaticDeploy, PublishCheckpoint
<1> QED
  BY <1>3, <1>4, <1>5, <1>6, <1>7, <1>8, <1>9, <1>10 DEF Job

(* A build starts to mutate only by the start record that it was the first to make. *)
LEMMA MutateEntered ==
  ASSUME Types, Staged, NEW j \in JobIds, Job(j), jobs'[j].pc = "mutate"
  PROVE  <<j[1], jobs[j].action>> \notin starts
<1>0. jobs[j].action \in Actions
  BY JobFrame DEF Frame, Staged
<1>1. ~End(j, "Failed") /\ ~End(j, "Succeeded")
  BY <1>0, EndProperties
<1>2. \A pc \in JobSteps : Goto(j, pc) => pc = "mutate"
  BY GotoProperties
<1>3. ~Observe(j)
  <2> SUFFICES ASSUME Observe(j) PROVE FALSE
    OBVIOUS
  <2>1. jobs[j] \in JobStates /\ jobs' = [jobs EXCEPT ![j] = [jobs[j] EXCEPT !.outputs = infra.recipe, !.pc = "recheck"]]
    BY DEF Observe, Types
  <2>2. jobs'[j].pc = "recheck"
    BY <2>1 DEF Types, JobStates
  <2> QED
    BY <2>2
<1>4. ~AdmitBuild(j) /\ ~PrepareOwner(j) /\ ~ClaimOwner(j) /\ ~Continue(j) /\ ~BuildRootCheckpoint(j)
  BY <1>1, <1>2 DEF AdmitBuild, PrepareOwner, ClaimOwner, Continue, BuildRootCheckpoint, JobSteps
<1>5. ~FailBuild(j) /\ ~TerraformApply(j) /\ ~StaticDeploy(j) /\ ~PublishCheckpoint(j)
  BY <1>1 DEF FailBuild, TerraformApply, StaticDeploy, PublishCheckpoint
<1>6. RecordStart(j)
  BY <1>3, <1>4, <1>5 DEF Job
<1> QED
  BY <1>1, <1>6 DEF RecordStart

(* A success that a build reports is of a mutation that has run, or of Smoke. *)
LEMMA JobReported ==
  ASSUME Types, Staged, Mutated, NEW j \in JobIds, Job(j)
  PROVE  Reported'
<1>0. jobs[j].action \in Actions /\ j[1] \in Execs /\ Grows /\ Mutations \subseteq Actions
  BY JobFrame, JobGrows, Pairs DEF Frame, Staged, Actions, Mutations
<1>1. \A e \in Execs, a \in Mutations : applied[e][a] = 1 => applied'[e][a] = 1
  BY <1>0 DEF Grows
<1>2. CASE native' = native
  BY <1>1, <1>2 DEF Mutated, Reported
<1>3. CASE End(j, "Failed")
  <2>1. \A e \in Execs, a \in Actions :
              /\ Len(native'[e][a]) = Len(native[e][a])
              /\ \A n \in 1 .. Len(native[e][a]) :
                   native'[e][a][n] = native[e][a][n] \/ native'[e][a][n] = "Failed"
    BY <1>0, <1>3, EndProperties
  <2> QED
    BY <1>0, <1>1, <2>1 DEF Mutated, Reported
<1>4. CASE End(j, "Succeeded")
  <2>1. \A e \in Execs, a \in Actions :
              /\ Len(native'[e][a]) = Len(native[e][a])
              /\ \A n \in 1 .. Len(native[e][a]) :
                   native'[e][a][n] = native[e][a][n] \/ (e = j[1] /\ a = jobs[j].action)
    BY <1>0, <1>4, EndProperties
  <2>2. jobs[j].action \in Mutations => applied'[j[1]][jobs[j].action] = 1 \/ End(j, "Failed")
    <3>1. CASE TerraformApply(j) \/ StaticDeploy(j)
      <4>1. jobs[j].action \in Mutations
        BY <3>1 DEF TerraformApply, StaticDeploy, Mutations
      <4>2. CASE applied' # applied
        BY <4>2, AppliedChanges
      <4>3. CASE applied' = applied
        <5>1. jobs[j].pc = "mutate" /\ applied[j[1]][jobs[j].action] = 0 /\ applied[j[1]] \in [Mutations -> Nat]
          BY <1>0, <3>1 DEF TerraformApply, StaticDeploy, Mutated, Admitted, Types
        <5>2. ASSUME NEW m \in Mutations, jobs[j].action = m, applied' = [applied EXCEPT ![j[1]][m] = @ + 1] PROVE FALSE
          <6>1. applied'[j[1]][m] = applied[j[1]][m] + 1
            BY <1>0, <5>2, Counted
          <6> QED
            BY <4>3, <5>1, <5>2, <6>1
        <5>3. "Static" \in Mutations /\ "Apply" \in Mutations
          BY DEF Mutations
        <5> QED
          BY <3>1, <5>2, <5>3 DEF TerraformApply, StaticDeploy
      <4> QED
        BY <4>2, <4>3
    <3>2. CASE PublishCheckpoint(j)
      <4>1. jobs[j].action = "Smoke"
        BY <3>2 DEF PublishCheckpoint, Mutated, Admitted
      <4> QED
        BY <4>1 DEF Mutations
    <3>3. CASE ~TerraformApply(j) /\ ~StaticDeploy(j) /\ ~PublishCheckpoint(j)
      <4>1. jobs'[j].pc = "done"
        BY <1>0, <1>4, EndProperties
      <4>2. \A pc \in JobSteps : Goto(j, pc) => pc = "done"
        BY <4>1, GotoProperties
      <4>3. ~Observe(j)
        <5> SUFFICES ASSUME Observe(j) PROVE FALSE
          OBVIOUS
        <5>1. jobs[j] \in JobStates /\ jobs' = [jobs EXCEPT ![j] = [jobs[j] EXCEPT !.outputs = infra.recipe, !.pc = "recheck"]]
          BY DEF Observe, Types
        <5>2. jobs'[j].pc = "recheck"
          BY <5>1 DEF Types, JobStates
        <5> QED
          BY <4>1, <5>2
      <4> QED
        BY <3>3, <4>2, <4>3 DEF Job, AdmitBuild, FailBuild, PrepareOwner, ClaimOwner, Continue, RecordStart,
                                BuildRootCheckpoint, JobSteps
    <3> QED
      BY <3>1, <3>2, <3>3
  <2>3. CASE End(j, "Failed")
    BY <1>3, <2>3
  <2>4. CASE ~End(j, "Failed")
    BY <1>0, <1>1, <2>1, <2>2, <2>4 DEF Mutated, Reported
  <2> QED
    BY <2>3, <2>4
<1> QED
  BY <1>2, <1>3, <1>4 DEF Job, AdmitBuild, FailBuild, PrepareOwner, ClaimOwner, Continue, RecordStart,
                          TerraformApply, StaticDeploy, Observe, BuildRootCheckpoint, PublishCheckpoint

LEMMA JobMutated ==
  ASSUME Types, Staged, Owned, Ordered, Mutated, NEW j \in JobIds, Job(j)
  PROVE  Mutated'
<1>1. Frame(j) /\ Grows /\ j[1] \in Execs /\ jobs[j].action \in Actions /\ jobs[j].pc # "done"
  <2>1. jobs[j].pc # "done"
    BY DEF Job, AdmitBuild, FailBuild, PrepareOwner, ClaimOwner, Continue, RecordStart, TerraformApply,
           StaticDeploy, Observe, BuildRootCheckpoint, PublishCheckpoint
  <2> QED
    BY <2>1, JobFrame, JobGrows, Pairs DEF Frame, Staged
<1>2. \A k \in JobIds : k # j => jobs'[k] = jobs[k]
  BY <1>1 DEF Frame
<1>3. \A k \in JobIds : Admitted(k)'
  <2> SUFFICES ASSUME NEW k \in JobIds, k # j PROVE Admitted(k)'
    BY JobAdmitted
  <2>1. jobs[k].pc = "mutate" => applied'[k[1]][jobs[k].action] = applied[k[1]][jobs[k].action]
    <3> SUFFICES ASSUME jobs[k].pc = "mutate", applied' # applied
                 PROVE  applied'[k[1]][jobs[k].action] = applied[k[1]][jobs[k].action]
      OBVIOUS
    <3>1. jobs[j].pc = "mutate" /\ k[1] \in Execs /\ jobs[k].action \in Mutations
      BY AppliedChanges, Pairs DEF Mutated, Admitted
    <3>2. k[1] # j[1] \/ jobs[k].action # jobs[j].action
      BY <3>1 DEF Mutated, Alone
    <3> QED
      BY <3>1, <3>2, AppliedChanges
  <2> QED
    BY <1>1, <1>2, <2>1, AdmittedKept DEF Mutated
<1>4. Alone'
  <2>1. ASSUME NEW k \in JobIds, k # j, jobs'[j].pc = "mutate", jobs[k].pc = "mutate", j[1] = k[1],
               jobs[j].action = jobs[k].action
        PROVE  FALSE
    BY <2>1, MutateEntered DEF Mutated, Admitted
  <2>2. jobs'[j].action = jobs[j].action /\ JobIds' = JobIds
    BY <1>1 DEF Frame, JobIds
  <2>3. ASSUME NEW i \in JobIds, NEW k \in JobIds, jobs'[i].pc = "mutate", jobs'[k].pc = "mutate", i[1] = k[1],
               jobs'[i].action = jobs'[k].action
        PROVE  i = k
    <3>1. CASE i # j /\ k # j
      BY <1>2, <2>3, <3>1 DEF Mutated, Alone
    <3>2. CASE i = j /\ k # j
      BY <1>2, <2>1, <2>2, <2>3, <3>2
    <3>3. CASE i # j /\ k = j
      BY <1>2, <2>1, <2>2, <2>3, <3>3
    <3> QED
      BY <3>1, <3>2, <3>3
  <2> QED
    BY <2>3, <2>2 DEF Alone
<1>5. \A e \in Execs, a \in Mutations : applied'[e][a] \in {0, 1} /\ (applied'[e][a] = 1 => Ran(e, a)')
  <2> SUFFICES ASSUME NEW e \in Execs, NEW a \in Mutations
               PROVE  applied'[e][a] \in {0, 1} /\ (applied'[e][a] = 1 => Ran(e, a)')
    OBVIOUS
  <2>1. \A k \in JobIds : jobs[k].pc = "done" => jobs'[k] = jobs[k]
    BY <1>1, <1>2
  <2>2. CASE applied'[e][a] = applied[e][a]
    BY <1>1, <2>1, <2>2, RanKept DEF Mutated
  <2>3. CASE applied'[e][a] # applied[e][a]
    <3>1. /\ jobs[j].pc = "mutate" /\ e = j[1] /\ a = jobs[j].action /\ applied'[e][a] = 1
          /\ End(j, "Succeeded") /\ UNCHANGED <<owner, starts>>
      BY <2>3, AppliedChanges
    <3>2. /\ jobs'[j].pc = "done" /\ jobs'[j].action = a /\ jobs'[j].by = "pipeline"
          /\ <<e, a>> \in starts' /\ Len(native'[e][a]) > 0
      <4>1. Admitted(j)
        BY DEF Mutated
      <4>2. jobs[j].by = "pipeline" /\ <<e, a>> \in starts /\ Len(native[e][a]) > 0
        BY <3>1, <4>1 DEF Admitted
      <4>3. jobs'[j].pc = "done" /\ jobs'[j].action = jobs[j].action /\ jobs'[j].by = jobs[j].by
        BY <1>1, <3>1, EndProperties
      <4>4. Len(native'[e][a]) = Len(native[e][a])
        BY <1>1, <3>1 DEF Frame
      <4> QED
        BY <3>1, <4>2, <4>3, <4>4
    <3>3. Claimed(e)'
      BY <1>1, <3>1 DEF Owned, Holding, Grows
    <3>4. JobIds' = JobIds
      BY DEF JobIds
    <3> QED
      BY <3>1, <3>2, <3>3, <3>4 DEF Ran
  <2> QED
    BY <2>2, <2>3
<1>6. \A e \in Execs : applied'[e]["Static"] = 1 => applied'[e]["Apply"] = 1
  <2> SUFFICES ASSUME NEW e \in Execs, applied'[e]["Static"] = 1 PROVE applied'[e]["Apply"] = 1
    OBVIOUS
  <2>0. "Static" \in Mutations /\ "Apply" \in Mutations
    BY DEF Mutations
  <2>1. CASE applied[e]["Static"] = 1
    BY <1>1, <2>0, <2>1 DEF Mutated, Grows
  <2>2. CASE applied[e]["Static"] # 1
    <3>1. jobs[j].pc = "mutate" /\ e = j[1] /\ jobs[j].action = "Static"
      BY <2>0, <2>2, AppliedChanges
    <3>2. applied[e]["Apply"] = 1
      BY <3>1 DEF Mutated, Admitted
    <3> QED
      BY <1>1, <2>0, <3>2 DEF Grows
  <2> QED
    BY <2>1, <2>2
<1>7. Accepted'
  <2>0. exec' = exec /\ "Static" \in Mutations
    BY <1>1 DEF Frame, Mutations
  <2>1. \A k \in DOMAIN checkpoint : /\ applied'[checkpoint[k].exec]["Static"] = 1
                                     /\ <<checkpoint[k].exec, "Smoke">> \in starts'
                                     /\ checkpoint[k].outputs = exec[checkpoint[k].exec].package.recipe
    BY <1>1, <2>0, CheckpointDomain DEF Mutated, Accepted, Grows
  <2>2. CASE checkpoint' = checkpoint
    BY <2>0, <2>1, <2>2 DEF Accepted
  <2>3. CASE checkpoint' # checkpoint
    <3>1. /\ jobs[j].pc = "publish"
          /\ checkpoint' = Append(checkpoint, [exec |-> j[1], package |-> exec[j[1]].package, outputs |-> jobs[j].outputs])
      BY <2>3, CheckpointChanges
    <3>2. /\ applied[j[1]]["Static"] = 1 /\ <<j[1], "Smoke">> \in starts
          /\ jobs[j].outputs = exec[j[1]].package.recipe
      BY <3>1 DEF Mutated, Admitted
    <3>3. applied'[j[1]]["Static"] = 1 /\ <<j[1], "Smoke">> \in starts'
      BY <1>1, <2>0, <3>2 DEF Grows
    <3>4. /\ DOMAIN checkpoint' = 1 .. (Len(checkpoint) + 1)
          /\ \A k \in DOMAIN checkpoint : checkpoint'[k] = checkpoint[k]
          /\ checkpoint'[Len(checkpoint) + 1].exec = j[1]
          /\ checkpoint'[Len(checkpoint) + 1].outputs = jobs[j].outputs
      BY <3>1, CheckpointAppended
    <3>5. Len(checkpoint) \in Nat /\ DOMAIN checkpoint = 1 .. Len(checkpoint)
      BY CheckpointDomain
    <3>6. \A k \in DOMAIN checkpoint' : k \in DOMAIN checkpoint \/ k = Len(checkpoint) + 1
      BY <3>4, <3>5
    <3> QED
      BY <2>0, <2>1, <3>2, <3>3, <3>4, <3>6 DEF Accepted
  <2> QED
    BY <2>2, <2>3
<1>8. JobIds' = JobIds
  BY DEF JobIds
<1> QED
  BY <1>3, <1>4, <1>5, <1>6, <1>7, <1>8, JobReported DEF Mutated

LEMMA MutatedStep ==
  ASSUME Types, Staged, Owned, Ordered, Mutated, [Next]_vars
  PROVE  Mutated'
<1> USE DEF Claimed
<1>1. ASSUME UNCHANGED <<owner, checkpoint, starts, applied, jobs, native>>,
             \A e \in Execs : exec[e].stage = "approved" => exec'[e].package = exec[e].package
      PROVE  Mutated'
  <2>1. Grows
    BY <1>1 DEF Grows
  <2>2. \A e \in Execs, a \in Mutations : \A n \in 1 .. Len(native'[e][a]) :
           native'[e][a][n] = "Succeeded" => n \in 1 .. Len(native[e][a]) /\ native[e][a][n] = "Succeeded"
    BY <1>1
  <2> QED
    BY <1>1, <2>1, <2>2, QuietMutated
<1>2. CASE UNCHANGED vars
  BY <1>1, <1>2 DEF vars
<1>3. ASSUME NEW e \in Execs,
             StartExecution(e) \/ ReadCheckpoint(e) \/ ReadOwner(e) \/ PublishPlan(e) \/ Approve(e)
      PROVE  Mutated'
  <2>1. UNCHANGED <<owner, checkpoint, starts, applied, jobs, native>>
    BY <1>3 DEF StartExecution, ReadCheckpoint, ReadOwner, PublishPlan, Approve
  <2>2. \A f \in Execs : exec[f].stage = "approved" => exec'[f].package = exec[f].package
    BY <1>3, PlanningStaged
  <2> QED
    BY <1>1, <2>1, <2>2
<1>4. ASSUME NEW j \in JobIds, NEW a \in Actions, StartAction(j, a) \/ StartBuild(j, a) PROVE Mutated'
  <2>1. UNCHANGED <<owner, checkpoint, starts, applied>>
    BY <1>4 DEF StartAction, StartBuild
  <2>2. /\ exec' = exec
        /\ jobs[j].pc = "idle" /\ jobs'[j].pc = "start"
        /\ \A k \in JobIds : k # j => jobs'[k] = jobs[k]
        /\ \A e \in Execs, b \in Actions :
              /\ Len(native'[e][b]) >= Len(native[e][b])
              /\ \A n \in 1 .. Len(native[e][b]) : native'[e][b][n] = native[e][b][n]
              /\ \A n \in 1 .. Len(native'[e][b]) : n > Len(native[e][b]) => native'[e][b][n] = "InProgress"
    BY <1>4, StartStaged
  <2>3. \A e \in Execs, b \in Actions : Len(native[e][b]) \in Nat
    BY NativeTyped
  <2>4. \A e \in Execs, b \in Actions : Len(native'[e][b]) \in Nat
    <3>1. Types'
      BY <1>4, StartStaged
    <3>2. \A e \in Execs, b \in Actions : native'[e][b] \in Seq(Statuses)
      BY <3>1 DEF Types
    <3> QED
      BY <3>2, LenProperties
  <2>5. Grows
    BY <2>1, <2>2, <2>3, <2>4 DEF Grows
  <2>6. Mutations \subseteq Actions
    BY DEF Mutations, Actions
  <2>7. \A e \in Execs, b \in Mutations : \A n \in 1 .. Len(native'[e][b]) :
           native'[e][b][n] = "Succeeded" => n \in 1 .. Len(native[e][b]) /\ native[e][b][n] = "Succeeded"
    BY <2>2, <2>3, <2>4, <2>6
  <2> QED
    BY <2>1, <2>2, <2>5, <2>7, QuietMutated
<1>5. ASSUME NEW e \in Execs, NEW a \in Actions, Abandon(e, a) PROVE Mutated'
  <2>1. /\ UNCHANGED <<exec, jobs, owner, checkpoint, starts, applied>>
        /\ \A f \in Execs, b \in Actions :
              /\ Len(native'[f][b]) = Len(native[f][b])
              /\ \A n \in 1 .. Len(native[f][b]) : native'[f][b][n] = native[f][b][n] \/ native'[f][b][n] = "Failed"
    BY <1>5, AbandonStaged
  <2>2. Grows
    BY <2>1 DEF Grows
  <2>3. Mutations \subseteq Actions
    BY DEF Mutations, Actions
  <2>4. \A f \in Execs, b \in Mutations : \A n \in 1 .. Len(native'[f][b]) :
           native'[f][b][n] = "Succeeded" => n \in 1 .. Len(native[f][b]) /\ native[f][b][n] = "Succeeded"
    BY <2>1, <2>3
  <2> QED
    BY <2>1, <2>2, <2>4, QuietMutated
<1> QED
  BY <1>2, <1>3, <1>4, <1>5, JobMutated DEF Next

-----------------------------------------------------------------------------
(* The invariant, and what follows from it. *)

RootInv == Types /\ Staged /\ Owned /\ Ordered /\ Mutated

LEMMA RootInit == Init => RootInv
<1> SUFFICES ASSUME Init PROVE RootInv
  OBVIOUS
<1>1. Types /\ Staged
  BY StagedInit
<1>2. owner = <<>> /\ checkpoint = <<>>
  BY DEF Init
<1>3. DOMAIN owner = {} /\ DOMAIN checkpoint = {}
  BY <1>2
<1>4. \A j \in JobIds : jobs[j].pc = "idle"
  BY DEF Init, JobIds, NoJob
<1>5. Owned
  BY <1>3, <1>4 DEF Owned, Holding
<1>6. \A e \in Execs : exec[e].checkpoint = Unread /\ exec[e].stage = "new"
  BY DEF Init, NewExec
<1>7. Unread \notin Obs
  BY RootConstants DEF Obs
<1>8. Ordered
  BY <1>3, <1>6, <1>7 DEF Ordered
<1>9. applied = [e \in Execs |-> [a \in Mutations |-> 0]] /\ native = [e \in Execs |-> [a \in Actions |-> <<>>]]
  BY DEF Init
<1>10. \A e \in Execs, a \in Mutations : applied[e][a] = 0 /\ Len(native[e][a]) = 0
  BY <1>9 DEF Mutations, Actions
<1>11. \A e \in Execs : applied[e]["Static"] = 0
  BY <1>10 DEF Mutations
<1>12. Mutated
  BY <1>3, <1>4, <1>10, <1>11 DEF Mutated, Admitted, Alone, Reported, Accepted
<1> QED
  BY <1>1, <1>5, <1>8, <1>12 DEF RootInv

LEMMA RootStep == RootInv /\ [Next]_vars => RootInv'
BY StagedStep, OwnedStep, OrderedStep, MutatedStep DEF RootInv

LEMMA RootInvariant == Spec => []RootInv
<1>1. Init => RootInv
  BY RootInit
<1>2. RootInv /\ [Next]_vars => RootInv'
  BY RootStep
<1> QED
  BY <1>1, <1>2, PTL DEF Spec

(* For any number of overlapping executions, builds and faults, every claim of the root was   *)
(* planned on the claim before it and no execution claims twice (mutation-owner.js): the      *)
(* conditional put and the owner that the plan package froze are enough.                      *)
THEOREM ClaimsAreKept == Spec => []NoClaimLost
<1>1. RootInv => NoClaimLost
  <2> SUFFICES ASSUME RootInv PROVE NoClaimLost
    OBVIOUS
  <2>1. \A n, k \in DOMAIN owner : owner[n].exec = owner[k].exec => n = k
    BY ClaimsDistinct DEF RootInv
  <2>2. \A n \in DOMAIN owner :
          owner[n].package.owner = IF n = 1 THEN None ELSE [version |-> n - 1, exec |-> owner[n - 1].exec]
    BY DEF RootInv, Owned
  <2> QED
    BY <2>1, <2>2 DEF NoClaimLost
<1> QED
  BY <1>1, RootInvariant, PTL

(* Checkpoints are accepted in the order of the claims, for any number of executions, although *)
(* Smoke looks at the owner before the checkpoint is put and the two are separate objects      *)
(* (root-checkpoint.js): the put is conditional on the checkpoint that the plan saw, and the   *)
(* plan saw a checkpoint whose execution had claimed before this one could.                    *)
THEOREM AcceptanceInOrder == Spec => []AcceptanceFollowsOwnership
<1>1. RootInv => AcceptanceFollowsOwnership
  <2> SUFFICES ASSUME RootInv PROVE AcceptanceFollowsOwnership
    OBVIOUS
  <2>1. \A k \in DOMAIN checkpoint : \E n \in DOMAIN owner : owner[n].exec = checkpoint[k].exec
    BY DEF RootInv, Ordered, Claimed
  <2>2. \A k \in DOMAIN checkpoint : /\ ClaimOf(checkpoint[k].exec) \in DOMAIN owner
                                     /\ owner[ClaimOf(checkpoint[k].exec)].exec = checkpoint[k].exec
    BY <2>1 DEF ClaimOf
  <2>3. \A i, k \in DOMAIN checkpoint, n, m \in DOMAIN owner :
          i < k /\ owner[n].exec = checkpoint[i].exec /\ owner[m].exec = checkpoint[k].exec => n < m
    BY DEF RootInv, Ordered
  <2>4. \A i, k \in DOMAIN checkpoint :
          i < k => ClaimOf(checkpoint[i].exec) < ClaimOf(checkpoint[k].exec)
    BY <2>2, <2>3
  <2> QED
    BY <2>1, <2>4 DEF AcceptanceFollowsOwnership
<1> QED
  BY <1>1, RootInvariant, PTL

(* A step leaves the checkpoint record alone or adds to it the one whose plan was made against *)
(* it (root-checkpoint.js and the create-or-replace put of checkpoint.json).                   *)
THEOREM CheckpointsGrow == Spec => CheckpointsExtend
<1> DEFINE Extends ==
      \/ checkpoint' = checkpoint
      \/ /\ Len(checkpoint') = Len(checkpoint) + 1
         /\ SubSeq(checkpoint', 1, Len(checkpoint)) = checkpoint
         /\ checkpoint'[Len(checkpoint')].package.checkpoint = Observation(checkpoint)
<1>1. ASSUME RootInv, NEW j \in JobIds, Job(j) PROVE Extends
  <2> SUFFICES ASSUME checkpoint' # checkpoint PROVE Extends
    OBVIOUS
  <2>0. Types /\ Staged
    BY <1>1 DEF RootInv
  <2>1. /\ jobs[j].pc = "publish" /\ Observation(checkpoint) = exec[j[1]].package.checkpoint
        /\ checkpoint' = Append(checkpoint, [exec |-> j[1], package |-> exec[j[1]].package, outputs |-> jobs[j].outputs])
    BY <1>1, <2>0, CheckpointChanges
  <2>2. /\ DOMAIN checkpoint' = 1 .. (Len(checkpoint) + 1) /\ Len(checkpoint') = Len(checkpoint) + 1
        /\ \A k \in DOMAIN checkpoint : checkpoint'[k] = checkpoint[k]
        /\ checkpoint'[Len(checkpoint) + 1].package = exec[j[1]].package
        /\ checkpoint' \in Seq(Acceptances)
    BY <2>0, <2>1, CheckpointAppended
  <2>3. Len(checkpoint) \in Nat /\ DOMAIN checkpoint = 1 .. Len(checkpoint) /\ checkpoint \in Seq(Acceptances)
    BY <2>0, CheckpointDomain DEF Types
  <2> DEFINE s == SubSeq(checkpoint', 1, Len(checkpoint))
  <2>4. /\ s \in Seq(Acceptances) /\ Len(s) = Len(checkpoint)
        /\ \A k \in 1 .. Len(checkpoint) : s[k] = checkpoint'[k]
    <3>1. \A k \in 1 .. Len(checkpoint) : checkpoint'[k] \in Acceptances
      BY <2>2, <2>3, ElementOfSeq
    <3> QED
      BY <2>2, <2>3, <3>1, SubSeqProperties
  <2> HIDE DEF s
  <2>5. s = checkpoint
    BY <2>2, <2>3, <2>4, SeqEqual
  <2> QED
    BY <2>1, <2>2, <2>5 DEF s
<1>2. ASSUME RootInv, [Next]_vars PROVE [Extends]_vars
  <2>1. CASE \E j \in JobIds : Job(j)
    BY <1>1, <1>2, <2>1
  <2>2. CASE ~ \E j \in JobIds : Job(j)
    BY <1>2, <2>2 DEF Next, vars, StartExecution, ReadCheckpoint, ReadOwner, PublishPlan, Approve, Abandon,
                      StartAction, StartBuild
  <2> QED
    BY <2>1, <2>2
<1>3. RootInv /\ [Next]_vars => [Extends]_vars
  BY <1>2
<1> QED
  BY <1>3, RootInvariant, PTL DEF Spec, CheckpointsExtend

(* However many builds a pipeline, an operator and its retries start for an execution, each    *)
(* of its mutations runs at most once, under a claim, in a build the pipeline started          *)
(* (source-path-build-authority.js): the unique native action and the create-only start record *)
(* are enough.                                                                                 *)
THEOREM MutationsOnce == Spec => []MutationsAreAdmitted
<1>1. RootInv => MutationsAreAdmitted
  <2> SUFFICES ASSUME RootInv, NEW e \in Execs, NEW a \in Mutations
               PROVE  /\ applied[e][a] <= 1
                      /\ applied[e][a] = 1 =>
                           /\ native[e][a] # <<>>
                           /\ \E n \in DOMAIN owner : owner[n].exec = e
                           /\ \E j \in JobIds : j[1] = e /\ jobs[j].action = a /\ jobs[j].by = "pipeline"
                                                /\ jobs[j].pc = "done"
    BY DEF MutationsAreAdmitted
  <2>1. applied[e][a] \in {0, 1} /\ (applied[e][a] = 1 => Ran(e, a))
    BY DEF RootInv, Mutated
  <2>2. native[e][a] = <<>> => Len(native[e][a]) = 0
    OBVIOUS
  <2> QED
    BY <2>1, <2>2 DEF Ran, Claimed
<1> QED
  BY <1>1, RootInvariant, PTL

(* An accepted execution applied its approved package once and deployed its frontend once, and *)
(* Smoke saw in place what was approved (buildRootCheckpoint), for any executions, builds and  *)
(* faults.                                                                                     *)
THEOREM AcceptedDeployed == Spec => []AcceptedWasDeployed
<1>1. RootInv => AcceptedWasDeployed
  <2> SUFFICES ASSUME RootInv, NEW k \in DOMAIN checkpoint
               PROVE  /\ applied[checkpoint[k].exec] = [a \in Mutations |-> 1]
                      /\ exec[checkpoint[k].exec].approval = checkpoint[k].package
                      /\ checkpoint[k].outputs.source = exec[checkpoint[k].exec].source
    BY DEF AcceptedWasDeployed
  <2> DEFINE e == checkpoint[k].exec
  <2>1. e \in Execs /\ applied[e] \in [Mutations -> Nat]
    BY CheckpointDomain DEF RootInv, Types
  <2>2. applied[e]["Static"] = 1 /\ checkpoint[k].outputs = exec[e].package.recipe
    BY DEF RootInv, Mutated, Accepted
  <2>3. applied[e]["Apply"] = 1
    BY <2>1, <2>2 DEF RootInv, Mutated
  <2>4. \A a \in Mutations : applied[e][a] = 1
    BY <2>2, <2>3 DEF Mutations
  <2>5. exec[e].stage = "approved" /\ checkpoint[k].package = exec[e].package
    BY DEF RootInv, Ordered
  <2>6. exec[e].approval = exec[e].package /\ exec[e].package.recipe.source = exec[e].source
    BY <2>1, <2>5 DEF RootInv, Staged
  <2> QED
    BY <2>1, <2>2, <2>4, <2>5, <2>6
<1> QED
  BY <1>1, RootInvariant, PTL

(* The records stay in their domains, every claim and acceptance with its execution's own      *)
(* package and every acceptance with the start records of all its actions.                     *)
THEOREM RecordsTyped == Spec => []TypeOK
<1>1. RootInv => TypeOK
  <2> SUFFICES ASSUME RootInv PROVE TypeOK
    OBVIOUS
  <2>1. \A j \in JobIds : jobs[j].pc \in JobSteps /\ jobs[j].action \in Actions \cup {None}
    BY DEF RootInv, Types, JobStates
  <2>2. \A e \in Execs : exec[e].package # None => exec[e].package.exec = e
    BY DEF RootInv, Staged
  <2>3. \A n \in DOMAIN owner : owner[n].package = exec[owner[n].exec].package
    BY DEF RootInv, Owned
  <2>4. \A n \in DOMAIN checkpoint : checkpoint[n].package = exec[checkpoint[n].exec].package
    BY DEF RootInv, Ordered
  <2>5. \A n \in DOMAIN checkpoint : \A a \in Actions : <<checkpoint[n].exec, a>> \in starts
    <3> SUFFICES ASSUME NEW n \in DOMAIN checkpoint PROVE \A a \in Actions : <<checkpoint[n].exec, a>> \in starts
      OBVIOUS
    <3>1. checkpoint[n].exec \in Execs
      BY CheckpointDomain DEF RootInv
    <3>2. applied[checkpoint[n].exec]["Static"] = 1 /\ <<checkpoint[n].exec, "Smoke">> \in starts
      BY DEF RootInv, Mutated, Accepted
    <3>3. applied[checkpoint[n].exec]["Apply"] = 1
      BY <3>1, <3>2 DEF RootInv, Mutated
    <3>4. <<checkpoint[n].exec, "Static">> \in starts /\ <<checkpoint[n].exec, "Apply">> \in starts
      <4>1. "Static" \in Mutations /\ "Apply" \in Mutations
        BY DEF Mutations
      <4> QED
        BY <3>1, <3>2, <3>3, <4>1 DEF RootInv, Mutated, Ran
    <3> QED
      BY <3>2, <3>4 DEF Actions
  <2>6. starts \subseteq Execs \X Actions
    BY DEF RootInv, Types
  <2> QED
    BY <2>1, <2>2, <2>3, <2>4, <2>5, <2>6 DEF TypeOK
<1> QED
  BY <1>1, RootInvariant, PTL

\* Every change was made once by the action started for the claimant, and every
\* accepted execution was deployed (admitBuildExecution, publishCheckpoint).
THEOREM RecordsAreReal == Spec => []DeploymentsReal
BY MutationsOnce, AcceptedDeployed, PTL DEF DeploymentsReal

=============================================================================

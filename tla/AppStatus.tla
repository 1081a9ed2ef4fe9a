----------------------------- MODULE AppStatus -----------------------------
(***************************************************************************)
(* The public deployment status, a projection of the App checkpoint        *)
(* (packages/deployment-authority/src/app-deployment-status.js and         *)
(* app-deployment-status-publication.js) and the machinery that delivers   *)
(* it (infra/terraform/bootstrap/app_status_delivery.tf).                  *)
(*                                                                         *)
(* The Smoke action of a pipeline execution accepts an App checkpoint.     *)
(* When the pipeline succeeds an event schedules a delivery: a state       *)
(* machine that starts a build, which reads the checkpoint, reads the      *)
(* published status, reads the checkpoint again and replaces the status by *)
(* compare-and-swap.  Events are delivered at least once or end in a       *)
(* failure queue, a failed build is retried once, and every delivery that  *)
(* ends without a status raises an alarm.  Deliveries of different         *)
(* executions overlap, and the clocks that date acceptances need not agree.*)
(***************************************************************************)
EXTENDS Naturals, Sequences, FiniteSets

CONSTANTS Execs,        \* pipeline executions
          MaxClock,     \* acceptances are dated 1 .. MaxClock
          MaxCopies,    \* bound on the deliveries of one event
          MaxAttempts   \* builds per delivery: the first and its retries

\* What an instance gives the constants.
AppStatusConstants ==
  MaxClock \in Nat \ {0} /\ MaxCopies \in Nat \ {0} /\ MaxAttempts \in Nat \ {0}

VARIABLES checkpoint,  \* the versions of the App checkpoint
          status,      \* the versions of status/current.json
          pipeline,    \* the pipeline executions
          event,       \* the success event of each execution
          delivery,    \* the state machine executions
          alarm        \* has an alarm been raised for an execution

vars == <<checkpoint, status, pipeline, event, delivery, alarm>>

Deliveries == Execs \X (1 .. MaxCopies)

Idle == [phase |-> "idle", attempt |-> 0, checkpoint |-> 0, status |-> 0]

Init ==
  /\ checkpoint = <<>>
  /\ status = <<>>
  /\ pipeline = [e \in Execs |-> [state |-> "InProgress", smoke |-> <<>>]]
  /\ event = [e \in Execs |-> "none"]
  /\ delivery = [d \in Deliveries |-> Idle]
  /\ alarm = [e \in Execs |-> FALSE]

----------------------------------------------------------------------------
(* The pipeline (external): Smoke may fail and be run again; the one that   *)
(* succeeds has accepted the checkpoint.  The execution may still fail.     *)

Smoke(e) ==
  /\ pipeline[e].state = "InProgress"
  /\ \/ /\ pipeline[e].smoke = <<>>
        /\ pipeline' = [pipeline EXCEPT ![e].smoke = <<"Failed">>]
        /\ UNCHANGED checkpoint
     \/ /\ pipeline[e].smoke \in {<<>>, <<"Failed">>}
        /\ \E at \in 1 .. MaxClock :
             checkpoint' = Append(checkpoint, [exec |-> e, at |-> at])
        /\ pipeline' = [pipeline EXCEPT ![e].smoke = Append(@, "Succeeded")]
  /\ UNCHANGED <<status, event, delivery, alarm>>

Accepted(e) == \E i \in DOMAIN pipeline[e].smoke : pipeline[e].smoke[i] = "Succeeded"

\* The success event matches the rule that schedules a delivery.
EndPipeline(e) ==
  /\ pipeline[e].state = "InProgress"
  /\ \E s \in {"Succeeded", "Failed"} :
       /\ s = "Succeeded" => Accepted(e)
       /\ pipeline' = [pipeline EXCEPT ![e].state = s]
       /\ event' = [event EXCEPT ![e] = IF s = "Succeeded" THEN "sent" ELSE "none"]
  /\ UNCHANGED <<checkpoint, status, delivery, alarm>>

----------------------------------------------------------------------------
(* The delivery of an event.                                               *)

\* At least one delivery is started for an event, and more may be.
StartDelivery(d) ==
  /\ event[d[1]] \in {"sent", "delivered"}
  /\ delivery[d].phase = "idle"
  /\ delivery' = [delivery EXCEPT ![d] = [Idle EXCEPT !.phase = "started"]]
  /\ event' = [event EXCEPT ![d[1]] = "delivered"]
  /\ UNCHANGED <<checkpoint, status, pipeline, alarm>>

\* The retries of the target are used up: the event is kept in the failure
\* queue, whose alarm is on its length.
DeadLetter(e) ==
  /\ event[e] = "sent"
  /\ event' = [event EXCEPT ![e] = "queued"]
  /\ alarm' = [alarm EXCEPT ![e] = TRUE]
  /\ UNCHANGED <<checkpoint, status, pipeline, delivery>>

\* ReadSuccessfulApp, RequireSuccessfulApp and the start of the build.
StartBuild(d) ==
  /\ delivery[d].phase = "started"
  /\ pipeline[d[1]].state = "Succeeded"
  /\ delivery' = [delivery EXCEPT ![d] = [@ EXCEPT !.phase = "build", !.attempt = 1]]
  /\ UNCHANGED <<checkpoint, status, pipeline, event, alarm>>

\* A build that fails is tried again while the retry policy allows it; then the
\* state machine fails and its alarm is raised.
FailBuild(d) ==
  IF delivery[d].attempt < MaxAttempts
  THEN /\ delivery' = [delivery EXCEPT ![d] =
                         [Idle EXCEPT !.phase = "build", !.attempt = delivery[d].attempt + 1]]
       /\ UNCHANGED alarm
  ELSE /\ delivery' = [delivery EXCEPT ![d] = [Idle EXCEPT !.phase = "failed"]]
       /\ alarm' = [alarm EXCEPT ![d[1]] = TRUE]

\* The build stops for a reason of its own.
BuildBreaks(d) ==
  /\ delivery[d].phase \in {"build", "checkpoint", "status", "checked"}
  /\ FailBuild(d)
  /\ UNCHANGED <<checkpoint, status, pipeline, event>>

\* The state machine runs out of its fifteen minutes.
TimeOut(d) ==
  /\ delivery[d].phase \in {"started", "build", "checkpoint", "status", "checked"}
  /\ delivery' = [delivery EXCEPT ![d] = [Idle EXCEPT !.phase = "failed"]]
  /\ alarm' = [alarm EXCEPT ![d[1]] = TRUE]
  /\ UNCHANGED <<checkpoint, status, pipeline, event>>

----------------------------------------------------------------------------
(* The build: admission and publication.                                   *)

\* A successful pipeline with one Smoke action, and that one successful.
admitAsyncAppStatusBuild(e) ==
  /\ pipeline[e].state = "Succeeded"
  /\ pipeline[e].smoke = <<"Succeeded">>

\* The status of a checkpoint: what it shows of the execution, and its date.
projectAppDeploymentStatus(v) == checkpoint[v]

IsOwnCheckpoint(d, v) == checkpoint[v].exec = d[1]

\* The checkpoint is read; one of another execution supersedes this delivery.
ReadCheckpoint(d) ==
  /\ delivery[d].phase = "build"
  /\ IF admitAsyncAppStatusBuild(d[1]) /\ checkpoint # <<>>
     THEN /\ delivery' = [delivery EXCEPT ![d] =
               IF IsOwnCheckpoint(d, Len(checkpoint))
               THEN [@ EXCEPT !.phase = "checkpoint", !.checkpoint = Len(checkpoint)]
               ELSE [Idle EXCEPT !.phase = "done"]]
          /\ UNCHANGED alarm
     ELSE FailBuild(d)
  /\ UNCHANGED <<checkpoint, status, pipeline, event>>

\* A different status must be of a later acceptance.
assertAppStatusPublicationOrder(previous, next) ==
  previous = next \/ next.at > previous.at

ReadStatus(d) ==
  /\ delivery[d].phase = "checkpoint"
  /\ LET next == projectAppDeploymentStatus(delivery[d].checkpoint) IN
     IF status = <<>> \/ assertAppStatusPublicationOrder(status[Len(status)], next)
     THEN /\ delivery' = [delivery EXCEPT ![d] = [@ EXCEPT !.phase = "status", !.status = Len(status)]]
          /\ UNCHANGED alarm
     ELSE FailBuild(d)
  /\ UNCHANGED <<checkpoint, status, pipeline, event>>

\* Faulty variant: the checkpoint read first is taken to be current still.
assertObjectPreconditionNot(d) == TRUE

assertObjectPrecondition(d) == delivery[d].checkpoint = Len(checkpoint)

\* The second read of the checkpoint; an unchanged status needs no write.
Recheck(d) ==
  /\ delivery[d].phase = "status"
  /\ IF assertObjectPrecondition(d)
     THEN /\ delivery' = [delivery EXCEPT ![d] =
               IF /\ delivery[d].status # 0
                  /\ status[delivery[d].status] = projectAppDeploymentStatus(delivery[d].checkpoint)
               THEN [Idle EXCEPT !.phase = "done"]
               ELSE [@ EXCEPT !.phase = "checked"]]
          /\ UNCHANGED alarm
     ELSE FailBuild(d)
  /\ UNCHANGED <<checkpoint, status, pipeline, event>>

StatusUnmoved(d) == delivery[d].status = Len(status)

\* The conditional write; a conflict fails the build, and so may a lost answer.
WriteStatus(d) ==
  /\ delivery[d].phase = "checked"
  /\ IF StatusUnmoved(d)
     THEN /\ status' = Append(status, projectAppDeploymentStatus(delivery[d].checkpoint))
          /\ \/ /\ delivery' = [delivery EXCEPT ![d] = [Idle EXCEPT !.phase = "done"]]
                /\ UNCHANGED alarm
             \/ FailBuild(d)
     ELSE /\ UNCHANGED status
          /\ FailBuild(d)
  /\ UNCHANGED <<checkpoint, pipeline, event>>

DeliveryStep(d) ==
  StartBuild(d) \/ ReadCheckpoint(d) \/ ReadStatus(d) \/ Recheck(d) \/ WriteStatus(d)

Next ==
  \/ \E e \in Execs : Smoke(e) \/ EndPipeline(e) \/ DeadLetter(e)
  \/ \E d \in Deliveries : StartDelivery(d) \/ DeliveryStep(d) \/ BuildBreaks(d) \/ TimeOut(d)

\* The services deliver an event or give it up, and a state machine runs on:
\* nothing is assumed of the pipeline, of the builds' success, or of a second
\* delivery.
Fairness ==
  /\ \A e \in Execs : WF_vars(DeadLetter(e) \/ StartDelivery(<<e, 1>>))
  /\ \A d \in Deliveries : WF_vars(DeliveryStep(d) \/ BuildBreaks(d))

SafetySpec == Init /\ [][Next]_vars

Spec == SafetySpec /\ Fairness

----------------------------------------------------------------------------
(* Properties.                                                             *)

\* Versions are of executions and in their bounds; a delivery holds versions
\* that exist, and has tried at most as often as the retry policy says.
TypeOK ==
  /\ \A i \in DOMAIN checkpoint : checkpoint[i] \in [exec : Execs, at : 1 .. MaxClock]
  /\ \A i \in DOMAIN status : status[i] \in [exec : Execs, at : 1 .. MaxClock]
  /\ \A e \in Execs : /\ pipeline[e].state \in {"InProgress", "Succeeded", "Failed"}
                      /\ event[e] \in {"none", "sent", "delivered", "queued"}
  /\ \A d \in Deliveries :
       /\ delivery[d].phase \in {"idle", "started", "build", "checkpoint", "status", "checked",
                                 "done", "failed"}
       /\ delivery[d].attempt \in 0 .. MaxAttempts
       /\ delivery[d].checkpoint \in 0 .. Len(checkpoint)
       /\ delivery[d].status \in 0 .. Len(status)
  /\ alarm \in [Execs -> BOOLEAN]

\* Which acceptance a status version shows.
AcceptanceOf(s) == CHOOSE v \in DOMAIN checkpoint : checkpoint[v] = s

\* A status is never a new acceptance: it shows a checkpoint that was accepted
\* by an execution that succeeded, and statuses follow the order of acceptance
\* although deliveries overlap, are repeated and clocks disagree.
StatusFollowsAcceptance ==
  /\ \A i \in DOMAIN status :
       /\ \E v \in DOMAIN checkpoint : checkpoint[v] = status[i]
       /\ pipeline[status[i].exec].state = "Succeeded"
  /\ \A i, j \in DOMAIN status : i < j => AcceptanceOf(status[i]) < AcceptanceOf(status[j])

\* The published date only moves forward, also for readers that see nothing but
\* the status (assertAppStatusPublicationOrder).
DateMovesForward ==
  status' # status /\ status # <<>> => status'[Len(status')].at > status[Len(status)].at

\* Two deliveries never publish the same acceptance twice.
PublishedOnce ==
  \A i, j \in DOMAIN status : status[i] = status[j] => i = j

IsCurrent(e) == checkpoint # <<>> /\ checkpoint[Len(checkpoint)].exec = e

Shown == status # <<>> /\ checkpoint # <<>> /\ status[Len(status)] = checkpoint[Len(checkpoint)]

Quiet ==
  /\ \A e \in Execs : event[e] # "sent"
  /\ \A d \in Deliveries : delivery[d].phase \in {"idle", "done", "failed"}

\* When no delivery is under way, the current checkpoint of an execution that
\* succeeded is shown, or an alarm was raised for that execution: a delivery
\* never ends quietly with the status behind.
LagIsAlarmed ==
  Quiet => \A e \in Execs :
    IsCurrent(e) /\ pipeline[e].state = "Succeeded" => Shown \/ alarm[e]

\* A checkpoint whose execution succeeded is shown in the end, unless an alarm
\* says why not or a later acceptance takes its place.
AcceptanceIsShown ==
  \A e \in Execs :
    pipeline[e].state = "Succeeded" ~> (IsCurrent(e) => Shown \/ alarm[e])

=============================================================================

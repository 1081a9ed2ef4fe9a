------------------------------ MODULE OpsLedger ------------------------------
(* The operations ledger: EventBridge rules reduce alarms, prover jobs,       *)
(* pipeline changes and accepted deployments to flat records and invoke the   *)
(* semaphore-janitor Lambda, which validates a record again and writes it to  *)
(* one log stream with the time of the event; saved queries read the stream.  *)
(* Events are delivered late, out of order and more than once, and a failed   *)
(* invocation is attempted again a fixed number of times.                     *)
EXTENDS Integers, Sequences, FiniteSets, SequencesExt

CONSTANTS
    Executions,   \* pipeline execution ids
    Deliveries,   \* invocations EventBridge may make, each of some event
    Types,        \* types of events that happen
    States,       \* states pipelines go through
    Owned,        \* whether events are of this environment, of others, or both
    MaxAttempts,  \* attempts Lambda makes of one invocation
    MaxAge,       \* MAX_OPS_LEDGER_EVENT_AGE_MILLIS
    Skew,         \* MAX_OPS_LEDGER_FUTURE_SKEW_MILLIS
    MaxTime,      \* bound: the last time
    MaxEvents,    \* bound: events that happen
    MaxFaults,    \* bound: requests that fail
    None

\* What an instance gives the constants.
OpsLedgerConstants ==
    /\ Owned \subseteq BOOLEAN
    /\ MaxAttempts \in Nat /\ MaxAge \in Nat /\ Skew \in Nat
    /\ MaxFaults < MaxAttempts

VARIABLES now, events, calls, stream, log, faults
vars == <<now, events, calls, stream, log, faults>>

Alarm    == "alarm_state_changed"
Job      == "prover_job_finished"
Pipeline == "pipeline_execution_changed"
Accepted == "deployment_accepted"

Terminal == {"SUCCEEDED", "FAILED", "CANCELED", "SUPERSEDED", "STOPPED"}
PIPELINE_STATES == {"STARTED", "RESUMED", "STOPPING"} \union Terminal
JobStates == {"SUCCEEDED", "FAILED"}

\* An event as its service sends it.  env and own say whether it is of this
\* environment, and of an alarm, queue or pipeline of it; dep is a deployment
\* id that is whole, one with the prefix only, or absent.
Event(type, env, own, dep, exec, state, ts) ==
    [type |-> type, env |-> env, own |-> own, dep |-> dep,
     exec |-> exec, state |-> state, ts |-> ts]

Idle == [phase |-> "idle", of |-> 0, left |-> 0, parsed |-> None]

Init ==
    /\ now = 0
    /\ events = <<>>
    /\ calls = [d \in Deliveries |-> Idle]
    /\ stream = FALSE
    /\ log = <<>>
    /\ faults = 0

----------------------------------------------------------------------------
\* What happens in the environment.

ofExecution(x, types) == SelectSeq(events, LAMBDA e : e.exec = x /\ e.type \in types)

happens(e) ==
    /\ Len(events) < MaxEvents /\ e.type \in Types
    /\ events' = Append(events, e)
    /\ UNCHANGED <<now, calls, stream, log, faults>>

\* An execution starts, ends, and is resumed after a failure; a person who
\* resumes it takes longer than the resolution of the event times.
PipelineChanges == \E x \in Executions, s \in States, own \in Owned :
    LET past == ofExecution(x, {Pipeline})
        prev == IF past = <<>> THEN "none" ELSE Last(past).state
    IN  /\ \/ s = "STARTED" /\ prev = "none"
           \/ s \in ((Terminal \ {"STOPPED"}) \union {"STOPPING"}) /\ prev \in {"STARTED", "RESUMED"}
           \/ s = "STOPPED" /\ prev = "STOPPING"
           \/ s = "RESUMED" /\ prev \in {"FAILED", "STOPPED"} /\ now > Last(past).ts
        /\ past # <<>> => own = past[1].own
        /\ happens(Event(Pipeline, "own", own, None, x, s, now))

\* The App's Smoke accepts a running execution, by a clock that may be ahead.
DeploymentAccepted == \E x \in Executions, own \in Owned, ahead \in 0..Skew :
    /\ ofExecution(x, {Accepted}) = <<>>
    /\ LET past == ofExecution(x, {Pipeline})
       IN  past # <<>> /\ Last(past).state \in {"STARTED", "RESUMED"}
    /\ happens(Event(Accepted, IF own THEN "own" ELSE "other", TRUE, "whole", x, "ACCEPTED", now + ahead))

JobFinishes == \E own \in Owned, dep \in {"whole", "prefix", None}, s \in JobStates :
    happens(Event(Job, "own", own, dep, None, s, now))

AlarmChanges == \E own \in Owned, s \in {"ALARM", "OK", "INSUFFICIENT_DATA"} :
    happens(Event(Alarm, "own", own, None, None, s, now))

Tick == now < MaxTime /\ now' = now + 1 /\ UNCHANGED <<events, calls, stream, log, faults>>

----------------------------------------------------------------------------
\* The rules.

\* event_pattern of the four rules.
matches(e) ==
    CASE e.type = Alarm    -> e.own
      [] e.type = Job      -> e.own /\ e.dep # None /\ e.state \in JobStates
      [] e.type = Pipeline -> e.own /\ e.state \in PIPELINE_STATES
      [] e.type = Accepted -> e.env = "own" /\ e.dep # None

needsDeploymentId(type) == type \in {Job, Accepted}
needsPipelineExecutionId(type) == type \in {Pipeline, Accepted}

\* input_template: the keys of the type, and the environment of the rule.
transform(e) ==
    [type |-> e.type, env |-> "own", own |-> e.own, state |-> e.state, ts |-> e.ts,
     dep  |-> IF e.type \in {Job, Accepted} THEN e.dep ELSE None,
     exec |-> IF e.type \in {Pipeline, Accepted} THEN e.exec ELSE None]

\* A delivery of an event that matches a rule, at first or again.
Deliver(d) == \E i \in DOMAIN events :
    /\ calls[d].phase = "idle"
    /\ matches(events[i])
    /\ calls' = [calls EXCEPT ![d] = [phase |-> "start", of |-> i, left |-> MaxAttempts, parsed |-> None]]
    /\ UNCHANGED <<now, events, stream, log, faults>>

----------------------------------------------------------------------------
\* The handler.

isRetainedLedgerTimestamp(ts) == ts >= now - MaxAge /\ ts <= now + Skew

hasExactKeys(c) ==
    /\ (c.dep # None) <=> needsDeploymentId(c.type)
    /\ (c.exec # None) <=> needsPipelineExecutionId(c.type)

hasValidLedgerCorrelations(c) == needsDeploymentId(c.type) => c.dep = "whole"

ledgerSourceRule(c) ==
    CASE c.type = Alarm    -> c.own /\ c.state \in {"ALARM", "OK", "INSUFFICIENT_DATA"}
      [] c.type = Job      -> c.state \in JobStates
      [] c.type = Pipeline -> c.own /\ c.state \in PIPELINE_STATES
      [] c.type = Accepted -> c.state = "ACCEPTED"

normalizedLedgerEvent(c) == [timestamp |-> c.ts, event |-> c]

parseOpsLedgerEvent(c) ==
    IF /\ hasExactKeys(c)
       /\ c.env = "own"
       /\ isRetainedLedgerTimestamp(c.ts)
       /\ hasValidLedgerCorrelations(c)
       /\ ledgerSourceRule(c)
    THEN normalizedLedgerEvent(c) ELSE None

\* The invocation throws: Lambda attempts it again, or drops it after the last.
thrown(d) ==
    IF calls[d].left = 1
    THEN [calls[d] EXCEPT !.phase = "dropped", !.left = 0, !.parsed = None]
    ELSE [calls[d] EXCEPT !.phase = "start", !.left = @ - 1, !.parsed = None]

\* The handler up to its first request: bootstrap, configuration and parsing.
Handle(d) ==
    /\ calls[d].phase = "start"
    /\ LET parsed == parseOpsLedgerEvent(transform(events[calls[d].of]))
       IN  calls' = [calls EXCEPT ![d] = IF parsed = None THEN thrown(d)
                                         ELSE [@ EXCEPT !.phase = "stream", !.parsed = parsed]]
    /\ UNCHANGED <<now, events, stream, log, faults>>

\* CreateLogStream succeeds, or answers ResourceAlreadyExistsException.
CreateLogStream(d) ==
    /\ calls[d].phase = "stream"
    /\ stream' = TRUE
    /\ calls' = [calls EXCEPT ![d].phase = "put"]
    /\ UNCHANGED <<now, events, log, faults>>

PutLogEvents(d) ==
    /\ calls[d].phase = "put"
    /\ log' = Append(log, calls[d].parsed)
    /\ calls' = [calls EXCEPT ![d].phase = "recorded"]
    /\ UNCHANGED <<now, events, stream, faults>>

\* The configuration cannot be loaded, a request fails or its answer is lost.
Fails(d) ==
    /\ faults < MaxFaults /\ faults' = faults + 1
    /\ calls[d].phase \in {"start", "stream", "put"}
    /\ calls' = [calls EXCEPT ![d] = thrown(d)]
    /\ stream' \in IF calls[d].phase = "stream" THEN {stream, TRUE} ELSE {stream}
    /\ log' \in IF calls[d].phase = "put" THEN {log, Append(log, calls[d].parsed)} ELSE {log}
    /\ UNCHANGED <<now, events>>

\* PutLogEvents answers that it stored nothing (rejectedLogEventsInfo).
Rejected(d) ==
    /\ faults < MaxFaults /\ faults' = faults + 1
    /\ calls[d].phase = "put"
    /\ calls' = [calls EXCEPT ![d] = thrown(d)]
    /\ UNCHANGED <<now, events, stream, log>>

Next ==
    \/ PipelineChanges \/ DeploymentAccepted \/ JobFinishes \/ AlarmChanges \/ Tick
    \/ \E d \in Deliveries : \/ Deliver(d) \/ Handle(d) \/ CreateLogStream(d)
                             \/ PutLogEvents(d) \/ Fails(d) \/ Rejected(d)

Spec == Init /\ [][Next]_vars

----------------------------------------------------------------------------
\* The saved queries, each a set of rows (entries with equal times are in any order).

rows(x, types, states) ==
    {r \in Range(log) : r.event.exec = x /\ r.event.type \in types /\ r.event.state \in states}

\* Faulty variant: latest() of the order in the stream.
latestStatesStored(R) ==
    LET S == SelectSeq(log, LAMBDA r : r \in R) IN IF S = <<>> THEN {} ELSE {Last(S).event.state}

latestStates(R) == {r.event.state : r \in {q \in R : \A o \in R : o.timestamp <= q.timestamp}}

\* terminal_pipeline_result, before it counts the executions of a week.
terminal_pipeline_result(x) ==
    latestStates(rows(x, {Pipeline}, Terminal))

\* pipeline_start_to_acceptance: the lead times it shows of an execution.
pipeline_start_to_acceptance(x) ==
    LET R == rows(x, {Pipeline, Accepted}, {"STARTED", "ACCEPTED"})
        T == {r.timestamp : r \in R}
    IN  IF Cardinality({r.event.state : r \in R}) # 2 THEN {}
        ELSE {a - b : a \in {t \in T : \A u \in T : u <= t}, b \in {t \in T : \A u \in T : t <= u}}

----------------------------------------------------------------------------
\* Properties.

\* Every call is in one of the handler's phases with a record exactly when it
\* is about to write it, and the stream holds nothing but normalized records.
TypeOK ==
    /\ now \in 0..MaxTime /\ stream \in BOOLEAN /\ faults \in 0..MaxFaults
    /\ \A d \in Deliveries :
          /\ calls[d].phase \in {"idle", "start", "stream", "put", "recorded", "dropped"}
          /\ calls[d].left \in 0..MaxAttempts
          /\ calls[d].phase \in {"stream", "put"} => calls[d].parsed # None
    /\ \A k \in DOMAIN log : log[k] # None
    /\ log # <<>> => stream

\* An invocation that answered {recorded: true} has its record in the stream.
ToldRecordedIsStored ==
    \A d \in Deliveries : calls[d].phase = "recorded" =>
        \E k \in DOMAIN log : log[k].event = transform(events[calls[d].of])

\* Every entry is an event of this environment, under the time it happened,
\* however late and however often it was delivered.
RecordedIsTrue ==
    \A k \in DOMAIN log : \E i \in DOMAIN events :
        /\ matches(events[i])
        /\ log[k].event = transform(events[i])
        /\ log[k].timestamp = events[i].ts

\* No record of the rules is lost for anything but its deployment id or its age:
\* the rules and the handler admit the same events, the duplicates of an event
\* and the calls that find the stream created included.
DroppedIsUnfit ==
    \A d \in Deliveries : calls[d].phase = "dropped" =>
        LET e == events[calls[d].of]
        IN  e.dep = "prefix" \/ e.ts < now - MaxAge

\* Once the terminal events of an execution are stored, the query shows the one
\* in which it really ended, whatever the order of delivery ("one terminal state
\* is retained per execution").
TerminalIsLast ==
    \A x \in Executions :
        LET ends == SelectSeq(events, LAMBDA e : e.type = Pipeline /\ e.exec = x /\ e.own /\ e.state \in Terminal)
        IN  (/\ ends # <<>>
             /\ \A i \in DOMAIN ends : \E k \in DOMAIN log : log[k].event = transform(ends[i]))
            => terminal_pipeline_result(x) = {Last(ends).state}

\* A lead time that the query shows is the one from the execution's start to
\* its acceptance ("duplicate delivery does not change min/max timestamps").
LeadTimeIsTrue ==
    \A x \in Executions : \A lead \in pipeline_start_to_acceptance(x) :
        \E i, j \in DOMAIN events :
            /\ events[i].exec = x /\ events[i].state = "STARTED"
            /\ events[j].exec = x /\ events[j].state = "ACCEPTED"
            /\ lead = events[j].ts - events[i].ts

============================================================================

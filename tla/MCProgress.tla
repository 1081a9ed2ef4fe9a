----------------------------- MODULE MCProgress -----------------------------
(***************************************************************************)
(* What must eventually happen, part by part and under the fairness each   *)
(* part's specification states.  A behaviour is a behaviour of one         *)
(* instance, chosen by part: the others stay in their initial state.  The   *)
(* module extends AsyncFinalization: one attempt, one dispatcher.          *)
(***************************************************************************)
EXTENDS AsyncFinalization, TLC

CONSTANTS NoItem, None, f1, f2, sc, sA, sB, k1, k2, s1, c1, c2, m1, r1, r2, a1, e1, e2, t1

VARIABLES
    part,
    pointer, item, session, votingRev, used, client,
    record, receipt, counter, bitmap, result, meta, voting, call, merge,
    verification, rollback, rolledBack, queuedMark, message, deliveries, verdicts, proc, crashes,
    clock, events, counters, buckets, sessions, req, granted, executed, evicted,
    disk, lock, mem, work, failures, edits,
    run, shuttingDown, stopped, exitCode,
    checkpoint, status, pipeline, event, delivery, alarm,
    stored, known, locks, tab, requests, orphans, server, losses, visits,
    config, dir, statuses, signed, calls, launched, output, workspaces, breaks

storeVars     == <<pointer, item, session, votingRev, used, client>>
commitVars    == <<record, receipt, counter, bitmap, result, meta, voting, call, merge>>
runVars       == <<verification, rollback, rolledBack, queuedMark, message, deliveries, verdicts,
                   proc, crashes>>
admitVars     == <<clock, events, counters, buckets, sessions, req, granted, executed, evicted>>
localVars     == <<disk, lock, mem, work, failures, edits>>
hostVars      == <<run, shuttingDown, stopped, exitCode>>
statusVars    == <<checkpoint, status, pipeline, event, delivery, alarm>>
clientVars    == <<stored, known, locks, tab, requests, orphans, server, losses, visits>>
signatureVars == <<config, dir, statuses, signed, calls, launched, output, workspaces, breaks>>
allVars == <<part, vars, storeVars, commitVars, runVars, admitVars, localVars, hostVars, statusVars,
             clientVars, signatureVars>>

-----------------------------------------------------------------------------
ErrorCodes ==
    {"USER_CANCELLED", "PROVER_INPUT_UPLOAD_FAILED", "SQS_PUBLISH_FAILED",
     "PROVER_IMAGE_SIGNATURE_FAILED", "PROVER_TASK_FAILED",
     "FINALIZATION_BUNDLE_RESTORE_FAILED", "FINALIZATION_DISPATCH_TIMEOUT",
     "FINALIZATION_OUTCOME_UNRECORDED", "PROVER_EXECUTION_FAILED", "PROVER_EXECUTION_ABORTED"}

\* Two calls that carry any command of two attempts, while votes touch the session.
Call(kind, f, q, s, at) ==
    [kind |-> kind, fid |-> f, queuedAt |-> q, startedAt |-> s, at |-> at,
     code |-> IF kind = "fail" THEN "EXECUTION_FAILED" ELSE NoCode,
     scenario |-> NoScenario, resultOk |-> TRUE]
Queue(f, q, s) == [Call("queue", f, q, NoTime, 0) EXCEPT !.scenario = s]
Store == INSTANCE FinalizationStore WITH
    Clients <- {k1, k2}, Fids <- {f1, f2}, Scenarios <- {sA, sB},
    Codes <- {"USER_CANCELLED", "EXECUTION_FAILED"},
    Commands <- {Queue(f1, 0, sA), Call("start", f1, 0, 1, 0), Call("succeed", f1, 0, 1, 2),
                 Call("cancel", f1, 0, NoTime, 1), Call("time_out", f1, 0, 1, 3),
                 Call("fail", f1, 0, 2, 1), Queue(f2, 1, sB)},
    StaleRetryLimit <- 2, CommitAttempts <- 3, MaxTouches <- 2

\* Callbacks of two executions of one session and the report's merge.
Aws(rec) == [session |-> s1, record |-> rec, receipt |-> NoItem, verification |-> NoItem,
             bitmap |-> "bits", runtime |-> [arn |-> "arn", bundle |-> "key"]]
Commit == INSTANCE SuccessfulCommit WITH
    Sessions <- {s1}, Commits <- {c1, c2}, Merges <- {m1}, Request <- (c1 :> Aws("rec") @@ c2 :> Aws("late")),
    Patch <- (m1 :> [session |-> s1, item |-> "delivery", fields |-> [report |-> "report"]]),
    CommitAttempts <- 2, MaxVerifications <- 0, MaxTouches <- 0, verification <- result

\* One verification whose worker may crash or be delivered again.
Run == INSTANCE VerificationRun WITH
    Requests <- {r1}, Local <- FALSE, WriteAttempts <- 2, MaxReceives <- 2, MaxFaults <- 2,
    receives <- deliveries, faults <- crashes

Admission == INSTANCE RequestAdmission WITH
    Requests <- {r1, r2}, Addresses <- {a1}, Kinds <- {"create"}, StoreKind <- "dynamo",
    Window <- 2, Hour <- 2, Day <- 4, ActiveFor <- 1, Limit <- 2, MaxExecutions <- 1, DailyLimit <- 1,
    HourlyLimit <- 1, MaxSessions <- 1, MaxBuckets <- 1, MaxClock <- 1

\* Two processes that finalize or sweep one voted session of the file store.
Local == INSTANCE LocalSession WITH
    Sessions <- {"s1"}, Fids <- {"r1", "r2"}, BotCount <- 2, Procs <- {"p1", "p2"}, Reqs <- {"r1", "r2"},
    Home <- [r \in {"r1", "r2"} |-> IF r = "r1" THEN "p1" ELSE "p2"], Ops <- {"finalize", "sweep"},
    Executor <- "real", AllowDevMode <- FALSE, MaxFaults <- 1, MaxEdits <- 0, req <- work, faults <- failures

Host == INSTANCE HostProcess WITH Runs <- {r1}, ExitCodes <- {"zero", "nonzero", "signal"}

Published == INSTANCE AppStatus WITH
    Execs <- {e1, e2}, MaxClock <- 2, MaxCopies <- 1, MaxAttempts <- 2

\* A tab that follows an attempt, loses an answer and is reloaded.
Tab == INSTANCE ClientSession WITH
    Tabs <- {t1}, MaxSessions <- 1, MaxAttempts <- 1, MaxFaults <- 1, MaxVisits <- 1,
    Addresses <- {"aggregate"}, SharedTabs <- FALSE, record <- stored, knowledge <- known, lock <- locks,
    flight <- requests, faults <- losses

\* The signature of one image, with the assets whole.
Files == INSTANCE AssetFiles WITH MaximumAssetBytes <- 8, MaximumPackageFiles <- 8
manifest == <<"manifest", 1, "none">>
entries == [p \in Files!Installed |->
                Files!file(IF p = "manifest" THEN manifest ELSE Files!pin(manifest, "amd64", p),
                           Files!ExpectedMode(p))]
whole == [entries |-> entries, recordMode |-> "0444",
          record |-> [architecture |-> "amd64", manifest |-> manifest, wellFormed |-> TRUE,
                      root |-> Files!pin(manifest, "amd64", "root"),
                      files |-> [p \in Files!Installed |-> Files!recordOf(entries[p])]]]
authority == [image |-> "img", profile |-> "profile", coherent |-> TRUE]
Signature == INSTANCE SignatureVerifier WITH
    MaximumAssetBytes <- 8, MaximumPackageFiles <- 8, Executions <- {"e1"}, Preparations <- {},
    Margin <- 1, Retries <- 1, MaxFaults <- 2, Directories <- {whole}, Events <- {authority},
    Configurations <- {[authority |-> authority, manifest |-> manifest,
                        root |-> Files!pin(manifest, "amd64", "root"), attempts |-> 2, attemptTimeout |-> 2,
                        retryDelay |-> 1, processTimeout |-> 2, deadline |-> 8]},
    Statuses <- {<<>>, <<[profile |-> "profile", status |-> "COMPLETE"]>>,
                 <<[profile |-> "profile", status |-> "IN_PROGRESS"]>>},
    faults <- breaks

ASSUME Instances ==
    /\ Commit!CommitConstants /\ Run!RunConstants /\ Admission!AdmissionConstants
    /\ Local!SessionConstants /\ Published!AppStatusConstants /\ Tab!ClientConstants

-----------------------------------------------------------------------------
SuiteInit ==
    /\ part \in {"attempt", "store", "commit", "run", "admission", "local", "host", "status", "tab", "signature"}
    /\ Init /\ Store!Init /\ Commit!Init /\ Run!Init /\ Admission!Init /\ Local!Voted /\ Host!Init
    /\ Published!Init /\ Tab!Init /\ Signature!Init
    /\ part # "signature" => statuses = <<>> /\ signed = {}

Keep(p) ==
    /\ UNCHANGED part
    /\ p # "attempt"   => UNCHANGED vars
    /\ p # "store"     => UNCHANGED storeVars
    /\ p # "commit"    => UNCHANGED commitVars
    /\ p # "run"       => UNCHANGED runVars
    /\ p # "admission" => UNCHANGED admitVars
    /\ p # "local"     => UNCHANGED localVars
    /\ p # "host"      => UNCHANGED hostVars
    /\ p # "status"    => UNCHANGED statusVars
    /\ p # "tab"       => UNCHANGED clientVars
    /\ p # "signature" => UNCHANGED signatureVars

SuiteNext ==
    \/ part = "attempt"   /\ Next           /\ Keep("attempt")
    \/ part = "store"     /\ Store!Next     /\ Keep("store")
    \/ part = "commit"    /\ Commit!Next    /\ Keep("commit")
    \/ part = "run"       /\ Run!Next       /\ Keep("run")
    \/ part = "admission" /\ Admission!Next /\ Keep("admission")
    \/ part = "local"     /\ Local!Next     /\ Keep("local")
    \/ part = "host"      /\ Host!Next      /\ Keep("host")
    \/ part = "status"    /\ Published!Next /\ Keep("status")
    \/ part = "tab"       /\ Tab!Next       /\ Keep("tab")
    \/ part = "signature" /\ Signature!Next /\ Keep("signature")

\* The fairness that each specification states, of the part that runs.
SuiteFairness ==
    /\ \A f \in Fids : /\ WF_vars(part = "attempt" /\ Advance(f))
                       /\ WF_vars(part = "attempt" /\ Callback(f))
                       /\ WF_vars(part = "attempt" /\ DeadLetter(f))
    /\ \A d \in Dispatchers : WF_vars(part = "attempt" /\ Dispatch(d))
    /\ WF_vars(part = "attempt" /\ Sweep) /\ WF_vars(part = "attempt" /\ Tick)
    /\ \A c \in {k1, k2} : WF_storeVars(part = "store" /\ Store!Step(c))
    /\ \A c \in {c1, c2} : WF_commitVars(part = "commit" /\ Commit!CommitStep(c))
    /\ WF_commitVars(part = "commit" /\ Commit!MergeStep(m1))
    /\ WF_runVars(part = "run" /\ Run!RequestStep(r1)) /\ WF_runVars(part = "run" /\ Run!WorkerStep(r1))
    /\ \A r \in {r1, r2} : WF_admitVars(part = "admission" /\ Admission!RequestStep(r))
    /\ \A r \in {"r1", "r2"} : WF_localVars(part = "local" /\ Local!Proceed(r))
    /\ WF_hostVars(part = "host" /\ Host!Supervisor(r1))
    /\ WF_hostVars(part = "host" /\ Host!installStaticServerShutdown)
    /\ \A e \in {e1, e2} :
        WF_statusVars(part = "status" /\ (Published!DeadLetter(e) \/ Published!StartDelivery(<<e, 1>>)))
    /\ \A d \in {e1, e2} \X {1} :
        WF_statusVars(part = "status" /\ (Published!DeliveryStep(d) \/ Published!BuildBreaks(d)))
    /\ SF_clientVars(part = "tab" /\ Tab!Serve(t1)) /\ WF_clientVars(part = "tab" /\ Tab!poll(t1))
    /\ \/ []<>(part = "tab" => ~Tab!PollAnswered(t1))
       \/ []<><<part = "tab" /\ Tab!ReceivePoll(t1)>>_clientVars
    /\ WF_clientVars(part = "tab" /\ Tab!Work(1))
    /\ WF_signatureVars(part = "signature" /\ (Signature!Step("e1") \/ Signature!Conclude("e1")))

SuiteSpec == SuiteInit /\ [][SuiteNext]_allVars /\ SuiteFairness

-----------------------------------------------------------------------------
\* Every call into the store, every commit and every request of the server is
\* answered, whatever races it and whatever it has to retry.
RequestsReturn ==
    /\ part = "store" => Store!CallsReturn
    /\ part = "commit" => Commit!CommitsReturn
    /\ part = "admission" => Admission!RequestsAnswered
    /\ part = "local" => Local!RequestsEnd

\* Work that was begun ends: an attempt has an outcome though anything on its way
\* may crash, be lost or never start, a published verification has a result unless
\* its deliveries are used up, and a host ends with its server.
WorkEnds ==
    /\ part = "attempt" => AttemptEnds
    /\ part = "run" => Run!WorkIsDone
    /\ part = "host" => Host!ExecutionsEnd /\ Host!ServerExits
    /\ part = "signature" => Signature!EveryoneAnswered

\* A tab that follows a finalization learns its end, and an acceptance is shown or
\* an alarm says why it is not.
UsersAreTold ==
    /\ part = "tab" => Tab!FollowedToTheEnd
    /\ part = "status" => Published!AcceptanceIsShown

=============================================================================

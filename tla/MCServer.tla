------------------------------ MODULE MCServer ------------------------------
(***************************************************************************)
(* The parts of the server that share no state with one another, each in   *)
(* the instances its properties need: the votes of a session, the commit   *)
(* of a success, verification runs and the admission of requests.  A       *)
(* behaviour is a behaviour of one instance, chosen by part.  The module   *)
(* extends that of the votes, whose variables stay as they are initially   *)
(* in the other parts; those of the others keep the value None.            *)
(***************************************************************************)
EXTENDS SessionVoting, Integers, FiniteSets, TLC

CONSTANTS NoItem, s1, s2, c1, c2, c3, m1, r1, r2, r3, a1, a2

VARIABLES
    part,
    record, receipt, counter, bitmap, result, meta, ballot, commit, merge,
    verification, rollback, queuedMark, message, receives, rolledBack, verdicts, proc, crashes,
    clock, events, counters, buckets, sessions, req, granted, executed, evicted

commitVars == <<record, receipt, counter, bitmap, result, meta, ballot, commit, merge>>
runVars    == <<verification, rollback, queuedMark, message, receives, rolledBack, verdicts, proc, crashes>>
admitVars  == <<clock, events, counters, buckets, sessions, req, granted, executed, evicted>>
allVars == <<part, vars, commitVars, runVars, admitVars>>

-----------------------------------------------------------------------------
\* Commits of a success.  A synchronous one brings receipt, verification and
\* bitmap; one reported by the prover brings runtime metadata and no receipt.

Empty == [f \in {} |-> NoItem]
Sync(s) == [session |-> s, record |-> "rec", receipt |-> "body", verification |-> "first",
            bitmap |-> "bits", runtime |-> Empty]
Aws(s, rec) == [session |-> s, record |-> rec, receipt |-> NoItem, verification |-> NoItem,
                bitmap |-> "bits", runtime |-> [arn |-> "arn", bundle |-> "key"]]

\* Two sessions that publish a receipt, one of them twice (a retried request).
Board == INSTANCE SuccessfulCommit WITH
    Sessions <- {s1, s2}, Commits <- {c1, c2, c3}, Merges <- {}, Patch <- Empty,
    Request <- (c1 :> Sync(s1) @@ c2 :> Sync(s1) @@ c3 :> Sync(s2)),
    CommitAttempts <- 2, MaxVerifications <- 2, MaxTouches <- 0, verification <- result,
    voting <- ballot, call <- commit

\* A repeated prover callback for one session, that of a second execution which
\* completed at another time, and the report that is published later.
Metadata == INSTANCE SuccessfulCommit WITH
    Sessions <- {s1}, Commits <- {c1, c2, c3}, Merges <- {m1},
    Request <- (c1 :> Aws(s1, "rec") @@ c2 :> Aws(s1, "rec") @@ c3 :> Aws(s1, "late")),
    Patch <- (m1 :> [session |-> s1, item |-> "delivery", fields |-> [report |-> "report"]]),
    CommitAttempts <- 2, MaxVerifications <- 0, MaxTouches <- 0, verification <- result,
    voting <- ballot, call <- commit

-----------------------------------------------------------------------------
\* Verification runs by the queue's worker, and in the request itself.

Queued == INSTANCE VerificationRun WITH
    Requests <- {r1, r2}, Local <- FALSE, WriteAttempts <- 2, MaxReceives <- 2, MaxFaults <- 1,
    faults <- crashes
InRequest == INSTANCE VerificationRun WITH
    Requests <- {r1, r2}, Local <- TRUE, WriteAttempts <- 2, MaxReceives <- 2, MaxFaults <- 2,
    faults <- crashes

-----------------------------------------------------------------------------
\* Admission of requests: one limit at a time is the one that binds.

Executions == INSTANCE RequestAdmission WITH
    Requests <- {r1, r2}, Addresses <- {a1}, Kinds <- {"finalize", "cancel"}, StoreKind <- "dynamo",
    Window <- 2, Hour <- 2, Day <- 4, ActiveFor <- 1, Limit <- 1, MaxExecutions <- 1, DailyLimit <- 1,
    HourlyLimit <- 1, MaxSessions <- 1, MaxBuckets <- 1, MaxClock <- 3
Votes == INSTANCE RequestAdmission WITH
    Requests <- {r1, r2, r3}, Addresses <- {a1}, Kinds <- {"vote"}, StoreKind <- "dynamo",
    Window <- 2, Hour <- 2, Day <- 4, ActiveFor <- 1, Limit <- 1, MaxExecutions <- 1, DailyLimit <- 1,
    HourlyLimit <- 1, MaxSessions <- 1, MaxBuckets <- 1, MaxClock <- 2
Capacity == INSTANCE RequestAdmission WITH
    Requests <- {r1, r2, r3}, Addresses <- {a1}, Kinds <- {"create"}, StoreKind <- "dynamo",
    Window <- 1, Hour <- 2, Day <- 4, ActiveFor <- 1, Limit <- 3, MaxExecutions <- 1, DailyLimit <- 1,
    HourlyLimit <- 1, MaxSessions <- 1, MaxBuckets <- 1, MaxClock <- 2
Memory == INSTANCE RequestAdmission WITH
    Requests <- {r1, r2, r3}, Addresses <- {a1, a2}, Kinds <- {"vote", "finalize"},
    StoreKind <- "memory", Window <- 2, Hour <- 2, Day <- 4, ActiveFor <- 1, Limit <- 1, MaxExecutions <- 1,
    DailyLimit <- 1, HourlyLimit <- 1, MaxSessions <- 1, MaxBuckets <- 1, MaxClock <- 2

ASSUME Instances ==
    /\ Board!CommitConstants /\ Metadata!CommitConstants
    /\ Queued!RunConstants /\ InRequest!RunConstants
    /\ Executions!AdmissionConstants /\ Votes!AdmissionConstants
    /\ Capacity!AdmissionConstants /\ Memory!AdmissionConstants

-----------------------------------------------------------------------------
Off(v) == v = None

NoCommit == /\ Off(record) /\ Off(receipt) /\ Off(counter) /\ Off(bitmap) /\ Off(result)
            /\ Off(meta) /\ Off(ballot) /\ Off(commit) /\ Off(merge)
NoRun    == /\ Off(verification) /\ Off(rollback) /\ Off(queuedMark) /\ Off(message) /\ Off(receives)
            /\ Off(rolledBack) /\ Off(verdicts) /\ Off(proc) /\ Off(crashes)
NoAdmit  == /\ Off(clock) /\ Off(events) /\ Off(counters) /\ Off(buckets) /\ Off(sessions)
            /\ Off(req) /\ Off(granted) /\ Off(executed) /\ Off(evicted)

SuiteInit ==
    /\ Init
    /\ \/ part = "ballot" /\ NoCommit /\ NoRun /\ NoAdmit
       \/ /\ NoRun /\ NoAdmit
          /\ \/ part = "board" /\ Board!Init
             \/ part = "metadata" /\ Metadata!Init
       \/ /\ NoCommit /\ NoAdmit
          /\ \/ part = "queued" /\ Queued!Init
             \/ part = "in request" /\ InRequest!Init
       \/ /\ NoCommit /\ NoRun
          /\ \/ part = "executions" /\ Executions!Init
             \/ part = "votes" /\ Votes!Init
             \/ part = "capacity" /\ Capacity!Init
             \/ part = "memory" /\ Memory!Init

SuiteNext ==
    \/ part = "ballot" /\ Next /\ UNCHANGED <<part, commitVars, runVars, admitVars>>
    \/ /\ \/ part = "board" /\ Board!Next
          \/ part = "metadata" /\ Metadata!Next
       /\ UNCHANGED <<part, vars, runVars, admitVars>>
    \/ /\ \/ part = "queued" /\ Queued!Next
          \/ part = "in request" /\ InRequest!Next
       /\ UNCHANGED <<part, vars, commitVars, admitVars>>
    \/ /\ \/ part = "executions" /\ Executions!Next
          \/ part = "votes" /\ Votes!Next
          \/ part = "capacity" /\ Capacity!Next
          \/ part = "memory" /\ Memory!Next
       /\ UNCHANGED <<part, vars, commitVars, runVars>>

SuiteSpec == SuiteInit /\ [][SuiteNext]_allVars

-----------------------------------------------------------------------------
\* Committing a success is all or nothing and happens once: the board's indexes
\* are dense although two sessions take them from one counter, receipt, bitmap,
\* verification and metadata follow the record, a replay is told what is stored,
\* and a conflict, a premature answer or a contention is told only when there
\* was one (commitSuccessfulFinalization, mergeFinalizationMetadata).
CommitsSound ==
    /\ [](part = "board" =>
            /\ Board!TypeOK /\ Board!BoardDense /\ Board!EvidenceFollowsRecord
            /\ Board!ConflictIsReal /\ Board!PrematureMeansOvertaken /\ Board!ContentionIsReal)
    /\ [](part = "metadata" => Metadata!MetadataKept /\ Metadata!ToldIsStored)
    /\ [][part = "metadata" => Metadata!PublicationImmutable]_allVars

\* A verification result comes from a verifier run, survives every later write
\* but a rollback, and until a rollback a record running behind the queued marker
\* has a message on its way or used up (startVerificationRun, processVerificationWork).
RunsSound ==
    /\ [](part = "queued" =>
            Queued!TypeOK /\ Queued!ResultWasVerified /\ Queued!RunningIsResumable)
    /\ [](part = "in request" => InRequest!TypeOK /\ InRequest!ResultWasVerified)
    /\ [][/\ part = "queued" => Queued!StickyUnlessRolledBack
          /\ part = "in request" => InRequest!StickyUnlessRolledBack]_allVars

\* What each limit of the admission promises: the shared store grants no window more
\* than its limit, the in-memory one at most twice that at the seam of two of its own
\* windows, an answered execution is in the counters, and the number of sessions is
\* passed only by a race (consumeEventWindow, consume, recordFinalizeRateLimit,
\* createSession).
LimitsHold ==
    /\ [](part = "executions" => Executions!TypeOK /\ Executions!AnsweredIsCounted)
    /\ [](part = "votes" => Votes!TypeOK /\ Votes!ConsumeLimitHolds)
    /\ [](part = "memory" => Memory!TypeOK /\ Memory!MemoryLimitHolds)
    /\ [][part = "capacity" => Capacity!OnlyRacesExceedCapacity]_allVars

\* The admitted requests are alike, those of a verification, and the openings, of which
\* no property names one; so are the submissions, and the commits that are made twice.
\* Some of them are the same values, of which no part has two kinds.
Symmetry == Permutations({r1, r2, r3}) \cup Permutations({c1, c2})

=============================================================================

------------------------- MODULE FinalizationPolicy -------------------------
(***************************************************************************)
(* The finalization transition policy: which lifecycle command may replace *)
(* the current finalization record of a session, and by what.  It is the   *)
(* pure function evaluateFinalizationTransition of                         *)
(* packages/application/src/finalize/finalization-transition-policy.ts;    *)
(* every store applies it to the record it has just read.                  *)
(*                                                                         *)
(* A record keeps what the lifecycle distinguishes: the finalization id,   *)
(* the status, the three times of the status, the error code of a failure  *)
(* and the scenario context.  The proof result travels with the status     *)
(* succeeded and with no other (buildNextRecord attaches it exactly then), *)
(* so the status stands for its presence.  The session id, the message of  *)
(* an error and the shape checks on malformed input are left out.          *)
(***************************************************************************)
EXTENDS Integers

CONSTANTS
    Fids,           \* finalization ids
    Scenarios,      \* scenario contexts
    Codes,          \* error codes of failed finalizations
    NoScenario,     \* scenarioContext absent from a command
    NoRecord        \* the session has no current finalization record

NoTime == -1
NoCode == "none"

Statuses == {"pending", "running", "succeeded", "failed", "timeout"}
TerminalStatuses == {"succeeded", "failed", "timeout"}
Kinds == {"queue", "start", "succeed", "fail", "time_out", "cancel"}

FinalizationRecord ==
    [fid : Fids, status : Statuses, queuedAt : Nat,
     startedAt : Nat \cup {NoTime}, endedAt : Nat \cup {NoTime},
     code : Codes \cup {NoCode}, scenario : Scenarios]

\* `at' is completedAtMs, failedAtMs or timeoutAtMs of the commands that end a
\* finalization and unused by queue and start; resultOk says whether a succeed
\* command carries a result with a journal.
FinalizationCommand ==
    [kind : Kinds, fid : Fids, queuedAt : Nat,
     startedAt : Nat \cup {NoTime}, at : Nat,
     code : Codes \cup {NoCode}, scenario : Scenarios \cup {NoScenario},
     resultOk : BOOLEAN]

ASSUME PolicyConstants ==
    /\ NoScenario \notin Scenarios
    /\ NoRecord \notin FinalizationRecord
    /\ "USER_CANCELLED" \in Codes
    /\ NoCode \notin Codes

-----------------------------------------------------------------------------
\* Admission of a command by itself (admitCommand and the per-kind functions).

hasValidStartedAt(cmd) == cmd.startedAt # NoTime /\ cmd.startedAt >= cmd.queuedAt

hasValidOptionalStartedAt(cmd) == cmd.startedAt = NoTime \/ hasValidStartedAt(cmd)

hasValidTerminalAt(cmd) ==
    cmd.at >= (IF cmd.startedAt = NoTime THEN cmd.queuedAt ELSE cmd.startedAt)

admitCommand(cmd) ==
    \/ cmd.kind = "queue" /\ cmd.scenario # NoScenario
    \/ cmd.kind = "start" /\ hasValidStartedAt(cmd)
    \/ cmd.kind = "succeed" /\ hasValidStartedAt(cmd) /\ hasValidTerminalAt(cmd)
    \/ /\ cmd.kind \in {"fail", "time_out", "cancel"}
       /\ hasValidOptionalStartedAt(cmd)
       /\ hasValidTerminalAt(cmd)

requestedFinalizationStatus(cmd) ==
    CASE cmd.kind = "queue"              -> "pending"
      [] cmd.kind = "start"              -> "running"
      [] cmd.kind = "succeed"            -> "succeeded"
      [] cmd.kind \in {"fail", "cancel"} -> "failed"
      [] cmd.kind = "time_out"           -> "timeout"

-----------------------------------------------------------------------------
\* The command against the record it would replace.

isTerminal(cur) == cur # NoRecord /\ cur.status \in TerminalStatuses

isUnfinished(cur) == cur # NoRecord /\ cur.status \in {"pending", "running"}

isCurrentCancellable(cur, fid) == isUnfinished(cur) /\ cur.fid = fid

\* Faulty variant: only a success is final.
isStickySuccess(cur, cmd) ==
    cmd.kind # "cancel" /\ isTerminal(cur) /\ cur.fid = cmd.fid /\ cur.status = "succeeded"

\* A terminal record of the same finalization decides every command but cancel.
isSticky(cur, cmd) == cmd.kind # "cancel" /\ isTerminal(cur) /\ cur.fid = cmd.fid

\* The scenario context of the next record: the command's own or the stored one.
nextScenario(cur, cmd) ==
    IF cmd.scenario # NoScenario THEN cmd.scenario
    ELSE IF cur = NoRecord THEN NoScenario ELSE cur.scenario

nextRecord(cur, cmd) ==
    [fid       |-> cmd.fid,
     status    |-> requestedFinalizationStatus(cmd),
     queuedAt  |-> cmd.queuedAt,
     startedAt |-> IF cmd.kind = "queue" THEN NoTime ELSE cmd.startedAt,
     endedAt   |-> IF cmd.kind \in {"queue", "start"} THEN NoTime ELSE cmd.at,
     code      |-> CASE cmd.kind = "cancel" -> "USER_CANCELLED"
                     [] cmd.kind = "fail"   -> cmd.code
                     [] OTHER               -> NoCode,
     scenario  |-> nextScenario(cur, cmd)]

isRejected(cur, cmd) ==
    /\ admitCommand(cmd)
    /\ \/ cmd.kind = "cancel" /\ ~isCurrentCancellable(cur, cmd.fid)
       \/ isSticky(cur, cmd) /\ cur.status # requestedFinalizationStatus(cmd)
       \/ cur # NoRecord /\ cur.fid # cmd.fid

\* A retry that changes nothing: the same terminal status, or the very same
\* pending or running record.
isIdempotent(cur, cmd) ==
    /\ admitCommand(cmd)
    /\ ~isRejected(cur, cmd)
    /\ \/ isSticky(cur, cmd)
       \/ isUnfinished(cur) /\ cur = nextRecord(cur, cmd)

isInvalid(cur, cmd) ==
    \/ ~admitCommand(cmd)
    \/ /\ ~isRejected(cur, cmd)
       /\ ~isSticky(cur, cmd)
       /\ \/ cmd.kind = "succeed" /\ ~cmd.resultOk
          \/ nextScenario(cur, cmd) = NoScenario

isApplied(cur, cmd) ==
    ~isInvalid(cur, cmd) /\ ~isRejected(cur, cmd) /\ ~isIdempotent(cur, cmd)

-----------------------------------------------------------------------------
\* A record's times are in order and it has exactly those its status requires.
Chronological(r) ==
    /\ r.startedAt # NoTime => r.startedAt >= r.queuedAt
    /\ r.endedAt # NoTime => /\ r.endedAt >= r.queuedAt
                             /\ r.startedAt # NoTime => r.endedAt >= r.startedAt
    /\ r.status = "pending" => r.startedAt = NoTime
    /\ r.status \in {"running", "succeeded"} => r.startedAt # NoTime
    /\ r.status \in TerminalStatuses <=> r.endedAt # NoTime

=============================================================================

---------------------- MODULE FinalizationPolicy_proofs ---------------------
(***************************************************************************)
(* What the transition policy guarantees of every command and every        *)
(* record: the lemmas that the proofs about the store and about the        *)
(* asynchronous finalization rest on.                                      *)
(***************************************************************************)
EXTENDS FinalizationPolicy, TLAPS

RecordOrNone == FinalizationRecord \cup {NoRecord}

\* The status a command asks for is one of the five.
LEMMA RequestedStatus ==
    ASSUME NEW m \in FinalizationCommand
    PROVE  requestedFinalizationStatus(m) \in Statuses
BY DEF FinalizationCommand, Kinds, requestedFinalizationStatus, Statuses

\* A command that applies has a scenario context for the record it makes.
LEMMA AppliedScenario ==
    ASSUME NEW r \in RecordOrNone, NEW m \in FinalizationCommand,
           isApplied(r, m)
    PROVE  nextScenario(r, m) \in Scenarios
<1>1. nextScenario(r, m) \in Scenarios \cup {NoScenario}
  BY DEF nextScenario, RecordOrNone, FinalizationRecord, FinalizationCommand
<1>2. nextScenario(r, m) # NoScenario
  BY DEF isApplied, isInvalid, isIdempotent
<1> QED BY <1>1, <1>2

\* nextRecord builds a record whenever the scenario context is there.
LEMMA NextRecordType ==
    ASSUME NEW r \in RecordOrNone, NEW m \in FinalizationCommand,
           nextScenario(r, m) \in Scenarios, m.kind = "fail" => m.code \in Codes
    PROVE  nextRecord(r, m) \in FinalizationRecord
BY RequestedStatus, PolicyConstants
   DEF nextRecord, FinalizationRecord, FinalizationCommand, Kinds, NoTime, NoCode

\* The record of a command carries the command's id, the times and the status
\* asked for.
LEMMA NextRecordFields ==
    ASSUME NEW r, NEW m
    PROVE  /\ nextRecord(r, m).fid = m.fid
           /\ nextRecord(r, m).status = requestedFinalizationStatus(m)
           /\ nextRecord(r, m).queuedAt = m.queuedAt
           /\ nextRecord(r, m).startedAt = IF m.kind = "queue" THEN NoTime ELSE m.startedAt
           /\ nextRecord(r, m).scenario = nextScenario(r, m)
BY DEF nextRecord

\* What applies to a record applies to an unfinished one of the same id.
LEMMA AppliedToUnfinished ==
    ASSUME NEW r \in FinalizationRecord, NEW m \in FinalizationCommand,
           isApplied(r, m)
    PROVE  r.fid = m.fid /\ isUnfinished(r)
BY PolicyConstants
   DEF isApplied, isInvalid, isRejected, isIdempotent, isSticky, isTerminal, isUnfinished,
       isCurrentCancellable,
       FinalizationRecord, Statuses, TerminalStatuses

\* A command without a scenario of its own changes nothing where there is no
\* record.
LEMMA NotAppliedToNothing ==
    ASSUME NEW m, m.scenario = NoScenario
    PROVE  ~isApplied(NoRecord, m)
BY DEF isApplied, isInvalid, isIdempotent, isSticky, nextScenario, isTerminal

\* An admitted command that ends a finalization ends an unfinished one of its id.
LEMMA EndingApplies ==
    ASSUME NEW r \in FinalizationRecord, NEW m \in FinalizationCommand,
           isUnfinished(r), r.fid = m.fid, admitCommand(m),
           m.kind \in {"succeed", "fail", "time_out", "cancel"},
           m.kind = "succeed" => m.resultOk
    PROVE  isApplied(r, m)
<1>1. r # NoRecord /\ r.scenario \in Scenarios /\ r.status \in {"pending", "running"}
  BY PolicyConstants DEF isUnfinished, FinalizationRecord
<1>2. nextScenario(r, m) # NoScenario
  BY <1>1, PolicyConstants DEF nextScenario
<1>3. ~isSticky(r, m)
  BY <1>1 DEF isSticky, isTerminal, TerminalStatuses
<1>4. ~isRejected(r, m)
  BY <1>3 DEF isRejected, isCurrentCancellable
<1>5. requestedFinalizationStatus(m) \in TerminalStatuses
  BY DEF requestedFinalizationStatus, TerminalStatuses
<1>6. nextRecord(r, m) # r
  BY <1>1, <1>5, NextRecordFields DEF TerminalStatuses
<1>7. ~isIdempotent(r, m)
  BY <1>3, <1>6 DEF isIdempotent
<1>8. ~isInvalid(r, m)
  BY <1>2 DEF isInvalid
<1> QED BY <1>4, <1>7, <1>8 DEF isApplied

\* A queue command starts a record where there is none.
LEMMA QueueApplies ==
    ASSUME NEW m \in FinalizationCommand, m.kind = "queue", m.scenario # NoScenario
    PROVE  isApplied(NoRecord, m)
BY DEF isApplied, isInvalid, isRejected, isIdempotent, isSticky, isTerminal, isUnfinished,
       nextScenario, admitCommand

=============================================================================

------------------------- MODULE FinalizationStore --------------------------
(***************************************************************************)
(* The DynamoDB store of one session's finalization, and the calls that    *)
(* run against it: the revisioned transition coordinator                   *)
(* (coordinateFinalizationTransition over DynamoSessionStore) and the      *)
(* successful commit (markAwsFinalizationSucceeded).                       *)
(*                                                                         *)
(* The table holds a pointer to the current finalization and one record    *)
(* item per finalization id; both carry a revision and are always written  *)
(* in one transaction.  A call is a sequence of separate requests: read    *)
(* the pointer, read the record it names, read the voting item for the TTL *)
(* plan, write conditionally; a failed condition leads to a reload and a   *)
(* bounded number of retries.  Between any two requests every other call,  *)
(* touchSession and the expiry of items may intervene.                     *)
(*                                                                         *)
(* A call that never takes its next step is a Lambda invocation that died. *)
(***************************************************************************)
EXTENDS FinalizationPolicy

CONSTANTS
    Clients,        \* calls into the store, each made once
    Commands,       \* the lifecycle commands they may carry
    NoItem,         \* the key is absent from the table
    StaleRetryLimit,    \* staleRetryLimit of the coordinator (2 in the store)
    CommitAttempts,     \* MAX_CONDITIONAL_RETRIES of the commit (3)
    MaxTouches      \* bound: writes of the voting item by other requests

\* Items of the table: the pointer to the current finalization and the records.
Pointer == [fid : Fids, rev : Nat, expired : BOOLEAN]
Item == [rec : FinalizationRecord, rev : Nat]

ASSUME StoreConstants ==
    /\ Commands \subseteq FinalizationCommand
    /\ \A m \in Commands : m.kind # "queue" => m.scenario = NoScenario
    /\ \A m \in Commands : m.kind = "fail" => m.code \in Codes
    /\ StaleRetryLimit \in Nat
    /\ CommitAttempts \in Nat \ {0}
    /\ MaxTouches \in Nat
    /\ NoItem \notin Pointer
    /\ NoItem \notin Item

VARIABLES
    pointer,        \* FINALIZATION_CURRENT item, or NoItem
    item,           \* FINALIZATION item of each id, or NoItem
    session,        \* identity and voting items: live, expired or deleted
    votingRev,      \* revision of the voting item
    used,           \* ids that a queue command has carried
    client          \* local state of each call

vars == <<pointer, item, session, votingRev, used, client>>

-----------------------------------------------------------------------------
\* Local state of a call.

Goals == {"transition", "reload", "prepare", "commit"}
Pcs == {"idle", "pointer", "record", "ttl", "write", "done"}
Results == {"none", "applied", "already_applied", "rejected", "invalid", "stale",
            "missing", "invalid_record", "persistence_failure", "retained"}

Call ==
    [pc : Pcs, goal : Goals, cmd : Commands \cup {NoItem},
     ptr : Pointer \cup {NoItem},                    \* pointer read last
     cur : FinalizationRecord \cup {NoRecord},       \* authority loaded last
     next : FinalizationRecord \cup {NoRecord},      \* record to write
     vrev : Nat, tries : Nat, result : Results,
     told : FinalizationRecord \cup {NoRecord}]      \* record given to the caller

Idle ==
    [pc |-> "idle", goal |-> "transition", cmd |-> NoItem, ptr |-> NoItem,
     cur |-> NoRecord, next |-> NoRecord, vrev |-> 0, tries |-> 0,
     result |-> "none", told |-> NoRecord]

Returned(k, result, told) ==
    [Idle EXCEPT !.pc = "done", !.cmd = k.cmd, !.result = result, !.told = told]

Reading(k, goal) == [k EXCEPT !.pc = "pointer", !.goal = goal]

\* What the table holds as the session's current finalization, expired or not.
Current ==
    IF pointer = NoItem THEN NoRecord
    ELSE IF item[pointer.fid] = NoItem THEN NoRecord
    ELSE item[pointer.fid].rec

InFlight(c) == client[c].pc \notin {"idle", "done"}

-----------------------------------------------------------------------------
\* What a call does with the authority it has loaded: p is the pointer it read
\* (NoItem when absent or expired) and cur the record.

\* The coordinator evaluates the policy and goes on only to apply.
AfterTransitionLoad(k, p, cur) ==
    IF isApplied(cur, k.cmd)
    THEN [k EXCEPT !.pc = "ttl", !.ptr = p, !.cur = cur, !.next = nextRecord(cur, k.cmd)]
    ELSE CASE isIdempotent(cur, k.cmd) -> Returned(k, "already_applied", cur)
           [] isRejected(cur, k.cmd)   -> Returned(k, "rejected", cur)
           [] OTHER                    -> Returned(k, "invalid", NoRecord)

\* Faulty variants: any record of the same finalization counts as this write,
\* and conflicts are not counted.
AfterReloadSameId(k, cur) ==
    IF cur # NoRecord /\ cur.fid = k.next.fid THEN Returned(k, "already_applied", cur)
    ELSE IF k.tries + 1 > StaleRetryLimit
         THEN Returned(k, "stale", cur)
         ELSE Reading([k EXCEPT !.tries = @ + 1], "transition")

AfterReloadUncounted(k, cur) ==
    IF cur = k.next THEN Returned(k, "already_applied", cur) ELSE Reading(k, "transition")

\* After a failed condition the write is compared with what is stored now.
AfterReload(k, cur) ==
    IF cur = k.next THEN Returned(k, "already_applied", cur)
    ELSE IF k.tries + 1 > StaleRetryLimit
         THEN Returned(k, "stale", cur)
         ELSE Reading([k EXCEPT !.tries = @ + 1], "transition")

\* markAwsFinalizationSucceeded: another id or a failure is retained; without a
\* record there is no scenario context and no valid succeeded record.
AfterPrepareLoad(k, cur) ==
    IF cur = NoRecord \/ ~admitCommand(k.cmd) \/ ~k.cmd.resultOk
    THEN Returned(k, "invalid", NoRecord)
    ELSE IF cur.fid # k.cmd.fid \/ cur.status \in {"failed", "timeout"}
         THEN Returned(k, "retained", cur)
         ELSE Reading([k EXCEPT !.next = nextRecord(cur, k.cmd)], "commit")

\* assertSuccessfulFinalizationLifecycleAdmission
commitAdmits(next, cur) ==
    \/ cur = NoRecord
    \/ /\ cur.fid = next.fid
       /\ \/ cur.status = "succeeded"
          \/ /\ cur.status \in {"pending", "running"}
             /\ cur.queuedAt = next.queuedAt
             /\ cur.scenario = next.scenario
             /\ cur.status = "running" => cur.startedAt = next.startedAt

\* A replay of a committed success must match it exactly.
AfterCommitLoad(k, p, cur) ==
    IF ~commitAdmits(k.next, cur) THEN Returned(k, "invalid", NoRecord)
    ELSE IF cur # NoRecord /\ isTerminal(cur)
         THEN IF cur = k.next THEN Returned(k, "already_applied", cur)
                              ELSE Returned(k, "invalid", NoRecord)
         ELSE [k EXCEPT !.pc = "ttl", !.ptr = p, !.cur = cur]

AfterLoad(k, p, cur) ==
    CASE k.goal = "transition" -> AfterTransitionLoad(k, p, cur)
      [] k.goal = "reload"     -> AfterReload(k, cur)
      [] k.goal = "prepare"    -> AfterPrepareLoad(k, cur)
      [] k.goal = "commit"     -> AfterCommitLoad(k, p, cur)

\* A conditional failure: the coordinator reloads, the commit tries again.
AfterConflict(k) ==
    IF k.goal = "transition" THEN Reading(k, "reload")
    ELSE IF k.tries + 1 = CommitAttempts
         THEN Returned(k, "persistence_failure", NoRecord)
         ELSE Reading([k EXCEPT !.tries = @ + 1], "commit")

-----------------------------------------------------------------------------
Init ==
    /\ pointer = NoItem
    /\ item = [f \in Fids |-> NoItem]
    /\ session = "live"
    /\ votingRev = 0
    /\ used = {}
    /\ client = [c \in Clients |-> Idle]

\* A request, callback or sweep issues its command.  Ids of queue commands are
\* fresh (createFinalizationId).
Begin(c) ==
    /\ client[c].pc = "idle"
    /\ \E m \in Commands :
        /\ m.kind = "queue" => m.fid \notin used
        /\ used' = IF m.kind = "queue" THEN used \cup {m.fid} ELSE used
        /\ client' = [client EXCEPT ![c] =
                        Reading([@ EXCEPT !.cmd = m],
                                IF m.kind = "succeed" THEN "prepare" ELSE "transition")]
    /\ UNCHANGED <<pointer, item, session, votingRev>>

\* loadFinalizationLifecycle, first request: session identity and pointer.
ReadPointer(c) ==
    /\ client[c].pc = "pointer"
    /\ client' = [client EXCEPT ![c] =
           IF session # "live" THEN Returned(@, "missing", NoRecord)
           ELSE IF pointer = NoItem \/ (pointer # NoItem /\ pointer.expired)
                THEN AfterLoad(@, NoItem, NoRecord)
                ELSE [@ EXCEPT !.pc = "record", !.ptr = pointer]]
    /\ UNCHANGED <<pointer, item, session, votingRev, used>>

\* The pointer read and the record found agree on the revision.
recordMatches(p) == item[p.fid] # NoItem /\ item[p.fid].rev = p.rev

\* loadFinalizationLifecycle, second request: the record the pointer named.
ReadRecord(c) ==
    /\ client[c].pc = "record"
    /\ client' = [client EXCEPT ![c] =
           IF recordMatches(@.ptr)
           THEN AfterLoad(@, @.ptr, item[@.ptr.fid].rec)
           ELSE Returned(@, "invalid_record", NoRecord)]
    /\ UNCHANGED <<pointer, item, session, votingRev, used>>

\* buildArtifactTtlUpdatePlan reads the voting item the write will condition on.
ReadTtl(c) ==
    /\ client[c].pc = "ttl"
    /\ client' = [client EXCEPT ![c] =
           IF session = "live" THEN [@ EXCEPT !.pc = "write", !.vrev = votingRev]
           ELSE Returned(@, "persistence_failure", NoRecord)]
    /\ UNCHANGED <<pointer, item, session, votingRev, used>>

\* Faulty variant: the pointer is checked for its id and not for its revision.
writeConditionIdOnly(k) ==
    /\ session # "deleted"
    /\ votingRev = k.vrev
    /\ IF k.ptr = NoItem
       THEN pointer = NoItem /\ item[k.cmd.fid] = NoItem
       ELSE pointer # NoItem /\ pointer.fid = k.ptr.fid

\* Condition expressions of the transaction.
writeCondition(k) ==
    /\ session # "deleted"
    /\ votingRev = k.vrev
    /\ IF k.ptr = NoItem
       THEN pointer = NoItem /\ item[k.cmd.fid] = NoItem
       ELSE /\ pointer # NoItem
            /\ pointer.rev = k.ptr.rev
            /\ pointer.fid = k.ptr.fid
            /\ item[k.cmd.fid] # NoItem
            /\ item[k.cmd.fid].rev = k.ptr.rev

\* Faulty variants: only the record's revision advances, or neither does.
writeEffectRecordOnly(k) ==
    LET rev == IF k.ptr = NoItem THEN 1 ELSE k.ptr.rev + 1
    IN  /\ pointer' = [fid |-> k.cmd.fid, rev |-> 1, expired |-> FALSE]
        /\ item' = [item EXCEPT ![k.cmd.fid] = [rec |-> k.next, rev |-> rev]]
        /\ session' = "live"
        /\ UNCHANGED <<votingRev, used>>

writeEffectSameRevision(k) ==
    LET rev == IF k.ptr = NoItem THEN 1 ELSE k.ptr.rev
    IN  /\ pointer' = [fid |-> k.cmd.fid, rev |-> rev, expired |-> FALSE]
        /\ item' = [item EXCEPT ![k.cmd.fid] = [rec |-> k.next, rev |-> rev]]
        /\ session' = "live"
        /\ UNCHANGED <<votingRev, used>>

\* Pointer, record and TTL updates of one transaction.
writeEffect(k) ==
    LET rev == IF k.ptr = NoItem THEN 1 ELSE k.ptr.rev + 1
    IN  /\ pointer' = [fid |-> k.cmd.fid, rev |-> rev, expired |-> FALSE]
        /\ item' = [item EXCEPT ![k.cmd.fid] = [rec |-> k.next, rev |-> rev]]
        /\ session' = "live"
        /\ UNCHANGED <<votingRev, used>>

Write(c) ==
    /\ client[c].pc = "write"
    /\ writeCondition(client[c])
    /\ writeEffect(client[c])
    /\ client' = [client EXCEPT ![c] = Returned(@, "applied", @.next)]

\* The transaction commits and its response is lost.
WriteLost(c) ==
    /\ client[c].pc = "write"
    /\ writeCondition(client[c])
    /\ writeEffect(client[c])
    /\ client' = [client EXCEPT ![c] = Returned(@, "persistence_failure", NoRecord)]

WriteConflict(c) ==
    /\ client[c].pc = "write"
    /\ ~writeCondition(client[c])
    /\ client' = [client EXCEPT ![c] = AfterConflict(@)]
    /\ UNCHANGED <<pointer, item, session, votingRev, used>>

\* A read that fails, or a cancellation that is not purely conditional
\* (throttling, a transaction conflict): nothing is written, the call gives up.
RequestError(c) ==
    /\ InFlight(c)
    /\ client' = [client EXCEPT ![c] = Returned(@, "persistence_failure", NoRecord)]
    /\ UNCHANGED <<pointer, item, session, votingRev, used>>

\* touchSession and vote writes by other requests of the session: they extend
\* the session and not the finalization.
TouchSession ==
    /\ session = "live"
    /\ votingRev < MaxTouches
    /\ votingRev' = votingRev + 1
    /\ UNCHANGED <<pointer, item, session, used, client>>

\* The artifact TTL of the current finalization runs out.
ExpirePointer ==
    /\ pointer # NoItem
    /\ ~pointer.expired
    /\ pointer' = [pointer EXCEPT !.expired = TRUE]
    /\ UNCHANGED <<item, session, votingRev, used, client>>

\* A finalization write extends the session at least as far as the pointer.
ExpireSession ==
    /\ session = "live"
    /\ pointer = NoItem \/ (pointer # NoItem /\ pointer.expired)
    /\ session' = "expired"
    /\ UNCHANGED <<pointer, item, votingRev, used, client>>

\* DynamoDB removes expired items one by one, long after they expire: no call
\* that could have read them before is still running.
Drained == \A c \in Clients : ~InFlight(c)

DeletePointer ==
    /\ Drained
    /\ pointer # NoItem
    /\ pointer.expired
    /\ pointer' = NoItem
    /\ UNCHANGED <<item, session, votingRev, used, client>>

DeleteItem ==
    /\ Drained
    /\ \E f \in Fids :
        /\ item[f] # NoItem
        /\ pointer # NoItem => pointer.fid # f \/ pointer.expired
        /\ item' = [item EXCEPT ![f] = NoItem]
    /\ UNCHANGED <<pointer, session, votingRev, used, client>>

DeleteSession ==
    /\ Drained
    /\ session = "expired"
    /\ session' = "deleted"
    /\ UNCHANGED <<pointer, item, votingRev, used, client>>

Step(c) ==
    \/ ReadPointer(c) \/ ReadRecord(c) \/ ReadTtl(c)
    \/ Write(c) \/ WriteLost(c) \/ WriteConflict(c) \/ RequestError(c)

Environment ==
    \/ TouchSession \/ ExpirePointer \/ ExpireSession
    \/ DeletePointer \/ DeleteItem \/ DeleteSession

Next == (\E c \in Clients : Begin(c) \/ Step(c)) \/ Environment

Spec == Init /\ [][Next]_vars

\* A Lambda invocation that is not killed takes its next step.
FairSpec == Spec /\ \A c \in Clients : WF_vars(Step(c))

-----------------------------------------------------------------------------
TypeOK ==
    /\ pointer \in Pointer \cup {NoItem}
    /\ item \in [Fids -> Item \cup {NoItem}]
    /\ session \in {"live", "expired", "deleted"}
    /\ votingRev \in Nat
    /\ used \subseteq Fids
    /\ client \in [Clients -> Call]

\* The pointer and the record it names carry one revision, and the record of a
\* pointer that readers still see is there: whatever calls race, no
\* transaction leaves the pair loadFinalizationLifecycle would refuse.
PointerRecordAgree ==
    pointer # NoItem =>
        IF item[pointer.fid] = NoItem THEN pointer.expired
        ELSE /\ item[pointer.fid].rev = pointer.rev
             /\ item[pointer.fid].rec.fid = pointer.fid

\* A caller that was told how a finalization ended was told the outcome that
\* the table holds, now and until the record is forgotten: no later call,
\* retry or late callback replaces it.
ToldOutcomeIsFinal ==
    \A c \in Clients :
        LET k == client[c]
        IN  k.pc = "done" /\ isTerminal(k.told) =>
                item[k.told.fid] = NoItem \/ item[k.told.fid].rec = k.told

\* A call that was told its command was applied, or had been, is told a record
\* of its own finalization in the status it asked for.
ToldWhatWasAsked ==
    \A c \in Clients :
        LET k == client[c]
        IN  k.result \in {"applied", "already_applied"} =>
                /\ k.told.fid = k.cmd.fid
                /\ k.told.status = requestedFinalizationStatus(k.cmd)

\* The record item found by the key of a finalization belongs to it.
ItemsOwned == \A f \in Fids : item[f] # NoItem => item[f].rec.fid = f

\* The pointer p that a call has read still names the current finalization, and
\* its record has only moved on since.
Anchored(p) ==
    /\ pointer # NoItem
    /\ pointer.fid = p.fid
    /\ item[p.fid] # NoItem
    /\ item[p.fid].rev >= p.rev

\* A call about to write: the policy applies its command to the record it has
\* loaded, and that is the stored record unless the revision has moved on.
LoadedAuthority(k) ==
    IF k.ptr = NoItem
    THEN k.goal = "transition" =>
            /\ isApplied(NoRecord, k.cmd)
            /\ k.next = nextRecord(NoRecord, k.cmd)
    ELSE /\ Anchored(k.ptr)
         /\ k.ptr.fid = k.cmd.fid
         /\ isApplied(k.cur, k.cmd)
         /\ k.next = nextRecord(k.cur, k.cmd)
         /\ item[k.ptr.fid].rev = k.ptr.rev => item[k.ptr.fid].rec = k.cur

\* A commit was prepared from a record of its own finalization, and the table
\* has not forgotten that finalization since.
PreparedCommit(k) ==
    /\ pointer # NoItem
    /\ admitCommand(k.cmd) /\ k.cmd.resultOk
    /\ \E sc \in Scenarios :
            k.next = [nextRecord(NoRecord, k.cmd) EXCEPT !.scenario = sc]

CallOK(k) ==
    /\ k.pc \notin {"idle", "done"} => k.cmd \in Commands
    /\ k.pc \notin {"idle", "done"} /\ k.goal \in {"prepare", "commit"} => k.cmd.kind = "succeed"
    /\ k.pc \notin {"idle", "done"} /\ k.goal = "commit" => PreparedCommit(k)
    /\ k.pc = "record" => k.ptr # NoItem /\ Anchored(k.ptr)
    /\ k.pc \in {"ttl", "write"} =>
            k.goal \in {"transition", "commit"} /\ LoadedAuthority(k)

\* No call acts on an authority that a later write has replaced: what it read
\* before its conditional write is either still stored or behind the revision
\* that the condition compares.
NoStaleAuthority == \A c \in Clients : CallOK(client[c])

\* The store implements the lifecycle: every step that changes the current
\* record applies one admitted command to the record then current.
Lifecycle == INSTANCE FinalizationLifecycle WITH cur <- Current

ImplementsLifecycle == Lifecycle!Spec

\* A recorded outcome is final: the current record of a finalization that
\* succeeded, failed or timed out changes only by being forgotten.
OutcomeSticky == [][isTerminal(Current) => Current' \in {Current, NoRecord}]_vars

\* Whatever clock each writer uses, no stored finalization starts before it was
\* queued or ends before it started.
RecordsChronological ==
    \A f \in Fids : item[f] # NoItem => Chronological(item[f].rec)

\* What the two tables hold is one history: the current pointer and the record
\* item it names carry the same revision, although each write is one of several
\* requests and either item may expire first, and the record's times are in order.
RecordsSound == PointerRecordAgree /\ RecordsChronological

\* A finalization that has left the queue is never queued again.
NeverQueuedAgain ==
    Current # NoRecord /\ Current.status # "pending" =>
        Current' = NoRecord \/ Current'.status # "pending"

\* What a call was told stays true whichever of success, failure, cancel and
\* timeout comes first: the outcome it was told is the one the table holds until
\* it is forgotten, an accepted command was told its own record, and a
\* finalization that has left the queue does not return to it.
AnswersHold ==
    /\ [](ToldOutcomeIsFinal /\ ToldWhatWasAsked)
    /\ [][NeverQueuedAgain]_vars

\* Every call returns, however often its conditional writes fail.
CallsReturn == \A c \in Clients : InFlight(c) ~> client[c].pc = "done"

\* The store reports a corrupted record only when it holds one.
NoFalseCorruption ==
    \A c \in Clients : client[c].result # "invalid_record"

=============================================================================

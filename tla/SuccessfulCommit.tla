-------------------------- MODULE SuccessfulCommit --------------------------
(***************************************************************************)
(* commitSuccessfulFinalization of DynamoSessionStore for several sessions *)
(* at once: the finalization record of each session, the receipt item it   *)
(* publishes, the one RECEIPT_BOARD_COUNTER all sessions share, and the    *)
(* bitmap, verification, runtime and delivery items of the finalization.   *)
(*                                                                         *)
(* A commit reads these items one request after the other and writes them  *)
(* in one transaction, conditional on everything it read.  Between the     *)
(* reads, commits of other sessions move the counter, repeated commits of  *)
(* the same session overtake, mergeRuntimeMetadata and                     *)
(* mergeDeliveryMetadata change the metadata items, a verification run     *)
(* replaces the verification result and touchSession rewrites the voting   *)
(* item.                                                                   *)
(*                                                                         *)
(* A session has one finalization here, so the pointer and the record are  *)
(* one item; FinalizationStore models the two and the expiry of items.     *)
(***************************************************************************)
EXTENDS Naturals, FiniteSets

CONSTANTS
    Sessions,
    Commits,            \* invocations that commit, each made once
    Merges,             \* invocations that merge metadata, each made once
    Request,            \* what each commit carries
    Patch,              \* what each merge carries
    NoItem,             \* the key is absent from the table
    CommitAttempts,     \* MAX_CONDITIONAL_RETRIES (3)
    MaxVerifications,   \* bound: verification results written per session
    MaxTouches          \* bound: writes of the voting item per session

\* The fields of the metadata items; the bundle fields are the ones that
\* projectRuntimeBundleDelivery copies to the delivery item.
BundleFields == {"bundle"}
Fields == BundleFields \cup {"arn", "report", "queued"}

FIRST_RECEIPT_BOARD_INDEX == 1

\* The receipt items, publications and metadata items that the instance can store.
Bodies == {Request[c].receipt : c \in Commits}
ReceiptItem == [hash : [sha256 : Bodies], index : Nat, body : Bodies]
PublicationItem == [hash : [sha256 : Bodies], index : Nat]
FieldValues ==
    UNION {{Request[c].runtime[f] : f \in DOMAIN Request[c].runtime} : c \in Commits}
    \cup UNION {{Patch[m].fields[f] : f \in DOMAIN Patch[m].fields} : m \in Merges}
FieldMap == UNION {[D -> FieldValues] : D \in SUBSET Fields}
MetadataItem == [rev : Nat, fields : FieldMap]

\* What an instance gives the constants.  The bundle fields reach the runtime item
\* with the commit only.
CommitConstants ==
    /\ NoItem \notin Nat \cup ReceiptItem \cup PublicationItem \cup MetadataItem
    /\ \A c \in Commits :
        /\ Request[c].session \in Sessions
        /\ {"record", "receipt", "verification", "bitmap"} \subseteq DOMAIN Request[c]
        /\ Request[c].runtime \in FieldMap
    /\ \A m \in Merges :
        /\ Patch[m].session \in Sessions
        /\ Patch[m].item \in {"runtime", "delivery"}
        /\ Patch[m].fields \in FieldMap
        /\ Patch[m].item = "runtime" => DOMAIN Patch[m].fields \cap BundleFields = {}
    /\ CommitAttempts \in Nat \ {0}

VARIABLES
    record,         \* finalization record: revision, outcome and publication
    receipt,        \* FINALIZATION_RECEIPT item of each session, or NoItem
    counter,        \* nextBoardIndex of RECEIPT_BOARD_COUNTER, or NoItem
    bitmap,         \* FINALIZATION_BITMAP item, or NoItem
    verification,   \* VERIFICATION_RESULT item, or NoItem
    meta,           \* runtime and delivery metadata items of each session
    voting,         \* revision of the voting item, which the TTL plan updates
    call,           \* local state of each commit
    merge           \* local state of each merge

table == <<record, receipt, counter, bitmap, verification, meta, voting>>
vars == <<record, receipt, counter, bitmap, verification, meta, voting, call, merge>>

-----------------------------------------------------------------------------
\* Operators of the code on the items.

Empty == [f \in {} |-> 0]

\* mergeFinalizationRuntimeMetadata: the patch wins field by field.
mergeMetadata(current, patch) ==
    LET old == IF current = NoItem THEN Empty ELSE current.fields
    IN  [f \in DOMAIN patch \cup DOMAIN old |-> IF f \in DOMAIN patch THEN patch[f] ELSE old[f]]

\* The delivery fields a runtime update publishes; none without bundle fields.
projectRuntimeBundleDelivery(fields) ==
    [f \in DOMAIN fields \cap BundleFields |-> fields[f]]

computeSuccessfulFinalizationReceiptHash(body) == [sha256 |-> body]

\* A repeated publication keeps the identity of the first.
prepareReceiptPublication(body, existing, next) ==
    IF body = NoItem THEN NoItem
    ELSE IF existing # NoItem
         THEN [hash |-> existing.hash, index |-> existing.index]
         ELSE [hash |-> computeSuccessfulFinalizationReceiptHash(body),
               index |-> next]

buildPublishedSuccessfulFinalization(rec, publication) ==
    [result |-> rec, publication |-> publication]

nextRevision(it) == IF it = NoItem THEN 1 ELSE it.rev + 1

\* What a commit asks for, given the items it has loaded.
Publication(k, q) ==
    prepareReceiptPublication(q.receipt, k.receipt,
        IF k.counter = NoItem THEN FIRST_RECEIPT_BOARD_INDEX ELSE k.counter)

RuntimeFields(k, q) ==
    IF q.runtime = Empty THEN Empty ELSE mergeMetadata(k.runtime, q.runtime)

DeliveryFields(k, q) ==
    LET patch == projectRuntimeBundleDelivery(RuntimeFields(k, q))
    IN  IF patch = Empty THEN Empty ELSE mergeMetadata(k.delivery, patch)

\* Replays must match what the first commit stored; what the request leaves
\* out is not compared.
assertSuccessfulFinalizationReplay(k, q) ==
    /\ k.record.outcome =
            buildPublishedSuccessfulFinalization(q.record, Publication(k, q))
    /\ IF k.receipt = NoItem THEN q.receipt = NoItem ELSE k.receipt.body = q.receipt
    /\ k.bitmap = q.bitmap
    /\ q.verification # NoItem =>
            k.verification # NoItem /\ k.verification.result = q.verification
    /\ RuntimeFields(k, q) # Empty =>
            k.runtime # NoItem /\ k.runtime.fields = RuntimeFields(k, q)
    /\ DeliveryFields(k, q) # Empty =>
            k.delivery # NoItem /\ k.delivery.fields = DeliveryFields(k, q)

\* Evidence of success stored before the success is not overwritten.
assertNoPrematureCommitArtifacts(k) ==
    k.bitmap = NoItem /\ k.verification = NoItem /\ k.receipt = NoItem

-----------------------------------------------------------------------------
Steps == {"record", "receipt", "counter", "runtime", "delivery", "bitmap",
          "verification", "decide", "ttl", "write"}
Results == {"none", "committed", "replayed", "stale", "uncovered", "conflict",
            "premature", "contended", "error"}

Idle == [pc |-> "idle", attempt |-> 0, result |-> "none", told |-> NoItem,
         since |-> 0, record |-> NoItem, receipt |-> NoItem, counter |-> NoItem,
         runtime |-> NoItem, delivery |-> NoItem, bitmap |-> NoItem,
         verification |-> NoItem, voting |-> 0]

IdleMerge == [pc |-> "idle", attempt |-> 0, result |-> "none", seen |-> NoItem]

Init ==
    /\ record = [s \in Sessions |-> [rev |-> 1, status |-> "running", outcome |-> NoItem]]
    /\ receipt = [s \in Sessions |-> NoItem]
    /\ counter = NoItem
    /\ bitmap = [s \in Sessions |-> NoItem]
    /\ verification = [s \in Sessions |-> NoItem]
    /\ meta = [s \in Sessions |-> [runtime |-> NoItem, delivery |-> NoItem]]
    /\ voting = [s \in Sessions |-> 0]
    /\ call = [c \in Commits |-> Idle]
    /\ merge = [m \in Merges |-> IdleMerge]

\* How often the items that a commit of session s conditions on were written:
\* the counter, the record, the metadata and the voting item.
Writes(s) ==
    (IF counter = NoItem THEN 0 ELSE counter) + record[s].rev + voting[s]
        + (nextRevision(meta[s].runtime) + nextRevision(meta[s].delivery))

\* One read of the commit, then the next step.
Read(c, step, field, value, next) ==
    /\ call[c].pc = step
    /\ call' = [call EXCEPT ![c][field] = value, ![c].pc = next]
    /\ UNCHANGED <<table, merge>>

Return(c, result, told) ==
    call' = [call EXCEPT ![c].pc = "done", ![c].result = result, ![c].told = told]

Begin(c) ==
    /\ call[c].pc = "idle"
    /\ call' = [call EXCEPT ![c].pc = "record", ![c].since = Writes(Request[c].session)]
    /\ UNCHANGED <<table, merge>>

\* loadSuccessfulCommitAuthority, with the admission of the current record.
loadSuccessfulCommitAuthority(c) ==
    LET s == Request[c].session
    IN  \/ /\ record[s].status \in {"running", "succeeded"}
           /\ Read(c, "record", "record", record[s], "receipt")
        \/ /\ call[c].pc = "record"
           /\ record[s].status \notin {"running", "succeeded"}
           /\ Return(c, "stale", NoItem)
           /\ UNCHANGED <<table, merge>>

\* loadSuccessfulCommitReceipt: the receipt item, then the counter, which must
\* cover a receipt that is there.
loadReceipt(c) ==
    LET q == Request[c]
    IN  Read(c, "receipt", "receipt", receipt[q.session],
             IF q.receipt = NoItem THEN "runtime" ELSE "counter")

loadCounter(c) ==
    LET covered == IF call[c].receipt = NoItem THEN TRUE
                   ELSE counter # NoItem /\ counter > call[c].receipt.index
    IN  \/ covered /\ Read(c, "counter", "counter", counter, "runtime")
        \/ /\ call[c].pc = "counter"
           /\ ~covered
           /\ Return(c, "uncovered", NoItem)
           /\ UNCHANGED <<table, merge>>

\* The runtime item is read only for a request that carries runtime metadata.
loadSuccessfulCommitMetadata(c) ==
    LET q == Request[c]
    IN  Read(c, "runtime", "runtime",
             IF q.runtime = Empty THEN NoItem ELSE meta[q.session].runtime,
             "delivery")

loadSuccessfulCommitDelivery(c) ==
    LET q == Request[c]
        patch == projectRuntimeBundleDelivery(RuntimeFields(call[c], q))
    IN  Read(c, "delivery", "delivery",
             IF patch = Empty THEN NoItem ELSE meta[q.session].delivery, "bitmap")

\* The two artifact items, requested together and answered one by one.
loadBitmap(c) ==
    Read(c, "bitmap", "bitmap", bitmap[Request[c].session], "verification")

loadVerification(c) ==
    Read(c, "verification", "verification", verification[Request[c].session], "decide")

\* A stored success is compared, anything else is written.
Decide(c) ==
    LET k == call[c]
        q == Request[c]
        outcome == buildPublishedSuccessfulFinalization(q.record, Publication(k, q))
    IN  /\ k.pc = "decide"
        /\ IF k.record.status = "succeeded"
           THEN IF assertSuccessfulFinalizationReplay(k, q)
                THEN Return(c, "replayed", outcome)
                ELSE Return(c, "conflict", NoItem)
           ELSE IF assertNoPrematureCommitArtifacts(k)
                THEN call' = [call EXCEPT ![c].pc = "ttl"]
                ELSE Return(c, "premature", NoItem)
        /\ UNCHANGED <<table, merge>>

\* buildArtifactTtlUpdatePlan reads the voting item it will update.
buildSuccessfulCommitTransaction(c) ==
    Read(c, "ttl", "voting", voting[Request[c].session], "write")

\* Faulty variant: the counter is not compared.
ReceiptConditionNoCounter(k, q) == q.receipt # NoItem => receipt[q.session] = NoItem

\* The conditions of the transaction.
ReceiptCondition(k, q) ==
    q.receipt # NoItem => receipt[q.session] = NoItem /\ counter = k.counter

ArtifactCondition(q) ==
    verification[q.session] = NoItem /\ bitmap[q.session] = NoItem

MetadataCondition(k, q) ==
    /\ RuntimeFields(k, q) # Empty => meta[q.session].runtime = k.runtime
    /\ DeliveryFields(k, q) # Empty => meta[q.session].delivery = k.delivery

Conditions(k, q) ==
    /\ record[q.session].rev = k.record.rev
    /\ ReceiptCondition(k, q)
    /\ ArtifactCondition(q)
    /\ MetadataCondition(k, q)
    /\ voting[q.session] = k.voting

receiptPublicationWrites(k, q) ==
    IF q.receipt = NoItem THEN UNCHANGED <<receipt, counter>>
    ELSE LET p == Publication(k, q)
         IN  /\ receipt' = [receipt EXCEPT ![q.session] =
                    [hash |-> p.hash, index |-> p.index, body |-> q.receipt]]
             /\ counter' = p.index + 1

verificationWrites(q) ==
    verification' =
        IF q.verification = NoItem THEN verification
        ELSE [verification EXCEPT ![q.session] = [result |-> q.verification, rev |-> 1]]

bitmapWrites(q) ==
    bitmap' = IF q.bitmap = NoItem THEN bitmap ELSE [bitmap EXCEPT ![q.session] = q.bitmap]

metadataWrites(k, q) ==
    LET put(old, fields) ==
            IF fields = Empty THEN old
            ELSE [rev |-> nextRevision(old), fields |-> fields]
        old == meta[q.session]
    IN  meta' = [meta EXCEPT ![q.session] =
            [runtime |-> put(old.runtime, RuntimeFields(k, q)),
             delivery |-> put(old.delivery, DeliveryFields(k, q))]]

buildSuccessfulFinalizationTransaction(k, q) ==
    LET outcome == buildPublishedSuccessfulFinalization(q.record, Publication(k, q))
    IN  /\ record' = [record EXCEPT ![q.session] =
                [rev |-> k.record.rev + 1, status |-> "succeeded", outcome |-> outcome]]
        /\ receiptPublicationWrites(k, q)
        /\ verificationWrites(q)
        /\ bitmapWrites(q)
        /\ metadataWrites(k, q)
        /\ voting' = [voting EXCEPT ![q.session] = @ + 1]

\* The transaction is applied and the caller told, or its answer is lost and the
\* caller sees an error.
WriteApplied(c) ==
    LET k == call[c]
        q == Request[c]
    IN  /\ k.pc = "write"
        /\ Conditions(k, q)
        /\ buildSuccessfulFinalizationTransaction(k, q)
        /\ \/ Return(c, "committed",
                buildPublishedSuccessfulFinalization(q.record, Publication(k, q)))
           \/ Return(c, "error", NoItem)
        /\ UNCHANGED merge

\* A failed condition restarts the attempt from the first read; the last
\* attempt's failure is thrown.
WriteRefused(c) ==
    LET k == call[c]
    IN  /\ k.pc = "write"
        /\ ~Conditions(k, Request[c])
        /\ IF k.attempt + 1 = CommitAttempts
           THEN Return(c, "contended", NoItem)
           ELSE call' = [call EXCEPT ![c] =
                    [Idle EXCEPT !.pc = "record", !.attempt = k.attempt + 1,
                                 !.since = k.since]]
        /\ UNCHANGED <<table, merge>>

-----------------------------------------------------------------------------
\* The other writers of the items.

\* mergeRuntimeMetadata and mergeDeliveryMetadata: read, merge, put at the
\* revision read.
MergeRead(m) ==
    /\ merge[m].pc \in {"idle", "read"}
    /\ merge' = [merge EXCEPT ![m].pc = "put", ![m].seen = meta[Patch[m].session][Patch[m].item]]
    /\ UNCHANGED <<table, call>>

MergePut(m) ==
    LET p == Patch[m]
        k == merge[m]
        now == meta[p.session][p.item]
    IN  /\ k.pc = "put"
        /\ IF now = k.seen
           THEN /\ meta' = [meta EXCEPT ![p.session][p.item] =
                        [rev |-> nextRevision(now),
                         fields |-> mergeMetadata(k.seen, p.fields)]]
                /\ merge' = [merge EXCEPT ![m].pc = "done", ![m].result = "merged"]
           ELSE /\ merge' = [merge EXCEPT ![m] =
                        IF k.attempt + 1 = CommitAttempts
                        THEN [k EXCEPT !.pc = "done", !.result = "contended"]
                        ELSE [k EXCEPT !.pc = "read", !.attempt = k.attempt + 1]]
                /\ UNCHANGED meta
        /\ UNCHANGED <<record, receipt, counter, bitmap, verification, voting, call>>

\* A verification run replaces the result of a succeeded finalization.
VerificationWritten(s) ==
    /\ record[s].status = "succeeded"
    /\ nextRevision(verification[s]) <= MaxVerifications
    /\ verification' = [verification EXCEPT ![s] =
            [result |-> "rerun", rev |-> nextRevision(verification[s])]]
    /\ UNCHANGED <<record, receipt, counter, bitmap, meta, voting, call, merge>>

\* A cancel, a failure callback or the reconciler ends the finalization first.
FailedElsewhere(s) ==
    /\ record[s].status = "running"
    /\ record' = [record EXCEPT ![s].status = "failed", ![s].rev = @ + 1]
    /\ UNCHANGED <<receipt, counter, bitmap, verification, meta, voting, call, merge>>

TouchSession(s) ==
    /\ voting[s] < MaxTouches
    /\ voting' = [voting EXCEPT ![s] = @ + 1]
    /\ UNCHANGED <<record, receipt, counter, bitmap, verification, meta, call, merge>>

CommitStep(c) ==
    \/ loadSuccessfulCommitAuthority(c) \/ loadReceipt(c) \/ loadCounter(c)
    \/ loadSuccessfulCommitMetadata(c) \/ loadSuccessfulCommitDelivery(c)
    \/ loadBitmap(c) \/ loadVerification(c) \/ Decide(c)
    \/ buildSuccessfulCommitTransaction(c) \/ WriteApplied(c) \/ WriteRefused(c)

MergeStep(m) == MergeRead(m) \/ MergePut(m)

Next ==
    \/ \E c \in Commits : Begin(c) \/ CommitStep(c)
    \/ \E m \in Merges : MergeStep(m)
    \/ \E s \in Sessions : VerificationWritten(s) \/ FailedElsewhere(s) \/ TouchSession(s)

Spec == Init /\ [][Next]_vars

\* A Lambda invocation that has started and is not killed takes its next step.
FairSpec ==
    /\ Spec
    /\ \A c \in Commits : WF_vars(CommitStep(c))
    /\ \A m \in Merges : WF_vars(MergeStep(m))

-----------------------------------------------------------------------------
TypeOK ==
    /\ \A s \in Sessions :
        /\ record[s].rev \in Nat
        /\ record[s].status \in {"running", "succeeded", "failed"}
        /\ receipt[s] = NoItem \/ receipt[s].index \in Nat
        /\ voting[s] \in Nat
    /\ counter = NoItem \/ counter \in Nat
    /\ \A c \in Commits :
        /\ call[c].pc \in Steps \cup {"idle", "done"}
        /\ call[c].result \in Results
        /\ call[c].attempt < CommitAttempts
    /\ \A m \in Merges : merge[m].pc \in {"idle", "read", "put", "done"}

Published == {s \in Sessions : receipt[s] # NoItem}

\* Every receipt has a place of its own on the board and the board has no gap:
\* the indexes handed out are exactly those below the counter, whichever
\* commits raced for it, failed or lost their answer.
BoardDense ==
    LET next == IF counter = NoItem THEN FIRST_RECEIPT_BOARD_INDEX ELSE counter
    IN  /\ {receipt[s].index : s \in Published} = FIRST_RECEIPT_BOARD_INDEX .. (next - 1)
        /\ Cardinality(Published) = next - FIRST_RECEIPT_BOARD_INDEX

\* The receipt item and the record of the finalization tell the same
\* publication, and there is no receipt, bitmap or verification of a
\* finalization that did not succeed.
EvidenceFollowsRecord ==
    \A s \in Sessions :
        LET told == IF record[s].status # "succeeded" THEN NoItem
                    ELSE record[s].outcome.publication
        IN  /\ IF receipt[s] = NoItem THEN told = NoItem
               ELSE told = [hash |-> receipt[s].hash, index |-> receipt[s].index]
            /\ record[s].status # "succeeded" =>
                    bitmap[s] = NoItem /\ verification[s] = NoItem

\* Every caller that is told a success is told the stored one: a retry after a
\* lost answer and a second container are given the publication of the first.
ToldIsStored ==
    \A c \in Commits :
        call[c].result \in {"committed", "replayed"} =>
            /\ record[Request[c].session].status = "succeeded"
            /\ record[Request[c].session].outcome = call[c].told

\* The fields that anyone patches in the given item of a session.
Patches(s, it, f) ==
    {Patch[m].fields[f] : m \in {m \in Merges :
        Patch[m].session = s /\ Patch[m].item = it /\ f \in DOMAIN Patch[m].fields}}
    \cup {Request[c].runtime[f] : c \in {c \in Commits :
        /\ Request[c].session = s
        /\ f \in DOMAIN Request[c].runtime
        /\ it = "runtime" \/ f \in BundleFields}}

Holds(s, it, f) ==
    /\ meta[s][it] # NoItem
    /\ f \in DOMAIN meta[s][it].fields
    /\ meta[s][it].fields[f] \in Patches(s, it, f)

\* No metadata is lost: what a merge or a commit was told to have stored stays
\* until another patch of the same field replaces it, although the runtime and
\* delivery items are rewritten whole by writers that do not know each other.
MetadataKept ==
    /\ \A m \in Merges :
        merge[m].result = "merged" =>
            \A f \in DOMAIN Patch[m].fields : Holds(Patch[m].session, Patch[m].item, f)
    /\ \A c \in Commits :
        call[c].result \in {"committed", "replayed"} =>
            \A f \in DOMAIN Request[c].runtime :
                /\ Holds(Request[c].session, "runtime", f)
                /\ f \in BundleFields => Holds(Request[c].session, "delivery", f)

\* The same success: repeating it is a replay.
SameRequest(c) ==
    LET s == Request[c].session
    IN  /\ record[s].outcome # NoItem
        /\ record[s].outcome.result = Request[c].record
        /\ (receipt[s] = NoItem) <=> (Request[c].receipt = NoItem)
        /\ receipt[s] # NoItem => receipt[s].body = Request[c].receipt
        /\ bitmap[s] = Request[c].bitmap

\* Is what the request carries beside the record still what is stored?
Overwritten(c) ==
    LET q == Request[c]
        stored(it) == IF meta[q.session][it] = NoItem THEN Empty ELSE meta[q.session][it].fields
        lost(it, f) == f \notin DOMAIN stored(it) \/ stored(it)[f] # q.runtime[f]
    IN  \/ /\ q.verification # NoItem
           /\ \/ verification[q.session] = NoItem
              \/ verification[q.session].result # q.verification
        \/ \E f \in DOMAIN q.runtime : lost("runtime", f)
        \/ \E f \in DOMAIN q.runtime \cap BundleFields : lost("delivery", f)

\* A repeated success is refused as a conflict only if the first one said
\* something else, or if the verification result or a metadata field that it
\* carries has been replaced since: no interleaving of the reads makes up a
\* conflict.
ConflictIsReal ==
    \A c \in Commits :
        call[c].result = "conflict" => ~SameRequest(c) \/ Overwritten(c)

\* "Artifacts exist before terminal authority" is always the trace of a commit
\* that overtook the reads: the table never holds such artifacts.
PrematureMeansOvertaken ==
    \A c \in Commits :
        /\ call[c].result = "premature" => record[Request[c].session].status = "succeeded"
        /\ call[c].result # "uncovered"

\* A commit gives up only after as many other writes of what it conditions on
\* as it made attempts.
ContentionIsReal ==
    \A c \in Commits :
        call[c].result = "contended" =>
            Writes(Request[c].session) >= call[c].since + CommitAttempts

\* A published receipt and the record that names it never change again.
PublicationImmutable ==
    \A s \in Sessions :
     /\ receipt[s] # NoItem => receipt'[s] = receipt[s]
     /\ record[s].status = "succeeded" => record'[s] = record[s]

\* Every commit that has started returns, whatever races it.
CommitsReturn ==
    \A c \in Commits : call[c].pc \notin {"idle", "done"} ~> call[c].pc = "done"

=============================================================================

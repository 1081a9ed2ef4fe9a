---------------------- MODULE SuccessfulCommit_proofs ----------------------
(***************************************************************************)
(* Proofs about SuccessfulCommit, for any number of sessions, commits and  *)
(* merges, whatever they carry, and any number of attempts.                *)
(*                                                                         *)
(* The constants are those of an instance (CommitConstants): the theorems  *)
(* have it as their hypothesis.                                            *)
(***************************************************************************)
EXTENDS SuccessfulCommit, FiniteSetTheorems, TLAPS

CallFields == {"pc", "attempt", "result", "told", "since", "record", "receipt", "counter",
               "runtime", "delivery", "bitmap", "verification", "voting"}
MergeFields == {"pc", "attempt", "result", "seen"}
Statuses == {"running", "succeeded", "failed"}

-----------------------------------------------------------------------------
\* The inductive invariant.

Types ==
    /\ DOMAIN record = Sessions
    /\ \A s \in Sessions :
        /\ DOMAIN record[s] = {"rev", "status", "outcome"}
        /\ record[s].rev \in Nat
        /\ record[s].status \in Statuses
    /\ receipt \in [Sessions -> ReceiptItem \cup {NoItem}]
    /\ counter \in Nat \cup {NoItem}
    /\ DOMAIN bitmap = Sessions /\ DOMAIN verification = Sessions
    /\ voting \in [Sessions -> Nat]
    /\ DOMAIN call = Commits
    /\ DOMAIN merge = Merges
    /\ \A m \in Merges : /\ DOMAIN merge[m] = MergeFields
                         /\ merge[m].pc \in {"idle", "read", "put", "done"}

\* What a commit in flight has read of record r and receipt item p of its
\* session, and what it has been told.  Its record is the stored one or is behind
\* it; evidence it saw belongs to a success that is stored, and it writes only if
\* it saw an unfinished record and no receipt.
Reading(k) == k.pc \in Steps \ {"record"}

Sane(k) ==
    /\ DOMAIN k = CallFields
    /\ k.pc \in Steps \cup {"idle", "done"}
    /\ k.result \in Results
    /\ k.attempt \in Nat /\ k.attempt < CommitAttempts
    /\ k.counter \in Nat \cup {NoItem}

Behind(k, r) ==
    /\ k.record.rev \in Nat
    /\ k.record.status \in {"running", "succeeded"}
    /\ k.record.rev <= r.rev
    /\ k.record.rev = r.rev \/ k.record.status = "succeeded" => k.record = r

Evidence(k, r, p) ==
    /\ k.receipt # NoItem => k.receipt = p
    /\ k.bitmap # NoItem \/ k.verification # NoItem => r.status = "succeeded"

Told(k, r) ==
    /\ k.result \in {"committed", "replayed"} => r.status = "succeeded" /\ r.outcome = k.told
    /\ k.result = "premature" => r.status = "succeeded"
    /\ k.result # "uncovered"

Good(k, r, p) ==
    /\ Sane(k)
    /\ Reading(k) => Behind(k, r)
    /\ k.pc \in {"ttl", "write"} => k.record.status = "running" /\ k.receipt = NoItem
    /\ Evidence(k, r, p)
    /\ Told(k, r)

Inv ==
    /\ Types
    /\ BoardDense
    /\ IsFiniteSet(Published)
    /\ EvidenceFollowsRecord
    /\ \A c \in Commits : Good(call[c], record[Request[c].session], receipt[Request[c].session])

-----------------------------------------------------------------------------
\* Frames: what a step that leaves something alone keeps.

\* A record goes on only from running, and a receipt item stays.
Forward(s) ==
    /\ \/ record'[s] = record[s]
       \/ /\ record[s].status = "running"
          /\ record'[s].rev = record[s].rev + 1
    /\ receipt[s] # NoItem => receipt'[s] = receipt[s]

LEMMA GoodKept ==
    ASSUME CommitConstants, Types, EvidenceFollowsRecord,
           NEW c \in Commits, Good(call[c], record[Request[c].session], receipt[Request[c].session]),
           call'[c] = call[c], Forward(Request[c].session)
    PROVE  Good(call'[c], record'[Request[c].session], receipt'[Request[c].session])
<1> DEFINE k == call[c]
           s == Request[c].session
<1>1. s \in Sessions
  BY DEF CommitConstants
<1>2. record[s].rev \in Nat
  BY <1>1 DEF Types
<1> HIDE DEF k, s
<1>3. Good(k, record[s], receipt[s]) /\ Forward(s) /\ call'[c] = k
  BY DEF k, s
<1>4. Reading(k) => Behind(k, record'[s])
  BY <1>2, <1>3 DEF Good, Behind, Forward
<1>5. Evidence(k, record'[s], receipt'[s])
  BY <1>3 DEF Good, Evidence, Forward
<1>6. Told(k, record'[s])
  BY <1>3 DEF Good, Told, Forward
<1>7. Good(k, record'[s], receipt'[s])
  BY <1>3, <1>4, <1>5, <1>6 DEF Good
<1> QED BY <1>3, <1>7 DEF s

\* The board and the evidence depend on the items only.
LEMMA TableKept ==
    ASSUME BoardDense, IsFiniteSet(Published), EvidenceFollowsRecord,
           UNCHANGED <<record, receipt, counter, bitmap, verification>>
    PROVE  BoardDense' /\ IsFiniteSet(Published)' /\ EvidenceFollowsRecord'
BY DEF BoardDense, Published, EvidenceFollowsRecord

\* A step of one commit that writes no item.
LEMMA CallStep ==
    ASSUME CommitConstants, Inv, NEW c \in Commits, UNCHANGED <<table, merge>>,
           DOMAIN call' = Commits, \A d \in Commits : d # c => call'[d] = call[d],
           Good(call'[c], record[Request[c].session], receipt[Request[c].session])
    PROVE  Inv'
<1>1. Types'
  BY DEF Inv, Types, table
<1>2. BoardDense' /\ IsFiniteSet(Published)' /\ EvidenceFollowsRecord'
  BY TableKept DEF Inv, table
<1>3. ASSUME NEW d \in Commits
      PROVE  Good(call'[d], record'[Request[d].session], receipt'[Request[d].session])
  BY DEF Inv, table
<1> QED BY <1>1, <1>2, <1>3 DEF Inv

-----------------------------------------------------------------------------
\* What the shapes of a commit's step do to its local state.

LEMMA ReadFacts ==
    ASSUME Types, NEW c \in Commits, Sane(call[c]), NEW step, NEW value, NEW next,
           NEW field \in CallFields \ {"pc"}, Read(c, step, field, value, next)
    PROVE  /\ DOMAIN call' = Commits /\ \A d \in Commits : d # c => call'[d] = call[d]
           /\ DOMAIN call'[c] = CallFields
           /\ call'[c].pc = next /\ call'[c][field] = value
           /\ \A f \in CallFields \ {"pc", field} : call'[c][f] = call[c][f]
           /\ call[c].pc = step
           /\ UNCHANGED <<table, merge>>
BY DEF Read, Types, Sane, CallFields

LEMMA ReturnFacts ==
    ASSUME Types, NEW c \in Commits, Sane(call[c]), NEW result, NEW told,
           Return(c, result, told)
    PROVE  /\ DOMAIN call' = Commits /\ \A d \in Commits : d # c => call'[d] = call[d]
           /\ DOMAIN call'[c] = CallFields
           /\ call'[c].pc = "done" /\ call'[c].result = result /\ call'[c].told = told
           /\ \A f \in CallFields \ {"pc", "result", "told"} : call'[c][f] = call[c][f]
BY DEF Return, Types, Sane, CallFields

-----------------------------------------------------------------------------
\* The reads of a commit.

\* A receipt on the board is covered by the counter.
LEMMA Covered ==
    ASSUME CommitConstants, Types, BoardDense, NEW s \in Sessions, receipt[s] # NoItem
    PROVE  counter # NoItem /\ counter > receipt[s].index
<1>1. s \in Published
  BY DEF Published
<1>2. receipt[s].index \in FIRST_RECEIPT_BOARD_INDEX ..
          ((IF counter = NoItem THEN FIRST_RECEIPT_BOARD_INDEX ELSE counter) - 1)
  BY <1>1 DEF BoardDense
<1> QED BY <1>2 DEF FIRST_RECEIPT_BOARD_INDEX, Types, CommitConstants

\* There is evidence only of a success.
LEMMA EvidenceMeansSuccess ==
    ASSUME CommitConstants, Types, EvidenceFollowsRecord, NEW s \in Sessions,
           receipt[s] # NoItem \/ bitmap[s] # NoItem \/ verification[s] # NoItem
    PROVE  record[s].status = "succeeded"
<1>1. CASE receipt[s] # NoItem
  <2>1. [hash |-> receipt[s].hash, index |-> receipt[s].index] \in PublicationItem
    BY <1>1 DEF Types, ReceiptItem, PublicationItem
  <2> QED BY <1>1, <2>1 DEF EvidenceFollowsRecord, CommitConstants
<1> QED BY <1>1 DEF EvidenceFollowsRecord

LEMMA BeginKeeps ==
    ASSUME CommitConstants, Inv, NEW c \in Commits, Begin(c)
    PROVE  Inv'
<1> DEFINE s == Request[c].session
<1>1. Good(call[c], record[s], receipt[s])
  BY DEF Inv
<1>2. /\ DOMAIN call' = Commits /\ \A d \in Commits : d # c => call'[d] = call[d]
      /\ DOMAIN call'[c] = CallFields /\ call'[c].pc = "record"
      /\ \A f \in CallFields \ {"pc", "since"} : call'[c][f] = call[c][f]
      /\ UNCHANGED <<table, merge>>
  BY <1>1 DEF Begin, Inv, Types, Good, Sane, CallFields
<1>3. Good(call'[c], record[s], receipt[s])
  BY <1>1, <1>2 DEF Good, Sane, Reading, Evidence, Told, Steps, CallFields
<1> QED BY <1>2, <1>3, CallStep

\* Answers.
LEMMA ReturnKeeps ==
    ASSUME CommitConstants, Inv, NEW c \in Commits, NEW result \in Results, NEW told,
           Return(c, result, told), UNCHANGED <<table, merge>>,
           LET r == record[Request[c].session]
           IN  /\ result \in {"committed", "replayed"} => r.status = "succeeded" /\ r.outcome = told
               /\ result = "premature" => r.status = "succeeded"
               /\ result # "uncovered"
    PROVE  Inv'
<1> DEFINE s == Request[c].session
<1>1. Good(call[c], record[s], receipt[s]) /\ Types /\ Sane(call[c])
  BY DEF Inv, Good
<1>2. /\ DOMAIN call' = Commits /\ \A d \in Commits : d # c => call'[d] = call[d]
      /\ DOMAIN call'[c] = CallFields
      /\ call'[c].pc = "done" /\ call'[c].result = result /\ call'[c].told = told
      /\ \A f \in CallFields \ {"pc", "result", "told"} : call'[c][f] = call[c][f]
  BY <1>1, ReturnFacts
<1>3. Good(call'[c], record[s], receipt[s])
  BY <1>1, <1>2 DEF Good, Sane, Reading, Evidence, Told, Steps, CallFields
<1> QED BY <1>2, <1>3, CallStep

\* The record that a commit loads is the stored one.
LEMMA AuthorityKeeps ==
    ASSUME CommitConstants, Inv, NEW c \in Commits, loadSuccessfulCommitAuthority(c)
    PROVE  Inv'
<1> DEFINE s == Request[c].session
<1>1. Good(call[c], record[s], receipt[s]) /\ Types /\ s \in Sessions /\ Sane(call[c])
  BY DEF Inv, CommitConstants, Good
<1>2. CASE /\ record[s].status \in {"running", "succeeded"}
           /\ Read(c, "record", "record", record[s], "receipt")
  <2>1. "record" \in CallFields \ {"pc"}
    BY DEF CallFields
  <2>2. /\ DOMAIN call' = Commits /\ \A d \in Commits : d # c => call'[d] = call[d]
        /\ DOMAIN call'[c] = CallFields
        /\ call'[c].pc = "receipt" /\ call'[c].record = record[s]
        /\ \A f \in CallFields \ {"pc", "record"} : call'[c][f] = call[c][f]
        /\ UNCHANGED <<table, merge>>
    BY <1>1, <1>2, <2>1, ReadFacts
  <2>3. Behind(call'[c], record[s])
    BY <1>1, <1>2, <2>2 DEF Behind, Types
  <2>4. Good(call'[c], record[s], receipt[s])
    BY <1>1, <2>2, <2>3 DEF Good, Sane, Reading, Evidence, Told, Steps, CallFields
  <2> QED BY <2>2, <2>4, CallStep
<1>3. CASE Return(c, "stale", NoItem) /\ UNCHANGED <<table, merge>>
  BY <1>3, ReturnKeeps DEF Results
<1> QED BY <1>2, <1>3 DEF loadSuccessfulCommitAuthority

\* Every later read but the last one of the voting item keeps the record it
\* works with; evidence is read as it is stored.
LEMMA ReadKeeps ==
    ASSUME CommitConstants, Inv, NEW c \in Commits,
           NEW step \in Steps \ {"record"}, NEW next \in Steps \ {"record"}, NEW value,
           NEW field \in {"receipt", "counter", "runtime", "delivery", "bitmap", "verification", "voting"},
           Read(c, step, field, value, next),
           next \in {"ttl", "write"} => step \in {"ttl", "write"} /\ field = "voting",
           LET s == Request[c].session
           IN  /\ field = "receipt" => value = receipt[s]
               /\ field = "counter" => value \in Nat \cup {NoItem}
               /\ field \in {"bitmap", "verification"} /\ value # NoItem
                      => record[s].status = "succeeded"
    PROVE  Inv'
<1> DEFINE s == Request[c].session
<1>1. Good(call[c], record[s], receipt[s]) /\ Types /\ Sane(call[c])
  BY DEF Inv, Good
<1>2. field \in CallFields \ {"pc"}
  BY DEF CallFields
<1>3. /\ DOMAIN call' = Commits /\ \A d \in Commits : d # c => call'[d] = call[d]
      /\ DOMAIN call'[c] = CallFields
      /\ call'[c].pc = next /\ call'[c][field] = value
      /\ \A f \in CallFields \ {"pc", field} : call'[c][f] = call[c][f]
      /\ call[c].pc = step
      /\ UNCHANGED <<table, merge>>
  BY <1>1, <1>2, ReadFacts
<1>4. call'[c].record = call[c].record /\ Behind(call[c], record[s])
  BY <1>1, <1>3 DEF Good, Reading, CallFields
<1>5. Behind(call'[c], record[s])
  BY <1>4 DEF Behind
<1>6. Evidence(call'[c], record[s], receipt[s])
  BY <1>1, <1>3 DEF Good, Evidence, CallFields
<1>7. Sane(call'[c])
  BY <1>1, <1>3 DEF Sane, CallFields
<1>8. Told(call'[c], record[s])
  BY <1>1, <1>3 DEF Good, Told, CallFields
<1>9. call'[c].pc \in {"ttl", "write"} => call'[c].record.status = "running" /\ call'[c].receipt = NoItem
  BY <1>1, <1>3 DEF Good, CallFields
<1>10. Good(call'[c], record[s], receipt[s])
  BY <1>5, <1>6, <1>7, <1>8, <1>9 DEF Good
<1> QED BY <1>3, <1>10, CallStep

LEMMA LoadsKeep ==
    ASSUME CommitConstants, Inv, NEW c \in Commits,
           \/ loadReceipt(c) \/ loadSuccessfulCommitMetadata(c) \/ loadSuccessfulCommitDelivery(c)
           \/ loadBitmap(c) \/ loadVerification(c) \/ buildSuccessfulCommitTransaction(c)
    PROVE  Inv'
<1> DEFINE s == Request[c].session
<1> USE ReadKeeps DEF Steps
<1>0. s \in Sessions /\ Types /\ EvidenceFollowsRecord
  BY DEF CommitConstants, Inv
<1>1. CASE loadReceipt(c)
  BY <1>1 DEF loadReceipt
<1>2. CASE loadSuccessfulCommitMetadata(c)
  BY <1>2 DEF loadSuccessfulCommitMetadata
<1>3. CASE loadSuccessfulCommitDelivery(c)
  BY <1>3 DEF loadSuccessfulCommitDelivery
<1>4. CASE loadBitmap(c)
  BY <1>0, <1>4, EvidenceMeansSuccess DEF loadBitmap
<1>5. CASE loadVerification(c)
  BY <1>0, <1>5, EvidenceMeansSuccess DEF loadVerification
<1>6. CASE buildSuccessfulCommitTransaction(c)
  BY <1>6 DEF buildSuccessfulCommitTransaction
<1> QED BY <1>1, <1>2, <1>3, <1>4, <1>5, <1>6

\* The counter always covers the receipt that was read.
LEMMA CounterKeeps ==
    ASSUME CommitConstants, Inv, NEW c \in Commits, loadCounter(c)
    PROVE  Inv'
<1> DEFINE s == Request[c].session
<1>1. s \in Sessions /\ Types /\ BoardDense /\ Evidence(call[c], record[s], receipt[s])
  BY DEF CommitConstants, Inv, Good
<1>2. call[c].receipt # NoItem => counter # NoItem /\ counter > call[c].receipt.index
  BY <1>1, Covered DEF Evidence
<1>3. Read(c, "counter", "counter", counter, "runtime")
  BY <1>2 DEF loadCounter
<1> QED BY <1>1, <1>3, ReadKeeps DEF Steps, Types

\* A stored success is told as it is stored, and evidence that is there too early
\* is that of a success.
LEMMA DecideKeeps ==
    ASSUME CommitConstants, Inv, NEW c \in Commits, Decide(c)
    PROVE  Inv'
<1> DEFINE s == Request[c].session
           k == call[c]
           outcome == buildPublishedSuccessfulFinalization(Request[c].record, Publication(k, Request[c]))
<1>1. Good(k, record[s], receipt[s]) /\ Types /\ s \in Sessions /\ Sane(k) /\ EvidenceFollowsRecord
  BY DEF Inv, CommitConstants, Good
<1>2. k.pc = "decide" /\ Behind(k, record[s]) /\ UNCHANGED <<table, merge>>
  BY <1>1 DEF Decide, Good, Reading, Steps
<1>3. CASE k.record.status = "succeeded"
  <2>1. CASE assertSuccessfulFinalizationReplay(k, Request[c])
    <3>1. Return(c, "replayed", outcome)
      BY <1>3, <2>1 DEF Decide
    <3>2. record[s].status = "succeeded" /\ record[s].outcome = outcome
      BY <1>2, <1>3, <2>1 DEF Behind, assertSuccessfulFinalizationReplay
    <3> HIDE DEF outcome
    <3> QED BY <1>2, <3>1, <3>2, ReturnKeeps DEF Results
  <2>2. CASE ~assertSuccessfulFinalizationReplay(k, Request[c])
    BY <1>2, <1>3, <2>2, ReturnKeeps DEF Results, Decide
  <2> QED BY <2>1, <2>2
<1>4. CASE k.record.status # "succeeded" /\ ~assertNoPrematureCommitArtifacts(k)
  <2>1. record[s].status = "succeeded"
    BY <1>1, <1>4, EvidenceMeansSuccess DEF assertNoPrematureCommitArtifacts, Good, Evidence
  <2> QED BY <1>2, <1>4, <2>1, ReturnKeeps DEF Results, Decide
<1>5. CASE k.record.status # "succeeded" /\ assertNoPrematureCommitArtifacts(k)
  <2>1. call' = [call EXCEPT ![c].pc = "ttl"]
    BY <1>5 DEF Decide
  <2>2. /\ DOMAIN call' = Commits /\ \A d \in Commits : d # c => call'[d] = call[d]
        /\ DOMAIN call'[c] = CallFields /\ call'[c].pc = "ttl"
        /\ \A f \in CallFields \ {"pc"} : call'[c][f] = call[c][f]
    BY <1>1, <2>1 DEF Types, Sane, CallFields
  <2>3. k.record.status = "running" /\ k.receipt = NoItem
    BY <1>2, <1>5 DEF Behind, assertNoPrematureCommitArtifacts
  <2>4. Behind(call'[c], record[s])
    BY <1>2, <2>2 DEF Behind, CallFields
  <2>5. Good(call'[c], record[s], receipt[s])
    BY <1>1, <2>2, <2>3, <2>4 DEF Good, Sane, Evidence, Told, Steps, CallFields
  <2> QED BY <1>2, <2>2, <2>5, CallStep
<1> QED BY <1>3, <1>4, <1>5

\* A refused transaction starts the attempt again or gives up.
LEMMA RefusedKeeps ==
    ASSUME CommitConstants, Inv, NEW c \in Commits, WriteRefused(c)
    PROVE  Inv'
<1> DEFINE s == Request[c].session
           new == [Idle EXCEPT !.pc = "record", !.attempt = call[c].attempt + 1,
                               !.since = call[c].since]
<1>1. Types /\ Sane(call[c]) /\ UNCHANGED <<table, merge>>
  BY DEF Inv, Good, WriteRefused
<1>2. CASE call[c].attempt + 1 = CommitAttempts
  BY <1>1, <1>2, ReturnKeeps DEF WriteRefused, Results
<1>3. CASE call[c].attempt + 1 # CommitAttempts
  <2>1. call' = [call EXCEPT ![c] = new]
    BY <1>3 DEF WriteRefused
  <2>2. call[c].attempt + 1 \in Nat /\ call[c].attempt + 1 < CommitAttempts
    BY <1>1, <1>3 DEF Sane, CommitConstants
  <2>3. Good(new, record[s], receipt[s])
    BY <2>2 DEF Good, Sane, Reading, Evidence, Told, Idle, Steps, Results, CallFields
  <2> HIDE DEF new
  <2>4. DOMAIN call' = Commits /\ call'[c] = new /\ \A d \in Commits : d # c => call'[d] = call[d]
    BY <1>1, <2>1 DEF Types
  <2> QED BY <1>1, <2>3, <2>4, CallStep
<1> QED BY <1>2, <1>3

-----------------------------------------------------------------------------
\* The transaction.

\* The conditions hold only for an unfinished record without evidence, so a
\* publication is a new one: the next place of the board.
LEMMA WriteIsFirst ==
    ASSUME CommitConstants, Inv, NEW c \in Commits, call[c].pc = "write",
           Conditions(call[c], Request[c])
    PROVE  LET s == Request[c].session
               q == Request[c]
               n == IF counter = NoItem THEN FIRST_RECEIPT_BOARD_INDEX ELSE counter
           IN  /\ s \in Sessions /\ n \in Nat
               /\ record[s].status = "running" /\ record[s].rev = call[c].record.rev
               /\ receipt[s] = NoItem /\ bitmap[s] = NoItem /\ verification[s] = NoItem
               /\ Publication(call[c], q) =
                    IF q.receipt = NoItem THEN NoItem
                    ELSE [hash |-> [sha256 |-> q.receipt], index |-> n]
<1> DEFINE s == Request[c].session
           q == Request[c]
           k == call[c]
<1>1. s \in Sessions /\ Types /\ EvidenceFollowsRecord /\ Good(k, record[s], receipt[s])
  BY DEF Inv, CommitConstants
<1>2. Behind(k, record[s]) /\ k.record.status = "running" /\ k.receipt = NoItem
  BY <1>1 DEF Good, Reading, Steps
<1>3. record[s].status = "running" /\ record[s].rev = k.record.rev
  BY <1>2 DEF Behind, Conditions
<1>4. receipt[s] = NoItem /\ bitmap[s] = NoItem /\ verification[s] = NoItem
  BY <1>1, <1>3, EvidenceMeansSuccess
<1>5. q.receipt # NoItem => k.counter = counter
  BY DEF Conditions, ReceiptCondition
<1>6. Publication(k, q) =
        IF q.receipt = NoItem THEN NoItem
        ELSE [hash |-> [sha256 |-> q.receipt],
              index |-> IF counter = NoItem THEN FIRST_RECEIPT_BOARD_INDEX ELSE counter]
  BY <1>2, <1>5 DEF Publication, prepareReceiptPublication, computeSuccessfulFinalizationReceiptHash
<1> QED BY <1>1, <1>3, <1>4, <1>6 DEF Types, FIRST_RECEIPT_BOARD_INDEX

\* A publication takes the next place of the board and moves the counter past it.
LEMMA BoardGrows ==
    ASSUME CommitConstants, Types, BoardDense, IsFiniteSet(Published),
           NEW s \in Sessions, NEW item \in ReceiptItem, receipt[s] = NoItem,
           item.index = IF counter = NoItem THEN FIRST_RECEIPT_BOARD_INDEX ELSE counter,
           receipt' = [receipt EXCEPT ![s] = item], counter' = item.index + 1
    PROVE  BoardDense' /\ IsFiniteSet(Published)'
<1> DEFINE n == item.index
           Indexes == {receipt[t].index : t \in Published}
<1>1. n \in Nat /\ n >= 1 /\ Indexes = 1 .. (n - 1) /\ Cardinality(Published) = n - 1
  <2>1. n \in Nat /\ Indexes = 1 .. (n - 1) /\ Cardinality(Published) = n - 1
    BY DEF BoardDense, ReceiptItem, FIRST_RECEIPT_BOARD_INDEX
  <2>2. Cardinality(Published) \in Nat
    BY FS_CardinalityType
  <2> QED BY <2>1, <2>2
<1>2. item # NoItem /\ counter' \in Nat /\ counter' # NoItem /\ counter' = n + 1
  BY <1>1 DEF CommitConstants
<1>3. receipt'[s] = item /\ \A t \in Sessions : t # s => receipt'[t] = receipt[t]
  BY DEF Types
<1>4. Published' = Published \cup {s} /\ s \notin Published
  BY <1>2, <1>3 DEF Published
<1>5. IsFiniteSet(Published') /\ Cardinality(Published') = Cardinality(Published) + 1
  BY <1>4, FS_AddElement
<1>6. {receipt'[t].index : t \in Published'} = Indexes \cup {n}
  <2>1. \A t \in Published : t \in Sessions /\ t # s
    BY <1>4 DEF Published
  <2> QED BY <1>3, <1>4, <2>1
<1>7. {receipt'[t].index : t \in Published'} = 1 .. n
  <2>1. 1 .. n = (1 .. (n - 1)) \cup {n}
    BY <1>1
  <2> QED BY <1>1, <1>6, <2>1
<1>8. Cardinality(Published') = n
  BY <1>1, <1>5
<1>9. (IF counter' = NoItem THEN FIRST_RECEIPT_BOARD_INDEX ELSE counter') - 1 = n
  BY <1>1, <1>2
<1>10. (IF counter' = NoItem THEN FIRST_RECEIPT_BOARD_INDEX ELSE counter')
           - FIRST_RECEIPT_BOARD_INDEX = n
  BY <1>1, <1>2 DEF FIRST_RECEIPT_BOARD_INDEX
<1> HIDE DEF n
<1> QED BY <1>5, <1>7, <1>8, <1>9, <1>10 DEF BoardDense, FIRST_RECEIPT_BOARD_INDEX

\* The transaction writes the record, its evidence and its place on the board
\* together.
LEMMA AppliedKeeps ==
    ASSUME CommitConstants, Inv, NEW c \in Commits, WriteApplied(c)
    PROVE  Inv'
<1> DEFINE s == Request[c].session
           q == Request[c]
           k == call[c]
           n == IF counter = NoItem THEN FIRST_RECEIPT_BOARD_INDEX ELSE counter
           p == Publication(k, q)
           outcome == buildPublishedSuccessfulFinalization(q.record, p)
           new == [rev |-> k.record.rev + 1, status |-> "succeeded", outcome |-> outcome]
           item == [hash |-> p.hash, index |-> p.index, body |-> q.receipt]
<1>1. /\ k.pc = "write" /\ Conditions(k, q) /\ UNCHANGED merge
      /\ Return(c, "committed", outcome) \/ Return(c, "error", NoItem)
      /\ buildSuccessfulFinalizationTransaction(k, q)
  BY DEF WriteApplied
<1>2. /\ s \in Sessions /\ n \in Nat
      /\ record[s].status = "running" /\ record[s].rev = k.record.rev
      /\ receipt[s] = NoItem /\ bitmap[s] = NoItem /\ verification[s] = NoItem
      /\ p = IF q.receipt = NoItem THEN NoItem
             ELSE [hash |-> [sha256 |-> q.receipt], index |-> n]
  BY <1>1, WriteIsFirst
<1>3. Types /\ Sane(k) /\ BoardDense /\ IsFiniteSet(Published) /\ EvidenceFollowsRecord
      /\ Good(k, record[s], receipt[s])
  BY DEF Inv, Good
<1>4. /\ record' = [record EXCEPT ![s] = new]
      /\ q.receipt = NoItem => receipt' = receipt /\ counter' = counter
      /\ q.receipt # NoItem => receipt' = [receipt EXCEPT ![s] = item] /\ counter' = p.index + 1
  BY <1>1 DEF buildSuccessfulFinalizationTransaction, receiptPublicationWrites
<1>5. /\ DOMAIN bitmap' = Sessions /\ DOMAIN verification' = Sessions
      /\ \A t \in Sessions : t # s => bitmap'[t] = bitmap[t] /\ verification'[t] = verification[t]
  BY <1>1, <1>3 DEF buildSuccessfulFinalizationTransaction, bitmapWrites, verificationWrites, Types
<1>6. voting' \in [Sessions -> Nat]
  BY <1>1, <1>2, <1>3 DEF buildSuccessfulFinalizationTransaction, Types
<1>7. /\ DOMAIN record' = Sessions /\ record'[s] = new
      /\ \A t \in Sessions : t # s => record'[t] = record[t]
  BY <1>2, <1>3, <1>4 DEF Types
<1>8. new.rev = record[s].rev + 1 /\ new.status = "succeeded" /\ new.outcome = outcome
      /\ DOMAIN new = {"rev", "status", "outcome"} /\ outcome.publication = p
  BY <1>2 DEF buildPublishedSuccessfulFinalization
<1>9. q.receipt # NoItem => item \in ReceiptItem /\ item.index = n /\ item.hash = p.hash
                            /\ p = [hash |-> item.hash, index |-> item.index]
  BY <1>2 DEF ReceiptItem, Bodies
<1> HIDE DEF item, outcome, new
<1>10. /\ receipt' \in [Sessions -> ReceiptItem \cup {NoItem}] /\ counter' \in Nat \cup {NoItem}
       /\ \A t \in Sessions : t # s => receipt'[t] = receipt[t]
       /\ receipt'[s] = IF q.receipt = NoItem THEN NoItem ELSE item
  <2>1. CASE q.receipt = NoItem
    BY <1>2, <1>3, <1>4, <2>1 DEF Types
  <2>2. CASE q.receipt # NoItem
    <3>1. p.index = n
      BY <1>2, <2>2
    <3>2. item \in ReceiptItem
      BY <1>9, <2>2
    <3> QED BY <1>2, <1>3, <1>4, <2>2, <3>1, <3>2 DEF Types
  <2> QED BY <2>1, <2>2
<1> HIDE DEF p
<1>11. DOMAIN call' = Commits /\ (\A d \in Commits : d # c => call'[d] = call[d])
       /\ Good(call'[c], record'[s], receipt'[s])
  <2>1. PICK result \in {"committed", "error"} : \E told :
            /\ Return(c, result, told)
            /\ result = "committed" => told = outcome
    BY <1>1
  <2>2. PICK told : Return(c, result, told) /\ (result = "committed" => told = outcome)
    BY <2>1
  <2>3. /\ DOMAIN call' = Commits /\ \A d \in Commits : d # c => call'[d] = call[d]
        /\ DOMAIN call'[c] = CallFields
        /\ call'[c].pc = "done" /\ call'[c].result = result /\ call'[c].told = told
        /\ \A f \in CallFields \ {"pc", "result", "told"} : call'[c][f] = call[c][f]
    BY <1>3, <2>2, ReturnFacts
  <2>4. Evidence(call'[c], record'[s], receipt'[s])
    <3>1. k.receipt = NoItem
      BY <1>1, <1>3 DEF Good
    <3> QED BY <1>7, <1>8, <2>3, <3>1 DEF Evidence, CallFields
  <2>5. Told(call'[c], record'[s])
    BY <1>7, <1>8, <2>2, <2>3 DEF Told
  <2>6. Sane(call'[c])
    BY <1>3, <2>3 DEF Sane, Results, CallFields
  <2> QED BY <2>3, <2>4, <2>5, <2>6 DEF Good, Reading, Steps
<1>12. Types'
  <2>1. new.rev \in Nat
    BY <1>2, <1>3, <1>8 DEF Types
  <2> QED BY <1>1, <1>3, <1>5, <1>6, <1>7, <1>8, <1>10, <1>11, <2>1 DEF Types, Statuses
<1>13. BoardDense' /\ IsFiniteSet(Published)'
  <2>1. CASE q.receipt = NoItem
    BY <1>3, <1>4, <2>1 DEF BoardDense, Published
  <2>2. CASE q.receipt # NoItem
    <3>1. item.index = n /\ p.index = n /\ item \in ReceiptItem
      BY <1>2, <1>9, <2>2
    <3> QED BY <1>2, <1>3, <1>4, <2>2, <3>1, BoardGrows
  <2> QED BY <2>1, <2>2
<1>14. EvidenceFollowsRecord'
  <2> DEFINE E(r, i, b, v) ==
        /\ IF i = NoItem THEN (IF r.status # "succeeded" THEN NoItem ELSE r.outcome.publication) = NoItem
           ELSE (IF r.status # "succeeded" THEN NoItem ELSE r.outcome.publication)
                    = [hash |-> i.hash, index |-> i.index]
        /\ r.status # "succeeded" => b = NoItem /\ v = NoItem
  <2>1. \A t \in Sessions : E(record[t], receipt[t], bitmap[t], verification[t])
    BY <1>3 DEF EvidenceFollowsRecord
  <2>2. E(record'[s], receipt'[s], bitmap'[s], verification'[s])
    <3>1. item # NoItem \/ q.receipt = NoItem
      BY <1>9 DEF CommitConstants
    <3> QED BY <1>2, <1>7, <1>8, <1>9, <1>10, <3>1
  <2>3. \A t \in Sessions : E(record'[t], receipt'[t], bitmap'[t], verification'[t])
    BY <1>5, <1>7, <1>10, <2>1, <2>2
  <2> QED BY <2>3 DEF EvidenceFollowsRecord
<1>15. ASSUME NEW d \in Commits
       PROVE  Good(call'[d], record'[Request[d].session], receipt'[Request[d].session])
  <2>1. CASE d = c
    BY <1>11, <2>1
  <2>2. CASE d # c
    <3>1. Request[d].session \in Sessions
      BY DEF CommitConstants
    <3>2. Forward(Request[d].session)
      BY <1>2, <1>7, <1>8, <1>10, <3>1 DEF Forward
    <3> QED BY <1>3, <1>11, <2>2, <3>2, GoodKept DEF Inv
  <2> QED BY <2>1, <2>2
<1> QED BY <1>12, <1>13, <1>14, <1>15 DEF Inv

-----------------------------------------------------------------------------
\* The other writers.

LEMMA MergeKeeps ==
    ASSUME CommitConstants, Inv, NEW m \in Merges, MergeStep(m)
    PROVE  Inv'
<1>1. UNCHANGED <<record, receipt, counter, bitmap, verification, voting, call>>
  BY DEF MergeStep, MergeRead, MergePut, table
<1>2. /\ DOMAIN merge' = Merges /\ \A d \in Merges : d # m => merge'[d] = merge[d]
      /\ DOMAIN merge'[m] = MergeFields /\ merge'[m].pc \in {"idle", "read", "put", "done"}
  <2>1. DOMAIN merge = Merges /\ DOMAIN merge[m] = MergeFields
    BY DEF Inv, Types
  <2>2. CASE MergeRead(m)
    BY <2>1, <2>2 DEF MergeRead, MergeFields
  <2>3. CASE MergePut(m)
    BY <2>1, <2>3 DEF MergePut, MergeFields
  <2> QED BY <2>2, <2>3 DEF MergeStep
<1>3. Types'
  BY <1>1, <1>2 DEF Inv, Types
<1>4. BoardDense' /\ IsFiniteSet(Published)' /\ EvidenceFollowsRecord'
  BY <1>1, TableKept DEF Inv
<1> QED BY <1>1, <1>3, <1>4 DEF Inv

LEMMA SessionKeeps ==
    ASSUME CommitConstants, Inv, NEW s \in Sessions,
           VerificationWritten(s) \/ FailedElsewhere(s) \/ TouchSession(s)
    PROVE  Inv'
<1>1. UNCHANGED <<receipt, counter, call, bitmap, merge>>
  BY DEF VerificationWritten, FailedElsewhere, TouchSession
<1>2. \A t \in Sessions : Forward(t)
  <2>1. CASE FailedElsewhere(s)
    BY <1>1, <2>1 DEF FailedElsewhere, Forward, Inv, Types
  <2>2. CASE VerificationWritten(s) \/ TouchSession(s)
    BY <1>1, <2>2 DEF VerificationWritten, TouchSession, Forward
  <2> QED BY <2>1, <2>2
<1>3. Types'
  <2>1. CASE FailedElsewhere(s)
    BY <2>1 DEF FailedElsewhere, Inv, Types, Statuses
  <2>2. CASE VerificationWritten(s)
    BY <2>2 DEF VerificationWritten, Inv, Types
  <2>3. CASE TouchSession(s)
    BY <2>3 DEF TouchSession, Inv, Types
  <2> QED BY <2>1, <2>2, <2>3
<1>4. EvidenceFollowsRecord'
  <2>1. CASE FailedElsewhere(s)
    <3>1. receipt[s] = NoItem /\ bitmap[s] = NoItem /\ verification[s] = NoItem
      BY <2>1, EvidenceMeansSuccess DEF FailedElsewhere, Inv
    <3>2. record'[s].status = "failed" /\ \A t \in Sessions : t # s => record'[t] = record[t]
      BY <2>1 DEF FailedElsewhere, Inv, Types
    <3> QED BY <1>1, <2>1, <3>1, <3>2 DEF FailedElsewhere, Inv, EvidenceFollowsRecord
  <2>2. CASE VerificationWritten(s)
    <3>1. \A t \in Sessions : t # s => verification'[t] = verification[t]
      BY <2>2 DEF VerificationWritten, Inv, Types
    <3> QED BY <1>1, <2>2, <3>1 DEF VerificationWritten, Inv, EvidenceFollowsRecord
  <2>3. CASE TouchSession(s)
    BY <2>3 DEF TouchSession, Inv, EvidenceFollowsRecord
  <2> QED BY <2>1, <2>2, <2>3
<1>5. BoardDense' /\ IsFiniteSet(Published)'
  BY <1>1 DEF Inv, BoardDense, Published
<1>6. ASSUME NEW d \in Commits
      PROVE  Good(call'[d], record'[Request[d].session], receipt'[Request[d].session])
  BY <1>1, <1>2, GoodKept DEF Inv, CommitConstants
<1> QED BY <1>3, <1>4, <1>5, <1>6 DEF Inv

\* Every step takes every record and receipt item forward.
LEMMA StepForward ==
    ASSUME CommitConstants, Inv, [Next]_vars, NEW s \in Sessions
    PROVE  Forward(s)
<1>1. CASE UNCHANGED <<record, receipt>>
  BY <1>1 DEF Forward
<1>2. ASSUME NEW c \in Commits, WriteApplied(c) PROVE Forward(s)
  <2> DEFINE t == Request[c].session
  <2>1. /\ record[t].status = "running" /\ record[t].rev = call[c].record.rev
        /\ receipt[t] = NoItem /\ t \in Sessions
    BY <1>2, WriteIsFirst DEF WriteApplied
  <2>2. s # t => record'[s] = record[s] /\ receipt'[s] = receipt[s]
    BY <1>2, <2>1 DEF WriteApplied, buildSuccessfulFinalizationTransaction, receiptPublicationWrites,
                      Inv, Types
  <2>3. record'[t].rev = record[t].rev + 1
    BY <1>2, <2>1 DEF WriteApplied, buildSuccessfulFinalizationTransaction, Inv, Types
  <2> QED BY <2>1, <2>2, <2>3 DEF Forward
<1>3. ASSUME NEW t \in Sessions, FailedElsewhere(t) PROVE Forward(s)
  BY <1>3 DEF FailedElsewhere, Forward, Inv, Types
<1>4. \/ UNCHANGED <<record, receipt>>
      \/ \E c \in Commits : WriteApplied(c)
      \/ \E t \in Sessions : FailedElsewhere(t)
  BY DEF Next, vars, CommitStep, MergeStep, Begin, Read, table, loadSuccessfulCommitAuthority,
         loadReceipt, loadCounter, loadSuccessfulCommitMetadata, loadSuccessfulCommitDelivery,
         loadBitmap, loadVerification, Decide, buildSuccessfulCommitTransaction, WriteRefused,
         MergeRead, MergePut, VerificationWritten, TouchSession
<1> QED BY <1>1, <1>2, <1>3, <1>4

-----------------------------------------------------------------------------
\* The theorems.

LEMMA Initially ==
    ASSUME CommitConstants
    PROVE  Init => Inv
<1> SUFFICES ASSUME Init PROVE Inv
  OBVIOUS
<1>1. Types
  BY DEF Init, Types, Statuses, MergeFields, IdleMerge
<1>2. Published = {}
  BY DEF Init, Published
<1>3. BoardDense /\ IsFiniteSet(Published)
  <2>1. Cardinality(Published) = 0 /\ IsFiniteSet(Published)
    BY <1>2, FS_EmptySet
  <2> QED BY <1>2, <2>1 DEF BoardDense, FIRST_RECEIPT_BOARD_INDEX, Init
<1>4. EvidenceFollowsRecord
  BY DEF Init, EvidenceFollowsRecord
<1>5. ASSUME NEW c \in Commits
      PROVE  Good(call[c], record[Request[c].session], receipt[Request[c].session])
  <2>1. Sane(Idle)
    BY DEF Sane, Idle, Results, CallFields, CommitConstants
  <2> QED BY <2>1 DEF Init, Good, Reading, Evidence, Told, Idle, Steps
<1> QED BY <1>1, <1>3, <1>4, <1>5 DEF Inv

LEMMA StepKeeps ==
    ASSUME CommitConstants
    PROVE  Inv /\ [Next]_vars => Inv'
<1> SUFFICES ASSUME Inv, [Next]_vars PROVE Inv'
  OBVIOUS
<1>1. CASE UNCHANGED vars
  BY <1>1 DEF vars, Inv, Types, BoardDense, Published, EvidenceFollowsRecord
<1>2. ASSUME NEW c \in Commits, Begin(c) \/ CommitStep(c) PROVE Inv'
  BY <1>2, BeginKeeps, AuthorityKeeps, LoadsKeep, CounterKeeps, DecideKeeps, AppliedKeeps,
     RefusedKeeps DEF CommitStep
<1>3. ASSUME NEW m \in Merges, MergeStep(m) PROVE Inv'
  BY <1>3, MergeKeeps
<1>4. ASSUME NEW s \in Sessions, VerificationWritten(s) \/ FailedElsewhere(s) \/ TouchSession(s)
      PROVE  Inv'
  BY <1>4, SessionKeeps
<1> QED BY <1>1, <1>2, <1>3, <1>4 DEF Next

\* The invariant of every state of the table and of the commits.
LEMMA Invariance ==
    ASSUME CommitConstants
    PROVE  Spec => []Inv
<1>1. Init => Inv
  BY Initially
<1>2. Inv /\ [Next]_vars => Inv'
  BY StepKeeps
<1> QED BY <1>1, <1>2, PTL DEF Spec

\* Every published receipt has a place of its own on the board, the board has no
\* gap, and receipt, bitmap and verification belong to a recorded success that
\* tells the same publication (commitSuccessfulFinalization).
THEOREM BoardIsDense ==
    ASSUME CommitConstants
    PROVE  Spec => [](TypeOK /\ BoardDense /\ EvidenceFollowsRecord)
<1>1. Inv => TypeOK /\ BoardDense /\ EvidenceFollowsRecord
  <2> SUFFICES ASSUME Inv PROVE TypeOK
    BY DEF Inv
  <2>1. \A c \in Commits : Sane(call[c])
    BY DEF Inv, Good
  <2>2. \A s \in Sessions : receipt[s] = NoItem \/ receipt[s].index \in Nat
    BY DEF Inv, Types, ReceiptItem
  <2> QED BY <2>1, <2>2 DEF Inv, Types, Statuses, Sane, TypeOK
<1>2. Spec => []Inv
  BY Invariance
<1> QED BY <1>1, <1>2, PTL

\* Whoever is told a success is told the stored one, "artifacts exist before
\* terminal authority" is said only after a success, and the counter never fails to
\* cover a receipt (assertSuccessfulFinalizationReplay,
\* assertNoPrematureCommitArtifacts, loadSuccessfulCommitReceipt).
THEOREM AnswersAreStored ==
    ASSUME CommitConstants
    PROVE  Spec => [](ToldIsStored /\ PrematureMeansOvertaken)
<1>1. Inv => ToldIsStored /\ PrematureMeansOvertaken
  BY DEF Inv, Good, Told, ToldIsStored, PrematureMeansOvertaken
<1>2. Spec => []Inv
  BY Invariance
<1> QED BY <1>1, <1>2, PTL

\* A published receipt and the record of a success never change again
\* (receiptPublicationWrites, buildSuccessfulFinalizationTransaction).
THEOREM PublicationsStay ==
    ASSUME CommitConstants
    PROVE  Spec => [][PublicationImmutable]_vars
<1>1. Inv /\ [Next]_vars => [PublicationImmutable]_vars
  BY StepForward DEF Forward, PublicationImmutable
<1>2. Spec => []Inv
  BY Invariance
<1> QED BY <1>1, <1>2, PTL DEF Spec

-----------------------------------------------------------------------------
\* The metadata items.  A second invariant, proved with the first one: an item
\* only gains fields, all of them patched by someone, and what a commit has read
\* of it is stored or behind it.

MetaItems == {"runtime", "delivery"}
Maps(s, it) == {g \in FieldMap : \A f \in DOMAIN g : g[f] \in Patches(s, it, f)}
Items(s, it) == [rev : Nat \ {0}, fields : Maps(s, it)] \cup {NoItem}

After(old, new) ==
    old # NoItem => /\ new # NoItem
                    /\ old.rev <= new.rev
                    /\ DOMAIN old.fields \subseteq DOMAIN new.fields
                    /\ old.rev = new.rev => old = new

Has(it, f) == it # NoItem /\ f \in DOMAIN it.fields

Carried(g, now) ==
    \A f \in DOMAIN g : /\ Has(now.runtime, f)
                        /\ f \in BundleFields => Has(now.delivery, f)

CallMeta(k, c, now) ==
    /\ k.runtime \in Items(Request[c].session, "runtime")
    /\ k.delivery \in Items(Request[c].session, "delivery")
    /\ After(k.runtime, now.runtime) /\ After(k.delivery, now.delivery)
    /\ k.result \in {"committed", "replayed"} => Carried(Request[c].runtime, now)

MetaTypes ==
    /\ DOMAIN meta = Sessions
    /\ \A s \in Sessions :
        /\ DOMAIN meta[s] = MetaItems
        /\ \A it \in MetaItems : meta[s][it] \in Items(s, it)

MetaInv ==
    /\ MetaTypes
    /\ \A c \in Commits : CallMeta(call[c], c, meta[Request[c].session])
    /\ \A m \in Merges :
        merge[m].result = "merged" =>
            \A f \in DOMAIN Patch[m].fields : Has(meta[Patch[m].session][Patch[m].item], f)

MetaForward(s) == \A it \in MetaItems : After(meta[s][it], meta'[s][it])

LEMMA AfterTransitive ==
    ASSUME NEW s, NEW it, NEW a \in Items(s, it), NEW b \in Items(s, it), NEW d \in Items(s, it),
           After(a, b), After(b, d)
    PROVE  After(a, d)
BY DEF After, Items

LEMMA HasAfter ==
    ASSUME NEW a, NEW b, After(a, b), NEW f, Has(a, f)
    PROVE  Has(b, f)
BY DEF After, Has

LEMMA CarriedAfter ==
    ASSUME NEW g, NEW a, NEW b, After(a.runtime, b.runtime), After(a.delivery, b.delivery), Carried(g, a)
    PROVE  Carried(g, b)
BY DEF After, Has, Carried

\* What a merge of a patch into an item does.
LEMMA MergedMap ==
    ASSUME NEW s, NEW it, NEW old \in Items(s, it), NEW g \in Maps(s, it)
    PROVE  /\ mergeMetadata(old, g) \in Maps(s, it)
           /\ DOMAIN g \subseteq DOMAIN mergeMetadata(old, g)
           /\ old # NoItem => DOMAIN old.fields \subseteq DOMAIN mergeMetadata(old, g)
<1> DEFINE h == IF old = NoItem THEN Empty ELSE old.fields
           F == [f \in DOMAIN g \cup DOMAIN h |-> IF f \in DOMAIN g THEN g[f] ELSE h[f]]
<1>1. F = mergeMetadata(old, g)
  BY DEF mergeMetadata
<1>2. h \in Maps(s, it) /\ DOMAIN h = IF old = NoItem THEN {} ELSE DOMAIN old.fields
  <2>1. Empty \in Maps(s, it) /\ DOMAIN Empty = {}
    BY DEF Empty, Maps, FieldMap
  <2> QED BY <2>1 DEF Items
<1> HIDE DEF h
<1>3. PICK D \in SUBSET Fields, E \in SUBSET Fields : g \in [D -> FieldValues] /\ h \in [E -> FieldValues]
  BY <1>2 DEF Maps, FieldMap
<1>4. F \in [D \cup E -> FieldValues]
  BY <1>3
<1>5. F \in FieldMap
  BY <1>3, <1>4 DEF FieldMap
<1>6. \A f \in DOMAIN F : F[f] \in Patches(s, it, f)
  BY <1>2 DEF Maps
<1> QED BY <1>1, <1>2, <1>5, <1>6 DEF Maps

LEMMA PutForward ==
    ASSUME CommitConstants, NEW s, NEW it, NEW old \in Items(s, it), NEW g \in Maps(s, it),
           NEW new, new = [rev |-> nextRevision(old), fields |-> mergeMetadata(old, g)]
    PROVE  /\ new \in Items(s, it) /\ new # NoItem
           /\ After(old, new)
           /\ \A f \in DOMAIN g : Has(new, f)
<1>1. /\ mergeMetadata(old, g) \in Maps(s, it)
      /\ DOMAIN g \subseteq DOMAIN mergeMetadata(old, g)
      /\ old # NoItem => DOMAIN old.fields \subseteq DOMAIN mergeMetadata(old, g)
  BY MergedMap
<1>2. nextRevision(old) \in Nat \ {0} /\ (old # NoItem => nextRevision(old) = old.rev + 1 /\ old.rev \in Nat)
  BY DEF nextRevision, Items
<1> DEFINE F == mergeMetadata(old, g)
           R == nextRevision(old)
<1> HIDE DEF F, R
<1>3. new = [rev |-> R, fields |-> F]
  BY DEF F, R
<1>4. new \in [rev : Nat \ {0}, fields : Maps(s, it)] /\ new \in MetadataItem
  BY <1>1, <1>2, <1>3 DEF F, R, MetadataItem, Maps
<1>5. new # NoItem
  BY <1>4 DEF CommitConstants
<1>6. After(old, new)
  BY <1>1, <1>2, <1>3, <1>5 DEF After, F, R
<1>7. \A f \in DOMAIN g : Has(new, f)
  BY <1>1, <1>3, <1>5 DEF Has, F
<1> QED BY <1>4, <1>5, <1>6, <1>7 DEF Items

\* The request of a commit and the patch of a merge are patches of their item, and
\* the bundle fields of the runtime item are patches of the delivery item.
LEMMA RequestMap ==
    ASSUME CommitConstants, NEW c \in Commits
    PROVE  Request[c].runtime \in Maps(Request[c].session, "runtime")
BY DEF CommitConstants, Maps, Patches

LEMMA PatchMap ==
    ASSUME CommitConstants, NEW m \in Merges
    PROVE  Patch[m].fields \in Maps(Patch[m].session, Patch[m].item)
BY DEF CommitConstants, Maps, Patches

LEMMA ProjectedMap ==
    ASSUME CommitConstants, NEW s, NEW g \in Maps(s, "runtime")
    PROVE  /\ projectRuntimeBundleDelivery(g) \in Maps(s, "delivery")
           /\ DOMAIN projectRuntimeBundleDelivery(g) = DOMAIN g \cap BundleFields
<1> DEFINE P == [f \in DOMAIN g \cap BundleFields |-> g[f]]
<1>1. P = projectRuntimeBundleDelivery(g)
  BY DEF projectRuntimeBundleDelivery
<1>2. PICK D \in SUBSET Fields : g \in [D -> FieldValues]
  BY DEF Maps, FieldMap
<1>3. P \in [D \cap BundleFields -> FieldValues]
  BY <1>2
<1>4. D \cap BundleFields \in SUBSET Fields
  OBVIOUS
<1>5. P \in FieldMap
  BY <1>3, <1>4 DEF FieldMap
<1>6. ASSUME NEW f \in DOMAIN g \cap BundleFields
      PROVE  g[f] \in Patches(s, "delivery", f)
  <2>1. g[f] \in Patches(s, "runtime", f)
    BY DEF Maps
  <2>2. \A m \in Merges : ~(Patch[m].item = "runtime" /\ f \in DOMAIN Patch[m].fields)
    BY DEF CommitConstants
  <2> QED BY <2>1, <2>2 DEF Patches
<1> QED BY <1>1, <1>5, <1>6 DEF Maps

LEMMA EmptyMap ==
    ASSUME NEW s, NEW it, NEW g \in Maps(s, it)
    PROVE  g = Empty <=> DOMAIN g = {}
BY DEF Maps, FieldMap, Empty

\* What a commit writes into the metadata items, or compares with them, contains
\* what its request carries.
LEMMA CommitMaps ==
    ASSUME CommitConstants, NEW c \in Commits, NEW k,
           k.runtime \in Items(Request[c].session, "runtime"),
           k.delivery \in Items(Request[c].session, "delivery")
    PROVE  LET q == Request[c]
               F == RuntimeFields(k, q)
               G == DeliveryFields(k, q)
               P == projectRuntimeBundleDelivery(F)
           IN  /\ F # Empty => F = mergeMetadata(k.runtime, q.runtime)
               /\ G # Empty => G = mergeMetadata(k.delivery, P) /\ P \in Maps(q.session, "delivery")
               /\ \A f \in DOMAIN q.runtime :
                    /\ F # Empty /\ f \in DOMAIN F
                    /\ f \in BundleFields => G # Empty /\ f \in DOMAIN G
<1> DEFINE q == Request[c]
           s == q.session
           F == RuntimeFields(k, q)
           G == DeliveryFields(k, q)
           P == projectRuntimeBundleDelivery(F)
<1>1. q.runtime \in Maps(s, "runtime")
  BY RequestMap
<1>2. CASE q.runtime = Empty
  <2>1. F = Empty
    BY <1>2 DEF RuntimeFields
  <2>2. DOMAIN F = {} /\ P = Empty
    BY <2>1 DEF Empty, projectRuntimeBundleDelivery
  <2>3. G = Empty
    BY <2>2 DEF DeliveryFields
  <2>4. DOMAIN q.runtime = {}
    BY <1>2 DEF Empty
  <2> QED BY <2>1, <2>3, <2>4
<1>3. CASE q.runtime # Empty
  <2>1. F = mergeMetadata(k.runtime, q.runtime)
    BY <1>3 DEF RuntimeFields
  <2>2. F \in Maps(s, "runtime") /\ DOMAIN q.runtime \subseteq DOMAIN F
    BY <1>1, <2>1, MergedMap
  <2>3. P \in Maps(s, "delivery") /\ DOMAIN P = DOMAIN F \cap BundleFields
    BY <2>2, ProjectedMap
  <2>4. G = IF P = Empty THEN Empty ELSE mergeMetadata(k.delivery, P)
    BY DEF DeliveryFields
  <2> HIDE DEF F, P, G
  <2>5. P # Empty => G \in Maps(s, "delivery") /\ DOMAIN P \subseteq DOMAIN G
    <3>1. /\ mergeMetadata(k.delivery, P) \in Maps(s, "delivery")
          /\ DOMAIN P \subseteq DOMAIN mergeMetadata(k.delivery, P)
      BY <2>3, MergedMap
    <3> QED BY <2>4, <3>1
  <2>6. \A f \in DOMAIN q.runtime : F # Empty /\ f \in DOMAIN F
    BY <2>2, EmptyMap
  <2>7. \A f \in DOMAIN q.runtime \cap BundleFields : G # Empty /\ f \in DOMAIN G
    <3> SUFFICES ASSUME NEW f \in DOMAIN q.runtime \cap BundleFields PROVE G # Empty /\ f \in DOMAIN G
      OBVIOUS
    <3>1. f \in DOMAIN P
      BY <2>2, <2>3
    <3>2. P # Empty
      BY <2>3, <3>1, EmptyMap
    <3> QED BY <2>5, <3>1, <3>2, EmptyMap
  <2> QED BY <2>1, <2>3, <2>4, <2>6, <2>7 DEF F, P, G
<1> QED BY <1>2, <1>3

LEMMA AfterItself ==
    ASSUME NEW s, NEW it, NEW a \in Items(s, it)
    PROVE  After(a, a)
BY DEF After, Items

\* The transaction merges the request into what the items hold.
LEMMA AppliedMeta ==
    ASSUME CommitConstants, MetaInv, NEW c \in Commits, WriteApplied(c)
    PROVE  /\ MetaTypes' /\ \A s \in Sessions : MetaForward(s)
           /\ Carried(Request[c].runtime, meta'[Request[c].session])
<1> DEFINE s == Request[c].session
           q == Request[c]
           k == call[c]
           F == RuntimeFields(k, q)
           G == DeliveryFields(k, q)
           P == projectRuntimeBundleDelivery(F)
           old == meta[s]
           run == IF F = Empty THEN old.runtime ELSE [rev |-> nextRevision(old.runtime), fields |-> F]
           del == IF G = Empty THEN old.delivery ELSE [rev |-> nextRevision(old.delivery), fields |-> G]
<1>1. meta' = [meta EXCEPT ![s] = [runtime |-> run, delivery |-> del]]
  BY DEF WriteApplied, buildSuccessfulFinalizationTransaction, metadataWrites
<1>2. /\ F # Empty => old.runtime = k.runtime
      /\ G # Empty => old.delivery = k.delivery
  BY DEF WriteApplied, Conditions, MetadataCondition
<1>3. /\ s \in Sessions /\ DOMAIN meta = Sessions /\ CallMeta(k, c, old)
      /\ old.runtime \in Items(s, "runtime") /\ old.delivery \in Items(s, "delivery")
      /\ k.runtime \in Items(s, "runtime") /\ k.delivery \in Items(s, "delivery")
  BY DEF CommitConstants, MetaInv, MetaTypes, MetaItems, CallMeta
<1>4. /\ F # Empty => F = mergeMetadata(k.runtime, q.runtime)
      /\ G # Empty => G = mergeMetadata(k.delivery, P) /\ P \in Maps(s, "delivery")
      /\ \A f \in DOMAIN q.runtime : /\ F # Empty /\ f \in DOMAIN F
                                     /\ f \in BundleFields => G # Empty /\ f \in DOMAIN G
  BY <1>3, CommitMaps
<1> HIDE DEF F, G, P, old, s, k
<1>5. /\ run \in Items(s, "runtime") /\ After(old.runtime, run)
      /\ F # Empty => run # NoItem /\ run.fields = F
  <2>1. CASE F = Empty
    BY <1>3, <2>1, AfterItself
  <2>2. CASE F # Empty
    <3>1. run = [rev |-> nextRevision(old.runtime), fields |-> mergeMetadata(old.runtime, q.runtime)]
      BY <1>2, <1>4, <2>2
    <3>2. q.runtime \in Maps(s, "runtime")
      BY RequestMap DEF s
    <3>3. run \in Items(s, "runtime") /\ run # NoItem /\ After(old.runtime, run)
      BY <1>3, <3>1, <3>2, PutForward
    <3> QED BY <2>2, <3>3
  <2> QED BY <2>1, <2>2
<1>6. /\ del \in Items(s, "delivery") /\ After(old.delivery, del)
      /\ G # Empty => del # NoItem /\ del.fields = G
  <2>1. CASE G = Empty
    BY <1>3, <2>1, AfterItself
  <2>2. CASE G # Empty
    <3>1. del = [rev |-> nextRevision(old.delivery), fields |-> mergeMetadata(old.delivery, P)]
      BY <1>2, <1>4, <2>2
    <3>2. P \in Maps(s, "delivery")
      BY <1>4, <2>2
    <3>3. del \in Items(s, "delivery") /\ del # NoItem /\ After(old.delivery, del)
      BY <1>3, <3>1, <3>2, PutForward
    <3> QED BY <2>2, <3>3
  <2> QED BY <2>1, <2>2
<1> HIDE DEF run, del
<1>7. /\ DOMAIN meta' = Sessions /\ DOMAIN meta'[s] = MetaItems
      /\ meta'[s].runtime = run /\ meta'[s].delivery = del
      /\ \A t \in Sessions : t # s => meta'[t] = meta[t]
  BY <1>1, <1>3 DEF MetaItems
<1>8. MetaTypes'
  BY <1>5, <1>6, <1>7 DEF MetaInv, MetaTypes, MetaItems
<1>9. ASSUME NEW t \in Sessions PROVE MetaForward(t)
  <2>1. CASE t = s
    BY <1>5, <1>6, <1>7, <2>1 DEF MetaForward, MetaItems, old
  <2>2. CASE t # s
    BY <1>7, <2>2, AfterItself DEF MetaForward, MetaInv, MetaTypes
  <2> QED BY <2>1, <2>2
<1>10. Carried(q.runtime, meta'[s])
  BY <1>4, <1>5, <1>6, <1>7 DEF Carried, Has
<1> QED BY <1>8, <1>9, <1>10 DEF s

LEMMA MergePutMeta ==
    ASSUME CommitConstants, Inv, MetaInv, NEW m \in Merges, MergePut(m)
    PROVE  /\ MetaTypes' /\ \A s \in Sessions : MetaForward(s)
           /\ \A d \in Merges : d # m => merge'[d] = merge[d]
           /\ merge'[m].result = "merged" =>
                \/ merge[m].result = "merged"
                \/ \A f \in DOMAIN Patch[m].fields : Has(meta'[Patch[m].session][Patch[m].item], f)
<1> DEFINE s == Patch[m].session
           it == Patch[m].item
           g == Patch[m].fields
           now == meta[s][it]
           new == [rev |-> nextRevision(now), fields |-> mergeMetadata(now, g)]
<1>1. s \in Sessions /\ it \in MetaItems /\ g \in Maps(s, it) /\ now \in Items(s, it)
      /\ DOMAIN meta = Sessions /\ \A t \in Sessions : DOMAIN meta[t] = MetaItems
  BY PatchMap DEF CommitConstants, MetaItems, MetaInv, MetaTypes
<1>2. DOMAIN merge = Merges /\ DOMAIN merge[m] = MergeFields
  BY DEF Inv, Types
<1>3. \A d \in Merges : d # m => merge'[d] = merge[d]
  BY <1>2 DEF MergePut
<1>4. CASE now # merge[m].seen
  <2>1. meta' = meta
    BY <1>4 DEF MergePut
  <2>2. merge'[m].result = "merged" => merge[m].result = "merged"
    BY <1>2, <1>4 DEF MergePut, MergeFields
  <2>3. MetaTypes' /\ \A t \in Sessions : MetaForward(t)
    BY <2>1, AfterItself DEF MetaInv, MetaTypes, MetaForward
  <2> QED BY <1>3, <2>2, <2>3
<1>5. CASE now = merge[m].seen
  <2>1. meta' = [meta EXCEPT ![s][it] = new]
    BY <1>5 DEF MergePut
  <2>2. new \in Items(s, it) /\ After(now, new) /\ \A f \in DOMAIN g : Has(new, f)
    BY <1>1, PutForward
  <2> HIDE DEF new
  <2>3. /\ DOMAIN meta' = Sessions /\ \A t \in Sessions : DOMAIN meta'[t] = MetaItems
        /\ meta'[s][it] = new
        /\ \A t \in Sessions, i \in MetaItems : t # s \/ i # it => meta'[t][i] = meta[t][i]
    BY <1>1, <2>1
  <2>4. MetaTypes'
    BY <2>2, <2>3 DEF MetaInv, MetaTypes
  <2>5. ASSUME NEW t \in Sessions, NEW i \in MetaItems PROVE After(meta[t][i], meta'[t][i])
    BY <2>2, <2>3, AfterItself DEF MetaInv, MetaTypes
  <2> QED BY <1>3, <2>2, <2>3, <2>4, <2>5 DEF MetaForward
<1> QED BY <1>4, <1>5

\* What a step does to a commit's view of the metadata.
CallMove(c) ==
    LET now == meta[Request[c].session]
    IN  /\ call'[c].runtime \in {call[c].runtime, now.runtime, NoItem}
        /\ call'[c].delivery \in {call[c].delivery, now.delivery, NoItem}
        /\ call'[c].result \in {"committed", "replayed"} =>
             \/ call'[c].result = call[c].result
             \/ WriteApplied(c)
             \/ assertSuccessfulFinalizationReplay(call[c], Request[c])

LEMMA ReadMoves ==
    ASSUME Inv, NEW c \in Commits, NEW step, NEW value, NEW next,
           NEW field \in CallFields \ {"pc", "result"}, Read(c, step, field, value, next),
           field = "runtime" => value \in {meta[Request[c].session].runtime, NoItem},
           field = "delivery" => value \in {meta[Request[c].session].delivery, NoItem}
    PROVE  CallMove(c) /\ \A d \in Commits : d # c => call'[d] = call[d]
<1>1. /\ \A d \in Commits : d # c => call'[d] = call[d]
      /\ call'[c][field] = value
      /\ \A f \in CallFields \ {"pc", field} : call'[c][f] = call[c][f]
  BY ReadFacts DEF Inv, Good
<1> QED BY <1>1 DEF CallMove, CallFields

LEMMA ReturnMoves ==
    ASSUME Inv, NEW c \in Commits, NEW result, NEW told, Return(c, result, told),
           result \in {"committed", "replayed"} =>
              WriteApplied(c) \/ assertSuccessfulFinalizationReplay(call[c], Request[c])
    PROVE  CallMove(c) /\ \A d \in Commits : d # c => call'[d] = call[d]
<1>1. /\ \A d \in Commits : d # c => call'[d] = call[d]
      /\ call'[c].result = result
      /\ \A f \in CallFields \ {"pc", "result", "told"} : call'[c][f] = call[c][f]
  BY ReturnFacts DEF Inv, Good
<1> QED BY <1>1 DEF CallMove, CallFields

LEMMA CommitMoves ==
    ASSUME CommitConstants, Inv, NEW c \in Commits, Begin(c) \/ CommitStep(c)
    PROVE  CallMove(c) /\ \A d \in Commits : d # c => call'[d] = call[d]
<1> DEFINE Goal == CallMove(c) /\ \A d \in Commits : d # c => call'[d] = call[d]
<1>0. DOMAIN call = Commits /\ DOMAIN call[c] = CallFields
  BY DEF Inv, Types, Good, Sane
<1>1. CASE Begin(c)
  <2>1. /\ \A d \in Commits : d # c => call'[d] = call[d]
        /\ \A f \in CallFields \ {"pc", "since"} : call'[c][f] = call[c][f]
    BY <1>0, <1>1 DEF Begin, CallFields
  <2> QED BY <2>1 DEF CallMove, CallFields
<1>2. CASE loadSuccessfulCommitAuthority(c)
  BY <1>2, ReadMoves, ReturnMoves DEF loadSuccessfulCommitAuthority, CallFields
<1>3. CASE loadReceipt(c) \/ loadBitmap(c) \/ loadVerification(c)
  BY <1>3, ReadMoves DEF loadReceipt, loadBitmap, loadVerification, CallFields
<1>4. CASE loadSuccessfulCommitMetadata(c)
  BY <1>4, ReadMoves DEF loadSuccessfulCommitMetadata, CallFields
<1>5. CASE loadSuccessfulCommitDelivery(c)
  BY <1>5, ReadMoves DEF loadSuccessfulCommitDelivery, CallFields
<1>6. CASE loadCounter(c)
  BY <1>6, ReadMoves, ReturnMoves DEF loadCounter, CallFields
<1>7. CASE buildSuccessfulCommitTransaction(c)
  BY <1>7, ReadMoves DEF buildSuccessfulCommitTransaction, CallFields
<1>8. CASE Decide(c)
  <2>1. CASE call' = [call EXCEPT ![c].pc = "ttl"]
    <3>1. /\ \A d \in Commits : d # c => call'[d] = call[d]
          /\ \A f \in CallFields \ {"pc"} : call'[c][f] = call[c][f]
      BY <1>0, <2>1 DEF CallFields
    <3> QED BY <3>1 DEF CallMove, CallFields
  <2>2. CASE call' # [call EXCEPT ![c].pc = "ttl"]
    BY <1>8, <2>2, ReturnMoves DEF Decide
  <2> QED BY <2>1, <2>2
<1>9. CASE WriteApplied(c)
  <2>1. CASE Return(c, "error", NoItem)
    BY <1>9, <2>1, ReturnMoves
  <2>2. CASE ~Return(c, "error", NoItem)
    BY <1>9, <2>2, ReturnMoves DEF WriteApplied
  <2> QED BY <2>1, <2>2
<1>10. CASE WriteRefused(c)
  <2>1. CASE Return(c, "contended", NoItem)
    BY <2>1, ReturnMoves
  <2>2. CASE ~Return(c, "contended", NoItem)
    <3>1. call' = [call EXCEPT ![c] = [Idle EXCEPT !.pc = "record", !.attempt = call[c].attempt + 1,
                                                 !.since = call[c].since]]
      BY <1>10, <2>2 DEF WriteRefused
    <3>2. /\ \A d \in Commits : d # c => call'[d] = call[d]
          /\ call'[c].runtime = NoItem /\ call'[c].delivery = NoItem /\ call'[c].result = "none"
      BY <1>0, <3>1 DEF Idle
    <3> QED BY <3>2 DEF CallMove
  <2> QED BY <2>1, <2>2
<1> QED BY <1>1, <1>2, <1>3, <1>4, <1>5, <1>6, <1>7, <1>8, <1>9, <1>10 DEF CommitStep

\* A step takes the metadata items forward.
LEMMA StepMeta ==
    ASSUME CommitConstants, Inv, MetaInv, [Next]_vars
    PROVE  MetaTypes' /\ \A s \in Sessions : MetaForward(s)
<1>1. CASE UNCHANGED meta
  BY <1>1, AfterItself DEF MetaInv, MetaTypes, MetaForward
<1>2. \/ UNCHANGED meta
      \/ \E c \in Commits : WriteApplied(c)
      \/ \E m \in Merges : MergePut(m)
  BY DEF Next, vars, CommitStep, MergeStep, Begin, Read, table, loadSuccessfulCommitAuthority,
         loadReceipt, loadCounter, loadSuccessfulCommitMetadata, loadSuccessfulCommitDelivery,
         loadBitmap, loadVerification, Decide, buildSuccessfulCommitTransaction, WriteRefused,
         MergeRead, FailedElsewhere, VerificationWritten, TouchSession
<1> QED BY <1>1, <1>2, AppliedMeta, MergePutMeta

\* A replay is told only if what the request carries is in the items that it read.
LEMMA ReplayCarried ==
    ASSUME CommitConstants, NEW c \in Commits, NEW now, CallMeta(call[c], c, now),
           assertSuccessfulFinalizationReplay(call[c], Request[c])
    PROVE  Carried(Request[c].runtime, now)
<1> DEFINE k == call[c]
           q == Request[c]
           F == RuntimeFields(k, q)
           G == DeliveryFields(k, q)
<1>1. /\ F # Empty => k.runtime # NoItem /\ k.runtime.fields = F
      /\ G # Empty => k.delivery # NoItem /\ k.delivery.fields = G
  BY DEF assertSuccessfulFinalizationReplay
<1>2. \A f \in DOMAIN q.runtime : /\ F # Empty /\ f \in DOMAIN F
                                  /\ f \in BundleFields => G # Empty /\ f \in DOMAIN G
  BY CommitMaps DEF CallMeta
<1> HIDE DEF F, G
<1>3. \A f \in DOMAIN q.runtime : /\ Has(k.runtime, f)
                                  /\ f \in BundleFields => Has(k.delivery, f)
  BY <1>1, <1>2 DEF Has
<1>4. After(k.runtime, now.runtime) /\ After(k.delivery, now.delivery)
  BY DEF CallMeta
<1> QED BY <1>3, <1>4, HasAfter DEF Carried

LEMMA CallMetaKept ==
    ASSUME CommitConstants, Inv, MetaInv, [Next]_vars, NEW c \in Commits
    PROVE  CallMeta(call'[c], c, meta'[Request[c].session])
<1> DEFINE s == Request[c].session
           now == meta[s]
           new == meta'[s]
<1>1. s \in Sessions /\ CallMeta(call[c], c, now)
  BY DEF CommitConstants, MetaInv
<1>2. /\ now.runtime \in Items(s, "runtime") /\ now.delivery \in Items(s, "delivery")
      /\ new.runtime \in Items(s, "runtime") /\ new.delivery \in Items(s, "delivery")
      /\ After(now.runtime, new.runtime) /\ After(now.delivery, new.delivery)
  BY <1>1, StepMeta DEF MetaInv, MetaTypes, MetaForward, MetaItems
<1>3. call'[c] = call[c] \/ CallMove(c)
  <2>1. \/ call' = call
        \/ \E d \in Commits : Begin(d) \/ CommitStep(d)
    BY DEF Next, vars, MergeStep, MergeRead, MergePut, VerificationWritten, FailedElsewhere, TouchSession
  <2> QED BY <2>1, CommitMoves
<1>4. /\ call'[c].runtime \in {call[c].runtime, now.runtime, NoItem}
      /\ call'[c].delivery \in {call[c].delivery, now.delivery, NoItem}
      /\ call'[c].result \in {"committed", "replayed"} =>
           \/ call'[c].result = call[c].result
           \/ WriteApplied(c)
           \/ assertSuccessfulFinalizationReplay(call[c], Request[c])
  BY <1>3 DEF CallMove
<1> HIDE DEF s, now, new
<1>5. /\ call[c].runtime \in Items(s, "runtime") /\ After(call[c].runtime, now.runtime)
      /\ call[c].delivery \in Items(s, "delivery") /\ After(call[c].delivery, now.delivery)
      /\ call[c].result \in {"committed", "replayed"} => Carried(Request[c].runtime, now)
  BY <1>1 DEF CallMeta, s
<1>6. /\ After(call[c].runtime, new.runtime) /\ After(call[c].delivery, new.delivery)
      /\ After(NoItem, new.runtime) /\ After(NoItem, new.delivery) /\ NoItem \in Items(s, "runtime")
      /\ NoItem \in Items(s, "delivery")
  <2>1. After(call[c].runtime, new.runtime)
    BY <1>2, <1>5, AfterTransitive
  <2>2. After(call[c].delivery, new.delivery)
    BY <1>2, <1>5, AfterTransitive
  <2> QED BY <2>1, <2>2 DEF After, Items
<1>7. /\ call'[c].runtime \in Items(s, "runtime") /\ After(call'[c].runtime, new.runtime)
      /\ call'[c].delivery \in Items(s, "delivery") /\ After(call'[c].delivery, new.delivery)
  BY <1>2, <1>4, <1>5, <1>6
<1>8. call'[c].result \in {"committed", "replayed"} => Carried(Request[c].runtime, new)
  <2>1. CASE Carried(Request[c].runtime, now)
    BY <1>2, <2>1, CarriedAfter
  <2>2. CASE WriteApplied(c)
    BY <2>2, AppliedMeta DEF new, s
  <2>3. CASE assertSuccessfulFinalizationReplay(call[c], Request[c])
    BY <1>1, <2>1, <2>3, ReplayCarried
  <2> QED BY <1>4, <1>5, <2>1, <2>2, <2>3
<1> QED BY <1>7, <1>8 DEF CallMeta, s, new

LEMMA MergesKept ==
    ASSUME CommitConstants, Inv, MetaInv, [Next]_vars, NEW m \in Merges, merge'[m].result = "merged",
           NEW f \in DOMAIN Patch[m].fields
    PROVE  Has(meta'[Patch[m].session][Patch[m].item], f)
<1>1. After(meta[Patch[m].session][Patch[m].item], meta'[Patch[m].session][Patch[m].item])
  BY StepMeta DEF CommitConstants, MetaForward, MetaItems
<1>2. CASE merge[m].result = "merged"
  BY <1>1, <1>2, HasAfter DEF MetaInv
<1>3. CASE merge[m].result # "merged"
  <2>1. ASSUME NEW d \in Merges, MergeRead(d) PROVE merge'[m].result = merge[m].result
    BY <2>1 DEF MergeRead, Inv, Types, MergeFields
  <2>2. \/ merge' = merge
        \/ \E d \in Merges : MergeRead(d) \/ MergePut(d)
    BY DEF Next, vars, MergeStep, CommitStep, Begin, Read, loadSuccessfulCommitAuthority,
           loadReceipt, loadCounter, loadSuccessfulCommitMetadata, loadSuccessfulCommitDelivery,
           loadBitmap, loadVerification, Decide, buildSuccessfulCommitTransaction, WriteRefused,
           WriteApplied, FailedElsewhere, VerificationWritten, TouchSession
  <2>3. PICK d \in Merges : MergePut(d)
    BY <1>3, <2>1, <2>2
  <2> QED BY <1>3, <2>3, MergePutMeta
<1> QED BY <1>2, <1>3

LEMMA MetaKeeps ==
    ASSUME CommitConstants
    PROVE  Inv /\ MetaInv /\ [Next]_vars => MetaInv'
<1> SUFFICES ASSUME Inv, MetaInv, [Next]_vars PROVE MetaInv'
  OBVIOUS
<1>1. MetaTypes'
  BY StepMeta
<1>2. \A c \in Commits : CallMeta(call'[c], c, meta'[Request[c].session])
  BY CallMetaKept
<1>3. \A m \in Merges : merge'[m].result = "merged" =>
          \A f \in DOMAIN Patch[m].fields : Has(meta'[Patch[m].session][Patch[m].item], f)
  BY MergesKept
<1> QED BY <1>1, <1>2, <1>3 DEF MetaInv, CallMeta, After, Has, Carried, Items, Maps, Patches

LEMMA MetaInitially ==
    ASSUME CommitConstants
    PROVE  Init => MetaInv
BY DEF Init, MetaInv, MetaTypes, MetaItems, Items, CallMeta, After, Idle, IdleMerge, CommitConstants

LEMMA MetaInvariance ==
    ASSUME CommitConstants
    PROVE  Spec => []MetaInv
<1>1. Init => MetaInv
  BY MetaInitially
<1>2. Inv /\ MetaInv /\ [Next]_vars => MetaInv'
  BY MetaKeeps
<1>3. Spec => []Inv
  BY Invariance
<1> QED BY <1>1, <1>2, <1>3, PTL DEF Spec

\* No metadata is lost: every field that a merge or a commit was told to have
\* stored is there, with a value that someone patched, although the items are
\* rewritten whole (mergeRuntimeMetadata, mergeDeliveryMetadata,
\* loadSuccessfulCommitMetadata).
THEOREM MetadataStays ==
    ASSUME CommitConstants
    PROVE  Spec => []MetadataKept
<1>1. MetaInv => MetadataKept
  <2> SUFFICES ASSUME MetaInv PROVE MetadataKept
    OBVIOUS
  <2>1. ASSUME NEW s \in Sessions, NEW it \in MetaItems, NEW f, Has(meta[s][it], f)
        PROVE  Holds(s, it, f)
    BY <2>1 DEF MetaInv, MetaTypes, Items, Maps, Has, Holds
  <2>2. ASSUME NEW m \in Merges, merge[m].result = "merged", NEW f \in DOMAIN Patch[m].fields
        PROVE  Holds(Patch[m].session, Patch[m].item, f)
    BY <2>1, <2>2 DEF MetaInv, CommitConstants, MetaItems
  <2>3. ASSUME NEW c \in Commits, call[c].result \in {"committed", "replayed"},
               NEW f \in DOMAIN Request[c].runtime
        PROVE  /\ Holds(Request[c].session, "runtime", f)
               /\ f \in BundleFields => Holds(Request[c].session, "delivery", f)
    <3>1. Carried(Request[c].runtime, meta[Request[c].session])
      BY <2>3 DEF MetaInv, CallMeta
    <3> QED BY <2>1, <3>1 DEF Carried, CommitConstants, MetaItems
  <2> QED BY <2>2, <2>3 DEF MetadataKept
<1>2. Spec => []MetaInv
  BY MetaInvariance
<1> QED BY <1>1, <1>2, PTL

-----------------------------------------------------------------------------
\* Contention.  A third invariant counts writes: those that a commit has seen, of
\* the items it has read, and those there are, of the others, are at least as many
\* as when it began and one more for every attempt.

AfterCounter == Steps \ {"record", "receipt", "counter"}
AfterRuntime == AfterCounter \ {"runtime"}
AfterDelivery == AfterRuntime \ {"delivery"}

Num(n) == IF n = NoItem THEN 0 ELSE n
Bundled(k, q) == projectRuntimeBundleDelivery(RuntimeFields(k, q)) # Empty

SeenRecord(k, q) == IF Reading(k) THEN k.record.rev ELSE record[q.session].rev
SeenCounter(k, q) ==
    IF k.pc \in AfterCounter /\ q.receipt # NoItem THEN Num(k.counter) ELSE Num(counter)
SeenRuntime(k, q) ==
    IF k.pc \in AfterRuntime /\ q.runtime # Empty THEN nextRevision(k.runtime)
    ELSE nextRevision(meta[q.session].runtime)
SeenDelivery(k, q) ==
    IF k.pc \in AfterDelivery /\ Bundled(k, q) THEN nextRevision(k.delivery)
    ELSE nextRevision(meta[q.session].delivery)
SeenVoting(k, q) == IF k.pc = "write" THEN k.voting ELSE voting[q.session]

Seen(k, q) == SeenCounter(k, q) + SeenRecord(k, q) + SeenVoting(k, q)
                + (SeenRuntime(k, q) + SeenDelivery(k, q))

Counted(k, q) ==
    /\ k.since \in Nat /\ k.voting \in Nat
    /\ k.pc = "idle" => k.attempt = 0 /\ k.result = "none"
    /\ Num(k.counter) <= Num(counter) /\ k.counter # 0
    /\ k.voting <= voting[q.session]
    /\ k.pc \in Steps => k.since + k.attempt <= Seen(k, q)
    /\ k.result = "contended" => k.since + CommitAttempts <= Writes(q.session)

CountInv == \A c \in Commits : Counted(call[c], Request[c])

\* What there is to see, and what a commit has seen of it, are numbers, the second
\* not greater than the first.
Numbers(k, q) ==
    /\ SeenCounter(k, q) \in Nat /\ Num(counter) \in Nat /\ SeenCounter(k, q) <= Num(counter)
    /\ SeenRecord(k, q) \in Nat /\ record[q.session].rev \in Nat
    /\ SeenRecord(k, q) <= record[q.session].rev
    /\ SeenVoting(k, q) \in Nat /\ voting[q.session] \in Nat /\ SeenVoting(k, q) <= voting[q.session]
    /\ SeenRuntime(k, q) \in Nat /\ nextRevision(meta[q.session].runtime) \in Nat
    /\ SeenRuntime(k, q) <= nextRevision(meta[q.session].runtime)
    /\ SeenDelivery(k, q) \in Nat /\ nextRevision(meta[q.session].delivery) \in Nat
    /\ SeenDelivery(k, q) <= nextRevision(meta[q.session].delivery)

\* An item that was read is stored unless there is a greater revision now.
LEMMA RevisionAfter ==
    ASSUME NEW s, NEW it, NEW a \in Items(s, it), NEW b \in Items(s, it), After(a, b)
    PROVE  /\ nextRevision(a) \in Nat /\ nextRevision(b) \in Nat
           /\ nextRevision(a) <= nextRevision(b)
           /\ a # b => nextRevision(a) < nextRevision(b)
BY DEF Items, After, nextRevision

LEMMA SeenIsThere ==
    ASSUME CommitConstants, Inv, MetaInv, CountInv, NEW c \in Commits
    PROVE  Numbers(call[c], Request[c])
<1> DEFINE k == call[c]
           q == Request[c]
           s == q.session
<1>1. /\ s \in Sessions /\ Types /\ Good(k, record[s], receipt[s]) /\ Sane(k)
      /\ CallMeta(k, c, meta[s]) /\ Counted(k, q)
      /\ meta[s].runtime \in Items(s, "runtime") /\ meta[s].delivery \in Items(s, "delivery")
  BY DEF CommitConstants, Inv, Good, MetaInv, MetaTypes, MetaItems, CountInv
<1>2. SeenCounter(k, q) \in Nat /\ Num(counter) \in Nat /\ SeenCounter(k, q) <= Num(counter)
  BY <1>1 DEF SeenCounter, Num, Types, Sane, Counted
<1>3. SeenRecord(k, q) \in Nat /\ record[s].rev \in Nat /\ SeenRecord(k, q) <= record[s].rev
  BY <1>1 DEF SeenRecord, Types, Good, Behind
<1>4. SeenVoting(k, q) \in Nat /\ voting[s] \in Nat /\ SeenVoting(k, q) <= voting[s]
  BY <1>1 DEF SeenVoting, Types, Counted
<1>5. /\ nextRevision(k.runtime) \in Nat /\ nextRevision(meta[s].runtime) \in Nat
      /\ nextRevision(k.runtime) <= nextRevision(meta[s].runtime)
  BY <1>1, RevisionAfter DEF CallMeta
<1>6. /\ nextRevision(k.delivery) \in Nat /\ nextRevision(meta[s].delivery) \in Nat
      /\ nextRevision(k.delivery) <= nextRevision(meta[s].delivery)
  BY <1>1, RevisionAfter DEF CallMeta
<1>7. /\ SeenRuntime(k, q) \in Nat /\ SeenRuntime(k, q) <= nextRevision(meta[s].runtime)
      /\ SeenDelivery(k, q) \in Nat /\ SeenDelivery(k, q) <= nextRevision(meta[s].delivery)
  BY <1>5, <1>6 DEF SeenRuntime, SeenDelivery
<1> QED BY <1>2, <1>3, <1>4, <1>5, <1>6, <1>7 DEF Numbers

\* If a condition of the transaction fails, one of the items was written since the
\* commit read it.
LEMMA Overtaken ==
    ASSUME CommitConstants, Inv, MetaInv, CountInv, NEW c \in Commits,
           call[c].pc = "write", ~Conditions(call[c], Request[c])
    PROVE  Seen(call[c], Request[c]) + 1 <= Writes(Request[c].session)
<1> DEFINE k == call[c]
           q == Request[c]
           s == q.session
<1>1. /\ s \in Sessions /\ Types /\ EvidenceFollowsRecord /\ BoardDense
      /\ Good(k, record[s], receipt[s]) /\ Sane(k)
      /\ CallMeta(k, c, meta[s]) /\ Counted(k, q)
      /\ meta[s].runtime \in Items(s, "runtime") /\ meta[s].delivery \in Items(s, "delivery")
  BY DEF CommitConstants, Inv, Good, MetaInv, MetaTypes, MetaItems, CountInv
<1>2. Behind(k, record[s]) /\ k.record.status = "running" /\ SeenRecord(k, q) = k.record.rev
  BY <1>1 DEF Good, Reading, Steps, SeenRecord
<1>3. record[s].rev # k.record.rev => SeenRecord(k, q) < record[s].rev
  BY <1>1, <1>2 DEF Behind, Types
<1>4. record[s].status = "succeeded" => record[s].rev # k.record.rev
  BY <1>2 DEF Behind
<1>5. receipt[s] # NoItem \/ verification[s] # NoItem \/ bitmap[s] # NoItem
        => record[s].status = "succeeded"
  BY <1>1, EvidenceMeansSuccess
<1>6. q.receipt # NoItem /\ counter # k.counter => SeenCounter(k, q) < Num(counter)
  <2>1. counter # NoItem => counter \in Nat /\ counter >= 1
    <3>1. Cardinality(Published) \in Nat
      BY FS_CardinalityType DEF Inv
    <3> QED BY <1>1, <3>1 DEF BoardDense, FIRST_RECEIPT_BOARD_INDEX, Types
  <2>2. "write" \in AfterCounter
    BY DEF AfterCounter, Steps
  <2>3. k.counter \in Nat \cup {NoItem} /\ k.counter # 0 /\ Num(k.counter) <= Num(counter)
    BY <1>1 DEF Counted, Sane
  <2>4. k.counter # counter => Num(k.counter) < Num(counter)
    BY <2>1, <2>3 DEF Num
  <2> QED BY <2>2, <2>4 DEF SeenCounter
<1>7. RuntimeFields(k, q) # Empty /\ meta[s].runtime # k.runtime
        => SeenRuntime(k, q) < nextRevision(meta[s].runtime)
  <2>1. RuntimeFields(k, q) # Empty => q.runtime # Empty
    BY DEF RuntimeFields
  <2>2. k.runtime # meta[s].runtime => nextRevision(k.runtime) < nextRevision(meta[s].runtime)
    BY <1>1, RevisionAfter DEF CallMeta
  <2>3. "write" \in AfterRuntime
    BY DEF AfterRuntime, AfterCounter, Steps
  <2> QED BY <2>1, <2>2, <2>3 DEF SeenRuntime
<1>8. DeliveryFields(k, q) # Empty /\ meta[s].delivery # k.delivery
        => SeenDelivery(k, q) < nextRevision(meta[s].delivery)
  <2>1. DeliveryFields(k, q) # Empty => Bundled(k, q)
    BY DEF DeliveryFields, Bundled
  <2>2. k.delivery # meta[s].delivery => nextRevision(k.delivery) < nextRevision(meta[s].delivery)
    BY <1>1, RevisionAfter DEF CallMeta
  <2>3. "write" \in AfterDelivery
    BY DEF AfterDelivery, AfterRuntime, AfterCounter, Steps
  <2> QED BY <2>1, <2>2, <2>3 DEF SeenDelivery
<1>9. voting[s] # k.voting => SeenVoting(k, q) < voting[s]
  BY <1>1 DEF SeenVoting, Counted, Types
<1>10. \/ SeenRecord(k, q) < record[s].rev \/ SeenCounter(k, q) < Num(counter)
       \/ SeenRuntime(k, q) < nextRevision(meta[s].runtime)
       \/ SeenDelivery(k, q) < nextRevision(meta[s].delivery)
       \/ SeenVoting(k, q) < voting[s]
  BY <1>3, <1>4, <1>5, <1>6, <1>7, <1>8, <1>9
     DEF Conditions, ReceiptCondition, ArtifactCondition, MetadataCondition
<1>11. Numbers(k, q)
  BY SeenIsThere
<1> HIDE DEF k, q
<1> QED
  <2>1. Seen(k, q) + 1 <= Writes(s)
    BY <1>10, <1>11 DEF Numbers, Seen, Writes, Num
  <2> QED BY <2>1 DEF k, q

\* Nothing that is counted decreases.
CountsForward(s) ==
    /\ Num(counter) \in Nat /\ Num(counter') \in Nat /\ Num(counter) <= Num(counter')
    /\ record[s].rev \in Nat /\ record'[s].rev \in Nat /\ record[s].rev <= record'[s].rev
    /\ voting[s] \in Nat /\ voting'[s] \in Nat /\ voting[s] <= voting'[s]
    /\ \A it \in MetaItems :
        /\ nextRevision(meta[s][it]) \in Nat /\ nextRevision(meta'[s][it]) \in Nat
        /\ nextRevision(meta[s][it]) <= nextRevision(meta'[s][it])

LEMMA StepCounts ==
    ASSUME CommitConstants, Inv, Inv', MetaInv, [Next]_vars, NEW s \in Sessions
    PROVE  CountsForward(s)
<1>1. ASSUME NEW it \in MetaItems
      PROVE  /\ nextRevision(meta[s][it]) \in Nat /\ nextRevision(meta'[s][it]) \in Nat
             /\ nextRevision(meta[s][it]) <= nextRevision(meta'[s][it])
  <2>1. meta[s][it] \in Items(s, it) /\ meta'[s][it] \in Items(s, it) /\ After(meta[s][it], meta'[s][it])
    BY StepMeta DEF MetaInv, MetaTypes, MetaForward
  <2> QED BY <2>1, RevisionAfter
<1>2. record[s].rev \in Nat /\ record'[s].rev \in Nat /\ record[s].rev <= record'[s].rev
  BY StepForward DEF Forward, Inv, Types
<1>3. voting[s] \in Nat /\ voting'[s] \in Nat /\ voting[s] <= voting'[s]
  <2>1. \/ voting' = voting
        \/ \E t \in Sessions : voting' = [voting EXCEPT ![t] = @ + 1]
    BY DEF Next, vars, CommitStep, MergeStep, Begin, Read, table, loadSuccessfulCommitAuthority,
           loadReceipt, loadCounter, loadSuccessfulCommitMetadata, loadSuccessfulCommitDelivery,
           loadBitmap, loadVerification, Decide, buildSuccessfulCommitTransaction, WriteRefused,
           WriteApplied, buildSuccessfulFinalizationTransaction, CommitConstants,
           MergeRead, MergePut, FailedElsewhere, VerificationWritten, TouchSession
  <2> QED BY <2>1 DEF Inv, Types
<1>4. Num(counter) \in Nat /\ Num(counter') \in Nat /\ Num(counter) <= Num(counter')
  <2>1. Num(counter) \in Nat /\ Num(counter') \in Nat
    BY DEF Inv, Types, Num
  <2>2. ASSUME NEW c \in Commits, WriteApplied(c) PROVE Num(counter) <= Num(counter')
    <3> DEFINE q == Request[c]
               n == IF counter = NoItem THEN FIRST_RECEIPT_BOARD_INDEX ELSE counter
    <3>1. n \in Nat /\ Publication(call[c], q) = IF q.receipt = NoItem THEN NoItem
                                    ELSE [hash |-> [sha256 |-> q.receipt], index |-> n]
      BY <2>2, WriteIsFirst DEF WriteApplied
    <3>2. counter' = counter \/ counter' = n + 1
      BY <2>2, <3>1 DEF WriteApplied, buildSuccessfulFinalizationTransaction, receiptPublicationWrites
    <3>3. NoItem \notin Nat
      BY DEF CommitConstants
    <3>4. n + 1 # NoItem /\ Num(counter) <= n + 1
      BY <2>1, <3>1, <3>3 DEF Num
    <3>5. CASE counter' = counter
      BY <2>1, <3>5
    <3>6. CASE counter' = n + 1
      <4>1. Num(counter') = n + 1
        BY <3>4, <3>6 DEF Num
      <4> QED BY <3>4, <4>1
    <3> QED BY <3>2, <3>5, <3>6
  <2>3. counter' = counter \/ \E c \in Commits : WriteApplied(c)
    BY DEF Next, vars, CommitStep, MergeStep, Begin, Read, table, loadSuccessfulCommitAuthority,
           loadReceipt, loadCounter, loadSuccessfulCommitMetadata, loadSuccessfulCommitDelivery,
           loadBitmap, loadVerification, Decide, buildSuccessfulCommitTransaction, WriteRefused,
           MergeRead, MergePut, FailedElsewhere, VerificationWritten, TouchSession
  <2>4. CASE counter' = counter
    BY <2>1, <2>4
  <2>5. CASE \E c \in Commits : WriteApplied(c)
    BY <2>1, <2>2, <2>5
  <2> QED BY <2>3, <2>4, <2>5
<1> QED BY <1>1, <1>2, <1>3, <1>4 DEF CountsForward

\* A commit that does not move stays counted.
LEMMA CountedKept ==
    ASSUME CommitConstants, Inv, MetaInv, CountInv, NEW c \in Commits, call'[c] = call[c],
           CountsForward(Request[c].session)
    PROVE  Counted(call[c], Request[c])'
<1> DEFINE k == call[c]
           q == Request[c]
           s == q.session
<1>1. Counted(k, q) /\ Sane(k) /\ Numbers(k, q)
  BY SeenIsThere DEF CountInv, Inv, Good
<1>2. CountsForward(s) /\ call'[c] = k
  OBVIOUS
<1>3. Seen(k, q)' \in Nat /\ Seen(k, q) <= Seen(k, q)'
  <2>1. SeenCounter(k, q)' \in Nat /\ SeenCounter(k, q) <= SeenCounter(k, q)'
    BY <1>1, <1>2 DEF SeenCounter, CountsForward, Numbers
  <2>2. SeenRecord(k, q)' \in Nat /\ SeenRecord(k, q) <= SeenRecord(k, q)'
    BY <1>1, <1>2 DEF SeenRecord, Reading, CountsForward, Numbers
  <2>3. SeenVoting(k, q)' \in Nat /\ SeenVoting(k, q) <= SeenVoting(k, q)'
    BY <1>1, <1>2 DEF SeenVoting, CountsForward, Numbers
  <2>4. SeenRuntime(k, q)' \in Nat /\ SeenRuntime(k, q) <= SeenRuntime(k, q)'
    BY <1>1, <1>2 DEF SeenRuntime, CountsForward, Numbers, MetaItems
  <2>5. SeenDelivery(k, q)' \in Nat /\ SeenDelivery(k, q) <= SeenDelivery(k, q)'
    BY <1>1, <1>2 DEF SeenDelivery, Bundled, RuntimeFields, CountsForward, Numbers, MetaItems
  <2> QED BY <1>1, <2>1, <2>2, <2>3, <2>4, <2>5 DEF Seen, Numbers
<1>4. Writes(s) \in Nat /\ Writes(s)' \in Nat /\ Writes(s) <= Writes(s)'
  <2>1. Writes(s) = Num(counter) + record[s].rev + voting[s]
                      + (nextRevision(meta[s].runtime) + nextRevision(meta[s].delivery))
    BY DEF Writes, Num
  <2>2. Writes(s)' = Num(counter') + record'[s].rev + voting'[s]
                      + (nextRevision(meta'[s].runtime) + nextRevision(meta'[s].delivery))
    BY DEF Writes, Num
  <2> QED BY <1>2, <2>1, <2>2 DEF CountsForward, MetaItems
<1>5. Seen(k, q) \in Nat
  BY <1>1 DEF Numbers, Seen
<1>6. Num(k.counter) <= Num(counter')
  <2>1. Num(k.counter) \in Nat
    BY <1>1 DEF Sane, Num
  <2> QED BY <1>1, <1>2, <2>1 DEF Counted, CountsForward
<1>7. k.voting <= voting'[s]
  BY <1>1, <1>2 DEF Counted, CountsForward
<1>8. k.pc \in Steps => k.since + k.attempt <= Seen(k, q)'
  BY <1>1, <1>3, <1>5 DEF Counted, Sane
<1>9. k.result = "contended" => k.since + CommitAttempts <= Writes(s)'
  BY <1>1, <1>4 DEF Counted, CommitConstants
<1> QED BY <1>1, <1>2, <1>6, <1>7, <1>8, <1>9 DEF Counted

\* A read takes over what is there: the writes seen stay the same.
SameSeen(n, k, q) ==
    /\ SeenCounter(n, q) = SeenCounter(k, q) /\ SeenRecord(n, q) = SeenRecord(k, q)
    /\ SeenVoting(n, q) = SeenVoting(k, q)
    /\ SeenRuntime(n, q) = SeenRuntime(k, q) /\ SeenDelivery(n, q) = SeenDelivery(k, q)

LEMMA CountedRead ==
    ASSUME CommitConstants, Inv, CountInv, NEW c \in Commits,
           NEW step, NEW value, NEW next \in Steps, NEW field \in CallFields \ {"pc"},
           Read(c, step, field, value, next), step \in Steps,
           field \notin {"since", "attempt", "result"},
           field = "counter" => value = counter,
           field = "voting" => value = voting[Request[c].session],
           SameSeen(call'[c], call[c], Request[c])
    PROVE  Counted(call'[c], Request[c])
<1> DEFINE k == call[c]
           q == Request[c]
           n == call'[c]
<1>1. Counted(k, q) /\ q.session \in Sessions /\ Types /\ BoardDense
  BY DEF CountInv, CommitConstants, Inv
<1>2. /\ n.pc = next /\ n[field] = value /\ k.pc = step
      /\ \A f \in CallFields \ {"pc", field} : n[f] = k[f]
  BY ReadFacts DEF Inv, Good
<1>3. Seen(n, q) = Seen(k, q)
  BY DEF Seen, SameSeen
<1>4. n.since = k.since /\ n.attempt = k.attempt /\ n.result = k.result
  BY <1>2 DEF CallFields
<1>5. counter # 0 /\ Num(counter) \in Nat
  <2>1. Cardinality(Published) \in Nat
    BY FS_CardinalityType DEF Inv
  <2>2. NoItem # 0
    BY DEF CommitConstants
  <2> QED BY <1>1, <2>1, <2>2 DEF BoardDense, FIRST_RECEIPT_BOARD_INDEX, Types, Num
<1>6. n.counter \in {k.counter, counter} /\ n.voting \in {k.voting, voting[q.session]}
  BY <1>2 DEF CallFields
<1>7. Num(n.counter) <= Num(counter) /\ n.counter # 0
  BY <1>1, <1>5, <1>6 DEF Counted
<1>8. n.voting \in Nat /\ n.voting <= voting[q.session]
  BY <1>1, <1>6 DEF Counted, Types
<1>9. n.pc \in Steps /\ k.pc \in Steps /\ n.pc # "idle"
  BY <1>2 DEF Steps
<1> HIDE DEF n, k
<1>10. Counted(n, q)
  BY <1>1, <1>3, <1>4, <1>7, <1>8, <1>9 DEF Counted
<1> QED BY <1>10 DEF n

\* The reads, one by one.
LEMMA LoadsCounted ==
    ASSUME CommitConstants, Inv, CountInv, NEW c \in Commits,
           \/ loadReceipt(c) \/ loadSuccessfulCommitMetadata(c) \/ loadSuccessfulCommitDelivery(c)
           \/ loadBitmap(c) \/ loadVerification(c) \/ buildSuccessfulCommitTransaction(c)
           \/ Read(c, "record", "record", record[Request[c].session], "receipt")
           \/ Read(c, "counter", "counter", counter, "runtime")
    PROVE  Counted(call'[c], Request[c])
<1> DEFINE s == Request[c].session
           q == Request[c]
           k == call[c]
           n == call'[c]
<1>0. Types /\ Sane(k)
  BY DEF Inv, Good
<1>9. /\ "record" \in CallFields \ {"pc"} /\ "receipt" \in CallFields \ {"pc"}
      /\ "counter" \in CallFields \ {"pc"} /\ "runtime" \in CallFields \ {"pc"}
      /\ "delivery" \in CallFields \ {"pc"} /\ "bitmap" \in CallFields \ {"pc"}
      /\ "verification" \in CallFields \ {"pc"} /\ "voting" \in CallFields \ {"pc"}
  BY DEF CallFields
<1>10. /\ "record" \in Steps /\ "receipt" \in Steps /\ "counter" \in Steps /\ "runtime" \in Steps
       /\ "delivery" \in Steps /\ "bitmap" \in Steps /\ "verification" \in Steps
       /\ "decide" \in Steps /\ "ttl" \in Steps /\ "write" \in Steps
  BY DEF Steps
<1>1. CASE Read(c, "record", "record", record[s], "receipt")
  <2>1. /\ n.pc = "receipt" /\ k.pc = "record" /\ n.record = record[s]
        /\ \A f \in CallFields \ {"pc", "record"} : n[f] = k[f]
    BY <1>0, <1>1, ReadFacts DEF CallFields
  <2>2. SameSeen(n, k, q)
    BY <2>1 DEF SameSeen, SeenCounter, SeenRecord, SeenVoting, SeenRuntime, SeenDelivery, Bundled, RuntimeFields,
         AfterDelivery, AfterRuntime, AfterCounter, Reading, Steps, CallFields
  <2> QED BY <1>9, <1>10, <1>1, <2>2, CountedRead
<1>2. CASE loadReceipt(c)
  <2>1. Read(c, "receipt", "receipt", receipt[s],
             IF Request[c].receipt = NoItem THEN "runtime" ELSE "counter")
    BY <1>2 DEF loadReceipt
  <2>2. /\ n.pc = (IF Request[c].receipt = NoItem THEN "runtime" ELSE "counter") /\ k.pc = "receipt"
        /\ n.receipt = receipt[s]
        /\ \A f \in CallFields \ {"pc", "receipt"} : n[f] = k[f]
    BY <1>0, <2>1, ReadFacts DEF CallFields
  <2>3. SameSeen(n, k, q)
    BY <2>2 DEF SameSeen, SeenCounter, SeenRecord, SeenVoting, SeenRuntime, SeenDelivery, Bundled, RuntimeFields,
         AfterDelivery, AfterRuntime, AfterCounter, Reading, Steps, CallFields
  <2> QED BY <1>9, <1>10, <2>1, <2>3, CountedRead
<1>3. CASE Read(c, "counter", "counter", counter, "runtime")
  <2>1. /\ n.pc = "runtime" /\ k.pc = "counter" /\ n.counter = counter
        /\ \A f \in CallFields \ {"pc", "counter"} : n[f] = k[f]
    BY <1>0, <1>3, ReadFacts DEF CallFields
  <2>2. SameSeen(n, k, q)
    BY <2>1 DEF SameSeen, SeenCounter, SeenRecord, SeenVoting, SeenRuntime, SeenDelivery, Bundled, RuntimeFields,
         AfterDelivery, AfterRuntime, AfterCounter, Reading, Steps, CallFields
  <2> QED BY <1>9, <1>10, <1>3, <2>2, CountedRead
<1>4. CASE loadSuccessfulCommitMetadata(c)
  <2>1. Read(c, "runtime", "runtime", IF Request[c].runtime = Empty THEN NoItem ELSE meta[s].runtime,
             "delivery")
    BY <1>4 DEF loadSuccessfulCommitMetadata
  <2>2. /\ n.pc = "delivery" /\ k.pc = "runtime"
        /\ n.runtime = (IF Request[c].runtime = Empty THEN NoItem ELSE meta[s].runtime)
        /\ \A f \in CallFields \ {"pc", "runtime"} : n[f] = k[f]
    BY <1>0, <2>1, ReadFacts DEF CallFields
  <2>3. SameSeen(n, k, q)
    BY <2>2 DEF SameSeen, SeenCounter, SeenRecord, SeenVoting, SeenRuntime, SeenDelivery, Bundled, RuntimeFields,
         AfterDelivery, AfterRuntime, AfterCounter, Reading, Steps, CallFields
  <2> QED BY <1>9, <1>10, <2>1, <2>3, CountedRead
<1>5. CASE loadSuccessfulCommitDelivery(c)
  <2>1. Read(c, "delivery", "delivery", IF Bundled(call[c], Request[c]) THEN meta[s].delivery ELSE NoItem,
             "bitmap")
    BY <1>5 DEF loadSuccessfulCommitDelivery, Bundled
  <2>2. /\ n.pc = "bitmap" /\ k.pc = "delivery"
        /\ n.delivery = (IF Bundled(call[c], Request[c]) THEN meta[s].delivery ELSE NoItem)
        /\ \A f \in CallFields \ {"pc", "delivery"} : n[f] = k[f]
    BY <1>0, <2>1, ReadFacts DEF CallFields
  <2>3. SameSeen(n, k, q)
    BY <2>2 DEF SameSeen, SeenCounter, SeenRecord, SeenVoting, SeenRuntime, SeenDelivery, Bundled, RuntimeFields,
         AfterDelivery, AfterRuntime, AfterCounter, Reading, Steps, CallFields
  <2> QED BY <1>9, <1>10, <2>1, <2>3, CountedRead
<1>6. CASE loadBitmap(c)
  <2>1. Read(c, "bitmap", "bitmap", bitmap[s], "verification")
    BY <1>6 DEF loadBitmap
  <2>2. /\ n.pc = "verification" /\ k.pc = "bitmap"
        /\ n.bitmap = bitmap[s]
        /\ \A f \in CallFields \ {"pc", "bitmap"} : n[f] = k[f]
    BY <1>0, <2>1, ReadFacts DEF CallFields
  <2>3. SameSeen(n, k, q)
    BY <2>2 DEF SameSeen, SeenCounter, SeenRecord, SeenVoting, SeenRuntime, SeenDelivery, Bundled, RuntimeFields,
         AfterDelivery, AfterRuntime, AfterCounter, Reading, Steps, CallFields
  <2> QED BY <1>9, <1>10, <2>1, <2>3, CountedRead
<1>7. CASE loadVerification(c)
  <2>1. Read(c, "verification", "verification", verification[s], "decide")
    BY <1>7 DEF loadVerification
  <2>2. /\ n.pc = "decide" /\ k.pc = "verification"
        /\ n.verification = verification[s]
        /\ \A f \in CallFields \ {"pc", "verification"} : n[f] = k[f]
    BY <1>0, <2>1, ReadFacts DEF CallFields
  <2>3. SameSeen(n, k, q)
    BY <2>2 DEF SameSeen, SeenCounter, SeenRecord, SeenVoting, SeenRuntime, SeenDelivery, Bundled, RuntimeFields,
         AfterDelivery, AfterRuntime, AfterCounter, Reading, Steps, CallFields
  <2> QED BY <1>9, <1>10, <2>1, <2>3, CountedRead
<1>8. CASE buildSuccessfulCommitTransaction(c)
  <2>1. Read(c, "ttl", "voting", voting[s], "write")
    BY <1>8 DEF buildSuccessfulCommitTransaction
  <2>2. /\ n.pc = "write" /\ k.pc = "ttl"
        /\ n.voting = voting[s]
        /\ \A f \in CallFields \ {"pc", "voting"} : n[f] = k[f]
    BY <1>0, <2>1, ReadFacts DEF CallFields
  <2>3. SameSeen(n, k, q)
    BY <2>2 DEF SameSeen, SeenCounter, SeenRecord, SeenVoting, SeenRuntime, SeenDelivery, Bundled, RuntimeFields,
         AfterDelivery, AfterRuntime, AfterCounter, Reading, Steps, CallFields
  <2> QED BY <1>9, <1>10, <2>1, <2>3, CountedRead
<1> QED BY <1>1, <1>2, <1>3, <1>4, <1>5, <1>6, <1>7, <1>8

\* The beginning: nothing has been read, so everything is seen.
LEMMA AllSeen ==
    ASSUME NEW k, NEW q, k.pc = "record"
    PROVE  Seen(k, q) = Writes(q.session)
BY DEF Seen, Writes, Num, SeenCounter, SeenRecord, SeenVoting, SeenRuntime, SeenDelivery,
       AfterCounter, AfterRuntime, AfterDelivery, Reading, Steps

LEMMA WritesIsNumber ==
    ASSUME CommitConstants, Inv, MetaInv, CountInv, NEW c \in Commits
    PROVE  Writes(Request[c].session) \in Nat /\ Seen(call[c], Request[c]) \in Nat
<1>1. Numbers(call[c], Request[c])
  BY SeenIsThere
<1> QED BY <1>1 DEF Numbers, Writes, Seen, Num

LEMMA BeginCounted ==
    ASSUME CommitConstants, Inv, MetaInv, CountInv, NEW c \in Commits, Begin(c)
    PROVE  Counted(call'[c], Request[c])
<1> DEFINE k == call[c]
           q == Request[c]
           n == call'[c]
<1>1. Counted(k, q) /\ Types /\ Sane(k) /\ k.pc = "idle"
  BY DEF CountInv, Inv, Good, Begin
<1>2. /\ n.pc = "record" /\ n.since = Writes(q.session)
      /\ \A f \in CallFields \ {"pc", "since"} : n[f] = k[f]
  BY <1>1 DEF Begin, Types, Sane, CallFields
<1>3. /\ n.attempt = k.attempt /\ n.result = k.result /\ n.counter = k.counter
      /\ n.voting = k.voting
  BY <1>2 DEF CallFields
<1>4. Seen(n, q) = Writes(q.session)
  BY <1>2, AllSeen
<1>5. Writes(q.session) \in Nat
  BY WritesIsNumber
<1> HIDE DEF n, k
<1>6. Counted(n, q)
  BY <1>1, <1>2, <1>3, <1>4, <1>5 DEF Counted
<1> QED BY <1>6 DEF n

\* An answer other than contention.
LEMMA AnswerCounted ==
    ASSUME CommitConstants, Inv, CountInv, NEW c \in Commits, NEW result, NEW told,
           Return(c, result, told), result # "contended"
    PROVE  Counted(call'[c], Request[c])
<1> DEFINE k == call[c]
           q == Request[c]
           n == call'[c]
<1>1. Counted(k, q) /\ Types /\ Sane(k)
  BY DEF CountInv, Inv, Good
<1>2. /\ n.pc = "done" /\ n.result = result
      /\ \A f \in CallFields \ {"pc", "result", "told"} : n[f] = k[f]
  BY <1>1, ReturnFacts
<1>3. n.since = k.since /\ n.counter = k.counter /\ n.voting = k.voting
  BY <1>2 DEF CallFields
<1>4. "done" \notin Steps
  BY DEF Steps
<1> HIDE DEF n, k
<1>5. Counted(n, q)
  BY <1>1, <1>2, <1>3, <1>4 DEF Counted
<1> QED BY <1>5 DEF n

\* A decision to write keeps what was seen.
LEMMA DecideCounted ==
    ASSUME CommitConstants, Inv, CountInv, NEW c \in Commits, Decide(c)
    PROVE  Counted(call'[c], Request[c])
<1> DEFINE k == call[c]
           q == Request[c]
           n == call'[c]
<1>1. Counted(k, q) /\ Types /\ Sane(k) /\ k.pc = "decide"
  BY DEF CountInv, Inv, Good, Decide
<1>2. CASE \E told : \/ Return(c, "replayed", told) \/ Return(c, "conflict", told)
                     \/ Return(c, "premature", told)
  BY <1>2, AnswerCounted
<1>3. CASE call' = [call EXCEPT ![c].pc = "ttl"]
  <2>1. n.pc = "ttl" /\ \A f \in CallFields \ {"pc"} : n[f] = k[f]
    BY <1>1, <1>3 DEF Types, Sane, CallFields
  <2>2. SameSeen(n, k, q)
    BY <1>1, <2>1 DEF SameSeen, SeenCounter, SeenRecord, SeenVoting, SeenRuntime, SeenDelivery, Bundled,
         RuntimeFields, AfterDelivery, AfterRuntime, AfterCounter, Reading, Steps, CallFields
  <2>3. Seen(n, q) = Seen(k, q)
    BY <2>2 DEF Seen, SameSeen
  <2>4. /\ n.since = k.since /\ n.counter = k.counter /\ n.voting = k.voting
        /\ n.attempt = k.attempt /\ n.result = k.result
    BY <2>1 DEF CallFields
  <2>5. n.pc # "idle" /\ k.pc \in Steps
    BY <1>1, <2>1 DEF Steps
  <2> HIDE DEF n, k
  <2>6. Counted(n, q)
    BY <1>1, <2>3, <2>4, <2>5 DEF Counted
  <2> QED BY <2>6 DEF n
<1> QED BY <1>2, <1>3 DEF Decide

\* A refused transaction has been overtaken by a write that the next attempt sees.
LEMMA RefusedCounted ==
    ASSUME CommitConstants, Inv, MetaInv, CountInv, NEW c \in Commits, WriteRefused(c)
    PROVE  Counted(call'[c], Request[c])
<1> DEFINE k == call[c]
           q == Request[c]
           n == call'[c]
           new == [Idle EXCEPT !.pc = "record", !.attempt = k.attempt + 1, !.since = k.since]
<1>1. Counted(k, q) /\ Types /\ Sane(k) /\ k.pc = "write" /\ ~Conditions(k, q)
  BY DEF CountInv, Inv, Good, WriteRefused
<1>2. Seen(k, q) + 1 <= Writes(q.session)
  BY <1>1, Overtaken
<1>3. Writes(q.session) \in Nat /\ Seen(k, q) \in Nat
  BY WritesIsNumber
<1>4. k.since \in Nat /\ k.attempt \in Nat /\ k.since + k.attempt <= Seen(k, q)
  BY <1>1 DEF Counted, Sane, Steps
<1>5. k.since + (k.attempt + 1) <= Writes(q.session)
  BY <1>2, <1>3, <1>4
<1>6. Num(counter) \in Nat /\ voting[q.session] \in Nat
  BY <1>1 DEF Types, Num, CommitConstants
<1>7. CASE k.attempt + 1 = CommitAttempts
  <2>1. Return(c, "contended", NoItem)
    BY <1>7 DEF WriteRefused
  <2>2. /\ n.pc = "done" /\ n.result = "contended"
        /\ \A f \in CallFields \ {"pc", "result", "told"} : n[f] = k[f]
    BY <1>1, <2>1, ReturnFacts
  <2>3. n.since = k.since /\ n.counter = k.counter /\ n.voting = k.voting
    BY <2>2 DEF CallFields
  <2>4. "done" \notin Steps
    BY DEF Steps
  <2> HIDE DEF n, k, new
  <2>5. Counted(n, q)
    BY <1>1, <1>5, <1>7, <2>2, <2>3, <2>4 DEF Counted
  <2> QED BY <2>5 DEF n
<1>8. CASE k.attempt + 1 # CommitAttempts
  <2>1. n = new
    BY <1>1, <1>8 DEF WriteRefused, Types
  <2>2. /\ new.pc = "record" /\ new.attempt = k.attempt + 1 /\ new.since = k.since
        /\ new.counter = NoItem /\ new.voting = 0 /\ new.result = "none"
    BY DEF Idle
  <2>3. Seen(new, q) = Writes(q.session)
    BY <2>2, AllSeen
  <2>4. NoItem # 0 /\ Num(NoItem) = 0
    BY DEF CommitConstants, Num
  <2> HIDE DEF n, k, new
  <2>5. Counted(new, q)
    BY <1>4, <1>5, <1>6, <2>2, <2>3, <2>4 DEF Counted
  <2> QED BY <2>1, <2>5 DEF n
<1> QED BY <1>7, <1>8

\* A step of a commit that writes nothing.
LEMMA QuietCounted ==
    ASSUME CommitConstants, Inv, MetaInv, CountInv, NEW c \in Commits,
           Begin(c) \/ CommitStep(c), ~WriteApplied(c)
    PROVE  /\ Counted(call[c], Request[c])'
           /\ \A d \in Commits : d # c => call'[d] = call[d]
<1>1. Types /\ Sane(call[c]) /\ DOMAIN call = Commits
  BY DEF Inv, Good, Types
<1>2. UNCHANGED table
  BY DEF Begin, CommitStep, Read, loadSuccessfulCommitAuthority, loadReceipt, loadCounter,
         loadSuccessfulCommitMetadata, loadSuccessfulCommitDelivery, loadBitmap, loadVerification,
         Decide, buildSuccessfulCommitTransaction, WriteRefused, table
<1>3. \A d \in Commits : d # c => call'[d] = call[d]
  BY <1>1 DEF Begin, CommitStep, Read, Return, loadSuccessfulCommitAuthority, loadReceipt, loadCounter,
         loadSuccessfulCommitMetadata, loadSuccessfulCommitDelivery, loadBitmap, loadVerification,
         Decide, buildSuccessfulCommitTransaction, WriteRefused
<1>4. ASSUME Begin(c)
      PROVE  Counted(call'[c], Request[c])
  BY <1>4, BeginCounted
<1>5. ASSUME loadSuccessfulCommitAuthority(c)
      PROVE  Counted(call'[c], Request[c])
  BY <1>5, LoadsCounted, AnswerCounted DEF loadSuccessfulCommitAuthority
<1>6. ASSUME loadCounter(c)
      PROVE  Counted(call'[c], Request[c])
  BY <1>6, LoadsCounted, AnswerCounted DEF loadCounter
<1>7. ASSUME \/ loadReceipt(c) \/ loadSuccessfulCommitMetadata(c) \/ loadSuccessfulCommitDelivery(c)
             \/ loadBitmap(c) \/ loadVerification(c) \/ buildSuccessfulCommitTransaction(c)
      PROVE  Counted(call'[c], Request[c])
  BY <1>7, LoadsCounted
<1>8. ASSUME Decide(c)
      PROVE  Counted(call'[c], Request[c])
  BY <1>8, DecideCounted
<1>9. ASSUME WriteRefused(c)
      PROVE  Counted(call'[c], Request[c])
  BY <1>9, RefusedCounted
<1>10. Counted(call'[c], Request[c])
  BY <1>4, <1>5, <1>6, <1>7, <1>8, <1>9 DEF CommitStep
<1>11. Counted(call[c], Request[c])'
  BY <1>2, <1>10 DEF table, Counted, Num, Seen, SeenCounter, SeenRecord, SeenVoting, SeenRuntime,
         SeenDelivery, Bundled, RuntimeFields, mergeMetadata, Reading, Writes
<1> QED BY <1>3, <1>11

\* The commit that wrote is done.
LEMMA AppliedCounted ==
    ASSUME CommitConstants, Inv, CountInv, NEW c \in Commits, WriteApplied(c),
           CountsForward(Request[c].session)
    PROVE  /\ Counted(call[c], Request[c])'
           /\ \A d \in Commits : d # c => call'[d] = call[d]
<1> DEFINE k == call[c]
           q == Request[c]
           n == call'[c]
<1>1. Counted(k, q) /\ Types /\ Sane(k)
  BY DEF CountInv, Inv, Good
<1>2. PICK result, told : Return(c, result, told) /\ result # "contended"
  BY DEF WriteApplied
<1>3. Counted(n, q)
  BY <1>2, AnswerCounted
<1>4. /\ n.pc = "done" /\ n.result = result /\ \A d \in Commits : d # c => call'[d] = call[d]
      /\ \A f \in CallFields \ {"pc", "result", "told"} : n[f] = k[f]
  BY <1>1, <1>2, ReturnFacts
<1>5. n.pc \notin Steps /\ n.pc # "idle" /\ n.counter = k.counter
  BY <1>4 DEF Steps, CallFields
<1>6. Num(n.counter) \in Nat
  BY <1>1, <1>5 DEF Sane, Num
<1> HIDE DEF n, k
<1>7. Num(n.counter) <= Num(counter') /\ n.voting <= voting'[q.session]
  BY <1>3, <1>6 DEF Counted, CountsForward
<1>8. Counted(call[c], Request[c])'
  BY <1>2, <1>3, <1>4, <1>5, <1>7 DEF n, Counted
<1> QED BY <1>4, <1>8

LEMMA CountKeeps ==
    ASSUME CommitConstants
    PROVE  Inv /\ Inv' /\ MetaInv /\ CountInv /\ [Next]_vars => CountInv'
<1> SUFFICES ASSUME Inv, Inv', MetaInv, CountInv, [Next]_vars, NEW d \in Commits
             PROVE  Counted(call[d], Request[d])'
  BY DEF CountInv
<1>1. Request[d].session \in Sessions
  BY DEF CommitConstants
<1>2. CountsForward(Request[d].session)
  BY <1>1, StepCounts
<1>3. call'[d] = call[d] => Counted(call[d], Request[d])'
  BY <1>2, CountedKept
<1>4. ASSUME NEW c \in Commits, Begin(c) \/ CommitStep(c), ~WriteApplied(c)
      PROVE  Counted(call[d], Request[d])'
  BY <1>3, <1>4, QuietCounted
<1>5. ASSUME NEW c \in Commits, WriteApplied(c)
      PROVE  Counted(call[d], Request[d])'
  <2>1. CASE c = d
    BY <1>2, <1>5, <2>1, AppliedCounted
  <2>2. CASE c # d
    <3>1. call'[d] = call[d]
      BY <1>5, <2>2 DEF WriteApplied, Return, Inv, Types
    <3> QED BY <1>3, <3>1
  <2> QED BY <2>1, <2>2
<1>6. CASE call' = call
  BY <1>3, <1>6
<1>7. call' = call \/ \E c \in Commits : Begin(c) \/ CommitStep(c)
  BY DEF Next, vars, MergeStep, MergeRead, MergePut, VerificationWritten, FailedElsewhere, TouchSession
<1> QED BY <1>4, <1>5, <1>6, <1>7 DEF CommitStep

LEMMA CountInitially ==
    ASSUME CommitConstants
    PROVE  Init => CountInv
<1> SUFFICES ASSUME Init, NEW c \in Commits PROVE Counted(call[c], Request[c])
  BY DEF CountInv
<1>1. call[c] = Idle /\ counter = NoItem /\ voting[Request[c].session] = 0 /\ NoItem # 0
  BY DEF Init, CommitConstants
<1> QED BY <1>1 DEF Counted, Idle, Num, Steps

\* A commit that gives up for contention has been overtaken by as many writes of
\* the items it conditions on as it made attempts (the retry loop of
\* commitSuccessfulFinalization).
THEOREM ContentionReal ==
    ASSUME CommitConstants
    PROVE  Spec => []ContentionIsReal
<1>1. Inv /\ MetaInv /\ CountInv => ContentionIsReal
  <2> SUFFICES ASSUME Inv, MetaInv, CountInv, NEW c \in Commits, call[c].result = "contended"
               PROVE  Writes(Request[c].session) >= call[c].since + CommitAttempts
    BY DEF ContentionIsReal
  <2>1. Writes(Request[c].session) \in Nat
    BY WritesIsNumber
  <2> QED BY <2>1 DEF CountInv, Counted, CommitConstants
<1>2. Init => CountInv
  BY CountInitially
<1>3. Inv /\ Inv' /\ MetaInv /\ CountInv /\ [Next]_vars => CountInv'
  BY CountKeeps
<1>4. Spec => []Inv
  BY Invariance
<1>5. Spec => []MetaInv
  BY MetaInvariance
<1> QED BY <1>1, <1>2, <1>3, <1>4, <1>5, PTL DEF Spec

=============================================================================

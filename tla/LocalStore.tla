----------------------------- MODULE LocalStore -----------------------------
(***************************************************************************)
(* The record families of the local session stores: MockSessionStore keeps *)
(* them in maps, FileMockSessionStore in maps it saves as one sessions.json *)
(* snapshot.  This module has the operations on the families, which the    *)
(* two stores share, and the translation of the families to a snapshot and *)
(* back (fileMock/sessionSerde.ts), which admits a snapshot whole or not   *)
(* at all.  LocalSession says when the operations run.                     *)
(*                                                                         *)
(* A vote is its index, a session's log the number of its votes: that the  *)
(* board rebuilt from the votes has their roots is the subject of          *)
(* BulletinBoard.  A key <<s, f>> is the scoped key of a finalization.     *)
(* Runtime metadata, which only the AWS writer sends, is left out.         *)
(***************************************************************************)
EXTENDS Naturals, FiniteSets, Functions, TLC

CONSTANTS
    Sessions,
    Fids,               \* finalization ids
    BotCount            \* BOT_COUNT

INITIAL_RECEIPT_COUNTER == 100

Terminal == {"success", "failed", "dev_mode"}
Finished == {"succeeded", "failed", "timeout"}

\* What an instance gives the constants.
LocalConstants == BotCount \in Nat

-----------------------------------------------------------------------------
\* The families.

Nothing == [k \in {} |-> 0]

createEmptyFileStoreState ==
    [ids |-> {}, voting |-> Nothing, index |-> {}, fin |-> Nothing, cur |-> Nothing,
     verif |-> Nothing, obs |-> Nothing, bitmaps |-> {}, delivery |-> {},
     receipts |-> Nothing, counter |-> INITIAL_RECEIPT_COUNTER, log |-> {}]

\* What an operation leaves: the families, whether it answered or threw, and
\* whether the caller has something to save.
Done(st)     == [st |-> st, ok |-> TRUE, dirty |-> TRUE]
Unchanged(st) == [st |-> st, ok |-> TRUE, dirty |-> FALSE]
Refused(st)  == [st |-> st, ok |-> FALSE, dirty |-> FALSE]

NoFinalization == [fid |-> "none", status |-> "none", artifacts |-> {}, board |-> 0]

\* readMappedFinalization: the record the session's current id points to.
currentFinalization(st, s) ==
    IF s \in DOMAIN st.cur THEN st.fin[<<s, st.cur[s]>>] ELSE NoFinalization

-----------------------------------------------------------------------------
\* Sessions and votes.

createSession(st, s) ==
    Done([st EXCEPT !.ids = @ \cup {s},
                    !.voting = @ @@ (s :> [votes |-> 0, history |-> 0, bots |-> 0, cast |-> FALSE])])

Appended(st, s, n, isBot) ==
    [st EXCEPT
        !.voting[s] = [votes   |-> @.votes + n,
                       history |-> @.history + n,
                       bots    |-> IF isBot THEN @.bots + n ELSE @.bots,
                       cast    |-> TRUE],
        !.index = @ \cup {<<s, i>> : i \in st.voting[s].votes .. st.voting[s].votes + n - 1}]

\* mutateVotes with an append_user_vote command: the stored vote sent again is a
\* replay even after the finalization, another vote is told SESSION_FINALIZED or
\* ALREADY_VOTED.
addVote(st, s, same) ==
    IF s \notin st.ids THEN Refused(st)
    ELSE IF st.voting[s].cast /\ same THEN Unchanged(st)
    ELSE IF s \in DOMAIN st.cur \/ st.voting[s].cast THEN Refused(st)
    ELSE Done(Appended(st, s, 1, FALSE))

\* mutateVotes with an append_bot_votes command.
addBotVotes(st, s) ==
    IF \/ s \notin st.ids \/ s \in DOMAIN st.cur
       \/ ~st.voting[s].cast \/ st.voting[s].bots >= BotCount
    THEN Refused(st)
    ELSE Done(Appended(st, s, BotCount - st.voting[s].bots, TRUE))

Without(f, S) == Restrict(f, {k \in DOMAIN f : k[1] \notin S})

\* Every family loses the records of the sessions in S.
deleteSessionRecords(st, S) ==
    [st EXCEPT !.ids = @ \ S,
               !.voting = Restrict(@, DOMAIN @ \ S),
               !.cur = Restrict(@, DOMAIN @ \ S),
               !.fin = Without(@, S), !.verif = Without(@, S), !.obs = Without(@, S),
               !.receipts = Without(@, S),
               !.bitmaps = {k \in @ : k[1] \notin S},
               !.delivery = {k \in @ : k[1] \notin S},
               !.index = {k \in @ : k[1] \notin S}]

\* getActiveSessionCount sweeps the sessions whose last activity is more than
\* five minutes old; which those are is the clock's choice.
getActiveSessionCount(st, old) ==
    IF old \cap st.ids = {} THEN Unchanged(st)
    ELSE Done(deleteSessionRecords(st, old))

-----------------------------------------------------------------------------
\* Finalization records.  Only a queue command brings the scenario context a
\* first record needs; a command of another finalization is rejected, a
\* finished record is final, and what is rejected leaves the record as it is.

StatusOf(kind) ==
    CASE kind = "queue" -> "pending"  [] kind = "start" -> "running"
      [] kind = "fail"  -> "failed"   [] OTHER          -> "timeout"

applyFinalizationCommand(st, s, f, kind) ==
    LET before == currentFinalization(st, s) IN
    IF s \notin st.ids \/ (before = NoFinalization /\ kind # "queue") THEN Refused(st)
    ELSE IF /\ before # NoFinalization
            /\ \/ before.fid # f
               \/ before.status \in Finished
               \/ before.status = StatusOf(kind)
         THEN Unchanged(st)
    ELSE Done([st EXCEPT
                  !.fin = (<<s, f>> :> [fid |-> f, status |-> StatusOf(kind),
                                        artifacts |-> {}, board |-> 0]) @@ @,
                  !.cur = (s :> f) @@ @])

\* recordAwsProofBundlePublication: where the bundle of a finalization lies.
recordBundlePublication(st, s, f) ==
    IF s \notin st.ids THEN Refused(st)
    ELSE Done([st EXCEPT !.delivery = @ \cup {<<s, f>>}])

\* The artifacts of a success: the public audit files and the zkVM receipt, the
\* bitmap when the execution gave one, the publication when a receipt is sent.
Artifacts(q) ==
    {"publicAudit", "receipt"}
        \cup (IF q.bitmap THEN {"bitmap"} ELSE {})
        \cup (IF q.receipt THEN {"receiptPublication"} ELSE {})

\* A success may follow nothing, or the same finalization on its way.
assertSuccessfulFinalizationLifecycleAdmission(before, f) ==
    \/ before = NoFinalization
    \/ before.fid = f /\ before.status \in {"pending", "running", "succeeded"}

\* The stored success must be the requested one; an omitted verification
\* result is not compared.
assertSuccessfulFinalizationReplay(st, s, f, q) ==
    /\ currentFinalization(st, s).artifacts = Artifacts(q)
    /\ (<<s, f>> \in st.bitmaps) = q.bitmap
    /\ q.verification # "none" =>
         <<s, f>> \in DOMAIN st.verif /\ st.verif[<<s, f>>] = q.verification

\* The record becomes the session's current one, with its artifacts.
writeSuccessfulArtifacts(st, s, f, q) ==
    LET k == <<s, f>> IN
    [st EXCEPT
        !.fin = (k :> [fid |-> f, status |-> "succeeded", artifacts |-> Artifacts(q),
                       board |-> IF q.receipt THEN st.counter ELSE 0]) @@ @,
        !.cur = (s :> f) @@ @,
        !.receipts = IF q.receipt THEN @ @@ (k :> st.counter) ELSE @,
        !.counter  = IF q.receipt THEN @ + 1 ELSE @,
        !.verif    = IF q.verification # "none" THEN @ @@ (k :> q.verification) ELSE @,
        !.bitmaps  = IF q.bitmap THEN @ \cup {k} ELSE @]

\* commitSuccessfulFinalization: the record and its artifacts, all or none.
commitSuccessfulFinalization(st, s, f, q) ==
    LET before == currentFinalization(st, s) IN
    IF s \notin st.ids \/ ~assertSuccessfulFinalizationLifecycleAdmission(before, f)
    THEN Refused(st)
    ELSE IF before.status = "succeeded"
         THEN IF assertSuccessfulFinalizationReplay(st, s, f, q) THEN Unchanged(st) ELSE Refused(st)
    ELSE IF <<s, f>> \in st.bitmaps \/ <<s, f>> \in DOMAIN st.verif
         THEN Refused(st)
    ELSE Done(writeSuccessfulArtifacts(st, s, f, q))

-----------------------------------------------------------------------------
\* Verification results and observations of the current, succeeded finalization.

requireSucceededFinalization(st, s, f) ==
    /\ s \in st.ids
    /\ currentFinalization(st, s).fid = f
    /\ currentFinalization(st, s).status = "succeeded"

VerifOf(st, k) == IF k \in DOMAIN st.verif THEN st.verif[k] ELSE "none"

writeVerificationResult(st, s, f, status) ==
    IF ~requireSucceededFinalization(st, s, f) THEN Refused(st)
    ELSE IF VerifOf(st, <<s, f>>) \in Terminal THEN Unchanged(st)
    ELSE Done([st EXCEPT !.verif = (<<s, f>> :> status) @@ @])

\* restoreMappedVerificationSnapshot: what was there before the start, or nothing.
rollbackVerificationResult(st, s, f, before) ==
    IF ~requireSucceededFinalization(st, s, f) THEN Refused(st)
    ELSE Done([st EXCEPT
        !.verif = IF before = "none" THEN Restrict(@, DOMAIN @ \ {<<s, f>>})
                  ELSE (<<s, f>> :> before) @@ @])

\* resolveVerificationObservationRecord: the first fingerprint stays.
recordVerificationObservation(st, s, f, fingerprint) ==
    IF s \notin st.ids THEN Refused(st)
    ELSE IF s \notin DOMAIN st.cur \/ <<s, f>> \in DOMAIN st.obs THEN Unchanged(st)
    ELSE IF st.cur[s] # f THEN Unchanged(st)
    ELSE Done([st EXCEPT !.obs = @ @@ (<<s, f>> :> fingerprint)])

-----------------------------------------------------------------------------
\* The snapshot.  A stored success has a flat key for every file of an
\* artifact: availability is the presence of keys, and nothing else.

FilesOf(artifact) ==
    CASE artifact = "publicAudit" -> {"publicInputArtifact", "electionManifest", "closeStatement"}
      [] artifact = "bitmap"      -> {"bitmapProofSource", "bitmapData"}
      [] OTHER                    -> {artifact}

AllArtifacts == {"publicAudit", "receipt", "receiptPublication", "bitmap"}

encodeFinalizationResultAuthority(artifacts) == UNION {FilesOf(a) : a \in artifacts}

\* An artifact with some of its files is an error, not an absence.
parseFinalizationResultAuthority(keys) ==
    [ok        |-> \A a \in AllArtifacts : FilesOf(a) \subseteq keys \/ FilesOf(a) \cap keys = {},
     artifacts |-> {a \in AllArtifacts : FilesOf(a) \subseteq keys}]

serializeFileStoreState(st) ==
    [st EXCEPT !.fin = [k \in DOMAIN @ |->
        [fid |-> @[k].fid, status |-> @[k].status, board |-> @[k].board,
         keys |-> encodeFinalizationResultAuthority(@[k].artifacts)]]]

parseFinalizationRecord(r) ==
    [fid |-> r.fid, status |-> r.status, board |-> r.board,
     artifacts |-> parseFinalizationResultAuthority(r.keys).artifacts]

\* The user's vote is the first of the votes, or there are none.
parseUserParticipation(v) == v.cast = (v.votes > 0)

\* One snapshot of the root for every vote.
restoreRootHistory(v) == v.history = v.votes

\* Every vote but the user's is a bot's.
parseVotingRecord(v) ==
    /\ parseUserParticipation(v) /\ restoreRootHistory(v)
    /\ v.bots = (IF v.votes = 0 THEN 0 ELSE v.votes - 1)

\* A voting record for every identity and no other.
loadVotingRecords(sn) ==
    DOMAIN sn.voting = sn.ids /\ \A s \in DOMAIN sn.voting : parseVotingRecord(sn.voting[s])

\* Only a success has a result.
loadFinalizationRecords(sn) ==
    \A k \in DOMAIN sn.fin :
        /\ k[1] \in sn.ids
        /\ parseFinalizationResultAuthority(sn.fin[k].keys).ok
        /\ sn.fin[k].status = "succeeded" \/ sn.fin[k].keys = {}

loadCurrentFinalizationIds(sn) ==
    \A s \in DOMAIN sn.cur : s \in sn.ids /\ <<s, sn.cur[s]>> \in DOMAIN sn.fin

Succeeded(sn, k) == k \in DOMAIN sn.fin /\ sn.fin[k].status = "succeeded"

loadVerificationResults(sn) == \A k \in DOMAIN sn.verif : Succeeded(sn, k)

loadVerificationObservations(sn) ==
    \A k \in DOMAIN sn.obs : k[1] \in DOMAIN sn.cur /\ sn.cur[k[1]] = k[2]

loadBitmaps(sn) == \A k \in sn.bitmaps : Succeeded(sn, k)

deriveVoteIdIndex(sn) ==
    UNION {{<<s, i>> : i \in 0 .. sn.voting[s].votes - 1} : s \in DOMAIN sn.voting}

loadVoteIndex(sn) == sn.index = deriveVoteIdIndex(sn)

loadDeliveryMetadata(sn) == \A k \in sn.delivery : k[1] \in sn.ids

\* A receipt is the one its finalization published, below the counter.
loadReceiptPublications(sn) ==
    \A k \in DOMAIN sn.receipts :
        /\ Succeeded(sn, k)
        /\ "receiptPublication" \in sn.fin[k].keys
        /\ sn.fin[k].board = sn.receipts[k]
        /\ sn.counter > sn.receipts[k]

parseFileStoreSnapshot(sn) ==
    LET ok == /\ sn.counter >= INITIAL_RECEIPT_COUNTER
              /\ loadVotingRecords(sn)
              /\ loadFinalizationRecords(sn) /\ loadCurrentFinalizationIds(sn)
              /\ loadVerificationResults(sn) /\ loadVerificationObservations(sn)
              /\ loadBitmaps(sn) /\ loadVoteIndex(sn)
              /\ loadDeliveryMetadata(sn) /\ loadReceiptPublications(sn)
    IN  [ok |-> ok,
         st |-> IF ok THEN [sn EXCEPT !.fin = [k \in DOMAIN @ |-> parseFinalizationRecord(@[k])]]
                ELSE createEmptyFileStoreState]
=============================================================================

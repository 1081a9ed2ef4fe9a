------------------------ MODULE VerificationVerdict ------------------------
(***************************************************************************)
(* How the verdict on an election is reached and shown: the finalization   *)
(* admits its public audit artifacts, a read of the verification resource  *)
(* evaluates the 22 checks from the journal, the artifacts, the voter's    *)
(* evidence and the verifier's record, the response schema re-derives what *)
(* the resource claims, and the browser overlays its own cast checks and   *)
(* renders one status.                                                     *)
(*                                                                         *)
(* The journal, the artifacts and the voter's evidence are abstracted to   *)
(* the ways they can disagree: world.faults names the fields that differ   *)
(* from what an honest run produces. Hashes are the tuples they hash.      *)
(***************************************************************************)
EXTENDS Integers, FiniteSets

CONSTANTS
    Slots,      \* the slots of the bulletin board, one per cast vote
    User,       \* the voter's own slot
    MaxFaults   \* how many fields may disagree at once

\* What an instance gives the constants.
VerdictConstants == IsFiniteSet(Slots) /\ User \in Slots

VARIABLES
    world,      \* the finalized election: scenario, target slot, faults, profile
    admitted,   \* the finalization's artifacts: "pending", "available", "absent" or "refused"
    record,     \* the verifier's record of the finalization: status and report
    sth,        \* third-party STH sources: "unconfigured", "verified", "unverified"
    resource,   \* the last answer of the verification resource
    page        \* what the browser holds: projected checks, sequence, rendered status

vars == <<world, admitted, record, sth, resource, page>>

-----------------------------------------------------------------------------
(* The finalized election.                                                 *)

Scenarios == {"S0", "S1", "S2", "S3", "S4", "S5"}

(* Fields of the audit artifacts that may differ from the journal. *)
AuditFaults ==
    {"input.election", "input.config", "input.root", "input.size", "input.expected",
     "input.commitment", "manifest.election", "manifest.expected", "manifest.content",
     "manifest.hash", "close.size", "close.root", "close.log", "close.time", "close.digest"}

(* What the prover, the claimed image and the published total can get wrong. *)
ProverFaults ==
    {"prover.drop", "prover.invalid", "prover.duplicate", "prover.outOfRange", "journal.expected", "journal.image",
     "claim.image"}

(* The voter's evidence, the stored proofs, the delivery key and the browser's session. *)
VoterFaults ==
    {"voter.voteId", "voter.proof", "voter.other", "voter.path", "voter.snapshot", "consistency.bad", "bitmap.absent",
     "bitmap.bad", "delivery.bundle", "browser.session", "browser.commitment"}

Faults == AuditFaults \cup ProverFaults \cup VoterFaults

(* The votes a scenario withholds from the prover; the target of S3 and S5 is world.target. *)
ignoredVotes(w) ==
    CASE w.scenario = "S1" -> {User}
      [] w.scenario \in {"S3", "S5"} -> {w.target}
      [] OTHER -> {}

(* S2 and S4 publish one vote under another choice and leave the prover's input alone. *)
recounted(w) == w.scenario \in {"S2", "S4"}

missingSlots(w) == ignoredVotes(w) \cup (IF "prover.drop" \in w.faults THEN {w.target} ELSE {})

invalidSlots(w) == (IF "prover.invalid" \in w.faults THEN {w.target} ELSE {}) \ missingSlots(w)

excludedSlots(w) == missingSlots(w) \cup invalidSlots(w)

extraRecords(w) == Cardinality(w.faults \cap {"prover.duplicate", "prover.outOfRange"})

rejectedRecords(w) == Cardinality(invalidSlots(w)) + extraRecords(w)

treeSize(w) == Cardinality(Slots)

totalExpected(w) == treeSize(w) + (IF "journal.expected" \in w.faults THEN 1 ELSE 0)

votesCount(w) == Cardinality(Slots \ missingSlots(w)) + extraRecords(w)

(* The published counts are those of the votes the scenario left, recounted under S2 and S4: *)
(* they equal the verified tally when nothing was recounted and the prover counted them all.  *)
publishedIsVerified(w) == ~recounted(w) /\ excludedSlots(w) = ignoredVotes(w)

claimedImage(w) == IF "claim.image" \in w.faults THEN "other" ELSE "own"

(* The image id that a journal carries is the claimed one (assertResultMirrorsMatchJournal; comparisonImageId *)
(* of the checks).                                                                                           *)
journalImageMatches(w) == "journal.image" \notin w.faults

-----------------------------------------------------------------------------
(* The public audit artifacts. A field is "own" or "other"; hashes are tuples. *)

Field(w, f) == IF f \in w.faults THEN "other" ELSE "own"

OwnConfig == <<"own", "own", "own">>

OwnDigest == <<"own", "own", "own", "own">>

publicInput(w) ==
    [election   |-> Field(w, "input.election"),
     config     |-> IF "input.config" \in w.faults THEN <<"x">> ELSE OwnConfig,
     root       |-> Field(w, "input.root"),
     size       |-> Field(w, "input.size"),
     expected   |-> Field(w, "input.expected"),
     commitment |-> Field(w, "input.commitment"),
     unique     |-> "prover.duplicate" \notin w.faults]

electionManifest(w) ==
    LET content == <<Field(w, "manifest.election"), Field(w, "manifest.expected"), Field(w, "manifest.content")>>
    IN  [election |-> content[1], expected |-> content[2], recomputed |-> content,
         hash |-> IF "manifest.hash" \in w.faults THEN <<"x">> ELSE content]

closeStatement(w) ==
    LET fields == <<Field(w, "close.log"), Field(w, "close.size"), Field(w, "close.time"), Field(w, "close.root")>>
    IN  [log |-> fields[1], size |-> fields[2], time |-> fields[3], root |-> fields[4], recomputed |-> fields,
         digest |-> IF "close.digest" \in w.faults THEN <<"x">> ELSE fields]

resolveConsistentPublicInputArtifact(w) ==
    LET p == publicInput(w)
    IN  /\ p.election = "own"
        /\ p.config = OwnConfig
        /\ p.root = "own"
        /\ p.size = "own"
        /\ p.expected = "own"
        /\ p.commitment = "own"

resolveConsistentElectionManifest(w) ==
    LET m == electionManifest(w)  p == publicInput(w)
    IN  /\ m.election = "own" /\ m.election = p.election
        /\ m.expected = "own" /\ m.expected = p.expected
        /\ m.hash = m.recomputed
        /\ m.hash = OwnConfig /\ m.hash = p.config

resolveConsistentCloseStatement(w) ==
    LET c == closeStatement(w)
    IN  /\ c.size = "own" /\ c.root = "own"
        /\ c.digest = <<c.log, "own", c.time, "own">>
        /\ c.digest = OwnDigest
        /\ c.log = "own" /\ c.time = "own"

resolveConsistentPublicAuditArtifacts(w) ==
    /\ resolveConsistentPublicInputArtifact(w)
    /\ resolveConsistentElectionManifest(w)
    /\ resolveConsistentCloseStatement(w)

-----------------------------------------------------------------------------
(* The registry of the checks.                                             *)

CastIds == {"cast_receipt_present", "cast_choice_range", "cast_random_format", "cast_commitment_match"}

RecordedIds ==
    {"recorded_commitment_in_bulletin", "recorded_index_in_range", "recorded_root_at_cast_consistent",
     "recorded_inclusion_proof", "recorded_consistency_proof", "recorded_sth_third_party"}

InputIntegrityIds ==
    {"counted_input_sanity", "counted_unique_indices", "counted_unique_commitments",
     "counted_expected_vs_tree_size", "counted_election_manifest_consistent",
     "counted_close_statement_consistent", "counted_input_commitment_match"}

CountedIds ==
    InputIntegrityIds \cup {"counted_tally_consistent", "counted_missing_indices_zero", "counted_my_vote_included"}

StarkIds == {"stark_image_id_match", "stark_receipt_verify"}

CheckIds == CastIds \cup RecordedIds \cup CountedIds \cup StarkIds

OptionalIds == {"recorded_commitment_in_bulletin", "recorded_root_at_cast_consistent"}

isVerificationCheckRequired(i, sthConfigured) ==
    /\ i \in CheckIds \ OptionalIds
    /\ i = "recorded_sth_third_party" => sthConfigured

RequiredIds(sthConfigured) == {i \in CheckIds : isVerificationCheckRequired(i, sthConfigured)}

StepStatuses == {"success", "not_run", "pending", "running", "failed"}

-----------------------------------------------------------------------------
(* The verifier's outcome as the resource admits it.                       *)

NoReport == [status |-> "none"]

Report(status, expected, receipt, dev) ==
    [status |-> status, expected |-> expected, receipt |-> receipt, dev |-> dev]

Incoherent == [status |-> "failed", report |-> NoReport]

admitVerifierOutcome(status, reportStatus, report) ==
    LET statuses == ({status, reportStatus} \cup {report.status}) \ {"none"}
    IN  IF \/ Cardinality(statuses) > 1
           \/ status \in {"not_run", "running"} /\ report # NoReport
           \/ report.status = "success" /\ report.receipt = "null"
        THEN Incoherent
        ELSE [status |-> status, report |-> report]

(* A development receipt outside a development profile is presented as a failure. *)
allowsDevelopmentVerification(w, rec) == rec.status = "dev_mode" /\ w.profile = "development"

projectVerifierOutcome(w, rec) ==
    LET forced == rec.status = "dev_mode" /\ ~allowsDevelopmentVerification(w, rec)
    IN  admitVerifierOutcome(IF forced THEN "failed" ELSE rec.status,
                             IF forced THEN "failed" ELSE rec.report.status,
                             rec.report)

resolveStarkStatus(outcome, allowDev) ==
    IF outcome.status = "dev_mode" THEN IF allowDev THEN "success" ELSE "not_run" ELSE outcome.status

resolveZkGateStatus(starkStatus) ==
    CASE starkStatus = "running" -> "pending"
      [] starkStatus \in {"not_run", "failed"} -> starkStatus
      [] OTHER -> "none"

Gated(gate, status) == IF gate # "none" THEN gate ELSE status

Passed(b) == IF b THEN "success" ELSE "failed"

-----------------------------------------------------------------------------
(* The evaluators of the checks.                                           *)

(* A vote without an id or a proof has no evidence; evidence of another vote makes the read corrupt. *)
prepareVerificationRead(w) ==
    CASE {"voter.voteId", "voter.proof"} \cap w.faults # {} -> "unavailable"
      [] "voter.other" \in w.faults -> "corrupt"
      [] OTHER -> "available"

Recorded(w, status) == IF prepareVerificationRead(w) = "unavailable" THEN "not_run" ELSE status

resolveRecordedIndexInRange(w) == Recorded(w, "success")

resolveRecordedInclusionProof(w) ==
    Recorded(w, Passed({"voter.path", "voter.snapshot"} \cap w.faults = {}))

resolveRecordedConsistencyProof(w) ==
    Recorded(w, Passed({"voter.snapshot", "consistency.bad"} \cap w.faults = {}))

resolveRecordedSthThirdParty(s) ==
    CASE s = "unconfigured" -> "not_run" [] s = "verified" -> "success" [] OTHER -> "failed"

(* The public input counts as evidence only under the finalization's bundle key, root and size. *)
resolvePublicInputAuthority(w, art) ==
    /\ art = "available"
    /\ "delivery.bundle" \notin w.faults
    /\ publicInput(w).root = "own" /\ publicInput(w).size = "own"

WithInput(w, art, status) == IF resolvePublicInputAuthority(w, art) THEN status ELSE "not_run"

(* Faulty variant: presented records are not held against the board's size. *)
resolveCountedInputSanityPresent(w, art) == WithInput(w, art, "success")

resolveCountedInputSanity(w, art) == WithInput(w, art, Passed(votesCount(w) <= treeSize(w)))

resolveCountedUnique(w, art) == WithInput(w, art, Passed(publicInput(w).unique))

resolveCountedInputCommitmentMatch(w, art, gate) ==
    Gated(gate, WithInput(w, art, Passed(publicInput(w).commitment = "own")))

resolveCountedTallyConsistent(w, gate) ==
    Gated(gate, Passed(/\ Slots # missingSlots(w) \/ extraRecords(w) > 0
                       /\ publishedIsVerified(w)))

resolveCountedMissingIndicesZero(w, gate) ==
    IF excludedSlots(w) # {} THEN "failed" ELSE Gated(gate, "success")

resolveCountedExpectedVsTreeSize(w, gate) == Gated(gate, Passed(totalExpected(w) = treeSize(w)))

resolveCountedElectionManifestConsistent(w, art, gate) ==
    LET m == electionManifest(w)
        authority == resolvePublicInputAuthority(w, art)
    IN  Gated(gate,
              IF art # "available" THEN "not_run"
              ELSE Passed(/\ m.hash = m.recomputed
                          /\ m.election = "own"
                          /\ m.recomputed = OwnConfig
                          /\ authority => /\ publicInput(w).election = "own"
                                          /\ publicInput(w).config = m.recomputed))

resolveCountedCloseStatementConsistent(w, art, gate) ==
    LET c == closeStatement(w)
    IN  Gated(gate, WithInput(w, art, Passed(/\ c.digest = c.recomputed
                                             /\ c.time = "own" /\ c.log = "own"
                                             /\ c.size = "own" /\ c.root = "own"
                                             /\ c.digest = OwnDigest)))

resolveCountedMyVoteIncluded(w, gate) ==
    Gated(gate, IF "bitmap.absent" \in w.faults \/ prepareVerificationRead(w) = "unavailable"
                THEN "not_run"
                ELSE Passed("bitmap.bad" \notin w.faults /\ User \notin excludedSlots(w)))

resolveStarkImageIdMatch(w, outcome, starkStatus) ==
    CASE starkStatus # "success" -> starkStatus
      [] ~journalImageMatches(w) -> "failed"
      [] outcome.report = NoReport -> "not_run"
      [] OTHER -> Passed(/\ outcome.report.receipt = outcome.report.expected
                         /\ outcome.report.receipt = claimedImage(w))

(* The checks as the server evaluates them: the cast checks belong to the browser. *)
evaluateChecks(w, art, outcome, allowDev, s) ==
    LET stark == resolveStarkStatus(outcome, allowDev)
        gate  == resolveZkGateStatus(stark)
    IN  [i \in CheckIds |->
           CASE i \in CastIds -> "not_run"
             [] i \in {"recorded_commitment_in_bulletin", "recorded_inclusion_proof"} -> resolveRecordedInclusionProof(w)
             [] i \in {"recorded_root_at_cast_consistent", "recorded_consistency_proof"} -> resolveRecordedConsistencyProof(w)
             [] i = "recorded_index_in_range" -> resolveRecordedIndexInRange(w)
             [] i = "recorded_sth_third_party" -> resolveRecordedSthThirdParty(s)
             [] i = "counted_input_sanity" -> resolveCountedInputSanity(w, art)
             [] i \in {"counted_unique_indices", "counted_unique_commitments"} -> resolveCountedUnique(w, art)
             [] i = "counted_tally_consistent" -> resolveCountedTallyConsistent(w, gate)
             [] i = "counted_missing_indices_zero" -> resolveCountedMissingIndicesZero(w, gate)
             [] i = "counted_expected_vs_tree_size" -> resolveCountedExpectedVsTreeSize(w, gate)
             [] i = "counted_election_manifest_consistent" -> resolveCountedElectionManifestConsistent(w, art, gate)
             [] i = "counted_close_statement_consistent" -> resolveCountedCloseStatementConsistent(w, art, gate)
             [] i = "counted_my_vote_included" -> resolveCountedMyVoteIncluded(w, gate)
             [] i = "counted_input_commitment_match" -> resolveCountedInputCommitmentMatch(w, art, gate)
             [] i = "stark_image_id_match" -> resolveStarkImageIdMatch(w, outcome, stark)
             [] i = "stark_receipt_verify" -> stark]

-----------------------------------------------------------------------------
(* The presentation policy, shared by the server and the browser.          *)

resolveWorstStatus(S) ==
    CASE "failed"  \in S -> "failed"
      [] "running" \in S -> "running"
      [] "pending" \in S -> "pending"
      [] "not_run" \in S -> "not_run"
      [] OTHER -> "success"

resolveRoleStatus(checks, ids) == resolveWorstStatus({checks[i] : i \in ids})

categoryFailed(checks, sthConfigured, ids) ==
    \E i \in ids \cap RequiredIds(sthConfigured) : checks[i] = "failed"

hasPublishedTallyMismatch(checks, sthConfigured) ==
    /\ checks["counted_tally_consistent"] = "failed"
    /\ resolveRoleStatus(checks, StarkIds) = "success"
    /\ checks["counted_missing_indices_zero"] = "success"
    /\ checks["counted_my_vote_included"] = "success"
    /\ resolveRoleStatus(checks, InputIntegrityIds) = "success"
    /\ \A i \in RecordedIds \cap RequiredIds(sthConfigured) : checks[i] = "success"
    /\ \A i \in RequiredIds(sthConfigured) : checks[i] # "not_run"

(* The first reason that applies, in the order the code asks. *)
deriveVerificationSummary(checks, sthConfigured, dev) ==
    LET required == RequiredIds(sthConfigured)
    IN  CASE \E i \in required : checks[i] \in {"pending", "running"} -> "in_progress"
          [] resolveRoleStatus(checks, StarkIds) = "failed" -> "proof_verification_failed"
          [] checks["counted_missing_indices_zero"] = "failed" ->
               (CASE checks["counted_my_vote_included"] = "failed" -> "user_vote_excluded"
                  [] checks["counted_my_vote_included"] = "success" -> "votes_excluded"
                  [] OTHER -> "votes_excluded_unknown")
          [] categoryFailed(checks, sthConfigured, RecordedIds) -> "recorded_integrity_failed"
          [] hasPublishedTallyMismatch(checks, sthConfigured) -> "published_tally_mismatch"
          [] categoryFailed(checks, sthConfigured, CountedIds) -> "counted_integrity_failed"
          [] categoryFailed(checks, sthConfigured, CastIds) -> "cast_integrity_failed"
          [] \E i \in required : checks[i] = "not_run" -> "missing_evidence"
          [] dev -> "demo_only"
          [] \E i \in CheckIds \ required : checks[i] \in {"failed", "not_run"} -> "verified_with_limitations"
          [] OTHER -> "fully_verified"

Tone(summary) ==
    CASE summary \in {"in_progress", "missing_evidence", "verified_with_limitations"} -> "warning"
      [] summary = "demo_only" -> "demo_only"
      [] summary = "fully_verified" -> "verified"
      [] OTHER -> "failed"

HardFailureIds ==
    {"recorded_consistency_proof", "counted_missing_indices_zero", "counted_expected_vs_tree_size",
     "counted_election_manifest_consistent", "counted_close_statement_consistent", "stark_receipt_verify"}

hasHardFailure(checks, sthConfigured, excluded) ==
    \/ excluded
    \/ \E i \in HardFailureIds : checks[i] = "failed"
    \/ sthConfigured /\ checks["recorded_sth_third_party"] = "failed"

hasExplicitProofFailure(checks, outcome) ==
    \/ outcome.report.status = "failed"
    \/ \E i \in StarkIds : checks[i] = "failed"
    \/ /\ outcome.status = "failed"
       /\ outcome.report.status \notin {"success", "dev_mode"}
       /\ \E i \in StarkIds : checks[i] # "success"

(* The status of each stage comes from its required checks. *)
deriveStageStatusFromChecks(checks, ids) ==
    LET S == {checks[i] : i \in ids}
    IN  CASE "failed" \in S -> "failed"
          [] "running" \in S -> "running"
          [] "pending" \in S -> "pending"
          [] S \subseteq {"success"} -> "success"
          [] OTHER -> "not_run"

deriveStageStatuses(checks, sthConfigured) ==
    [cast_as_intended    |-> deriveStageStatusFromChecks(checks, CastIds \cap RequiredIds(sthConfigured)),
     recorded_as_cast    |-> deriveStageStatusFromChecks(checks, RecordedIds \cap RequiredIds(sthConfigured)),
     counted_as_recorded |-> deriveStageStatusFromChecks(checks, CountedIds \cap RequiredIds(sthConfigured)),
     stark_verification  |-> deriveStageStatusFromChecks(checks, StarkIds \cap RequiredIds(sthConfigured))]

areAllVerificationStagesSuccessful(stages) ==
    /\ stages.cast_as_intended = "success"
    /\ stages.recorded_as_cast = "success"
    /\ stages.counted_as_recorded = "success"
    /\ stages.stark_verification = "success"

resolveVerificationDisplayDecision(explicit, hard, tone) ==
    CASE explicit -> "failed"
      [] hard /\ tone # "failed" -> "failed"
      [] OTHER -> tone

hasDevelopmentPresentationEvidence(outcome) ==
    outcome.status = "dev_mode" \/ outcome.report.status = "dev_mode"
    \/ (outcome.report # NoReport /\ outcome.report.dev)

(* Nothing is rendered before the sequence is over and every check has an answer. *)
deriveVerificationPresentationPolicy(checks, outcome, sthConfigured, excluded, clientFailure, ready) ==
    LET dev      == hasDevelopmentPresentationEvidence(outcome)
        summary  == deriveVerificationSummary(checks, sthConfigured, dev)
        hard     == hasHardFailure(checks, sthConfigured, excluded)
        explicit == clientFailure \/ hasExplicitProofFailure(checks, outcome)
        shown    == ready /\ \A i \in CheckIds : checks[i] \notin {"pending", "running"}
        rendered == IF shown THEN resolveVerificationDisplayDecision(explicit, hard, Tone(summary)) ELSE "none"
        eligible == /\ summary = "fully_verified" /\ ~hard /\ ~explicit
                    /\ rendered = "verified"
                    /\ areAllVerificationStagesSuccessful(deriveStageStatuses(checks, sthConfigured))
                    /\ ~dev
    IN  [summary |-> summary, rendered |-> rendered, eligible |-> eligible,
         contradictory |-> rendered = "verified" /\ ~eligible]

-----------------------------------------------------------------------------
(* The response schema re-derives what the resource says.                  *)

hasCoherentPublicFactDerivedCheckStatuses(w, checks, outcome) ==
    LET gate == IF outcome.status = "dev_mode"
                THEN IF checks["stark_receipt_verify"] = "not_run" THEN "not_run" ELSE "none"
                ELSE resolveZkGateStatus(outcome.status)
    IN  /\ \A i \in CastIds : checks[i] = "not_run"
        /\ checks["recorded_commitment_in_bulletin"] = checks["recorded_inclusion_proof"]
        /\ checks["recorded_root_at_cast_consistent"] = checks["recorded_consistency_proof"]
        /\ gate # "none" =>
             \A i \in {"counted_my_vote_included", "counted_election_manifest_consistent",
                       "counted_close_statement_consistent", "counted_input_commitment_match"} : checks[i] = gate
        /\ gate = "none" /\ prepareVerificationRead(w) = "unavailable" => checks["counted_my_vote_included"] = "not_run"
        /\ checks["recorded_index_in_range"] = resolveRecordedIndexInRange(w)
        /\ checks["recorded_inclusion_proof"] = resolveRecordedInclusionProof(w)
        /\ prepareVerificationRead(w) = "unavailable" => checks["recorded_consistency_proof"] = "not_run"
        /\ checks["counted_missing_indices_zero"] = resolveCountedMissingIndicesZero(w, gate)
        /\ checks["counted_tally_consistent"] = Gated(gate, Passed(publishedIsVerified(w)))
        /\ checks["counted_expected_vs_tree_size"] = resolveCountedExpectedVsTreeSize(w, gate)

hasCoherentPublicVerifierChecks(checks, outcome) ==
    LET image == checks["stark_image_id_match"]  receipt == checks["stark_receipt_verify"]
    IN  CASE outcome.status \in {"not_run", "running", "failed"} -> image = outcome.status /\ receipt = outcome.status
          [] outcome.status = "success" ->
               receipt = "success" /\ image = IF outcome.report = NoReport THEN "not_run" ELSE "success"
          [] OTHER ->
               \/ receipt = "not_run" /\ image = "not_run"
               \/ /\ receipt = "success"
                  /\ image = IF outcome.report = NoReport THEN "not_run"
                             ELSE Passed(outcome.report.receipt # "null")

hasCoherentVerificationReportExpectedImageId(w, outcome) ==
    outcome.report # NoReport => outcome.report.expected = claimedImage(w)

hasCoherentAvailableVoterEvidence(w) ==
    prepareVerificationRead(w) = "available" => "voter.snapshot" \notin w.faults

(* A scenario's published tally and exclusions must be exactly the scenario's. *)
hasCoherentPublicTamperScenarioProjection(w) == excludedSlots(w) = ignoredVotes(w)

admitsResource(w, checks, outcome) ==
    /\ hasCoherentPublicFactDerivedCheckStatuses(w, checks, outcome)
    /\ hasCoherentPublicVerifierChecks(checks, outcome)
    /\ hasCoherentVerificationReportExpectedImageId(w, outcome)
    /\ hasCoherentAvailableVoterEvidence(w)
    /\ hasCoherentPublicTamperScenarioProjection(w)

(* What may authorize the fully verified label, recomputed from the public facts. *)
hasAdmissibleFullyVerifiedFacts(w, outcome) ==
    /\ w.scenario = "S0"
    /\ outcome.status = "success"
    /\ prepareVerificationRead(w) = "available"
    /\ hasCoherentAvailableVoterEvidence(w)
    /\ outcome.report # NoReport => /\ outcome.report.status = "success"
                                    /\ outcome.report.expected = claimedImage(w)
                                    /\ outcome.report.receipt = claimedImage(w)
    /\ excludedSlots(w) = {} /\ rejectedRecords(w) = 0
    /\ treeSize(w) = totalExpected(w)
    /\ publishedIsVerified(w)

-----------------------------------------------------------------------------
(* The browser's own cast checks.                                          *)

evaluateLocalCastChecks(w) ==
    LET session == "browser.session" \notin w.faults
        receipt == prepareVerificationRead(w) = "available"
        When(b, status) == IF b THEN status ELSE "not_run"
    IN  [cast_receipt_present  |-> When(receipt, "success"),
         cast_choice_range     |-> When(session, "success"),
         cast_random_format    |-> When(session, "success"),
         cast_commitment_match |-> When(session /\ receipt, Passed("browser.commitment" \notin w.faults))]

overlayLocalCastChecks(w, checks) ==
    [i \in CheckIds |-> IF i \in CastIds THEN evaluateLocalCastChecks(w)[i] ELSE checks[i]]

-----------------------------------------------------------------------------
(* The steps.                                                              *)

NoAnswer == [kind |-> "none"]

(* What the verifier can record: the receipt carries the image it was proved with, "own". *)
VerifierResults ==
    {[status |-> "success",  report |-> Report("success", "own", "own", FALSE)],
     [status |-> "success",  report |-> NoReport],
     [status |-> "failed",   report |-> Report("failed", "other", "own", FALSE)],
     [status |-> "failed",   report |-> Report("failed", "own", "null", TRUE)],
     [status |-> "failed",   report |-> NoReport],
     [status |-> "dev_mode", report |-> Report("dev_mode", "own", "own", TRUE)],
     [status |-> "dev_mode", report |-> Report("dev_mode", "own", "null", TRUE)]}

Init ==
    /\ \E scenario \in Scenarios, target \in Slots, profile \in {"production", "development"} :
         \E fault \in [1..MaxFaults -> Faults \cup {"none"}] :
           /\ scenario \in {"S3", "S4"} => target # User
           /\ world = [scenario |-> scenario, target |-> target, profile |-> profile,
                       faults |-> {fault[n] : n \in 1..MaxFaults} \ {"none"}]
    /\ admitted = "pending"
    /\ record = [status |-> "not_run", report |-> NoReport]
    /\ sth \in {"unconfigured", "verified", "unverified"}
    /\ resource = NoAnswer
    /\ page = [data |-> NoAnswer, sequence |-> "idle", failure |-> FALSE, sthConfigured |-> sth # "unconfigured"]

(* A stored result keeps its audit artifacts only when all three are consistent with the journal;   *)
(* the local path may store a result without them.                                                 *)
canonicalizeFinalizationResult ==
    /\ admitted = "pending"
    /\ \/ admitted' = IF resolveConsistentPublicAuditArtifacts(world) THEN "available" ELSE "refused"
       \/ admitted' = "absent" /\ world.profile = "development"
    /\ UNCHANGED <<world, record, sth, resource, page>>

Finalized == admitted \in {"available", "absent"}

StartVerification ==
    /\ Finalized /\ record.status = "not_run"
    /\ record' = [status |-> "running", report |-> NoReport]
    /\ UNCHANGED <<world, admitted, sth, resource, page>>

CompleteVerification ==
    /\ Finalized /\ record.status = "running"
    /\ record' \in VerifierResults
    /\ UNCHANGED <<world, admitted, sth, resource, page>>

(* The resource as answered. A corrupt read and a result that contradicts its journal are errors before any *)
(* check; an incoherent resource is refused by its own schema with a server error.                         *)
getVerifyHandler ==
    LET outcome == projectVerifierOutcome(world, record)
        checks  == evaluateChecks(world, admitted, outcome, allowsDevelopmentVerification(world, record), sth)
    IN  /\ Finalized
        /\ resource' = IF /\ prepareVerificationRead(world) # "corrupt"
                          /\ journalImageMatches(world)
                          /\ admitsResource(world, checks, outcome)
                       THEN [kind |-> "available", outcome |-> outcome, checks |-> checks]
                       ELSE [kind |-> "rejected", outcome |-> outcome]
        /\ UNCHANGED <<world, admitted, record, sth, page>>

projectVerificationResource ==
    /\ resource.kind = "available"
    /\ page' = [page EXCEPT !.data = [resource EXCEPT !.checks = overlayLocalCastChecks(world, resource.checks)]]
    /\ UNCHANGED <<world, admitted, record, sth, resource>>

StartSequence ==
    /\ page.sequence = "idle" /\ page.data # NoAnswer
    /\ page' = [page EXCEPT !.sequence = "running"]
    /\ UNCHANGED <<world, admitted, record, sth, resource>>

(* The page's sequence ends; the STARK step may have failed in the browser, by a timeout or an error. *)
FinishSequence ==
    /\ page.sequence = "running"
    /\ \E failed \in BOOLEAN : page' = [page EXCEPT !.sequence = "complete", !.failure = failed]
    /\ UNCHANGED <<world, admitted, record, sth, resource>>

Next ==
    \/ canonicalizeFinalizationResult
    \/ StartVerification
    \/ CompleteVerification
    \/ getVerifyHandler
    \/ projectVerificationResource
    \/ StartSequence
    \/ FinishSequence

Spec == Init /\ [][Next]_vars

-----------------------------------------------------------------------------
(* What the page renders (resolveVerificationPagePresentation). *)
PagePolicy ==
    deriveVerificationPresentationPolicy(page.data.checks, page.data.outcome, page.sthConfigured,
        excludedSlots(world) # {}, page.failure, page.sequence = "complete")

Shown == page.data # NoAnswer

(* The variables keep their types. *)
TypeOK ==
    /\ admitted \in {"pending", "available", "absent", "refused"}
    /\ record \in VerifierResults \cup {[status |-> s, report |-> NoReport] : s \in {"not_run", "running"}}
    /\ resource.kind \in {"none", "available", "rejected"}
    /\ resource.kind = "available" => resource.checks \in [CheckIds -> StepStatuses]
    /\ Shown => page.data.checks \in [CheckIds -> StepStatuses]
    /\ page.sequence \in {"idle", "running", "complete"} /\ page.failure \in BOOLEAN

(* The page says "verified" only of an election whose every vote was presented once and counted, whose  *)
(* published tally is the proved one, whose proof was made with the claimed image and whose voter's     *)
(* choice is the one committed: whichever single piece of evidence disagrees, some check stands in the  *)
(* way (evaluate-checks.ts, verification-summary.ts).                                                  *)
VerifiedIsJustified ==
    Shown /\ PagePolicy.rendered = "verified" =>
        /\ excludedSlots(world) = {} /\ rejectedRecords(world) = 0
        /\ ~recounted(world) /\ totalExpected(world) = treeSize(world)
        /\ claimedImage(world) = "own" /\ journalImageMatches(world)
        /\ world.faults \cap (AuditFaults \cup VoterFaults) = {}
        /\ page.data.outcome.status = "success" /\ page.data.outcome.report # NoReport
        /\ sth # "unverified"

(* The browser decides alone whether the label is earned, because the server never evaluates the cast    *)
(* checks; what it labels fully verified satisfies the facts the response schema would have demanded of  *)
(* a server that did (hasAdmissibleFullyVerifiedFacts).                                                 *)
EligibleIsCoherent ==
    Shown /\ PagePolicy.eligible => hasAdmissibleFullyVerifiedFacts(world, page.data.outcome)

(* Rendering never reaches deriveIneligiblePresentationPolicy's throw: "verified" is rendered only with  *)
(* the label earned, for what the server answered and for what the browser made of it.                   *)
NeverContradictory == Shown => ~PagePolicy.contradictory

(* Once the sequence is over, a required check that failed is rendered as a failure, never softened to a *)
(* warning, a demo or a verified-with-limitations page.                                                *)
FailureIsShown ==
    /\ Shown /\ PagePolicy.rendered # "none"
    /\ \E i \in RequiredIds(page.sthConfigured) : page.data.checks[i] = "failed"
    => PagePolicy.rendered = "failed"

(* Artifacts that the finalization admitted never fail the checks that compare them again at read time:  *)
(* the two comparisons, written separately, agree.                                                      *)
AdmittedArtifactsPass ==
    resource.kind = "available" /\ admitted = "available" /\ record.status = "success" =>
        \A i \in {"counted_election_manifest_consistent", "counted_close_statement_consistent",
                  "counted_input_commitment_match"} : resource.checks[i] \in {"success", "not_run", "pending"}

(* The resource is refused only for evidence of another vote, a journal or a report on another image, a  *)
(* contradictory cast snapshot, or exclusions that the published scenario does not account for: in every *)
(* other state of the evidence the handler's checks and the schema's re-derivation of them agree.       *)
ServerResourceAdmitted ==
    resource.kind = "rejected" =>
        \/ prepareVerificationRead(world) = "corrupt" \/ ~journalImageMatches(world)
        \/ resource.outcome.report # NoReport /\ resource.outcome.report.expected # claimedImage(world)
        \/ "voter.snapshot" \in world.faults
        \/ excludedSlots(world) # ignoredVotes(world)
=============================================================================

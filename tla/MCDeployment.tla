---------------------------- MODULE MCDeployment ----------------------------
(***************************************************************************)
(* What surrounds a deployment and shares no state: the audit of the       *)
(* authority buckets, the ledger of images, the published status, the      *)
(* review of plans, the verifier's assets and signatures, and the          *)
(* operations ledger.  A behaviour is a behaviour of one instance, chosen  *)
(* by part: the variables of the others keep the value None.  The module   *)
(* extends the audit's: policies at most MaxEdits edits from the ones the  *)
(* Terraform writes.                                                       *)
(***************************************************************************)
EXTENDS AuthorityBucket, Naturals, Sequences, TLC

CONSTANTS None, MaximumAssetBytes, MaximumPackageFiles,
          x1, x2, x3   \* interchangeable executions, installers, packagers and deliveries

VARIABLES
    part,
    candidates, promotions, jobs, preparations, apps,
    checkpoint, status, pipeline, event, delivery, alarm,
    plan, pc, review, report, built,
    upstream, state, roots, assets, artifact, edited, faults,
    config, dir, statuses, signed, calls, launched, output, workspaces, failures,
    now, events, invocations, stream, log, losses

ledgerVars    == <<candidates, promotions, jobs, preparations, apps>>
statusVars    == <<checkpoint, status, pipeline, event, delivery, alarm>>
reviewVars    == <<plan, pc, review, report, built>>
assetVars     == <<upstream, state, roots, assets, artifact, edited, faults>>
signatureVars == <<config, dir, statuses, signed, calls, launched, output, workspaces, failures>>
opsVars       == <<now, events, invocations, stream, log, losses>>
allVars == <<part, vars, ledgerVars, statusVars, reviewVars, assetVars, signatureVars, opsVars>>

-----------------------------------------------------------------------------
\* The plans that a review is checked with, of at most two changes: every way to
\* describe one attribute of one resource, alone and beside a simple change, and
\* every disposition of a plan.

Flags(s) == [all |-> FALSE, of |-> s]

Empty == [x \in {} |-> 0]

Change(address, actions, before, after) ==
  [address |-> address, actions |-> actions, moved |-> FALSE, before |-> before, after |-> after,
   sensBefore |-> Flags({}), sensAfter |-> Flags({}), unknown |-> Flags({}), paths |-> {}]

Values(S) == UNION {[T -> {1}] : T \in SUBSET S} \cup UNION {[T -> {1, 2}] : T \in SUBSET S}

Addresses == {<<"foundation", "none">>, <<"foundation", "k">>, <<"guardrail", "requestShape">>, <<"guardrail", "k">>,
                <<"other", "none">>, <<"state", "none">>, <<"state", "k">>}

\* Values before and after that an action may have.
Before(actions) == IF actions \in {<<"create">>, <<"read">>} THEN {Empty} ELSE {f \in Values({"a"}) : \A x \in DOMAIN f : f[x] = 1}
After(actions) == IF actions \in {<<"delete">>, <<"forget">>} THEN {Empty} ELSE Values({"a"})

ActionLists == {<<"no-op">>, <<"create">>, <<"update">>, <<"delete">>, <<"delete", "create">>, <<"create", "delete">>,
              <<"read">>, <<"forget">>}

\* One attribute in every way Terraform may describe it.
Full(address, actions) ==
  {c \in [address : {address}, actions : {actions}, moved : {FALSE}, before : Before(actions), after : After(actions),
          sensBefore : [all : {FALSE}, of : SUBSET {"a"}], sensAfter : [all : BOOLEAN, of : SUBSET {"a"}],
          unknown : [all : {FALSE}, of : SUBSET {"a"}], paths : SUBSET {"a"}] :
     /\ c.sensBefore.of \subseteq DOMAIN c.before
     /\ c.sensAfter.of \subseteq DOMAIN c.after \cup c.unknown.of
     /\ c.sensAfter.all => c.sensAfter.of = DOMAIN c.after \cup c.unknown.of
     /\ c.unknown.of \cap DOMAIN c.after = {}
     /\ actions \in {<<"no-op">>, <<"delete">>, <<"forget">>} => c.unknown.of = {}
     /\ actions = <<"no-op">> => c.before = c.after}

One == UNION {Full(a, s) : a \in Addresses, s \in ActionLists}

Simple ==
  {Change(a, s, [x \in {"b"} |-> 1], [x \in {"b"} |-> 2]) :
     a \in {<<"foundation", "k">>, <<"other", "none">>, <<"state", "none">>}, s \in {<<"update">>, <<"delete", "create">>}}
  \cup {Change(<<"foundation", "k">>, <<"delete">>, [x \in {"b"} |-> 1], Empty),
        Change(<<"guardrail", "other">>, <<"create">>, Empty, [x \in {"b"} |-> 1]),
        Change(<<"data", "none">>, <<"read">>, Empty, [x \in {"b"} |-> 1]),
        Change(<<"state", "none">>, <<"create">>, Empty, [x \in {"b"} |-> 1]),
        [Change(<<"other", "k">>, <<"create">>, Empty, Empty) EXCEPT !.moved = TRUE]}

\* One of each root and kind, to be planned beside any other change.
Beside == {d \in Simple : d.actions \in {<<"update">>, <<"read">>} \/ d.moved}

Base == [root |-> "bootstrap", reviewed |-> TRUE, complete |-> TRUE, errored |-> FALSE, applyable |-> TRUE,
         deferred |-> FALSE, changes |-> <<>>, drift |-> <<>>, outputs |-> {}, checks |-> {}]

\* Plans that differ in their changes.
OfChanges == {[Base EXCEPT !.changes = s] :
                s \in {<<c>> : c \in One} \cup {<<c, d>> : c \in One, d \in Beside} \cup {<<d, e>> : d \in Simple, e \in Simple}}

\* Plans that differ in the rest.
OfDisposition ==
  [root : {"bootstrap", "app"}, reviewed : BOOLEAN, complete : BOOLEAN, errored : BOOLEAN, applyable : BOOLEAN,
   deferred : BOOLEAN,
   changes : {<<>>, <<Change(<<"other", "none">>, <<"update">>, [x \in {"b"} |-> 1], [x \in {"b"} |-> 2])>>},
   drift : {<<>>, <<Change(<<"state", "k">>, <<"delete">>, [x \in {"b"} |-> 1], Empty)>>,
            <<Change(<<"state", "k">>, <<"forget">>, Empty, Empty)>>,
            <<[Change(<<"state", "k">>, <<"update">>, Empty, Empty) EXCEPT !.moved = TRUE]>>},
   outputs : {{}} \cup {{[name |-> n, actions |-> s]} : n \in {"foundation_output", "other_output"},
                                                        s \in {<<"create">>, <<"delete">>, <<"no-op">>}}
             \cup {{[name |-> "foundation_output", actions |-> <<"update">>], [name |-> "other_output", actions |-> <<"update">>]}},
   checks : {{}, {"pass", "unknown"}, {"fail"}}]

AllPlans == OfChanges \cup OfDisposition

-----------------------------------------------------------------------------
\* Two Toolchain, two Prover and one App execution; two commits that share their
\* zkVM contract; the second Prover image carries no valid signature.
Ledger == INSTANCE ImageLedger WITH
    ToolchainExecs <- {"t1", "t2"}, ProverExecs <- {"p1", "p2"}, AppExecs <- {"a1"},
    Sources <- {"s1", "s2"}, ContractOf <- [s \in {"s1", "s2"} |-> "z"], Genuine <- {"p1"},
    SourceOf <- [e \in {"t1", "t2", "p1", "p2", "a1"} |-> IF e \in {"t2", "p2"} THEN "s2" ELSE "s1"]

\* Two acceptances, each delivered up to twice.
Published == INSTANCE AppStatus WITH
    Execs <- {x1, x2}, MaxClock <- 2, MaxCopies <- 2, MaxAttempts <- 2

Review == INSTANCE PlanReview WITH
    Attrs <- {"a", "b"}, MaxAttributes <- 2, MaxReviewed <- 2, MaxReported <- 1, MaxOutputs <- 1,
    MaxNodes <- 9, Plans <- AllPlans

\* Manifests of two commits, and one of each kind of flaw; the packagers share
\* the installer's checks of a manifest.
Installation == INSTANCE AssetInstall WITH
    Installers <- {x1, x2}, Packagers <- {}, MaxFaults <- 2,
    Manifests <- {<<"manifest", 1, "none">>, <<"manifest", 2, "none">>, <<"manifest", 1, "pins">>,
                  <<"manifest", 1, "entries">>, <<"manifest", 1, "executable">>,
                  <<"manifest", 1, "machine">>}
Packaging == INSTANCE AssetInstall WITH
    Installers <- {}, Packagers <- {x1, x2}, MaxFaults <- 2,
    Manifests <- {<<"manifest", 1, "none">>, <<"manifest", 2, "none">>, <<"manifest", 1, "executable">>}

\* An installation of version v, and damaged ones.
Files == INSTANCE AssetFiles
manifest(v) == <<"manifest", v, "none">>
whole(v) ==
    LET entries == [p \in Files!Installed |->
                        Files!file(IF p = "manifest" THEN manifest(v) ELSE Files!pin(manifest(v), "amd64", p),
                             Files!ExpectedMode(p))]
    IN [entries |-> entries, recordMode |-> "0444",
        record |-> [architecture |-> "amd64", manifest |-> manifest(v), wellFormed |-> TRUE,
                    root |-> Files!pin(manifest(v), "amd64", "root"),
                    files |-> [p \in Files!Installed |-> Files!recordOf(entries[p])]]]
altered == [whole(1) EXCEPT !.entries["notation"].contents = <<"notation", 3, "amd64">>]
forged == [altered EXCEPT !.record.files["notation"].sha256 = <<"notation", 3, "amd64">>]

authority == [image |-> "img", profile |-> "profile", coherent |-> TRUE]
configuration(attempts, timeout, delay, process, deadline) ==
    [authority |-> authority, manifest |-> manifest(1), root |-> Files!pin(manifest(1), "amd64", "root"),
     attempts |-> attempts, attemptTimeout |-> timeout, retryDelay |-> delay,
     processTimeout |-> process, deadline |-> deadline]
said(profile, state_) == [profile |-> profile, status |-> state_]
Asked == {authority, [authority EXCEPT !.profile = "other"], [authority EXCEPT !.coherent = FALSE]}

\* A tight budget, one that is short by one, and one attempt.
Lambda == INSTANCE SignatureVerifier WITH
    Executions <- {x1}, Preparations <- {}, Margin <- 1, Retries <- 1, MaxFaults <- 2,
    Configurations <- {configuration(2, 2, 1, 2, 8), configuration(2, 2, 1, 2, 7), configuration(1, 1, 2, 3, 5)},
    Directories <- {whole(1), whole(2), altered, forged}, Events <- Asked, faults <- failures,
    Statuses <- {<<>>, <<said("profile", "IN_PROGRESS")>>, <<said("profile", "COMPLETE")>>,
                 <<said("profile", "FAILED")>>, <<said("other", "COMPLETE")>>,
                 <<said("profile", "COMPLETE"), said("profile", "COMPLETE")>>,
                 <<said("profile", "COMPLETE"), said("other", "FAILED")>>, <<said("profile", "malformed")>>}

\* The command line reads no configuration of the Lambda.
Cli == INSTANCE SignatureVerifier WITH
    Executions <- {}, Preparations <- {x1, x2}, Margin <- 1, Retries <- 1, MaxFaults <- 1,
    Configurations <- {configuration(1, 1, 2, 3, 5)}, Directories <- {whole(1), forged}, Events <- Asked,
    faults <- failures,
    Statuses <- {<<>>, <<said("profile", "COMPLETE")>>,
                 <<said("profile", "COMPLETE"), said("other", "FAILED")>>}

\* Events of every type and state, delivered by two invocations; events of one
\* execution that three invocations deliver in any order.
Ops == INSTANCE OpsLedger WITH
    Executions <- {"e1"}, Deliveries <- {x1, x2}, Owned <- {TRUE, FALSE}, MaxAttempts <- 2, MaxAge <- 1,
    Skew <- 1, MaxTime <- 2, MaxEvents <- 2, MaxFaults <- 1, calls <- invocations, faults <- losses,
    Types <- {"alarm_state_changed", "prover_job_finished", "pipeline_execution_changed", "deployment_accepted"},
    States <- {"STARTED", "RESUMED", "STOPPING", "SUCCEEDED", "FAILED", "CANCELED", "SUPERSEDED", "STOPPED"}
OpsOrder == INSTANCE OpsLedger WITH
    Executions <- {"e1"}, Deliveries <- {x1, x2, x3}, Owned <- {TRUE}, MaxAttempts <- 2, MaxAge <- 2,
    Skew <- 1, MaxTime <- 2, MaxEvents <- 4, MaxFaults <- 0, calls <- invocations, faults <- losses,
    Types <- {"pipeline_execution_changed", "deployment_accepted"},
    States <- {"STARTED", "RESUMED", "SUCCEEDED", "FAILED"}

ASSUME Instances ==
    /\ Ledger!LedgerConstants /\ Published!AppStatusConstants /\ Review!PlanReviewConstants
    /\ Ops!OpsLedgerConstants /\ OpsOrder!OpsLedgerConstants

-----------------------------------------------------------------------------
Off(v) == v = None

NoBucket    == Off(policy) /\ Off(versioning) /\ Off(edits)
NoLedger    == Off(candidates) /\ Off(promotions) /\ Off(jobs) /\ Off(preparations) /\ Off(apps)
NoStatus    == /\ Off(checkpoint) /\ Off(status) /\ Off(pipeline) /\ Off(event) /\ Off(delivery)
               /\ Off(alarm)
NoReview    == Off(plan) /\ Off(pc) /\ Off(review) /\ Off(report) /\ Off(built)
NoAssets    == /\ Off(upstream) /\ Off(state) /\ Off(roots) /\ Off(assets) /\ Off(artifact)
               /\ Off(edited) /\ Off(faults)
NoSignature == /\ Off(config) /\ Off(dir) /\ Off(statuses) /\ Off(signed) /\ Off(calls)
               /\ Off(launched) /\ Off(output) /\ Off(workspaces) /\ Off(failures)
NoOps       == Off(now) /\ Off(events) /\ Off(invocations) /\ Off(stream) /\ Off(log) /\ Off(losses)

SuiteInit ==
    \/ /\ part = "bucket" /\ Init
       /\ NoLedger /\ NoStatus /\ NoReview /\ NoAssets /\ NoSignature /\ NoOps
    \/ /\ part = "ledger" /\ Ledger!Init
       /\ NoBucket /\ NoStatus /\ NoReview /\ NoAssets /\ NoSignature /\ NoOps
    \/ /\ part = "status" /\ Published!Init
       /\ NoBucket /\ NoLedger /\ NoReview /\ NoAssets /\ NoSignature /\ NoOps
    \/ /\ part = "review" /\ Review!Init
       /\ NoBucket /\ NoLedger /\ NoStatus /\ NoAssets /\ NoSignature /\ NoOps
    \/ /\ \/ part = "installation" /\ Installation!Init
          \/ part = "packaging" /\ Packaging!Init
       /\ NoBucket /\ NoLedger /\ NoStatus /\ NoReview /\ NoSignature /\ NoOps
    \/ /\ \/ part = "lambda" /\ Lambda!Init
          \/ part = "cli" /\ Cli!Init
       /\ NoBucket /\ NoLedger /\ NoStatus /\ NoReview /\ NoAssets /\ NoOps
    \/ /\ \/ part = "ops" /\ Ops!Init
          \/ part = "ops order" /\ OpsOrder!Init
       /\ NoBucket /\ NoLedger /\ NoStatus /\ NoReview /\ NoAssets /\ NoSignature

SuiteNext ==
    \/ /\ part = "bucket" /\ Next
       /\ UNCHANGED <<part, ledgerVars, statusVars, reviewVars, assetVars, signatureVars, opsVars>>
    \/ /\ part = "ledger" /\ Ledger!Next
       /\ UNCHANGED <<part, vars, statusVars, reviewVars, assetVars, signatureVars, opsVars>>
    \/ /\ part = "status" /\ Published!Next
       /\ UNCHANGED <<part, vars, ledgerVars, reviewVars, assetVars, signatureVars, opsVars>>
    \/ /\ part = "review" /\ Review!Next
       /\ UNCHANGED <<part, vars, ledgerVars, statusVars, assetVars, signatureVars, opsVars>>
    \/ /\ \/ part = "installation" /\ Installation!Next
          \/ part = "packaging" /\ Packaging!Next
       /\ UNCHANGED <<part, vars, ledgerVars, statusVars, reviewVars, signatureVars, opsVars>>
    \/ /\ \/ part = "lambda" /\ Lambda!Next
          \/ part = "cli" /\ Cli!Next
       /\ UNCHANGED <<part, vars, ledgerVars, statusVars, reviewVars, assetVars, opsVars>>
    \/ /\ \/ part = "ops" /\ Ops!Next
          \/ part = "ops order" /\ OpsOrder!Next
       /\ UNCHANGED <<part, vars, ledgerVars, statusVars, reviewVars, assetVars, signatureVars>>

SuiteSpec == SuiteInit /\ [][SuiteNext]_allVars

-----------------------------------------------------------------------------
\* A bucket policy that the audit accepts keeps every object of the authority
\* written as the code writes it, by the publisher named for its family if there is
\* one, and its history.
BucketProtects ==
    part = "bucket" =>
        /\ TypeOK /\ ImmutableWrittenOnce /\ PointersAreSwapped /\ HistoryIsKept /\ OneWriter
        /\ PublishersCanWrite

\* The image ledger: every promotion saw the one before it, a prover candidate
\* names a recorded Toolchain promotion, and an App execution is authorized with
\* a coherent and signed pair of images.
LedgerCoherent ==
    part = "ledger" =>
        /\ Ledger!TypeOK /\ Ledger!NoPromotionOverlooked /\ Ledger!ProvenanceResolves
        /\ Ledger!ToldPromotedIsRecorded /\ Ledger!AuthorityIsCoherent /\ Ledger!AuthorityIsSigned

\* The published status only ever names accepted deployments, each once and in
\* the order of their dates, and an acceptance it lags behind raises an alarm.
StatusFollows ==
    /\ [](part = "status" => /\ Published!TypeOK /\ Published!StatusFollowsAcceptance
                             /\ Published!PublishedOnce /\ Published!LagIsAlarmed)
    /\ [][part = "status" => Published!DateMovesForward]_allVars

\* An admitted review hides no change and no sensitive attribute, names the impact on
\* what Foundation depends on by name and no other, and an initial construction
\* destroys nothing.
ReviewIsComplete ==
    part = "review" =>
        /\ Review!TypeOK /\ Review!NothingHidden /\ Review!SensitiveIsMarked /\ Review!ImpactIsTrue
        /\ Review!DriftSummaryAdmitted /\ Review!ConstructionNeverDestroys

\* The review of a plan that changes the shared request-shape policy names it in the
\* impact on Foundation (classifyFoundationBootstrapImpact and its test).
RequestShapeImpactIsNamed == part = "review" => Review!ExactImpactIsNamed

\* Installed and packaged assets are the pinned ones whoever else installs at the
\* same time, and the first installation and the first package are kept.
AssetsArePinned ==
    /\ [](part = "installation" => Installation!TypeOK /\ Installation!PublishedIsAdmitted)
    /\ [](part = "packaging" => Packaging!TypeOK /\ Packaging!PublishedIsAdmitted /\ Packaging!AdmittedIsPinned)
    /\ [][part = "installation" => Installation!FirstIsKept]_allVars
    /\ [][part = "packaging" => Packaging!FirstIsKept]_allVars

\* A verification that succeeds saw the registry's status and a valid signature of
\* its own image, answers before its deadline and leaves no workspace behind.
SignatureIsJustified ==
    /\ part = "lambda" => /\ Lambda!TypeOK /\ Lambda!VerifiedIsJustified /\ Lambda!SigningReasonIsSeen
                          /\ Lambda!AnsweredInTime /\ Lambda!NoWorkspaceLeft
    /\ part = "cli" => Cli!VerifiedIsJustified /\ Cli!WrittenIsOwn /\ Cli!NoWorkspaceLeft

\* The operations ledger holds what happened: a recorded event is stored and true,
\* only unfit events are dropped, a pipeline's terminal state is its last one and
\* a lead time is that of its execution, in whatever order events are delivered.
LedgerIsTrue ==
    /\ part = "ops" => Ops!TypeOK /\ Ops!ToldRecordedIsStored /\ Ops!RecordedIsTrue /\ Ops!DroppedIsUnfit
    /\ part = "ops order" => OpsOrder!RecordedIsTrue /\ OpsOrder!TerminalIsLast /\ OpsOrder!LeadTimeIsTrue

\* What the parts have two of is alike.
Symmetry == Permutations({x1, x2})

=============================================================================

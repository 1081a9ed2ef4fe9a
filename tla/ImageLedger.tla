---------------------------- MODULE ImageLedger ----------------------------
(***************************************************************************)
(* The release ledger of the container images and the admission of an App  *)
(* execution against it (packages/deployment-authority/src:                *)
(* release-ledger.js, app-release-selection.js, app-execution-authority.js,*)
(* app-runtime-authority.js, app-signature-preparation.js).                *)
(*                                                                         *)
(* A Toolchain or Prover execution publishes an immutable candidate, reads *)
(* the promotion it will replace, and publishes its own promotion by       *)
(* compare-and-swap on that predecessor.  A Prover candidate names the     *)
(* version of the Toolchain promotion it was built on.  An App execution   *)
(* reads the Toolchain promotion, the Prover promotion and a signature     *)
(* preparation one after another, while the lanes go on promoting, and     *)
(* admits one authority out of them.                                       *)
(*                                                                         *)
(* The storage is a versioned bucket: promotions[k] is the history of one  *)
(* key, its length the current version.  Candidates are content addressed, *)
(* so a set of records is their store.  The adapters that fill in the      *)
(* records are not part of the repository: the values they claim are       *)
(* arbitrary here, and admission has to find the wrong ones.               *)
(***************************************************************************)
EXTENDS Naturals, Sequences, FiniteSets

CONSTANTS ToolchainExecs,  \* executions of the Toolchain lane
          ProverExecs,     \* executions of the Prover lane
          AppExecs,        \* executions of the App lane
          Sources,         \* source commits
          SourceOf,        \* the commit an execution runs at
          ContractOf,      \* the zkVM contract hash of a commit
          Genuine          \* Prover executions whose image carries a valid signature

ImageExecs == ToolchainExecs \cup ProverExecs

Execs == ImageExecs \cup AppExecs

\* What an instance gives the constants.
LedgerConstants ==
  /\ SourceOf \in [Execs -> Sources]
  /\ Genuine \subseteq ProverExecs
  /\ ToolchainExecs \cap ProverExecs = {}

VARIABLES candidates,    \* the candidate objects
          promotions,    \* per kind, the versions of promotions/<kind>/current.json
          jobs,          \* the executions of the image lanes
          preparations,  \* the signature preparations of App executions
          apps           \* the App executions

vars == <<candidates, promotions, jobs, preparations, apps>>

----------------------------------------------------------------------------
(* Records.  An image is named by the execution that built it: the digest.  *)

Kinds == {"toolchain", "prover"}

KindOf(e) == IF e \in ToolchainExecs THEN "toolchain" ELSE "prover"

Images(k) == IF k = "toolchain" THEN ToolchainExecs ELSE ProverExecs

Absent == "none"

Scans == {"PASS", "FINDINGS_PRESENT"}

\* What the scan and the signing service report: a Toolchain is admitted with
\* findings, so one report stands for all; for a Prover each may be the bad one.
Reports(k) == IF k = "toolchain" THEN {<<"FINDINGS_PRESENT", TRUE>>}
              ELSE {<<"PASS", TRUE>>, <<"FINDINGS_PRESENT", TRUE>>, <<"PASS", FALSE>>}

NoCandidate == [kind |-> "toolchain", source |-> Absent, exec |-> Absent, image |-> Absent,
                scan |-> "PASS", version |-> 0, base |-> Absent, contract |-> Absent,
                evidence |-> TRUE]

NoPromotion == [cand |-> NoCandidate, mode |-> "build", source |-> Absent, exec |-> Absent,
                image |-> Absent, scan |-> "PASS", base |-> Absent, signing |-> TRUE]

NoJob == [phase |-> "start", cand |-> NoCandidate, mode |-> "build", pred |-> 0,
          base |-> Absent]

NoApp == [phase |-> "start", toolchain |-> NoPromotion, prover |-> NoPromotion]

Current(k) == promotions[k][Len(promotions[k])]

----------------------------------------------------------------------------
(* Admission of candidates and promotions.                                 *)

\* posture, failure marker and managed signing are one evidence bit.
admitImageCandidate(c) ==
  c.kind = "prover" => c.scan = "PASS" /\ c.evidence

admitImagePromotion(p) ==
  p.cand.kind = "prover" => p.scan = "PASS" /\ p.signing

assertImagePromotionCandidate(p) ==
  /\ p.cand.image = p.image
  /\ p.mode = "build" => p.cand.source = p.source /\ p.cand.exec = p.exec
  /\ p.cand.kind = "prover" => p.cand.base = p.base

\* A retained Prover meets the current dependencies whatever source built it.
assertProverImageContract(c, base, contract) ==
  /\ c.kind = "prover"
  /\ c.base = base
  /\ c.contract = contract

\* selectPromotion of one version of a key: the object must exist and its
\* promotion and candidate be admitted again.
selectPromotion(k, version) ==
  /\ version \in 1 .. Len(promotions[k])
  /\ LET p == promotions[k][version] IN
       /\ p.cand.kind = k
       /\ p.cand \in candidates
       /\ admitImageCandidate(p.cand)
       /\ admitImagePromotion(p)
       /\ assertImagePromotionCandidate(p)

\* publishCandidate: the Toolchain version a Prover candidate names must hold
\* the image it says it was built on.
OriginalToolchain(c) ==
  c.kind = "prover" =>
    /\ selectPromotion("toolchain", c.version)
    /\ promotions["toolchain"][c.version].cand.image = c.base

----------------------------------------------------------------------------
Init ==
  /\ candidates = {}
  /\ promotions = [k \in Kinds |-> <<>>]
  /\ jobs = [e \in ImageExecs |-> NoJob]
  /\ preparations = {}
  /\ apps = [x \in AppExecs |-> NoApp]

(***************************************************************************)
(* The image lanes.                                                        *)
(***************************************************************************)
Enter(e, job) == jobs' = [jobs EXCEPT ![e] = job]

Fail(e) ==
  /\ Enter(e, [NoJob EXCEPT !.phase = "failed"])
  /\ UNCHANGED <<candidates, promotions>>

\* A Prover execution pins the current Toolchain promotion before it builds.
PinToolchain(e) ==
  /\ e \in ProverExecs
  /\ jobs[e].phase = "start"
  /\ IF selectPromotion("toolchain", Len(promotions["toolchain"]))
     THEN /\ Enter(e, [jobs[e] EXCEPT !.phase = "pinned",
                                      !.pred = Len(promotions["toolchain"]),
                                      !.base = Current("toolchain").cand.image])
          /\ UNCHANGED <<candidates, promotions>>
     ELSE Fail(e)
  /\ UNCHANGED <<preparations, apps>>

\* The evidence of a build as its scripts put it together: the pinned version,
\* and the base image they say it stands for.
BuildEvidence(e, report, base) ==
  [kind |-> KindOf(e), source |-> SourceOf[e], exec |-> e, image |-> e, scan |-> report[1],
   version |-> jobs[e].pred, base |-> base, evidence |-> report[2],
   contract |-> IF e \in ProverExecs THEN ContractOf[SourceOf[e]] ELSE Absent]

PublishCandidate(e) ==
  /\ jobs[e].phase = IF e \in ProverExecs THEN "pinned" ELSE "start"
  /\ \E report \in Reports(KindOf(e)),
        base \in IF e \in ProverExecs THEN ToolchainExecs ELSE {Absent} :
       LET c == BuildEvidence(e, report, base) IN
       IF admitImageCandidate(c) /\ OriginalToolchain(c)
       THEN /\ candidates' = candidates \cup {c}
            /\ Enter(e, [jobs[e] EXCEPT !.phase = "candidate", !.cand = c, !.mode = "build"])
            /\ UNCHANGED promotions
       ELSE Fail(e)
  /\ UNCHANGED <<preparations, apps>>

\* selectionMode "existing": a retained candidate instead of a build.
SelectCandidate(e) ==
  /\ jobs[e].phase = IF e \in ProverExecs THEN "pinned" ELSE "start"
  /\ \E c \in candidates :
       /\ c.kind = KindOf(e)
       /\ c.kind = "prover" =>
            assertProverImageContract(c, jobs[e].base, ContractOf[SourceOf[e]])
       /\ Enter(e, [jobs[e] EXCEPT !.phase = "candidate", !.cand = c, !.mode = "existing"])
  /\ UNCHANGED <<candidates, promotions, preparations, apps>>

\* The revalidation reads the promotion to be replaced and, for a Prover, the
\* Toolchain that is current now.
Observe(e) ==
  /\ jobs[e].phase = "candidate"
  /\ Enter(e, [jobs[e] EXCEPT !.phase = "observed", !.pred = Len(promotions[KindOf(e)]),
                 !.base = IF e \in ProverExecs THEN Current("toolchain").cand.image ELSE Absent])
  /\ UNCHANGED <<candidates, promotions, preparations, apps>>

\* The write is conditional on the predecessor that was read.
assertImagePredecessor(e) == jobs[e].pred = Len(promotions[KindOf(e)])

Revalidated(e, image, report) ==
  [cand |-> jobs[e].cand, mode |-> jobs[e].mode, source |-> SourceOf[e], exec |-> e,
   image |-> image, scan |-> report[1], base |-> jobs[e].base, signing |-> report[2]]

\* publishPromotion; the answer to the write may be lost, and then the execution
\* fails although its promotion is current.
PublishPromotion(e) ==
  /\ jobs[e].phase = "observed"
  /\ \E image \in Images(KindOf(e)), report \in Reports(KindOf(e)), answer \in {"done", "failed"} :
       LET p == Revalidated(e, image, report) IN
       IF /\ admitImagePromotion(p)
          /\ p.cand \in candidates
          /\ assertImagePromotionCandidate(p)
          /\ assertImagePredecessor(e)
       THEN /\ promotions' = [promotions EXCEPT ![KindOf(e)] = Append(@, p)]
            /\ Enter(e, [jobs[e] EXCEPT !.phase = answer])
            /\ UNCHANGED candidates
       ELSE Fail(e)
  /\ UNCHANGED <<preparations, apps>>

----------------------------------------------------------------------------
(* The App lane.                                                           *)

\* The current promotions are read one after the other.
SelectRelease(x, k) ==
  /\ apps[x].phase = IF k = "toolchain" THEN "start" ELSE "toolchain"
  /\ LET n == Len(promotions[k]) IN
     apps' = [apps EXCEPT ![x] =
       IF ~ selectPromotion(k, n)
       THEN [NoApp EXCEPT !.phase = "failed"]
       ELSE IF k = "toolchain" THEN [@ EXCEPT !.phase = k, !.toolchain = Current(k)]
                               ELSE [@ EXCEPT !.phase = k, !.prover = Current(k)]]
  /\ UNCHANGED <<candidates, promotions, jobs, preparations>>

\* What the native verifier of a commit answers about an image, and the trust
\* manifest its assets came from.
NativeResult(image, trust) ==
  [result |-> IF image \in Genuine THEN "VERIFIED" ELSE "REJECTED", trust |-> trust]

admitNativeSignatureResult(r, expectedTrust) ==
  /\ r.result = "VERIFIED"
  /\ r.trust = expectedTrust

\* admitAppSignaturePreparation: the fields of the preparation are those of the
\* build that made it, and its package holds the assets that were verified.
admitAppSignaturePreparation(p) ==
  /\ admitNativeSignatureResult(p.verification, p.source)
  /\ p.package = p.source

\* A preparation build of an execution selects the Prover that is current when
\* it runs, which need not be the one the execution selects.
PrepareSignature(x) ==
  /\ apps[x].phase \in {"start", "toolchain", "prover"}
  /\ promotions["prover"] # <<>>
  /\ \E trust \in Sources :
       LET p == [exec |-> x, source |-> SourceOf[x], image |-> Current("prover").cand.image,
                 verification |-> NativeResult(Current("prover").cand.image, trust),
                 package |-> trust]
       IN  /\ admitAppSignaturePreparation(p)
           /\ preparations' = preparations \cup {p}
  /\ UNCHANGED <<candidates, promotions, jobs, apps>>

admitAppReleaseSelection(x) ==
  /\ apps[x].toolchain.cand.kind = "toolchain"
  /\ apps[x].prover.cand.kind = "prover"
  /\ apps[x].prover.cand.base = apps[x].toolchain.cand.image

\* Faulty variant: a preparation of the execution is enough.
admitAppRuntimeVerifierAuthorityAnyImage(x, p) == p.source = SourceOf[x]

\* The preflight is about this source and this Prover image.
admitAppRuntimeVerifierAuthority(x, p) ==
  /\ p.source = SourceOf[x]
  /\ p.image = apps[x].prover.cand.image

\* projectNormalAppExecutionAuthority; every field of the release authority,
\* the zkVM contract included, is the selected Prover's own.
ProjectAuthority(x) ==
  /\ apps[x].phase = "prover"
  /\ \E p \in preparations :
       /\ p.exec = x
       /\ apps' = [apps EXCEPT ![x] =
            IF /\ admitAppReleaseSelection(x)
               /\ admitAppRuntimeVerifierAuthority(x, p)
            THEN [@ EXCEPT !.phase = "authorized"] ELSE [NoApp EXCEPT !.phase = "failed"]]
  /\ UNCHANGED <<candidates, promotions, jobs, preparations>>

Next ==
  \/ \E e \in ImageExecs : \/ PinToolchain(e)
                           \/ PublishCandidate(e)
                           \/ SelectCandidate(e)
                           \/ Observe(e)
                           \/ PublishPromotion(e)
  \/ \E x \in AppExecs : \/ SelectRelease(x, "toolchain")
                         \/ SelectRelease(x, "prover")
                         \/ PrepareSignature(x)
                         \/ ProjectAuthority(x)

Spec == Init /\ [][Next]_vars

----------------------------------------------------------------------------
(* Properties.                                                             *)

CandidateType ==
  [kind : Kinds, source : Sources \cup {Absent}, exec : ImageExecs \cup {Absent},
   image : ImageExecs \cup {Absent}, scan : Scans, version : 0 .. Cardinality(ToolchainExecs),
   base : ToolchainExecs \cup {Absent}, contract : {ContractOf[s] : s \in Sources} \cup {Absent},
   evidence : BOOLEAN]

PromotionType(p) ==
  /\ p.cand \in CandidateType
  /\ p.mode \in {"build", "existing"}
  /\ p.exec \in ImageExecs \cup {Absent}
  /\ p.image \in ImageExecs \cup {Absent}

\* Records are well formed, and a history holds one promotion per execution.
TypeOK ==
  /\ candidates \subseteq CandidateType
  /\ \A k \in Kinds : /\ \A i \in DOMAIN promotions[k] : PromotionType(promotions[k][i])
                      /\ Len(promotions[k]) <= Cardinality(Images(k))
  /\ \A e \in ImageExecs :
       /\ jobs[e].phase \in {"start", "pinned", "candidate", "observed", "done", "failed"}
       /\ jobs[e].cand \in CandidateType
  /\ \A x \in AppExecs :
       apps[x].phase \in {"start", "toolchain", "prover", "authorized", "failed"}

\* No promotion is replaced by an execution that had not seen it: the version
\* before a promotion is the one its execution read (the conditional write of
\* publishPromotion), whatever the lanes do between the read and the write.
NoPromotionOverlooked ==
  \A k \in Kinds : \A i \in DOMAIN promotions[k] :
    jobs[promotions[k][i].exec].pred = i - 1

\* The Toolchain version a Prover candidate records can be read back for ever
\* and holds the image it was built on (publishCandidate), also when the
\* Toolchain was promoted again during the build.
ProvenanceResolves ==
  \A c \in candidates :
    c.kind = "prover" =>
      /\ c.version \in DOMAIN promotions["toolchain"]
      /\ promotions["toolchain"][c.version].image = c.base

\* An execution that was told its promotion is published finds its own build,
\* or the retained candidate it chose, under the image it revalidated.
ToldPromotedIsRecorded ==
  \A e \in ImageExecs :
    jobs[e].phase = "done" =>
      \E i \in DOMAIN promotions[KindOf(e)] :
        LET p == promotions[KindOf(e)][i] IN
        /\ p.exec = e
        /\ p.image = jobs[e].cand.image
        /\ p.mode = "build" => p.image = e

\* The Prover an App runs was built on the very Toolchain image it selected,
\* and on a Toolchain that was released before the Prover was published, although
\* the two promotions are read at different times (admitAppReleaseSelection).
AuthorityIsCoherent ==
  \A x \in AppExecs :
    apps[x].phase = "authorized" =>
      LET c == apps[x].prover.cand IN
      /\ c.base = apps[x].toolchain.image
      /\ promotions["toolchain"][c.version].image = apps[x].toolchain.image
      /\ c.scan = "PASS" /\ apps[x].prover.scan = "PASS"

\* No App runs a Prover image whose signature the verifier of its own commit
\* has not accepted, even when the Prover was promoted anew between the
\* preparation and the selection (admitAppRuntimeVerifierAuthority).
AuthorityIsSigned ==
  \A x \in AppExecs :
    apps[x].phase = "authorized" =>
      /\ apps[x].prover.image \in Genuine
      /\ \E p \in preparations : /\ p.image = apps[x].prover.image
                                 /\ p.package = SourceOf[x]

=============================================================================

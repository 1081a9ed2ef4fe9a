------------------------- MODULE Supporting_proofs --------------------------
(***************************************************************************)
(* Proofs about eight components around the session, which share no state: *)
(* the audit of the authority bucket (AuthorityBucket), the release ledger *)
(* of the images (ImageLedger), the host processes of the local executor   *)
(* (HostProcess), the operations ledger (OpsLedger), the public deployment *)
(* status of the App (AppStatus), the verification of an image's signature *)
(* (SignatureVerifier), the delivery of a bundle (BundleDelivery) and the  *)
(* admission of requests (RequestAdmission).  Each has its own instance,   *)
(* with every constant and variable its own.                               *)
(***************************************************************************)
EXTENDS Integers, Sequences, FiniteSets, FiniteSetTheorems, TLAPS

CONSTANTS
    MaxEdits,
    ToolchainExecs, ProverExecs, AppExecs, Sources, SourceOf, ContractOf, Genuine,
    Runs, ExitCodes,
    Executions, Deliveries, Types, States, Owned, MaxAttempts, MaxAge, Skew, MaxTime, MaxEvents, MaxFaults, None,
    Execs, MaxClock, MaxCopies, MaxBuilds,
    Invocations, Preparations, Configurations, Directories, Events, Statuses, Margin, Retries, MaxFailures,
    MaximumAssetBytes, MaximumPackageFiles,
    ChunkBytes, RangeMax, InlineMax, MaxDownload, Extras, MaxGen,
    Requests, Addresses, Kinds, StoreKind, Window, Hour, Day, ActiveFor, Limit, MaxExecutions, DailyLimit, HourlyLimit,
    MaxSessions, MaxBuckets, MaxTicks

VARIABLES
    policy, versioning, edits,
    candidates, promotions, jobs, preparations, apps,
    run, shuttingDown, stopped, exitCode,
    now, events, calls, stream, log, faults,
    checkpoint, status, pipeline, notice, delivery, alarm,
    config, dir, statuses, signed, verifications, launched, output, workspaces, failures,
    s3, versioned, bundle, archive, objects, sidecar, publisher, gen, current, asked, browser, restorer, quiet,
    clock, recorded, counters, buckets, sessions, req, granted, executed, evicted

Bucket == INSTANCE AuthorityBucket

Ledger == INSTANCE ImageLedger

Host == INSTANCE HostProcess

Ops == INSTANCE OpsLedger

Published == INSTANCE AppStatus WITH MaxAttempts <- MaxBuilds, event <- notice

Signing == INSTANCE SignatureVerifier WITH Executions <- Invocations, MaxFaults <- MaxFailures,
                                           calls <- verifications, faults <- failures

Delivery == INSTANCE BundleDelivery WITH dir <- bundle, zip <- archive, request <- asked

Admission == INSTANCE RequestAdmission WITH MaxClock <- MaxTicks, events <- recorded

-----------------------------------------------------------------------------
(* The audit of a bucket policy.  Nothing is assumed of the policy: it may *)
(* be any set of statements, written by anybody.                           *)

\* The conditions of the closed inventory are told apart.
LEMMA ConditionsDiffer ==
    /\ Bucket!NoCondition # Bucket!CreateOnly /\ Bucket!NoCondition # Bucket!Conditional
    /\ Bucket!NoCondition # Bucket!Ambiguous /\ Bucket!CreateOnly # Bucket!Conditional
    /\ Bucket!CreateOnly # Bucket!Ambiguous /\ Bucket!Conditional # Bucket!Ambiguous
    /\ \A p : /\ Bucket!PrincipalIsNot(p) # Bucket!NoCondition
              /\ Bucket!PrincipalIsNot(p) # Bucket!CreateOnly
              /\ Bucket!PrincipalIsNot(p) # Bucket!Conditional
              /\ Bucket!PrincipalIsNot(p) # Bucket!Ambiguous
  BY DEF Bucket!NoCondition, Bucket!CreateOnly, Bucket!Conditional, Bucket!Ambiguous, Bucket!PrincipalIsNot

\* What each condition says of a request.
LEMMA ConditionsHold ==
    ASSUME NEW request, NEW p \in Bucket!Principals
    PROVE  /\ Bucket!holds(Bucket!NoCondition, request)
           /\ Bucket!holds(Bucket!CreateOnly, request) <=> request.header \notin {"if-none-match", "both"}
           /\ Bucket!holds(Bucket!Conditional, request) <=> request.header = "none"
           /\ Bucket!holds(Bucket!Ambiguous, request) <=> request.header = "both"
           /\ Bucket!holds(Bucket!PrincipalIsNot(p), request) <=> request.principal # p
<1>1. Bucket!PrincipalIsNot(p) \in Bucket!PrincipalConditions
  BY DEF Bucket!PrincipalConditions
<1>2. \A c \in Bucket!PrincipalConditions : \E q : c = Bucket!PrincipalIsNot(q)
  BY DEF Bucket!PrincipalConditions
<1>3. Bucket!PrincipalIsNot(p).value = p
  BY DEF Bucket!PrincipalIsNot
<1> QED BY <1>1, <1>2, <1>3, ConditionsDiffer DEF Bucket!holds

\* A Deny statement without exception refuses every request that it names and
\* whose condition holds.
LEMMA Refused ==
    ASSUME NEW st \in policy, NEW request, NEW r \in st.resources,
           st.effect = "Deny", st.principal = "*", ~st.negated,
           request.action \in st.actions, request.object \in Bucket!ObjectsOf(r),
           Bucket!holds(st.condition, request)
    PROVE  Bucket!denied(request)
  BY DEF Bucket!denied

LEMMA ObjectsNamed ==
    /\ "packageObject" \in Bucket!ObjectsOf("packages")
    /\ \A o \in {"packageObject", "approvalObject", "pointerObject"} : o \in Bucket!ObjectsOf("pointer")
    /\ "pointerObject" \in Bucket!ObjectsOf("checkpoint")
    /\ "retiredObject" \in Bucket!ObjectsOf("retired")
    /\ "retiredObject" \notin Bucket!ObjectsOf("immutable")
    /\ "retiredObject" \notin Bucket!ObjectsOf("pointer")
  BY DEF Bucket!ObjectsOf

\* One conditional denial of writes, as the audit finds it.
LEMMA WritesDenied ==
    ASSUME NEW resources, NEW r \in resources, NEW c \in Bucket!HeaderConditions,
           LET sts == {st \in Bucket!conditionalPutDenies(resources) : st.condition = c}
           IN  /\ \A st \in Bucket!conditionalPutDenies(resources) : st.principal = "*"
               /\ Bucket!coverExactly(sts, resources),
           NEW o \in Bucket!ObjectsOf(r), NEW p, NEW h,
           Bucket!holds(c, Bucket!Write(o, p, h))
    PROVE  Bucket!denied(Bucket!Write(o, p, h))
<1> DEFINE sts == {st \in Bucket!conditionalPutDenies(resources) : st.condition = c}
<1>1. PICK st \in sts : r \in st.resources
  BY DEF Bucket!coverExactly, Bucket!Covered
<1>2. /\ st \in policy /\ st.effect = "Deny" /\ st.actions = {Bucket!Put} /\ st.condition = c
      /\ st.principal = "*" /\ ~st.negated
  BY DEF Bucket!conditionalPutDenies, Bucket!coverExactly
<1>3. /\ Bucket!Write(o, p, h).action \in st.actions
      /\ Bucket!Write(o, p, h).object = o
  BY <1>2 DEF Bucket!Write
<1> QED BY <1>1, <1>2, <1>3, Refused

LEMMA RequestFields ==
    ASSUME NEW o, NEW p, NEW h
    PROVE  /\ Bucket!Write(o, p, h).action = Bucket!Put /\ Bucket!Write(o, p, h).object = o
           /\ Bucket!Write(o, p, h).principal = p /\ Bucket!Write(o, p, h).header = h
  BY DEF Bucket!Write

LEMMA ImmutableDenied ==
    ASSUME Bucket!requireImmutableCreateOnlyDeny
    PROVE  \A o \in Bucket!ObjectsOf("immutable"), p \in Bucket!Principals,
              h \in Bucket!Headers \ {"if-none-match", "both"} : Bucket!denied(Bucket!Write(o, p, h))
<1> SUFFICES ASSUME NEW o \in Bucket!ObjectsOf("immutable"), NEW p \in Bucket!Principals,
                    NEW h \in Bucket!Headers \ {"if-none-match", "both"}
             PROVE  Bucket!denied(Bucket!Write(o, p, h))
  OBVIOUS
<1>1. Bucket!holds(Bucket!CreateOnly, Bucket!Write(o, p, h))
  BY ConditionsHold, RequestFields
<1>2. Bucket!CreateOnly \in Bucket!HeaderConditions /\ "immutable" \in Bucket!specification.immutable
  BY DEF Bucket!HeaderConditions, Bucket!specification
<1> QED BY <1>1, <1>2, WritesDenied DEF Bucket!requireImmutableCreateOnlyDeny

LEMMA PointersDenied ==
    ASSUME Bucket!requirePointerDenies
    PROVE  \A o \in Bucket!ObjectsOf("pointer"), p \in Bucket!Principals, h \in {"none", "both"} :
             Bucket!denied(Bucket!Write(o, p, h))
<1> SUFFICES ASSUME NEW o \in Bucket!ObjectsOf("pointer"), NEW p \in Bucket!Principals,
                    NEW h \in {"none", "both"}
             PROVE  Bucket!denied(Bucket!Write(o, p, h))
  OBVIOUS
<1>1. /\ Bucket!Conditional \in Bucket!HeaderConditions /\ Bucket!Ambiguous \in Bucket!HeaderConditions
      /\ "pointer" \in Bucket!specification.pointer
  BY DEF Bucket!HeaderConditions, Bucket!specification
<1>2. CASE h = "none"
  <2>1. Bucket!holds(Bucket!Conditional, Bucket!Write(o, p, h))
    BY <1>2, ConditionsHold, RequestFields
  <2> QED BY <1>1, <2>1, WritesDenied DEF Bucket!requirePointerDenies
<1>3. CASE h = "both"
  <2>1. Bucket!holds(Bucket!Ambiguous, Bucket!Write(o, p, h))
    BY <1>3, ConditionsHold, RequestFields
  <2> QED BY <1>1, <2>1, WritesDenied DEF Bucket!requirePointerDenies
<1> QED BY <1>2, <1>3

LEMMA DeletionsDenied ==
    ASSUME Bucket!requireDeletionDeny
    PROVE  \A o \in Bucket!Objects \ {"otherObject"}, p \in Bucket!Principals, a \in Bucket!Deletes :
             Bucket!denied([action |-> a, object |-> o, principal |-> p, header |-> "none"])
<1> SUFFICES ASSUME NEW o \in Bucket!Objects \ {"otherObject"}, NEW p \in Bucket!Principals,
                    NEW a \in Bucket!Deletes
             PROVE  Bucket!denied([action |-> a, object |-> o, principal |-> p, header |-> "none"])
  OBVIOUS
<1> DEFINE request == [action |-> a, object |-> o, principal |-> p, header |-> "none"]
           proofs == {st \in policy : /\ st.effect = "Deny"
                                      /\ Bucket!overlapsResources(st, Bucket!specification.deletionProtected)
                                      /\ st.principal = "*"
                                      /\ Bucket!unconditional(st)
                                      /\ st.actions = Bucket!Deletes
                                      /\ st.resources \subseteq Bucket!specification.deletionProtected}
<1>1. PICK r \in {"pointer", "retired"} : o \in Bucket!ObjectsOf(r)
  BY ObjectsNamed DEF Bucket!Objects
<1>2. r \in Bucket!Covered(proofs)
  BY <1>1 DEF Bucket!requireDeletionDeny, Bucket!specification
<1>3. PICK st \in proofs : r \in st.resources
  BY <1>2 DEF Bucket!Covered
<1>4. /\ st \in policy /\ st.effect = "Deny" /\ st.principal = "*" /\ ~st.negated
      /\ st.condition = Bucket!NoCondition /\ a \in st.actions
  BY <1>3 DEF Bucket!overlapsResources, Bucket!unconditional
<1>5. Bucket!holds(st.condition, request)
  BY <1>4, ConditionsHold
<1>6. request.action = a /\ request.object = o
  OBVIOUS
<1> HIDE DEF request
<1>7. Bucket!denied(request)
  BY <1>1, <1>3, <1>4, <1>5, <1>6, Refused
<1> QED BY <1>7 DEF request

\* A set that the audit counts one element in is not empty.
LEMMA OneIsThere == ASSUME NEW S, Bucket!Cardinality(S) = 1 PROVE S # {}
<1>1. Bucket!Cardinality(S) = Cardinality(S)
  BY DEF Bucket!Cardinality, Cardinality, Bucket!IsFiniteSet, IsFiniteSet
<1> QED BY <1>1, FS_EmptySet

LEMMA PublisherDenied ==
    ASSUME Bucket!requirePublisherRestrictions,
           NEW r \in DOMAIN Bucket!specification.publishers, NEW o \in Bucket!ObjectsOf(r),
           NEW p \in Bucket!Principals, p # Bucket!specification.publishers[r], NEW h
    PROVE  Bucket!denied(Bucket!Write(o, p, h))
<1> DEFINE matches == {st \in policy : st.effect = "Deny" /\ st.actions = {Bucket!Put} /\ ~st.negated
                                       /\ st.resources = {r} /\ Bucket!hasPrincipalArnCondition(st)}
<1>1. /\ Bucket!Cardinality(matches) = 1
      /\ \A st \in matches : st.principal = "*" /\ st.condition = Bucket!PrincipalIsNot(Bucket!specification.publishers[r])
  BY DEF Bucket!requirePublisherRestrictions
<1>2. PICK st \in matches : TRUE
  BY <1>1, OneIsThere
<1>3. /\ st \in policy /\ st.effect = "Deny" /\ st.principal = "*" /\ ~st.negated
      /\ st.actions = {Bucket!Put} /\ r \in st.resources
      /\ st.condition = Bucket!PrincipalIsNot(Bucket!specification.publishers[r])
  BY <1>1, <1>2
<1>4. Bucket!specification.publishers[r] \in Bucket!Principals
  BY DEF Bucket!specification, Bucket!Principals
<1>5. Bucket!holds(st.condition, Bucket!Write(o, p, h))
  BY <1>3, <1>4, ConditionsHold, RequestFields
<1> QED BY <1>3, <1>5, RequestFields, Refused

LEMMA RetiredDenied ==
    ASSUME Bucket!requireRetiredWriteDeny, NEW p \in Bucket!Principals, NEW h
    PROVE  Bucket!denied(Bucket!Write("retiredObject", p, h))
<1> DEFINE request == Bucket!Write("retiredObject", p, h)
<1>1. CASE Bucket!Cardinality(Bucket!closedNamespace) = 1
  <2>1. PICK st \in Bucket!closedNamespace : Bucket!isClosing(st)
    BY <1>1, OneIsThere DEF Bucket!requireRetiredWriteDeny
  <2>2. /\ st \in policy /\ st.effect = "Deny" /\ st.actions = {Bucket!Put} /\ st.negated
        /\ st.principal = "*" /\ st.condition = Bucket!NoCondition
        /\ st.resources = {"immutable", "pointer"}
    BY <2>1 DEF Bucket!closedNamespace, Bucket!isClosing, Bucket!unconditional, Bucket!specification
  <2>3. ~ \E r \in st.resources : request.object \in Bucket!ObjectsOf(r)
    BY <2>2, ObjectsNamed, RequestFields
  <2>4. Bucket!holds(st.condition, request)
    BY <2>2, ConditionsHold
  <2> QED BY <2>2, <2>3, <2>4, RequestFields DEF Bucket!denied
<1>2. CASE Bucket!Cardinality(Bucket!closedNamespace) # 1
  <2> DEFINE denials == {st \in policy : /\ st.effect = "Deny"
                                            /\ st.actions = {Bucket!Put}
                                            /\ Bucket!overlapsResources(st, Bucket!specification.retired)
                                            /\ Bucket!unconditional(st)}
  <2>1. /\ \A st \in denials : st.principal = "*"
        /\ Bucket!Covered(denials) = Bucket!specification.retired
    BY <1>2 DEF Bucket!requireRetiredWriteDeny, Bucket!coverExactly
  <2>2. "retired" \in Bucket!Covered(denials)
    BY <2>1 DEF Bucket!specification
  <2>3. PICK st \in denials : "retired" \in st.resources
    BY <2>2 DEF Bucket!Covered
  <2>4. /\ st \in policy /\ st.effect = "Deny" /\ st.principal = "*" /\ ~st.negated
        /\ st.condition = Bucket!NoCondition /\ Bucket!Put \in st.actions
    BY <2>1, <2>3 DEF Bucket!overlapsResources, Bucket!unconditional
  <2>5. Bucket!holds(st.condition, request)
    BY <2>4, ConditionsHold
  <2> QED BY <2>3, <2>4, <2>5, ObjectsNamed, RequestFields, Refused
<1> QED BY <1>1, <1>2

\* Whatever statements a bucket policy has, one that the audit accepts lets an
\* immutable record be written once and a current one only by compare-and-swap,
\* keeps every version, and leaves a record with a named publisher that one writer:
\* no simulation of the
\* roles' own policies is needed (auditAuthorityBucketPolicyObservation).
THEOREM AuditProtects ==
    Bucket!Spec => []( /\ Bucket!ImmutableWrittenOnce /\ Bucket!PointersAreSwapped
                       /\ Bucket!HistoryIsKept /\ Bucket!OneWriter)
<1>1. Bucket!ImmutableWrittenOnce
  BY ImmutableDenied DEF Bucket!ImmutableWrittenOnce, Bucket!accepted, Bucket!auditAuthorityBucketPolicyObservation
<1>2. Bucket!PointersAreSwapped
  BY PointersDenied DEF Bucket!PointersAreSwapped, Bucket!accepted, Bucket!auditAuthorityBucketPolicyObservation
<1>3. Bucket!HistoryIsKept
  BY DeletionsDenied DEF Bucket!HistoryIsKept, Bucket!accepted, Bucket!auditAuthorityBucketPolicyObservation
<1>4. Bucket!OneWriter
  <2> SUFFICES ASSUME Bucket!auditAuthorityBucketPolicyObservation PROVE Bucket!OneWriter
    BY DEF Bucket!OneWriter, Bucket!accepted
  <2>1. /\ "packages" \in DOMAIN Bucket!specification.publishers
        /\ "checkpoint" \in DOMAIN Bucket!specification.publishers
        /\ Bucket!specification.publishers["packages"] = "planRole"
        /\ Bucket!specification.publishers["checkpoint"] = "smokeRole"
    BY DEF Bucket!specification
  <2>2. Bucket!requirePublisherRestrictions /\ Bucket!requireRetiredWriteDeny
    BY DEF Bucket!auditAuthorityBucketPolicyObservation
  <2>3. \A p \in Bucket!Principals \ {"planRole"}, h \in Bucket!Headers :
          Bucket!denied(Bucket!Write("packageObject", p, h))
    BY <2>1, <2>2, ObjectsNamed, PublisherDenied
  <2>4. \A p \in Bucket!Principals \ {"smokeRole"}, h \in Bucket!Headers :
          Bucket!denied(Bucket!Write("pointerObject", p, h))
    BY <2>1, <2>2, ObjectsNamed, PublisherDenied
  <2>5. \A p \in Bucket!Principals, h \in Bucket!Headers :
          Bucket!denied(Bucket!Write("retiredObject", p, h))
    BY <2>2, RetiredDenied
  <2> QED BY <2>3, <2>4, <2>5 DEF Bucket!OneWriter
<1> QED BY <1>1, <1>2, <1>3, <1>4, PTL

-----------------------------------------------------------------------------
(* The release ledger. *)

USE DEF Ledger!ImageExecs, Ledger!Kinds, Ledger!Absent, Ledger!Scans

LCandidate ==
    [kind : Ledger!Kinds, source : Sources \cup {"none"}, exec : Ledger!ImageExecs \cup {"none"},
     image : Ledger!ImageExecs \cup {"none"}, scan : Ledger!Scans, version : Nat,
     base : ToolchainExecs \cup {"none"}, contract : {ContractOf[s] : s \in Sources} \cup {"none"},
     evidence : BOOLEAN]

LPromotion ==
    [cand : LCandidate, mode : {"build", "existing"}, source : Sources \cup {"none"},
     exec : Ledger!ImageExecs \cup {"none"}, image : Ledger!ImageExecs \cup {"none"},
     scan : Ledger!Scans, base : Ledger!ImageExecs \cup {"none"}, signing : BOOLEAN]

LJob ==
    [phase : {"start", "pinned", "candidate", "observed", "done", "failed"}, cand : LCandidate,
     mode : {"build", "existing"}, pred : Nat, base : Ledger!ImageExecs \cup {"none"}]

LApp == [phase : {"start", "toolchain", "prover", "authorized", "failed"},
         toolchain : LPromotion, prover : LPromotion]

LPreparation ==
    [exec : AppExecs, source : Sources, image : Ledger!ImageExecs \cup {"none"},
     verification : [result : {"VERIFIED", "REJECTED"}, trust : Sources], package : Sources]

LTypes ==
    /\ candidates \subseteq LCandidate
    /\ promotions \in [Ledger!Kinds -> Seq(LPromotion)]
    /\ jobs \in [Ledger!ImageExecs -> LJob]
    /\ preparations \subseteq LPreparation
    /\ apps \in [AppExecs -> LApp]

\* A candidate names its own build, and a Prover's names the Toolchain version it
\* was built on, whose image that was.
GoodCandidate(c) ==
    /\ c.image = c.exec
    /\ c.kind = "toolchain" => c.version = 0
    /\ c.kind = "prover" => /\ c.version \in DOMAIN promotions["toolchain"]
                            /\ promotions["toolchain"][c.version].image = c.base

\* A version was published by an execution that has ended and had seen the version
\* before it; it and its candidate were admitted.
GoodPromotion(k, i, p) ==
    /\ p.exec \in Ledger!Images(k)
    /\ jobs[p.exec].phase \in {"done", "failed"}
    /\ jobs[p.exec].pred = i - 1
    /\ p.cand \in candidates /\ p.cand.kind = k
    /\ Ledger!admitImageCandidate(p.cand) /\ Ledger!admitImagePromotion(p)
    /\ Ledger!assertImagePromotionCandidate(p)

\* An execution with a candidate has one of its own kind; a Prover's has a Toolchain
\* below it; one told "done" finds its promotion.
GoodJob(e, j) ==
    /\ j.cand \in candidates \cup {Ledger!NoCandidate}
    /\ j.phase \in {"candidate", "observed", "done"} => j.cand \in candidates /\ j.cand.kind = Ledger!KindOf(e)
    /\ e \in ProverExecs /\ j.phase \in {"pinned", "candidate", "observed"} => promotions["toolchain"] # <<>>
    /\ e \in ToolchainExecs /\ j.phase = "start" => j.pred = 0
    /\ j.phase = "done" =>
         \E i \in DOMAIN promotions[Ledger!KindOf(e)] :
           promotions[Ledger!KindOf(e)][i].exec = e /\ promotions[Ledger!KindOf(e)][i].cand = j.cand

\* What an App execution has selected is a version of the history.
Selected(k, p) == \E i \in DOMAIN promotions[k] : promotions[k][i] = p

GoodApp(x, a) ==
    /\ a.phase \in {"toolchain", "prover", "authorized"} => Selected("toolchain", a.toolchain)
    /\ a.phase \in {"prover", "authorized"} => Selected("prover", a.prover)
    /\ a.phase = "authorized" =>
         /\ a.prover.cand.base = a.toolchain.cand.image
         /\ \E p \in preparations : p.source = SourceOf[x] /\ p.image = a.prover.cand.image

GoodPreparation(p) == p.image \in Genuine /\ p.package = p.source

LInv ==
    /\ LTypes
    /\ \A c \in candidates : GoodCandidate(c) /\ Ledger!admitImageCandidate(c)
    /\ \A k \in Ledger!Kinds : \A i \in DOMAIN promotions[k] : GoodPromotion(k, i, promotions[k][i])
    /\ \A e \in Ledger!ImageExecs : GoodJob(e, jobs[e])
    /\ \A x \in AppExecs : GoodApp(x, apps[x])
    /\ \A p \in preparations : GoodPreparation(p)

\* What no step of the ledger takes back: candidates, preparations, versions, and
\* the state of an execution that has ended.
LGrowth ==
    /\ candidates \subseteq candidates' /\ preparations \subseteq preparations'
    /\ \A k \in Ledger!Kinds : \A i \in DOMAIN promotions[k] :
         i \in DOMAIN promotions'[k] /\ promotions'[k][i] = promotions[k][i]
    /\ \A e \in Ledger!ImageExecs : jobs[e].phase \in {"done", "failed"} => jobs'[e] = jobs[e]

\* What the module says of its constants.
LConstants == Ledger!LedgerConstants

LEMMA KindsApart ==
    ASSUME LConstants, NEW e \in Ledger!ImageExecs
    PROVE  /\ Ledger!KindOf(e) \in Ledger!Kinds /\ e \in Ledger!Images(Ledger!KindOf(e))
           /\ Ledger!KindOf(e) = "prover" <=> e \in ProverExecs
           /\ Ledger!KindOf(e) = "toolchain" <=> e \in ToolchainExecs
           /\ \A k \in Ledger!Kinds : Ledger!Images(k) \subseteq Ledger!ImageExecs
           /\ \A k \in Ledger!Kinds : e \in Ledger!Images(k) => k = Ledger!KindOf(e)
           /\ SourceOf[e] \in Sources
  BY DEF LConstants, Ledger!LedgerConstants, Ledger!KindOf, Ledger!Images, Ledger!Execs

\* What was good stays good when the ledger grows.
LEMMA LKept ==
    ASSUME LConstants, LInv, LTypes', LGrowth
    PROVE  /\ \A c \in candidates : GoodCandidate(c)' /\ Ledger!admitImageCandidate(c)
           /\ \A k \in Ledger!Kinds : \A i \in DOMAIN promotions[k] : GoodPromotion(k, i, promotions[k][i])'
           /\ \A e \in Ledger!ImageExecs : jobs'[e] = jobs[e] => GoodJob(e, jobs[e])'
           /\ \A x \in AppExecs : apps'[x] = apps[x] => GoodApp(x, apps[x])'
           /\ \A p \in preparations : GoodPreparation(p)
<1>1. \A c \in candidates : GoodCandidate(c)' /\ Ledger!admitImageCandidate(c)
  BY DEF LInv, GoodCandidate, LGrowth
<1>2. ASSUME NEW k \in Ledger!Kinds, NEW i \in DOMAIN promotions[k]
      PROVE  GoodPromotion(k, i, promotions[k][i])'
  <2> DEFINE p == promotions[k][i]
  <2>1. GoodPromotion(k, i, p)
    BY DEF LInv
  <2>2. p.exec \in Ledger!ImageExecs
    BY <2>1 DEF GoodPromotion, Ledger!Images
  <2>3. promotions'[k][i] = p
    BY DEF LGrowth
  <2>4. jobs'[p.exec] = jobs[p.exec]
    BY <2>1, <2>2 DEF LGrowth, GoodPromotion
  <2>5. p.cand \in candidates'
    BY <2>1 DEF LGrowth, GoodPromotion
  <2> HIDE DEF p
  <2>6. GoodPromotion(k, i, p)'
    BY <2>1, <2>4, <2>5, <2>3 DEF GoodPromotion, p
  <2> QED BY <2>6, <2>3 DEF p
<1>3. ASSUME NEW e \in Ledger!ImageExecs, jobs'[e] = jobs[e]
      PROVE  GoodJob(e, jobs[e])'
  <2> DEFINE k == Ledger!KindOf(e)
  <2>1. GoodJob(e, jobs[e]) /\ k \in Ledger!Kinds
    BY KindsApart DEF LInv
  <2>2. promotions["toolchain"] # <<>> => promotions["toolchain"]' # <<>>
    <3> SUFFICES ASSUME promotions["toolchain"] # <<>> PROVE promotions["toolchain"]' # <<>>
      OBVIOUS
    <3>1. "toolchain" \in Ledger!Kinds
      OBVIOUS
    <3>2. promotions["toolchain"] \in Seq(LPromotion) /\ promotions'["toolchain"] \in Seq(LPromotion)
      BY <3>1 DEF LInv, LTypes
    <3>3. 1 \in DOMAIN promotions["toolchain"]
      BY <3>2
    <3>4. 1 \in DOMAIN promotions'["toolchain"]
      BY <3>1, <3>3 DEF LGrowth
    <3> QED BY <3>2, <3>4
  <2>3. jobs[e].phase = "done" =>
          \E i \in DOMAIN promotions'[k] : promotions'[k][i].exec = e /\ promotions'[k][i].cand = jobs[e].cand
    BY <2>1 DEF GoodJob, LGrowth
  <2> QED BY <1>3, <2>1, <2>2, <2>3 DEF GoodJob, LGrowth
<1>4. ASSUME NEW x \in AppExecs, apps'[x] = apps[x]
      PROVE  GoodApp(x, apps[x])'
  <2>1. GoodApp(x, apps[x])
    BY DEF LInv
  <2>2. \A k \in Ledger!Kinds : \A p : Selected(k, p) => Selected(k, p)'
    BY DEF Selected, LGrowth
  <2> QED BY <1>4, <2>1, <2>2 DEF GoodApp, LGrowth
<1>5. \A p \in preparations : GoodPreparation(p)
  BY DEF LInv
<1> QED BY <1>1, <1>2, <1>3, <1>4, <1>5

\* How a step of one execution changes its own state.
LEMMA JobSet ==
    ASSUME LTypes, NEW e \in Ledger!ImageExecs, NEW job \in LJob, Ledger!Enter(e, job)
    PROVE  /\ jobs' \in [Ledger!ImageExecs -> LJob] /\ jobs'[e] = job
           /\ \A d \in Ledger!ImageExecs : d # e => jobs'[d] = jobs[d]
  BY DEF LTypes, Ledger!Enter

LEMMA EmptyRecords ==
    /\ Ledger!NoCandidate \in LCandidate /\ Ledger!NoPromotion \in LPromotion
    /\ Ledger!NoJob \in LJob /\ Ledger!NoApp \in LApp
<1>1. Ledger!NoCandidate \in LCandidate
  BY DEF Ledger!NoCandidate, LCandidate
<1>2. Ledger!NoPromotion \in LPromotion
  BY <1>1 DEF Ledger!NoPromotion, LPromotion
<1>3. Ledger!NoJob \in LJob
  BY <1>1 DEF Ledger!NoJob, LJob
<1>4. Ledger!NoApp \in LApp
  BY <1>2 DEF Ledger!NoApp, LApp
<1> QED BY <1>1, <1>2, <1>3, <1>4

\* A step that only moves one execution of an image lane.
LEMMA JobMoves ==
    ASSUME LConstants, LInv, NEW e \in Ledger!ImageExecs, NEW job \in LJob, Ledger!Enter(e, job),
           jobs[e].phase \notin {"done", "failed"},
           UNCHANGED <<candidates, promotions, preparations, apps>>, GoodJob(e, job)
    PROVE  LInv'
<1>1. /\ jobs' \in [Ledger!ImageExecs -> LJob] /\ jobs'[e] = job
      /\ \A d \in Ledger!ImageExecs : d # e => jobs'[d] = jobs[d]
  BY JobSet DEF LInv
<1>2. LTypes'
  BY <1>1 DEF LInv, LTypes
<1>3. LGrowth
  BY <1>1 DEF LGrowth
<1>4. GoodJob(e, jobs[e])'
  BY <1>1 DEF GoodJob
<1>5. \A d \in Ledger!ImageExecs : GoodJob(d, jobs[d])'
  <2> SUFFICES ASSUME NEW d \in Ledger!ImageExecs PROVE GoodJob(d, jobs[d])'
    OBVIOUS
  <2>1. CASE d = e
    BY <2>1, <1>4
  <2>2. CASE d # e
    <3>1. jobs'[d] = jobs[d]
      BY <2>2, <1>1
    <3>2. GoodJob(d, jobs[d])'
      BY <3>1, <1>2, <1>3, LKept
    <3> QED BY <3>2
  <2> QED BY <2>1, <2>2
<1>6. \A k \in Ledger!Kinds : \A i \in DOMAIN promotions[k] : GoodPromotion(k, i, promotions[k][i])'
  BY <1>2, <1>3, LKept
<1>7. \A x \in AppExecs : GoodApp(x, apps[x])'
  BY <1>2, <1>3, LKept
<1>8. /\ \A c \in candidates : GoodCandidate(c)' /\ Ledger!admitImageCandidate(c)
      /\ \A p \in preparations : GoodPreparation(p)
  BY <1>2, <1>3, LKept
<1> QED BY <1>2, <1>5, <1>6, <1>7, <1>8 DEF LInv, GoodPreparation

LEMMA FailedGood ==
    ASSUME NEW e \in Ledger!ImageExecs
    PROVE  LET job == [Ledger!NoJob EXCEPT !.phase = "failed"] IN job \in LJob /\ GoodJob(e, job)
<1> DEFINE job == [Ledger!NoJob EXCEPT !.phase = "failed"]
<1>1. job \in LJob /\ job.phase = "failed" /\ job.cand = Ledger!NoCandidate
  BY EmptyRecords DEF LJob, Ledger!NoJob
<1> QED BY <1>1 DEF GoodJob

LEMMA FailKeeps ==
    ASSUME LConstants, LInv, NEW e \in Ledger!ImageExecs, Ledger!Fail(e),
           jobs[e].phase \notin {"done", "failed"}, UNCHANGED <<preparations, apps>>
    PROVE  LInv'
<1> DEFINE job == [Ledger!NoJob EXCEPT !.phase = "failed"]
<1>1. job \in LJob /\ GoodJob(e, job)
  BY FailedGood
<1>2. Ledger!Enter(e, job) /\ UNCHANGED <<candidates, promotions>>
  BY DEF Ledger!Fail
<1> HIDE DEF job
<1> QED BY <1>1, <1>2, JobMoves

\* The version of a key that a release read is one of its history.
LEMMA CurrentKnown ==
    ASSUME LInv, NEW k \in Ledger!Kinds, promotions[k] # <<>>
    PROVE  /\ Len(promotions[k]) \in DOMAIN promotions[k] /\ Ledger!Current(k) \in LPromotion
           /\ Ledger!Current(k) = promotions[k][Len(promotions[k])]
           /\ Ledger!Current(k).cand \in candidates /\ Ledger!Current(k).cand.kind = k
           /\ Ledger!Current(k).cand \in LCandidate
<1>1. promotions[k] \in Seq(LPromotion)
  BY DEF LInv, LTypes
<1>2. Len(promotions[k]) \in DOMAIN promotions[k] /\ promotions[k][Len(promotions[k])] \in LPromotion
  BY <1>1
<1>3. GoodPromotion(k, Len(promotions[k]), promotions[k][Len(promotions[k])])
  BY <1>2 DEF LInv
<1> QED BY <1>2, <1>3 DEF Ledger!Current, GoodPromotion, LInv, LTypes

LEMMA PinStep ==
    ASSUME LConstants, LInv, NEW e \in Ledger!ImageExecs, Ledger!PinToolchain(e) PROVE LInv'
<1>1. e \in ProverExecs /\ jobs[e].phase = "start" /\ UNCHANGED <<preparations, apps>>
  BY DEF Ledger!PinToolchain
<1>2. CASE Ledger!Fail(e)
  BY <1>1, <1>2, FailKeeps
<1>3. CASE /\ Ledger!selectPromotion("toolchain", Len(promotions["toolchain"]))
           /\ Ledger!Enter(e, [jobs[e] EXCEPT !.phase = "pinned", !.pred = Len(promotions["toolchain"]),
                                              !.base = Ledger!Current("toolchain").cand.image])
           /\ UNCHANGED <<candidates, promotions>>
  <2> DEFINE job == [jobs[e] EXCEPT !.phase = "pinned", !.pred = Len(promotions["toolchain"]),
                                    !.base = Ledger!Current("toolchain").cand.image]
  <2>1. promotions["toolchain"] \in Seq(LPromotion) /\ jobs[e] \in LJob
    BY DEF LInv, LTypes
  <2>2. promotions["toolchain"] # <<>>
    BY <1>3, <2>1 DEF Ledger!selectPromotion
  <2>3. Ledger!Current("toolchain").cand.image \in Ledger!ImageExecs \cup {"none"}
    BY <2>2, CurrentKnown DEF LCandidate
  <2>4. job \in LJob /\ job.phase = "pinned" /\ job.cand = jobs[e].cand
    <3>1. Len(promotions["toolchain"]) \in Nat
      BY <2>1
    <3> QED BY <2>1, <2>3, <3>1 DEF LJob
  <2>5. e \notin ToolchainExecs
    BY <1>1 DEF LConstants, Ledger!LedgerConstants
  <2>6. Ledger!Enter(e, job)
    BY <1>3
  <2> HIDE DEF job
  <2>7. GoodJob(e, job)
    BY <2>2, <2>4, <2>5 DEF GoodJob, LInv
  <2> QED BY <1>1, <1>3, <2>4, <2>6, <2>7, JobMoves
<1> QED BY <1>2, <1>3 DEF Ledger!PinToolchain

LEMMA SelectStep ==
    ASSUME LConstants, LInv, NEW e \in Ledger!ImageExecs, Ledger!SelectCandidate(e) PROVE LInv'
<1>1. PICK c \in candidates :
        /\ c.kind = Ledger!KindOf(e)
        /\ Ledger!Enter(e, [jobs[e] EXCEPT !.phase = "candidate", !.cand = c, !.mode = "existing"])
  BY DEF Ledger!SelectCandidate
<1> DEFINE job == [jobs[e] EXCEPT !.phase = "candidate", !.cand = c, !.mode = "existing"]
<1>2. /\ jobs[e].phase = IF e \in ProverExecs THEN "pinned" ELSE "start"
      /\ UNCHANGED <<candidates, promotions, preparations, apps>>
  BY DEF Ledger!SelectCandidate
<1>3. jobs[e] \in LJob /\ c \in LCandidate /\ GoodJob(e, jobs[e])
  BY DEF LInv, LTypes
<1>4. job \in LJob /\ job.phase = "candidate" /\ job.cand = c
  BY <1>3 DEF LJob
<1>5. e \in ProverExecs => promotions["toolchain"] # <<>>
  BY <1>2, <1>3 DEF GoodJob
<1>6. Ledger!Enter(e, job)
  BY <1>1
<1> HIDE DEF job
<1>7. GoodJob(e, job)
  BY <1>1, <1>4, <1>5 DEF GoodJob
<1>8. jobs[e].phase \notin {"done", "failed"}
  BY <1>2
<1> QED BY <1>2, <1>4, <1>6, <1>7, <1>8, JobMoves

LEMMA ObserveStep ==
    ASSUME LConstants, LInv, NEW e \in Ledger!ImageExecs, Ledger!Observe(e) PROVE LInv'
<1> DEFINE base == IF e \in ProverExecs THEN Ledger!Current("toolchain").cand.image ELSE "none"
           job == [jobs[e] EXCEPT !.phase = "observed", !.pred = Len(promotions[Ledger!KindOf(e)]), !.base = base]
<1>1. /\ jobs[e].phase = "candidate" /\ Ledger!Enter(e, job)
      /\ UNCHANGED <<candidates, promotions, preparations, apps>>
  BY DEF Ledger!Observe
<1>2. jobs[e] \in LJob /\ GoodJob(e, jobs[e])
  BY DEF LInv, LTypes
<1>3. /\ jobs[e].cand \in candidates /\ jobs[e].cand.kind = Ledger!KindOf(e)
      /\ e \in ProverExecs => promotions["toolchain"] # <<>>
  BY <1>1, <1>2 DEF GoodJob
<1>4. base \in Ledger!ImageExecs \cup {"none"}
  BY <1>3, CurrentKnown DEF LCandidate
<1>5. Len(promotions[Ledger!KindOf(e)]) \in Nat
  <2>1. promotions[Ledger!KindOf(e)] \in Seq(LPromotion)
    BY KindsApart DEF LInv, LTypes
  <2> QED BY <2>1
<1> HIDE DEF base
<1>6. job \in LJob /\ job.phase = "observed" /\ job.cand = jobs[e].cand
  BY <1>2, <1>4, <1>5 DEF LJob
<1> HIDE DEF job
<1>7. GoodJob(e, job)
  BY <1>3, <1>6 DEF GoodJob
<1>8. jobs[e].phase \notin {"done", "failed"}
  BY <1>1
<1> QED BY <1>1, <1>6, <1>7, <1>8, JobMoves

\* A step of an image lane that publishes: the new objects are good, and so is the
\* execution that wrote them.
LEMMA LanePublishes ==
    ASSUME LConstants, LInv, NEW e \in Ledger!ImageExecs, NEW job \in LJob, Ledger!Enter(e, job),
           jobs[e].phase \notin {"done", "failed"},
           LTypes', LGrowth, UNCHANGED <<preparations, apps>>,
           \A c \in candidates' \ candidates : GoodCandidate(c)' /\ Ledger!admitImageCandidate(c),
           \A k \in Ledger!Kinds : \A i \in DOMAIN promotions'[k] :
             i \notin DOMAIN promotions[k] => GoodPromotion(k, i, promotions[k][i])',
           GoodJob(e, jobs[e])'
    PROVE  LInv'
<1>1. \A c \in candidates' : GoodCandidate(c)' /\ Ledger!admitImageCandidate(c)
  BY LKept
<1>2. ASSUME NEW k \in Ledger!Kinds, NEW i \in DOMAIN promotions'[k]
      PROVE  GoodPromotion(k, i, promotions[k][i])'
  <2>1. CASE i \in DOMAIN promotions[k]
    BY <2>1, LKept
  <2> QED BY <2>1
<1>3. ASSUME NEW d \in Ledger!ImageExecs
      PROVE  GoodJob(d, jobs[d])'
  <2>1. CASE d = e
    BY <2>1
  <2>2. CASE d # e
    <3>1. jobs'[d] = jobs[d]
      BY <2>2, JobSet DEF LInv
    <3>2. GoodJob(d, jobs[d])'
      BY <3>1, LKept
    <3> QED BY <3>2
  <2> QED BY <2>1, <2>2
<1>4. \A x \in AppExecs : GoodApp(x, apps[x])'
  BY LKept
<1>5. \A p \in preparations' : GoodPreparation(p)'
  BY LKept DEF GoodPreparation
<1> QED BY <1>1, <1>2, <1>3, <1>4, <1>5 DEF LInv

LEMMA ReportFields ==
    ASSUME NEW k, NEW report \in Ledger!Reports(k)
    PROVE  report[1] \in Ledger!Scans /\ report[2] \in BOOLEAN
<1>1. \/ report = <<"PASS", TRUE>> \/ report = <<"FINDINGS_PRESENT", TRUE>> \/ report = <<"PASS", FALSE>>
  BY DEF Ledger!Reports
<1>2. CASE report = <<"PASS", TRUE>>
  BY <1>2
<1>3. CASE report = <<"FINDINGS_PRESENT", TRUE>>
  BY <1>3
<1>4. CASE report = <<"PASS", FALSE>>
  BY <1>4
<1> QED BY <1>1, <1>2, <1>3, <1>4

\* What a Prover build has recorded of the Toolchain that it names is admitted.
LEMMA CandidateStep ==
    ASSUME LConstants, LInv, NEW e \in Ledger!ImageExecs, Ledger!PublishCandidate(e) PROVE LInv'
<1>1. /\ jobs[e].phase = IF e \in ProverExecs THEN "pinned" ELSE "start"
      /\ UNCHANGED <<preparations, apps>>
  BY DEF Ledger!PublishCandidate
<1>2. CASE Ledger!Fail(e)
  <2>1. jobs[e].phase \notin {"done", "failed"}
    BY <1>1
  <2> QED BY <1>1, <1>2, <2>1, FailKeeps
<1>3. CASE ~Ledger!Fail(e)
  <2>1. PICK report \in Ledger!Reports(Ledger!KindOf(e)),
             base \in IF e \in ProverExecs THEN ToolchainExecs ELSE {"none"} :
          LET c == Ledger!BuildEvidence(e, report, base) IN
          /\ Ledger!admitImageCandidate(c) /\ Ledger!OriginalToolchain(c)
          /\ candidates' = candidates \cup {c}
          /\ Ledger!Enter(e, [jobs[e] EXCEPT !.phase = "candidate", !.cand = c, !.mode = "build"])
          /\ UNCHANGED promotions
    BY <1>3 DEF Ledger!PublishCandidate
  <2>a. PICK c : c = Ledger!BuildEvidence(e, report, base)
    OBVIOUS
  <2> DEFINE job == [jobs[e] EXCEPT !.phase = "candidate", !.cand = c, !.mode = "build"]
  <2>2. jobs[e] \in LJob /\ GoodJob(e, jobs[e])
    BY DEF LInv, LTypes
  <2>3. report[1] \in Ledger!Scans /\ report[2] \in BOOLEAN
    BY ReportFields
  <2>4. /\ c.kind = Ledger!KindOf(e) /\ c.image = e /\ c.exec = e /\ c.version = jobs[e].pred /\ c.base = base
        /\ c \in LCandidate
    <3>1. base \in ToolchainExecs \cup {"none"} /\ Ledger!KindOf(e) \in Ledger!Kinds /\ SourceOf[e] \in Sources
      BY <2>1, KindsApart
    <3>2. jobs[e].pred \in Nat
      BY <2>2 DEF LJob
    <3> QED BY <2>a, <2>3, <3>1, <3>2 DEF Ledger!BuildEvidence, LCandidate
  <2>5. /\ Ledger!admitImageCandidate(c) /\ Ledger!OriginalToolchain(c)
        /\ candidates' = candidates \cup {c} /\ Ledger!Enter(e, job) /\ UNCHANGED promotions
    BY <2>1, <2>a
  <2>6. job \in LJob /\ job.phase = "candidate" /\ job.cand = c
    BY <2>2, <2>4 DEF LJob
  <2> HIDE DEF job
  <2>7. jobs'[e] = job /\ jobs' \in [Ledger!ImageExecs -> LJob] /\ jobs[e].phase \notin {"done", "failed"}
    BY <1>1, <2>5, <2>6, JobSet DEF LInv
  <2>8. LTypes'
    BY <1>1, <2>4, <2>5, <2>7 DEF LInv, LTypes
  <2>9. LGrowth
    <3>1. \A d \in Ledger!ImageExecs : d # e => jobs'[d] = jobs[d]
      BY <2>5, <2>6, JobSet DEF LInv
    <3> QED BY <1>1, <2>5, <2>7, <3>1 DEF LGrowth
  <2>10. GoodCandidate(c)'
    <3>1. c.kind = "toolchain" => c.version = 0
      <4> SUFFICES ASSUME c.kind = "toolchain" PROVE c.version = 0
        OBVIOUS
      <4>1. e \in ToolchainExecs /\ e \notin ProverExecs
        BY <2>4, KindsApart
      <4> QED BY <1>1, <2>2, <2>4, <4>1 DEF GoodJob
    <3>2. ASSUME c.kind = "prover"
          PROVE  /\ c.version \in DOMAIN promotions["toolchain"]
                 /\ promotions["toolchain"][c.version].image = c.base
      <4>1. promotions["toolchain"] \in Seq(LPromotion)
        BY DEF LInv, LTypes
      <4>2. /\ Ledger!selectPromotion("toolchain", c.version)
            /\ promotions["toolchain"][c.version].cand.image = c.base
        BY <2>5, <3>2 DEF Ledger!OriginalToolchain
      <4> QED BY <4>1, <4>2 DEF Ledger!selectPromotion, Ledger!assertImagePromotionCandidate
    <3> QED BY <2>4, <2>5, <3>1, <3>2 DEF GoodCandidate
  <2>11. GoodJob(e, jobs[e])'
    <3>1. e \in ProverExecs => promotions["toolchain"] # <<>>
      BY <1>1, <2>2 DEF GoodJob
    <3> QED BY <2>4, <2>5, <2>6, <2>7, <3>1 DEF GoodJob
  <2>12. \A k \in Ledger!Kinds : \A i \in DOMAIN promotions'[k] : i \notin DOMAIN promotions[k] => FALSE
    BY <2>5
  <2>13. \A x \in candidates' \ candidates : GoodCandidate(x)' /\ Ledger!admitImageCandidate(x)
    BY <2>5, <2>10
  <2> QED BY <1>1, <2>5, <2>6, <2>7, <2>8, <2>9, <2>11, <2>12, <2>13, LanePublishes
<1> QED BY <1>2, <1>3

LEMMA PromotionStep ==
    ASSUME LConstants, LInv, NEW e \in Ledger!ImageExecs, Ledger!PublishPromotion(e) PROVE LInv'
<1>1. jobs[e].phase = "observed" /\ UNCHANGED <<preparations, apps>> /\ jobs[e].phase \notin {"done", "failed"}
  BY DEF Ledger!PublishPromotion
<1>2. CASE Ledger!Fail(e)
  BY <1>1, <1>2, FailKeeps
<1>3. CASE ~Ledger!Fail(e)
  <2>1. PICK image \in Ledger!Images(Ledger!KindOf(e)), report \in Ledger!Reports(Ledger!KindOf(e)),
             answer \in {"done", "failed"} :
          LET p == Ledger!Revalidated(e, image, report) IN
          /\ Ledger!admitImagePromotion(p) /\ p.cand \in candidates /\ Ledger!assertImagePromotionCandidate(p)
          /\ Ledger!assertImagePredecessor(e)
          /\ promotions' = [promotions EXCEPT ![Ledger!KindOf(e)] = Append(@, p)]
          /\ Ledger!Enter(e, [jobs[e] EXCEPT !.phase = answer])
          /\ UNCHANGED candidates
    BY <1>3 DEF Ledger!PublishPromotion
  <2>2. PICK p : p = Ledger!Revalidated(e, image, report)
    OBVIOUS
  <2>3. PICK n : n = Len(promotions[Ledger!KindOf(e)])
    OBVIOUS
  <2> DEFINE k == Ledger!KindOf(e)
             job == [jobs[e] EXCEPT !.phase = answer]
  <2>4. jobs[e] \in LJob /\ GoodJob(e, jobs[e]) /\ k \in Ledger!Kinds /\ promotions[k] \in Seq(LPromotion)
    BY KindsApart DEF LInv, LTypes
  <2>5. /\ p.cand = jobs[e].cand /\ p.exec = e /\ p \in LPromotion
    <3>1. report[1] \in Ledger!Scans /\ report[2] \in BOOLEAN
      BY ReportFields
    <3>2. image \in Ledger!ImageExecs /\ SourceOf[e] \in Sources
      BY KindsApart
    <3> QED BY <2>2, <2>4, <3>1, <3>2 DEF Ledger!Revalidated, LPromotion, LJob
  <2>6. /\ Ledger!admitImagePromotion(p) /\ p.cand \in candidates /\ Ledger!assertImagePromotionCandidate(p)
        /\ jobs[e].pred = n
        /\ promotions' = [promotions EXCEPT ![k] = Append(promotions[k], p)]
        /\ Ledger!Enter(e, job) /\ UNCHANGED candidates
    BY <2>1, <2>2, <2>3 DEF Ledger!assertImagePredecessor
  <2>7. job \in LJob /\ job.phase = answer /\ job.cand = jobs[e].cand /\ job.pred = n
    BY <2>4, <2>6 DEF LJob
  <2> HIDE DEF job, k
  <2>8. jobs'[e] = job /\ jobs' \in [Ledger!ImageExecs -> LJob] /\ \A d \in Ledger!ImageExecs : d # e => jobs'[d] = jobs[d]
    BY <2>6, <2>7, JobSet DEF LInv
  <2>9. promotions' \in [Ledger!Kinds -> Seq(LPromotion)]
    <3>1. Append(promotions[k], p) \in Seq(LPromotion)
      BY <2>4, <2>5
    <3> QED BY <2>4, <2>6, <3>1 DEF LInv, LTypes
  <2>10. LTypes'
    BY <1>1, <2>6, <2>8, <2>9 DEF LInv, LTypes
  <2>11. /\ promotions'[k] = Append(promotions[k], p)
         /\ \A l \in Ledger!Kinds : l # k => promotions'[l] = promotions[l]
    BY <2>4, <2>6 DEF LInv, LTypes
  <2>12. /\ DOMAIN promotions[k] = 1 .. n /\ DOMAIN promotions'[k] = 1 .. n + 1 /\ n \in Nat
         /\ promotions'[k][n + 1] = p /\ \A i \in 1 .. n : promotions'[k][i] = promotions[k][i]
    BY <2>3, <2>4, <2>5, <2>11 DEF k
  <2>13. LGrowth
    <3>1. ASSUME NEW l \in Ledger!Kinds, NEW i \in DOMAIN promotions[l]
          PROVE  i \in DOMAIN promotions'[l] /\ promotions'[l][i] = promotions[l][i]
      <4>1. CASE l = k
        BY <2>12, <4>1
      <4>2. CASE l # k
        BY <2>11, <4>2
      <4> QED BY <4>1, <4>2
    <3> QED BY <1>1, <2>6, <2>8, <3>1 DEF LGrowth
  <2>14. p.cand.kind = k /\ e \in Ledger!Images(k)
    BY <1>1, <2>4, <2>5, KindsApart DEF GoodJob, k
  <2>15. ASSUME NEW l \in Ledger!Kinds, NEW i \in DOMAIN promotions'[l], i \notin DOMAIN promotions[l]
         PROVE  GoodPromotion(l, i, promotions[l][i])'
    <3>1. l = k /\ i = n + 1 /\ promotions'[l][i] = p
      BY <2>11, <2>12, <2>15
    <3>2. jobs'[p.exec].phase \in {"done", "failed"} /\ jobs'[p.exec].pred = i - 1
      BY <2>5, <2>7, <2>8, <2>12, <3>1
    <3>3. Ledger!admitImageCandidate(p.cand)
      BY <2>6 DEF LInv
    <3>4. GoodPromotion(l, i, p)'
      BY <2>5, <2>6, <2>14, <3>1, <3>2, <3>3 DEF GoodPromotion
    <3> QED BY <3>1, <3>4
  <2>16. GoodJob(e, jobs[e])'
    <3>1. /\ jobs'[e].phase \in {"done", "failed"} /\ jobs'[e].cand = p.cand
      BY <2>5, <2>7, <2>8
    <3>2. n + 1 \in DOMAIN promotions'[k] /\ promotions'[k][n + 1].exec = e /\ promotions'[k][n + 1].cand = jobs'[e].cand
      BY <2>5, <2>12, <3>1
    <3> QED BY <2>5, <2>6, <2>14, <3>1, <3>2 DEF GoodJob, k
  <2>17. \A c \in candidates' \ candidates : FALSE
    BY <2>6
  <2> QED BY <1>1, <2>6, <2>7, <2>10, <2>13, <2>15, <2>16, <2>17, LanePublishes
<1> QED BY <1>2, <1>3

\* A step of the App lane.
LEMMA AppMoves ==
    ASSUME LConstants, LInv, NEW x \in AppExecs, NEW a \in LApp, apps' = [apps EXCEPT ![x] = a],
           UNCHANGED <<candidates, promotions, jobs, preparations>>, GoodApp(x, a)
    PROVE  LInv'
<1>1. /\ apps' \in [AppExecs -> LApp] /\ apps'[x] = a
      /\ \A y \in AppExecs : y # x => apps'[y] = apps[y]
  BY DEF LInv, LTypes
<1>2. LTypes' /\ LGrowth
  BY <1>1 DEF LInv, LTypes, LGrowth
<1>3. ASSUME NEW y \in AppExecs PROVE GoodApp(y, apps[y])'
  <2>1. CASE y = x
    BY <1>1, <2>1 DEF GoodApp, Selected
  <2>2. CASE y # x
    <3>1. apps'[y] = apps[y]
      BY <1>1, <2>2
    <3>2. GoodApp(y, apps[y])'
      BY <1>2, <3>1, LKept
    <3> QED BY <3>2
  <2> QED BY <2>1, <2>2
<1>4. /\ \A c \in candidates' : GoodCandidate(c)' /\ Ledger!admitImageCandidate(c)
      /\ \A k \in Ledger!Kinds : \A i \in DOMAIN promotions'[k] : GoodPromotion(k, i, promotions[k][i])'
      /\ \A e \in Ledger!ImageExecs : GoodJob(e, jobs[e])'
      /\ \A p \in preparations' : GoodPreparation(p)'
  BY <1>2, LKept DEF GoodPreparation
<1> QED BY <1>2, <1>3, <1>4 DEF LInv

LEMMA AppFails ==
    ASSUME NEW x \in AppExecs
    PROVE  LET a == [Ledger!NoApp EXCEPT !.phase = "failed"] IN a \in LApp /\ GoodApp(x, a)
<1> DEFINE a == [Ledger!NoApp EXCEPT !.phase = "failed"]
<1>1. a \in LApp /\ a.phase = "failed"
  BY EmptyRecords DEF LApp
<1> QED BY <1>1 DEF GoodApp

LEMMA ReleaseStep ==
    ASSUME LConstants, LInv, NEW x \in AppExecs, NEW k \in Ledger!Kinds, Ledger!SelectRelease(x, k)
    PROVE  LInv'
<1> DEFINE n == Len(promotions[k])
           failed == [Ledger!NoApp EXCEPT !.phase = "failed"]
           toolchain == [apps[x] EXCEPT !.phase = k, !.toolchain = Ledger!Current(k)]
           prover == [apps[x] EXCEPT !.phase = k, !.prover = Ledger!Current(k)]
<1>1. /\ apps[x].phase = IF k = "toolchain" THEN "start" ELSE "toolchain"
      /\ apps' = [apps EXCEPT ![x] = IF ~Ledger!selectPromotion(k, n) THEN failed
                                     ELSE IF k = "toolchain" THEN toolchain ELSE prover]
      /\ UNCHANGED <<candidates, promotions, jobs, preparations>>
  BY DEF Ledger!SelectRelease
<1>2. apps[x] \in LApp /\ GoodApp(x, apps[x]) /\ promotions[k] \in Seq(LPromotion)
  BY DEF LInv, LTypes
<1>3. failed \in LApp /\ GoodApp(x, failed)
  BY AppFails
<1>4. ASSUME Ledger!selectPromotion(k, n)
      PROVE  Ledger!Current(k) \in LPromotion /\ Selected(k, Ledger!Current(k))
  <2>1. promotions[k] # <<>>
    BY <1>2, <1>4 DEF Ledger!selectPromotion
  <2> QED BY <2>1, CurrentKnown DEF Selected
<1>5. ASSUME Ledger!selectPromotion(k, n), k = "toolchain"
      PROVE  toolchain \in LApp /\ GoodApp(x, toolchain)
  <2>1. toolchain \in LApp /\ toolchain.phase = k /\ toolchain.toolchain = Ledger!Current(k)
    BY <1>2, <1>4, <1>5 DEF LApp
  <2> QED BY <1>4, <1>5, <2>1 DEF GoodApp
<1>6. ASSUME Ledger!selectPromotion(k, n), k # "toolchain"
      PROVE  prover \in LApp /\ GoodApp(x, prover)
  <2>1. k = "prover" /\ apps[x].phase = "toolchain"
    BY <1>1, <1>6
  <2>2. /\ prover \in LApp /\ prover.phase = k /\ prover.prover = Ledger!Current(k)
        /\ prover.toolchain = apps[x].toolchain
    BY <1>2, <1>4, <1>6, <2>1 DEF LApp
  <2>3. Selected("toolchain", apps[x].toolchain)
    BY <1>2, <2>1 DEF GoodApp
  <2> QED BY <1>4, <1>6, <2>1, <2>2, <2>3 DEF GoodApp
<1> HIDE DEF failed, toolchain, prover
<1>7. CASE ~Ledger!selectPromotion(k, n)
  <2>1. apps' = [apps EXCEPT ![x] = failed]
    BY <1>1, <1>7
  <2> QED BY <1>1, <1>3, <2>1, AppMoves
<1>8. CASE Ledger!selectPromotion(k, n) /\ k = "toolchain"
  <2>1. apps' = [apps EXCEPT ![x] = toolchain]
    BY <1>1, <1>8
  <2> QED BY <1>1, <1>5, <1>8, <2>1, AppMoves
<1>9. CASE Ledger!selectPromotion(k, n) /\ k # "toolchain"
  <2>1. apps' = [apps EXCEPT ![x] = prover]
    BY <1>1, <1>9
  <2> QED BY <1>1, <1>6, <1>9, <2>1, AppMoves
<1> QED BY <1>7, <1>8, <1>9

LEMMA ProjectStep ==
    ASSUME LConstants, LInv, NEW x \in AppExecs, Ledger!ProjectAuthority(x)
    PROVE  LInv'
<1> DEFINE failed == [Ledger!NoApp EXCEPT !.phase = "failed"]
           authorized == [apps[x] EXCEPT !.phase = "authorized"]
<1>1. PICK p \in preparations :
        apps' = [apps EXCEPT ![x] = IF /\ Ledger!admitAppReleaseSelection(x)
                                       /\ Ledger!admitAppRuntimeVerifierAuthority(x, p)
                                    THEN authorized ELSE failed]
  BY DEF Ledger!ProjectAuthority
<1>2. apps[x].phase = "prover" /\ UNCHANGED <<candidates, promotions, jobs, preparations>>
  BY DEF Ledger!ProjectAuthority
<1>3. apps[x] \in LApp /\ GoodApp(x, apps[x])
  BY DEF LInv, LTypes
<1>4. failed \in LApp /\ GoodApp(x, failed)
  BY AppFails
<1>5. ASSUME Ledger!admitAppReleaseSelection(x), Ledger!admitAppRuntimeVerifierAuthority(x, p)
      PROVE  authorized \in LApp /\ GoodApp(x, authorized)
  <2>1. /\ authorized \in LApp /\ authorized.phase = "authorized"
        /\ authorized.toolchain = apps[x].toolchain /\ authorized.prover = apps[x].prover
    BY <1>3 DEF LApp
  <2> HIDE DEF authorized
  <2>2. Selected("toolchain", apps[x].toolchain) /\ Selected("prover", apps[x].prover)
    BY <1>2, <1>3 DEF GoodApp
  <2> QED BY <1>5, <2>1, <2>2 DEF GoodApp, Ledger!admitAppReleaseSelection, Ledger!admitAppRuntimeVerifierAuthority
<1> HIDE DEF failed, authorized
<1>6. CASE Ledger!admitAppReleaseSelection(x) /\ Ledger!admitAppRuntimeVerifierAuthority(x, p)
  <2>1. apps' = [apps EXCEPT ![x] = authorized]
    BY <1>1, <1>6
  <2> QED BY <1>2, <1>5, <1>6, <2>1, AppMoves
<1>7. CASE ~(Ledger!admitAppReleaseSelection(x) /\ Ledger!admitAppRuntimeVerifierAuthority(x, p))
  <2>1. apps' = [apps EXCEPT ![x] = failed]
    BY <1>1, <1>7
  <2> QED BY <1>2, <1>4, <2>1, AppMoves
<1> QED BY <1>6, <1>7

LEMMA PrepareStep ==
    ASSUME LConstants, LInv, NEW x \in AppExecs, Ledger!PrepareSignature(x)
    PROVE  LInv'
<1> DEFINE image == Ledger!Current("prover").cand.image
           prepared(trust) == [exec |-> x, source |-> SourceOf[x], image |-> image,
                               verification |-> Ledger!NativeResult(image, trust), package |-> trust]
<1>1. PICK trust \in Sources :
        Ledger!admitAppSignaturePreparation(prepared(trust)) /\ preparations' = preparations \cup {prepared(trust)}
  BY DEF Ledger!PrepareSignature
<1>2. promotions["prover"] # <<>> /\ UNCHANGED <<candidates, promotions, jobs, apps>>
  BY DEF Ledger!PrepareSignature
<1>3. PICK p : p = prepared(trust)
  OBVIOUS
<1>4. image \in Ledger!ImageExecs \cup {"none"}
  BY <1>2, CurrentKnown DEF LCandidate
<1>5. SourceOf[x] \in Sources
  BY DEF LConstants, Ledger!LedgerConstants, Ledger!Execs
<1>6. /\ p.image = image /\ p.source = SourceOf[x] /\ p.package = trust
      /\ p.verification = Ledger!NativeResult(image, trust) /\ p \in LPreparation
  <2>1. Ledger!NativeResult(image, trust) \in [result : {"VERIFIED", "REJECTED"}, trust : Sources]
    BY DEF Ledger!NativeResult
  <2> QED BY <1>3, <1>4, <1>5, <2>1 DEF LPreparation
<1>7. Ledger!admitAppSignaturePreparation(p) /\ preparations' = preparations \cup {p}
  BY <1>1, <1>3
<1> HIDE DEF image
<1>8. GoodPreparation(p)
  BY <1>6, <1>7 DEF GoodPreparation, Ledger!admitAppSignaturePreparation, Ledger!admitNativeSignatureResult,
     Ledger!NativeResult
<1>9. LTypes' /\ LGrowth
  BY <1>2, <1>6, <1>7 DEF LInv, LTypes, LGrowth
<1>10. /\ \A c \in candidates' : GoodCandidate(c)' /\ Ledger!admitImageCandidate(c)
       /\ \A k \in Ledger!Kinds : \A i \in DOMAIN promotions'[k] : GoodPromotion(k, i, promotions[k][i])'
       /\ \A e \in Ledger!ImageExecs : GoodJob(e, jobs[e])'
       /\ \A y \in AppExecs : GoodApp(y, apps[y])'
  BY <1>2, <1>9, LKept
<1>11. \A q \in preparations' : GoodPreparation(q)'
  BY <1>7, <1>8 DEF LInv, GoodPreparation
<1> QED BY <1>9, <1>10, <1>11 DEF LInv

LEMMA LStart == ASSUME Ledger!Init PROVE LInv
<1>1. LTypes
  BY EmptyRecords DEF Ledger!Init, LTypes
<1>2. \A k \in Ledger!Kinds : \A i \in DOMAIN promotions[k] : FALSE
  BY DEF Ledger!Init
<1>3. Ledger!NoJob.phase = "start" /\ Ledger!NoJob.pred = 0 /\ Ledger!NoJob.cand = Ledger!NoCandidate
  BY DEF Ledger!NoJob
<1>4. \A e \in Ledger!ImageExecs : GoodJob(e, jobs[e])
  BY <1>3 DEF Ledger!Init, GoodJob
<1>5. Ledger!NoApp.phase = "start"
  BY DEF Ledger!NoApp
<1>6. \A x \in AppExecs : GoodApp(x, apps[x])
  BY <1>5 DEF Ledger!Init, GoodApp
<1>7. candidates = {} /\ preparations = {}
  BY DEF Ledger!Init
<1> QED BY <1>1, <1>2, <1>4, <1>6, <1>7 DEF LInv

LEMMA LStep == ASSUME LConstants, LInv, [Ledger!Next]_(Ledger!vars) PROVE LInv'
<1>1. CASE Ledger!Next
  BY <1>1, PinStep, CandidateStep, SelectStep, ObserveStep, PromotionStep, ReleaseStep, PrepareStep, ProjectStep
     DEF Ledger!Next
<1>2. CASE UNCHANGED Ledger!vars
  BY <1>2 DEF Ledger!vars, LInv, LTypes, GoodCandidate, GoodPromotion, GoodJob, GoodApp, Selected, GoodPreparation
<1> QED BY <1>1, <1>2

\* The promotion that an App execution selected is admitted, and so is its candidate.
LEMMA SelectedGood ==
    ASSUME LInv, NEW k \in Ledger!Kinds, NEW p, Selected(k, p)
    PROVE  /\ p.cand \in candidates /\ p.cand.kind = k /\ p.image = p.cand.image
           /\ Ledger!admitImageCandidate(p.cand) /\ Ledger!admitImagePromotion(p)
           /\ GoodCandidate(p.cand)
<1>1. PICK i \in DOMAIN promotions[k] : promotions[k][i] = p
  BY DEF Selected
<1>2. GoodPromotion(k, i, p)
  BY <1>1 DEF LInv
<1> QED BY <1>2 DEF GoodPromotion, LInv, Ledger!assertImagePromotionCandidate

LEMMA LCoherent ==
    ASSUME LConstants, LInv
    PROVE  /\ Ledger!NoPromotionOverlooked /\ Ledger!ProvenanceResolves /\ Ledger!ToldPromotedIsRecorded
           /\ Ledger!AuthorityIsCoherent /\ Ledger!AuthorityIsSigned
<1>1. Ledger!NoPromotionOverlooked
  BY DEF Ledger!NoPromotionOverlooked, LInv, GoodPromotion
<1>2. Ledger!ProvenanceResolves
  BY DEF Ledger!ProvenanceResolves, LInv, GoodCandidate
<1>3. Ledger!ToldPromotedIsRecorded
  <2> SUFFICES ASSUME NEW e \in Ledger!ImageExecs, jobs[e].phase = "done"
               PROVE  \E i \in DOMAIN promotions[Ledger!KindOf(e)] :
                        LET p == promotions[Ledger!KindOf(e)][i] IN
                        p.exec = e /\ p.image = jobs[e].cand.image /\ (p.mode = "build" => p.image = e)
    BY DEF Ledger!ToldPromotedIsRecorded
  <2> DEFINE k == Ledger!KindOf(e)
  <2>1. k \in Ledger!Kinds /\ GoodJob(e, jobs[e])
    BY KindsApart DEF LInv
  <2>2. PICK i \in DOMAIN promotions[k] : promotions[k][i].exec = e /\ promotions[k][i].cand = jobs[e].cand
    BY <2>1 DEF GoodJob
  <2>3. GoodPromotion(k, i, promotions[k][i])
    BY <2>1 DEF LInv
  <2>4. GoodCandidate(promotions[k][i].cand)
    BY <2>3 DEF LInv, GoodPromotion
  <2> QED BY <2>2, <2>3, <2>4 DEF GoodPromotion, GoodCandidate, Ledger!assertImagePromotionCandidate
<1>4. ASSUME NEW x \in AppExecs, apps[x].phase = "authorized"
      PROVE  LET c == apps[x].prover.cand IN
             /\ c.base = apps[x].toolchain.image
             /\ promotions["toolchain"][c.version].image = apps[x].toolchain.image
             /\ c.scan = "PASS" /\ apps[x].prover.scan = "PASS"
             /\ apps[x].prover.image \in Genuine
             /\ \E p \in preparations : p.image = apps[x].prover.image /\ p.package = SourceOf[x]
  <2>1. GoodApp(x, apps[x])
    BY DEF LInv
  <2>2. Selected("toolchain", apps[x].toolchain) /\ Selected("prover", apps[x].prover)
    BY <1>4, <2>1 DEF GoodApp
  <2>3. /\ apps[x].toolchain.image = apps[x].toolchain.cand.image
        /\ apps[x].prover.image = apps[x].prover.cand.image
        /\ apps[x].prover.cand.kind = "prover" /\ GoodCandidate(apps[x].prover.cand)
        /\ apps[x].prover.cand.scan = "PASS" /\ apps[x].prover.scan = "PASS"
    BY <2>2, SelectedGood DEF Ledger!admitImageCandidate, Ledger!admitImagePromotion
  <2>4. apps[x].prover.cand.base = apps[x].toolchain.image
    BY <1>4, <2>1, <2>3 DEF GoodApp
  <2>5. PICK p \in preparations : p.source = SourceOf[x] /\ p.image = apps[x].prover.image
    BY <1>4, <2>1, <2>3 DEF GoodApp
  <2>6. p.image \in Genuine /\ p.package = p.source
    BY DEF LInv, GoodPreparation
  <2> QED BY <2>3, <2>4, <2>5, <2>6 DEF GoodCandidate
<1>5. Ledger!AuthorityIsCoherent
  BY <1>4 DEF Ledger!AuthorityIsCoherent
<1>6. Ledger!AuthorityIsSigned
  BY <1>4 DEF Ledger!AuthorityIsSigned
<1> QED BY <1>1, <1>2, <1>3, <1>5, <1>6

\* However many executions the lanes have and however they interleave, no promotion
\* replaces one its execution had not read, a Prover candidate's provenance can be
\* read back for ever, an execution told "published" finds its promotion, and an App
\* execution is only authorized with a coherent pair of images that the verifier of
\* its own commit accepted (publishCandidate, publishPromotion,
\* projectNormalAppExecutionAuthority).
THEOREM LedgerStaysCoherent ==
    ASSUME LConstants
    PROVE  Ledger!Spec => []( /\ Ledger!NoPromotionOverlooked /\ Ledger!ProvenanceResolves
                              /\ Ledger!ToldPromotedIsRecorded /\ Ledger!AuthorityIsCoherent
                              /\ Ledger!AuthorityIsSigned)
<1>1. Ledger!Init => LInv
  BY LStart
<1>2. LInv /\ [Ledger!Next]_(Ledger!vars) => LInv'
  BY LStep
<1>3. LInv => /\ Ledger!NoPromotionOverlooked /\ Ledger!ProvenanceResolves /\ Ledger!ToldPromotedIsRecorded
              /\ Ledger!AuthorityIsCoherent /\ Ledger!AuthorityIsSigned
  BY LCoherent
<1> QED BY <1>1, <1>2, <1>3, PTL DEF Ledger!Spec

\* The versions of a key are published by as many executions.
LEMMA OneVersionEach ==
    ASSUME LConstants, LInv, NEW k \in Ledger!Kinds, IsFiniteSet(Ledger!Images(k))
    PROVE  Len(promotions[k]) <= Ledger!Cardinality(Ledger!Images(k))
<1> DEFINE n == Len(promotions[k])
           f == [i \in 1 .. n |-> promotions[k][i].exec]
<1>1. n \in Nat /\ DOMAIN promotions[k] = 1 .. n
  BY DEF LInv, LTypes
<1>2. \A i \in 1 .. n : GoodPromotion(k, i, promotions[k][i])
  BY <1>1 DEF LInv
<1>3. f \in [1 .. n -> Ledger!Images(k)]
  BY <1>2 DEF GoodPromotion
<1>4. \A i, j \in 1 .. n : f[i] = f[j] => i = j
  <2> SUFFICES ASSUME NEW i \in 1 .. n, NEW j \in 1 .. n, f[i] = f[j] PROVE i = j
    OBVIOUS
  <2>1. jobs[f[i]].pred = i - 1 /\ jobs[f[j]].pred = j - 1
    BY <1>2 DEF GoodPromotion
  <2> HIDE DEF f
  <2> QED BY <1>1, <2>1
<1>5. f \in Injection(1 .. n, Ledger!Images(k))
  BY <1>3, <1>4 DEF Injection, IsInjective
<1>6. Cardinality(1 .. n) <= Cardinality(Ledger!Images(k))
  BY <1>5, FS_Injection
<1>7. Cardinality(1 .. n) = n
  BY <1>1, FS_Interval
<1>8. Ledger!Cardinality(Ledger!Images(k)) = Cardinality(Ledger!Images(k))
  BY DEF Ledger!Cardinality, Cardinality, Ledger!IsFiniteSet, IsFiniteSet
<1> QED BY <1>6, <1>7, <1>8

\* A candidate names a version that there is.
LEMMA CandidateTyped ==
    ASSUME LConstants, LInv, IsFiniteSet(Ledger!ImageExecs), NEW c \in candidates \cup {Ledger!NoCandidate}
    PROVE  c \in Ledger!CandidateType
<1> DEFINE n == Ledger!Cardinality(ToolchainExecs)
<1>1. IsFiniteSet(ToolchainExecs) /\ Ledger!Images("toolchain") = ToolchainExecs
  BY FS_Subset DEF Ledger!Images
<1>2. n \in Nat
  <2>1. Ledger!Cardinality(ToolchainExecs) = Cardinality(ToolchainExecs)
    BY DEF Ledger!Cardinality, Cardinality, Ledger!IsFiniteSet, IsFiniteSet
  <2> QED BY <1>1, <2>1, FS_CardinalityType
<1>3. c \in LCandidate
  BY EmptyRecords DEF LInv, LTypes
<1>4. c.version \in 0 .. n
  <2>1. CASE c = Ledger!NoCandidate
    BY <1>2, <2>1 DEF Ledger!NoCandidate
  <2>2. CASE c \in candidates
    <3>1. GoodCandidate(c) /\ c.kind \in {"toolchain", "prover"} /\ c.version \in Nat
      BY <1>3, <2>2 DEF LInv, LCandidate
    <3>2. promotions["toolchain"] \in Seq(LPromotion)
      BY DEF LInv, LTypes
    <3>3. Len(promotions["toolchain"]) <= n
      BY <1>1, OneVersionEach
    <3>4. c.version \in DOMAIN promotions["toolchain"] => c.version <= Len(promotions["toolchain"])
      BY <3>2
    <3>5. Len(promotions["toolchain"]) \in Nat
      BY <3>2
    <3> QED BY <1>2, <3>1, <3>3, <3>4, <3>5 DEF GoodCandidate
  <2> QED BY <2>1, <2>2
<1> HIDE DEF n
<1>5. Ledger!CandidateType =
        [kind : Ledger!Kinds, source : Sources \cup {"none"}, exec : Ledger!ImageExecs \cup {"none"},
         image : Ledger!ImageExecs \cup {"none"}, scan : Ledger!Scans, version : 0 .. n,
         base : ToolchainExecs \cup {"none"}, contract : {ContractOf[s] : s \in Sources} \cup {"none"},
         evidence : BOOLEAN]
  BY DEF Ledger!CandidateType, n
<1> QED BY <1>3, <1>4, <1>5 DEF LCandidate

\* The records stay well formed and a key has no more versions than its lane has
\* executions: none publishes twice (Ledger!TypeOK).  Cardinality only counts finite
\* sets, so the executions are finitely many, but any number.
THEOREM LedgerTypeCorrect ==
    ASSUME LConstants, IsFiniteSet(Ledger!ImageExecs)
    PROVE  Ledger!Spec => []Ledger!TypeOK
<1>1. Ledger!Init => LInv
  BY LStart
<1>2. LInv /\ [Ledger!Next]_(Ledger!vars) => LInv'
  BY LStep
<1>3. ASSUME LInv PROVE Ledger!TypeOK
  <2>1. candidates \subseteq Ledger!CandidateType
    BY <1>3, CandidateTyped
  <2>2. ASSUME NEW k \in Ledger!Kinds
        PROVE  /\ \A i \in DOMAIN promotions[k] : Ledger!PromotionType(promotions[k][i])
               /\ Len(promotions[k]) <= Ledger!Cardinality(Ledger!Images(k))
    <3>1. IsFiniteSet(Ledger!Images(k))
      <4>1. Ledger!Images(k) \in SUBSET Ledger!ImageExecs
        BY DEF Ledger!Images
      <4> QED BY <4>1, FS_Subset
    <3>2. ASSUME NEW i \in DOMAIN promotions[k] PROVE Ledger!PromotionType(promotions[k][i])
      <4>1. promotions[k][i] \in LPromotion /\ promotions[k][i].cand \in candidates
        <5>1. promotions[k] \in Seq(LPromotion) /\ GoodPromotion(k, i, promotions[k][i])
          BY <1>3 DEF LInv, LTypes
        <5> QED BY <5>1 DEF GoodPromotion
      <4>2. promotions[k][i].cand \in Ledger!CandidateType
        BY <1>3, <4>1, CandidateTyped
      <4> QED BY <4>1, <4>2 DEF Ledger!PromotionType, LPromotion
    <3> QED BY <1>3, <3>1, <3>2, OneVersionEach
  <2>3. ASSUME NEW e \in Ledger!ImageExecs
        PROVE  /\ jobs[e].phase \in {"start", "pinned", "candidate", "observed", "done", "failed"}
               /\ jobs[e].cand \in Ledger!CandidateType
    <3>1. jobs[e] \in LJob /\ jobs[e].cand \in candidates \cup {Ledger!NoCandidate}
      BY <1>3 DEF LInv, LTypes, GoodJob
    <3> QED BY <1>3, <3>1, CandidateTyped DEF LJob
  <2>4. \A x \in AppExecs : apps[x].phase \in {"start", "toolchain", "prover", "authorized", "failed"}
    BY <1>3 DEF LInv, LTypes, LApp
  <2> QED BY <2>1, <2>2, <2>3, <2>4 DEF Ledger!TypeOK
<1> QED BY <1>1, <1>2, <1>3, PTL DEF Ledger!Spec

-----------------------------------------------------------------------------
(* The host processes of the local executor. *)

USE DEF Host!Outcomes, Host!HostFiles

HRun ==
    [state : {"idle", "input", "running", "read", "cleanup", "done"},
     main : {"none", "alive", "gone", "unspawned"}, code : {"none", "zero", "nonzero", "signal"},
     child : {"none", "holding", "quiet"}, exited : BOOLEAN, closed : BOOLEAN,
     outcome : Host!Outcomes, timer : {"none", "deadline", "grace", "kill"},
     result : [outcome : Host!Outcomes, cleanup : {"none", "complete", "unconfirmed"}],
     files : SUBSET (Host!HostFiles \cup {"input"}), answer : {"none", "error", "result"}]

\* The group that a run owns.
HGroup(p) ==
    /\ p.main = "gone" <=> p.code # "none"
    /\ p.main \in {"none", "unspawned"} => p.child = "none"
    /\ p.exited => p.main \in {"gone", "unspawned"}
    /\ p.closed => p.exited
    /\ p.state \in {"idle", "input"} => p.main = "none"
    /\ p.state = "running" => p.main # "none"

\* A run has a timer until it is settled, the deadline only until there is a cause
\* to stop it, and success is the cause of a host that ended well.
HTimer(p) == p.timer = "none" <=> p.state # "running" \/ Host!Settled(p)
HCause(p) == p.outcome = "success" => p.code = "zero"
HDeadline(p) == p.timer = "deadline" => p.outcome = "none"

\* What a settled run reports.
HResult(p) ==
    /\ p.main = "none" => ~Host!Settled(p) /\ p.outcome = "none"
    /\ Host!Settled(p) => p.result.cleanup \in {"complete", "unconfirmed"}
    /\ p.result.cleanup = "complete" => ~Host!groupExists(p)
    /\ p.result.outcome = "success" => p.result.cleanup = "complete" /\ p.outcome = "success"

\* The executor goes on when the run is settled, or never had a host.
HAnswer(p) ==
    /\ p.state \in {"read", "cleanup", "done"} => Host!Settled(p) \/ p.main = "none"
    /\ p.state = "read" \/ p.answer = "result" => p.result.outcome = "success"
    /\ p.state = "done" /\ p.result.cleanup # "unconfirmed" => p.files = {}

HGood(p) == p \in HRun /\ HGroup(p) /\ HTimer(p) /\ HCause(p) /\ HDeadline(p) /\ HResult(p) /\ HAnswer(p)

\* A run whose processes may have to be ended.
HLive(p) == p.state = "running" /\ ~Host!Settled(p)

\* What no step changes back: the first cause, and the result of a settled run.
HKept(p, q) ==
    /\ p.outcome # "none" => q.outcome = p.outcome
    /\ Host!Settled(p) => q.result = p.result
    /\ HLive(q) => HLive(p)

HInv ==
    /\ run \in [Runs -> HRun] /\ \A r \in Runs : HGood(run[r])
    /\ shuttingDown => \A r \in Runs : HLive(run[r]) => r \in stopped
    /\ stopped \subseteq Runs
    /\ exitCode # "none" => shuttingDown /\ \A r \in stopped : Host!Settled(run[r])
    /\ exitCode = "clean" => \A r \in stopped : run[r].result.cleanup = "complete"
    /\ exitCode \in {"none", "clean", "failed"}

LEMMA SettledMeans ==
    ASSUME NEW p \in HRun
    PROVE  Host!Settled(p) <=> p.result.outcome # "none" \/ p.result.cleanup # "none"
  BY DEF HRun, Host!Settled, Host!NoResult

\* A live run that is settled with the group gone, or with the last wait over.
LEMMA FinishGood ==
    ASSUME NEW p \in HRun, HGroup(p), HCause(p), HResult(p), HAnswer(p), HLive(p),
           NEW cleanup \in {"complete", "unconfirmed"}, cleanup = "complete" => ~Host!groupExists(p)
    PROVE  HGood(Host!finish(p, cleanup)) /\ HKept(p, Host!finish(p, cleanup))
<1> DEFINE out == Host!resolvedOutcome(p, cleanup)
           q == Host!finish(p, cleanup)
<1>1. out \in Host!Outcomes /\ out # "none" /\ (out = "success" => p.outcome = "success" /\ cleanup = "complete")
  BY DEF Host!resolvedOutcome, Host!orElse, HRun
<1>2. /\ q \in HRun /\ q.state = p.state /\ q.main = p.main /\ q.code = p.code /\ q.child = p.child
      /\ q.exited = p.exited /\ q.closed = p.closed /\ q.outcome = p.outcome /\ q.timer = "none"
      /\ q.result = [outcome |-> out, cleanup |-> cleanup] /\ q.files = p.files /\ q.answer = p.answer
  <2>1. PICK res : res = [outcome |-> out, cleanup |-> cleanup]
    OBVIOUS
  <2>2. q = [p EXCEPT !.timer = "none", !.result = res]
    BY <2>1 DEF Host!finish
  <2> HIDE DEF out, q
  <2>3. res \in [outcome : Host!Outcomes, cleanup : {"none", "complete", "unconfirmed"}]
    BY <1>1, <2>1
  <2> QED BY <2>1, <2>2, <2>3 DEF HRun
<1> HIDE DEF out, q
<1>3. q.result.outcome = out /\ q.result.cleanup = cleanup /\ Host!Settled(q)
  BY <1>1, <1>2, SettledMeans
<1>4. Host!groupExists(q) <=> Host!groupExists(p)
  BY <1>2 DEF Host!groupExists
<1>5. p.main # "none" /\ p.state = "running"
  BY DEF HGroup, HLive
<1>6. HGroup(q)
  BY <1>2 DEF HGroup
<1>7. HTimer(q) /\ HCause(q) /\ HDeadline(q)
  BY <1>2, <1>3 DEF HTimer, HCause, HDeadline
<1>8. HResult(q)
  BY <1>1, <1>2, <1>3, <1>4, <1>5 DEF HResult
<1>9. HAnswer(q)
  <2>1. p.answer = "result" => p.result.outcome = "success"
    BY DEF HAnswer
  <2>2. p.result.outcome # "success"
    BY SettledMeans DEF HLive
  <2> QED BY <1>2, <1>5, <2>1, <2>2 DEF HAnswer
<1>10. HKept(p, q)
  BY <1>2 DEF HKept, HLive
<1> QED BY <1>2, <1>6, <1>7, <1>8, <1>9, <1>10 DEF HGood, q

\* A live run with a cause is stopped.
LEMMA StopGood ==
    ASSUME NEW p \in HRun, HGroup(p), HTimer(p), HCause(p), HResult(p), HAnswer(p), HLive(p), p.outcome # "none"
    PROVE  HGood(Host!stop(p)) /\ HKept(p, Host!stop(p))
<1>1. CASE p.timer \in {"grace", "kill", "both"}
  <2>1. Host!stop(p) = p
    BY <1>1 DEF Host!stop
  <2>2. HDeadline(p) /\ HKept(p, p)
    BY <1>1 DEF HDeadline, HKept
  <2> QED BY <2>1, <2>2 DEF HGood
<1>2. CASE p.timer \notin {"grace", "kill", "both"} /\ Host!checkStopped(p)
  <2>1. Host!stop(p) = Host!finish(p, "complete")
    BY <1>2 DEF Host!stop, HLive
  <2>2. ~Host!groupExists(p)
    BY <1>2 DEF Host!checkStopped
  <2> QED BY <2>1, <2>2, FinishGood
<1>3. CASE p.timer \notin {"grace", "kill", "both"} /\ ~Host!checkStopped(p)
  <2> DEFINE q == Host!stopping(p)
  <2>1. Host!stop(p) = q
    BY <1>3 DEF Host!stop, HLive
  <2>2. /\ q \in HRun /\ q.state = p.state /\ q.main = p.main /\ q.code = p.code /\ q.child = p.child
        /\ q.exited = p.exited /\ q.closed = p.closed /\ q.outcome = p.outcome /\ q.timer = "grace"
        /\ q.result = p.result /\ q.files = p.files /\ q.answer = p.answer
    BY DEF Host!stopping, HRun
  <2> HIDE DEF q
  <2>3. /\ Host!Settled(q) <=> Host!Settled(p)
        /\ Host!groupExists(q) <=> Host!groupExists(p)
    BY <2>2 DEF Host!Settled, Host!groupExists
  <2>4. HGroup(q) /\ HCause(q) /\ HDeadline(q)
    BY <2>2 DEF HGroup, HCause, HDeadline
  <2>5. HTimer(q)
    BY <2>2, <2>3 DEF HTimer, HLive
  <2>6. HResult(q)
    BY <2>2, <2>3 DEF HResult
  <2>7. HAnswer(q)
    BY <2>2, <2>3 DEF HAnswer
  <2>8. HKept(p, q)
    BY <2>2, <2>3 DEF HKept, HLive
  <2> QED BY <2>1, <2>2, <2>4, <2>5, <2>6, <2>7, <2>8 DEF HGood
<1> QED BY <1>1, <1>2, <1>3

\* What one run may become, for the processes of its group.
LEMMA GroupMoves ==
    ASSUME NEW p, HGood(p), NEW q \in HRun,
           q.state = p.state, q.exited = p.exited, q.closed = p.closed, q.outcome = p.outcome,
           q.timer = p.timer, q.result = p.result, q.answer = p.answer,
           p.main \notin {"none", "unspawned"} /\ q.main \notin {"none", "unspawned"},
           q.main = "gone" <=> q.code # "none",
           p.main = "gone" => q.main = "gone" /\ q.code = p.code,
           Host!groupExists(q) => Host!groupExists(p),
           Host!groupExists(p) \/ q.files = p.files
    PROVE  HGood(q) /\ HKept(p, q)
<1>1. Host!Settled(q) <=> Host!Settled(p)
  BY DEF Host!Settled
<1>2. HGroup(q)
  BY DEF HGood, HGroup
<1>3. HTimer(q) /\ HDeadline(q)
  BY <1>1 DEF HGood, HTimer, HDeadline
<1>4. HCause(q)
  BY DEF HGood, HCause, HGroup
<1>5. HResult(q)
  BY <1>1 DEF HGood, HResult
<1>6. HAnswer(q)
  BY <1>1 DEF HGood, HAnswer, HResult
<1>7. HKept(p, q)
  BY <1>1 DEF HKept, HLive
<1> QED BY <1>2, <1>3, <1>4, <1>5, <1>6, <1>7 DEF HGood

\* The processes of a group write, fork and end.
LEMMA GroupSteps ==
    ASSUME ExitCodes \subseteq {"zero", "nonzero", "signal"}, NEW r \in Runs, HGood(run[r]),
           Host!HostWrites(r) \/ Host!HostForks(r) \/ Host!HostExits(r) \/ Host!ChildExits(r)
    PROVE  \E q : HGood(q) /\ HKept(run[r], q) /\ Host!Set(r, q)
<1> DEFINE p == run[r]
<1>0. p \in HRun /\ HGroup(p)
  BY DEF HGood
<1>1. CASE Host!HostWrites(r)
  <2>1. PICK f \in Host!HostFiles : p.main = "alive" /\ Host!Set(r, [p EXCEPT !.files = p.files \cup {f}])
    BY <1>1 DEF Host!HostWrites
  <2> DEFINE q == [p EXCEPT !.files = p.files \cup {f}]
  <2>2. /\ q \in HRun /\ q.state = p.state /\ q.main = p.main /\ q.code = p.code /\ q.child = p.child
        /\ q.exited = p.exited /\ q.closed = p.closed /\ q.outcome = p.outcome /\ q.timer = p.timer
        /\ q.result = p.result /\ q.answer = p.answer
    BY <1>0 DEF HRun
  <2> HIDE DEF p, q
  <2>3. HGood(q) /\ HKept(p, q)
    BY <1>0, <2>1, <2>2, GroupMoves DEF HGroup, Host!groupExists, p
  <2> QED BY <2>1, <2>3 DEF p, q
<1>2. CASE Host!HostForks(r)
  <2>1. PICK c \in {"holding", "quiet"} : p.main = "alive" /\ Host!Set(r, [p EXCEPT !.child = c])
    BY <1>2 DEF Host!HostForks
  <2> DEFINE q == [p EXCEPT !.child = c]
  <2>2. /\ q \in HRun /\ q.state = p.state /\ q.main = p.main /\ q.code = p.code /\ q.child = c
        /\ q.exited = p.exited /\ q.closed = p.closed /\ q.outcome = p.outcome /\ q.timer = p.timer
        /\ q.result = p.result /\ q.answer = p.answer /\ q.files = p.files
    BY <1>0 DEF HRun
  <2> HIDE DEF p, q
  <2>3. HGood(q) /\ HKept(p, q)
    BY <1>0, <2>1, <2>2, GroupMoves DEF HGroup, Host!groupExists, p
  <2> QED BY <2>1, <2>3 DEF p, q
<1>3. CASE Host!HostExits(r)
  <2>1. PICK c \in ExitCodes : p.main = "alive" /\ Host!Set(r, [p EXCEPT !.main = "gone", !.code = c])
    BY <1>3 DEF Host!HostExits
  <2> DEFINE q == [p EXCEPT !.main = "gone", !.code = c]
  <2>2. /\ q \in HRun /\ q.state = p.state /\ q.main = "gone" /\ q.code = c /\ q.child = p.child
        /\ q.exited = p.exited /\ q.closed = p.closed /\ q.outcome = p.outcome /\ q.timer = p.timer
        /\ q.result = p.result /\ q.answer = p.answer /\ q.files = p.files
    BY <1>0 DEF HRun
  <2>3. c # "none"
    OBVIOUS
  <2> HIDE DEF p, q
  <2>4. HGood(q) /\ HKept(p, q)
    BY <1>0, <2>1, <2>2, <2>3, GroupMoves DEF HGroup, Host!groupExists, p
  <2> QED BY <2>1, <2>4 DEF p, q
<1>4. CASE Host!ChildExits(r)
  <2>1. p.child # "none" /\ Host!Set(r, [p EXCEPT !.child = "none"])
    BY <1>4 DEF Host!ChildExits
  <2> DEFINE q == [p EXCEPT !.child = "none"]
  <2>2. /\ q \in HRun /\ q.state = p.state /\ q.main = p.main /\ q.code = p.code /\ q.child = "none"
        /\ q.exited = p.exited /\ q.closed = p.closed /\ q.outcome = p.outcome /\ q.timer = p.timer
        /\ q.result = p.result /\ q.answer = p.answer /\ q.files = p.files
    BY <1>0 DEF HRun
  <2> HIDE DEF p, q
  <2>3. HGood(q) /\ HKept(p, q)
    BY <1>0, <2>1, <2>2, GroupMoves DEF HGroup, Host!groupExists, p
  <2> QED BY <2>1, <2>3 DEF p, q
<1> QED BY <1>1, <1>2, <1>3, <1>4

\* A cause is given to a run that has none and is not settled, or it changes nothing.
LEMMA CauseGood ==
    ASSUME NEW p, HGood(p), HLive(p), NEW cause \in Host!Outcomes \ {"none"},
           cause = "success" => p.code = "zero",
           NEW q, q = [p EXCEPT !.outcome = Host!orElse(p.outcome, cause)]
    PROVE  HGood(Host!stop(q)) /\ HKept(p, Host!stop(q))
<1>0. p \in HRun
  BY DEF HGood
<1>1. /\ Host!orElse(p.outcome, cause) \in Host!Outcomes /\ Host!orElse(p.outcome, cause) # "none"
      /\ p.outcome # "none" => Host!orElse(p.outcome, cause) = p.outcome
      /\ p.outcome = "none" => Host!orElse(p.outcome, cause) = cause
  BY <1>0 DEF Host!orElse, HRun
<1>2. /\ q \in HRun /\ q.state = p.state /\ q.main = p.main /\ q.code = p.code /\ q.child = p.child
      /\ q.exited = p.exited /\ q.closed = p.closed /\ q.outcome = Host!orElse(p.outcome, cause)
      /\ q.timer = p.timer /\ q.result = p.result /\ q.answer = p.answer /\ q.files = p.files
  BY <1>0, <1>1 DEF HRun
<1>3. /\ Host!Settled(q) <=> Host!Settled(p)
      /\ Host!groupExists(q) <=> Host!groupExists(p)
  BY <1>2 DEF Host!Settled, Host!groupExists
<1>4. HGroup(q) /\ HTimer(q) /\ HAnswer(q) /\ HLive(q)
  BY <1>2, <1>3 DEF HGood, HGroup, HTimer, HAnswer, HLive
<1>5. HCause(q)
  BY <1>1, <1>2 DEF HGood, HCause
<1>6. HResult(q)
  <2>1. p.result.outcome # "success" /\ p.main # "none"
    BY <1>0, SettledMeans DEF HLive, HGood, HGroup
  <2> QED BY <1>2, <1>3, <2>1 DEF HGood, HResult
<1>7. HGood(Host!stop(q)) /\ HKept(q, Host!stop(q))
  BY <1>1, <1>2, <1>4, <1>5, <1>6, StopGood
<1> QED BY <1>1, <1>2, <1>3, <1>7 DEF HKept, HLive

LEMMA KeptChains ==
    ASSUME NEW p, NEW q, NEW s, HKept(p, q), HKept(q, s) PROVE HKept(p, s)
  BY DEF HKept, Host!Settled

\* A run with processes is settled or live.
LEMMA LiveOrSettled ==
    ASSUME NEW p, HGood(p), p.main # "none" PROVE HLive(p) \/ Host!Settled(p)
  BY DEF HGood, HRun, HGroup, HAnswer, HLive

\* The events of a child process are noted.
LEMMA EventGood ==
    ASSUME NEW p, HGood(p), p.main \in {"gone", "unspawned"}, NEW q,
           \/ q = [p EXCEPT !.exited = TRUE]
           \/ p.exited /\ q = [p EXCEPT !.closed = TRUE]
    PROVE  /\ HGood(q) /\ HKept(p, q) /\ q.code = p.code /\ q.main = p.main /\ q.outcome = p.outcome
           /\ Host!Settled(q) \/ HLive(q)
<1>0. p \in HRun
  BY DEF HGood
<1>1. /\ q \in HRun /\ q.state = p.state /\ q.main = p.main /\ q.code = p.code /\ q.child = p.child
      /\ q.outcome = p.outcome /\ q.timer = p.timer /\ q.result = p.result /\ q.answer = p.answer
      /\ q.files = p.files
  BY <1>0 DEF HRun
<1>2. HGroup(q)
  <2>1. CASE q = [p EXCEPT !.exited = TRUE]
    <3>1. q.closed = p.closed /\ q.exited = TRUE
      BY <1>0, <2>1 DEF HRun
    <3> QED BY <1>1, <3>1 DEF HGood, HGroup
  <2>2. CASE p.exited /\ q = [p EXCEPT !.closed = TRUE]
    <3>1. q.exited = p.exited /\ p.exited
      BY <1>0, <2>2 DEF HRun
    <3> QED BY <1>1, <3>1 DEF HGood, HGroup
  <2> QED BY <2>1, <2>2
<1>3. /\ Host!Settled(q) <=> Host!Settled(p)
      /\ Host!groupExists(q) <=> Host!groupExists(p)
  BY <1>1 DEF Host!Settled, Host!groupExists
<1>4. HTimer(q) /\ HCause(q) /\ HDeadline(q)
  BY <1>1, <1>3 DEF HGood, HTimer, HCause, HDeadline
<1>5. HResult(q) /\ HAnswer(q)
  BY <1>1, <1>3 DEF HGood, HResult, HAnswer
<1>6. HGood(q)
  BY <1>1, <1>2, <1>4, <1>5 DEF HGood
<1>7. HKept(p, q)
  BY <1>1, <1>3 DEF HKept, HLive
<1> QED BY <1>1, <1>6, <1>7, LiveOrSettled

LEMMA TimedIsLive ==
    ASSUME NEW p, HGood(p), p.timer # "none" PROVE HLive(p)
  BY DEF HGood, HTimer, HLive

\* The deadline, the events and the polls of the supervisor.
LEMMA SupervisorSteps ==
    ASSUME NEW r \in Runs, HGood(run[r]),
           \/ Host!DeadlineFires(r) \/ Host!OnError(r) \/ Host!OnExit(r) \/ Host!OnClose(r)
           \/ Host!Poll(r) \/ Host!Escalate(r) \/ Host!FinalWait(r)
    PROVE  \E q : HGood(q) /\ HKept(run[r], q) /\ Host!Set(r, q)
<1> DEFINE p == run[r]
<1>0. p \in HRun /\ HGroup(p) /\ HCause(p) /\ HResult(p) /\ HAnswer(p) /\ HDeadline(p)
  BY DEF HGood
<1>1. CASE Host!DeadlineFires(r)
  <2>1. p.timer = "deadline" /\ Host!Set(r, Host!stop([p EXCEPT !.outcome = "timeout"]))
    BY <1>0, <1>1 DEF Host!DeadlineFires, HRun
  <2>2. HLive(p) /\ p.outcome = "none"
    BY <1>0, <2>1, TimedIsLive DEF HDeadline
  <2>3. PICK q : q = [p EXCEPT !.outcome = "timeout"]
    OBVIOUS
  <2>4. Host!orElse(p.outcome, "timeout") = "timeout"
    BY <2>2 DEF Host!orElse
  <2>5. q = [p EXCEPT !.outcome = Host!orElse(p.outcome, "timeout")]
    BY <2>3, <2>4
  <2> HIDE DEF p
  <2>6. HGood(Host!stop(q)) /\ HKept(p, Host!stop(q))
    BY <2>2, <2>5, CauseGood DEF p
  <2> QED BY <2>1, <2>3, <2>6 DEF p
<1>2. ASSUME NEW cause \in Host!Outcomes \ {"none"}, cause = "success" => p.code = "zero",
             p.main \in {"gone", "unspawned"},
             LET s == [p EXCEPT !.exited = TRUE]
             IN  Host!Set(r, IF Host!Settled(s) THEN s
                             ELSE Host!stop([s EXCEPT !.outcome = Host!orElse(s.outcome, cause)]))
      PROVE  \E q : HGood(q) /\ HKept(run[r], q) /\ Host!Set(r, q)
  <2>1. PICK s : s = [p EXCEPT !.exited = TRUE]
    OBVIOUS
  <2>2. HGood(s) /\ HKept(p, s) /\ s.code = p.code /\ (Host!Settled(s) \/ HLive(s))
    BY <1>2, <2>1, EventGood
  <2>3. CASE Host!Settled(s)
    BY <1>2, <2>1, <2>2, <2>3
  <2>4. CASE ~Host!Settled(s)
    <3>1. PICK q : q = [s EXCEPT !.outcome = Host!orElse(s.outcome, cause)]
      OBVIOUS
    <3>2. HGood(Host!stop(q)) /\ HKept(s, Host!stop(q))
      BY <1>2, <2>2, <2>4, <3>1, CauseGood
    <3>3. HKept(p, Host!stop(q))
      BY <2>2, <3>2, KeptChains
    <3> QED BY <1>2, <2>1, <2>4, <3>1, <3>2, <3>3
  <2> QED BY <2>3, <2>4
<1>3. CASE Host!OnError(r)
  <2>1. p.main = "unspawned" /\ "spawn_error" \in Host!Outcomes \ {"none"}
    BY <1>3 DEF Host!OnError
  <2>2. LET s == [p EXCEPT !.exited = TRUE]
        IN  Host!Set(r, IF Host!Settled(s) THEN s
                        ELSE Host!stop([s EXCEPT !.outcome = Host!orElse(s.outcome, "spawn_error")]))
    BY <1>3 DEF Host!OnError
  <2> QED BY <1>2, <2>1, <2>2
<1>4. CASE Host!OnExit(r)
  <2>1. p.main = "gone" /\ p.code \in {"zero", "nonzero", "signal"}
    BY <1>0, <1>4 DEF Host!OnExit, HRun, HGroup
  <2>2. /\ Host!exitOutcome(p.code) \in Host!Outcomes \ {"none"}
        /\ Host!exitOutcome(p.code) = "success" => p.code = "zero"
    BY <2>1 DEF Host!exitOutcome
  <2>3. LET s == [p EXCEPT !.exited = TRUE]
        IN  s.code = p.code
    BY <1>0 DEF HRun
  <2>4. LET s == [p EXCEPT !.exited = TRUE]
        IN  Host!Set(r, IF Host!Settled(s) THEN s
                        ELSE Host!stop([s EXCEPT !.outcome = Host!orElse(s.outcome, Host!exitOutcome(p.code))]))
    BY <1>4, <2>3 DEF Host!OnExit
  <2> QED BY <1>2, <2>1, <2>2, <2>4
<1>5. CASE Host!OnClose(r)
  <2>1. PICK s : s = [p EXCEPT !.closed = TRUE]
    OBVIOUS
  <2>2. /\ p.exited /\ p.main \in {"gone", "unspawned"}
        /\ Host!Set(r, IF Host!checkStopped(s) /\ ~Host!Settled(s) THEN Host!finish(s, "complete") ELSE s)
    BY <1>0, <1>5, <2>1 DEF Host!OnClose, HGroup
  <2>3. HGood(s) /\ HKept(p, s) /\ (Host!Settled(s) \/ HLive(s))
    BY <2>1, <2>2, EventGood
  <2>4. CASE Host!checkStopped(s) /\ ~Host!Settled(s)
    <3>1. ~Host!groupExists(s) /\ HLive(s)
      BY <2>3, <2>4 DEF Host!checkStopped
    <3>2. HGood(Host!finish(s, "complete")) /\ HKept(s, Host!finish(s, "complete"))
      BY <2>3, <3>1, FinishGood DEF HGood
    <3>3. HKept(p, Host!finish(s, "complete"))
      BY <2>3, <3>2, KeptChains
    <3> QED BY <2>2, <2>4, <3>2, <3>3
  <2>5. CASE ~(Host!checkStopped(s) /\ ~Host!Settled(s))
    BY <2>2, <2>3, <2>5
  <2> QED BY <2>4, <2>5
<1>6. ASSUME NEW cleanup \in {"complete", "unconfirmed"}, cleanup = "complete" => Host!checkStopped(p),
             p.timer # "none", Host!Set(r, Host!finish(p, cleanup))
      PROVE  \E q : HGood(q) /\ HKept(run[r], q) /\ Host!Set(r, q)
  <2>1. HLive(p) /\ (cleanup = "complete" => ~Host!groupExists(p))
    BY <1>6, TimedIsLive DEF Host!checkStopped
  <2>2. HGood(Host!finish(p, cleanup)) /\ HKept(p, Host!finish(p, cleanup))
    BY <1>0, <2>1, FinishGood
  <2> QED BY <1>6, <2>2
<1>7. CASE Host!Poll(r)
  <2>1. Host!checkStopped(p) /\ p.timer # "none" /\ Host!Set(r, Host!finish(p, "complete"))
    BY <1>7 DEF Host!Poll
  <2> QED BY <1>6, <2>1
<1>8. CASE Host!FinalWait(r)
  <2>1. /\ p.timer # "none"
        /\ Host!Set(r, Host!finish(p, IF Host!checkStopped(p) THEN "complete" ELSE "unconfirmed"))
    BY <1>8 DEF Host!FinalWait
  <2> QED BY <1>6, <2>1
<1>9. CASE Host!Escalate(r)
  <2>1. /\ p.timer = "grace"
        /\ Host!Set(r, IF Host!checkStopped(p) THEN Host!finish(p, "complete") ELSE [p EXCEPT !.timer = "kill"])
    BY <1>0, <1>9 DEF Host!Escalate, Host!lastWait, HRun
  <2>2. CASE Host!checkStopped(p)
    BY <1>6, <2>1, <2>2
  <2>3. CASE ~Host!checkStopped(p)
    <3>1. PICK q : q = [p EXCEPT !.timer = "kill"]
      OBVIOUS
    <3>2. HLive(p)
      BY <2>1, TimedIsLive
    <3>3. /\ q \in HRun /\ q.state = p.state /\ q.main = p.main /\ q.code = p.code /\ q.child = p.child
          /\ q.exited = p.exited /\ q.closed = p.closed /\ q.outcome = p.outcome /\ q.timer = "kill"
          /\ q.result = p.result /\ q.answer = p.answer /\ q.files = p.files
      BY <1>0, <3>1 DEF HRun
    <3>4. /\ Host!Settled(q) <=> Host!Settled(p)
          /\ Host!groupExists(q) <=> Host!groupExists(p)
      BY <3>3 DEF Host!Settled, Host!groupExists
    <3>5. HGroup(q) /\ HTimer(q) /\ HCause(q) /\ HDeadline(q)
      BY <1>0, <3>2, <3>3, <3>4 DEF HGroup, HTimer, HCause, HDeadline, HLive
    <3>6. HResult(q) /\ HAnswer(q) /\ HKept(p, q)
      BY <1>0, <3>3, <3>4 DEF HResult, HAnswer, HKept, HLive
    <3> QED BY <2>1, <2>3, <3>1, <3>3, <3>5, <3>6 DEF HGood
  <2> QED BY <2>2, <2>3
<1> QED BY <1>1, <1>3, <1>4, <1>5, <1>7, <1>8, <1>9

\* The executor, before a host is started or after it is settled.
LEMMA ExecutorMoves ==
    ASSUME NEW p, HGood(p), ~HLive(p), NEW state \in {"input", "read", "cleanup", "done"},
           NEW files \in SUBSET (Host!HostFiles \cup {"input"}), NEW answer \in {"none", "error", "result"},
           state = "input" => p.main = "none",
           p.state \in {"idle", "input"} \/ Host!Settled(p) \/ p.main = "none",
           state = "read" \/ answer = "result" => p.result.outcome = "success",
           state = "done" => files = {},
           NEW q, q = [p EXCEPT !.state = state, !.files = files, !.answer = answer]
    PROVE  HGood(q) /\ HKept(p, q)
<1>0. p \in HRun
  BY DEF HGood
<1>1. /\ q \in HRun /\ q.state = state /\ q.main = p.main /\ q.code = p.code /\ q.child = p.child
      /\ q.exited = p.exited /\ q.closed = p.closed /\ q.outcome = p.outcome /\ q.timer = p.timer
      /\ q.result = p.result /\ q.answer = answer /\ q.files = files
  <2>1. q \in HRun
    <3>1. PICK s \in HRun : s = [p EXCEPT !.state = state]
      BY <1>0 DEF HRun
    <3>2. PICK t \in HRun : t = [s EXCEPT !.files = files]
      BY DEF HRun
    <3>3. [t EXCEPT !.answer = answer] \in HRun
      BY DEF HRun
    <3>4. q = [t EXCEPT !.answer = answer]
      BY <3>1, <3>2
    <3> QED BY <3>3, <3>4
  <2>2. /\ q.state = state /\ q.main = p.main /\ q.code = p.code /\ q.child = p.child
        /\ q.exited = p.exited /\ q.closed = p.closed /\ q.outcome = p.outcome
    BY <1>0 DEF HRun
  <2>3. q.timer = p.timer /\ q.result = p.result /\ q.answer = answer /\ q.files = files
    BY <1>0 DEF HRun
  <2> QED BY <2>1, <2>2, <2>3
<1>2. /\ Host!Settled(q) <=> Host!Settled(p)
      /\ Host!groupExists(q) <=> Host!groupExists(p)
  BY <1>1 DEF Host!Settled, Host!groupExists
<1>3. HGroup(q)
  BY <1>1 DEF HGood, HGroup
<1>4. HTimer(q) /\ HCause(q) /\ HDeadline(q)
  BY <1>1, <1>2 DEF HGood, HTimer, HCause, HDeadline, HLive
<1>5. HResult(q)
  BY <1>1, <1>2 DEF HGood, HResult
<1>6. HAnswer(q)
  BY <1>1, <1>2 DEF HGood, HAnswer, HGroup
<1>7. HKept(p, q)
  BY <1>1, <1>2 DEF HKept, HLive
<1> QED BY <1>1, <1>3, <1>4, <1>5, <1>6, <1>7 DEF HGood

LEMMA ExecutorSteps ==
    ASSUME NEW r \in Runs, HGood(run[r]),
           \/ Host!executeZkVM(r) \/ Host!executeHost(r) \/ Host!readHostResult(r)
           \/ Host!cleanupHostArtifacts(r) \/ (shuttingDown /\ Host!runHostProcess(r))
    PROVE  \E q : HGood(q) /\ HKept(run[r], q) /\ Host!Set(r, q)
<1> DEFINE p == run[r]
           moved(state, files, answer) == [p EXCEPT !.state = state, !.files = files, !.answer = answer]
<1>0. p \in HRun /\ HGroup(p) /\ HResult(p) /\ HAnswer(p)
  BY DEF HGood
<1>2. p.files \in SUBSET (Host!HostFiles \cup {"input"}) /\ p.answer \in {"none", "error", "result"}
  BY <1>0 DEF HRun
<1>3. \A s, a : [p EXCEPT !.state = s, !.answer = a] = moved(s, p.files, a)
  BY <1>0 DEF HRun
<1>4. \A s, f : [p EXCEPT !.state = s, !.files = f] = moved(s, f, p.answer)
  BY <1>0 DEF HRun
<1>5. \A s : [p EXCEPT !.state = s] = moved(s, p.files, p.answer)
  BY <1>0 DEF HRun
<1>6. p.answer = "result" => p.result.outcome = "success"
  BY <1>0 DEF HAnswer
<1> HIDE DEF moved
<1>7. ASSUME ~HLive(p), NEW state \in {"input", "read", "cleanup", "done"},
             NEW files \in SUBSET (Host!HostFiles \cup {"input"}), NEW answer \in {"none", "error", "result"},
             state = "input" => p.main = "none",
             p.state \in {"idle", "input"} \/ Host!Settled(p) \/ p.main = "none",
             state = "read" \/ answer = "result" => p.result.outcome = "success",
             state = "done" => files = {}, Host!Set(r, moved(state, files, answer))
      PROVE  \E q : HGood(q) /\ HKept(run[r], q) /\ Host!Set(r, q)
  <2>1. PICK q : q = moved(state, files, answer)
    OBVIOUS
  <2>2. HGood(q) /\ HKept(p, q)
    BY <1>7, <2>1, ExecutorMoves DEF moved
  <2> QED BY <1>7, <2>1, <2>2
<1>8. CASE Host!executeZkVM(r)
  <2>1. p.state = "idle" /\ p.main = "none" /\ ~HLive(p)
    BY <1>0, <1>8 DEF Host!executeZkVM, HGroup, HLive
  <2>2. \/ Host!Set(r, moved("input", {"input"}, p.answer))
        \/ Host!Set(r, moved("cleanup", p.files, "error"))
    BY <1>3, <1>4, <1>8 DEF Host!executeZkVM
  <2>3. CASE Host!Set(r, moved("input", {"input"}, p.answer))
    BY <1>2, <1>6, <1>7, <2>1, <2>3
  <2>4. CASE Host!Set(r, moved("cleanup", p.files, "error"))
    BY <1>2, <1>7, <2>1, <2>4
  <2> QED BY <2>2, <2>3, <2>4
<1>9. CASE Host!executeHost(r)
  <2>1. Host!Settled(p) /\ ~HLive(p)
    BY <1>9 DEF Host!executeHost, HLive
  <2>2. CASE Host!succeeded(p)
    <3>1. Host!Set(r, moved("read", p.files, p.answer))
      BY <1>5, <1>9, <2>2 DEF Host!executeHost
    <3> QED BY <1>2, <1>7, <2>1, <2>2, <3>1 DEF Host!succeeded
  <2>3. CASE ~Host!succeeded(p)
    <3>1. Host!Set(r, moved("cleanup", p.files, "error"))
      BY <1>3, <1>9, <2>3 DEF Host!executeHost
    <3> QED BY <1>2, <1>7, <2>1, <3>1
  <2> QED BY <2>2, <2>3
<1>10. CASE Host!readHostResult(r)
  <2>1. /\ Host!Settled(p) \/ p.main = "none"
        /\ ~HLive(p) /\ p.result.outcome = "success"
    BY <1>0, <1>10 DEF Host!readHostResult, HAnswer, HLive
  <2>2. Host!Set(r, moved("cleanup", p.files, "result")) \/ Host!Set(r, moved("cleanup", p.files, "error"))
    BY <1>3, <1>10 DEF Host!readHostResult
  <2> QED BY <1>2, <1>7, <2>1, <2>2
<1>11. CASE Host!cleanupHostArtifacts(r)
  <2>1. /\ Host!Settled(p) \/ p.main = "none"
        /\ ~HLive(p)
    BY <1>0, <1>11 DEF Host!cleanupHostArtifacts, HAnswer, HLive
  <2>2. Host!Set(r, moved("done", {}, p.answer))
    BY <1>4, <1>11 DEF Host!cleanupHostArtifacts, Host!removed
  <2> QED BY <1>2, <1>6, <1>7, <2>1, <2>2
<1>12. CASE shuttingDown /\ Host!runHostProcess(r)
  <2>1. p.state = "input" /\ p.main = "none" /\ ~HLive(p)
    BY <1>0, <1>12 DEF Host!runHostProcess, HGroup, HLive
  <2>2. Host!Set(r, moved("cleanup", p.files, "error"))
    BY <1>3, <1>12 DEF Host!runHostProcess, Host!refusesStart
  <2> QED BY <1>2, <1>7, <2>1, <2>2
<1> QED BY <1>8, <1>9, <1>10, <1>11, <1>12

\* A host is started for a run that had none.
LEMMA StartSteps ==
    ASSUME NEW r \in Runs, HGood(run[r]), ~shuttingDown, Host!runHostProcess(r)
    PROVE  \E q : /\ HGood(q) /\ q.outcome = run[r].outcome /\ q.result = run[r].result /\ Host!Set(r, q)
<1> DEFINE p == run[r]
<1>1. PICK main \in {"alive", "unspawned"} :
        p.state = "input" /\ Host!Set(r, [p EXCEPT !.state = "running", !.main = main, !.timer = "deadline"])
  BY DEF Host!runHostProcess, Host!refusesStart
<1>2. PICK q : q = [p EXCEPT !.state = "running", !.main = main, !.timer = "deadline"]
  OBVIOUS
<1>3. /\ p \in HRun /\ p.main = "none" /\ p.child = "none" /\ p.code = "none" /\ ~p.exited /\ ~p.closed
      /\ ~Host!Settled(p) /\ p.outcome = "none"
  BY <1>1 DEF HGood, HGroup, HResult
<1>4. /\ q \in HRun /\ q.state = "running" /\ q.main = main /\ q.code = p.code /\ q.child = p.child
      /\ q.exited = p.exited /\ q.closed = p.closed /\ q.outcome = p.outcome /\ q.timer = "deadline"
      /\ q.result = p.result /\ q.answer = p.answer /\ q.files = p.files
  BY <1>2, <1>3 DEF HRun
<1>5. ~Host!Settled(q) /\ q.result.outcome = "none" /\ q.result.cleanup = "none"
  BY <1>3, <1>4, SettledMeans DEF Host!Settled
<1>6. HGroup(q) /\ HTimer(q) /\ HCause(q) /\ HDeadline(q)
  BY <1>3, <1>4, <1>5 DEF HGroup, HTimer, HCause, HDeadline
<1>7. HResult(q)
  BY <1>4, <1>5 DEF HResult
<1>8. HAnswer(q)
  <2>1. p.answer # "result"
    BY <1>4, <1>5 DEF HGood, HAnswer
  <2> QED BY <1>4, <2>1 DEF HAnswer
<1> QED BY <1>1, <1>2, <1>4, <1>6, <1>7, <1>8 DEF HGood

\* One run moves, and the server's own variables do not.
LEMMA RunMoves ==
    ASSUME HInv, NEW r \in Runs, NEW q, HGood(q), Host!Set(r, q),
           run[r].outcome # "none" => q.outcome = run[r].outcome,
           Host!Settled(run[r]) => q.result = run[r].result,
           shuttingDown => (HLive(q) => HLive(run[r]))
    PROVE  HInv' /\ Host!FirstCauseKept
<1>1. /\ run' \in [Runs -> HRun] /\ run'[r] = q /\ \A s \in Runs : s # r => run'[s] = run[s]
      /\ UNCHANGED <<shuttingDown, stopped, exitCode>>
  BY DEF HInv, HGood, Host!Set
<1>2. \A s \in Runs : HGood(run'[s])
  BY <1>1 DEF HInv
<1>3. \A s \in Runs : Host!Settled(run[s]) => run'[s].result = run[s].result /\ Host!Settled(run'[s])
  BY <1>1 DEF Host!Settled
<1>4. shuttingDown => \A s \in Runs : HLive(run'[s]) => s \in stopped
  BY <1>1 DEF HInv
<1>5. exitCode # "none" => shuttingDown /\ \A s \in stopped : Host!Settled(run'[s])
  BY <1>3 DEF HInv
<1>6. exitCode = "clean" => \A s \in stopped : run'[s].result.cleanup = "complete"
  BY <1>3 DEF HInv
<1>7. Host!FirstCauseKept
  BY <1>1 DEF Host!FirstCauseKept
<1> QED BY <1>1, <1>2, <1>4, <1>5, <1>6, <1>7 DEF HInv

\* A shutdown gives every live run its cause and waits for those runs.
LEMMA ShutdownStep ==
    ASSUME HInv, Host!shutdownHostProcesses PROVE HInv' /\ Host!FirstCauseKept
<1> DEFINE caused(r) == [run[r] EXCEPT !.outcome = Host!orElse(run[r].outcome, "interrupted")]
<1>1. /\ ~shuttingDown /\ shuttingDown' = TRUE /\ stopped' = Host!Active /\ exitCode' = exitCode
      /\ run' = [r \in Runs |-> IF r \in Host!Active THEN Host!stop(caused(r)) ELSE run[r]]
  BY DEF Host!shutdownHostProcesses
<1>2. \A r \in Runs : r \in Host!Active <=> HLive(run[r])
  BY DEF Host!Active, HLive
<1>3. ASSUME NEW r \in Runs
      PROVE  HGood(run'[r]) /\ HKept(run[r], run'[r])
  <2>1. HGood(run[r])
    BY DEF HInv
  <2>2. CASE HLive(run[r])
    <3>1. PICK q : q = caused(r)
      OBVIOUS
    <3>2. HGood(Host!stop(q)) /\ HKept(run[r], Host!stop(q))
      BY <2>1, <2>2, <3>1, CauseGood
    <3> QED BY <1>1, <1>2, <2>2, <3>1, <3>2
  <2>3. CASE ~HLive(run[r])
    <3>1. run'[r] = run[r]
      BY <1>1, <1>2, <2>3
    <3> QED BY <2>1, <3>1 DEF HKept
  <2> QED BY <2>2, <2>3
<1>4. run' \in [Runs -> HRun]
  <2>1. \A r \in Runs : run'[r] \in HRun
    BY <1>3 DEF HGood
  <2>2. run' = [r \in Runs |-> run'[r]]
    BY <1>1
  <2> QED BY <2>1, <2>2
<1>5. \A r \in Runs : HLive(run'[r]) => r \in stopped'
  BY <1>1, <1>2, <1>3 DEF HKept
<1>6. exitCode = "none" /\ exitCode' = "none" /\ stopped' \subseteq Runs
  BY <1>1 DEF HInv, Host!Active
<1>7. Host!FirstCauseKept
  BY <1>3 DEF Host!FirstCauseKept, HKept
<1> QED BY <1>3, <1>4, <1>5, <1>6, <1>7 DEF HInv

\* The server exits when the runs it waits for are settled.
LEMMA ExitStep ==
    ASSUME HInv, Host!installStaticServerShutdown PROVE HInv' /\ Host!FirstCauseKept
<1>1. /\ shuttingDown /\ \A r \in stopped : Host!Settled(run[r])
      /\ exitCode' = IF \A r \in stopped : run[r].result.cleanup = "complete" THEN "clean" ELSE "failed"
      /\ UNCHANGED <<run, shuttingDown, stopped>>
  BY DEF Host!installStaticServerShutdown
<1>2. Host!FirstCauseKept
  BY <1>1 DEF Host!FirstCauseKept
<1> QED BY <1>1, <1>2 DEF HInv

LEMMA HStep ==
    ASSUME ExitCodes \subseteq {"zero", "nonzero", "signal"}, HInv, Host!Next
    PROVE  HInv' /\ Host!FirstCauseKept
<1>1. ASSUME NEW r \in Runs,
             \/ Host!HostWrites(r) \/ Host!HostForks(r) \/ Host!HostExits(r) \/ Host!ChildExits(r)
             \/ Host!executeZkVM(r) \/ Host!OnClose(r) \/ Host!Supervisor(r)
      PROVE  HInv' /\ Host!FirstCauseKept
  <2>1. HGood(run[r])
    BY DEF HInv
  <2>2. ASSUME \E q : HGood(q) /\ HKept(run[r], q) /\ Host!Set(r, q)
        PROVE  HInv' /\ Host!FirstCauseKept
    BY <2>2, RunMoves DEF HKept
  <2>3. CASE Host!runHostProcess(r) /\ ~shuttingDown
    <3>1. PICK q : /\ HGood(q) /\ q.outcome = run[r].outcome /\ q.result = run[r].result /\ Host!Set(r, q)
      BY <2>1, <2>3, StartSteps
    <3> QED BY <2>3, <3>1, RunMoves
  <2>4. CASE Host!HostWrites(r) \/ Host!HostForks(r) \/ Host!HostExits(r) \/ Host!ChildExits(r)
    BY <2>1, <2>2, <2>4, GroupSteps
  <2>5. CASE \/ Host!DeadlineFires(r) \/ Host!OnError(r) \/ Host!OnExit(r) \/ Host!OnClose(r)
             \/ Host!Poll(r) \/ Host!Escalate(r) \/ Host!FinalWait(r)
    BY <2>1, <2>2, <2>5, SupervisorSteps
  <2>6. CASE Host!runHostProcess(r) /\ shuttingDown
    BY <2>1, <2>2, <2>6, ExecutorSteps
  <2>7. CASE Host!executeZkVM(r) \/ Host!executeHost(r) \/ Host!readHostResult(r) \/ Host!cleanupHostArtifacts(r)
    BY <2>1, <2>2, <2>7, ExecutorSteps
  <2>8. CASE Host!Supervisor(r)
    BY <2>3, <2>5, <2>6, <2>7, <2>8 DEF Host!Supervisor
  <2> QED BY <1>1, <2>4, <2>5, <2>7, <2>8
<1> QED BY <1>1, ShutdownStep, ExitStep DEF Host!Next

LEMMA HStart == ASSUME Host!Init PROVE HInv
<1> DEFINE p == [state |-> "idle", main |-> "none", code |-> "none", child |-> "none", exited |-> FALSE,
                 closed |-> FALSE, outcome |-> "none", timer |-> "none", result |-> Host!NoResult,
                 files |-> {}, answer |-> "none"]
<1>1. run = [r \in Runs |-> p] /\ shuttingDown = FALSE /\ stopped = {} /\ exitCode = "none"
  BY DEF Host!Init
<1>2. p \in HRun
  BY DEF HRun, Host!NoResult
<1>3. /\ p.state = "idle" /\ p.main = "none" /\ p.code = "none" /\ p.child = "none" /\ ~p.exited /\ ~p.closed
      /\ p.outcome = "none" /\ p.timer = "none" /\ p.result = Host!NoResult /\ p.files = {} /\ p.answer = "none"
  OBVIOUS
<1> HIDE DEF p
<1>4. ~Host!Settled(p) /\ p.result.outcome = "none" /\ p.result.cleanup = "none"
  BY <1>3 DEF Host!Settled, Host!NoResult
<1>5. HGroup(p) /\ HTimer(p) /\ HCause(p) /\ HDeadline(p) /\ HAnswer(p)
  BY <1>3, <1>4 DEF HGroup, HTimer, HCause, HDeadline, HAnswer
<1>6. HResult(p)
  BY <1>3, <1>4 DEF HResult
<1>7. HGood(p)
  BY <1>2, <1>5, <1>6 DEF HGood
<1> QED BY <1>1, <1>2, <1>7 DEF HInv

LEMMA HSafe ==
    ASSUME HInv
    PROVE  /\ Host!TypeOK /\ Host!SuccessIsWhole /\ Host!ResultWasWritten /\ Host!CompleteIsGone
           /\ Host!NothingLeftOnDisk /\ Host!ShutdownLeavesNone
<1>1. ASSUME NEW r \in Runs
      PROVE  HGood(run[r])
  BY DEF HInv
<1>2. Host!SuccessIsWhole
  BY <1>1 DEF Host!SuccessIsWhole, HGood, HResult, HCause
<1>3. Host!ResultWasWritten
  BY <1>1 DEF Host!ResultWasWritten, HGood, HAnswer, HResult, HCause
<1>4. Host!CompleteIsGone
  BY <1>1 DEF Host!CompleteIsGone, HGood, HResult
<1>5. Host!NothingLeftOnDisk
  BY <1>1 DEF Host!NothingLeftOnDisk, HGood, HAnswer
<1>6. Host!ShutdownLeavesNone
  <2> SUFFICES ASSUME exitCode = "clean", NEW r \in Runs, Host!groupExists(run[r])
               PROVE  r \notin stopped /\ run[r].result.cleanup = "unconfirmed"
    BY DEF Host!ShutdownLeavesNone
  <2>1. run[r].main # "none" /\ run[r].result.cleanup # "complete"
    BY <1>1 DEF HGood, HGroup, HResult, Host!groupExists
  <2>2. r \notin stopped
    BY <2>1 DEF HInv
  <2>3. ~HLive(run[r])
    BY <2>2 DEF HInv
  <2>4. Host!Settled(run[r])
    BY <1>1, <2>1, <2>3, LiveOrSettled
  <2> QED BY <1>1, <2>1, <2>2, <2>4 DEF HGood, HResult
<1>7. Host!TypeOK
  <2>1. ASSUME NEW r \in Runs
        PROVE  /\ run[r].state \in {"idle", "input", "running", "read", "cleanup", "done"}
               /\ run[r].outcome \in Host!Outcomes
               /\ run[r].timer \in {"none", "deadline", "grace", "kill"}
               /\ run[r].files \subseteq Host!HostFiles \cup {"input"}
    BY <1>1 DEF HGood, HRun
  <2>2. ASSUME NEW r \in Runs
        PROVE  /\ Host!groupExists(run[r]) => run[r].state \notin {"idle", "input"}
               /\ run[r].timer = "none" <=> run[r].state # "running" \/ Host!Settled(run[r])
    BY <1>1 DEF HGood, HGroup, HTimer, Host!groupExists
  <2> QED BY <2>1, <2>2 DEF Host!TypeOK, HInv
<1> QED BY <1>2, <1>3, <1>4, <1>5, <1>6, <1>7

\* However many executions a server has and whatever their processes do: a success
\* is a host that ended by itself and whole, a result was written by one, a cleanup
\* called complete has left no process, an ended execution leaves no votes on disk,
\* and a clean exit of the server leaves no host (finish, checkStopped,
\* readHostResult, cleanupHostArtifacts, shutdownHostProcesses).
THEOREM HostsAreSupervised ==
    ASSUME ExitCodes \subseteq {"zero", "nonzero", "signal"}
    PROVE  Host!Spec => []( /\ Host!TypeOK /\ Host!SuccessIsWhole /\ Host!ResultWasWritten
                            /\ Host!CompleteIsGone /\ Host!NothingLeftOnDisk /\ Host!ShutdownLeavesNone)
<1>1. Host!Init => HInv
  BY HStart
<1>2. HInv /\ [Host!Next]_(Host!vars) => HInv'
  <2>1. HInv /\ Host!Next => HInv'
    BY HStep
  <2>2. HInv /\ UNCHANGED Host!vars => HInv'
    BY DEF HInv, Host!vars
  <2> QED BY <2>1, <2>2
<1>3. HInv => /\ Host!TypeOK /\ Host!SuccessIsWhole /\ Host!ResultWasWritten /\ Host!CompleteIsGone
              /\ Host!NothingLeftOnDisk /\ Host!ShutdownLeavesNone
  BY HSafe
<1> QED BY <1>1, <1>2, <1>3, PTL DEF Host!Spec

\* The first cause of a stop is the one reported, in every order of the deadline, the
\* exit, the error and the shutdown (stop clears the deadline, orElse keeps the cause).
THEOREM FirstCauseIsKept ==
    ASSUME ExitCodes \subseteq {"zero", "nonzero", "signal"}
    PROVE  Host!Spec => [][Host!FirstCauseKept]_(Host!vars)
<1>1. Host!Init => HInv
  BY HStart
<1>2. HInv /\ [Host!Next]_(Host!vars) => HInv' /\ [Host!FirstCauseKept]_(Host!vars)
  <2>1. HInv /\ Host!Next => HInv' /\ Host!FirstCauseKept
    BY HStep
  <2>2. HInv /\ UNCHANGED Host!vars => HInv'
    BY DEF HInv, Host!vars
  <2> QED BY <2>1, <2>2
<1> QED BY <1>1, <1>2, PTL DEF Host!Spec

-----------------------------------------------------------------------------
(* The operations ledger. *)

USE DEF Ops!Alarm, Ops!Job, Ops!Pipeline, Ops!Accepted

\* What the module says of its constants; None is none of their values.
OConstants ==
    /\ Ops!OpsLedgerConstants /\ MaxFaults \in Nat /\ MaxTime \in Nat
    /\ None \notin Executions /\ None # "whole" /\ None # "prefix"
    /\ \A t, c : [timestamp |-> t, event |-> c] # None

OTypes == {"alarm_state_changed", "prover_job_finished", "pipeline_execution_changed", "deployment_accepted"}

OStates == States \cup Ops!JobStates \cup {"ALARM", "OK", "INSUFFICIENT_DATA", "ACCEPTED"}

OEvents ==
    [type : OTypes, env : {"own", "other"}, own : BOOLEAN, dep : {"whole", "prefix", None},
     exec : Executions \cup {None}, state : OStates, ts : Nat]

ORecords == [timestamp : Nat, event : OEvents]

OCalls ==
    [phase : {"idle", "start", "stream", "put", "recorded", "dropped"}, of : Nat, left : 0 .. MaxAttempts,
     parsed : ORecords \cup {None}]

\* An event as its service sends it, at a time that has come.
OEvent(e, time) ==
    /\ e \in OEvents /\ e.ts <= time + Skew
    /\ e.type = "alarm_state_changed" =>
         e.dep = None /\ e.exec = None /\ e.state \in {"ALARM", "OK", "INSUFFICIENT_DATA"}
    /\ e.type = "prover_job_finished" => e.dep \in {"whole", "prefix", None} /\ e.exec = None
    /\ e.type = "pipeline_execution_changed" => e.dep = None /\ e.exec \in Executions
    /\ e.type = "deployment_accepted" => e.dep = "whole" /\ e.exec \in Executions /\ e.state = "ACCEPTED"

\* What an event may be refused for.
OUnfit(e, time) == e.dep = "prefix" \/ e.ts < time - MaxAge

\* A call is of an event that a rule matches and holds the record of it; unless the
\* event is unfit, the attempts it has used were lost to faults.
OCall(c) ==
    /\ c \in OCalls
    /\ c.phase # "idle" => c.of \in DOMAIN events /\ Ops!matches(events[c.of])
    /\ c.phase \in {"start", "stream", "put"} => c.left >= 1
    /\ c.phase = "dropped" => c.left = 0
    /\ c.phase \in {"stream", "put"} => c.parsed = Ops!normalizedLedgerEvent(Ops!transform(events[c.of]))
    /\ c.phase = "put" => stream
    /\ c.phase = "recorded" => \E k \in DOMAIN log : log[k].event = Ops!transform(events[c.of])
    /\ c.phase # "idle" => OUnfit(events[c.of], now) \/ MaxAttempts - c.left <= faults

\* An entry of the stream is the record of an event that a rule matches.
OEntry(r) ==
    \E i \in DOMAIN events :
      Ops!matches(events[i]) /\ r = Ops!normalizedLedgerEvent(Ops!transform(events[i]))

OInv ==
    /\ now \in 0 .. MaxTime /\ faults \in 0 .. MaxFaults /\ stream \in BOOLEAN
    /\ events \in Seq(OEvents) /\ log \in Seq(ORecords)
    /\ \A i \in DOMAIN events : OEvent(events[i], now)
    /\ calls \in [Deliveries -> OCalls] /\ \A d \in Deliveries : OCall(calls[d])
    /\ \A k \in DOMAIN log : OEntry(log[k])
    /\ log # <<>> => stream

\* What no step takes back.
OGrowth ==
    /\ \A i \in DOMAIN events : i \in DOMAIN events' /\ events'[i] = events[i]
    /\ \A k \in DOMAIN log : k \in DOMAIN log' /\ log'[k] = log[k]
    /\ stream => stream'
    /\ now' \in Nat /\ now <= now' /\ faults' \in Nat /\ faults <= faults'

LEMMA OKept ==
    ASSUME OConstants, OInv, OGrowth
    PROVE  /\ \A i \in DOMAIN events : OEvent(events[i], now')
           /\ \A c : OCall(c) => OCall(c)'
           /\ \A k \in DOMAIN log : OEntry(log[k])'
<1>1. now \in Nat /\ now' \in Nat /\ faults \in Nat /\ faults' \in Nat /\ now <= now' /\ faults <= faults'
  BY DEF OInv, OGrowth
<1>2. MaxAge \in Nat /\ Skew \in Nat /\ MaxAttempts \in Nat
  BY DEF OConstants, Ops!OpsLedgerConstants
<1>3. \A i \in DOMAIN events : events[i].ts \in Nat
  BY DEF OInv, OEvent, OEvents
<1>4. \A i \in DOMAIN events : OEvent(events[i], now')
  BY <1>1, <1>2, <1>3 DEF OInv, OEvent
<1>5. ASSUME NEW c, OCall(c) PROVE OCall(c)'
  <2>1. c \in OCalls
    BY <1>5 DEF OCall
  <2>2. ASSUME c.phase # "idle"
        PROVE  /\ c.of \in DOMAIN events /\ c.of \in DOMAIN events' /\ events'[c.of] = events[c.of]
               /\ OUnfit(events[c.of], now') \/ MaxAttempts - c.left <= faults'
    <3>1. c.of \in DOMAIN events /\ (OUnfit(events[c.of], now) \/ MaxAttempts - c.left <= faults)
      BY <1>5, <2>2 DEF OCall
    <3>2. c.left \in Int /\ events[c.of].ts \in Nat
      BY <1>3, <2>1, <3>1 DEF OCalls
    <3> QED BY <1>1, <1>2, <3>1, <3>2 DEF OUnfit, OGrowth
  <2>3. c.phase = "recorded" => \E k \in DOMAIN log' : log'[k].event = Ops!transform(events[c.of])
    BY <1>5 DEF OCall, OGrowth
  <2> QED BY <1>5, <2>1, <2>2, <2>3 DEF OCall, OGrowth
<1>6. \A k \in DOMAIN log : OEntry(log[k])'
  <2> SUFFICES ASSUME NEW k \in DOMAIN log PROVE OEntry(log[k])'
    OBVIOUS
  <2>1. PICK i \in DOMAIN events :
          Ops!matches(events[i]) /\ log[k] = Ops!normalizedLedgerEvent(Ops!transform(events[i]))
    BY DEF OInv, OEntry
  <2>2. i \in DOMAIN events' /\ events'[i] = events[i] /\ log'[k] = log[k]
    BY DEF OGrowth
  <2> QED BY <2>1, <2>2 DEF OEntry
<1> QED BY <1>4, <1>5, <1>6

\* A record is one, and never None.
LEMMA RecordTyped ==
    ASSUME OConstants, NEW e \in OEvents
    PROVE  /\ Ops!transform(e) \in OEvents
           /\ Ops!normalizedLedgerEvent(Ops!transform(e)) \in ORecords
           /\ Ops!normalizedLedgerEvent(Ops!transform(e)) # None
           /\ Ops!normalizedLedgerEvent(Ops!transform(e)).event = Ops!transform(e)
           /\ Ops!normalizedLedgerEvent(Ops!transform(e)).timestamp = e.ts
<1>1. Ops!transform(e) \in OEvents /\ Ops!transform(e).ts = e.ts
  BY DEF Ops!transform, OEvents, OTypes
<1>2. e.ts \in Nat
  BY DEF OEvents
<1> QED BY <1>1, <1>2 DEF Ops!normalizedLedgerEvent, ORecords, OConstants

\* The handler refuses what a rule matched for its deployment id or its age only.
LEMMA RulesAgree ==
    ASSUME OConstants, now \in Nat, NEW e, OEvent(e, now), Ops!matches(e)
    PROVE  LET parsed == Ops!parseOpsLedgerEvent(Ops!transform(e))
           IN  /\ parsed = None => OUnfit(e, now)
               /\ parsed # None => parsed = Ops!normalizedLedgerEvent(Ops!transform(e))
<1> DEFINE c == Ops!transform(e)
<1>1. e \in OEvents /\ e.type \in OTypes /\ e.ts \in Nat /\ MaxAge \in Nat /\ Skew \in Nat
  BY DEF OEvent, OEvents, OConstants, Ops!OpsLedgerConstants
<1>2. /\ c.type = e.type /\ c.env = "own" /\ c.own = e.own /\ c.state = e.state /\ c.ts = e.ts
      /\ c.dep = IF e.type \in {"prover_job_finished", "deployment_accepted"} THEN e.dep ELSE None
      /\ c.exec = IF e.type \in {"pipeline_execution_changed", "deployment_accepted"} THEN e.exec ELSE None
  BY DEF Ops!transform
<1> HIDE DEF c
<1>3. /\ e.type = "prover_job_finished" => e.dep # None /\ e.state \in Ops!JobStates
      /\ e.type = "alarm_state_changed" => e.own
      /\ e.type = "pipeline_execution_changed" => e.own /\ e.state \in Ops!PIPELINE_STATES
  BY DEF Ops!matches
<1>4. Ops!hasExactKeys(c)
  BY <1>1, <1>2, <1>3 DEF Ops!hasExactKeys, Ops!needsDeploymentId, Ops!needsPipelineExecutionId, OEvent, OConstants, OTypes
<1>5. Ops!ledgerSourceRule(c)
  BY <1>1, <1>2, <1>3 DEF Ops!ledgerSourceRule, OEvent, OTypes
<1>6. ~OUnfit(e, now) => Ops!isRetainedLedgerTimestamp(c.ts)
  BY <1>1, <1>2 DEF OUnfit, Ops!isRetainedLedgerTimestamp, OEvent
<1>7. ~OUnfit(e, now) => Ops!hasValidLedgerCorrelations(c)
  BY <1>1, <1>2, <1>3 DEF OUnfit, Ops!hasValidLedgerCorrelations, Ops!needsDeploymentId, OEvent, OTypes
<1>8. Ops!normalizedLedgerEvent(c) # None
  BY <1>1, RecordTyped DEF c
<1> QED BY <1>2, <1>4, <1>5, <1>6, <1>7, <1>8 DEF Ops!parseOpsLedgerEvent, c

\* One call moves.
LEMMA CallMoves ==
    ASSUME OConstants, OInv, OGrowth, NEW d \in Deliveries, NEW c, c \in OCalls, OCall(c)',
           calls' = [calls EXCEPT ![d] = c], UNCHANGED <<now, events>>,
           faults' \in 0 .. MaxFaults, stream' \in BOOLEAN, log' \in Seq(ORecords), log' # <<>> => stream',
           \A k \in DOMAIN log' : k \in DOMAIN log \/ OEntry(log[k])'
    PROVE  OInv'
<1>1. /\ calls' \in [Deliveries -> OCalls] /\ calls'[d] = c
      /\ \A b \in Deliveries : b # d => calls'[b] = calls[b]
  BY DEF OInv
<1>2. \A b \in Deliveries : OCall(calls[b])'
  <2> SUFFICES ASSUME NEW b \in Deliveries PROVE OCall(calls[b])'
    OBVIOUS
  <2>1. CASE b = d
    BY <1>1, <2>1 DEF OCall
  <2>2. CASE b # d
    <3>1. PICK a : a = calls[b]
      OBVIOUS
    <3>2. OCall(a)'
      BY <3>1, OKept DEF OInv
    <3>3. calls'[b] = a
      BY <1>1, <2>2, <3>1
    <3> QED BY <3>2, <3>3 DEF OCall
  <2> QED BY <2>1, <2>2
<1>3. \A k \in DOMAIN log' : OEntry(log[k])'
  <2> SUFFICES ASSUME NEW k \in DOMAIN log' PROVE OEntry(log[k])'
    OBVIOUS
  <2>1. CASE k \in DOMAIN log
    <3>1. OEntry(log[k])'
      BY <2>1, OKept
    <3> QED BY <3>1
  <2> QED BY <2>1
<1> QED BY <1>1, <1>2, <1>3 DEF OInv

\* Something happens, or time passes.
LEMMA WorldMoves ==
    ASSUME OConstants, OInv, UNCHANGED <<calls, stream, log, faults>>,
           now' \in 0 .. MaxTime, now <= now',
           \/ UNCHANGED events
           \/ \E e : OEvent(e, now) /\ events' = Append(events, e)
    PROVE  OInv'
<1>1. now \in Nat /\ now' \in Nat /\ faults \in Nat /\ Skew \in Nat /\ events \in Seq(OEvents)
  BY DEF OInv, OConstants, Ops!OpsLedgerConstants
<1>2. OGrowth
  BY <1>1 DEF OGrowth, OEvent
<1>3. events' \in Seq(OEvents) /\ \A i \in DOMAIN events' : OEvent(events'[i], now')
  <2>1. CASE UNCHANGED events
    BY <1>1, <1>2, <2>1, OKept
  <2>2. ASSUME NEW e, OEvent(e, now), events' = Append(events, e)
        PROVE  events' \in Seq(OEvents) /\ \A i \in DOMAIN events' : OEvent(events'[i], now')
    <3>1. e \in OEvents /\ e.ts \in Nat
      BY <2>2 DEF OEvent, OEvents
    <3>2. OEvent(e, now')
      BY <1>1, <2>2, <3>1 DEF OEvent
    <3>3. /\ DOMAIN events' = 1 .. Len(events) + 1 /\ DOMAIN events = 1 .. Len(events) /\ Len(events) \in Nat
          /\ events'[Len(events) + 1] = e /\ \A i \in 1 .. Len(events) : events'[i] = events[i]
      BY <1>1, <2>2, <3>1
    <3>4. events' \in Seq(OEvents)
      BY <1>1, <2>2, <3>1
    <3>5. \A i \in DOMAIN events' : i = Len(events) + 1 \/ i \in DOMAIN events
      BY <3>3
    <3>6. \A i \in DOMAIN events : OEvent(events[i], now')
      BY <1>2, OKept
    <3> QED BY <3>2, <3>3, <3>4, <3>5, <3>6
  <2> QED BY <2>1, <2>2
<1>4. \A d \in Deliveries : OCall(calls[d])'
  <2> SUFFICES ASSUME NEW d \in Deliveries PROVE OCall(calls[d])'
    OBVIOUS
  <2>1. PICK c : c = calls[d]
    OBVIOUS
  <2>2. OCall(c)' /\ calls'[d] = c
    BY <1>2, <2>1, OKept DEF OInv
  <2> QED BY <2>2 DEF OCall
<1>5. \A k \in DOMAIN log' : OEntry(log[k])'
  BY <1>2, OKept
<1> QED BY <1>3, <1>4, <1>5 DEF OInv

LEMMA WorldSteps ==
    ASSUME OConstants, OInv,
           Ops!PipelineChanges \/ Ops!DeploymentAccepted \/ Ops!JobFinishes \/ Ops!AlarmChanges \/ Ops!Tick
    PROVE  OInv'
<1>1. now \in Nat /\ now \in 0 .. MaxTime /\ Skew \in Nat /\ MaxTime \in Nat /\ Owned \subseteq BOOLEAN
  BY DEF OInv, OConstants, Ops!OpsLedgerConstants
<1>2. ASSUME NEW e, OEvent(e, now), Ops!happens(e) PROVE OInv'
  <2>1. events' = Append(events, e) /\ UNCHANGED <<now, calls, stream, log, faults>>
    BY <1>2 DEF Ops!happens
  <2> QED BY <1>1, <1>2, <2>1, WorldMoves
<1>3. CASE Ops!PipelineChanges
  <2>1. PICK x \in Executions, s \in States, own \in Owned :
          Ops!happens(Ops!Event("pipeline_execution_changed", "own", own, None, x, s, now))
    BY <1>3 DEF Ops!PipelineChanges
  <2>2. OEvent(Ops!Event("pipeline_execution_changed", "own", own, None, x, s, now), now)
    BY <1>1 DEF OEvent, OEvents, OTypes, OStates, Ops!Event
  <2> QED BY <1>2, <2>1, <2>2
<1>4. CASE Ops!DeploymentAccepted
  <2>1. PICK x \in Executions, env \in {"own", "other"}, ahead \in 0 .. Skew :
          Ops!happens(Ops!Event("deployment_accepted", env, TRUE, "whole", x, "ACCEPTED", now + ahead))
    BY <1>4 DEF Ops!DeploymentAccepted
  <2>2. OEvent(Ops!Event("deployment_accepted", env, TRUE, "whole", x, "ACCEPTED", now + ahead), now)
    BY <1>1 DEF OEvent, OEvents, OTypes, OStates, Ops!Event
  <2> QED BY <1>2, <2>1, <2>2
<1>5. CASE Ops!JobFinishes
  <2>1. PICK own \in Owned, dep \in {"whole", "prefix", None}, s \in Ops!JobStates :
          Ops!happens(Ops!Event("prover_job_finished", "own", own, dep, None, s, now))
    BY <1>5 DEF Ops!JobFinishes
  <2>2. OEvent(Ops!Event("prover_job_finished", "own", own, dep, None, s, now), now)
    BY <1>1 DEF OEvent, OEvents, OTypes, OStates, Ops!Event
  <2> QED BY <1>2, <2>1, <2>2
<1>6. CASE Ops!AlarmChanges
  <2>1. PICK own \in Owned, s \in {"ALARM", "OK", "INSUFFICIENT_DATA"} :
          Ops!happens(Ops!Event("alarm_state_changed", "own", own, None, None, s, now))
    BY <1>6 DEF Ops!AlarmChanges
  <2>2. OEvent(Ops!Event("alarm_state_changed", "own", own, None, None, s, now), now)
    BY <1>1 DEF OEvent, OEvents, OTypes, OStates, Ops!Event
  <2> QED BY <1>2, <2>1, <2>2
<1>7. CASE Ops!Tick
  <2>1. now' \in 0 .. MaxTime /\ now <= now' /\ UNCHANGED <<events, calls, stream, log, faults>>
    BY <1>1, <1>7 DEF Ops!Tick
  <2> QED BY <2>1, WorldMoves
<1> QED BY <1>3, <1>4, <1>5, <1>6, <1>7

\* An attempt that was lost to a fault, or that the event did not deserve.
LEMMA ThrownGood ==
    ASSUME OConstants, OInv, OGrowth, UNCHANGED <<now, events>>, NEW d \in Deliveries,
           calls[d].phase \in {"start", "stream", "put"},
           OUnfit(events[calls[d].of], now) \/ faults' = faults + 1
    PROVE  Ops!thrown(d) \in OCalls /\ \A c : c = Ops!thrown(d) => OCall(c)'
<1> DEFINE old == calls[d]
           new == Ops!thrown(d)
<1>1. OCall(old) /\ old \in OCalls /\ MaxAttempts \in Nat /\ faults \in Nat
  BY DEF OInv, OCall, OConstants, Ops!OpsLedgerConstants
<1>2. old.left \in Int /\ old.left >= 1 /\ old.left <= MaxAttempts
  BY <1>1 DEF OCall, OCalls
<1>3. /\ new \in OCalls /\ new.of = old.of
      /\ \/ old.left = 1 /\ new.phase = "dropped" /\ new.left = 0
         \/ old.left # 1 /\ new.phase = "start" /\ new.left = old.left - 1
  <2>1. CASE old.left = 1
    <3>1. new = [old EXCEPT !.phase = "dropped", !.left = 0, !.parsed = None]
      BY <2>1 DEF Ops!thrown
    <3>2. 0 \in 0 .. MaxAttempts
      BY <1>1
    <3> HIDE DEF new, old
    <3> QED BY <1>1, <2>1, <3>1, <3>2 DEF OCalls
  <2>2. CASE old.left # 1
    <3>1. new = [old EXCEPT !.phase = "start", !.left = old.left - 1, !.parsed = None]
      BY <2>2 DEF Ops!thrown
    <3>2. old.left - 1 \in 0 .. MaxAttempts
      BY <1>1, <1>2
    <3> QED BY <1>1, <2>2, <3>1, <3>2 DEF OCalls
  <2> QED BY <2>1, <2>2
<1>4. /\ old.of \in DOMAIN events /\ Ops!matches(events[old.of])
      /\ OUnfit(events[old.of], now) \/ MaxAttempts - old.left <= faults
  BY <1>1 DEF OCall
<1> HIDE DEF new, old
<1>5. OUnfit(events[old.of], now) \/ MaxAttempts - new.left <= faults'
  BY <1>1, <1>2, <1>3, <1>4 DEF old
<1>6. ASSUME NEW c, c = new PROVE OCall(c)'
  <2>1. /\ c \in OCalls /\ c.phase \in {"start", "dropped"} /\ c.of = old.of
        /\ c.phase = "start" => c.left >= 1
        /\ c.phase = "dropped" => c.left = 0
    BY <1>2, <1>3, <1>6
  <2>2. OUnfit(events'[c.of], now') \/ MaxAttempts - c.left <= faults'
    BY <1>5, <1>6, <2>1
  <2>3. c.of \in DOMAIN events' /\ Ops!matches(events'[c.of])
    BY <1>4, <2>1
  <2> QED BY <2>1, <2>2, <2>3 DEF OCall
<1> QED BY <1>3, <1>6 DEF new

LEMMA DeliverStep ==
    ASSUME OConstants, OInv, NEW d \in Deliveries, Ops!Deliver(d) PROVE OInv'
<1>1. PICK i \in DOMAIN events :
        /\ Ops!matches(events[i])
        /\ calls' = [calls EXCEPT ![d] = [phase |-> "start", of |-> i, left |-> MaxAttempts, parsed |-> None]]
        /\ UNCHANGED <<now, events, stream, log, faults>>
  BY DEF Ops!Deliver
<1>2. PICK c : c = [phase |-> "start", of |-> i, left |-> MaxAttempts, parsed |-> None]
  OBVIOUS
<1>3. MaxAttempts \in Nat /\ MaxAttempts >= 1 /\ i \in Nat /\ faults \in Nat /\ faults \in 0 .. MaxFaults
  BY DEF OInv, OConstants, Ops!OpsLedgerConstants
<1>4. c \in OCalls /\ c.phase = "start" /\ c.of = i /\ c.left = MaxAttempts
  BY <1>2, <1>3 DEF OCalls
<1>5. OGrowth
  BY <1>1 DEF OInv, OGrowth
<1>6. OCall(c)'
  BY <1>1, <1>3, <1>4 DEF OCall
<1> QED BY <1>1, <1>2, <1>4, <1>5, <1>6, CallMoves DEF OInv

LEMMA HandleStep ==
    ASSUME OConstants, OInv, NEW d \in Deliveries, Ops!Handle(d) PROVE OInv'
<1> DEFINE e == events[calls[d].of]
           parsed == Ops!parseOpsLedgerEvent(Ops!transform(e))
<1>1. /\ calls[d].phase = "start"
      /\ calls' = [calls EXCEPT ![d] = IF parsed = None THEN Ops!thrown(d)
                                       ELSE [calls[d] EXCEPT !.phase = "stream", !.parsed = parsed]]
      /\ UNCHANGED <<now, events, stream, log, faults>>
  BY DEF Ops!Handle
<1>2. OGrowth
  BY <1>1 DEF OInv, OGrowth
<1>3. OCall(calls[d]) /\ calls[d] \in OCalls /\ now \in Nat
  BY DEF OInv
<1>4. calls[d].of \in DOMAIN events /\ Ops!matches(e) /\ OEvent(e, now) /\ e \in OEvents
  BY <1>1, <1>3 DEF OInv, OCall, OEvent
<1>5. /\ parsed = None => OUnfit(e, now)
      /\ parsed # None => parsed = Ops!normalizedLedgerEvent(Ops!transform(e))
  BY <1>3, <1>4, RulesAgree
<1> HIDE DEF parsed
<1>6. CASE parsed = None
  <2>1. PICK c : c = Ops!thrown(d)
    OBVIOUS
  <2>2. c \in OCalls /\ OCall(c)'
    BY <1>1, <1>2, <1>5, <1>6, <2>1, ThrownGood
  <2>3. calls' = [calls EXCEPT ![d] = c]
    BY <1>1, <1>6, <2>1
  <2> QED BY <1>1, <1>2, <2>2, <2>3, CallMoves DEF OInv
<1>7. CASE parsed # None
  <2>1. PICK c : c = [calls[d] EXCEPT !.phase = "stream", !.parsed = parsed]
    OBVIOUS
  <2>2. parsed \in ORecords
    BY <1>4, <1>5, <1>7, RecordTyped
  <2>3. c \in OCalls /\ c.phase = "stream" /\ c.of = calls[d].of /\ c.left = calls[d].left /\ c.parsed = parsed
    BY <1>3, <2>1, <2>2 DEF OCalls
  <2>4. OCall(c)'
    BY <1>1, <1>3, <1>5, <1>7, <2>3 DEF OCall
  <2>5. calls' = [calls EXCEPT ![d] = c]
    BY <1>1, <1>7, <2>1
  <2> QED BY <1>1, <1>2, <2>3, <2>4, <2>5, CallMoves DEF OInv
<1> QED BY <1>6, <1>7

LEMMA CreateStep ==
    ASSUME OConstants, OInv, NEW d \in Deliveries, Ops!CreateLogStream(d) PROVE OInv'
<1>1. /\ calls[d].phase = "stream" /\ stream' = TRUE
      /\ calls' = [calls EXCEPT ![d] = [calls[d] EXCEPT !.phase = "put"]]
      /\ UNCHANGED <<now, events, log, faults>>
  BY DEF Ops!CreateLogStream
<1>2. OGrowth
  BY <1>1 DEF OInv, OGrowth
<1>3. OCall(calls[d]) /\ calls[d] \in OCalls
  BY DEF OInv
<1>4. PICK c : c = [calls[d] EXCEPT !.phase = "put"]
  OBVIOUS
<1>5. /\ c \in OCalls /\ c.phase = "put" /\ c.of = calls[d].of /\ c.left = calls[d].left
      /\ c.parsed = calls[d].parsed
  BY <1>3, <1>4 DEF OCalls
<1>6. OCall(c)'
  BY <1>1, <1>3, <1>5 DEF OCall
<1> QED BY <1>1, <1>2, <1>4, <1>5, <1>6, CallMoves DEF OInv

\* An entry is added by a call that is about to write it.
LEMMA EntryAdded ==
    ASSUME OInv, NEW d \in Deliveries, calls[d].phase = "put", UNCHANGED <<now, events>>,
           log' = Append(log, calls[d].parsed), OConstants
    PROVE  /\ log' \in Seq(ORecords) /\ stream
           /\ \A k \in DOMAIN log : k \in DOMAIN log' /\ log'[k] = log[k]
           /\ \A k \in DOMAIN log' : k \in DOMAIN log \/ OEntry(log[k])'
           /\ \E k \in DOMAIN log' : log'[k].event = Ops!transform(events[calls[d].of])
<1> DEFINE e == events[calls[d].of]
           r == calls[d].parsed
<1>1. OCall(calls[d]) /\ log \in Seq(ORecords)
  BY DEF OInv
<1>2. /\ calls[d].of \in DOMAIN events /\ Ops!matches(e) /\ e \in OEvents /\ stream
      /\ r = Ops!normalizedLedgerEvent(Ops!transform(e))
  BY <1>1 DEF OCall, OInv, OEvent
<1>3. r \in ORecords /\ r.event = Ops!transform(e)
  BY <1>2, RecordTyped
<1>4. /\ log' \in Seq(ORecords) /\ Len(log) \in Nat
      /\ DOMAIN log' = 1 .. Len(log) + 1 /\ DOMAIN log = 1 .. Len(log)
      /\ log'[Len(log) + 1] = r /\ \A k \in 1 .. Len(log) : log'[k] = log[k]
  BY <1>1, <1>3
<1>5. \A k \in DOMAIN log' : k \in DOMAIN log \/ k = Len(log) + 1
  BY <1>4
<1>6. \A k : k = Len(log) + 1 => OEntry(log[k])'
  BY <1>2, <1>4 DEF OEntry
<1>7. \E k \in DOMAIN log' : log'[k].event = Ops!transform(e)
  BY <1>3, <1>4
<1> QED BY <1>2, <1>4, <1>5, <1>6, <1>7

LEMMA PutStep ==
    ASSUME OConstants, OInv, NEW d \in Deliveries, Ops!PutLogEvents(d) PROVE OInv'
<1>1. /\ calls[d].phase = "put" /\ log' = Append(log, calls[d].parsed)
      /\ calls' = [calls EXCEPT ![d] = [calls[d] EXCEPT !.phase = "recorded"]]
      /\ UNCHANGED <<now, events, stream, faults>>
  BY DEF Ops!PutLogEvents
<1>2. /\ log' \in Seq(ORecords) /\ stream
      /\ \A k \in DOMAIN log : k \in DOMAIN log' /\ log'[k] = log[k]
      /\ \A k \in DOMAIN log' : k \in DOMAIN log \/ OEntry(log[k])'
      /\ \E k \in DOMAIN log' : log'[k].event = Ops!transform(events[calls[d].of])
  BY <1>1, EntryAdded
<1>3. OGrowth
  BY <1>1, <1>2 DEF OInv, OGrowth
<1>4. OCall(calls[d]) /\ calls[d] \in OCalls
  BY DEF OInv
<1>5. PICK c : c = [calls[d] EXCEPT !.phase = "recorded"]
  OBVIOUS
<1>6. c \in OCalls /\ c.phase = "recorded" /\ c.of = calls[d].of /\ c.left = calls[d].left
  BY <1>4, <1>5 DEF OCalls
<1>7. OCall(c)'
  BY <1>1, <1>2, <1>4, <1>6 DEF OCall
<1> QED BY <1>1, <1>2, <1>3, <1>5, <1>6, <1>7, CallMoves DEF OInv

LEMMA FaultSteps ==
    ASSUME OConstants, OInv, NEW d \in Deliveries, Ops!Fails(d) \/ Ops!Rejected(d) PROVE OInv'
<1>1. /\ faults < MaxFaults /\ faults' = faults + 1 /\ calls[d].phase \in {"start", "stream", "put"}
      /\ calls' = [calls EXCEPT ![d] = Ops!thrown(d)] /\ UNCHANGED <<now, events>>
      /\ stream' = stream \/ stream' = TRUE
      /\ log' = log \/ (calls[d].phase = "put" /\ log' = Append(log, calls[d].parsed) /\ stream' = stream)
  BY DEF Ops!Fails, Ops!Rejected
<1>2. faults' \in 0 .. MaxFaults /\ faults <= faults' /\ faults' \in Nat /\ now \in Nat
  BY <1>1 DEF OInv, OConstants
<1>3. /\ log' \in Seq(ORecords) /\ (log' # <<>> => stream') /\ stream' \in BOOLEAN /\ (stream => stream')
      /\ \A k \in DOMAIN log : k \in DOMAIN log' /\ log'[k] = log[k]
      /\ \A k \in DOMAIN log' : k \in DOMAIN log \/ OEntry(log[k])'
  <2>1. CASE log' = log
    <3>1. stream \in BOOLEAN /\ (log # <<>> => stream) /\ log \in Seq(ORecords)
      BY DEF OInv
    <3>2. CASE stream' = TRUE
      BY <2>1, <3>1, <3>2
    <3>3. CASE stream' = stream
      BY <2>1, <3>1, <3>3
    <3> QED BY <1>1, <3>2, <3>3
  <2>2. CASE calls[d].phase = "put" /\ log' = Append(log, calls[d].parsed) /\ stream' = stream
    <3>1. /\ log' \in Seq(ORecords) /\ stream
          /\ \A k \in DOMAIN log : k \in DOMAIN log' /\ log'[k] = log[k]
          /\ \A k \in DOMAIN log' : k \in DOMAIN log \/ OEntry(log[k])'
      BY <1>1, <2>2, EntryAdded
    <3> QED BY <2>2, <3>1 DEF OInv
  <2> QED BY <1>1, <2>1, <2>2
<1>4. OGrowth
  BY <1>1, <1>2, <1>3 DEF OGrowth
<1>5. PICK c : c = Ops!thrown(d)
  OBVIOUS
<1>6. c \in OCalls /\ OCall(c)'
  BY <1>1, <1>4, <1>5, ThrownGood
<1> QED BY <1>1, <1>2, <1>3, <1>4, <1>5, <1>6, CallMoves

LEMMA OStart == ASSUME OConstants, Ops!Init PROVE OInv
<1>1. /\ now = 0 /\ events = <<>> /\ calls = [d \in Deliveries |-> Ops!Idle] /\ stream = FALSE
      /\ log = <<>> /\ faults = 0
  BY DEF Ops!Init
<1>2. Ops!Idle \in OCalls /\ Ops!Idle.phase = "idle"
  BY DEF Ops!Idle, OCalls, OConstants, Ops!OpsLedgerConstants
<1>3. \A d \in Deliveries : OCall(calls[d])
  BY <1>1, <1>2 DEF OCall
<1>4. now \in 0 .. MaxTime /\ faults \in 0 .. MaxFaults
  BY <1>1 DEF OConstants
<1>5. events \in Seq(OEvents) /\ log \in Seq(ORecords) /\ DOMAIN events = {} /\ DOMAIN log = {}
  BY <1>1
<1>6. stream \in BOOLEAN /\ calls \in [Deliveries -> OCalls]
  BY <1>1, <1>2
<1> QED BY <1>1, <1>3, <1>4, <1>5, <1>6 DEF OInv

LEMMA OStep == ASSUME OConstants, OInv, [Ops!Next]_(Ops!vars) PROVE OInv'
<1>1. CASE Ops!Next
  <2>1. CASE Ops!PipelineChanges \/ Ops!DeploymentAccepted \/ Ops!JobFinishes \/ Ops!AlarmChanges \/ Ops!Tick
    BY <2>1, WorldSteps
  <2>2. ASSUME NEW d \in Deliveries,
               \/ Ops!Deliver(d) \/ Ops!Handle(d) \/ Ops!CreateLogStream(d)
               \/ Ops!PutLogEvents(d) \/ Ops!Fails(d) \/ Ops!Rejected(d)
        PROVE  OInv'
    BY <2>2, DeliverStep, HandleStep, CreateStep, PutStep, FaultSteps
  <2> QED BY <1>1, <2>1, <2>2 DEF Ops!Next
<1>2. CASE UNCHANGED Ops!vars
  BY <1>2 DEF Ops!vars, OInv, OCall, OEntry
<1> QED BY <1>1, <1>2

\* For any events, deliveries, attempts, retention and clock skew: an invocation that
\* answered "recorded" has its record in the stream, every entry is the record of an
\* event of this environment under the time it happened, and an invocation is dropped
\* only for its deployment id or its age, as long as fewer requests fail than an
\* invocation has attempts (parseOpsLedgerEvent and the patterns of the rules).
THEOREM LedgerRecordsEvents ==
    ASSUME OConstants
    PROVE  Ops!Spec => [](Ops!TypeOK /\ Ops!ToldRecordedIsStored /\ Ops!RecordedIsTrue /\ Ops!DroppedIsUnfit)
<1>1. Ops!Init => OInv
  BY OStart
<1>2. OInv /\ [Ops!Next]_(Ops!vars) => OInv'
  BY OStep
<1>3. ASSUME OInv
      PROVE  Ops!TypeOK /\ Ops!ToldRecordedIsStored /\ Ops!RecordedIsTrue /\ Ops!DroppedIsUnfit
  <2>1. \A d \in Deliveries : OCall(calls[d]) /\ calls[d] \in OCalls
    BY <1>3 DEF OInv
  <2>2. Ops!ToldRecordedIsStored
    BY <2>1 DEF Ops!ToldRecordedIsStored, OCall
  <2>3. ASSUME NEW k \in DOMAIN log
        PROVE  /\ log[k] # None
               /\ \E i \in DOMAIN events : /\ Ops!matches(events[i]) /\ log[k].event = Ops!transform(events[i])
                                           /\ log[k].timestamp = events[i].ts
    <3>1. PICK i \in DOMAIN events :
            Ops!matches(events[i]) /\ log[k] = Ops!normalizedLedgerEvent(Ops!transform(events[i]))
      BY <1>3 DEF OInv, OEntry
    <3>2. events[i] \in OEvents
      BY <1>3 DEF OInv, OEvent
    <3> QED BY <3>1, <3>2, RecordTyped
  <2>4. Ops!RecordedIsTrue
    BY <2>3 DEF Ops!RecordedIsTrue
  <2>5. Ops!DroppedIsUnfit
    <3> SUFFICES ASSUME NEW d \in Deliveries, calls[d].phase = "dropped"
                 PROVE  OUnfit(events[calls[d].of], now)
      BY DEF Ops!DroppedIsUnfit, OUnfit
    <3>1. calls[d].left = 0 /\ (OUnfit(events[calls[d].of], now) \/ MaxAttempts - calls[d].left <= faults)
      BY <2>1 DEF OCall
    <3>2. MaxAttempts \in Nat /\ MaxFaults \in Nat /\ faults \in Nat /\ faults <= MaxFaults /\ MaxFaults < MaxAttempts
      BY <1>3 DEF OInv, OConstants, Ops!OpsLedgerConstants
    <3> QED BY <3>1, <3>2
  <2>6. ASSUME NEW d \in Deliveries
        PROVE  /\ calls[d].phase \in {"idle", "start", "stream", "put", "recorded", "dropped"}
               /\ calls[d].left \in 0 .. MaxAttempts
               /\ calls[d].phase \in {"stream", "put"} => calls[d].parsed # None
    <3>1. ASSUME calls[d].phase \in {"stream", "put"} PROVE calls[d].parsed # None
      <4>1. /\ calls[d].of \in DOMAIN events
            /\ calls[d].parsed = Ops!normalizedLedgerEvent(Ops!transform(events[calls[d].of]))
        BY <2>1, <3>1 DEF OCall
      <4>2. events[calls[d].of] \in OEvents
        BY <1>3, <4>1 DEF OInv, OEvent
      <4> QED BY <4>1, <4>2, RecordTyped
    <3> QED BY <2>1, <3>1 DEF OCalls
  <2>7. Ops!TypeOK
    BY <1>3, <2>3, <2>6 DEF Ops!TypeOK, OInv
  <2> QED BY <2>2, <2>4, <2>5, <2>7
<1> QED BY <1>1, <1>2, <1>3, PTL DEF Ops!Spec

-----------------------------------------------------------------------------
(* The published status.  What an acceptance is told apart by is the       *)
(* execution that made it: clocks that date acceptances may agree or go    *)
(* backwards, and the order of the versions is the order of acceptance.    *)

SVersions == [exec : Execs, at : 1 .. MaxClock]

SDelivery == [phase : {"idle", "started", "build", "checkpoint", "status", "checked", "done", "failed"},
              attempt : 0 .. MaxBuilds, checkpoint : Nat, status : Nat]

STyped ==
    /\ MaxBuilds \in Nat \ {0}
    /\ checkpoint \in Seq(SVersions)
    /\ status \in Seq(SVersions)
    /\ pipeline \in [Execs -> [state : {"InProgress", "Succeeded", "Failed"},
                               smoke : Seq({"Failed", "Succeeded"})]]
    /\ notice \in [Execs -> {"none", "sent", "delivered", "queued"}]
    /\ delivery \in [Published!Deliveries -> SDelivery]
    /\ alarm \in [Execs -> BOOLEAN]

\* An execution accepts once, and the statuses are acceptances in their order.
SHistory ==
    /\ \A v \in DOMAIN checkpoint : Published!Accepted(checkpoint[v].exec)
    /\ \A v, w \in DOMAIN checkpoint : checkpoint[v].exec = checkpoint[w].exec => v = w
    /\ \A i \in DOMAIN status : \E v \in DOMAIN checkpoint : checkpoint[v] = status[i]
    /\ \A i \in DOMAIN status : pipeline[status[i].exec].state = "Succeeded"
    /\ \A i, j \in DOMAIN status : \A v, w \in DOMAIN checkpoint :
         i < j /\ checkpoint[v] = status[i] /\ checkpoint[w] = status[j] => v < w

\* An event follows a success; it is on its way, in a delivery or alarmed.
SEvent(e) ==
    /\ notice[e] = "none" <=> pipeline[e].state # "Succeeded"
    /\ notice[e] = "queued" => alarm[e]
    /\ notice[e] = "delivered" => \E c \in 1 .. MaxCopies : delivery[<<e, c>>].phase # "idle"

\* What a delivery holds.  One that has rechecked its checkpoint is ahead of every
\* status, for as long as the status is the one it read.
SGood(d, r) ==
    /\ r.checkpoint \in 0 .. Len(checkpoint) /\ r.status \in 0 .. Len(status)
    /\ r.phase # "idle" => notice[d[1]] = "delivered"
    /\ r.phase = "failed" => alarm[d[1]]
    /\ r.phase \in {"checkpoint", "status", "checked"} =>
         r.checkpoint # 0 /\ checkpoint[r.checkpoint].exec = d[1]
    /\ r.phase \in {"status", "checked"} /\ r.status = Len(status) /\ r.status # 0 =>
         \/ status[r.status] = checkpoint[r.checkpoint]
         \/ status[r.status].at < checkpoint[r.checkpoint].at
    /\ r.phase = "checked" /\ r.status = Len(status) =>
         \A i \in DOMAIN status : \A v \in DOMAIN checkpoint :
           checkpoint[v] = status[i] => v < r.checkpoint
    /\ r.phase = "done" /\ Published!IsCurrent(d[1]) => Published!Shown

SInv ==
    /\ STyped /\ SHistory
    /\ \A e \in Execs : SEvent(e)
    /\ \A d \in Published!Deliveries : SGood(d, delivery[d])

LEMMA SElements ==
    ASSUME STyped
    PROVE  /\ Len(checkpoint) \in Nat /\ DOMAIN checkpoint = 1 .. Len(checkpoint)
           /\ Len(status) \in Nat /\ DOMAIN status = 1 .. Len(status)
           /\ \A v \in DOMAIN checkpoint : checkpoint[v] \in SVersions /\ checkpoint[v].exec \in Execs
           /\ \A i \in DOMAIN status : status[i] \in SVersions /\ status[i].exec \in Execs
<1>1. checkpoint \in Seq(SVersions) /\ status \in Seq(SVersions)
  BY DEF STyped
<1>2. /\ \A v \in DOMAIN checkpoint : checkpoint[v] \in SVersions
      /\ \A i \in DOMAIN status : status[i] \in SVersions
  BY <1>1
<1>3. \A x \in SVersions : x.exec \in Execs
  BY DEF SVersions
<1> QED BY <1>1, <1>2, <1>3

\* A step of one delivery that leaves the two documents alone.
LEMMA SDeliveryStep ==
    ASSUME SInv, NEW d \in Published!Deliveries, NEW r \in SDelivery,
           delivery' = [delivery EXCEPT ![d] = r],
           alarm' = alarm \/ alarm' = [alarm EXCEPT ![d[1]] = TRUE],
           UNCHANGED <<checkpoint, status, pipeline, notice>>,
           notice[d[1]] = "delivered", r.phase # "idle", SGood(d, r)'
    PROVE  SInv'
<1>1. d[1] \in Execs
  BY DEF Published!Deliveries
<1>2. STyped'
  BY <1>1 DEF SInv, STyped
<1>3. \A e \in Execs : alarm[e] => alarm'[e]
  BY <1>1 DEF SInv, STyped
<1>4. SHistory'
  BY DEF SInv, SHistory, Published!Accepted
<1>5. ASSUME NEW e \in Execs PROVE SEvent(e)'
  <2>1. ASSUME notice[e] = "delivered"
        PROVE  \E c \in 1 .. MaxCopies : delivery'[<<e, c>>].phase # "idle"
    <3>1. PICK c \in 1 .. MaxCopies : delivery[<<e, c>>].phase # "idle"
      BY <2>1 DEF SInv, SEvent
    <3>2. <<e, c>> \in Published!Deliveries
      BY DEF Published!Deliveries
    <3>3. delivery'[<<e, c>>].phase # "idle"
      BY <3>1, <3>2 DEF SInv, STyped
    <3> QED BY <3>3
  <2> QED BY <1>3, <2>1 DEF SInv, SEvent
<1>6. ASSUME NEW o \in Published!Deliveries PROVE SGood(o, delivery[o])'
  <2>1. CASE o = d
    BY <2>1 DEF SInv, STyped
  <2>2. CASE o # d
    <3>1. delivery'[o] = delivery[o] /\ o[1] \in Execs
      BY <2>2 DEF SInv, STyped, Published!Deliveries
    <3>2. SGood(o, delivery[o])
      BY DEF SInv
    <3> QED BY <1>3, <3>1, <3>2 DEF SGood, Published!IsCurrent, Published!Shown
  <2> QED BY <2>1, <2>2
<1> QED BY <1>2, <1>4, <1>5, <1>6 DEF SInv

\* What a delivery falls back to when its build fails holds nothing.
LEMMA SFail ==
    ASSUME SInv, NEW d \in Published!Deliveries, delivery[d].phase # "idle",
           Published!FailBuild(d), UNCHANGED <<checkpoint, pipeline, notice>>,
           Len(status') \in Nat
    PROVE  \E r \in SDelivery :
             /\ delivery' = [delivery EXCEPT ![d] = r]
             /\ alarm' = alarm \/ alarm' = [alarm EXCEPT ![d[1]] = TRUE]
             /\ notice[d[1]] = "delivered" /\ r.phase # "idle" /\ SGood(d, r)'
<1>1. /\ d[1] \in Execs /\ delivery[d] \in SDelivery /\ notice[d[1]] = "delivered"
      /\ MaxBuilds \in Nat \ {0} /\ Len(checkpoint) \in Nat
  BY DEF SInv, STyped, SGood, Published!Deliveries
<1>2. CASE delivery[d].attempt < MaxBuilds
  <2>0. PICK n \in 0 .. MaxBuilds : n = delivery[d].attempt + 1
    BY <1>1, <1>2 DEF SDelivery
  <2> DEFINE r == [phase |-> "build", attempt |-> n, checkpoint |-> 0, status |-> 0]
  <2>1. r \in SDelivery /\ r.phase = "build" /\ r.checkpoint = 0 /\ r.status = 0
    BY <2>0 DEF SDelivery
  <2>2. delivery' = [delivery EXCEPT ![d] = r] /\ alarm' = alarm
    BY <1>2, <2>0 DEF Published!FailBuild, Published!Idle
  <2> HIDE DEF r
  <2>3. SGood(d, r)'
    BY <1>1, <2>1 DEF SGood
  <2> QED BY <1>1, <2>1, <2>2, <2>3
<1>3. CASE ~(delivery[d].attempt < MaxBuilds)
  <2> DEFINE r == [phase |-> "failed", attempt |-> 0, checkpoint |-> 0, status |-> 0]
  <2>1. r \in SDelivery /\ r.phase = "failed" /\ r.checkpoint = 0 /\ r.status = 0
    BY <1>1 DEF SDelivery
  <2>2. delivery' = [delivery EXCEPT ![d] = r] /\ alarm' = [alarm EXCEPT ![d[1]] = TRUE]
    BY <1>3 DEF Published!FailBuild, Published!Idle
  <2> HIDE DEF r
  <2>3. alarm'[d[1]]
    BY <1>1, <2>2 DEF SInv, STyped
  <2>4. SGood(d, r)'
    BY <1>1, <2>1, <2>3 DEF SGood
  <2> QED BY <1>1, <2>1, <2>2, <2>4
<1> QED BY <1>2, <1>3

LEMMA SStart ==
    ASSUME Published!AppStatusConstants, Published!Init
    PROVE  SInv
<1>1. STyped
  BY DEF Published!AppStatusConstants, Published!Init, STyped, SDelivery, Published!Idle, Published!Deliveries
<1>2. SHistory
  BY DEF Published!Init, SHistory
<1>3. ASSUME NEW e \in Execs PROVE SEvent(e)
  BY DEF Published!Init, SEvent
<1>4. ASSUME NEW d \in Published!Deliveries PROVE SGood(d, delivery[d])
  BY DEF Published!Init, SGood, Published!Idle
<1> QED BY <1>1, <1>2, <1>3, <1>4 DEF SInv

\* The one Smoke action that succeeds accepts; the execution has no delivery yet.
LEMMA SSmoke ==
    ASSUME SInv, NEW e \in Execs, Published!Smoke(e)
    PROVE  SInv'
<1>1. STyped /\ SHistory /\ pipeline[e].state = "InProgress" /\ UNCHANGED <<status, notice, delivery, alarm>>
  BY DEF SInv, Published!Smoke
<1>2. /\ \/ /\ pipeline[e].smoke = <<>> /\ checkpoint' = checkpoint
            /\ pipeline' = [pipeline EXCEPT ![e].smoke = <<"Failed">>]
         \/ /\ pipeline[e].smoke \in {<<>>, <<"Failed">>}
            /\ \E at \in 1 .. MaxClock : checkpoint' = Append(checkpoint, [exec |-> e, at |-> at])
            /\ pipeline' = [pipeline EXCEPT ![e].smoke = Append(@, "Succeeded")]
  BY DEF Published!Smoke
<1>3. \A x \in Execs : pipeline'[x].state = pipeline[x].state
  BY <1>1, <1>2 DEF STyped
<1>4. ASSUME NEW x \in Execs PROVE SEvent(x)'
  BY <1>1, <1>3 DEF SInv, SEvent
<1>5. CASE checkpoint' = checkpoint /\ pipeline[e].smoke = <<>> /\ pipeline' = [pipeline EXCEPT ![e].smoke = <<"Failed">>]
  <2>1. STyped'
    <3>1. <<"Failed">> \in Seq({"Failed", "Succeeded"})
      OBVIOUS
    <3>2. pipeline' \in [Execs -> [state : {"InProgress", "Succeeded", "Failed"},
                                  smoke : Seq({"Failed", "Succeeded"})]]
      BY <1>1, <1>5, <3>1 DEF STyped
    <3> QED BY <1>1, <1>5, <3>2 DEF STyped
  <2>2. SHistory'
    <3>1. ~Published!Accepted(e)
      BY <1>5 DEF Published!Accepted
    <3>2. \A v \in DOMAIN checkpoint : checkpoint[v].exec \in Execs /\ checkpoint[v].exec # e
      BY <1>1, <3>1, SElements DEF SHistory
    <3>3. \A x \in Execs : x # e => pipeline'[x] = pipeline[x]
      BY <1>1, <1>5 DEF STyped
    <3>4. \A v \in DOMAIN checkpoint : Published!Accepted(checkpoint[v].exec)'
      BY <1>1, <1>5, <3>2, <3>3 DEF SHistory, Published!Accepted
    <3>5. \A i \in DOMAIN status : pipeline'[status[i].exec].state = "Succeeded"
      BY <1>1, <1>3, SElements DEF SHistory
    <3> QED BY <1>1, <1>5, <3>4, <3>5 DEF SHistory
  <2>3. ASSUME NEW d \in Published!Deliveries PROVE SGood(d, delivery[d])'
    BY <1>1, <1>5 DEF SInv, SGood, Published!IsCurrent, Published!Shown
  <2> QED BY <1>4, <2>1, <2>2, <2>3 DEF SInv
<1>6. ASSUME NEW at \in 1 .. MaxClock, checkpoint' = Append(checkpoint, [exec |-> e, at |-> at]),
             pipeline[e].smoke \in {<<>>, <<"Failed">>},
             pipeline' = [pipeline EXCEPT ![e].smoke = Append(@, "Succeeded")]
      PROVE  SInv'
  <2> DEFINE new == [exec |-> e, at |-> at]
  <2>1. new \in SVersions /\ checkpoint \in Seq(SVersions)
    BY <1>1 DEF SVersions, STyped
  <2>2. /\ checkpoint' \in Seq(SVersions) /\ Len(checkpoint') = Len(checkpoint) + 1 /\ Len(checkpoint) \in Nat
        /\ DOMAIN checkpoint = 1 .. Len(checkpoint) /\ DOMAIN checkpoint' = 1 .. Len(checkpoint) + 1
        /\ \A v \in DOMAIN checkpoint : checkpoint'[v] = checkpoint[v]
        /\ checkpoint'[Len(checkpoint) + 1] = new
    BY <1>6, <2>1
  <2>3. /\ pipeline[e].smoke \in Seq({"Failed", "Succeeded"}) /\ ~Published!Accepted(e)
        /\ pipeline'[e].smoke = Append(pipeline[e].smoke, "Succeeded")
    BY <1>1, <1>6 DEF STyped, Published!Accepted
  <2>4. /\ Published!Accepted(e)'
        /\ \A x \in Execs : x # e => pipeline'[x] = pipeline[x]
        /\ pipeline' \in [Execs -> [state : {"InProgress", "Succeeded", "Failed"},
                                    smoke : Seq({"Failed", "Succeeded"})]]
    <3>1. /\ Append(pipeline[e].smoke, "Succeeded") \in Seq({"Failed", "Succeeded"})
          /\ Len(pipeline[e].smoke) + 1 \in DOMAIN pipeline'[e].smoke
          /\ pipeline'[e].smoke[Len(pipeline[e].smoke) + 1] = "Succeeded"
      BY <2>3
    <3>2. Published!Accepted(e)'
      BY <3>1 DEF Published!Accepted
    <3> QED BY <1>1, <1>6, <3>1, <3>2 DEF STyped
  <2>5. STyped'
    BY <1>1, <2>2, <2>4 DEF STyped
  <2>6. \A v \in DOMAIN checkpoint : checkpoint[v].exec \in Execs /\ checkpoint[v].exec # e
    BY <1>1, <2>3, SElements DEF SHistory
  <2>7. \A i \in DOMAIN status : status[i].exec \in Execs /\ status[i].exec # e
    BY <1>1, SElements DEF SHistory
  <2>8. SHistory'
    <3>1. \A v \in DOMAIN checkpoint' : Published!Accepted(checkpoint[v].exec)'
      <4> SUFFICES ASSUME NEW v \in DOMAIN checkpoint' PROVE Published!Accepted(checkpoint[v].exec)'
        OBVIOUS
      <4>1. CASE v \in DOMAIN checkpoint
        BY <1>1, <2>2, <2>4, <2>6, <4>1 DEF SHistory, Published!Accepted
      <4>2. CASE v = Len(checkpoint) + 1
        BY <2>2, <2>4, <4>2 DEF Published!Accepted
      <4> QED BY <2>2, <4>1, <4>2
    <3>2. \A v, w \in DOMAIN checkpoint' : checkpoint'[v].exec = checkpoint'[w].exec => v = w
      BY <1>1, <2>2, <2>6 DEF SHistory
    <3>3. \A i \in DOMAIN status : \A v \in DOMAIN checkpoint' :
            checkpoint'[v] = status[i] => v \in DOMAIN checkpoint /\ checkpoint[v] = status[i]
      BY <2>2, <2>7
    <3>4. \A i \in DOMAIN status : \E v \in DOMAIN checkpoint' : checkpoint'[v] = status[i]
      BY <1>1, <2>2 DEF SHistory
    <3>5. \A i \in DOMAIN status : pipeline'[status[i].exec].state = "Succeeded"
      BY <1>1, <1>3, <2>7 DEF SHistory
    <3>6. \A i, j \in DOMAIN status : \A v, w \in DOMAIN checkpoint' :
            i < j /\ checkpoint'[v] = status[i] /\ checkpoint'[w] = status[j] => v < w
      BY <1>1, <3>3 DEF SHistory
    <3> QED BY <1>1, <3>1, <3>2, <3>4, <3>5, <3>6 DEF SHistory
  <2>9. ASSUME NEW d \in Published!Deliveries PROVE SGood(d, delivery[d])'
    <3>1. SGood(d, delivery[d]) /\ d[1] \in Execs /\ delivery[d] \in SDelivery /\ Len(status) \in Nat
      BY DEF SInv, STyped, Published!Deliveries
    <3>2. delivery[d].phase # "idle" => d[1] # e
      BY <1>1, <3>1 DEF SGood, SInv, SEvent
    <3>3. delivery[d].phase = "done" => ~Published!IsCurrent(d[1])'
      BY <2>2, <3>2 DEF Published!IsCurrent
    <3>4. \A i \in DOMAIN status : \A v \in DOMAIN checkpoint' :
            checkpoint'[v] = status[i] => v \in DOMAIN checkpoint /\ checkpoint[v] = status[i]
      BY <2>2, <2>7
    <3>5. delivery[d].checkpoint \in 0 .. Len(checkpoint) /\ delivery[d].checkpoint \in 0 .. Len(checkpoint')
      BY <2>2, <3>1 DEF SGood
    <3>6. delivery[d].checkpoint # 0 => checkpoint'[delivery[d].checkpoint] = checkpoint[delivery[d].checkpoint]
      BY <2>2, <3>5
    <3> QED BY <1>1, <3>1, <3>3, <3>4, <3>5, <3>6 DEF SGood
  <2> QED BY <1>4, <2>5, <2>8, <2>9 DEF SInv
<1> QED BY <1>2, <1>5, <1>6

LEMMA SEnd ==
    ASSUME SInv, NEW e \in Execs, Published!EndPipeline(e)
    PROVE  SInv'
<1>1. PICK s \in {"Succeeded", "Failed"} :
        /\ pipeline' = [pipeline EXCEPT ![e].state = s]
        /\ notice' = [notice EXCEPT ![e] = IF s = "Succeeded" THEN "sent" ELSE "none"]
  BY DEF Published!EndPipeline
<1>2. /\ STyped /\ SHistory /\ pipeline[e].state = "InProgress" /\ notice[e] = "none"
      /\ UNCHANGED <<checkpoint, status, delivery, alarm>>
  BY DEF SInv, SEvent, Published!EndPipeline
<1>3. STyped'
  BY <1>1, <1>2 DEF STyped
<1>4. /\ \A x \in Execs : pipeline'[x].smoke = pipeline[x].smoke
      /\ \A x \in Execs : x # e => pipeline'[x] = pipeline[x] /\ notice'[x] = notice[x]
      /\ pipeline'[e].state = s /\ notice'[e] = (IF s = "Succeeded" THEN "sent" ELSE "none")
  BY <1>1, <1>2 DEF STyped
<1>5. SHistory'
  <2>1. /\ \A v \in DOMAIN checkpoint : checkpoint[v].exec \in Execs
        /\ \A i \in DOMAIN status : status[i].exec \in Execs /\ status[i].exec # e
    BY <1>2, SElements DEF SHistory
  <2>2. \A i \in DOMAIN status : pipeline'[status[i].exec].state = "Succeeded"
    BY <1>2, <1>4, <2>1 DEF SHistory
  <2>3. \A v \in DOMAIN checkpoint : Published!Accepted(checkpoint[v].exec)'
    BY <1>2, <1>4, <2>1 DEF SHistory, Published!Accepted
  <2> QED BY <1>2, <2>2, <2>3 DEF SHistory
<1>6. ASSUME NEW x \in Execs PROVE SEvent(x)'
  BY <1>2, <1>4 DEF SInv, SEvent
<1>7. ASSUME NEW d \in Published!Deliveries PROVE SGood(d, delivery[d])'
  <2>1. SGood(d, delivery[d]) /\ d[1] \in Execs
    BY DEF SInv, Published!Deliveries
  <2>2. delivery[d].phase # "idle" => notice'[d[1]] = "delivered"
    BY <1>2, <1>4, <2>1 DEF SGood
  <2> QED BY <1>2, <2>1, <2>2 DEF SGood, Published!IsCurrent, Published!Shown
<1> QED BY <1>3, <1>5, <1>6, <1>7 DEF SInv

LEMMA SDeadLetter ==
    ASSUME SInv, NEW e \in Execs, Published!DeadLetter(e)
    PROVE  SInv'
<1>1. /\ STyped /\ SHistory /\ notice[e] = "sent" /\ notice' = [notice EXCEPT ![e] = "queued"]
      /\ alarm' = [alarm EXCEPT ![e] = TRUE] /\ UNCHANGED <<checkpoint, status, pipeline, delivery>>
  BY DEF SInv, Published!DeadLetter
<1>2. STyped'
  BY <1>1 DEF STyped
<1>3. /\ \A x \in Execs : x # e => notice'[x] = notice[x] /\ alarm'[x] = alarm[x]
      /\ notice'[e] = "queued" /\ alarm'[e]
  BY <1>1 DEF STyped
<1>4. ASSUME NEW x \in Execs PROVE SEvent(x)'
  BY <1>1, <1>3 DEF SInv, SEvent
<1>5. ASSUME NEW d \in Published!Deliveries PROVE SGood(d, delivery[d])'
  <2>1. SGood(d, delivery[d]) /\ d[1] \in Execs
    BY DEF SInv, Published!Deliveries
  <2>2. delivery[d].phase # "idle" => d[1] # e
    BY <1>1, <2>1 DEF SGood
  <2>3. delivery[d].phase # "idle" => notice'[d[1]] = notice[d[1]] /\ alarm'[d[1]] = alarm[d[1]]
    BY <1>3, <2>1, <2>2
  <2> QED BY <1>1, <2>1, <2>3 DEF SGood, Published!IsCurrent, Published!Shown
<1> QED BY <1>1, <1>2, <1>4, <1>5 DEF SInv, SHistory, Published!Accepted

LEMMA SStartDelivery ==
    ASSUME SInv, NEW d \in Published!Deliveries, Published!StartDelivery(d)
    PROVE  SInv'
<1> DEFINE r == [phase |-> "started", attempt |-> 0, checkpoint |-> 0, status |-> 0]
<1>1. /\ STyped /\ SHistory /\ notice[d[1]] \in {"sent", "delivered"} /\ delivery' = [delivery EXCEPT ![d] = r]
      /\ notice' = [notice EXCEPT ![d[1]] = "delivered"] /\ UNCHANGED <<checkpoint, status, pipeline, alarm>>
  <2>1. [Published!Idle EXCEPT !.phase = "started"] = r
    BY DEF Published!Idle
  <2> HIDE DEF r
  <2> QED BY <2>1 DEF SInv, Published!StartDelivery
<1>2. d[1] \in Execs /\ d[2] \in 1 .. MaxCopies /\ d = <<d[1], d[2]>>
  BY DEF Published!Deliveries
<1>3. r \in SDelivery /\ r.phase = "started" /\ r.checkpoint = 0 /\ r.status = 0
  BY <1>1 DEF SDelivery, STyped
<1> HIDE DEF r
<1>4. /\ \A x \in Execs : x # d[1] => notice'[x] = notice[x]
      /\ notice'[d[1]] = "delivered"
      /\ \A o \in Published!Deliveries : o # d => delivery'[o] = delivery[o]
      /\ delivery'[d] = r
  BY <1>1, <1>2 DEF STyped
<1>5. STyped'
  BY <1>1, <1>2, <1>3 DEF STyped
<1>6. ASSUME NEW x \in Execs PROVE SEvent(x)'
  <2>1. CASE x = d[1]
    BY <1>1, <1>2, <1>3, <1>4, <2>1 DEF SInv, SEvent
  <2>2. CASE x # d[1]
    <3>1. ASSUME NEW c \in 1 .. MaxCopies PROVE <<x, c>> \in Published!Deliveries /\ <<x, c>> # d
      BY <1>2, <2>2, <3>1 DEF Published!Deliveries
    <3>2. \A c \in 1 .. MaxCopies : delivery'[<<x, c>>] = delivery[<<x, c>>]
      BY <1>4, <3>1
    <3>3. SEvent(x) /\ notice'[x] = notice[x] /\ UNCHANGED <<pipeline, alarm>>
      BY <1>1, <1>4, <2>2 DEF SInv
    <3> QED BY <3>2, <3>3 DEF SEvent
  <2> QED BY <2>1, <2>2
<1>7. ASSUME NEW o \in Published!Deliveries PROVE SGood(o, delivery[o])'
  <2>1. SGood(o, delivery[o]) /\ o[1] \in Execs /\ Len(checkpoint) \in Nat /\ Len(status) \in Nat
    BY <1>1 DEF SInv, STyped, Published!Deliveries
  <2>2. CASE o = d
    BY <1>1, <1>3, <1>4, <2>1, <2>2 DEF SGood
  <2>3. CASE o # d
    <3>1. delivery[o].phase # "idle" => notice'[o[1]] = "delivered"
      BY <1>4, <2>1 DEF SGood
    <3> QED BY <1>1, <1>4, <2>1, <2>3, <3>1 DEF SGood, Published!IsCurrent, Published!Shown
  <2> QED BY <2>2, <2>3
<1> QED BY <1>1, <1>5, <1>6, <1>7 DEF SInv, SHistory, Published!Accepted

\* A failed build, whatever failed it, when the documents are left alone.
LEMMA SBreaks ==
    ASSUME SInv, NEW d \in Published!Deliveries, delivery[d].phase # "idle",
           Published!FailBuild(d), UNCHANGED <<checkpoint, status, pipeline, notice>>
    PROVE  SInv'
<1>1. Len(status') \in Nat
  BY SElements DEF SInv
<1>2. PICK r \in SDelivery :
        /\ delivery' = [delivery EXCEPT ![d] = r]
        /\ alarm' = alarm \/ alarm' = [alarm EXCEPT ![d[1]] = TRUE]
        /\ notice[d[1]] = "delivered" /\ r.phase # "idle" /\ SGood(d, r)'
  BY <1>1, SFail
<1> QED BY <1>2, SDeliveryStep

\* A delivery that is not idle has its event delivered, and its execution succeeded.
LEMMA SUnderWay ==
    ASSUME SInv, NEW d \in Published!Deliveries, delivery[d].phase # "idle"
    PROVE  /\ d[1] \in Execs /\ notice[d[1]] = "delivered" /\ pipeline[d[1]].state = "Succeeded"
           /\ delivery[d] \in SDelivery /\ SGood(d, delivery[d])
           /\ Len(checkpoint) \in Nat /\ Len(status) \in Nat
<1>1. d[1] \in Execs /\ SGood(d, delivery[d]) /\ delivery[d] \in SDelivery
  BY DEF SInv, STyped, Published!Deliveries
<1>2. notice[d[1]] = "delivered"
  BY <1>1 DEF SGood
<1>3. pipeline[d[1]].state = "Succeeded"
  BY <1>1, <1>2 DEF SInv, SEvent
<1>4. Len(checkpoint) \in Nat /\ Len(status) \in Nat
  BY SElements DEF SInv
<1> QED BY <1>1, <1>2, <1>3, <1>4

\* A delivery that ends well holds nothing.
LEMMA SEnds ==
    ASSUME SInv, NEW d \in Published!Deliveries, delivery[d].phase # "idle",
           delivery' = [delivery EXCEPT ![d] = [Published!Idle EXCEPT !.phase = "done"]],
           UNCHANGED <<checkpoint, status, pipeline, notice, alarm>>,
           Published!IsCurrent(d[1]) => Published!Shown
    PROVE  SInv'
<1> DEFINE r == [phase |-> "done", attempt |-> 0, checkpoint |-> 0, status |-> 0]
<1>1. [Published!Idle EXCEPT !.phase = "done"] = r
  BY DEF Published!Idle
<1>2. MaxBuilds \in Nat /\ Len(checkpoint) \in Nat /\ Len(status) \in Nat
  BY SElements DEF SInv, STyped
<1>3. r \in SDelivery /\ r.phase = "done" /\ r.checkpoint = 0 /\ r.status = 0
  BY <1>2 DEF SDelivery
<1> HIDE DEF r
<1>4. notice[d[1]] = "delivered"
  BY SUnderWay
<1>5. SGood(d, r)'
  BY <1>2, <1>3, <1>4 DEF SGood, Published!IsCurrent, Published!Shown
<1> QED BY <1>1, <1>3, <1>4, <1>5, SDeliveryStep

LEMMA SStartBuild ==
    ASSUME SInv, NEW d \in Published!Deliveries, Published!StartBuild(d)
    PROVE  SInv'
<1>1. /\ delivery[d].phase = "started" /\ UNCHANGED <<checkpoint, status, pipeline, notice, alarm>>
      /\ delivery' = [delivery EXCEPT ![d] = [delivery[d] EXCEPT !.phase = "build", !.attempt = 1]]
  BY DEF Published!StartBuild
<1>2. /\ delivery[d] \in SDelivery /\ SGood(d, delivery[d]) /\ notice[d[1]] = "delivered"
  BY <1>1, SUnderWay
<1>3. PICK c, s : c = delivery[d].checkpoint /\ s = delivery[d].status
  OBVIOUS
<1>4. PICK r : r = [delivery[d] EXCEPT !.phase = "build", !.attempt = 1]
  OBVIOUS
<1>5. 1 \in 0 .. MaxBuilds
  BY DEF SInv, STyped
<1>6. r \in SDelivery /\ r.phase = "build" /\ r.checkpoint = c /\ r.status = s
  BY <1>2, <1>3, <1>4, <1>5 DEF SDelivery
<1>7. SGood(d, r)'
  BY <1>1, <1>2, <1>3, <1>6 DEF SGood
<1> QED BY <1>1, <1>2, <1>4, <1>6, <1>7, SDeliveryStep

LEMMA SReadCheckpoint ==
    ASSUME SInv, NEW d \in Published!Deliveries, Published!ReadCheckpoint(d)
    PROVE  SInv'
<1>1. delivery[d].phase = "build" /\ UNCHANGED <<checkpoint, status, pipeline, notice>>
  BY DEF Published!ReadCheckpoint
<1>2. /\ delivery[d] \in SDelivery /\ SGood(d, delivery[d]) /\ notice[d[1]] = "delivered"
      /\ Len(checkpoint) \in Nat /\ Len(status) \in Nat
  BY <1>1, SUnderWay
<1>3. CASE Published!FailBuild(d)
  BY <1>1, <1>3, SBreaks
<1>4. CASE /\ checkpoint # <<>> /\ ~Published!IsOwnCheckpoint(d, Len(checkpoint)) /\ alarm' = alarm
           /\ delivery' = [delivery EXCEPT ![d] = [Published!Idle EXCEPT !.phase = "done"]]
  <2>1. ~Published!IsCurrent(d[1])
    BY <1>4 DEF Published!IsCurrent, Published!IsOwnCheckpoint
  <2> QED BY <1>1, <1>4, <2>1, SEnds
<1>5. CASE /\ checkpoint # <<>> /\ Published!IsOwnCheckpoint(d, Len(checkpoint)) /\ alarm' = alarm
           /\ delivery' = [delivery EXCEPT ![d] =
                             [delivery[d] EXCEPT !.phase = "checkpoint", !.checkpoint = Len(checkpoint)]]
  <2>1. PICK a, c, s : a = delivery[d].attempt /\ c = Len(checkpoint) /\ s = delivery[d].status
    OBVIOUS
  <2>2. PICK r : r = [delivery[d] EXCEPT !.phase = "checkpoint", !.checkpoint = Len(checkpoint)]
    OBVIOUS
  <2>3. r \in SDelivery /\ r.phase = "checkpoint" /\ r.checkpoint = c /\ r.status = s
    BY <1>2, <2>1, <2>2 DEF SDelivery
  <2>4. Len(checkpoint) # 0
    BY <1>5 DEF SInv, STyped
  <2>5. SGood(d, r)'
    BY <1>1, <1>2, <1>5, <2>1, <2>3, <2>4 DEF SGood, Published!IsOwnCheckpoint
  <2> QED BY <1>1, <1>2, <1>5, <2>2, <2>3, <2>5, SDeliveryStep
<1> QED BY <1>3, <1>4, <1>5 DEF Published!ReadCheckpoint

LEMMA SReadStatus ==
    ASSUME SInv, NEW d \in Published!Deliveries, Published!ReadStatus(d)
    PROVE  SInv'
<1>1. delivery[d].phase = "checkpoint" /\ UNCHANGED <<checkpoint, status, pipeline, notice>>
  BY DEF Published!ReadStatus
<1>2. /\ delivery[d] \in SDelivery /\ SGood(d, delivery[d]) /\ notice[d[1]] = "delivered"
      /\ Len(checkpoint) \in Nat /\ Len(status) \in Nat
  BY <1>1, SUnderWay
<1>3. CASE Published!FailBuild(d)
  BY <1>1, <1>3, SBreaks
<1>4. CASE /\ \/ status = <<>>
              \/ Published!assertAppStatusPublicationOrder(status[Len(status)], checkpoint[delivery[d].checkpoint])
           /\ alarm' = alarm
           /\ delivery' = [delivery EXCEPT ![d] = [delivery[d] EXCEPT !.phase = "status", !.status = Len(status)]]
  <2>1. PICK a, c, s : a = delivery[d].attempt /\ c = delivery[d].checkpoint /\ s = Len(status)
    OBVIOUS
  <2>2. PICK r : r = [delivery[d] EXCEPT !.phase = "status", !.status = Len(status)]
    OBVIOUS
  <2>3. r \in SDelivery /\ r.phase = "status" /\ r.checkpoint = c /\ r.status = s
    BY <1>2, <2>1, <2>2 DEF SDelivery
  <2>4. c \in DOMAIN checkpoint /\ checkpoint[c].exec = d[1] /\ c # 0 /\ c \in 0 .. Len(checkpoint)
    BY <1>1, <1>2, <2>1, SElements DEF SInv, SGood
  <2>5. ASSUME s # 0
        PROVE  status[s] = checkpoint[c] \/ status[s].at < checkpoint[c].at
    <3>1. status # <<>> /\ s \in DOMAIN status
      BY <1>2, <2>1, <2>5, SElements DEF SInv
    <3>2. status[s].at \in Int /\ checkpoint[c].at \in Int
      BY <2>4, <3>1, SElements DEF SInv, SVersions
    <3> QED BY <1>4, <2>1, <3>1, <3>2 DEF Published!assertAppStatusPublicationOrder
  <2>6. SGood(d, r)'
    BY <1>1, <1>2, <2>1, <2>3, <2>4, <2>5 DEF SGood
  <2> QED BY <1>1, <1>2, <1>4, <2>2, <2>3, <2>6, SDeliveryStep
<1> QED BY <1>3, <1>4 DEF Published!ReadStatus, Published!projectAppDeploymentStatus

\* The acceptances of the statuses are known by their positions.
LEMMA SAhead ==
    ASSUME SInv, NEW c \in DOMAIN checkpoint, c = Len(checkpoint),
           status # <<>>, status[Len(status)] # checkpoint[c]
    PROVE  \A i \in DOMAIN status : \A v \in DOMAIN checkpoint : checkpoint[v] = status[i] => v < c
<1> SUFFICES ASSUME NEW i \in DOMAIN status, NEW v \in DOMAIN checkpoint, checkpoint[v] = status[i]
             PROVE  v < c
  OBVIOUS
<1>1. /\ Len(status) \in Nat /\ DOMAIN status = 1 .. Len(status)
      /\ Len(checkpoint) \in Nat /\ DOMAIN checkpoint = 1 .. Len(checkpoint)
  BY SElements DEF SInv
<1>2. Len(status) \in DOMAIN status
  BY <1>1
<1>3. PICK w \in DOMAIN checkpoint : checkpoint[w] = status[Len(status)]
  BY <1>2 DEF SInv, SHistory
<1>4. w < c
  BY <1>1, <1>3
<1>5. CASE i = Len(status)
  BY <1>1, <1>5
<1>6. CASE i < Len(status)
  <2>1. v < w
    BY <1>2, <1>3, <1>6 DEF SInv, SHistory
  <2> QED BY <1>1, <1>4, <2>1
<1> QED BY <1>1, <1>5, <1>6

LEMMA SRecheck ==
    ASSUME SInv, NEW d \in Published!Deliveries, Published!Recheck(d)
    PROVE  SInv'
<1>1. delivery[d].phase = "status" /\ UNCHANGED <<checkpoint, status, pipeline, notice>>
  BY DEF Published!Recheck
<1>2. /\ delivery[d] \in SDelivery /\ SGood(d, delivery[d]) /\ notice[d[1]] = "delivered"
      /\ Len(checkpoint) \in Nat /\ Len(status) \in Nat
      /\ DOMAIN checkpoint = 1 .. Len(checkpoint) /\ DOMAIN status = 1 .. Len(status)
  BY <1>1, SUnderWay, SElements DEF SInv
<1>3. CASE Published!FailBuild(d)
  BY <1>1, <1>3, SBreaks
<1>4. PICK a, c, s : a = delivery[d].attempt /\ c = delivery[d].checkpoint /\ s = delivery[d].status
  OBVIOUS
<1>5. /\ c \in DOMAIN checkpoint /\ checkpoint[c].exec = d[1] /\ c # 0 /\ c \in 0 .. Len(checkpoint)
      /\ s \in 0 .. Len(status)
  BY <1>1, <1>2, <1>4 DEF SGood
<1>6. CASE /\ c = Len(checkpoint) /\ s # 0 /\ status[s] = checkpoint[c] /\ alarm' = alarm
           /\ delivery' = [delivery EXCEPT ![d] = [Published!Idle EXCEPT !.phase = "done"]]
  <2>1. s = Len(status)
    <3>1. s \in DOMAIN status /\ Len(status) \in DOMAIN status
      BY <1>2, <1>5, <1>6
    <3>2. PICK w \in DOMAIN checkpoint : checkpoint[w] = status[Len(status)]
      BY <3>1 DEF SInv, SHistory
    <3>3. s < Len(status) => c < w
      BY <1>5, <1>6, <3>1, <3>2 DEF SInv, SHistory
    <3> QED BY <1>2, <1>5, <1>6, <3>2, <3>3
  <2>2. Published!Shown
    BY <1>2, <1>5, <1>6, <2>1 DEF Published!Shown, SInv, STyped
  <2> QED BY <1>1, <1>6, <2>2, SEnds
<1>7. CASE /\ c = Len(checkpoint) /\ ~(s # 0 /\ status[s] = checkpoint[c]) /\ alarm' = alarm
           /\ delivery' = [delivery EXCEPT ![d] = [delivery[d] EXCEPT !.phase = "checked"]]
  <2> DEFINE r == [phase |-> "checked", attempt |-> a, checkpoint |-> c, status |-> s]
  <2>1. [delivery[d] EXCEPT !.phase = "checked"] = r
    BY <1>2, <1>4 DEF SDelivery
  <2>2. r \in SDelivery /\ r.phase = "checked" /\ r.checkpoint = c /\ r.status = s
    BY <1>2, <1>4 DEF SDelivery
  <2> HIDE DEF r
  <2>3. ASSUME s = Len(status)
        PROVE  \A i \in DOMAIN status : \A v \in DOMAIN checkpoint : checkpoint[v] = status[i] => v < c
    <3>1. CASE status = <<>>
      BY <3>1
    <3>2. CASE status # <<>>
      <4>1. s # 0
        BY <2>3, <3>2 DEF SInv, STyped
      <4>2. status[Len(status)] # checkpoint[c]
        BY <1>7, <2>3, <4>1
      <4> QED BY <1>5, <1>7, <3>2, <4>2, SAhead
    <3> QED BY <3>1, <3>2
  <2>4. SGood(d, r)'
    BY <1>1, <1>2, <1>4, <1>5, <2>2, <2>3 DEF SGood
  <2> QED BY <1>1, <1>2, <1>7, <2>1, <2>2, <2>4, SDeliveryStep
<1> QED BY <1>3, <1>4, <1>6, <1>7
        DEF Published!Recheck, Published!assertObjectPrecondition, Published!projectAppDeploymentStatus

\* The write appends the acceptance of the delivery, which is later than every
\* status; no delivery that is done had its acceptance shown and current.
LEMMA SPublish ==
    ASSUME SInv, NEW d \in Published!Deliveries, NEW r \in SDelivery,
           delivery[d].phase = "checked", delivery[d].status = Len(status),
           status' = Append(status, checkpoint[delivery[d].checkpoint]),
           delivery' = [delivery EXCEPT ![d] = r],
           alarm' = alarm \/ alarm' = [alarm EXCEPT ![d[1]] = TRUE],
           UNCHANGED <<checkpoint, pipeline, notice>>,
           r.phase # "idle", SGood(d, r)'
    PROVE  SInv' /\ Published!DateMovesForward
<1>1. /\ d[1] \in Execs /\ delivery[d] \in SDelivery /\ SGood(d, delivery[d]) /\ notice[d[1]] = "delivered"
      /\ pipeline[d[1]].state = "Succeeded"
      /\ Len(checkpoint) \in Nat /\ Len(status) \in Nat
      /\ DOMAIN checkpoint = 1 .. Len(checkpoint) /\ DOMAIN status = 1 .. Len(status)
  BY SUnderWay, SElements DEF SInv
<1>2. PICK c : c = delivery[d].checkpoint
  OBVIOUS
<1>3. /\ c \in DOMAIN checkpoint /\ checkpoint[c].exec = d[1]
      /\ checkpoint[c] \in SVersions
  BY <1>1, <1>2, SElements DEF SInv, SGood
<1>4. \A i \in DOMAIN status : \A v \in DOMAIN checkpoint : checkpoint[v] = status[i] => v < c
  BY <1>1, <1>2 DEF SGood
<1>5. status \in Seq(SVersions)
  BY DEF SInv, STyped
<1>6. /\ status' \in Seq(SVersions) /\ Len(status') = Len(status) + 1
      /\ DOMAIN status' = 1 .. Len(status) + 1
      /\ \A i \in DOMAIN status : status'[i] = status[i]
      /\ status'[Len(status) + 1] = checkpoint[c]
  BY <1>1, <1>2, <1>3, <1>5
<1>7. STyped'
  BY <1>1, <1>6 DEF SInv, STyped
<1>8. \A e \in Execs : alarm[e] => alarm'[e]
  BY <1>1 DEF SInv, STyped
<1>9. SHistory'
  <2>1. /\ \A v \in DOMAIN checkpoint : Published!Accepted(checkpoint[v].exec)'
        /\ \A v, w \in DOMAIN checkpoint : checkpoint[v].exec = checkpoint[w].exec => v = w
    BY DEF SInv, SHistory, Published!Accepted
  <2>2. \A i \in DOMAIN status' : \E v \in DOMAIN checkpoint : checkpoint[v] = status'[i]
    BY <1>1, <1>3, <1>6 DEF SInv, SHistory
  <2>3. \A i \in DOMAIN status' : pipeline[status'[i].exec].state = "Succeeded"
    BY <1>1, <1>3, <1>6 DEF SInv, SHistory
  <2>4. ASSUME NEW i \in DOMAIN status', NEW j \in DOMAIN status', NEW v \in DOMAIN checkpoint,
               NEW w \in DOMAIN checkpoint, i < j, checkpoint[v] = status'[i], checkpoint[w] = status'[j]
        PROVE  v < w
    <3>1. i \in DOMAIN status /\ status'[i] = status[i]
      BY <1>1, <1>6, <2>4
    <3>2. CASE j \in DOMAIN status
      BY <1>6, <2>4, <3>1, <3>2 DEF SInv, SHistory
    <3>3. CASE j = Len(status) + 1
      <4>1. w = c
        BY <1>3, <1>6, <2>1, <2>4, <3>3
      <4> QED BY <1>4, <2>4, <3>1, <4>1
    <3> QED BY <1>1, <1>6, <3>2, <3>3
  <2> QED BY <2>1, <2>2, <2>3, <2>4 DEF SHistory
<1>10. ASSUME NEW e \in Execs PROVE SEvent(e)'
  <2>1. ASSUME notice[e] = "delivered"
        PROVE  \E n \in 1 .. MaxCopies : delivery'[<<e, n>>].phase # "idle"
    <3>1. PICK n \in 1 .. MaxCopies : delivery[<<e, n>>].phase # "idle"
      BY <2>1 DEF SInv, SEvent
    <3>2. <<e, n>> \in Published!Deliveries
      BY DEF Published!Deliveries
    <3>3. delivery'[<<e, n>>].phase # "idle"
      BY <3>1, <3>2 DEF SInv, STyped
    <3> QED BY <3>3
  <2> QED BY <1>8, <2>1 DEF SInv, SEvent
<1>11. ASSUME NEW o \in Published!Deliveries PROVE SGood(o, delivery[o])'
  <2>1. CASE o = d
    BY <2>1 DEF SInv, STyped
  <2>2. CASE o # d
    <3>1. delivery'[o] = delivery[o] /\ o[1] \in Execs /\ delivery[o] \in SDelivery /\ SGood(o, delivery[o])
      BY <2>2 DEF SInv, STyped, Published!Deliveries
    <3>2. delivery[o].status \in 0 .. Len(status) /\ delivery[o].status \in 0 .. Len(status')
          /\ delivery[o].status # Len(status')
      BY <1>1, <1>6, <3>1 DEF SGood
    <3>3. ~Published!Shown
      BY <1>1, <1>3, <1>4 DEF Published!Shown
    <3>4. delivery[o].phase = "done" => ~Published!IsCurrent(o[1])'
      BY <3>1, <3>3 DEF SGood, Published!IsCurrent
    <3> QED BY <1>8, <3>1, <3>2, <3>4 DEF SGood
  <2> QED BY <2>1, <2>2
<1>12. Published!DateMovesForward
  <2> SUFFICES ASSUME status # <<>> PROVE status'[Len(status')].at > status[Len(status)].at
    BY DEF Published!DateMovesForward
  <2>1. Len(status) # 0 /\ Len(status) \in DOMAIN status
    BY <1>1, <1>5
  <2>2. PICK w \in DOMAIN checkpoint : checkpoint[w] = status[Len(status)]
    BY <2>1 DEF SInv, SHistory
  <2>3. status[Len(status)] # checkpoint[c]
    BY <1>1, <1>3, <1>4, <2>1
  <2>4. status[Len(status)].at < checkpoint[c].at
    BY <1>1, <1>2, <2>1, <2>3 DEF SGood
  <2>5. status[Len(status)].at \in Int /\ checkpoint[c].at \in Int
    BY <1>3, <2>1, SElements DEF SInv, SVersions
  <2> QED BY <1>6, <2>4, <2>5
<1> QED BY <1>7, <1>9, <1>10, <1>11, <1>12 DEF SInv

LEMMA SWriteStatus ==
    ASSUME SInv, NEW d \in Published!Deliveries, Published!WriteStatus(d)
    PROVE  SInv' /\ Published!DateMovesForward
<1>1. delivery[d].phase = "checked" /\ UNCHANGED <<checkpoint, pipeline, notice>>
  BY DEF Published!WriteStatus
<1>2. CASE Published!FailBuild(d) /\ status' = status
  BY <1>1, <1>2, SBreaks DEF Published!DateMovesForward
<1>3. CASE /\ delivery[d].status = Len(status) /\ Published!FailBuild(d)
           /\ status' = Append(status, checkpoint[delivery[d].checkpoint])
  <2>1. Len(status') \in Nat
    <3>1. SGood(d, delivery[d])
      BY DEF SInv
    <3>2. delivery[d].checkpoint \in DOMAIN checkpoint
      BY <1>1, <3>1, SElements DEF SInv, SGood
    <3>3. checkpoint[delivery[d].checkpoint] \in SVersions /\ status \in Seq(SVersions)
      BY <3>2, SElements DEF SInv, STyped
    <3> QED BY <1>3, <3>3
  <2>2. PICK r \in SDelivery :
          /\ delivery' = [delivery EXCEPT ![d] = r]
          /\ alarm' = alarm \/ alarm' = [alarm EXCEPT ![d[1]] = TRUE]
          /\ notice[d[1]] = "delivered" /\ r.phase # "idle" /\ SGood(d, r)'
    BY <1>1, <1>3, <2>1, SFail
  <2> QED BY <1>1, <1>3, <2>2, SPublish
<1>4. CASE /\ delivery[d].status = Len(status) /\ alarm' = alarm
           /\ status' = Append(status, checkpoint[delivery[d].checkpoint])
           /\ delivery' = [delivery EXCEPT ![d] = [Published!Idle EXCEPT !.phase = "done"]]
  <2> DEFINE r == [phase |-> "done", attempt |-> 0, checkpoint |-> 0, status |-> 0]
  <2>1. [Published!Idle EXCEPT !.phase = "done"] = r
    BY DEF Published!Idle
  <2>2. MaxBuilds \in Nat /\ Len(checkpoint) \in Nat /\ Len(status) \in Nat /\ status \in Seq(SVersions)
        /\ DOMAIN checkpoint = 1 .. Len(checkpoint)
    BY SElements DEF SInv, STyped
  <2>3. r \in SDelivery /\ r.phase = "done" /\ r.checkpoint = 0 /\ r.status = 0
    BY <2>2 DEF SDelivery
  <2> HIDE DEF r
  <2>4. PICK c : c = delivery[d].checkpoint
    OBVIOUS
  <2>5. notice[d[1]] = "delivered" /\ c \in DOMAIN checkpoint /\ checkpoint[c].exec = d[1] /\ checkpoint[c] \in SVersions
    BY <1>1, <2>2, <2>4, SUnderWay, SElements DEF SInv, SGood
  <2>6. Len(status') = Len(status) + 1 /\ status'[Len(status')] = checkpoint[c] /\ status' # <<>>
    BY <1>4, <2>2, <2>4, <2>5
  <2>7. Published!IsCurrent(d[1])' => Published!Shown'
    <3> SUFFICES ASSUME Published!IsCurrent(d[1]) PROVE Published!Shown'
      BY <1>1 DEF Published!IsCurrent
    <3>1. Len(checkpoint) \in DOMAIN checkpoint /\ checkpoint[Len(checkpoint)].exec = d[1] /\ checkpoint # <<>>
      BY <2>2, <2>5 DEF Published!IsCurrent
    <3>2. c = Len(checkpoint)
      BY <2>5, <3>1 DEF SInv, SHistory
    <3> QED BY <1>1, <2>6, <3>1, <3>2 DEF Published!Shown
  <2>8. SGood(d, r)'
    BY <1>1, <2>2, <2>3, <2>5, <2>6, <2>7 DEF SGood
  <2> QED BY <1>1, <1>4, <2>1, <2>3, <2>8, SPublish
<1> QED BY <1>2, <1>3, <1>4 DEF Published!WriteStatus, Published!StatusUnmoved, Published!projectAppDeploymentStatus

LEMMA STimeOut ==
    ASSUME SInv, NEW d \in Published!Deliveries, Published!TimeOut(d)
    PROVE  SInv'
<1> DEFINE r == [phase |-> "failed", attempt |-> 0, checkpoint |-> 0, status |-> 0]
<1>1. [Published!Idle EXCEPT !.phase = "failed"] = r
  BY DEF Published!Idle
<1>2. MaxBuilds \in Nat /\ Len(checkpoint) \in Nat /\ Len(status) \in Nat
  BY SElements DEF SInv, STyped
<1>3. r \in SDelivery /\ r.phase = "failed" /\ r.checkpoint = 0 /\ r.status = 0
  BY <1>2 DEF SDelivery
<1> HIDE DEF r
<1>4. /\ delivery[d].phase # "idle" /\ delivery' = [delivery EXCEPT ![d] = r]
      /\ alarm' = [alarm EXCEPT ![d[1]] = TRUE] /\ UNCHANGED <<checkpoint, status, pipeline, notice>>
  BY <1>1 DEF Published!TimeOut
<1>5. notice[d[1]] = "delivered" /\ d[1] \in Execs
  BY <1>4, SUnderWay
<1>6. alarm'[d[1]]
  BY <1>4, <1>5 DEF SInv, STyped
<1>7. SGood(d, r)'
  BY <1>2, <1>3, <1>4, <1>5, <1>6 DEF SGood
<1> QED BY <1>3, <1>4, <1>5, <1>7, SDeliveryStep

LEMMA SStep ==
    SInv /\ [Published!Next]_(Published!vars) => SInv' /\ [Published!DateMovesForward]_(Published!vars)
<1> SUFFICES ASSUME SInv, [Published!Next]_(Published!vars)
             PROVE  SInv' /\ Published!DateMovesForward
  OBVIOUS
<1>1. ASSUME NEW e \in Execs, Published!Smoke(e) \/ Published!EndPipeline(e) \/ Published!DeadLetter(e)
      PROVE  SInv' /\ Published!DateMovesForward
  <2>1. status' = status
    BY <1>1 DEF Published!Smoke, Published!EndPipeline, Published!DeadLetter
  <2> QED BY <1>1, <2>1, SSmoke, SEnd, SDeadLetter DEF Published!DateMovesForward
<1>2. ASSUME NEW d \in Published!Deliveries, Published!StartDelivery(d)
      PROVE  SInv' /\ Published!DateMovesForward
  BY <1>2, SStartDelivery DEF Published!StartDelivery, Published!DateMovesForward
<1>3. ASSUME NEW d \in Published!Deliveries, Published!DeliveryStep(d)
      PROVE  SInv' /\ Published!DateMovesForward
  <2>1. CASE Published!StartBuild(d)
    BY <2>1, SStartBuild DEF Published!StartBuild, Published!DateMovesForward
  <2>2. CASE Published!ReadCheckpoint(d)
    BY <2>2, SReadCheckpoint DEF Published!ReadCheckpoint, Published!DateMovesForward
  <2>3. CASE Published!ReadStatus(d)
    BY <2>3, SReadStatus DEF Published!ReadStatus, Published!DateMovesForward
  <2>4. CASE Published!Recheck(d)
    BY <2>4, SRecheck DEF Published!Recheck, Published!DateMovesForward
  <2>5. CASE Published!WriteStatus(d)
    BY <2>5, SWriteStatus
  <2> QED BY <1>3, <2>1, <2>2, <2>3, <2>4, <2>5 DEF Published!DeliveryStep
<1>4. ASSUME NEW d \in Published!Deliveries, Published!BuildBreaks(d)
      PROVE  SInv' /\ Published!DateMovesForward
  BY <1>4, SBreaks DEF Published!BuildBreaks, Published!DateMovesForward
<1>5. ASSUME NEW d \in Published!Deliveries, Published!TimeOut(d)
      PROVE  SInv' /\ Published!DateMovesForward
  BY <1>5, STimeOut DEF Published!TimeOut, Published!DateMovesForward
<1>6. CASE UNCHANGED Published!vars
  <2>1. STyped'
    BY <1>6 DEF Published!vars, SInv, STyped
  <2>2. SHistory'
    BY <1>6 DEF Published!vars, SInv, SHistory, Published!Accepted
  <2>3. ASSUME NEW e \in Execs PROVE SEvent(e)'
    BY <1>6 DEF Published!vars, SInv, SEvent
  <2>4. ASSUME NEW d \in Published!Deliveries PROVE SGood(d, delivery[d])'
    BY <1>6 DEF Published!vars, SInv, SGood, Published!IsCurrent, Published!Shown
  <2> QED BY <1>6, <2>1, <2>2, <2>3, <2>4 DEF Published!vars, Published!DateMovesForward, SInv
<1> QED BY <1>1, <1>2, <1>3, <1>4, <1>5, <1>6 DEF Published!Next

\* For any executions, clocks, copies of an event and retries: every status shows a
\* checkpoint accepted by an execution that succeeded, statuses follow the order of
\* acceptance and none is published twice, although deliveries overlap, repeat and lose
\* answers, and clocks disagree; when nothing is under way, a status that lags behind has
\* its alarm (publishAppDeploymentStatus and the delivery's state machine).
THEOREM StatusIsAcceptance ==
    ASSUME Published!AppStatusConstants
    PROVE  Published!SafetySpec => []( /\ Published!TypeOK /\ Published!StatusFollowsAcceptance
                                       /\ Published!PublishedOnce /\ Published!LagIsAlarmed)
<1>1. Published!Init => SInv
  BY SStart
<1>2. SInv /\ [Published!Next]_(Published!vars) => SInv'
  BY SStep
<1>3. ASSUME SInv
      PROVE  /\ Published!TypeOK /\ Published!StatusFollowsAcceptance
             /\ Published!PublishedOnce /\ Published!LagIsAlarmed
  <2>1. /\ Len(checkpoint) \in Nat /\ DOMAIN checkpoint = 1 .. Len(checkpoint)
        /\ Len(status) \in Nat /\ DOMAIN status = 1 .. Len(status)
        /\ \A v \in DOMAIN checkpoint : checkpoint[v] \in SVersions
        /\ \A i \in DOMAIN status : status[i] \in SVersions
    BY <1>3, SElements DEF SInv
  <2>2. Published!TypeOK
    <3>1. ASSUME NEW d \in Published!Deliveries
          PROVE  /\ delivery[d].phase \in {"idle", "started", "build", "checkpoint", "status", "checked",
                                           "done", "failed"}
                 /\ delivery[d].attempt \in 0 .. MaxBuilds
                 /\ delivery[d].checkpoint \in 0 .. Len(checkpoint)
                 /\ delivery[d].status \in 0 .. Len(status)
      BY <1>3 DEF SInv, STyped, SDelivery, SGood
    <3>2. ASSUME NEW e \in Execs
          PROVE  /\ pipeline[e].state \in {"InProgress", "Succeeded", "Failed"}
                 /\ notice[e] \in {"none", "sent", "delivered", "queued"}
      BY <1>3 DEF SInv, STyped
    <3>3. alarm \in [Execs -> BOOLEAN]
      BY <1>3 DEF SInv, STyped
    <3> QED BY <2>1, <3>1, <3>2, <3>3 DEF Published!TypeOK, SVersions
  <2>3. ASSUME NEW v \in DOMAIN checkpoint, NEW w \in DOMAIN checkpoint, checkpoint[v] = checkpoint[w]
        PROVE  v = w
    BY <1>3, <2>3 DEF SInv, SHistory
  <2>4. ASSUME NEW i \in DOMAIN status
        PROVE  /\ Published!AcceptanceOf(status[i]) \in DOMAIN checkpoint
               /\ checkpoint[Published!AcceptanceOf(status[i])] = status[i]
    <3>1. \E v \in DOMAIN checkpoint : checkpoint[v] = status[i]
      BY <1>3 DEF SInv, SHistory
    <3> QED BY <3>1 DEF Published!AcceptanceOf
  <2>5. ASSUME NEW i \in DOMAIN status, NEW j \in DOMAIN status, i < j
        PROVE  Published!AcceptanceOf(status[i]) < Published!AcceptanceOf(status[j])
    BY <1>3, <2>4, <2>5 DEF SInv, SHistory
  <2>6. Published!StatusFollowsAcceptance
    BY <1>3, <2>5 DEF Published!StatusFollowsAcceptance, SInv, SHistory
  <2>7. Published!PublishedOnce
    <3> SUFFICES ASSUME NEW i \in DOMAIN status, NEW j \in DOMAIN status, status[i] = status[j]
                 PROVE  i = j
      BY DEF Published!PublishedOnce
    <3>1. PICK n : n = Published!AcceptanceOf(status[i])
      OBVIOUS
    <3>2. n \in Nat
      BY <2>1, <2>4, <3>1
    <3>3. ~(i < j) /\ ~(j < i)
      BY <2>5, <3>1, <3>2
    <3> QED BY <2>1, <3>3
  <2>8. Published!LagIsAlarmed
    <3> SUFFICES ASSUME Published!Quiet, NEW e \in Execs, Published!IsCurrent(e), pipeline[e].state = "Succeeded"
                 PROVE  Published!Shown \/ alarm[e]
      BY DEF Published!LagIsAlarmed
    <3>1. SEvent(e) /\ notice[e] \in {"delivered", "queued"}
      BY <1>3 DEF SInv, SEvent, STyped, Published!Quiet
    <3>2. CASE notice[e] = "queued"
      BY <3>1, <3>2 DEF SEvent
    <3>3. CASE notice[e] = "delivered"
      <4>1. PICK c \in 1 .. MaxCopies : delivery[<<e, c>>].phase # "idle"
        BY <3>1, <3>3 DEF SEvent
      <4>2. <<e, c>> \in Published!Deliveries /\ <<e, c>>[1] = e
        BY DEF Published!Deliveries
      <4>3. SGood(<<e, c>>, delivery[<<e, c>>]) /\ delivery[<<e, c>>].phase \in {"done", "failed"}
        BY <1>3, <4>1, <4>2 DEF SInv, Published!Quiet
      <4> QED BY <4>2, <4>3 DEF SGood
    <3> QED BY <3>1, <3>2, <3>3
  <2> QED BY <2>2, <2>6, <2>7, <2>8
<1> QED BY <1>1, <1>2, <1>3, PTL DEF Published!SafetySpec

\* The published date only moves forward, whichever delivery writes and whatever clock
\* dated its acceptance (assertAppStatusPublicationOrder and the compare-and-swap).
THEOREM DatesMoveForward ==
    ASSUME Published!AppStatusConstants
    PROVE  Published!SafetySpec => [][Published!DateMovesForward]_(Published!vars)
<1>1. Published!Init => SInv
  BY SStart
<1>2. SInv /\ [Published!Next]_(Published!vars) => SInv' /\ [Published!DateMovesForward]_(Published!vars)
  BY SStep
<1> QED BY <1>1, <1>2, PTL DEF Published!SafetySpec

-----------------------------------------------------------------------------
(* The verification of an image's signature.                               *)

VAts == {"idle", "polling", "assets", "workspace", "notation", "cleanup", "answered", "done"}

VEntries == {"COMPLETE", "FAILED", "IN_PROGRESS", "malformed"}

\* Absence is no answer, no file and no status.  The registry's status is a list of
\* entries; times and attempts of a configuration are natural numbers.
VConstants ==
    /\ Invocations \cap Preparations = {}
    /\ Retries \in Nat /\ MaxFailures \in Nat /\ Margin \in Nat
    /\ \A k \in Configurations :
         /\ k.attempts \in Nat /\ k.attemptTimeout \in Nat /\ k.retryDelay \in Nat
         /\ k.processTimeout \in Nat /\ k.deadline \in Nat
    /\ \A s \in Statuses : \E P : s \in Seq([profile : P, status : VEntries])
    /\ None \notin Statuses /\ None \notin {"TYPE", "SIZE", "MODE", "HASH"}
    /\ \A a, b, m, r : [result |-> a, reason |-> b, manifest |-> m, root |-> r] # None
    /\ \A p, a : [by |-> p, result |-> a] # None

VResults == {"VERIFIED", "VERIFICATION_FAILED", "VERIFIER_ERROR", "VERIFIER_TIMEOUT"}

VReasons == {"ASSET_IO_ERROR", "ASSET_METADATA_INVALID", "ASSET_AUTHORITY_INVALID",
             "ASSET_INSTALLATION_RECORD_INVALID", "ASSET_DIRECTORY_INVALID", "ASSET_FILE_TYPE_INVALID",
             "ASSET_FILE_SIZE_INVALID", "ASSET_FILE_MODE_INVALID", "ASSET_FILE_HASH_INVALID",
             "ASSET_INSTALLATION_MODE_INVALID", "ASSET_DEPLOYMENT_AUTHORITY_MISMATCH"}

VSigning == {"EXPECTED_PROFILE_MISSING", "MALFORMED_SIGNING_STATUS", "UNEXPECTED_PROFILE",
             "EXPECTED_PROFILE_AMBIGUOUS", "READY", "SIGNING_FAILED", "SIGNING_NOT_READY"}

\* The reasons that a verification may give for its answer.
VWhy == VReasons \cup VSigning \cup
        {"SIGNING_STATUS_LOOKUP_ERROR", "RUNTIME_SETUP_ERROR", "CRYPTOGRAPHIC_VERIFICATION_FAILED",
         "CRYPTOGRAPHIC_VERIFIER_TIMEOUT", "CRYPTOGRAPHIC_VERIFIER_SIGNAL", "CRYPTOGRAPHIC_VERIFIER_SPAWN_ERROR",
         "INVOCATION_AUTHORITY_MISMATCH", "CREDENTIAL_SOURCE_INVALID", "INVALID_INVOCATION", "CLI_CONTRACT_ERROR"}

VAnswers == [result : VResults, reason : VWhy \cup {None},
             manifest : {d.record.manifest : d \in Directories} \cup {None},
             root : {d.record.root : d \in Directories} \cup {None}]

VCalls == [at : VAts, event : Events \cup {None}, attempt : Nat, elapsed : Nat,
           seen : Statuses \cup {None}, answer : VAnswers \cup {None}, tries : 0 .. Retries]

VComplete(event) == <<[profile |-> event.profile, status |-> "COMPLETE"]>>

\* The assets are the pinned ones, and for the Lambda those of its deployment.
VAssets(c) ==
    /\ Signing!IsPinned(dir, "amd64", dir.entries["manifest"].contents)
    /\ dir.record.manifest = dir.entries["manifest"].contents
    /\ c \in Invocations => dir.record.manifest = config.manifest

\* The time that the rest of a verification may still take.
VRest(q) == (config.attempts - q.attempt) * config.attemptTimeout
            + (config.attempts - q.attempt) * config.retryDelay

VTimely(q) ==
    /\ q.at = "polling" =>
         q.elapsed + config.attemptTimeout + VRest(q) + config.processTimeout + Margin <= config.deadline
    /\ q.at \in {"assets", "workspace", "notation"} => q.elapsed + config.processTimeout + Margin <= config.deadline
    /\ q.elapsed > 0 => q.elapsed + Margin <= config.deadline

\* What holds of a verification at each of its steps and of its answer.
VGood(c, q) ==
    /\ q.attempt <= Signing!timing(c).attempts
    /\ q.at \in {"polling", "assets", "workspace", "notation", "cleanup"} /\ c \in Invocations =>
         Signing!parseConfiguration(config) /\ q.event = config.authority
    /\ q.at \in {"assets", "workspace", "notation", "cleanup"} => q.seen = VComplete(q.event)
    /\ q.at \in {"workspace", "notation", "cleanup"} => VAssets(c)
    /\ q.answer # None /\ q.answer.result = "VERIFIED" =>
         /\ q.event.profile \in signed /\ q.seen = VComplete(q.event) /\ VAssets(c)
         /\ c \in Invocations => q.event = config.authority
    /\ c \in Invocations /\ q.answer # None /\ q.answer.result # "VERIFIED"
         /\ q.answer.reason \in Signing!PreservedReasons =>
         /\ q.seen # None
         /\ Signing!inspectSigningStatuses(q.seen, config.authority.profile) = q.answer.reason
         /\ q.answer.reason \in Signing!Retryable => q.attempt = config.attempts
    /\ c \in Invocations => VTimely(q)
    /\ c \in workspaces =>
         \/ q.at \in {"notation", "cleanup"}
         \/ q.at \in {"answered", "done"} /\ (q.answer = None \/ q.answer = Signing!cliResult(None))
    /\ c \in Preparations /\ q.at = "done" /\ q.answer # None => output = [by |-> c, result |-> q.answer]
    /\ q.at = "idle" => q = [Signing!Idle EXCEPT !.tries = q.tries]
    /\ q.at \in {"polling", "assets", "workspace", "notation"} => q.answer = None

VInv ==
    /\ config \in Configurations /\ dir \in Directories /\ statuses \in Statuses
    /\ signed \subseteq {Signing!Profile}
    /\ verifications \in [Signing!Callers -> VCalls]
    /\ launched \subseteq Invocations /\ workspaces \subseteq Signing!Callers /\ failures \in 0 .. MaxFailures
    /\ \A c \in Signing!Callers : VGood(c, verifications[c])
    /\ \A e \in launched : /\ verifications[e].at = "done" /\ verifications[e].answer # None
                           /\ verifications[e].answer.result = "VERIFIED"

-----------------------------------------------------------------------------
(* The operators that the answer rests on.                                 *)

\* One entry, of the expected profile and complete.
LEMMA VEntry ==
    ASSUME VConstants, NEW s \in Statuses
    PROVE  /\ Len(s) \in Nat /\ DOMAIN s = 1 .. Len(s)
           /\ \E P : s \in Seq([profile : P, status : VEntries])
           /\ \A i \in DOMAIN s : s[i].status \in VEntries /\ s[i] = [profile |-> s[i].profile, status |-> s[i].status]
<1>1. PICK P : s \in Seq([profile : P, status : VEntries])
  BY DEF VConstants
<1> DEFINE Entry == [profile : P, status : VEntries]
<1>2. s \in Seq(Entry)
  BY <1>1
<1>3. \A x \in Entry : x.status \in VEntries /\ x = [profile |-> x.profile, status |-> x.status]
  OBVIOUS
<1> HIDE DEF Entry
<1>4. Len(s) \in Nat /\ DOMAIN s = 1 .. Len(s) /\ \A i \in DOMAIN s : s[i] \in Entry
  BY <1>2
<1> QED BY <1>1, <1>3, <1>4

LEMMA VReady ==
    ASSUME VConstants, NEW s \in Statuses, NEW p, Signing!inspectSigningStatuses(s, p) = "READY"
    PROVE  s = <<[profile |-> p, status |-> "COMPLETE"]>>
<1>1. PICK P : s \in Seq([profile : P, status : VEntries])
  BY DEF VConstants
<1>2. Len(s) \in Nat /\ DOMAIN s = 1 .. Len(s)
  BY VEntry
<1>3. CASE Len(s) = 0
  BY <1>3 DEF Signing!inspectSigningStatuses
<1>4. CASE Len(s) # 0
  <2>1. 1 \in DOMAIN s
    BY <1>2, <1>4
  <2>2. s[1].status \in VEntries /\ s[1] = [profile |-> s[1].profile, status |-> s[1].status]
    BY <2>1, VEntry
  <2>3. /\ ~(\E i \in DOMAIN s : s[i].status = "malformed")
        /\ ~(\E i \in DOMAIN s : s[i].profile # p)
        /\ Len(s) = 1
    BY <1>4 DEF Signing!inspectSigningStatuses
  <2>4. s[1].status # "malformed" /\ s[1].profile = p
    BY <2>1, <2>3
  <2>5. s[1].status = "COMPLETE"
    BY <1>4, <2>2, <2>3, <2>4 DEF Signing!inspectSigningStatuses, VEntries
  <2>6. s[1] = [profile |-> p, status |-> "COMPLETE"]
    BY <2>2, <2>4, <2>5
  <2> QED BY <1>1, <2>3, <2>6
<1> QED BY <1>3, <1>4

\* What a status may be taken for.
LEMMA VSeen ==
    ASSUME VConstants, NEW s \in Statuses, NEW p
    PROVE  Signing!inspectSigningStatuses(s, p) \in VSigning
<1>1. PICK P : s \in Seq([profile : P, status : VEntries])
  BY DEF VConstants
<1>2. Len(s) \in Nat /\ DOMAIN s = 1 .. Len(s)
  BY VEntry
<1>3. Len(s) = 1 => s[1].status \in VEntries /\ 1 \in DOMAIN s
  BY <1>2, VEntry
<1> QED BY <1>2, <1>3 DEF Signing!inspectSigningStatuses, VEntries, VSigning

\* A file of the record has no problem when none is reported.
LEMMA VNoProblem ==
    ASSUME NEW d, Signing!validateInstalledAssetFiles(d, FALSE) = None,
           NEW p \in {"manifest", "helper", "notation", "plugin", "licence", "root", "stray"},
           p \in DOMAIN d.record.files
    PROVE  Signing!fileProblem(d, p, FALSE) = None
<1> DEFINE wrong == {i \in DOMAIN Signing!PathOrder :
                    /\ Signing!PathOrder[i] \in DOMAIN d.record.files
                    /\ Signing!fileProblem(d, Signing!PathOrder[i], FALSE) # None}
<1>1. /\ DOMAIN Signing!PathOrder = 1 .. 7
      /\ \E i \in 1 .. 7 : Signing!PathOrder[i] = p
  BY DEF Signing!PathOrder
<1>2. ASSUME wrong # {} PROVE Signing!Min(wrong) \in wrong
  <2>1. wrong \subseteq 1 .. 7
    BY <1>1
  <2> HIDE DEF wrong
  <2>2. \E x \in wrong : \A y \in wrong : x =< y
    <3>1. CASE 1 \in wrong
      BY <2>1, <3>1
    <3>2. CASE 1 \notin wrong /\ 2 \in wrong
      BY <2>1, <3>2
    <3>3. CASE 1 \notin wrong /\ 2 \notin wrong /\ 3 \in wrong
      BY <2>1, <3>3
    <3>4. CASE 1 \notin wrong /\ 2 \notin wrong /\ 3 \notin wrong /\ 4 \in wrong
      BY <2>1, <3>4
    <3>5. CASE 1 \notin wrong /\ 2 \notin wrong /\ 3 \notin wrong /\ 4 \notin wrong /\ 5 \in wrong
      BY <2>1, <3>5
    <3>6. CASE 1 \notin wrong /\ 2 \notin wrong /\ 3 \notin wrong /\ 4 \notin wrong /\ 5 \notin wrong /\ 6 \in wrong
      BY <2>1, <3>6
    <3>7. CASE 1 \notin wrong /\ 2 \notin wrong /\ 3 \notin wrong /\ 4 \notin wrong /\ 5 \notin wrong /\ 6 \notin wrong
      <4>1. \A x \in wrong : x = 7
        BY <2>1, <3>7
      <4> QED BY <1>2, <4>1
    <3> QED BY <3>1, <3>2, <3>3, <3>4, <3>5, <3>6, <3>7
  <2> QED BY <2>2 DEF Signing!Min
<1>3. wrong = {}
  <2> SUFFICES ASSUME wrong # {} PROVE FALSE
    OBVIOUS
  <2>1. Signing!validateInstalledAssetFiles(d, FALSE) = Signing!fileProblem(d, Signing!PathOrder[Signing!Min(wrong)], FALSE)
    BY DEF Signing!validateInstalledAssetFiles
  <2> QED BY <1>2, <2>1
<1> QED BY <1>1, <1>3

LEMMA VProblems ==
    ASSUME NEW d, NEW p
    PROVE  Signing!fileProblem(d, p, FALSE) \in {"TYPE", "SIZE", "MODE", "HASH", None}
  BY DEF Signing!fileProblem

\* Assets that are admitted are the pinned ones, whatever the record says of them.
LEMMA VAdmitted ==
    ASSUME VConstants, NEW d, NEW m, NEW r
    PROVE  /\ Signing!admitRuntimeVerifierAssets(d, "amd64", m, r) \in VReasons \cup {"READY"}
           /\ Signing!admitRuntimeVerifierAssets(d, "amd64", m, r) = "READY" =>
                /\ Signing!IsPinned(d, "amd64", d.entries["manifest"].contents)
                /\ d.record.manifest = d.entries["manifest"].contents
                /\ m # None => d.record.manifest = m
<1> DEFINE problem == Signing!validateInstalledAssetFiles(d, FALSE)
           manifest == d.entries["manifest"].contents
           validated == Signing!validateVerifierAssets(d, "amd64")
<1>1. problem \in {"TYPE", "SIZE", "MODE", "HASH", None}
  BY VProblems DEF Signing!validateInstalledAssetFiles
<1>2. problem # None => Signing!problemReason(problem) \in VReasons
  <2> HIDE DEF problem
  <2> QED BY <1>1 DEF VReasons, Signing!problemReason
<1>3. /\ validated \in VReasons \cup {"READY"}
      /\ validated = "READY" =>
           /\ problem = None /\ Signing!admitVerifierInstallation(d.record, "amd64", manifest)
           /\ Signing!inventoryMatches(d)
           /\ Signing!assertInstalledAssetAuthorities(d.record, "amd64", manifest)
  <2> HIDE DEF problem
  <2> QED BY <1>2 DEF Signing!validateVerifierAssets, VReasons, problem
<1>4. ASSUME validated = "READY" PROVE Signing!IsPinned(d, "amd64", manifest)
  <2> SUFFICES ASSUME NEW p \in {"notation", "plugin", "helper", "root"}
               PROVE  p \in DOMAIN d.entries /\ d.entries[p].contents = Signing!pin(manifest, "amd64", p)
    BY DEF Signing!IsPinned, Signing!Tools
  <2>1. /\ p \in DOMAIN d.record.files
        /\ d.record.files[p].sha256 = Signing!pin(manifest, "amd64", p)
    BY <1>3, <1>4 DEF Signing!assertInstalledAssetAuthorities, Signing!Required, Signing!Tools
  <2>2. Signing!fileProblem(d, p, FALSE) = None
    BY <1>3, <1>4, <2>1, VNoProblem
  <2>3. d.entries[p].contents = d.record.files[p].sha256
    BY <2>2 DEF Signing!fileProblem, VConstants
  <2>4. p \in DOMAIN d.entries
    BY <1>3, <1>4, <2>1 DEF Signing!inventoryMatches
  <2> QED BY <2>1, <2>3, <2>4
<1> HIDE DEF validated
<1>5. Signing!admitRuntimeVerifierAssets(d, "amd64", m, r) \in {validated, "ASSET_DEPLOYMENT_AUTHORITY_MISMATCH"}
  BY DEF Signing!admitRuntimeVerifierAssets, validated
<1>6. ASSUME Signing!admitRuntimeVerifierAssets(d, "amd64", m, r) = "READY"
      PROVE  validated = "READY" /\ (m # None => d.record.manifest = m)
  BY <1>6 DEF Signing!admitRuntimeVerifierAssets, validated
<1> QED BY <1>3, <1>4, <1>5, <1>6 DEF VReasons, Signing!admitVerifierInstallation

-----------------------------------------------------------------------------
(* Steps of a verification.                                                *)

\* What a good verification rests on is left alone, or there is only more of it.
LEMMA VKept ==
    ASSUME NEW o \in Signing!Callers, NEW q, VGood(o, q), VConstants,
           UNCHANGED <<config, dir>>, signed \subseteq signed',
           output' = output \/ output = None, o \in workspaces' => o \in workspaces
    PROVE  VGood(o, q)'
<1>1. Signing!timing(o)' = Signing!timing(o)
  BY DEF Signing!timing
<1>2. VAssets(o) => VAssets(o)'
  BY DEF VAssets, Signing!IsPinned
<1>3. VTimely(q) => VTimely(q)'
  BY DEF VTimely, VRest
<1>4. Signing!parseConfiguration(config)' <=> Signing!parseConfiguration(config)
  BY DEF Signing!parseConfiguration, Signing!parseImageSignatureInvocation, Signing!parseHandlerTiming
<1>5. Signing!inspectSigningStatuses(q.seen, config.authority.profile)'
        = Signing!inspectSigningStatuses(q.seen, config.authority.profile)
  BY DEF Signing!inspectSigningStatuses
<1>6. \A p, a : [by |-> p, result |-> a] # None
  BY DEF VConstants
<1> QED BY <1>1, <1>2, <1>3, <1>4, <1>5, <1>6 DEF VGood

\* A step of one verification that has not ended.
LEMMA VUpdate ==
    ASSUME VInv, VConstants, NEW c \in Signing!Callers, verifications[c].at # "done",
           verifications' \in [Signing!Callers -> VCalls],
           \A o \in Signing!Callers : o # c => verifications'[o] = verifications[o],
           UNCHANGED <<config, dir, statuses, signed>>,
           output' = output \/ output = None,
           workspaces' \subseteq Signing!Callers,
           \A o \in Signing!Callers : o # c /\ o \in workspaces' => o \in workspaces,
           failures' \in 0 .. MaxFailures,
           VGood(c, verifications[c])',
           \/ launched' = launched
           \/ /\ launched' = launched \cup {c} /\ c \in Invocations /\ verifications'[c].at = "done"
              /\ verifications'[c].answer # None /\ verifications'[c].answer.result = "VERIFIED"
    PROVE  VInv'
<1>1. ASSUME NEW o \in Signing!Callers PROVE VGood(o, verifications[o])'
  <2>1. CASE o = c
    BY <2>1
  <2>2. CASE o # c
    <3>1. PICK q : q = verifications[o]
      OBVIOUS
    <3>2. VGood(o, q)
      BY <3>1 DEF VInv
    <3>3. VGood(o, q)'
      BY <2>2, <3>2, VKept
    <3> QED BY <2>2, <3>1, <3>3
  <2> QED BY <2>1, <2>2
<1>2. launched \subseteq Invocations /\ launched \subseteq Signing!Callers /\ c \notin launched
  BY DEF VInv, Signing!Callers
<1>3. launched' \subseteq Invocations
  BY <1>2
<1>4. ASSUME NEW e \in launched'
      PROVE  verifications'[e].at = "done" /\ verifications'[e].answer # None
             /\ verifications'[e].answer.result = "VERIFIED"
  <2>1. CASE e \in launched
    <3>1. verifications'[e] = verifications[e]
      BY <1>2, <2>1
    <3> QED BY <2>1, <3>1 DEF VInv
  <2> QED BY <2>1
<1> QED BY <1>1, <1>3, <1>4 DEF VInv

\* What is known of a verification at any step.
LEMMA VFacts ==
    ASSUME VInv, VConstants, NEW c \in Signing!Callers
    PROVE  /\ verifications[c] \in VCalls /\ VGood(c, verifications[c])
           /\ config.attempts \in Nat /\ config.attemptTimeout \in Nat /\ config.retryDelay \in Nat
           /\ config.processTimeout \in Nat /\ config.deadline \in Nat /\ Margin \in Nat
           /\ Signing!timing(c).attempts \in Nat /\ Signing!timing(c).attemptTimeout \in Nat
           /\ Signing!timing(c).retryDelay \in Nat /\ Signing!timing(c).processTimeout \in Nat
           /\ c \in Invocations => Signing!timing(c) = config
           /\ c \in Invocations \/ c \in Preparations
           /\ failures \in Nat /\ failures \in 0 .. MaxFailures /\ workspaces \subseteq Signing!Callers
<1>1. verifications[c] \in VCalls /\ VGood(c, verifications[c])
  BY DEF VInv
<1>2. /\ config.attempts \in Nat /\ config.attemptTimeout \in Nat /\ config.retryDelay \in Nat
      /\ config.processTimeout \in Nat /\ config.deadline \in Nat /\ Margin \in Nat
  BY DEF VInv, VConstants
<1>3. /\ Signing!timing(c).attempts \in Nat /\ Signing!timing(c).attemptTimeout \in Nat
      /\ Signing!timing(c).retryDelay \in Nat /\ Signing!timing(c).processTimeout \in Nat
      /\ c \in Invocations => Signing!timing(c) = config
  BY <1>2 DEF Signing!timing
<1>4. c \in Invocations \/ c \in Preparations
  BY DEF Signing!Callers
<1>5. failures \in Nat /\ failures \in 0 .. MaxFailures /\ workspaces \subseteq Signing!Callers
  BY DEF VInv, VConstants
<1> QED BY <1>1, <1>2, <1>3, <1>4, <1>5

LEMMA VFault ==
    ASSUME VInv, VConstants, Signing!fault
    PROVE  failures' \in 0 .. MaxFailures
  BY DEF VInv, VConstants, Signing!fault

\* Refusals are answers without an image verified.
LEMMA VFailure ==
    ASSUME VConstants, NEW result \in VResults \ {"VERIFIED"}, NEW reason \in VWhy
    PROVE  LET a == Signing!boundedFailure(result, reason)
           IN  a \in VAnswers /\ a # None /\ a.result = result /\ a.reason = reason
  BY DEF VAnswers, VResults, VConstants, Signing!boundedFailure

LEMMA VOneLess ==
    ASSUME NEW n \in Nat, NEW a \in Nat, NEW t \in Nat, a < n
    PROVE  (n - a) * t = (n - (a + 1)) * t + t /\ (n - (a + 1)) * t \in Nat
<1>1. PICK m \in Nat : m = n - (a + 1)
  OBVIOUS
<1>2. n - a = m + 1
  BY <1>1
<1>3. (m + 1) * t = m * t + t /\ m * t \in Nat
  OBVIOUS
<1> QED BY <1>1, <1>2, <1>3

LEMMA VTimes ==
    ASSUME NEW n \in Nat, NEW a \in Nat, NEW t \in Nat, a <= n
    PROVE  (n - a) * t \in Nat
<1>1. PICK m \in Nat : m = n - a
  OBVIOUS
<1> QED BY <1>1

\* The time an answered poll leaves.
LEMMA VPolled ==
    ASSUME VInv, VConstants, NEW c \in Invocations, NEW took \in {0, config.attemptTimeout},
           verifications[c].at = "polling", verifications[c].attempt <= config.attempts
    PROVE  LET q == verifications[c] IN
           /\ q.elapsed + took + config.processTimeout + Margin <= config.deadline
           /\ q.elapsed + took + Margin <= config.deadline
           /\ q.attempt < config.attempts =>
                q.elapsed + took + config.retryDelay + config.attemptTimeout
                  + ((config.attempts - (q.attempt + 1)) * config.attemptTimeout
                     + (config.attempts - (q.attempt + 1)) * config.retryDelay)
                  + config.processTimeout + Margin <= config.deadline
<1>1. c \in Signing!Callers
  BY DEF Signing!Callers
<1>2. PICK e, a : e = verifications[c].elapsed /\ a = verifications[c].attempt
  OBVIOUS
<1>3. PICK N, T, R, P, D : /\ N = config.attempts /\ T = config.attemptTimeout /\ R = config.retryDelay
                           /\ P = config.processTimeout /\ D = config.deadline
  OBVIOUS
<1>4. /\ N \in Nat /\ T \in Nat /\ R \in Nat /\ P \in Nat /\ D \in Nat /\ Margin \in Nat
      /\ verifications[c] \in VCalls /\ VGood(c, verifications[c])
  BY <1>1, <1>3, VFacts
<1>5. e \in Nat /\ a \in Nat /\ a <= N /\ took \in Nat /\ took <= T
  BY <1>2, <1>3, <1>4 DEF VCalls
<1>6. PICK rt, rr : rt = (N - a) * T /\ rr = (N - a) * R
  OBVIOUS
<1>7. rt \in Nat /\ rr \in Nat
  BY <1>4, <1>5, <1>6, VTimes
<1>8. e + T + (rt + rr) + P + Margin <= D
  BY <1>2, <1>3, <1>4, <1>6 DEF VGood, VTimely, VRest
<1>9. e + took + P + Margin <= D /\ e + took + Margin <= D
  BY <1>4, <1>5, <1>7, <1>8
<1>10. ASSUME a < N
       PROVE  e + took + R + T + ((N - (a + 1)) * T + (N - (a + 1)) * R) + P + Margin <= D
  <2>1. PICK st, sr : st = (N - (a + 1)) * T /\ sr = (N - (a + 1)) * R
    OBVIOUS
  <2>2. rt = st + T /\ rr = sr + R /\ st \in Nat /\ sr \in Nat
    BY <1>4, <1>5, <1>6, <1>10, <2>1, VOneLess
  <2>3. e + took + R + T + (st + sr) + P + Margin <= D
    BY <1>4, <1>5, <1>8, <2>2
  <2> QED BY <2>1, <2>3
<1> QED BY <1>2, <1>3, <1>9, <1>10

LEMMA VPoll ==
    ASSUME VInv, VConstants, NEW c \in Signing!Callers, NEW took \in {0, Signing!timing(c).attemptTimeout},
           Signing!Poll(c, took)
    PROVE  VInv'
<1> DEFINE q == verifications[c]
           seen == Signing!inspectSigningStatuses(statuses, q.event.profile)
           elapsed == q.elapsed + took
<1>1. /\ q.at = "polling"
      /\ UNCHANGED <<config, dir, statuses, signed, launched, output, workspaces, failures>>
  BY DEF Signing!Poll
<1>2. /\ q \in VCalls /\ VGood(c, q) /\ verifications \in [Signing!Callers -> VCalls] /\ statuses \in Statuses
      /\ Signing!timing(c).attempts \in Nat /\ Signing!timing(c).retryDelay \in Nat
      /\ Signing!timing(c).attemptTimeout \in Nat
      /\ failures \in 0 .. MaxFailures /\ workspaces \subseteq Signing!Callers
      /\ c \in Invocations => Signing!timing(c) = config
  BY VFacts DEF VInv
<1>3. took \in Nat /\ elapsed \in Nat
  BY <1>2 DEF VCalls
<1>4. /\ q.attempt \in Nat /\ q.attempt <= Signing!timing(c).attempts /\ q.answer = None
      /\ c \in Invocations => Signing!parseConfiguration(config) /\ q.event = config.authority
      /\ c \notin workspaces
  BY <1>1, <1>2 DEF VGood, VCalls
<1>5. c \in Invocations =>
        /\ elapsed + config.processTimeout + Margin <= config.deadline
        /\ elapsed + Margin <= config.deadline
        /\ q.attempt < config.attempts =>
                elapsed + config.retryDelay + config.attemptTimeout
                  + ((config.attempts - (q.attempt + 1)) * config.attemptTimeout
                     + (config.attempts - (q.attempt + 1)) * config.retryDelay)
                  + config.processTimeout + Margin <= config.deadline
  BY <1>1, <1>2, <1>4, VPolled
<1>6. seen \in VSigning
  BY <1>2, VSeen
<1>7. CASE seen = "READY"
  <2>1. verifications' = [[verifications EXCEPT ![c].elapsed = elapsed, ![c].seen = statuses] EXCEPT ![c].at = "assets"]
    BY <1>7 DEF Signing!Poll
  <2>2. /\ verifications' \in [Signing!Callers -> VCalls]
        /\ \A o \in Signing!Callers : o # c => verifications'[o] = verifications[o]
        /\ verifications'[c].at = "assets" /\ verifications'[c].event = q.event
        /\ verifications'[c].attempt = q.attempt /\ verifications'[c].elapsed = elapsed
        /\ verifications'[c].seen = statuses /\ verifications'[c].answer = q.answer
    <3> HIDE DEF seen, elapsed
    <3> QED BY <1>2, <1>3, <2>1 DEF VCalls, VAts
  <2>3. statuses = VComplete(q.event)
    BY <1>2, <1>7, VReady DEF VComplete
  <2>4. VGood(c, verifications[c])'
    <3>1. (c \in Invocations => VTimely(verifications[c]))'
      BY <1>1, <1>5, <2>2 DEF VTimely
    <3>2. Signing!timing(c)' = Signing!timing(c)
      BY <1>1 DEF Signing!timing
    <3>3. Signing!parseConfiguration(config)' <=> Signing!parseConfiguration(config)
      BY <1>1 DEF Signing!parseConfiguration, Signing!parseImageSignatureInvocation, Signing!parseHandlerTiming
    <3>4. (verifications[c].seen = VComplete(verifications[c].event))'
      BY <2>2, <2>3 DEF VComplete
    <3> QED BY <1>1, <1>4, <2>2, <3>1, <3>2, <3>3, <3>4 DEF VGood
  <2> QED BY <1>1, <1>2, <2>2, <2>4, VUpdate
<1>8. CASE seen # "READY" /\ seen \in Signing!Retryable /\ q.attempt < Signing!timing(c).attempts
  <2> DEFINE delay == Signing!timing(c).retryDelay
  <2>1. verifications' = [[verifications EXCEPT ![c].elapsed = elapsed, ![c].seen = statuses]
                            EXCEPT ![c].attempt = @ + 1, ![c].elapsed = elapsed + delay]
    BY <1>8 DEF Signing!Poll, Signing!moreAttempts
  <2>2. /\ verifications' \in [Signing!Callers -> VCalls]
        /\ \A o \in Signing!Callers : o # c => verifications'[o] = verifications[o]
        /\ verifications'[c].at = "polling" /\ verifications'[c].event = q.event
        /\ verifications'[c].attempt = q.attempt + 1 /\ verifications'[c].elapsed = elapsed + delay
        /\ verifications'[c].seen = statuses /\ verifications'[c].answer = q.answer
    <3>1. elapsed + delay \in Nat /\ q.attempt + 1 \in Nat
      BY <1>2, <1>3, <1>4
    <3> HIDE DEF seen, elapsed, delay
    <3> QED BY <1>1, <1>2, <1>3, <2>1, <3>1 DEF VCalls, VAts
  <2>4. VGood(c, verifications[c])'
    <3>1. (c \in Invocations => VTimely(verifications[c]))'
      <4> SUFFICES ASSUME c \in Invocations PROVE VTimely(verifications[c])'
        OBVIOUS
      <4>1. delay = config.retryDelay /\ q.attempt < config.attempts
        BY <1>2, <1>8
      <4>2. PICK x, y, d : /\ x = (config.attempts - (q.attempt + 1)) * config.attemptTimeout
                           /\ y = (config.attempts - (q.attempt + 1)) * config.retryDelay
                           /\ d = config.retryDelay
        OBVIOUS
      <4>3. elapsed + d + config.attemptTimeout + (x + y) + config.processTimeout + Margin <= config.deadline
        BY <1>5, <4>1, <4>2
      <4>4. /\ x \in Nat /\ y \in Nat /\ d \in Nat /\ config.attemptTimeout \in Nat /\ config.processTimeout \in Nat
            /\ Margin \in Nat /\ config.deadline \in Nat
        BY <1>4, <4>1, <4>2, VOneLess, VFacts
      <4>5. elapsed + d + Margin <= config.deadline
        <5> HIDE DEF elapsed
        <5> QED BY <1>3, <4>3, <4>4
      <4>6. VRest(verifications[c])' = x + y
        BY <1>1, <2>2, <4>2 DEF VRest
      <4> QED BY <1>1, <2>2, <4>1, <4>2, <4>3, <4>5, <4>6 DEF VTimely
    <3>2. Signing!timing(c)' = Signing!timing(c)
      BY <1>1 DEF Signing!timing
    <3>3. Signing!parseConfiguration(config)' <=> Signing!parseConfiguration(config)
      BY <1>1 DEF Signing!parseConfiguration, Signing!parseImageSignatureInvocation, Signing!parseHandlerTiming
    <3>4. q.attempt + 1 <= Signing!timing(c).attempts
      BY <1>2, <1>4, <1>8
    <3> QED BY <1>1, <1>4, <2>2, <3>1, <3>2, <3>3, <3>4 DEF VGood
  <2> QED BY <1>1, <1>2, <2>2, <2>4, VUpdate
<1>9. CASE seen # "READY" /\ ~(seen \in Signing!Retryable /\ q.attempt < Signing!timing(c).attempts)
  <2>1. PICK result, reason : result = Signing!pollResult(seen) /\ reason = seen
    OBVIOUS
  <2>2. PICK a : a = Signing!boundedFailure(result, reason)
    OBVIOUS
  <2>3. a \in VAnswers /\ a # None /\ a.result # "VERIFIED" /\ a.reason = seen
    <3>1. result \in VResults \ {"VERIFIED"} /\ reason \in VWhy
      <4> HIDE DEF seen
      <4>1. result \in {"VERIFICATION_FAILED", "VERIFIER_ERROR"}
        BY <2>1 DEF Signing!pollResult
      <4>2. reason \in VWhy
        BY <1>6, <2>1 DEF VWhy
      <4> QED BY <4>1, <4>2 DEF VResults
    <3> QED BY <2>1, <2>2, <3>1, VFailure
  <2>4. verifications' = [[verifications EXCEPT ![c].elapsed = elapsed, ![c].seen = statuses]
                            EXCEPT ![c].at = "answered", ![c].answer = a]
    BY <1>9, <2>1, <2>2 DEF Signing!Poll, Signing!moreAttempts
  <2>5. /\ verifications' \in [Signing!Callers -> VCalls]
        /\ \A o \in Signing!Callers : o # c => verifications'[o] = verifications[o]
        /\ verifications'[c].at = "answered" /\ verifications'[c].event = q.event
        /\ verifications'[c].attempt = q.attempt /\ verifications'[c].elapsed = elapsed
        /\ verifications'[c].seen = statuses /\ verifications'[c].answer = a
    <3> HIDE DEF seen, elapsed
    <3> QED BY <1>2, <1>3, <2>3, <2>4 DEF VCalls, VAts
  <2>6. VGood(c, verifications[c])'
    <3>1. (c \in Invocations => VTimely(verifications[c]))'
      BY <1>1, <1>5, <2>5 DEF VTimely
    <3>2. Signing!timing(c)' = Signing!timing(c)
      BY <1>1 DEF Signing!timing
    <3>3. c \in Invocations /\ seen \in Signing!Retryable => q.attempt = config.attempts
      BY <1>2, <1>4, <1>9
    <3>4. PICK s : s = seen
      OBVIOUS
    <3>5. c \in Invocations => Signing!inspectSigningStatuses(statuses, config.authority.profile)' = s
      <4>1. c \in Invocations => Signing!inspectSigningStatuses(statuses, config.authority.profile) = s
        BY <1>4, <3>4
      <4>2. Signing!inspectSigningStatuses(statuses, config.authority.profile)'
              = Signing!inspectSigningStatuses(statuses, config.authority.profile)
        BY <1>1 DEF Signing!inspectSigningStatuses
      <4> QED BY <4>1, <4>2
    <3>6. statuses # None
      BY <1>2 DEF VConstants
    <3> HIDE DEF seen
    <3>7. c \in Invocations /\ s \in Signing!PreservedReasons =>
             (/\ verifications[c].seen # None
              /\ Signing!inspectSigningStatuses(verifications[c].seen, config.authority.profile) = s
              /\ s \in Signing!Retryable => verifications[c].attempt = config.attempts)'
      <4>1. c \in Invocations =>
              Signing!inspectSigningStatuses(verifications[c].seen, config.authority.profile)' = s
        BY <1>1, <2>5, <3>5 DEF Signing!inspectSigningStatuses
      <4> QED BY <1>1, <2>5, <3>3, <3>4, <3>6, <4>1 DEF Signing!Retryable
    <3> QED BY <1>1, <1>4, <2>3, <2>5, <3>1, <3>2, <3>4, <3>7 DEF VGood, Signing!PreservedReasons, Signing!Retryable
  <2> QED BY <1>1, <1>2, <2>5, <2>6, VUpdate
<1> QED BY <1>7, <1>8, <1>9

\* A step that ends a verification with an answer in which no image is verified and
\* no state of the signing is named, or that goes on to the next step.
LEMMA VGoesOn ==
    ASSUME VInv, VConstants, NEW c \in Signing!Callers, NEW q, NEW r,
           q = verifications[c], r = verifications'[c], q.at # "done", r \in VCalls,
           UNCHANGED <<config, dir, signed>>, output' = output \/ output = None,
           r.attempt <= Signing!timing(c).attempts, r.at # "idle", r.at # "polling",
           r.at \in {"assets", "workspace", "notation", "cleanup"} =>
             /\ c \in Invocations => Signing!parseConfiguration(config) /\ r.event = config.authority
             /\ r.seen = VComplete(r.event),
           r.at \in {"workspace", "notation", "cleanup"} => VAssets(c),
           \/ r.answer = None
           \/ /\ r.answer.result # "VERIFIED" /\ r.answer.reason \notin Signing!PreservedReasons
              /\ r.at \in {"cleanup", "answered"}
           \/ r.answer = q.answer /\ r.event = q.event /\ r.seen = q.seen /\ r.attempt = q.attempt
              /\ (r.at \in {"cleanup", "answered"} \/ (r.at = "done" /\ c \notin Preparations)),
           c \in Invocations => VTimely(r),
           c \in workspaces' =>
             \/ r.at \in {"notation", "cleanup"}
             \/ r.at \in {"answered", "done"} /\ (r.answer = None \/ r.answer = Signing!cliResult(None))
    PROVE  VGood(c, verifications[c])'
<1>1. VGood(c, q) /\ Signing!timing(c)' = Signing!timing(c) /\ (VAssets(c)' <=> VAssets(c))
  BY DEF VInv, Signing!timing, VAssets, Signing!IsPinned
<1>2. (VTimely(r) => VTimely(verifications[c])') /\ VComplete(r.event) = VComplete(verifications[c].event)'
  BY DEF VTimely, VRest, VComplete
<1>3. Signing!parseConfiguration(config)' <=> Signing!parseConfiguration(config)
  BY DEF Signing!parseConfiguration, Signing!parseImageSignatureInvocation, Signing!parseHandlerTiming
<1>4. Signing!cliResult(None)' = Signing!cliResult(None)
  BY DEF Signing!cliResult, Signing!boundedFailure
<1>5. Signing!inspectSigningStatuses(r.seen, config.authority.profile)'
        = Signing!inspectSigningStatuses(r.seen, config.authority.profile)
  BY DEF Signing!inspectSigningStatuses
<1>6. VGood(c, r)'
  BY <1>1, <1>2, <1>3, <1>4, <1>5 DEF VGood, VComplete
<1> QED BY <1>6

LEMMA VPollFails ==
    ASSUME VInv, VConstants, NEW c \in Signing!Callers, NEW took \in {0, Signing!timing(c).attemptTimeout},
           Signing!PollFails(c, took)
    PROVE  VInv'
<1>1. PICK q, r, a : /\ q = verifications[c] /\ r = verifications'[c]
                     /\ a = Signing!boundedFailure("VERIFIER_ERROR", "SIGNING_STATUS_LOOKUP_ERROR")
  OBVIOUS
<1>2. /\ q.at = "polling" /\ UNCHANGED <<config, dir, statuses, signed, launched, output, workspaces>>
      /\ verifications' = [verifications EXCEPT ![c].at = "answered", ![c].elapsed = @ + took, ![c].answer = a]
      /\ Signing!fault
  BY <1>1 DEF Signing!PollFails
<1>3. /\ q \in VCalls /\ VGood(c, q) /\ verifications \in [Signing!Callers -> VCalls]
      /\ Signing!timing(c).attempts \in Nat /\ Signing!timing(c).attemptTimeout \in Nat
      /\ c \in Invocations => Signing!timing(c) = config
      /\ workspaces \subseteq Signing!Callers
  BY <1>1, VFacts DEF VInv
<1>4. took \in Nat /\ q.elapsed + took \in Nat
  BY <1>3 DEF VCalls
<1>5. a \in VAnswers /\ a.result # "VERIFIED" /\ a.reason \notin Signing!PreservedReasons
  BY <1>1, VFailure DEF VResults, VWhy, Signing!PreservedReasons
<1>6. /\ verifications' \in [Signing!Callers -> VCalls]
      /\ \A o \in Signing!Callers : o # c => verifications'[o] = verifications[o]
      /\ r.at = "answered" /\ r.event = q.event /\ r.attempt = q.attempt /\ r.elapsed = q.elapsed + took
      /\ r.seen = q.seen /\ r.answer = a /\ r \in VCalls
  BY <1>1, <1>2, <1>3, <1>4, <1>5 DEF VCalls, VAts
<1>7. c \notin workspaces /\ r.attempt <= Signing!timing(c).attempts
  BY <1>2, <1>3, <1>6 DEF VGood
<1>8. c \in Invocations => VTimely(r)
  <2> SUFFICES ASSUME c \in Invocations PROVE VTimely(r)
    OBVIOUS
  <2>1. q.attempt <= config.attempts /\ took \in {0, config.attemptTimeout}
    BY <1>3, <1>6, <1>7
  <2>2. q.elapsed + took + Margin <= config.deadline
    BY <1>1, <1>2, <2>1, VPolled
  <2> QED BY <1>6, <2>2 DEF VTimely
<1>9. VGood(c, verifications[c])'
  BY <1>1, <1>2, <1>5, <1>6, <1>7, <1>8, VGoesOn
<1> QED BY <1>1, <1>2, <1>3, <1>6, <1>9, VUpdate, VFault

LEMMA VAdmitAssets ==
    ASSUME VInv, VConstants, NEW c \in Signing!Callers, Signing!AdmitAssets(c)
    PROVE  VInv'
<1> DEFINE admission == IF c \in Invocations
                        THEN Signing!admitRuntimeVerifierAssets(dir, "amd64", config.manifest, config.root)
                        ELSE Signing!admitRuntimeVerifierAssets(dir, "amd64", None, None)
<1>1. PICK q, r, a : /\ q = verifications[c] /\ r = verifications'[c]
                     /\ a = Signing!boundedFailure("VERIFIER_ERROR", admission)
  OBVIOUS
<1>2. /\ q.at = "assets"
      /\ UNCHANGED <<config, dir, statuses, signed, launched, output, workspaces, failures>>
      /\ verifications' = IF admission = "READY" THEN [verifications EXCEPT ![c].at = "workspace"]
                          ELSE [verifications EXCEPT ![c].at = "answered", ![c].answer = a]
  BY <1>1 DEF Signing!AdmitAssets, Signing!ended
<1>3. /\ q \in VCalls /\ VGood(c, q) /\ verifications \in [Signing!Callers -> VCalls]
      /\ c \in Invocations => Signing!timing(c) = config
      /\ workspaces \subseteq Signing!Callers /\ failures \in 0 .. MaxFailures
  BY <1>1, VFacts DEF VInv
<1>4. /\ admission \in VReasons \cup {"READY"}
      /\ admission = "READY" =>
           /\ Signing!IsPinned(dir, "amd64", dir.entries["manifest"].contents)
           /\ dir.record.manifest = dir.entries["manifest"].contents
           /\ c \in Invocations /\ config.manifest # None => dir.record.manifest = config.manifest
  BY VAdmitted
<1>5. c \in Invocations => Signing!parseConfiguration(config) /\ q.event = config.authority
  BY <1>2, <1>3 DEF VGood
<1>6. c \in Invocations => config.manifest # None
  BY <1>5 DEF Signing!parseConfiguration
<1>7. admission = "READY" => VAssets(c)
  BY <1>4, <1>6 DEF VAssets
<1> HIDE DEF admission
<1>8. /\ c \notin workspaces /\ q.answer = None /\ q.seen = VComplete(q.event)
      /\ q.attempt <= Signing!timing(c).attempts /\ (c \in Invocations => VTimely(q))
  BY <1>2, <1>3 DEF VGood
<1>9. CASE admission = "READY"
  <2>1. verifications' = [verifications EXCEPT ![c].at = "workspace"]
    BY <1>2, <1>9
  <2>2. /\ verifications' \in [Signing!Callers -> VCalls]
        /\ \A o \in Signing!Callers : o # c => verifications'[o] = verifications[o]
        /\ r.at = "workspace" /\ r.event = q.event /\ r.attempt = q.attempt /\ r.elapsed = q.elapsed
        /\ r.seen = q.seen /\ r.answer = q.answer /\ r \in VCalls
    BY <1>1, <1>3, <2>1 DEF VCalls, VAts
  <2>3. c \in Invocations => VTimely(r)
    BY <1>2, <1>8, <2>2 DEF VTimely
  <2>4. VGood(c, verifications[c])'
    BY <1>1, <1>2, <1>5, <1>7, <1>8, <1>9, <2>2, <2>3, VGoesOn DEF VComplete
  <2> QED BY <1>1, <1>2, <1>3, <2>2, <2>4, VUpdate
<1>10. CASE admission # "READY"
  <2>1. verifications' = [verifications EXCEPT ![c].at = "answered", ![c].answer = a]
    BY <1>2, <1>10
  <2>2. a \in VAnswers /\ a.result # "VERIFIED" /\ a.reason \notin Signing!PreservedReasons
    <3>1. admission \in VWhy /\ admission \notin Signing!PreservedReasons
      BY <1>4, <1>10 DEF VWhy, VReasons, Signing!PreservedReasons
    <3> QED BY <1>1, <3>1, VFailure DEF VResults
  <2>3. /\ verifications' \in [Signing!Callers -> VCalls]
        /\ \A o \in Signing!Callers : o # c => verifications'[o] = verifications[o]
        /\ r.at = "answered" /\ r.event = q.event /\ r.attempt = q.attempt /\ r.elapsed = q.elapsed
        /\ r.seen = q.seen /\ r.answer = a /\ r \in VCalls
    BY <1>1, <1>3, <2>1, <2>2 DEF VCalls, VAts
  <2>4. c \in Invocations => VTimely(r)
    BY <1>2, <1>8, <2>3 DEF VTimely
  <2>5. VGood(c, verifications[c])'
    BY <1>1, <1>2, <1>8, <2>2, <2>3, <2>4, VGoesOn
  <2> QED BY <1>1, <1>2, <1>3, <2>3, <2>5, VUpdate
<1> QED BY <1>9, <1>10

LEMMA VMakeWorkspace ==
    ASSUME VInv, VConstants, NEW c \in Signing!Callers, Signing!MakeWorkspace(c)
    PROVE  VInv'
<1>1. PICK q, r : q = verifications[c] /\ r = verifications'[c]
  OBVIOUS
<1>2. /\ q.at = "workspace" /\ workspaces' = workspaces \cup {c}
      /\ UNCHANGED <<config, dir, statuses, signed, launched, output, failures>>
      /\ verifications' = [verifications EXCEPT ![c].at = "notation"]
  BY <1>1 DEF Signing!MakeWorkspace
<1>3. /\ q \in VCalls /\ VGood(c, q) /\ verifications \in [Signing!Callers -> VCalls]
      /\ workspaces \subseteq Signing!Callers /\ failures \in 0 .. MaxFailures
  BY <1>1, VFacts DEF VInv
<1>4. /\ q.answer = None /\ q.seen = VComplete(q.event) /\ VAssets(c)
      /\ c \in Invocations => Signing!parseConfiguration(config) /\ q.event = config.authority
      /\ q.attempt <= Signing!timing(c).attempts /\ (c \in Invocations => VTimely(q))
  BY <1>2, <1>3 DEF VGood
<1>5. /\ verifications' \in [Signing!Callers -> VCalls]
      /\ \A o \in Signing!Callers : o # c => verifications'[o] = verifications[o]
      /\ r.at = "notation" /\ r.event = q.event /\ r.attempt = q.attempt /\ r.elapsed = q.elapsed
      /\ r.seen = q.seen /\ r.answer = q.answer /\ r \in VCalls
  BY <1>1, <1>2, <1>3 DEF VCalls, VAts
<1>6. c \in Invocations => VTimely(r)
  BY <1>2, <1>4, <1>5 DEF VTimely
<1>7. VGood(c, verifications[c])'
  BY <1>1, <1>2, <1>4, <1>5, <1>6, VGoesOn DEF VComplete
<1> QED BY <1>1, <1>2, <1>3, <1>5, <1>7, VUpdate

LEMMA VMakeWorkspaceFails ==
    ASSUME VInv, VConstants, NEW c \in Signing!Callers, Signing!MakeWorkspaceFails(c)
    PROVE  VInv'
<1>1. PICK q, r, a : /\ q = verifications[c] /\ r = verifications'[c]
                     /\ a = Signing!boundedFailure("VERIFIER_ERROR", "RUNTIME_SETUP_ERROR")
  OBVIOUS
<1>2. /\ q.at = "workspace" /\ Signing!fault
      /\ UNCHANGED <<config, dir, statuses, signed, launched, output, workspaces>>
      /\ verifications' = [verifications EXCEPT ![c].at = "answered", ![c].answer = a]
  BY <1>1 DEF Signing!MakeWorkspaceFails, Signing!ended
<1>3. /\ q \in VCalls /\ VGood(c, q) /\ verifications \in [Signing!Callers -> VCalls]
      /\ workspaces \subseteq Signing!Callers
  BY <1>1, VFacts DEF VInv
<1>4. /\ c \notin workspaces /\ q.attempt <= Signing!timing(c).attempts /\ (c \in Invocations => VTimely(q))
  BY <1>2, <1>3 DEF VGood
<1>5. a \in VAnswers /\ a.result # "VERIFIED" /\ a.reason \notin Signing!PreservedReasons
  BY <1>1, VFailure DEF VResults, VWhy, Signing!PreservedReasons
<1>6. /\ verifications' \in [Signing!Callers -> VCalls]
      /\ \A o \in Signing!Callers : o # c => verifications'[o] = verifications[o]
      /\ r.at = "answered" /\ r.event = q.event /\ r.attempt = q.attempt /\ r.elapsed = q.elapsed
      /\ r.seen = q.seen /\ r.answer = a /\ r \in VCalls
  BY <1>1, <1>2, <1>3, <1>5 DEF VCalls, VAts
<1>7. c \in Invocations => VTimely(r)
  BY <1>2, <1>4, <1>6 DEF VTimely
<1>8. VGood(c, verifications[c])'
  BY <1>1, <1>2, <1>4, <1>5, <1>6, <1>7, VGoesOn
<1> QED BY <1>1, <1>2, <1>3, <1>6, <1>8, VUpdate, VFault

LEMMA VNotation ==
    ASSUME VInv, VConstants, NEW c \in Signing!Callers, verifications[c].at = "notation"
    PROVE  LET q == verifications[c] IN
           /\ q \in VCalls /\ VGood(c, q) /\ verifications \in [Signing!Callers -> VCalls]
           /\ workspaces \subseteq Signing!Callers /\ failures \in 0 .. MaxFailures
           /\ q.seen = VComplete(q.event) /\ VAssets(c) /\ q.attempt <= Signing!timing(c).attempts
           /\ c \in Invocations => Signing!parseConfiguration(config) /\ q.event = config.authority
           /\ Signing!timing(c).processTimeout \in Nat
           /\ \A took \in {0, Signing!timing(c).processTimeout} :
                /\ q.elapsed + took \in Nat
                /\ c \in Invocations => q.elapsed + took + Margin <= config.deadline
<1> DEFINE q == verifications[c]
<1>1. /\ q \in VCalls /\ VGood(c, q) /\ verifications \in [Signing!Callers -> VCalls]
      /\ workspaces \subseteq Signing!Callers /\ failures \in 0 .. MaxFailures
      /\ Signing!timing(c).processTimeout \in Nat /\ config.processTimeout \in Nat /\ Margin \in Nat
      /\ config.deadline \in Nat /\ (c \in Invocations => Signing!timing(c) = config)
  BY VFacts DEF VInv
<1>2. /\ q.seen = VComplete(q.event) /\ VAssets(c) /\ q.attempt <= Signing!timing(c).attempts
      /\ c \in Invocations => Signing!parseConfiguration(config) /\ q.event = config.authority
      /\ c \in Invocations => q.elapsed + config.processTimeout + Margin <= config.deadline
  BY <1>1 DEF VGood, VTimely
<1>3. PICK e : e = q.elapsed
  OBVIOUS
<1>4. e \in Nat
  BY <1>1, <1>3 DEF VCalls
<1>5. ASSUME NEW took \in {0, Signing!timing(c).processTimeout}
      PROVE  e + took \in Nat /\ (c \in Invocations => e + took + Margin <= config.deadline)
  BY <1>1, <1>2, <1>3, <1>4
<1> QED BY <1>1, <1>2, <1>3, <1>5

LEMMA VNotationAnswer ==
    ASSUME VConstants, NEW kind \in {"exit", "timeout", "signal", "spawn_error"},
           NEW a, a = Signing!notationVerificationResult(kind)
    PROVE  a \in VAnswers /\ a.result # "VERIFIED" /\ a.reason \notin Signing!PreservedReasons
<1>1. CASE kind = "exit"
  <2>1. a = Signing!boundedFailure("VERIFICATION_FAILED", "CRYPTOGRAPHIC_VERIFICATION_FAILED")
    BY <1>1 DEF Signing!notationVerificationResult
  <2> QED BY <2>1, VFailure DEF VResults, VWhy, Signing!PreservedReasons
<1>2. CASE kind = "timeout"
  <2>1. a = Signing!boundedFailure("VERIFIER_TIMEOUT", "CRYPTOGRAPHIC_VERIFIER_TIMEOUT")
    BY <1>2 DEF Signing!notationVerificationResult
  <2> QED BY <2>1, VFailure DEF VResults, VWhy, Signing!PreservedReasons
<1>3. CASE kind = "signal"
  <2>1. a = Signing!boundedFailure("VERIFIER_ERROR", "CRYPTOGRAPHIC_VERIFIER_SIGNAL")
    BY <1>3 DEF Signing!notationVerificationResult
  <2> QED BY <2>1, VFailure DEF VResults, VWhy, Signing!PreservedReasons
<1>4. CASE kind = "spawn_error"
  <2>1. a = Signing!boundedFailure("VERIFIER_ERROR", "CRYPTOGRAPHIC_VERIFIER_SPAWN_ERROR")
    BY <1>4 DEF Signing!notationVerificationResult
  <2> QED BY <2>1, VFailure DEF VResults, VWhy, Signing!PreservedReasons
<1> QED BY <1>1, <1>2, <1>3, <1>4

\* notation ends without an image verified.
LEMMA VNotationRefuses ==
    ASSUME VInv, VConstants, NEW c \in Signing!Callers, NEW a \in VAnswers,
           a.result # "VERIFIED", a.reason \notin Signing!PreservedReasons,
           NEW took \in {0, Signing!timing(c).processTimeout}, verifications[c].at = "notation",
           failures' \in 0 .. MaxFailures,
           UNCHANGED <<config, dir, statuses, signed, launched, output, workspaces>>
    PROVE  verifications' = [verifications EXCEPT ![c].at = "cleanup", ![c].elapsed = @ + took, ![c].answer = a]
             => VInv'
<1>0. SUFFICES ASSUME verifications' = [verifications EXCEPT ![c].at = "cleanup", ![c].elapsed = @ + took, ![c].answer = a]
               PROVE  VInv'
  OBVIOUS
<1>1. PICK q, r : q = verifications[c] /\ r = verifications'[c]
  OBVIOUS
<1>2. took \in Nat
  BY VNotation
<1>3. /\ q \in VCalls /\ verifications \in [Signing!Callers -> VCalls] /\ workspaces \subseteq Signing!Callers
      /\ q.seen = VComplete(q.event) /\ VAssets(c) /\ q.attempt <= Signing!timing(c).attempts
      /\ c \in Invocations => Signing!parseConfiguration(config) /\ q.event = config.authority
      /\ q.elapsed + took \in Nat
      /\ c \in Invocations => q.elapsed + took + Margin <= config.deadline
  BY <1>1, VNotation
<1>5. /\ verifications' \in [Signing!Callers -> VCalls]
      /\ \A o \in Signing!Callers : o # c => verifications'[o] = verifications[o]
      /\ r.at = "cleanup" /\ r.event = q.event /\ r.attempt = q.attempt /\ r.elapsed = q.elapsed + took
      /\ r.seen = q.seen /\ r.answer = a /\ r \in VCalls
  BY <1>0, <1>1, <1>2, <1>3 DEF VCalls, VAts
<1>6. c \in Invocations => VTimely(r)
  BY <1>3, <1>5 DEF VTimely
<1>7. r.seen = VComplete(r.event) /\ (c \in Invocations => r.event = config.authority)
  BY <1>3, <1>5 DEF VComplete
<1>8. VGood(c, verifications[c])'
  BY <1>1, <1>2, <1>3, <1>5, <1>6, <1>7, VGoesOn
<1> QED BY <1>1, <1>3, <1>5, <1>8, VUpdate

LEMMA VNotationFails ==
    ASSUME VInv, VConstants, NEW c \in Signing!Callers, NEW kind \in {"exit", "timeout", "signal", "spawn_error"},
           Signing!NotationFails(c, kind)
    PROVE  VInv'
<1>1. PICK took, a : /\ took = IF kind = "timeout" THEN Signing!timing(c).processTimeout ELSE 0
                     /\ a = Signing!notationVerificationResult(kind)
  OBVIOUS
<1>2. took \in {0, Signing!timing(c).processTimeout}
  BY <1>1
<1>3. /\ verifications[c].at = "notation" /\ Signing!fault
      /\ verifications' = [verifications EXCEPT ![c].at = "cleanup", ![c].elapsed = @ + took,
                                ![c].answer = a]
      /\ UNCHANGED <<config, dir, statuses, signed, launched, output, workspaces>>
  BY <1>1 DEF Signing!NotationFails
<1>4. a \in VAnswers /\ a.result # "VERIFIED" /\ a.reason \notin Signing!PreservedReasons
  BY <1>1, VNotationAnswer
<1> QED BY <1>2, <1>3, <1>4, VFault, VNotationRefuses

\* notation accepts the image: a valid signature of the invocation's profile exists.
LEMMA VRunNotation ==
    ASSUME VInv, VConstants, NEW c \in Signing!Callers, NEW took \in {0, Signing!timing(c).processTimeout},
           Signing!RunNotation(c, took)
    PROVE  VInv'
<1>1. PICK q, r, a : /\ q = verifications[c] /\ r = verifications'[c]
                     /\ a = Signing!notationVerificationResult("success")
  OBVIOUS
<1>2. /\ q.at = "notation"
      /\ UNCHANGED <<config, dir, statuses, signed, launched, output, workspaces, failures>>
  BY <1>1 DEF Signing!RunNotation
<1>3. /\ q \in VCalls /\ verifications \in [Signing!Callers -> VCalls] /\ workspaces \subseteq Signing!Callers
      /\ failures \in 0 .. MaxFailures
      /\ q.seen = VComplete(q.event) /\ VAssets(c) /\ q.attempt <= Signing!timing(c).attempts
      /\ c \in Invocations => Signing!parseConfiguration(config) /\ q.event = config.authority
      /\ q.elapsed + took \in Nat
      /\ c \in Invocations => q.elapsed + took + Margin <= config.deadline
  BY <1>1, <1>2, VNotation
<1>4. CASE ~Signing!notationAccepts(c)
  <2>1. PICK x : x = Signing!notationVerificationResult("exit")
    OBVIOUS
  <2>2. verifications' = [verifications EXCEPT ![c].at = "cleanup", ![c].elapsed = @ + took, ![c].answer = x]
    BY <1>4, <2>1 DEF Signing!RunNotation
  <2>3. x \in VAnswers /\ x.result # "VERIFIED" /\ x.reason \notin Signing!PreservedReasons
    BY <2>1, VNotationAnswer
  <2> QED BY <1>1, <1>2, <1>3, <2>2, <2>3, VNotationRefuses
<1>5. CASE Signing!notationAccepts(c)
  <2>1. verifications' = [verifications EXCEPT ![c].at = "cleanup", ![c].elapsed = @ + took, ![c].answer = a]
    BY <1>1, <1>5 DEF Signing!RunNotation
  <2>2. a = [result |-> "VERIFIED", reason |-> None, manifest |-> dir.record.manifest, root |-> dir.record.root]
    BY <1>1 DEF Signing!notationVerificationResult
  <2>3. a \in VAnswers /\ a.result = "VERIFIED"
    <3>1. dir \in Directories
      BY DEF VInv
    <3> QED BY <2>2, <3>1 DEF VAnswers, VResults
  <2>4. /\ verifications' \in [Signing!Callers -> VCalls]
        /\ \A o \in Signing!Callers : o # c => verifications'[o] = verifications[o]
        /\ r.at = "cleanup" /\ r.event = q.event /\ r.attempt = q.attempt /\ r.elapsed = q.elapsed + took
        /\ r.seen = q.seen /\ r.answer = a
    BY <1>1, <1>3, <2>1, <2>3 DEF VCalls, VAts
  <2>5. c \in Invocations => VTimely(r)
    BY <1>3, <2>4 DEF VTimely
  <2>6. q.event.profile \in signed
    BY <1>1, <1>5 DEF Signing!notationAccepts
  <2>7. VGood(c, r)'
    <3>1. Signing!timing(c)' = Signing!timing(c) /\ VAssets(c)'
      BY <1>2, <1>3 DEF Signing!timing, VAssets, Signing!IsPinned
    <3>2. VTimely(r) => VTimely(r)'
      BY <1>2 DEF VTimely, VRest
    <3>3. Signing!parseConfiguration(config)' <=> Signing!parseConfiguration(config)
      BY <1>2 DEF Signing!parseConfiguration, Signing!parseImageSignatureInvocation, Signing!parseHandlerTiming
    <3>4. r.seen = VComplete(r.event)'
      BY <1>3, <2>4 DEF VComplete
    <3> QED BY <1>2, <1>3, <2>3, <2>4, <2>5, <2>6, <3>1, <3>2, <3>3, <3>4 DEF VGood
  <2>8. VGood(c, verifications[c])'
    BY <1>1, <2>7
  <2> QED BY <1>1, <1>2, <1>3, <2>4, <2>8, VUpdate
<1> QED BY <1>4, <1>5

\* Cleaning up, whether it succeeds or throws in place of the answer.
LEMMA VCleanUp ==
    ASSUME VInv, VConstants, NEW c \in Signing!Callers, Signing!CleanUp(c) \/ Signing!CleanUpFails(c)
    PROVE  VInv'
<1>1. PICK q, r : q = verifications[c] /\ r = verifications'[c]
  OBVIOUS
<1>2. q.at = "cleanup" /\ UNCHANGED <<config, dir, statuses, signed, launched, output>>
  BY <1>1 DEF Signing!CleanUp, Signing!CleanUpFails
<1>3. /\ q \in VCalls /\ VGood(c, q) /\ verifications \in [Signing!Callers -> VCalls]
      /\ workspaces \subseteq Signing!Callers /\ failures \in 0 .. MaxFailures
      /\ q.attempt <= Signing!timing(c).attempts /\ (c \in Invocations => VTimely(q))
  BY <1>1, VFacts DEF VInv, VGood
<1>4. CASE Signing!CleanUp(c)
  <2>1. /\ verifications' = [verifications EXCEPT ![c].at = "answered"]
        /\ workspaces' = workspaces \ {c} /\ failures' = failures
    BY <1>4 DEF Signing!CleanUp
  <2>2. /\ verifications' \in [Signing!Callers -> VCalls]
        /\ \A o \in Signing!Callers : o # c => verifications'[o] = verifications[o]
        /\ r.at = "answered" /\ r.event = q.event /\ r.attempt = q.attempt /\ r.elapsed = q.elapsed
        /\ r.seen = q.seen /\ r.answer = q.answer /\ r \in VCalls
    BY <1>1, <1>3, <2>1 DEF VCalls, VAts
  <2>3. c \in Invocations => VTimely(r)
    BY <1>2, <1>3, <2>2 DEF VTimely
  <2>4. VGood(c, verifications[c])'
    BY <1>1, <1>2, <1>3, <2>1, <2>2, <2>3, VGoesOn
  <2> QED BY <1>1, <1>2, <1>3, <2>1, <2>2, <2>4, VUpdate
<1>5. CASE Signing!CleanUpFails(c)
  <2>1. /\ verifications' = [verifications EXCEPT ![c].at = "answered", ![c].answer = None]
        /\ workspaces' = workspaces /\ Signing!fault
    BY <1>5 DEF Signing!CleanUpFails, Signing!ended
  <2>2. /\ verifications' \in [Signing!Callers -> VCalls]
        /\ \A o \in Signing!Callers : o # c => verifications'[o] = verifications[o]
        /\ r.at = "answered" /\ r.event = q.event /\ r.attempt = q.attempt /\ r.elapsed = q.elapsed
        /\ r.seen = q.seen /\ r.answer = None /\ r \in VCalls
    BY <1>1, <1>3, <2>1 DEF VCalls, VAts
  <2>3. c \in Invocations => VTimely(r)
    BY <1>2, <1>3, <2>2 DEF VTimely
  <2>4. VGood(c, verifications[c])'
    BY <1>1, <1>2, <1>3, <2>1, <2>2, <2>3, VGoesOn
  <2> QED BY <1>1, <1>2, <1>3, <2>1, <2>2, <2>4, VUpdate, VFault
<1> QED BY <1>4, <1>5

LEMMA VIdle ==
    ASSUME VInv, VConstants, NEW c \in Signing!Callers, verifications[c].at = "idle"
    PROVE  LET q == verifications[c] IN
           /\ q \in VCalls /\ q.attempt = 0 /\ q.elapsed = 0 /\ q.seen = None /\ q.answer = None
           /\ c \notin workspaces
<1>1. PICK q : q = verifications[c]
  OBVIOUS
<1>2. q \in VCalls /\ VGood(c, q)
  BY <1>1 DEF VInv
<1>3. q = [Signing!Idle EXCEPT !.tries = q.tries] /\ c \notin workspaces
  BY <1>1, <1>2 DEF VGood
<1>4. q.attempt = 0 /\ q.elapsed = 0 /\ q.seen = None /\ q.answer = None
  <2>1. PICK t : t = q.tries
    OBVIOUS
  <2>2. q = [Signing!Idle EXCEPT !.tries = t]
    BY <1>3, <2>1
  <2> QED BY <2>2 DEF Signing!Idle
<1> QED BY <1>1, <1>2, <1>3, <1>4

\* A request that is answered at once.
LEMMA VRefused ==
    ASSUME VInv, VConstants, NEW c \in Signing!Callers, NEW event \in Events \cup {None}, NEW a,
           verifications[c].at = "idle",
           a = None \/ (a \in VAnswers /\ a.result # "VERIFIED" /\ a.reason \notin Signing!PreservedReasons),
           UNCHANGED <<config, dir, statuses, signed, launched, output, workspaces, failures>>
    PROVE  verifications' = [verifications EXCEPT ![c] = Signing!refused(c, event, a)] => VInv'
<1>0. SUFFICES ASSUME verifications' = [verifications EXCEPT ![c] = Signing!refused(c, event, a)]
               PROVE  VInv'
  OBVIOUS
<1>1. PICK q, r : q = verifications[c] /\ r = Signing!refused(c, event, a)
  OBVIOUS
<1>2. /\ q \in VCalls /\ q.attempt = 0 /\ q.elapsed = 0 /\ q.seen = None /\ q.answer = None /\ q.at = "idle"
      /\ c \notin workspaces /\ verifications \in [Signing!Callers -> VCalls]
      /\ Signing!timing(c).attempts \in Nat /\ failures \in 0 .. MaxFailures /\ workspaces \subseteq Signing!Callers
  BY <1>1, VIdle, VFacts DEF VInv
<1>3. r = [q EXCEPT !.event = event, !.at = "answered", !.answer = a]
  BY <1>1 DEF Signing!refused
<1>4. /\ r \in VCalls /\ r.at = "answered" /\ r.attempt = 0 /\ r.elapsed = 0 /\ r.answer = a
  BY <1>2, <1>3 DEF VCalls, VAts
<1>5. /\ verifications' \in [Signing!Callers -> VCalls] /\ verifications'[c] = r
      /\ \A o \in Signing!Callers : o # c => verifications'[o] = verifications[o]
  BY <1>0, <1>1, <1>2, <1>4
<1>6. VTimely(r)
  BY <1>4 DEF VTimely
<1>7. VGood(c, verifications[c])'
  BY <1>1, <1>2, <1>4, <1>5, <1>6, VGoesOn
<1> QED BY <1>1, <1>2, <1>5, <1>7, VUpdate

\* A request that goes on to poll.
LEMMA VAccepted ==
    ASSUME VInv, VConstants, NEW c \in Signing!Callers, NEW event \in Events \cup {None},
           verifications[c].at = "idle",
           c \in Invocations => Signing!parseConfiguration(config) /\ event = config.authority,
           UNCHANGED <<config, dir, statuses, signed, launched, output, workspaces, failures>>
    PROVE  verifications' = [verifications EXCEPT ![c] = Signing!accepted(c, event)] => VInv'
<1>0. SUFFICES ASSUME verifications' = [verifications EXCEPT ![c] = Signing!accepted(c, event)]
               PROVE  VInv'
  OBVIOUS
<1>1. PICK q, r : q = verifications[c] /\ r = Signing!accepted(c, event)
  OBVIOUS
<1>2. /\ q \in VCalls /\ q.attempt = 0 /\ q.elapsed = 0 /\ q.seen = None /\ q.answer = None /\ q.at = "idle"
      /\ c \notin workspaces /\ verifications \in [Signing!Callers -> VCalls]
      /\ failures \in 0 .. MaxFailures /\ workspaces \subseteq Signing!Callers
      /\ c \in Invocations => Signing!timing(c) = config
      /\ c \in Invocations \/ c \in Preparations
  BY <1>1, VIdle, VFacts DEF VInv
<1>3. r = [q EXCEPT !.event = event, !.at = "polling", !.attempt = 1]
  BY <1>1 DEF Signing!accepted
<1>4. r \in VCalls /\ r.at = "polling" /\ r.attempt = 1 /\ r.elapsed = 0 /\ r.answer = None /\ r.event = event
  BY <1>2, <1>3 DEF VCalls, VAts
<1>5. /\ verifications' \in [Signing!Callers -> VCalls] /\ verifications'[c] = r
      /\ \A o \in Signing!Callers : o # c => verifications'[o] = verifications[o]
  BY <1>0, <1>1, <1>2, <1>4
<1>6. ASSUME c \in Invocations PROVE VTimely(r) /\ 1 <= config.attempts
  <2>1. PICK N, T, R, P, D : /\ N = config.attempts /\ T = config.attemptTimeout /\ R = config.retryDelay
                             /\ P = config.processTimeout /\ D = config.deadline
    OBVIOUS
  <2>2. /\ N \in Nat /\ T \in Nat /\ R \in Nat /\ P \in Nat /\ D \in Nat /\ Margin \in Nat
    BY <2>1, VFacts
  <2>3. N >= 1 /\ P + N * T + (N - 1) * R + Margin <= D
    BY <1>6, <2>1 DEF Signing!parseConfiguration, Signing!parseHandlerTiming
  <2>4. N * T = (N - 1) * T + T
    <3>1. PICK m \in Nat : m = N - 1
      BY <2>2, <2>3
    <3>2. (m + 1) * T = m * T + T
      BY <2>2
    <3>3. N = m + 1
      BY <2>2, <3>1
    <3> QED BY <3>1, <3>2, <3>3
  <2>5. PICK x, y : x = (N - 1) * T /\ y = (N - 1) * R
    OBVIOUS
  <2>6. x \in Nat /\ y \in Nat
    BY <2>2, <2>3, <2>5, VTimes
  <2>7. 0 + T + (x + y) + P + Margin <= D
    BY <2>2, <2>3, <2>4, <2>5, <2>6
  <2>8. VRest(r) = x + y
    BY <1>4, <2>1, <2>5 DEF VRest
  <2> QED BY <1>4, <2>1, <2>3, <2>7, <2>8 DEF VTimely
<1>7. 1 <= Signing!timing(c).attempts
  <2>1. CASE c \in Invocations
    BY <1>2, <1>6, <2>1
  <2>2. CASE c \notin Invocations
    BY <2>2 DEF Signing!timing
  <2> QED BY <2>1, <2>2
<1>8. VGood(c, r)'
  <2>1. Signing!timing(c)' = Signing!timing(c)
    BY DEF Signing!timing
  <2>2. VTimely(r) => VTimely(r)'
    BY DEF VTimely, VRest
  <2>3. Signing!parseConfiguration(config)' <=> Signing!parseConfiguration(config)
    BY DEF Signing!parseConfiguration, Signing!parseImageSignatureInvocation, Signing!parseHandlerTiming
  <2> QED BY <1>2, <1>4, <1>6, <1>7, <2>1, <2>2, <2>3 DEF VGood
<1>9. VGood(c, verifications[c])'
  BY <1>5, <1>8
<1> QED BY <1>1, <1>2, <1>5, <1>9, VUpdate

LEMMA VInvoke ==
    ASSUME VInv, VConstants, NEW e \in Invocations, NEW event \in Events, NEW credentials,
           Signing!Invoke(e, event, credentials)
    PROVE  VInv'
<1>1. /\ verifications[e].at = "idle" /\ e \in Signing!Callers
      /\ UNCHANGED <<config, dir, statuses, signed, launched, output, workspaces, failures>>
  BY DEF Signing!Invoke, Signing!Callers
<1>2. PICK x, y : /\ x = Signing!boundedFailure("VERIFICATION_FAILED", "INVOCATION_AUTHORITY_MISMATCH")
                  /\ y = Signing!boundedFailure("VERIFIER_ERROR", "CREDENTIAL_SOURCE_INVALID")
  OBVIOUS
<1>3. /\ x \in VAnswers /\ x.result # "VERIFIED" /\ x.reason \notin Signing!PreservedReasons
      /\ y \in VAnswers /\ y.result # "VERIFIED" /\ y.reason \notin Signing!PreservedReasons
  BY <1>2, VFailure DEF VResults, VWhy, Signing!PreservedReasons
<1>4. CASE ~Signing!parseConfiguration(config)
  <2>1. verifications' = [verifications EXCEPT ![e] = Signing!refused(e, event, None)]
    BY <1>4 DEF Signing!Invoke
  <2> QED BY <1>1, <2>1, VRefused
<1>5. CASE Signing!parseConfiguration(config) /\ ~Signing!eventMatchesAuthority(event)
  <2>1. verifications' = [verifications EXCEPT ![e] = Signing!refused(e, event, x)]
    BY <1>2, <1>5 DEF Signing!Invoke
  <2> QED BY <1>1, <1>3, <2>1, VRefused
<1>6. CASE /\ Signing!parseConfiguration(config) /\ Signing!eventMatchesAuthority(event)
           /\ ~Signing!selectAwsCredentialEnvironment(credentials)
  <2>1. verifications' = [verifications EXCEPT ![e] = Signing!refused(e, event, y)]
    BY <1>2, <1>6 DEF Signing!Invoke
  <2> QED BY <1>1, <1>3, <2>1, VRefused
<1>7. CASE /\ Signing!parseConfiguration(config) /\ Signing!eventMatchesAuthority(event)
           /\ Signing!selectAwsCredentialEnvironment(credentials)
  <2>1. verifications' = [verifications EXCEPT ![e] = Signing!accepted(e, event)]
    BY <1>7 DEF Signing!Invoke
  <2>2. event = config.authority
    BY <1>7 DEF Signing!eventMatchesAuthority
  <2> QED BY <1>1, <1>7, <2>1, <2>2, VAccepted
<1> QED BY <1>4, <1>5, <1>6, <1>7

LEMMA VStartCli ==
    ASSUME VInv, VConstants, NEW p \in Preparations, NEW event \in Events, NEW input \in BOOLEAN, NEW credentials,
           Signing!StartCli(p, event, input, credentials)
    PROVE  VInv'
<1>1. /\ verifications[p].at = "idle" /\ p \in Signing!Callers /\ p \notin Invocations
      /\ UNCHANGED <<config, dir, statuses, signed, launched, output, workspaces, failures>>
  BY DEF Signing!StartCli, Signing!Callers, VConstants
<1>2. PICK x, y : /\ x = Signing!boundedFailure("VERIFICATION_FAILED", "INVALID_INVOCATION")
                  /\ y = Signing!boundedFailure("VERIFIER_ERROR", "CREDENTIAL_SOURCE_INVALID")
  OBVIOUS
<1>3. /\ x \in VAnswers /\ x.result # "VERIFIED" /\ x.reason \notin Signing!PreservedReasons
      /\ y \in VAnswers /\ y.result # "VERIFIED" /\ y.reason \notin Signing!PreservedReasons
  BY <1>2, VFailure DEF VResults, VWhy, Signing!PreservedReasons
<1>4. CASE output # None
  <2>1. verifications' = [verifications EXCEPT ![p] = [verifications[p] EXCEPT !.at = "done", !.answer = None]]
    BY <1>4 DEF Signing!StartCli
  <2>2. PICK q, r : q = verifications[p] /\ r = verifications'[p]
    OBVIOUS
  <2>3. /\ q \in VCalls /\ q.attempt = 0 /\ q.elapsed = 0 /\ p \notin workspaces /\ q.at = "idle"
        /\ verifications \in [Signing!Callers -> VCalls] /\ Signing!timing(p).attempts \in Nat
        /\ failures \in 0 .. MaxFailures /\ workspaces \subseteq Signing!Callers
    BY <1>1, <2>2, VIdle, VFacts DEF VInv
  <2>4. /\ verifications' \in [Signing!Callers -> VCalls]
        /\ \A o \in Signing!Callers : o # p => verifications'[o] = verifications[o]
        /\ r \in VCalls /\ r.at = "done" /\ r.attempt = 0 /\ r.answer = None
    BY <1>1, <2>1, <2>2, <2>3 DEF VCalls, VAts
  <2>5. VGood(p, verifications[p])'
    BY <1>1, <2>2, <2>3, <2>4, VGoesOn
  <2> QED BY <1>1, <2>2, <2>3, <2>4, <2>5, VUpdate
<1>5. CASE output = None /\ ~input
  <2>1. verifications' = [verifications EXCEPT ![p] = Signing!refused(p, event, None)]
    BY <1>5 DEF Signing!StartCli
  <2> QED BY <1>1, <2>1, VRefused
<1>6. CASE output = None /\ input /\ ~Signing!parseImageSignatureInvocation(event)
  <2>1. verifications' = [verifications EXCEPT ![p] = Signing!refused(p, event, x)]
    BY <1>2, <1>6 DEF Signing!StartCli
  <2> QED BY <1>1, <1>3, <2>1, VRefused
<1>7. CASE /\ output = None /\ input /\ Signing!parseImageSignatureInvocation(event)
           /\ ~Signing!selectAwsCredentialEnvironment(credentials)
  <2>1. verifications' = [verifications EXCEPT ![p] = Signing!refused(p, event, y)]
    BY <1>2, <1>7 DEF Signing!StartCli
  <2> QED BY <1>1, <1>3, <2>1, VRefused
<1>8. CASE /\ output = None /\ input /\ Signing!parseImageSignatureInvocation(event)
           /\ Signing!selectAwsCredentialEnvironment(credentials)
  <2>1. verifications' = [verifications EXCEPT ![p] = Signing!accepted(p, event)]
    BY <1>8 DEF Signing!StartCli
  <2> QED BY <1>1, <2>1, VAccepted
<1> QED BY <1>4, <1>5, <1>6, <1>7, <1>8

\* The answer reaches the state machine.
LEMMA VAnswer ==
    ASSUME VInv, VConstants, NEW e \in Invocations, Signing!Answer(e)
    PROVE  VInv'
<1>1. PICK q, r : q = verifications[e] /\ r = verifications'[e]
  OBVIOUS
<1>2. /\ q.at = "answered" /\ UNCHANGED <<config, dir, statuses, signed, output, workspaces, failures>>
      /\ verifications' = [verifications EXCEPT ![e].at = "done"] /\ e \in Signing!Callers /\ e \notin Preparations
  BY <1>1 DEF Signing!Answer, Signing!Callers, VConstants
<1>3. /\ q \in VCalls /\ VGood(e, q) /\ verifications \in [Signing!Callers -> VCalls]
      /\ workspaces \subseteq Signing!Callers /\ failures \in 0 .. MaxFailures
      /\ q.attempt <= Signing!timing(e).attempts /\ VTimely(q)
      /\ e \in workspaces => (q.answer = None \/ q.answer = Signing!cliResult(None))
  BY <1>1, <1>2, VFacts DEF VInv, VGood
<1>4. /\ verifications' \in [Signing!Callers -> VCalls]
      /\ \A o \in Signing!Callers : o # e => verifications'[o] = verifications[o]
      /\ r.at = "done" /\ r.event = q.event /\ r.attempt = q.attempt /\ r.elapsed = q.elapsed
      /\ r.seen = q.seen /\ r.answer = q.answer /\ r \in VCalls
  BY <1>1, <1>2, <1>3 DEF VCalls, VAts
<1>5. VTimely(r)
  BY <1>3, <1>4 DEF VTimely
<1>6. VGood(e, verifications[e])'
  BY <1>1, <1>2, <1>3, <1>4, <1>5, VGoesOn
<1>7. \/ launched' = launched
      \/ launched' = launched \cup {e} /\ r.answer # None /\ r.answer.result = "VERIFIED"
  <2>1. CASE Signing!normalizeLambdaResult(q.answer) # "VERIFIED"
    BY <1>1, <2>1 DEF Signing!Answer
  <2>2. CASE Signing!normalizeLambdaResult(q.answer) = "VERIFIED"
    <3>1. launched' = launched \cup {e}
      BY <1>1, <2>2 DEF Signing!Answer
    <3>2. q.answer # None /\ q.answer.result = "VERIFIED"
      BY <2>2 DEF Signing!normalizeLambdaResult, Signing!PreservedReasons
    <3> QED BY <1>4, <3>1, <3>2
  <2> QED BY <2>1, <2>2
<1> QED BY <1>1, <1>2, <1>3, <1>4, <1>6, <1>7, VUpdate

\* The execution starts again, or is told nothing.
LEMMA VInvocationLost ==
    ASSUME VInv, VConstants, NEW e \in Invocations, NEW service \in BOOLEAN, Signing!InvocationLost(e, service)
    PROVE  VInv'
<1>1. PICK q, r : q = verifications[e] /\ r = verifications'[e]
  OBVIOUS
<1>2. /\ q.at \notin {"idle", "done"} /\ UNCHANGED <<config, dir, statuses, signed, launched, output>>
      /\ workspaces' = workspaces \ {e} /\ e \in Signing!Callers /\ e \notin Preparations /\ Signing!fault
  BY <1>1 DEF Signing!InvocationLost, Signing!Callers, VConstants
<1>3. /\ q \in VCalls /\ VGood(e, q) /\ verifications \in [Signing!Callers -> VCalls]
      /\ workspaces \subseteq Signing!Callers /\ Signing!timing(e).attempts \in Nat
      /\ q.attempt <= Signing!timing(e).attempts /\ VTimely(q) /\ Retries \in Nat
  BY <1>1, <1>2, VFacts DEF VInv, VGood, VConstants
<1>4. CASE service /\ q.tries < Retries
  <2>1. PICK t : t = q.tries + 1
    OBVIOUS
  <2>2. t \in 0 .. Retries
    BY <1>3, <1>4, <2>1 DEF VCalls
  <2>3. verifications' = [verifications EXCEPT ![e] = [Signing!Idle EXCEPT !.tries = t]]
    BY <1>1, <1>4, <2>1 DEF Signing!InvocationLost
  <2>4. PICK i : i = [Signing!Idle EXCEPT !.tries = t]
    OBVIOUS
  <2>5. /\ i \in VCalls /\ i.at = "idle" /\ i.attempt = 0 /\ i.elapsed = 0 /\ i.answer = None /\ i.tries = t
        /\ i.seen = None
    BY <2>2, <2>4 DEF Signing!Idle, VCalls, VAts
  <2>6. /\ verifications' \in [Signing!Callers -> VCalls] /\ verifications'[e] = i
        /\ \A o \in Signing!Callers : o # e => verifications'[o] = verifications[o]
    BY <1>2, <1>3, <2>3, <2>4, <2>5
  <2>7. VGood(e, i)'
    <3>1. Signing!timing(e)' = Signing!timing(e)
      BY <1>2 DEF Signing!timing
    <3>2. VTimely(i)'
      BY <2>5 DEF VTimely
    <3>3. e \notin workspaces' /\ i = [Signing!Idle EXCEPT !.tries = i.tries]
      BY <1>2, <2>4, <2>5
    <3> QED BY <1>2, <1>3, <2>5, <3>1, <3>2, <3>3 DEF VGood
  <2>8. VGood(e, verifications[e])'
    BY <2>6, <2>7
  <2> QED BY <1>1, <1>2, <1>3, <2>6, <2>8, VUpdate, VFault
<1>5. CASE ~(service /\ q.tries < Retries)
  <2>1. verifications' = [verifications EXCEPT ![e] = [verifications[e] EXCEPT !.at = "done", !.answer = None]]
    BY <1>1, <1>5 DEF Signing!InvocationLost
  <2>2. /\ verifications' \in [Signing!Callers -> VCalls]
        /\ \A o \in Signing!Callers : o # e => verifications'[o] = verifications[o]
        /\ r.at = "done" /\ r.attempt = q.attempt /\ r.elapsed = q.elapsed /\ r.answer = None /\ r \in VCalls
    BY <1>1, <1>2, <1>3, <2>1 DEF VCalls, VAts
  <2>3. VTimely(r)
    BY <1>3, <2>2 DEF VTimely
  <2>4. VGood(e, verifications[e])'
    BY <1>1, <1>2, <1>3, <2>2, <2>3, VGoesOn
  <2> QED BY <1>1, <1>2, <1>3, <2>2, <2>4, VUpdate, VFault
<1> QED BY <1>4, <1>5

\* A preparation that has no result to show.
LEMMA VUntold ==
    ASSUME VInv, VConstants, NEW p \in Preparations, verifications[p].at = "answered",
           UNCHANGED <<config, dir, statuses, signed, launched, workspaces>>,
           output' = output \/ output = None, failures' \in 0 .. MaxFailures
    PROVE  verifications' = [verifications EXCEPT ![p].at = "done", ![p].answer = None] => VInv'
<1>0. SUFFICES ASSUME verifications' = [verifications EXCEPT ![p].at = "done", ![p].answer = None]
               PROVE  VInv'
  OBVIOUS
<1>1. PICK q, r : q = verifications[p] /\ r = verifications'[p]
  OBVIOUS
<1>2. q.at = "answered" /\ p \in Signing!Callers /\ p \notin Invocations
  BY <1>1 DEF Signing!Callers, VConstants
<1>3. /\ q \in VCalls /\ verifications \in [Signing!Callers -> VCalls]
      /\ workspaces \subseteq Signing!Callers /\ q.attempt <= Signing!timing(p).attempts
  BY <1>1, <1>2, VFacts DEF VInv, VGood
<1>4. /\ verifications' \in [Signing!Callers -> VCalls]
      /\ \A o \in Signing!Callers : o # p => verifications'[o] = verifications[o]
      /\ r.at = "done" /\ r.attempt = q.attempt /\ r.answer = None /\ r \in VCalls
  BY <1>0, <1>1, <1>2, <1>3 DEF VCalls, VAts
<1>5. VGood(p, verifications[p])'
  BY <1>1, <1>2, <1>3, <1>4, VGoesOn
<1> QED BY <1>1, <1>2, <1>3, <1>4, <1>5, VUpdate

LEMMA VWriteResultFails ==
    ASSUME VInv, VConstants, NEW p \in Preparations, NEW created \in BOOLEAN, Signing!WriteResultFails(p, created)
    PROVE  VInv'
<1>1. /\ verifications[p].at = "answered" /\ UNCHANGED <<config, dir, statuses, signed, launched, workspaces>>
      /\ output' = output \/ output = None
      /\ verifications' = [verifications EXCEPT ![p].at = "done", ![p].answer = None] /\ Signing!fault
  BY DEF Signing!WriteResultFails
<1> QED BY <1>1, VUntold, VFault

\* The result is written by one preparation.
LEMMA VWriteResult ==
    ASSUME VInv, VConstants, NEW p \in Preparations, Signing!WriteResult(p)
    PROVE  VInv'
<1>1. PICK q, r, a : q = verifications[p] /\ r = verifications'[p] /\ a = Signing!cliResult(q.answer)
  OBVIOUS
<1>2. /\ q.at = "answered" /\ p \in Signing!Callers /\ p \notin Invocations
      /\ UNCHANGED <<config, dir, statuses, signed, launched, workspaces, failures>>
  BY <1>1 DEF Signing!WriteResult, Signing!Callers, VConstants
<1>3. /\ q \in VCalls /\ VGood(p, q) /\ verifications \in [Signing!Callers -> VCalls]
      /\ workspaces \subseteq Signing!Callers /\ failures \in 0 .. MaxFailures
      /\ q.attempt <= Signing!timing(p).attempts
  BY <1>1, <1>2, VFacts DEF VInv, VGood
<1>4. CASE output # None
  <2>1. output' = output /\ verifications' = [verifications EXCEPT ![p].at = "done", ![p].answer = None]
    BY <1>4 DEF Signing!WriteResult
  <2> QED BY <1>1, <1>2, <1>3, <2>1, VUntold
<1>5. CASE output = None
  <2>1. /\ output' = [by |-> p, result |-> a]
        /\ verifications' = [verifications EXCEPT ![p].at = "done", ![p].answer = a]
    BY <1>1, <1>5 DEF Signing!WriteResult
  <2>2. a \in VAnswers /\ (a.result = "VERIFIED" => a = q.answer /\ q.answer # None)
    <3>1. CASE q.answer = None
      <4>1. a = Signing!boundedFailure("VERIFIER_ERROR", "CLI_CONTRACT_ERROR")
        BY <1>1, <3>1 DEF Signing!cliResult
      <4> QED BY <4>1, VFailure DEF VResults, VWhy
    <3>2. CASE q.answer # None
      BY <1>1, <1>3, <3>2 DEF Signing!cliResult, VCalls
    <3> QED BY <3>1, <3>2
  <2>3. /\ verifications' \in [Signing!Callers -> VCalls]
        /\ \A o \in Signing!Callers : o # p => verifications'[o] = verifications[o]
        /\ r.at = "done" /\ r.event = q.event /\ r.attempt = q.attempt
        /\ r.seen = q.seen /\ r.answer = a /\ r \in VCalls
    BY <1>1, <1>2, <1>3, <2>1, <2>2 DEF VCalls, VAts
  <2>4. VGood(p, r)'
    <3>1. Signing!timing(p)' = Signing!timing(p) /\ (VAssets(p)' <=> VAssets(p))
      BY <1>2 DEF Signing!timing, VAssets, Signing!IsPinned
    <3>2. a = q.answer \/ a = Signing!cliResult(None)
      BY <1>1 DEF Signing!cliResult
    <3>3. p \in workspaces => a = Signing!cliResult(None)
      BY <1>1, <1>2, <1>3, <3>2 DEF VGood
    <3>4. Signing!cliResult(None)' = Signing!cliResult(None)
      BY DEF Signing!cliResult, Signing!boundedFailure
    <3>5. a.result = "VERIFIED" => q.event.profile \in signed /\ q.seen = VComplete(q.event) /\ VAssets(p)
      BY <1>3, <2>2 DEF VGood
    <3> QED BY <1>2, <1>3, <2>1, <2>3, <3>1, <3>3, <3>4, <3>5 DEF VGood, VComplete
  <2>5. VGood(p, verifications[p])'
    BY <1>1, <2>4
  <2> QED BY <1>1, <1>2, <1>3, <1>5, <2>3, <2>5, VUpdate
<1> QED BY <1>4, <1>5

-----------------------------------------------------------------------------
(* The registry, and the whole.                                            *)

\* Statuses move and signatures are added; nothing that was good becomes bad.
LEMMA VRegistry ==
    ASSUME VInv, VConstants, UNCHANGED <<config, dir, verifications, launched, output, workspaces>>,
           statuses' \in Statuses, signed \subseteq signed', signed' \subseteq {Signing!Profile},
           failures' \in 0 .. MaxFailures
    PROVE  VInv'
<1>1. ASSUME NEW c \in Signing!Callers PROVE VGood(c, verifications[c])'
  <2>1. PICK q : q = verifications[c]
    OBVIOUS
  <2>2. VGood(c, q)
    BY <2>1 DEF VInv
  <2>3. VGood(c, q)'
    BY <2>2, VKept
  <2> QED BY <2>1, <2>3
<1> QED BY <1>1 DEF VInv

LEMMA VStatusMoves ==
    ASSUME VInv, VConstants, Signing!StatusMoves \/ Signing!Sign
    PROVE  VInv'
<1>1. CASE Signing!StatusMoves
  <2>1. /\ statuses' \in Statuses /\ Signing!fault
        /\ UNCHANGED <<config, dir, signed, verifications, launched, output, workspaces>>
    BY <1>1 DEF Signing!StatusMoves
  <2>2. signed \subseteq {Signing!Profile}
    BY DEF VInv
  <2> QED BY <2>1, <2>2, VFault, VRegistry
<1>2. CASE Signing!Sign
  <2>1. /\ signed' = {Signing!Profile}
        /\ UNCHANGED <<config, dir, statuses, verifications, launched, output, workspaces, failures>>
    BY <1>2 DEF Signing!Sign
  <2>2. signed \subseteq signed' /\ statuses \in Statuses /\ failures \in 0 .. MaxFailures
    BY <2>1 DEF VInv
  <2> QED BY <2>1, <2>2, VRegistry
<1> QED BY <1>1, <1>2

LEMMA VStart ==
    ASSUME VConstants, Signing!Init
    PROVE  VInv
<1>1. PICK i : i = Signing!Idle
  OBVIOUS
<1>2. /\ i \in VCalls /\ i.at = "idle" /\ i.attempt = 0 /\ i.elapsed = 0 /\ i.answer = None /\ i.tries = 0
      /\ i.seen = None
  BY <1>1 DEF Signing!Idle, VCalls, VAts, VConstants
<1>3. /\ config \in Configurations /\ dir \in Directories /\ statuses \in Statuses /\ signed \subseteq {Signing!Profile}
      /\ verifications = [c \in Signing!Callers |-> i] /\ launched = {} /\ workspaces = {} /\ failures = 0
  BY <1>1 DEF Signing!Init
<1>4. ASSUME NEW c \in Signing!Callers PROVE VGood(c, i)
  <2>1. Signing!timing(c).attempts \in Nat
    BY <1>3 DEF Signing!timing, VConstants
  <2>2. VTimely(i)
    BY <1>2 DEF VTimely
  <2>3. i = [Signing!Idle EXCEPT !.tries = i.tries]
    BY <1>1, <1>2 DEF Signing!Idle
  <2> QED BY <1>2, <1>3, <2>1, <2>2, <2>3 DEF VGood
<1>5. \A c \in Signing!Callers : VGood(c, verifications[c])
  BY <1>3, <1>4
<1> QED BY <1>2, <1>3, <1>5 DEF VInv, VConstants

LEMMA VStep ==
    ASSUME VInv, VConstants, [Signing!Next]_(Signing!vars)
    PROVE  VInv'
<1>1. CASE UNCHANGED Signing!vars
  <2>1. UNCHANGED <<config, dir, statuses, signed, verifications, launched, output, workspaces, failures>>
    BY <1>1 DEF Signing!vars
  <2>2. statuses \in Statuses /\ signed \subseteq {Signing!Profile} /\ failures \in 0 .. MaxFailures
    BY DEF VInv
  <2> QED BY <2>1, <2>2, VRegistry
<1>2. ASSUME NEW c \in Signing!Callers, Signing!Ask(c) PROVE VInv'
  BY <1>2, VInvoke, VStartCli DEF Signing!Ask
<1>3. ASSUME NEW c \in Signing!Callers, Signing!Step(c) PROVE VInv'
  BY <1>3, VPoll, VAdmitAssets, VMakeWorkspace, VRunNotation, VCleanUp DEF Signing!Step
<1>4. ASSUME NEW c \in Signing!Callers, Signing!Disturbed(c) PROVE VInv'
  BY <1>4, VPollFails, VMakeWorkspaceFails, VCleanUp, VNotationFails DEF Signing!Disturbed
<1>5. ASSUME NEW c \in Signing!Callers, Signing!Conclude(c) PROVE VInv'
  BY <1>5, VAnswer, VWriteResult DEF Signing!Conclude
<1>6. CASE Signing!Next
  BY <1>2, <1>3, <1>4, <1>5, <1>6, VInvocationLost, VWriteResultFails, VStatusMoves DEF Signing!Next
<1> QED BY <1>1, <1>6

\* What the invariant says of the answers.
LEMMA VFollows ==
    ASSUME VInv, VConstants
    PROVE  /\ Signing!TypeOK /\ Signing!VerifiedIsJustified /\ Signing!SigningReasonIsSeen
           /\ Signing!AnsweredInTime /\ Signing!NoWorkspaceLeft /\ Signing!WrittenIsOwn
<1>1. Signing!TypeOK
  <2>1. ASSUME NEW c \in Signing!Callers
        PROVE  /\ verifications[c].at \in Signing!Ats /\ verifications[c].tries \in 0 .. Retries
               /\ verifications[c].attempt \in 0 .. Signing!timing(c).attempts
    <3>1. /\ verifications[c] \in VCalls /\ Signing!timing(c).attempts \in Nat
          /\ verifications[c].attempt <= Signing!timing(c).attempts
      BY VFacts DEF VGood
    <3> QED BY <3>1 DEF VCalls, VAts, Signing!Ats
  <2> QED BY <2>1 DEF VInv, Signing!TypeOK
<1>2. ASSUME NEW c \in Signing!Callers, Signing!ToldVerified(c)
      PROVE  verifications[c].answer # None /\ verifications[c].answer.result = "VERIFIED" /\ verifications[c].at = "done"
  BY <1>2 DEF VInv, Signing!ToldVerified
<1>3. Signing!VerifiedIsJustified
  <2> SUFFICES ASSUME NEW c \in Signing!Callers, Signing!ToldVerified(c)
               PROVE  /\ verifications[c].event.profile \in signed
                      /\ verifications[c].seen = <<[profile |-> verifications[c].event.profile, status |-> "COMPLETE"]>>
                      /\ Signing!IsPinned(dir, "amd64", dir.entries["manifest"].contents)
                      /\ c \in Invocations => /\ verifications[c].event = config.authority
                                              /\ dir.entries["manifest"].contents = config.manifest
    BY DEF Signing!VerifiedIsJustified
  <2>1. PICK q : q = verifications[c]
    OBVIOUS
  <2>2. VGood(c, q) /\ q.answer # None /\ q.answer.result = "VERIFIED"
    BY <1>2, <2>1 DEF VInv
  <2>3. /\ q.event.profile \in signed /\ q.seen = VComplete(q.event) /\ VAssets(c)
        /\ c \in Invocations => q.event = config.authority
    BY <2>2 DEF VGood
  <2> QED BY <2>1, <2>3 DEF VComplete, VAssets
<1>4. Signing!SigningReasonIsSeen
  <2> SUFFICES ASSUME NEW e \in Invocations, verifications[e].at = "answered",
                      Signing!normalizeLambdaResult(verifications[e].answer) \in Signing!PreservedReasons
               PROVE  LET told == Signing!normalizeLambdaResult(verifications[e].answer) IN
                      /\ verifications[e].seen # None
                      /\ Signing!inspectSigningStatuses(verifications[e].seen, config.authority.profile) = told
                      /\ told \in Signing!Retryable => verifications[e].attempt = config.attempts
    BY DEF Signing!SigningReasonIsSeen
  <2>1. PICK q, told : q = verifications[e] /\ told = Signing!normalizeLambdaResult(q.answer)
    OBVIOUS
  <2>2. VGood(e, q) /\ told \in Signing!PreservedReasons
    BY <2>1 DEF VInv, Signing!Callers
  <2>3. q.answer # None /\ q.answer.result # "VERIFIED" /\ told = q.answer.reason
    BY <2>1, <2>2 DEF Signing!normalizeLambdaResult, Signing!PreservedReasons
  <2>4. /\ q.seen # None /\ Signing!inspectSigningStatuses(q.seen, config.authority.profile) = told
        /\ told \in Signing!Retryable => q.attempt = config.attempts
    BY <2>2, <2>3 DEF VGood
  <2> QED BY <2>1, <2>4
<1>5. Signing!AnsweredInTime
  BY DEF VInv, VGood, VTimely, Signing!AnsweredInTime, Signing!Callers
<1>6. Signing!NoWorkspaceLeft
  <2> SUFFICES ASSUME NEW c \in Signing!Callers, verifications[c].at \in {"answered", "done"}, c \in workspaces
               PROVE  verifications[c].answer = None \/ verifications[c].answer = Signing!cliResult(None)
    BY DEF Signing!NoWorkspaceLeft
  <2> QED BY DEF VInv, VGood
<1>7. Signing!WrittenIsOwn
  <2>1. ASSUME NEW p \in Preparations, verifications[p].at = "done", verifications[p].answer # None
        PROVE  output = [by |-> p, result |-> verifications[p].answer]
    BY <2>1 DEF VInv, VGood, Signing!Callers
  <2>2. ASSUME NEW p \in Preparations, Signing!ToldVerified(p)
        PROVE  verifications[p].at = "done" /\ verifications[p].answer # None
    BY <1>2, <2>2 DEF Signing!Callers
  <2> QED BY <2>1, <2>2 DEF Signing!WrittenIsOwn
<1> QED BY <1>1, <1>3, <1>4, <1>5, <1>6, <1>7

\* For any executions and preparations, configurations, asset directories, requests and
\* statuses of the registry: an image is only taken for verified with a valid signature,
\* a signing the registry reported complete and the pinned tools; a reason that names
\* the signing is the one that was seen, after the last attempt when it may still change;
\* the handler leaves its margin before the deadline; no answer leaves a workspace; and a
\* preparation that says VERIFIED wrote the result file (verifyImageSignature, the
\* handler of the Lambda and runVerifierCli).
THEOREM VerificationIsJustified ==
    ASSUME VConstants
    PROVE  Signing!Spec => [](/\ Signing!TypeOK /\ Signing!VerifiedIsJustified /\ Signing!SigningReasonIsSeen
                              /\ Signing!AnsweredInTime /\ Signing!NoWorkspaceLeft /\ Signing!WrittenIsOwn)
<1>1. Signing!Init => VInv
  BY VStart
<1>2. VInv /\ [Signing!Next]_(Signing!vars) => VInv'
  BY VStep
<1>3. VInv => /\ Signing!TypeOK /\ Signing!VerifiedIsJustified /\ Signing!SigningReasonIsSeen
              /\ Signing!AnsweredInTime /\ Signing!NoWorkspaceLeft /\ Signing!WrittenIsOwn
  BY VFollows
<1> QED BY <1>1, <1>2, <1>3, PTL DEF Signing!Spec

-----------------------------------------------------------------------------
(* The delivery of a bundle.                                               *)

\* The representations of archives, and the archives a publisher has inspected.
BReps == UNION {[S -> Nat] : S \in SUBSET Delivery!Members}

BFit(rep) == Delivery!requiredMembers \subseteq DOMAIN rep /\ DOMAIN rep \subseteq Delivery!Allowed

BZips == [kind : {"none", "part", "whole"}, rep : BReps]

BPhases == {"none", "scope", "stat", "read", "answered"}
BStatuses == {0, 200, 206, 404, 413, 416, 500}

BRequests == [pc : BPhases, kind : {"full", "range"}, start : Int, end : Int, total : Int,
              rep : BReps, version : Nat, status : BStatuses]

BPieces == [rep : BReps, start : Int, end : Int]

BBrowsers == [pc : {"idle", "first", "next", "saved", "threw"}, kind : {"full", "range"}, next : Int,
              total : Int, rep : BReps, version : Nat, got : Seq(BPieces)]

BPublishers == [pc : {"idle", "persist", "remove", "pack", "close", "inspect", "upload", "upload_report",
                      "upload_bitmap", "published"},
                todo : SUBSET Delivery!Members, rep : BReps]

BRestorers == [pc : {"idle", "bitmap", "restored", "threw"}, rep : BReps, bitmap : Nat]

BTyped ==
    /\ s3 \in BOOLEAN /\ versioned \in BOOLEAN /\ current \in BOOLEAN /\ quiet \in BOOLEAN
    /\ gen \in 0 .. MaxGen /\ bundle \in [Delivery!Members -> 0 .. MaxGen]
    /\ archive \in BZips /\ objects \in Seq(BZips)
    /\ sidecar \in [report : Nat, bitmap : Nat]
    /\ publisher \in BPublishers
    /\ asked \in BRequests /\ browser \in BBrowsers /\ restorer \in BRestorers

\* The objects in the bucket were inspected, and the publisher's later steps are
\* about the archive it inspected.
BStore ==
    /\ \A i \in DOMAIN objects : objects[i].kind = "whole" /\ BFit(objects[i].rep)
    /\ publisher.pc \in {"pack", "close"} => archive.kind # "whole"
    /\ publisher.pc = "upload" =>
         archive.kind = "whole" /\ BFit(archive.rep) /\ archive.rep = publisher.rep
    /\ publisher.pc \in {"upload", "upload_report", "upload_bitmap", "published"} => s3
    /\ publisher.pc \in {"upload_report", "upload_bitmap", "published"} =>
         objects # <<>> /\ Delivery!Latest.rep = publisher.rep
    /\ publisher.pc \in {"upload_bitmap", "published"} => sidecar.report = bundle["report"]
    /\ publisher.pc = "published" => (bundle["bitmap"] > 0 => sidecar.bitmap = bundle["bitmap"])

\* A read from the bucket is pinned to what the head request saw, and an answer with
\* bytes is of one fit archive and says its size.
BAsked(r) ==
    /\ s3 /\ r.pc = "read" =>
         /\ BFit(r.rep) /\ r.total = Delivery!Bytes(r.rep)
         /\ r.version > 0 => r.version \in DOMAIN objects /\ objects[r.version].rep = r.rep
    /\ r.pc = "answered" /\ r.status \in {200, 206} => BFit(r.rep) /\ r.total = Delivery!Bytes(r.rep)

\* The pieces follow each other, each of a fit archive and all of one.
BGot(b) ==
    /\ b.pc \in {"idle", "first"} => b.got = <<>>
    /\ \A k \in 1 .. Len(b.got) : /\ BFit(b.got[k].rep)
                                  /\ b.got[k].start = IF k = 1 THEN 0 ELSE b.got[k - 1].end + 1
    /\ b.pc = "next" => /\ b.got # <<>> /\ \A k \in 1 .. Len(b.got) : b.got[k].rep = b.rep
                        /\ b.got[Len(b.got)].end + 1 = b.next /\ b.total = Delivery!Bytes(b.rep)
                        /\ b.next < b.total
    /\ b.pc = "saved" => /\ b.got # <<>> /\ \A k \in 1 .. Len(b.got) : b.got[k].rep = b.got[1].rep
                         /\ b.got[Len(b.got)].end = Delivery!Bytes(b.got[1].rep) - 1

BRestored ==
    restorer.pc = "restored" /\ restorer.bitmap > 0 => restorer.bitmap = restorer.rep["journal"]

\* What an undisturbed download reads: the representation and the version it is told.
BShown == IF s3 THEN Delivery!Latest.rep ELSE archive.rep
BVersion == IF s3 /\ versioned THEN Len(objects) ELSE 0
BChunk == Delivery!Min({RangeMax, ChunkBytes})
BLast(next, total) == Delivery!Min({next + BChunk - 1, total - 1})

BThere == IF s3 THEN objects # <<>> ELSE archive.kind = "whole" /\ BFit(archive.rep)

BTooLarge(b) ==
    LET total == Delivery!Bytes(BShown) IN total > MaxDownload \/ (b.kind = "full" /\ total > InlineMax)

\* The request of an undisturbed download, from being asked to being answered.
BPending(r, b) ==
    LET total == Delivery!Bytes(BShown) IN
    /\ b.pc = "first" => r.kind = b.kind /\ r.start = 0
    /\ b.pc = "first" /\ r.pc \in {"scope", "stat", "read"} => r.end = ChunkBytes - 1
    /\ b.pc = "next" => /\ r.kind = "range" /\ r.start = b.next /\ r.end = BLast(b.next, total)
                        /\ b.next < total /\ b.total = total /\ b.rep = BShown /\ b.version = BVersion
    /\ r.pc # "none"
    /\ r.pc = "read" => r.total = total /\ r.version = BVersion /\ (s3 => r.rep = BShown)
    /\ r.pc = "answered" /\ r.kind = "full" => \/ r.status = 200 /\ r.total = total
                                               \/ r.status = 413 /\ total > InlineMax
    /\ r.pc = "answered" /\ r.kind = "range" => /\ r.status = 206 /\ r.total = total /\ r.rep = BShown
                                                /\ r.version = BVersion /\ r.end < total
                                                /\ b.pc = "first" => r.end < ChunkBytes

BUndisturbed(r, b) ==
    quiet => /\ current /\ b.pc # "idle" /\ BThere
             /\ b.pc \in {"first", "next"} => BPending(r, b)
             /\ b.pc = "threw" => BTooLarge(b)

\* A request is only there for the browser that waits for it.
BWaits(r, b) == b.pc \in {"first", "next"} \/ r.pc = "none"

BInv == BWaits(asked, browser) /\ BTyped /\ BStore /\ BAsked(asked) /\ BGot(browser) /\ BRestored /\ BUndisturbed(asked, browser)

-----------------------------------------------------------------------------
(* Sizes, ranges and representations.                                      *)

\* The least of two numbers.
LEMMA BMinTwo ==
    ASSUME NEW x \in Int, NEW y \in Int
    PROVE  Delivery!Min({x, y}) \in {x, y} /\ Delivery!Min({x, y}) <= x /\ Delivery!Min({x, y}) <= y
<1>1. \E m \in {x, y} : \A n \in {x, y} : m =< n
  OBVIOUS
<1>2. Delivery!Min({x, y}) \in {x, y} /\ \A n \in {x, y} : Delivery!Min({x, y}) =< n
  BY <1>1 DEF Delivery!Min
<1> QED BY <1>2

\* The least of three numbers.
LEMMA BMinThree ==
    ASSUME NEW x \in Int, NEW y \in Int, NEW z \in Int
    PROVE  LET m == Delivery!Min({x, y, z}) IN m \in {x, y, z} /\ m <= x /\ m <= y /\ m <= z
<1>1. \E m \in {x, y, z} : \A n \in {x, y, z} : m =< n
  <2>1. CASE x <= y /\ x <= z
    BY <2>1
  <2>2. CASE y <= x /\ y <= z
    BY <2>2
  <2>3. CASE z <= x /\ z <= y
    BY <2>3
  <2> QED BY <2>1, <2>2, <2>3
<1>2. Delivery!Min({x, y, z}) \in {x, y, z} /\ \A n \in {x, y, z} : Delivery!Min({x, y, z}) =< n
  BY <1>1 DEF Delivery!Min
<1> QED BY <1>2

\* The members of a bundle, by name.
LEMMA BMembers ==
    /\ Delivery!requiredMembers \subseteq Delivery!Allowed /\ Delivery!Allowed \subseteq Delivery!Members
    /\ IsFiniteSet(Delivery!Members)
<1>1. /\ Delivery!requiredMembers \subseteq Delivery!Allowed /\ Delivery!Allowed \subseteq Delivery!Members
      /\ Delivery!Members = {"receipt", "journal", "sth", "report", "bitmap"}
  BY DEF Delivery!requiredMembers, Delivery!optionalMembers, Delivery!neverPublicMembers, Delivery!Allowed, Delivery!Members
<1>2. IsFiniteSet({"receipt", "journal", "sth", "report", "bitmap"})
  <2>1. IsFiniteSet({"receipt"})
    BY FS_Singleton
  <2>2. IsFiniteSet({"receipt"} \cup {"journal"})
    BY <2>1, FS_AddElement
  <2>3. IsFiniteSet({"receipt"} \cup {"journal"} \cup {"sth"})
    BY <2>2, FS_AddElement
  <2>4. IsFiniteSet({"receipt"} \cup {"journal"} \cup {"sth"} \cup {"report"})
    BY <2>3, FS_AddElement
  <2>5. IsFiniteSet({"receipt"} \cup {"journal"} \cup {"sth"} \cup {"report"} \cup {"bitmap"})
    BY <2>4, FS_AddElement
  <2>6. {"receipt", "journal", "sth", "report", "bitmap"}
          = {"receipt"} \cup {"journal"} \cup {"sth"} \cup {"report"} \cup {"bitmap"}
    OBVIOUS
  <2> QED BY <2>5, <2>6
<1> QED BY <1>1, <1>2

\* A publication number for each of some members is a representation.
LEMMA BRep ==
    ASSUME NEW S \in SUBSET Delivery!Members, NEW f \in [S -> Nat]
    PROVE  f \in BReps
  BY DEF BReps

\* Archives have a size, and a fit one is not empty.
LEMMA BSize ==
    ASSUME NEW rep, DOMAIN rep \subseteq Delivery!Members
    PROVE  Delivery!Bytes(rep) \in Nat /\ (BFit(rep) => Delivery!Bytes(rep) >= 1)
<1>1. IsFiniteSet(DOMAIN rep) /\ IsFiniteSet(Delivery!requiredMembers \cap DOMAIN rep)
  BY BMembers, FS_Subset
<1>2. Cardinality(DOMAIN rep) \in Nat /\ Cardinality(Delivery!requiredMembers \cap DOMAIN rep) \in Nat
  BY <1>1, FS_CardinalityType
<1>3. ASSUME BFit(rep) PROVE Cardinality(DOMAIN rep) # 0
  <2>1. "receipt" \in DOMAIN rep
    BY <1>3 DEF BFit, Delivery!requiredMembers
  <2> QED BY <1>1, <2>1, FS_EmptySet
<1>4. Delivery!Bytes(rep) = Cardinality(DOMAIN rep) + Cardinality(Delivery!requiredMembers \cap DOMAIN rep)
  BY DEF Delivery!Bytes, Delivery!Cardinality, Cardinality, Delivery!IsFiniteSet, IsFiniteSet
<1> QED BY <1>2, <1>3, <1>4

\* The same of any representation.
LEMMA BSizes ==
    ASSUME NEW rep \in BReps
    PROVE  DOMAIN rep \subseteq Delivery!Members /\ Delivery!Bytes(rep) \in Nat /\ (BFit(rep) => Delivery!Bytes(rep) >= 1)
<1>1. DOMAIN rep \subseteq Delivery!Members
  BY DEF BReps
<1> QED BY <1>1, BSize

\* The archive that is not there is a representation, and no fit one.
LEMMA BNone == Delivery!NoRep \in BReps /\ ~BFit(Delivery!NoRep)
<1>1. DOMAIN Delivery!NoRep = {} /\ Delivery!NoRep \in [{} -> Nat]
  BY DEF Delivery!NoRep
<1>2. "receipt" \in Delivery!requiredMembers
  BY DEF Delivery!requiredMembers
<1> QED BY <1>1, <1>2, BRep DEF BFit

\* What inspectArchive admits.
LEMMA BInspect ==
    ASSUME NEW z \in BZips
    PROVE  /\ Delivery!inspectArchive(z) <=> z.kind = "whole" /\ BFit(z.rep)
           /\ z.kind = "whole" => Delivery!SizeOf(z) = Delivery!Bytes(z.rep)
           /\ z.kind # "none" => Delivery!SizeOf(z) \in Int
<1>1. z.kind \in {"none", "part", "whole"} /\ z.rep \in BReps
  BY DEF BZips
<1>2. Delivery!Bytes(z.rep) \in Nat
  BY <1>1, BSizes
<1>3. Delivery!inspectArchive(z) <=> z.kind = "whole" /\ BFit(z.rep)
  BY DEF Delivery!inspectArchive, BFit
<1>4. /\ z.kind = "whole" => Delivery!SizeOf(z) = Delivery!Bytes(z.rep)
      /\ z.kind = "part" => Delivery!SizeOf(z) = Delivery!Bytes(z.rep) - 1
  BY DEF Delivery!SizeOf
<1> QED BY <1>1, <1>2, <1>3, <1>4

\* The last object.
LEMMA BLatest ==
    ASSUME BTyped, objects # <<>>
    PROVE  Len(objects) \in DOMAIN objects /\ Len(objects) \in Nat /\ Len(objects) > 0 /\ Delivery!Latest \in BZips
  BY DEF BTyped, Delivery!Latest

-----------------------------------------------------------------------------
(* The publisher, and what a download does not see of it.                  *)

\* A step that leaves the request, the download and the restoration alone.
LEMMA BApart ==
    ASSUME BInv, BTyped', BStore', UNCHANGED <<s3, versioned, asked, browser, restorer>>,
           objects' = objects \/ (\E z : objects' = Append(objects, z)),
           quiet' => quiet /\ current' = current /\ objects' = objects /\ (~s3 => archive' = archive)
    PROVE  BInv'
<1>1. BGot(browser)' /\ BRestored' /\ BWaits(asked, browser)'
  BY DEF BInv, BWaits, BGot, BRestored, Delivery!Bytes, Delivery!Cardinality, Delivery!requiredMembers
<1>2. BAsked(asked)'
  <2>1. PICK n : n = asked.version
    OBVIOUS
  <2>2. objects \in Seq(BZips) /\ DOMAIN objects = 1 .. Len(objects)
    BY DEF BInv, BTyped
  <2>3. n \in DOMAIN objects => n \in DOMAIN objects' /\ objects'[n] = objects[n]
    BY <2>2
  <2> QED BY <2>1, <2>3 DEF BInv, BAsked
<1>3. BUndisturbed(asked, browser)'
  <2> SUFFICES ASSUME quiet'
               PROVE  /\ current' /\ browser'.pc # "idle" /\ BThere'
                      /\ browser'.pc \in {"first", "next"} => BPending(asked, browser)'
                      /\ browser'.pc = "threw" => BTooLarge(browser)'
    BY DEF BUndisturbed
  <2>1. /\ quiet /\ current' = current /\ objects' = objects /\ (~s3 => archive' = archive)
        /\ BUndisturbed(asked, browser)
    BY DEF BInv
  <2>2. /\ current /\ browser.pc # "idle" /\ BThere
        /\ browser.pc \in {"first", "next"} => BPending(asked, browser)
        /\ browser.pc = "threw" => BTooLarge(browser)
    BY <2>1 DEF BUndisturbed
  <2>3. BShown' = BShown /\ BVersion' = BVersion /\ (BThere => BThere')
    BY <2>1 DEF BShown, BVersion, BThere, Delivery!Latest
  <2>4. BPending(asked, browser) => BPending(asked, browser)'
    BY <2>3 DEF BPending
  <2>5. BTooLarge(browser) => BTooLarge(browser)'
    BY <2>3 DEF BTooLarge
  <2> QED BY <2>1, <2>2, <2>3, <2>4, <2>5
<1> QED BY <1>1, <1>2, <1>3 DEF BInv

\* What the assumptions on the constants give.
LEMMA BEdits ==
    ASSUME Delivery!DeliveryConstants
    PROVE  /\ ChunkBytes \in Nat /\ ChunkBytes > 0 /\ RangeMax \in Nat /\ RangeMax > 0
           /\ InlineMax \in Nat /\ MaxGen \in Nat /\ MaxDownload \in Nat
           /\ \A x \in Extras : x \subseteq Delivery!Members
  BY DEF Delivery!DeliveryConstants, Delivery!Members, Delivery!neverPublicMembers, Delivery!Allowed, Delivery!optionalMembers

\* The first part of a run: the files of the directory.
LEMMA BPersist ==
    ASSUME BInv, Delivery!DeliveryConstants,
           \/ \E extras \in Extras : Delivery!BeginRun(extras)
           \/ \E m \in Delivery!Members : Delivery!PersistArtifact(m)
           \/ Delivery!PublisherFails \/ Delivery!Retry \/ Delivery!Supersede
    PROVE  BInv'
<1>1. BTyped /\ BStore
  BY DEF BInv
<1>2. CASE \E extras \in Extras : Delivery!BeginRun(extras)
  <2>1. PICK extras \in Extras : Delivery!BeginRun(extras)
    BY <1>2
  <2>2. /\ gen < MaxGen /\ gen' = gen + 1
        /\ publisher' = [pc |-> "persist", todo |-> Delivery!requiredMembers \cup extras, rep |-> Delivery!NoRep]
        /\ UNCHANGED <<s3, versioned, bundle, archive, objects, sidecar, current, asked, browser, restorer, quiet>>
    BY <2>1 DEF Delivery!BeginRun, Delivery!store, Delivery!download
  <2>3. Delivery!requiredMembers \cup extras \subseteq Delivery!Members
    BY BEdits, BMembers
  <2>4. publisher' \in BPublishers /\ publisher'.pc = "persist"
    BY <2>2, <2>3, BNone DEF BPublishers
  <2>5. BTyped'
    BY <1>1, <2>2, <2>4, BEdits DEF BTyped
  <2>6. BStore'
    BY <1>1, <2>2, <2>4 DEF BStore
  <2> QED BY <2>2, <2>5, <2>6, BApart
<1>3. CASE \E m \in Delivery!Members : Delivery!PersistArtifact(m)
  <2>1. PICK m \in Delivery!Members : Delivery!PersistArtifact(m)
    BY <1>3
  <2>2. PICK pc \in {"persist", "remove"} :
          /\ publisher.pc = "persist" /\ bundle' = [bundle EXCEPT ![m] = gen]
          /\ publisher' = [publisher EXCEPT !.todo = publisher.todo \ {m}, !.pc = pc]
          /\ UNCHANGED <<s3, versioned, archive, objects, sidecar, gen, current, asked, browser, restorer, quiet>>
    BY <2>1 DEF Delivery!PersistArtifact, Delivery!store, Delivery!download
  <2>3. publisher' \in BPublishers /\ publisher'.pc \in {"persist", "remove"}
    BY <1>1, <2>2 DEF BTyped, BPublishers
  <2>4. BTyped'
    BY <1>1, <2>2, <2>3 DEF BTyped
  <2>5. BStore'
    BY <1>1, <2>2, <2>3 DEF BStore
  <2> QED BY <2>2, <2>4, <2>5, BApart
<1>4. CASE Delivery!PublisherFails \/ Delivery!Retry
  <2>1. /\ publisher' = [publisher EXCEPT !.pc = "idle"]
        /\ UNCHANGED <<s3, versioned, bundle, archive, objects, sidecar, gen, current, asked, browser, restorer, quiet>>
    BY <1>4 DEF Delivery!PublisherFails, Delivery!Retry, Delivery!Pub, Delivery!store, Delivery!download
  <2>2. publisher' \in BPublishers /\ publisher'.pc = "idle"
    BY <1>1, <2>1 DEF BTyped, BPublishers
  <2>3. BTyped' /\ BStore'
    BY <1>1, <2>1, <2>2 DEF BTyped, BStore
  <2> QED BY <2>1, <2>3, BApart
<1>5. CASE Delivery!Supersede
  <2>1. /\ current' = FALSE /\ quiet' = FALSE
        /\ UNCHANGED <<s3, versioned, bundle, archive, objects, sidecar, publisher, gen, asked, browser, restorer>>
    BY <1>5 DEF Delivery!Supersede, Delivery!store, Delivery!files, Delivery!download
  <2>2. BTyped' /\ BStore'
    BY <1>1, <2>1 DEF BTyped, BStore, Delivery!Latest
  <2> QED BY <2>1, <2>2, BApart
<1> QED BY <1>2, <1>3, <1>4, <1>5

\* The archive: an undisturbed download from the directory has none of these steps
\* under way, or finds the archive as it was.
LEMMA BArchive ==
    ASSUME BInv, Delivery!DeliveryConstants,
           \/ Delivery!RemoveArchive \/ Delivery!PackArchive \/ Delivery!CloseArchive \/ Delivery!InspectArchive
           \/ \E S \in {{"receipt", "journal", "bitmap"}, {"journal", "sth"}} : Delivery!EditArchive(S)
    PROVE  BInv'
<1>1. BTyped /\ BStore /\ archive \in BZips /\ publisher \in BPublishers
  BY DEF BInv, BTyped
<1>2. quiet /\ ~s3 => archive.kind = "whole" /\ BFit(archive.rep)
  BY DEF BInv, BUndisturbed, BThere
<1>3. CASE Delivery!RemoveArchive
  <2>1. /\ archive' = [kind |-> "none", rep |-> Delivery!NoRep] /\ quiet' = (quiet /\ s3)
        /\ publisher.pc = "remove" /\ publisher' = [publisher EXCEPT !.pc = "pack"]
        /\ UNCHANGED <<s3, versioned, bundle, objects, sidecar, gen, current, asked, browser, restorer>>
    BY <1>3 DEF Delivery!RemoveArchive, Delivery!Pub, Delivery!Zip, Delivery!store, Delivery!download
  <2>2. publisher' \in BPublishers /\ publisher'.pc = "pack" /\ archive' \in BZips /\ archive'.kind = "none"
    BY <1>1, <2>1, BNone DEF BPublishers, BZips
  <2>3. BTyped' /\ BStore'
    BY <1>1, <2>1, <2>2 DEF BTyped, BStore
  <2> QED BY <2>1, <2>3, BApart
<1>4. CASE Delivery!PackArchive
  <2>1. PICK S, f : S = Delivery!filesToInclude /\ f = Delivery!Restrict(bundle, S)
    OBVIOUS
  <2>2. /\ archive' = [kind |-> "part", rep |-> f]
        /\ publisher.pc = "pack" /\ publisher' = [publisher EXCEPT !.pc = "close"]
        /\ UNCHANGED <<s3, versioned, bundle, objects, sidecar, gen, current, asked, browser, restorer, quiet>>
    BY <1>4, <2>1 DEF Delivery!PackArchive, Delivery!Pub, Delivery!Zip, Delivery!store, Delivery!download
  <2>3. S \subseteq Delivery!Members /\ f = [x \in S |-> bundle[x]]
    BY <2>1, BMembers DEF Delivery!filesToInclude, Delivery!Restrict
  <2>4. f \in [S -> Nat]
    BY <1>1, <2>3, BEdits DEF BTyped
  <2>5. f \in BReps
    BY <2>3, <2>4, BRep
  <2>6. publisher' \in BPublishers /\ publisher'.pc = "close" /\ archive' \in BZips /\ archive'.kind = "part"
    BY <1>1, <2>2, <2>5 DEF BPublishers, BZips
  <2>7. BTyped' /\ BStore'
    BY <1>1, <2>2, <2>6 DEF BTyped, BStore
  <2>8. ~(quiet /\ ~s3)
    BY <1>1, <1>2, <2>2 DEF BStore
  <2> QED BY <2>2, <2>7, <2>8, BApart
<1>5. CASE Delivery!CloseArchive
  <2>1. /\ archive' = [kind |-> "whole", rep |-> archive.rep] /\ quiet' = (quiet /\ s3)
        /\ publisher.pc = "close" /\ publisher' = [publisher EXCEPT !.pc = "inspect"]
        /\ UNCHANGED <<s3, versioned, bundle, objects, sidecar, gen, current, asked, browser, restorer>>
    BY <1>5 DEF Delivery!CloseArchive, Delivery!Pub, Delivery!Zip, Delivery!store, Delivery!download
  <2>2. publisher' \in BPublishers /\ publisher'.pc = "inspect" /\ archive' \in BZips
    BY <1>1, <2>1 DEF BPublishers, BZips
  <2>3. BTyped' /\ BStore'
    BY <1>1, <2>1, <2>2 DEF BTyped, BStore
  <2> QED BY <2>1, <2>3, BApart
<1>6. CASE Delivery!InspectArchive
  <2>1. /\ publisher.pc = "inspect"
        /\ UNCHANGED <<s3, versioned, bundle, objects, sidecar, gen, current, asked, browser, restorer, quiet>>
    BY <1>6 DEF Delivery!InspectArchive, Delivery!store, Delivery!download
  <2>2. CASE Delivery!inspectArchive(archive)
    <3>1. PICK pc \in {"upload", "idle"} :
            /\ pc = (IF s3 THEN "upload" ELSE "idle") /\ archive' = archive
            /\ publisher' = [publisher EXCEPT !.pc = pc, !.rep = archive.rep]
      BY <1>6, <2>2 DEF Delivery!InspectArchive
    <3>2. /\ publisher' \in BPublishers /\ publisher'.pc = pc /\ publisher'.rep = archive.rep
      BY <1>1, <3>1 DEF BPublishers, BZips
    <3>3. archive.kind = "whole" /\ BFit(archive.rep)
      BY <1>1, <2>2, BInspect
    <3>4. BTyped' /\ BStore'
      BY <1>1, <2>1, <3>1, <3>2, <3>3 DEF BTyped, BStore
    <3> QED BY <2>1, <3>1, <3>4, BApart
  <2>3. CASE ~Delivery!inspectArchive(archive)
    <3>1. /\ archive' = [kind |-> "none", rep |-> Delivery!NoRep] /\ publisher' = [publisher EXCEPT !.pc = "idle"]
      BY <1>6, <2>3 DEF Delivery!InspectArchive, Delivery!Pub, Delivery!Zip
    <3>2. publisher' \in BPublishers /\ publisher'.pc = "idle" /\ archive' \in BZips
      BY <1>1, <3>1, BNone DEF BPublishers, BZips
    <3>3. BTyped' /\ BStore'
      BY <1>1, <2>1, <3>1, <3>2 DEF BTyped, BStore
    <3>4. ~(quiet /\ ~s3)
      BY <1>1, <1>2, <2>3, BInspect
    <3> QED BY <2>1, <3>3, <3>4, BApart
  <2> QED BY <2>2, <2>3
<1>7. CASE \E S \in {{"receipt", "journal", "bitmap"}, {"journal", "sth"}} : Delivery!EditArchive(S)
  <2>1. PICK S \in {{"receipt", "journal", "bitmap"}, {"journal", "sth"}} : Delivery!EditArchive(S)
    BY <1>7
  <2>2. PICK f : f = [m \in S |-> 1]
    OBVIOUS
  <2>3. /\ archive' = [kind |-> "whole", rep |-> f] /\ quiet' = FALSE /\ publisher.pc = "idle"
        /\ UNCHANGED <<s3, versioned, bundle, objects, sidecar, publisher, gen, current, asked, browser, restorer>>
    BY <2>1, <2>2 DEF Delivery!EditArchive, Delivery!Zip, Delivery!store, Delivery!download
  <2>4. f \in BReps
    <3>1. S \subseteq Delivery!Members
      BY DEF Delivery!Members, Delivery!Allowed, Delivery!requiredMembers, Delivery!optionalMembers, Delivery!neverPublicMembers
    <3>2. f \in [S -> Nat]
      BY <2>2
    <3> QED BY <3>1, <3>2, BRep
  <2>5. archive' \in BZips
    BY <2>3, <2>4 DEF BZips
  <2>6. BTyped' /\ BStore'
    BY <1>1, <2>3, <2>5 DEF BTyped, BStore
  <2> QED BY <2>3, <2>6, BApart
<1> QED BY <1>3, <1>4, <1>5, <1>6, <1>7

\* The objects.
LEMMA BUpload ==
    ASSUME BInv, Delivery!UploadBundle \/ Delivery!UploadReport \/ Delivery!UploadSidecar,
           Delivery!DeliveryConstants
    PROVE  BInv'
<1>1. /\ BTyped /\ BStore /\ archive \in BZips /\ publisher \in BPublishers /\ objects \in Seq(BZips)
      /\ sidecar \in [report : Nat, bitmap : Nat] /\ bundle["report"] \in Nat /\ bundle["bitmap"] \in Nat
  BY BEdits DEF BInv, BTyped, Delivery!Members, Delivery!neverPublicMembers
<1>2. CASE Delivery!UploadBundle
  <2>1. /\ objects' = Append(objects, archive) /\ quiet' = FALSE
        /\ publisher.pc = "upload" /\ publisher' = [publisher EXCEPT !.pc = "upload_report"]
        /\ UNCHANGED <<s3, versioned, bundle, archive, sidecar, gen, current, asked, browser, restorer>>
    BY <1>2 DEF Delivery!UploadBundle, Delivery!Pub, Delivery!store, Delivery!download
  <2>2. publisher' \in BPublishers /\ publisher'.pc = "upload_report" /\ publisher'.rep = publisher.rep
    BY <1>1, <2>1 DEF BPublishers
  <2>3. /\ objects' \in Seq(BZips) /\ objects' # <<>> /\ objects'[Len(objects')] = archive
        /\ \A i \in DOMAIN objects' : objects'[i] = archive \/ (i \in DOMAIN objects /\ objects'[i] = objects[i])
    BY <1>1, <2>1
  <2>4. Delivery!Latest' = archive
    BY <2>3 DEF Delivery!Latest
  <2>5. BTyped'
    BY <1>1, <2>1, <2>2, <2>3 DEF BTyped
  <2>6. BStore'
    <3>1. archive.kind = "whole" /\ BFit(archive.rep) /\ archive.rep = publisher.rep /\ s3
      BY <1>1, <2>1 DEF BStore
    <3>2. \A i \in DOMAIN objects' : objects'[i].kind = "whole" /\ BFit(objects'[i].rep)
      BY <1>1, <2>3, <3>1 DEF BStore
    <3> QED BY <2>1, <2>2, <2>3, <2>4, <3>1, <3>2 DEF BStore, BFit
  <2> QED BY <2>1, <2>5, <2>6, BApart
<1>3. CASE Delivery!UploadReport
  <2>1. /\ publisher.pc = "upload_report"
        /\ UNCHANGED <<s3, versioned, bundle, archive, objects, gen, current, asked, browser, restorer, quiet>>
    BY <1>3 DEF Delivery!UploadReport, Delivery!store, Delivery!download
  <2>2. CASE bundle["report"] > 0
    <3>1. /\ sidecar' = [sidecar EXCEPT !.report = bundle["report"]]
          /\ publisher' = [publisher EXCEPT !.pc = "upload_bitmap"]
      BY <1>3, <2>2 DEF Delivery!UploadReport, Delivery!Pub
    <3>2. /\ publisher' \in BPublishers /\ publisher'.pc = "upload_bitmap" /\ publisher'.rep = publisher.rep
          /\ sidecar' \in [report : Nat, bitmap : Nat] /\ sidecar'.report = bundle["report"]
      BY <1>1, <3>1 DEF BPublishers
    <3>3. BTyped' /\ BStore'
      BY <1>1, <2>1, <3>2 DEF BTyped, BStore, Delivery!Latest
    <3> QED BY <2>1, <3>3, BApart
  <2>3. CASE ~(bundle["report"] > 0)
    <3>1. sidecar' = sidecar /\ publisher' = [publisher EXCEPT !.pc = "idle"]
      BY <1>3, <2>3 DEF Delivery!UploadReport, Delivery!Pub
    <3>2. publisher' \in BPublishers /\ publisher'.pc = "idle"
      BY <1>1, <3>1 DEF BPublishers
    <3>3. BTyped' /\ BStore'
      BY <1>1, <2>1, <3>1, <3>2 DEF BTyped, BStore
    <3> QED BY <2>1, <3>3, BApart
  <2> QED BY <2>2, <2>3
<1>4. CASE Delivery!UploadSidecar
  <2>1. /\ publisher.pc = "upload_bitmap" /\ publisher' = [publisher EXCEPT !.pc = "published"]
        /\ sidecar' = IF bundle["bitmap"] > 0 THEN [sidecar EXCEPT !.bitmap = bundle["bitmap"]] ELSE sidecar
        /\ UNCHANGED <<s3, versioned, bundle, archive, objects, gen, current, asked, browser, restorer, quiet>>
    BY <1>4 DEF Delivery!UploadSidecar, Delivery!Pub, Delivery!store, Delivery!download
  <2>2. /\ publisher' \in BPublishers /\ publisher'.pc = "published" /\ publisher'.rep = publisher.rep
    BY <1>1, <2>1 DEF BPublishers
  <2>3. /\ sidecar' \in [report : Nat, bitmap : Nat] /\ sidecar'.report = sidecar.report
        /\ bundle["bitmap"] > 0 => sidecar'.bitmap = bundle["bitmap"]
    BY <1>1, <2>1
  <2>4. BTyped' /\ BStore'
    BY <1>1, <2>1, <2>2, <2>3 DEF BTyped, BStore, Delivery!Latest
  <2> QED BY <2>1, <2>4, BApart
<1> QED BY <1>2, <1>3, <1>4

-----------------------------------------------------------------------------
(* The server.                                                             *)

\* A step of the server: only the request moves.
LEMMA BServes ==
    ASSUME BInv, UNCHANGED <<s3, versioned, bundle, archive, objects, sidecar, publisher, gen, current, browser, restorer>>,
           NEW r \in BRequests, asked' = r, asked.pc # "none", BAsked(r), quiet' = FALSE \/ quiet' = quiet,
           quiet' /\ quiet /\ browser.pc \in {"first", "next"} => BPending(r, browser)
    PROVE  BInv'
<1>1. BTyped' /\ BStore' /\ BGot(browser)' /\ BRestored' /\ BWaits(asked, browser)'
  <2>1. BTyped'
    BY DEF BInv, BTyped
  <2>2. BStore'
    BY DEF BInv, BStore, Delivery!Latest
  <2>3. BGot(browser)' /\ BRestored' /\ BWaits(asked, browser)'
    BY DEF BInv, BGot, BRestored, BWaits
  <2> QED BY <2>1, <2>2, <2>3
<1>2. BAsked(asked)'
  BY DEF BAsked
<1>3. BUndisturbed(asked, browser)'
  <2> SUFFICES ASSUME quiet'
               PROVE  /\ current' /\ browser'.pc # "idle" /\ BThere'
                      /\ browser'.pc \in {"first", "next"} => BPending(asked, browser)'
                      /\ browser'.pc = "threw" => BTooLarge(browser)'
    BY DEF BUndisturbed
  <2>1. quiet /\ BUndisturbed(asked, browser)
    BY DEF BInv, BTyped
  <2>2. /\ current /\ browser.pc # "idle" /\ BThere /\ (browser.pc = "threw" => BTooLarge(browser))
    BY <2>1 DEF BUndisturbed
  <2>3. BShown' = BShown /\ BVersion' = BVersion /\ (BThere => BThere')
    BY DEF BShown, BVersion, BThere, Delivery!Latest
  <2>4. BPending(r, browser) => BPending(asked, browser)'
    BY <2>3 DEF BPending
  <2>5. BTooLarge(browser) => BTooLarge(browser)'
    BY <2>3 DEF BTooLarge
  <2> QED BY <2>1, <2>2, <2>3, <2>4, <2>5
<1> QED BY <1>1, <1>2, <1>3 DEF BInv

\* What is known of the store while a download is undisturbed.
LEMMA BCalm ==
    ASSUME BInv, quiet
    PROVE  /\ current /\ BThere /\ BShown \in BReps /\ BFit(BShown) /\ Delivery!Bytes(BShown) \in Nat
           /\ Delivery!Bytes(BShown) >= 1 /\ BVersion \in Nat
           /\ ~s3 => archive.kind = "whole" /\ Delivery!SizeOf(archive) = Delivery!Bytes(BShown) /\ BShown = archive.rep
           /\ s3 => objects # <<>> /\ Delivery!Latest.kind = "whole" /\ Delivery!Latest.rep = BShown
           /\ browser.pc \in {"first", "next"} => BPending(asked, browser)
<1>1. BTyped /\ BStore /\ current /\ BThere /\ (browser.pc \in {"first", "next"} => BPending(asked, browser))
  BY DEF BInv, BUndisturbed
<1>2. archive \in BZips /\ objects \in Seq(BZips) /\ archive.rep \in BReps
  BY <1>1 DEF BTyped, BZips
<1>3. CASE s3
  <2>1. objects # <<>>
    BY <1>1, <1>3 DEF BThere
  <2>2. Delivery!Latest \in BZips /\ Len(objects) \in DOMAIN objects /\ Len(objects) \in Nat
    BY <1>1, <2>1, BLatest
  <2>3. Delivery!Latest.kind = "whole" /\ BFit(Delivery!Latest.rep) /\ Delivery!Latest.rep \in BReps
    BY <1>1, <2>2 DEF BStore, Delivery!Latest, BZips
  <2>4. BShown = Delivery!Latest.rep /\ BVersion \in Nat
    BY <1>3, <2>2 DEF BShown, BVersion
  <2> QED BY <1>1, <1>3, <2>1, <2>3, <2>4, BSizes
<1>4. CASE ~s3
  <2>1. archive.kind = "whole" /\ BFit(archive.rep) /\ BShown = archive.rep /\ BVersion = 0
    BY <1>1, <1>4 DEF BThere, BShown, BVersion
  <2> QED BY <1>1, <1>2, <1>4, <2>1, BSizes, BInspect
<1> QED BY <1>3, <1>4

\* An answer without bytes, to a request that an undisturbed download does not make.
LEMMA BRefuses ==
    ASSUME BInv, NEW code \in {404, 413, 416, 500},
           UNCHANGED <<s3, versioned, bundle, archive, objects, sidecar, publisher, gen, current, browser, restorer>>,
           Delivery!Respond(code), asked.pc # "none", quiet' = FALSE \/ quiet' = quiet,
           quiet' /\ quiet =>
             /\ code = 413 /\ asked.kind = "full" /\ Delivery!Bytes(BShown) > InlineMax
             /\ asked.pc # "answered"
    PROVE  BInv'
<1>1. PICK q, r : q = asked /\ r = [asked EXCEPT !.pc = "answered", !.status = code]
  OBVIOUS
<1>2. q \in BRequests
  BY <1>1 DEF BInv, BTyped
<1>3. /\ r \in BRequests /\ r.pc = "answered" /\ r.status = code /\ r.kind = q.kind /\ r.start = q.start
      /\ r.end = q.end /\ asked' = r
  <2>1. r = [q EXCEPT !.pc = "answered", !.status = code] /\ asked' = r
    BY <1>1 DEF Delivery!Respond
  <2>2. "answered" \in BPhases /\ code \in BStatuses
    BY DEF BPhases, BStatuses
  <2>3. r \in BRequests
    BY <1>2, <2>1, <2>2 DEF BRequests
  <2> QED BY <1>2, <2>1, <2>3 DEF BRequests
<1>4. BAsked(r)
  BY <1>3 DEF BAsked
<1>5. ASSUME quiet', quiet, browser.pc \in {"first", "next"} PROVE BPending(r, browser)
  <2>1. BPending(q, browser) /\ q.pc # "answered" /\ q.kind = "full" /\ code = 413 /\ Delivery!Bytes(BShown) > InlineMax
    BY <1>1, <1>5, BCalm
  <2> QED BY <1>3, <2>1 DEF BPending
<1>6. quiet' /\ quiet /\ browser.pc \in {"first", "next"} => BPending(r, browser)
  BY <1>5
<1> QED BY <1>3, <1>4, <1>6, BServes

\* The check of the session's bundle, before an archive is looked at.
LEMMA BScope ==
    ASSUME BInv, Delivery!Scope
    PROVE  BInv'
<1>1. /\ asked.pc = "scope"
      /\ UNCHANGED <<s3, versioned, bundle, archive, objects, sidecar, publisher, gen, current, browser, restorer, quiet>>
  BY DEF Delivery!Scope, Delivery!store, Delivery!files
<1>2. CASE current
  <2>1. PICK q, r : q = asked /\ r = [asked EXCEPT !.pc = "stat"]
    OBVIOUS
  <2>2. q \in BRequests /\ asked' = r
    BY <1>2, <2>1 DEF BInv, BTyped, Delivery!Scope
  <2>3. /\ r \in BRequests /\ r.pc = "stat" /\ r.kind = q.kind /\ r.start = q.start /\ r.end = q.end
    <3>1. "stat" \in BPhases
      BY DEF BPhases
    <3> QED BY <2>1, <2>2, <3>1 DEF BRequests
  <2>4. BAsked(r)
    BY <2>3 DEF BAsked
  <2>5. ASSUME quiet, browser.pc \in {"first", "next"} PROVE BPending(r, browser)
    <3>1. BPending(q, browser) /\ q.pc = "scope"
      BY <1>1, <2>1, <2>5, BCalm
    <3> QED BY <2>3, <3>1 DEF BPending
  <2> QED BY <1>1, <2>2, <2>3, <2>4, <2>5, BServes
<1>3. CASE ~current
  <2>1. ~quiet
    BY <1>3 DEF BInv, BUndisturbed
  <2>2. Delivery!Respond(404)
    BY <1>3 DEF Delivery!Scope
  <2> QED BY <1>1, <2>1, <2>2, BRefuses
<1> QED BY <1>2, <1>3

\* A size was seen, and with a bucket the representation and the version.
LEMMA BStated ==
    ASSUME BInv, Delivery!DeliveryConstants, asked.pc = "stat", NEW total \in Int, NEW rep \in BReps, NEW version \in Nat,
           UNCHANGED <<s3, versioned, bundle, archive, objects, sidecar, publisher, gen, current, browser, restorer, quiet>>,
           Delivery!Stated(total, rep, version),
           s3 => /\ BFit(rep) /\ total = Delivery!Bytes(rep)
                 /\ version > 0 => version \in DOMAIN objects /\ objects[version].rep = rep,
           quiet => total = Delivery!Bytes(BShown) /\ version = BVersion /\ (s3 => rep = BShown)
    PROVE  BInv'
<1>1. CASE ~Delivery!admitArtifactReadSize(total)
  <2>1. asked \in BRequests /\ Delivery!Respond(413)
    BY <1>1 DEF BInv, BTyped, Delivery!Stated
  <2>2. asked.kind = "full" /\ ~(total <= InlineMax)
    BY <1>1, <2>1 DEF Delivery!admitArtifactReadSize, BRequests
  <2>3. quiet => Delivery!Bytes(BShown) > InlineMax
    BY <2>2, BEdits
  <2> QED BY <2>1, <2>2, <2>3, BRefuses
<1>2. CASE Delivery!admitArtifactReadSize(total)
  <2>1. PICK q, r : q = asked /\ r = [asked EXCEPT !.pc = "read", !.total = total, !.rep = rep, !.version = version]
    OBVIOUS
  <2>2. q \in BRequests /\ asked' = r
    BY <1>2, <2>1 DEF BInv, BTyped, Delivery!Stated
  <2>3. /\ r \in BRequests /\ r.pc = "read" /\ r.kind = q.kind /\ r.start = q.start /\ r.end = q.end
        /\ r.total = total /\ r.rep = rep /\ r.version = version
    <3>1. r = [q EXCEPT !.pc = "read", !.total = total, !.rep = rep, !.version = version]
      BY <2>1
    <3>2. "read" \in BPhases
      BY DEF BPhases
    <3>3. r \in BRequests
      BY <2>2, <3>1, <3>2 DEF BRequests
    <3> QED BY <2>2, <3>1, <3>3 DEF BRequests
  <2>4. BAsked(r)
    BY <2>3 DEF BAsked
  <2>5. ASSUME quiet, browser.pc \in {"first", "next"} PROVE BPending(r, browser)
    <3>1. BPending(q, browser) /\ q.pc = "stat"
      BY <2>1, <2>5, BCalm
    <3> QED BY <2>3, <2>5, <3>1 DEF BPending
  <2> QED BY <2>2, <2>3, <2>4, <2>5, BServes
<1> QED BY <1>1, <1>2

\* The size is read before the bytes are.
LEMMA BStat ==
    ASSUME BInv, Delivery!DeliveryConstants, Delivery!Stat
    PROVE  BInv'
<1>1. /\ asked.pc = "stat" /\ BTyped /\ BStore
      /\ UNCHANGED <<s3, versioned, bundle, archive, objects, sidecar, publisher, gen, current, browser, restorer, quiet>>
  BY DEF Delivery!Stat, Delivery!store, Delivery!files, BInv
<1>2. archive \in BZips /\ objects \in Seq(BZips) /\ versioned \in BOOLEAN
  BY <1>1 DEF BTyped
<1>3. CASE ~s3
  <2>1. CASE archive.kind = "none"
    <3>1. Delivery!Respond(404)
      BY <1>3, <2>1 DEF Delivery!Stat
    <3>2. ~quiet
      BY <1>3, <2>1, BCalm
    <3> QED BY <1>1, <3>1, <3>2, BRefuses
  <2>2. CASE archive.kind # "none"
    <3>1. PICK total : total = Delivery!SizeOf(archive)
      OBVIOUS
    <3>2. Delivery!Stated(total, Delivery!NoRep, 0) /\ total \in Int
      BY <1>2, <1>3, <2>2, <3>1, BInspect DEF Delivery!Stat
    <3>3. quiet => total = Delivery!Bytes(BShown) /\ BVersion = 0
      BY <1>3, <3>1, BCalm DEF BVersion
    <3> QED BY <1>1, <1>3, <3>2, <3>3, BNone, BStated
  <2> QED BY <2>1, <2>2
<1>4. CASE s3
  <2>1. CASE objects = <<>>
    <3>1. Delivery!Respond(404)
      BY <1>4, <2>1 DEF Delivery!Stat
    <3>2. ~quiet
      BY <1>4, <2>1, BCalm
    <3> QED BY <1>1, <3>1, <3>2, BRefuses
  <2>2. CASE objects # <<>>
    <3>1. PICK total, rep, version :
            /\ total = Delivery!SizeOf(Delivery!Latest) /\ rep = Delivery!Latest.rep
            /\ version = IF versioned THEN Len(objects) ELSE 0
      OBVIOUS
    <3>2. Delivery!Stated(total, rep, version)
      BY <1>4, <2>2, <3>1 DEF Delivery!Stat
    <3>3. Len(objects) \in DOMAIN objects /\ Len(objects) \in Nat /\ Delivery!Latest \in BZips
      BY <1>1, <2>2, BLatest
    <3>4. Delivery!Latest.kind = "whole" /\ BFit(Delivery!Latest.rep) /\ rep \in BReps
      BY <1>1, <3>1, <3>3 DEF BStore, Delivery!Latest, BZips
    <3>5. total = Delivery!Bytes(rep) /\ total \in Int /\ BFit(rep)
      BY <3>1, <3>3, <3>4, BInspect, BSizes
    <3>6. version \in Nat /\ (version > 0 => version \in DOMAIN objects /\ objects[version].rep = rep)
      BY <3>1, <3>3 DEF Delivery!Latest
    <3>7. rep = BShown /\ version = BVersion
      BY <1>4, <3>1 DEF BShown, BVersion
    <3> QED BY <1>1, <3>2, <3>4, <3>5, <3>6, <3>7, BStated
  <2> QED BY <2>1, <2>2
<1> QED BY <1>3, <1>4

\* The range of an answer.
LEMMA BRange ==
    ASSUME Delivery!DeliveryConstants, NEW start \in Int, NEW end \in Int, NEW total \in Int
    PROVE  LET r == Delivery!resolveArtifactRange(start, end, total) IN
           /\ r.ok \in BOOLEAN
           /\ r.ok => /\ r.start = start /\ r.end \in Int /\ r.end < total /\ r.end <= end
                      /\ r.end = Delivery!Min({end, total - 1, start + RangeMax - 1})
           /\ total # 0 /\ start <= end /\ start < total => r.ok
<1>1. PICK m : m = Delivery!Min({end, total - 1, start + RangeMax - 1})
  OBVIOUS
<1>2. RangeMax \in Nat
  BY BEdits
<1>3. m \in Int /\ m <= end /\ m <= total - 1
  <2>1. PICK y, z : y = total - 1 /\ z = start + RangeMax - 1
    OBVIOUS
  <2>2. y \in Int /\ z \in Int
    BY <1>2, <2>1
  <2>3. m \in {end, y, z} /\ m <= end /\ m <= y
    BY <1>1, <2>1, <2>2, BMinThree
  <2> QED BY <2>1, <2>2, <2>3
<1>4. CASE total = 0 \/ end < start \/ start >= total
  BY <1>4 DEF Delivery!resolveArtifactRange, Delivery!NoRange
<1>5. CASE ~(total = 0 \/ end < start \/ start >= total)
  <2>1. Delivery!resolveArtifactRange(start, end, total) = [start |-> start, end |-> m, ok |-> TRUE]
    BY <1>1, <1>5 DEF Delivery!resolveArtifactRange
  <2> QED BY <1>1, <1>3, <2>1
<1> QED BY <1>4, <1>5

\* The last byte that a browser asks for is within what the server answers at once.
LEMMA BWithin ==
    ASSUME Delivery!DeliveryConstants, NEW next \in Int, NEW total \in Int, next < total
    PROVE  /\ BLast(next, total) \in Int /\ next <= BLast(next, total) /\ BLast(next, total) < total
           /\ Delivery!Min({BLast(next, total), total - 1, next + RangeMax - 1}) = BLast(next, total)
<1>1. PICK c, l, m : /\ c = BChunk /\ l = Delivery!Min({next + c - 1, total - 1})
                     /\ m = Delivery!Min({l, total - 1, next + RangeMax - 1})
  OBVIOUS
<1>2. RangeMax \in Nat /\ RangeMax > 0 /\ ChunkBytes \in Nat /\ ChunkBytes > 0
  BY BEdits
<1>3. c \in Nat /\ c > 0 /\ c <= RangeMax
  BY <1>1, <1>2, BMinTwo DEF BChunk
<1>4. l \in {next + c - 1, total - 1} /\ l <= next + c - 1 /\ l <= total - 1
  BY <1>1, <1>3, BMinTwo
<1>5. l \in Int /\ next <= l /\ l < total /\ l <= next + RangeMax - 1
  BY <1>2, <1>3, <1>4
<1>6. m \in {l, total - 1, next + RangeMax - 1} /\ m <= l
  <2>1. PICK y, z : y = total - 1 /\ z = next + RangeMax - 1
    OBVIOUS
  <2>2. y \in Int /\ z \in Int
    BY <1>2, <2>1
  <2>3. m \in {l, y, z} /\ m <= l
    BY <1>1, <1>5, <2>1, <2>2, BMinThree
  <2> QED BY <2>1, <2>3
<1>7. m = l
  BY <1>2, <1>4, <1>5, <1>6
<1>8. BLast(next, total) = l
  BY <1>1 DEF BLast
<1> QED BY <1>1, <1>5, <1>7, <1>8

\* An answer is a request.
LEMMA BFilled ==
    ASSUME NEW q \in BRequests, NEW code \in BStatuses, NEW rep \in BReps
    PROVE  [q EXCEPT !.pc = "answered", !.status = code, !.rep = rep] \in BRequests
<1>1. "answered" \in BPhases
  BY DEF BPhases
<1> QED BY <1>1 DEF BRequests

\* The bytes of a fit archive are answered.
LEMMA BAnswers ==
    ASSUME BInv, Delivery!DeliveryConstants, asked.pc = "read", NEW rep \in BReps, Delivery!Answered(rep),
           UNCHANGED <<s3, versioned, bundle, archive, objects, sidecar, publisher, gen, current, browser, restorer, quiet>>,
           BFit(rep), asked.total = Delivery!Bytes(rep), quiet => rep = BShown
    PROVE  BInv'
<1>1. PICK q, a : q = asked /\ a = Delivery!resolveArtifactRange(q.start, q.end, q.total)
  OBVIOUS
<1>2. q \in BRequests /\ q.pc = "read" /\ q.total = Delivery!Bytes(rep)
  BY <1>1 DEF BInv, BTyped
<1>3. /\ q.start \in Int /\ q.end \in Int /\ q.total \in Int /\ q.kind \in {"full", "range"} /\ q.version \in Nat
      /\ q.rep \in BReps /\ q.status \in BStatuses
  BY <1>2 DEF BRequests
<1>4. quiet /\ browser.pc \in {"first", "next"} => BPending(q, browser)
  BY <1>1, BCalm
<1>5. "answered" \in BPhases /\ 200 \in BStatuses /\ 206 \in BStatuses
  BY DEF BPhases, BStatuses
<1>6. CASE q.kind = "full"
  <2>1. PICK r : r = [q EXCEPT !.pc = "answered", !.status = 200, !.rep = rep]
    OBVIOUS
  <2>2. asked' = r
    BY <1>1, <1>6, <2>1 DEF Delivery!Answered
  <2>3. r \in BRequests
    BY <1>2, <1>5, <2>1, BFilled
  <2>4. /\ r.pc = "answered" /\ r.status = 200 /\ r.rep = rep /\ r.kind = q.kind /\ r.start = q.start /\ r.end = q.end
        /\ r.total = q.total
    BY <1>2, <2>1 DEF BRequests
  <2>5. BAsked(r)
    BY <1>2, <2>4 DEF BAsked
  <2>6. ASSUME quiet, browser.pc \in {"first", "next"} PROVE BPending(r, browser)
    BY <1>2, <1>4, <1>6, <2>4, <2>6 DEF BPending
  <2> QED BY <2>2, <2>3, <2>5, <2>6, BServes
<1>7. CASE q.kind = "range" /\ ~a.ok
  <2>1. Delivery!Respond(416)
    BY <1>1, <1>7 DEF Delivery!Answered
  <2>2. ~quiet
    <3> SUFFICES ASSUME quiet PROVE FALSE
      OBVIOUS
    <3>1. q.total = Delivery!Bytes(BShown) /\ q.total >= 1
      BY <1>2, BCalm
    <3>2. CASE browser.pc = "first"
      <4>1. q.start = 0 /\ q.end = ChunkBytes - 1
        BY <1>2, <1>4, <3>2 DEF BPending
      <4>2. q.start <= q.end /\ q.start < q.total /\ q.total # 0
        BY <1>3, <3>1, <4>1, BEdits
      <4> QED BY <1>1, <1>3, <1>7, <4>2, BRange
    <3>3. CASE browser.pc = "next"
      <4>1. q.start = browser.next /\ q.end = BLast(q.start, q.total) /\ q.start < q.total
        BY <1>2, <1>4, <3>1, <3>3 DEF BPending
      <4>2. q.start <= q.end
        BY <1>3, <4>1, BWithin
      <4>3. q.total # 0 /\ q.start < q.total
        BY <1>3, <3>1, <4>1
      <4> QED BY <1>1, <1>3, <1>7, <4>2, <4>3, BRange
    <3>4. CASE browser.pc \notin {"first", "next"}
      BY <1>1, <1>2, <3>4 DEF BInv, BWaits
    <3> QED BY <3>2, <3>3, <3>4
  <2> QED BY <2>1, <2>2, BRefuses
<1>8. CASE q.kind = "range" /\ a.ok
  <2>1. PICK start, end : start = a.start /\ end = a.end
    OBVIOUS
  <2>2. /\ start = q.start /\ end \in Int /\ end < q.total /\ end <= q.end
        /\ end = Delivery!Min({q.end, q.total - 1, q.start + RangeMax - 1})
    BY <1>1, <1>3, <1>8, <2>1, BRange
  <2>3. PICK r : r = [q EXCEPT !.pc = "answered", !.status = 206, !.rep = rep, !.start = start, !.end = end]
    OBVIOUS
  <2>4. asked' = r
    BY <1>1, <1>8, <2>1, <2>3 DEF Delivery!Answered
  <2>5. r \in BRequests
    <3>1. start \in Int /\ end \in Int
      BY <1>3, <2>2
    <3>2. PICK x : x = [q EXCEPT !.pc = "answered", !.status = 206, !.rep = rep]
      OBVIOUS
    <3>3. x \in BRequests
      BY <1>2, <1>5, <3>2, BFilled
    <3>4. PICK y : y = [x EXCEPT !.start = start, !.end = end]
      OBVIOUS
    <3>5. y \in BRequests
      BY <3>1, <3>3, <3>4 DEF BRequests
    <3>6. y = r
      BY <1>2, <2>3, <3>2, <3>4 DEF BRequests
    <3> QED BY <3>5, <3>6
  <2>6. /\ r.pc = "answered" /\ r.status = 206 /\ r.rep = rep /\ r.kind = q.kind /\ r.start = q.start /\ r.end = end
        /\ r.total = q.total /\ r.version = q.version
    BY <1>2, <2>2, <2>3 DEF BRequests
  <2>7. BAsked(r)
    BY <1>2, <2>6 DEF BAsked
  <2>8. ASSUME quiet, browser.pc \in {"first", "next"} PROVE BPending(r, browser)
    <3>1. BPending(q, browser) /\ rep = BShown /\ q.total = Delivery!Bytes(BShown) /\ q.version = BVersion
      BY <1>2, <1>4, <2>8 DEF BPending
    <3>2. CASE browser.pc = "first"
      <4>1. q.end = ChunkBytes - 1 /\ q.start = 0 /\ q.kind = browser.kind
        BY <1>2, <3>1, <3>2 DEF BPending
      <4>2. end < ChunkBytes
        BY <2>2, <1>3, <4>1, BEdits
      <4> QED BY <1>8, <2>2, <2>6, <3>1, <3>2, <4>1, <4>2 DEF BPending
    <3>3. CASE browser.pc = "next"
      <4>1. /\ q.start = browser.next /\ q.end = BLast(q.start, q.total) /\ q.start < q.total
            /\ browser.total = q.total /\ browser.rep = BShown /\ browser.version = BVersion
        BY <1>2, <3>1, <3>3 DEF BPending
      <4>2. end = BLast(q.start, q.total)
        BY <1>3, <2>2, <4>1, BWithin
      <4> QED BY <1>8, <2>2, <2>6, <3>1, <3>3, <4>1, <4>2 DEF BPending
    <3> QED BY <2>8, <3>2, <3>3
  <2> QED BY <2>4, <2>5, <2>7, <2>8, BServes
<1> QED BY <1>3, <1>6, <1>7, <1>8

\* The bytes are read, from the file or from the bucket.
LEMMA BRead ==
    ASSUME BInv, Delivery!DeliveryConstants, Delivery!ReadLocal \/ Delivery!ReadS3
    PROVE  BInv'
<1>1. /\ asked.pc = "read" /\ BTyped /\ BStore /\ asked \in BRequests /\ BAsked(asked)
      /\ UNCHANGED <<s3, versioned, bundle, archive, objects, sidecar, publisher, gen, current, browser, restorer, quiet>>
  BY DEF Delivery!ReadLocal, Delivery!ReadS3, Delivery!store, Delivery!files, BInv, BTyped
<1>2. quiet => BPending(asked, browser)
  BY <1>1, BCalm DEF BInv, BWaits
<1>3. archive \in BZips /\ archive.rep \in BReps
  BY <1>1 DEF BTyped, BZips
<1>4. CASE Delivery!ReadLocal
  <2>1. ~s3
    BY <1>4 DEF Delivery!ReadLocal
  <2>2. CASE archive.kind = "none"
    <3>1. Delivery!Respond(404)
      BY <1>4, <2>2 DEF Delivery!ReadLocal
    <3>2. ~quiet
      BY <2>1, <2>2, BCalm
    <3> QED BY <1>1, <3>1, <3>2, BRefuses
  <2>3. CASE archive.kind # "none" /\ Delivery!readAdmittedArtifactBytes(archive)
    <3>1. Delivery!Answered(archive.rep)
      BY <1>4, <2>3 DEF Delivery!ReadLocal
    <3>2. BFit(archive.rep) /\ asked.total = Delivery!Bytes(archive.rep)
      BY <1>3, <2>3, BInspect DEF Delivery!readAdmittedArtifactBytes
    <3>3. archive.rep = BShown
      BY <2>1 DEF BShown
    <3> QED BY <1>1, <1>3, <3>1, <3>2, <3>3, BAnswers
  <2>4. CASE archive.kind # "none" /\ ~Delivery!readAdmittedArtifactBytes(archive)
    <3>1. Delivery!Respond(500)
      BY <1>4, <2>4 DEF Delivery!ReadLocal
    <3>2. ~quiet
      <4> SUFFICES ASSUME quiet PROVE FALSE
        OBVIOUS
      <4>1. asked.total = Delivery!Bytes(BShown)
        BY <1>1, <1>2 DEF BPending
      <4>2. /\ archive.kind = "whole" /\ Delivery!SizeOf(archive) = asked.total /\ BFit(archive.rep)
        BY <2>1, <4>1, BCalm
      <4> QED BY <1>3, <2>4, <4>2, BInspect DEF Delivery!readAdmittedArtifactBytes
    <3> QED BY <1>1, <3>1, <3>2, BRefuses
  <2> QED BY <2>2, <2>3, <2>4
<1>5. CASE Delivery!ReadS3
  <2>1. s3
    BY <1>5 DEF Delivery!ReadS3
  <2>2. PICK rep : rep = Delivery!readPinned
    OBVIOUS
  <2>3. /\ BFit(asked.rep) /\ asked.total = Delivery!Bytes(asked.rep) /\ asked.rep \in BReps
        /\ asked.version > 0 => objects[asked.version].rep = asked.rep
    BY <1>1, <2>1 DEF BAsked, BRequests
  <2>4. rep = asked.rep \/ rep = Delivery!NoRep
    BY <2>2, <2>3 DEF Delivery!readPinned
  <2>5. quiet => rep = BShown
    <3> SUFFICES ASSUME quiet PROVE rep = BShown
      OBVIOUS
    <3>1. asked.rep = BShown /\ Delivery!Latest.rep = BShown
      BY <1>1, <1>2, <2>1, BCalm DEF BPending
    <3> QED BY <2>2, <2>3, <3>1 DEF Delivery!readPinned
  <2>6. CASE rep = Delivery!NoRep
    <3>1. Delivery!Respond(500)
      BY <1>5, <2>2, <2>6 DEF Delivery!ReadS3
    <3>2. ~quiet
      BY <2>5, <2>6, BCalm, BNone
    <3> QED BY <1>1, <3>1, <3>2, BRefuses
  <2>7. CASE rep # Delivery!NoRep
    <3>1. Delivery!Answered(rep) /\ rep = asked.rep
      BY <1>5, <2>2, <2>4, <2>7 DEF Delivery!ReadS3
    <3> QED BY <1>1, <2>3, <2>5, <3>1, BAnswers
  <2> QED BY <2>6, <2>7
<1> QED BY <1>4, <1>5

\* A failed read disturbs the download.
LEMMA BReadFails ==
    ASSUME BInv, Delivery!ReadFails
    PROVE  BInv'
<1>1. /\ asked.pc \in {"stat", "read"} /\ quiet' = FALSE /\ Delivery!Respond(500)
      /\ UNCHANGED <<s3, versioned, bundle, archive, objects, sidecar, publisher, gen, current, browser, restorer>>
  BY DEF Delivery!ReadFails, Delivery!store, Delivery!files
<1> QED BY <1>1, BRefuses

-----------------------------------------------------------------------------
(* The browser.                                                            *)

\* A step of the browser, from what it leaves of the request and of the pieces.
LEMMA BTakes ==
    ASSUME BInv, UNCHANGED <<s3, versioned, bundle, archive, objects, sidecar, publisher, gen, current, restorer>>,
           NEW r \in BRequests, NEW b \in BBrowsers, asked' = r, browser' = b, BAsked(r), BGot(b), BWaits(r, b),
           quiet' \in BOOLEAN,
           quiet' => /\ current /\ b.pc # "idle" /\ BThere
                     /\ b.pc \in {"first", "next"} => BPending(r, b)
                     /\ b.pc = "threw" => BTooLarge(b)
    PROVE  BInv'
<1>1. BTyped'
  BY DEF BInv, BTyped
<1>2. BStore'
  BY DEF BInv, BStore, Delivery!Latest
<1>3. BGot(browser)' /\ BWaits(asked, browser)'
  BY DEF BGot, BWaits
<1>4. BRestored'
  BY DEF BInv, BRestored
<1>5. BAsked(asked)'
  BY DEF BAsked
<1>6. BUndisturbed(asked, browser)'
  <2>1. BShown' = BShown /\ BVersion' = BVersion /\ (BThere => BThere')
    BY DEF BShown, BVersion, BThere, Delivery!Latest
  <2>2. BPending(r, b) => BPending(asked, browser)'
    BY <2>1 DEF BPending
  <2>3. BTooLarge(b) => BTooLarge(browser)'
    BY <2>1 DEF BTooLarge
  <2> QED BY <2>1, <2>2, <2>3 DEF BUndisturbed
<1> QED BY <1>1, <1>2, <1>3, <1>4, <1>5, <1>6 DEF BInv

\* No request promises nothing.
LEMMA BNoRequest ==
    Delivery!NoRequest \in BRequests /\ Delivery!NoRequest.pc = "none" /\ BAsked(Delivery!NoRequest)
<1>1. "none" \in BPhases /\ 0 \in BStatuses
  BY DEF BPhases, BStatuses
<1>2. Delivery!NoRequest.pc = "none"
  BY DEF Delivery!NoRequest
<1>3. Delivery!NoRequest \in BRequests
  BY <1>1, BNone DEF Delivery!NoRequest, BRequests
<1> QED BY <1>2, <1>3 DEF BAsked

\* A new request waits for the scope check.
LEMMA BAsks ==
    ASSUME NEW kind \in {"full", "range"}, NEW start \in Int, NEW end \in Int, Delivery!Ask(kind, start, end)
    PROVE  /\ asked' \in BRequests /\ asked'.pc = "scope" /\ asked'.kind = kind /\ asked'.start = start
           /\ asked'.end = end
<1>1. PICK q, r : q = Delivery!NoRequest /\ r = asked'
  OBVIOUS
<1>2. r = [q EXCEPT !.pc = "scope", !.kind = kind, !.start = start, !.end = end]
  BY <1>1 DEF Delivery!Ask
<1>3. q \in BRequests /\ "scope" \in BPhases
  BY <1>1, BNoRequest DEF BPhases
<1>4. r \in BRequests
  BY <1>2, <1>3 DEF BRequests
<1> QED BY <1>1, <1>2, <1>3, <1>4 DEF BRequests

\* A download that throws was disturbed or is too large.
LEMMA BGivesUp ==
    ASSUME BInv, Delivery!GiveUp, browser.pc \in {"first", "next"},
           UNCHANGED <<s3, versioned, bundle, archive, objects, sidecar, publisher, gen, current, restorer, quiet>>,
           quiet => BTooLarge(browser)
    PROVE  BInv'
<1>1. PICK a, b : a = browser /\ b = [browser EXCEPT !.pc = "threw"]
  OBVIOUS
<1>2. a \in BBrowsers /\ BGot(a) /\ b = [a EXCEPT !.pc = "threw"] /\ browser' = b /\ quiet \in BOOLEAN
      /\ asked' = Delivery!NoRequest
  BY <1>1 DEF BInv, BTyped, Delivery!GiveUp
<1>3. b \in BBrowsers /\ b.pc = "threw" /\ b.kind = a.kind /\ b.got = a.got
  BY <1>2 DEF BBrowsers
<1>4. BGot(b)
  BY <1>2, <1>3 DEF BGot
<1>5. quiet => BTooLarge(b) /\ current /\ BThere
  BY <1>1, <1>3, BCalm DEF BTooLarge
<1>6. PICK r : r = Delivery!NoRequest
  OBVIOUS
<1>7. r \in BRequests /\ BAsked(r) /\ BWaits(r, b) /\ asked' = r
  BY <1>2, <1>6, BNoRequest DEF BWaits
<1> QED BY <1>2, <1>3, <1>4, <1>5, <1>7, BTakes

\* A download that is saved.
LEMMA BSaves ==
    ASSUME BInv, NEW got \in Seq(BPieces), Delivery!Saved(got), browser.pc \in {"first", "next"},
           UNCHANGED <<s3, versioned, bundle, archive, objects, sidecar, publisher, gen, current, restorer, quiet>>,
           got # <<>>,
           \A k \in 1 .. Len(got) : /\ BFit(got[k].rep) /\ got[k].rep = got[1].rep
                                     /\ got[k].start = IF k = 1 THEN 0 ELSE got[k - 1].end + 1,
           got[Len(got)].end = Delivery!Bytes(got[1].rep) - 1
    PROVE  BInv'
<1>1. PICK a, b : a = browser /\ b = [browser EXCEPT !.pc = "saved", !.got = got]
  OBVIOUS
<1>2. a \in BBrowsers /\ b = [a EXCEPT !.pc = "saved", !.got = got] /\ browser' = b /\ quiet \in BOOLEAN
      /\ asked' = Delivery!NoRequest
  BY <1>1 DEF BInv, BTyped, Delivery!Saved
<1>3. b \in BBrowsers /\ b.pc = "saved" /\ b.got = got
  BY <1>2 DEF BBrowsers
<1>4. BGot(b)
  BY <1>3 DEF BGot
<1>5. quiet => current /\ BThere
  BY BCalm
<1>6. PICK r : r = Delivery!NoRequest
  OBVIOUS
<1>7. r \in BRequests /\ BAsked(r) /\ BWaits(r, b) /\ asked' = r
  BY <1>2, <1>6, BNoRequest DEF BWaits
<1> QED BY <1>2, <1>3, <1>4, <1>5, <1>7, BTakes

\* A download that goes on behind its last piece.
LEMMA BGoesOn ==
    ASSUME BInv, Delivery!DeliveryConstants,
           NEW next \in Int, NEW total \in Int, NEW rep \in BReps, NEW version \in Nat, NEW got \in Seq(BPieces),
           Delivery!AskNext(next, total, rep, version, got), browser.pc \in {"first", "next"},
           UNCHANGED <<s3, versioned, bundle, archive, objects, sidecar, publisher, gen, current, restorer, quiet>>,
           got # <<>>, next < total,
           \A k \in 1 .. Len(got) : /\ BFit(got[k].rep) /\ got[k].rep = rep
                                     /\ got[k].start = IF k = 1 THEN 0 ELSE got[k - 1].end + 1,
           got[Len(got)].end + 1 = next, total = Delivery!Bytes(rep),
           quiet => rep = BShown /\ version = BVersion
    PROVE  BInv'
<1>1. PICK a, b : a = browser /\ b = browser'
  OBVIOUS
<1>2. PICK end : end = BLast(next, total)
  OBVIOUS
<1>3. /\ a \in BBrowsers /\ quiet \in BOOLEAN
      /\ b = [a EXCEPT !.pc = "next", !.next = next, !.total = total, !.rep = rep, !.version = version, !.got = got]
      /\ Delivery!Ask("range", next, end)
  BY <1>1, <1>2 DEF BInv, BTyped, Delivery!AskNext, BLast, BChunk, Delivery!resolveArtifactChunkSize
<1>4. b \in BBrowsers
  <2>1. PICK x : x = [a EXCEPT !.pc = "next", !.next = next, !.total = total]
    OBVIOUS
  <2>2. x \in BBrowsers
    BY <1>3, <2>1 DEF BBrowsers
  <2>3. PICK y : y = [x EXCEPT !.rep = rep, !.version = version, !.got = got]
    OBVIOUS
  <2>4. y \in BBrowsers
    BY <2>2, <2>3 DEF BBrowsers
  <2>5. y = b
    BY <1>3, <2>1, <2>3 DEF BBrowsers
  <2> QED BY <2>4, <2>5
<1>5. /\ b.pc = "next" /\ b.next = next /\ b.total = total /\ b.rep = rep /\ b.version = version /\ b.got = got
  BY <1>3 DEF BBrowsers
<1>6. BGot(b)
  BY <1>5 DEF BGot
<1>7. PICK r : r = asked'
  OBVIOUS
<1>8. end \in Int
  BY <1>2, BWithin
<1>9. r \in BRequests /\ r.pc = "scope" /\ r.kind = "range" /\ r.start = next /\ r.end = end
  BY <1>3, <1>7, <1>8, BAsks
<1>10. BAsked(r) /\ BWaits(r, b)
  BY <1>5, <1>9 DEF BAsked, BWaits
<1>11. quiet => current /\ BThere /\ BPending(r, b)
  <2> SUFFICES ASSUME quiet PROVE current /\ BThere /\ BPending(r, b)
    OBVIOUS
  <2> QED BY <1>2, <1>5, <1>9, BCalm DEF BPending
<1> QED BY <1>1, <1>3, <1>4, <1>5, <1>6, <1>7, <1>9, <1>10, <1>11, BTakes

\* The facts that a piece rests on.
LEMMA BPiece ==
    ASSUME BInv, asked.pc = "answered", asked.status \in {200, 206}
    PROVE  /\ Delivery!Piece \in BPieces /\ Delivery!Piece.rep = asked.rep /\ Delivery!Piece.start = asked.start
           /\ Delivery!Piece.end = asked.end /\ BFit(asked.rep) /\ asked.rep \in BReps
           /\ asked.total = Delivery!Bytes(asked.rep) /\ asked.total \in Nat /\ asked.end \in Int
           /\ asked.version \in Nat /\ asked.start \in Int
<1>1. asked \in BRequests /\ BAsked(asked)
  BY DEF BInv, BTyped
<1>2. /\ asked.rep \in BReps /\ asked.start \in Int /\ asked.end \in Int /\ asked.version \in Nat
  BY <1>1 DEF BRequests
<1>3. BFit(asked.rep) /\ asked.total = Delivery!Bytes(asked.rep)
  BY <1>1 DEF BAsked
<1> QED BY <1>2, <1>3, BSizes DEF Delivery!Piece, BPieces

\* The first answer, when it is not a range.
LEMMA BReceiveWhole ==
    ASSUME BInv, Delivery!DeliveryConstants, Delivery!ReceiveWhole
    PROVE  BInv'
<1>1. /\ browser.pc = "first" /\ asked.pc = "answered" /\ asked.status # 206
      /\ UNCHANGED <<s3, versioned, bundle, archive, objects, sidecar, publisher, gen, current, restorer, quiet>>
  BY DEF Delivery!ReceiveWhole, Delivery!store, Delivery!files
<1>2. CASE asked.status = 200 /\ asked.total <= MaxDownload
  <2>1. PICK x, got : x = [rep |-> asked.rep, start |-> 0, end |-> asked.total - 1] /\ got = <<x>>
    OBVIOUS
  <2>2. Delivery!Saved(got)
    BY <1>2, <2>1 DEF Delivery!ReceiveWhole
  <2>3. /\ asked.rep \in BReps /\ BFit(asked.rep) /\ asked.total = Delivery!Bytes(asked.rep) /\ asked.total \in Nat
    BY <1>1, <1>2, BPiece
  <2>4. x \in BPieces /\ x.rep = asked.rep /\ x.start = 0 /\ x.end = asked.total - 1
    BY <2>1, <2>3 DEF BPieces
  <2>5. got \in Seq(BPieces) /\ Len(got) = 1 /\ got[1] = x /\ got # <<>>
    BY <2>1, <2>4
  <2>6. \A k \in 1 .. Len(got) : k = 1
    BY <2>5
  <2> QED BY <1>1, <2>2, <2>3, <2>4, <2>5, <2>6, BSaves
<1>3. CASE ~(asked.status = 200 /\ asked.total <= MaxDownload)
  <2>1. Delivery!GiveUp
    BY <1>3 DEF Delivery!ReceiveWhole
  <2>2. quiet => BTooLarge(browser)
    <3> SUFFICES ASSUME quiet PROVE BTooLarge(browser)
      OBVIOUS
    <3>1. BPending(asked, browser) /\ asked \in BRequests /\ Delivery!Bytes(BShown) \in Nat /\ MaxDownload \in Nat
      BY <1>1, BCalm, BEdits DEF BInv, BTyped
    <3>2. asked.kind = browser.kind /\ asked.kind = "full"
      BY <1>1, <3>1 DEF BPending, BRequests
    <3>3. \/ asked.status = 200 /\ asked.total = Delivery!Bytes(BShown)
          \/ asked.status = 413 /\ Delivery!Bytes(BShown) > InlineMax
      BY <1>1, <3>1, <3>2 DEF BPending
    <3> QED BY <1>3, <3>1, <3>2, <3>3 DEF BTooLarge
  <2> QED BY <1>1, <2>1, <2>2, BGivesUp
<1> QED BY <1>2, <1>3

\* The first answer, when it is a range.
LEMMA BReceiveFirst ==
    ASSUME BInv, Delivery!DeliveryConstants, Delivery!ReceiveFirst
    PROVE  BInv'
<1>1. /\ browser.pc = "first" /\ asked.pc = "answered" /\ asked.status = 206
      /\ UNCHANGED <<s3, versioned, bundle, archive, objects, sidecar, publisher, gen, current, restorer, quiet>>
  BY DEF Delivery!ReceiveFirst, Delivery!store, Delivery!files
<1>2. PICK x, got : x = Delivery!Piece /\ got = <<x>>
  OBVIOUS
<1>3. /\ x \in BPieces /\ x.rep = asked.rep /\ x.start = asked.start /\ x.end = asked.end /\ BFit(asked.rep)
      /\ asked.rep \in BReps /\ asked.total = Delivery!Bytes(asked.rep) /\ asked.total \in Nat /\ asked.end \in Int
      /\ asked.version \in Nat
  BY <1>1, <1>2, BPiece
<1>4. got \in Seq(BPieces) /\ Len(got) = 1 /\ got[1] = x /\ got # <<>> /\ \A k \in 1 .. Len(got) : k = 1
  BY <1>2, <1>3
<1>5. quiet => /\ asked.start = 0 /\ asked.end < ChunkBytes /\ asked.end < asked.total
               /\ asked.rep = BShown /\ asked.version = BVersion
  <2> SUFFICES ASSUME quiet
               PROVE  /\ asked.start = 0 /\ asked.end < ChunkBytes /\ asked.end < asked.total
                      /\ asked.rep = BShown /\ asked.version = BVersion
    OBVIOUS
  <2>1. BPending(asked, browser) /\ asked \in BRequests
    BY <1>1, BCalm DEF BInv, BTyped
  <2>2. asked.kind = "range"
    BY <1>1, <2>1 DEF BPending, BRequests
  <2> QED BY <1>1, <2>1, <2>2 DEF BPending
<1>6. CASE ~Delivery!admitInitialArtifactRange
  <2>1. Delivery!GiveUp
    BY <1>6 DEF Delivery!ReceiveFirst
  <2>2. quiet => BTooLarge(browser)
    BY <1>3, <1>5, <1>6, BEdits DEF BTooLarge, Delivery!admitInitialArtifactRange
  <2> QED BY <1>1, <2>1, <2>2, BGivesUp
<1>7. CASE Delivery!admitInitialArtifactRange /\ asked.end + 1 >= asked.total
  <2>1. Delivery!Saved(got)
    BY <1>2, <1>7 DEF Delivery!ReceiveFirst
  <2>2. x.start = 0 /\ x.end = asked.total - 1
    BY <1>3, <1>7 DEF Delivery!admitInitialArtifactRange
  <2> QED BY <1>1, <1>3, <1>4, <2>1, <2>2, BSaves
<1>8. CASE Delivery!admitInitialArtifactRange /\ ~(asked.end + 1 >= asked.total)
  <2>1. PICK next, total, rep, version :
          next = asked.end + 1 /\ total = asked.total /\ rep = asked.rep /\ version = asked.version
    OBVIOUS
  <2>2. Delivery!AskNext(next, total, rep, version, got)
    BY <1>2, <1>8, <2>1 DEF Delivery!ReceiveFirst
  <2>3. x.start = 0 /\ next \in Int /\ next < total /\ got[Len(got)].end + 1 = next
    BY <1>3, <1>4, <1>8, <2>1 DEF Delivery!admitInitialArtifactRange
  <2>4. /\ total \in Int /\ rep \in BReps /\ version \in Nat /\ total = Delivery!Bytes(rep)
        /\ quiet => rep = BShown /\ version = BVersion
    BY <1>3, <1>5, <2>1
  <2>5. \A k \in 1 .. Len(got) : /\ BFit(got[k].rep) /\ got[k].rep = rep
                                  /\ got[k].start = IF k = 1 THEN 0 ELSE got[k - 1].end + 1
    BY <1>3, <1>4, <2>1, <2>3
  <2> QED BY <1>1, <1>4, <2>2, <2>3, <2>4, <2>5, BGoesOn
<1> QED BY <1>6, <1>7, <1>8

\* The answer to a later range.
LEMMA BReceiveNext ==
    ASSUME BInv, Delivery!DeliveryConstants, Delivery!ReceiveNext
    PROVE  BInv'
<1>1. /\ browser.pc = "next" /\ asked.pc = "answered"
      /\ UNCHANGED <<s3, versioned, bundle, archive, objects, sidecar, publisher, gen, current, restorer, quiet>>
  BY DEF Delivery!ReceiveNext, Delivery!store, Delivery!files
<1>2. PICK b, old, x, got : b = browser /\ old = browser.got /\ x = Delivery!Piece /\ got = Append(old, x)
  OBVIOUS
<1>3. /\ b \in BBrowsers /\ BGot(b) /\ b.pc = "next" /\ asked \in BRequests
  BY <1>1, <1>2 DEF BInv, BTyped
<1>4. /\ old \in Seq(BPieces) /\ b.next \in Int /\ b.total \in Int /\ b.rep \in BReps /\ b.version \in Nat
  BY <1>2, <1>3 DEF BBrowsers
<1>5. /\ old # <<>> /\ \A k \in 1 .. Len(old) : /\ BFit(old[k].rep) /\ old[k].rep = b.rep
                                                 /\ old[k].start = IF k = 1 THEN 0 ELSE old[k - 1].end + 1
      /\ old[Len(old)].end + 1 = b.next /\ b.total = Delivery!Bytes(b.rep) /\ b.next < b.total
  BY <1>2, <1>3 DEF BGot
<1>6. CASE ~Delivery!admitNextArtifactRange
  <2>1. Delivery!GiveUp
    BY <1>6 DEF Delivery!ReceiveNext
  <2>2. ~quiet
    <3> SUFFICES ASSUME quiet PROVE FALSE
      OBVIOUS
    <3>1. BPending(asked, browser)
      BY <1>1, BCalm
    <3>2. /\ asked.kind = "range" /\ asked.start = b.next /\ asked.end = BLast(b.next, b.total)
          /\ asked.status = 206 /\ asked.total = b.total /\ asked.rep = b.rep /\ asked.version = b.version
      BY <1>1, <1>2, <3>1 DEF BPending
    <3> QED BY <1>2, <1>6, <3>2 DEF Delivery!admitNextArtifactRange, BLast, BChunk, Delivery!resolveArtifactChunkSize
  <2> QED BY <1>1, <2>1, <2>2, BGivesUp
<1>7. ASSUME Delivery!admitNextArtifactRange
      PROVE  /\ x \in BPieces /\ x.rep = b.rep /\ x.start = b.next /\ x.end = asked.end
             /\ asked.end \in Int /\ asked.end < b.total
             /\ got \in Seq(BPieces) /\ got # <<>> /\ got[Len(got)] = x
             /\ \A k \in 1 .. Len(got) : /\ BFit(got[k].rep) /\ got[k].rep = b.rep
                                          /\ got[k].start = IF k = 1 THEN 0 ELSE got[k - 1].end + 1
             /\ got[1].rep = b.rep
  <2>1. /\ asked.status = 206 /\ asked.start = b.next /\ asked.rep = b.rep
        /\ asked.end = BLast(b.next, b.total)
    BY <1>2, <1>7 DEF Delivery!admitNextArtifactRange, BLast, BChunk, Delivery!resolveArtifactChunkSize
  <2>2. x \in BPieces /\ x.rep = b.rep /\ x.start = b.next /\ x.end = asked.end /\ BFit(x.rep)
    BY <1>1, <1>2, <2>1, BPiece
  <2>3. asked.end \in Int /\ asked.end < b.total
    <3>1. PICK next, total : next = b.next /\ total = b.total
      OBVIOUS
    <3>2. next \in Int /\ total \in Int /\ next < total
      BY <1>4, <1>5, <3>1
    <3>3. BLast(next, total) \in Int /\ BLast(next, total) < total
      BY <3>2, BWithin
    <3>4. BLast(next, total) = BLast(b.next, b.total)
      BY <3>1
    <3> QED BY <2>1, <3>1, <3>3, <3>4
  <2>4. PICK n \in Nat : n = Len(old)
    BY <1>4
  <2>5. n >= 1
    BY <1>4, <1>5, <2>4
  <2>6. /\ got \in Seq(BPieces) /\ Len(got) = n + 1 /\ got[n + 1] = x
        /\ \A k \in 1 .. n : got[k] = old[k]
    BY <1>2, <1>4, <2>2, <2>4
  <2>7. ASSUME NEW k \in 1 .. Len(got)
        PROVE  /\ BFit(got[k].rep) /\ got[k].rep = b.rep
               /\ got[k].start = IF k = 1 THEN 0 ELSE got[k - 1].end + 1
    <3>1. CASE k \in 1 .. n
      <4>1. got[k] = old[k] /\ (k # 1 => k - 1 \in 1 .. n)
        BY <2>4, <2>6, <3>1
      <4>2. k # 1 => got[k - 1] = old[k - 1]
        BY <2>6, <4>1
      <4> QED BY <1>5, <2>4, <3>1, <4>1, <4>2
    <3>2. CASE k = n + 1
      <4>1. got[k] = x /\ k # 1 /\ k - 1 = n /\ got[n] = old[n]
        BY <2>4, <2>5, <2>6, <3>2
      <4> QED BY <1>5, <2>2, <2>4, <4>1
    <3> QED BY <2>4, <2>6, <3>1, <3>2
  <2>8. got # <<>> /\ got[Len(got)] = x /\ got[1].rep = b.rep
    BY <2>4, <2>5, <2>6, <2>7
  <2> QED BY <2>2, <2>3, <2>6, <2>7, <2>8
<1>8. CASE Delivery!admitNextArtifactRange /\ asked.end + 1 >= b.total
  <2>1. Delivery!Saved(got)
    BY <1>2, <1>8 DEF Delivery!ReceiveNext
  <2>2. got[Len(got)].end = Delivery!Bytes(got[1].rep) - 1
    BY <1>4, <1>5, <1>7, <1>8
  <2> QED BY <1>1, <1>7, <1>8, <2>1, <2>2, BSaves
<1>9. CASE Delivery!admitNextArtifactRange /\ ~(asked.end + 1 >= b.total)
  <2>1. PICK next, total, rep, version :
          next = asked.end + 1 /\ total = b.total /\ rep = b.rep /\ version = b.version
    OBVIOUS
  <2>2. Delivery!AskNext(next, total, rep, version, got)
    BY <1>2, <1>9, <2>1 DEF Delivery!ReceiveNext
  <2>3. next \in Int /\ next < total /\ got[Len(got)].end + 1 = next
    BY <1>4, <1>7, <1>9, <2>1
  <2>4. quiet => b.rep = BShown /\ b.version = BVersion
    BY <1>1, <1>2, BCalm DEF BPending
  <2>5. /\ total \in Int /\ rep \in BReps /\ version \in Nat /\ total = Delivery!Bytes(rep)
        /\ quiet => rep = BShown /\ version = BVersion
    BY <1>4, <1>5, <2>1, <2>4
  <2>6. /\ got \in Seq(BPieces) /\ got # <<>>
        /\ \A k \in 1 .. Len(got) : /\ BFit(got[k].rep) /\ got[k].rep = rep
                                     /\ got[k].start = IF k = 1 THEN 0 ELSE got[k - 1].end + 1
    BY <1>7, <1>9, <2>1
  <2> QED BY <1>1, <2>2, <2>3, <2>5, <2>6, BGoesOn
<1> QED BY <1>6, <1>8, <1>9

\* A download begins, undisturbed if the bundle is there.
LEMMA BBeginDownload ==
    ASSUME BInv, Delivery!DeliveryConstants, NEW kind \in {"full", "range"}, Delivery!BeginDownload(kind)
    PROVE  BInv'
<1>1. PICK a, b, r : a = Delivery!NoBrowser /\ b = browser' /\ r = asked'
  OBVIOUS
<1>2. /\ b = [a EXCEPT !.pc = "first", !.kind = kind] /\ Delivery!Ask(kind, 0, ChunkBytes - 1)
      /\ quiet' = (current /\ IF s3 THEN objects # <<>> ELSE Delivery!inspectArchive(archive))
      /\ UNCHANGED <<s3, versioned, bundle, archive, objects, sidecar, publisher, gen, current, restorer>>
  BY <1>1 DEF Delivery!BeginDownload, Delivery!store, Delivery!files
<1>3. a \in BBrowsers /\ a.got = <<>>
  BY <1>1, BNone DEF Delivery!NoBrowser, BBrowsers
<1>4. b \in BBrowsers /\ b.pc = "first" /\ b.kind = kind /\ b.got = <<>>
  BY <1>2, <1>3 DEF BBrowsers
<1>5. r \in BRequests /\ r.pc = "scope" /\ r.kind = kind /\ r.start = 0 /\ r.end = ChunkBytes - 1
  <2>1. PICK start, end : start = 0 /\ end = ChunkBytes - 1
    OBVIOUS
  <2>2. start \in Int /\ end \in Int
    BY <2>1, BEdits
  <2>3. Delivery!Ask(kind, start, end)
    BY <1>2, <2>1
  <2>4. /\ asked' \in BRequests /\ asked'.pc = "scope" /\ asked'.kind = kind /\ asked'.start = start
        /\ asked'.end = end
    BY <2>2, <2>3, BAsks
  <2> QED BY <1>1, <2>1, <2>4
<1>6. BAsked(r) /\ BWaits(r, b) /\ BGot(b)
  BY <1>4, <1>5 DEF BAsked, BWaits, BGot
<1>7. BPending(r, b)
  BY <1>4, <1>5 DEF BPending
<1>8. quiet' \in BOOLEAN /\ (quiet' => current /\ BThere)
  <2>1. archive \in BZips /\ current \in BOOLEAN /\ s3 \in BOOLEAN
    BY DEF BInv, BTyped
  <2>2. Delivery!inspectArchive(archive) <=> archive.kind = "whole" /\ BFit(archive.rep)
    BY <2>1, BInspect
  <2>3. quiet' \in BOOLEAN
    BY <1>2
  <2> QED BY <1>2, <2>2, <2>3 DEF BThere
<1> QED BY <1>1, <1>2, <1>4, <1>5, <1>6, <1>7, <1>8, BTakes

-----------------------------------------------------------------------------
(* The restoration, and the whole.                                         *)

\* A restoration changes nothing but itself.
LEMMA BRestores ==
    ASSUME BInv, Delivery!RestoreBundle \/ Delivery!RestoreBitmap \/ Delivery!RestoreFails
    PROVE  BInv'
<1>1. /\ BTyped /\ restorer \in BRestorers /\ sidecar.bitmap \in Nat
      /\ UNCHANGED <<s3, versioned, bundle, archive, objects, sidecar, publisher, gen, current, asked, browser, quiet>>
  BY DEF BInv, BTyped, Delivery!RestoreBundle, Delivery!RestoreBitmap, Delivery!RestoreFails,
         Delivery!store, Delivery!files, Delivery!download
<1>2. PICK x, y : x = restorer /\ y = restorer'
  OBVIOUS
<1>3. x \in BRestorers
  BY <1>1, <1>2
<1>4. y \in BRestorers /\ (y.pc = "restored" /\ y.bitmap > 0 => y.bitmap = y.rep["journal"])
  <2>1. CASE Delivery!RestoreBundle
    <3>1. PICK rep : rep = Delivery!Latest.rep
      OBVIOUS
    <3>2. rep \in BReps
      BY <1>1, <2>1, <3>1, BLatest DEF Delivery!RestoreBundle, BZips
    <3>3. y = [x EXCEPT !.pc = "bitmap", !.rep = rep] \/ y = [x EXCEPT !.pc = "threw"]
      BY <1>2, <2>1, <3>1 DEF Delivery!RestoreBundle
    <3> QED BY <1>3, <3>2, <3>3 DEF BRestorers
  <2>2. CASE Delivery!RestoreBitmap
    <3>1. PICK n : n = IF Delivery!matchesJournalBitmapRoot(restorer.rep, sidecar.bitmap) THEN sidecar.bitmap ELSE 0
      OBVIOUS
    <3>2. n \in Nat /\ (n > 0 => n = x.rep["journal"])
      BY <1>1, <1>2, <3>1 DEF Delivery!matchesJournalBitmapRoot
    <3>3. y = [x EXCEPT !.pc = "restored", !.bitmap = n]
      BY <1>2, <2>2, <3>1 DEF Delivery!RestoreBitmap
    <3> QED BY <1>3, <3>2, <3>3 DEF BRestorers
  <2>3. CASE Delivery!RestoreFails
    <3>1. y = Delivery!NoRestore
      BY <1>2, <2>3 DEF Delivery!RestoreFails
    <3> QED BY <3>1, BNone DEF Delivery!NoRestore, BRestorers
  <2> QED BY <2>1, <2>2, <2>3
<1>5. BTyped' /\ BRestored'
  BY <1>1, <1>2, <1>4 DEF BTyped, BRestored
<1>6. BStore' /\ BAsked(asked)' /\ BGot(browser)' /\ BWaits(asked, browser)'
  BY <1>1 DEF BInv, BStore, BAsked, BGot, BWaits, Delivery!Latest
<1>7. BUndisturbed(asked, browser)'
  <2>1. BShown' = BShown /\ BVersion' = BVersion /\ (BThere => BThere')
    BY <1>1 DEF BShown, BVersion, BThere, Delivery!Latest
  <2>2. BPending(asked, browser) => BPending(asked, browser)'
    BY <1>1, <2>1 DEF BPending
  <2>3. BTooLarge(browser) => BTooLarge(browser)'
    BY <1>1, <2>1 DEF BTooLarge
  <2> QED BY <1>1, <2>1, <2>2, <2>3 DEF BInv, BUndisturbed
<1> QED BY <1>5, <1>6, <1>7 DEF BInv

\* The invariant holds at first,
LEMMA BStarts ==
    ASSUME Delivery!DeliveryConstants, Delivery!Init
    PROVE  BInv
<1>1. /\ s3 \in BOOLEAN /\ versioned \in BOOLEAN /\ current = TRUE /\ quiet = FALSE /\ gen = 0
      /\ bundle = [m \in Delivery!Members |-> 0] /\ archive = [kind |-> "none", rep |-> Delivery!NoRep]
      /\ objects = <<>> /\ sidecar = [report |-> 0, bitmap |-> 0]
      /\ publisher = [pc |-> "idle", todo |-> {}, rep |-> Delivery!NoRep]
      /\ asked = Delivery!NoRequest /\ browser = Delivery!NoBrowser /\ restorer = Delivery!NoRestore
  BY DEF Delivery!Init, Delivery!Zip
<1>2. browser \in BBrowsers /\ browser.pc = "idle" /\ browser.got = <<>>
  BY <1>1, BNone DEF Delivery!NoBrowser, BBrowsers
<1>3. restorer \in BRestorers /\ restorer.pc = "idle"
  BY <1>1, BNone DEF Delivery!NoRestore, BRestorers
<1>4. archive \in BZips /\ publisher \in BPublishers /\ publisher.pc = "idle"
  BY <1>1, BNone DEF BZips, BPublishers
<1>5. objects \in Seq(BZips) /\ DOMAIN objects = {}
  BY <1>1
<1>6. BTyped
  <2>1. bundle \in [Delivery!Members -> 0 .. MaxGen] /\ gen \in 0 .. MaxGen
    BY <1>1, BEdits
  <2>2. sidecar \in [report : Nat, bitmap : Nat]
    BY <1>1
  <2>3. asked \in BRequests
    BY <1>1, BNoRequest
  <2> QED BY <1>1, <1>2, <1>3, <1>4, <1>5, <2>1, <2>2, <2>3 DEF BTyped
<1>7. BStore
  BY <1>4, <1>5 DEF BStore
<1>8. BAsked(asked) /\ BWaits(asked, browser)
  BY <1>1, BNoRequest DEF BWaits
<1>9. BGot(browser)
  BY <1>2 DEF BGot
<1> QED BY <1>1, <1>3, <1>6, <1>7, <1>8, <1>9 DEF BInv, BRestored, BUndisturbed

\* every step keeps it,
LEMMA BStep ==
    ASSUME Delivery!DeliveryConstants, BInv, [Delivery!Next]_(Delivery!vars)
    PROVE  BInv'
<1>1. CASE UNCHANGED Delivery!vars
  <2>1. UNCHANGED <<s3, versioned, bundle, archive, objects, sidecar, publisher, gen, current, asked, browser, restorer, quiet>>
    BY <1>1 DEF Delivery!vars
  <2>2. BTyped'
    BY <2>1 DEF BInv, BTyped
  <2>3. BStore'
    BY <2>1 DEF BInv, BStore, Delivery!Latest
  <2> QED BY <2>1, <2>2, <2>3, BApart
<1>2. CASE Delivery!Next
  BY <1>2, BPersist, BArchive, BUpload, BScope, BStat, BRead, BReadFails, BBeginDownload, BReceiveWhole,
     BReceiveFirst, BReceiveNext, BRestores DEF Delivery!Next
<1> QED BY <1>1, <1>2

\* and it implies the properties.
LEMMA BFollows ==
    ASSUME BInv
    PROVE  /\ Delivery!TypeOK /\ Delivery!SavedIsOneRepresentation /\ Delivery!DeliveredIsPublic
           /\ Delivery!UndisturbedIsSaved /\ Delivery!RestoredIsConsistent /\ Delivery!PublishedIsWhole
<1>1. BTyped /\ BStore /\ BGot(browser) /\ BRestored /\ browser \in BBrowsers /\ archive \in BZips
      /\ objects \in Seq(BZips)
  BY DEF BInv, BTyped
<1>2. Delivery!TypeOK
  BY <1>1 DEF BTyped, BGot, BBrowsers, BZips, Delivery!TypeOK
<1>3. Delivery!SavedIsOneRepresentation
  BY <1>1 DEF BGot, Delivery!SavedIsOneRepresentation
<1>4. Delivery!DeliveredIsPublic
  <2> SUFFICES ASSUME NEW k \in 1 .. Len(browser.got)
               PROVE  Delivery!inspectArchive(Delivery!Zip("whole", browser.got[k].rep))
    BY DEF Delivery!DeliveredIsPublic
  <2>1. PICK rep : rep = browser.got[k].rep
    OBVIOUS
  <2>2. BFit(rep)
    BY <1>1, <2>1 DEF BGot
  <2> QED BY <2>1, <2>2 DEF BFit, Delivery!inspectArchive, Delivery!Zip
<1>5. Delivery!UndisturbedIsSaved
  <2> SUFFICES ASSUME browser.pc = "threw", quiet
               PROVE  LET total == IF s3 THEN Delivery!SizeOf(Delivery!Latest) ELSE Delivery!SizeOf(archive)
                      IN  total > MaxDownload \/ (browser.kind = "full" /\ total > InlineMax)
    BY DEF Delivery!UndisturbedIsSaved
  <2>1. BTooLarge(browser)
    BY DEF BInv, BUndisturbed
  <2>2. CASE s3
    <3>1. objects # <<>> /\ Delivery!Latest.kind = "whole" /\ Delivery!Latest.rep = BShown
      BY <2>2, BCalm
    <3>2. Delivery!SizeOf(Delivery!Latest) = Delivery!Bytes(BShown)
      BY <1>1, <3>1, BLatest, BInspect
    <3> QED BY <2>1, <2>2, <3>2 DEF BTooLarge
  <2>3. CASE ~s3
    <3>1. Delivery!SizeOf(archive) = Delivery!Bytes(BShown)
      BY <2>3, BCalm
    <3> QED BY <2>1, <2>3, <3>1 DEF BTooLarge
  <2> QED BY <2>2, <2>3
<1>6. Delivery!RestoredIsConsistent
  BY <1>1 DEF BRestored, Delivery!RestoredIsConsistent
<1>7. Delivery!PublishedIsWhole
  <2> SUFFICES ASSUME publisher.pc = "published"
               PROVE  /\ Delivery!Latest = Delivery!Zip("whole", publisher.rep)
                      /\ sidecar.report = bundle["report"]
                      /\ bundle["bitmap"] > 0 => sidecar.bitmap = bundle["bitmap"]
    BY DEF Delivery!PublishedIsWhole
  <2>1. /\ objects # <<>> /\ Delivery!Latest.rep = publisher.rep /\ sidecar.report = bundle["report"]
        /\ bundle["bitmap"] > 0 => sidecar.bitmap = bundle["bitmap"]
    BY <1>1 DEF BStore
  <2>2. PICK z : z = Delivery!Latest
    OBVIOUS
  <2>3. z \in BZips /\ z.kind = "whole"
    BY <1>1, <2>1, <2>2, BLatest DEF BStore, Delivery!Latest
  <2>4. z = [kind |-> z.kind, rep |-> z.rep]
    BY <2>3 DEF BZips
  <2> QED BY <2>1, <2>2, <2>3, <2>4 DEF Delivery!Zip
<1> QED BY <1>2, <1>3, <1>4, <1>5, <1>6, <1>7

\* For any limits of server and browser, optional files and number of publications:
\* what a browser saves is the whole of one archive although it was read in ranges
\* while archives were replaced; only archives of public members with every required
\* one are delivered; an undisturbed download fails only for its size; a restored bitmap
\* belongs to the restored journal; and a completed publication is whole
\* (fetchBundleBlob, the artifact readers, restoreReceiptFromS3 and
\* publishVerificationBundleArtifacts).
THEOREM DeliveryIsWhole ==
    ASSUME Delivery!DeliveryConstants
    PROVE  Delivery!Spec => [](/\ Delivery!TypeOK /\ Delivery!SavedIsOneRepresentation /\ Delivery!DeliveredIsPublic
                               /\ Delivery!UndisturbedIsSaved /\ Delivery!RestoredIsConsistent
                               /\ Delivery!PublishedIsWhole)
<1>1. Delivery!Init => BInv
  BY BStarts
<1>2. BInv /\ [Delivery!Next]_(Delivery!vars) => BInv'
  BY BStep
<1>3. BInv => /\ Delivery!TypeOK /\ Delivery!SavedIsOneRepresentation /\ Delivery!DeliveredIsPublic
              /\ Delivery!UndisturbedIsSaved /\ Delivery!RestoredIsConsistent /\ Delivery!PublishedIsWhole
  BY BFollows
<1> QED BY <1>1, <1>2, <1>3, PTL DEF Delivery!Spec

-----------------------------------------------------------------------------
(* The admission of requests: the limits of the shared store and the       *)
(* capacity for sessions.                                                  *)

\* What is assumed of the constants: the model's own, and finitely many requests.
QConstants == Admission!AdmissionConstants /\ IsFiniteSet(Requests)

QAnswers == {"none", "ok", "limited", "error", "unauthorized", "captcha", "full", "refused"}

QReqs == [kind : {"none", "create", "vote", "finalize", "cancel"}, ip : Addresses \cup {"none"}, pc : Nat,
          step : {"start", "record", "count", "load"}, now : Int, pend : SUBSET Requests, count : Int,
          overtaken : BOOLEAN, answer : QAnswers]

\* The stage of a request, and the event that it writes there.
QStage(q) == IF q.pc = 0 THEN "none" ELSE Admission!Stages(q.kind)[q.pc]

QEvent(r, q) == [scope |-> QStage(q), ip |-> q.ip, at |-> q.now, by |-> r]

QPlaced(q) == q.pc > 0 => q.kind # "none" /\ q.pc <= Len(Admission!Stages(q.kind))

QTyped ==
    /\ clock \in Nat /\ IsFiniteSet(recorded) /\ sessions \in [Requests -> Int] /\ req \in [Requests -> QReqs]
    /\ \A r \in Requests : QPlaced(req[r]) /\ req[r].now <= clock

\* An event that no request will count any more.
QPassed(g) ==
    /\ g.at + Window <= clock
    /\ \A r \in Requests : req[r].pc > 0 /\ req[r].step # "start" => g.at + Window <= req[r].now

\* Whoever counts has its own event in the store, and so has every grant until it can
\* be in nobody's window.
QKept ==
    StoreKind = "dynamo" =>
      /\ \A r \in Requests : QStage(req[r]) \in Admission!ConsumedScopes /\ req[r].step = "count"
                               => QEvent(r, req[r]) \in recorded
      /\ \A g \in granted : g.at \in Int /\ (g \in recorded \/ QPassed(g))

\* The sessions outside pend that a scan which began then takes for active.
QSeen(since, pend) == {s \in Requests \ pend : sessions[s] # Admission!Gone /\ since - sessions[s] <= ActiveFor}

\* The count of a scan that nobody overtook covers what it has looked at, and whoever
\* goes on to create has seen fewer than the cap.
QCounted(q) ==
    /\ QStage(q) = "scan" /\ q.step = "load" /\ ~q.overtaken => Cardinality(QSeen(q.now, q.pend)) <= q.count
    /\ QStage(q) = "createSession" /\ ~q.overtaken => Cardinality(QSeen(q.now, {})) < MaxSessions

QCapacity ==
    \A r \in Requests : /\ sessions[r] # Admission!Gone => req[r].pc = 0 /\ req[r].answer = "ok"
                        /\ QCounted(req[r])

QInv == QTyped /\ QKept /\ Admission!ConsumeLimitHolds /\ QCapacity

\* Cardinality in the instance is Cardinality.
LEMMA QCardinality == ASSUME NEW S PROVE Admission!Cardinality(S) = Cardinality(S)
  BY DEF Admission!Cardinality, Cardinality, Admission!IsFiniteSet, IsFiniteSet

\* What the constants are.
LEMMA QNumbers ==
    ASSUME QConstants
    PROVE  /\ Window \in Nat /\ Window > 0 /\ ActiveFor \in Nat /\ MaxSessions \in Nat /\ MaxSessions > 0
           /\ Kinds \subseteq {"create", "vote", "finalize", "cancel"}
           /\ \A scope : Admission!ScopeLimit(scope) \in Nat
<1>1. /\ Window \in Nat /\ Window > 0 /\ ActiveFor \in Nat /\ MaxSessions \in Nat /\ MaxSessions > 0
      /\ Kinds \subseteq {"create", "vote", "finalize", "cancel"} /\ Limit \in Nat /\ MaxExecutions \in Nat
  BY DEF QConstants, Admission!AdmissionConstants
<1>2. ASSUME NEW scope PROVE Admission!ScopeLimit(scope) \in Nat
  <2>1. Limit * 2 \in Nat /\ MaxExecutions * 2 \in Nat
    BY <1>1
  <2> QED BY <1>1, <2>1 DEF Admission!ScopeLimit, Admission!AttemptMultiplier
<1> QED BY <1>1, <1>2

\* The stages of the routes: a creation comes right after a scan, and never first.
LEMMA QStages ==
    ASSUME NEW kind \in {"create", "vote", "finalize", "cancel"}
    PROVE  /\ Len(Admission!Stages(kind)) \in Nat /\ Len(Admission!Stages(kind)) >= 1
           /\ Admission!Stages(kind)[1] # "createSession"
           /\ \A n \in Nat : /\ 1 <= n /\ n < Len(Admission!Stages(kind))
                             /\ Admission!Stages(kind)[n + 1] = "createSession"
                             => Admission!Stages(kind)[n] = "scan"
<1>1. CASE kind = "create"
  <2>1. PICK s : s = Admission!Stages(kind)
    OBVIOUS
  <2>2. s = <<"session-create", "turnstile", "scan", "createSession">>
    BY <1>1, <2>1 DEF Admission!Stages
  <2>3. Len(s) = 4 /\ s[1] # "createSession" /\ s[2] # "createSession" /\ s[3] = "scan"
    BY <2>2
  <2>4. ASSUME NEW n \in Nat, 1 <= n, n < 4, s[n + 1] = "createSession" PROVE s[n] = "scan"
    <3>1. n = 1 \/ n = 2 \/ n = 3
      BY <2>4
    <3> QED BY <2>2, <2>4, <3>1
  <2> QED BY <2>1, <2>3, <2>4
<1>2. CASE kind = "vote"
  <2>1. PICK s : s = Admission!Stages(kind)
    OBVIOUS
  <2>2. s = <<"vote-attempt", "capability", "turnstile", "vote", "work">>
    BY <1>2, <2>1 DEF Admission!Stages
  <2>3. Len(s) = 5 /\ \A n \in 1 .. 5 : s[n] # "createSession"
    BY <2>2
  <2> QED BY <2>1, <2>3
<1>3. CASE kind = "cancel"
  <2>1. PICK s : s = Admission!Stages(kind)
    OBVIOUS
  <2>2. s = <<"capability", "finalize-cancel", "work">>
    BY <1>3, <2>1 DEF Admission!Stages
  <2>3. Len(s) = 3 /\ \A n \in 1 .. 3 : s[n] # "createSession"
    BY <2>2
  <2> QED BY <2>1, <2>3
<1>4. CASE kind = "finalize"
  <2>1. PICK s : s = Admission!Stages(kind)
    OBVIOUS
  <2>2. CASE StoreKind = "memory"
    <3>1. s = <<"capability", "turnstile", "work">>
      BY <1>4, <2>1, <2>2 DEF Admission!Stages
    <3>2. Len(s) = 3 /\ \A n \in 1 .. 3 : s[n] # "createSession"
      BY <3>1
    <3> QED BY <2>1, <3>2
  <2>3. CASE StoreKind # "memory"
    <3>1. s = <<"zkvm-attempt", "checkIp", "daily", "hourly", "capability", "turnstile", "work",
                "recordIp", "recordDaily", "recordHourly">>
      BY <1>4, <2>1, <2>3 DEF Admission!Stages
    <3>2. Len(s) = 10 /\ \A n \in 1 .. 10 : s[n] # "createSession"
      BY <3>1
    <3> QED BY <2>1, <3>2
  <2> QED BY <2>2, <2>3
<1> QED BY <1>1, <1>2, <1>3, <1>4

\* What a scan takes for active is finite.
LEMMA QSeenFinite ==
    ASSUME QConstants, NEW since, NEW pend
    PROVE  IsFiniteSet(QSeen(since, pend)) /\ Cardinality(QSeen(since, pend)) \in Nat
<1>1. QSeen(since, pend) \in SUBSET Requests
  BY DEF QSeen
<1>2. IsFiniteSet(QSeen(since, pend))
  BY <1>1, FS_Subset DEF QConstants
<1> QED BY <1>2, FS_CardinalityType

\* What a step leaves of the store's events and of the grants.
QStored ==
    /\ recorded \subseteq recorded' /\ IsFiniteSet(recorded')
    /\ StoreKind = "dynamo" => \A g \in granted' : g \in granted \/ (g \in recorded' /\ g.at \in Int)
    /\ Admission!ConsumeLimitHolds'

\* The store only grows and nothing is granted.
LEMMA QSame ==
    ASSUME QInv, recorded \subseteq recorded', IsFiniteSet(recorded'), StoreKind = "dynamo" => granted' = granted
    PROVE  QStored
<1>1. Admission!ConsumeLimitHolds'
  <2>1. CASE StoreKind = "dynamo"
    BY <2>1 DEF QInv, Admission!ConsumeLimitHolds, Admission!GrantedIn
  <2>2. CASE StoreKind # "dynamo"
    BY <2>2 DEF Admission!ConsumeLimitHolds
  <2> QED BY <2>1, <2>2
<1> QED BY <1>1 DEF QStored

\* A step of one request.
LEMMA QMoves ==
    ASSUME QInv, NEW r \in Requests, NEW q \in QReqs, req' = [req EXCEPT ![r] = q], UNCHANGED <<clock, sessions>>,
           QStored, QPlaced(q), q.now <= clock, sessions[r] = Admission!Gone, QCounted(q),
           q.pc > 0 /\ q.step # "start" =>
             q.now = clock \/ (req[r].pc > 0 /\ req[r].step # "start" /\ q.now = req[r].now),
           StoreKind = "dynamo" /\ QStage(q) \in Admission!ConsumedScopes /\ q.step = "count" =>
             QEvent(r, q) \in recorded'
    PROVE  QInv'
<1>1. /\ req \in [Requests -> QReqs] /\ req'[r] = q /\ \A o \in Requests : o # r => req'[o] = req[o]
  BY DEF QInv, QTyped
<1>2. QTyped'
  <2>1. req' \in [Requests -> QReqs]
    BY <1>1
  <2>2. \A o \in Requests : QPlaced(req'[o]) /\ req'[o].now <= clock
    BY <1>1 DEF QInv, QTyped
  <2> QED BY <2>1, <2>2 DEF QInv, QTyped, QStored, QPlaced
<1>3. QKept'
  <2> SUFFICES ASSUME StoreKind = "dynamo"
               PROVE  /\ \A o \in Requests : QStage(req'[o]) \in Admission!ConsumedScopes /\ req'[o].step = "count"
                                               => QEvent(o, req'[o]) \in recorded'
                      /\ \A g \in granted' : g.at \in Int /\ (g \in recorded' \/ QPassed(g)')
    BY DEF QKept, QStage, QEvent
  <2>1. ASSUME NEW o \in Requests, QStage(req'[o]) \in Admission!ConsumedScopes, req'[o].step = "count"
        PROVE  QEvent(o, req'[o]) \in recorded'
    BY <1>1, <2>1 DEF QInv, QKept, QStored
  <2>2. ASSUME NEW g \in granted' PROVE g.at \in Int /\ (g \in recorded' \/ QPassed(g)')
    <3>1. CASE g \in granted
      <4>1. g.at \in Int /\ (g \in recorded \/ QPassed(g))
        BY <3>1 DEF QInv, QKept
      <4>2. CASE g \in recorded
        BY <4>1, <4>2 DEF QStored
      <4>3. CASE QPassed(g)
        <5>1. g.at + Window <= clock
          BY <4>3 DEF QPassed
        <5>2. ASSUME NEW o \in Requests, req'[o].pc > 0, req'[o].step # "start" PROVE g.at + Window <= req'[o].now
          <6>1. CASE o = r
            <7>1. CASE q.now = clock
              BY <1>1, <5>1, <6>1, <7>1
            <7>2. CASE req[r].pc > 0 /\ req[r].step # "start" /\ q.now = req[r].now
              BY <1>1, <4>3, <6>1, <7>2 DEF QPassed
            <7> QED BY <1>1, <5>2, <6>1, <7>1, <7>2
          <6>2. CASE o # r
            BY <1>1, <4>3, <5>2, <6>2 DEF QPassed
          <6> QED BY <6>1, <6>2
        <5> QED BY <4>1, <5>1, <5>2 DEF QPassed
      <4> QED BY <4>1, <4>2, <4>3
    <3>2. CASE g \notin granted
      BY <2>2, <3>2 DEF QStored
    <3> QED BY <3>1, <3>2
  <2> QED BY <2>1, <2>2
<1>4. QCapacity'
  <2> SUFFICES ASSUME NEW o \in Requests
               PROVE  /\ sessions'[o] # Admission!Gone => req'[o].pc = 0 /\ req'[o].answer = "ok"
                      /\ QCounted(req'[o])
    BY DEF QCapacity, QCounted, QSeen, QStage
  <2>1. CASE o = r
    BY <1>1, <2>1
  <2>2. CASE o # r
    BY <1>1, <2>2 DEF QInv, QCapacity
  <2> QED BY <2>1, <2>2
<1> QED BY <1>2, <1>3, <1>4 DEF QInv, QStored

\* The request after its stage, as Advance has it.
QNext(p) ==
    IF p.pc = Len(Admission!Stages(p.kind)) THEN [p EXCEPT !.pc = 0, !.answer = "ok"]
    ELSE [p EXCEPT !.pc = p.pc + 1, !.step = "start"]

\* A request that ends keeps its time.
LEMMA QEnded ==
    ASSUME NEW p \in QReqs, NEW answer \in QAnswers, NEW q, q = [p EXCEPT !.pc = 0, !.answer = answer]
    PROVE  q \in QReqs /\ q.pc = 0 /\ q.now = p.now /\ q.overtaken = p.overtaken
  BY DEF QReqs

\* A request that advances keeps its time, and reaches a creation only from a scan.
LEMMA QAdvanced ==
    ASSUME NEW p \in QReqs, QPlaced(p), p.pc > 0, NEW q, q = QNext(p)
    PROVE  /\ q \in QReqs /\ QPlaced(q) /\ q.now = p.now /\ q.overtaken = p.overtaken
           /\ q.pc = 0 \/ q.step = "start"
           /\ QStage(q) = "createSession" => QStage(p) = "scan"
<1>1. /\ p.pc \in Nat /\ p.kind \in {"create", "vote", "finalize", "cancel"} /\ p.pc <= Len(Admission!Stages(p.kind))
  BY DEF QReqs, QPlaced
<1>2. PICK s, n : s = Admission!Stages(p.kind) /\ n = p.pc
  OBVIOUS
<1>3. /\ Len(s) \in Nat /\ \A k \in Nat : 1 <= k /\ k < Len(s) /\ s[k + 1] = "createSession" => s[k] = "scan"
  BY <1>1, <1>2, QStages
<1>4. CASE n = Len(s)
  <2>1. q = [p EXCEPT !.pc = 0, !.answer = "ok"]
    BY <1>2, <1>4 DEF QNext
  <2>2. q \in QReqs /\ q.pc = 0 /\ q.now = p.now /\ q.overtaken = p.overtaken
    <3>1. "ok" \in QAnswers
      BY DEF QAnswers
    <3> QED BY <2>1, <3>1, QEnded
  <2> QED BY <2>2 DEF QPlaced, QStage
<1>5. CASE n # Len(s)
  <2>1. q = [p EXCEPT !.pc = n + 1, !.step = "start"]
    BY <1>2, <1>5 DEF QNext
  <2>2. /\ q \in QReqs /\ q.pc = n + 1 /\ q.kind = p.kind /\ q.now = p.now /\ q.overtaken = p.overtaken
        /\ q.step = "start"
    <3>1. PICK m \in Nat : m = n + 1
      BY <1>1, <1>2
    <3>2. q = [p EXCEPT !.pc = m, !.step = "start"]
      BY <2>1, <3>1
    <3>3. /\ q \in QReqs /\ q.pc = m /\ q.kind = p.kind /\ q.now = p.now /\ q.overtaken = p.overtaken
          /\ q.step = "start"
      BY <3>2 DEF QReqs
    <3> QED BY <3>1, <3>3
  <2>3. n \in Nat /\ 1 <= n /\ n < Len(s)
    BY <1>1, <1>2, <1>3, <1>5
  <2>4. QStage(q) = s[n + 1] /\ QStage(p) = s[n]
    BY <1>2, <2>2, <2>3 DEF QStage
  <2>5. QPlaced(q)
    BY <1>1, <1>2, <1>3, <2>2, <2>3 DEF QPlaced
  <2> QED BY <1>3, <2>2, <2>3, <2>4, <2>5
<1> QED BY <1>4, <1>5

\* A request under way, and what the invariant says of it.
LEMMA QUnderWay ==
    ASSUME QInv, NEW r \in Requests, Admission!Stage(r) # "none"
    PROVE  /\ req[r] \in QReqs /\ QPlaced(req[r]) /\ req[r].pc > 0 /\ req[r].now <= clock /\ clock \in Nat
           /\ sessions[r] = Admission!Gone /\ QStage(req[r]) = Admission!Stage(r) /\ QCounted(req[r])
<1>1. req[r] \in QReqs /\ req[r].pc # 0 /\ QStage(req[r]) = Admission!Stage(r)
  BY DEF QInv, QTyped, Admission!Stage, QStage
<1>2. req[r].pc > 0
  BY <1>1 DEF QReqs
<1> QED BY <1>1, <1>2 DEF QInv, QTyped, QCapacity

\* A request goes on,
LEMMA QAdvances ==
    ASSUME QInv, NEW r \in Requests, Admission!Stage(r) # "none", Admission!Advance(r), UNCHANGED <<clock, sessions>>,
           QStored,
           Admission!Stage(r) = "scan" /\ ~req[r].overtaken => Cardinality(QSeen(req[r].now, {})) < MaxSessions
    PROVE  QInv'
<1>1. PICK p, q : p = req[r] /\ q = QNext(p)
  OBVIOUS
<1>2. /\ p \in QReqs /\ QPlaced(p) /\ p.pc > 0 /\ p.now <= clock /\ sessions[r] = Admission!Gone
      /\ QStage(p) = Admission!Stage(r)
  BY <1>1, QUnderWay
<1>3. /\ q \in QReqs /\ QPlaced(q) /\ q.now = p.now /\ q.overtaken = p.overtaken
      /\ q.pc = 0 \/ q.step = "start"
      /\ QStage(q) = "createSession" => QStage(p) = "scan"
  BY <1>1, <1>2, QAdvanced
<1>4. req' = [req EXCEPT ![r] = q]
  <2>1. req' = [req EXCEPT ![r] = QNext(req[r])]
    BY DEF Admission!Advance, QNext
  <2> QED BY <1>1, <2>1
<1>5. QCounted(q)
  <2>1. QStage(q) = "scan" => q.step # "load"
    BY <1>3 DEF QStage
  <2> QED BY <1>1, <1>2, <1>3, <2>1 DEF QCounted
<1>6. /\ ~(q.pc > 0 /\ q.step # "start")
      /\ ~(QStage(q) \in Admission!ConsumedScopes /\ q.step = "count")
  BY <1>3 DEF QStage, Admission!ConsumedScopes, Admission!Scopes
<1>7. q.now <= clock
  BY <1>2, <1>3
<1> QED BY <1>2, <1>3, <1>4, <1>5, <1>6, <1>7, QMoves

\* or is answered.
LEMMA QEnds ==
    ASSUME QInv, NEW r \in Requests, Admission!Stage(r) # "none", NEW answer \in QAnswers, Admission!Answer(r, answer),
           UNCHANGED <<clock, sessions>>, QStored
    PROVE  QInv'
<1>1. PICK p, q : p = req[r] /\ q = [p EXCEPT !.pc = 0, !.answer = answer]
  OBVIOUS
<1>2. /\ p \in QReqs /\ p.now <= clock /\ sessions[r] = Admission!Gone
  BY <1>1, QUnderWay
<1>3. q \in QReqs /\ q.pc = 0 /\ q.now = p.now
  BY <1>1, <1>2 DEF QReqs
<1>4. req' = [req EXCEPT ![r] = q]
  <2>1. req \in [Requests -> QReqs]
    BY DEF QInv, QTyped
  <2> QED BY <1>1, <2>1 DEF Admission!Answer
<1>5. QStage(q) = "none"
  BY <1>3 DEF QStage
<1>6. QPlaced(q) /\ QCounted(q)
  BY <1>3, <1>5 DEF QPlaced, QCounted
<1>7. /\ ~(q.pc > 0 /\ q.step # "start")
      /\ ~(QStage(q) \in Admission!ConsumedScopes /\ q.step = "count")
  BY <1>3, <1>5 DEF Admission!ConsumedScopes, Admission!Scopes
<1>8. q.now <= clock
  BY <1>2, <1>3
<1> QED BY <1>2, <1>3, <1>4, <1>5, <1>6, <1>7, <1>8, QMoves

-----------------------------------------------------------------------------
(* The steps of a request.                                                 *)

\* A request arrives.
LEMMA QArrives ==
    ASSUME QInv, QConstants, NEW r \in Requests, Admission!Arrive(r)
    PROVE  QInv'
<1>1. PICK kind \in Kinds, ip \in Addresses : req' = [req EXCEPT ![r] = [req[r] EXCEPT !.kind = kind, !.ip = ip, !.pc = 1]]
  BY DEF Admission!Arrive
<1>2. /\ req[r] = Admission!Idling /\ UNCHANGED <<clock, sessions, recorded, granted>>
  BY DEF Admission!Arrive
<1>3. PICK p, q : p = req[r] /\ q = [p EXCEPT !.kind = kind, !.ip = ip, !.pc = 1]
  OBVIOUS
<1>4. req' = [req EXCEPT ![r] = q]
  BY <1>1, <1>3
<1>5. kind \in {"create", "vote", "finalize", "cancel"}
  BY QNumbers
<1>6. p \in QReqs /\ p.now <= clock /\ p.step = "start" /\ p.answer = "none"
  <2>1. p \in QReqs /\ p.now <= clock
    BY <1>3 DEF QInv, QTyped
  <2>2. p.step = "start" /\ p.answer = "none"
    BY <1>2, <1>3 DEF Admission!Idling
  <2> QED BY <2>1, <2>2
<1>7. q \in QReqs /\ q.pc = 1 /\ q.kind = kind /\ q.now = p.now /\ q.step = "start"
  BY <1>3, <1>5, <1>6 DEF QReqs
<1>8. sessions[r] = Admission!Gone
  BY <1>3, <1>6 DEF QInv, QCapacity
<1>9. QPlaced(q) /\ QCounted(q)
  <2>1. Len(Admission!Stages(kind)) >= 1 /\ Admission!Stages(kind)[1] # "createSession"
    BY <1>5, QStages
  <2>2. QStage(q) # "createSession"
    BY <1>7, <2>1 DEF QStage
  <2> QED BY <1>5, <1>7, <2>1, <2>2 DEF QPlaced, QCounted
<1>10. QStored
  BY <1>2, QSame DEF QInv, QTyped
<1>11. q.now <= clock
  BY <1>6, <1>7
<1> QED BY <1>2, <1>4, <1>7, <1>8, <1>9, <1>10, <1>11, QMoves

\* The time of the window is taken when the count begins.
LEMMA QTimes ==
    ASSUME QInv, NEW r \in Requests, Admission!currentEventWindow(r)
    PROVE  QInv'
<1>1. /\ Admission!Stage(r) \in Admission!ConsumedScopes \/ Admission!Stage(r) = "checkIp"
      /\ UNCHANGED <<clock, sessions, recorded, granted>>
  BY DEF Admission!currentEventWindow, Admission!Consuming
<1>2. Admission!Stage(r) # "none" /\ "checkIp" \notin Admission!ConsumedScopes
      /\ "scan" \notin Admission!ConsumedScopes /\ "createSession" \notin Admission!ConsumedScopes
  BY <1>1 DEF Admission!ConsumedScopes, Admission!Scopes
<1>3. PICK p, step : p = req[r] /\ step = IF Admission!Stage(r) = "checkIp" THEN "count" ELSE "record"
  OBVIOUS
<1>4. PICK q : q = [p EXCEPT !.now = clock, !.step = step]
  OBVIOUS
<1>5. p \in QReqs /\ QPlaced(p) /\ clock \in Nat /\ sessions[r] = Admission!Gone /\ QStage(p) = Admission!Stage(r)
  BY <1>2, <1>3, QUnderWay
<1>6. q \in QReqs /\ q.pc = p.pc /\ q.kind = p.kind /\ q.now = clock /\ q.step = step
  <2>1. step \in {"start", "record", "count", "load"}
    BY <1>3
  <2>2. PICK since \in Int : since = clock
    BY <1>5
  <2>3. q = [p EXCEPT !.now = since, !.step = step]
    BY <1>4, <2>2
  <2>4. q \in QReqs /\ q.pc = p.pc /\ q.kind = p.kind /\ q.now = since /\ q.step = step
    BY <1>5, <2>1, <2>3 DEF QReqs
  <2> QED BY <2>2, <2>4
<1>7. req' = [req EXCEPT ![r] = q]
  <2>1. req' = [req EXCEPT ![r].now = clock, ![r].step = step]
    BY <1>3 DEF Admission!currentEventWindow
  <2>2. req \in [Requests -> QReqs]
    BY DEF QInv, QTyped
  <2> QED BY <1>3, <1>4, <2>1, <2>2
<1>8. QStage(q) = QStage(p) /\ QPlaced(q)
  BY <1>5, <1>6 DEF QStage, QPlaced
<1>9. QCounted(q) /\ ~(QStage(q) \in Admission!ConsumedScopes /\ q.step = "count")
  BY <1>1, <1>2, <1>3, <1>5, <1>6, <1>8 DEF QCounted
<1>10. QStored
  BY <1>1, QSame DEF QInv, QTyped
<1>11. q.now <= clock
  BY <1>5, <1>6
<1> QED BY <1>1, <1>5, <1>6, <1>7, <1>8, <1>9, <1>10, <1>11, QMoves

\* The event is written before the window is counted.
LEMMA QRecords ==
    ASSUME QInv, NEW r \in Requests, Admission!recordEvent(r)
    PROVE  QInv'
<1>1. /\ Admission!Stage(r) \in Admission!ConsumedScopes /\ req[r].step = "record"
      /\ UNCHANGED <<clock, sessions, granted>>
  BY DEF Admission!recordEvent, Admission!Consuming
<1>2. /\ Admission!Stage(r) # "none"
      /\ "scan" \notin Admission!ConsumedScopes /\ "createSession" \notin Admission!ConsumedScopes
  BY <1>1 DEF Admission!ConsumedScopes, Admission!Scopes
<1>3. PICK p, q : p = req[r] /\ q = [p EXCEPT !.step = "count"]
  OBVIOUS
<1>4. /\ p \in QReqs /\ QPlaced(p) /\ p.pc > 0 /\ p.now <= clock /\ sessions[r] = Admission!Gone
      /\ QStage(p) = Admission!Stage(r)
  BY <1>2, <1>3, QUnderWay
<1>5. /\ q \in QReqs /\ q.pc = p.pc /\ q.kind = p.kind /\ q.now = p.now /\ q.ip = p.ip
  BY <1>3, <1>4 DEF QReqs
<1>6. req' = [req EXCEPT ![r] = q]
  BY <1>3 DEF Admission!recordEvent
<1>7. QStage(q) = QStage(p) /\ QPlaced(q)
  BY <1>4, <1>5 DEF QStage, QPlaced
<1>8. QCounted(q)
  BY <1>1, <1>2, <1>4, <1>7 DEF QCounted
<1>9. recorded' = recorded \cup {QEvent(r, q)}
  BY <1>3, <1>4, <1>5, <1>7 DEF Admission!recordEvent, QEvent
<1>10. QStored
  <2>1. IsFiniteSet(recorded')
    BY <1>9, FS_AddElement DEF QInv, QTyped
  <2> QED BY <1>1, <1>9, <2>1, QSame
<1>11. q.now <= clock /\ p.step = "record" /\ QEvent(r, q) \in recorded'
  BY <1>1, <1>3, <1>4, <1>5, <1>9
<1> QED BY <1>1, <1>3, <1>4, <1>5, <1>6, <1>7, <1>8, <1>10, <1>11, QMoves

\* The count covers every grant of the window and the request's own event, so that one
\* more grant is within the limit.
LEMMA QConsumes ==
    ASSUME QInv, QConstants, NEW r \in Requests, Admission!consumeEventWindow(r)
    PROVE  QInv'
<1>1. PICK seen, count : /\ seen = Admission!EventsOf(Admission!Stage(r), req[r].ip, req[r].now - Window)
                         /\ count = Cardinality(seen)
  OBVIOUS
<1>2. /\ StoreKind = "dynamo" /\ Admission!Stage(r) \in Admission!ConsumedScopes /\ req[r].step = "count"
      /\ UNCHANGED <<clock, sessions, recorded>>
  BY DEF Admission!consumeEventWindow, Admission!Consuming
<1>3. Admission!Stage(r) # "none" /\ Admission!Stage(r) # "scan" /\ "limited" \in QAnswers
  BY <1>2 DEF Admission!ConsumedScopes, Admission!Scopes, QAnswers
<1>4. IsFiniteSet(recorded)
  BY DEF QInv, QTyped
<1>5. CASE Admission!consumeAllowed(r, count)
  <2>1. PICK p, g : p = req[r] /\ g = QEvent(r, p)
    OBVIOUS
  <2>2. /\ p \in QReqs /\ p.pc > 0 /\ QStage(p) = Admission!Stage(r)
    BY <1>3, <2>1, QUnderWay
  <2>3. /\ granted' = granted \cup {g} /\ Admission!Advance(r)
    <3>1. Admission!consumeAllowed(r, Admission!Cardinality(Admission!EventsOf(Admission!Stage(r), req[r].ip, req[r].now - Window)))
      BY <1>1, <1>5, QCardinality
    <3>2. g = [scope |-> Admission!Stage(r), ip |-> req[r].ip, at |-> req[r].now, by |-> r]
      BY <2>1, <2>2 DEF QEvent
    <3> QED BY <3>1, <3>2 DEF Admission!consumeEventWindow
  <2>4. /\ g.scope = Admission!Stage(r) /\ g.ip = p.ip /\ g.at = p.now /\ g.at \in Int /\ g \in recorded
    BY <1>2, <2>1, <2>2 DEF QInv, QKept, QEvent, QReqs
  <2>5. Admission!ConsumeLimitHolds'
    <3> SUFFICES ASSUME NEW scope \in Admission!ConsumedScopes, NEW ip \in Addresses, NEW t \in 0 .. MaxTicks
                 PROVE  Cardinality({h \in granted' : h.scope = scope /\ h.ip = ip /\ h.at > t - Window /\ h.at <= t})
                          <= Admission!ScopeLimit(scope)
      BY QCardinality DEF Admission!ConsumeLimitHolds, Admission!GrantedIn
    <3>0. PICK new : new = {h \in granted' : h.scope = scope /\ h.ip = ip /\ h.at > t - Window /\ h.at <= t}
      OBVIOUS
    <3>1. CASE g.scope = scope /\ g.ip = ip /\ g.at > t - Window /\ g.at <= t
      <4>1. new \subseteq seen
        <5> SUFFICES ASSUME NEW h \in granted', h.scope = scope, h.ip = ip, h.at > t - Window, h.at <= t
                     PROVE  h \in seen
          BY <3>0
        <5>1. h \in recorded /\ h.at \in Int
          <6>1. CASE h = g
            BY <2>4, <6>1
          <6>2. CASE h \in granted
            <7>1. h.at \in Int /\ (h \in recorded \/ QPassed(h))
              BY <1>2, <6>2 DEF QInv, QKept
            <7>2. ~QPassed(h)
              <8>1. p.now <= t /\ p.now \in Int /\ t \in Int /\ Window \in Nat
                BY <2>2, <2>4, <3>1, QNumbers
              <8>2. ~(h.at + Window <= p.now)
                BY <7>1, <8>1
              <8> QED BY <1>2, <2>1, <2>2, <8>2 DEF QPassed
            <7> QED BY <7>1, <7>2
          <6> QED BY <2>3, <6>1, <6>2
        <5>2. h.at > p.now - Window
          <6>1. p.now <= t /\ p.now \in Int /\ t \in Int /\ Window \in Nat
            BY <2>2, <2>4, <3>1, QNumbers
          <6> QED BY <5>1, <6>1
        <5> QED BY <1>1, <2>1, <2>4, <3>1, <5>1, <5>2 DEF Admission!EventsOf
      <4>2. IsFiniteSet(seen)
        BY <1>1, <1>4, FS_Subset DEF Admission!EventsOf
      <4>3. Cardinality(new) <= count
        BY <1>1, <4>1, <4>2, FS_Subset
      <4>4. count <= Admission!ScopeLimit(scope)
        BY <1>5, <2>4, <3>1 DEF Admission!consumeAllowed
      <4>5. count \in Nat /\ Cardinality(new) \in Nat /\ Admission!ScopeLimit(scope) \in Nat
        <5>1. IsFiniteSet(new)
          BY <4>1, <4>2, FS_Subset
        <5> QED BY <1>1, <4>2, <5>1, FS_CardinalityType, QNumbers
      <4> QED BY <3>0, <4>3, <4>4, <4>5
    <3>2. CASE ~(g.scope = scope /\ g.ip = ip /\ g.at > t - Window /\ g.at <= t)
      <4>1. new = Admission!GrantedIn(scope, ip, t)
        BY <2>3, <3>0, <3>2 DEF Admission!GrantedIn
      <4> QED BY <1>2, <3>0, <4>1, QCardinality DEF QInv, Admission!ConsumeLimitHolds
    <3> QED BY <3>1, <3>2
  <2>6. QStored
    BY <1>2, <1>4, <2>3, <2>4, <2>5 DEF QStored
  <2> QED BY <1>2, <1>3, <2>3, <2>6, QAdvances
<1>6. CASE ~Admission!consumeAllowed(r, count)
  <2>1. granted' = granted /\ Admission!Answer(r, "limited")
    <3>1. ~Admission!consumeAllowed(r, Admission!Cardinality(Admission!EventsOf(Admission!Stage(r), req[r].ip, req[r].now - Window)))
      BY <1>1, <1>6, QCardinality
    <3> QED BY <3>1 DEF Admission!consumeEventWindow
  <2>2. QStored
    BY <1>2, <1>4, <2>1, QSame
  <2> QED BY <1>2, <1>3, <2>1, <2>2, QEnds
<1> QED BY <1>5, <1>6

\* A stage that only lets a request pass or refuses it.
LEMMA QPasses ==
    ASSUME QInv, NEW r \in Requests, Admission!Stage(r) \notin {"none", "scan"}, UNCHANGED <<clock, sessions>>, QStored,
           Admission!Advance(r) \/ \E answer \in QAnswers : Admission!Answer(r, answer)
    PROVE  QInv'
<1>1. CASE Admission!Advance(r)
  BY <1>1, QAdvances
<1>2. ASSUME NEW answer \in QAnswers, Admission!Answer(r, answer) PROVE QInv'
  BY <1>2, QEnds
<1> QED BY <1>1, <1>2

\* The checks that write nothing, and the work.
LEMMA QChecks ==
    ASSUME QInv, NEW r \in Requests,
           \/ Admission!checkZkVmRateLimit(r) \/ Admission!checkGlobalLimit(r)
           \/ Admission!validateSessionCapabilityForSession(r) \/ Admission!validateTurnstileToken(r) \/ Admission!Work(r)
    PROVE  QInv'
<1>1. {"limited", "unauthorized", "captcha", "refused"} \subseteq QAnswers
  BY DEF QAnswers
<1>2. /\ Admission!Stage(r) \notin {"none", "scan"} /\ UNCHANGED <<clock, sessions, recorded, granted>>
      /\ Admission!Advance(r) \/ \E answer \in QAnswers : Admission!Answer(r, answer)
  <2>1. CASE Admission!checkZkVmRateLimit(r)
    BY <1>1, <2>1 DEF Admission!checkZkVmRateLimit
  <2>2. CASE Admission!checkGlobalLimit(r)
    BY <1>1, <2>2 DEF Admission!checkGlobalLimit
  <2>3. CASE Admission!validateSessionCapabilityForSession(r)
    BY <1>1, <2>3 DEF Admission!validateSessionCapabilityForSession
  <2>4. CASE Admission!validateTurnstileToken(r)
    BY <1>1, <2>4 DEF Admission!validateTurnstileToken
  <2>5. CASE Admission!Work(r)
    BY <1>1, <2>5 DEF Admission!Work
  <2> QED BY <2>1, <2>2, <2>3, <2>4, <2>5
<1>3. QStored
  BY <1>2, QSame DEF QInv, QTyped
<1> QED BY <1>2, <1>3, QPasses

\* An execution is recorded after the work.
LEMMA QCharges ==
    ASSUME QInv, NEW r \in Requests, Admission!recordFinalizeRateLimit(r)
    PROVE  QInv'
<1>1. /\ Admission!Stage(r) \notin {"none", "scan"} /\ UNCHANGED <<clock, sessions, granted>> /\ Admission!Advance(r)
  BY DEF Admission!recordFinalizeRateLimit
<1>2. recorded' = recorded \/ \E e : recorded' = recorded \cup {e}
  BY DEF Admission!recordFinalizeRateLimit
<1>3. recorded \subseteq recorded' /\ IsFiniteSet(recorded')
  BY <1>2, FS_AddElement DEF QInv, QTyped
<1>4. QStored
  BY <1>1, <1>3, QSame
<1> QED BY <1>1, <1>4, QPasses

\* The limiter in the process: nothing is said of its grants.
LEMMA QConsumesLocally ==
    ASSUME QInv, NEW r \in Requests, Admission!consume(r)
    PROVE  QInv'
<1>1. /\ StoreKind = "memory" /\ Admission!Stage(r) \in Admission!ConsumedScopes /\ UNCHANGED <<clock, sessions, recorded>>
      /\ Admission!Advance(r) \/ Admission!Answer(r, "limited")
  BY DEF Admission!consume
<1>2. Admission!Stage(r) \notin {"none", "scan"} /\ "limited" \in QAnswers
  BY <1>1 DEF Admission!ConsumedScopes, Admission!Scopes, QAnswers
<1>3. QStored
  BY <1>1, QSame DEF QInv, QTyped
<1> QED BY <1>1, <1>2, <1>3, QPasses

\* A failing store ends the request.
LEMMA QStoreFails ==
    ASSUME QInv, NEW r \in Requests, Admission!StoreFails(r)
    PROVE  QInv'
<1>1. PICK answer \in QAnswers : Admission!Answer(r, answer)
  BY DEF Admission!StoreFails, QAnswers
<1>2. Admission!Stage(r) # "none" /\ UNCHANGED <<clock, sessions, recorded, granted>>
  BY DEF Admission!StoreFails
<1>3. QStored
  BY <1>2, QSame DEF QInv, QTyped
<1> QED BY <1>1, <1>2, <1>3, QEnds

\* A scan starts having seen nothing,
LEMMA QScans ==
    ASSUME QInv, QConstants, NEW r \in Requests, Admission!ScanSessions(r)
    PROVE  QInv'
<1>1. Admission!Stage(r) = "scan" /\ UNCHANGED <<clock, sessions, recorded, granted>>
  BY DEF Admission!ScanSessions
<1>2. PICK p, pend, since : p = req[r] /\ pend = {s \in Requests : sessions[s] # Admission!Gone} /\ since = clock
  OBVIOUS
<1>3. PICK q : q = [p EXCEPT !.step = "load", !.now = since, !.count = 0, !.overtaken = FALSE, !.pend = pend]
  OBVIOUS
<1>4. req' = [req EXCEPT ![r] = q]
  BY <1>2, <1>3 DEF Admission!ScanSessions
<1>5. /\ p \in QReqs /\ QPlaced(p) /\ clock \in Nat /\ sessions[r] = Admission!Gone /\ QStage(p) = "scan"
  BY <1>1, <1>2, QUnderWay
<1>6. pend \in SUBSET Requests /\ since \in Int
  BY <1>2, <1>5
<1>7. /\ q \in QReqs /\ q.pc = p.pc /\ q.kind = p.kind /\ q.now = since /\ q.step = "load" /\ q.pend = pend /\ q.count = 0
  <2>1. PICK x : x = [p EXCEPT !.step = "load", !.now = since]
    OBVIOUS
  <2>2. x \in QReqs /\ x.pc = p.pc /\ x.kind = p.kind /\ x.now = since /\ x.step = "load"
    BY <1>5, <1>6, <2>1 DEF QReqs
  <2>0. PICK no \in BOOLEAN : no = FALSE
    OBVIOUS
  <2>3. PICK y : y = [x EXCEPT !.count = 0, !.overtaken = no]
    OBVIOUS
  <2>4. y \in QReqs /\ y.pc = x.pc /\ y.kind = x.kind /\ y.now = x.now /\ y.step = x.step /\ y.count = 0
    <3>1. PICK z : z = [x EXCEPT !.overtaken = no]
      OBVIOUS
    <3>2. z \in QReqs /\ z.pc = x.pc /\ z.kind = x.kind /\ z.now = x.now /\ z.step = x.step
      BY <2>2, <3>1 DEF QReqs
    <3>3. y = [z EXCEPT !.count = 0]
      BY <2>2, <2>3, <3>1 DEF QReqs
    <3> QED BY <3>2, <3>3 DEF QReqs
  <2>5. q = [y EXCEPT !.pend = pend]
    BY <1>3, <1>5, <2>0, <2>1, <2>3 DEF QReqs
  <2>6. /\ q \in QReqs /\ q.pc = y.pc /\ q.kind = y.kind /\ q.now = y.now /\ q.step = y.step /\ q.pend = pend
        /\ q.count = y.count
    BY <1>6, <2>4, <2>5 DEF QReqs
  <2> QED BY <2>2, <2>4, <2>6
<1>8. QStage(q) = "scan" /\ QPlaced(q)
  BY <1>5, <1>7 DEF QStage, QPlaced
<1>9. QCounted(q)
  <2>1. QSeen(since, pend) = {}
    BY <1>2 DEF QSeen
  <2> QED BY <1>7, <1>8, <2>1, FS_EmptySet DEF QCounted
<1>10. QStored
  BY <1>1, QSame DEF QInv, QTyped
<1>11. q.now = clock /\ q.now <= clock /\ q.step # "count"
  BY <1>2, <1>5, <1>7
<1> QED BY <1>1, <1>4, <1>5, <1>7, <1>8, <1>9, <1>10, <1>11, QMoves

\* adds each session it finds active,
LEMMA QLoads ==
    ASSUME QInv, QConstants, NEW r \in Requests, Admission!getActiveSessionCount(r)
    PROVE  QInv'
<1>1. Admission!Stage(r) = "scan" /\ req[r].step = "load" /\ UNCHANGED <<clock, sessions, recorded, granted>>
  BY DEF Admission!getActiveSessionCount
<1>2. PICK s \in req[r].pend :
        req' = [req EXCEPT ![r].pend = @ \ {s},
                           ![r].count = @ + IF Admission!isActiveSessionCandidate(s, req[r].now) THEN 1 ELSE 0]
  BY DEF Admission!getActiveSessionCount
<1>3. PICK p, pend, more : /\ p = req[r] /\ pend = p.pend \ {s}
                           /\ more = IF Admission!isActiveSessionCandidate(s, req[r].now) THEN 1 ELSE 0
  OBVIOUS
<1>4. /\ p \in QReqs /\ QPlaced(p) /\ p.pc > 0 /\ p.now <= clock /\ sessions[r] = Admission!Gone /\ QStage(p) = "scan"
      /\ QCounted(p) /\ p.step = "load"
  BY <1>1, <1>3, QUnderWay
<1>5. p.count \in Int /\ p.now \in Int /\ p.pend \subseteq Requests /\ s \in p.pend
  BY <1>2, <1>3, <1>4 DEF QReqs
<1>6. PICK count \in Int : count = p.count + more
  BY <1>3, <1>5
<1>7. PICK q : q = [p EXCEPT !.pend = pend, !.count = count]
  OBVIOUS
<1>8. req' = [req EXCEPT ![r] = q]
  <2>1. req' = [req EXCEPT ![r].pend = pend, ![r].count = req[r].count + more]
    BY <1>2, <1>3
  <2>2. req' = [req EXCEPT ![r].pend = pend, ![r].count = count]
    BY <1>3, <1>6, <2>1
  <2>3. req \in [Requests -> QReqs]
    BY DEF QInv, QTyped
  <2> QED BY <1>3, <1>7, <2>2, <2>3
<1>9. /\ q \in QReqs /\ q.pc = p.pc /\ q.kind = p.kind /\ q.now = p.now /\ q.step = p.step /\ q.pend = pend
      /\ q.count = count /\ q.overtaken = p.overtaken
  <2>1. pend \in SUBSET Requests
    BY <1>3, <1>5
  <2> QED BY <1>4, <1>7, <2>1 DEF QReqs
<1>10. QStage(q) = "scan" /\ QPlaced(q)
  BY <1>4, <1>9 DEF QStage, QPlaced
<1>11. QCounted(q)
  <2> SUFFICES ASSUME ~p.overtaken PROVE Cardinality(QSeen(p.now, pend)) <= count
    BY <1>9, <1>10 DEF QCounted
  <2>1. Cardinality(QSeen(p.now, p.pend)) <= p.count
    BY <1>4 DEF QCounted
  <2>2. PICK old, new : old = QSeen(p.now, p.pend) /\ new = QSeen(p.now, pend)
    OBVIOUS
  <2>3. IsFiniteSet(old) /\ Cardinality(old) \in Nat /\ IsFiniteSet(new) /\ Cardinality(new) \in Nat
    BY <2>2, QSeenFinite
  <2>4. CASE Admission!isActiveSessionCandidate(s, req[r].now)
    <3>1. more = 1 /\ new \subseteq old \cup {s}
      BY <1>3, <2>2, <2>4 DEF QSeen
    <3>2. IsFiniteSet(old \cup {s}) /\ Cardinality(old \cup {s}) <= Cardinality(old) + 1 /\ Cardinality(old \cup {s}) \in Nat
      <4>1. IsFiniteSet(old \cup {s}) /\ Cardinality(old \cup {s}) = IF s \in old THEN Cardinality(old) ELSE Cardinality(old) + 1
        BY <2>3, FS_AddElement
      <4> QED BY <2>3, <4>1
    <3>3. Cardinality(new) <= Cardinality(old \cup {s})
      BY <3>1, <3>2, FS_Subset
    <3> QED BY <1>5, <1>6, <2>1, <2>2, <2>3, <3>1, <3>2, <3>3
  <2>5. CASE ~Admission!isActiveSessionCandidate(s, req[r].now)
    <3>1. more = 0 /\ new \subseteq old
      BY <1>3, <2>2, <2>5 DEF QSeen, Admission!isActiveSessionCandidate
    <3>2. Cardinality(new) <= Cardinality(old)
      BY <2>3, <3>1, FS_Subset
    <3> QED BY <1>5, <1>6, <2>1, <2>2, <2>3, <3>1, <3>2
  <2> QED BY <2>4, <2>5
<1>12. QStored
  BY <1>1, QSame DEF QInv, QTyped
<1>13. /\ q.now <= clock /\ q.step # "count" /\ req[r].pc > 0 /\ req[r].step # "start" /\ q.now = req[r].now
  BY <1>3, <1>4, <1>9
<1> QED BY <1>1, <1>4, <1>8, <1>9, <1>10, <1>11, <1>12, <1>13, QMoves

\* and lets the request create a session only below the cap.
LEMMA QDecides ==
    ASSUME QInv, QConstants, NEW r \in Requests, Admission!createSessionWithinCapacity(r)
    PROVE  QInv'
<1>1. /\ Admission!Stage(r) = "scan" /\ req[r].step = "load" /\ req[r].pend = {}
      /\ UNCHANGED <<clock, sessions, recorded, granted>>
  BY DEF Admission!createSessionWithinCapacity
<1>2. QStored
  BY <1>1, QSame DEF QInv, QTyped
<1>3. CASE Admission!full(req[r].count)
  <2>1. Admission!Answer(r, "full") /\ "full" \in QAnswers
    BY <1>3 DEF Admission!createSessionWithinCapacity, QAnswers
  <2> QED BY <1>1, <1>2, <2>1, QEnds
<1>4. CASE ~Admission!full(req[r].count)
  <2>1. Admission!Advance(r)
    BY <1>4 DEF Admission!createSessionWithinCapacity
  <2>2. PICK n, seen : n = req[r].count /\ seen = QSeen(req[r].now, {})
    OBVIOUS
  <2>3. n \in Int /\ MaxSessions \in Nat /\ n < MaxSessions
    BY <1>1, <1>4, <2>2, QUnderWay, QNumbers DEF Admission!full, QReqs
  <2>4. ~req[r].overtaken => Cardinality(seen) <= n
    BY <1>1, <2>2, QUnderWay DEF QCounted
  <2>5. Cardinality(seen) \in Nat
    BY <2>2, QSeenFinite
  <2>6. ~req[r].overtaken => Cardinality(QSeen(req[r].now, {})) < MaxSessions
    BY <2>2, <2>3, <2>4, <2>5
  <2> QED BY <1>1, <1>2, <2>1, <2>6, QAdvances
<1> QED BY <1>3, <1>4

-----------------------------------------------------------------------------
(* Sessions, time and the expiry of events.                                *)

\* A change of the sessions overtakes every other request between its scan and its
\* creation; x is the request that creates, or the session that is touched.
LEMMA QOvertakes ==
    ASSUME QInv, NEW x \in Requests, UNCHANGED <<clock, recorded, granted>>,
           sessions' \in [Requests -> Int], \A o \in Requests : o # x => sessions'[o] = sessions[o],
           NEW q \in QReqs, q.pc = 0, q.answer = "ok", q.now <= clock,
           req' = [o \in Requests |-> IF o = x THEN q ELSE [req[o] EXCEPT !.overtaken = Admission!Overtake(x)[o]]]
    PROVE  QInv'
<1>1. ASSUME NEW o \in Requests, o # x
      PROVE  /\ req'[o] \in QReqs /\ req'[o].pc = req[o].pc /\ req'[o].kind = req[o].kind /\ req'[o].now = req[o].now
             /\ req'[o].step = req[o].step /\ req'[o].ip = req[o].ip /\ req'[o].answer = req[o].answer
             /\ QStage(req[o]) \in {"scan", "createSession"} => req'[o].overtaken
  <2>1. PICK a, b, over : a = req[o] /\ b = req'[o] /\ over = Admission!Overtake(x)[o]
    OBVIOUS
  <2>2. a \in QReqs
    BY <2>1 DEF QInv, QTyped
  <2>3. over = IF o # x /\ QStage(a) \in {"scan", "createSession"} THEN TRUE ELSE a.overtaken
    BY <2>1 DEF Admission!Overtake, Admission!Stage, QStage
  <2>4. over \in BOOLEAN
    BY <2>2, <2>3 DEF QReqs
  <2>5. b = [a EXCEPT !.overtaken = over]
    BY <1>1, <2>1
  <2>6. /\ b \in QReqs /\ b.pc = a.pc /\ b.kind = a.kind /\ b.now = a.now /\ b.step = a.step /\ b.ip = a.ip
        /\ b.answer = a.answer /\ b.overtaken = over
    BY <2>2, <2>4, <2>5 DEF QReqs
  <2> QED BY <1>1, <2>1, <2>3, <2>6
<1>2. req'[x] = q /\ QStage(q) = "none" /\ QPlaced(q)
  BY DEF QStage, QPlaced
<1>3. ASSUME NEW o \in Requests, o # x
      PROVE  QStage(req'[o]) = QStage(req[o]) /\ QEvent(o, req'[o]) = QEvent(o, req[o]) /\ QPlaced(req'[o])
  BY <1>1, <1>3 DEF QInv, QTyped, QStage, QEvent, QPlaced
<1>4. QTyped'
  <2>1. req' \in [Requests -> QReqs]
    BY <1>1
  <2>2. \A o \in Requests : QPlaced(req'[o]) /\ req'[o].now <= clock
    BY <1>1, <1>2, <1>3 DEF QInv, QTyped
  <2> QED BY <2>1, <2>2 DEF QInv, QTyped, QPlaced
<1>5. QKept'
  <2> SUFFICES ASSUME StoreKind = "dynamo"
               PROVE  /\ \A o \in Requests : QStage(req'[o]) \in Admission!ConsumedScopes /\ req'[o].step = "count"
                                               => QEvent(o, req'[o]) \in recorded
                      /\ \A g \in granted : g.at \in Int /\ (g \in recorded \/ QPassed(g)')
    BY DEF QKept, QStage, QEvent
  <2>1. ASSUME NEW o \in Requests, QStage(req'[o]) \in Admission!ConsumedScopes, req'[o].step = "count"
        PROVE  QEvent(o, req'[o]) \in recorded
    <3>1. o # x
      BY <1>2, <2>1 DEF Admission!ConsumedScopes, Admission!Scopes
    <3> QED BY <1>1, <1>3, <2>1, <3>1 DEF QInv, QKept
  <2>2. ASSUME NEW g \in granted PROVE g.at \in Int /\ (g \in recorded \/ QPassed(g)')
    <3>1. g.at \in Int /\ (g \in recorded \/ QPassed(g))
      BY DEF QInv, QKept
    <3>2. ASSUME QPassed(g) PROVE QPassed(g)'
      BY <1>1, <1>2, <3>2 DEF QPassed
    <3> QED BY <3>1, <3>2
  <2> QED BY <2>1, <2>2
<1>6. QCapacity'
  <2> SUFFICES ASSUME NEW o \in Requests
               PROVE  /\ sessions'[o] # Admission!Gone => req'[o].pc = 0 /\ req'[o].answer = "ok"
                      /\ QCounted(req[o])'
    BY DEF QCapacity
  <2>1. CASE o = x
    BY <1>2, <2>1 DEF QCounted, QStage
  <2>2. CASE o # x
    <3>1. sessions'[o] # Admission!Gone => req'[o].pc = 0 /\ req'[o].answer = "ok"
      BY <1>1, <2>2 DEF QInv, QCapacity
    <3>2. QStage(req'[o]) \in {"scan", "createSession"} => req'[o].overtaken
      BY <1>1, <1>3, <2>2
    <3> QED BY <3>1, <3>2 DEF QCounted, QStage
  <2> QED BY <2>1, <2>2
<1>7. Admission!ConsumeLimitHolds'
  BY DEF QInv, Admission!ConsumeLimitHolds, Admission!GrantedIn
<1> QED BY <1>4, <1>5, <1>6, <1>7 DEF QInv

\* A session is created,
LEMMA QCreates ==
    ASSUME QInv, NEW r \in Requests, Admission!createSession(r)
    PROVE  QInv'
<1>1. /\ Admission!Stage(r) = "createSession" /\ sessions' = [sessions EXCEPT ![r] = clock]
      /\ UNCHANGED <<clock, recorded, granted>>
  BY DEF Admission!createSession
<1>2. PICK p, q : p = req[r] /\ q = [p EXCEPT !.pc = 0, !.answer = "ok"]
  OBVIOUS
<1>3. p \in QReqs /\ p.now <= clock /\ clock \in Nat /\ "ok" \in QAnswers
  BY <1>1, <1>2, QUnderWay DEF QAnswers
<1>4. q \in QReqs /\ q.pc = 0 /\ q.now = p.now /\ q.answer = "ok"
  BY <1>2, <1>3 DEF QReqs
<1>5. /\ sessions' \in [Requests -> Int] /\ \A o \in Requests : o # r => sessions'[o] = sessions[o]
  BY <1>1, <1>3 DEF QInv, QTyped
<1>6. req' = [o \in Requests |-> IF o = r THEN q ELSE [req[o] EXCEPT !.overtaken = Admission!Overtake(r)[o]]]
  BY <1>2 DEF Admission!createSession
<1>7. q.now <= clock
  BY <1>3, <1>4
<1> QED BY <1>1, <1>4, <1>5, <1>6, <1>7, QOvertakes

\* is used,
LEMMA QTouches ==
    ASSUME QInv, NEW s \in Requests, Admission!touchSession(s)
    PROVE  QInv'
<1>1. /\ sessions[s] # Admission!Gone /\ sessions' = [sessions EXCEPT ![s] = clock]
      /\ UNCHANGED <<clock, recorded, granted>>
      /\ req' = [o \in Requests |-> [req[o] EXCEPT !.overtaken = Admission!Overtake(s)[o]]]
  BY DEF Admission!touchSession
<1>2. PICK p : p = req[s]
  OBVIOUS
<1>3. p \in QReqs /\ p.now <= clock /\ clock \in Nat /\ p.pc = 0 /\ p.answer = "ok"
  BY <1>1, <1>2 DEF QInv, QTyped, QCapacity
<1>4. /\ sessions' \in [Requests -> Int] /\ \A o \in Requests : o # s => sessions'[o] = sessions[o]
  BY <1>1, <1>3 DEF QInv, QTyped
<1>5. [p EXCEPT !.overtaken = Admission!Overtake(s)[s]] = p
  <2>1. Admission!Overtake(s)[s] = p.overtaken
    BY <1>2 DEF Admission!Overtake
  <2> QED BY <1>3, <2>1 DEF QReqs
<1>6. req' = [o \in Requests |-> IF o = s THEN p ELSE [req[o] EXCEPT !.overtaken = Admission!Overtake(s)[o]]]
  BY <1>1, <1>2, <1>5
<1> QED BY <1>1, <1>3, <1>4, <1>6, QOvertakes

\* and expires, which only lowers what a scan has to count.
LEMMA QExpires ==
    ASSUME QInv, QConstants, NEW s \in Requests, Admission!SessionExpires(s)
    PROVE  QInv'
<1>1. sessions' = [sessions EXCEPT ![s] = Admission!Gone] /\ UNCHANGED <<clock, recorded, granted, req>>
  BY DEF Admission!SessionExpires
<1>2. /\ sessions \in [Requests -> Int] /\ Admission!Gone \in Int
  BY DEF QInv, QTyped, Admission!Gone
<1>3. QTyped' /\ QKept' /\ Admission!ConsumeLimitHolds'
  <2>1. QTyped'
    BY <1>1, <1>2 DEF QInv, QTyped, QPlaced
  <2>2. QKept'
    BY <1>1 DEF QInv, QKept, QPassed, QStage, QEvent
  <2>3. Admission!ConsumeLimitHolds'
    BY <1>1 DEF QInv, Admission!ConsumeLimitHolds, Admission!GrantedIn
  <2> QED BY <2>1, <2>2, <2>3
<1>4. ASSUME NEW since, NEW pend
      PROVE  /\ Cardinality(QSeen(since, pend)') <= Cardinality(QSeen(since, pend))
             /\ Cardinality(QSeen(since, pend)') \in Nat /\ Cardinality(QSeen(since, pend)) \in Nat
  <2>1. PICK old, new : old = QSeen(since, pend) /\ new = QSeen(since, pend)'
    OBVIOUS
  <2>2. new \subseteq old
    BY <1>1, <1>2, <2>1 DEF QSeen
  <2>3. IsFiniteSet(old) /\ Cardinality(old) \in Nat
    BY <2>1, QSeenFinite
  <2>4. IsFiniteSet(new) /\ Cardinality(new) <= Cardinality(old)
    BY <2>2, <2>3, FS_Subset
  <2>5. Cardinality(new) \in Nat
    BY <2>4, FS_CardinalityType
  <2> QED BY <2>1, <2>3, <2>4, <2>5
<1>5. QCapacity'
  <2> SUFFICES ASSUME NEW o \in Requests
               PROVE  /\ sessions'[o] # Admission!Gone => req[o].pc = 0 /\ req[o].answer = "ok"
                      /\ QCounted(req[o])'
    BY <1>1 DEF QCapacity
  <2>1. sessions'[o] # Admission!Gone => req[o].pc = 0 /\ req[o].answer = "ok"
    BY <1>1, <1>2 DEF QInv, QCapacity
  <2>2. PICK q : q = req[o]
    OBVIOUS
  <2>3. q \in QReqs /\ QCounted(q) /\ q.count \in Int /\ MaxSessions \in Nat
    BY <2>2, QNumbers DEF QInv, QTyped, QCapacity, QReqs
  <2>4. QStage(q) = "scan" /\ q.step = "load" /\ ~q.overtaken => Cardinality(QSeen(q.now, q.pend)') <= q.count
    <3>1. PICK n, m : n = Cardinality(QSeen(q.now, q.pend)') /\ m = Cardinality(QSeen(q.now, q.pend))
      OBVIOUS
    <3>2. n <= m /\ n \in Nat /\ m \in Nat
      BY <1>4, <3>1
    <3> QED BY <2>3, <3>1, <3>2 DEF QCounted
  <2>5. QStage(q) = "createSession" /\ ~q.overtaken => Cardinality(QSeen(q.now, {})') < MaxSessions
    <3>1. PICK n, m : n = Cardinality(QSeen(q.now, {})') /\ m = Cardinality(QSeen(q.now, {}))
      OBVIOUS
    <3>2. n <= m /\ n \in Nat /\ m \in Nat
      BY <1>4, <3>1
    <3> QED BY <2>3, <3>1, <3>2 DEF QCounted
  <2>6. QCounted(q)'
    BY <2>4, <2>5 DEF QCounted, QStage, QSeen
  <2> QED BY <1>1, <2>1, <2>2, <2>6 DEF QCounted, QStage, QSeen
<1> QED BY <1>3, <1>5 DEF QInv

\* Time passes.
LEMMA QTicks ==
    ASSUME QInv, QConstants, Admission!Tick
    PROVE  QInv'
<1>1. clock' = clock + 1 /\ clock \in Nat /\ UNCHANGED <<recorded, sessions, granted, req>>
  BY DEF QInv, QTyped, Admission!Tick
<1>2. QTyped'
  <2>1. \A r \in Requests : req[r].now \in Int /\ req[r].now <= clock
    BY DEF QInv, QTyped, QReqs
  <2>2. \A r \in Requests : req[r].now <= clock'
    BY <1>1, <2>1
  <2>3. clock' \in Nat
    BY <1>1
  <2> QED BY <1>1, <2>2, <2>3 DEF QInv, QTyped, QPlaced
<1>3. QKept'
  <2>1. ASSUME NEW g, g.at \in Int, QPassed(g) PROVE QPassed(g)'
    <3>1. g.at + Window <= clock + 1
      BY <1>1, <2>1, QNumbers DEF QPassed
    <3> QED BY <1>1, <2>1, <3>1 DEF QPassed
  <2> QED BY <1>1, <2>1 DEF QInv, QKept, QStage, QEvent
<1>4. QCapacity'
  BY <1>1 DEF QInv, QCapacity, QCounted, QStage, QSeen
<1>5. Admission!ConsumeLimitHolds'
  BY <1>1 DEF QInv, Admission!ConsumeLimitHolds, Admission!GrantedIn
<1> QED BY <1>2, <1>3, <1>4, <1>5 DEF QInv

\* An event is deleted only when nobody has its window still to count.
LEMMA QForgets ==
    ASSUME QInv, QConstants, NEW e \in recorded, Admission!EventExpires(e)
    PROVE  QInv'
<1>1. recorded' = recorded \ {e} /\ UNCHANGED <<clock, sessions, granted, req>>
  BY DEF Admission!EventExpires
<1>2. IsFiniteSet(recorded')
  BY <1>1, FS_RemoveElement DEF QInv, QTyped
<1>3. QTyped'
  BY <1>1, <1>2 DEF QInv, QTyped, QPlaced
<1>4. QKept'
  <2> SUFFICES ASSUME StoreKind = "dynamo"
               PROVE  /\ \A r \in Requests : QStage(req[r]) \in Admission!ConsumedScopes /\ req[r].step = "count"
                                               => QEvent(r, req[r]) \in recorded'
                      /\ \A g \in granted : g.at \in Int /\ (g \in recorded' \/ QPassed(g))
    BY <1>1 DEF QKept, QStage, QEvent, QPassed
  <2>1. ASSUME NEW r \in Requests, QStage(req[r]) \in Admission!ConsumedScopes, req[r].step = "count"
        PROVE  QEvent(r, req[r]) \in recorded'
    <3>1. QEvent(r, req[r]) \in recorded
      BY <2>1 DEF QInv, QKept
    <3>2. req[r].pc > 0 /\ req[r].now \in Int
      <4>1. req[r] \in QReqs /\ req[r].pc # 0
        BY <2>1 DEF QInv, QTyped, QStage, Admission!ConsumedScopes, Admission!Scopes
      <4> QED BY <4>1 DEF QReqs
    <3>3. e.at <= req[r].now - Window
      BY <2>1, <3>2 DEF Admission!EventExpires
    <3>4. e.at # req[r].now
      BY <3>2, <3>3, QNumbers
    <3>5. QEvent(r, req[r]).at = req[r].now
      BY DEF QEvent
    <3> QED BY <1>1, <3>1, <3>4, <3>5
  <2>2. ASSUME NEW g \in granted PROVE g.at \in Int /\ (g \in recorded' \/ QPassed(g))
    <3>1. g.at \in Int /\ (g \in recorded \/ QPassed(g))
      BY DEF QInv, QKept
    <3>2. ASSUME g = e PROVE QPassed(g)
      <4>1. clock \in Nat /\ Window \in Nat /\ \A r \in Requests : req[r].now \in Int
        BY QNumbers DEF QInv, QTyped, QReqs
      <4>2. g.at + Window <= clock
        BY <3>1, <3>2, <4>1 DEF Admission!EventExpires
      <4>3. ASSUME NEW r \in Requests, req[r].pc > 0, req[r].step # "start" PROVE g.at + Window <= req[r].now
        <5>1. g.at <= req[r].now - Window
          BY <3>2, <4>3 DEF Admission!EventExpires
        <5> QED BY <3>1, <4>1, <5>1
      <4> QED BY <4>2, <4>3 DEF QPassed
    <3> QED BY <1>1, <3>1, <3>2
  <2> QED BY <2>1, <2>2
<1>5. QCapacity'
  BY <1>1 DEF QInv, QCapacity, QCounted, QStage, QSeen
<1>6. Admission!ConsumeLimitHolds'
  BY <1>1 DEF QInv, Admission!ConsumeLimitHolds, Admission!GrantedIn
<1> QED BY <1>3, <1>4, <1>5, <1>6 DEF QInv

\* The invariant holds at first,
LEMMA QStarts ==
    ASSUME QConstants, Admission!Init
    PROVE  QInv
<1>1. /\ clock = 0 /\ recorded = {} /\ granted = {} /\ sessions = [r \in Requests |-> Admission!Gone]
      /\ req = [r \in Requests |-> Admission!Idling] /\ Admission!Gone \in Int
  BY DEF Admission!Init, Admission!Gone
<1>2. PICK q : q = Admission!Idling
  OBVIOUS
<1>3. q \in QReqs /\ q.pc = 0 /\ q.now = 0 /\ q.step = "start"
  BY <1>2 DEF Admission!Idling, QReqs, QAnswers
<1>4. QStage(q) = "none" /\ QPlaced(q)
  BY <1>3 DEF QStage, QPlaced
<1>5. QTyped
  BY <1>1, <1>2, <1>3, <1>4, FS_EmptySet DEF QTyped
<1>6. QKept
  BY <1>1, <1>2, <1>3 DEF QKept
<1>7. Admission!ConsumeLimitHolds
  <2> SUFFICES ASSUME NEW scope, NEW ip, NEW t
               PROVE  Admission!Cardinality(Admission!GrantedIn(scope, ip, t)) <= Admission!ScopeLimit(scope)
    BY DEF Admission!ConsumeLimitHolds
  <2>1. Admission!GrantedIn(scope, ip, t) = {}
    BY <1>1 DEF Admission!GrantedIn
  <2>2. Admission!Cardinality(Admission!GrantedIn(scope, ip, t)) = 0
    BY <2>1, QCardinality, FS_EmptySet
  <2>3. Admission!ScopeLimit(scope) \in Nat
    BY QNumbers
  <2> QED BY <2>2, <2>3
<1>8. QCapacity
  BY <1>1, <1>2, <1>4 DEF QCapacity, QCounted
<1> QED BY <1>5, <1>6, <1>7, <1>8 DEF QInv

\* and every step keeps it.
LEMMA QStep ==
    ASSUME QConstants, QInv, [Admission!Next]_(Admission!vars)
    PROVE  QInv'
<1>1. CASE UNCHANGED Admission!vars
  <2>1. UNCHANGED <<clock, recorded, sessions, granted, req>>
    BY <1>1 DEF Admission!vars
  <2>2. QTyped'
    BY <2>1 DEF QInv, QTyped, QPlaced
  <2>3. QKept'
    BY <2>1 DEF QInv, QKept, QPassed, QStage, QEvent
  <2>4. QCapacity'
    BY <2>1 DEF QInv, QCapacity, QCounted, QStage, QSeen
  <2>5. Admission!ConsumeLimitHolds'
    BY <2>1 DEF QInv, Admission!ConsumeLimitHolds, Admission!GrantedIn
  <2> QED BY <2>2, <2>3, <2>4, <2>5 DEF QInv
<1>2. CASE Admission!Tick
  BY <1>2, QTicks
<1>3. ASSUME NEW r \in Requests,
             \/ Admission!Arrive(r) \/ Admission!RequestStep(r) \/ Admission!StoreFails(r)
             \/ Admission!touchSession(r) \/ Admission!SessionExpires(r)
      PROVE  QInv'
  <2>1. CASE Admission!RequestStep(r)
    BY <2>1, QTimes, QRecords, QConsumes, QChecks, QCharges, QConsumesLocally, QScans, QLoads, QDecides, QCreates
       DEF Admission!RequestStep
  <2> QED BY <1>3, <2>1, QArrives, QStoreFails, QTouches, QExpires
<1>4. ASSUME NEW e \in recorded, Admission!EventExpires(e) PROVE QInv'
  BY <1>4, QForgets
<1> QED BY <1>1, <1>2, <1>3, <1>4 DEF Admission!Next

\* For any limits, windows, addresses and routes, and any number of requests that run
\* at once on the shared store: no window of an address holds more grants of a scope
\* than its limit, as each request writes its event before it counts
\* (consumeEventWindow).
THEOREM SharedLimitHolds ==
    ASSUME QConstants
    PROVE  Admission!Spec => []Admission!ConsumeLimitHolds
<1>1. Admission!Init => QInv
  BY QStarts
<1>2. QInv /\ [Admission!Next]_(Admission!vars) => QInv'
  BY QStep
<1>3. QInv => Admission!ConsumeLimitHolds
  BY DEF QInv
<1> QED BY <1>1, <1>2, <1>3, PTL DEF Admission!Spec

\* However many requests create sessions at once, a creation that no other creation or
\* activity overtook since its scan leaves at most MAX_SESSIONS active: the cap is
\* passed only by a race (createSessionWithinCapacity).
THEOREM CapacityIsPassedByRaces ==
    ASSUME QConstants
    PROVE  Admission!Spec => [][Admission!OnlyRacesExceedCapacity]_(Admission!vars)
<1>1. Admission!Init => QInv
  BY QStarts
<1>2. QInv /\ [Admission!Next]_(Admission!vars) => QInv'
  BY QStep
<1>3. QInv /\ [Admission!Next]_(Admission!vars) => [Admission!OnlyRacesExceedCapacity]_(Admission!vars)
  <2> SUFFICES ASSUME QInv, NEW r \in Requests, Admission!createSession(r), ~req[r].overtaken
               PROVE  Admission!Cardinality(Admission!ActiveSessions') <= MaxSessions
    BY DEF Admission!OnlyRacesExceedCapacity
  <2>1. PICK q, seen, new : q = req[r] /\ seen = QSeen(q.now, {}) /\ new = Admission!ActiveSessions'
    OBVIOUS
  <2>2. /\ Admission!Stage(r) = "createSession" /\ sessions' = [sessions EXCEPT ![r] = clock] /\ clock' = clock
    BY DEF Admission!createSession
  <2>3. q \in QReqs /\ q.now \in Int /\ q.now <= clock /\ clock \in Nat /\ QStage(q) = "createSession" /\ QCounted(q)
    BY <2>1, <2>2, QUnderWay DEF QReqs
  <2>4. Cardinality(seen) < MaxSessions
    BY <2>1, <2>3 DEF QCounted
  <2>5. new \subseteq seen \cup {r}
    <3> SUFFICES ASSUME NEW s \in new, s # r PROVE s \in seen
      OBVIOUS
    <3>1. /\ s \in Requests /\ sessions[s] # Admission!Gone /\ clock - sessions[s] <= ActiveFor /\ sessions[s] \in Int
      BY <2>1, <2>2 DEF Admission!ActiveSessions, Admission!isActiveSessionCandidate, QInv, QTyped
    <3>2. q.now - sessions[s] <= ActiveFor
      BY <2>3, <3>1, QNumbers
    <3> QED BY <2>1, <3>1, <3>2 DEF QSeen
  <2>6. IsFiniteSet(seen) /\ Cardinality(seen) \in Nat
    BY <2>1, QSeenFinite
  <2>7. /\ IsFiniteSet(seen \cup {r})
        /\ Cardinality(seen \cup {r}) = IF r \in seen THEN Cardinality(seen) ELSE Cardinality(seen) + 1
    BY <2>6, FS_AddElement
  <2>8. IsFiniteSet(new) /\ Cardinality(new) <= Cardinality(seen \cup {r})
    BY <2>5, <2>7, FS_Subset
  <2>9. Cardinality(new) \in Nat
    BY <2>8, FS_CardinalityType
  <2>10. Cardinality(new) <= MaxSessions
    BY <2>4, <2>6, <2>7, <2>8, <2>9, QNumbers
  <2> QED BY <2>1, <2>10, QCardinality
<1> QED BY <1>1, <1>2, <1>3, PTL DEF Admission!Spec

=============================================================================

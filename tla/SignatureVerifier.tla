-------------------------- MODULE SignatureVerifier --------------------------
(***************************************************************************)
(* Verifying the signature of the Prover's image before it is deployed and *)
(* before it is run:                                                       *)
(*   infra/image-signature-verifier/verifier.mjs      the verification     *)
(*   infra/image-signature-verifier/verify-image.mjs  its command line,    *)
(*       which an App preparation runs and which writes a result file      *)
(*   infra/lambdas/image-signature-verifier/index.mjs the Lambda, which    *)
(*       the Prover's state machine asks before it starts the Prover       *)
(* A verification polls the registry's signing status, admits the assets   *)
(* of AssetFiles, makes a workspace, runs notation in it and removes it.   *)
(* Time is counted for the requests of the status, the delays between them *)
(* and notation, the parts that the handler's budget names.                *)
(***************************************************************************)
EXTENDS AssetFiles

CONSTANTS Executions,      \* executions of the Prover's state machine
          Preparations,    \* runs of the command line, with one output file
          Configurations,  \* environments the Lambda may be deployed with
          Directories,     \* asset directories it may be deployed with
          Events,          \* what a verification may be asked
          Statuses,        \* what the registry may say of the image's signing
          Margin,          \* for cleaning up and answering
          Retries,         \* of the state machine
          MaxFaults

Callers == Executions \cup Preparations

VARIABLES config,      \* the environment
          dir,         \* the asset directory, which does not change
          statuses,    \* the registry's signing status of the image
          signed,      \* the profiles whose valid signature the registry holds
          calls,       \* caller -> its verification
          launched,    \* executions that went on to run the Prover
          output,      \* the command line's result file, None when absent
          workspaces,  \* callers whose workspace is on disk
          faults

vars == <<config, dir, statuses, signed, calls, launched, output, workspaces, faults>>

Profile == "profile"

\* The answer of a verification that ends without an image verified.
boundedFailure(result, reason) == [result |-> result, reason |-> reason, manifest |-> None, root |-> None]

Idle == [at |-> "idle", event |-> None, attempt |-> 0, elapsed |-> 0, seen |-> None, answer |-> None, tries |-> 0]

Init ==
    /\ config \in Configurations
    /\ dir \in Directories
    /\ statuses \in Statuses
    /\ signed \in SUBSET {Profile}
    /\ calls = [c \in Callers |-> Idle]
    /\ launched = {}
    /\ output = None
    /\ workspaces = {}
    /\ faults = 0

fault == faults < MaxFaults /\ faults' = faults + 1

-----------------------------------------------------------------------------
(* Requests and configuration *)

\* parseImageSignatureInvocation: every part agrees with the image's URI and the
\* profile belongs to its registry and region.
parseImageSignatureInvocation(event) == event.coherent

\* parseHandlerTiming: what the parts may take leaves room in the deadline.
parseHandlerTiming(c) ==
    /\ c.attempts >= 1
    /\ c.processTimeout + c.attempts * c.attemptTimeout + (c.attempts - 1) * c.retryDelay + Margin <= c.deadline

parseConfiguration(c) ==
    /\ parseImageSignatureInvocation(c.authority)
    /\ c.manifest # None
    /\ c.root # None
    /\ parseHandlerTiming(c)

eventMatchesAuthority(event) == parseImageSignatureInvocation(event) /\ event = config.authority

\* selectAwsCredentialEnvironment: exactly one complete source of credentials.
selectAwsCredentialEnvironment(credentials) ==
    \/ credentials = [session |-> "complete", container |-> "absent"]
    \/ credentials = [session |-> "absent", container |-> "complete"]

-----------------------------------------------------------------------------
(* Steps of a verification *)

\* The state of c once the verification has ended with the answer; its
\* workspace, if it has one, is removed first.
ended(c, answer) == [calls EXCEPT ![c].at = "answered", ![c].answer = answer]

\* A request that is answered at once, and one that goes on to poll.
refused(c, event, answer) == [calls[c] EXCEPT !.event = event, !.at = "answered", !.answer = answer]
accepted(c, event) == [calls[c] EXCEPT !.event = event, !.at = "polling", !.attempt = 1]

\* Faulty variant: entries of other profiles are left to notation.
inspectSigningStatusesOwn(seq, profile) ==
    LET own == SelectSeq(seq, LAMBDA s : s.profile = profile) IN
    IF Len(own) = 0 THEN "EXPECTED_PROFILE_MISSING"
    ELSE CASE own[1].status = "COMPLETE"   -> "READY"
           [] own[1].status = "FAILED"     -> "SIGNING_FAILED"
           [] OTHER                        -> "SIGNING_NOT_READY"

\* inspectSigningStatuses
inspectSigningStatuses(seq, profile) ==
    IF Len(seq) = 0 THEN "EXPECTED_PROFILE_MISSING"
    ELSE IF \E i \in DOMAIN seq : seq[i].status = "malformed" THEN "MALFORMED_SIGNING_STATUS"
    ELSE IF \E i \in DOMAIN seq : seq[i].profile # profile THEN "UNEXPECTED_PROFILE"
    ELSE IF Len(seq) # 1 THEN "EXPECTED_PROFILE_AMBIGUOUS"
    ELSE CASE seq[1].status = "COMPLETE"    -> "READY"
           [] seq[1].status = "FAILED"      -> "SIGNING_FAILED"
           [] seq[1].status = "IN_PROGRESS" -> "SIGNING_NOT_READY"

Retryable == {"EXPECTED_PROFILE_MISSING", "SIGNING_NOT_READY"}

\* The command line has defaults for its timing, and no deadline that its time
\* would have to be counted for.
timing(c) == IF c \in Executions THEN config
             ELSE [attempts |-> 2, attemptTimeout |-> 0, retryDelay |-> 0, processTimeout |-> 0]

moreAttempts(c) == calls[c].attempt < timing(c).attempts

\* The result of a poll that ends without the image's signing complete.
pollResult(seen) == IF seen \in Retryable \cup {"SIGNING_FAILED"} THEN "VERIFICATION_FAILED" ELSE "VERIFIER_ERROR"

\* pollSigningReadiness: one attempt, which is answered in time.
Poll(c, took) ==
    LET seen == inspectSigningStatuses(statuses, calls[c].event.profile)
        at == calls[c].elapsed + took
        noted == [calls EXCEPT ![c].elapsed = at, ![c].seen = statuses]
    IN /\ calls[c].at = "polling"
       /\ calls' = IF seen = "READY"
                   THEN [noted EXCEPT ![c].at = "assets"]
                   ELSE IF seen \in Retryable /\ moreAttempts(c)
                   THEN [noted EXCEPT ![c].attempt = @ + 1, ![c].elapsed = at + timing(c).retryDelay]
                   ELSE [noted EXCEPT ![c].at = "answered", ![c].answer = boundedFailure(pollResult(seen), seen)]
       /\ UNCHANGED <<config, dir, statuses, signed, launched, output, workspaces, faults>>

\* An attempt fails or is abandoned at its time limit.  A late answer finds the
\* race decided.
PollFails(c, took) ==
    /\ fault
    /\ calls[c].at = "polling"
    /\ calls' = [calls EXCEPT ![c].at = "answered", ![c].elapsed = @ + took,
                              ![c].answer = boundedFailure("VERIFIER_ERROR", "SIGNING_STATUS_LOOKUP_ERROR")]
    /\ UNCHANGED <<config, dir, statuses, signed, launched, output, workspaces>>

\* admitRuntimeVerifierAssets.  The command line has no digests to expect.
AdmitAssets(c) ==
    LET admission == IF c \in Executions
                     THEN admitRuntimeVerifierAssets(dir, "amd64", config.manifest, config.root)
                     ELSE admitRuntimeVerifierAssets(dir, "amd64", None, None)
    IN /\ calls[c].at = "assets"
       /\ calls' = IF admission = "READY" THEN [calls EXCEPT ![c].at = "workspace"]
                   ELSE ended(c, boundedFailure("VERIFIER_ERROR", admission))
       /\ UNCHANGED <<config, dir, statuses, signed, launched, output, workspaces, faults>>

\* createInvocationWorkspace
MakeWorkspace(c) ==
    /\ calls[c].at = "workspace"
    /\ calls' = [calls EXCEPT ![c].at = "notation"]
    /\ workspaces' = workspaces \cup {c}
    /\ UNCHANGED <<config, dir, statuses, signed, launched, output, faults>>

\* createInvocationWorkspace fails and removes what it made.
MakeWorkspaceFails(c) ==
    /\ fault
    /\ calls[c].at = "workspace"
    /\ calls' = ended(c, boundedFailure("VERIFIER_ERROR", "RUNTIME_SETUP_ERROR"))
    /\ UNCHANGED <<config, dir, statuses, signed, launched, output, workspaces>>

\* notation, with the trust policy of the workspace, accepts an image that has a
\* valid signature of the invocation's profile.
notationAccepts(c) == calls[c].event.profile \in signed

\* notationVerificationResult
notationVerificationResult(kind) ==
    CASE kind = "success" -> [result |-> "VERIFIED", reason |-> None,
                              manifest |-> dir.record.manifest, root |-> dir.record.root]
      [] kind = "exit"    -> boundedFailure("VERIFICATION_FAILED", "CRYPTOGRAPHIC_VERIFICATION_FAILED")
      [] kind = "timeout" -> boundedFailure("VERIFIER_TIMEOUT", "CRYPTOGRAPHIC_VERIFIER_TIMEOUT")
      [] kind = "signal"  -> boundedFailure("VERIFIER_ERROR", "CRYPTOGRAPHIC_VERIFIER_SIGNAL")
      [] OTHER            -> boundedFailure("VERIFIER_ERROR", "CRYPTOGRAPHIC_VERIFIER_SPAWN_ERROR")

\* runNotationProcess: notation ends within its time limit or is killed at it.
RunNotation(c, took) ==
    /\ calls[c].at = "notation"
    /\ calls' = [calls EXCEPT ![c].at = "cleanup", ![c].elapsed = @ + took,
            ![c].answer = notationVerificationResult(IF notationAccepts(c) THEN "success" ELSE "exit")]
    /\ UNCHANGED <<config, dir, statuses, signed, launched, output, workspaces, faults>>

\* The registry cannot be read ("exit" too), notation is killed or cannot start.
NotationFails(c, kind) ==
    /\ fault
    /\ calls[c].at = "notation"
    /\ calls' = [calls EXCEPT ![c].at = "cleanup",
            ![c].elapsed = @ + (IF kind = "timeout" THEN timing(c).processTimeout ELSE 0),
            ![c].answer = notationVerificationResult(kind)]
    /\ UNCHANGED <<config, dir, statuses, signed, launched, output, workspaces>>

\* The finally block of verifyInInvocationWorkspace.
CleanUp(c) ==
    /\ calls[c].at = "cleanup"
    /\ calls' = [calls EXCEPT ![c].at = "answered"]
    /\ workspaces' = workspaces \ {c}
    /\ UNCHANGED <<config, dir, statuses, signed, launched, output, faults>>

\* The removal fails: the verification throws in place of its answer.
CleanUpFails(c) ==
    /\ fault
    /\ calls[c].at = "cleanup"
    /\ calls' = ended(c, None)
    /\ UNCHANGED <<config, dir, statuses, signed, launched, output, workspaces>>

-----------------------------------------------------------------------------
(* The Lambda and the state machine that asks it *)

PreservedReasons == {"SIGNING_NOT_READY", "SIGNING_FAILED", "EXPECTED_PROFILE_MISSING",
                     "EXPECTED_PROFILE_AMBIGUOUS", "UNEXPECTED_PROFILE"}

\* normalizeLambdaResult: what the caller is told.
normalizeLambdaResult(answer) ==
    IF answer = None THEN "VERIFIER_ERROR"
    ELSE IF answer.result = "VERIFIED"
    THEN IF answer.manifest = config.manifest /\ answer.root = config.root THEN "VERIFIED" ELSE "VERIFIER_ERROR"
    ELSE IF answer.reason \in PreservedReasons THEN answer.reason
    ELSE IF answer.result \in {"VERIFIER_TIMEOUT", "VERIFIER_ERROR"} THEN answer.result
    ELSE "VERIFICATION_FAILED"

\* The handler up to its first wait.
Invoke(e, event, credentials) ==
    /\ calls[e].at = "idle"
    /\ calls' = [calls EXCEPT ![e] =
        IF ~parseConfiguration(config) THEN refused(e, event, None)
        ELSE IF ~eventMatchesAuthority(event)
        THEN refused(e, event, boundedFailure("VERIFICATION_FAILED", "INVOCATION_AUTHORITY_MISMATCH"))
        ELSE IF ~selectAwsCredentialEnvironment(credentials)
        THEN refused(e, event, boundedFailure("VERIFIER_ERROR", "CREDENTIAL_SOURCE_INVALID"))
        ELSE accepted(e, event)]
    /\ UNCHANGED <<config, dir, statuses, signed, launched, output, workspaces, faults>>

\* The Lambda's answer reaches the state machine: VerifyImageSignature and
\* CheckImageSignature.
Answer(e) ==
    /\ calls[e].at = "answered"
    /\ calls' = [calls EXCEPT ![e].at = "done"]
    /\ launched' = IF normalizeLambdaResult(calls[e].answer) = "VERIFIED" THEN launched \cup {e} ELSE launched
    /\ UNCHANGED <<config, dir, statuses, signed, output, workspaces, faults>>

\* The invocation is lost with its environment and the files in it.  The state machine retries what
\* the service says is its own fault; anything else it records as rejected.
InvocationLost(e, service) ==
    /\ fault
    /\ calls[e].at \notin {"idle", "done"}
    /\ calls' = [calls EXCEPT ![e] = IF service /\ calls[e].tries < Retries
                                     THEN [Idle EXCEPT !.tries = calls[e].tries + 1]
                                     ELSE [@ EXCEPT !.at = "done", !.answer = None]]
    /\ workspaces' = workspaces \ {e}
    /\ UNCHANGED <<config, dir, statuses, signed, launched, output>>

-----------------------------------------------------------------------------
(* The command line *)

\* runVerifierCli up to its first wait: the output must not exist yet, the input
\* file must keep its contract.
StartCli(p, event, input, credentials) ==
    /\ calls[p].at = "idle"
    /\ calls' = [calls EXCEPT ![p] =
        IF output # None THEN [@ EXCEPT !.at = "done", !.answer = None]
        ELSE IF ~input THEN refused(p, event, None)
        ELSE IF ~parseImageSignatureInvocation(event)
        THEN refused(p, event, boundedFailure("VERIFICATION_FAILED", "INVALID_INVOCATION"))
        ELSE IF ~selectAwsCredentialEnvironment(credentials)
        THEN refused(p, event, boundedFailure("VERIFIER_ERROR", "CREDENTIAL_SOURCE_INVALID"))
        ELSE accepted(p, event)]
    /\ UNCHANGED <<config, dir, statuses, signed, launched, output, workspaces, faults>>

\* A verification that threw is a result of its own.
cliResult(answer) == IF answer = None THEN boundedFailure("VERIFIER_ERROR", "CLI_CONTRACT_ERROR") ELSE answer

\* writeSanitizedResult creates the file or fails; the exit code says VERIFIED
\* (zero) only when it was created.
WriteResult(p) ==
    /\ calls[p].at = "answered"
    /\ IF output = None
       THEN /\ output' = [by |-> p, result |-> cliResult(calls[p].answer)]
            /\ calls' = [calls EXCEPT ![p].at = "done", ![p].answer = cliResult(@)]
       ELSE /\ calls' = [calls EXCEPT ![p].at = "done", ![p].answer = None]
            /\ UNCHANGED output
    /\ UNCHANGED <<config, dir, statuses, signed, launched, workspaces, faults>>

\* The file is created and its mode cannot be set, or it cannot be created.
WriteResultFails(p, created) ==
    /\ fault
    /\ calls[p].at = "answered"
    /\ output' = IF created /\ output = None THEN [by |-> p, result |-> cliResult(calls[p].answer)] ELSE output
    /\ calls' = [calls EXCEPT ![p].at = "done", ![p].answer = None]
    /\ UNCHANGED <<config, dir, statuses, signed, launched, workspaces>>

-----------------------------------------------------------------------------
(* The registry *)

StatusMoves ==
    /\ \E s \in Statuses \ {statuses} : statuses' = s
    /\ fault
    /\ UNCHANGED <<config, dir, signed, calls, launched, output, workspaces>>

Sign ==
    /\ signed' = {Profile}
    /\ signed # signed'
    /\ UNCHANGED <<config, dir, statuses, calls, launched, output, workspaces, faults>>

Credentials == [session : {"complete", "partial", "absent"}, container : {"complete", "absent"}]

Step(c) ==
    \/ \E took \in {0, timing(c).attemptTimeout} : Poll(c, took)
    \/ AdmitAssets(c) \/ MakeWorkspace(c)
    \/ \E took \in {0, timing(c).processTimeout} : RunNotation(c, took)
    \/ CleanUp(c)

Disturbed(c) ==
    \/ \E took \in {0, timing(c).attemptTimeout} : PollFails(c, took)
    \/ MakeWorkspaceFails(c) \/ CleanUpFails(c)
    \/ \E kind \in {"exit", "timeout", "signal", "spawn_error"} : NotationFails(c, kind)

Ask(c) ==
    \E event \in Events, credentials \in Credentials :
        \/ c \in Executions /\ Invoke(c, event, credentials)
        \/ c \in Preparations /\ \E input \in BOOLEAN : StartCli(c, event, input, credentials)

Conclude(c) == (c \in Executions /\ Answer(c)) \/ (c \in Preparations /\ WriteResult(c))

Next ==
    \/ \E c \in Callers : Ask(c) \/ Step(c) \/ Disturbed(c) \/ Conclude(c)
    \/ \E e \in Executions, service \in BOOLEAN : InvocationLost(e, service)
    \/ \E p \in Preparations, created \in BOOLEAN : WriteResultFails(p, created)
    \/ StatusMoves \/ Sign

\* A verification goes on until it has an answer and the answer is delivered:
\* every wait in it has a time limit.
Fairness == \A c \in Callers : WF_vars(Step(c) \/ Conclude(c))

Spec == Init /\ [][Next]_vars /\ Fairness

-----------------------------------------------------------------------------
(* Properties *)

Ats == {"idle", "polling", "assets", "workspace", "notation", "cleanup", "answered", "done"}

\* Verifications are at one of their steps and have asked no more often than
\* their configuration says.
TypeOK ==
    /\ \A c \in Callers :
        /\ calls[c].at \in Ats
        /\ calls[c].attempt \in 0 .. timing(c).attempts
        /\ calls[c].tries \in 0 .. Retries
    /\ launched \subseteq Executions
    /\ workspaces \subseteq Callers
    /\ faults \in 0 .. MaxFaults

\* The verifications whose caller was told VERIFIED.
ToldVerified(c) ==
    IF c \in Executions THEN c \in launched
    ELSE calls[c].at = "done" /\ calls[c].answer # None /\ calls[c].answer.result = "VERIFIED"

\* The Prover is started, and a preparation goes on, only for an image that a
\* valid signature of the expected profile exists for, once the registry itself
\* said that exactly this signing was complete, with the tools that the manifest
\* pins; and the Lambda only for the image, profile and manifest it was deployed
\* for.
VerifiedIsJustified ==
    \A c \in Callers : ToldVerified(c) =>
        /\ calls[c].event.profile \in signed
        /\ calls[c].seen = <<[profile |-> calls[c].event.profile, status |-> "COMPLETE"]>>
        /\ IsPinned(dir, "amd64", dir.entries["manifest"].contents)
        /\ c \in Executions => /\ calls[c].event = config.authority
                               /\ dir.entries["manifest"].contents = config.manifest

\* A reason that names the state of the signing is what the last answer of the
\* registry showed, and a state that may still change is only reported after the
\* last attempt.
SigningReasonIsSeen ==
    \A e \in Executions :
        LET told == normalizeLambdaResult(calls[e].answer)
        IN (calls[e].at = "answered" /\ told \in PreservedReasons) =>
            /\ calls[e].seen # None
            /\ inspectSigningStatuses(calls[e].seen, config.authority.profile) = told
            /\ told \in Retryable => calls[e].attempt = config.attempts

\* However slow the registry and notation are, the parts that the budget names
\* leave the margin for cleaning up and answering before the handler's deadline.
AnsweredInTime ==
    \A e \in Executions : calls[e].elapsed > 0 => calls[e].elapsed + Margin <= config.deadline

\* A verification that answered leaves no workspace, unless removing it failed,
\* and then the answer is lost with it.
NoWorkspaceLeft ==
    \A c \in Callers : (calls[c].at \in {"answered", "done"} /\ c \in workspaces)
        => (calls[c].answer = None \/ calls[c].answer = cliResult(None))

\* Two preparations with one output file: the one that says VERIFIED is the one
\* whose result the file holds, and the file is never replaced.
WrittenIsOwn ==
    /\ \A p \in Preparations : ToldVerified(p) => output = [by |-> p, result |-> calls[p].answer]
    /\ \A p \in Preparations : (calls[p].at = "done" /\ calls[p].answer # None) => output.by = p

\* Every verification that was started is answered, whatever the registry says.
EveryoneAnswered ==
    \A c \in Callers : (calls[c].at # "idle") ~> (calls[c].at \in {"done", "idle"})

=============================================================================

# TLA+ verification of the STARK ballot simulator

The simulator runs one small election per session: the user casts a vote, bots
cast the others, a finalization proves the tally in a zkVM, and the result is
verified.  On AWS a finalization is a distributed computation of an API
request, a queue, a Step Functions execution, a Batch container, callbacks, a
cancel request and a scheduled sweep, which agree on one record in DynamoDB;
locally the same session lives in a file that processes share.  Around it stand
a web client in several tabs, a verifier, and a deployment authority that
publishes images, plans and checkpoints in a protected bucket.

This directory models these parts, checks them with TLC on small instances and
proves the session stores, the asynchronous finalization, the receipt board, the
verification runs, the deployment records, the bucket audit, the image and the
operations ledger and the supervision of host processes with TLAPS.

## Inventory

| Component | State it keeps | Operations | What makes it correct |
|---|---|---|---|
| Transition policy (`finalization-transition-policy.ts`) | none, pure | evaluate a command against the current record | terminal states sticky, times in order, another id never replaced |
| Lifecycle store (`dynamoSessionStore.ts`, transition coordinator) | pointer to the current finalization, record per id, both with a revision and a TTL | load, conditional transaction, reload and retry, commit of a success | equivalent to applying the policy atomically |
| Finalize request, dispatcher, state machine, container, writer, cancel, sweep | their own progress, messages, execution | queue, publish, start, prove, call back, stop, observe | one attempt per session, input before work, a success is the one proved, every attempt gets an outcome |
| Vote store, submissions, bots (`session-mutation-policy.ts`, `botVoter.ts`) | voting item, one item per vote | admit, append the user's vote, append bot votes, answer | one consistent, append-only ballot; complete before it is finalized; true receipts |
| Success commit and receipt board (`successful-finalization-transaction.ts`) | counter, receipts, bitmap, verification and metadata items | prepare, commit, replay, merge metadata | dense unique indexes; evidence follows the record; no metadata lost |
| Verification runs (`verificationRun.ts`, `verification-worker`) | verification item with a revision, messages | start, publish, mark, run, complete, roll back | results come from the verifier; work is never forgotten |
| Verification engine (`packages/verification`) | none, pure | assemble the resource, evaluate checks, present | says verified only when justified; never contradicts itself |
| Session creation, rate limits (`create-session.ts`, `rateLimit.ts`) | sessions, event windows, counters, buckets | count and create, consume, check and record | limits hold, requests are answered |
| Bulletin board, Merkle trees (`packages/merkle`, `ctSessionState.ts`) | leaves, history of roots, caches | append, prove, verify, page, restore | proofs verify exactly what they claim, in both languages |
| Bitmap proofs (`bitmap-core.ts`) | none, pure | commit, prove, verify a bit | the voter is told what the guest did |
| Guest tally (`zkvm/methods/guest`, `contract-core`) | none, pure | validate, count, exclude, commit | the journal is the tally of the log |
| Local host process (`host-process.ts`, `executor.ts`) | process group, timers, files | start, limit, stop, collect | results and reports of termination are true; everything ends |
| File store, synchronous finalization (`fileMockSessionStore.ts`, `finalize-sync.ts`) | `sessions.json`, lock directory, memory of each process | every session mutation under the lock | answered is stored; what is loaded is whole |
| Verifier service and its client | report file, exit code | load, verify, write, read | a status is the caller's own |
| Bundle delivery (`artifacts.ts`, `local-artifact-reader.ts`, `bundle-restore.ts`) | directory, archive, S3 objects | write, archive, upload, range download, restore | one representation, public members only, consistent restore |
| Web client (`session/client.ts`, pages, pollers) | session and knowledge records in local storage, page state per tab | create, vote, follow, verify, reset | records of one session never mix; openings are replayed; verdicts are the server's |
| Root deployment (`mutation-owner.js`, `root-checkpoint.js`, `source-path-build-authority.js`) | plan packages, owner claims, start records, checkpoints | plan, approve, claim, apply, deploy, smoke, accept | claims and acceptances in one order; every mutation admitted and run once |
| Authority bucket policy | bucket policy | audit | what the audit accepts protects history |
| Image ledger and release selection | candidates, promotions | build, reuse, promote, select, prepare a signature | no promotion overlooked; a release is of one piece and signed |
| App status | public status, alarms | deliver an acceptance | follows acceptances, never lags without an alarm |
| Plan review, drift, impact | none, pure | summarize a plan, admit a report | nothing a plan does is hidden |
| Image signature verifier and its assets | asset directory, package, workspace, result file | install, package, verify | verified only with pinned tools and a real signature; answered in time |
| Operations ledger (`semaphore-janitor`) | log stream | admit, record, query | holds every fit event and nothing else |

Between any two requests to DynamoDB, S3, SQS, Step Functions, the file system
or another process, others may run, an invocation may die, a response may be
lost and an item may expire.  Messages and callbacks come late and more than
once.  `PROJECT.json` lists these hazards at their lines with the properties
that would show each of them going wrong.

## Modules

Faulty variants (operators whose comment says so) stand before the definition
they deviate from; the `mutants` of `PROJECT.json` put them in its place, and
TLC then finds the property violated.  `MC*` are the instances (a module that needs
no definitions of its own for TLC is a run itself, like `RootDeployment`), `*_proofs`
the proofs; `FinalizationPolicy_proofs` holds the lemmas on the policy that the proofs
of the store and of the asynchronous finalization share, and `Supporting_proofs` the
proofs about `AuthorityBucket`, `ImageLedger`, `HostProcess`, `OpsLedger`, `AppStatus`,
`SignatureVerifier`, `BundleDelivery` and `RequestAdmission`, each instantiated with
constants and variables of its own.

### Finalization

`FinalizationPolicy` is the pure policy: records, commands, admission of a
command and the four outcomes (invalid, rejected, idempotent, applied).  A
record keeps id, status, the three times, the error code and the scenario
context.  The result of a success travels with the status `succeeded` and with
no other, so the status stands for it.

`FinalizationLifecycle` is the abstract specification: one variable, the
current record; a step applies an admitted command or forgets the record.

`FinalizationStore` is the DynamoDB store below it.  `pointer` and `item` are
the `FINALIZATION_CURRENT` and `FINALIZATION` items with their revisions,
`session` and `votingRev` what the TTL plan of a finalization write reads and
conditions on, `client` the local state of each call.  A call takes one step
per request: `ReadPointer`, `ReadRecord`, `ReadTtl`, `Write`.  `AfterLoad` is
what the caller does with the authority it has loaded: the coordinator
evaluates the policy (`AfterTransitionLoad`), compares its write after a failed
condition (`AfterReload`), the success callback prepares its commit
(`AfterPrepareLoad`) and commits (`AfterCommitLoad`).  `WriteLost` commits and
loses the response, `RequestError` fails any request, `TouchSession` is a vote
write or an activity touch by another request.  Expiry is separate from physical
deletion: an expired pointer is absent to readers and present to conditions.

`AsyncFinalization` composes the processes around the record.  A command on the
record is one step (`After`), which the refinement theorem of the store
justifies; a store call that fails is a `Fault`, an invocation that dies is a
process that stops.  Each `Fault` may have taken effect or not.  One clock
`now` gives every time stamp.  A callback that throws is delivered again only when
the Lambda service or the reading of the bundle failed (`callback_delivery_retry`); a
failed access to the session table, or the last retry failing, ends the execution as
`CallbackDeliveryFailed` and leaves the record to the sweep (`Throws`).  A bundle that
cannot be restored at all fails the finalization although its job succeeded
(`writeFailure`).

`SuccessfulCommit` opens the commit of a success: record, pointer, receipt and
board counter, bitmap, verification result, runtime and delivery metadata, each
read by its own request, written by one transaction with a condition per item.
`Merges` are report publications that update the metadata items meanwhile.

### Votes, sessions and limits

`SessionVoting` is one session's ballot and the requests on it.  `voting` is the
`SESSION_VOTING` item, `votes` the vote items of the other table, `current` the
finalization pointer.  A root of the history commits to the votes below it, so
`voting.log` is that sequence of votes and a restore compares it with the items.
A submission goes through the stages `validate` (middleware and
`prepareUserVoteSubmission`), `limit`, `addVote`, `bots`
(`appendRemainingBotVotes`), `addBots` and `receipt`; a finalize request through
`validate` and `queue`.  A stage that loads takes one step per read, in any order
that `Promise.all` allows (`Needs`, `Before`); `AfterLoad` is what the code does
with the last answer, and `PersistVotes` the transaction.  A vote carries the
request that generated its id and its opening (choice and randomness), which is
what a replay is recognised by; generated ids are unique, so `DUPLICATE_VOTE`
cannot occur.  `markFinalizationQueued` is one step, as in `AsyncFinalization`.

`RequestAdmission` is the chain of admissions of a route: challenge token, rate
limits (event windows and counters in DynamoDB, fixed-window buckets in memory),
session capacity, the work, and the recording after it.  `clock` moves between
any two steps, so windows slide under a request.  Denied attempts to consume are
recorded too, as in the code: a client may follow `Retry-After` and be denied
again.

`LocalStore` holds the families of the file store as values, their mutations, the
snapshot and its admission; `LocalSession` the processes, the lock directory, the
file, each process's memory and the requests, `finalizeSync` among them.

### Verification

`VerificationRun` is one finalization's verification item, the requests that
start runs, the messages and the worker, or the local profile where a request
verifies itself.  `VerificationVerdict` computes, for an election with its
evidence, what the API assembles, the checks, their summary, the presentation
policy and the page's overlay.  Evidence is a record of which pieces agree.
`VerifierService` is the verifier process and the client that started it, with
one report file for all invocations.  In `VerificationRun` a start that was refused
for the last time reads the item again and answers `running` if another request has
started it (`rereadStart`).  `BundleDelivery` is the bundle directory,
its archive, the S3 objects, a ranged download and a restore.

### Trees, tally, host

`MerkleTree` defines RFC 6962 trees over free constructors, generators and
verifiers of inclusion and consistency proofs in both languages (recursive, for
TLC); `BulletinBoard` the board with its caches, history, pages and tree heads,
and a second log it may show; `BitmapProof` the chunked bitmap trees.
`GuestTally` is the input builder, both preflights, the guest, the host's
bitmaps, the mock executor and the admission of the journal.  `HostProcess` is
the local execution: its process group, causes of termination, timers, pipes,
files and the server's shutdown.

### Web client

`ClientStorage` holds the record, knowledge and opening that tabs share and the
functions that read and replace them; `ClientSession` the pages of several tabs
with their requests and timers; `ClientVerification` the verification page, its
pollers and sequence.  An event handler between two awaits is one step.  A
session's identity is its id; session time is abstracted (a record may expire at
any step).

### Deployment

`RootDeployment` is one Terraform root: executions that plan, are approved,
claim the root, apply, deploy the frontend, smoke and accept, the builds that
run these actions, and the objects they leave.  `AuthorityBucket` evaluates
bucket policies near the Terraform's against every request; an object belongs to a
family with a named publisher (plan packages and the checkpoint) or to one that the
audit names no publisher for (approvals), and `OneWriter` is about the first.  `ImageLedger` is
the Toolchain and Prover lanes and an App's selection.  `AppStatus` is the
delivery of an acceptance to the public status.  `PlanReview` is the review of a
saved plan, the drift report, the impact on Foundation and the initial
construction.  `AssetFiles` are the asset directories and their validations,
`AssetInstall` the installer and the packager, `SignatureVerifier` the
verification in the Lambda and on the command line.  `OpsLedger` is the event
rules, the Lambda with its retries and the saved queries.

## Runs

The lifecycle store and the root deployment have a run of their own.  Components
that share no state with one another are checked by a *suite* (`MCAsyncFinalization`,
`MCServer`, `MCProofs`, `MCClient`, `MCDeployment`, `MCProgress`) that instantiates several of them: `part` is chosen in
the initial state and never changes, the part it names moves, and the others
stand still.  The reachable states of a suite are the union of those of its
parts, so a property `part = "x" => P` says of part x what a run of its own would
say, and a part that is never taken would show up as an action that never fires.
A property of a suite is the conjunction of the named properties of its parts'
modules; each is stated and commented in its module.

| Run | Instance | Shows |
|---|---|---|
| `finalization_store` | 4 calls, 2 ids, all commands of an attempt and a second attempt, 1 stale retry, 2 commit attempts, 1 touch of the session | Records and pointer agree and are in order (`RecordsSound`), no call writes from an authority that was replaced (`NoStaleAuthority`), the store implements `FinalizationLifecycle`, outcomes stick, and what a caller was told stays true (`AnswersHold`), with lost responses, request errors, expiry and deletion. |
| `async_finalization` | suite of 6 parts; 2 requests, 2 dispatchers, 1 fault, late containers | One attempt, one execution and one container whose input was there first (`AttemptIsOne`); a recorded success was proved by its own execution (`SuccessIsTrue`); no proof starts once an outcome is recorded and late answers change nothing (`OutcomeEndsWork`).  Local host processes end, and reports of their end are true (`HostEndsClean`).  A session in a file that processes share: answered is stored, loaded is whole (`FileStoreSound`). |
| `root_deployment` | 2 executions, 2 sources, 4 builds, 2 faults | Two executions of one root that overlap in every way, with failed, abandoned, retried and hand-started builds: claims and acceptances stay in one order and nothing is deployed that was not admitted. |
| `server` | suite of 9 parts; 2 submissions, 1 finalize request, 2 openings, 2 bots, 1 fault, 1 touch | The stored ballot restores and is bounded (`BallotSound`), receipts and refusals are true (`AnswersTrue`), the prover's input is the ballot (`InputIsBallot`), retries suffice (`RetriesSuffice`), and no write takes a vote away (`BallotAppendOnly`); `CommitsSound`, `RunsSound`, `LimitsHold`. |
| `proofs` | suite of 9 parts | `BulletinProofsSound`, `BitmapsTrue`, `TallyIsTrue`, `VerdictIsJust` |
| `client` | suite of 8 parts | `TabsKeepApart`, `VerificationShownIsTrue`, `VerifierAnswersAreOwn`, `BundlesAreWhole` |
| `deployment` | suite of 10 parts | `BucketProtects`, `LedgerCoherent`, `StatusFollows`, `ReviewIsComplete`, `AssetsArePinned`, `SignatureIsJustified`, `LedgerIsTrue` |
| `progress` | suite of 10 parts, fair | `RequestsReturn`, `WorkEnds`, `UsersAreTold` |
| `finalization_torn_read` | 3 calls | violated: a call that reads the pointer before, and the record after, another call's write reports a valid record as invalid. |
| `async_late_container` | late containers, fair | violated: a container that starts after its execution closed records a start time later than the stop time, after which no sweep can record the outcome. |
| `vote_convergence` | 2 submissions of one opening, the code's retry limits, no fault | violated: two submissions of one opening and nothing else: one that reads the voting item before, and the vote items after, the other's write fails instead of converging to the receipt. |
| `foundation_impact` | the part `review` of `MCDeployment` | violated: the review of a plan that changes the request-shape guardrail policy, which Foundation depends on by its exact address, does not name it. |

The parts of the suites:

| Suite | Part | Instance |
|---|---|---|
| async_finalization | attempt | `AsyncFinalization`, the instance of the table above |
| | host | `HostProcess`: 2 executions and a shutdown |
| | file voting, file finalize, file lifecycle, file edited | `LocalSession`: 2 processes on one file: votes and sweeps with a crash; real finalizations; the lifecycle commands; edits by hand |
| server | ballot | `SessionVoting`, the instance of the table above |
| | board | `SuccessfulCommit`: 2 sessions, 3 synchronous commits, one of them a retry, racing for the board counter while verifications replace results |
| | metadata | `SuccessfulCommit`: a repeated prover callback, one of a second execution, and a report merged meanwhile |
| | queued, in request | `VerificationRun`: 2 requests with the worker's queue and 1 fault; 2 requests that verify themselves and 2 faults |
| | executions, votes, capacity, memory | `RequestAdmission`: one limit at a time is the one that binds |
| proofs | tree, fork, paths, pages, heads | `BulletinBoard`: up to 6 votes; a second log; damaged audit paths; pages of 2; 3 auditors |
| | chunks, levels | `BitmapProof`: every pair of bitmaps of up to 4 bits, in chunks of 2 and of 1 |
| | guest | `GuestTally`: every input of up to 3 records over logs of up to 2 commitments and one too long |
| | verdict | `VerificationVerdict`: every election of two cast votes, one of them the voter's, with each piece of evidence disagreeing |
| client | page, faulty page | `ClientVerification`: 2 sessions and 2 mounts of a page whose runs succeed; 2 sessions, 1 mount, a fault, and runs that may fail |
| | reset, tabs, reload, shared | `ClientSession`: 2 tabs one of which is reset; 2 tabs and a fault; 1 tab that loads every page by its address, loses an answer and finalizes twice; 2 tabs in one session, which both vote, or one of which asks for the result the other awaits |
| | service | `VerifierService`: 2 invocations, 2 images, 1 republication |
| | delivery | `BundleDelivery`: 2 publications with none, one or all optional members, a bundle larger than a range and than an inline answer |
| deployment | bucket | `AuthorityBucket`: every policy within 2 edits of the Terraform's |
| | ledger | `ImageLedger`: 2 Toolchain, 2 Prover, 1 App execution |
| | status | `AppStatus`: 2 executions, each delivered up to twice |
| | review | `PlanReview`: the plans of `AllPlans`, limits of 1 and 2 |
| | installation, packaging | `AssetInstall`: 2 installers; 2 packagers; flawed manifests, 2 faults |
| | lambda, cli | `SignatureVerifier`: one execution with a retry and 2 faults; 2 preparations with one output file |
| | ops, ops order | `OpsLedger`: every type and state by 2 deliveries; one execution's events in any order by 3 |
| progress | attempt, store, commit, run, admission, local, host, status, tab, signature | one small instance each of `AsyncFinalization`, `FinalizationStore` (with the code's own retry limits), `SuccessfulCommit`, `VerificationRun`, `RequestAdmission`, `LocalSession`, `HostProcess`, `AppStatus`, `ClientSession`, `SignatureVerifier` |

### Bounds

Four calls of the store are a writer, one that overtakes it, one that overtakes
the retry and one that ends the attempt otherwise; two ids are the current and
another finalization.  The session is touched only while two of the calls have not
been made (`CallsOrTouch`): the touch is one write that any later call meets.
`MaxTouches` bounds writes of the voting item, `MaxFaults`
failed or lost operations and crashes, `MaxEdits` edits by hand, `Horizon`,
`MaxClock` and `MaxTime` time.  After `Horizon` time passes only when nothing
runs that would take a new time stamp.  `Grace` and `Deadline` are one tick each:
the code compares times only with these two distances.  `MaxReceives` 2 and
`MaxRetries` 1 are the smallest that redeliver and retry.  In `server` two
submissions are twins or rivals by their openings, and two bots make a batch that
is neither empty nor a single vote; the retry limits are one below the code's, so
that giving up is reachable by fewer conflicts.

Two actors on each shared object show every overtaking; three where one must be
overtaken twice (votes, capacity, file finalize).  Rate limits, caps, buckets,
page and chunk sizes are 1 to 3 so that the instance reaches them and their
neighbours.  Trees of six leaves have every shape of a split with an odd
node at either level.  `GuestTally` enumerates every input of up to three records over
the kinds of error the guest tells apart, a wrong audit path for one choice only; its limits lie inside that range, so
both sides of each are met.  `VerificationVerdict` enumerates each piece of
evidence disagreeing alone: with two disagreements at once some check has failed
already.  The bucket audit needs two edits to weaken one statement and repair its
appearance by another; an added Allow has no condition, since one with a condition grants less.  Where commitments are interchangeable the board takes
them in one order (`InOrder`).

Deadlock is not checked: every instance may stop after its last request, and
`progress` says what must happen before that.

### Fairness

`MCProgress` states it for the part that runs, as the modules' own `FairSpec` or
`Fairness` do.  A call that is not killed takes its next step (store, commit,
admission, local, signature).  In `AsyncFinalization` the queue delivers and
dispatchers end, states of the execution have timeouts, callback invocations end,
the sweep is scheduled every minute and time passes; nothing is assumed of
finalize and cancel requests, which may die, nor of Batch capacity or containers.
In `VerificationRun` requests go on or die and the queue delivers until its
limit.  In `HostProcess` the supervisor's timers fire and nothing is assumed of
the processes.  In `AppStatus` an event is delivered or dead-lettered and a build
goes on or breaks.  In `ClientSession` timers fire, answers arrive, the server
goes on with its work and answers a client that keeps asking (strong fairness of
`Serve`: the network is not down for ever); the answers' own fairness is written
as a disjunction because `ReceivePoll` is enabled exactly while an answer has
arrived.

### Assumptions

*Sessions.*  DynamoDB deletes expired items long after expiry, when no call
that read them is running (`Drained`; the same for rate events).  All clocks are
one clock.  In `AsyncFinalization` nothing expires: the artifact TTL of two hours
exceeds the deadlines of an execution.  `LateContainers` says whether a container
of a job that is being terminated may still start after its execution has closed;
`AttemptEnds` is checked without it (part attempt), the finding shows what happens with it,
and the safety properties are checked with it.  In `SessionVoting` the query of
the vote items is one read (64 small items fit a page, and a query that saw part
of a transaction would end as one that saw all of it: the restore fails); the TTL
of identity, voting item and vote items, which every write raises together, is one
TTL (`voting.exp`, `live`); an activity touch happens only after a verification
write, since the middleware validates with `updateActivity: false`.

*Cryptography.*  Hashes are free constructors: equal only for equal arguments.
Proving and STARK verification are outcomes.

*Processes.*  A signal has no state of its own; a spawn that failed may have no
`close` event; an execution reported as unconfirmed before a shutdown is not
waited for by it.  The verifier's client sets no timeout for its process, and the
capture of its standard error is left out.

*Deployment.*  Pipelines, CodeBuild, Terraform, S3's conditional writes and IAM's
evaluation of Deny are external.  Executions of a root overlap although the
pipeline is `QUEUED`, because the package itself does not rely on the queue.
Terraform refuses a saved plan whose state serial has moved.  The pointer
resources of the bucket policy contain the immutable ones.  The adapters that
assemble image records, the callers of `assertProverImageContract` and
`prepare-app-signature.mjs` are not in the repository, so their inputs are
arbitrary.  Clocks of status builds are arbitrary.

*Signatures.*  Contents stand for their sha256; the five licence files are one;
an asset directory does not change while a verification runs from it; notation
succeeds exactly for a readable image with a valid signature of the invocation's
profile; validation of assets and creation of the workspace fall into the margin
of five seconds.  *Operations ledger.*  Resuming an execution takes longer than
the second to which event times are rounded; fewer requests fail than an event
has attempts (`MaxFaults < MaxAttempts`).

## What the models say about the code

These follow from the models and are not stated by a property; a maintainer will
want to know them.

- *Verification.*  A report whose image differs from the finalization's, or
  exclusions in S0 that the scenario does not account for, make the resource's
  own schema refuse it: the caller gets HTTP 500.  A served tree head carries
  `session.lastActivity`, not the time its digest binds.
- *Tally.*  Two inputs with one input commitment may have different tallies when
  records of one index differ only in their witness.
- *File store.*  A snapshot that was refused is replaced by the next
  `createSession`.  A lock left by a crash stops every write until it is removed
  by hand.  The loser of two synchronous finalizations is told an error after its
  bundle publication was recorded.  `rollbackVerificationResult` without a
  previous snapshot deletes even a terminal result.
- *Verifier.*  A receipt with a malformed image id in its metadata gives a report
  that the client refuses; an expected image id in another spelling is verified
  and its report refused.
- *Bundles.*  Uploading the same contents again gives a new version, and a
  running download is abandoned.  A bitmap of an earlier run may be uploaded and
  is never restored.
- *Web client.*  A reset or the home page in any tab drops the shared knowledge
  and session, whosever they are.  The footer makes a tab without a session lock
  adopt the stored one.  A stored success can be lost: a late `failed` answer of a
  restore, or the result page of another tab of the session that was answered before
  the success, clears it.  `SuccessKept` allows exactly that, and says that the tab
  which does it shows a failure and the server still has the result, so that a reload
  brings it back; it is checked with two attempts (reload) and with two tabs in one
  session (shared).  A save that throws leaves the phase that a poll or a restore has
  set, and fails the page during a submit.  A poll answered without a finalization is
  the last one of its phase.  A cancelled poller publishes
  its last snapshot; a network error in the sequence's own fetch ends it as
  failed; `INVALID_FINALIZATION_ARTIFACT` is HTTP 500 and so retried.
- *Deployment.*  An overtaken Smoke may publish between its last look at the owner
  and the conditional write of its checkpoint; the orders still agree, and the
  overtaker must plan again.  A checkpoint accepted by an execution that then
  fails is neither shown nor alarmed; a retried Smoke makes every status build
  refuse, which is alarmed.  The selected promotions need not have been current
  at one moment.  The packager does not compare executables with the manifest's
  pins; the runtime does.  A construction summary may leave out addresses beyond
  1000 without a refusal.
- *Operations ledger.*  The rule for Batch admits any tag with the prefix `dep_`
  and the handler only 32 hexadecimal digits: other events are dropped after the
  attempts.

## Proofs

For every set of ids, scenarios, codes, calls and commands and every retry
limit, `FinalizationStore_proofs` proves `Typing`, `OneHistory` (from
`PointerRecordAgreement` and `Chronology`), `FreshAuthority`, `Refinement`,
`StickyOutcome` and `ToldIsKept`, from the named assumptions on the constants (`PolicyConstants`,
`StoreConstants`).

The inductive invariant is
`TypeOK /\ PointerRecordAgree /\ ItemsOwned /\ NoStaleAuthority`.  Agreement
alone is not inductive: a write is safe only because what its call has loaded
is either still stored or behind the revision that the condition compares.
`NoStaleAuthority` says that for each call in flight: the pointer it read still
names the current finalization (`Anchored`), its command applies to the record
it loaded, and equal revisions mean equal records (`LoadedAuthority`).  For a
commit it also remembers that the record was prepared from this finalization
(`PreparedCommit`), so that the unconditional create of a commit without a
current record can never take effect.  Refinement follows: a successful write
has the revision it loaded, hence applies its command to the record then
current; every other step leaves the record or forgets it.

`ToldIsKept` needs a second invariant, `AInv`, because the first one says nothing
about answers already given: an outcome told to a caller would not be final if a
finalization whose record was deleted could be queued again.  `AInv` says that an
id is queued by one call at most, that an id which the table or an answer names is
queued by no call in flight any more (`Known`), and what a call has been told
(`AnswerOK`); a reload keeps the record that was to be written, so that finding it
means that the command was applied.

For every number of requests, dispatchers, faults and sweeps and every deadline,
`AsyncFinalization_proofs` proves `OneAttemptOnly` (`AttemptIsOne`), `SuccessProved`
(`SuccessIsTrue`) and the action property `WorkEndsWithOutcome` (`OutcomeEndsWork`),
from `PolicyConstants` and `AsyncConstants`.  None of them is inductive: the record
is written by callbacks, cancels and sweeps that read it, or were started, many
steps before.  `IInv` has four layers:

- `Typed`: types, and what a program counter says about what its actor holds;
- `Attempt`: the record is that of a request which prepared it, and requests,
  messages, executions and inputs of an accepted attempt are those of the current
  record, so that a redelivered message meets the execution of its own name;
- `Order`: callback and job times lie between the queueing and now, and a record
  that runs or has succeeded has the start time of its container.  A failure is
  admitted only because its time is not before the queueing, and a success only
  because the start time it carries is the one recorded;
- `Outcome`: a success is recorded only for an execution whose container proved, and
  what a cancel has read is current until an outcome is recorded, so that a
  cancelled attempt has no work that could go on.

There is one lemma per actor (`QueueKeeps`, `RequestKeeps`, `DispatchKeeps`,
`DeadLetterKeeps`, `AdvanceKeeps`, `ContainerKeeps`, `CallbackKeeps`, `CancelKeeps`,
`SweepKeeps`); `WorkEndsWithOutcome` follows from the invariant and the guards of the
two steps that start work.

For every set of sessions, commits and merges, whatever they carry, and any number
of attempts, `SuccessfulCommit_proofs` proves `BoardIsDense` (`BoardDense`,
`EvidenceFollowsRecord`), `AnswersAreStored` (`ToldIsStored`,
`PrematureMeansOvertaken`), `PublicationsStay` (`PublicationImmutable`),
`MetadataStays` (`MetadataKept`) and `ContentionReal` (`ContentionIsReal`).  Their
hypothesis is `CommitConstants`, which the instances of `MCServer` are assumed, and
so evaluated, to satisfy.  Three invariants build on one another:

- `Inv`: the record that a commit has read is the stored one or is behind it, what
  it saw of receipt, bitmap and verification belongs to a stored success, and it
  writes only after it saw an unfinished record without a receipt (`Good`).  A
  transaction whose conditions hold therefore publishes for the first time, at the
  next place of the board (`WriteIsFirst`), although the counter was read before
  other sessions moved it;
- `MetaInv`: along the revisions of a metadata item fields are only added or
  patched (`After`), and what a commit or a merge has read is stored or behind, so
  that an item rewritten whole at an equal revision loses nothing.  Bundle fields
  reach the runtime item with the commit only, which is why the delivery item has
  them once the commit has been told;
- `CountInv`: a commit has seen at least as many writes as there were when it began,
  and one more for each attempt.  A condition fails only if one of the items was
  written after it was read (`Overtaken`), and the next attempt sees that write.

For every number of requests, attempts, deliveries and faults, and for work queued
or done in the request, `VerificationRun_proofs` proves `ResultsAreVerified`
(`ResultWasVerified`), `WorkIsNotForgotten` (`RunningIsResumable`) and the action
property `ResultsStay` (`StickyUnlessRolledBack`), from `RunConstants`, which the
instances of `MCServer` are assumed to satisfy.  The invariant `Inv` says that

- a result that is stored, or that a worker carries to the store, is justified by a
  verdict or by deliveries used up; this survives rollbacks, since a snapshot never
  holds a result;
- until a rollback, the item a process has loaded is stored or behind the stored
  revision, so that a condition on an equal revision speaks of the same item, and
  terminal items fail the check that each attempt makes (`Good`, `Written`);
- until a rollback, the snapshot is there exactly while the record runs (`Fresh`);
  the marker is set only after a message was sent, and a deleted message has left a
  result (`Queues`).

A start, a completion and a rollback are the only writes (`StepWrites`); every other
step is covered by the lemmas that a step of one process leaves the others good
(`GoodKept`, `QueueKept`).

For every number of submissions, finalize requests, openings and bots and every
retry limit, `SessionVoting_proofs` proves `TypeCorrect`, `OneBallot` (from
`VotesAlwaysRestore` and `BallotNeverOverflows`), `AnswersStayTrue` (from
`ReceiptsHold` and `RefusalsAreJust`), `FinalizationInputIsBallot` and the action
property `BallotOnlyGrows`, from `VotingConstants`.  The properties are not inductive: a write is safe only because
of what its request read several steps ago.  The invariant `Inv` adds for each
request (`Good`) that the voting item it read restores to a record, is a prefix of
the stored ballot and equals the stored item if the revisions are equal
(`Behind`); that a prepared write passed the policy on that item (`Admitted`);
that the batch of `addBots` still reaches `BOT_COUNT` on the item it was computed
from and on the stored one, so that a batch which fits fills the ballot exactly;
and that `receipt` is entered with a complete ballot.  `GoodKept` shows that a
table that only appends keeps all of this for the requests that do not move,
`PersistAppends` that a write whose conditions hold appends.

For every set of executions, sources and images and any number of builds and
faults, `RootDeployment_proofs` proves `RecordsTyped`, `ClaimsAreKept`,
`AcceptanceInOrder`, `CheckpointsGrow` and `RecordsAreReal` (from `MutationsOnce`
and `AcceptedDeployed`), from `RootConstants`.  `RootInv` comes in layers, each proved with the ones
before it:

- types, and what a stage of an execution says about its package and approval
  (`Types`, `Staged`);
- the claims (`Owned`): a package froze the owner its plan saw, a claim is written
  only over that owner, so the claims of the root are a sequence in which each
  names the one before it and no execution occurs twice;
- the order (`Ordered`): what a plan saw of the checkpoint was accepted by an
  execution that claimed earlier, and a checkpoint is written only over what the
  plan saw, so acceptances are a subsequence of the claims;
- the mutations (`Mutated`): the start record of an action is unique, so an action
  is run by one admitted build at most, a count of applications goes from 0 to 1,
  and a native action that reports success has run; an acceptance needs both.

`Supporting_proofs` proves eight components that share no state:

- `AuditProtects`: `ImmutableWrittenOnce`, `PointersAreSwapped`, `HistoryIsKept` and
  `OneWriter` of the bucket audit, for every policy whatever, where TLC tries those
  within two edits of the Terraform's.  No induction is needed: from the acceptance
  follows, condition by condition, a statement of the policy that denies the request
  (`WritesDenied`, `PublisherDenied`, `RetiredDenied`, `DeletionsDenied`).
- `LedgerStaysCoherent` (`NoPromotionOverlooked`, `ProvenanceResolves`,
  `ToldPromotedIsRecorded`, `AuthorityIsCoherent`, `AuthorityIsSigned`) and
  `LedgerTypeCorrect` of the image ledger, from `LedgerConstants`, and finitely many
  executions for the second, which counts them.  `LInv` says that a candidate names
  its own build and a Toolchain version that holds its base; that a version was
  published by an execution that has ended and had read the version before it, so
  that versions and executions are one to one; and that what an App selected is a
  version of the history.  Candidates, versions and ended executions are never taken
  back (`LGrowth`), which keeps all of this for the executions that do not move
  (`LKept`).
- `HostsAreSupervised` (`SuccessIsWhole`, `ResultWasWritten`, `CompleteIsGone`,
  `NothingLeftOnDisk`, `ShutdownLeavesNone`) and the action property
  `FirstCauseIsKept` of the host processes, for any number of executions and exit
  codes among `zero`, `nonzero` and `signal`.  `HGood` relates for each execution the
  group, the timer, the cause and the result: the deadline runs only while there is
  no cause, a complete cleanup has no group, and the executor goes on only when the
  run is settled or never had a host.  `HInv` adds that after a shutdown the live
  executions are those it waits for.
- `LedgerRecordsEvents` (`ToldRecordedIsStored`, `RecordedIsTrue`, `DroppedIsUnfit`)
  of the operations ledger, from `OpsLedgerConstants` and a `None` that is no record
  and no id.  Rules and handler agree on every event but the unfit ones
  (`RulesAgree`), and `OCall` counts: the attempts that a fit event has used are no
  more than the faults so far, so that it is never dropped.
- `StatusIsAcceptance` (`StatusFollowsAcceptance`, `PublishedOnce`, `LagIsAlarmed`) and
  the action property `DatesMoveForward` of the App's public status, from
  `AppStatusConstants`.  `SHistory` says that an execution is accepted once, and that
  statuses are checkpoints of successful executions in the order of their acceptance
  (dates of checkpoints need not be: clocks disagree).  `SGood` says what a delivery
  may rely on although others publish between its reads: what it compared is older
  than its own checkpoint as long as the status it read is still the last one, which
  is what its conditional write asks; and a delivery that is done has its execution
  shown as long as that execution is the current one.
- `VerificationIsJustified` (`VerifiedIsJustified`, `SigningReasonIsSeen`,
  `AnsweredInTime`, `NoWorkspaceLeft`, `WrittenIsOwn`) of the image's signature, for any
  configurations, asset directories, requests and statuses, from `VConstants`: times are
  natural numbers, a status is a list of entries, and `None` is no answer.  `VGood`
  follows a verification step by step: past the poll the status it saw was one complete
  entry of its own profile, past the assets they are the pinned ones (`VAdmitted`, which
  needs that the record is compared with the manifest's digests and the files with the
  record), and at every attempt the time of the attempts, delays and the notation process
  still to come fits before the deadline (`VTimely`, `VOneLess`).
- `DeliveryIsWhole` (`SavedIsOneRepresentation`, `DeliveredIsPublic`,
  `UndisturbedIsSaved`, `RestoredIsConsistent`, `PublishedIsWhole`) of the bundle, from
  `DeliveryConstants`.  `BInv` says that every object of the bucket was inspected and that
  the publisher's later steps are about the archive it inspected (`BStore`); that a read
  is pinned to the version or the contents its head request saw, and that an answer with
  bytes is of one fit archive and states its size (`BAsked`); that the pieces a browser
  holds follow each other from 0 in one archive (`BGot`); and what the request of an
  undisturbed download is, phase by phase (`BUndisturbed`, `BPending`), for which
  `BWithin` shows that the chunk a browser asks for is never cut by the server's limit.
- `SharedLimitHolds` (`ConsumeLimitHolds`) and the action property
  `CapacityIsPassedByRaces` (`OnlyRacesExceedCapacity`) of the admission of requests, from
  `AdmissionConstants` and finitely many requests.  `QKept` says that whoever counts has
  its own event in the store and that the event of every grant stays there until it can be
  in the window of no request that is counting or will count (DynamoDB deletes an event
  well after its window, which `EventExpires` takes for granted); so the request that
  counts last sees the events of all grants of a window.  `QCounted` says that the count of a
  scan which nobody overtook covers the active sessions it has looked at, and that a
  request about to create one has seen fewer than the cap.

Only model-checked: liveness, `RetriesSuffice` (which
depends on how often others write, `MaxTouches`), `ConflictIsReal` of
`SuccessfulCommit` (a field may be patched to another value and back, so it holds of
the instance's patches and not of all), `PublishersCanWrite` of the bucket audit (it is
about the policies of the instance), the queries of the operations ledger
(`TerminalIsLast`, `LeadTimeIsTrue`, which filter sequences), `MemoryLimitHolds` and
`AnsweredIsCounted` of `RequestAdmission` (sums over buckets and counters) and every
property of the modules without proofs.  The prover has no fairness or `ENABLED`
reasoning, and what the recursive definitions of `MerkleTree`, `BitmapProof` and `GuestTally` compute is an
induction over data it cannot do.

## Findings

With a run that shows them:

1. A load reads the pointer and the record by two requests.  A transaction
   committed in between yields `Invalid current finalization record` with no
   reload, although the stored pair is valid (`finalization_torn_read`).
2. A container that starts after its execution was stopped is admitted with a
   start time later than the stop time.  The sweep then fails with
   `invalid_timestamp` every minute and the record stays `running` until it
   expires (`async_late_container`).
3. A submission that reads the voting item before, and the vote items after, the
   write of a twin fails with `CT_PROOF_UNAVAILABLE` and does not load again; the
   contract says that concurrent requests with one opening converge to one receipt
   (`vote_convergence`).  The vote is stored; sending it again is a replay.
4. The review classifies the impact on Foundation from addresses whose instance
   key was redacted, so the one address that is listed with its key,
   `aws_iam_policy.terraform_drift_coordinator_guardrail["requestShape"]`, is never
   found (`foundation_impact`), although a test of the classification says that it is
   included.  `ReviewIsComplete` holds with and without this: it asks that every
   change Foundation depends on by name is in the impact and nothing else than what
   Foundation depends on, by name or by exact address.

The modules also reach these, and the properties are stated so as to allow them:

5. A rollback without a previous result deletes the verification item and its
   revision with it.  A start that read the deleted item overwrites a result
   stored since (`StickyUnlessRolledBack` of `VerificationRun`).  If that start
   dies before it publishes, the item runs behind the marker of a request between,
   and nothing will resume it: three requests and two faults, found when
   `RunningIsResumable` was to be proved without its condition on rollbacks.
6. A request that finds the item running without the queued marker publishes new
   work and is answered `idempotent=true`, which the contract calls "no new
   execution" (`VerificationRun`).
7. The active sessions are counted and the session created by separate requests:
   concurrent creations pass `MAX_SESSIONS` (`OnlyRacesExceedCapacity` of
   `RequestAdmission`).
8. The zkVM limit is checked before and recorded after the execution: concurrent
   finalizations of one address all execute (`RequestAdmission`).
9. Two tabs on one session that submit together store the second opening while
   the server may have recorded the first, so the replay is refused
   (`ClientSession` with `SharedTabs`; `OpeningIsReplayed` allows an opening that
   another tab stored, and no second one of the same tab).

## Not modelled

The `timed_out` branch of the sweep is unreachable: the state machine sets no
timeout for the whole execution, so Step Functions never reports `TIMED_OUT`.

- Validation of shapes without state of the protocol: API schemas, runtime
  configuration, target configurations, lane contexts, Terraform baselines,
  content manifests (`packages/deployment-authority/src/index.js`,
  `terraform-authority.js`), `admitBootstrapConstructionInputs`, the patterns and
  length limits inside modelled functions.
- Static checks of the repository and build steps (`scripts/`), which read files
  and exit; the two that publish verifier assets are in `AssetInstall`.
- The in-memory mock store, which applies the mutations of `LocalStore` in one
  process, the web mock API and test support.
- Rendering, wording, translations, logging, metrics, and the submission of
  observations by the web client.
- Cryptography: hashing, commitments, proving, STARK and signature verification.
- Inside modelled functions: a failed `unlink` of a host file, which
  `cleanupHostArtifacts` swallows (`NothingLeftOnDisk` holds where the file system
  removes what it is asked to); an upload that a local profile logs and goes on from
  (`publish-verification-artifacts.ts:54-60`, `86-93`); on what
  `prepareFinalizationInputs` fails in a synchronous finalization and with which code
  (it ends as an execution that `throws`, before the store changes); the guest's limits in bytes (`GuestTally` has the
  limits on votes and path nodes); and, of the errors that end polling for the
  verification page (`stark-verification-polling.ts:168-186`), which one it was: they
  are one answer, `missing`, after which the stored session is dropped.
- `VerificationRun` runs the in-request profile over the requests of DynamoDB, which
  interleave more finely than those of the memory and file stores that local profiles
  use (`runtimeProfile.ts:36`, `87`): what holds of it holds of coarser steps.

## Plan

1. Proofs for `AssetInstall`, and for the in-memory limiter of `RequestAdmission`.
2. A refinement of the session file (`LocalSession`) to atomic mutations, and of
   `SuccessfulCommit` to one published success per session.
3. The in-memory store's verification writes, and observations by the client.

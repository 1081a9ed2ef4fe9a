---------------------------- MODULE LocalSession ----------------------------
(***************************************************************************)
(* The file session store at work: server processes that share one         *)
(* sessions.json, each with a copy of it in memory, and the requests they  *)
(* serve, among them the synchronous finalization of                       *)
(* finalize/usecases/finalize-sync.ts.                                     *)
(*                                                                         *)
(* A mutation takes the lock directory, reloads the snapshot, changes the  *)
(* copy, writes a temporary file, renames it over the snapshot and removes *)
(* the lock directory; a process that dies leaves the directory behind.  A *)
(* reader takes no lock and reloads only when the file's signature has     *)
(* changed.  The revision of the file stands for its signature.            *)
(***************************************************************************)
EXTENDS LocalStore

CONSTANTS
    Procs,              \* server processes
    Reqs,               \* requests; a request that finalizes brings its own id
    Home,               \* the process a request is sent to
    Ops,                \* what a request may ask for
    Executor,           \* "mock" or "real"
    AllowDevMode,       \* runtimeProfile.proof.evidence = "development"
    MaxFaults,          \* bound on failed writes and crashes
    MaxEdits            \* bound on changes of the file by somebody else

VARIABLES disk, lock, mem, req, faults, edits

vars == <<disk, lock, mem, req, faults, edits>>

Lifecycle == {"queue", "start", "fail", "time_out"}

\* What an instance gives the constants.
SessionConstants ==
    /\ LocalConstants /\ Home \in [Reqs -> Procs] /\ Reqs \subseteq Fids
    /\ Executor \in {"mock", "real"} /\ AllowDevMode \in BOOLEAN
    /\ MaxFaults \in Nat /\ MaxEdits \in Nat

NoFile == [rev |-> 0, kind |-> "none", body |-> createEmptyFileStoreState]

Idle == [pc |-> "idle", op |-> "none", s |-> "none", f |-> "none", stage |-> "none",
         verdict |-> "none", bitmap |-> FALSE, after |-> createEmptyFileStoreState,
         wrote |-> FALSE, ok |-> FALSE]

Init ==
    /\ disk = NoFile
    /\ lock = "free"
    /\ mem = [p \in Procs |-> [st |-> createEmptyFileStoreState, rev |-> 0, failed |-> FALSE,
                               snaps |-> Nothing]]
    /\ req = [r \in Reqs |-> Idle]
    /\ faults = 0 /\ edits = 0

\* A session with its votes is in the file already, and no copy is stale.
Voted ==
    LET st == [createEmptyFileStoreState EXCEPT
                 !.ids = Sessions,
                 !.voting = [s \in Sessions |-> [votes |-> BotCount + 1, history |-> BotCount + 1,
                                                 bots |-> BotCount, cast |-> TRUE]],
                 !.index = Sessions \X (0 .. BotCount)]
    IN  /\ disk = [rev |-> 1, kind |-> "snapshot", body |-> serializeFileStoreState(st)]
        /\ mem = [p \in Procs |-> [st |-> st, rev |-> 1, failed |-> FALSE, snaps |-> Nothing]]
        /\ lock = "free" /\ req = [r \in Reqs |-> Idle] /\ faults = 0 /\ edits = 0

-----------------------------------------------------------------------------
\* The copy in memory.

\* The families a file holds, or none when it is refused or not there.
Admitted(d) == IF d.kind = "snapshot" THEN parseFileStoreSnapshot(d.body)
               ELSE [ok |-> d.kind = "none", st |-> createEmptyFileStoreState]

\* loadFromDisk(true)
Reloaded(p) == [mem[p] EXCEPT !.st = Admitted(disk).st, !.rev = disk.rev,
                              !.failed = ~Admitted(disk).ok]

\* ensureFresh: loadFromDisk(false)
Fresh(p) == IF mem[p].rev = disk.rev THEN mem[p] ELSE Reloaded(p)

\* Faulty variant: a mutation starts from the copy it has.
LoadedForMutationStale(p) == mem[p]

LoadedForMutation(p) == Reloaded(p)

AfterFailure(p) == Reloaded(p)

-----------------------------------------------------------------------------
\* What the requests change.

Answer(r, ok) == [req EXCEPT ![r].pc = "answered", ![r].ok = ok]

\* The commit of a synchronous finalization, and of a writer that has no
\* verification result yet.
CommitOf(r) == [bitmap |-> req[r].bitmap, receipt |-> TRUE,
                verification |-> IF req[r].op = "finalize" THEN req[r].verdict ELSE "none"]

\* When the identity is missing a vote is told SESSION_NOT_FOUND, unless the
\* snapshot itself was refused; both are errors here.
VoteMutation(q, m, same) == IF q.op = "vote" THEN addVote(m.st, q.s, same) ELSE addBotVotes(m.st, q.s)

SweepMutation(m, old) == getActiveSessionCount(m.st, old)

LifecycleMutation(q, m) == applyFinalizationCommand(m.st, q.s, q.f, q.op)

PublicationMutation(q, m) == recordBundlePublication(m.st, q.s, q.f)

VerificationMutation(q, m) ==
    writeVerificationResult(m.st, q.s, q.f, IF q.stage = "begin" THEN "running" ELSE q.verdict)

RollbackMutation(q, m) ==
    rollbackVerificationResult(m.st, q.s, q.f,
        IF <<q.s, q.f>> \in DOMAIN m.snaps THEN m.snaps[<<q.s, q.f>>] ELSE "none")

Mutation(r, m, old, same) ==
    LET q == req[r] IN
    CASE q.op = "create"                  -> createSession(m.st, q.s)
      [] q.op \in {"vote", "bots"}        -> VoteMutation(q, m, same)
      [] q.op = "sweep"                   -> SweepMutation(m, old)
      [] q.op \in Lifecycle               -> LifecycleMutation(q, m)
      [] q.op = "observe"                 -> recordVerificationObservation(m.st, q.s, q.f, r)
      [] q.stage = "publish"              -> PublicationMutation(q, m)
      [] q.stage = "commit"               -> commitSuccessfulFinalization(m.st, q.s, q.f, CommitOf(r))
      [] q.stage \in {"begin", "complete"} -> VerificationMutation(q, m)
      [] q.stage = "rollback"             -> RollbackMutation(q, m)

\* verificationRollbackSnapshots lives in memory only, and is kept when the
\* snapshot is reloaded.
SnapsAfter(r, m, res) ==
    LET k == <<req[r].s, req[r].f>> IN
    IF ~res.dirty THEN m.snaps
    ELSE CASE req[r].stage = "begin" -> (k :> VerifOf(m.st, k)) @@ m.snaps
           [] req[r].stage \in {"complete", "rollback"} -> Restrict(m.snaps, DOMAIN m.snaps \ {k})
           [] OTHER -> m.snaps

-----------------------------------------------------------------------------
\* Requests.

\* Unknown sessions are refused and known ones created once: the id is random.
Submit(r) ==
    /\ req[r].pc = "idle"
    /\ \E op \in Ops, s \in Sessions, f \in Fids :
        /\ op \in {"finalize", "commit", "queue", "create", "vote", "bots", "sweep"} => f = r
        /\ op = "create" => \A o \in Reqs : ~(req[o].op = "create" /\ req[o].s = s)
        /\ op = "sweep" => s = CHOOSE t \in Sessions : TRUE
        /\ req' = [req EXCEPT ![r] =
              [@ EXCEPT !.pc = IF op = "finalize" THEN "admit" ELSE "lock",
                        !.op = op, !.s = s, !.f = f,
                        !.stage = CASE op = "finalize" -> "publish"
                                    [] op = "commit"   -> "commit"
                                    [] op = "verify"   -> "begin"
                                    [] OTHER           -> "only"]]
    /\ UNCHANGED <<disk, lock, mem, faults, edits>>

\* The session is read and finalizeSession admits it or not.
AdmitFinalize(r) ==
    LET p == Home[r]
        st == Fresh(p).st
        s == req[r].s
        admitted == /\ s \in st.ids                                        \* SESSION_NOT_FOUND
                    /\ currentFinalization(st, s).status # "succeeded"     \* SESSION_ALREADY_FINALIZED
                    /\ st.voting[s].cast                                   \* USER_NOT_VOTED
                    /\ st.voting[s].bots >= BotCount                       \* VOTING_NOT_COMPLETE
    IN
    /\ req[r].pc = "admit"
    /\ mem' = [mem EXCEPT ![p] = Fresh(p)]
    /\ req' = IF admitted THEN [req EXCEPT ![r].pc = "prove"] ELSE Answer(r, FALSE)
    /\ UNCHANGED <<disk, lock, faults, edits>>

\* What an execution can end with: preparing its input or the executor throws,
\* or its journal, its image or the proof of the user's vote is not what was
\* expected, or all is well.
Executions == {"throws", "unsupported_journal", "wrong_image", "no_user_proof", "ok"}

admitExecution(e) == e = "ok"

\* The bitmap is kept when it has the root the journal commits to; without it
\* the finalization goes on and bitmap proofs are unavailable.
buildBitmapData(given, sameRoot) == given /\ sameRoot

Prove(r) ==
    /\ req[r].pc = "prove"
    /\ \E e \in Executions, given, sameRoot \in BOOLEAN :
        req' = IF admitExecution(e)
               THEN [req EXCEPT ![r].pc = "verify", ![r].bitmap = buildBitmapData(given, sameRoot)]
               ELSE Answer(r, FALSE)
    /\ UNCHANGED <<disk, lock, mem, faults, edits>>

accepted(status) == status = "success" \/ (status = "dev_mode" /\ (AllowDevMode \/ Executor = "mock"))

\* createBundle up to the record of the publication: the mock executor's bundle
\* gets a dev_mode report, any other one goes to the verifier.
CreateBundle(r) ==
    /\ req[r].pc = "verify"
    /\ \E status \in (IF Executor = "mock" THEN {"dev_mode", "throws"} ELSE Terminal \cup {"throws"}) :
        req' = IF status = "throws" \/ ~accepted(status) THEN Answer(r, FALSE)
               ELSE [req EXCEPT ![r].pc = "lock", ![r].verdict = status]
    /\ UNCHANGED <<disk, lock, mem, faults, edits>>

\* mkdir makes the directory or fails because it is there.
acquireLock(r) == lock = "free" /\ lock' = r

\* loadFromDisk(true) and the mutation, once the lock is taken.  Whether a vote
\* that is sent again has the stored vote's opening is the client's choice.
Mutate(r) ==
    /\ req[r].pc = "lock"
    /\ acquireLock(r)
    /\ \E old \in (IF req[r].op = "sweep" THEN SUBSET Sessions ELSE {{}}),
          same \in (IF req[r].op = "vote" THEN BOOLEAN ELSE {TRUE}) :
        LET p   == Home[r]
            m   == LoadedForMutation(p)
            res == Mutation(r, m, old, same)
            st  == IF res.dirty THEN [res.st EXCEPT !.log = @ \cup {<<r, req[r].stage>>}] ELSE m.st
        IN  /\ mem' = [mem EXCEPT ![p] = [m EXCEPT !.st = st, !.snaps = SnapsAfter(r, m, res)]]
            /\ req' = [req EXCEPT ![r] =
                  [@ EXCEPT !.pc = IF res.dirty THEN "save" ELSE "release",
                            !.after = IF res.dirty THEN st ELSE @,
                            !.wrote = res.dirty, !.ok = res.ok]]
    /\ UNCHANGED <<disk, faults, edits>>

\* The lock is still taken after five seconds.
LockTimesOut(r) ==
    /\ req[r].pc = "lock"
    /\ lock # "free"
    /\ req' = Answer(r, FALSE)
    /\ UNCHANGED <<disk, lock, mem, faults, edits>>

\* persistState: the serialized families reach the file by one rename.
Save(r) ==
    /\ req[r].pc = "save"
    /\ disk' = [rev |-> disk.rev + 1, kind |-> "snapshot",
                body |-> serializeFileStoreState(req[r].after)]
    /\ mem' = [mem EXCEPT ![Home[r]].rev = disk.rev + 1]
    /\ req' = [req EXCEPT ![r].pc = "release", ![r].after = createEmptyFileStoreState]
    /\ UNCHANGED <<lock, faults, edits>>

\* The write or the rename fails: the copy is reloaded and the error thrown.
SaveFails(r) ==
    /\ req[r].pc = "save"
    /\ faults < MaxFaults
    /\ faults' = faults + 1
    /\ mem' = [mem EXCEPT ![Home[r]] = AfterFailure(Home[r])]
    /\ req' = [req EXCEPT ![r].pc = "release", ![r].after = createEmptyFileStoreState,
                          ![r].ok = FALSE, ![r].wrote = FALSE]
    /\ UNCHANGED <<disk, lock, edits>>

\* The lock directory is removed and the mutation's caller goes on: the bundle
\* is published and the finalization committed, the verification that was
\* started completes or could not be dispatched and is rolled back.
Release(r) ==
    /\ req[r].pc = "release"
    /\ lock' = IF lock = r THEN "free" ELSE lock
    /\ \/ /\ req[r].ok /\ req[r].stage = "publish"
          /\ req' = [req EXCEPT ![r].pc = "lock", ![r].stage = "commit"]
       \/ /\ req[r].ok /\ req[r].wrote /\ req[r].stage = "begin"
          /\ \/ \E verdict \in Terminal :
                   req' = [req EXCEPT ![r].pc = "lock", ![r].stage = "complete",
                                      ![r].verdict = verdict]
             \/ req' = [req EXCEPT ![r].pc = "lock", ![r].stage = "rollback"]
       \/ /\ ~(req[r].ok /\ req[r].stage = "publish")
          /\ ~(req[r].ok /\ req[r].wrote /\ req[r].stage = "begin")
          /\ req' = Answer(r, req[r].ok)
    /\ UNCHANGED <<disk, mem, faults, edits>>

\* A read without the lock.
Read(p) ==
    /\ mem[p].rev # disk.rev
    /\ mem' = [mem EXCEPT ![p] = Fresh(p)]
    /\ UNCHANGED <<disk, lock, req, faults, edits>>

Busy(r) == req[r].pc \notin {"idle", "answered", "lost"}

\* A process dies with the requests it is serving and starts again; the lock
\* directory it had made stays.
Crash(p) ==
    /\ faults < MaxFaults
    /\ \E r \in Reqs : Home[r] = p /\ Busy(r)
    /\ faults' = faults + 1
    /\ mem' = [mem EXCEPT ![p] = [Reloaded(p) EXCEPT !.snaps = Nothing]]
    /\ req' = [r \in Reqs |-> IF Home[r] = p /\ Busy(r)
                              THEN [req[r] EXCEPT !.pc = "lost", !.after = createEmptyFileStoreState]
                              ELSE req[r]]
    /\ UNCHANGED <<disk, lock, edits>>

\* Somebody edits the file: an entry of one family is gone or changed, or the
\* file is no snapshot any more.
Edited(body) ==
    {[body EXCEPT !.ids = @ \ {s}] : s \in body.ids}
    \cup {[body EXCEPT !.voting[s].votes = @ - 1] : s \in {t \in DOMAIN body.voting : body.voting[t].votes > 0}}
    \cup {[body EXCEPT !.voting[s].bots = @ + 1] : s \in DOMAIN body.voting}
    \cup {[body EXCEPT !.index = @ \ {e}] : e \in body.index}
    \cup {[body EXCEPT !.cur = Restrict(@, DOMAIN @ \ {s})] : s \in DOMAIN body.cur}
    \cup {[body EXCEPT !.fin = Restrict(@, DOMAIN @ \ {k})] : k \in DOMAIN body.fin}
    \cup UNION {{[body EXCEPT !.fin[k].keys = @ \ {x}] : x \in body.fin[k].keys} : k \in DOMAIN body.fin}
    \cup {[body EXCEPT !.receipts = Restrict(@, DOMAIN @ \ {k})] : k \in DOMAIN body.receipts}
    \cup {[body EXCEPT !.bitmaps = @ \ {k}] : k \in body.bitmaps}
    \cup (IF body.counter > 0 THEN {[body EXCEPT !.counter = @ - 1]} ELSE {})

Edit ==
    /\ edits < MaxEdits
    /\ disk.kind = "snapshot"
    /\ edits' = edits + 1
    /\ \/ \E body \in Edited(disk.body) :
             disk' = [rev |-> disk.rev + 1, kind |-> "snapshot", body |-> body]
       \/ disk' = [rev |-> disk.rev + 1, kind |-> "garbage", body |-> createEmptyFileStoreState]
    /\ UNCHANGED <<lock, mem, req, faults>>

Next ==
    \/ \E r \in Reqs :
        \/ Submit(r) \/ AdmitFinalize(r) \/ Prove(r) \/ CreateBundle(r)
        \/ Mutate(r) \/ LockTimesOut(r) \/ Save(r) \/ SaveFails(r) \/ Release(r)
    \/ \E p \in Procs : Read(p) \/ Crash(p)
    \/ Edit

\* The event loop and the file system finish what they have begun; nobody has
\* to send a request, and no fault has to happen.
Proceed(r) ==
    \/ AdmitFinalize(r) \/ Prove(r) \/ CreateBundle(r) \/ Mutate(r)
    \/ LockTimesOut(r) \/ Save(r) \/ Release(r)

Fairness == \A r \in Reqs : WF_vars(Proceed(r))

Spec == Init /\ [][Next]_vars /\ Fairness

-----------------------------------------------------------------------------

\* Types: the variables keep the shape the store gives them (fileMockSessionStore.ts).
TypeOK ==
    /\ disk.rev \in Nat /\ disk.kind \in {"none", "garbage", "snapshot"}
    /\ lock \in Reqs \cup {"free"}
    /\ \A p \in Procs : mem[p].rev \in 0 .. disk.rev /\ mem[p].failed \in BOOLEAN
    /\ \A r \in Reqs : req[r].pc \in {"idle", "admit", "prove", "verify", "lock", "save",
                                       "release", "answered", "lost"}
    /\ faults \in 0 .. MaxFaults /\ edits \in 0 .. MaxEdits

\* Whatever the operations make of the families, the snapshot of them is
\* admitted and gives the same families back (serializeFileStoreState and
\* parseFileStoreSnapshot): no legal sequence of calls locks the store out.
SnapshotRestores ==
    \A r \in Reqs : req[r].pc = "save" =>
        LET back == parseFileStoreSnapshot(serializeFileStoreState(req[r].after))
        IN  back.ok /\ back.st = req[r].after

\* A mutation that was answered is in the file for good, one that was told an
\* error is not, whichever process served it (mutate, loadFromDisk).
AnsweredIsStored ==
    edits = 0 => \A r \in Reqs :
        req[r].pc = "answered" /\ req[r].stage # "none" =>
            /\ req[r].ok /\ req[r].wrote => <<r, req[r].stage>> \in disk.body.log
            /\ ~req[r].ok => <<r, req[r].stage>> \notin disk.body.log

\* What a process reads is what the file holds, or what a request of the same
\* process is saving at this moment: the copy is read while it is written
\* (ensureFresh against persistState).
ReadersSeeTheStore ==
    \A p \in Procs :
        \/ Fresh(p).st = Admitted(disk).st
        \/ \E r \in Reqs : Home[r] = p /\ req[r].pc = "save" /\ Fresh(p).st = req[r].after

\* Two writers never overlap: the lock directory is one request's, alive or
\* dead (acquireLock).
OneWriter ==
    \A r \in Reqs : req[r].pc \in {"save", "release"} => lock = r

\* A finalization has what its record promises.
Whole(st, k) ==
    LET rec == st.fin[k] IN
    /\ "bitmap" \in rec.artifacts <=> k \in st.bitmaps
    /\ "receiptPublication" \in rec.artifacts <=> k \in DOMAIN st.receipts
    /\ k \in DOMAIN st.receipts => rec.board = st.receipts[k] /\ rec.board < st.counter

\* Everything that was loaded fits together, edited or not: votes and their
\* index, a session's current finalization, no artifact in part, no receipt or
\* bitmap without its record (fileMock/sessionSerde.ts).
LoadedIsWhole ==
    \A p \in Procs :
        LET st == mem[p].st IN
        /\ DOMAIN st.voting = st.ids
        /\ st.index = deriveVoteIdIndex(st)
        /\ \A s \in DOMAIN st.cur : s \in st.ids /\ <<s, st.cur[s]>> \in DOMAIN st.fin
        /\ \A k \in st.bitmaps \cup DOMAIN st.receipts \cup DOMAIN st.verif :
              k \in DOMAIN st.fin /\ st.fin[k].status = "succeeded"
        /\ \A k \in DOMAIN st.receipts : Whole([st EXCEPT !.bitmaps = IF "bitmap" \in st.fin[k].artifacts
                                                                    THEN @ \cup {k} ELSE @ \ {k}], k)
        /\ \A k \in DOMAIN st.fin : st.fin[k].artifacts # {} => st.fin[k].status = "succeeded"

\* What commitSuccessfulFinalization stored is admitted again and complete: bitmap, receipt and
\* board index, two finalizations at two indexes.
CommittedIsWhole ==
    edits = 0 => LET st == Admitted(disk).st IN
        /\ Admitted(disk).ok
        /\ \A k \in DOMAIN st.fin : st.fin[k].status = "succeeded" => Whole(st, k)
        /\ \A k, l \in DOMAIN st.receipts : k # l => st.receipts[k] # st.receipts[l]

\* A synchronous finalization ends a session's voting with all its bots, and
\* only with a proof the verifier accepted (finalize-sync.ts, createBundle).
FinalizedWasAccepted ==
    edits = 0 => LET st == Admitted(disk).st IN
        \A r \in Reqs : req[r].op = "finalize" /\ <<req[r].s, r>> \in DOMAIN st.fin =>
            /\ st.verif[<<req[r].s, r>>] \in {"success"} \cup
                   (IF AllowDevMode \/ Executor = "mock" THEN {"dev_mode"} ELSE {})
            /\ st.voting[req[r].s].bots = BotCount
            /\ <<req[r].s, r>> \in st.delivery

\* The finalization a caller was told of is the session's only one from then
\* on, until the session is swept: of two synchronous finalizations that were
\* both admitted one is told an error (assertSuccessfulFinalizationLifecycleAdmission).
ToldIsCurrent ==
    edits = 0 => LET st == Admitted(disk).st IN
        \A r \in Reqs :
            req[r].pc = "answered" /\ req[r].op \in {"finalize", "commit"} /\ req[r].ok
                /\ req[r].s \in st.ids
            => currentFinalization(st, req[r].s).fid = r

\* A terminal verification result in the file is replaced by nothing but a
\* rollback, or goes with its session (writeVerificationResult).
TerminalKept ==
    edits' = edits =>
    \A k \in DOMAIN disk.body.verif :
       disk.body.verif[k] \in Terminal =>
          \/ k \in DOMAIN disk'.body.verif /\ disk'.body.verif[k] = disk.body.verif[k]
          \/ k[1] \notin disk'.body.ids
          \/ \E r \in Reqs : req[r].pc = "save" /\ req[r].stage = "rollback"

\* Every request is answered or lost with its process, a lock nobody will
\* release included (acquireLock's deadline).
RequestsEnd == \A r \in Reqs : Busy(r) ~> ~Busy(r)
=============================================================================

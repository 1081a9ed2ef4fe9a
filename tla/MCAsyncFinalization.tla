------------------------ MODULE MCAsyncFinalization -------------------------
(***************************************************************************)
(* What finalizes a session: on AWS an attempt of AsyncFinalization, with  *)
(* finalize requests of one session and concurrent dispatcher invocations; *)
(* in a server of its own the host processes of HostProcess and the file   *)
(* store of LocalSession.  part chooses: the variables of the local server *)
(* are NoRecord in the first, those of the attempt stay as they are        *)
(* initially in the others.                                                *)
(***************************************************************************)
EXTENDS AsyncFinalization, TLC

CONSTANTS r1, r2, r3, r4    \* executions or requests of one server, or of two

VARIABLES part, run, shuttingDown, stopped, exitCode, disk, lock, mem, work, failures, edits

hostVars == <<run, shuttingDown, stopped, exitCode>>
fileVars == <<disk, lock, mem, work, failures, edits>>
allVars == <<part, vars, hostVars, fileVars>>

-----------------------------------------------------------------------------
\* Two executions of one server; each owns a host with at most one descendant.
Host == INSTANCE HostProcess WITH Runs <- {r1, r2}, ExitCodes <- {"zero", "nonzero"}

\* The file store: a session voted on and swept by two processes, finalized with
\* the real prover while requests fail, led through its lifecycle, its result verified and
\* observed, and its file edited by hand.

Reqs == {r1, r2, r3}
TwoHomes == [r \in Reqs \cup {r4} |-> IF r \in {r1, r2} THEN "p1" ELSE "p2"]
FileVoting == INSTANCE LocalSession WITH
    Sessions <- {"s1"}, Fids <- Reqs \cup {r4}, BotCount <- 2, Procs <- {"p1", "p2"},
    Reqs <- Reqs \cup {r4}, Home <- TwoHomes, Ops <- {"create", "vote", "bots", "sweep"},
    Executor <- "mock", AllowDevMode <- TRUE, MaxFaults <- 0, MaxEdits <- 0, req <- work, faults <- failures
FileFinalize == INSTANCE LocalSession WITH
    Sessions <- {"s1"}, Fids <- Reqs, BotCount <- 2, Procs <- {"p1", "p2"}, Reqs <- Reqs,
    Home <- [r \in Reqs |-> TwoHomes[r]], Ops <- {"finalize", "sweep"}, Executor <- "real",
    AllowDevMode <- FALSE, MaxFaults <- 1, MaxEdits <- 0, req <- work, faults <- failures
FileLifecycle == INSTANCE LocalSession WITH
    Sessions <- {"s1"}, Fids <- Reqs, BotCount <- 2, Procs <- {"p1", "p2"}, Reqs <- Reqs,
    Home <- [r \in Reqs |-> TwoHomes[r]],
    Ops <- {"queue", "start", "fail", "time_out", "commit"}, Executor <- "real",
    AllowDevMode <- FALSE, MaxFaults <- 0, MaxEdits <- 0, req <- work, faults <- failures
FileVerified == INSTANCE LocalSession WITH
    Sessions <- {"s1"}, Fids <- Reqs, BotCount <- 2, Procs <- {"p1", "p2"}, Reqs <- Reqs,
    Home <- [r \in Reqs |-> TwoHomes[r]], Ops <- {"commit", "verify", "observe"}, Executor <- "real",
    AllowDevMode <- FALSE, MaxFaults <- 0, MaxEdits <- 0, req <- work, faults <- failures
FileEdited == INSTANCE LocalSession WITH
    Sessions <- {"s1"}, Fids <- Reqs, BotCount <- 2, Procs <- {"p1", "p2"}, Reqs <- {r1, r2},
    Home <- [r \in {r1, r2} |-> "p1"], Ops <- {"create", "vote", "commit", "verify"},
    Executor <- "real", AllowDevMode <- FALSE, MaxFaults <- 0, MaxEdits <- 1, req <- work, faults <- failures

ASSUME Instances ==
    /\ FileVoting!SessionConstants /\ FileFinalize!SessionConstants
    /\ FileLifecycle!SessionConstants /\ FileVerified!SessionConstants /\ FileEdited!SessionConstants

-----------------------------------------------------------------------------
Off(v) == v = NoRecord

NoHost == Off(run) /\ Off(shuttingDown) /\ Off(stopped) /\ Off(exitCode)
NoFile == Off(disk) /\ Off(lock) /\ Off(mem) /\ Off(work) /\ Off(failures) /\ Off(edits)

\* Bound: finalize requests are made before an execution is started.  A later one is
\* told the recorded finalization and nothing else.
RequestsFirst ==
    (\E f \in Fids : exec[f].state # "none") =>
        \A f \in Fids : request[f].pc = "idle" => request'[f].pc = "idle"

SuiteInit ==
    /\ Init
    /\ \/ part = "attempt" /\ NoHost /\ NoFile
       \/ part = "host" /\ Host!Init /\ NoFile
       \/ /\ NoHost
          /\ \/ part = "file voting" /\ FileVoting!Init
             \/ part = "file finalize" /\ FileFinalize!Voted
             \/ part = "file lifecycle" /\ FileLifecycle!Voted
             \/ part = "file verified" /\ FileVerified!Voted
             \/ part = "file edited" /\ FileEdited!Voted

SuiteNext ==
    \/ part = "attempt" /\ Next /\ RequestsFirst /\ UNCHANGED <<part, hostVars, fileVars>>
    \/ part = "host" /\ Host!Next /\ UNCHANGED <<part, vars, fileVars>>
    \/ /\ \/ part = "file voting" /\ FileVoting!Next
          \/ part = "file finalize" /\ FileFinalize!Next
          \/ part = "file lifecycle" /\ FileLifecycle!Next
          \/ part = "file verified" /\ FileVerified!Next
          \/ part = "file edited" /\ FileEdited!Next
       /\ UNCHANGED <<part, vars, hostVars>>

SuiteSpec == SuiteInit /\ [][SuiteNext]_allVars

-----------------------------------------------------------------------------
\* A host execution leaves nothing behind: success means that the group is gone
\* and its files are read and deleted, the first cause of an end is the one
\* reported, and the server exits cleanly only when its hosts are gone.
HostEndsClean ==
    /\ [](part = "host" =>
            /\ Host!TypeOK /\ Host!SuccessIsWhole /\ Host!ResultWasWritten /\ Host!CompleteIsGone
            /\ Host!NothingLeftOnDisk /\ Host!ShutdownLeavesNone)
    /\ [][part = "host" => Host!FirstCauseKept]_allVars

\* The processes that share the store's file lose nothing: one of them writes at a
\* time, what was answered is in the file, what is in the file can be read back,
\* readers see it, a success has all its parts, and a verdict stays.
FileStoreSound ==
    /\ [](part = "file voting" =>
            /\ FileVoting!TypeOK /\ FileVoting!SnapshotRestores /\ FileVoting!AnsweredIsStored
            /\ FileVoting!ReadersSeeTheStore /\ FileVoting!OneWriter)
    /\ [](part = "file finalize" =>
            /\ FileFinalize!AnsweredIsStored /\ FileFinalize!ReadersSeeTheStore /\ FileFinalize!OneWriter
            /\ FileFinalize!CommittedIsWhole /\ FileFinalize!FinalizedWasAccepted
            /\ FileFinalize!ToldIsCurrent)
    /\ [](part = "file lifecycle" => FileLifecycle!SnapshotRestores)
    /\ [](part = "file verified" => FileVerified!SnapshotRestores)
    /\ [](part = "file edited" => FileEdited!LoadedIsWhole)
    /\ [][part = "file verified" => FileVerified!TerminalKept]_allVars

\* Finalize requests, dispatchers and executions are each alike, and so are the
\* requests of one process.
Symmetry == Permutations(Fids) \cup Permutations(Dispatchers) \cup Permutations({r1, r2})

=============================================================================

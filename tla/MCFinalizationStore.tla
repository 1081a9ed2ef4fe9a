------------------------ MODULE MCFinalizationStore -------------------------
(***************************************************************************)
(* Instance of FinalizationStore: two finalization attempts of a session,  *)
(* with the commands the finalize request, the container, the callbacks,   *)
(* the cancel request and the sweep would issue for them.                  *)
(***************************************************************************)
EXTENDS FinalizationStore, TLC

CONSTANTS f1, f2, sA, sB

Command(kind, f, q, s, at) ==
    [kind |-> kind, fid |-> f, queuedAt |-> q, startedAt |-> s, at |-> at,
     code |-> IF kind = "fail" THEN "EXECUTION_FAILED" ELSE NoCode,
     scenario |-> NoScenario, resultOk |-> TRUE]

Queue(f, q, sc) == [Command("queue", f, q, NoTime, 0) EXCEPT !.scenario = sc]

\* A whole attempt, ended by whichever of three calls is first.
MCRaceCommands ==
    {Queue(f1, 0, sA),
     Command("start", f1, 0, 1, 0),
     Command("succeed", f1, 0, 1, 2),
     Command("cancel", f1, 0, NoTime, 1),
     Command("time_out", f1, 0, 1, 3)}

\* With a sweep whose execution stopped before the container was admitted, and a
\* second attempt.
MCCommands ==
    MCRaceCommands \cup {Command("fail", f1, 0, 2, 1), Queue(f2, 1, sB)}

MCCodes == {"USER_CANCELLED", "EXECUTION_FAILED"}

\* Bound: the session is touched only while two of the calls have not been made.
CallsOrTouch ==
    votingRev = 0 \/ \E c, d \in Clients : c # d /\ client[c].pc = "idle" /\ client[d].pc = "idle"

MCNext == Next /\ CallsOrTouch'

MCSpec == Init /\ [][MCNext]_vars

Symmetry == Permutations(Clients)

=============================================================================

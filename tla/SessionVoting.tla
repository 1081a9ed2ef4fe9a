--------------------------- MODULE SessionVoting ----------------------------
(***************************************************************************)
(* The votes of one session in DynamoDB, and the requests that run against *)
(* them: vote submissions (submitVoteHandler, completeVoteSubmission,      *)
(* BotVoter) and finalize requests (finalizeSessionUsecase).               *)
(*                                                                         *)
(* The voting item holds the root history, the participation and the bot   *)
(* count; each vote is an item of its own in another table.  One           *)
(* transaction writes both, but a load reads them by separate requests,    *)
(* between which any other request may run.  The roots of the history      *)
(* commit to the votes below them, so the model keeps in the voting item   *)
(* the sequence of votes its last root commits to (log).                   *)
(*                                                                         *)
(* A request that never takes its next step is an invocation that died; a  *)
(* client that sends its vote again is another submission with the same    *)
(* opening.                                                                *)
(***************************************************************************)
EXTENDS Naturals, Sequences

CONSTANTS
    Submits,        \* vote requests, each made once
    Finalizes,      \* finalize requests, each made once
    Openings,       \* the choice and randomness a vote commits to
    None,           \* absent item, or no opening (a bot's vote)
    BotCount,               \* BOT_COUNT (63)
    MaxConditionalRetries,  \* MAX_CONDITIONAL_RETRIES (3)
    BotRounds,              \* attempts of startBotVoting (3)
    MaxTouches,     \* bound: activity touches after verification writes
    MaxFaults       \* bound: failed requests, lost responses, expiries

Calls == Submits \cup Finalizes

\* A vote: the request whose generated vote id it carries, and its opening.
Vote == [by : Submits, opening : Openings \cup {None}]
Voting == [rev : Nat, exp : Nat, log : Seq(Vote), cast : BOOLEAN, bots : Nat]
\* The current finalization: whether it has succeeded, whether its TTL has
\* passed, and the votes its prover input was built from.
Finalization == [succeeded : BOOLEAN, expired : BOOLEAN, input : Seq(Vote)]

ASSUME VotingConstants ==
    /\ Submits \cap Finalizes = {}
    /\ None \notin Openings \cup Voting \cup Finalization
    /\ BotCount \in Nat \ {0}
    /\ MaxConditionalRetries \in Nat \ {0}
    /\ BotRounds \in Nat \ {0}
    /\ MaxTouches \in Nat
    /\ MaxFaults \in Nat

VARIABLES
    voting,         \* SESSION_VOTING item
    votes,          \* VOTE items in the order of their index
    current,        \* current finalization, or None; present though expired
    live,           \* the TTL shared by the session's items has not passed
    touches,        \* activity touches so far
    faults,         \* faults so far
    call            \* local state of each request

vars == <<voting, votes, current, live, touches, faults, call>>

-----------------------------------------------------------------------------
\* Local state of a request.

Stages == {"idle", "validate", "limit", "addVote", "bots", "addBots", "receipt",
           "queue", "done"}
Reads == {"voting", "votes", "check", "current"}
Outcomes == {"none", "RECEIPT", "ALREADY_VOTED", "SESSION_FINALIZED", "RATE_LIMITED",
             "NOT_FOUND", "UNAVAILABLE", "CONTENTION", "ERROR", "QUEUED",
             "NOT_QUEUED", "USER_NOT_VOTED", "VOTING_NOT_COMPLETE",
             "ALREADY_FINALIZED"}

Call ==
    [stage : Stages, by : Calls, opening : Openings \cup {None},
     got : SUBSET Reads,                        \* answers the stage has
     item : Voting \cup {None},                 \* voting item it read
     seen : Finalization \cup {None},           \* finalization it read
     batch : 0..BotCount,                       \* bot votes to add
     next : Seq(Vote),                          \* log to write, or empty
     attempt : 0..(MaxConditionalRetries - 1), round : 0..(BotRounds - 1),
     outcome : Outcomes, receipt : Vote \cup {None}]

Idle(c) ==
    [stage |-> "idle", by |-> c, opening |-> None, got |-> {}, item |-> None,
     seen |-> None, batch |-> 0, next |-> <<>>, attempt |-> 0, round |-> 0,
     outcome |-> "none", receipt |-> None]

\* A stage begins with its reads.
Enter(k, stage) ==
    [k EXCEPT !.stage = stage, !.got = {}, !.item = None, !.seen = None,
              !.next = <<>>]

Returned(k, outcome) ==
    [Idle(k.by) EXCEPT !.stage = "done", !.opening = k.opening, !.outcome = outcome]

InFlight(c) == call[c].stage \notin {"idle", "done"}

\* The requests of each stage.  getVotingRecord reads the finalization once more
\* to check the root of a success ("check").
Needs(stage) ==
    CASE stage \in {"validate", "bots"}   -> Reads
      [] stage \in {"addVote", "addBots"} -> {"voting", "votes", "current"}
      [] stage = "receipt"                -> {"voting", "votes", "check"}
      [] OTHER                            -> {}

\* Promise.all reads the finalization beside the votes, a mutation after them.
Before(stage, r) ==
    CASE r = "votes"   -> {"voting"}
      [] r = "check"   -> {"votes"}
      [] r = "current" -> IF stage \in {"addVote", "addBots"} THEN {"votes"} ELSE {}
      [] OTHER         -> {}

\* getCurrentFinalizationRecord: an expired pointer is no finalization.
getCurrentFinalizationRecord ==
    IF current = None THEN None ELSE IF current.expired THEN None ELSE current

-----------------------------------------------------------------------------
\* The voting policy.  v is the voting item a request has read.

\* restoreVotingRecord: the history, the participation and the count must be
\* those of the vote items, the user's vote first.
restores(v, items) ==
    /\ items = v.log
    /\ v.cast = (items # <<>>)
    /\ v.bots = Len(items) - (IF v.cast THEN 1 ELSE 0)
    /\ \A i \in 1..Len(items) : (items[i].opening # None) = (i = 1)

\* A retry is recognised by the opening of the stored vote.
resolveUserVoteReplay(v, k) ==
    IF ~v.cast THEN "not_cast"
    ELSE IF v.log[1].opening = k.opening THEN "replay" ELSE "conflict"

\* prepareUserVoteSubmission, on what the request was admitted with
prepareUserVoteSubmission(k) ==
    LET replay == resolveUserVoteReplay(k.item, k)
    IN  IF replay = "conflict" THEN Returned(k, "ALREADY_VOTED")
        ELSE IF replay = "not_cast" /\ k.seen # None THEN Returned(k, "SESSION_FINALIZED")
        ELSE Enter(k, "limit")

\* Faulty variant: a replayed vote is answered at once.
afterReplayAtOnce(k) == Enter(k, "receipt")

\* A replay, like a new vote, goes on to complete the bot votes.
afterReplay(k) == Enter(k, "bots")

\* evaluateSessionVoteMutation of append_user_vote
appendUserVote(k) ==
    IF resolveUserVoteReplay(k.item, k) = "replay" THEN afterReplay(k)
    ELSE IF k.seen # None THEN Returned(k, "SESSION_FINALIZED")
    ELSE IF k.item.cast \/ k.item.log # <<>> THEN Returned(k, "ALREADY_VOTED")
    ELSE [k EXCEPT !.next = <<[by |-> k.by, opening |-> k.opening]>>]

\* startBotVoting tries again on a typed conflict, a limited number of times.
nextRound(k) ==
    IF k.round + 1 = BotRounds THEN Returned(k, "CONTENTION")
    ELSE Enter([k EXCEPT !.round = @ + 1], "bots")

remaining(v) == BotCount - v.bots

\* appendRemainingBotVotes, up to addBotVotes
remainingBotVotes(k) ==
    IF ~k.item.cast \/ k.item.bots > BotCount THEN Returned(k, "ERROR")
    ELSE IF k.item.bots = BotCount THEN Enter(k, "receipt")
    ELSE IF k.seen # None THEN Returned(k, "ERROR")
    ELSE Enter([k EXCEPT !.batch = remaining(k.item), !.attempt = 0], "addBots")

\* Faulty variant: the limit is not compared again.
batchFitsUnchecked(k) == TRUE

batchFits(k) == k.item.bots + k.batch <= BotCount

\* evaluateSessionVoteMutation of append_bot_votes; handleBotVoteConflict
appendBotVotes(k) ==
    IF k.seen # None THEN nextRound(k)
    ELSE IF ~k.item.cast THEN Returned(k, "ERROR")
    ELSE IF ~batchFits(k) THEN nextRound(k)
    ELSE [k EXCEPT !.next =
            k.item.log \o [i \in 1..k.batch |-> [by |-> k.by, opening |-> None]]]

\* completeVoteSubmission answers with the stored vote.
answer(k) ==
    IF resolveUserVoteReplay(k.item, k) = "replay"
    THEN [Returned(k, "RECEIPT") EXCEPT !.receipt = k.item.log[1]]
    ELSE Returned(k, "ERROR")

\* Faulty variant: the bots need not have finished.
votingCompleteEnough(v) == TRUE

votingComplete(v) == v.bots >= BotCount

\* admitFinalizationSession; the prover input is built from the votes read here.
admitFinalizationSession(k) ==
    IF k.seen # None /\ k.seen.succeeded THEN Returned(k, "ALREADY_FINALIZED")
    ELSE IF ~k.item.cast THEN Returned(k, "USER_NOT_VOTED")
    ELSE IF ~votingComplete(k.item) THEN Returned(k, "VOTING_NOT_COMPLETE")
    ELSE [Enter(k, "queue") EXCEPT !.item = k.item]

\* What a request does when the last answer of a stage has arrived.
AfterLoad(k) ==
    CASE k.stage = "validate" /\ k.by \in Submits -> prepareUserVoteSubmission(k)
      [] k.stage = "validate" /\ k.by \notin Submits -> admitFinalizationSession(k)
      [] k.stage = "addVote" -> appendUserVote(k)
      [] k.stage = "bots"    -> remainingBotVotes(k)
      [] k.stage = "addBots" -> appendBotVotes(k)
      [] k.stage = "receipt" -> answer(k)

-----------------------------------------------------------------------------
\* Actions.

Init ==
    /\ voting = [rev |-> 0, exp |-> 0, log |-> <<>>, cast |-> FALSE, bots |-> 0]
    /\ votes = <<>>
    /\ current = None
    /\ live = TRUE
    /\ touches = 0
    /\ faults = 0
    /\ call = [c \in Calls |-> Idle(c)]

SubmitVote(c, o) ==
    /\ call[c].stage = "idle"
    /\ call' = [call EXCEPT ![c] = Enter([@ EXCEPT !.opening = o], "validate")]
    /\ UNCHANGED <<voting, votes, current, live, touches, faults>>

Finalize(c) ==
    /\ call[c].stage = "idle"
    /\ call' = [call EXCEPT ![c] = Enter(@, "validate")]
    /\ UNCHANGED <<voting, votes, current, live, touches, faults>>

Reading(c, r) ==
    /\ call[c].next = <<>>
    /\ r \in Needs(call[c].stage) \ call[c].got
    /\ Before(call[c].stage, r) \subseteq call[c].got

\* k is the state of the request with the answer; the last one moves it on.
Answered(c, r, k) ==
    LET got == [k EXCEPT !.got = @ \cup {r}]
    IN  /\ call' = [call EXCEPT ![c] =
                        IF got.got = Needs(k.stage) THEN AfterLoad(got) ELSE got]
        /\ UNCHANGED <<voting, votes, current, live, touches, faults>>

Ends(c, outcome) ==
    /\ call' = [call EXCEPT ![c] = Returned(@, outcome)]
    /\ UNCHANGED <<voting, votes, current, live, touches, faults>>

\* requireIdentity and loadVotingItem
LoadVotingItem(c) ==
    /\ Reading(c, "voting")
    /\ IF live THEN Answered(c, "voting", [call[c] EXCEPT !.item = voting])
               ELSE Ends(c, "NOT_FOUND")

\* loadVoteItems and restoreVotingRecord; an expired vote item is not admitted
LoadVoteItems(c) ==
    /\ Reading(c, "votes")
    /\ IF (live \/ votes = <<>>) /\ restores(call[c].item, votes)
       THEN Answered(c, "votes", call[c])
       ELSE Ends(c, "UNAVAILABLE")

\* The end of getVotingRecord: the root of a success must be the last root.
CheckFinalRoot(c) ==
    LET fin == getCurrentFinalizationRecord
        log == call[c].item.log
    IN  /\ Reading(c, "check")
        /\ IF fin # None /\ fin.succeeded /\ log # <<>> /\ fin.input # log
           THEN Ends(c, "UNAVAILABLE")
           ELSE Answered(c, "check", call[c])

LoadFinalization(c) ==
    /\ Reading(c, "current")
    /\ Answered(c, "current", [call[c] EXCEPT !.seen = getCurrentFinalizationRecord])

ConsumeRateLimit(c) ==
    /\ call[c].stage = "limit"
    /\ \/ call' = [call EXCEPT ![c] = Enter([@ EXCEPT !.attempt = 0], "addVote")]
       \/ call' = [call EXCEPT ![c] = Returned(@, "RATE_LIMITED")]
    /\ UNCHANGED <<voting, votes, current, live, touches, faults>>

Writing(c) == call[c].next # <<>>

\* Faulty variant: plain puts.
persistConditionUnchecked(k) == TRUE

\* The conditions of persistVoteMutation: the voting item is the one read, no
\* finalization pointer exists, and neither do the new vote items.
persistCondition(k) ==
    /\ voting.rev = k.item.rev
    /\ voting.exp = k.item.exp
    /\ current = None
    /\ Len(votes) <= Len(k.item.log)

\* botCount of the user's and of the bots' mutation
nextBotCount(k) == IF k.stage = "addVote" THEN k.item.bots ELSE k.item.bots + k.batch

\* Its puts: the new vote items, the voting item and a common TTL.
persistEffect(k) ==
    /\ votes' = [i \in 1..(IF Len(votes) > Len(k.next) THEN Len(votes) ELSE Len(k.next)) |->
                    IF i > Len(k.item.log) /\ i <= Len(k.next) THEN k.next[i] ELSE votes[i]]
    /\ \E exp \in {k.item.exp, k.item.exp + 1} :
          voting' = [rev |-> k.item.rev + 1, exp |-> exp, log |-> k.next, cast |-> TRUE,
                     bots |-> nextBotCount(k)]
    /\ live' = TRUE
    /\ UNCHANGED <<current, touches>>

PersistVotes(c) ==
    LET k == call[c]
    IN  /\ Writing(c)
        /\ persistCondition(k)
        /\ persistEffect(k)
        /\ call' = [call EXCEPT ![c] =
                        Enter(k, IF k.stage = "addVote" THEN "bots" ELSE "receipt")]
        /\ UNCHANGED faults

\* A failed condition: mutateVotes loads again.
PersistConflict(c) ==
    LET k == call[c]
    IN  /\ Writing(c)
        /\ ~persistCondition(k)
        /\ call' = [call EXCEPT ![c] =
                        IF k.attempt + 1 = MaxConditionalRetries
                        THEN Returned(k, "CONTENTION")
                        ELSE Enter([k EXCEPT !.attempt = k.attempt + 1], k.stage)]
        /\ UNCHANGED <<voting, votes, current, live, touches, faults>>

\* markFinalizationQueued as one step (FinalizationStore refines it): it creates
\* the pointer and raises the TTL of the session's items.
QueueFinalization(c) ==
    /\ call[c].stage = "queue"
    /\ IF live /\ current = None
       THEN /\ current' = [succeeded |-> FALSE, expired |-> FALSE, input |-> call[c].item.log]
            /\ voting' = [voting EXCEPT !.exp = @ + 1]
            /\ call' = [call EXCEPT ![c] = Returned(@, "QUEUED")]
       ELSE /\ call' = [call EXCEPT ![c] = Returned(@, "NOT_QUEUED")]
            /\ UNCHANGED <<current, voting>>
    /\ UNCHANGED <<votes, live, touches, faults>>

\* The commit of a success (AsyncFinalization).
CommitSuccess ==
    /\ live
    /\ current # None
    /\ ~current.succeeded /\ ~current.expired
    /\ current' = [current EXCEPT !.succeeded = TRUE]
    /\ \E exp \in {voting.exp, voting.exp + 1} : voting' = [voting EXCEPT !.exp = exp]
    /\ UNCHANGED <<votes, live, touches, faults, call>>

\* Faulty variant: every request of a session touches it.
TouchSessionAlways ==
    /\ live
    /\ touches < MaxTouches
    /\ voting' = [voting EXCEPT !.rev = @ + 1]
    /\ touches' = touches + 1
    /\ UNCHANGED <<votes, current, live, faults, call>>

\* touchSession after a verification write, which needs a success.  Its load,
\* conditional write and retry are one step.
TouchSession ==
    /\ live
    /\ touches < MaxTouches
    /\ getCurrentFinalizationRecord # None
    /\ current.succeeded
    /\ \E exp \in {voting.exp, voting.exp + 1} :
          voting' = [voting EXCEPT !.rev = @ + 1, !.exp = exp]
    /\ touches' = touches + 1
    /\ UNCHANGED <<votes, current, live, faults, call>>

Fault == faults < MaxFaults /\ faults' = faults + 1

\* A request to DynamoDB fails, or the rate limiter does.
RequestError(c) ==
    /\ Fault
    /\ InFlight(c)
    /\ call' = [call EXCEPT ![c] = Returned(@, "ERROR")]
    /\ UNCHANGED <<voting, votes, current, live, touches>>

\* The transaction commits and its response is lost.
PersistLost(c) ==
    /\ Fault
    /\ Writing(c)
    /\ persistCondition(call[c])
    /\ persistEffect(call[c])
    /\ call' = [call EXCEPT ![c] = Returned(@, "ERROR")]

\* The TTL of the session passes.  Its items stay in the table until no running
\* request has read them.
ExpireSession ==
    /\ Fault
    /\ live
    /\ live' = FALSE
    /\ UNCHANGED <<voting, votes, current, touches, call>>

\* The pointer expires when the session has outlived it, and is deleted later.
ExpirePointer ==
    /\ Fault
    /\ current # None
    /\ ~current.expired
    /\ current' = [current EXCEPT !.expired = TRUE]
    /\ UNCHANGED <<voting, votes, live, touches, call>>

DeletePointer ==
    /\ current # None
    /\ current.expired
    /\ current' = None
    /\ UNCHANGED <<voting, votes, live, touches, faults, call>>

Step(c) ==
    \/ LoadVotingItem(c) \/ LoadVoteItems(c) \/ CheckFinalRoot(c) \/ LoadFinalization(c)
    \/ ConsumeRateLimit(c) \/ PersistVotes(c) \/ PersistConflict(c) \/ QueueFinalization(c)

Next ==
    \/ \E c \in Submits : \E o \in Openings : SubmitVote(c, o)
    \/ \E c \in Finalizes : Finalize(c)
    \/ \E c \in Calls : Step(c) \/ RequestError(c) \/ PersistLost(c)
    \/ CommitSuccess \/ TouchSession \/ ExpireSession \/ ExpirePointer \/ DeletePointer

Spec == Init /\ [][Next]_vars

-----------------------------------------------------------------------------
\* Properties.

\* The table and the requests have their types.
TypeOK ==
    /\ voting \in Voting
    /\ votes \in Seq(Vote)
    /\ current \in Finalization \cup {None}
    /\ live \in BOOLEAN
    /\ touches \in 0..MaxTouches
    /\ faults \in 0..MaxFaults
    /\ call \in [Calls -> Call]

\* The vote items and the voting item always restore to a record: the history,
\* the user's participation and the bot count describe exactly the items of the
\* other table, whatever requests have raced, failed or lost their responses
\* (restoreVotingRecord throws CT_PROOF_UNAVAILABLE for good otherwise).
StoredVotesRestore == restores(voting, votes)

\* No more than one user vote and BOT_COUNT bot votes are ever stored, although
\* two retries may each have computed a full batch (append_bot_votes).
BallotBounded == Len(votes) <= BotCount + 1

\* What the two tables hold is one ballot: the voting item and the vote items
\* restore to the same record, and racing bot batches never overfill it.
BallotSound == StoredVotesRestore /\ BallotBounded

\* A receipt names the stored user vote, with the opening of its request, in a
\* session whose bot votes are all stored, now and forever
\* (completeVoteSubmission).
ReceiptHolds ==
    \A c \in Submits : call[c].outcome = "RECEIPT" =>
        /\ Len(votes) = BotCount + 1
        /\ call[c].receipt = votes[1]
        /\ votes[1].opening = call[c].opening

\* Only another opening is told ALREADY_VOTED: a request that finds its own vote
\* stored, by a twin or by an earlier try whose response was lost, is not refused
\* (resolveUserVoteReplay).
RefusedIsAnother ==
    \A c \in Submits : call[c].outcome = "ALREADY_VOTED" =>
        votes # <<>> /\ votes[1].opening # call[c].opening

\* What a voter is told stays true whatever requests come later: a receipt names
\* the stored vote of its own opening, a refusal means that another one is stored.
AnswersTrue == ReceiptHolds /\ RefusedIsAnother

\* The prover input of the current finalization, built from votes read before the
\* finalization was queued, is the complete and final ballot
\* (admitFinalizationSession, persistVoteMutation).
InputIsBallot ==
    current # None => current.input = votes /\ Len(votes) = BotCount + 1

\* No request gives up for contention, even with one retry instead of the code's
\* two: a failed condition means that the vote, the batch or the finalization of
\* another request is stored, and the reload finds it (mutateVotes,
\* startBotVoting).
RetriesSuffice == \A c \in Calls : call[c].outcome # "CONTENTION"

\* The ballot only grows: no request rewrites or removes a stored vote
\* (persistVoteMutation).
BallotAppendOnly ==
    [][/\ Len(votes) <= Len(votes')
       /\ \A i \in 1..Len(votes) : votes'[i] = votes[i]]_vars

\* docs/ui/api-contract.md: concurrent requests with the same opening converge to
\* the same receipt.  With one opening, no finalization and no fault, every
\* submission that the rate limit admits returns the receipt.
IdenticalRequestsConverge ==
    (faults = 0 /\ Finalizes = {} /\ \A o, p \in Openings : o = p) =>
        \A c \in Submits : call[c].stage = "done" =>
            call[c].outcome \in {"RECEIPT", "RATE_LIMITED"}

=============================================================================

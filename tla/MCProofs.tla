------------------------------ MODULE MCProofs ------------------------------
(***************************************************************************)
(* What a voter's evidence rests on: the board's Merkle proofs, the bitmap *)
(* proofs, the guest's tally of them, and the verdict drawn from all that. *)
(* A behaviour is a behaviour of one instance, chosen by part: the         *)
(* variables of the others keep the value Off.  The module extends the     *)
(* verdict's, an election with two cast votes, one of them the voter's.    *)
(***************************************************************************)
EXTENDS VerificationVerdict, Sequences, TLC

CONSTANTS Off, c1, c2, c3, c4, c5, c6, c7, a1, a2, a3

VARIABLES
    part,
    votes, history, live, other, voter, pager, heads, journal, clock,
    truth, stored, mine, result, status,
    phase, input, next, tally, seen, included, commitments, counts, output

boardVars   == <<votes, history, live, other, voter, pager, heads, journal, clock>>
bitmapVars  == <<truth, stored, mine, result, status>>
guestVars   == <<phase, input, next, tally, seen, included, commitments, counts, output>>
allVars == <<part, vars, boardVars, bitmapVars, guestVars>>

-----------------------------------------------------------------------------
\* The board: a growing tree, a voter shown two logs, proofs that arrive damaged,
\* a reader of pages, and auditors that publish heads.

Tree == INSTANCE BulletinBoard WITH
    Commitments <- {c1, c2, c3, c4, c5, c6}, Voter <- c1, Auditors <- {}, MinMatches <- 2,
    PageLimit <- 0, MaxSize <- 6, MaxOther <- 0
Fork == INSTANCE BulletinBoard WITH
    Commitments <- {c1, c2, c3, c4}, Voter <- c1, Auditors <- {}, MinMatches <- 2,
    PageLimit <- 0, MaxSize <- 4, MaxOther <- 3
Paths == INSTANCE BulletinBoard WITH
    Commitments <- {c1, c2, c3, c4, c5}, Voter <- c7, Auditors <- {}, MinMatches <- 2,
    PageLimit <- 0, MaxSize <- 5, MaxOther <- 0
Pages == INSTANCE BulletinBoard WITH
    Commitments <- {c1, c2, c3, c4, c5}, Voter <- c1, Auditors <- {}, MinMatches <- 2,
    PageLimit <- 2, MaxSize <- 5, MaxOther <- 0
Heads == INSTANCE BulletinBoard WITH
    Commitments <- {c1, c2, c3}, Voter <- c1, Auditors <- {a1, a2, a3}, MinMatches <- 2,
    PageLimit <- 0, MaxSize <- 2, MaxOther <- 2

\* Commitments other than the voter's are alike, so of the boards that differ in
\* their names only the one that has them in this order is needed.
Rank == c1 :> 0 @@ c2 :> 1 @@ c3 :> 2 @@ c4 :> 3 @@ c5 :> 4 @@ c6 :> 5 @@ c7 :> 6
InOrder(vs) ==
    \A n \in DOMAIN vs :
        vs[n].commit # c1 => Rank[vs[n].commit] = Cardinality({k \in 1..n : vs[k].commit # c1})

\* Every pair of bitmaps, in chunks of two bits and in a tree of single bits.
Chunks == INSTANCE BitmapProof WITH ChunkBits <- 2, MaxBits <- 4
Levels == INSTANCE BitmapProof WITH ChunkBits <- 1, MaxBits <- 4

\* Logs of up to two commitments and one that is too long, and records that are
\* wrong in every one of the ways the guest tells apart.
Commits == {<<0, 1>>, <<1, 1>>}
Guest == INSTANCE GuestTally WITH
    Records <- {r \in [commit : Commits, choice : {0, 1, 5}, random : {1}, index : 0..2,
                       path : {[ok |-> TRUE, nodes |-> 1], [ok |-> FALSE, nodes |-> 2]}] :
                    /\ r.choice = 5 \/ r.index = 2 => r.commit = <<0, 1>>
                    /\ r.path.ok \/ r.choice = 0},
    Logs <- {<<>>} \cup {<<a>> : a \in Commits} \cup {<<a, b>> : a, b \in Commits}
                   \cup {<<<<0, 1>>, <<1, 1>>, <<0, 2>>>>},
    MaxTreeSize <- 2, MaxVoteCount <- 2, MaxPathNodes <- 2, MaxTotalNodes <- 3, MaxCount <- 4,
    MaxVotes <- 3, journal <- output

ASSUME Instances == Guest!TallyConstants /\ VerdictConstants

-----------------------------------------------------------------------------
Is(v) == v = Off

NoBoard   == /\ Is(votes) /\ Is(history) /\ Is(live) /\ Is(other) /\ Is(voter) /\ Is(pager)
             /\ Is(heads) /\ Is(journal) /\ Is(clock)
NoBitmap  == /\ Is(truth) /\ Is(stored) /\ Is(mine) /\ Is(result) /\ Is(status)
NoGuest   == /\ Is(phase) /\ Is(input) /\ Is(next) /\ Is(tally) /\ Is(seen) /\ Is(included)
             /\ Is(commitments) /\ Is(counts) /\ Is(output)
NoVerdict == /\ Is(world) /\ Is(admitted) /\ Is(record) /\ Is(sth) /\ Is(resource) /\ Is(page)

SuiteInit ==
    \/ /\ \/ part = "tree" /\ Tree!Init
          \/ part = "fork" /\ Fork!Init
          \/ part = "paths" /\ Paths!Init
          \/ part = "pages" /\ Pages!Init
          \/ part = "heads" /\ Heads!Init
       /\ NoBitmap /\ NoGuest /\ NoVerdict
    \/ /\ \/ part = "chunks" /\ Chunks!Init
          \/ part = "levels" /\ Levels!Init
       /\ NoBoard /\ NoGuest /\ NoVerdict
    \/ part = "guest" /\ Guest!Init /\ NoBoard /\ NoBitmap /\ NoVerdict
    \/ part = "verdict" /\ Init /\ NoBoard /\ NoBitmap /\ NoGuest

SuiteNext ==
    \/ /\ \/ part = "tree" /\ Tree!Next
          \/ part = "fork" /\ Fork!Next
          \/ part = "paths" /\ Paths!Next
          \/ part = "pages" /\ Pages!Next
          \/ part = "heads" /\ Heads!Next
       /\ InOrder(votes')
       /\ UNCHANGED <<part, bitmapVars, guestVars, vars>>
    \/ /\ \/ part = "chunks" /\ Chunks!Next
          \/ part = "levels" /\ Levels!Next
       /\ UNCHANGED <<part, boardVars, guestVars, vars>>
    \/ part = "guest" /\ Guest!Next /\ UNCHANGED <<part, boardVars, bitmapVars, vars>>
    \/ part = "verdict" /\ Next /\ UNCHANGED <<part, boardVars, bitmapVars, guestVars>>

SuiteSpec == SuiteInit /\ [][SuiteNext]_allVars

-----------------------------------------------------------------------------
\* The board's proofs are worth what they claim: every generated proof verifies,
\* from caches or afresh, a damaged one convinces no verifier, a voter that has
\* accepted a head keeps its vote in it though it is shown two logs, pages add up
\* to the tree of their root, and third parties vouch only for what they saw.
BulletinProofsSound ==
    /\ part = "tree" => /\ Tree!TypeOK /\ Tree!GeneratedProofsVerify /\ Tree!CachesHold
                        /\ Tree!HistoryRestores
    /\ part = "fork" => Fork!CastVoteInHead
    /\ part = "paths" => Paths!VerifiersAgree
    /\ part = "pages" => Pages!PagesMakeTheTree
    /\ part = "heads" => Heads!SthVerifiedMeansSeen

\* What the voter is told about its vote is what the guest did with it, and stored
\* bitmaps that differ from the proved ones are refused (getBitmapProof,
\* explainVoteInclusionStatus).
BitmapsTrue ==
    /\ part = "chunks" => Chunks!TypeOK /\ Chunks!ToldWhatTheGuestDid /\ Chunks!AnswersVerify
    /\ part = "levels" => Levels!TypeOK /\ Levels!ToldWhatTheGuestDid /\ Levels!AnswersVerify

\* A committed journal is the tally of the board: every counted vote is on the
\* board once, nothing is left out silently, every input the executor lets
\* through is accepted by host and guest, and the order of records is irrelevant.
TallyIsTrue ==
    part = "guest" =>
        /\ Guest!TypeOK /\ Guest!GuestNeverRefusesOutput /\ Guest!PreflightSuffices
        /\ Guest!TallyIsOfBoard /\ Guest!CountedOnce /\ Guest!NothingExcludedSilently
        /\ Guest!JournalAdmitted /\ Guest!HostBitmapsMatch /\ Guest!MockAgrees
        /\ Guest!CommitmentOrderFree

\* "Verified" is shown only for an election with nothing excluded, recounted or
\* claimed for another image, and a failed required check is always shown.
VerdictIsJust ==
    part = "verdict" =>
        /\ TypeOK /\ VerifiedIsJustified /\ EligibleIsCoherent
        /\ NeverContradictory /\ FailureIsShown
        /\ AdmittedArtifactsPass /\ ServerResourceAdmitted

\* The auditors are alike.
Symmetry == Permutations({a1, a2, a3})

=============================================================================

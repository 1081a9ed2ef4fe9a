----------------------------- MODULE GuestTally -----------------------------
(***************************************************************************)
(* The tally inside the proof. An input is collected from the session,     *)
(* admitted by the executor and the host, validated again by the guest,    *)
(* which takes the records one by one and commits a journal. The host      *)
(* recomputes the bitmaps outside the proof, the mock executor the whole   *)
(* tally, and the API admits the journal by arithmetic of its own.         *)
(* A commitment is the pair that opens it, a root is the log it is of.     *)
(***************************************************************************)
EXTENDS Integers, FiniteSets, Sequences, TLC

CONSTANTS
    Records,         \* records a session may hand over: [commit, choice, random, index, path]
    Logs,            \* logs of commitments
    MaxTreeSize,     \* MAX_GUEST_TREE_SIZE
    MaxVoteCount,    \* MAX_GUEST_VOTE_COUNT
    MaxPathNodes,    \* MAX_GUEST_MERKLE_PATH_NODES_PER_RECORD
    MaxTotalNodes,   \* MAX_GUEST_TOTAL_PATH_NODES
    MaxCount,        \* the largest value of a counter (u32)
    MaxVotes         \* bound: records of an input

Commitments == Nat \X Nat

(* What an instance gives the constants. *)
TallyConstants ==
    /\ \A r \in Records : /\ r.commit \in Commitments /\ r.choice \in Nat /\ r.random \in Nat /\ r.index \in Nat
                          /\ r.path.ok \in BOOLEAN /\ r.path.nodes \in Nat
    /\ Logs \subseteq Seq(Commitments)
    /\ MaxTreeSize \in Nat /\ MaxVoteCount \in Nat /\ MaxPathNodes \in Nat /\ MaxTotalNodes \in Nat /\ MaxCount \in Nat
    /\ MaxTreeSize + MaxVoteCount <= MaxCount

None == [kind |-> "none"]

VARIABLES
    phase,        \* collect, executor, host, guest, tally, committed, or refused by one of them
    input,        \* [root, size, expected, at, votes]
    next,         \* records the guest has taken
    tally,        \* verified_tally
    seen,         \* index_seen
    included,     \* included_bitmap
    commitments,  \* seen_commitments
    counts,       \* [valid, invalid, seen]: the counters
    journal

vars == <<phase, input, next, tally, seen, included, commitments, counts, journal>>

Phases == {"collect", "executor", "host", "guest", "tally", "committed", "executor_refused", "host_refused", "guest_refused", "output_refused"}

Init ==
    /\ phase = "collect"
    /\ \E log \in Logs, expected \in MaxTreeSize..(MaxTreeSize + 1), at \in 0..1 :
         input = [root |-> log, size |-> Len(log), expected |-> expected, at |-> at, votes |-> <<>>]
    /\ next = 0 /\ tally = [c \in 0..4 |-> 0]
    /\ seen = {} /\ included = {} /\ commitments = {}
    /\ counts = [valid |-> 0, invalid |-> 0, seen |-> 0]
    /\ journal = None

Guest == <<next, tally, seen, included, commitments, counts>>

-----------------------------------------------------------------------------
(* The input.                                                              *)

(* A session hands over records as they are stored, tampered ones included. *)
buildVotesWithProofs(r) ==
    /\ phase = "collect" /\ Len(input.votes) < MaxVotes
    /\ input' = [input EXCEPT !.votes = Append(@, r)]
    /\ UNCHANGED <<phase, Guest, journal>>

buildZkVMInputFromSession ==
    /\ phase = "collect" /\ phase' = "executor"
    /\ UNCHANGED <<input, Guest, journal>>

total_path_nodes(votes) ==
    LET f[n \in 0..Len(votes)] == IF n = 0 THEN 0 ELSE f[n - 1] + votes[n].path.nodes
    IN  f[Len(votes)]

validate_guest_work_budget(in) ==
    /\ in.size \in 1..MaxTreeSize /\ in.expected <= MaxTreeSize /\ Len(in.votes) <= MaxVoteCount
    /\ \A n \in DOMAIN in.votes : in.votes[n].path.nodes <= MaxPathNodes
    /\ total_path_nodes(in.votes) <= MaxTotalNodes

(* The executor: the numbers fit the wire, and the same budget in TypeScript. *)
assertZkvmWireNumericPreflight(in) ==
    /\ in.at > 0
    /\ \A n \in DOMAIN in.votes : in.votes[n].index <= MaxCount /\ in.votes[n].choice <= 255

calculateTotalPathNodes(votes) ==
    LET f[n \in 0..Len(votes)] == IF n = 0 THEN 0 ELSE f[n - 1] + votes[n].path.nodes
    IN  f[Len(votes)]

validateGuestWorkBudget(in) ==
    /\ in.size \in 1..MaxTreeSize /\ in.expected <= MaxTreeSize /\ Len(in.votes) <= MaxVoteCount
    /\ \A n \in DOMAIN in.votes : in.votes[n].path.nodes <= MaxPathNodes
    /\ calculateTotalPathNodes(in.votes) <= MaxTotalNodes

executeZkVM ==
    /\ phase = "executor"
    /\ phase' = IF assertZkvmWireNumericPreflight(input) /\ validateGuestWorkBudget(input) THEN "host" ELSE "executor_refused"
    /\ UNCHANGED <<input, Guest, journal>>

(* The host, over the file it reads. *)
host_main ==
    /\ phase = "host"
    /\ phase' = IF validate_guest_work_budget(input) THEN "guest" ELSE "host_refused"
    /\ UNCHANGED <<input, Guest, journal>>

(* The guest: the zero root is the empty log's. *)
validate(in) ==
    /\ in.root # <<>> /\ in.size \in 1..MaxTreeSize /\ in.at > 0 /\ in.expected <= MaxTreeSize
    /\ Len(in.votes) <= MaxVoteCount
    /\ \A n \in DOMAIN in.votes : in.votes[n].path.nodes <= MaxPathNodes
    /\ validate_guest_work_budget(in)

guest_main ==
    /\ phase = "guest"
    /\ phase' = IF validate(input) THEN "tally" ELSE "guest_refused"
    /\ UNCHANGED <<input, Guest, journal>>

-----------------------------------------------------------------------------
(* The tally.                                                              *)

compute_commitment(choice, random) == <<choice, random>>

(* An audit path verifies for the leaf that is at the index of the log (module BulletinBoard, VerifiersAgree). *)
verify_inclusion_proof_rfc6962(r) ==
    r.path.ok /\ input.size = Len(input.root) /\ input.root[r.index + 1] = r.commit

(* Faulty variant: a commitment is compared with those counted at its own index only. *)
RejectionReasonTwice(r) ==
    CASE r.index >= input.size -> "OutOfRangeIndex"
      [] r.index < input.size /\ r.index \in seen -> "DuplicateIndex"
      [] OTHER -> IF r.choice >= 5 THEN "InvalidChoice"
                  ELSE IF compute_commitment(r.choice, r.random) # r.commit THEN "InvalidCommitment"
                  ELSE IF ~verify_inclusion_proof_rfc6962(r) THEN "InvalidInclusionProof" ELSE "Accepted"

RejectionReason(r) ==
    CASE r.index >= input.size -> "OutOfRangeIndex"
      [] r.index < input.size /\ r.index \in seen -> "DuplicateIndex"
      [] OTHER -> IF r.choice >= 5 THEN "InvalidChoice"
                  ELSE IF compute_commitment(r.choice, r.random) # r.commit THEN "InvalidCommitment"
                  ELSE IF r.commit \in commitments THEN "DuplicateCommitment"
                  ELSE IF ~verify_inclusion_proof_rfc6962(r) THEN "InvalidInclusionProof" ELSE "Accepted"

(* A record whose slot is new takes it; one that opens reserves its commitment before its path is checked. *)
TakesSlot(reason) == reason \notin {"OutOfRangeIndex", "DuplicateIndex"}

Reserves(reason) == reason \in {"InvalidInclusionProof", "Accepted"}

checked_increment(n) == n < MaxCount

verify_and_tally ==
    /\ phase = "tally" /\ next < Len(input.votes)
    /\ LET r == input.votes[next + 1]
           reason == RejectionReason(r)
           ok == reason = "Accepted"
       IN  /\ next' = next + 1
           /\ seen' = IF TakesSlot(reason) THEN seen \cup {r.index} ELSE seen
           /\ commitments' = IF Reserves(reason) THEN commitments \cup {r.commit} ELSE commitments
           /\ included' = IF ok THEN included \cup {r.index} ELSE included
           /\ tally' = IF ok THEN [tally EXCEPT ![r.choice] = @ + 1] ELSE tally
           /\ counts' = [valid |-> IF ok THEN counts.valid + 1 ELSE counts.valid,
                         invalid |-> IF ok THEN counts.invalid ELSE counts.invalid + 1,
                         seen |-> IF TakesSlot(reason) THEN counts.seen + 1 ELSE counts.seen]
           /\ phase' = IF /\ checked_increment(IF ok THEN counts.valid ELSE counts.invalid)
                          /\ TakesSlot(reason) => checked_increment(counts.seen)
                          /\ ok => tally[r.choice] < MaxTreeSize
                       THEN "tally" ELSE "output_refused"
    /\ UNCHANGED <<input, journal>>

-----------------------------------------------------------------------------
(* The journal.                                                            *)

checked_tally_sum(t) == t[0] + t[1] + t[2] + t[3] + t[4]

compare_merkle_paths(p, q) == p.nodes < q.nodes \/ (p.nodes = q.nodes /\ p.ok /\ ~q.ok)

Encoded(r) == [index |-> r.index, commit |-> r.commit, path |-> r.path]

compare_votes(a, b) ==
    \/ a.index < b.index
    \/ /\ a.index = b.index
       /\ \/ a.commit[1] < b.commit[1] \/ (a.commit[1] = b.commit[1] /\ a.commit[2] < b.commit[2])
          \/ a.commit = b.commit /\ compare_merkle_paths(a.path, b.path)

is_sorted_by_canonical_ordering(es) == \A n \in 1..(Len(es) - 1) : ~compare_votes(es[n + 1], es[n])

(* The bytes the input commitment hashes: sorted only if they are not in order already. *)
encode_input_commitment_preimage(in) ==
    LET es == [n \in DOMAIN in.votes |-> Encoded(in.votes[n])]
    IN  <<in.root, in.size, in.expected, IF is_sorted_by_canonical_ordering(es) THEN es ELSE SortSeq(es, compare_votes)>>

compute_sth_digest(in) == <<in.size, in.at, in.root>>

excluded_slots(size, seenCount, valid) == (size - seenCount) + (seenCount - valid)

Output ==
    [kind |-> "journal", root |-> input.root, size |-> input.size, expected |-> input.expected, tally |-> tally,
     total |-> Len(input.votes), valid |-> counts.valid, invalid |-> counts.invalid, seenCount |-> counts.seen,
     missing |-> input.size - counts.seen, invalidPresented |-> counts.seen - counts.valid,
     rejected |-> counts.invalid, excluded |-> excluded_slots(input.size, counts.seen, counts.valid),
     seenRoot |-> seen, includedRoot |-> included,
     inputCommitment |-> encode_input_commitment_preimage(input), sth |-> compute_sth_digest(input)]

(* The guest's checks of its own output, the subtractions of AccountingSummary included. *)
build_verification_output ==
    /\ Len(input.votes) = counts.valid + counts.invalid
    /\ checked_tally_sum(tally) = counts.valid
    /\ Cardinality(seen) = counts.seen
    /\ Cardinality(included) = counts.valid
    /\ included \subseteq seen
    /\ counts.seen <= input.size /\ counts.valid <= counts.seen
    /\ input.size <= MaxCount

Commit ==
    /\ phase = "tally" /\ next = Len(input.votes)
    /\ IF build_verification_output THEN phase' = "committed" /\ journal' = Output
       ELSE phase' = "output_refused" /\ journal' = journal
    /\ UNCHANGED <<input, Guest>>

Next == \/ \E r \in Records : buildVotesWithProofs(r)
        \/ buildZkVMInputFromSession \/ executeZkVM \/ host_main \/ guest_main \/ verify_and_tally \/ Commit

Spec == Init /\ [][Next]_vars

-----------------------------------------------------------------------------
(* What others compute from the same input or the same journal.            *)

hostSees(s, r) == r.index < input.size /\ r.index \notin s.seen

(* The host's bitmaps, after n records. *)
build_exact_bitmaps ==
    LET f[n \in 0..Len(input.votes)] ==
          IF n = 0 THEN [seen |-> {}, included |-> {}, commitments |-> {}]
          ELSE LET s == f[n - 1]
                   r == input.votes[n]
                   sees == hostSees(s, r)
                   opens == sees /\ r.choice < 5 /\ compute_commitment(r.choice, r.random) = r.commit
                            /\ r.commit \notin s.commitments
               IN  [seen |-> IF sees THEN s.seen \cup {r.index} ELSE s.seen,
                    commitments |-> IF opens THEN s.commitments \cup {r.commit} ELSE s.commitments,
                    included |-> IF opens /\ verify_inclusion_proof_rfc6962(r) THEN s.included \cup {r.index} ELSE s.included]
    IN  f[Len(input.votes)]

(* The host writes an artifact only if its root is the one in the journal. *)
bitmap_artifacts ==
    {b \in {"seen", "included"} : IF b = "seen" THEN build_exact_bitmaps.seen = journal.seenRoot
                                 ELSE build_exact_bitmaps.included = journal.includedRoot}

mockTakes(s, r) == r.index < input.size /\ r.index \notin s.seen

(* The mock executor, which leaves the audit paths unchecked. *)
verifyAndTallyVotes ==
    LET f[n \in 0..Len(input.votes)] ==
          IF n = 0 THEN [seen |-> {}, included |-> {}, commitments |-> {}, tally |-> [c \in 0..4 |-> 0], valid |-> 0, invalid |-> 0]
          ELSE LET s == f[n - 1]
                   r == input.votes[n]
                   takes == mockTakes(s, r)
                   ok == takes /\ r.choice <= 4 /\ compute_commitment(r.choice, r.random) = r.commit
                         /\ r.commit \notin s.commitments
               IN  [seen |-> IF takes THEN s.seen \cup {r.index} ELSE s.seen,
                    included |-> IF ok THEN s.included \cup {r.index} ELSE s.included,
                    commitments |-> IF ok THEN s.commitments \cup {r.commit} ELSE s.commitments,
                    tally |-> IF ok THEN [s.tally EXCEPT ![r.choice] = @ + 1] ELSE s.tally,
                    valid |-> IF ok THEN s.valid + 1 ELSE s.valid,
                    invalid |-> IF ok THEN s.invalid ELSE s.invalid + 1]
    IN  f[Len(input.votes)]

(* The API admits a journal whose counts make a partition of the slots. *)
hasCoherentZkVMVoteSlotPartition(j) ==
    /\ j.size > 0
    /\ checked_tally_sum(j.tally) + j.invalidPresented = j.seenCount
    /\ j.seenCount + j.missing = j.size
    /\ j.rejected >= j.invalidPresented
    /\ j.missing + j.invalidPresented = j.excluded
    /\ j.invalidPresented # 0 \/ j.seenRoot = j.includedRoot

hasCoherentCurrentZkVMJournalSemantics(j) ==
    /\ hasCoherentZkVMVoteSlotPartition(j)
    /\ checked_tally_sum(j.tally) = j.valid
    /\ j.valid + j.invalid = j.total
    /\ j.rejected = j.invalid

-----------------------------------------------------------------------------
(* The variables keep their types. *)
TypeOK ==
    /\ phase \in Phases
    /\ input.root \in Logs /\ input.size = Len(input.root) /\ input.expected \in Nat /\ input.at \in Nat
    /\ input.votes \in Seq(Records)
    /\ next \in 0..Len(input.votes)
    /\ tally \in [0..4 -> Nat]
    /\ seen \subseteq 0..(input.size - 1) /\ included \subseteq seen
    /\ commitments \subseteq Commitments
    /\ counts \in [valid : Nat, invalid : Nat, seen : Nat]

(* Nothing the guest takes makes its own checks of the output or of a counter fail: the proof of an input   *)
(* it validated does not end in a panic (checked_increment, build_verification_output).                     *)
GuestNeverRefusesOutput == phase # "output_refused"

(* Neither the host nor the guest refuses an input that the executor let pass: the bounds written in        *)
(* TypeScript and twice in Rust agree (validateGuestWorkBudget, ValidatedAggregatorInput).                  *)
PreflightSuffices == phase \notin {"host_refused", "guest_refused"}

(* The journal's tally is that of the log: each choice has as many votes as there are counted slots whose   *)
(* commitment on the log opens to it, whatever the records claimed (verify_and_tally_core).                 *)
TallyIsOfBoard ==
    phase = "committed" =>
        /\ \A i \in journal.includedRoot : journal.root[i + 1][1] \in 0..4
        /\ \A c \in 0..4 : journal.tally[c] = Cardinality({i \in journal.includedRoot : journal.root[i + 1][1] = c})

(* No commitment is counted at two slots. *)
CountedOnce ==
    phase = "committed" =>
        \A i, k \in journal.includedRoot : journal.root[i + 1] = journal.root[k + 1] => i = k

(* A journal that reports no excluded slot counts every slot of the log, and one that reports no missing    *)
(* slot was given a record for each: what is left out shows in the counts (AccountingSummary).              *)
NothingExcludedSilently ==
    phase = "committed" =>
        /\ journal.excluded = 0 => journal.includedRoot = 0..(journal.size - 1)
        /\ journal.missing = 0 => journal.seenRoot = 0..(journal.size - 1)

(* Every journal the guest commits is admitted by the arithmetic of the API: a proof is not thrown away      *)
(* because the two count differently (hasCoherentCurrentZkVMJournalSemantics).                               *)
JournalAdmitted == phase = "committed" => hasCoherentCurrentZkVMJournalSemantics(journal)

(* The bitmaps the host computes outside the proof are those the guest committed to, so that the artifacts  *)
(* are written (build_exact_bitmaps).                                                                        *)
HostBitmapsMatch ==
    phase = "committed" => bitmap_artifacts = {"seen", "included"}

(* The mock executor, which checks no audit path, agrees with the guest on every input whose opened records *)
(* are on the log at their index (mock-executor.ts).                                                         *)
MockAgrees ==
    phase = "committed" /\ (\A n \in DOMAIN input.votes :
                               LET r == input.votes[n]
                               IN  r.index < input.size /\ r.choice <= 4 /\ r.commit = <<r.choice, r.random>>
                                   => verify_inclusion_proof_rfc6962(r)) =>
        /\ verifyAndTallyVotes.tally = journal.tally
        /\ verifyAndTallyVotes.seen = journal.seenRoot /\ verifyAndTallyVotes.included = journal.includedRoot
        /\ verifyAndTallyVotes.valid = journal.valid /\ verifyAndTallyVotes.invalid = journal.invalid

(* The input commitment does not depend on the order the records are handed over in, whether they are       *)
(* sorted or were in order (encode_input_commitment_preimage).                                               *)
CommitmentOrderFree ==
    phase = "committed" =>
        \A p \in Permutations(DOMAIN input.votes) :
            encode_input_commitment_preimage([input EXCEPT !.votes = [n \in DOMAIN input.votes |-> input.votes[p[n]]]])
              = journal.inputCommitment
=============================================================================

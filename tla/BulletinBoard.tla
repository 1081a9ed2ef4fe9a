--------------------------- MODULE BulletinBoard ---------------------------
(***************************************************************************)
(* The bulletin board of a session: votes are staged onto a board rebuilt  *)
(* from the stored votes, their roots go to the stored history, proofs are *)
(* served from the live board with its caches, and a voter follows the     *)
(* heads it is shown. A second log stands for a board that shows some      *)
(* readers another history; nothing in the repository writes it.           *)
(***************************************************************************)
EXTENDS MerkleTree

CONSTANTS
    Commitments,   \* vote commitments
    Auditors,      \* third parties that publish the head they saw
    MinMatches,    \* STH sources that have to agree (minMatchingSources)
    PageLimit,     \* page size of the reader, 0 for no reader
    Voter,         \* the commitment of the voter that follows the log
    MaxSize,       \* bound: votes of the board
    MaxOther       \* bound: entries of the second log

Absent == <<>>

VARIABLES
    votes,    \* stored votes, in index order: [commit, at, root]
    history,  \* the stored root history: [root, size, at], or Absent
    live,     \* the board in memory: its leaves and its two caches
    other,    \* the second log
    voter,    \* the voter: its index, its receipt and the head it accepts
    pager,    \* a reader of the commitments, page by page
    heads,    \* what each auditor publishes
    journal,  \* the head the proof is about, once the voting is closed
    clock

vars == <<votes, history, live, other, voter, pager, heads, journal, clock>>

Commits(vs) == [n \in DOMAIN vs |-> vs[n].commit]
Board == Commits(votes)

EmptyBoard == [leaves |-> <<>>, roots |-> <<>>, mth |-> {}]

Init ==
    /\ votes = <<>> /\ history = <<>>
    /\ live = EmptyBoard
    /\ other = <<>>
    /\ voter = [index |-> -1, size |-> 0, root |-> EmptyRoot]
    /\ pager = [got |-> <<>>, offset |-> 0, done |-> FALSE, root |-> EmptyRoot]
    /\ heads = [a \in Auditors |-> [kind |-> "none"]]
    /\ journal = [closed |-> FALSE]
    /\ clock = 1

-----------------------------------------------------------------------------
(* The board in memory. mth holds the inner ranges that were computed.     *)

Keyed(start, size) == <<start, size>>

RECURSIVE ranges(_, _)
ranges(start, size) ==
    LET k == largestPowerOfTwoLessThan(size)
    IN  IF size <= 1 THEN {} ELSE {<<start, size>>} \cup ranges(start, k) \cup ranges(start + k, size - k)

(* The cached value of a range, or the one computed from its two halves. *)
RECURSIVE cachedRange(_, _, _)
cachedRange(b, start, size) ==
    LET k == largestPowerOfTwoLessThan(size)
        hit == {e \in b.mth : e.key = Keyed(start, size)}
    IN  CASE size = 0 -> EmptyRoot
          [] size = 1 -> hashLeaf(b.leaves[start + 1])
          [] size > 1 /\ hit # {} -> (CHOOSE e \in hit : TRUE).value
          [] OTHER -> hashPair(cachedRange(b, start, k), cachedRange(b, start + k, size - k))

(* The root cache is a sequence, Bad where a size has not been asked for. *)
getRootAtSize(b, n) ==
    IF b.roots[n] # Bad THEN b
    ELSE [b EXCEPT !.roots[n] = cachedRange(b, 0, n),
                   !.mth = @ \cup {[key |-> Keyed(r[1], r[2]), value |-> cachedRange(b, r[1], r[2])] : r \in ranges(0, n)}]

(* append drops the cached roots of larger trees, and appendVote then asks for the root. *)
append(b, c) ==
    LET longer == [b EXCEPT !.leaves = Append(@, c), !.roots = Append(@, Bad)]
    IN  getRootAtSize(longer, Len(longer.leaves))

RECURSIVE rebuild(_)
rebuild(log) == IF log = <<>> THEN EmptyBoard ELSE append(rebuild(Front(log)), Last(log))

-----------------------------------------------------------------------------
(* Storing votes and restoring the session.                                *)

rebuildCanonicalHistoryFromVotes(vs) ==
    [n \in DOMAIN vs |-> [root |-> mthRange(Commits(vs), 0, n), size |-> n, at |-> vs[n].at]]

(* The stored history is used only when it has every root, and then for its times. *)
mergePersistedRootHistory(built, kept) ==
    IF Len(kept) = Len(built) /\ \A n \in DOMAIN built : kept[n].root = built[n].root /\ kept[n].size = built[n].size
    THEN [n \in DOMAIN built |-> [built[n] EXCEPT !.at = kept[n].at]]
    ELSE built

getCanonicalBulletinRootHistory == mergePersistedRootHistory(rebuildCanonicalHistoryFromVotes(votes), history)

(* A vote is staged on a board rebuilt from the stored votes and stored with its root. *)
stageCtVoteWrites(cs) ==
    LET fresh(n) == [commit |-> cs[n], at |-> clock, root |-> mthRange(Board \o cs, 0, Len(votes) + n)]
        added == [n \in DOMAIN cs |-> fresh(n)]
    IN  /\ ~journal.closed
        /\ Len(votes) + Len(cs) <= MaxSize
        /\ \A n \in DOMAIN cs : cs[n] \notin ToSet(Board)
        /\ \A n, k \in DOMAIN cs : n # k => cs[n] # cs[k]
        /\ votes' = votes \o added
        /\ history' = getCanonicalBulletinRootHistory
                      \o [n \in DOMAIN cs |-> [root |-> fresh(n).root, size |-> Len(votes) + n, at |-> clock]]
        /\ live' = rebuild(Board \o cs)
        /\ clock' = clock + 1
        /\ UNCHANGED <<other, voter, pager, heads, journal>>

(* A request restores the board from the votes; an item of an earlier release has no history. *)
Restore(kept) ==
    /\ live' = rebuild(Board)
    /\ history' = kept
    /\ <<live, history>>' # <<live, history>>
    /\ UNCHANGED <<votes, other, voter, pager, heads, journal, clock>>

OtherAppends(c) ==
    /\ Len(other) < MaxOther /\ c \notin ToSet(other)
    /\ other' = Append(other, c)
    /\ UNCHANGED <<votes, history, live, voter, pager, heads, journal, clock>>

-----------------------------------------------------------------------------
(* The voter.                                                              *)

LogOf(who) == IF who = "board" THEN live.leaves ELSE other

Pool == {mthRange(l, r[1], r[2]) : l \in {Board}, r \in {x \in (0..Len(Board)) \X (1..Len(Board)) : x[1] + x[2] <= Len(Board)}}
        \cup {mthRange(other, r[1], r[2]) : r \in {x \in (0..Len(other)) \X (1..Len(other)) : x[1] + x[2] <= Len(other)}}
        \cup ToSet(Board) \cup ToSet(other)

(* A proof as it arrives: as generated, with one node replaced, cut short or lengthened. *)
Arriving(nodes) ==
    {nodes} \cup {[nodes EXCEPT ![n] = x] : n \in DOMAIN nodes, x \in Pool}
            \cup {SubSeq(nodes, 1, n) : n \in 0..Len(nodes)}
            \cup {Append(nodes, x) : x \in Pool}

(* deriveExactCtProof: the proof of the voter's tree at the time of its cast, against the stored root. *)
deriveExactCtProof(index) ==
    IF votes[index + 1].root = mthRange(live.leaves, 0, index + 1)
    THEN getInclusionProof(live.leaves, index, index + 1) ELSE <<Bad>>

(* The receipt of the vote is checked with the inclusion proof that comes with it. *)
AcceptReceipt(index) ==
    /\ voter.index = -1 /\ index \in 0..(Len(votes) - 1) /\ votes[index + 1].commit = Voter
    /\ \E nodes \in Arriving(deriveExactCtProof(index)) :
         verifyInclusionProof(Voter, index, nodes, votes[index + 1].root, index + 1)
    /\ voter' = [index |-> index, size |-> index + 1, root |-> votes[index + 1].root]
    /\ UNCHANGED <<votes, history, live, other, pager, heads, journal, clock>>

(* resolveConsistencyProofData generates from the board that answers, for the sizes asked. *)
resolveConsistencyProofData(log, m, n) == getConsistencyProof(log, m, n)

(* The voter accepts the head of a later tree of either log with a consistency proof. *)
AcceptHead(who, n) ==
    LET log == LogOf(who)
    IN  /\ voter.index >= 0 /\ n \in (voter.size + 1)..Len(log)
        /\ \E from \in {"board", "other"} :
             /\ Len(LogOf(from)) >= n
             /\ \E nodes \in Arriving(resolveConsistencyProofData(LogOf(from), voter.size, n)) :
                  verifyConsistencyProof(voter.root, mthRange(log, 0, n), voter.size, n, nodes)
        /\ voter' = [voter EXCEPT !.size = n, !.root = mthRange(log, 0, n)]
        /\ UNCHANGED <<votes, history, live, other, pager, heads, journal, clock>>

-----------------------------------------------------------------------------
(* The reader of the commitments.                                          *)

nextOffset(offset, end) == end

getSessionBulletin ==
    LET total == Len(live.leaves)
        start == IF pager.offset < total THEN pager.offset ELSE total
        end   == IF start + PageLimit < total THEN start + PageLimit ELSE total
        hist  == getCanonicalBulletinRootHistory
    IN  /\ PageLimit > 0 /\ ~pager.done
        /\ pager' = [got |-> pager.got \o SubSeq(live.leaves, start + 1, end),
                     offset |-> nextOffset(start, end), done |-> ~(end < total),
                     root |-> IF hist = <<>> THEN EmptyRoot ELSE Last(hist).root]
        /\ pager' # pager
        /\ UNCHANGED <<votes, history, live, other, voter, heads, journal, clock>>

(* A reader that is up to date asks again from where it stopped. *)
ReadOn == /\ PageLimit > 0 /\ pager.done /\ Len(live.leaves) > Len(pager.got)
          /\ pager' = [pager EXCEPT !.done = FALSE]
          /\ UNCHANGED <<votes, history, live, other, voter, heads, journal, clock>>

-----------------------------------------------------------------------------
(* Signed tree heads.                                                      *)

compute_sth_digest(log, size, at) == <<4, size, at, mthRange(log, 0, size)>>

(* The snapshot the proof is about: the stored one if the board agrees, else the canonical one. *)
getLatestSTHSnapshot ==
    IF history # Absent /\ Last(history).size = Len(live.leaves) /\ Last(history).root = mthRange(live.leaves, 0, Len(live.leaves))
    THEN Last(history) ELSE Last(getCanonicalBulletinRootHistory)

Close ==
    /\ ~journal.closed /\ votes # <<>>
    /\ LET s == getLatestSTHSnapshot
       IN  journal' = [closed |-> TRUE, size |-> s.size, at |-> s.at, root |-> s.root,
                       digest |-> <<4, s.size, s.at, s.root>>]
    /\ UNCHANGED <<votes, history, live, other, voter, pager, heads, clock>>

(* An auditor publishes the head of the log it was shown, with the digest alone or with its fields; or nothing it says can be used. *)
Publish(a) ==
    /\ journal.closed /\ heads[a].kind = "none"
    /\ \/ \E who \in {"board", "other"} : \E bare \in BOOLEAN :
            /\ Len(LogOf(who)) > 0
            /\ LET log == LogOf(who)
               IN  heads' = [heads EXCEPT ![a] = [kind |-> "admitted", who |-> who, bare |-> bare, size |-> Len(log),
                               root |-> mthRange(log, 0, Len(log)), digest |-> compute_sth_digest(log, Len(log), journal.at)]]
       \/ heads' = [heads EXCEPT ![a] = [kind |-> "malformed"]]
       \/ heads' = [heads EXCEPT ![a] = [kind |-> "transport_failed"]]
    /\ UNCHANGED <<votes, history, live, other, voter, pager, journal, clock>>

sthMatches(h) == h.digest = journal.digest /\ (h.bare \/ (h.root = journal.root /\ h.size = journal.size))

consensus(records, matching) == records # {} /\ matching = records

(* Any source that failed, and any record that differs, is no consensus. *)
resolveSthVerificationFromProviders ==
    LET records == {a \in Auditors : heads[a].kind = "admitted"}
        matching == {a \in records : sthMatches(heads[a])}
    IN  /\ Auditors # {}
        /\ Cardinality(matching) >= MinMatches
        /\ consensus(records, matching)
        /\ records = Auditors

-----------------------------------------------------------------------------
Next ==
    \/ \E c \in Commitments : stageCtVoteWrites(<<c>>) \/ OtherAppends(c)
    \/ \E c, d \in Commitments : stageCtVoteWrites(<<c, d>>)
    \/ \E kept \in {Absent, history} : Restore(kept)
    \/ \E n \in 1..MaxSize : AcceptReceipt(n - 1) \/ AcceptHead("board", n) \/ AcceptHead("other", n)
    \/ getSessionBulletin \/ ReadOn
    \/ Close \/ \E a \in Auditors : Publish(a)

Spec == Init /\ [][Next]_vars

-----------------------------------------------------------------------------
(* The variables keep their types. *)
TypeOK ==
    /\ ToSet(Board) \cup ToSet(other) \subseteq Commitments /\ Len(Board) <= MaxSize /\ Len(other) <= MaxOther
    /\ live.leaves = Board /\ Len(live.roots) = Len(Board)
    /\ history = Absent \/ Len(history) = Len(votes)
    /\ voter.index \in -1..MaxSize /\ voter.size \in 0..MaxSize

(* The proofs the tree generates are accepted, by the package that generated them and by the guest, and   *)
(* both compute the same roots (rfc6962-merkle-tree.ts, inclusion_proof.rs).                               *)
GeneratedProofsVerify ==
    LET log == Board
        root(n) == mthRange(log, 0, n)
    IN  /\ \A n \in 1..Len(log) :
             compute_merkle_root([k \in 1..n |-> hashLeaf(log[k])]) = root(n)
        /\ \A n \in 1..Len(log) : \A k \in 0..(n - 1) :
             LET nodes == getInclusionProof(log, k, n)
             IN  /\ verifyInclusionProof(log[k + 1], k, nodes, root(n), n)
                 /\ verify_inclusion_proof_rfc6962(log[k + 1], k, nodes, root(n), n)
        /\ \A n \in 1..Len(log) : \A m \in 1..n :
             verifyConsistencyProof(root(m), root(n), m, n, getConsistencyProof(log, m, n))

(* The two verifiers of inclusion accept the same paths, and only for the leaf that is at the index, of   *)
(* every path that differs in a node or in its length from a generated one (verifyInclusionProof,          *)
(* verify_inclusion_proof_rfc6962).                                                                        *)
VerifiersAgree ==
    LET log == Board
        n == Len(log)
        root == mthRange(log, 0, n)
    IN  \A k \in 0..(n - 1) : \A j \in 0..(n - 1) :
          \A nodes \in Arriving(getInclusionProof(log, k, n)) : \A c \in ToSet(Board) \cup ToSet(other) :
             LET ts == verifyInclusionProof(c, j, nodes, root, n)
             IN  /\ ts <=> verify_inclusion_proof_rfc6962(c, j, nodes, root, n)
                 /\ ts => log[j + 1] = c

(* Every cached hash is the hash of the leaves now in the tree (rootCache, mthCache). *)
CachesHold ==
    /\ \A n \in DOMAIN live.roots : live.roots[n] \in {Bad, mthRange(live.leaves, 0, n)}
    /\ \A n \in 0..Len(live.leaves) : cachedRange(live, 0, n) = mthRange(live.leaves, 0, n)

(* A voter that accepted its receipt and then heads, each with a consistency proof, holds a head of a log  *)
(* that has its commitment at its index: a log that dropped or moved the vote cannot get its head accepted *)
(* (verifyConsistencyProof).                                                                               *)
CastVoteInHead ==
    voter.index >= 0 =>
        \A log \in {Board, other} :
            Len(log) >= voter.size /\ mthRange(log, 0, voter.size) = voter.root => log[voter.index + 1] = Voter

(* Restoring a session loses nothing: the rebuilt history has the roots the votes were stored with, and     *)
(* the snapshot the proof is about is the same with the stored history and without (mergePersistedRootHistory). *)
HistoryRestores ==
    LET hist == getCanonicalBulletinRootHistory
    IN  /\ Len(hist) = Len(votes)
        /\ \A n \in DOMAIN votes : hist[n] = [root |-> votes[n].root, size |-> n, at |-> votes[n].at]
        /\ votes # <<>> => getLatestSTHSnapshot = rebuildCanonicalHistoryFromVotes(votes)[Len(votes)]

(* A reader that follows the pages to their end while votes are added has the commitments of the root it   *)
(* was last shown, none twice and none missing (getSessionBulletinHandler).                                *)
PagesMakeTheTree ==
    pager.done => mthRange(pager.got, 0, Len(pager.got)) = pager.root

(* The tree heads are verified only if every auditor was shown the log of the proof: an auditor that saw   *)
(* another log, or could not be read, is enough to refuse (verifySthConsensus).                            *)
SthVerifiedMeansSeen ==
    journal.closed /\ resolveSthVerificationFromProviders =>
        /\ Cardinality(Auditors) >= MinMatches
        /\ \A a \in Auditors : heads[a].root = mthRange(Board, 0, journal.size) /\ heads[a].size = journal.size
=============================================================================

---------------------------- MODULE BitmapProof ----------------------------
(***************************************************************************)
(* Which votes were counted: the guest commits to the roots of two bitmaps *)
(* (the indices it saw and those it counted), the API serves the chunk of  *)
(* the voter's bit with its audit path, and the voter's client checks them *)
(* against the roots of the receipt.                                       *)
(***************************************************************************)
EXTENDS MerkleTree

CONSTANTS
    ChunkBits,   \* BITMAP_CHUNK_BITS
    MaxBits      \* bound: votes of the election

Kinds == {"included", "seen"}

VARIABLES
    truth,    \* the guest's bitmaps
    stored,   \* the bitmap data the API reads
    mine,     \* the voter's index
    result,   \* what the client found for each kind
    status    \* what the voter is told

vars == <<truth, stored, mine, result, status>>

-----------------------------------------------------------------------------
(* The tree over a bitmap: a bitmap is a sequence of booleans.             *)

LeafCount(len) == IF len = 0 THEN 1 ELSE CeilDiv(len, ChunkBits)

getBitmapLeafChunk(bits, leaf) ==
    [n \in 1..ChunkBits |-> leaf * ChunkBits + n <= Len(bits) /\ bits[leaf * ChunkBits + n]]

bitmapLeaves(bits) == [n \in 1..LeafCount(Len(bits)) |-> hashLeaf(getBitmapLeafChunk(bits, n - 1))]

RECURSIVE buildBitmapMerkleTreeByteLevels(_)
buildBitmapMerkleTreeByteLevels(nodes) ==
    IF Len(nodes) <= 1 THEN <<nodes>> ELSE <<nodes>> \o buildBitmapMerkleTreeByteLevels(nextLevel(nodes))

computeIncludedBitmapRoot(bits) == Last(buildBitmapMerkleTreeByteLevels(bitmapLeaves(bits)))[1]

(* The guest's computation of the same root. *)
compute_bitmap_merkle_root(bits) == compute_merkle_root(bitmapLeaves(bits))

calculateBitmapLeafIndex(bit) == bit \div ChunkBits
calculateBitmapBitOffset(bit) == bit % ChunkBits

SiblingIndex(index) == IF index % 2 = 0 THEN index + 1 ELSE index - 1

Side(index) == IF index % 2 = 0 THEN "right" ELSE "left"

RECURSIVE auditPath(_, _)
auditPath(levels, index) ==
    IF Len(levels) <= 1 THEN <<>>
    ELSE (IF SiblingIndex(index) < Len(levels[1])
          THEN <<[hash |-> levels[1][SiblingIndex(index) + 1], position |-> Side(index)]>> ELSE <<>>)
         \o auditPath(Tail(levels), index \div 2)

generateBitmapMerkleProof(bits, bit) ==
    LET leaf == calculateBitmapLeafIndex(bit)
    IN  [chunk |-> getBitmapLeafChunk(bits, leaf),
         path |-> auditPath(buildBitmapMerkleTreeByteLevels(bitmapLeaves(bits)), leaf)]

-----------------------------------------------------------------------------
(* The client's verifier.                                                  *)

hasLevelSibling(index, size) == SiblingIndex(index) < size

RECURSIVE deriveAuditPathPositions(_, _)
deriveAuditPathPositions(index, size) ==
    IF size <= 1 THEN <<>>
    ELSE (IF hasLevelSibling(index, size) THEN <<Side(index)>> ELSE <<>>)
         \o deriveAuditPathPositions(index \div 2, CeilDiv(size, 2))

(* Faulty variant: the positions are believed. *)
isValidAuthenticatedTreeShapeAny(size, bit, audit) == size > 0 /\ bit < size

isValidAuthenticatedTreeShape(size, bit, audit) ==
    /\ size > 0 /\ bit < size
    /\ [n \in DOMAIN audit |-> audit[n].position] =
         deriveAuditPathPositions(calculateBitmapLeafIndex(bit), CeilDiv(size, ChunkBits))

hasZeroUnusedPadding(chunk, size, leaf) ==
    leaf = CeilDiv(size, ChunkBits) - 1 => \A n \in 1..ChunkBits : leaf * ChunkBits + n > size => ~chunk[n]

RECURSIVE foldPath(_, _)
foldPath(node, audit) ==
    IF audit = <<>> THEN node
    ELSE foldPath(IF Head(audit).position = "left" THEN hashPair(Head(audit).hash, node) ELSE hashPair(node, Head(audit).hash),
                  Tail(audit))

verifyBitmapMerkleProof(proof, bit, size, root) ==
    LET shaped == /\ isValidAuthenticatedTreeShape(size, bit, proof.path)
                  /\ hasZeroUnusedPadding(proof.chunk, size, calculateBitmapLeafIndex(bit))
    IN  [valid |-> shaped /\ foldPath(hashLeaf(proof.chunk), proof.path) = root,
         included |-> shaped /\ proof.chunk[calculateBitmapBitOffset(bit) + 1]]

-----------------------------------------------------------------------------
(* The API and the client.                                                 *)

(* The journal has the guest's roots, the store those the host computed. *)
journalRoot(kind) == compute_bitmap_merkle_root(truth[kind])

Size == Len(truth["seen"])

(* The stored bits must have the length of the journal's tree and its root. *)
hasMatchingBitmapRoot(kind) ==
    /\ Len(stored.bits[kind]) = Size
    /\ computeIncludedBitmapRoot(stored.bits[kind]) = stored.root[kind]
    /\ stored.root[kind] = journalRoot(kind)

Refused == [chunk |-> <<>>, path |-> <<>>]

resolveBitmapProofResponse(kind, bit) ==
    IF stored.bits[kind] # <<>> /\ bit < Len(stored.bits["included"]) /\ hasMatchingBitmapRoot(kind)
    THEN generateBitmapMerkleProof(stored.bits[kind], bit) ELSE Refused

(* What reaches the client: the answer, or one that was changed on the way, or made for another bit or bitmap. *)
Pool(kind) == ToSet(bitmapLeaves(truth[kind])) \cup {journalRoot(kind)}

Arriving(proof) ==
    {proof}
    \cup {[proof EXCEPT !.chunk[n] = ~@] : n \in DOMAIN proof.chunk}
    \cup {[proof EXCEPT !.path[n].hash = x] : n \in DOMAIN proof.path, x \in Pool("included")}
    \cup {[proof EXCEPT !.path[n].position = IF @ = "left" THEN "right" ELSE "left"] : n \in DOMAIN proof.path}
    \cup {[proof EXCEPT !.path = SubSeq(@, 1, n)] : n \in 0..Len(proof.path)}
    \cup {generateBitmapMerkleProof(truth[k], b) : k \in Kinds, b \in 0..(Size - 1)}

Unasked == [valid |-> FALSE, included |-> FALSE, got |-> "none"]

Init ==
    /\ \E n \in 1..MaxBits : \E seen \in [1..n -> BOOLEAN] : \E included \in [1..n -> BOOLEAN] :
         /\ \A k \in 1..n : included[k] => seen[k]
         /\ truth = [kind \in Kinds |-> IF kind = "seen" THEN seen ELSE included]
         /\ mine \in 0..(n - 1)
    /\ \/ stored = [bits |-> truth, root |-> [kind \in Kinds |-> computeIncludedBitmapRoot(truth[kind])]]
       \/ \E kind \in Kinds, k \in 1..Len(truth["seen"]) :
            stored = [bits |-> [truth EXCEPT ![kind][k] = ~@], root |-> [x \in Kinds |-> computeIncludedBitmapRoot(truth[x])]]
       \/ stored = [bits |-> [truth EXCEPT !["seen"] = <<>>], root |-> [x \in Kinds |-> computeIncludedBitmapRoot(truth[x])]]
    /\ result = [kind \in Kinds |-> Unasked]
    /\ status = "none"

(* The client asks for the included bit, and for the seen bit if the vote was not counted. *)
getBitmapProof(kind) ==
    LET answer == resolveBitmapProofResponse(kind, mine)
    IN  /\ status = "none" /\ result[kind] = Unasked
        /\ kind = "seen" => result["included"].valid /\ ~result["included"].included
        /\ IF answer = Refused
           THEN result' = [result EXCEPT ![kind] = [valid |-> FALSE, included |-> FALSE, got |-> "refused"]]
           ELSE \E proof \in Arriving(answer) :
                  LET v == verifyBitmapMerkleProof(proof, mine, Size, journalRoot(kind))
                  IN  result' = [result EXCEPT ![kind] = [valid |-> v.valid, included |-> v.included,
                                    got |-> IF proof = answer THEN "answer" ELSE "changed"]]
        /\ UNCHANGED <<truth, stored, mine, status>>

explainVoteInclusionStatus ==
    /\ status = "none" /\ result["included"] # Unasked
    /\ status' = CASE ~result["included"].valid -> "unknown_excluded"
                   [] result["included"].included -> "counted"
                   [] ~result["seen"].valid -> "unknown_excluded"
                   [] result["seen"].included -> "presented_but_invalid"
                   [] OTHER -> "not_presented"
    /\ UNCHANGED <<truth, stored, mine, result>>

Next == explainVoteInclusionStatus \/ \E kind \in Kinds : getBitmapProof(kind)

Spec == Init /\ [][Next]_vars

-----------------------------------------------------------------------------
(* The results keep their types, and an index that was not asked about has none. *)
TypeOK ==
    /\ mine \in 0..(MaxBits - 1)
    /\ \A kind \in Kinds : /\ result[kind] \in [valid : BOOLEAN, included : BOOLEAN, got : {"none", "refused", "answer", "changed"}]
                           /\ result[kind].got \in {"none", "refused"} => ~result[kind].valid /\ ~result[kind].included
    /\ status \in {"none", "counted", "presented_but_invalid", "not_presented", "unknown_excluded"}

(* What the voter is told of its vote is what the guest did with it, whatever was stored and whatever      *)
(* reached the client (verifyBitmapMerkleProof, explainVoteInclusionStatus).                               *)
ToldWhatTheGuestDid ==
    LET included == truth["included"][mine + 1]
        seen == truth["seen"][mine + 1]
    IN  /\ status = "counted" => included
        /\ status = "presented_but_invalid" => seen /\ ~included
        /\ status = "not_presented" => ~seen

(* An answer the API gives and that arrives unchanged is accepted, and the API gives one exactly when the  *)
(* stored bits are those of the journal (resolveBitmapProofResponse).                                      *)
AnswersVerify ==
    \A kind \in Kinds :
        /\ result[kind].got = "answer" => result[kind].valid
        /\ result[kind].got = "refused" <=> result[kind] # Unasked /\ stored.bits[kind] # truth[kind]
=============================================================================

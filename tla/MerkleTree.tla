----------------------------- MODULE MerkleTree -----------------------------
(***************************************************************************)
(* The append-only tree of the bulletin board and the tree over a bitmap,  *)
(* each as the TypeScript packages and as the Rust guest compute it.       *)
(*                                                                         *)
(* SHA-256 is an injective constructor: a node is <<tag, ...>> with tag 0  *)
(* for a leaf and 1 for an inner node, as the prefix byte of the preimage. *)
(* A verifier that the code lets throw answers Bad here.                   *)
(***************************************************************************)
EXTENDS Integers, Sequences, FiniteSets, SequencesExt

hashLeaf(c) == <<0, c>>
hashPair(l, r) == <<1, l, r>>

EmptyRoot == <<2, 0>>   \* the digest of no bytes
ZeroRoot == <<2, 1>>    \* thirty-two zero bytes
Bad == <<3, 0>>         \* no digest: the computation failed

RECURSIVE largestPowerOfTwoLessThan(_)
largestPowerOfTwoLessThan(n) ==
    IF n <= 1 THEN 0 ELSE IF n = 2 THEN 1 ELSE 2 * largestPowerOfTwoLessThan((n + 1) \div 2)

-----------------------------------------------------------------------------
(* Tree heads and proofs over the leaves start+1 .. start+size of a log.   *)

RECURSIVE mthRange(_, _, _)
mthRange(log, start, size) ==
    LET k == largestPowerOfTwoLessThan(size)
    IN  CASE size = 0 -> EmptyRoot
          [] size = 1 -> hashLeaf(log[start + 1])
          [] OTHER -> hashPair(mthRange(log, start, k), mthRange(log, start + k, size - k))

RECURSIVE subproof(_, _, _, _, _)
subproof(log, m, start, n, b) ==
    LET k == largestPowerOfTwoLessThan(n)
    IN  CASE m = n -> IF b THEN <<>> ELSE <<mthRange(log, start, n)>>
          [] m = 1 /\ n = 2 /\ b -> <<log[start + 2]>>
          [] m <= k /\ ~(m = n) /\ ~(m = 1 /\ n = 2 /\ b) ->
               Append(subproof(log, m, start, k, b), mthRange(log, start + k, n - k))
          [] OTHER -> Append(subproof(log, m - k, start + k, n - k, FALSE), mthRange(log, start, k))

getConsistencyProof(log, m, n) == IF m = n THEN <<>> ELSE subproof(log, m, 0, n, TRUE)

RECURSIVE path(_, _, _, _)
path(log, m, start, n) ==
    LET k == largestPowerOfTwoLessThan(n)
    IN  CASE n <= 1 -> <<>>
          [] n > 1 /\ m < k -> Append(path(log, m, start, k), mthRange(log, start + k, n - k))
          [] OTHER -> Append(path(log, m - k, start + k, n - k), mthRange(log, start, k))

getInclusionProof(log, index, size) == path(log, index, 0, size)

-----------------------------------------------------------------------------
(* The verifiers of the TypeScript package.                                *)

Failed == [old |-> Bad, new |-> Bad, next |-> 0]

NodeAt(nodes, index) == IF index < Len(nodes) THEN nodes[index + 1] ELSE Bad

resolveEqualConsistencySubtree(nodes, index, include, known) ==
    IF include THEN [old |-> known, new |-> known, next |-> index]
    ELSE LET node == NodeAt(nodes, index)
         IN  IF node = Bad THEN Failed ELSE [old |-> node, new |-> node, next |-> index + 1]

(* Both roots from the proof, along the recursion that generated it. *)
RECURSIVE reconstructConsistencyHashes(_, _, _, _, _, _)
reconstructConsistencyHashes(m, n, nodes, index, include, known) ==
    LET split == largestPowerOfTwoLessThan(n)
        leaf  == NodeAt(nodes, index)
        inner == IF m <= split THEN reconstructConsistencyHashes(m, split, nodes, index, include, known)
                 ELSE reconstructConsistencyHashes(m - split, n - split, nodes, index, FALSE, Bad)
        node  == NodeAt(nodes, inner.next)
    IN  CASE m = n -> resolveEqualConsistencySubtree(nodes, index, include, known)
          [] m # n /\ split = 0 -> Failed
          [] m = 1 /\ n = 2 /\ include ->
               IF leaf = Bad THEN Failed
               ELSE [old |-> known, new |-> hashPair(known, hashLeaf(leaf)), next |-> index + 1]
          [] OTHER ->
               IF inner = Failed \/ node = Bad THEN Failed
               ELSE IF m <= split
                    THEN [old |-> inner.old, new |-> hashPair(inner.new, node), next |-> inner.next + 1]
                    ELSE IF include /\ hashPair(node, inner.old) # known THEN Failed
                         ELSE [old |-> hashPair(node, inner.old), new |-> hashPair(node, inner.new), next |-> inner.next + 1]

isPowerOfTwo(n) == \E e \in 0..n : n = 2 ^ e

verifySingleNodeExtension(oldRoot, newRoot, nodes, raw) ==
    /\ Len(nodes) = 1
    /\ hashPair(oldRoot, IF raw THEN hashLeaf(nodes[1]) ELSE nodes[1]) = newRoot

(* Faulty variant: only the old root is compared. *)
rootsReconstructedOld(r, oldRoot, newRoot, nodes) == r # Failed /\ r.next = Len(nodes) /\ r.old = oldRoot

rootsReconstructed(r, oldRoot, newRoot, nodes) ==
    r # Failed /\ r.next = Len(nodes) /\ r.old = oldRoot /\ r.new = newRoot

verifyConsistencyProof(oldRoot, newRoot, m, n, nodes) ==
    CASE m = n -> oldRoot = newRoot /\ nodes = <<>>
      [] m # n /\ nodes = <<>> -> FALSE
      [] m = 1 /\ n = 2 /\ nodes # <<>> -> verifySingleNodeExtension(oldRoot, newRoot, nodes, TRUE)
      [] m > 1 /\ isPowerOfTwo(m) /\ n = 2 * m /\ nodes # <<>> -> verifySingleNodeExtension(oldRoot, newRoot, nodes, FALSE)
      [] OTHER -> rootsReconstructed(reconstructConsistencyHashes(m, n, nodes, 0, TRUE, oldRoot), oldRoot, newRoot, nodes)

(* The root an audit path leads to, and how many of its nodes that took. *)
RECURSIVE verifyPathRecursive(_, _, _, _)
verifyPathRecursive(index, size, node, nodes) ==
    LET k == largestPowerOfTwoLessThan(size)
        inner == IF index < k THEN verifyPathRecursive(index, k, node, nodes)
                 ELSE verifyPathRecursive(index - k, size - k, node, nodes)
        sibling == NodeAt(nodes, inner.used)
    IN  CASE size = 1 -> [root |-> node, used |-> 0]
          [] size > 1 /\ (inner.root = Bad \/ sibling = Bad) -> [root |-> Bad, used |-> 0]
          [] OTHER -> [root |-> IF index < k THEN hashPair(inner.root, sibling) ELSE hashPair(sibling, inner.root),
                       used |-> inner.used + 1]

pathUsed(used, nodes) == used = Len(nodes)

verifyInclusionProof(c, index, nodes, root, size) ==
    /\ index >= 0 /\ index < size
    /\ LET r == verifyPathRecursive(index, size, hashLeaf(c), nodes)
       IN  r.root = root /\ root # Bad /\ pathUsed(r.used, nodes)

-----------------------------------------------------------------------------
(* The guest's versions: the same tree level by level, a lone node promoted. *)

CeilDiv(a, b) == (a + b - 1) \div b

nextLevel(nodes) ==
    [n \in 1..CeilDiv(Len(nodes), 2) |->
        IF 2 * n > Len(nodes) THEN nodes[2 * n - 1] ELSE hashPair(nodes[2 * n - 1], nodes[2 * n])]

RECURSIVE compute_merkle_root(_)
compute_merkle_root(nodes) ==
    CASE Len(nodes) = 0 -> ZeroRoot
      [] Len(nodes) = 1 -> nodes[1]
      [] OTHER -> compute_merkle_root(nextLevel(nodes))

RECURSIVE expected_rfc6962_audit_path_len(_, _)
expected_rfc6962_audit_path_len(size, index) ==
    IF size <= 1 THEN 0
    ELSE (IF index % 2 = 1 \/ index + 1 < size THEN 1 ELSE 0)
         + expected_rfc6962_audit_path_len(CeilDiv(size, 2), index \div 2)

hasSibling(index, size) == index % 2 = 1 \/ index + 1 # size

RECURSIVE fold_validated_inclusion_proof(_, _, _, _)
fold_validated_inclusion_proof(node, index, size, nodes) ==
    IF size <= 1 THEN node
    ELSE IF ~hasSibling(index, size)
         THEN fold_validated_inclusion_proof(node, index \div 2, CeilDiv(size, 2), nodes)
         ELSE IF nodes = <<>> THEN Bad
         ELSE fold_validated_inclusion_proof(
                IF index % 2 = 1 THEN hashPair(Head(nodes), node) ELSE hashPair(node, Head(nodes)),
                index \div 2, CeilDiv(size, 2), Tail(nodes))

verify_inclusion_proof_rfc6962(c, index, nodes, root, size) ==
    /\ size > 0 /\ index < size
    /\ Len(nodes) = expected_rfc6962_audit_path_len(size, index)
    /\ fold_validated_inclusion_proof(hashLeaf(c), index, size, nodes) = root
=============================================================================

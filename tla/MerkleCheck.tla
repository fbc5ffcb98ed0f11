----------------------------- MODULE MerkleCheck -----------------------------
(***************************************************************************)
(* The Merkle tree both sides compute: buildTree and proofFor of the       *)
(* backend (backend/src/merkle.ts) and the indexed fold with its depth and *)
(* index gates in the programs' claim handlers.                            *)
(*                                                                         *)
(* Hashes are symbolic: a leaf hash is the pair <<wallet, amount>>, an     *)
(* inner hash the triple <<left, right, "node">>.  The preimages have      *)
(* different lengths in the code, so the two kinds never meet.  A proof is *)
(* any sequence of hashes that occur in the tree: no other hash can occur  *)
(* in a fold that ends in the root.                                        *)
(***************************************************************************)
EXTENDS PrizeTree

CONSTANTS Leaves,         \* the <<wallet, amount>> pairs granted or claimed
          Tables,         \* the prize tables an operator may build a tree from
          DeclaredCounts  \* the leaf counts an operator may declare

ASSUME MerkleAssumption ==
  /\ \A leaf \in Leaves : leaf = <<leaf[1], leaf[2]>>
  /\ \A t \in Tables : t \in Seq(Leaves) /\ Len(t) \in 1..2^MaxDepth
  /\ DeclaredCounts \subseteq 1..2^MaxDepth

VARIABLES table, leaf_count, claim

merkleVars == <<table, leaf_count, claim>>

parentHash(left, right) == <<left, right, "node">>

\* levels[k][i] is the i-th hash, from 0, of level k; level 0 is padded by
\* repeating the last leaf.
buildTree(t) ==
  LET depth == proof_depth(Len(t))
      levels[k \in 0..depth] ==
        [i \in 0..(2^(depth - k) - 1) |->
           IF k = 0 THEN PaddedLeaf(t, i)
           ELSE parentHash(levels[k - 1][2 * i], levels[k - 1][2 * i + 1])]
  IN  levels

rootOf(t) == buildTree(t)[proof_depth(Len(t))][0]

\* The sibling at every level below the root: index ^ 1 of the shifted index.
SiblingIndex_next(i) == i + 1
SiblingIndex(i) == IF i % 2 = 0 THEN i + 1 ELSE i - 1
proofFor(t, index) ==
  [k \in 1..proof_depth(Len(t)) |->
     LET row == buildTree(t)[k - 1]  s == SiblingIndex(index \div 2^(k - 1))
     IN  IF s \in DOMAIN row THEN row[s] ELSE "undefined"]

\* The fold: an even index keeps the current hash on the left.
foldProof(leaf, index, proof) ==
  LET current[k \in 0..Len(proof)] ==
        IF k = 0 THEN leaf
        ELSE IF (index \div 2^(k - 1)) % 2 = 0
               THEN parentHash(current[k - 1], proof[k])
               ELSE parentHash(proof[k], current[k - 1])
  IN  current[Len(proof)]

\* The handler's gates on a claim: exact depth, index below the declared count.
ProofGates_depth_at_most(index, proof) ==
  Len(proof) <= proof_depth(leaf_count) /\ index < leaf_count
ProofGates(index, proof) ==
  Len(proof) = proof_depth(leaf_count) /\ index < leaf_count

verify_proof_indexed(leaf, index, proof) ==
  ProofGates(index, proof) /\ foldProof(leaf, index, proof) = rootOf(table)

-----------------------------------------------------------------------------
MerkleInit ==
  /\ table \in Tables
  /\ leaf_count = Len(table)
  /\ claim \in Leaves

\* The operator publishes the root of a table with a declared leaf count.
Publish(t, n) == table' = t /\ leaf_count' = n /\ UNCHANGED claim

\* A wallet asks for an amount.
Ask(c) == claim' = c /\ UNCHANGED <<table, leaf_count>>

MerkleNext ==
  \/ \E t \in Tables, n \in DeclaredCounts : Publish(t, n)
  \/ \E c \in Leaves : Ask(c)

MerkleSpec == MerkleInit /\ [][MerkleNext]_merkleVars

-----------------------------------------------------------------------------
\* Every hash in the tree, level by level.
Hashes == LET levels == buildTree(table)
          IN  UNION {{levels[k][i] : i \in DOMAIN levels[k]} : k \in DOMAIN levels}

\* The handlers accept some index and proof exactly for the leaves Provable
\* names: the abstraction the program modules use is the fold's meaning, for
\* wrongly declared leaf counts and padded leaves too.
FoldMeansMembership ==
  (\E index \in 0..leaf_count, d \in 0..proof_depth(leaf_count) :
     \E proof \in [1..d -> Hashes] : verify_proof_indexed(claim, index, proof))
  <=> Provable(table, leaf_count, claim[1], claim[2])

\* The proof the backend hands out for a leaf of a correctly declared table is
\* the one the programs accept, at every index.
BackendProofsVerify ==
  leaf_count = Len(table) =>
    \A index \in 0..(Len(table) - 1) :
      verify_proof_indexed(table[index + 1], index, proofFor(table, index))
=============================================================================

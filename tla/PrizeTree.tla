------------------------------ MODULE PrizeTree ------------------------------
(***************************************************************************)
(* What a published Merkle root lets a wallet prove, as the on-chain       *)
(* programs decide it.                                                     *)
(*                                                                         *)
(* A root is represented by what it commits to: the non-empty sequence of  *)
(* leaves <<wallet, amount>> it was built from.  SHA-256 is taken to be    *)
(* injective and to keep leaves and inner nodes apart, so a proof of the   *)
(* exact padded depth verifies for a leaf index exactly when the padded    *)
(* tree holds that leaf there.  Module MerkleCheck derives this reading    *)
(* from the fold itself, over symbolic hashes.                             *)
(***************************************************************************)
EXTENDS Integers, Sequences, FiniteSetsExt

\* The deepest tree this model looks at; the programs accept up to 32 levels,
\* and a table of at most 10 leaves (MAX_LEAVES) needs 4.
MaxDepth == 4

\* The most leaves publish_prizes and publish_prizes_v2 accept.
MAX_LEAVES == 10

\* Levels of the tree padded to a power of two (checked_next_power_of_two and
\* trailing_zeros).
proof_depth(leaf_count) == Min({d \in 0..MaxDepth : 2^d >= leaf_count})

\* The leaf at a 0-based index of the padded tree: the last leaf is repeated.
PaddedLeaf(root, index) ==
  root[IF index < Len(root) THEN index + 1 ELSE Len(root)]

\* Some (leaf_index, proof) passes the handler's three checks: the proof has
\* the depth of the DECLARED leaf count, the index is below that count, and
\* the fold reaches the root - whose real depth is that of its own leaves.
Provable(root, leaf_count, wallet, amount) ==
  /\ proof_depth(leaf_count) = proof_depth(Len(root))
  /\ \E index \in 0..(leaf_count - 1) :
        PaddedLeaf(root, index) = <<wallet, amount>>

\* A root and declared count the operator computed correctly: the count is the
\* number of leaves, no wallet has two leaves, no leaf is empty, and the
\* leaves together promise no more than the declared total.
HonestTree(root, leaf_count, total) ==
  /\ leaf_count = Len(root)
  /\ \A i, j \in 1..Len(root) : root[i][1] = root[j][1] => i = j
  /\ \A i \in 1..Len(root) : root[i][2] > 0
  /\ MapThenSumSet(LAMBDA i : root[i][2], 1..Len(root)) <= total
=============================================================================

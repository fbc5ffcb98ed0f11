---------------------------- MODULE MCMerkleCheck ----------------------------
(***************************************************************************)
(* Every table of up to three of three leaves of two wallets, and one      *)
(* table of five leaves, whose tree has three levels; any leaf is claimed. *)
(***************************************************************************)
EXTENDS MerkleCheck

CONSTANTS w1, w2

MCLeaves == {w1, w2} \X {1, 2, 3}
ShortLeaves == {<<w1, 1>>, <<w2, 1>>, <<w2, 2>>}
MCTables ==
  UNION {[1..n -> ShortLeaves] : n \in 1..3}
  \cup {<< <<w1, 1>>, <<w1, 2>>, <<w2, 1>>, <<w2, 2>>, <<w1, 3>> >>}
=============================================================================

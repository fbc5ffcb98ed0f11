SPECIFICATION MerkleSpec
CONSTANTS
  w1 = w1
  w2 = w2
  Tables <- MCTables
  DeclaredCounts = {1, 2, 3, 4, 5}
  Leaves <- MCLeaves
INVARIANTS
  FoldMeansMembership
  BackendProofsVerify

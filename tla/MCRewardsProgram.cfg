SPECIFICATION Spec
CONSTANTS
  op = op
  alice = alice
  bob = bob
  NoKey = NoKey
  NoAccount = NoAccount
  Wallets = {op, alice, bob}
  Deployer = op
  MaxEpoch = 1
  Roots <- MCRoots
  LeafCounts = {1, 2}
  Totals = {1, 2, 3}
  Supply = 4
  Deposits = {1, 2, 3}
  MIN_AUTHORITY_DELAY_SLOTS = 2
  MaxSlot = 3
  Candidates = {alice, bob}
  Delegators = {bob}
INVARIANTS PrizesPayable
PROPERTIES ImplementsLedger HandoverWaits

SPECIFICATION Spec
CONSTANTS
  op = op
  alice = alice
  bob = bob
  Wallets = {op, alice, bob}
  Vault = Vault
  NoKey = NoKey
  NoAccount = NoAccount
  Deployer = op
  References = {"r1"}
  MaxEpoch = 1
  Roots <- MCRoots
  Totals = {1, 2}
  LeafCounts = {2}
  Rakes = {0, 2}
  FeeTables <- MCFeeTables
  MAX_RAKE_BPS = 2
  MAX_RAKE_STEP_BPS = 2
  RAKE_DENOM = 4
  MAX_ENTRY_FEE = 2
  MIN_AUTHORITY_DELAY_SLOTS = 1
  PRIZE_SWEEP_DELAY_SECONDS = 1
  InitialBalance <- MCBalance
  Deposits = {1}
  Delegators = {bob}
  Candidates = {alice}
  MaxSlot = 1
  MaxTime = 1
INVARIANTS PrizesPayable
PROPERTIES ImplementsLedger HandoverWaits

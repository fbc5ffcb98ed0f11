SPECIFICATION Spec
CONSTANTS
  op = op
  alice = alice
  bob = bob
  Wallets = {op, alice, bob}
  Vault = Vault
  NoKey = NoKey
  NoAccount = NoAccount
  LegacyAuthority = op
  References = {"r1"}
  Tiers = {1}
  Fees <- MCFeesSmall
  MaxEpoch = 0
  Roots <- MCRootsSmall
  Totals = {1}
  LeafCounts = {2}
  Rakes = {1, 2}
  MAX_RAKE_BPS = 2
  MAX_RAKE_STEP_BPS = 1
  RAKE_DENOM = 4
  MIN_AUTHORITY_DELAY_SLOTS = 1
  PRIZE_SWEEP_DELAY_SECONDS = 1
  InitialBalance <- MCBalanceSmall
  Gifts = {1}
  Delegators = {bob}
  Candidates = {alice}
  MaxSlot = 2
  MaxTime = 1
INVARIANTS
  TreasuryFollowsAuthority
PROPERTIES
  RefundIsExact

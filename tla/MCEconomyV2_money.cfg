SPECIFICATION Spec
CONSTANTS
  op = op
  alice = alice
  bob = bob
  Wallets = {op, alice, bob}
  Vault = Vault
  NoKey = NoKey
  NoAccount = NoAccount
  LegacyAuthority = op
  References = {"r1"}
  Tiers = {1}
  Fees <- MCFeesOne
  MaxEpoch = 1
  Roots <- MCRoots
  Totals = {1, 2, 3}
  LeafCounts = {1, 2}
  Rakes = {0, 1}
  MAX_RAKE_BPS = 2
  MAX_RAKE_STEP_BPS = 1
  RAKE_DENOM = 4
  MIN_AUTHORITY_DELAY_SLOTS = 1
  PRIZE_SWEEP_DELAY_SECONDS = 2
  InitialBalance <- MCBalance
  Gifts = {}
  Delegators = {}
  Candidates = {}
  MaxSlot = 0
  MaxTime = 2
INVARIANTS VaultCoversReserved ReservedIsUnpaid PrizesPayable
PROPERTIES ImplementsLedger

SPECIFICATION Spec
CONSTANTS
  Slots = {s1}
  Connections = {c1, c2}
  Sessions = {w1}
  SessionExpiry <- MCSessionExpiry
  Tokens = {t1, t2}
  None = None
  Life = 2
  HttpTimeout = 1
  SealInterval = 1
  SealAttempts = 1
  MaxPending = 2
  MaxSerial = 2
  MaxRequests = 2
  MaxTime = 3
  MaxRollback = 1
INVARIANTS PairingConsistent LeaseFromOwnRequest
PROPERTIES TokenRedeemedOnce ExpiredStaysExpired
CHECK_DEADLOCK FALSE

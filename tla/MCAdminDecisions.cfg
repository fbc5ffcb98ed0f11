SPECIFICATION AdminSpec
CONSTANTS
  q1 = q1
  q2 = q2
  a1 = a1
  a2 = a2
  operator = operator
  superadmin = superadmin
  None = None
  Proposals = {q1, q2}
  Requests = {a1, a2}
  Tokens = {operator, superadmin}
  Superadmins = {superadmin}
  singleTokenMode = FALSE
  Targets <- MCTargetsAbsent
  RewardEpochs = {0}
  adminProposalTtlMs = 0
  MaxTime = 1
  MaxCrashes = 1
INVARIANTS StatusIsTrue
PROPERTIES  EveryDecisionAnswered
CHECK_DEADLOCK FALSE

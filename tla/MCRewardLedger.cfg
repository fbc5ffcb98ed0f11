SPECIFICATION Spec
CONSTANTS
  p1 = p1
  p2 = p2
  w1 = w1
  w2 = w2
  e1 = e1
  e2 = e2
  e3 = e3
  None = None
  Players = {p1, p2}
  Bindings = {w1, w2}
  Events = {e1, e2, e3}
  match_id <- MCmatch_id
  player_id <- MCplayer_id
  amount_micro <- MCamount
  game_accounts <- MCaccounts
  capPerMatchMicro = 2
  capDailyMicro = 2
  capWeeklyMicro = 3
  DAY_MS = 1
  WEEK_MS = 2
  epochMs = 2
  Signatures = {"good"}
  Reports = {"confirmed", "failed"}
  MaxTime = 2
  MaxIntents = 1
INVARIANTS CapsHold LedgerConsistent LeafWithinWeeklyCap
PROPERTIES EventPaidOnce DecidedIsFinal CreditedToItsPlayer

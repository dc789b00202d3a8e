SPECIFICATION FairTrialSpec
CONSTANTS
  Intents = {0}
  Keys <- EffectKeys
  NoKey = NoKey
  Payloads <- TrialPayloads
  Unhashable = {}
  Torn = Torn
  MaxRequests = 4
  MaxEpochs = 2
  AppendMayFail = TRUE
  Trials <- KilledControls
  Memos = {m1, m2}
  NoMemo = NoMemo
  UuidDraws = FALSE
  StrayKills = TRUE
  Failures = TRUE
INVARIANTS
  VerdictStands
  KilledAnywhereOnce
  KilledAnywhereNotLost
  RepeatedDrawShown
PROPERTY TrialEnds
CHECK_DEADLOCK FALSE

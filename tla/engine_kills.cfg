SPECIFICATION EngineSpec
CONSTANTS
  Intents = {0, 1, 2}
  Keys <- EffectKeys
  NoKey = NoKey
  Payloads <- TrialPayloads
  Unhashable = {}
  Torn = Torn
  MaxRequests = 5
  MaxEpochs = 2
  AppendMayFail = FALSE
  Trials <- KilledTrials
  Memos = {m1, m2}
  NoMemo = NoMemo
  UuidDraws = FALSE
  StrayKills = TRUE
  Failures = TRUE
  SlowAttempts = TRUE
  MaxAttempts = 3
SYMMETRY MemoSymmetry
INVARIANTS
  EngineKilledAnywhereOnce
  MarkerMeansBarrier
  LostOnlyUnadmitted
  EvidenceMeansOnce
CHECK_DEADLOCK FALSE

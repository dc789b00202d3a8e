SPECIFICATION FairEngineSpec
CONSTANTS
  Intents = {0, 1, 2}
  Keys <- EffectKeys
  NoKey = NoKey
  Payloads <- TrialPayloads
  Unhashable = {}
  Torn = Torn
  MaxRequests = 4
  MaxEpochs = 1
  AppendMayFail = TRUE
  Trials <- EveryTrial
  Memos = {m1, m2, m3, m4}
  NoMemo = NoMemo
  UuidDraws = TRUE
  StrayKills = FALSE
  Failures = FALSE
  SlowAttempts = FALSE
  MaxAttempts = 3
INVARIANTS
  EngineTypeOK
  EngineOutcomeAsPredicted
  AcknowledgedAsPredicted
  MechanismShown
  StallIsTheClaim
PROPERTIES
  EnginesImplementStep
  EngineTrialEnds
CHECK_DEADLOCK FALSE

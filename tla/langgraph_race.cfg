SPECIFICATION EngineSpec
CONSTANTS
  Intents = {0}
  Keys <- EffectKeys
  NoKey = NoKey
  Payloads <- TrialPayloads
  Unhashable = {}
  Torn = Torn
  MaxRequests = 4
  MaxEpochs = 2
  AppendMayFail = FALSE
  Trials <- LangGraphTrials
  Memos = {m1, m2}
  NoMemo = NoMemo
  UuidDraws = TRUE
  StrayKills = FALSE
  Failures = FALSE
  SlowAttempts = FALSE
  MaxAttempts = 1
INVARIANT OutcomeAsPredicted
CHECK_DEADLOCK FALSE

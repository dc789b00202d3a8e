SPECIFICATION TrialSpec
CONSTANTS
  Intents = {0}
  Keys <- EffectKeys
  NoKey = NoKey
  Payloads <- TrialPayloads
  Unhashable = {}
  Torn = Torn
  MaxRequests = 4
  MaxEpochs = 2
  AppendMayFail = TRUE
  Trials <- AllControls
  Memos = {m1, m2}
  NoMemo = NoMemo
  UuidDraws = TRUE
  StrayKills = FALSE
  Failures = FALSE
INVARIANTS
  TrialTypeOK
  OutcomeAsPredicted
  OwnEffectsOnly
  RecomputableDecides
PROPERTY ImplementsStep
CHECK_DEADLOCK FALSE

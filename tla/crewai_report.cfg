SPECIFICATION CrewSpec
CONSTANTS
  K = 1
  Failures = TRUE
  Intents <- EachCase
  Keys = {}
  NoKey = NoKey
  Payloads <- Marked
  Unhashable = {}
  Torn = Torn
  MaxRequests = 5
  MaxEpochs = 3
  AppendMayFail = TRUE
INVARIANT ShortfallReported
CHECK_DEADLOCK FALSE

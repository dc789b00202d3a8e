SPECIFICATION DaemonSpec
CONSTANTS
  Intents = {i1}
  Keys = {k1}
  NoKey = NoKey
  Payloads = {p1, p2, bad}
  Unhashable = {bad}
  Torn = Torn
  MaxRequests = 2
  MaxEpochs = 1
  AppendMayFail = TRUE
INVARIANT DoubtNeverExactlyOnce
CHECK_DEADLOCK FALSE

SPECIFICATION FaultSpec
CONSTANTS
  Intents = {i1}
  Keys = {k1}
  NoKey = NoKey
  Payloads = {p1, p2}
  Unhashable = {}
  Torn = Torn
  MaxRequests = 3
  MaxFaults = 2
  MaxEpochs = 0
  AppendMayFail = FALSE
INVARIANT AnyFaultBreaksChain
CHECK_DEADLOCK FALSE

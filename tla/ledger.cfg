SPECIFICATION DaemonSpec
CONSTANTS
  Intents = {i1, i2}
  Keys = {k1}
  NoKey = NoKey
  Payloads = {p1, p2, bad}
  Unhashable = {bad}
  Torn = Torn
  MaxRequests = 3
  MaxEpochs = 1
  AppendMayFail = TRUE
INVARIANTS
  DaemonTypeOK
  CrossingsAgree
  StoreOnChain
  CrossingsOnRecord
  AcknowledgedOnce
PROPERTY SealFreezes
SYMMETRY Symmetry
CHECK_DEADLOCK FALSE

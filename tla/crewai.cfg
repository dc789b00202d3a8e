SPECIFICATION FairCrewSpec
CONSTANTS
  K = 1
  Failures = TRUE
  Intents <- EachCase
  Keys = {}
  NoKey = NoKey
  Payloads <- Marked
  Unhashable = {}
  Torn = Torn
  MaxRequests = 5
  MaxEpochs = 3
  AppendMayFail = TRUE
INVARIANTS
  CrewTypeOK
  CertifiedAsPredicted
  CertifiedIsAcknowledged
  ReceiptStands
PROPERTY RunEnds
CHECK_DEADLOCK FALSE

SPECIFICATION StepSpec
CONSTANTS
  Rows <- SupportedRows
  Fixed = fixed
  Drawn = {m1, m2, m3}
INVARIANTS
  StepTypeOK
  PredictionHolds
CHECK_DEADLOCK FALSE

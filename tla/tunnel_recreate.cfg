SPECIFICATION KindSpec
CONSTANTS
  Configs <- BothConfigs
  EnabledInputs = {TRUE}
  DefaultMtu = 1472
  None = None
  MaxFaults = 2
  MaxInterrupts = 2
INVARIANT AppliedIsDurable
INVARIANT TakenAwayStaysAway
PROPERTY RollbackRestores
\* A delete that lost its file removal and a reboot leave an interface without a
\* row: only adoption takes it up again, so the model may stop.
CHECK_DEADLOCK FALSE

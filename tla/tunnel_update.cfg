SPECIFICATION Spec
CONSTANTS
  Configs <- UpdateConfigs
  EnabledInputs = {TRUE, FALSE}
  DefaultMtu = 1472
  None = None
  MaxFaults = 1
  MaxInterrupts = 1
INVARIANT AppliedIsDurable
INVARIANT ReapplyHeals
PROPERTY RollbackRestores
PROPERTY InPlaceKeepsInterface

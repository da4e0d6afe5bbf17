SPECIFICATION FairSpec
CONSTANTS
  Sweeper = Sweeper
  Handlers = {h1}
  Limits <- MixedLimits
  NoLimit = NoLimit
  NoAsk = NoAsk
  MaxBytes = 2
  MaxWindow = 1
  MaxRequests = 2
  MaxSwitches = 1
  MaxFaults = 1
 
INVARIANT StopsOnlyTheSpent
PROPERTY StopsEndWithTheWindow

\* Destinations probed in every round or in every other, one change and one fault.
SPECIFICATION FairSpec
CONSTANTS
  Count = 2
  Monitor = Monitor
  Boot = Boot
  Changers = {c1}
  Saves <- FewSaves
  Free = Free
  Failures = 1
  Recoveries = 1
  MaxWait = 1
  MaxChanges = 1
  MaxFaults = 1
INVARIANT NeverTheLast
PROPERTY BackInRotation
PROPERTY NotAllOutForever

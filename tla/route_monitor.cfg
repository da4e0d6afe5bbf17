\* Two requests that race with the monitor and with each other.
SPECIFICATION Spec
CONSTANTS
  Count = 2
  Monitor = Monitor
  Boot = Boot
  Changers = {c1, c2}
  Saves <- MCSaves
  Free = Free
  Failures = 2
  Recoveries = 1
  MaxWait = 0
  MaxChanges = 2
  MaxFaults = 1
SYMMETRY Symmetry
INVARIANT RulesetFollowsTable
PROPERTY OutOnlyAfterFailures

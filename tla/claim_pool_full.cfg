SPECIFICATION Spec
CONSTANTS
  Families <- Wide
  Pinned = {1}
  MaxTunnels = 2
  MaxSpan = 3
INVARIANT RefusedOnlyWhenFull
CHECK_DEADLOCK FALSE

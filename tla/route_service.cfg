SPECIFICATION Spec
CONSTANTS
  Requests = {r1, r2, q}
  Checker = {q}
  Ids = {1, 2}
  Cfgs = {1, 2, 3, 4}
  FamilyOf <- SmallFamilies
  Overlaps <- SmallOverlaps
  Refused = {3}
  Backends = {"nftables", "iptables"}
  MaxFaults = 2
INVARIANT AppliedIsRelayed
PROPERTY FollowsTheTable
CHECK_DEADLOCK FALSE

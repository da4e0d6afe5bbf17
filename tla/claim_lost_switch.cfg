SPECIFICATION Spec
CONSTANTS
  Requests = {r1, r2, r3}
  Checker = {}
  Ids = {1}
  Cfgs = {1, 2}
  FamilyOf <- SmallFamilies
  Overlaps <- SmallOverlaps
  Refused = {}
  Backends = {"nftables"}
  MaxFaults = 0
PROPERTY EditLeavesTheSwitch
CHECK_DEADLOCK FALSE

SPECIFICATION FairSpec
CONSTANTS
  Requests = {r1, r2, r3}
  Names = {1, 2}
  Addrs = {1, 2}
  Labels = {l1}
  Keys = {k1}
  Kinds = {"create", "createAuto", "update", "relabel", "reapply", "delete"}
  MaxRows = 3
  None = None
INVARIANT LiveNamesUnique
 
PROPERTY EveryRequestAnswered
 
\* Every request is issued once, so the instance ends when all are answered.
CHECK_DEADLOCK FALSE

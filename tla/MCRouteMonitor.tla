--------------------------- MODULE MCRouteMonitor ---------------------------
(* Small instances of RouteMonitor: two destinations, the first the primary. *)
EXTENDS RouteMonitor, TLC

Symmetry == Permutations(Changers)

\* Either mode, a destination that is not monitored, and one that is switched off.
MCSaves ==
  { [on |-> {1, 2}, failover |-> TRUE, watch |-> {1, 2}],
    [on |-> {1, 2}, failover |-> FALSE, watch |-> {1, 2}],
    [on |-> {1, 2}, failover |-> TRUE, watch |-> {2}],
    [on |-> {1}, failover |-> TRUE, watch |-> {1}] }

\* A destination that is monitored by itself, or not.
FewSaves ==
  { [on |-> {1, 2}, failover |-> TRUE, watch |-> {1, 2}],
    [on |-> {1, 2}, failover |-> TRUE, watch |-> {2}] }
=============================================================================

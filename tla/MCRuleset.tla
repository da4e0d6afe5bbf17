----------------------------- MODULE MCRuleset -----------------------------
(* A small host with forwarding rules that share listeners' ports, addresses *)
(* and destinations in every way two of them may.                            *)
EXTENDS Ruleset

Dest(a, ports, w) == [addr |-> a, ports |-> ports, weight |-> w]
Base(id, ports, dests) ==
  [id |-> id, order |-> 10 * id, fam |-> "ip", protos |-> {"tcp"}, bind |-> Every, ports |-> ports,
   iface |-> Every, sources |-> {}, listed |-> FALSE, ranges |-> {}, dests |-> dests,
   balance |-> "none", nat |-> "masquerade", local |-> FALSE, mss |-> FALSE, marked |-> FALSE,
   maxconn |-> 0]

Small ==
  LET one == <<Dest(11, {1}, 0)>> two == <<Dest(11, {1}, 0), Dest(12, {1}, 0)>> IN
  {\* one listener for both protocols, local traffic too
   [Base(1, {1}, one) EXCEPT !.protos = {"tcp", "udp"}, !.local = TRUE, !.order = 60],
   \* a second listener relayed to the same place, keeping the client's address
   [Base(2, {2}, one) EXCEPT !.nat = "none", !.mss = TRUE, !.sources = {101}],
   \* the same port as rule 1 on one address, so that they conflict; weighted
   [Base(3, {1}, <<Dest(11, {1}, 2), Dest(13, {1}, 1)>>) EXCEPT !.bind = 201, !.balance = "weighted"],
   \* in turn over two destinations, from either source alone, limited
   [Base(4, {2}, two) EXCEPT !.bind = 202, !.protos = {"tcp", "udp"}, !.sources = {101, 102}, !.maxconn = 1],
   \* a range of ports, on one interface, with a mark
   [Base(5, {2, 3}, <<Dest(12, {2, 3}, 0)>>) EXCEPT !.bind = 201, !.iface = 301, !.marked = TRUE, !.nat = "snat"],
   \* by the source's hash
   [Base(6, {3}, two) EXCEPT !.balance = "source_hash", !.protos = {"udp"}],
   \* from a list, which may be empty, and IPv6
   [Base(7, {3}, one) EXCEPT !.bind = 202, !.listed = TRUE, !.ranges = {102}],
   [Base(8, {1}, one) EXCEPT !.bind = 202, !.listed = TRUE],
   [Base(9, {4}, <<Dest(61, {1}, 0)>>) EXCEPT !.fam = "ip6"]}

\* Pairs that share a port, an address, a destination, a list or nothing.
Pairs == {{1, 2}, {1, 3}, {2, 3}, {1, 4}, {3, 4}, {4, 6}, {2, 5}, {3, 5}, {5, 7}, {6, 7}, {7, 8}, {8, 9}}
SmallPools == {{s \in Small : s.id \in ids} : ids \in Pairs}

SourceHash == [c \in Sources \cup Hosts |-> IF c = 101 THEN 0 ELSE 1]
=============================================================================

--------------------------- MODULE MCRouteService ---------------------------
(* Two requests of clients and one of the quota checker; contents 1 and 2  *)
(* are IPv4 with listeners that overlap, 3 is IPv4 and refused by the      *)
(* kernel, 4 is IPv6.                                                      *)
EXTENDS RouteService

SmallFamilies == [c \in Cfgs |-> IF c = 4 THEN "v6" ELSE "v4"]
SmallOverlaps == {<<c, c>> : c \in Cfgs} \cup ({<<1, 2>>, <<2, 1>>} \cap (Cfgs \X Cfgs))
=============================================================================

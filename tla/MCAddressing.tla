---------------------------- MODULE MCAddressing ----------------------------
(* IPv6 as narrow as it goes: addresses of six bits, a counter of three,   *)
(* and a pool half as wide as the counter.                                 *)
EXTENDS Addressing

WideFamily == [bits |-> 6, octet |-> 0, word |-> 3, lens |-> {3}, pools |-> {1}]
Wide == {WideFamily}

(* No other interface is there.                                           *)
Spec == Init /\ foreign = {} /\ [][Next]_vars
=============================================================================

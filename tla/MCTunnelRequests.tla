-------------------------- MODULE MCTunnelRequests --------------------------
(* Small instances of TunnelRequests.  Requests are interchangeable. *)
EXTENDS TunnelRequests, TLC

Symmetry == Permutations(Requests)
=============================================================================

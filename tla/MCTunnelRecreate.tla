------------------------- MODULE MCTunnelRecreate -------------------------
(***************************************************************************)
(* TunnelApply with tunnels that are recreated for a change: a systemd one *)
(* that changes its shape, a networkd one that changes anything, and one   *)
(* that changes its persistence method.                                    *)
(***************************************************************************)
EXTENDS MCTunnelApply

VARIABLE kind    \* which of the three the behaviour's tunnel is

BothConfigs == ShapeConfigs \cup NetworkdConfigs

Of == [systemd |-> ShapeConfigs, networkd |-> NetworkdConfigs,
       either |-> {Conf(p, "gre", 1400, "a1") : p \in {"systemd", "networkd"}}]

\* Bounds: all but the systemd tunnel meet one fault and one interruption only.
OfKind == /\ want'.conf \in Of[kind] \cup {None}
          /\ kind # "systemd" => faults' <= 1 /\ interrupts' <= 1

KindSpec == /\ Init /\ kind \in DOMAIN Of
            /\ [][Next /\ OfKind /\ kind' = kind]_<<vars, kind>>
===========================================================================

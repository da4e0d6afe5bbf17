--------------------------- MODULE MCTunnelApply ---------------------------
(* Small instances of TunnelApply: which configurations a request may ask for. *)
EXTENDS TunnelApply

Conf(p, s, m, a) == [persist |-> p, shape |-> s, mtu |-> m, addr |-> a]

\* A systemd tunnel that changes its MTU and address in place, or its shape, which
\* recreates it.
UpdateConfigs == {Conf("systemd", "gre", 1400, "a1"), Conf("systemd", "gre", 1476, "a2"),
                  Conf("systemd", "gretap", 1400, "a1")}

\* Two shapes of a systemd tunnel: every change is a recreation.
ShapeConfigs == {Conf("systemd", s, 1400, "a1") : s \in {"gre", "gretap"}}

\* A networkd tunnel that changes its shape, its MTU or its address.
NetworkdConfigs == {Conf("networkd", "gre", 1400, "a1"), Conf("networkd", "gretap", 1400, "a1"),
                    Conf("networkd", "gre", 1476, "a2")}

\* One configuration: only the operations that do not change it.
OneConfig == {Conf("systemd", "gre", 1400, "a1")}
=============================================================================

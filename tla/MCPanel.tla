------------------------------- MODULE MCPanel -------------------------------
(***************************************************************************)
(* Small instances of the panel's parts; the simple values are in the cfg. *)
(***************************************************************************)
EXTENDS Panel

(* Two windows of the monitor: the second is as short as its threshold.    *)
MCMonitorConfigs == {[size |-> 3, samples |-> 2, down |-> 100, degraded |-> 40],
                     [size |-> 2, samples |-> 1, down |-> 50, degraded |-> 20]}
(* An IPv4 host, and an IPv6 host with addresses as wide.                  *)
MCAddressFamilies == {[bits |-> 5, octet |-> 2, word |-> 8, lens |-> {3, 4}, pools |-> {1, 3}],
                      [bits |-> 5, octet |-> 0, word |-> 8, lens |-> {2, 4}, pools |-> {2}]}
MCSettingsDefault == [lo |-> 2, hi |-> 2]
=============================================================================

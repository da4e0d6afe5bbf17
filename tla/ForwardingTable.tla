--------------------------- MODULE ForwardingTable ---------------------------
(***************************************************************************)
(* What the forwarding service promises about the kernel, whatever fails:  *)
(* each family of the ruleset is always one whole table that was saved     *)
(* since the last one the panel confirmed, never a mixture, never an older *)
(* one. A start of the panel may bring back the table of the moment it     *)
(* began (relic); a host that boots without the restore unit, or with a    *)
(* table it refuses, relays nothing.                                       *)
(***************************************************************************)
CONSTANTS Families, Of(_, _)     \* Of(f, t): what table t asks of family f

VARIABLES saved,      \* the table the rules in the database ask for
          since,      \* the tables saved since the last confirmed one, it included
          relic,      \* the table a start of the panel has read, if any
          installed   \* what the kernel relays, per family

tableVars == <<saved, since, relic, installed>>

Nothing == {}
Known == since \cup relic

Init == /\ saved = Nothing
        /\ since = {Nothing}
        /\ relic = {}
        /\ installed = [f \in Families |-> Nothing]

Save == /\ since' = since \cup {saved'}
        /\ UNCHANGED <<relic, installed>>

Load == /\ \E t \in Known : \E F \in SUBSET Families :
               installed' = [f \in Families |-> IF f \in F THEN Of(f, t) ELSE installed[f]]
        /\ UNCHANGED <<saved, since, relic>>

Confirm == /\ installed = [f \in Families |-> Of(f, saved)]
           /\ since' = {saved}
           /\ relic' \in {relic, {}}
           /\ UNCHANGED <<saved, installed>>

Start == /\ relic' = {saved}
         /\ UNCHANGED <<saved, since, installed>>

Started == /\ since' \in {since, Known}
           /\ relic' = {}
           /\ UNCHANGED <<saved, installed>>

Boot == /\ \A f \in Families : installed'[f] \in {Of(f, t) : t \in Known} \cup {Nothing}
        /\ relic' = {}
        /\ since' \in {since, Known}
        /\ UNCHANGED saved

Next == Save \/ Load \/ Confirm \/ Start \/ Started \/ Boot
Spec == Init /\ [][Next]_tableVars
=============================================================================

--------------------------- MODULE RouteAdmission ---------------------------
(***************************************************************************)
(* Which forwarding rules may hold which listener: the checks of           *)
(* validate/route.go against the stored rules and the sockets, the guard   *)
(* of safety/route.go, and the requests that are checked before they wait  *)
(* for the lock and written after. RouteService has the apply in detail;   *)
(* here it installs what the guard lets through.                           *)
(***************************************************************************)
EXTENDS Integers, FiniteSets

CONSTANTS Rules, Protocols, Addresses,   \* of a rule: "any", "none" and local addresses
          MaxPort, Panel, DefaultSsh     \* ports are 1..MaxPort

VARIABLES wants,       \* rule -> the listener it asks for
          sshd,        \* [port, awake]: asleep, its socket is held by systemd
          service,     \* another service listens on the last port of "A"
          rows,        \* rule -> [stored, enabled, spares, checked]
          installed,   \* rules of the ruleset in the kernel
          request      \* the request that waits for the lock

vars == <<wants, sshd, service, rows, installed, request>>

NoRow == [stored |-> FALSE, enabled |-> FALSE, spares |-> FALSE, checked |-> TRUE]
NoRequest == [at |-> "none"]

Ranges == {r \in [first : 1..MaxPort, last : 1..MaxPort] : r.first <= r.last}
Specs == [protocol : Protocols, address : Addresses, ports : Ranges]

(* The sockets that listen, as /proc tells them: a socket both systemd and *)
(* a daemon hold is the daemon's.                                          *)
Listeners == {[protocol |-> "tcp", address |-> "any", port |-> sshd.port,
               process |-> IF sshd.awake THEN "sshd" ELSE "systemd"]}
             \cup (IF service THEN {[protocol |-> "tcp", address |-> "A", port |-> MaxPort,
                                     process |-> "other"]} ELSE {})

SshPorts == {l.port : l \in {k \in Listeners : k.process = "sshd"}}

ProtectedPorts == {Panel} \cup SshPorts \cup (IF SshPorts = {} THEN {DefaultSsh} ELSE {})

Covers(ports, p) == ports.first <= p /\ p <= ports.last

(* No rule may take the panel's port or SSH's, whoever asks.               *)
CheckRoute(s) == s.protocol = "udp" \/ \A p \in ProtectedPorts : ~Covers(s.ports, p)

-----------------------------------------------------------------------------
ProtocolsOverlap(a, b) == a = b \/ "both" \in {a, b}
BindAddressesOverlap(a, b) == "any" \in {a, b} \/ a = b

\* Mutant: a range that starts where another ends is let through.
PortRangesMeet(a, b) == (a.first < b.last /\ b.first < a.last) \/ a = b
PortRangesOverlap(a, b) == a.first <= b.last /\ b.first <= a.last

CheckPortConflicts(i, on) ==
    on => \A j \in Rules \ {i} : rows[j].enabled =>
            ~(/\ ProtocolsOverlap(wants[i].protocol, wants[j].protocol)
              /\ BindAddressesOverlap(wants[i].address, wants[j].address)
              /\ PortRangesOverlap(wants[i].ports, wants[j].ports))

TakesFrom(s, l) == /\ s.protocol \in {"both", l.protocol} /\ Covers(s.ports, l.port)
                   /\ "any" \in {l.address, s.address} \/ s.address \in {"none", l.address}

CheckListenerConflicts(i, on, force) ==
    on /\ ~force => \A l \in Listeners : ~TakesFrom(wants[i], l)

Validate(i, on, force) == /\ CheckPortConflicts(i, on) /\ CheckListenerConflicts(i, on, force)
                          /\ CheckRoute(wants[i])

(* Nothing tells the rules apart, so the order below restricts nothing.    *)
Init == /\ wants \in [Rules -> Specs]
        /\ \A i, j \in Rules : i < j =>
             \/ wants[i].ports.first < wants[j].ports.first
             \/ wants[i].ports.first = wants[j].ports.first /\ wants[i].ports.last <= wants[j].ports.last
        /\ sshd \in [port : {DefaultSsh}, awake : {TRUE}] /\ service = FALSE
        /\ rows = [i \in Rules |-> NoRow] /\ installed = {} /\ request = NoRequest

(* Under the lock: the row is written, unless the index refuses it, and    *)
(* the enabled rules are installed, unless the guard refuses one of them.  *)
IndexRefuses(i, on) == on /\ \E j \in Rules \ {i} :
    /\ rows[j].enabled /\ wants[j].protocol = wants[i].protocol
    /\ wants[j].address = wants[i].address /\ wants[j].ports.first = wants[i].ports.first

Apply == LET enabled == {i \in Rules : rows'[i].enabled}
         IN installed' = IF \A i \in enabled : CheckRoute(wants[i]) THEN enabled ELSE installed

Write(i, row) == /\ rows' = [rows EXCEPT ![i] = row]
                 /\ Apply

-----------------------------------------------------------------------------
(* Create and Update check what they were asked for, then wait.            *)
Submit(i, on, force) ==
    /\ request = NoRequest /\ Validate(i, on, force)
    /\ request' = [at |-> "wait", rule |-> i,
                   row |-> [stored |-> TRUE, enabled |-> on, spares |-> on /\ ~force, checked |-> TRUE]]
    /\ UNCHANGED <<wants, sshd, service, rows, installed>>

Stale == IF request = NoRequest THEN request' = request
         ELSE request' = [request EXCEPT !.row.checked = FALSE]

Proceed ==
    /\ request.at = "wait" /\ request' = NoRequest
    /\ IF IndexRefuses(request.rule, request.row.enabled) THEN UNCHANGED <<rows, installed>>
       ELSE Write(request.rule, request.row)
    /\ UNCHANGED <<wants, sshd, service>>

(* A request that gets the lock before the one that waits.                 *)
Store(i, on, force) ==
    /\ request # NoRequest /\ Validate(i, on, force) /\ ~IndexRefuses(i, on)
    /\ Write(i, [stored |-> TRUE, enabled |-> on, spares |-> on /\ ~force, checked |-> TRUE])
    /\ Stale /\ UNCHANGED <<wants, sshd, service>>

(* SetEnabled turns a stored rule on or off and checks nothing itself.     *)
SetEnabled(i, on) ==
    /\ rows[i].stored /\ rows[i].enabled # on /\ ~IndexRefuses(i, on)
    /\ Write(i, [rows[i] EXCEPT !.enabled = on, !.checked = FALSE, !.spares = FALSE])
    /\ Stale /\ UNCHANGED <<wants, sshd, service>>

Delete(i) == /\ rows[i].stored /\ Write(i, NoRow)
             /\ Stale /\ UNCHANGED <<wants, sshd, service>>

(* Daemons come, go and move outside the panel; nothing was checked        *)
(* against the sockets as they are now. (Bounds: one that moved is awake,  *)
(* and the other service runs while sshd is where it was.)                 *)
DaemonsChange ==
    /\ sshd' \in [port : {DefaultSsh, MaxPort}, awake : BOOLEAN]
    /\ sshd'.awake \/ sshd'.port = DefaultSsh
    /\ service' = (sshd' = [port |-> DefaultSsh, awake |-> TRUE] /\ ~service)
    /\ rows' = [i \in Rules |-> [rows[i] EXCEPT !.spares = FALSE]]
    /\ request' = IF request = NoRequest THEN request ELSE [request EXCEPT !.row.spares = FALSE]
    /\ UNCHANGED <<wants, installed>>

Next == \/ Proceed \/ DaemonsChange
        \/ \E i \in Rules : \/ Delete(i) \/ \E on \in BOOLEAN : SetEnabled(i, on)
                            \/ \E on \in BOOLEAN : \E f \in {FALSE, on} : Submit(i, on, f) \/ Store(i, on, f)

-----------------------------------------------------------------------------
(* The packets a rule would redirect, a reading of the rendered match.     *)
Hosts == Addresses \ {"any", "none"}
Claims(s, pr, a, p) == /\ s.protocol \in {"both", pr} /\ s.address \in {"any", "none", a}
                       /\ Covers(s.ports, p)
NothingInCommon(s, t) == \A pr \in {"tcp", "udp"} : \A a \in Hosts : \A p \in 1..MaxPort :
                            ~(Claims(s, pr, a, p) /\ Claims(t, pr, a, p))

(* No packet is claimed by two rules that are on and were checked against  *)
(* the rules as they were when they were written, unless one of them names *)
(* no address.                                                             *)
ListenersAreDisjoint ==
    \A i, j \in Rules : (/\ i < j /\ rows[i].enabled /\ rows[j].enabled
                         /\ rows[i].checked /\ rows[j].checked
                         /\ "none" \notin {wants[i].address, wants[j].address})
                        => NothingInCommon(wants[i], wants[j])

(* A rule that is on takes no packet from a service it was checked against,*)
(* unless that was forced.                                                 *)
ServicesAreSpared ==
    \A i \in Rules : rows[i].spares =>
        \A l \in Listeners : \A a \in Hosts :
            l.address \in {"any", a} => ~Claims(wants[i], l.protocol, a, l.port)

(* What is installed never takes a packet for the panel, whatever is       *)
(* forced, switched or raced.                                              *)
PanelIsReachable == \A i \in installed : \A a \in Hosts : ~Claims(wants[i], "tcp", a, Panel)
RulesAreAdmitted == ListenersAreDisjoint /\ ServicesAreSpared /\ PanelIsReachable

-----------------------------------------------------------------------------
(* Why: two rules that are on and were checked do not meet in protocol,    *)
(* address and ports, nor does the request that waits with any that is on; *)
(* what was checked against the sockets takes from none; and the guard saw *)
(* everything that is installed.                                           *)
Meet(i, j) == /\ ProtocolsOverlap(wants[i].protocol, wants[j].protocol)
              /\ BindAddressesOverlap(wants[i].address, wants[j].address)
              /\ PortRangesOverlap(wants[i].ports, wants[j].ports)
CheckPanel(s) == s.protocol = "udp" \/ ~Covers(s.ports, Panel)
TakesNothing(i) == \A l \in Listeners : ~TakesFrom(wants[i], l)
Row == [stored : BOOLEAN, enabled : BOOLEAN, spares : BOOLEAN, checked : BOOLEAN]

AdmissionInv ==
    /\ wants \in [Rules -> Specs] /\ rows \in [Rules -> Row]
    /\ \A i, j \in Rules : (/\ i # j /\ rows[i].enabled /\ rows[i].checked
                            /\ rows[j].enabled /\ rows[j].checked) => ~Meet(i, j)
    /\ \A i \in Rules : rows[i].spares => TakesNothing(i)
    /\ installed \subseteq Rules /\ \A i \in installed : CheckPanel(wants[i])
    /\ request # NoRequest =>
          /\ request \in [at : {"wait"}, rule : Rules, row : Row]
          /\ request.row.enabled /\ request.row.checked =>
                \A j \in Rules \ {request.rule} : rows[j].enabled => ~Meet(request.rule, j)
          /\ request.row.spares => TakesNothing(request.rule)
=============================================================================

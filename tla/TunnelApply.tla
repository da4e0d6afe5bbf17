---------------------------- MODULE TunnelApply ----------------------------
(***************************************************************************)
(* One tunnel of the panel, from the database row to the kernel interface: *)
(* the plan an operation builds, the steps that carry it out one by one,   *)
(* the verification that follows and the inverse plan that runs when       *)
(* something failed (src/internal/tunnel).  The mutation lock serialises   *)
(* operations (module MutationLock), so at most one pipeline is under way. *)
(*                                                                         *)
(* The environment may make a step fail, disconnect the client in the      *)
(* middle of its request, crash the panel, reboot the host, and change the *)
(* host behind the panel's back.                                           *)
(*                                                                         *)
(* Abstractions: a tunnel has exactly one address; everything the kernel   *)
(* cannot change on a live interface is one value, the "shape"; the        *)
(* optional keepalive unit and the transmit queue length are left out, and *)
(* so are renames (the interface name never changes).                      *)
(***************************************************************************)
EXTENDS Naturals, Sequences

CONSTANTS
  Configs,       \* the configurations a request may ask for
  EnabledInputs, \* the values of is_enabled a request may carry
  DefaultMtu,    \* the MTU the kernel gives a new interface
  None,          \* no interface, no file, no unit
  MaxFaults,     \* bound: steps that fail for a reason of their own
  MaxInterrupts  \* bound: refusals, disconnects, crashes, reboots, drifts

Shapes == {c.shape : c \in Configs}
Mtus   == {c.mtu : c \in Configs}
Addrs  == {c.addr : c \in Configs}

\* An interface as link.Get reports it.
Links == [shape : Shapes, mtu : Mtus \cup {DefaultMtu},
          addrs : SUBSET Addrs, up : BOOLEAN]

ASSUME ConfigsAssumption ==
  /\ \A c \in Configs : c = [persist |-> c.persist, shape |-> c.shape,
                             mtu |-> c.mtu, addr |-> c.addr]
  /\ \A c \in Configs : c.persist \in {"systemd", "networkd", "runtime"}
ASSUME NoneAssumption ==
  /\ None \notin Configs
  /\ None \notin Links
ASSUME BoundsAssumption ==
  /\ EnabledInputs \subseteq BOOLEAN
  /\ MaxFaults \in Nat
  /\ MaxInterrupts \in Nat

VARIABLES
  row,        \* the tunnel's row in the database
  host,       \* what the kernel, systemd and networkd hold
  op, phase,  \* the operation under way and the part of it that runs
  todo,       \* the plan steps still to run
  undo,       \* the inverse plan, run when a step or the verification fails
  want,       \* the record the operation verifies against
  cancelled,  \* the request's context is done: its client went away
  faults, interrupts, \* how much of the bounds is used up
  \* History, read by the properties only.
  settled,    \* the last change succeeded and nothing disturbed the host since
  takenDown,  \* the last operation was a Down that reported success
  last        \* how the last operation went

pipeline == <<op, phase, todo, undo, want>>
vars == <<row, host, pipeline, cancelled, faults, interrupts,
          settled, takenDown, last>>

Statuses == {"pending", "applied", "failed", "inconsistent"}
Rows == [live : BOOLEAN, conf : Configs \cup {None}, enabled : BOOLEAN,
         status : Statuses]
Hosts == [link : Links \cup {None}, unit : Configs \cup {None},
          loaded : Configs \cup {None}, enabled : BOOLEAN, active : BOOLEAN,
          netdev : Configs \cup {None}, network : Configs \cup {None}]

(***************************************************************************)
(* Plans (plan.go).                                                        *)
(***************************************************************************)
ExecKinds == {"DaemonReload", "UnitEnable", "UnitDisable", "UnitStart",
              "UnitStop", "NetworkdReload"}
Kinds == ExecKinds \cup
  {"LinkCreate", "LinkDelete", "LinkUp", "LinkDown", "SetMtu",
   "AddressAdd", "AddressRemove", "UnitWrite", "UnitRemove",
   "NetdevWrite", "NetdevRemove", "NetworkWrite", "NetworkRemove"}
Steps == [kind : Kinds, conf : Configs, tolerate : BOOLEAN]

Do(kind, c)        == [kind |-> kind, conf |-> c, tolerate |-> FALSE]
Tolerated(kind, c) == [kind |-> kind, conf |-> c, tolerate |-> TRUE]

PlanRuntimeCreate(c) ==
  << Do("LinkCreate", c), Do("AddressAdd", c), Do("SetMtu", c), Do("LinkUp", c) >>

PlanSystemdCreate(c) ==
  << Do("UnitWrite", c), Do("DaemonReload", c), Do("UnitEnable", c),
     Do("UnitStart", c) >>

PlanNetworkdCreate(c) ==
  PlanRuntimeCreate(c) \o
  << Do("NetdevWrite", c), Do("NetworkWrite", c), Tolerated("NetworkdReload", c) >>

PlanCreate(c) ==
  IF c.persist = "systemd" THEN PlanSystemdCreate(c)
  ELSE IF c.persist = "networkd" THEN PlanNetworkdCreate(c)
  ELSE PlanRuntimeCreate(c)

\* AddRollback prepends, so the inverse steps run in the opposite order to the
\* one they were added in.
CreateRollback(c) ==
  IF c.persist = "systemd"
  THEN << Tolerated("DaemonReload", c), Tolerated("LinkDelete", c),
          Tolerated("UnitStop", c), Tolerated("UnitDisable", c),
          Tolerated("UnitRemove", c) >>
  ELSE IF c.persist = "networkd"
  THEN << Tolerated("NetworkRemove", c), Tolerated("NetdevRemove", c),
          Tolerated("LinkDelete", c) >>
  ELSE << Tolerated("LinkDelete", c) >>

\* Mutant: the unit file is never removed.
PlanDeleteKeepsFile(c) ==
  << Tolerated("UnitStop", c), Tolerated("UnitDisable", c),
     Tolerated("DaemonReload", c), Tolerated("LinkDelete", c) >>

PlanDelete(c) ==
  IF c.persist = "systemd"
  THEN << Tolerated("UnitStop", c), Tolerated("UnitDisable", c),
          Tolerated("UnitRemove", c), Tolerated("DaemonReload", c),
          Tolerated("LinkDelete", c) >>
  ELSE IF c.persist = "networkd"
  THEN << Tolerated("NetdevRemove", c), Tolerated("NetworkRemove", c),
          Tolerated("NetworkdReload", c), Tolerated("LinkDelete", c) >>
  ELSE << Tolerated("LinkDelete", c) >>

\* Only the MTU and the address can change on a live interface.
RequiresRecreate(c, d) == c.persist # d.persist \/ c.shape # d.shape

PlanRecreate(c, d) == PlanDelete(c) \o PlanCreate(d)
\* Mutant: the rollback of a recreation forgets to build the previous tunnel.
RecreateRollbackForgets(c, d) == CreateRollback(d)

RecreateRollback(c, d) == CreateRollback(d) \o PlanCreate(c)

\* The steps of s when the condition holds, no step otherwise.
When(condition, s) == IF condition THEN s ELSE << >>

\* Mutants of RewritePersistence: the unit file is not written; the .network file
\* is not written; the unit is restarted.
RewriteReloadsOnly(d) == << Do("DaemonReload", d) >>
RewriteForgetsNetwork(d) == << Do("NetdevWrite", d), Tolerated("NetworkdReload", d) >>
RewriteRestarts(d) ==
  << Do("UnitWrite", d), Do("DaemonReload", d), Do("UnitStop", d), Do("UnitStart", d) >>

RewritePersistence(d) ==
  When(d.persist = "systemd", << Do("UnitWrite", d), Do("DaemonReload", d) >>) \o
  When(d.persist = "networkd",
       << Do("NetdevWrite", d), Do("NetworkWrite", d), Tolerated("NetworkdReload", d) >>)

\* The row asks for configuration c and state e, the request for d and f.
PlanInPlace(c, e, d, f) ==
  When(c.mtu # d.mtu, << Do("SetMtu", d) >>) \o
  When(c.addr # d.addr, << Do("AddressRemove", c), Do("AddressAdd", d) >>) \o
  When(e # f, << Do(IF f THEN "LinkUp" ELSE "LinkDown", d) >>) \o
  RewritePersistence(d)

\* Mutant: the inverse plan leaves the rewritten unit file alone.
InPlaceRollbackKeepsFile(c, e, d, f) ==
  When(e # f, << Do(IF f THEN "LinkDown" ELSE "LinkUp", c) >>) \o
  When(c.addr # d.addr, << Do("AddressRemove", d), Do("AddressAdd", c) >>) \o
  When(c.mtu # d.mtu, << Do("SetMtu", c) >>)

InPlaceRollback(c, e, d, f) ==
  When(d.persist = "systemd", << Do("UnitWrite", c) >>) \o
  When(e # f, << Do(IF f THEN "LinkDown" ELSE "LinkUp", c) >>) \o
  When(c.addr # d.addr, << Do("AddressRemove", d), Do("AddressAdd", c) >>) \o
  When(c.mtu # d.mtu, << Do("SetMtu", c) >>)

PlanUp(c) ==
  << Do("LinkUp", c) >> \o
  When(c.persist = "systemd", << Tolerated("UnitEnable", c) >>)
UpRollback(c) == << Tolerated("LinkDown", c) >>
PlanDown(c) ==
  << Do("LinkDown", c) >> \o
  When(c.persist = "systemd", << Tolerated("UnitDisable", c) >>)

(***************************************************************************)
(* What a step does to the host (link, persist, and the unit file the      *)
(* renderer writes).                                                       *)
(***************************************************************************)
NewLink(c) == [shape |-> c.shape, mtu |-> DefaultMtu, addrs |-> {}, up |-> FALSE]

\* The interface the ExecStart lines of a unit, or networkd's files, build.
BuiltLink(c) == [shape |-> c.shape, mtu |-> c.mtu, addrs |-> {c.addr}, up |-> TRUE]

\* The unit systemd would start: the definition in memory, the file otherwise.
Definition(h) == IF h.loaded = None THEN h.unit ELSE h.loaded

Possible(s, h) ==
  CASE s.kind = "LinkCreate" -> h.link = None
    [] s.kind = "AddressAdd" -> IF h.link = None THEN FALSE
                                ELSE s.conf.addr \notin h.link.addrs
    [] s.kind \in {"AddressRemove", "SetMtu", "LinkUp", "LinkDown"} -> h.link # None
    [] s.kind = "UnitEnable" -> h.unit # None
    [] s.kind = "UnitStart" -> h.active \/ Definition(h) # None
    [] OTHER -> TRUE

Effect(s, h) ==
  CASE s.kind = "LinkCreate"    -> [h EXCEPT !.link = NewLink(s.conf)]
    [] s.kind = "LinkDelete"    -> [h EXCEPT !.link = None]
    [] s.kind = "LinkUp"        -> [h EXCEPT !.link.up = TRUE]
    [] s.kind = "LinkDown"      -> [h EXCEPT !.link.up = FALSE]
    [] s.kind = "SetMtu"        -> [h EXCEPT !.link.mtu = s.conf.mtu]
    [] s.kind = "AddressAdd"    -> [h EXCEPT !.link.addrs = @ \cup {s.conf.addr}]
    [] s.kind = "AddressRemove" -> [h EXCEPT !.link.addrs = @ \ {s.conf.addr}]
    [] s.kind = "UnitWrite"     -> [h EXCEPT !.unit = s.conf]
    [] s.kind = "UnitRemove"    -> [h EXCEPT !.unit = None]
    [] s.kind = "NetdevWrite"   -> [h EXCEPT !.netdev = s.conf]
    [] s.kind = "NetdevRemove"  -> [h EXCEPT !.netdev = None]
    [] s.kind = "NetworkWrite"  -> [h EXCEPT !.network = s.conf]
    [] s.kind = "NetworkRemove" -> [h EXCEPT !.network = None]
    [] s.kind = "DaemonReload"  -> [h EXCEPT !.loaded = h.unit]
    [] s.kind = "UnitEnable"    -> [h EXCEPT !.enabled = TRUE]
    [] s.kind = "UnitDisable"   -> [h EXCEPT !.enabled = FALSE]
    [] s.kind = "UnitStart"     ->
         IF h.active THEN h
         ELSE [h EXCEPT !.link = BuiltLink(Definition(h)), !.active = TRUE,
                        !.loaded = Definition(h)]
    [] s.kind = "UnitStop"      ->
         IF h.active THEN [h EXCEPT !.link = None, !.active = FALSE] ELSE h
    [] OTHER                    -> h

\* How a step that fails for a reason of its own leaves the host: as it was, or
\* - a command killed by its timeout - with its work done but not reported, or,
\* for a start, with the unit failed half way through its ExecStart lines.
FaultyEffects(s, h) ==
  {h} \cup
  (IF s.kind \in ExecKinds /\ Possible(s, h) THEN {Effect(s, h)} ELSE {}) \cup
  (IF s.kind = "UnitStart" /\ ~h.active /\ Definition(h) # None
   THEN {[h EXCEPT !.link = NewLink(Definition(h)), !.loaded = Definition(h)]} ELSE {})

\* A command cannot be run once the request's context is done; netlink calls and
\* file writes do not look at the context.
Succeeds(s) == Possible(s, host) /\ (cancelled => s.kind \notin ExecKinds)

Matches(l, c) == l # None /\ l.shape = c.shape /\ l.mtu = c.mtu /\ c.addr \in l.addrs

Verified(w) ==
  /\ Matches(host.link, w.conf)
  /\ host.link.up = w.enabled
  /\ w.conf.persist = "systemd" => host.enabled /\ host.active /\ ~cancelled

\* The interfaces a boot may end with.
BootLinks(h) ==
  LET units == IF h.enabled /\ h.unit # None THEN {BuiltLink(h.unit)} ELSE {}
      files == IF h.netdev = None THEN {}
               ELSE {IF h.network = None THEN NewLink(h.netdev)
                     ELSE [BuiltLink(h.network) EXCEPT !.shape = h.netdev.shape,
                                                      !.mtu = h.netdev.mtu]}
  IN IF units \cup files = {} THEN {None} ELSE units \cup files

(***************************************************************************)
(* Operations (service.go).                                                *)
(***************************************************************************)
NoRecord == [conf |-> None, enabled |-> FALSE]
NoRow    == [live |-> FALSE, conf |-> None, enabled |-> FALSE, status |-> "pending"]
NoHost   == [link |-> None, unit |-> None, loaded |-> None, enabled |-> FALSE,
             active |-> FALSE, netdev |-> None, network |-> None]
NothingYet == [op |-> "none", verdict |-> "none", disturbed |-> FALSE,
               undoDisturbed |-> FALSE, enabled |-> FALSE,
               before |-> NoHost, from |-> NoRow]

Init ==
  /\ row = NoRow /\ host = NoHost
  /\ op = "none" /\ phase = "idle" /\ todo = << >> /\ undo = << >> /\ want = NoRecord
  /\ cancelled = FALSE /\ faults = 0 /\ interrupts = 0
  /\ settled = FALSE /\ takenDown = FALSE /\ last = NothingYet

\* A handler that has taken the lock, written r and built its plan.
Begin(name, r, steps, inverse) ==
  /\ phase = "idle"
  /\ row' = r
  /\ op' = name /\ phase' = "guard" /\ todo' = steps /\ undo' = inverse
  /\ want' = [conf |-> r.conf, enabled |-> r.enabled]
  /\ last' = [op |-> name, verdict |-> "running", disturbed |-> FALSE,
              undoDisturbed |-> FALSE, enabled |-> r.enabled,
              before |-> host, from |-> row]
  /\ takenDown' = FALSE
  /\ UNCHANGED <<host, cancelled, faults, interrupts, settled>>

\* The validator refuses a name that is taken, in the panel or on the host.
Create(c, e) ==
  /\ ~row.live /\ host.link = None
  /\ Begin("create", [live |-> TRUE, conf |-> c, enabled |-> e, status |-> "pending"],
           PlanCreate(c), CreateRollback(c))

\* repo.Update leaves ApplyStatusID alone.
UpdateInPlace(d, f) ==
  /\ row.live /\ ~RequiresRecreate(row.conf, d)
  /\ row.conf # d \/ row.enabled # f
  /\ Begin("update", [row EXCEPT !.conf = d, !.enabled = f],
           PlanInPlace(row.conf, row.enabled, d, f),
           InPlaceRollback(row.conf, row.enabled, d, f))

UpdateRecreate(d, f) ==
  /\ row.live /\ RequiresRecreate(row.conf, d)
  /\ Begin("update", [row EXCEPT !.conf = d, !.enabled = f],
           PlanRecreate(row.conf, d), RecreateRollback(row.conf, d))

\* Mutant: the plan does not tear down what is there first.
ReapplyOver ==
  /\ row.live
  /\ Begin("reapply", row, PlanCreate(row.conf), CreateRollback(row.conf))

Reapply ==
  /\ row.live
  /\ Begin("reapply", row, PlanDelete(row.conf) \o PlanCreate(row.conf),
           CreateRollback(row.conf))

\* Up of an interface that is gone is a reapply of the stored row.
UpRebuilds ==
  /\ row.live /\ host.link = None
  /\ Begin("upRebuild", row, PlanDelete(row.conf) \o PlanCreate(row.conf),
           CreateRollback(row.conf))

Up ==
  /\ row.live /\ host.link # None
  /\ Begin("up", [row EXCEPT !.enabled = TRUE], PlanUp(row.conf), UpRollback(row.conf))

Down   == row.live /\ Begin("down", row, PlanDown(row.conf), << >>)
Delete == row.live /\ Begin("delete", row, PlanDelete(row.conf), << >>)

\* SetApplyStatus is lost with the request's context.
SetApplyStatus(status) ==
  row' = IF cancelled THEN row ELSE [row EXCEPT !.status = status]

End(verdict) ==
  /\ op' = "none" /\ phase' = "idle" /\ todo' = << >> /\ undo' = << >> /\ want' = NoRecord
  /\ cancelled' = FALSE
  /\ last' = [last EXCEPT !.verdict = verdict, !.before = NoHost, !.from = NoRow]

\* The operations that go through run, with its verification and rollback.
RunOps == {"create", "update", "reapply", "upRebuild", "up"}

GuardPasses ==
  /\ phase = "guard" /\ phase' = "steps"
  /\ UNCHANGED <<row, host, op, todo, undo, want, cancelled, faults, interrupts,
                 settled, takenDown, last>>

\* guardPlan refuses the plan: a protected interface, a file the panel does not
\* own.  run records it; Delete and Down only return the error.
GuardRefuses ==
  /\ phase = "guard" /\ interrupts < MaxInterrupts
  /\ interrupts' = interrupts + 1
  /\ IF op \in RunOps THEN SetApplyStatus("failed") ELSE UNCHANGED row
  /\ End("refused")
  /\ settled' = FALSE
  /\ UNCHANGED <<host, faults, takenDown>>

StepDone ==
  /\ phase \in {"steps", "undo"} /\ todo # << >> /\ Succeeds(Head(todo))
  /\ host' = Effect(Head(todo), host)
  /\ todo' = Tail(todo)
  /\ UNCHANGED <<row, op, phase, undo, want, cancelled, faults, interrupts,
                 settled, takenDown, last>>

\* The ways the step at the head of todo may fail now, and the bound they use.
Fails(h) ==
  /\ todo # << >>
  /\ \/ ~Succeeds(Head(todo)) /\ h = host /\ UNCHANGED faults
     \/ /\ faults < MaxFaults /\ faults' = faults + 1
        /\ Succeeds(Head(todo)) /\ h \in FaultyEffects(Head(todo), host)
  /\ host' = h

\* What the failure of a step makes of the history of the operation.
Disturb(l) ==
  LET real == cancelled \/ Succeeds(Head(todo))
  IN [l EXCEPT !.disturbed     = @ \/ (phase = "steps" /\ real),
               !.undoDisturbed = @ \/ (phase = "undo" /\ real)]

StepTolerated(h) ==
  /\ phase \in {"steps", "undo"} /\ Fails(h) /\ Head(todo).tolerate
  /\ todo' = Tail(todo)
  /\ last' = Disturb(last)
  /\ UNCHANGED <<row, op, phase, undo, want, cancelled, interrupts, settled, takenDown>>

StepFails(h) ==
  /\ phase = "steps" /\ op \in RunOps /\ Fails(h) /\ ~Head(todo).tolerate
  /\ phase' = "undo" /\ todo' = undo /\ undo' = << >>
  /\ last' = Disturb(last)
  /\ settled' = FALSE
  /\ UNCHANGED <<row, op, want, cancelled, interrupts, takenDown>>

\* Delete and Down have no inverse plan: they return the error.
StepGivesUp(h) ==
  /\ phase = "steps" /\ op \notin RunOps /\ Fails(h) /\ ~Head(todo).tolerate
  /\ End("error")
  /\ settled' = FALSE
  /\ UNCHANGED <<row, interrupts, takenDown>>

Finished == phase = "steps" /\ todo = << >>

Commit ==
  /\ Finished /\ op \in RunOps /\ Verified(want)
  /\ SetApplyStatus("applied")
  /\ End(IF cancelled THEN "error" ELSE "applied")
  /\ settled' = IF op = "up" THEN settled ELSE ~cancelled
  /\ UNCHANGED <<host, faults, interrupts, takenDown>>

VerifyFails ==
  /\ Finished /\ op \in RunOps /\ ~Verified(want)
  /\ phase' = "undo" /\ todo' = undo /\ undo' = << >>
  /\ settled' = FALSE
  /\ last' = [last EXCEPT !.disturbed = @ \/ cancelled]
  /\ UNCHANGED <<row, host, op, want, cancelled, faults, interrupts, takenDown>>

\* SetEnabled(false) is the last thing Down does; verifyDown only reports.
FinishDown ==
  /\ Finished /\ op = "down"
  /\ row' = IF cancelled THEN row ELSE [row EXCEPT !.enabled = FALSE]
  /\ End(IF cancelled THEN "error" ELSE "done")
  /\ takenDown' = ~cancelled
  /\ settled' = (settled /\ ~cancelled)
  /\ UNCHANGED <<host, faults, interrupts>>

FinishDelete ==
  /\ Finished /\ op = "delete"
  /\ LET gone == host.link = None /\ ~cancelled
     IN /\ row' = IF gone THEN [row EXCEPT !.live = FALSE] ELSE row
        /\ End(IF gone THEN "done" ELSE "error")
  /\ settled' = FALSE
  /\ UNCHANGED <<host, faults, interrupts, takenDown>>

UndoFails(h) ==
  /\ phase = "undo" /\ Fails(h) /\ ~Head(todo).tolerate
  /\ SetApplyStatus("inconsistent")
  /\ op' = "none" /\ phase' = "idle" /\ todo' = << >> /\ undo' = << >> /\ want' = NoRecord
  /\ cancelled' = FALSE
  /\ last' = [Disturb(last) EXCEPT !.verdict = "inconsistent", !.before = NoHost,
                                   !.from = NoRow]
  /\ UNCHANGED <<interrupts, settled, takenDown>>

UndoDone ==
  /\ phase = "undo" /\ todo = << >>
  /\ SetApplyStatus("failed")
  /\ End("rolledBack")
  /\ UNCHANGED <<host, faults, interrupts, settled, takenDown>>

(***************************************************************************)
(* The environment.                                                        *)
(***************************************************************************)
Interrupt == interrupts < MaxInterrupts /\ interrupts' = interrupts + 1

\* The client goes away: net/http cancels the context the handler runs with.
Disconnect ==
  /\ phase # "idle" /\ ~cancelled /\ Interrupt
  /\ cancelled' = TRUE
  /\ UNCHANGED <<row, host, pipeline, faults, settled, takenDown, last>>

\* The panel process dies between two steps; the row keeps what was written.
Crash ==
  /\ phase # "idle" /\ Interrupt
  /\ End("crashed")
  /\ settled' = FALSE
  /\ UNCHANGED <<row, host, faults, takenDown>>

\* The host restarts: enabled units are started and networkd reads its files.
Reboot ==
  /\ Interrupt
  /\ \E l \in BootLinks(host) :
       host' = [host EXCEPT !.link = l, !.loaded = host.unit,
                            !.active = host.enabled /\ host.unit # None]
  /\ IF phase = "idle"
     THEN /\ settled' = (settled /\ row.conf.persist # "runtime")
          /\ UNCHANGED <<pipeline, cancelled, last>>
     ELSE End("crashed") /\ settled' = FALSE
  /\ UNCHANGED <<row, faults, takenDown>>

\* Somebody works on the host with ip and systemctl.
DriftedHosts(h) ==
  {[h EXCEPT !.link = None], [h EXCEPT !.enabled = FALSE],
   [h EXCEPT !.unit = None, !.loaded = None],
   [h EXCEPT !.link = None, !.active = FALSE]}
  \cup (IF h.link = None THEN {}
        ELSE {[h EXCEPT !.link.up = ~@], [h EXCEPT !.link.mtu = DefaultMtu],
              [h EXCEPT !.link.addrs = {}]})

Drift ==
  /\ phase = "idle" /\ Interrupt
  /\ \E h \in DriftedHosts(host) : h # host /\ host' = h
  /\ settled' = FALSE /\ takenDown' = FALSE
  /\ UNCHANGED <<row, pipeline, cancelled, faults, last>>

FailedStep == \E h \in FaultyEffects(Head(todo), host) :
                StepTolerated(h) \/ StepFails(h) \/ StepGivesUp(h) \/ UndoFails(h)

Next ==
  \/ \E c \in Configs, e \in EnabledInputs :
       Create(c, e) \/ UpdateInPlace(c, e) \/ UpdateRecreate(c, e)
  \/ Reapply \/ UpRebuilds \/ Up \/ Down \/ Delete
  \/ GuardPasses \/ GuardRefuses
  \/ StepDone \/ (todo # << >> /\ FailedStep)
  \/ Commit \/ VerifyFails \/ FinishDown \/ FinishDelete \/ UndoDone
  \/ Disconnect \/ Crash \/ Reboot \/ Drift

Spec == Init /\ [][Next]_vars

(***************************************************************************)
(* Properties.                                                             *)
(***************************************************************************)
\* Every variable keeps its type: the pipeline only ever holds plan steps, and
\* a live row always names a configuration.
TypeOK ==
  /\ row \in Rows /\ (row.live => row.conf \in Configs)
  /\ host \in Hosts
  /\ op \in {"none", "create", "update", "reapply", "upRebuild", "up", "down", "delete"}
  /\ phase \in {"idle", "guard", "steps", "undo"}
  /\ todo \in Seq(Steps) /\ undo \in Seq(Steps)
  /\ want \in [conf : Configs \cup {None}, enabled : BOOLEAN]
  /\ phase # "idle" => want.conf \in Configs
  /\ cancelled \in BOOLEAN /\ settled \in BOOLEAN /\ takenDown \in BOOLEAN
  /\ faults \in 0..MaxFaults /\ interrupts \in 0..MaxInterrupts

\* What is on disk brings the stored tunnel back, whichever source wins at boot.
SurvivesReboot ==
  row.conf.persist # "runtime" =>
    \A l \in BootLinks(host) : Matches(l, row.conf) /\ l.up

\* What another persistence method than c's has left on the host: an update that
\* changes the method and is cut short, or whose removals failed, leaves it, and
\* no plan for c takes it away.
Leftover(c) ==
  \/ c.persist # "systemd" /\ (host.unit # None \/ host.enabled \/ host.active)
  \/ c.persist # "networkd" /\ (host.netdev # None \/ host.network # None)

\* A tunnel whose last change succeeded is, while nobody disturbs it, exactly the
\* stored one, now and after a reboot: the promise of verifying the kernel and
\* of writing the persistence files in the same plan (Verify, PlanUpdate).
AppliedIsDurable ==
  phase = "idle" /\ settled /\ row.live /\ row.enabled /\ ~Leftover(row.conf) =>
    Matches(host.link, row.conf) /\ host.link.up /\ SurvivesReboot

\* A create that was rolled back, no step of the rollback having failed, leaves
\* neither an interface nor a file nor a unit behind (PlanCreate's rollback).
FailedCreateLeavesNothing ==
  phase = "idle" /\ last.op = "create" /\ last.verdict = "rolledBack"
    /\ ~last.undoDisturbed /\ ~Leftover(row.conf) =>
    [host EXCEPT !.loaded = None] = NoHost

Healthy(h, c) ==
  /\ Matches(h.link, c) /\ h.link.up
  /\ h.unit = c /\ h.enabled /\ h.active

\* An update that reports a clean rollback has put a running systemd tunnel back
\* as it was, the unit file included, whichever step failed (PlanUpdate).
RollbackRestores ==
  [][ /\ phase = "undo" /\ last'.op = "update" /\ last'.verdict = "rolledBack"
      /\ last.from.conf.persist = "systemd" /\ row.conf.persist = "systemd"
      /\ ~last.undoDisturbed
      /\ last.from.enabled /\ Healthy(last.before, last.from.conf)
      => Healthy(host', last.from.conf) ]_vars

\* Changing what the kernel can change on a live interface never takes the
\* interface away, not even while the change is undone (planRewritePersistence).
InPlaceKeepsInterface ==
  [][ /\ op = "update" /\ phase \in {"steps", "undo"} /\ interrupts' = interrupts
      /\ ~RequiresRecreate(last.from.conf, row.conf) /\ host.link # None
      => host'.link # None ]_vars

\* Reapply is the remedy for drift: of an enabled tunnel it can only fail when one
\* of its own steps does, whatever state the host was left in.
ReapplyHeals ==
  last.op = "reapply" /\ last.verdict \in {"rolledBack", "inconsistent"}
    /\ last.enabled => last.disturbed

\* A tunnel that was taken down stays down, over reboots too, until somebody
\* brings it up again, if no step ever failed (PlanDown). The networkd files of
\* one that has them say nothing of it and bring it up at boot.
DownStaysDown ==
  takenDown /\ faults = 0 /\ row.conf.persist # "networkd" /\ ~Leftover(row.conf) =>
    host.link = None \/ ~host.link.up

\* A delete that reports success has left nothing that could bring the interface
\* back, if no step ever failed (PlanDelete).
DeletedLeavesNothing ==
  phase = "idle" /\ last.op = "delete" /\ last.verdict = "done" /\ faults = 0
    /\ ~Leftover(row.conf) =>
    [host EXCEPT !.loaded = None] = NoHost

\* What a plan was to take away is gone and comes back by no reboot: all of it
\* after a rolled back create or a delete, the link's state after a down.
TakenAwayStaysAway == FailedCreateLeavesNothing /\ DeletedLeavesNothing /\ DownStaysDown
=============================================================================

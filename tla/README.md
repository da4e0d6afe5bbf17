# Tunnel Panel: specification, model checking and proofs

Tunnel Panel is one Go process on a Linux host. It keeps a SQLite database that
says what the host should look like (GRE and IPIP tunnels, forwarding rules,
traffic limits) and makes the kernel, systemd and netfilter look like it. This
directory models the parts of the server in which state, failure and concurrency
meet, checks them with TLC on small instances, and proves the central
results with TLAPS for every value of the constants.

Sources are named relative to `src/internal` unless they start with `src/`.

## 1. The system

### 1.1 Components, their state and their operations

| Component | State | Operations | What is hard | What makes it correct |
|---|---|---|---|---|
| Tunnel service (`tunnel/service.go`, `plan.go`, `repo.go`, `verify.go`) | `Tunnel` rows with an apply status; through its steps: the kernel interface, unit and networkd files, unit state | Create, Update, Reapply, Up, Down, Restart, Delete, previews | steps that fail half way, inverse plans, crash and reboot between row, file and kernel, clients that disconnect, changes from outside | applied means applied, also after a reboot; a rollback restores; a delete leaves nothing; a live change does not cut traffic |
| Mutation lock (`lock/lock.go`) | a channel of one token, the waiting senders | Acquire, the release it returns, cancellation | abandonment while queued, handover | exclusion; no request waits for ever |
| Request handling (`api/tunnels.go`, service entry points) | what a handler read before it took the lock; the idempotency cache | validate, allocate, lock, write, apply, answer | everything read before the lock may be old under it | unique names; rows and host agree; one answer for one key |
| Validator and allocation (`validate`, `alloc`, `address`) | none; read the rows | conflicts of names and addresses, lowest free number | run before the lock | two requests do not get the same name |
| Link managers (`link`) | kernel interfaces | create, delete, up, down, set MTU, addresses | a command that times out may have done its work | they do what the step says |
| Persistence (`persist`) | unit, netdev and network files, enablement | write, remove, reload, enable, start, stop | two persistence methods, two files of one tunnel | files and row describe the same tunnel |
| Command runner (`exec`) | none | run with timeout and context | killed after the effect, or before it | - |
| Forwarding rules (`route/service.go`, `repo.go`, `plan.go`, `record.go`, `rules`) | rule and destination rows; the installed ruleset; the payload last accepted | Create, Update, Delete, SetEnabled, Reorder, Duplicate, Reapply, ApplyAll, Reassert | one ruleset for all rules, rebuilt whole; rows written without the lock by others | the kernel has the ruleset the rows ask for |
| Destination monitor (`route/monitor.go`) | per destination: state, consecutive counts, due time; `IsSuppressed` in the row | Sample (probe, record, reconcile, reapply), configFor, markDisabled | rows replaced during a round, failing writes, switching it off, restarts | never takes out the last destination, nor one that did not fail; puts back what recovers |
| Traffic limits (`quota`) | a limit row: baseline, period start, disabled mark; status cache | Run/Sweep/check, Set, Reset, status | sweeps, handlers and operators on one row; counters that vanish or restart; crash between stop and mark | stops only what is spent; what it stops it starts again |
| Tunnel monitor (`monitor`) | a prober per tunnel with a window of probes, a hysteresis machine, an open bucket of samples | send, receive, evaluate, Force, supervise, flush | late and failed answers, link events, restarts of a prober, changed configuration | state changes only on thresholds; a bucket tells the worst |
| Traffic accounting (`route/accounting.go`, `counters.go`, `conntrack.go`, `destvolume.go`) | cumulative totals, last raw readings | sample, refresh, store | counters restart with each ruleset; two goroutines fold and write; connections close | count nothing twice; a destination's total is a floor |
| Reconciliation (`reconcile`, `safety/safety.go`) | none | report, sweep, reapply drifted tunnels, adopt, forget | decides on an old picture | never takes over or loses a file it does not own |
| Authentication (`auth`, `api/auth.go`) | the account with its password version and failure count; a limiter in memory | setup, login, refresh, change, reset by `tnp` | requests that hash for long on a row read before | a session follows its password; checks are throttled; one account |
| Settings (`settings`) | stored overrides, values in memory | update, reset, reload, notify | commit and apply in different orders; rules between keys | memory is the table and obeys the rules |
| Self-update (`update`, `api/update.go`) | state file, transient unit, release check | start, resolve, check | the process is replaced half way | the outcome reported is the real one; no installer is cut off |
| Restore (`api/dbbackup.go`, `backup/file.go`, `tnp/backup.go`) | the database file, its log, `.previous`, a staged upload | upload, install, `tnp restore` | renames under a running database, crash between them, two at once | the old database is kept; the next start opens a whole one |
| Backup links (`backup/grant.go`) | grants with an expiry | issue, redeem, revoke, sweep | lookup and insert are two steps | a link opens until it ends and never after |
| Panel address (`address`, `config`, `tnp/address.go`) | environment file, row with the seed it was resolved against, the listening process | start with fallback, change, roll back | three places, three writers, crash between | the last word is served; a rolled back change leaves nothing |
| Forwarding admission (`validate/route.go`, `safety/route.go`, `rules/socket.go`) | none; reads rows and sockets | check a listener, guard an apply | checked before the lock; daemons move | no two rules, and no service, share a listener; the panel stays reachable |
| Diagnostics (`route/diagnostics.go`, `health.go`) | none | analyse a rule, show its health | readings that fail or restart | blame is deserved, health supported |
| Kernel settings (`tuning`, `route/forward.go`, `persist/rules.go`) | two sysctl files with the value each parameter replaced | enable, set, revert, sweep, reassert | read, write, set without a lock | what was asked stays; what is put back is the operator's |
| Import and export (`api/backup.go`) | none | export, import, dry run | many ordinary creates beside other operators | nothing found is changed; the report is true |
| Source lists (`sourcelist`) | downloaded lists | refresh | partial failure | - |
| HTTP glue, web interface, installer, i18n, audit, metrics, ping and trace, pairing | none that decides anything | - | - | - |

### 1.2 How they interact

* Everything that changes kernel interfaces or the ruleset holds the **mutation
  lock**. Handlers read and validate *before* they take it.
* The **destination monitor** and the **limits checker** write destination rows
  without the lock and then ask the forwarding service to apply everything, which
  takes the lock and reads all rows again (`src/cmd/gre-panel/main.go:317-326`,
  `402-408`).
* The limits checker stops and starts subjects through the same services an
  operator's click uses (`main.go:362-410`).
* At a start the panel reasserts its forwarding rules (`main.go:585-596`);
  tunnels come back by their unit or networkd files, without the panel, and the
  ruleset by the payload a unit replays.
* The **rebuild** of the ruleset restarts every counter, so it is preceded by a
  snapshot that the accounting folds in; diagnostics and limits read what that leaves.
* The **tuning sweep**, the **drift sweep** and the command line tool `tnp` change
  the same files and rows as requests do, without the lock.
* Requests carry a context that is cancelled when the client goes away; commands
  and database writes made with it then fail, netlink calls and file writes do not.

## 2. Plan

Most important behaviour first; the abstract specification of each module, what
composes with what, the theorems worth proving.

| # | Module | Composes / implements | Theorems | State |
|---|---|---|---|---|
| 1 | `TunnelApply` | one pipeline at a time, as the lock allows | types; a live change never interrupts; what is applied lasts, reapply heals, a rollback restores, what was taken away stays away | checked, proved |
| 2 | `MutationLock` | abstract: exclusion and progress | the inductive invariant, exclusion | checked, proved |
| 3 | `TunnelRequests` | extends `MutationLock`, implements `LockSpec` | refinement; names unique; host follows table | checked, proved |
| 4 | `Quota` | uses the services as calls that may fail | types; stops are remembered; stops only the spent | checked, proved |
| 5 | `RouteMonitor` | lock and apply pipeline of the forwarding service inside | types; ruleset follows the table; never the last; out only after failures | checked, proved |
| 6 | `RouteService` | whole rules; implements `ForwardingTable` (*the kernel has one whole saved table*) by a refinement mapping | types; the step simulation; applied is relayed | checked, proved |
| 7 | `Ruleset` | the rendering `RouteService` installs, for both backends, against a definition of what a rule promises | the promise is kept; a boot replays the file; verification is truthful; shares follow the weights | checked, proved |
| 8 | `RouteAdmission`, `Addressing`, `PanelAddress` | who may have which port and address | no shared listener; numbers and subnets determine each other; the last word is kept | checked, proved |
| 9 | `Accounting`, `Destinations` | counters that restart against true totals | nothing is counted twice; a total is a floor | checked, proved |
| 10 | `TunnelMonitor`, `Diagnostics`, `Reconcile`, `KernelSettings` | the host as the panel reads and changes it | states are earned; blame is deserved; originals are kept | checked, proved |
| 11 | `Accounts`, `Settings`, `SelfUpdate`, `Restore`, `BackupLink`, `Transfer` | the panel's own records | one theorem for each | checked, proved |
| 12 | `QuotaOnRoutes` | `Quota` with `RouteMonitor`: a limit on a destination | an enforced destination carries nothing (`record.go:100` breaks it) | planned |

Every module has its parameters as CONSTANTS, one action per operation or handler
step, and no RECURSIVE operator, so that each can be proved about. Proofs live in
`<Module>_proofs`, instances in `MC<Module>`. Modules 8 to 11 share no state with each other: `Panel` puts them side by
side, and a behaviour belongs to one of them; `MCPanel` is its instance for TLC.
Definitions marked *Mutant* are small bugs a run must notice; no specification uses
them.

## 3. What is modelled

### 3.1 `TunnelApply`: one tunnel through the apply pipeline

`row` is the database row (live, configuration, enabled, status). `host` is what
outlives the process: the interface (`link`), the unit file (`unit`), what systemd
has loaded of it, whether it is enabled and active, and the two networkd files. An
operation (`Create`, `UpdateInPlace`, `UpdateRecreate`, `Reapply`, `UpRebuilds`,
`Up`, `Down`, `Delete`) builds its plan (`PlanCreate`, `PlanDelete`, `PlanInPlace`,
`RewritePersistence`, ...) with the inverse plan in the order `AddRollback` prepends
it, writes the row where the code does, and starts the pipeline. `StepDone`,
`StepTolerated`, `StepFails` and `StepGivesUp` carry out one step as `execute` and
`runStep` do; `Effect` says what the step does to the host and `FaultyEffects` what a failed
one may have done. `Commit` and `VerifyFails` are the verification;
`UndoDone` and `UndoFails` end the inverse plan. `Disconnect` cancels the
request's context: from then on commands fail and status writes are lost, files and netlink still work.
`Crash`, `Reboot` and `Drift` are the environment; `BootLinks` computes
what units and networkd files bring up.

Abstracted: one address per tunnel; what the kernel cannot change live is one value
(`shape`); unit text is the configuration it was rendered from. Left out: the
keepalive unit, the transmit queue length, renames, adoption, previews.

### 3.2 `MutationLock`: the lock

`slots` is the channel, `queue` the waiting senders, `stage` where each request is.
`Acquire`, `Enqueue`, `Abandon`, `Release` are the arms of the `select` and the
returned function; a release hands the slot to the first waiter in the same step,
which is what the Go runtime does for buffered channels.

### 3.3 `TunnelRequests`: requests at the same time

Extends `MutationLock`. `rows` is the table, `kernel` the interfaces by name, `cache`
the idempotency keys, `job[r]` what a request asks for and what it *read before the
lock* (`seen`). `Submit...` is the part of a handler that reads and checks, `Queue` the call
of `Acquire` that follows: two steps, since another request may finish in between. `Insert`,
`StoreUpdate` and `StoreRelabel` are the write of the row, `Apply...` and `Fail...` the pipeline as
one step with both outcomes, `GiveUp` a cancelled wait. `UsesMutationLock`, the
specification of the lock, is checked as a PROPERTY and proved as a refinement.
Up, Down and Restart are in `TunnelApply` only.

### 3.4 `Quota`: one traffic limit

`limit` is the stored row: its id, the ask, the baseline, the window it
counts from, the disabled mark. `alive`, `enabled` and `counter`, `readable` are the
subject and its cumulative counter. Every goroutine has a `job` with a copy of the
row it read, since each reads, acts and writes the whole row back: the sweep
(`Load`, `Check`, `CheckOrphan`, `StartCheck`, `Roll`, `Stop`, `Stamp`), and in a handler Set
(`SubmitSet`, `Insert`, `Replace`), removal (`SubmitRemove`, `StartRemoved`,
`Remove`) and Reset (`SubmitReset`, `StartReset`, `ResetWrite`), each followed by a
sweep of its own. Calls and writes may fail, the counter may be unreadable or restart at zero, the
operator may switch or delete the subject, the panel may crash. `carried`,
`origin`, `byPanel` and `lost` are history, read by properties only. Abstracted: bytes
are small numbers, the two directions are one. Left out: displayed statuses.

### 3.5 `RouteMonitor`: failover of a forwarding rule

`rows` is what the database says of the rule's destinations: enabled, suppressed
(`out`), the mode, and `gen`, which changes when a save replaces the rows (their
ids change). `memory` is `Monitor.state`, `memGen` the rows it is about,
`round` the sample under way with the copy of the rows it `read`.

| Code | Action |
|---|---|
| `Sample`: List, forgetAllBut | `Begin` |
| `configFor`, `stateFor`, `markDisabled` for one destination | `Watch`, `Ignore` |
| the write of `markDisabled` and its own apply | `FreeWrite` |
| the probes, all at once, and `record` for each answer | `Probe`, `Record` |
| `reconcileRotation`: the decision | `Failing`, `Wanted` |
| `reconcileRotation`: one write per destination, in list order | `Different`, `WriteOne` |
| one apply if anything changed | `EndRound` |
| `Update` of the rule | `Save`, then `ReadRows`, `Install` with the lock held throughout |
| the checker's or operator's `SetDestinationEnabled` and ApplyAll | `Toggle`, then the same |
| a setting turned on or off | `SwitchMonitoring` |
| `Reapply`/`ApplyAll`: Acquire, List, `applyRecords` | `ReadRows`, `Install` |
| `Reassert`: List, Acquire, `applyRecords` | `BootRead`, `BootAcquire`, `Install` |
| the panel stops and starts | `Restart` |

`InRotation` is `Record.Spec`, the fallback to the primary destination included.
`PutBack` is the rollback: the payload last accepted, or the previous table's
rendering. One install is one step with every outcome its steps, verification and
rollback leave (untouched, as wanted, put back). Time is the number of rounds until
a destination is due. `streak`, `condemned`, `disturbed` and `behind` are history:
`streak` and `condemned` are computed from the probes of the row alone and do not
look at what the monitor remembers.

### 3.6 `RouteService` and `ForwardingTable`: whole rules

`rows` is the table of rules, `kernel` the ruleset per family as a set of *which rule,
with which content, at which place*, `file` and `unit` what the next boot replays,
`accepted` the payload last verified in this process. `Submit` is a handler up to the
lock (create, update, edit of one field, duplicate, delete, reorder, enable, disable,
reapply, apply all), `Take` what it does under it up to the plan (`NewPlan`). `Step`, `StepFails`,
`Confirm`, `VerifyFails`, `RolledBack`, `RollbackFails` are the pipeline; `StartPanel`,
`ReassertReads`, `ReassertTakes` the start. On iptables the two families are two
batches, so one may be installed and the other refused. `ForwardingTable` is the abstract promise: tables are saved, and the kernel
always has one of those saved since the last confirmed one, or, at a start, the one
that was read. `FollowsTheTable` is `Promise!Spec` under the mapping of rows to table.

### 3.7 `Ruleset`: what both backends render, and what it does to packets

A rule is rendered to a set of netfilter rules (`NftRule`, `IptRule`: chain, match,
action, its argument), a set of rules to a payload (`NftPayload`, `IptPayload`): what is
declared, deleted and filled in one transaction, which the kernel refuses (`Refuses`) or
carries out (`After`). `Rules` looks up what is rendered, `Hits` is what a packet meets in a
chain; `Takers` and `Target` are the dnat that takes it and the destination it picks, `turn` how
far each dnat is in its round; `Translated`, `Marked`, `Clamped`, `Allowed`, `Acts` are what
the other chains do. Netfilter itself is external, modelled from what the rendering relies on.
`Claims` and `Relayed` say what the operator's record asks for, without looking at any rendering.
`Install` is an apply, `Connect` and `Close` are clients, `Boot` replays the file, `TakeAway`
and `TakeJump` are other programs; `Verified` is the panel's reading back. Left out: rate
limits, logging, reading of foreign rules, IPv6 packets.

### 3.8 Parts that share no state (`Panel`)

| Module | Variables and what they are | Actions and code | Abstracted or left out |
|---|---|---|---|
| `RouteAdmission` | `rows` and what was checked of each, `sshd`, `service`, `installed` | `Submit` (checks), `Proceed`, `Store`, `SetEnabled`, `Delete`, `DaemonsChange` | destinations, lists, syntax |
| `Addressing` | `pool`, `rows`, `foreign` interfaces, `len` the default prefix length | `CreateAuto`, `CreateAt`, `CreateByHand` before the lock, `Proceed` after; `Delete`, `SetUp`, `DeletePool` | addresses of five or six bits; one pool |
| `PanelAddress` | `file`, `row` with its seed, `panel` the process, `cli` | `Start`, `HandleSetAddress`, `EditFile`, `Cli...` one per step of `tnp address` | the TLS certificate, the listener's own errors |
| `TunnelMonitor` | `window`, `machine`, `prober`, `bucket` | `Send`, `Reply`, `Expire`, `Evaluate`, `LinkGone`, `Update`, `StartProber`, `Flush` | times are order; latency is slow or not |
| `Reconcile` | `rec`, `device`, `unit`, `backups`, what each actor read | `Report...`, `Sweep`, `Adopt...`, `Insert`, `TakeOverUnits`, `Reapply`, `Forget` | a reapply, an update, a delete is one step |
| `Accounting` | `kernel` counter, `volume`, `row`, `work` of both goroutines | `Sample`, `Observe`, `Flush`, `Saved`, `Rebuild`, `Load` | four figures move together |
| `Destinations` | `flows` and `seen` per tuple, `dest`, `row` | `Flows`, `ListOne`, `SampleConnections`, `Flush`, `SaveDestinationVolumes` | one destination |
| `Diagnostics` | `host`, `fate` of destinations, `flow`, `counter` | `Analyze` with any reading failing; `HostChanges`, `Packet`, `Rebuild` | capture, throughput |
| `KernelSettings` | `kernel`, `file` with previous values, `work` | `Enable`, `Set`, `EnsureSafety`, `Commit`, `WriteFile`, `WriteLive`, `Revert`, `PutBack` | two parameters per file |
| `Accounts` | `user`, `hits` of the limiter, `jobs`, `sessions` | `Authenticate`, `RecordFailure`, `RecordSuccess`, `IssueSession`, `UpdateMe`, `ChangePassword`, `ResetPassword` | a token is its version |
| `SelfUpdate` | `file`, `unit`, `disk`, `current`, `check` | `Start`, `Write`, `Launch`, `State`, `Begin`, `Fetch` | the installer is external |
| `Restore` | `names` to inodes, `disk`, `log`, `panel` | `Stage`, `CopyInto`, `Verify`, `SetAside`, `ClearLog`, `Place`, `Cli...`, `Start` | contents are usable or not |
| `BackupLink` | `rows` of grants, `asks`, `loads` | `HandleBackupLink`, `Issue...`, `Redeem`, `Counted`, `Revoke`, `Sweep` | time is a small number |
| `Settings` | `row`, `cache`, `jobs`, `monitor` | `Update`, `Reset`, `Commit`, `Apply`, `Notify`, `ReconcileMonitor` | two keys and the rule between them |
| `Transfer` | `backup`, `host`, `job` with its report | `Import`, `ImportPool`, `ListTunnels`, `Skip`, `Preview`, `Create`, `End` | settings go through `Settings` |

In each, crashes, restarts and other operators act between any two steps where the
code can be interrupted; variables commented *history* are read by properties and
excuses only.

## 4. What is checked

Sizes are distinct states; each run ends within five minutes on two cores.

| Run | Instance | Question and answer |
|---|---|---|
| `tunnel_update` (1.9M) | systemd: three configurations, two that differ in MTU and address and one of another shape, enabled or not, one failing step, one interruption | An applied tunnel is the stored one and survives a reboot (`AppliedIsDurable`); a clean rollback restores unit file and interface (`RollbackRestores`); a live change never takes the interface away, even while undone (`InPlaceKeepsInterface`); of an enabled tunnel Reapply fails only for a failing step of its own (`ReapplyHeals`) |
| `tunnel_recreate` (2.0M) | systemd: two shapes, so that each change is a recreation, two failing steps, two interruptions; networkd, and a tunnel that changes its persistence method: one of each | a rolled back create and a delete leave nothing, Down stays down over reboots (`TakenAwayStaysAway`); a recreation's rollback restores; durability also when two files describe the tunnel at boot |
| `requests` (0.1M) | three requests of any kind, two names | names unique; rows and host agree when all is quiet (`HostFollowsTable`); the requests implement `LockSpec`; each request that asked for the lock is answered (fair) |
| `quota` (0.8M) | a limit of 1 per window and one of 2 for all time, one handler, two requests, one switch, one fault | what the panel stopped it remembers; it stops only the spent; a stop ends with its window (fair) |
| `route_monitor` (2.2M) | two destinations, two changers, thresholds 2 and 1, two changes, one fault | when nobody owes an apply the kernel has the rows' ruleset; taken out only after the failures |
| `route_recovery` (0.2M) | two destinations with their own intervals, one change, one fault (fair) | the last destination stays in; one that recovers or is no longer probed comes back; failed writes do not keep all out for ever |
| `route_service` (0.9M) | two clients and the quota checker, two rules, four contents (two overlapping, one refused, one IPv6), both backends, two faults | the service implements `ForwardingTable`; a rule marked applied is in the kernel with its content and place |
| `rules` (36k) | pairs of rules that share a port, an address, a destination or a list; each load balancing mode; both backends | every packet and its answer is treated as its rule promises, limits included (`RelaysAsPromised`); shares follow the weights; the payload replays into an empty kernel; verification names what is missing and nothing else |
| `panel_addresses` (0.8M) | `RouteAdmission`: two rules, three ports; `Addressing`: IPv4 and IPv6 of five bits, two tunnels; `PanelAddress`: two ports, two paths | no packet has two owners and the panel keeps its own; the pool's arithmetic is reversible and no address is given twice; the last word is what the next start serves |
| `panel_records` (3.2M) | the twelve other parts, two actors or two values each | the properties of section 3.8's modules, each with its excuse named |
| `claim_lost_switch`, `claim_pool_full` | small instances | section 7.1 |

**Bounds, and why they are enough.** Failures and interruptions (`MaxFaults`,
`MaxInterrupts`): one suffices to reach every branch of an operation; two let the
rollback fail or be interrupted after a failed step, or a second operation start from what a
failure left. Three configurations give a change of each kind and one of both. Three
requests are one that holds, one that waits and one that arrives; `MaxRows` equals
the number of requests, so inserts are never cut off. In `Quota` two bytes exceed the
smaller limit, one window end gives a rollover, and one handler and the sweeper are two writers of a row; a
third adds no new pair. In `RouteMonitor` two destinations distinguish *one out*,
*all failing* and *the last*; threshold 2 makes an off-by-one visible; `MaxChanges` counts
requests, so that a save can fall into any point of a round and a second change race with its
apply. In `Ruleset` two rules show every way to share a field, and three destinations a ladder with a
middle rung. In the parts, two workers, writers or askers are one that is overtaken and one that overtakes;
`MaxHand`, `MaxBytes`, `MaxVersion`, `MaxLinks`, `MaxInstalls` and `MaxFiles` leave room for one more
change than the property needs to fail; a monitor's window of three with two samples and one
of two with one put the threshold inside and at the end of the window; five
bits hold two subnets of every length with one to spare; a counter of three bytes restarts
below, at and above what was read; a tunnel that is or becomes networkd's meets one
fault and one interruption only. The proofs lift what they cover to all bounds.

CHECK_DEADLOCK is off only where the system may stop: when every request has
been answered, when bounds on changes are used up, and for an interface left behind without a row,
which only adoption would take up. Symmetry is used only for safety.

**Fairness.** `TunnelRequests`: weak fairness of each handler's own steps, for a handler
that runs keeps running (net/http gives each request a goroutine), and none for
submitting or giving up. `Quota`: weak fairness of the sweeper, a ticker loop
without a blocking wait for others; none for handlers, operators, counters or the
clock. `RouteMonitor`: weak fairness of the monitor's loop (ticker), of each
goroutine that owes or carries out an apply, and of the start of the panel; none for
probes answering, requests, or faults. The lock hands over in arrival order, so
weak fairness is enough. The other modules state safety only.

**Every property has a mutant**: a plausible bug (a forgotten file in a rollback, a
barging waiter, a hasty threshold, an unrecorded stop, a dry run that makes pools) that a definition is
replaced by, and that makes TLC report the property violated under the same
configuration.

## 5. What is proved

All proofs are checked to the last leaf: some 20 000 obligations in eight modules. Every
safety property that a passing run checks is proved. Types are
proved only: no run states them. The assumptions are the `ASSUME`s of the modules,
nothing else: the sets are disjoint where names must differ, thresholds and counts are positive,
bounds and limits are naturals, rules and pools are numbered, the sign for "none" is no
value; TLC evaluates all of them. Two say where the code's own arithmetic ends:
`AddressingAssumption` takes a pool and a default length whose distance between numbers, and
whose whole span, fit the allocator's counter. That leaves IPv4 whole, and of IPv6 the pools longer than /64 and the lengths from /89
on. Beyond, numbers wrap: for /64 and /65 from the first on, which is the finding of
`claim_pool_full`; for a /80 in a /48 pool after 2^15 subnets.
`RulesetAssumption` takes rules as validation lets them be stored (`WellFormed`) and an edit to
keep a rule's identity and connection limit.

**One tunnel.** `TunnelApply_proofs`, for any configurations and any number of failures and interruptions.

| Theorem | Argument |
|---|---|
| `TypeInvariant` | `TypeOK` with the record types of the histories (`TypeInv`); a lemma for each plan and each effect |
| `InPlaceNeverInterrupts` | `InPlaceInv`: while a live change or its undoing runs, the steps left in the plan and in its inverse are only of kinds that cannot take an interface away, and a lemma says none of those kinds does, done or failed half way. The step property alone says nothing of the steps to come |
| `AppliedLasts` | `DurableInv`: each file that boot reads is right already, or a step ahead that is not tolerated sets it and none after it undoes that (`Coming`); a success runs all of them, and the verification saw the link |
| `ReapplyIsARemedy` | `HealInv`: whatever the host was like, with k steps to go the unit, the files and the link are so far (`OnCourse`), hence the next step is possible and only a fault of its own can fail it |
| `RollbackIsClean` | `RestoreInv`: the inverse of a recreation builds the old unit from any host; of a change in place each of four things (unit file, MTU, address, link up) is as it was with no step of plan or inverse touching it, or is set back by one of the inverse that is ahead (`Mends`) |
| `NothingComesBack` | `AwayInv`: with k steps of the plan that takes away still to go, this much is gone (`Taken`); what is gone is not built by a reboot |

**Requests and limits.** For any requests, names, rows, limits and handlers.

| Theorem | Argument |
|---|---|
| `MutationLock_proofs`: `LockInvariant`, `LockMutualExclusion` | `TokenHeld` (the token is in the channel exactly while one request holds) and `QueueExact` (the queue lists the queued requests once); exclusion follows |
| `TunnelRequests_proofs`: `RequestsImplementLock` | step simulation: each handler step is a lock step or leaves the lock alone |
| `InterfaceNamesUnique` | `NamesInv`: live rows were inserted, and an update that waits carries the name its row still has, however long ago it read it (`JobsKnowTheirRow`), so only an insert can bring a new name, and that is refused for a live one |
| `TableOnHost` | `HostInv`: every interface belongs to a live row, every applied row is on the host except the one its holder of the lock has written and not applied yet (`Ahead`), and the row of a waiting delete is still there (`Follows`); that one request at most is past the lock is the lock's theorem, carried over by the simulation |
| `Quota_proofs`: `TypeInvariant` | with `RowsKnown`: a goroutine past its load has a row |
| `RememberedStops` | `Remembers`: with the panel's stop neither lost nor about to be written, the stored row carries the mark; the copy any goroutine has of the row is the stored one or counts as outdated, and none that is about to write a row without the mark, or to remove the row, has a current one (`Knows`) |
| `SpentStops` | `Spent`: what the counter shows above a baseline that was read is never more than was carried since (`Backed`), for the row and for the copy and reading of every goroutine; so whoever is about to stop has the bytes |

**Forwarding.** For any destinations, rules, contents, thresholds and faults.

| Theorem | Argument |
|---|---|
| `RouteMonitor_proofs`: `TypeInvariant` | `Typed`: `TypeOK`, and a round that frees a destination has one. The fallback of `InRotation` is what keeps the ruleset non-empty |
| `RulesetFollows` | `Ordered`: whoever is between reading the rows and installing has the lock, and has it alone. `UpToDate`: his picture is the present table's, or someone else still owes an apply; with nobody owing, the kernel has the table's. Neither is implied by the property |
| `LastStays` | `Seen`: an undisturbed round's copy agrees with the rows apart from what it has moved, and what lies behind its place in the list agrees with `Wanted` |
| `OutAfterFailures` | `Known`: what the monitor remembers of the present rows is backed by the history of their probes (`Backed`): it counts no more failures in a row than there were, and has a destination for down only while it has not recovered since. Rows of another generation cannot be written to |
| `RouteService_proofs`: `TypeInvariant` | rows, plans and requests; a plan's steps are numbers of families |
| `ServiceFollowsTheTable` | `TableInv`: kernel and restore file have, per family, one of the tables saved since the last confirmed one, and so has all a plan may still install or put back (`TablesKnown`); a family whose step is behind the plan is installed (`StepsInstall`). Every step is then one of `ForwardingTable` or a stutter |
| `AppliedRelayed` | `StatusInv`: with no plan under way, each rule marked applied is in the kernel with content and place, unless `silent` |

**Netfilter.** `Ruleset_proofs`, for any rules, sources, addresses, ports and hash of the
source, both backends, any applies, boots and interference.

| Theorem | Argument |
|---|---|
| `RulesetStays` | `RulesetInv`: the jumps come with the rules and on iptables only (`JumpsCome`); the file deletes only chains nft can spell and fills none of them (`StaleIsSpelled`); an nftables host forgets no connection (`NoneForgotten`), without which the limit would not hold over an apply; what the file holds is what the kernel has, and no limited rule has more connections of a source than it allows |
| `RulesKeepTheirPromises` | each rendered rule is of one of few kinds, and nothing else is rendered (`NftDescribed`, `IptDescribed`), so that both backends are reasoned about at once. A packet meets a rule's dnat exactly if the rule claims it; compatible rules do not claim one packet (`OneListener`), hence what carries its original address and port meets one rule's chains only (`OneIdentity`): a rule matched by destination alone would break here. Somebody takes each claimed packet: of the rungs that match, one least in order offers itself (`NatMin`), and the last rung takes all (`LastRung`) |
| `BootReplaysTheFile` | an apply leaves a file that gives an empty kernel the same rules, for what it deletes it declares first (`AfterPayload`, `SamePayload`) |
| `VerificationTellsTheTruth` | what is looked for names chain, address and actions: for a rule of one protocol, destination and source only that rule's own rendering satisfies it (`FoundMatters`), and what was just installed holds all that is looked for (`InstalledIsFound`) |
| `SharesAreFair` | no turn reaches its period (`TurnsWithin`, inductive). A packet meets one map of nftables, whose turn goes once through as many slots as the weights add up to, or one ladder of iptables. There the connections that still have to come down to rung i are counted by the rungs at or below it that have taken one (`Reaching`), which fixes its turn; as long as not all have taken one, the first rung whose turn it is has taken none (`NextRung`). Either way connections and slots are matched one to one, wherever the turns stood (`SlotsShare`). The play is found by extending a good one (`PlayOn`) |

**The parts of the panel.** `Panel_proofs`: a step of the panel is a step of one part
(`PartSteps`), so each part has its own inductive invariant and `PartsInv` joins them.

| Theorem | Argument |
|---|---|
| `AdmissionIsSafe` | `AdmissionInv`: rules that are on and were checked do not meet in protocol, address and ports, nor does the request that waits with any that is on; what was checked against the sockets takes from none; the guard saw all that is installed |
| `AddressStaysKept` | `AddressInv`: a stored address is the last word and its seed the file as it was read for it; a rollback that is alone has put back one, then the other |
| `AllocationStaysSound` | `AddressingInv`: each live row, and the request that waits, keeps what it was chosen by (`Holds`): its number is that of its subnet, its pool is there, it overlaps no row it was checked against. Under it, both directions of numbering are one multiplication and division by the stride, which is a power of two that does not wrap (`PowersAdd`, `PowersGrow`); every place a subnet may start at has a number the search passes over only if it is used (`PlaceHasNumber`) |
| `TotalIsAFloor` | `DestinationsInv`: what the total would become if all that moved since the last reading (`Moved`) were folded now is no more than was relayed; while a listing is under way a connection counts up to its entry as listed and from there as it is. Sums over connections are sizes of sets of bytes, so that nothing recursive is summed |
| `NoByteTwice` | `Accounted`: what a total would become if the counter were folded into it now is no more than was relayed, in memory, in the table, in a write under way and with a reading that waits to be folded |
| `AnalysesAreFair` | `DiagnosisInv`: a connection whose last packet was forwarded since the ruleset was built has counted, and the rotation has a destination |
| `NoOriginalIsLost` | the property is inductive: each writer of a unit looks at the file in the step that backs it up, whatever its guard had read |
| `MonitorStaysHonest` | `MonitorInv`: a candidate that is not the state yet has been agreed on no more often than verdicts in a row were equal to it |
| `KernelSettingsStay` | `KernelInv`: while no two changes overlapped one worker at most is at work, and what it is about to write keeps what is asked for and records what a parameter has |
| `AccountStaysGuarded` | `AccountsInv`: whatever was read of the row or issued for it is of a version no newer than the row's, and of the row's password when it is the row's; the limiter has counted every check that was made |
| `UpdateStaysSafe` | `UpdateInv`: a Start that goes on has no unit beside it; a run whose installer is at work and was not misread is recorded as running; the checker is checking while a lookup is in flight |
| `SettingsStayInForce` | `SettingsInv`: a request that met no other finds the values as it checked them, and what it stored and has yet to apply is what they become |
| `RestoreStaysSafe` | `RestoreInv`: the first restore moves the original aside and only a second moves it on; while none met another the one at work owns its file, which nobody serves (`Undisturbed`) |
| `LinksStaySound` | `LinksInv`: what was told of a link, its row and its end go together; while no two requests overlapped nobody adds a link between the looks of a request and its insert |
| `ImportStaysFaithful` | `TransferInv`: what the import lists is what it found but for what others touched; what is not left is reported; a pool of the backup that is not left is there |

**What the proofs found.** Each attempt that stuck was a fact about the model or the code.
An earlier `RouteService` had no outdated start whose install *and* rollback fail; it
does, and leaves rules marked applied that are not in the kernel. An earlier
`TunnelRequests` read and asked for the lock in one step and so lacked a second delete that
acts on an old row. The files of another persistence method (`Leftover`) void what an applied
tunnel promises. The promise of `RestoreIsSafe` was once void after every restore
of the command line, whose last step is to start the panel; now only a start in the middle of one excuses it.
`FairShares` once gave each listed destination the weight of its place; nothing refuses a
destination listed twice, which has both shares.

**Only model-checked.** Liveness (`EveryRequestAnswered`, `StopsEndWithTheWindow`,
`BackInRotation`, `NotAllOutForever`): the prover has neither ENABLED nor fairness.
Induction over numbers is by a least counterexample, for which a set of naturals
has its minimum from `WellFoundedInduction`.

## 6. What is not modelled

Text (unit files, nftables and iptables syntax, `ip` output, JSON, translations), field
syntax, the web interface and scripts: data, not control. Source lists: their refresh and its
partial failures (`sourcelist`); `Ruleset` takes a list as a set. Audit, metrics, ping and
trace, pairing and the catalogues of settings and parameters decide nothing that is
modelled. Of modelled components: tunnel previews, the keepalive unit, renames; rate limits and
logging of rules; history buckets and rates of the accounting; packet capture and
throughput tests; editing a pool's description; certificates. SQLite is taken to be
serialisable for single statements and transactions. Thresholds and intervals of the
destination monitor do not change while a model runs. A limit on a destination is modelled
in two halves (`Quota`, `RouteMonitor`) that no module composes.

## 7. Where the code differs from what it says

### 7.1 Shown by runs that end in a violation

* `claim_lost_switch`: *"An update starts from what the rule already is, so a request
  mentioning one field changes only that field"* (`api/routes.go:186`). The handler reads the rule long
  before the lock and the whole row is written under it: a rule that the quota checker
  disabled in between is enabled again.
* `claim_pool_full`: *"NextFree returns the lowest-numbered subnet in the pool with both of its
  addresses unused"* (`alloc/alloc.go:443`). The distance between numbers,
  `1 << (bits - length)`, is 0 for /64 (and negative for /65) in 64 bits: once one
  subnet is used, the pool counts as full.

### 7.2 Seen while modelling, and where a property makes room for them

Tunnels:
* Up of a tunnel taken down whose interface is gone rolls back: the rebuild brings it up,
  verification demands it down (`tunnel/service.go:998-1000`). Down, reboot, Up never works;
* a rollback that failed because the client went away is not recorded as inconsistent,
  against *"the tunnel is recorded as Inconsistent"* (`service.go:275`, `1148`);
* an update that sets `is_enabled` to false keeps the unit enabled, so the tunnel is up
  after the next boot, against *"so a reboot reproduces the new state"* (`plan.go:875`).
  `AppliedIsDurable` is about enabled tunnels;
* the inverse steps of a create are tolerated, so a rollback that failed is answered
  as a successful one (`plan.go:470`); `TakenAwayStaysAway` is about rollbacks whose steps worked;
* a rolled back update of a networkd tunnel keeps the new files (`plan.go:933`); `RollbackRestores` is about systemd;
* a networkd tunnel taken down is up after a reboot (`plan.go:982`, against *"The unit is
  disabled so a reboot does not quietly bring it back"*); `TakenAwayStaysAway` is about the others there;
* an update that changes the persistence method and is refused, cut short or has a removal
  fail leaves the files of the other method, and neither Reapply nor Delete of the new one
  removes them (`service.go:1099`): the next boot may build the tunnel from them.
  `AppliedIsDurable` and `TakenAwayStaysAway` make room for it (`Leftover`); a change
  from systemd whose stop of the unit failed is not put back by its rollback; Up reports applied although the unit file differs (`verify.go:135`);
* a delete whose file removal failed still reports success (`plan.go:580`, `service.go:974`).

Requests:
* two overlapping creates with one idempotency key make two tunnels, against *"a double submission returns
  the first answer"* (`service.go:680`, `1331`);
* Reapply works with the record read before the lock: behind an update it restores the old
  address, behind a delete it builds an interface no row has (`service.go:1078`); the stored-field path of
  Update writes a whole old row without the lock (`service.go:750`); the second of two deletes of
  one tunnel, which read the row before the first had it, takes the interface away from a tunnel
  created under the same name in between. `HostFollowsTable` makes room for these three
  (`NoneActsOnOldRows`);
* two creates may get one address, which has no unique index (`validate.go:603`).

Limits:
* a limit replaced while the sweeper enforces it forgets that the panel stopped the subject (`quota.go:9`, `249`);
* an unreadable counter at Set, Reset or rollover is taken for zero, so that the next
  reading counts earlier traffic (`quota.go:350`); `StopsOnlyTheSpent` is about
  baselines that were read;
* a crash or a failed write between the stop and its mark loses it (`quota.go:381`).

Failover:
* an apply that failed after a change of the rotation is never retried: the rows are
  changed, so no later round finds a difference (`monitor.go:250`). The same holds when
  the wait for the lock is cancelled after `SetDestinationEnabled`;
* Reassert reads before it locks and may install an older table over a save
  (`service.go:1247`): an excuse of `RulesetFollowsTable` and an action of `ForwardingTable`.
  When that install fails and so does its rollback, the rows of other rules stay `applied`
  (`silent` in `RouteService`);
* between two writes of a round, or after one failed, all destinations may be out for
  a while although *"it never removes the last destination"* (`monitor.go:25`);
* *"undone the moment the destination answers"* (`monitor.go:25`) is after
  `routes.monitor_recovery_threshold` answers; a restart forgets that a destination is
  down: its first probe returns it, even a failed one, until the threshold is reached again;
* a rule whose destinations are all switched off sends to the primary (`record.go:100`),
  so a limit enforced on a rule's only destination stops nothing, against *"the
  destination is taken out of service"* (`quota.go:8`).

Forwarding rules:
* racing creates can store overlapping listeners: only identical ones have an index;
  SetEnabled checks neither ports nor sockets. `RulesAreAdmitted` is about rules checked against each other;
* an empty bind address matches every address but conflicts with nothing
  (`validate/route.go:851` against `589`), and `0.0.0.0` conflicts with IPv6 addresses too;
* a socket-activated sshd that is asleep is attributed to systemd and its port unprotected (`safety/route.go:154`);
  a rule stored before sshd moved onto its port makes every later apply fail;
* a plan that cannot be built leaves rows without a status (`silent` in `RouteService`);
* weighted rounds on iptables are runs (3:1 sends three in a row); a bind-any rule also matches packets
  for other hosts; the connection limit there is per protocol and destination and starts anew with each apply;
* a source list without ranges leaves its nft set undeclared and the payload refused; an nft
  set keeps ranges that were removed; iptables takes no source lists (`rules.go:736`);
* iptables reads back IPv4 only, so an IPv6 rule fails verification; verification
  names neither protocol nor sources;
* Duplicate keeps the port although its comment says *"a free port"* (`route/service.go:703`).

Figures:
* a reading of the loop folded after the snapshot's is taken for a restart and counted
  again (`overtaken`); a counter that restarted and outgrew its old value is not seen as restarted;
* when saving rule totals fails, the destinations' marks are not set again, against
  *"The figures stay dirty so the next flush tries again"* (`accounting.go`);
* more connections than `maxTrackedFlows` make a destination's total exceed the truth (`truncated`), against
  *"The figure is a floor rather than an estimate above the truth"* (`destvolume.go`);
* an analysis blames a filter with high confidence right after a rebuild or when counters cannot be
  read; it demands IPv4 forwarding of an IPv6 rule, the list's health does not.

The host:
* a tunnel whose interface is removed is forced down, and up again by the probes the
  window still holds; a window shorter than its threshold stays unknown;
* the sweep's reapply after a concurrent Forget rebuilds an unmanaged interface; a tunnel
  being created shows as unmanaged, since records are read before links;
* overlapping changes of one sysctl file drop each other's values (`overlapped`); letting
  go of a parameter forgets the original; Enable without IPv6 drops the recorded original of
  IPv6, against `forward.go:236`.

Addresses:
* the allocator looks at two addresses only: after a change of the default length it can
  offer a subnet inside another tunnel's; a pool's own `prefix_length` is not used; an
  address given by hand may be another tunnel's peer; DeletePool counts and deletes in two
  statements, so a waiting create may end with a deleted pool;
* `--bind-port` and `--web-path` are ignored (`main.go:695` passes the environment's values,
  `address.go:20` says *"Explicit, per-invocation"*); a change of the web path stores the
  port being served, so a fallback port replaces the configured one (`api/address.go:191`);
  an emptied web path line reads as the root for `tnp` and as absent for the panel.

The panel's own records:
* `.previous` lacks what is still in the log (`file.go:173-178`); two overlapping
  uploads share one staging name, so an unverified mixture can be installed; a crash
  between the renames leaves no database and the next start makes an empty one; the
  restore's audit record goes into the replaced database (`dbbackup.go:299`). `RestoreIsSafe` excuses the second and third by `met`;
* two overlapping requests make two live links (`dbbackup.go:40`);
* two overlapping updates of settings may be applied in the other order than they were
  committed, or each be validated beside the old half of a pair (`crossed`, `bent`);
  Reset checks no rule between keys (`store.go:380`);
* the failure count of a login loses concurrent updates, and a concurrent success clears a
  lock; the limiter still bounds the checks;
* Refresh returns the old answer while a check runs, though *"an operator who pressed 'check
  again' is owed the answer"* (`api/update.go:57-62`); a launch reported failed may have
  started the installer, which the next Start stops (`doubted`);
* an imported tunnel keeps the exported pool's identifier while pools get new ones: one a
  dry run would create may be refused, or join another range's pool, against *"so the report
  says which tunnels would actually have applied"* (`api/backup.go:299`); duplicate ranges in
  one backup are both created; `is_name_templated` is exported and not imported.

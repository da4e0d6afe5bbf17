-------------------------------- MODULE Panel --------------------------------
(***************************************************************************)
(* The parts of the panel that share no state, side by side: a behaviour   *)
(* belongs to one part, picked at the start, and s1, s2, ... are that      *)
(* part's variables in the order it declares them. Each is its own module; *)
(* a constant has the name of its part in front of its own.                *)
(***************************************************************************)
EXTENDS Integers, FiniteSets

CONSTANTS
    PartNames,    \* the parts a behaviour may be about
    MonitorConfigs,
    ReconcileCfgs, ReconcileMaxHand,
    AccountingMaxBytes,
    DestinationsKeys, DestinationsMaxTracked, DestinationsMaxBytes,
    DiagnosticsDests, DiagnosticsMaxFaults,
    KernelValues, KernelMaxHand,
    AdmissionRules, AdmissionProtocols, AdmissionAddresses, AdmissionMaxPort,
    AdmissionPanel, AdmissionDefaultSsh,
    AddressingFamilies, AddressingPinned, AddressingMaxTunnels, AddressingMaxSpan,
    AccountsClients, AccountsLimit, AccountsPasswords, AccountsMaxVersion,
    UpdateVersions, UpdateLocal,
    AddressPorts, AddressDefaultPort, AddressPaths, AddressRoot, AddressAbsent,
    AddressEdited, AddressBusy,
    RestoreUploads, RestoreCli, RestoreMaxFiles, RestoreMaxInstalls,
    LinkAskers, LinkLoads, LinkMaxLinks, LinkWindow, LinkMaxTime,
    SettingsWriters, SettingsValues, SettingsDefault, SettingsRetired, SettingsUnset,
    TransferNames, TransferRanges, TransferPoolIds, TransferExported, TransferNothing,
    TransferFailures

(* The defaults are in range and in order; a row that is not there and a   *)
(* value of an older release are no values (settings/definition.go).       *)
ASSUME SettingsAssumption ==
    /\ SettingsDefault \in [{"lo", "hi"} -> SettingsValues]
    /\ SettingsDefault.lo <= SettingsDefault.hi
    /\ SettingsRetired \notin SettingsValues /\ SettingsUnset \notin SettingsValues

(* Samples are counted; a parameter has a value, which is neither "nothing *)
(* recorded" nor "let go of"; a link lives for some time.                  *)
ASSUME MonitorAssumption == \A c \in MonitorConfigs : c.samples \in Nat
ASSUME KernelAssumption == KernelValues \subseteq Int \ {0, -1}
ASSUME LinkAssumption == LinkMaxLinks \in Nat /\ LinkWindow \in Nat

(* Pools are numbered from 1; no range and no pool is the sign for none.   *)
ASSUME TransferAssumption ==
    /\ 1 \in TransferPoolIds /\ TransferPoolIds \subseteq Nat \ {0}
    /\ TransferNothing \notin TransferRanges \cup TransferPoolIds \cup {0}

(* The command line is not a request of the browser; there is a file.      *)
ASSUME RestoreAssumption == RestoreCli \notin RestoreUploads /\ RestoreMaxFiles \in Nat \ {0}

(* A rule sends its traffic somewhere; the limiter's limit is a number, as *)
(* are the ports (validate/route.go, settings/definition.go).              *)
ASSUME DiagnosticsAssumption == DiagnosticsDests # {}
ASSUME AccountsAssumption == AccountsLimit \in Nat
ASSUME AdmissionAssumption == AdmissionRules \subseteq Int /\ AdmissionMaxPort \in Nat

(* There are finitely many connections; so many of one reading are kept.   *)
ASSUME DestinationsAssumption ==
    IsFiniteSet(DestinationsKeys) /\ DestinationsMaxTracked \in Nat

(* An address has room for a prefix length that leaves two addresses, and  *)
(* what a pool spans fits the counter: always for IPv4, and for IPv6 where *)
(* claim_pool_full does not apply (alloc/alloc.go).                        *)
ASSUME AddressingAssumption ==
    /\ AddressingMaxSpan \in Nat
    /\ \A f \in AddressingFamilies :
        /\ f.bits \in Nat /\ f.octet \in 0..f.bits /\ f.word \in Nat
        /\ f.lens \subseteq 1..(f.bits - 1) /\ f.pools \subseteq 0..f.bits
        /\ f.octet > 0 => f.bits < f.word
        /\ \A l \in f.lens, p \in f.pools :
             /\ f.bits - l + 1 < f.word
             /\ p <= l => f.bits - l + (IF l - p > AddressingMaxSpan THEN AddressingMaxSpan
                                        ELSE l - p) < f.word

VARIABLES part, s1, s2, s3, s4, s5, s6, s7, s8, s9, s10, s11

vars == <<part, s1, s2, s3, s4, s5, s6, s7, s8, s9, s10, s11>>

Monitor == INSTANCE TunnelMonitor WITH
    Configs <- MonitorConfigs,
    cfg <- s1, window <- s2, machine <- s3, prober <- s4, link <- s5, bucket <- s6,
    agreeing <- s7, seen <- s8
Reconcile == INSTANCE Reconcile WITH
    Cfgs <- ReconcileCfgs, MaxHand <- ReconcileMaxHand,
    rec <- s1, device <- s2, unit <- s3, backups <- s4, adoption <- s5, report <- s6,
    reapply <- s7, hand <- s8, foreign <- s9
Accounting == INSTANCE Accounting WITH
    MaxBytes <- AccountingMaxBytes,
    truth <- s1, kernel <- s2, volume <- s3, row <- s4, dirty <- s5, work <- s6,
    overtaken <- s7
Destinations == INSTANCE Destinations WITH
    Keys <- DestinationsKeys, MaxTracked <- DestinationsMaxTracked,
    MaxBytes <- DestinationsMaxBytes,
    truth <- s1, flows <- s2, seen <- s3, dest <- s4, row <- s5, dirty <- s6, work <- s7,
    truncated <- s8
Diagnostics == INSTANCE Diagnostics WITH
    Dests <- DiagnosticsDests, MaxFaults <- DiagnosticsMaxFaults,
    rule <- s1, host <- s2, fate <- s3, rotation <- s4, flow <- s5, counter <- s6,
    cause <- s7, answer <- s8
Kernel == INSTANCE KernelSettings WITH
    Values <- KernelValues, MaxHand <- KernelMaxHand,
    scope <- s1, kernel <- s2, file <- s3, base <- s4, work <- s5, asked <- s6, own <- s7,
    hand <- s8, overlapped <- s9
Admission == INSTANCE RouteAdmission WITH
    Rules <- AdmissionRules, Protocols <- AdmissionProtocols,
    Addresses <- AdmissionAddresses, MaxPort <- AdmissionMaxPort, Panel <- AdmissionPanel,
    DefaultSsh <- AdmissionDefaultSsh,
    wants <- s1, sshd <- s2, service <- s3, rows <- s4, installed <- s5, request <- s6
Addressing == INSTANCE Addressing WITH
    Families <- AddressingFamilies, Pinned <- AddressingPinned,
    MaxTunnels <- AddressingMaxTunnels, MaxSpan <- AddressingMaxSpan,
    family <- s1, len <- s2, pool <- s3, rows <- s4, foreign <- s5, request <- s6
Accounts == INSTANCE Accounts WITH
    Clients <- AccountsClients, Limit <- AccountsLimit, Passwords <- AccountsPasswords,
    MaxVersion <- AccountsMaxVersion,
    user <- s1, accounts <- s2, hits <- s3, jobs <- s4, sessions <- s5, checked <- s6
Update == INSTANCE SelfUpdate WITH
    Versions <- UpdateVersions, Local <- UpdateLocal,
    file <- s1, unit <- s2, disk <- s3, current <- s4, age <- s5, start <- s6, check <- s7,
    stale <- s8, doubted <- s9, ok <- s10, lookups <- s11
Address == INSTANCE PanelAddress WITH
    Ports <- AddressPorts, DefaultPort <- AddressDefaultPort, Paths <- AddressPaths,
    Root <- AddressRoot, Absent <- AddressAbsent, Edited <- AddressEdited,
    Busy <- AddressBusy,
    file <- s1, row <- s2, panel <- s3, taken <- s4, cli <- s5, meant <- s6
Restore == INSTANCE Restore WITH
    Uploads <- RestoreUploads, Cli <- RestoreCli, MaxFiles <- RestoreMaxFiles,
    MaxInstalls <- RestoreMaxInstalls,
    names <- s1, disk <- s2, log <- s3, panel <- s4, work <- s5, hist <- s6
Link == INSTANCE BackupLink WITH
    Askers <- LinkAskers, Loads <- LinkLoads, MaxLinks <- LinkMaxLinks,
    Window <- LinkWindow, MaxTime <- LinkMaxTime,
    now <- s1, rows <- s2, asks <- s3, loads <- s4, told <- s5, ended <- s6, met <- s7
Settings == INSTANCE Settings WITH
    Writers <- SettingsWriters, Values <- SettingsValues, Default <- SettingsDefault,
    Retired <- SettingsRetired, Unset <- SettingsUnset,
    row <- s1, cache <- s2, jobs <- s3, signal <- s4, monitor <- s5, bent <- s6,
    crossed <- s7
Transfer == INSTANCE Transfer WITH
    Names <- TransferNames, Ranges <- TransferRanges, PoolIds <- TransferPoolIds,
    Exported <- TransferExported, Nothing <- TransferNothing, Failures <- TransferFailures,
    backup <- s1, host <- s2, spent <- s3, job <- s4, before <- s5, failed <- s6


-----------------------------------------------------------------------------
(* The variables a part does not have.                                     *)
None == 0
No11 == s11 = None
No10 == s10 = None /\ No11
No9 == s9 = None /\ No10
No8 == s8 = None /\ No9
No7 == s7 = None /\ No8
from11 == <<part, s11>>
from10 == <<s10, from11>>
from9 == <<s9, from10>>
from8 == <<s8, from9>>
from7 == <<s7, from8>>

Init ==
    part \in PartNames /\
    \/ part = "monitor" /\ Monitor!Init /\ No9
    \/ part = "reconcile" /\ Reconcile!Init /\ No10
    \/ part = "accounting" /\ Accounting!Init /\ No8
    \/ part = "destinations" /\ Destinations!Init /\ No9
    \/ part = "diagnostics" /\ Diagnostics!Init /\ No9
    \/ part = "kernel" /\ Kernel!Init /\ No10
    \/ part = "admission" /\ Admission!Init /\ No7
    \/ part = "addressing" /\ Addressing!Init /\ No7
    \/ part = "accounts" /\ Accounts!Init /\ No7
    \/ part = "update" /\ Update!Init
    \/ part = "address" /\ Address!Init /\ No7
    \/ part = "restore" /\ Restore!Init /\ No7
    \/ part = "link" /\ Link!Init /\ No8
    \/ part = "settings" /\ Settings!Init /\ No8
    \/ part = "transfer" /\ Transfer!Init /\ No7

Next ==
    \/ part = "monitor" /\ Monitor!Next /\ UNCHANGED from9
    \/ part = "reconcile" /\ Reconcile!Next /\ UNCHANGED from10
    \/ part = "accounting" /\ Accounting!Next /\ UNCHANGED from8
    \/ part = "destinations" /\ Destinations!Next /\ UNCHANGED from9
    \/ part = "diagnostics" /\ Diagnostics!Next /\ UNCHANGED from9
    \/ part = "kernel" /\ Kernel!Next /\ UNCHANGED from10
    \/ part = "admission" /\ Admission!Next /\ UNCHANGED from7
    \/ part = "addressing" /\ Addressing!Next /\ UNCHANGED from7
    \/ part = "accounts" /\ Accounts!Next /\ UNCHANGED from7
    \/ part = "update" /\ Update!Next /\ UNCHANGED part
    \/ part = "address" /\ Address!Next /\ UNCHANGED from7
    \/ part = "restore" /\ Restore!Next /\ UNCHANGED from7
    \/ part = "link" /\ Link!Next /\ UNCHANGED from8
    \/ part = "settings" /\ Settings!Next /\ UNCHANGED from8
    \/ part = "transfer" /\ Transfer!Next /\ UNCHANGED from7

Spec == Init /\ [][Next]_vars

-----------------------------------------------------------------------------
(* monitor/state.go: the evaluator changes a tunnel's state only after as *)
(* many equal verdicts in a row as are configured, and a stored bucket has*)
(* the worst state any of its samples left.                               *)
MonitorTellsWhatItSaw == [][part = "monitor" => Monitor!MonitorTellsWhatItSaw]_vars
(* reconcile, persist/files.go: a unit file somebody else wrote is in its *)
(* place or backed up, whatever the sweep, an adoption and hands on the   *)
(* host do in between.                                                    *)
OriginalsAreKept == part = "reconcile" => Reconcile!OriginalsAreKept
(* route/accounting.go: no byte is counted twice, in memory or in the     *)
(* table, through rebuilds of the ruleset, failed and late writes, crashes*)
(* and reboots, unless a reading was folded after a later one.            *)
NothingCountedTwice == part = "accounting" => Accounting!NothingCountedTwice
(* route/conntrack.go: a destination's total never exceeds what was       *)
(* relayed to it, unless a reading of the connection table was truncated. *)
FloorUnlessTruncated == part = "destinations" => Destinations!FloorUnlessTruncated
(* route/diagnostics.go: an analysis blames a filter or a destination only*)
(* for what happened, calls healthy only what its readings support, and   *)
(* agrees with the list's health.                                         *)
DiagnosisIsFair == part = "diagnostics" => Diagnostics!DiagnosisIsFair
(* tuning/manager.go, route/forward.go: what the panel was asked to keep  *)
(* is in the file, and what it would put back is what the parameter held  *)
(* before, unless two changes overlapped.                                 *)
SettingsAreKept == part = "kernel" => Kernel!SettingsAreKept
(* validate/route.go, safety/route.go: no packet is claimed by two checked*)
(* rules or taken from a service a rule was checked against, and none is  *)
(* ever taken from the panel's own port.                                  *)
RulesAreAdmitted == part = "admission" => Admission!RulesAreAdmitted
(* alloc/alloc.go: numbers and subnets answer each other, a pool is full  *)
(* only when every place is used, checked tunnels have addresses of their *)
(* own, and a pool stays while a tunnel it placed does.                   *)
AllocationIsSound == part = "addressing" => Addressing!AllocationIsSound
(* auth/service.go: a session signed in for is accepted only while its    *)
(* password is in force, password checks stay under the limit, and setup  *)
(* makes one account.                                                     *)
AccountIsGuarded == part = "accounts" => Accounts!AccountIsGuarded
(* update/apply.go: no later start stops a running installer, no run is   *)
(* recorded as succeeded without one, and one lookup runs at a time.      *)
UpdateIsSafe == [][part = "update" => Update!UpdateIsSafe]_vars
(* address/address.go, tnp/address.go: what was asked for last, in the    *)
(* browser, the file or on the command line, is what the next start       *)
(* serves, and a rolled back change leaves the panel where it was.        *)
AddressIsKept == part = "address" => Address!AddressIsKept
(* backup/file.go, api/dbbackup.go: the panel's database is there until a *)
(* second restore begins, and the next start opens a whole one with an    *)
(* account, the one of the last restore that was answered.                *)
RestoreIsSafe == part = "restore" => Restore!RestoreIsSafe
(* backup/grant.go: a download link opens the database until its window   *)
(* passes or it is revoked and never after, and there is one at most      *)
(* unless two requests overlapped.                                        *)
LinksAreSound == part = "link" => Link!LinksAreSound
(* settings/store.go: while no two requests met, the values in force are  *)
(* the stored ones and obey the rule between keys; the monitor's          *)
(* supervisor ends up with them.                                          *)
SettingsAreInForce == part = "settings" => Settings!SettingsAreInForce
(* api/backup.go: an import changes nothing it found, a dry run nothing at*)
(* all, and its report tells what became of every tunnel of the backup.   *)
ImportIsFaithful == part = "transfer" => Transfer!ImportIsFaithful
=============================================================================

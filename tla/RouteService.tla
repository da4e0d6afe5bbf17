---------------------------- MODULE RouteService ----------------------------
(***************************************************************************)
(* The forwarding rule service (internal/route/service.go): requests that  *)
(* create, change, delete, duplicate, reorder and switch rules, the plan   *)
(* each of them runs under the mutation lock, its verification and its     *)
(* rollback, and the start of the panel that puts the stored ruleset back. *)
(*                                                                         *)
(* The ruleset is a set of [id, cfg, at]: which rule, with which content,  *)
(* at which place of the order. What it renders to is module Ruleset; the  *)
(* destinations of a rule and their monitor are module RouteMonitor; the   *)
(* order in which requests get the lock is module MutationLock.            *)
(***************************************************************************)
EXTENDS Integers, Sequences, FiniteSets

CONSTANTS Requests,     \* requests, each made at most once
          Checker,      \* those of them that are the quota checker's, not a client's
          Ids,          \* primary keys of RouteRule: 1 .. n
          Cfgs,         \* contents of a rule
          FamilyOf,     \* the family each content is of
          Overlaps,     \* pairs of contents whose listeners overlap
          Refused,      \* contents the kernel refuses
          Backends,     \* the backends a host may have
          MaxFaults     \* bound: failing calls, crashes and reboots in a behaviour

ASSUME RouteServiceAssumption ==
    /\ Checker \subseteq Requests
    /\ Ids \subseteq Nat \ {0}
    /\ Cfgs # {}
    /\ FamilyOf \in [Cfgs -> {"v4", "v6"}]
    /\ Backends \subseteq {"nftables", "iptables"}
    /\ "start" \notin Requests /\ "nobody" \notin Requests
    /\ Refused \subseteq Cfgs
    /\ Overlaps \subseteq Cfgs \X Cfgs
    /\ \A c \in Cfgs : <<c, c>> \in Overlaps
    /\ MaxFaults \in Nat

VARIABLES backend, rows, kernel, file, unit, accepted, waiting, plan, phase, relic,
          faults,
          since,        \* history: the tables saved since the last confirmed one
          silent        \* history: the last change of the rows, or an outdated start, left
                        \* no status that tells what the kernel has

vars == <<backend, rows, kernel, file, unit, accepted, waiting, plan, phase, relic,
          faults, since, silent>>

Families == {"v4", "v6"}

(* nft installs both families in one transaction and reads both back;      *)
(* iptables has a file and a restore for each, and reads back IPv4 only.   *)
Batches(b) == IF b = "nftables" THEN <<Families>> ELSE <<{"v4"}, {"v6"}>>
ReadBack(b) == IF b = "nftables" THEN Families ELSE {"v4"}

EnableUnit == {}        \* the step that writes and enables the restore unit
ApplySteps(b) == Append(Batches(b), EnableUnit)

Statuses == {"pending", "applied", "failed", "inconsistent"}
Row == [state : {"free", "live", "deleted"}, on : BOOLEAN, cfg : Cfgs, at : Nat,
        status : Statuses]
Live(rs) == {i \in Ids : rs[i].state = "live"}
Enabled(rs) == {i \in Live(rs) : rs[i].on}

Table(rs) == {[id |-> i, cfg |-> rs[i].cfg, at |-> rs[i].at] : i \in Enabled(rs)}
Of(f, t) == {e \in t : FamilyOf[e.cfg] = f}
View(t) == [f \in Families |-> Of(f, t)]

NoPlan == [owner |-> "nobody"]
Unmade == [kind |-> "unmade"]
Over == [kind |-> "over"]
Start == "start"

Faulty == faults < MaxFaults /\ faults' = faults + 1
NoFault == faults' = faults

Init == /\ backend \in Backends
        /\ rows = [i \in Ids |-> [state |-> "free", on |-> FALSE, cfg |-> CHOOSE c \in Cfgs : TRUE,
                                  at |-> 0, status |-> "pending"]]
        /\ kernel = View({}) /\ file = View({})
        /\ unit = FALSE
        /\ accepted = {}
        /\ waiting = [r \in Requests |-> Unmade]
        /\ plan = NoPlan
        /\ phase = "down"
        /\ relic = {}
        /\ faults = 0
        /\ since = {{}}
        /\ silent = FALSE

-----------------------------------------------------------------------------
(* Requests before the lock: what is read and validated there.             *)

(* Validation against the other enabled rules; a disabled rule claims no   *)
(* listener.                                                               *)
Accepted(c, on, except) ==
    on => \A i \in Enabled(rows) \ {except} : <<c, rows[i].cfg>> \notin Overlaps

Creates == [kind : {"create"}, id : {0}, cfg : Cfgs, on : BOOLEAN]
Updates == [kind : {"update"}, id : Live(rows), cfg : Cfgs, on : BOOLEAN]
(* A change that mentions the content only: whether the rule is enabled is *)
(* taken from the row as the handler read it.                              *)
Edits == {[kind |-> "edit", id |-> i, cfg |-> c, on |-> rows[i].on] : i \in Live(rows), c \in Cfgs}
Copies == {[kind |-> "duplicate", id |-> i, cfg |-> rows[i].cfg, on |-> FALSE] : i \in Live(rows)}
Switches == {[kind |-> "switch", id |-> i, cfg |-> rows[i].cfg, on |-> on] :
               i \in Live(rows), on \in BOOLEAN}
Others == {[kind |-> k, id |-> i, cfg |-> rows[i].cfg, on |-> TRUE] :
               k \in {"delete", "reapply", "reorder"}, i \in Live(rows)}

Asked(r) == IF r \in Checker THEN Switches
            ELSE {a \in Creates \cup Updates \cup Edits : Accepted(a.cfg, a.on, a.id)}
                     \cup Copies \cup Switches \cup Others

Submit(r) == /\ phase = "serving" \/ (phase = "starting" /\ r \in Checker)
             /\ waiting[r] = Unmade
             /\ \E a \in Asked(r) : waiting' = [waiting EXCEPT ![r] = a]
             /\ UNCHANGED <<backend, rows, kernel, file, unit, accepted, plan, phase, relic,
                            faults, since, silent>>

-----------------------------------------------------------------------------
(* Under the lock: the row is written first, and stays written.            *)

Unused == {i \in Ids : rows[i].state = "free"}
NextId == CHOOSE i \in Unused : \A j \in Unused : i <= j
Last(rs) == IF Live(rs) = {} THEN 0
            ELSE CHOOSE n \in {rs[i].at : i \in Live(rs)} : \A i \in Live(rs) : rs[i].at <= n

(* UX_RouteRule_Listener: two live enabled rows never have the same        *)
(* listener; listeners that overlap without being equal pass.              *)
ListenersDiffer(rs) == \A i, j \in Enabled(rs) : i # j => rs[i].cfg # rs[j].cfg

Insert(a) == [rows EXCEPT ![NextId] = [state |-> "live", on |-> a.on, cfg |-> a.cfg,
                                       at |-> Last(rows) + 1, status |-> "pending"]]
Update(a) == IF a.id \in Live(rows)
             THEN [rows EXCEPT ![a.id].cfg = a.cfg, ![a.id].on = a.on] ELSE rows
SoftDelete(a) == [rows EXCEPT ![a.id].state = "deleted", ![a.id].on = FALSE]
SetEnabled(a) == IF a.id \in Live(rows) THEN [rows EXCEPT ![a.id].on = a.on] ELSE rows
(* The list of all live rules with a.id moved to its front.                *)
Reorder(a) == [i \in Ids |-> IF i \notin Live(rows) THEN rows[i]
               ELSE [rows[i] EXCEPT !.at = IF i = a.id THEN 1 ELSE
                        2 + Cardinality({j \in Live(rows) \ {a.id} : rows[j].at < rows[i].at})]]

Written(a) == CASE a.kind \in {"create", "duplicate"} -> Insert(a)
                [] a.kind \in {"update", "edit"} -> Update(a)
                [] a.kind = "delete" -> SoftDelete(a)
                [] a.kind = "switch" -> SetEnabled(a)
                [] a.kind = "reorder" -> Reorder(a)
                [] OTHER -> rows

(* The write is possible: a free key, distinct listeners, all ids live.    *)
Writable(a) == /\ a.kind \in {"create", "duplicate"} => Unused # {}
               /\ a.kind = "reorder" => a.id \in Live(rows)
               /\ ListenersDiffer(Written(a))
(* After it, the subject is read back; a delete goes on without reading.   *)
Found(a) == a.kind \in {"update", "edit", "switch"} => a.id \in Live(rows)

NewPlan(owner, wanted, before) ==
    [owner |-> owner, wanted |-> wanted, before |-> before,
     todo |-> ApplySteps(backend), undoing |-> FALSE]

Marked(rs, ids, s) == [i \in Ids |-> IF i \in ids THEN [rs[i] EXCEPT !.status = s] ELSE rs[i]]
InTable(t) == {e.id : e \in t}

(* Create, Update, Delete, SetEnabled, Reapply, Reorder: lock, List, write *)
(* the row, plan.                                                          *)
Begin(r, a) == /\ Writable(a) /\ Found(a) /\ a.kind # "duplicate"
               /\ rows' = Written(a)
               /\ plan' = NewPlan(r, Table(rows'), Table(rows))
               /\ waiting' = waiting
               /\ silent' = silent
               /\ NoFault

(* Nothing is written: the index or a row that is gone refuses it.         *)
Refuse(r, a) == /\ ~(Writable(a) /\ Found(a))
                /\ waiting' = [waiting EXCEPT ![r] = Over]
                /\ UNCHANGED <<rows, plan, faults, silent>>

(* Duplicate: a disabled copy, and no apply.                               *)
Duplicate(r, a) == /\ a.kind = "duplicate" /\ Writable(a)
                   /\ rows' = Insert(a)
                   /\ waiting' = [waiting EXCEPT ![r] = Over]
                   /\ UNCHANGED <<plan, faults, silent>>

(* The plan cannot be made: the row is written, nothing says so.           *)
PlanFails(r, a) == /\ Writable(a) /\ Found(a) /\ a.kind # "duplicate"
                   /\ rows' = Written(a)
                   /\ waiting' = [waiting EXCEPT ![r] = Over]
                   /\ silent' = TRUE
                   /\ Faulty /\ UNCHANGED plan

(* The guard refuses the plan: the enabled rules are marked, nothing runs. *)
GuardRefuses(r, a) == /\ Writable(a) /\ Found(a) /\ a.kind # "duplicate"
                      /\ rows' = Marked(Written(a), Enabled(Written(a)), "failed")
                      /\ waiting' = [waiting EXCEPT ![r] = Over]
                      /\ Faulty /\ UNCHANGED <<plan, silent>>

Take(r) == /\ plan = NoPlan
           /\ waiting[r] \notin {Unmade, Over}
           /\ LET a == waiting[r] IN
                \/ Begin(r, a) \/ Refuse(r, a) \/ Duplicate(r, a)
                \/ PlanFails(r, a) \/ GuardRefuses(r, a)
           /\ since' = since \cup {Table(rows')}
           /\ UNCHANGED <<backend, kernel, file, unit, accepted, phase, relic>>

-----------------------------------------------------------------------------
(* The plan: steps until the first that fails, then the read-back.         *)

(* What is being installed: the desired table, or on the way back the      *)
(* payload of the last apply that was verified; the rendering of the rows  *)
(* before this request when there is none since the panel started.         *)
PutBack(p) == IF accepted # {} THEN CHOOSE t \in accepted : TRUE ELSE p.before
Payload(p) == IF p.undoing THEN PutBack(p) ELSE p.wanted
RefusedBy(t, F) == \E e \in t : FamilyOf[e.cfg] \in F /\ e.cfg \in Refused

Put(F, old, t) == [f \in Families |-> IF f \in F THEN Of(f, t) ELSE old[f]]

Relic(p) == IF p.owner = Start THEN relic ELSE {}

(* The start installs what it read before it waited for the lock.          *)
Outdated(p) == p.wanted # Table(rows)

(* The request ends; the ids the plan affects get the status.              *)
End(status) ==
    /\ \E S \in SUBSET InTable(plan.wanted) :
         /\ rows' = Marked(rows, S, status)
         /\ IF S = InTable(plan.wanted)
            THEN NoFault /\ silent' = (Outdated(plan) \/ (silent /\ status # "applied"))
            ELSE Faulty /\ silent' = TRUE
    /\ waiting' = [r \in Requests |-> IF r = plan.owner THEN Over ELSE waiting[r]]
    /\ phase' = IF plan.owner = Start THEN "serving" ELSE phase
    /\ relic' = IF plan.owner = Start THEN {} ELSE relic
    /\ plan' = NoPlan

Step == /\ plan # NoPlan /\ plan.todo # <<>>
        /\ LET F == Head(plan.todo) t == Payload(plan) IN
             /\ ~RefusedBy(t, F)
             /\ file' = Put(F, file, t)
             /\ kernel' = Put(F, kernel, t)
             /\ unit' = (unit \/ F = EnableUnit)
        /\ plan' = [plan EXCEPT !.todo = Tail(@)]
        /\ UNCHANGED <<backend, rows, accepted, waiting, phase, relic, faults, since, silent>>

(* A step fails: before the file is written, after it, or after the kernel *)
(* took it (a command killed by its timeout). A refused table always fails *)
(* and is left in the file.                                                *)
Fails == LET F == Head(plan.todo) t == Payload(plan) IN
    /\ plan # NoPlan /\ plan.todo # <<>>
    /\ \/ RefusedBy(t, F) /\ file' = Put(F, file, t) /\ kernel' = kernel /\ NoFault
       \/ /\ Faulty
          /\ \/ file' = file /\ kernel' = kernel
             \/ file' = Put(F, file, t) /\ kernel' = kernel
             \/ /\ ~RefusedBy(t, F)
                /\ file' = Put(F, file, t) /\ kernel' = Put(F, kernel, t)
    /\ UNCHANGED <<backend, unit, accepted>>

Rollback == [plan EXCEPT !.undoing = TRUE, !.todo = Batches(backend)]

StepFails == /\ Fails /\ ~plan.undoing
             /\ plan' = Rollback
             /\ UNCHANGED <<rows, waiting, phase, relic, since, silent>>

(* The rollback fails too: inconsistent, which a client that has gone away *)
(* also keeps from being written.                                          *)
RollbackFails == /\ Fails /\ plan.undoing
                 /\ \E S \in SUBSET InTable(plan.wanted) :
                      /\ rows' = Marked(rows, S, "inconsistent")
                      /\ silent' = (silent \/ Outdated(plan) \/ S # InTable(plan.wanted))
                 /\ waiting' = [r \in Requests |-> IF r = plan.owner THEN Over ELSE waiting[r]]
                 /\ phase' = IF plan.owner = Start THEN "serving" ELSE phase
                 /\ relic' = IF plan.owner = Start THEN {} ELSE relic
                 /\ since' = since \cup Relic(plan)
                 /\ plan' = NoPlan

Ready == plan # NoPlan /\ plan.todo = <<>>
Verified == /\ \A e \in plan.wanted : FamilyOf[e.cfg] \in ReadBack(backend)
            /\ \A f \in ReadBack(backend) : kernel[f] = Of(f, plan.wanted)

\* Mutant: only the first payload the kernel took is remembered.
ConfirmRemembersFirst ==
    /\ Ready /\ ~plan.undoing /\ Verified
    /\ accepted' = IF accepted = {} THEN {plan.wanted} ELSE accepted
    /\ since' = IF ~Outdated(plan) THEN {Table(rows)} ELSE since \cup Relic(plan)
    /\ End("applied")
    /\ UNCHANGED <<backend, kernel, file, unit>>

(* The read-back agrees: the payload is remembered and the rules marked.   *)
Confirm == /\ Ready /\ ~plan.undoing /\ Verified
           /\ accepted' = {plan.wanted}
           /\ since' = IF ~Outdated(plan) THEN {Table(rows)} ELSE since \cup Relic(plan)
           /\ End("applied")
           /\ UNCHANGED <<backend, kernel, file, unit>>

VerifyFails == /\ Ready /\ ~plan.undoing
               /\ \/ ~Verified /\ NoFault
                  \/ Faulty
               /\ plan' = Rollback
               /\ UNCHANGED <<backend, rows, kernel, file, unit, accepted, waiting, phase,
                              relic, since, silent>>

\* Mutant: a change that was put back is recorded as applied.
RolledBackAsApplied == /\ Ready /\ plan.undoing
                       /\ End("applied")
                       /\ since' = since \cup Relic(plan)
                       /\ UNCHANGED <<backend, kernel, file, unit, accepted>>

RolledBack == /\ Ready /\ plan.undoing
              /\ End("failed")
              /\ since' = since \cup Relic(plan)
              /\ UNCHANGED <<backend, kernel, file, unit, accepted>>

-----------------------------------------------------------------------------
(* Starts, crashes and reboots.                                            *)

StartPanel == /\ phase = "down" /\ phase' = "starting"
              /\ UNCHANGED <<backend, rows, kernel, file, unit, accepted, waiting, plan, relic,
                             faults, since, silent>>

(* Reassert reads the rules before it waits for the lock; with no enabled  *)
(* rule it acts only on chains an empty ruleset does not declare, which    *)
(* only the nftables backend reports.                                      *)
StaleChains == backend = "nftables" /\ kernel # View({})
NothingToDo == Enabled(rows) = {} /\ ~StaleChains
ReassertReads == /\ phase = "starting" /\ relic = {}
                 /\ IF NothingToDo THEN phase' = "serving" /\ relic' = relic
                    ELSE phase' = phase /\ relic' = {Table(rows)}
                 /\ UNCHANGED <<backend, rows, kernel, file, unit, accepted, waiting, plan,
                                faults, since, silent>>

ReassertTakes == /\ phase = "starting" /\ plan = NoPlan
                 /\ \E t \in relic : plan' = NewPlan(Start, t, t)
                 /\ UNCHANGED <<backend, rows, kernel, file, unit, accepted, waiting, phase,
                                relic, faults, since, silent>>

(* The panel's process ends, with whatever it was doing.                   *)
Stopped == /\ phase # "down" /\ phase' = "down"
           /\ Faulty
           /\ accepted' = {} /\ plan' = NoPlan /\ relic' = {}
           /\ waiting' = [r \in Requests |-> IF waiting[r] = Unmade THEN Unmade ELSE Over]
           /\ since' = since \cup relic
           /\ silent' = TRUE
           /\ UNCHANGED <<backend, rows, file, unit>>

Crash == Stopped /\ kernel' = kernel

(* The restore unit replays the files in order until one is refused.       *)
Replayed == LET bs == Batches(backend)
                refused(i) == \E f \in bs[i] : RefusedBy(file[f], {f})
            IN UNION {bs[i] : i \in {j \in DOMAIN bs : \A k \in 1 .. j : ~refused(k)}}
Reboot == /\ Stopped
          /\ kernel' = [f \in Families |-> IF unit /\ f \in Replayed THEN file[f] ELSE {}]

Next == \/ \E r \in Requests : Submit(r) \/ Take(r)
        \/ Step \/ StepFails \/ RollbackFails \/ Confirm \/ VerifyFails \/ RolledBack
        \/ StartPanel \/ ReassertReads \/ ReassertTakes \/ Crash \/ Reboot

Spec == Init /\ [][Next]_vars

-----------------------------------------------------------------------------
(* The kernel's ruleset is per family always one whole table saved since   *)
(* the last verified apply: a failed apply puts back what was last         *)
(* verified and nothing older, whoever fails, crashes or reboots. Only the *)
(* start of the panel can bring back an older one, the table it read when  *)
(* it began (service.go:1247).                                             *)
Promise == INSTANCE ForwardingTable WITH
    saved <- Table(rows), since <- since, relic <- relic, installed <- kernel
FollowsTheTable == Promise!Spec

(* While no request is at work, an enabled rule marked applied is in the   *)
(* kernel with the content and the place of its row, unless the last       *)
(* change of the rows ended with no status at all.                         *)
AppliedIsRelayed ==
    (phase = "serving" /\ plan = NoPlan /\ ~silent) =>
        \A e \in Table(rows) : rows[e.id].status = "applied" => e \in kernel[FamilyOf[e.cfg]]

(* api/routes.go:187: "a request mentioning one field changes only that    *)
(* field": a change of the content leaves the switch as it is.             *)
EditLeavesTheSwitch ==
    [][\A r \in Requests : Take(r) /\ waiting[r].kind = "edit" =>
           rows'[waiting[r].id].on = rows[waiting[r].id].on]_vars
=============================================================================

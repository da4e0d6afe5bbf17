----------------------------- MODULE Reconcile -----------------------------
(***************************************************************************)
(* Reconciliation of one interface name (internal/reconcile): the report,  *)
(* the drift sweeper, adoption with and without taking the unit file over, *)
(* forgetting, beside the operator, who changes the interface and its unit *)
(* by hand, and the guards of internal/safety. Adoption and forgetting     *)
(* take no lock. A reapply, an update or a delete is one step here:        *)
(* TunnelApply has its steps, TunnelRequests its queue.                    *)
(***************************************************************************)
EXTENDS Integers

CONSTANTS Cfgs, MaxHand       \* configurations; bound: changes by hand

VARIABLES rec,         \* the record, NoRec when there is none
          device,      \* the interface: its configuration, 0 when absent,
                       \* Bridge when something that is no tunnel has the name
          unit,        \* the unit file: [owner, cfg, enabled]
          backups,     \* configurations of the files backed up
          adoption, report, reapply,   \* what each of the three has read
          hand,        \* changes by hand so far
          foreign      \* history: files somebody else wrote, by configuration

vars == <<rec, device, unit, backups, adoption, report, reapply, hand, foreign>>
jobs == <<adoption, report, reapply>>
host == <<device, unit, backups, foreign, hand>>

Bridge == -1
NoRec == [cfg |-> 0, status |-> "none"]
NoUnit == [owner |-> "none", cfg |-> 0, enabled |-> FALSE]
Nothing == [at |-> "idle"]
IsTunnel(d) == d \in Cfgs
Owned(u) == u.owner # "other"          \* a file that is not there counts as owned

(* What the report says of a record and an interface, and of an interface  *)
(* without a record.                                                       *)
Classify(r, d) == CASE r = NoRec -> IF IsTunnel(d) THEN "Unmanaged" ELSE "none"
                    [] r.status = "Inconsistent" -> "Inconsistent"
                    [] OTHER -> IF d = 0 THEN "Missing"
                                ELSE IF d = r.cfg THEN "InSync" ELSE "Drifted"

(* The guard: only a tunnel, or a name that is free, is changed, and only  *)
(* a file that is the panel's or is being taken over.                      *)
GuardAllows(takeover) == device # Bridge /\ (Owned(unit) \/ takeover)

\* Mutant: the file is written on the strength of the check made before.
WriteUnchecked(cfg, takeover) ==
    /\ unit' = [owner |-> "panel", cfg |-> cfg, enabled |-> TRUE]
    /\ backups' = backups \cup (IF takeover THEN {unit.cfg} ELSE {})
WriteUnit(cfg, takeover) ==
    IF ~Owned(unit) /\ ~takeover THEN UNCHANGED <<unit, backups>>
    ELSE /\ unit' = [owner |-> "panel", cfg |-> cfg, enabled |-> TRUE]
         /\ backups' = IF Owned(unit) THEN backups ELSE backups \cup {unit.cfg}

RemoveUnit(takeover) ==
    IF ~Owned(unit) /\ ~takeover THEN UNCHANGED <<unit, backups>>
    ELSE /\ unit' = NoUnit
         /\ backups' = IF Owned(unit) THEN backups ELSE backups \cup {unit.cfg}

Init == /\ rec = NoRec /\ device \in Cfgs \cup {0} /\ backups = {}
        /\ unit \in {NoUnit, [owner |-> "other", cfg |-> 1, enabled |-> TRUE]}
        /\ foreign = IF unit = NoUnit THEN {} ELSE {1}
        /\ hand = 0
        /\ adoption = Nothing /\ report = Nothing /\ reapply = Nothing

-----------------------------------------------------------------------------
(* Adopt reads the interface, then the record and the unit; inserts what   *)
(* it imported; and takes the file over when it was somebody else's.       *)
AdoptReadsLink == /\ adoption = Nothing /\ IsTunnel(device)
                  /\ adoption' = [at |-> "link", cfg |-> device]
                  /\ UNCHANGED <<rec, report, reapply>> /\ UNCHANGED host

AdoptReadsUnit(takeover) ==
    /\ adoption.at = "link"
    /\ adoption' = IF rec # NoRec THEN Nothing
                   ELSE [at |-> "insert", cfg |-> adoption.cfg, takeover |-> takeover,
                         present |-> unit.owner # "none", owned |-> Owned(unit)]
    /\ UNCHANGED <<rec, report, reapply>> /\ UNCHANGED host

Insert == /\ adoption.at = "insert"
          /\ IF rec # NoRec THEN adoption' = Nothing /\ UNCHANGED rec     \* the name is taken
             ELSE /\ rec' = [cfg |-> adoption.cfg, status |-> "Applied"]
                  /\ adoption' = IF adoption.takeover /\ adoption.present /\ ~adoption.owned
                                 THEN [at |-> "takeover"] ELSE Nothing
          /\ UNCHANGED <<report, reapply>> /\ UNCHANGED host

TakeOverUnits == /\ adoption.at = "takeover" /\ adoption' = Nothing
                 /\ IF rec = NoRec THEN UNCHANGED <<unit, backups>> ELSE WriteUnit(rec.cfg, TRUE)
                 /\ UNCHANGED <<rec, device, report, reapply, hand, foreign>>

(* The sweeper reports, records first, and reapplies what has drifted when *)
(* system.auto_reapply_on_drift asks for it, which reads the record again. *)
ReportReadsRecords == /\ report = Nothing
                      /\ report' = [at |-> "records", rec |-> rec]
                      /\ UNCHANGED <<rec, adoption, reapply>> /\ UNCHANGED host

ReportReadsLinks == /\ report.at = "records"
                    /\ report' = [at |-> "done", status |-> Classify(report.rec, device)]
                    /\ UNCHANGED <<rec, adoption, reapply>> /\ UNCHANGED host

Sweep(auto) ==
    /\ report.at = "done" /\ report' = Nothing
    /\ IF report.status = "Drifted" /\ auto /\ reapply = Nothing /\ rec # NoRec
       THEN reapply' = [at |-> "read", rec |-> rec, takeover |-> FALSE, sweep |-> TRUE]
       ELSE UNCHANGED reapply
    /\ UNCHANGED <<rec, adoption>> /\ UNCHANGED host

AskReapply(takeover) == /\ reapply = Nothing /\ rec # NoRec
                        /\ reapply' = [at |-> "read", rec |-> rec, takeover |-> takeover, sweep |-> FALSE]
                        /\ UNCHANGED <<rec, adoption, report>> /\ UNCHANGED host

(* Under the lock the guard decides on the whole plan before its first     *)
(* step; the steps then check each file again.                             *)
GuardReapply == /\ reapply.at = "read"
                /\ IF GuardAllows(reapply.takeover)
                   THEN reapply' = [reapply EXCEPT !.at = "go"] /\ UNCHANGED rec
                   ELSE /\ reapply' = Nothing
                        /\ rec' = IF rec = NoRec THEN rec ELSE [rec EXCEPT !.status = "Failed"]
                /\ UNCHANGED <<adoption, report>> /\ UNCHANGED host

Reapply == /\ reapply.at = "go" /\ reapply' = Nothing
           /\ WriteUnit(reapply.rec.cfg, reapply.takeover)
           /\ IF Owned(unit) \/ reapply.takeover
              THEN /\ device' = reapply.rec.cfg
                   /\ rec' = IF rec = NoRec THEN rec ELSE [rec EXCEPT !.status = "Applied"]
              ELSE /\ device' \in {0, device}                    \* the teardown ran
                   /\ rec' = IF rec = NoRec THEN rec
                             ELSE [rec EXCEPT !.status = "Inconsistent"]
           /\ UNCHANGED <<adoption, report, hand, foreign>>

-----------------------------------------------------------------------------
(* Other requests: a change, a removal, forgetting.                        *)
Update(cfg, takeover) == /\ rec # NoRec /\ reapply.at # "go" /\ GuardAllows(takeover)
                         /\ rec' = [cfg |-> cfg, status |-> "Applied"]
                         /\ device' = cfg /\ WriteUnit(cfg, takeover)
                         /\ UNCHANGED <<hand, foreign>> /\ UNCHANGED jobs

Delete(takeover) == /\ rec # NoRec /\ reapply.at # "go" /\ GuardAllows(takeover)
                    /\ rec' = NoRec /\ device' = 0 /\ RemoveUnit(takeover)
                    /\ UNCHANGED <<hand, foreign>> /\ UNCHANGED jobs

Forget == /\ rec # NoRec /\ rec' = NoRec
          /\ UNCHANGED jobs /\ UNCHANGED host

(* The operator, outside the panel, and a reboot.                          *)
ByHand == /\ hand < MaxHand /\ hand' = hand + 1
          /\ \/ /\ device' \in Cfgs \cup {0, Bridge} /\ device' # device
                /\ UNCHANGED <<unit, foreign>>
             \/ \E c \in Cfgs : /\ unit' = [owner |-> "other", cfg |-> c, enabled |-> TRUE]
                                /\ foreign' = IF unit.owner = "other"
                                              THEN (foreign \ {unit.cfg}) \cup {c}
                                              ELSE foreign \cup {c}
                                /\ UNCHANGED device
          /\ UNCHANGED <<rec, backups>> /\ UNCHANGED jobs

Reboot == /\ device' = IF unit.enabled THEN unit.cfg ELSE 0
          /\ adoption' = Nothing /\ report' = Nothing /\ reapply' = Nothing
          /\ UNCHANGED <<rec, unit, backups, hand, foreign>>

Next == \/ AdoptReadsLink \/ Insert \/ TakeOverUnits
        \/ ReportReadsRecords \/ ReportReadsLinks
        \/ GuardReapply \/ Reapply \/ Forget \/ ByHand \/ Reboot
        \/ \E t \in BOOLEAN : \/ Sweep(t) \/ AdoptReadsUnit(t) \/ AskReapply(t) \/ Delete(t)
                              \/ \E c \in Cfgs : Update(c, t)

-----------------------------------------------------------------------------
(* A unit file somebody else wrote is in its place or backed up, whatever  *)
(* was changed by hand between a check and the step it allowed; and a step *)
(* of the sweeper's own never takes a file over (safety.go, files.go).     *)
OriginalsAreKept == \A c \in foreign : c \in backups \/ unit = [owner |-> "other", cfg |-> c,
                                                               enabled |-> TRUE]
=============================================================================

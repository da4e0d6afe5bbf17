------------------------------- MODULE Transfer -------------------------------
(***************************************************************************)
(* Carrying the configuration to another host (api/backup.go): an export   *)
(* of the pools and tunnels of one host, imported on another that has its  *)
(* own and whose operators go on working. Pools are matched by range and   *)
(* get new identifiers; a tunnel is an ordinary create with the pool       *)
(* identifier it was exported with. A dry run only previews.               *)
(***************************************************************************)
EXTENDS Naturals, FiniteSets

CONSTANTS Names, Ranges,
          PoolIds,   \* 1..n
          Exported,  \* those of them the other host has used
          Nothing,   \* no tunnel, no pool
          Failures   \* creates that fail on the host (a bound)

VARIABLES backup, host,  \* [pools: the range of each id, tunnels: the pool of each name]
          spent,         \* identifiers of the host's pools, deleted ones too
          job,           \* the import: where it stands, what it listed, what is left, its report
          before,        \* the host as the import found it; what others changed since
          failed

vars == <<backup, host, spent, job, before, failed>>

Loose == 0    \* a tunnel of no pool
Hosts == {h \in [pools : [PoolIds -> Ranges \cup {Nothing}],
                 tunnels : [Names -> PoolIds \cup {Loose, Nothing}]] :
            \A n \in Names : h.tunnels[n] \in PoolIds => h.pools[h.tunnels[n]] # Nothing}

Pools(h) == {i \in PoolIds : h.pools[i] # Nothing}
There(h) == {n \in Names : h.tunnels[n] # Nothing}
Listed(h) == {h.pools[i] : i \in Pools(h)}

NoReport == [n \in Names |-> "none"]
NoJob == [at |-> "idle", dry |-> FALSE, ranges |-> {}, names |-> {}, pools |-> {}, left |-> {},
          report |-> NoReport]

(* Pools of equal range are left to the operator who made them.            *)
Init == /\ backup \in {h \in Hosts : /\ Pools(h) \subseteq Exported
                                    /\ Cardinality(Listed(h)) = Cardinality(Pools(h))}
        /\ host \in {h \in Hosts : Pools(h) \subseteq {1} /\ There(h) \subseteq {CHOOSE n \in Names : TRUE}}
        /\ spent = {1} /\ job = NoJob /\ failed = 0
        /\ before = [host |-> host, touched |-> {}]

-----------------------------------------------------------------------------
Import(dry) ==
    /\ job.at = "idle"
    /\ job' = [NoJob EXCEPT !.at = "pools", !.dry = dry, !.ranges = Listed(host), !.pools = Pools(backup)]
    /\ before' = [host |-> host, touched |-> {}] /\ UNCHANGED <<backup, host, spent, failed>>

(* The next pool: one of that range is there, or a new one is made of it.  *)
\* Mutant: a dry run makes the pools.
SkipsListed(range) == range \in job.ranges \/ spent = PoolIds
SkipsPool(range) == range \in job.ranges \/ job.dry \/ spent = PoolIds

ImportPool(i) ==
    LET range == backup.pools[i]
        new   == CHOOSE j \in PoolIds \ spent : \A k \in PoolIds \ spent : j <= k
    IN /\ job.at = "pools" /\ i \in job.pools /\ \A j \in job.pools : i <= j
       /\ job' = [job EXCEPT !.pools = @ \ {i}]
       /\ IF SkipsPool(range) THEN UNCHANGED <<host, spent>>
          ELSE host' = [host EXCEPT !.pools[new] = range] /\ spent' = spent \cup {new}
       /\ UNCHANGED <<backup, before, failed>>

ListTunnels == /\ job.at = "pools" /\ job.pools = {}
               /\ job' = [job EXCEPT !.at = "tunnels", !.names = There(host), !.left = There(backup)]
               /\ UNCHANGED <<backup, host, spent, before, failed>>

(* What a create asks of the name, before its row; the database then asks  *)
(* that the pool's identifier exists, of a deleted pool too.               *)
Valid(n) == host.tunnels[n] = Nothing
HasPool(n) == backup.tunnels[n] \in spent \cup {Loose}

Reported(n, verdict) == job' = [job EXCEPT !.left = @ \ {n}, !.report[n] = verdict]
Chosen(n) == job.at = "tunnels" /\ n \in job.left

Skip(n) == /\ Chosen(n) /\ n \in job.names /\ Reported(n, "skip")
           /\ UNCHANGED <<backup, host, spent, before, failed>>

Preview(n) == /\ Chosen(n) /\ n \notin job.names /\ job.dry
              /\ Reported(n, IF Valid(n) THEN "would create" ELSE "would fail")
              /\ UNCHANGED <<backup, host, spent, before, failed>>

(* One that is refused leaves nothing, one that fails on the host leaves   *)
(* its row, and the import goes on with the next.                          *)
Create(n) == /\ Chosen(n) /\ n \notin job.names /\ ~job.dry
             /\ \/ /\ ~(Valid(n) /\ HasPool(n)) /\ Reported(n, "failed") /\ UNCHANGED <<host, failed>>
                \/ /\ Valid(n) /\ HasPool(n) /\ host' = [host EXCEPT !.tunnels[n] = backup.tunnels[n]]
                   /\ \/ Reported(n, "created") /\ UNCHANGED failed
                      \/ failed < Failures /\ Reported(n, "failed") /\ failed' = failed + 1
             /\ UNCHANGED <<backup, spent, before>>

Done == job.at = "tunnels" /\ job.left = {}
End == Done /\ job' = [NoJob EXCEPT !.report = job.report, !.dry = job.dry]
       /\ UNCHANGED <<backup, host, spent, before, failed>>

-----------------------------------------------------------------------------
(* Other operators.                                                        *)
Touch(what) == before' = [before EXCEPT !.touched = @ \cup {what}]
OtherCreates(n) == /\ host.tunnels[n] = Nothing /\ before.touched = {} /\ Touch(n)
                   /\ host' = [host EXCEPT !.tunnels[n] = Loose]
                   /\ UNCHANGED <<backup, spent, job, failed>>
OtherDeletes(n) == /\ host.tunnels[n] # Nothing /\ before.touched = {} /\ Touch(n)
                   /\ host' = [host EXCEPT !.tunnels[n] = Nothing]
                   /\ UNCHANGED <<backup, spent, job, failed>>
OtherDropsPool(i) == /\ i \in Pools(host) /\ \A n \in Names : host.tunnels[n] # i
                     /\ before.touched = {} /\ Touch(i)
                     /\ host' = [host EXCEPT !.pools[i] = Nothing]
                     /\ UNCHANGED <<backup, spent, job, failed>>

Next == \/ \E dry \in BOOLEAN : Import(dry)
        \/ \E i \in PoolIds : ImportPool(i) \/ OtherDropsPool(i)
        \/ ListTunnels \/ End
        \/ \E n \in Names : Skip(n) \/ Preview(n) \/ Create(n) \/ OtherCreates(n) \/ OtherDeletes(n)

-----------------------------------------------------------------------------
(* What an import found and nobody else touched is as it was; a dry run    *)
(* changes nothing. When it is done every tunnel of the backup is answered *)
(* for, one it names created is there with the pool it was exported with,  *)
(* no other is there without having been tried, and every range of the     *)
(* backup is a pool.                                                       *)
ImportIsFaithful ==
    /\ \A n \in There(before.host) \ before.touched : host.tunnels[n] = before.host.tunnels[n]
    /\ \A i \in Pools(before.host) \ before.touched : host.pools[i] = before.host.pools[i]
    /\ job.dry /\ before.touched = {} => host = before.host
    /\ \A n \in Names \ before.touched :
          /\ job.report[n] = "created" => host.tunnels[n] = backup.tunnels[n] /\ n \notin There(before.host)
          /\ n \in There(host) \ There(before.host) => job.report[n] \in {"created", "failed"}
    /\ Done => \A n \in There(backup) : job.report[n] # "none"
    /\ Done /\ ~job.dry /\ spent # PoolIds /\ before.touched \cap PoolIds = {} =>
          Listed(backup) \subseteq Listed(host)

-----------------------------------------------------------------------------
(* Why: what an import lists is what it found but for what others touched; *)
(* an identifier in use is spent; what is not left is reported; and a pool *)
(* of the backup that is not left is there.                                *)
Jobs == [at : {"idle", "pools", "tunnels"}, dry : BOOLEAN, ranges : SUBSET Ranges,
         names : SUBSET Names, pools : SUBSET PoolIds, left : SUBSET Names,
         report : [Names -> {"none", "skip", "would create", "would fail", "created", "failed"}]]
States == [pools : [PoolIds -> Ranges \cup {Nothing}],
           tunnels : [Names -> PoolIds \cup {Loose, Nothing}]]
PoolsUntouched == before.touched \cap PoolIds = {}

TransferKnown ==
    /\ backup \in States /\ host \in States /\ job \in Jobs /\ spent \subseteq PoolIds
    /\ before \in [host : States, touched : SUBSET (Names \cup PoolIds)] /\ failed \in Nat
    /\ Pools(host) \subseteq spent /\ Pools(before.host) \subseteq spent
NothingLost ==
    /\ \A n \in There(before.host) \ before.touched : host.tunnels[n] = before.host.tunnels[n]
    /\ \A i \in Pools(before.host) \ before.touched : host.pools[i] = before.host.pools[i]
    /\ job.dry => \A n \in Names \ before.touched : host.tunnels[n] = before.host.tunnels[n]
    /\ job.dry /\ before.touched = {} => host = before.host
Answered ==
    /\ \A n \in Names \ before.touched :
          /\ job.report[n] = "created" =>
                host.tunnels[n] = backup.tunnels[n] /\ n \notin There(before.host)
          /\ n \in There(host) \ There(before.host) => job.report[n] \in {"created", "failed"}
    /\ job.at = "pools" => \A n \in Names : job.report[n] = "none"
    /\ job.at = "tunnels" => /\ \A n \in There(backup) \ job.left : job.report[n] # "none"
                             /\ \A n \in job.left : n \in There(backup) /\ job.report[n] = "none"
                             /\ job.names \ before.touched \subseteq There(before.host)
PoolsCarried ==
    /\ job.at = "tunnels" => job.pools = {}
    /\ job.at # "idle" /\ ~job.dry /\ spent # PoolIds /\ PoolsUntouched =>
          /\ job.ranges \subseteq Listed(host)
          /\ \A i \in Pools(backup) \ job.pools : backup.pools[i] \in Listed(host)
TransferInv == TransferKnown /\ NothingLost /\ Answered /\ PoolsCarried
=============================================================================

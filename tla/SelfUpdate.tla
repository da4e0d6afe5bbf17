---------------------------- MODULE SelfUpdate ----------------------------
(***************************************************************************)
(* The panel updating itself (internal/update, api/update.go). Start runs  *)
(* under a mutex and launches the installer in a transient unit, which     *)
(* replaces the binary and restarts the panel that launched it; State      *)
(* finds out afterwards what became of the run, from the recorded state,   *)
(* the unit and the running version. The checker asks for the latest       *)
(* release, one lookup at a time. The installer is external.               *)
(***************************************************************************)
EXTENDS Integers

CONSTANTS Versions,      \* releases, a larger number is newer
          Local          \* a build that is no release

VARIABLES file,          \* update-state.json
          unit,          \* "none" | "active" | "exited" | "failed": the transient unit
          disk, current, \* the version installed, and the one running
          age,           \* 0, 1, 2: time since the recorded start, 2 is over maxRun
          start,         \* the Start that holds the mutex: [next, version]
          check,         \* the release checker: [checking, latest, fresh]
          stale,         \* requests that found the last check old
          doubted,       \* history: this run's unit or launch was misread once
          ok,            \* history: the run's unit exited with zero
          lookups        \* history: lookups in flight

vars == <<file, unit, disk, current, age, start, check, stale, doubted, ok, lookups>>
runVars == <<file, unit, disk, current, age, start, doubted, ok>>
checkVars == <<check, stale, lookups>>

Idle == [stage |-> "idle", from |-> Local]
NoStart == [next |-> 0]

\* Mutant: the state is written when the installer has been launched.
LaunchFirst == <<"launch", "write">>
Steps == <<"write", "launch">>

Init == /\ file = Idle /\ unit = "none" /\ age = 0 /\ start = NoStart
        /\ current \in Versions \cup {Local} /\ disk = current
        /\ check = [checking |-> FALSE, latest |-> Local, fresh |-> FALSE]
        /\ stale = 0 /\ doubted = FALSE /\ ok = FALSE /\ lookups = 0

(* What a run still recorded as running has become; u is what systemctl    *)
(* says, which is nothing when it cannot be asked.                         *)
Resolve(u) ==
    IF file.stage # "running" THEN file
    ELSE LET stage == CASE u = "active" -> IF age = 2 THEN "failed" ELSE "running"
                        [] u = "failed" -> "failed"
                        [] u = "exited" -> "succeeded"
                        [] OTHER -> IF current # file.from THEN "succeeded"
                                    ELSE IF age = 2 THEN "failed" ELSE "running"
         IN [file EXCEPT !.stage = stage]

Reading(u) == /\ u \in {unit, "none"}
              /\ doubted' = (doubted \/ u # unit)

(* State: every report settles a run first.                                *)
State(u) == /\ start = NoStart /\ Reading(u)
            /\ file' = Resolve(u)
            /\ UNCHANGED <<unit, disk, current, age, start, ok>> /\ UNCHANGED checkVars

(* Start settles the last run, refuses when it goes on, and clears its     *)
(* unit, which stops whatever still runs in it.                            *)
Start(u) ==
    /\ start = NoStart /\ Reading(u)
    /\ file' = Resolve(u)
    /\ IF file'.stage = "running" THEN UNCHANGED <<unit, start>>
       ELSE unit' = "none" /\ start' = [next |-> 1]
    /\ UNCHANGED <<disk, current, age, ok>> /\ UNCHANGED checkVars

Proceed(doing) == /\ start.next # 0 /\ Steps[start.next] = doing
                  /\ start' = IF start.next = 2 THEN NoStart ELSE [start EXCEPT !.next = 2]
                  /\ UNCHANGED <<disk, current>> /\ UNCHANGED checkVars

Write == /\ Proceed("write")
         /\ file' = [stage |-> "running", from |-> current] /\ age' = 0
         /\ doubted' = FALSE /\ ok' = FALSE /\ UNCHANGED unit

(* systemd-run, and once more without the redirection. A launch reported   *)
(* as failed may have started the unit: the command ends with the request. *)
Launch == /\ Proceed("launch")
          /\ unit' = "active" /\ UNCHANGED <<file, age, doubted, ok>>

LaunchFails == /\ Proceed("launch")
               /\ unit' \in {"none", "active"} /\ doubted' = (unit' = "active")
               /\ file' = [file EXCEPT !.stage = "failed"]
               /\ UNCHANGED <<age, ok>>

(* The installer: another binary, a restart of the panel, an exit status.  *)
Install(v) == /\ unit = "active" /\ disk' = v
              /\ UNCHANGED <<file, unit, current, age, start, doubted, ok>> /\ UNCHANGED checkVars

Restarted == /\ current' = disk /\ start' = NoStart
             /\ check' = [checking |-> FALSE, latest |-> Local, fresh |-> FALSE]
             /\ stale' = 0 /\ lookups' = 0

RestartPanel == Restarted /\ UNCHANGED <<file, unit, disk, age, doubted, ok>>

Exit == /\ unit = "active"
        /\ \/ unit' = "exited" /\ ok' = TRUE
           \/ unit' = "failed" /\ ok' = FALSE
        /\ UNCHANGED <<file, disk, current, age, start, doubted>> /\ UNCHANGED checkVars

Reboot == /\ Restarted /\ unit' = "none"
          /\ UNCHANGED <<file, disk, age, doubted, ok>>

Tick == /\ age < 2 /\ age' = age + 1
        /\ check' = [check EXCEPT !.fresh = FALSE]
        /\ UNCHANGED <<file, unit, disk, current, start, stale, doubted, ok, lookups>>

(* The checker. Status looks whether the answer is old and then begins;    *)
(* Refresh begins at once.                                                 *)
FindStale == /\ ~check.checking /\ ~check.fresh /\ stale < 2
             /\ stale' = stale + 1
             /\ UNCHANGED <<check, lookups>> /\ UNCHANGED runVars

Begin(asked) == /\ asked \/ stale > 0
                /\ stale' = IF asked THEN stale ELSE stale - 1
                /\ IF check.checking THEN UNCHANGED <<check, lookups>>
                   ELSE check' = [check EXCEPT !.checking = TRUE] /\ lookups' = lookups + 1
                /\ UNCHANGED runVars

Fetch == /\ lookups > 0 /\ lookups' = lookups - 1
         /\ \/ check' = [check EXCEPT !.checking = FALSE, !.fresh = TRUE]
            \/ \E v \in Versions : check' = [checking |-> FALSE, fresh |-> TRUE, latest |-> v]
         /\ UNCHANGED stale /\ UNCHANGED runVars

Next == \/ \E u \in {"none", "active", "exited", "failed"} :
             State(u) \/ Start(u)
        \/ Write \/ Launch \/ LaunchFails \/ RestartPanel \/ Exit \/ Reboot \/ Tick
        \/ \E v \in Versions : Install(v)
        \/ FindStale \/ Fetch \/ \E asked \in BOOLEAN : Begin(asked)

-----------------------------------------------------------------------------
(* Through restarts of the panel in the middle of it: an installer whose   *)
(* launch was answered and whose unit could be read is stopped by no later *)
(* Start within its twenty minutes; a run is recorded as succeeded only    *)
(* when its installer exited with zero or the version changed; and one     *)
(* lookup runs at a time.                                                  *)
Undisturbed == (unit = "active" /\ age < 2 /\ ~doubted') =>
                   ~(unit' = "none" /\ start'.next = 1)
Truthful == (file'.stage = "succeeded" /\ file.stage = "running") =>
                (ok \/ current # file.from)
UpdateIsSafe == Undisturbed /\ Truthful /\ lookups' <= 1

-----------------------------------------------------------------------------
(* Why: a Start that goes on has no unit beside it, a run whose installer  *)
(* is at work and was not misread is recorded as running, one that exited  *)
(* with zero did, and the checker is checking while a lookup is in flight. *)
UpdateKnown ==
    /\ file \in [stage : {"idle", "running", "failed", "succeeded"},
                 from : Versions \cup {Local}]
    /\ unit \in {"none", "active", "exited", "failed"} /\ current \in Versions \cup {Local}
    /\ disk \in Versions \cup {Local} /\ age \in 0..2 /\ start \in [next : 0..2]
    /\ check \in [checking : BOOLEAN, latest : Versions \cup {Local}, fresh : BOOLEAN]
    /\ doubted \in BOOLEAN /\ ok \in BOOLEAN /\ stale \in Nat

UpdateInv ==
    /\ UpdateKnown
    /\ start.next # 0 => unit = "none"
    /\ start.next = 2 => file.stage = "running"
    /\ unit = "active" /\ ~doubted /\ age < 2 => file.stage = "running"
    /\ unit = "exited" => ok
    /\ lookups = IF check.checking THEN 1 ELSE 0
=============================================================================

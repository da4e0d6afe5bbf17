---------------------------- MODULE RouteMonitor ----------------------------
(***************************************************************************)
(* Failover of a forwarding rule (src/internal/route): the monitor probes  *)
(* the destinations of the rule, takes those that stopped answering out of *)
(* the rotation and puts them back, while requests change the rule.        *)
(*                                                                         *)
(* The table of destinations is written by the monitor and by the quota    *)
(* checker without the mutation lock; whoever changed it then owes an      *)
(* apply: under the lock, read the whole table and install the ruleset.    *)
(*                                                                         *)
(* Abstractions: one rule; the ruleset is the set of destinations it names;*)
(* installing it is one step, with every outcome its steps, its            *)
(* verification and its rollback leave; the settings laid over one another *)
(* are one switch per destination; time is the number of rounds until a    *)
(* destination is due.                                                     *)
(***************************************************************************)
EXTENDS Integers

CONSTANTS
  Count,                \* destinations of the rule; the first is the primary
  Monitor, Boot,        \* the monitor; Reassert at the start of the panel
  Changers,             \* requests and the quota checker
  Free,                 \* nobody has the lock
  Failures, Recoveries, \* thresholds of the monitor
  Saves,                \* what a request may save: rows enabled, mode, destinations monitored
  MaxWait,              \* bound: rounds between two probes of a destination
  MaxChanges,           \* bound: changes by requests, settings and the quota checker
  MaxFaults             \* bound: failing writes and applies, restarts of the panel

Dests == 1..Count
Appliers == {Monitor, Boot} \cup Changers
\* The rulesets: the destinations they name.
Pictures == (SUBSET Dests) \ {{}}
\* None accepted since the panel started, or none read yet.
NoPicture == {}

ASSUME DestinationsAssumption == Count \in Nat \ {0}
ASSUME NamesAssumption ==
  /\ Monitor # Boot /\ {Monitor, Boot} \cap Changers = {}
  /\ Free \notin Appliers
ASSUME SavesAssumption ==
  \A s \in Saves : s.on \in SUBSET Dests /\ s.failover \in BOOLEAN /\ s.watch \in SUBSET Dests
ASSUME ThresholdsAssumption == Failures \in Nat \ {0} /\ Recoveries \in Nat \ {0}
ASSUME MonitorBoundsAssumption ==
  MaxWait \in Nat /\ MaxChanges \in Nat /\ MaxFaults \in Nat

VARIABLES
  rows,      \* the destination rows of the rule, and its mode
  watched,   \* the destinations the settings ask to monitor
  memory,    \* what the monitor remembers of each destination
  memGen,    \* the rows it remembers them by
  round,     \* the round of probes it is in
  lock, apply,         \* who installs, and what everybody owes or installs
  installed, accepted, \* the ruleset of the kernel; the one last applied and verified
  \* History and bounds.
  streak,    \* probes in a row: failed ones counted up, answered ones counted down
  condemned, \* Failures in a row failed, and since then not Recoveries in a row answered
  disturbed, \* a failed write or a request changed the rows behind this round
  behind,    \* the last apply failed, or was Reassert's with an outdated table
  changes, faults

tableVars == <<rows, watched>>
monitorVars == <<memory, memGen, round>>
applyVars == <<lock, apply, installed, accepted>>
historyVars == <<streak, condemned, disturbed, behind>>
boundVars == <<changes, faults>>
vars == <<tableVars, monitorVars, applyVars, historyVars, boundVars>>

Table(on, out, failover, gen) ==
  [enabled |-> on, out |-> out, failover |-> failover, gen |-> gen]
\* A rule's rows: those enabled, those suppressed, whether it fails over.  Saving
\* it writes new rows.
Tables == [enabled : SUBSET Dests, out : SUBSET Dests, failover : BOOLEAN, gen : 0..MaxChanges]
NoRows == Table({}, {}, FALSE, 0)

Remembered(state, fails, succs, failover, wait) ==
  [state |-> state, fails |-> fails, succs |-> succs, failover |-> failover, wait |-> wait]
States == {"Unknown", "Up", "Down", "Disabled"}
Memories == [state : States, fails : 0..Failures, succs : 0..Recoveries,
             failover : BOOLEAN, wait : 0..MaxWait]
Unseen == Remembered("Unknown", 0, 0, FALSE, 0)

Round(at, read, next, due, out, changed) ==
  [at |-> at, read |-> read, next |-> next, due |-> due, out |-> out, changed |-> changed]
Rounds == [at : {"idle", "look", "free", "probe", "write"}, read : Tables,
           next : 1..Count + 1, due : SUBSET Dests, out : SUBSET Dests, changed : BOOLEAN]
Between == Round("idle", NoRows, 1, {}, {}, FALSE)

Apply(at, picture, backup) == [at |-> at, picture |-> picture, backup |-> backup]
Applies == [at : {"none", "start", "ready", "wait", "install"},
            picture : SUBSET Dests, backup : SUBSET Dests]
Nothing == Apply("none", NoPicture, NoPicture)
Owing == Apply("wait", NoPicture, NoPicture)

Lowest(a, b) == IF a < b THEN a ELSE b
Highest(a, b) == IF a > b THEN a ELSE b

\* Record.Spec: what the ruleset names; a rule with no row left in the rotation
\* still has its primary destination.
InRotation(t) == IF t.enabled \ t.out = {} THEN {1} ELSE t.enabled \ t.out

Init ==
  /\ rows \in {Table(Dests, {}, f, 0) : f \in BOOLEAN} /\ watched \in {{}, Dests}
  /\ memory = [d \in Dests |-> Unseen] /\ memGen = 0 /\ round = Between
  /\ lock = Free /\ apply = [a \in Appliers |-> Nothing]
  /\ installed = Dests /\ accepted = Dests
  /\ streak = [d \in Dests |-> 0] /\ condemned = {}
  /\ disturbed = FALSE /\ behind = FALSE
  /\ changes = 0 /\ faults = 0

Outcomes == IF faults < MaxFaults THEN BOOLEAN ELSE {TRUE}
Tally(ok) == faults' = IF ok THEN faults ELSE faults + 1

(***************************************************************************)
(* The monitor: Sample.                                                    *)
(***************************************************************************)
\* Read the table.  State of rows that are no longer there is forgotten.
Begin ==
  /\ round.at = "idle" /\ apply[Monitor].at = "none"
  /\ round' = Round("look", rows, 1, {}, rows.out, FALSE)
  /\ memory' = IF memGen = rows.gen THEN memory ELSE [d \in Dests |-> Unseen]
  /\ memGen' = rows.gen /\ disturbed' = FALSE
  /\ UNCHANGED <<tableVars, applyVars, streak, condemned, behind, boundVars>>

\* The round after destination d was looked at, with due the ones to probe and out
\* the ones it takes for suppressed.
Past(d, due, out) ==
  IF d < Count THEN Round("look", round.read, d + 1, due, out, FALSE)
  ELSE IF due # {} THEN Round("probe", round.read, 1, due, out, FALSE)
  ELSE Between

Looking(d) == round.at = "look" /\ round.next = d /\ apply[Monitor].at = "none"
Monitored(d) == d \in watched /\ d \in round.read.enabled
Soon(w) == IF w = 0 THEN 0 ELSE w - 1

\* Mutant: a destination no longer monitored stays as the monitor left it.
IgnoreLeavesOut(d) ==
  /\ Looking(d) /\ ~Monitored(d)
  /\ memory' = [memory EXCEPT ![d] = Remembered("Disabled", 0, 0, FALSE, Soon(@.wait))]
  /\ round' = Past(d, round.due, round.out)
  /\ UNCHANGED <<tableVars, memGen, applyVars, historyVars, boundVars>>

\* markDisabled: one that is suppressed is returned to the rotation next.
Ignore(d) ==
  /\ Looking(d) /\ ~Monitored(d)
  /\ memory' = [memory EXCEPT ![d] = Remembered("Disabled", 0, 0, FALSE, Soon(@.wait))]
  /\ round' = IF d \in round.out THEN Round("free", round.read, d, round.due, round.out, FALSE)
              ELSE Past(d, round.due, round.out)
  /\ UNCHANGED <<tableVars, memGen, applyVars, historyVars, boundVars>>

Watch(d) ==
  /\ Looking(d) /\ Monitored(d)
  /\ LET was == memory[d].state
     IN memory' = [memory EXCEPT ![d] =
          Remembered(IF was = "Disabled" THEN "Unknown" ELSE was,
                     @.fails, @.succs, @.failover, Soon(@.wait))]
  /\ round' = Past(d, IF memory[d].wait = 0 THEN round.due \cup {d} ELSE round.due, round.out)
  /\ UNCHANGED <<tableVars, memGen, applyVars, historyVars, boundVars>>

\* SetDestinationSuppressed on a row of the round: a row replaced since is not
\* found, and that is no error.
Suppress(d, out) ==
  IF round.read.gen # rows.gen THEN rows
  ELSE Table(rows.enabled, IF out THEN rows.out \cup {d} ELSE rows.out \ {d},
             rows.failover, rows.gen)

FreeWrite ==
  /\ round.at = "free"
  /\ \E ok \in Outcomes :
       /\ rows' = IF ok THEN Suppress(round.next, FALSE) ELSE rows
       /\ round' = Past(round.next, round.due, IF ok THEN round.out \ {round.next} ELSE round.out)
       /\ apply' = IF ok THEN [apply EXCEPT ![Monitor] = Owing] ELSE apply
       /\ disturbed' = (disturbed \/ ~ok)
       /\ Tally(ok)
  /\ UNCHANGED <<watched, memory, memGen, lock, installed, accepted, streak, condemned,
                 behind, changes>>

\* Mutant: one failure is enough.
RecordHasty(m, answered, failover, wait) ==
  LET fails == IF answered THEN 0 ELSE Lowest(m.fails + 1, Failures)
      succs == IF answered THEN Lowest(m.succs + 1, Recoveries) ELSE 0
      state == IF succs = Recoveries THEN "Up" ELSE IF fails > 0 THEN "Down" ELSE m.state
  IN Remembered(state, fails, succs, failover /\ state = "Down", wait)

\* record: one answer folded into what is remembered; only thresholds change the
\* state.  The counts stop at the thresholds they are compared with, and the mode the
\* probe ran under is kept only where it is read, with a destination that is down.
Record(m, answered, failover, wait) ==
  LET fails == IF answered THEN 0 ELSE Lowest(m.fails + 1, Failures)
      succs == IF answered THEN Lowest(m.succs + 1, Recoveries) ELSE 0
      state == IF succs = Recoveries THEN "Up" ELSE IF fails = Failures THEN "Down" ELSE m.state
  IN Remembered(state, fails, succs, failover /\ state = "Down", wait)

\* The history of the row of d with one more answer.
Streak(d, answered) ==
  IF answered THEN (IF streak[d] > 0 THEN -1 ELSE Highest(streak[d] - 1, -Recoveries))
  ELSE IF streak[d] < 0 THEN 1 ELSE Lowest(streak[d] + 1, Failures)

Probe ==
  /\ round.at = "probe" /\ apply[Monitor].at = "none"
  /\ \E answered \in SUBSET round.due, wait \in [round.due -> 0..MaxWait] :
       /\ memory' = [d \in Dests |->
            IF d \in round.due THEN Record(memory[d], d \in answered, round.read.failover, wait[d])
            ELSE memory[d]]
       /\ streak' = [d \in Dests |->
            IF d \in round.due /\ round.read.gen = rows.gen THEN Streak(d, d \in answered)
            ELSE streak[d]]
  /\ condemned' = {d \in Dests : streak'[d] = Failures
                                 \/ (d \in condemned /\ streak'[d] # -Recoveries)}
  /\ round' = Round("write", round.read, 1, {}, round.out, FALSE)
  /\ UNCHANGED <<tableVars, memGen, applyVars, disturbed, behind, boundVars>>

Failing == {d \in round.read.enabled : memory[d].failover /\ memory[d].state = "Down"}
\* Mutant: nothing keeps the last destination in.
WantedAll == Failing
\* reconcileRotation: those that should be out, never all of them.
Wanted == IF Failing = round.read.enabled THEN {} ELSE Failing

\* Mutant: destinations are only taken out here, never put back.
DifferentOut == {d \in round.read.enabled : d >= round.next /\ d \in Wanted \ round.out}
\* Those still to be written, in the order of the list.
Different == {d \in round.read.enabled :
                d >= round.next /\ ((d \in Wanted) # (d \in round.out))}

WriteOne(d) ==
  /\ round.at = "write" /\ d \in Different /\ \A e \in Different : d <= e
  /\ \E ok \in Outcomes :
       /\ rows' = IF ok THEN Suppress(d, d \in Wanted) ELSE rows
       /\ round' = Round("write", round.read, d + 1, {},
                         IF ~ok THEN round.out
                         ELSE IF d \in Wanted THEN round.out \cup {d} ELSE round.out \ {d},
                         round.changed \/ ok)
       /\ disturbed' = (disturbed \/ ~ok)
       /\ Tally(ok)
  /\ UNCHANGED <<watched, memory, memGen, applyVars, streak, condemned, behind, changes>>

\* Mutant: the ruleset is rebuilt for a destination taken out, not for one put back.
EndRoundOneWay ==
  /\ round.at = "write" /\ Different = {}
  /\ round' = Between
  /\ apply' = IF round.changed /\ Wanted # {} THEN [apply EXCEPT ![Monitor] = Owing] ELSE apply
  /\ UNCHANGED <<tableVars, memory, memGen, lock, installed, accepted, historyVars, boundVars>>

\* One apply for all that moved.
EndRound ==
  /\ round.at = "write" /\ Different = {}
  /\ round' = Between
  /\ apply' = IF round.changed THEN [apply EXCEPT ![Monitor] = Owing] ELSE apply
  /\ UNCHANGED <<tableVars, memory, memGen, lock, installed, accepted, historyVars, boundVars>>

(***************************************************************************)
(* Changes by requests and by the quota checker.                           *)
(***************************************************************************)
Change(a) == apply[a].at = "none" /\ changes < MaxChanges /\ changes' = changes + 1

\* Update: under the lock, the rows are written anew, none of them suppressed.
Save(a) ==
  /\ Change(a) /\ lock = Free
  /\ \E s \in Saves : rows' = Table(s.on, {}, s.failover, changes + 1) /\ watched' = s.watch
  /\ lock' = a /\ apply' = [apply EXCEPT ![a] = Apply("wait", NoPicture, InRotation(rows))]
  /\ streak' = [d \in Dests |-> 0] /\ condemned' = {} /\ disturbed' = TRUE
  /\ UNCHANGED <<monitorVars, installed, accepted, behind, faults>>

\* SetDestinationEnabled, then ApplyAll: the row is written without the lock.
Toggle(a, d) ==
  /\ Change(a)
  /\ rows' = Table(IF d \in rows.enabled THEN rows.enabled \ {d} ELSE rows.enabled \cup {d},
                   rows.out, rows.failover, rows.gen)
  /\ apply' = [apply EXCEPT ![a] = Owing] /\ disturbed' = TRUE
  /\ UNCHANGED <<watched, monitorVars, lock, installed, accepted, streak, condemned,
                 behind, faults>>

ApplyAll(a) ==
  /\ Change(a) /\ apply' = [apply EXCEPT ![a] = Owing]
  /\ UNCHANGED <<tableVars, monitorVars, lock, installed, accepted, historyVars, faults>>

\* A setting turns monitoring on or off for the destinations that follow it.
SwitchMonitoring(a) ==
  /\ Change(a) /\ \E w \in SUBSET Dests : (w \subseteq watched \/ watched \subseteq w) /\ watched' = w
  /\ UNCHANGED <<rows, monitorVars, applyVars, historyVars, faults>>

(***************************************************************************)
(* Reapply, ApplyAll, the rest of Update: the pipeline of route.Service.   *)
(***************************************************************************)
\* Under the lock, read the table.  The lock or the table may be out of reach.
ReadRows(a) ==
  /\ apply[a].at = "wait" /\ lock \in {Free, a}
  /\ \E ok \in Outcomes :
       /\ lock' = IF ok THEN a ELSE Free
       /\ apply' = [apply EXCEPT ![a] = IF ~ok THEN Nothing
                      ELSE Apply("install", InRotation(rows),
                                 IF lock = a THEN apply[a].backup ELSE InRotation(rows))]
       /\ behind' = (behind \/ ~ok)
       /\ Tally(ok)
  /\ UNCHANGED <<tableVars, monitorVars, installed, accepted, streak, condemned, disturbed,
                 changes>>

\* What a rollback puts back: the last accepted ruleset, or the previous table's.
PutBack(a) == IF accepted = NoPicture THEN apply[a].backup ELSE accepted

\* A failed apply leaves the ruleset as it was, as it should be, or rolled back.
Install(a) ==
  /\ apply[a].at = "install"
  /\ \E ok \in Outcomes :
       /\ installed' \in IF ok THEN {apply[a].picture}
                         ELSE {installed, apply[a].picture, PutBack(a)}
       /\ accepted' = IF ok THEN apply[a].picture ELSE accepted
       /\ behind' = IF ok THEN a = Boot /\ apply[a].picture # InRotation(rows) ELSE TRUE
       /\ Tally(ok)
  /\ lock' = Free /\ apply' = [apply EXCEPT ![a] = Nothing]
  /\ UNCHANGED <<tableVars, monitorVars, streak, condemned, disturbed, changes>>

\* Reassert reads the table first and waits for the lock then.
BootRead ==
  /\ apply[Boot].at = "start"
  /\ apply' = [apply EXCEPT ![Boot] = Apply("ready", InRotation(rows), InRotation(rows))]
  /\ UNCHANGED <<tableVars, monitorVars, lock, installed, accepted, historyVars, boundVars>>
BootAcquire ==
  /\ apply[Boot].at = "ready" /\ lock = Free
  /\ lock' = Boot
  /\ apply' = [apply EXCEPT ![Boot] = Apply("install", apply[Boot].picture, apply[Boot].backup)]
  /\ UNCHANGED <<tableVars, monitorVars, installed, accepted, historyVars, boundVars>>

\* The panel stops and starts again: what was in memory is gone, the ruleset stays.
Restart ==
  /\ faults < MaxFaults /\ faults' = faults + 1
  /\ memory' = [d \in Dests |-> Unseen] /\ memGen' = rows.gen /\ round' = Between
  /\ lock' = Free /\ accepted' = NoPicture
  /\ apply' = [a \in Appliers |-> IF a = Boot THEN Apply("start", NoPicture, NoPicture) ELSE Nothing]
  /\ UNCHANGED <<tableVars, installed, historyVars, changes>>

Watches == \/ Begin \/ FreeWrite \/ Probe \/ EndRound
           \/ \E d \in Dests : Ignore(d) \/ Watch(d) \/ WriteOne(d)
Applying(a) == ReadRows(a) \/ Install(a)
Booting == BootRead \/ BootAcquire \/ Applying(Boot)
Next ==
  \/ Watches \/ Booting \/ Restart
  \/ \E a \in Appliers : Applying(a)
  \/ \E a \in Changers : \/ Save(a) \/ ApplyAll(a) \/ SwitchMonitoring(a)
                          \/ \E d \in Dests : Toggle(a, d)

Spec == Init /\ [][Next]_vars

\* The ticker starts rounds for ever; whoever owes an apply goes on with it.
FairSpec == /\ Spec /\ WF_vars(Watches) /\ WF_vars(Booting)
            /\ \A a \in Appliers : WF_vars(Applying(a))

(***************************************************************************)
(* Properties.                                                             *)
(***************************************************************************)
TypeOK ==
  /\ rows \in Tables /\ watched \in SUBSET Dests
  /\ memory \in [Dests -> Memories] /\ memGen \in 0..MaxChanges /\ round \in Rounds
  /\ lock \in Appliers \cup {Free} /\ apply \in [Appliers -> Applies]
  /\ installed \in Pictures /\ accepted \in SUBSET Dests
  /\ streak \in [Dests -> -Recoveries..Failures] /\ condemned \in SUBSET Dests
  /\ disturbed \in BOOLEAN /\ behind \in BOOLEAN
  /\ changes \in 0..MaxChanges /\ faults \in 0..MaxFaults

\* Somebody has still to install what he changed, or what he found at the start.
Owed == round.changed \/ \E a \in Appliers : apply[a].at # "none"

\* Service.Reapply "installs the stored state over whatever is there now": when
\* nobody owes an apply, and the last one neither failed nor was a Reassert that had
\* read an older table, the kernel has exactly the destinations the rows ask for,
\* whoever wrote the rows without the lock.
RulesetFollowsTable == ~Owed /\ ~behind => installed = InRotation(rows)

\* record, reconcileRotation: the monitor takes a destination out only after
\* Failures probes of its row in a row failed and while no Recoveries in a row have
\* answered since - over restarts, saves and monitoring switched off and on.
OutOnlyAfterFailures ==
  [][\A d \in Dests : d \in rows'.out /\ d \notin rows.out => d \in condemned]_vars

\* monitor.go:25 "it never removes the last destination a rule has": a round that
\* has moved what it had to, none of its writes having failed and no request having
\* changed the rows behind it, leaves an enabled destination in the rotation.
NeverTheLast ==
  round.at = "write" /\ Different = {} /\ ~disturbed /\ rows.enabled # {} =>
    rows.enabled \ rows.out # {}

\* monitor.go:25 "undone the moment the destination answers again", markDisabled
\* "must not be left out of the rotation by a monitor that is no longer watching
\* it": a destination no probe fails for any more, because it answers or because it
\* is not probed, is in the rotation in the end.
BackInRotation ==
  \A d \in Dests : <>[](memory[d].fails = 0) => <>[](d \notin rows.out)

\* Whatever writes failed half way, a rule does not keep every enabled
\* destination out of the rotation.
AllOut == rows.enabled # {} /\ rows.enabled \subseteq rows.out
NotAllOutForever == AllOut ~> ~AllOut
=============================================================================

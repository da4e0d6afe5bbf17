------------------------------- MODULE Quota -------------------------------
(***************************************************************************)
(* Traffic limits (src/internal/quota): one limited subject, its stored    *)
(* limit and the goroutines that act on it.  The sweeper checks the limit  *)
(* every half minute; a handler sets or resets it and then sweeps too.     *)
(* Nothing serialises them: each reads the row once, calls the tunnel or   *)
(* rule service, and writes the whole row back.                            *)
(*                                                                         *)
(* Abstractions: one counter stands for the counted directions; a start or *)
(* a stop of the subject is one step (module TunnelApply has the steps);   *)
(* windows are numbered; the statuses kept for display are left out.       *)
(***************************************************************************)
EXTENDS Naturals

CONSTANTS
  Sweeper, Handlers, \* the goroutines
  Limits,            \* the limits a handler may be asked to set
  NoLimit, NoAsk,    \* no row; a goroutine that sets no limit
  MaxBytes,          \* bound: bytes carried in all
  MaxWindow,         \* bound: windows that end
  MaxRequests,       \* bound: requests to set, remove or reset the limit
  MaxSwitches,       \* bound: changes of the subject by an operator
  MaxFaults          \* bound: failing calls, failing writes, crashes, lost counters

Actors == {Sweeper} \cup Handlers
Places == {"idle", "load", "check", "start", "roll", "stop", "stamp",
           "setWrite", "removeStart", "remove", "resetStart", "resetWrite"}

\* A row of TrafficQuota.  blind and origin are history: whether the baseline was
\* taken from a counter that could not be read, and the bytes carried by then.
Rows == [id : 1..MaxRequests, ask : Limits, base : 0..MaxBytes, start : 0..MaxWindow,
         stopped : BOOLEAN, blind : BOOLEAN, origin : 0..MaxBytes]
\* What check() reads of the subject: its switch, its counter, whether that could
\* be read; and the bytes carried by then (history).
Readings == [enabled : BOOLEAN, rx : 0..MaxBytes, readable : BOOLEAN, origin : 0..MaxBytes]
Jobs == [at : Places, ask : Limits \cup {NoAsk}, read : Rows \cup {NoLimit}, outdated : BOOLEAN,
         now : 0..MaxWindow, seen : Readings]

ASSUME LimitsAssumption ==
  \A l \in Limits : l = [bytes |-> l.bytes, enforce |-> l.enforce, windowed |-> l.windowed]
                    /\ l.bytes \in Nat \ {0} /\ l.enforce \in BOOLEAN /\ l.windowed \in BOOLEAN
ASSUME NamesAssumption ==
  /\ NoLimit \notin Rows
  /\ NoAsk \notin Limits
ASSUME QuotaBoundsAssumption ==
  /\ MaxBytes \in Nat /\ MaxWindow \in Nat /\ MaxRequests \in Nat
  /\ MaxSwitches \in Nat /\ MaxFaults \in Nat

VARIABLES
  limit,    \* the stored limit
  alive, enabled,    \* the subject: whether it exists, whether it is switched on
  counter, readable, \* its cumulative counter
  window,   \* the window the clock is in
  job,      \* what each goroutine is doing
  \* History and bounds.
  carried,  \* the bytes the subject has carried, whatever its counter says
  byPanel,  \* the subject is off, and the last to switch it was this package
  lost,     \* a write of an outdated row, a fault or a crash lost a stop
  requests, switches, faults

subjectVars == <<alive, enabled>>
counterVars == <<counter, readable, carried>>
vars == <<limit, subjectVars, counterVars, window, job, byPanel, lost,
          requests, switches, faults>>

Unread == [enabled |-> FALSE, rx |-> 0, readable |-> FALSE, origin |-> 0]
At(place, ask, r, outdated, now, s) ==
  [at |-> place, ask |-> ask, read |-> r, outdated |-> outdated, now |-> now, seen |-> s]
Idle == At("idle", NoAsk, NoLimit, FALSE, 0, Unread)

Init ==
  /\ limit = NoLimit /\ alive = TRUE /\ enabled = TRUE
  /\ counter = 0 /\ readable = TRUE /\ carried = 0 /\ window = 0
  /\ job = [a \in Actors |-> Idle]
  /\ byPanel = FALSE /\ lost = FALSE
  /\ requests = 0 /\ switches = 0 /\ faults = 0

\* Whether a call or a write succeeds.
Outcomes == IF faults < MaxFaults THEN BOOLEAN ELSE {TRUE}
Count(ok) == faults' = IF ok THEN faults ELSE faults + 1

\* volume: an unreadable counter is reported as zero.
Volume == IF readable THEN counter ELSE 0
Reading == [enabled |-> enabled, rx |-> Volume, readable |-> readable, origin |-> carried]

Stopped(r) == r # NoLimit /\ r.stopped

Return(a) == job' = [job EXCEPT ![a] = Idle]
\* Goroutine a goes on with j and has changed the stored row: what the others
\* have read of it is outdated.
Wrote(a, j) ==
  job' = [b \in Actors |-> IF b = a THEN j
                                ELSE At(job[b].at, job[b].ask, job[b].read,
                                        job[b].read # NoLimit, job[b].now, job[b].seen)]

\* The job j at the place p.
Moved(j, p) == At(p, j.ask, j.read, j.outdated, j.now, j.seen)

\* update(): the row with the id of r, if it is still there, becomes r.
Updated(r) == IF limit # NoLimit /\ limit.id = r.id THEN r ELSE limit

\* remove(): the row with the id of r is marked deleted.
Without(r) == IF limit # NoLimit /\ limit.id = r.id THEN NoLimit ELSE limit

\* The row r counted from the reading s in window w.
Rebased(r, s, w, stopped) ==
  [id |-> r.id, ask |-> r.ask, base |-> s.rx, start |-> w, stopped |-> stopped,
   blind |-> ~s.readable, origin |-> s.origin]

(***************************************************************************)
(* Sweep and check.                                                        *)
(***************************************************************************)
\* The ticker starts a sweep of the sweeper, a change one of its handler.
Load(a) ==
  /\ job[a].at = IF a = Sweeper THEN "idle" ELSE "load"
  /\ job' = [job EXCEPT ![a] = IF limit = NoLimit THEN Idle
              ELSE At("check", NoAsk, limit, FALSE, window, Unread)]
  /\ UNCHANGED <<limit, subjectVars, counterVars, window, byPanel, lost,
                 requests, switches, faults>>

\* A counter below its baseline counts as nothing used.
Used(r, s) == IF s.rx > r.base THEN s.rx - r.base ELSE 0
\* Enforcement, only on a counter that was read and a subject that ran.
MustStop(r, s) ==
  /\ Used(r, s) >= r.ask.bytes /\ r.ask.enforce
  /\ ~r.stopped /\ s.readable /\ s.enabled
\* Where check() goes once the window is the current one.
Decided(j, r) ==
  IF MustStop(r, j.seen) THEN At("stop", NoAsk, r, j.outdated, 0, Unread) ELSE Idle

\* Mutant: the window of a limit that stopped its subject does not roll over.
CheckSkipsStopped(a) ==
  /\ job[a].at = "check" /\ alive
  /\ LET r == job[a].read
         ended == r.ask.windowed /\ r.start < job[a].now /\ ~r.stopped
         j == At("roll", NoAsk, r, job[a].outdated, job[a].now, Reading)
     IN job' = [job EXCEPT ![a] = IF ended THEN j ELSE Decided(j, r)]
  /\ UNCHANGED <<limit, subjectVars, counterVars, window, byPanel, lost,
                 requests, switches, faults>>

Check(a) ==
  /\ job[a].at = "check" /\ alive
  /\ LET r == job[a].read
         ended == r.ask.windowed /\ r.start < job[a].now
         place == IF ended /\ r.stopped THEN "start" ELSE "roll"
         j == At(place, NoAsk, r, job[a].outdated, job[a].now, Reading)
     IN job' = [job EXCEPT ![a] = IF ended THEN j ELSE Decided(j, r)]
  /\ UNCHANGED <<limit, subjectVars, counterVars, window, byPanel, lost,
                 requests, switches, faults>>

\* A call of the tunnel or rule service.  It fails when the subject is gone.
CallOutcomes == IF alive THEN Outcomes ELSE {FALSE}

\* start(): the subject runs again.  The goroutine goes on with good or with bad.
StartCall(a, good, bad) ==
  \E ok \in CallOutcomes :
    /\ enabled' = (enabled \/ ok) /\ byPanel' = (byPanel /\ ~ok)
    /\ job' = [job EXCEPT ![a] = IF ok THEN good ELSE bad]
    /\ lost' = (lost \/ (~ok /\ bad.at = "remove"))
    /\ Count(ok \/ ~alive)
    /\ UNCHANGED <<limit, alive, counterVars, window, requests, switches>>

\* The row changes to r, unless the write fails; the goroutine goes on with good or
\* with bad.  A stop may be lost by a write that leaves no stopped row, made by a goroutine
\* whose row was outdated, and by a stamp that fails.
Write(a, r, good, bad) ==
  \E ok \in Outcomes :
    /\ limit' = IF ok THEN r ELSE limit
    /\ IF ok THEN Wrote(a, good) ELSE job' = [job EXCEPT ![a] = bad]
    /\ lost' = (lost \/ (job[a].outdated /\ ~Stopped(limit'))
                     \/ (job[a].at = "stamp" /\ ~ok))
    /\ Count(ok)
    /\ UNCHANGED <<subjectVars, counterVars, window, byPanel, requests, switches>>

\* A limit whose subject is gone is removed; a failure is logged.
CheckOrphan(a) ==
  /\ job[a].at = "check" /\ ~alive
  /\ Write(a, Without(job[a].read), Idle, Idle)

StartCheck(a) ==
  /\ job[a].at = "start"
  /\ StartCall(a, Moved(job[a], "roll"), Idle)

\* Mutant: the new window counts from the old baseline.
RollKeepsBase(a) ==
  /\ job[a].at = "roll"
  /\ LET j == job[a]
         r == [Rebased(j.read, j.seen, j.now, FALSE) EXCEPT !.base = j.read.base]
     IN Write(a, Updated(r), Decided(j, r), Decided(j, r))

\* Rolling over rebases the baseline.  A failed write is logged and forgotten.
Roll(a) ==
  /\ job[a].at = "roll"
  /\ LET j == job[a]
         r == Rebased(j.read, j.seen, j.now, FALSE)
     IN Write(a, Updated(r), Decided(j, r), Decided(j, r))

\* Mutant: the stop is not recorded.
StopUnrecorded(a) ==
  /\ job[a].at = "stop"
  /\ \E ok \in CallOutcomes :
       /\ enabled' = (enabled /\ ~ok) /\ byPanel' = (byPanel \/ ok)
       /\ job' = [job EXCEPT ![a] = Idle]
       /\ Count(ok \/ ~alive)
  /\ UNCHANGED <<limit, alive, counterVars, window, lost, requests, switches>>

Stop(a) ==
  /\ job[a].at = "stop"
  /\ \E ok \in CallOutcomes :
       /\ enabled' = (enabled /\ ~ok) /\ byPanel' = (byPanel \/ ok)
       /\ job' = [job EXCEPT ![a] = IF ok THEN Moved(@, "stamp") ELSE Idle]
       /\ Count(ok \/ ~alive)
  /\ UNCHANGED <<limit, alive, counterVars, window, lost, requests, switches>>

\* The row r with another limit and another mark.
Marked(r, ask, stopped) ==
  [id |-> r.id, ask |-> ask, base |-> r.base, start |-> r.start, stopped |-> stopped,
   blind |-> r.blind, origin |-> r.origin]

Stamp(a) ==
  /\ job[a].at = "stamp"
  /\ Write(a, Updated(Marked(job[a].read, job[a].read.ask, TRUE)), Idle, Idle)

(***************************************************************************)
(* Set and Reset.                                                          *)
(***************************************************************************)
\* A request arrives and reads the row.
Submit(a, place, ask) ==
  /\ job[a].at = "idle" /\ requests < MaxRequests
  /\ requests' = requests + 1
  /\ job' = [job EXCEPT ![a] = At(place, ask, limit, FALSE, 0, Unread)]
  /\ UNCHANGED <<limit, subjectVars, counterVars, window, byPanel, lost, switches, faults>>

SubmitSet(a, l) == Submit(a, "setWrite", l)
\* Removing a limit that is not there changes nothing, and sweeps.
SubmitRemove(a) ==
  Submit(a, CASE limit = NoLimit -> "load"
              [] Stopped(limit) -> "removeStart"
              [] OTHER -> "remove", NoAsk)
\* Resetting one that is not there is an error.
SubmitReset(a) ==
  limit # NoLimit /\ Submit(a, IF limit.stopped THEN "resetStart" ELSE "resetWrite", NoAsk)

\* The handler sweeps after the change.
Sweeping == At("load", NoAsk, NoLimit, FALSE, 0, Unread)

\* A failure is logged, and the limit removed all the same.
StartRemoved(a) ==
  /\ job[a].at = "removeStart"
  /\ StartCall(a, Moved(job[a], "remove"), Moved(job[a], "remove"))

Remove(a) ==
  /\ job[a].at = "remove"
  /\ Write(a, Without(job[a].read), Sweeping, Idle)

\* A new limit starts counting now.  The unique index refuses a second row.
Insert(a) ==
  /\ job[a].at = "setWrite" /\ job[a].read = NoLimit
  /\ IF limit # NoLimit
     THEN /\ Return(a)
          /\ UNCHANGED <<limit, subjectVars, counterVars, window, byPanel, lost,
                         requests, switches, faults>>
     ELSE Write(a, [id |-> requests, ask |-> job[a].ask, base |-> Volume, start |-> window,
                    stopped |-> FALSE, blind |-> ~readable, origin |-> carried],
                Sweeping, Idle)

\* Only a changed window restarts the count.
Replace(a) ==
  /\ job[a].at = "setWrite" /\ job[a].read # NoLimit
  /\ LET r == Marked(job[a].read, job[a].ask, job[a].read.stopped)
     IN Write(a, Updated(IF r.ask.windowed = job[a].read.ask.windowed THEN r
                         ELSE Rebased(r, Reading, window, r.stopped)),
              Sweeping, Idle)

StartReset(a) ==
  /\ job[a].at = "resetStart"
  /\ StartCall(a, Moved(job[a], "resetWrite"), Idle)

ResetWrite(a) ==
  /\ job[a].at = "resetWrite"
  /\ Write(a, Updated(Rebased(job[a].read, Reading, window, FALSE)), Sweeping, Idle)

(***************************************************************************)
(* The environment: traffic, counters, the clock, the operator, crashes.   *)
(***************************************************************************)
Carry ==
  /\ alive /\ enabled /\ carried < MaxBytes
  /\ carried' = carried + 1 /\ counter' = counter + 1
  /\ UNCHANGED <<limit, subjectVars, readable, window, job, byPanel, lost,
                 requests, switches, faults>>

\* The counter cannot be read for a while, or its file is lost.
Unreadable ==
  /\ readable /\ faults < MaxFaults
  /\ readable' = FALSE /\ faults' = faults + 1
  /\ UNCHANGED <<limit, subjectVars, counter, carried, window, job, byPanel, lost,
                 requests, switches>>
ReadableAgain ==
  /\ ~readable /\ readable' = TRUE
  /\ \E n \in {0, counter} : counter' = n
  /\ UNCHANGED <<limit, subjectVars, carried, window, job, byPanel, lost,
                 requests, switches, faults>>

WindowEnds ==
  /\ window < MaxWindow /\ window' = window + 1
  /\ UNCHANGED <<limit, subjectVars, counterVars, job, byPanel, lost,
                 requests, switches, faults>>

Switch ==
  /\ alive /\ switches < MaxSwitches
  /\ enabled' = ~enabled /\ byPanel' = FALSE /\ switches' = switches + 1
  /\ UNCHANGED <<limit, alive, counterVars, window, job, lost, requests, faults>>
Delete ==
  /\ alive /\ switches < MaxSwitches
  /\ alive' = FALSE /\ enabled' = FALSE /\ byPanel' = FALSE /\ switches' = switches + 1
  /\ UNCHANGED <<limit, counterVars, window, job, lost, requests, faults>>

Crash ==
  /\ faults < MaxFaults /\ faults' = faults + 1
  /\ job' = [a \in Actors |-> Idle]
  /\ lost' = (lost \/ \E a \in Actors : job[a].at = "stamp")
  /\ UNCHANGED <<limit, subjectVars, counterVars, window, byPanel, requests, switches>>

Sweeps(a) == Load(a) \/ Check(a) \/ CheckOrphan(a) \/ StartCheck(a) \/ Roll(a)
             \/ Stop(a) \/ Stamp(a)
Serves(a) == StartRemoved(a) \/ Remove(a) \/ Insert(a) \/ Replace(a) \/ StartReset(a)
             \/ ResetWrite(a)
Next ==
  \/ \E a \in Actors : Sweeps(a) \/ Serves(a)
  \/ \E a \in Handlers : \/ \E l \in Limits : SubmitSet(a, l)
                          \/ SubmitRemove(a) \/ SubmitReset(a)
  \/ Carry \/ Unreadable \/ ReadableAgain \/ WindowEnds \/ Switch \/ Delete \/ Crash

Spec == Init /\ [][Next]_vars

\* The ticker starts sweeps for ever and a sweep that runs goes on; nothing is
\* asked of the handlers.
FairSpec == Spec /\ WF_vars(Sweeps(Sweeper))

(***************************************************************************)
(* Properties.                                                             *)
(***************************************************************************)
TypeOK ==
  /\ limit \in Rows \cup {NoLimit}
  /\ alive \in BOOLEAN /\ enabled \in BOOLEAN /\ readable \in BOOLEAN
  /\ counter \in 0..MaxBytes /\ carried \in 0..MaxBytes /\ window \in 0..MaxWindow
  /\ job \in [Actors -> Jobs]
  /\ byPanel \in BOOLEAN /\ lost \in BOOLEAN
  /\ requests \in 0..MaxRequests /\ switches \in 0..MaxSwitches /\ faults \in 0..MaxFaults

\* The panel can know that it stopped the subject: the row says so, or the
\* goroutine that stopped it is about to write it.
Remembered == Stopped(limit) \/ \E a \in Actors : job[a].at = "stamp"

\* quota.go:9 "What was stopped by the panel is started again by the panel": a
\* subject that only the panel switched off is one the panel remembers it stopped,
\* unless a fault, a crash or the write of an outdated row lost that.
StopsAreRemembered == byPanel /\ ~lost => Remembered

\* No subject is stopped that has carried less, since its limit began to count,
\* than the limit allows - whatever happened to its counter, as long as the
\* baseline itself was read (check, status, Set).
StopsOnlyTheSpent ==
  \A a \in Actors : job[a].at = "stop" /\ ~job[a].read.blind =>
    carried - job[a].read.origin >= job[a].read.ask.bytes

\* quota.go:10 "... when the window rolls over": a stop does not outlive its window.
StopsEndWithTheWindow ==
  (Stopped(limit) /\ limit.ask.windowed /\ limit.start < window) ~>
  (~Stopped(limit) \/ limit.start = window \/ ~limit.ask.windowed)
=============================================================================

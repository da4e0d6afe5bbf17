---------------------------- MODULE Quota_proofs ----------------------------
(***************************************************************************)
(* Theorems about traffic limits, for any number of handlers and any       *)
(* bounds.  That the panel remembers what it stopped rests on what each    *)
(* goroutine knows: while its row is not outdated it is the stored row,    *)
(* and one that is about to write a row that is not stopped has started    *)
(* the subject, or found it running.                                       *)
(***************************************************************************)
EXTENDS Quota, TLAPS

(***************************************************************************)
(* Types.  A counter never shows more than was carried, and a row is only  *)
(* written for a request that was counted.                                 *)
(***************************************************************************)
Typed ==
  /\ TypeOK
  /\ counter <= carried
  /\ \A a \in Actors :
       job[a].at = "setWrite" => requests \in 1..MaxRequests /\ job[a].ask \in Limits

LEMMA RebasedIsRow ==
  ASSUME NEW r \in Rows, NEW s \in Readings, NEW w \in 0..MaxWindow, NEW b \in BOOLEAN
  PROVE  Rebased(r, s, w, b) \in Rows
  BY DEF Rebased, Rows, Readings

LEMMA MarkedIsRow ==
  ASSUME NEW r \in Rows, NEW l \in Limits, NEW b \in BOOLEAN
  PROVE  Marked(r, l, b) \in Rows
  BY DEF Marked, Rows

LEMMA AtIsJob ==
  ASSUME NEW p \in Places, NEW l \in Limits \cup {NoAsk}, NEW r \in Rows \cup {NoLimit},
         NEW o \in BOOLEAN, NEW w \in 0..MaxWindow, NEW s \in Readings
  PROVE  At(p, l, r, o, w, s) \in Jobs /\ At(p, l, r, o, w, s).at = p
  BY DEF At, Jobs

LEMMA IdleIsJob ==
  /\ Unread \in Readings
  /\ Idle \in Jobs /\ Idle.at = "idle"
  /\ Sweeping \in Jobs /\ Sweeping.at = "load"
<1>1. Unread \in Readings
  BY QuotaBoundsAssumption DEF Unread, Readings
<1>2. /\ 0 \in 0..MaxWindow /\ FALSE \in BOOLEAN /\ "idle" \in Places /\ "load" \in Places
      /\ NoAsk \in Limits \cup {NoAsk} /\ NoLimit \in Rows \cup {NoLimit}
  BY QuotaBoundsAssumption DEF Places
<1>3. Idle \in Jobs /\ Idle.at = "idle"
  BY <1>1, <1>2 DEF Idle, At, Jobs
<1>4. Sweeping \in Jobs /\ Sweeping.at = "load"
  BY <1>1, <1>2 DEF Sweeping, At, Jobs
<1> QED
  BY <1>1, <1>3, <1>4

LEMMA JobFields ==
  ASSUME NEW j \in Jobs
  PROVE  /\ j.at \in Places /\ j.ask \in Limits \cup {NoAsk} /\ j.read \in Rows \cup {NoLimit}
         /\ j.outdated \in BOOLEAN /\ j.now \in 0..MaxWindow /\ j.seen \in Readings
  BY DEF Jobs

LEMMA MovedIsJob ==
  ASSUME NEW j \in Jobs, NEW p \in Places
  PROVE  Moved(j, p) \in Jobs /\ Moved(j, p).at = p
  BY JobFields, AtIsJob DEF Moved

LEMMA DecidedIsJob ==
  ASSUME NEW j \in Jobs, NEW r \in Rows
  PROVE  Decided(j, r) \in Jobs /\ Decided(j, r).at \in {"idle", "stop"}
<1>1. /\ 0 \in 0..MaxWindow /\ "stop" \in Places /\ j.outdated \in BOOLEAN
      /\ NoAsk \in Limits \cup {NoAsk} /\ r \in Rows \cup {NoLimit}
  BY QuotaBoundsAssumption, JobFields DEF Places
<1>2. /\ At("stop", NoAsk, r, j.outdated, 0, Unread) \in Jobs
      /\ At("stop", NoAsk, r, j.outdated, 0, Unread).at = "stop"
  BY <1>1, IdleIsJob DEF At, Jobs
<1> QED
  BY <1>2, IdleIsJob DEF Decided

LEMMA ReadingIsReading == Typed => Reading \in Readings
  BY QuotaBoundsAssumption DEF Typed, TypeOK, Reading, Readings, Volume

LEMMA CountTyped ==
  ASSUME Typed, NEW ok \in Outcomes, Count(ok)
  PROVE  ok \in BOOLEAN /\ faults' \in 0..MaxFaults
<1>1. ok \in BOOLEAN
  BY Zenon DEF Outcomes
<1>2. ~ok => faults < MaxFaults
  BY Zenon DEF Outcomes
<1>3. CASE ok
  BY <1>1, <1>3 DEF Count, Typed, TypeOK
<1>4. CASE ~ok
  BY <1>1, <1>2, <1>4, QuotaBoundsAssumption DEF Count, Typed, TypeOK
<1> QED
  BY <1>1, <1>3, <1>4

LEMMA CallTyped ==
  ASSUME Typed, NEW ok \in CallOutcomes, Count(ok \/ ~alive)
  PROVE  ok \in BOOLEAN /\ faults' \in 0..MaxFaults
<1>1. CASE alive
  <2>1. ok \in Outcomes /\ Count(ok)
    BY <1>1, Zenon DEF CallOutcomes, Count
  <2> QED
    BY <2>1, CountTyped
<1>2. CASE ~alive
  <2>1. ok = FALSE /\ faults' = faults
    BY <1>2, Zenon DEF CallOutcomes, Count
  <2> QED
    BY <2>1 DEF Typed, TypeOK
<1> QED
  BY <1>1, <1>2

\* The job of another goroutine after a write.
Outdate(j) == At(j.at, j.ask, j.read, j.read # NoLimit, j.now, j.seen)

LEMMA OutdateIsJob ==
  ASSUME NEW j \in Jobs
  PROVE  Outdate(j) \in Jobs /\ Outdate(j).at = j.at /\ Outdate(j).read = j.read
         /\ Outdate(j).ask = j.ask
         /\ (Outdate(j).outdated = (j.read # NoLimit))
<1>1. /\ j.at \in Places /\ j.ask \in Limits \cup {NoAsk} /\ j.read \in Rows \cup {NoLimit}
      /\ j.now \in 0..MaxWindow /\ j.seen \in Readings
  BY JobFields
<1>2. (j.read # NoLimit) \in BOOLEAN
  OBVIOUS
<1> QED
  BY <1>1, <1>2 DEF At, Jobs, Outdate

LEMMA WroteTyped ==
  ASSUME Typed, NEW a \in Actors, NEW good \in Jobs, Wrote(a, good)
  PROVE  /\ job' = [b \in Actors |-> IF b = a THEN good ELSE Outdate(job[b])]
         /\ job' \in [Actors -> Jobs]
         /\ good.at # "setWrite" =>
              \A b \in Actors : job'[b].at = "setWrite" =>
                                        job[b].at = "setWrite" /\ job'[b].ask = job[b].ask
<1>1. job' = [b \in Actors |-> IF b = a THEN good ELSE Outdate(job[b])]
  BY DEF Wrote, Outdate
<1> QED
  BY <1>1, OutdateIsJob DEF Typed, TypeOK

\* What a write does to the types: the row and the places it goes on with are sound.
LEMMA WriteTyped ==
  ASSUME Typed, NEW a \in Actors, NEW r \in Rows \cup {NoLimit},
         NEW good \in Jobs, NEW bad \in Jobs, good.at # "setWrite", bad.at # "setWrite",
         Write(a, r, good, bad)
  PROVE  Typed'
<1>1. PICK ok \in Outcomes :
        /\ limit' = IF ok THEN r ELSE limit
        /\ IF ok THEN Wrote(a, good) ELSE job' = [job EXCEPT ![a] = bad]
        /\ lost' = (lost \/ (job[a].outdated /\ ~Stopped(limit'))
                         \/ (job[a].at = "stamp" /\ ~ok))
        /\ Count(ok)
        /\ UNCHANGED <<subjectVars, counterVars, window, byPanel, requests, switches>>
  BY DEF Write
<1>2. job' \in [Actors -> Jobs] /\ \A b \in Actors : job'[b].at = "setWrite" =>
                                        job[b].at = "setWrite" /\ job'[b].ask = job[b].ask
  <2>1. CASE ok
    BY <1>1, <2>1, WroteTyped
  <2>2. CASE ~ok
    BY <1>1, <2>2 DEF Typed, TypeOK
  <2> QED
    BY <2>1, <2>2
<1>3. faults' \in 0..MaxFaults
  BY <1>1, CountTyped
<1>4. lost' \in BOOLEAN
  BY <1>1 DEF Typed, TypeOK
<1>5. limit' \in Rows \cup {NoLimit}
  BY <1>1 DEF Typed, TypeOK
<1> QED
  BY <1>1, <1>2, <1>3, <1>4, <1>5 DEF Typed, TypeOK, subjectVars, counterVars

\* The same for a call that starts the subject.
LEMMA StartTyped ==
  ASSUME Typed, NEW a \in Actors, NEW good \in Jobs, NEW bad \in Jobs,
         good.at # "setWrite", bad.at # "setWrite", StartCall(a, good, bad)
  PROVE  Typed'
<1>1. PICK ok \in CallOutcomes :
        /\ enabled' = (enabled \/ ok) /\ byPanel' = (byPanel /\ ~ok)
        /\ job' = [job EXCEPT ![a] = IF ok THEN good ELSE bad]
        /\ lost' = (lost \/ (~ok /\ bad.at = "remove"))
        /\ Count(ok \/ ~alive)
        /\ UNCHANGED <<limit, alive, counterVars, window, requests, switches>>
  BY DEF StartCall
<1>2. ok \in BOOLEAN /\ faults' \in 0..MaxFaults
  BY <1>1, CallTyped
<1>3. enabled' \in BOOLEAN /\ byPanel' \in BOOLEAN /\ lost' \in BOOLEAN
  BY <1>1 DEF Typed, TypeOK
<1>4. job' \in [Actors -> Jobs] /\ \A b \in Actors : job'[b].at = "setWrite" =>
                                        job[b].at = "setWrite" /\ job'[b].ask = job[b].ask
  BY <1>1 DEF Typed, TypeOK
<1> QED
  BY <1>1, <1>2, <1>3, <1>4 DEF Typed, TypeOK, subjectVars, counterVars

\* A step that only moves goroutine a.
LEMMA MoveTyped ==
  ASSUME Typed, NEW a \in Actors, NEW j \in Jobs, j.at # "setWrite",
         job' = [job EXCEPT ![a] = j],
         UNCHANGED <<limit, subjectVars, counterVars, window, byPanel, lost,
                     requests, switches, faults>>
  PROVE  Typed'
<1>1. job' \in [Actors -> Jobs] /\ \A b \in Actors : job'[b].at = "setWrite" =>
                                        job[b].at = "setWrite" /\ job'[b].ask = job[b].ask
  BY DEF Typed, TypeOK
<1> QED
  BY <1>1 DEF Typed, TypeOK, subjectVars, counterVars

LEMMA UpdatedIsRow ==
  ASSUME Typed, NEW r \in Rows
  PROVE  Updated(r) \in Rows \cup {NoLimit} /\ Without(r) \in Rows \cup {NoLimit}
  BY DEF Typed, TypeOK, Updated, Without

\* A goroutine that stands where a row was read has one.
HasRow(j) ==
  j.at \in {"check", "start", "roll", "stop", "stamp", "removeStart", "remove",
            "resetStart", "resetWrite"} => j.read # NoLimit
RowsKnown == \A a \in Actors : HasRow(job[a])

LEMMA TypedInit == Init => Typed /\ RowsKnown
<1> SUFFICES ASSUME Init PROVE Typed /\ RowsKnown
  OBVIOUS
<1>1. job \in [Actors -> Jobs] /\ \A a \in Actors : job[a].at = "idle"
  BY IdleIsJob DEF Init
<1>2. TypeOK
  <2>1. /\ alive \in BOOLEAN /\ enabled \in BOOLEAN /\ readable \in BOOLEAN
        /\ byPanel \in BOOLEAN /\ lost \in BOOLEAN /\ limit \in Rows \cup {NoLimit}
    BY Zenon DEF Init
  <2>2. /\ counter \in 0..MaxBytes /\ carried \in 0..MaxBytes /\ window \in 0..MaxWindow
        /\ requests \in 0..MaxRequests /\ switches \in 0..MaxSwitches /\ faults \in 0..MaxFaults
    BY QuotaBoundsAssumption DEF Init
  <2> QED
    BY <1>1, <2>1, <2>2 DEF TypeOK
<1>3. counter <= carried /\ \A a \in Actors : job[a].at # "setWrite"
  BY <1>1 DEF Init
<1>4. RowsKnown
  BY <1>1 DEF RowsKnown, HasRow
<1> QED
  BY <1>2, <1>3, <1>4 DEF Typed

LEMMA TypedSweeps ==
  ASSUME Typed, RowsKnown, NEW a \in Actors, Sweeps(a)
  PROVE  Typed'
<1> DEFINE j == job[a]
<1>0. /\ j \in Jobs /\ j.read \in Rows \cup {NoLimit} /\ j.ask \in Limits \cup {NoAsk}
      /\ j.outdated \in BOOLEAN /\ j.now \in 0..MaxWindow /\ j.seen \in Readings
  BY JobFields DEF Typed, TypeOK
<1>1. CASE Load(a)
  <2>1. CASE limit = NoLimit
    BY <1>1, <2>1, IdleIsJob, MoveTyped DEF Load
  <2>2. CASE limit # NoLimit
    <3>1. At("check", NoAsk, limit, FALSE, window, Unread) \in Jobs
      BY IdleIsJob DEF At, Jobs, Typed, TypeOK, Places
    <3>2. At("check", NoAsk, limit, FALSE, window, Unread).at # "setWrite"
      BY DEF At
    <3> QED
      BY <1>1, <2>2, <3>1, <3>2, MoveTyped DEF Load
  <2> QED
    BY <2>1, <2>2
<1>2. CASE Check(a)
  <2>1. j.read \in Rows
    BY <1>0, <1>2 DEF Check, RowsKnown, HasRow
  <2>2. ASSUME NEW p \in {"start", "roll"}
        PROVE  /\ At(p, NoAsk, j.read, j.outdated, j.now, Reading) \in Jobs
               /\ At(p, NoAsk, j.read, j.outdated, j.now, Reading).at = p
    BY <1>0, ReadingIsReading DEF At, Jobs, Places
  <2>3. PICK p \in {"start", "roll"} :
          LET k == At(p, NoAsk, j.read, j.outdated, j.now, Reading)
          IN job' = [job EXCEPT ![a] = k] \/ job' = [job EXCEPT ![a] = Decided(k, j.read)]
    <3> DEFINE ended == j.read.ask.windowed /\ j.read.start < j.now
               p == IF ended /\ j.read.stopped THEN "start" ELSE "roll"
               k == At(p, NoAsk, j.read, j.outdated, j.now, Reading)
    <3>1. p \in {"start", "roll"}
      OBVIOUS
    <3>2. job' = [job EXCEPT ![a] = IF ended THEN k ELSE Decided(k, j.read)]
      BY <1>2, Zenon DEF Check
    <3> HIDE DEF ended, p, k
    <3>3. job' = [job EXCEPT ![a] = k] \/ job' = [job EXCEPT ![a] = Decided(k, j.read)]
      BY <3>2, Zenon
    <3> QED
      BY <3>1, <3>3, Zenon DEF k
  <2> DEFINE k == At(p, NoAsk, j.read, j.outdated, j.now, Reading)
  <2>4. k \in Jobs /\ k.at = p
    BY <2>2
  <2>5. Decided(k, j.read) \in Jobs /\ Decided(k, j.read).at # "setWrite"
    BY <2>1, <2>4, DecidedIsJob
  <2>6. UNCHANGED <<limit, subjectVars, counterVars, window, byPanel, lost,
                     requests, switches, faults>>
    BY <1>2 DEF Check
  <2> HIDE DEF k
  <2>7. CASE job' = [job EXCEPT ![a] = k]
    BY <2>4, <2>6, <2>7, MoveTyped
  <2>8. CASE job' = [job EXCEPT ![a] = Decided(k, j.read)]
    BY <2>5, <2>6, <2>8, MoveTyped
  <2> QED
    BY <2>3, <2>7, <2>8 DEF k
<1>3. CASE CheckOrphan(a)
  <2>1. j.read \in Rows
    BY <1>0, <1>3 DEF CheckOrphan, RowsKnown, HasRow
  <2>2. Without(j.read) \in Rows \cup {NoLimit} /\ Write(a, Without(j.read), Idle, Idle)
    BY <1>3, <2>1, UpdatedIsRow DEF CheckOrphan
  <2> HIDE DEF j
  <2> QED
    BY <2>2, IdleIsJob, WriteTyped
<1>4. CASE StartCheck(a)
  <2>1. Moved(j, "roll") \in Jobs /\ Moved(j, "roll").at = "roll"
    BY <1>0, MovedIsJob DEF Places
  <2> QED
    BY <1>4, <2>1, IdleIsJob, StartTyped DEF StartCheck
<1>5. CASE Roll(a)
  <2> DEFINE r == Rebased(j.read, j.seen, j.now, FALSE)
  <2>1. r \in Rows
    BY <1>0, <1>5, RebasedIsRow DEF Roll, RowsKnown, HasRow
  <2>2. Decided(j, r) \in Jobs /\ Decided(j, r).at # "setWrite"
    BY <1>0, <2>1, DecidedIsJob
  <2>3. Updated(r) \in Rows \cup {NoLimit}
    BY <2>1, UpdatedIsRow
  <2>4. Write(a, Updated(r), Decided(j, r), Decided(j, r))
    BY <1>5 DEF Roll
  <2> HIDE DEF r, j
  <2> QED
    BY <2>2, <2>3, <2>4, WriteTyped
<1>6. CASE Stop(a)
  <2>1. PICK ok \in CallOutcomes :
          /\ enabled' = (enabled /\ ~ok) /\ byPanel' = (byPanel \/ ok)
          /\ job' = [job EXCEPT ![a] = IF ok THEN Moved(j, "stamp") ELSE Idle]
          /\ Count(ok \/ ~alive)
    BY <1>6 DEF Stop
  <2>2. ok \in BOOLEAN /\ faults' \in 0..MaxFaults
    BY <2>1, CallTyped
  <2>3. Moved(j, "stamp") \in Jobs /\ Moved(j, "stamp").at = "stamp"
    BY <1>0, MovedIsJob DEF Places
  <2>4. job' \in [Actors -> Jobs] /\ \A b \in Actors : job'[b].at = "setWrite" =>
                                        job[b].at = "setWrite" /\ job'[b].ask = job[b].ask
    BY <2>1, <2>3, IdleIsJob DEF Typed, TypeOK
  <2>5. enabled' \in BOOLEAN /\ byPanel' \in BOOLEAN
    BY <2>1, <2>2 DEF Typed, TypeOK
  <2> QED
    BY <1>6, <2>2, <2>4, <2>5 DEF Stop, Typed, TypeOK, counterVars
<1>7. CASE Stamp(a)
  <2> DEFINE r == Marked(j.read, j.read.ask, TRUE)
  <2>1. r \in Rows
    <3>1. j.read \in Rows
      BY <1>0, <1>7 DEF Stamp, RowsKnown, HasRow
    <3>2. j.read.ask \in Limits
      BY <3>1 DEF Rows
    <3> QED
      BY <3>1, <3>2, MarkedIsRow
  <2>2. Updated(r) \in Rows \cup {NoLimit} /\ Write(a, Updated(r), Idle, Idle)
    BY <1>7, <2>1, UpdatedIsRow DEF Stamp
  <2> HIDE DEF r, j
  <2> QED
    BY <2>2, IdleIsJob, WriteTyped
<1> QED
  BY <1>1, <1>2, <1>3, <1>4, <1>5, <1>6, <1>7 DEF Sweeps

LEMMA TypedServes ==
  ASSUME Typed, RowsKnown, NEW a \in Actors, Serves(a)
  PROVE  Typed'
<1> DEFINE j == job[a]
<1>0. /\ j \in Jobs /\ j.read \in Rows \cup {NoLimit} /\ j.ask \in Limits \cup {NoAsk}
      /\ Sweeping \in Jobs /\ Sweeping.at = "load" /\ Idle \in Jobs /\ Idle.at = "idle"
  BY JobFields, IdleIsJob DEF Typed, TypeOK
<1>1. CASE StartRemoved(a)
  <2>1. Moved(j, "remove") \in Jobs /\ Moved(j, "remove").at = "remove"
    BY <1>0, MovedIsJob DEF Places
  <2> QED
    BY <1>1, <2>1, StartTyped DEF StartRemoved
<1>2. CASE Remove(a)
  <2>1. Without(j.read) \in Rows \cup {NoLimit}
    BY <1>0, <1>2, UpdatedIsRow DEF Remove, RowsKnown, HasRow
  <2> QED
    BY <1>0, <1>2, <2>1, WriteTyped DEF Remove
<1>3. CASE Insert(a)
  <2> DEFINE r == [id |-> requests, ask |-> j.ask, base |-> Volume, start |-> window,
                   stopped |-> FALSE, blind |-> ~readable, origin |-> carried]
  <2>1. CASE limit # NoLimit
    BY <1>0, <1>3, <2>1, MoveTyped DEF Insert, Return
  <2>2. CASE limit = NoLimit
    <3>1. j.ask \in Limits
      BY <1>0, <1>3, Zenon DEF Insert, Typed
    <3>2. Volume \in 0..MaxBytes
      BY QuotaBoundsAssumption DEF Volume, Typed, TypeOK
    <3>3. r \in Rows
      BY <1>3, <3>1, <3>2 DEF Insert, Rows, Typed, TypeOK
    <3>4. Write(a, r, Sweeping, Idle)
      BY <1>3, <2>2 DEF Insert
    <3> HIDE DEF r, j
    <3> QED
      BY <1>0, <3>3, <3>4, WriteTyped
  <2> QED
    BY <2>1, <2>2
<1>4. CASE Replace(a)
  <2> DEFINE r == Marked(j.read, j.ask, j.read.stopped)
  <2>1. j.ask \in Limits /\ j.read \in Rows
    BY <1>0, <1>4, Zenon DEF Replace, Typed
  <2>2. r \in Rows /\ r.stopped \in BOOLEAN
    BY <2>1, MarkedIsRow DEF Rows
  <2>3. Rebased(r, Reading, window, r.stopped) \in Rows
    BY <2>2, ReadingIsReading, RebasedIsRow DEF Typed, TypeOK
  <2> DEFINE w == Updated(IF r.ask.windowed = j.read.ask.windowed THEN r
                          ELSE Rebased(r, Reading, window, r.stopped))
  <2>4. w \in Rows \cup {NoLimit}
    BY <2>2, <2>3, UpdatedIsRow
  <2>5. Write(a, w, Sweeping, Idle)
    BY <1>4 DEF Replace
  <2> HIDE DEF w, r, j
  <2> QED
    BY <1>0, <2>4, <2>5, WriteTyped
<1>5. CASE StartReset(a)
  <2>1. Moved(j, "resetWrite") \in Jobs /\ Moved(j, "resetWrite").at = "resetWrite"
    BY <1>0, MovedIsJob DEF Places
  <2> QED
    BY <1>0, <1>5, <2>1, StartTyped DEF StartReset
<1>6. CASE ResetWrite(a)
  <2> DEFINE r == Rebased(j.read, Reading, window, FALSE)
  <2>1. r \in Rows
    <3>1. j.read \in Rows
      BY <1>0, <1>6 DEF ResetWrite, RowsKnown, HasRow
    <3> QED
      BY <3>1, ReadingIsReading, RebasedIsRow DEF Typed, TypeOK
  <2>2. Updated(r) \in Rows \cup {NoLimit}
    BY <2>1, UpdatedIsRow
  <2>3. Write(a, Updated(r), Sweeping, Idle)
    BY <1>6 DEF ResetWrite
  <2> HIDE DEF r, j
  <2> QED
    BY <1>0, <2>2, <2>3, WriteTyped
<1> QED
  BY <1>1, <1>2, <1>3, <1>4, <1>5, <1>6 DEF Serves

LEMMA TypedSubmit ==
  ASSUME Typed, NEW a \in Handlers, NEW p \in Places, NEW l \in Limits \cup {NoAsk},
         p = "setWrite" => l \in Limits, Submit(a, p, l)
  PROVE  Typed'
<1> DEFINE k == At(p, l, limit, FALSE, 0, Unread)
<1>1. k \in Jobs /\ k.at = p /\ k.ask = l
  BY IdleIsJob, QuotaBoundsAssumption DEF At, Jobs, Typed, TypeOK
<1>2. job' = [job EXCEPT ![a] = k]
  BY DEF Submit
<1> HIDE DEF k
<1>3. job' \in [Actors -> Jobs]
  BY <1>1, <1>2 DEF Typed, TypeOK
<1>4. requests' \in 0..MaxRequests /\ requests' \in 1..MaxRequests
  BY QuotaBoundsAssumption DEF Submit, Typed, TypeOK
<1>5. \A b \in Actors : job'[b].at = "setWrite" => job'[b].ask \in Limits
  BY <1>1, <1>2 DEF Typed, TypeOK
<1> QED
  BY <1>3, <1>4, <1>5 DEF Submit, Typed, TypeOK, subjectVars, counterVars

LEMMA TypedEnvironment ==
  ASSUME Typed,
         Carry \/ Unreadable \/ ReadableAgain \/ WindowEnds \/ Switch \/ Delete \/ Crash
  PROVE  Typed'
<1>1. CASE Carry
  BY <1>1, QuotaBoundsAssumption DEF Carry, Typed, TypeOK, subjectVars
<1>2. CASE Unreadable
  <2>1. faults' \in 0..MaxFaults
    BY <1>2, QuotaBoundsAssumption DEF Unreadable, Typed, TypeOK
  <2>2. readable' \in BOOLEAN
    BY <1>2, Zenon DEF Unreadable
  <2> QED
    BY <1>2, <2>1, <2>2 DEF Unreadable, Typed, TypeOK, subjectVars
<1>3. CASE ReadableAgain
  BY <1>3, QuotaBoundsAssumption DEF ReadableAgain, Typed, TypeOK, subjectVars
<1>4. CASE WindowEnds
  BY <1>4, QuotaBoundsAssumption DEF WindowEnds, Typed, TypeOK, subjectVars, counterVars
<1>5. CASE Switch
  <2>1. switches' \in 0..MaxSwitches
    BY <1>5, QuotaBoundsAssumption DEF Switch, Typed, TypeOK
  <2>2. alive' \in BOOLEAN /\ enabled' \in BOOLEAN /\ byPanel' \in BOOLEAN
    BY <1>5, Zenon DEF Switch, Typed, TypeOK
  <2> QED
    BY <1>5, <2>1, <2>2 DEF Switch, Typed, TypeOK, counterVars
<1>6. CASE Delete
  <2>1. switches' \in 0..MaxSwitches
    BY <1>6, QuotaBoundsAssumption DEF Delete, Typed, TypeOK
  <2>2. alive' \in BOOLEAN /\ enabled' \in BOOLEAN /\ byPanel' \in BOOLEAN
    BY <1>6, Zenon DEF Delete, Typed, TypeOK
  <2> QED
    BY <1>6, <2>1, <2>2 DEF Delete, Typed, TypeOK, counterVars
<1>7. CASE Crash
  <2>1. job' \in [Actors -> Jobs] /\ \A b \in Actors : job'[b].at = "idle"
    BY <1>7, IdleIsJob DEF Crash
  <2>2. lost' \in BOOLEAN
    BY <1>7 DEF Crash, Typed, TypeOK
  <2> QED
    BY <1>7, <2>1, <2>2, QuotaBoundsAssumption DEF Crash, Typed, TypeOK, subjectVars, counterVars
<1> QED
  BY <1>1, <1>2, <1>3, <1>4, <1>5, <1>6, <1>7

(***************************************************************************)
(* What a goroutine knows of the row it read.                              *)
(***************************************************************************)
Stamping == \E a \in Actors : job[a].at = "stamp"

\* Only the stored row can tell that the panel stopped the subject.
Exposed == byPanel /\ ~lost /\ ~Stamping

\* A row that is not outdated is the stored one; from a roll whose write failed on,
\* only its id is.
RowCurrent(j, row) ==
  j.read # NoLimit /\ ~j.outdated =>
    IF j.at \in {"stop", "stamp"} THEN row # NoLimit /\ row.id = j.read.id
    ELSE row = j.read

\* What the job j knows, beside the stored row: it clears no mark that is needed.
Knows(j, row, exposed) ==
  /\ HasRow(j)
  /\ RowCurrent(j, row)
  /\ j.at \in {"roll", "remove", "resetWrite"} /\ ~j.outdated => ~exposed

Remembers ==
  /\ Exposed => Stopped(limit)
  /\ byPanel => alive
  /\ \A a \in Actors : Knows(job[a], limit, Exposed)

LEMMA RemembersImplies == Remembers => StopsAreRemembered /\ RowsKnown
  BY DEF Remembers, Exposed, Stamping, StopsAreRemembered, Remembered, RowsKnown, Knows

\* A goroutine without a row has nothing to know.
LEMMA IdleKnows ==
  ASSUME NEW row, NEW e
  PROVE  /\ Knows(Idle, row, e) /\ Knows(Sweeping, row, e)
         /\ Idle.at = "idle" /\ Sweeping.at = "load"
  BY DEF Knows, HasRow, RowCurrent, Idle, Sweeping, At

LEMMA LessExposedKnow ==
  ASSUME NEW j, NEW row, NEW e, NEW f, Knows(j, row, e), f => e
  PROVE  Knows(j, row, f)
  BY DEF Knows

\* After a write of another goroutine every row that was read is outdated.
LEMMA OutdatedKnow ==
  ASSUME NEW j \in Jobs, HasRow(j), NEW row, NEW e
  PROVE  Knows(Outdate(j), row, e)
<1>1. /\ Outdate(j).at = j.at /\ Outdate(j).read = j.read
      /\ Outdate(j).outdated = (j.read # NoLimit)
  BY OutdateIsJob
<1> QED
  BY <1>1 DEF Knows, HasRow, RowCurrent

\* A step that moves only goroutine a and leaves the row.
LEMMA MoveRemembers ==
  ASSUME Typed, Remembers, NEW a \in Actors, NEW k,
         job' = [job EXCEPT ![a] = k], limit' = limit, byPanel' => alive',
         Exposed' => Exposed, Knows(k, limit, Exposed')
  PROVE  Remembers'
<1>1. ASSUME NEW b \in Actors PROVE Knows(job'[b], limit, Exposed')
  <2>1. CASE b = a
    BY <2>1 DEF Typed, TypeOK
  <2>2. CASE b # a
    <3>1. job'[b] = job[b] /\ Knows(job[b], limit, Exposed)
      BY <2>2 DEF Remembers, Typed, TypeOK
    <3> HIDE DEF Exposed
    <3> QED
      BY <3>1, LessExposedKnow
  <2> QED
    BY <2>1, <2>2
<1>2. (Exposed => Stopped(limit))'
  BY DEF Remembers, Stopped
<1> QED
  BY <1>1, <1>2 DEF Remembers

\* What a write does: unless the goroutine's row is outdated it leaves the mark where
\* the mark is needed.
LEMMA WriteRemembers ==
  ASSUME Typed, Remembers, NEW a \in Actors, NEW r, NEW good \in Jobs, NEW bad \in Jobs,
         Write(a, r, good, bad),
         (job[a].at = "stamp" \/ Exposed) /\ ~job[a].outdated => Stopped(r),
         Knows(good, r, TRUE), Knows(bad, limit, TRUE)
  PROVE  Remembers'
<1>1. PICK ok \in Outcomes :
        /\ limit' = IF ok THEN r ELSE limit
        /\ IF ok THEN Wrote(a, good) ELSE job' = [job EXCEPT ![a] = bad]
        /\ lost' = (lost \/ (job[a].outdated /\ ~Stopped(limit'))
                         \/ (job[a].at = "stamp" /\ ~ok))
        /\ UNCHANGED <<subjectVars, counterVars, window, byPanel, requests, switches>>
  BY DEF Write
<1>2. ok \in BOOLEAN
  BY Zenon DEF Outcomes
<1>3. (byPanel => alive)' /\ byPanel' = byPanel
  BY <1>1 DEF Remembers, subjectVars
<1>4. CASE ok
  <2>1. /\ limit' = r
        /\ job' = [b \in Actors |-> IF b = a THEN good ELSE Outdate(job[b])]
    BY <1>1, <1>4, WroteTyped
  <2>2. ASSUME NEW b \in Actors PROVE Knows(job'[b], limit', Exposed')
    <3>1. CASE b = a
      BY <2>1, <3>1, LessExposedKnow
    <3>2. CASE b # a
      <4>1. job'[b] = Outdate(job[b]) /\ job[b] \in Jobs /\ HasRow(job[b])
        BY <2>1, <3>2 DEF Remembers, Knows, Typed, TypeOK
      <4> QED
        BY <4>1, OutdatedKnow
    <3> QED
      BY <3>1, <3>2
  <2>3. \A b \in Actors : b # a => job'[b].at = job[b].at
    BY <2>1, OutdateIsJob DEF Typed, TypeOK
  <2>4. Exposed' => Stopped(r)
    <3> SUFFICES ASSUME Exposed' PROVE Stopped(r)
      OBVIOUS
    <3>1. byPanel /\ ~lost /\ (job[a].outdated => Stopped(limit'))
      <4>1. byPanel' /\ ~lost'
        BY DEF Exposed
      <4>2. lost' = (lost \/ (job[a].outdated /\ ~Stopped(limit'))
                           \/ (job[a].at = "stamp" /\ ~ok))
        BY <1>1
      <4> QED
        BY <1>3, <4>1, <4>2, Zenon
    <3>2. job[a].at = "stamp" \/ Exposed
      BY <2>3, <3>1 DEF Exposed, Stamping
    <3>3. Stopped(limit') = Stopped(r)
      BY <2>1 DEF Stopped
    <3> QED
      BY <3>1, <3>2, <3>3
  <2> QED
    BY <1>3, <2>1, <2>2, <2>4 DEF Remembers, Stopped
<1>5. CASE ~ok
  <2>1. limit' = limit /\ job' = [job EXCEPT ![a] = bad]
    BY <1>1, <1>5
  <2>2. Exposed' => Exposed
    <3>1. job[a].at = "stamp" => lost'
      BY <1>1, <1>5
    <3>2. lost => lost'
      BY <1>1
    <3> QED
      BY <1>3, <2>1, <3>1, <3>2 DEF Exposed, Stamping, Typed, TypeOK
  <2>3. Knows(bad, limit, Exposed')
    BY LessExposedKnow
  <2> QED
    BY <1>3, <2>1, <2>2, <2>3, MoveRemembers
<1> QED
  BY <1>2, <1>4, <1>5

\* The same for a call that starts the subject.
LEMMA StartRemembers ==
  ASSUME Typed, Remembers, NEW a \in Actors, NEW good, NEW bad,
         StartCall(a, good, bad), job[a].at # "stamp",
         Knows(good, limit, FALSE), Knows(bad, limit, Exposed /\ bad.at # "remove")
  PROVE  Remembers'
<1>1. PICK ok \in CallOutcomes :
        /\ byPanel' = (byPanel /\ ~ok)
        /\ job' = [job EXCEPT ![a] = IF ok THEN good ELSE bad]
        /\ lost' = (lost \/ (~ok /\ bad.at = "remove"))
        /\ UNCHANGED <<limit, alive>>
  BY DEF StartCall
<1>2. ok \in BOOLEAN
  BY Zenon DEF CallOutcomes, Outcomes
<1>3. limit' = limit /\ (byPanel' => alive') /\ (byPanel' => byPanel) /\ (lost => lost')
  BY <1>1, Zenon DEF Remembers
<1>4. Stamping => Stamping'
  BY <1>1 DEF Stamping, Typed, TypeOK
<1>5. Exposed' => Exposed
  BY <1>3, <1>4 DEF Exposed
<1>6. CASE ok
  <2>1. job' = [job EXCEPT ![a] = good] /\ ~byPanel'
    BY <1>1, <1>6
  <2>2. Knows(good, limit, Exposed')
    BY <2>1, LessExposedKnow DEF Exposed
  <2> QED
    BY <1>3, <1>5, <2>1, <2>2, MoveRemembers
<1>7. CASE ~ok
  <2>1. job' = [job EXCEPT ![a] = bad] /\ (bad.at = "remove" => lost')
    BY <1>1, <1>7
  <2>2. Exposed' => Exposed /\ bad.at # "remove"
    BY <1>5, <2>1 DEF Exposed
  <2> HIDE DEF Exposed
  <2>3. Knows(bad, limit, Exposed')
    BY <2>2, LessExposedKnow
  <2> QED
    BY <1>3, <1>5, <2>1, <2>3, MoveRemembers
<1> QED
  BY <1>2, <1>6, <1>7

LEMMA RememberedInit == Init => Remembers
<1> SUFFICES ASSUME Init PROVE Remembers
  OBVIOUS
<1>1. ~byPanel /\ ~Exposed /\ \A a \in Actors : job[a] = Idle
  BY DEF Init, Exposed
<1> QED
  BY <1>1, IdleKnows DEF Remembers

\* Only the steps of Write, StartCall and Stop change byPanel, lost or who stamps.
LEMMA SameExposure ==
  ASSUME Typed, NEW a \in Actors, NEW k, job' = [job EXCEPT ![a] = k],
         job[a].at # "stamp", byPanel' = byPanel, lost' = lost
  PROVE  Exposed' => Exposed
<1>1. Stamping => Stamping'
  BY DEF Stamping, Typed, TypeOK
<1> QED
  BY <1>1 DEF Exposed

\* An action of goroutine a that only moves it.
LEMMA StepRemembers ==
  ASSUME Typed, Remembers, NEW a \in Actors, NEW k,
         job' = [job EXCEPT ![a] = k], job[a].at # "stamp",
         UNCHANGED <<limit, alive, byPanel, lost>>, Knows(k, limit, Exposed)
  PROVE  Remembers'
<1>1. Exposed' => Exposed
  BY SameExposure
<1>2. byPanel' => alive'
  BY DEF Remembers
<1> HIDE DEF Exposed
<1>3. Knows(k, limit, Exposed')
  BY <1>1, LessExposedKnow
<1> QED
  BY <1>1, <1>2, <1>3, MoveRemembers

LEMMA DecidedKnows ==
  ASSUME NEW j \in Jobs, NEW r \in Rows, NEW row, NEW e,
         ~j.outdated => row # NoLimit /\ row.id = r.id
  PROVE  Knows(Decided(j, r), row, e)
<1> DEFINE k == At("stop", NoAsk, r, j.outdated, 0, Unread)
<1>1. r # NoLimit
  BY NamesAssumption
<1>2. Knows(k, row, e)
  BY <1>1 DEF At, Knows, HasRow, RowCurrent
<1> HIDE DEF k
<1> QED
  BY <1>2, IdleKnows DEF Decided, k

LEMMA SweepRemembers ==
  ASSUME Typed, Remembers, NEW a \in Actors, Sweeps(a)
  PROVE  Remembers'
<1> DEFINE j == job[a]
<1>0. /\ j \in Jobs /\ j.read \in Rows \cup {NoLimit} /\ j.outdated \in BOOLEAN
      /\ j.now \in 0..MaxWindow /\ j.seen \in Readings /\ Idle \in Jobs
      /\ Knows(j, limit, Exposed) /\ (Exposed => Stopped(limit)) /\ limit \in Rows \cup {NoLimit}
  BY JobFields, IdleIsJob DEF Typed, TypeOK, Remembers
<1>1. CASE Load(a)
  <2> DEFINE k == At("check", NoAsk, limit, FALSE, window, Unread)
  <2>1. limit # NoLimit => Knows(k, limit, Exposed)
    BY DEF At, Knows, HasRow, RowCurrent
  <2>2. Knows(IF limit = NoLimit THEN Idle ELSE k, limit, Exposed)
    BY <2>1, IdleKnows
  <2>3. job' = [job EXCEPT ![a] = IF limit = NoLimit THEN Idle ELSE k]
        /\ job[a].at # "stamp" /\ UNCHANGED <<limit, alive, byPanel, lost>>
    BY <1>1 DEF Load, subjectVars
  <2> HIDE DEF k
  <2> QED
    BY <2>2, <2>3, StepRemembers
<1>2. CASE Check(a)
  <2>1. j.read \in Rows /\ (~j.outdated => limit = j.read)
    BY <1>0, <1>2 DEF Check, Knows, HasRow, RowCurrent
  <2> DEFINE ended == j.read.ask.windowed /\ j.read.start < j.now
             p == IF ended /\ j.read.stopped THEN "start" ELSE "roll"
             k == At(p, NoAsk, j.read, j.outdated, j.now, Reading)
  <2>2. /\ p \in Places /\ (p = "start" \/ (p = "roll" /\ (ended => ~j.read.stopped)))
    BY DEF Places
  <2>3. /\ job' = [job EXCEPT ![a] = IF ended THEN k ELSE Decided(k, j.read)]
        /\ job[a].at # "stamp" /\ UNCHANGED <<limit, alive, byPanel, lost>>
    BY <1>2 DEF Check, subjectVars
  <2> HIDE DEF p, ended
  <2>4. k \in Jobs
    BY <1>0, <2>1, <2>2, ReadingIsReading DEF At, Jobs
  <2>5. k.at = p /\ k.read = j.read /\ k.outdated = j.outdated
    BY DEF At
  <2> HIDE DEF k
  <2>6. CASE ended
    <3>1. ~j.outdated /\ p = "roll" => ~Exposed
      BY <1>0, <2>1, <2>2, <2>6, NamesAssumption DEF Stopped
    <3>2. Knows(k, limit, Exposed)
      BY <2>1, <2>2, <2>5, <3>1, NamesAssumption DEF Knows, HasRow, RowCurrent
    <3> QED
      BY <2>3, <2>6, <3>2, StepRemembers
  <2>7. CASE ~ended
    <3>1. Knows(Decided(k, j.read), limit, Exposed)
      BY <2>1, <2>4, <2>5, NamesAssumption, DecidedKnows
    <3> QED
      BY <2>3, <2>7, <3>1, StepRemembers
  <2> QED
    BY <2>6, <2>7
<1>3. CASE CheckOrphan(a)
  <2>1. Write(a, Without(j.read), Idle, Idle) /\ j.at = "check" /\ ~Exposed
    BY <1>3 DEF CheckOrphan, Remembers, Exposed
  <2> HIDE DEF j
  <2> QED
    BY <1>0, <2>1, IdleKnows, WriteRemembers DEF j
<1>4. CASE StartCheck(a)
  <2>1. Knows(Moved(j, "roll"), limit, FALSE)
    BY <1>0, <1>4 DEF StartCheck, Knows, HasRow, RowCurrent, Moved, At
  <2>2. Knows(Idle, limit, Exposed /\ Idle.at # "remove")
    BY IdleKnows
  <2>3. StartCall(a, Moved(j, "roll"), Idle) /\ job[a].at # "stamp"
    BY <1>4 DEF StartCheck
  <2> HIDE DEF j
  <2> QED
    BY <2>1, <2>2, <2>3, StartRemembers
<1>5. CASE Roll(a)
  <2> DEFINE r == Rebased(j.read, j.seen, j.now, FALSE)
  <2>1. j.read \in Rows /\ r \in Rows /\ r.id = j.read.id
        /\ (~j.outdated => limit = j.read /\ ~Exposed) /\ j.at = "roll"
    <3>1. j.read \in Rows /\ (~j.outdated => limit = j.read /\ ~Exposed) /\ j.at = "roll"
      BY <1>0, <1>5 DEF Roll, Knows, HasRow, RowCurrent
    <3>2. r \in Rows
      BY <1>0, <3>1, RebasedIsRow
    <3> QED
      BY <3>1, <3>2 DEF Rebased
  <2>2. Write(a, Updated(r), Decided(j, r), Decided(j, r))
    BY <1>5 DEF Roll
  <2> HIDE DEF r
  <2>3. ~j.outdated => Updated(r) = r
    BY <2>1, NamesAssumption DEF Updated
  <2>4. Decided(j, r) \in Jobs
    BY <1>0, <2>1, DecidedIsJob
  <2>5. Knows(Decided(j, r), Updated(r), TRUE) /\ Knows(Decided(j, r), limit, TRUE)
    BY <1>0, <2>1, <2>3, NamesAssumption, DecidedKnows
  <2>6. (job[a].at = "stamp" \/ Exposed) /\ ~job[a].outdated => Stopped(Updated(r))
    BY <2>1
  <2> HIDE DEF j
  <2> QED
    BY <2>2, <2>4, <2>5, <2>6, WriteRemembers
<1>6. CASE Stop(a)
  <2>1. PICK ok \in CallOutcomes :
          /\ byPanel' = (byPanel \/ ok) /\ alive' = alive /\ lost' = lost /\ limit' = limit
          /\ job' = [job EXCEPT ![a] = IF ok THEN Moved(j, "stamp") ELSE Idle]
    BY <1>6 DEF Stop
  <2>2. j.at = "stop" /\ Moved(j, "stamp").at = "stamp"
        /\ Knows(Moved(j, "stamp"), limit, TRUE)
    BY <1>0, <1>6 DEF Stop, Knows, HasRow, RowCurrent, Moved, At
  <2>3. CASE ok
    <3>1. job' = [job EXCEPT ![a] = Moved(j, "stamp")] /\ Stamping'
      BY <2>1, <2>2, <2>3 DEF Stamping, Typed, TypeOK
    <3>2. alive
      BY <2>3, Zenon DEF CallOutcomes
    <3>3. Knows(Moved(j, "stamp"), limit, Exposed')
      BY <2>2, LessExposedKnow
    <3> QED
      BY <2>1, <3>1, <3>2, <3>3, MoveRemembers DEF Exposed
  <2>4. CASE ~ok
    <3>1. byPanel' = byPanel
      BY <2>1, <2>4 DEF Typed, TypeOK
    <3>2. job' = [job EXCEPT ![a] = Idle]
      BY <2>1, <2>4
    <3> QED
      BY <2>1, <2>2, <3>1, <3>2, IdleKnows, StepRemembers
  <2>5. ok \in BOOLEAN
    BY Zenon DEF CallOutcomes, Outcomes
  <2> QED
    BY <2>3, <2>4, <2>5
<1>7. CASE Stamp(a)
  <2> DEFINE r == Marked(j.read, j.read.ask, TRUE)
  <2>1. Write(a, Updated(r), Idle, Idle)
    BY <1>7 DEF Stamp
  <2>2. r.id = j.read.id /\ Stopped(r)
    <3>1. j.read \in Rows /\ j.read.ask \in Limits
      BY <1>0, <1>7 DEF Stamp, Knows, HasRow, Rows
    <3>2. r \in Rows /\ r.id = j.read.id /\ r.stopped
      BY <3>1, MarkedIsRow DEF Marked
    <3> QED
      BY <3>2, NamesAssumption DEF Stopped
  <2>3. ~j.outdated => limit # NoLimit /\ limit.id = j.read.id
    BY <1>0, <1>7 DEF Stamp, Knows, HasRow, RowCurrent
  <2> HIDE DEF r
  <2>4. ~j.outdated => Stopped(Updated(r))
    BY <2>2, <2>3 DEF Updated
  <2> QED
    BY <1>0, <2>1, <2>4, IdleKnows, WriteRemembers
<1> QED
  BY <1>1, <1>2, <1>3, <1>4, <1>5, <1>6, <1>7 DEF Sweeps

LEMMA ServeRemembers ==
  ASSUME Typed, Remembers, NEW a \in Actors, Serves(a)
  PROVE  Remembers'
<1> DEFINE j == job[a]
<1>0. /\ j \in Jobs /\ j.read \in Rows \cup {NoLimit} /\ j.outdated \in BOOLEAN
      /\ Sweeping \in Jobs /\ Idle \in Jobs
      /\ Knows(j, limit, Exposed) /\ (Exposed => Stopped(limit)) /\ limit \in Rows \cup {NoLimit}
  BY JobFields, IdleIsJob DEF Typed, TypeOK, Remembers
<1>1. CASE StartRemoved(a)
  <2>1. /\ Knows(Moved(j, "remove"), limit, FALSE)
        /\ Knows(Moved(j, "remove"), limit, Exposed /\ Moved(j, "remove").at # "remove")
    BY <1>0, <1>1 DEF StartRemoved, Knows, HasRow, RowCurrent, Moved, At
  <2>2. StartCall(a, Moved(j, "remove"), Moved(j, "remove")) /\ job[a].at # "stamp"
    BY <1>1 DEF StartRemoved
  <2> HIDE DEF j
  <2> QED
    BY <2>1, <2>2, StartRemembers
<1>2. CASE Remove(a)
  <2>1. Write(a, Without(j.read), Sweeping, Idle) /\ j.at = "remove"
    BY <1>2 DEF Remove
  <2>2. (job[a].at = "stamp" \/ Exposed) /\ ~job[a].outdated => Stopped(Without(j.read))
    BY <1>0, <2>1 DEF Knows
  <2> HIDE DEF j
  <2> QED
    BY <1>0, <2>1, <2>2, IdleKnows, WriteRemembers
<1>3. CASE Insert(a)
  <2> DEFINE r == [id |-> requests, ask |-> j.ask, base |-> Volume, start |-> window,
                   stopped |-> FALSE, blind |-> ~readable, origin |-> carried]
  <2>1. CASE limit # NoLimit
    BY <1>3, <2>1, IdleKnows, StepRemembers DEF Insert, Return, subjectVars
  <2>2. CASE limit = NoLimit
    <3>1. Write(a, r, Sweeping, Idle) /\ j.at = "setWrite"
      BY <1>3, <2>2 DEF Insert
    <3>2. ~Exposed
      BY <1>0, <2>2 DEF Stopped
    <3> HIDE DEF r, j
    <3> QED
      BY <1>0, <3>1, <3>2, IdleKnows, WriteRemembers DEF j
  <2> QED
    BY <2>1, <2>2
<1>4. CASE Replace(a)
  <2> DEFINE r == Marked(j.read, j.ask, j.read.stopped)
             w == IF r.ask.windowed = j.read.ask.windowed THEN r
                  ELSE Rebased(r, Reading, window, r.stopped)
  <2>1. Write(a, Updated(w), Sweeping, Idle) /\ j.at = "setWrite" /\ j.read \in Rows
    BY <1>0, <1>4 DEF Replace
  <2>2. w.id = j.read.id /\ w.stopped = j.read.stopped /\ w # NoLimit
    <3>1. j.ask \in Limits
      BY <2>1, Zenon DEF Typed
    <3>2. r \in Rows /\ r.id = j.read.id /\ r.stopped = j.read.stopped /\ r.stopped \in BOOLEAN
      BY <2>1, <3>1, MarkedIsRow DEF Marked, Rows
    <3> HIDE DEF r
    <3>3. Rebased(r, Reading, window, r.stopped) \in Rows
      BY <3>2, ReadingIsReading, RebasedIsRow DEF Typed, TypeOK
    <3>4. /\ Rebased(r, Reading, window, r.stopped).id = r.id
          /\ Rebased(r, Reading, window, r.stopped).stopped = r.stopped
      BY DEF Rebased
    <3> QED
      BY <3>2, <3>3, <3>4, NamesAssumption
  <2> HIDE DEF w, r
  <2>3. Exposed /\ ~j.outdated => Stopped(Updated(w))
    BY <1>0, <2>1, <2>2, NamesAssumption DEF Knows, RowCurrent, Updated, Stopped
  <2>4. (job[a].at = "stamp" \/ Exposed) /\ ~job[a].outdated => Stopped(Updated(w))
    BY <2>1, <2>3
  <2> HIDE DEF j
  <2> QED
    BY <1>0, <2>1, <2>4, IdleKnows, WriteRemembers
<1>5. CASE StartReset(a)
  <2>1. Knows(Moved(j, "resetWrite"), limit, FALSE)
    BY <1>0, <1>5 DEF StartReset, Knows, HasRow, RowCurrent, Moved, At
  <2>2. Knows(Idle, limit, Exposed /\ Idle.at # "remove")
    BY IdleKnows
  <2>3. StartCall(a, Moved(j, "resetWrite"), Idle) /\ job[a].at # "stamp"
    BY <1>5 DEF StartReset
  <2> HIDE DEF j
  <2> QED
    BY <2>1, <2>2, <2>3, StartRemembers
<1>6. CASE ResetWrite(a)
  <2> DEFINE r == Rebased(j.read, Reading, window, FALSE)
  <2>1. Write(a, Updated(r), Sweeping, Idle) /\ j.at = "resetWrite"
    BY <1>6 DEF ResetWrite
  <2>2. (job[a].at = "stamp" \/ Exposed) /\ ~job[a].outdated => Stopped(Updated(r))
    BY <1>0, <2>1 DEF Knows
  <2> HIDE DEF r, j
  <2> QED
    BY <1>0, <2>1, <2>2, IdleKnows, WriteRemembers
<1> QED
  BY <1>1, <1>2, <1>3, <1>4, <1>5, <1>6 DEF Serves

LEMMA SubmitRemembers ==
  ASSUME Typed, Remembers, NEW a \in Handlers,
         \/ \E l \in Limits : SubmitSet(a, l)
         \/ SubmitRemove(a) \/ SubmitReset(a)
  PROVE  Remembers' /\ Typed'
<1>1. PICK p \in Places, l \in Limits \cup {NoAsk} :
        /\ Submit(a, p, l) /\ (p = "setWrite" => l \in Limits)
        /\ p \in {"removeStart", "remove", "resetStart", "resetWrite"} => limit # NoLimit
        /\ p \in {"remove", "resetWrite"} => ~limit.stopped
        /\ p # "roll" /\ p \notin {"check", "start", "stop", "stamp"}
  <2>1. CASE \E l \in Limits : SubmitSet(a, l)
    BY <2>1 DEF SubmitSet, Places
  <2>2. CASE SubmitRemove(a)
    BY <2>2 DEF SubmitRemove, Places, Stopped
  <2>3. CASE SubmitReset(a)
    BY <2>3 DEF SubmitReset, Places
  <2> QED
    BY <2>1, <2>2, <2>3
<1> DEFINE k == At(p, l, limit, FALSE, 0, Unread)
<1>2. /\ job' = [job EXCEPT ![a] = k] /\ job[a].at # "stamp" /\ a \in Actors
      /\ UNCHANGED <<limit, alive, byPanel, lost>>
  BY <1>1 DEF Submit, Actors, subjectVars
<1>3. p \in {"remove", "resetWrite"} => ~Exposed
  BY <1>1 DEF Remembers, Stopped
<1>4. Knows(k, limit, Exposed)
  BY <1>1, <1>3 DEF Knows, HasRow, RowCurrent, At
<1>5. Typed'
  BY <1>1, TypedSubmit
<1> HIDE DEF k
<1> QED
  BY <1>2, <1>4, <1>5, StepRemembers

LEMMA EnvironmentRemembers ==
  ASSUME Typed, Remembers,
         Carry \/ Unreadable \/ ReadableAgain \/ WindowEnds \/ Switch \/ Delete \/ Crash
  PROVE  Remembers'
<1>1. CASE UNCHANGED <<limit, alive, byPanel, lost, job>>
  BY <1>1 DEF Remembers, Exposed, Stamping, Stopped
<1>2. CASE ~byPanel' /\ UNCHANGED <<limit, job>>
  <2>1. ~Exposed'
    BY <1>2 DEF Exposed
  <2>2. ASSUME NEW b \in Actors PROVE Knows(job[b], limit, Exposed')
    BY <2>1, LessExposedKnow DEF Remembers
  <2> QED
    BY <1>2, <2>1, <2>2 DEF Remembers
<1>3. CASE Crash
  <2>1. /\ \A b \in Actors : job'[b] = Idle
        /\ lost' = (lost \/ Stamping) /\ UNCHANGED <<limit, alive, byPanel>>
    BY <1>3 DEF Crash, Stamping, subjectVars
  <2>2. Exposed' => Exposed
    BY <2>1 DEF Exposed
  <2>3. \A b \in Actors : Knows(job'[b], limit, Exposed')
    BY <2>1, IdleKnows
  <2> QED
    BY <2>1, <2>2, <2>3 DEF Remembers, Stopped
<1>4. Switch \/ Delete => ~byPanel' /\ UNCHANGED <<limit, job>>
  BY DEF Switch, Delete
<1>5. Carry \/ Unreadable \/ ReadableAgain \/ WindowEnds =>
        UNCHANGED <<limit, alive, byPanel, lost, job>>
  BY DEF Carry, Unreadable, ReadableAgain, WindowEnds, subjectVars
<1> QED
  BY <1>1, <1>2, <1>3, <1>4, <1>5

LEMMA QuotaStep == Typed /\ Remembers /\ [Next]_vars => (Typed /\ Remembers)'
<1> SUFFICES ASSUME Typed, Remembers, [Next]_vars PROVE Typed' /\ Remembers'
  OBVIOUS
<1>0. RowsKnown
  BY RemembersImplies
<1>1. ASSUME NEW a \in Actors, Sweeps(a) PROVE Typed' /\ Remembers'
  BY <1>0, <1>1, TypedSweeps, SweepRemembers
<1>2. ASSUME NEW a \in Actors, Serves(a) PROVE Typed' /\ Remembers'
  BY <1>0, <1>2, TypedServes, ServeRemembers
<1>3. ASSUME NEW a \in Handlers,
             (\E l \in Limits : SubmitSet(a, l)) \/ SubmitRemove(a) \/ SubmitReset(a)
      PROVE  Typed' /\ Remembers'
  BY <1>3, SubmitRemembers
<1>4. CASE Carry \/ Unreadable \/ ReadableAgain \/ WindowEnds \/ Switch \/ Delete \/ Crash
  BY <1>4, TypedEnvironment, EnvironmentRemembers
<1>5. CASE UNCHANGED vars
  <2>1. Typed'
    BY <1>5 DEF vars, Typed, TypeOK, subjectVars, counterVars
  <2>2. Remembers'
    BY <1>5 DEF vars, Remembers, Exposed, Stamping, Stopped, subjectVars
  <2> QED
    BY <2>1, <2>2
<1> QED
  BY <1>1, <1>2, <1>3, <1>4, <1>5 DEF Next

LEMMA QuotaInvariant == Spec => [](Typed /\ Remembers)
<1>1. Init => Typed /\ Remembers
  BY TypedInit, RememberedInit
<1> QED
  BY <1>1, QuotaStep, PTL DEF Spec

\* Every variable keeps its type: the row, the counters and the jobs of any
\* number of goroutines.
THEOREM TypeInvariant == Spec => []TypeOK
<1>1. Typed => TypeOK
  BY DEF Typed
<1> QED
  BY <1>1, QuotaInvariant, PTL

\* quota.go:9: what the panel stopped it knows it stopped, for any number of
\* goroutines, unless a fault, a crash or the write of an outdated row lost it.
THEOREM RememberedStops == Spec => []StopsAreRemembered
<1> QED
  BY RemembersImplies, QuotaInvariant, PTL

(***************************************************************************)
(* Only what is spent is stopped.  A counter gains no more than is carried *)
(* and may fall to nothing, so what it shows above a baseline that was     *)
(* read is never more than was carried since; and a window that rolls over *)
(* counts from its own reading, which stops nothing.                       *)
(***************************************************************************)
\* With the counter at c and t bytes carried, r shows no more than was carried.
Backed(r, c, t) == ~r.blind => c + r.origin <= t + r.base

JobSpent(j, c, t) ==
  /\ j.read # NoLimit => Backed(j.read, c, t)
  /\ j.seen.readable => c + j.seen.origin <= t + j.seen.rx
  /\ j.at = "stop" /\ ~j.read.blind => t - j.read.origin >= j.read.ask.bytes

Spent ==
  /\ limit # NoLimit => Backed(limit, counter, carried)
  /\ \A a \in Actors : JobSpent(job[a], counter, carried)

LEMMA SpentImplies == Spent => StopsOnlyTheSpent
  BY DEF Spent, JobSpent, StopsOnlyTheSpent

LEMMA IdleSpent ==
  ASSUME NEW c, NEW t
  PROVE  JobSpent(Idle, c, t) /\ JobSpent(Sweeping, c, t)
  BY DEF JobSpent, Idle, Sweeping, At, Unread

LEMMA MarkedBacked ==
  ASSUME NEW r, NEW l, NEW b, NEW c, NEW t, Backed(r, c, t)
  PROVE  Backed(Marked(r, l, b), c, t)
  BY DEF Backed, Marked

\* A baseline is taken from a reading as old as the goroutine likes.
LEMMA RebasedBacked ==
  ASSUME NEW r, NEW s, NEW w, NEW b, NEW c, NEW t,
         s.readable \in BOOLEAN, s.readable => c + s.origin <= t + s.rx
  PROVE  Backed(Rebased(r, s, w, b), c, t)
  BY DEF Backed, Rebased

LEMMA ReadingBacked ==
  Typed /\ Reading.readable => counter + Reading.origin <= carried + Reading.rx
  BY DEF Typed, TypeOK, Reading, Volume

\* Later the counter has gained no more than was carried, or lost.
LEMMA LaterBacked ==
  ASSUME NEW r \in Rows, NEW c \in Nat, NEW t \in Nat, NEW d \in Nat, NEW u \in Nat,
         d + t <= u + c, Backed(r, c, t)
  PROVE  Backed(r, d, u)
  BY QuotaBoundsAssumption DEF Backed, Rows

LEMMA LaterSpent ==
  ASSUME NEW j \in Jobs, HasRow(j), NEW c \in Nat, NEW t \in Nat, NEW d \in Nat, NEW u \in Nat,
         d + t <= u + c, t <= u, JobSpent(j, c, t)
  PROVE  JobSpent(j, d, u)
<1>1. j.read # NoLimit => j.read \in Rows /\ Backed(j.read, d, u)
  BY JobFields, LaterBacked DEF JobSpent
<1>2. j.seen.readable => d + j.seen.origin <= u + j.seen.rx
  <2>1. j.seen.origin \in Nat /\ j.seen.rx \in Nat
    BY JobFields, QuotaBoundsAssumption DEF Readings
  <2> QED
    BY <2>1 DEF JobSpent
<1>3. j.at = "stop" /\ ~j.read.blind => u - j.read.origin >= j.read.ask.bytes
  <2>1. SUFFICES ASSUME j.at = "stop", ~j.read.blind
                 PROVE  u - j.read.origin >= j.read.ask.bytes
    OBVIOUS
  <2>2. j.read \in Rows
    BY <1>1, <2>1 DEF HasRow
  <2>3. j.read.origin \in Nat /\ j.read.ask.bytes \in Nat
    BY <2>2, LimitsAssumption, QuotaBoundsAssumption DEF Rows
  <2> QED
    BY <2>1, <2>3 DEF JobSpent
<1> QED
  BY <1>1, <1>2, <1>3 DEF JobSpent

\* A step that moves only goroutine a.
LEMMA MoveSpent ==
  ASSUME Typed, Spent, NEW a \in Actors, NEW k, job' = [job EXCEPT ![a] = k],
         UNCHANGED <<limit, counter, carried>>, JobSpent(k, counter, carried)
  PROVE  Spent'
<1>1. ASSUME NEW b \in Actors PROVE JobSpent(job'[b], counter, carried)
  BY DEF Spent, Typed, TypeOK
<1> QED
  BY <1>1 DEF Spent

LEMMA WriteSpent ==
  ASSUME Typed, Spent, NEW a \in Actors, NEW r, NEW good \in Jobs, NEW bad,
         Write(a, r, good, bad), r # NoLimit => Backed(r, counter, carried),
         JobSpent(good, counter, carried), JobSpent(bad, counter, carried)
  PROVE  Spent'
<1>1. PICK ok \in Outcomes :
        /\ limit' = IF ok THEN r ELSE limit
        /\ IF ok THEN Wrote(a, good) ELSE job' = [job EXCEPT ![a] = bad]
        /\ UNCHANGED <<counter, carried>>
  BY DEF Write, counterVars
<1>2. limit' # NoLimit => Backed(limit', counter, carried)
  BY <1>1 DEF Spent
<1>3. ASSUME NEW b \in Actors PROVE JobSpent(job'[b], counter, carried)
  <2>1. CASE ok
    <3>1. job' = [d \in Actors |-> IF d = a THEN good ELSE Outdate(job[d])]
      BY <1>1, <2>1, WroteTyped
    <3>2. CASE b = a
      BY <3>1, <3>2
    <3>3. CASE b # a
      <4>1. job'[b] = Outdate(job[b]) /\ JobSpent(job[b], counter, carried)
        BY <3>1, <3>3 DEF Spent
      <4> QED
        BY <4>1 DEF JobSpent, Outdate, At
    <3> QED
      BY <3>2, <3>3
  <2>2. CASE ~ok
    BY <1>1, <2>2 DEF Spent, Typed, TypeOK
  <2> QED
    BY <2>1, <2>2
<1> QED
  BY <1>1, <1>2, <1>3 DEF Spent

LEMMA StartSpent ==
  ASSUME Typed, Spent, NEW a \in Actors, NEW good, NEW bad, StartCall(a, good, bad),
         JobSpent(good, counter, carried), JobSpent(bad, counter, carried)
  PROVE  Spent'
<1>1. PICK ok \in CallOutcomes :
        /\ job' = [job EXCEPT ![a] = IF ok THEN good ELSE bad]
        /\ UNCHANGED <<limit, counter, carried>>
  BY DEF StartCall, counterVars
<1>2. JobSpent(IF ok THEN good ELSE bad, counter, carried)
  OBVIOUS
<1> QED
  BY <1>1, <1>2, MoveSpent

\* A stop is decided on a reading that shows the limit reached.
LEMMA DecidedSpent ==
  ASSUME NEW j \in Jobs, NEW r \in Rows, Backed(r, counter, carried),
         MustStop(r, j.seen) /\ ~r.blind => carried - r.origin >= r.ask.bytes
  PROVE  JobSpent(Decided(j, r), counter, carried)
<1> DEFINE k == At("stop", NoAsk, r, j.outdated, 0, Unread)
<1>1. MustStop(r, j.seen) => JobSpent(k, counter, carried)
  BY DEF JobSpent, At, Unread
<1> HIDE DEF k
<1> QED
  BY <1>1, IdleSpent DEF Decided, k

LEMMA MovedSpent ==
  ASSUME NEW j, NEW p, NEW c, NEW t, JobSpent(j, c, t), p # "stop"
  PROVE  JobSpent(Moved(j, p), c, t)
  BY DEF JobSpent, Moved, At

\* What is read of the stored row is as sound as the row.
LEMMA HasReadSpent ==
  ASSUME NEW p, NEW l, NEW r, NEW o, NEW w, NEW c, NEW t, p # "stop",
         r # NoLimit => Backed(r, c, t)
  PROVE  JobSpent(At(p, l, r, o, w, Unread), c, t)
  BY DEF JobSpent, At, Unread

LEMMA UpdatedBacked ==
  ASSUME Spent, NEW r, Backed(r, counter, carried)
  PROVE  /\ Updated(r) # NoLimit => Backed(Updated(r), counter, carried)
         /\ Without(r) # NoLimit => Backed(Without(r), counter, carried)
  BY DEF Spent, Updated, Without

LEMMA SweepSpent ==
  ASSUME Typed, RowsKnown, Spent, NEW a \in Actors, Sweeps(a)
  PROVE  Spent'
<1> DEFINE j == job[a]
<1>0. /\ j \in Jobs /\ j.read \in Rows \cup {NoLimit} /\ j.seen \in Readings
      /\ HasRow(j) /\ JobSpent(j, counter, carried) /\ Idle \in Jobs
      /\ j.now \in 0..MaxWindow /\ j.outdated \in BOOLEAN
  BY JobFields, IdleIsJob DEF Typed, TypeOK, RowsKnown, Spent
<1>1. CASE Load(a)
  <2> DEFINE k == IF limit = NoLimit THEN Idle ELSE At("check", NoAsk, limit, FALSE, window, Unread)
  <2>1. JobSpent(k, counter, carried)
    BY IdleSpent, HasReadSpent DEF Spent
  <2>2. job' = [job EXCEPT ![a] = k] /\ UNCHANGED <<limit, counter, carried>>
    BY <1>1 DEF Load, counterVars
  <2> HIDE DEF k
  <2> QED
    BY <2>1, <2>2, MoveSpent
<1>2. CASE Check(a)
  <2>1. j.read \in Rows /\ Backed(j.read, counter, carried)
    BY <1>0, <1>2 DEF Check, HasRow, JobSpent
  <2> DEFINE ended == j.read.ask.windowed /\ j.read.start < j.now
             p == IF ended /\ j.read.stopped THEN "start" ELSE "roll"
             k == At(p, NoAsk, j.read, j.outdated, j.now, Reading)
  <2>2. p \in Places /\ p # "stop"
    BY DEF Places
  <2>3. /\ job' = [job EXCEPT ![a] = IF ended THEN k ELSE Decided(k, j.read)]
        /\ UNCHANGED <<limit, counter, carried>>
    BY <1>2 DEF Check, counterVars
  <2> HIDE DEF p, ended
  <2>4. k \in Jobs /\ k.seen = Reading
    BY <1>0, <2>1, <2>2, ReadingIsReading, AtIsJob DEF At
  <2>5. JobSpent(k, counter, carried)
    BY <2>1, <2>2, ReadingBacked DEF JobSpent, At
  <2>6. ASSUME MustStop(j.read, Reading), ~j.read.blind
        PROVE  carried - j.read.origin >= j.read.ask.bytes
    <3>1. j.read.ask.bytes \in Nat \ {0} /\ j.read.base \in Nat /\ j.read.origin \in Nat
      BY <2>1, LimitsAssumption, QuotaBoundsAssumption DEF Rows
    <3>2. Reading.rx = counter /\ counter \in Nat /\ carried \in Nat
      BY <2>6, QuotaBoundsAssumption DEF MustStop, Reading, Volume, Typed, TypeOK
    <3>3. counter - j.read.base >= j.read.ask.bytes
      BY <2>6, <3>1, <3>2 DEF MustStop, Used
    <3> QED
      BY <2>1, <2>6, <3>1, <3>2, <3>3 DEF Backed
  <2> HIDE DEF k
  <2>7. JobSpent(Decided(k, j.read), counter, carried)
    BY <2>1, <2>4, <2>6, DecidedSpent
  <2>8. JobSpent(IF ended THEN k ELSE Decided(k, j.read), counter, carried)
    BY <2>5, <2>7
  <2> QED
    BY <2>3, <2>8, MoveSpent
<1>3. CASE CheckOrphan(a)
  <2>1. Backed(j.read, counter, carried)
    BY <1>0, <1>3 DEF CheckOrphan, HasRow, JobSpent
  <2>2. Write(a, Without(j.read), Idle, Idle)
    BY <1>3 DEF CheckOrphan
  <2> QED
    BY <1>0, <2>1, <2>2, UpdatedBacked, IdleSpent, WriteSpent
<1>4. CASE StartCheck(a)
  <2>1. StartCall(a, Moved(j, "roll"), Idle)
    BY <1>4 DEF StartCheck
  <2> QED
    BY <1>0, <2>1, MovedSpent, IdleSpent, StartSpent
<1>5. CASE Roll(a)
  <2> DEFINE r == Rebased(j.read, j.seen, j.now, FALSE)
  <2>1. j.read \in Rows
    BY <1>0, <1>5 DEF Roll, HasRow
  <2>2. r \in Rows /\ Backed(r, counter, carried)
    <3>1. /\ j.seen.readable \in BOOLEAN
          /\ j.seen.readable => counter + j.seen.origin <= carried + j.seen.rx
      BY <1>0 DEF JobSpent, Readings
    <3> HIDE DEF j
    <3>2. Backed(r, counter, carried)
      BY <3>1 DEF Backed, Rebased
    <3>3. r \in Rows
      BY <1>0, <2>1, RebasedIsRow
    <3> QED
      BY <3>2, <3>3
  <2>3. r.base = j.seen.rx /\ Write(a, Updated(r), Decided(j, r), Decided(j, r))
    BY <1>5 DEF Roll, Rebased
  <2> HIDE DEF r
  <2>4. ~MustStop(r, j.seen)
    <3>1. r.ask.bytes \in Nat \ {0} /\ j.seen.rx \in Nat
      BY <1>0, <2>2, LimitsAssumption, QuotaBoundsAssumption DEF Rows, Readings
    <3>2. Used(r, j.seen) = 0
      BY <2>3, <3>1 DEF Used
    <3> QED
      BY <3>1, <3>2 DEF MustStop
  <2>5. Decided(j, r) \in Jobs /\ JobSpent(Decided(j, r), counter, carried)
    BY <1>0, <2>2, <2>4, DecidedIsJob, DecidedSpent
  <2> QED
    BY <2>2, <2>3, <2>5, UpdatedBacked, WriteSpent
<1>6. CASE Stop(a)
  <2>1. PICK ok \in CallOutcomes :
          job' = [job EXCEPT ![a] = IF ok THEN Moved(j, "stamp") ELSE Idle]
    BY <1>0, <1>6 DEF Stop, Typed, TypeOK
  <2>2. JobSpent(IF ok THEN Moved(j, "stamp") ELSE Idle, counter, carried)
    BY <1>0, MovedSpent, IdleSpent
  <2>3. UNCHANGED <<limit, counter, carried>>
    BY <1>6 DEF Stop, counterVars
  <2> QED
    BY <2>1, <2>2, <2>3, MoveSpent
<1>7. CASE Stamp(a)
  <2> DEFINE r == Marked(j.read, j.read.ask, TRUE)
  <2>1. Backed(r, counter, carried)
    BY <1>0, <1>7, MarkedBacked DEF Stamp, HasRow, JobSpent
  <2>2. Write(a, Updated(r), Idle, Idle)
    BY <1>7 DEF Stamp
  <2> HIDE DEF r
  <2> QED
    BY <1>0, <2>1, <2>2, UpdatedBacked, IdleSpent, WriteSpent
<1> QED
  BY <1>1, <1>2, <1>3, <1>4, <1>5, <1>6, <1>7 DEF Sweeps

LEMMA ServeSpent ==
  ASSUME Typed, RowsKnown, Spent, NEW a \in Actors, Serves(a)
  PROVE  Spent'
<1> DEFINE j == job[a]
<1>0. /\ j \in Jobs /\ j.read \in Rows \cup {NoLimit}
      /\ HasRow(j) /\ JobSpent(j, counter, carried)
      /\ Idle \in Jobs /\ Sweeping \in Jobs /\ Reading.readable \in BOOLEAN
  BY JobFields, IdleIsJob, ReadingIsReading DEF Typed, TypeOK, RowsKnown, Spent, Readings
<1>1. CASE StartRemoved(a)
  BY <1>0, <1>1, MovedSpent, StartSpent DEF StartRemoved
<1>2. CASE Remove(a)
  <2>1. Backed(j.read, counter, carried)
    BY <1>0, <1>2 DEF Remove, HasRow, JobSpent
  <2>2. Write(a, Without(j.read), Sweeping, Idle)
    BY <1>2 DEF Remove
  <2> QED
    BY <1>0, <2>1, <2>2, UpdatedBacked, IdleSpent, WriteSpent
<1>3. CASE Insert(a)
  <2>1. CASE limit # NoLimit
    <3>1. job' = [job EXCEPT ![a] = Idle] /\ UNCHANGED <<limit, counter, carried>>
      BY <1>3, <2>1 DEF Insert, Return, counterVars
    <3> QED
      BY <3>1, IdleSpent, MoveSpent
  <2>2. CASE limit = NoLimit
    <3> DEFINE r == [id |-> requests, ask |-> j.ask, base |-> Volume, start |-> window,
                     stopped |-> FALSE, blind |-> ~readable, origin |-> carried]
    <3>1. Backed(r, counter, carried)
      <4>1. r.blind = ~readable /\ r.base = Volume /\ r.origin = carried
        OBVIOUS
      <4>2. readable \in BOOLEAN /\ (readable => Volume = counter)
        BY DEF Volume, Typed, TypeOK
      <4>3. counter + carried <= carried + counter
        BY QuotaBoundsAssumption DEF Typed, TypeOK
      <4> HIDE DEF r
      <4> QED
        BY <4>1, <4>2, <4>3 DEF Backed
    <3>2. Write(a, r, Sweeping, Idle)
      BY <1>3, <2>2 DEF Insert
    <3> HIDE DEF r
    <3> QED
      BY <1>0, <3>1, <3>2, IdleSpent, WriteSpent
  <2> QED
    BY <2>1, <2>2
<1>4. CASE Replace(a)
  <2> DEFINE r == Marked(j.read, j.ask, j.read.stopped)
             n == Rebased(r, Reading, window, r.stopped)
             x == IF r.ask.windowed = j.read.ask.windowed THEN r ELSE n
  <2>1. Backed(r, counter, carried)
    BY <1>0, <1>4, MarkedBacked DEF Replace, JobSpent
  <2>2. Backed(n, counter, carried)
    BY <1>0, ReadingBacked, RebasedBacked
  <2>3. Backed(x, counter, carried)
    BY <2>1, <2>2
  <2>4. Write(a, Updated(x), Sweeping, Idle)
    BY <1>4 DEF Replace
  <2> HIDE DEF x
  <2> QED
    BY <1>0, <2>3, <2>4, UpdatedBacked, IdleSpent, WriteSpent
<1>5. CASE StartReset(a)
  BY <1>0, <1>5, MovedSpent, IdleSpent, StartSpent DEF StartReset
<1>6. CASE ResetWrite(a)
  <2> DEFINE r == Rebased(j.read, Reading, window, FALSE)
  <2>1. Backed(r, counter, carried)
    <3>1. Reading.readable => counter + Reading.origin <= carried + Reading.rx
      BY ReadingBacked
    <3> HIDE DEF j
    <3> QED
      BY <1>0, <3>1 DEF Backed, Rebased
  <2>2. Write(a, Updated(r), Sweeping, Idle)
    BY <1>6 DEF ResetWrite
  <2> HIDE DEF r
  <2> QED
    BY <1>0, <2>1, <2>2, UpdatedBacked, IdleSpent, WriteSpent
<1> QED
  BY <1>1, <1>2, <1>3, <1>4, <1>5, <1>6 DEF Serves

\* A request keeps the row it read.
LEMMA SubmitSpent ==
  ASSUME Typed, Spent, NEW a \in Actors, NEW p, NEW l, p # "stop", Submit(a, p, l)
  PROVE  Spent'
<1>1. JobSpent(At(p, l, limit, FALSE, 0, Unread), counter, carried)
  BY HasReadSpent DEF Spent
<1>2. /\ job' = [job EXCEPT ![a] = At(p, l, limit, FALSE, 0, Unread)]
      /\ UNCHANGED <<limit, counter, carried>>
  BY DEF Submit, counterVars
<1> QED
  BY <1>1, <1>2, MoveSpent

LEMMA EnvironmentSpent ==
  ASSUME Typed, RowsKnown, Spent,
         Carry \/ Unreadable \/ ReadableAgain \/ WindowEnds \/ Switch \/ Delete \/ Crash
  PROVE  Spent'
<1>0. counter \in Nat /\ carried \in Nat
  BY QuotaBoundsAssumption DEF Typed, TypeOK
<1>1. CASE UNCHANGED <<limit, counter, carried, job>>
  BY <1>1 DEF Spent
<1>2. CASE Crash
  BY <1>2, IdleSpent DEF Crash, Spent, counterVars
<1>3. CASE Carry \/ ReadableAgain
  <2>1. /\ counter' \in Nat /\ carried' \in Nat /\ carried <= carried'
        /\ counter' + carried <= carried' + counter
    BY <1>0, <1>3 DEF Carry, ReadableAgain
  <2>2. UNCHANGED <<limit, job>>
    BY <1>3 DEF Carry, ReadableAgain
  <2>3. limit # NoLimit => Backed(limit, counter', carried')
    BY <1>0, <2>1, LaterBacked DEF Spent, Typed, TypeOK
  <2>4. ASSUME NEW b \in Actors PROVE JobSpent(job[b], counter', carried')
    BY <1>0, <2>1, LaterSpent DEF Spent, Typed, TypeOK, RowsKnown
  <2> QED
    BY <2>2, <2>3, <2>4 DEF Spent
<1> QED
  BY <1>1, <1>2, <1>3 DEF Unreadable, WindowEnds, Switch, Delete, counterVars

LEMMA SpentStep == Typed /\ RowsKnown /\ Spent /\ [Next]_vars => Spent'
<1> SUFFICES ASSUME Typed, RowsKnown, Spent, [Next]_vars PROVE Spent'
  OBVIOUS
<1>1. ASSUME NEW a \in Actors, Sweeps(a) \/ Serves(a) PROVE Spent'
  BY <1>1, SweepSpent, ServeSpent
<1>2. ASSUME NEW a \in Handlers,
             (\E l \in Limits : SubmitSet(a, l)) \/ SubmitRemove(a) \/ SubmitReset(a)
      PROVE  Spent'
  <2>1. a \in Actors
    BY DEF Actors
  <2>2. CASE \E l \in Limits : SubmitSet(a, l)
    BY <2>1, <2>2, SubmitSpent DEF SubmitSet
  <2>3. CASE SubmitRemove(a)
    BY <2>1, <2>3, SubmitSpent DEF SubmitRemove
  <2>4. CASE SubmitReset(a)
    BY <2>1, <2>4, SubmitSpent DEF SubmitReset
  <2> QED
    BY <1>2, <2>2, <2>3, <2>4
<1>3. CASE Carry \/ Unreadable \/ ReadableAgain \/ WindowEnds \/ Switch \/ Delete \/ Crash
  BY <1>3, EnvironmentSpent
<1>4. CASE UNCHANGED vars
  BY <1>4 DEF vars, counterVars, Spent
<1> QED
  BY <1>1, <1>2, <1>3, <1>4 DEF Next

\* quota/sweep: no subject is stopped that has carried less, since its limit began
\* to count, than the limit allows, whatever its counter went through: for any
\* number of goroutines, any limits and any traffic.
THEOREM SpentStops == Spec => []StopsOnlyTheSpent
<1>1. Init => Spent
  BY IdleSpent DEF Init, Spent
<1>2. Typed /\ Remembers => RowsKnown
  BY RemembersImplies
<1> QED
  BY <1>1, <1>2, SpentStep, SpentImplies, QuotaInvariant, PTL DEF Spec
=============================================================================

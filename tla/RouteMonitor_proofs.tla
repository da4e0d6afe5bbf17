------------------------ MODULE RouteMonitor_proofs ------------------------
(***************************************************************************)
(* Theorems about the failover of a rule, for any number of destinations   *)
(* and of requests, any thresholds and any bounds.                         *)
(***************************************************************************)
EXTENDS RouteMonitor, TLAPS

(***************************************************************************)
(* Types.                                                                  *)
(***************************************************************************)
LEMMA TableIs ==
  ASSUME NEW on \in SUBSET Dests, NEW out \in SUBSET Dests, NEW f \in BOOLEAN,
         NEW g \in 0..MaxChanges
  PROVE  /\ Table(on, out, f, g) \in Tables
         /\ Table(on, out, f, g).enabled = on /\ Table(on, out, f, g).out = out
         /\ Table(on, out, f, g).failover = f /\ Table(on, out, f, g).gen = g
  BY DEF Table, Tables

LEMMA TableHas ==
  ASSUME NEW t \in Tables
  PROVE  /\ t.enabled \in SUBSET Dests /\ t.out \in SUBSET Dests
         /\ t.failover \in BOOLEAN /\ t.gen \in 0..MaxChanges
  BY DEF Tables

LEMMA RememberedIs ==
  ASSUME NEW s \in States, NEW f \in 0..Failures, NEW u \in 0..Recoveries,
         NEW o \in BOOLEAN, NEW w \in 0..MaxWait
  PROVE  /\ Remembered(s, f, u, o, w) \in Memories
         /\ Remembered(s, f, u, o, w).state = s
         /\ Remembered(s, f, u, o, w).fails = f /\ Remembered(s, f, u, o, w).succs = u
         /\ Remembered(s, f, u, o, w).failover = o
  BY DEF Remembered, Memories

LEMMA MemoryHas ==
  ASSUME NEW m \in Memories
  PROVE  /\ m.state \in States /\ m.fails \in 0..Failures /\ m.succs \in 0..Recoveries
         /\ m.failover \in BOOLEAN /\ m.wait \in 0..MaxWait
  BY DEF Memories

LEMMA RoundIs ==
  ASSUME NEW p \in {"idle", "look", "free", "probe", "write"}, NEW t \in Tables,
         NEW n \in 1..Count + 1, NEW due \in SUBSET Dests, NEW out \in SUBSET Dests,
         NEW c \in BOOLEAN
  PROVE  /\ Round(p, t, n, due, out, c) \in Rounds
         /\ Round(p, t, n, due, out, c).at = p /\ Round(p, t, n, due, out, c).read = t
         /\ Round(p, t, n, due, out, c).next = n /\ Round(p, t, n, due, out, c).out = out
         /\ Round(p, t, n, due, out, c).changed = c
  BY DEF Round, Rounds

LEMMA RoundHas ==
  ASSUME NEW r \in Rounds
  PROVE  /\ r.at \in {"idle", "look", "free", "probe", "write"} /\ r.read \in Tables
         /\ r.next \in 1..Count + 1 /\ r.due \in SUBSET Dests /\ r.out \in SUBSET Dests
         /\ r.changed \in BOOLEAN
  BY DEF Rounds

LEMMA ApplyIs ==
  ASSUME NEW p \in {"none", "start", "ready", "wait", "install"},
         NEW u \in SUBSET Dests, NEW b \in SUBSET Dests
  PROVE  /\ Apply(p, u, b) \in Applies
         /\ Apply(p, u, b).at = p /\ Apply(p, u, b).picture = u /\ Apply(p, u, b).backup = b
  BY DEF Apply, Applies

LEMMA ApplyHas ==
  ASSUME NEW p \in Applies
  PROVE  /\ p.at \in {"none", "start", "ready", "wait", "install"}
         /\ p.picture \in SUBSET Dests /\ p.backup \in SUBSET Dests
  BY DEF Applies

LEMMA NobodyIs ==
  /\ Nothing \in Applies /\ Nothing.at = "none"
  /\ Owing \in Applies /\ Owing.at = "wait"
<1>1. NoPicture \in SUBSET Dests
  BY DEF NoPicture
<1> QED
  BY <1>1, ApplyIs DEF Nothing, Owing

LEMMA NoRowsIs == NoRows \in Tables
<1>1. {} \in SUBSET Dests /\ FALSE \in BOOLEAN /\ 0 \in 0..MaxChanges
  BY MonitorBoundsAssumption
<1> QED
  BY <1>1, TableIs DEF NoRows

LEMMA BetweenIs == Between \in Rounds /\ Between.at = "idle" /\ Between.changed = FALSE
<1>1. 1 \in 1..Count + 1 /\ FALSE \in BOOLEAN /\ {} \in SUBSET Dests
  BY DestinationsAssumption
<1>2. "idle" \in {"idle", "look", "free", "probe", "write"}
  OBVIOUS
<1> QED
  BY <1>1, <1>2, NoRowsIs DEF Between, Round, Rounds

LEMMA UnseenIs ==
  /\ Unseen \in Memories /\ Unseen.state = "Unknown"
  /\ Unseen.fails = 0 /\ Unseen.succs = 0
<1>1. /\ "Unknown" \in States /\ 0 \in 0..Failures /\ 0 \in 0..Recoveries /\ FALSE \in BOOLEAN
      /\ 0 \in 0..MaxWait
  BY ThresholdsAssumption, MonitorBoundsAssumption DEF States
<1> QED
  BY <1>1 DEF Unseen, Remembered, Memories

LEMMA InRotationIs == ASSUME NEW t \in Tables PROVE InRotation(t) \in Pictures
<1>1. t.enabled \ t.out \in SUBSET Dests
  BY TableHas
<1>2. {1} \in SUBSET Dests
  BY DestinationsAssumption DEF Dests
<1>3. ASSUME t.enabled \ t.out = {} PROVE InRotation(t) \in SUBSET Dests /\ InRotation(t) # {}
  <2>1. InRotation(t) = {1}
    BY <1>3 DEF InRotation
  <2>2. {1} # {}
    OBVIOUS
  <2> QED
    BY <1>2, <2>1, <2>2
<1>4. ASSUME t.enabled \ t.out # {} PROVE InRotation(t) \in SUBSET Dests /\ InRotation(t) # {}
  <2>1. InRotation(t) = t.enabled \ t.out
    BY <1>4 DEF InRotation
  <2> QED
    BY <1>1, <1>4, <2>1
<1>5. InRotation(t) \in SUBSET Dests /\ InRotation(t) # {}
  BY <1>3, <1>4
<1> QED
  BY <1>5, Zenon DEF Pictures

LEMMA SoonIs == ASSUME NEW w \in 0..MaxWait PROVE Soon(w) \in 0..MaxWait
  BY MonitorBoundsAssumption DEF Soon

LEMMA RecordIs ==
  ASSUME NEW m \in Memories, NEW b \in BOOLEAN, NEW f \in BOOLEAN, NEW w \in 0..MaxWait
  PROVE  Record(m, b, f, w) \in Memories
<1> DEFINE fails == IF b THEN 0 ELSE Lowest(m.fails + 1, Failures)
           succs == IF b THEN Lowest(m.succs + 1, Recoveries) ELSE 0
           state == IF succs = Recoveries THEN "Up" ELSE IF fails = Failures THEN "Down"
                    ELSE m.state
<1>1. fails \in 0..Failures /\ succs \in 0..Recoveries
  BY MemoryHas, ThresholdsAssumption DEF Lowest
<1>2. state \in States
  BY MemoryHas DEF States
<1>3. Record(m, b, f, w) = Remembered(state, fails, succs, f /\ state = "Down", w)
  BY DEF Record
<1> HIDE DEF fails, succs, state
<1> DEFINE kept == f /\ state = "Down"
<1>4. kept \in BOOLEAN
  OBVIOUS
<1> HIDE DEF kept
<1>5. Remembered(state, fails, succs, kept, w) \in Memories
  BY <1>1, <1>2, <1>4 DEF Remembered, Memories
<1>6. Record(m, b, f, w) = Remembered(state, fails, succs, kept, w)
  BY <1>3 DEF kept
<1> QED
  BY <1>5, <1>6

LEMMA StreakIs ==
  ASSUME TypeOK, NEW d \in Dests, NEW b \in BOOLEAN
  PROVE  Streak(d, b) \in -Recoveries..Failures
  BY ThresholdsAssumption DEF TypeOK, Streak, Lowest, Highest

LEMMA SuppressIs ==
  ASSUME TypeOK, NEW d \in Dests, NEW b \in BOOLEAN
  PROVE  Suppress(d, b) \in Tables
<1>1. /\ rows.enabled \in SUBSET Dests /\ rows.out \in SUBSET Dests
      /\ rows.failover \in BOOLEAN /\ rows.gen \in 0..MaxChanges /\ rows \in Tables
  BY TableHas DEF TypeOK
<1>2. (IF b THEN rows.out \cup {d} ELSE rows.out \ {d}) \in SUBSET Dests
  BY <1>1
<1> QED
  BY <1>1, <1>2, TableIs DEF Suppress

LEMMA PastIs ==
  ASSUME TypeOK, NEW d \in Dests, NEW due \in SUBSET Dests, NEW out \in SUBSET Dests
  PROVE  /\ Past(d, due, out) \in Rounds /\ Past(d, due, out).changed = FALSE
         /\ Past(d, due, out).at \in {"idle", "look", "probe"}
<1>1. round.read \in Tables
  BY RoundHas DEF TypeOK
<1>2. FALSE \in BOOLEAN /\ 1 \in 1..Count + 1
  BY DestinationsAssumption
<1>3. CASE d < Count
  <2>1. d + 1 \in 1..Count + 1
    BY <1>3, DestinationsAssumption DEF Dests
  <2>2. Past(d, due, out) = Round("look", round.read, d + 1, due, out, FALSE)
    BY <1>3 DEF Past
  <2> QED
    BY <1>1, <1>2, <2>1, <2>2 DEF Round, Rounds
<1>4. CASE ~(d < Count)
  <2>1. CASE due # {}
    <3>1. Past(d, due, out) = Round("probe", round.read, 1, due, out, FALSE)
      BY <1>4, <2>1 DEF Past
    <3> QED
      BY <1>1, <1>2, <3>1 DEF Round, Rounds
  <2>2. CASE due = {}
    BY <1>4, <2>2, BetweenIs DEF Past
  <2> QED
    BY <2>1, <2>2
<1> QED
  BY <1>3, <1>4

\* The monitor writes rows only when it owes no apply; the lock is held by whoever
\* installs, and by a Save that has yet to read what it wrote; and who installs has
\* a ruleset to install and one to put back.
Held(a) ==
  /\ lock = a => apply[a].at \in {"wait", "install"}
  /\ apply[a].at = "install" => lock = a
  /\ apply[a].at \in {"ready", "install"} =>
       apply[a].picture \in Pictures /\ apply[a].backup \in Pictures
  /\ apply[a].at = "wait" /\ lock = a => apply[a].backup \in Pictures
Ordered ==
  /\ round.at \in {"free", "write"} => apply[Monitor].at = "none"
  /\ \A a \in Appliers : Held(a)

\* A destination to return to the rotation is one of the rule's.
Typed == TypeOK /\ (round.at = "free" => round.next \in Dests)

LEMMA OutcomeIs ==
  ASSUME TypeOK, NEW ok \in Outcomes, Tally(ok)
  PROVE  ok \in BOOLEAN /\ faults' \in 0..MaxFaults
<1>1. ok \in BOOLEAN /\ (~ok => faults < MaxFaults)
  BY DEF Outcomes
<1> QED
  BY <1>1, MonitorBoundsAssumption DEF Tally, TypeOK

LEMMA TypedInit == Init => Typed
<1> SUFFICES ASSUME Init PROVE Typed
  OBVIOUS
<1>1. Dests \in SUBSET Dests /\ Dests # {} /\ {} \in SUBSET Dests /\ 0 \in 0..MaxChanges
  BY DestinationsAssumption, MonitorBoundsAssumption DEF Dests
<1>2. rows \in Tables /\ watched \in SUBSET Dests
  BY <1>1, TableIs DEF Init
<1>3. memory \in [Dests -> Memories] /\ round \in Rounds /\ apply \in [Appliers -> Applies]
  BY UnseenIs, BetweenIs, NobodyIs DEF Init
<1>4. installed \in Pictures
  BY <1>1, Zenon DEF Init, Pictures
<1>5. streak \in [Dests -> -Recoveries..Failures]
  BY ThresholdsAssumption DEF Init
<1>6. /\ memGen \in 0..MaxChanges /\ lock \in Appliers \cup {Free} /\ accepted \in SUBSET Dests
      /\ condemned \in SUBSET Dests /\ disturbed \in BOOLEAN /\ behind \in BOOLEAN
      /\ changes \in 0..MaxChanges /\ faults \in 0..MaxFaults
  <2>1. memGen \in 0..MaxChanges /\ changes \in 0..MaxChanges /\ faults \in 0..MaxFaults
    BY MonitorBoundsAssumption DEF Init
  <2>2. lock \in Appliers \cup {Free} /\ accepted \in SUBSET Dests /\ condemned \in SUBSET Dests
    BY <1>1 DEF Init
  <2>3. disturbed \in BOOLEAN /\ behind \in BOOLEAN
    BY DEF Init
  <2> QED
    BY <2>1, <2>2, <2>3
<1>7. round.at # "free"
  BY BetweenIs DEF Init
<1> QED
  BY <1>2, <1>3, <1>4, <1>5, <1>6, <1>7 DEF TypeOK, Typed

LEMMA TypedMonitor ==
  ASSUME Typed, Watches
  PROVE  Typed'
<1> USE DEF Typed
<1>1. ASSUME Begin PROVE Typed'
  <2>1. round' \in Rounds /\ round'.at = "look"
    <3>1. rows \in Tables /\ rows.out \in SUBSET Dests /\ FALSE \in BOOLEAN
          /\ 1 \in 1..Count + 1
      BY TableHas, DestinationsAssumption DEF TypeOK
    <3> QED
      BY <1>1, <3>1 DEF Begin, Round, Rounds
  <2>2. memory' \in [Dests -> Memories] /\ memGen' \in 0..MaxChanges
    BY <1>1, UnseenIs, TableHas DEF Begin, TypeOK
  <2> QED
    BY <1>1, <2>1, <2>2 DEF Begin, TypeOK, tableVars, applyVars, boundVars
<1>2. ASSUME NEW d \in Dests, Ignore(d) \/ Watch(d) PROVE Typed'
  <2>1. memory' \in [Dests -> Memories]
    <3>1. CASE Ignore(d)
      <4>1. Remembered("Disabled", 0, 0, FALSE, Soon(memory[d].wait)) \in Memories
        <5>1. memory[d] \in Memories
          BY DEF TypeOK
        <5>2. memory[d].wait \in 0..MaxWait
          BY <5>1, MemoryHas
        <5>3. /\ "Disabled" \in States /\ 0 \in 0..Failures /\ 0 \in 0..Recoveries
              /\ FALSE \in BOOLEAN
          BY ThresholdsAssumption DEF States
        <5> QED
          BY <5>2, <5>3, SoonIs DEF Remembered, Memories
      <4> QED
        BY <3>1, <4>1 DEF Ignore, TypeOK
    <3>2. CASE Watch(d)
      <4> DEFINE m == Remembered(IF memory[d].state = "Disabled" THEN "Unknown" ELSE memory[d].state,
                         memory[d].fails, memory[d].succs, memory[d].failover, Soon(memory[d].wait))
      <4>1. m \in Memories
        <5>1. memory[d] \in Memories
          BY DEF TypeOK
        <5>2. (IF memory[d].state = "Disabled" THEN "Unknown" ELSE memory[d].state) \in States
          BY <5>1, MemoryHas DEF States
        <5> QED
          BY <5>1, <5>2, MemoryHas, SoonIs DEF Remembered, Memories
      <4>2. memory' = [memory EXCEPT ![d] = m]
        BY <3>2 DEF Watch, TypeOK
      <4> HIDE DEF m
      <4> QED
        BY <4>1, <4>2 DEF TypeOK
    <3> QED
      BY <1>2, <3>1, <3>2
  <2>2. round' \in Rounds /\ (round'.at = "free" => round'.next = d)
    <3>1. /\ round.read \in Tables /\ round.due \in SUBSET Dests /\ round.out \in SUBSET Dests
          /\ round.due \cup {d} \in SUBSET Dests /\ d \in 1..Count + 1 /\ FALSE \in BOOLEAN
      BY RoundHas, DestinationsAssumption DEF TypeOK, Dests
    <3>2. /\ Round("free", round.read, d, round.due, round.out, FALSE) \in Rounds
          /\ Round("free", round.read, d, round.due, round.out, FALSE).next = d
      BY <3>1 DEF Round, Rounds
    <3>3. \A due \in SUBSET Dests : Past(d, due, round.out) \in Rounds
                                    /\ Past(d, due, round.out).at # "free"
      BY <3>1, PastIs
    <3>4. CASE Ignore(d)
      BY <3>1, <3>2, <3>3, <3>4 DEF Ignore
    <3>5. CASE Watch(d)
      <4>1. PICK due \in {round.due \cup {d}, round.due} : round' = Past(d, due, round.out)
        BY <3>5 DEF Watch
      <4> QED
        BY <3>1, <3>3, <4>1
    <3> QED
      BY <1>2, <3>4, <3>5
  <2> QED
    BY <1>2, <2>1, <2>2 DEF Ignore, Watch, TypeOK, tableVars, applyVars, historyVars, boundVars
<1>3. ASSUME FreeWrite PROVE Typed'
  <2>1. PICK ok \in Outcomes :
           /\ rows' = IF ok THEN Suppress(round.next, FALSE) ELSE rows
           /\ round' = Past(round.next, round.due,
                            IF ok THEN round.out \ {round.next} ELSE round.out)
           /\ apply' = IF ok THEN [apply EXCEPT ![Monitor] = Owing] ELSE apply
           /\ disturbed' = (disturbed \/ ~ok)
           /\ Tally(ok)
    BY <1>3 DEF FreeWrite
  <2>2. ok \in BOOLEAN /\ faults' \in 0..MaxFaults
    BY <2>1, OutcomeIs
  <2>3. round.next \in Dests /\ rows \in Tables /\ round.due \in SUBSET Dests
        /\ round.out \in SUBSET Dests /\ round.out \ {round.next} \in SUBSET Dests
    BY <1>3, RoundHas DEF FreeWrite, TypeOK
  <2>4. rows' \in Tables
    BY <2>1, <2>3, SuppressIs
  <2>5. round' \in Rounds /\ round'.at # "free"
    BY ZenonT(60), <2>1, <2>3, PastIs
  <2>6. apply' \in [Appliers -> Applies]
    BY <2>1, NobodyIs DEF TypeOK
  <2>7. disturbed' \in BOOLEAN
    BY <2>1 DEF TypeOK
  <2> QED
    BY <1>3, <2>2, <2>4, <2>5, <2>6, <2>7 DEF FreeWrite, TypeOK
<1>4. ASSUME Probe PROVE Typed'
  <2>1. PICK answered \in SUBSET round.due, wait \in [round.due -> 0..MaxWait] :
           /\ memory' = [d \in Dests |->
                IF d \in round.due
                THEN Record(memory[d], d \in answered, round.read.failover, wait[d])
                ELSE memory[d]]
           /\ streak' = [d \in Dests |->
                IF d \in round.due /\ round.read.gen = rows.gen THEN Streak(d, d \in answered)
                ELSE streak[d]]
    BY <1>4 DEF Probe
  <2>2. memory' \in [Dests -> Memories]
    <3>1. ASSUME NEW d \in Dests, d \in round.due
          PROVE  Record(memory[d], d \in answered, round.read.failover, wait[d]) \in Memories
      <4>1. memory[d] \in Memories /\ round.read.failover \in BOOLEAN
        BY RoundHas, TableHas DEF TypeOK
      <4>2. (d \in answered) \in BOOLEAN /\ wait[d] \in 0..MaxWait
        BY <3>1
      <4> QED
        BY <4>1, <4>2, RecordIs
    <3> QED
      BY <2>1, <3>1 DEF TypeOK
  <2>3. streak' \in [Dests -> -Recoveries..Failures]
    <3>1. ASSUME NEW d \in Dests PROVE Streak(d, d \in answered) \in -Recoveries..Failures
      <4>1. (d \in answered) \in BOOLEAN
        OBVIOUS
      <4> QED
        BY <4>1, StreakIs
    <3> QED
      BY <2>1, <3>1 DEF TypeOK
  <2>4. condemned' \in SUBSET Dests
    BY <1>4 DEF Probe
  <2>5. round' \in Rounds /\ round'.at = "write"
    <3>1. round.read \in Tables /\ round.out \in SUBSET Dests /\ 1 \in 1..Count + 1
          /\ FALSE \in BOOLEAN
      BY RoundHas, DestinationsAssumption DEF TypeOK
    <3> QED
      BY <1>4, <3>1 DEF Probe, Round, Rounds
  <2> QED
    BY <1>4, <2>2, <2>3, <2>4, <2>5 DEF Probe, TypeOK, tableVars, applyVars, boundVars
<1>5. ASSUME EndRound PROVE Typed'
  <2>1. apply' \in [Appliers -> Applies]
    BY <1>5, NobodyIs DEF EndRound, TypeOK
  <2>2. round' \in Rounds /\ round'.at = "idle"
    BY <1>5, BetweenIs DEF EndRound
  <2> QED
    BY <1>5, <2>1, <2>2 DEF EndRound, TypeOK, tableVars, historyVars, boundVars
<1>6. ASSUME NEW d \in Dests, WriteOne(d) PROVE Typed'
  <2> DEFINE after(ok) == IF ~ok THEN round.out
                          ELSE IF d \in Wanted THEN round.out \cup {d} ELSE round.out \ {d}
  <2>1. PICK ok \in Outcomes :
           /\ rows' = IF ok THEN Suppress(d, d \in Wanted) ELSE rows
           /\ round' = Round("write", round.read, d + 1, {}, after(ok), round.changed \/ ok)
           /\ disturbed' = (disturbed \/ ~ok)
           /\ Tally(ok)
    BY <1>6 DEF WriteOne
  <2>2. ok \in BOOLEAN /\ faults' \in 0..MaxFaults
    BY <2>1, OutcomeIs
  <2>3. rows' \in Tables
    <3>1. (d \in Wanted) \in BOOLEAN
      OBVIOUS
    <3> QED
      BY <2>1, <3>1, SuppressIs DEF TypeOK
  <2>4. round' \in Rounds /\ round'.at = "write"
    <3>1. round.read \in Tables /\ round.out \in SUBSET Dests /\ {} \in SUBSET Dests
          /\ d + 1 \in 1..Count + 1
      BY RoundHas, DestinationsAssumption DEF TypeOK, Dests
    <3>2. after(ok) \in SUBSET Dests
      BY <3>1
    <3>3. (round.changed \/ ok) \in BOOLEAN
      BY <2>2
    <3> HIDE DEF after
    <3> QED
      BY <2>1, <3>1, <3>2, <3>3 DEF Round, Rounds
  <2>5. disturbed' \in BOOLEAN
    BY <2>1 DEF TypeOK
  <2> QED
    BY <1>6, <2>2, <2>3, <2>4, <2>5 DEF WriteOne, TypeOK, applyVars
<1> QED
  BY <1>1, <1>2, <1>3, <1>4, <1>5, <1>6 DEF Watches

LEMMA TypedChanges ==
  ASSUME Typed, NEW a \in Changers,
         Save(a) \/ ApplyAll(a) \/ SwitchMonitoring(a) \/ \E d \in Dests : Toggle(a, d)
  PROVE  Typed'
<1> USE DEF Typed
<1>1. a \in Appliers
  BY DEF Appliers
<1>2. rows \in Tables /\ InRotation(rows) \in SUBSET Dests /\ changes \in 0..MaxChanges
  BY InRotationIs DEF TypeOK, Pictures
<1>3. changes' \in 0..MaxChanges /\ changes + 1 \in 0..MaxChanges
  <2>1. Change(a)
    BY DEF Save, ApplyAll, SwitchMonitoring, Toggle
  <2> QED
    BY <1>2, <2>1, MonitorBoundsAssumption DEF Change
<1>4. CASE Save(a)
  <2>1. PICK s \in Saves : rows' = Table(s.on, {}, s.failover, changes + 1) /\ watched' = s.watch
    BY <1>4 DEF Save
  <2>2. rows' \in Tables /\ watched' \in SUBSET Dests
    <3>1. s.on \in SUBSET Dests /\ s.failover \in BOOLEAN /\ s.watch \in SUBSET Dests
          /\ {} \in SUBSET Dests
      BY SavesAssumption
    <3> QED
      BY <1>3, <2>1, <3>1 DEF Table, Tables
  <2>3. apply' \in [Appliers -> Applies] /\ lock' \in Appliers \cup {Free}
    <3>1. Apply("wait", NoPicture, InRotation(rows)) \in Applies
      BY <1>2 DEF Apply, Applies, NoPicture
    <3> QED
      BY <1>1, <1>4, <3>1 DEF Save, TypeOK
  <2>4. streak' \in [Dests -> -Recoveries..Failures] /\ condemned' \in SUBSET Dests
    BY <1>4, ThresholdsAssumption DEF Save
  <2>5. disturbed' \in BOOLEAN
    BY <1>4 DEF Save
  <2> QED
    BY <1>3, <1>4, <2>2, <2>3, <2>4, <2>5 DEF Save, TypeOK, monitorVars
<1>5. CASE ApplyAll(a)
  <2>1. apply' \in [Appliers -> Applies]
    BY <1>5, NobodyIs DEF ApplyAll, TypeOK
  <2> QED
    BY <1>3, <1>5, <2>1 DEF ApplyAll, TypeOK, tableVars, monitorVars, historyVars
<1>6. CASE SwitchMonitoring(a)
  <2>1. watched' \in SUBSET Dests
    BY <1>6 DEF SwitchMonitoring
  <2> QED
    BY <1>3, <1>6, <2>1 DEF SwitchMonitoring, TypeOK, monitorVars, applyVars, historyVars
<1>7. ASSUME NEW d \in Dests, Toggle(a, d) PROVE Typed'
  <2>1. rows' \in Tables
    <3>1. /\ rows.enabled \ {d} \in SUBSET Dests /\ rows.enabled \cup {d} \in SUBSET Dests
          /\ rows.out \in SUBSET Dests /\ rows.failover \in BOOLEAN /\ rows.gen \in 0..MaxChanges
      BY <1>2, TableHas
    <3> QED
      BY <1>7, <3>1 DEF Toggle, Table, Tables
  <2>2. apply' \in [Appliers -> Applies]
    BY <1>7, NobodyIs DEF Toggle, TypeOK
  <2>3. disturbed' \in BOOLEAN
    BY <1>7 DEF Toggle
  <2> QED
    BY <1>3, <1>7, <2>1, <2>2, <2>3 DEF Toggle, TypeOK, monitorVars
<1> QED
  BY <1>4, <1>5, <1>6, <1>7

LEMMA TypedApply ==
  ASSUME Typed, Ordered, NEW a \in Appliers, ReadRows(a) \/ Install(a)
  PROVE  Typed'
<1> USE DEF Typed
<1>1. /\ InRotation(rows) \in Pictures /\ InRotation(rows) \in SUBSET Dests
      /\ apply[a].picture \in SUBSET Dests /\ apply[a].backup \in SUBSET Dests
  BY InRotationIs, ApplyHas DEF TypeOK, Pictures
<1>2. CASE ReadRows(a)
  <2>1. PICK ok \in Outcomes :
           /\ lock' = IF ok THEN a ELSE Free
           /\ apply' = [apply EXCEPT ![a] = IF ~ok THEN Nothing
                          ELSE Apply("install", InRotation(rows),
                                     IF lock = a THEN apply[a].backup ELSE InRotation(rows))]
           /\ behind' = (behind \/ ~ok)
           /\ Tally(ok)
    BY <1>2 DEF ReadRows
  <2>2. ok \in BOOLEAN /\ faults' \in 0..MaxFaults
    BY <2>1, OutcomeIs
  <2>3. apply' \in [Appliers -> Applies]
    <3>1. \A b \in SUBSET Dests : Apply("install", InRotation(rows), b) \in Applies
      BY <1>1 DEF Apply, Applies
    <3>2. (IF ~ok THEN Nothing
           ELSE Apply("install", InRotation(rows),
                      IF lock = a THEN apply[a].backup ELSE InRotation(rows))) \in Applies
      BY <1>1, <3>1, NobodyIs
    <3> QED
      BY <2>1, <3>2 DEF TypeOK
  <2>4. lock' \in Appliers \cup {Free}
    BY <2>1
  <2>5. behind' \in BOOLEAN
    BY <2>1 DEF TypeOK
  <2> QED
    BY <1>2, <2>2, <2>3, <2>4, <2>5 DEF ReadRows, TypeOK, tableVars, monitorVars
<1>3. CASE Install(a)
  <2>1. PICK ok \in Outcomes :
           /\ installed' \in IF ok THEN {apply[a].picture}
                             ELSE {installed, apply[a].picture, PutBack(a)}
           /\ accepted' = IF ok THEN apply[a].picture ELSE accepted
           /\ behind' = IF ok THEN a = Boot /\ apply[a].picture # InRotation(rows) ELSE TRUE
           /\ Tally(ok)
    BY <1>3 DEF Install
  <2>2. ok \in BOOLEAN /\ faults' \in 0..MaxFaults
    BY <2>1, OutcomeIs
  <2>3. apply[a].picture \in Pictures /\ apply[a].backup \in Pictures
    BY <1>3 DEF Install, Ordered, Held
  <2>4. PutBack(a) \in Pictures
    <3>1. accepted # NoPicture => accepted \in Pictures
      BY Zenon DEF TypeOK, NoPicture, Pictures
    <3> QED
      BY <2>3, <3>1 DEF PutBack
  <2>5. installed' \in Pictures /\ accepted' \in SUBSET Dests
    BY <1>1, <2>1, <2>3, <2>4 DEF TypeOK
  <2>6. behind' \in BOOLEAN
    BY <2>1
  <2>7. lock' \in Appliers \cup {Free} /\ apply' \in [Appliers -> Applies]
    BY <1>3, NobodyIs DEF Install, TypeOK
  <2> QED
    BY <1>3, <2>2, <2>5, <2>6, <2>7 DEF Install, TypeOK, tableVars, monitorVars
<1> QED
  BY <1>2, <1>3

LEMMA TypedBoot ==
  ASSUME Typed, Ordered, BootRead \/ BootAcquire
  PROVE  Typed'
<1> USE DEF Typed
<1>1. /\ Boot \in Appliers /\ InRotation(rows) \in SUBSET Dests
      /\ apply[Boot].picture \in SUBSET Dests /\ apply[Boot].backup \in SUBSET Dests
  BY InRotationIs, ApplyHas DEF TypeOK, Pictures, Appliers
<1>2. apply' \in [Appliers -> Applies] /\ lock' \in Appliers \cup {Free}
  <2>1. /\ Apply("ready", InRotation(rows), InRotation(rows)) \in Applies
        /\ Apply("install", apply[Boot].picture, apply[Boot].backup) \in Applies
    BY <1>1 DEF Apply, Applies
  <2> QED
    BY <1>1, <2>1 DEF BootRead, BootAcquire, TypeOK
<1> QED
  BY <1>2 DEF BootRead, BootAcquire, TypeOK, tableVars, monitorVars, historyVars, boundVars

LEMMA TypedRestart ==
  ASSUME Typed, Restart
  PROVE  Typed'
<1> USE DEF Typed
<1>1. faults' \in 0..MaxFaults
  BY MonitorBoundsAssumption DEF Restart, TypeOK
<1>2. memory' \in [Dests -> Memories] /\ memGen' \in 0..MaxChanges
  BY UnseenIs, TableHas DEF Restart, TypeOK
<1>3. round' \in Rounds /\ round'.at = "idle"
  BY BetweenIs DEF Restart
<1>4. apply' \in [Appliers -> Applies]
  <2>1. Apply("start", NoPicture, NoPicture) \in Applies
    <3>1. NoPicture \in SUBSET Dests
      BY DEF NoPicture
    <3> QED
      BY <3>1 DEF Apply, Applies
  <2> QED
    BY <2>1, NobodyIs DEF Restart
<1>5. lock' \in Appliers \cup {Free} /\ accepted' \in SUBSET Dests
  BY DEF Restart, NoPicture
<1> QED
  BY <1>1, <1>2, <1>3, <1>4, <1>5 DEF Restart, TypeOK, tableVars, historyVars

(***************************************************************************)
(* The lock and what is owed.                                              *)
(***************************************************************************)
LEMMA OrderedInit == Init => Ordered
  BY BetweenIs, NobodyIs, NamesAssumption DEF Init, Ordered, Held

\* An applier that neither does anything nor gets or loses the lock stays as it was.
LEMMA HeldOthers ==
  ASSUME NEW a \in Appliers, Held(a), apply'[a] = apply[a], (lock' = a) = (lock = a)
  PROVE  Held(a)'
  BY DEF Held

LEMMA OrderedMonitor ==
  ASSUME Typed, Ordered, Watches
  PROVE  Ordered'
<1>1. Monitor \in Appliers /\ Held(Monitor) /\ Monitor # Free
  BY NamesAssumption DEF Appliers, Ordered
<1>2. lock' = lock
  BY DEF Watches, Begin, Ignore, Watch, FreeWrite, Probe, WriteOne, EndRound, applyVars
<1>3. CASE apply' = apply
  <2>1. round'.at \in {"free", "write"} => apply[Monitor].at = "none"
    <3>1. ASSUME Begin PROVE round'.at = "look"
      BY <3>1 DEF Begin, Round
    <3>2. ASSUME NEW d \in Dests, Ignore(d) \/ Watch(d) PROVE apply[Monitor].at = "none"
      BY <3>2 DEF Ignore, Watch, Looking
    <3>3. ASSUME NEW d \in Dests, WriteOne(d) PROVE apply[Monitor].at = "none"
      BY <3>3 DEF WriteOne, Ordered
    <3>4. ASSUME FreeWrite \/ Probe \/ EndRound
          PROVE  apply[Monitor].at = "none"
      BY <3>4 DEF FreeWrite, Probe, EndRound, Ordered
    <3> QED
      BY <3>1, <3>2, <3>3, <3>4 DEF Watches
  <2> QED
    BY <1>2, <1>3, <2>1 DEF Ordered, Held
<1>4. CASE apply' # apply
  <2>1. /\ apply' = [apply EXCEPT ![Monitor] = Owing] /\ apply[Monitor].at = "none"
        /\ round'.at \in {"idle", "look", "probe"}
    <3>1. ~Begin /\ ~Probe /\ \A d \in Dests : ~Ignore(d) /\ ~Watch(d) /\ ~WriteOne(d)
      BY <1>4 DEF Begin, Probe, Ignore, Watch, WriteOne, applyVars
    <3>2. ASSUME FreeWrite PROVE apply' = [apply EXCEPT ![Monitor] = Owing]
                                 /\ round'.at \in {"idle", "look", "probe"}
      <4>1. PICK ok \in Outcomes :
               /\ round' = Past(round.next, round.due,
                                IF ok THEN round.out \ {round.next} ELSE round.out)
               /\ apply' = IF ok THEN [apply EXCEPT ![Monitor] = Owing] ELSE apply
        BY <3>2 DEF FreeWrite
      <4>2. round.next \in Dests /\ round.due \in SUBSET Dests
            /\ round.out \in SUBSET Dests /\ round.out \ {round.next} \in SUBSET Dests
        BY <3>2, RoundHas DEF FreeWrite, Typed, TypeOK
      <4> QED
        BY <1>4, <4>1, <4>2, PastIs DEF Typed
    <3>3. ASSUME EndRound PROVE apply' = [apply EXCEPT ![Monitor] = Owing] /\ round'.at = "idle"
      BY <1>4, <3>3, BetweenIs DEF EndRound
    <3>4. FreeWrite \/ EndRound
      BY <3>1 DEF Watches
    <3> QED
      BY <3>2, <3>3, <3>4 DEF Ordered, FreeWrite, EndRound
  <2>2. apply'[Monitor] = Owing /\ \A a \in Appliers \ {Monitor} : apply'[a] = apply[a]
    BY <1>1, <2>1 DEF Typed, TypeOK
  <2>3. Held(Monitor)'
    BY <1>1, <1>2, <2>1, <2>2, NobodyIs DEF Held
  <2>4. ASSUME NEW a \in Appliers, a # Monitor PROVE Held(a)'
    BY <1>2, <2>2, <2>4, HeldOthers DEF Ordered
  <2> QED
    BY <2>1, <2>3, <2>4 DEF Ordered
<1> QED
  BY <1>3, <1>4

LEMMA OrderedChanges ==
  ASSUME Typed, Ordered, NEW a \in Changers,
         Save(a) \/ ApplyAll(a) \/ SwitchMonitoring(a) \/ \E d \in Dests : Toggle(a, d)
  PROVE  Ordered'
<1>1. a \in Appliers /\ a # Monitor /\ a # Free /\ Free \notin Appliers /\ Monitor \in Appliers
  BY NamesAssumption DEF Appliers
<1>2. apply[a].at = "none" /\ Held(a)
  BY <1>1 DEF Save, ApplyAll, SwitchMonitoring, Toggle, Change, Ordered
<1>3. round' = round
  BY DEF Save, ApplyAll, SwitchMonitoring, Toggle, monitorVars
<1>4. CASE Save(a)
  <2> DEFINE p == Apply("wait", NoPicture, InRotation(rows))
  <2>1. lock = Free /\ lock' = a /\ apply' = [apply EXCEPT ![a] = p]
    BY <1>4 DEF Save
  <2>2. p.at = "wait" /\ p.backup \in Pictures
    BY InRotationIs DEF Apply, Typed, TypeOK
  <2> HIDE DEF p
  <2>3. apply'[a] = p /\ \A b \in Appliers \ {a} : apply'[b] = apply[b]
    BY <1>1, <2>1 DEF Typed, TypeOK
  <2>4. Held(a)'
    BY <2>1, <2>2, <2>3 DEF Held
  <2>5. ASSUME NEW b \in Appliers, b # a PROVE Held(b)'
    BY <1>1, <2>1, <2>3, <2>5, HeldOthers DEF Ordered
  <2> QED
    BY <1>1, <1>3, <2>3, <2>4, <2>5 DEF Ordered
<1>5. CASE ApplyAll(a) \/ \E d \in Dests : Toggle(a, d)
  <2>1. lock' = lock /\ apply' = [apply EXCEPT ![a] = Owing]
    BY <1>5 DEF ApplyAll, Toggle
  <2>2. apply'[a] = Owing /\ \A b \in Appliers \ {a} : apply'[b] = apply[b]
    BY <1>1, <2>1 DEF Typed, TypeOK
  <2>3. Held(a)'
    BY <1>2, <2>1, <2>2, NobodyIs DEF Held
  <2>4. ASSUME NEW b \in Appliers, b # a PROVE Held(b)'
    BY <2>1, <2>2, <2>4, HeldOthers DEF Ordered
  <2> QED
    BY <1>1, <1>3, <2>2, <2>3, <2>4 DEF Ordered
<1>6. CASE SwitchMonitoring(a)
  BY <1>3, <1>6 DEF SwitchMonitoring, applyVars, Ordered, Held
<1> QED
  BY <1>4, <1>5, <1>6

LEMMA OrderedApply ==
  ASSUME Typed, Ordered, NEW a \in Appliers, ReadRows(a) \/ Install(a)
  PROVE  Ordered'
<1>1. Free \notin Appliers /\ Monitor \in Appliers /\ Held(a)
  BY NamesAssumption DEF Appliers, Ordered
<1>2. round' = round /\ apply[a].at \in {"wait", "install"} /\ lock \in {Free, a}
  BY <1>1 DEF ReadRows, Install, monitorVars, Held
<1>3. PICK p \in Applies : apply' = [apply EXCEPT ![a] = p]
                           /\ \/ p.at = "none" /\ lock' = Free
                              \/ /\ p.at = "install" /\ lock' = a
                                 /\ p.picture \in Pictures /\ p.backup \in Pictures
  <2>1. CASE ReadRows(a)
    <3>1. PICK ok \in BOOLEAN :
            /\ lock' = IF ok THEN a ELSE Free
            /\ apply' = [apply EXCEPT ![a] = IF ~ok THEN Nothing
                           ELSE Apply("install", InRotation(rows),
                                      IF lock = a THEN apply[a].backup ELSE InRotation(rows))]
      BY <2>1 DEF ReadRows, Outcomes
    <3>2. CASE ok
      <4> DEFINE back == IF lock = a THEN apply[a].backup ELSE InRotation(rows)
      <4>1. InRotation(rows) \in Pictures /\ back \in Pictures
        BY <1>1, <2>1, InRotationIs DEF Typed, TypeOK, ReadRows, Held
      <4> HIDE DEF back
      <4>2. /\ Apply("install", InRotation(rows), back) \in Applies
            /\ Apply("install", InRotation(rows), back).at = "install"
            /\ Apply("install", InRotation(rows), back).picture = InRotation(rows)
            /\ Apply("install", InRotation(rows), back).backup = back
        <5>1. InRotation(rows) \in SUBSET Dests /\ back \in SUBSET Dests
          BY <4>1, Zenon DEF Pictures
        <5> QED
          BY <5>1 DEF Apply, Applies
      <4>3. lock' = a /\ apply' = [apply EXCEPT ![a] = Apply("install", InRotation(rows), back)]
        BY <3>1, <3>2 DEF back
      <4> QED
        BY <4>1, <4>2, <4>3
    <3>3. CASE ~ok
      BY <3>1, <3>3, NobodyIs
    <3> QED
      BY <3>2, <3>3
  <2>2. CASE Install(a)
    BY <2>2, NobodyIs DEF Install
  <2> QED
    BY <2>1, <2>2
<1>4. apply'[a] = p /\ \A b \in Appliers \ {a} : apply'[b] = apply[b]
  BY <1>3 DEF Typed, TypeOK
<1>5. Held(a)'
  BY <1>1, <1>3, <1>4 DEF Held
<1>6. ASSUME NEW b \in Appliers, b # a PROVE Held(b)'
  BY <1>1, <1>2, <1>3, <1>4, <1>6, HeldOthers DEF Ordered
<1>7. round'.at \in {"free", "write"} => apply'[Monitor].at = "none"
  BY <1>1, <1>2, <1>4 DEF Ordered
<1> QED
  BY <1>5, <1>6, <1>7 DEF Ordered

LEMMA OrderedBoot ==
  ASSUME Typed, Ordered, BootRead \/ BootAcquire
  PROVE  Ordered'
<1>1. Boot \in Appliers /\ Monitor \in Appliers /\ Monitor # Boot /\ Free \notin Appliers
      /\ Held(Boot) /\ InRotation(rows) \in Pictures
  BY NamesAssumption, InRotationIs DEF Appliers, Ordered, Typed, TypeOK
<1>2. round' = round
  BY DEF BootRead, BootAcquire, monitorVars
<1>3. \A b \in Appliers \ {Boot} : apply'[b] = apply[b]
  BY <1>1 DEF BootRead, BootAcquire, Typed, TypeOK
<1>4. ASSUME BootRead PROVE Held(Boot)' /\ lock' = lock
  <2> DEFINE p == Apply("ready", InRotation(rows), InRotation(rows))
  <2>1. p.at = "ready" /\ p.picture = InRotation(rows) /\ p.backup = InRotation(rows)
    BY DEF Apply
  <2>2. apply' = [apply EXCEPT ![Boot] = p] /\ lock' = lock /\ apply[Boot].at = "start"
    BY <1>4 DEF BootRead
  <2> HIDE DEF p
  <2>3. apply'[Boot] = p
    BY <1>1, <2>2 DEF Typed, TypeOK
  <2> QED
    BY <1>1, <2>1, <2>2, <2>3 DEF Held
<1>5. ASSUME BootAcquire PROVE Held(Boot)' /\ lock = Free /\ lock' = Boot
  <2> DEFINE p == Apply("install", apply[Boot].picture, apply[Boot].backup)
  <2>1. p.at = "install" /\ p.picture = apply[Boot].picture /\ p.backup = apply[Boot].backup
    BY DEF Apply
  <2>2. apply' = [apply EXCEPT ![Boot] = p] /\ lock = Free /\ lock' = Boot
        /\ apply[Boot].at = "ready"
    BY <1>5 DEF BootAcquire
  <2> HIDE DEF p
  <2>3. apply'[Boot] = p
    BY <1>1, <2>2 DEF Typed, TypeOK
  <2> QED
    BY <1>1, <2>1, <2>2, <2>3 DEF Held
<1>6. ASSUME NEW b \in Appliers, b # Boot PROVE Held(b)'
  BY <1>1, <1>3, <1>4, <1>5, <1>6, HeldOthers DEF Ordered
<1> QED
  BY <1>1, <1>2, <1>3, <1>4, <1>5, <1>6 DEF Ordered

LEMMA OrderedRestart ==
  ASSUME Restart
  PROVE  Ordered'
<1>1. round'.at = "idle" /\ lock' = Free /\ Free \notin Appliers
  BY BetweenIs, NamesAssumption DEF Restart
<1>2. \A a \in Appliers : apply'[a].at \in {"none", "start"}
  BY NobodyIs DEF Restart, Apply
<1> QED
  BY <1>1, <1>2 DEF Ordered, Held

LEMMA OrderedStep == Typed /\ Ordered /\ [Next]_vars => Typed' /\ Ordered'
<1> SUFFICES ASSUME Typed, Ordered, [Next]_vars PROVE Typed' /\ Ordered'
  OBVIOUS
<1>1. CASE Watches
  BY <1>1, TypedMonitor, OrderedMonitor
<1>2. ASSUME NEW a \in Appliers, ReadRows(a) \/ Install(a) PROVE Typed' /\ Ordered'
  BY <1>2, TypedApply, OrderedApply
<1>3. CASE Booting
  BY <1>2, <1>3, TypedBoot, OrderedBoot DEF Booting, Applying, Appliers
<1>4. CASE Restart
  BY <1>4, TypedRestart, OrderedRestart
<1>5. ASSUME NEW a \in Changers,
             Save(a) \/ ApplyAll(a) \/ SwitchMonitoring(a) \/ \E d \in Dests : Toggle(a, d)
      PROVE  Typed' /\ Ordered'
  BY <1>5, TypedChanges, OrderedChanges
<1>6. CASE UNCHANGED vars
  BY <1>6 DEF vars, tableVars, monitorVars, applyVars, historyVars, boundVars, Typed, TypeOK,
              Ordered, Held
<1> QED
  BY <1>1, <1>2, <1>3, <1>4, <1>5, <1>6 DEF Next, Applying

\* The table, the monitor's memory and round and the applies keep their types, for
\* any destinations, requests, thresholds and bounds; the kernel always has a ruleset
\* that names a destination.
THEOREM TypeInvariant == Spec => []TypeOK
<1>1. Init => Typed /\ Ordered
  BY TypedInit, OrderedInit
<1>2. Typed /\ Ordered => TypeOK
  BY DEF Typed
<1> QED
  BY <1>1, <1>2, OrderedStep, PTL DEF Spec

(***************************************************************************)
(* The ruleset follows the table.  A ruleset that is being installed under *)
(* the lock and is no longer what the table asks for was outdated by       *)
(* somebody who still owes an apply of his own; only Reassert's may be     *)
(* older than that, and then it says so (behind).                          *)
(***************************************************************************)
Another(a) == round.changed \/ \E b \in Appliers \ {a} : apply[b].at # "none"
Current(a) ==
  apply[a].at = "install" /\ a # Boot /\ apply[a].picture # InRotation(rows) => Another(a)
UpToDate ==
  /\ round.at # "write" => ~round.changed
  /\ \A a \in Appliers : Current(a)
  /\ RulesetFollowsTable

LEMMA UpToDateInit == Init => UpToDate
<1> SUFFICES ASSUME Init PROVE UpToDate
  OBVIOUS
<1>1. \A a \in Appliers : apply[a].at = "none"
  BY NobodyIs DEF Init
<1>2. ~round.changed
  BY BetweenIs DEF Init
<1>3. installed = InRotation(rows)
  <2>1. PICK f \in BOOLEAN : rows = Table(Dests, {}, f, 0)
    BY DEF Init
  <2>2. rows.enabled = Dests /\ rows.out = {} /\ Dests # {}
    BY <2>1, DestinationsAssumption DEF Table, Dests
  <2> QED
    BY <2>2 DEF Init, InRotation
<1> QED
  BY <1>1, <1>2, <1>3 DEF UpToDate, Current, RulesetFollowsTable

\* Somebody who comes to owe an apply: all is up to date but for him.
LEMMA UpToDateOwing ==
  ASSUME Typed, Ordered, UpToDate, NEW a \in Appliers, apply' = [apply EXCEPT ![a] = Owing],
         round'.at # "write" => ~round'.changed
  PROVE  UpToDate'
<1>1. apply'[a].at = "wait" /\ \A b \in Appliers \ {a} : apply'[b] = apply[b]
  BY NobodyIs DEF Typed, TypeOK
<1>2. Owed'
  BY <1>1 DEF Owed
<1>3. ASSUME NEW b \in Appliers PROVE Current(b)'
  <2>1. CASE b = a
    BY <1>1, <2>1 DEF Current
  <2>2. CASE b # a
    BY <1>1, <2>2 DEF Current, Another
  <2> QED
    BY <2>1, <2>2
<1> QED
  BY <1>2, <1>3 DEF UpToDate, RulesetFollowsTable

LEMMA UpToDateMonitor ==
  ASSUME Typed, Ordered, UpToDate, Watches
  PROVE  UpToDate'
<1>1. Monitor \in Appliers /\ Typed' /\ Ordered'
  BY TypedMonitor, OrderedMonitor DEF Appliers
<1>2. ASSUME round'.at # "write", round'.changed = FALSE, rows' = rows,
             apply' = apply, installed' = installed, behind' = behind, ~round.changed
      PROVE  UpToDate'
  BY <1>2 DEF UpToDate, Current, Another, RulesetFollowsTable, Owed
<1>3. CASE Begin
  <2>1. round'.at = "look" /\ round'.changed = FALSE
    BY <1>3 DEF Begin, Round
  <2>2. ~round.changed
    BY <1>3 DEF Begin, UpToDate
  <2> QED
    BY <1>2, <1>3, <2>1, <2>2 DEF Begin, tableVars, applyVars
<1>4. ASSUME NEW d \in Dests, Ignore(d) \/ Watch(d) PROVE UpToDate'
  <2>1. round.read \in Tables /\ round.due \in SUBSET Dests /\ round.out \in SUBSET Dests
        /\ round.due \cup {d} \in SUBSET Dests
    BY RoundHas DEF Typed, TypeOK
  <2>2. \A due \in SUBSET Dests : Past(d, due, round.out).at # "write"
                                  /\ Past(d, due, round.out).changed = FALSE
    BY <2>1, PastIs DEF Typed
  <2>3. round'.at # "write" /\ round'.changed = FALSE
    <3>1. CASE Ignore(d)
      <4>1. /\ Round("free", round.read, d, round.due, round.out, FALSE).at # "write"
            /\ Round("free", round.read, d, round.due, round.out, FALSE).changed = FALSE
        BY DEF Round
      <4> QED
        BY <2>1, <2>2, <3>1, <4>1 DEF Ignore
    <3>2. CASE Watch(d)
      <4>1. PICK due \in {round.due \cup {d}, round.due} : round' = Past(d, due, round.out)
        BY <3>2 DEF Watch
      <4> QED
        BY <2>1, <2>2, <4>1
    <3> QED
      BY <1>4, <3>1, <3>2
  <2>4. ~round.changed
    BY <1>4 DEF Ignore, Watch, Looking, UpToDate
  <2> QED
    BY <1>2, <1>4, <2>3, <2>4 DEF Ignore, Watch, tableVars, applyVars, historyVars
<1>5. CASE FreeWrite
  <2>1. PICK ok \in Outcomes :
           /\ rows' = IF ok THEN Suppress(round.next, FALSE) ELSE rows
           /\ round' = Past(round.next, round.due,
                            IF ok THEN round.out \ {round.next} ELSE round.out)
           /\ apply' = IF ok THEN [apply EXCEPT ![Monitor] = Owing] ELSE apply
    BY <1>5 DEF FreeWrite
  <2>2. round.next \in Dests /\ round.due \in SUBSET Dests
        /\ round.out \in SUBSET Dests /\ round.out \ {round.next} \in SUBSET Dests
    BY <1>5, RoundHas DEF FreeWrite, Typed, TypeOK
  <2>3. round'.at # "write" /\ round'.changed = FALSE
    BY ZenonT(60), <2>1, <2>2, PastIs DEF Typed
  <2>4. CASE ok
    BY <1>1, <2>1, <2>3, <2>4, UpToDateOwing
  <2>5. CASE ~ok
    <3>1. ~round.changed
      BY <1>5 DEF FreeWrite, UpToDate
    <3> QED
      BY <1>2, <1>5, <2>1, <2>3, <2>5, <3>1 DEF FreeWrite
  <2> QED
    BY <2>4, <2>5
<1>6. CASE Probe
  <2>1. round'.at = "write" /\ round'.changed = FALSE /\ ~round.changed
    BY <1>6 DEF Probe, Round, UpToDate
  <2> QED
    BY <1>6, <2>1 DEF Probe, tableVars, applyVars, UpToDate, Current, Another,
                      RulesetFollowsTable, Owed
<1>7. CASE EndRound
  <2>1. round'.at = "idle" /\ round'.changed = FALSE
    BY <1>7, BetweenIs DEF EndRound
  <2>2. CASE round.changed
    BY <1>1, <1>7, <2>1, <2>2, UpToDateOwing DEF EndRound
  <2>3. CASE ~round.changed
    BY <1>2, <1>7, <2>1, <2>3 DEF EndRound, tableVars, historyVars
  <2> QED
    BY <2>2, <2>3
<1>8. ASSUME NEW d \in Dests, WriteOne(d) PROVE UpToDate'
  <2>1. PICK ok \in Outcomes :
           /\ rows' = IF ok THEN Suppress(d, d \in Wanted) ELSE rows
           /\ round'.at = "write" /\ round'.changed = (round.changed \/ ok)
    BY <1>8 DEF WriteOne, Round
  <2>2. apply' = apply /\ installed' = installed /\ behind' = behind
    BY <1>8 DEF WriteOne, applyVars
  <2>3. CASE ok
    BY <2>1, <2>2, <2>3 DEF UpToDate, Current, Another, RulesetFollowsTable, Owed
  <2>4. CASE ~ok
    <3>1. rows' = rows /\ round'.changed = round.changed
      <4>1. round.changed \in BOOLEAN
        BY RoundHas DEF Typed, TypeOK
      <4> QED
        BY <2>1, <2>4, <4>1
    <3> QED
      BY <2>1, <2>2, <3>1 DEF UpToDate, Current, Another, RulesetFollowsTable, Owed
  <2> QED
    BY <2>3, <2>4
<1> QED
  BY <1>3, <1>4, <1>5, <1>6, <1>7, <1>8 DEF Watches

LEMMA UpToDateChanges ==
  ASSUME Typed, Ordered, UpToDate, NEW a \in Changers,
         Save(a) \/ ApplyAll(a) \/ SwitchMonitoring(a) \/ \E d \in Dests : Toggle(a, d)
  PROVE  UpToDate'
<1>1. a \in Appliers /\ Free \notin Appliers
  BY NamesAssumption DEF Appliers
<1>2. round' = round
  BY DEF Save, ApplyAll, SwitchMonitoring, Toggle, monitorVars
<1>3. CASE Save(a)
  <2>1. \A b \in Appliers : apply[b].at # "install"
    BY <1>1, <1>3 DEF Save, Ordered, Held
  <2>2. apply'[a].at = "wait" /\ \A b \in Appliers \ {a} : apply'[b] = apply[b]
    BY <1>1, <1>3 DEF Save, Apply, Typed, TypeOK
  <2>3. \A b \in Appliers : apply'[b].at # "install"
    BY <2>1, <2>2
  <2>4. Owed'
    BY <1>1, <2>2 DEF Owed
  <2> QED
    BY <1>2, <2>3, <2>4 DEF UpToDate, Current, RulesetFollowsTable
<1>4. CASE ApplyAll(a) \/ \E d \in Dests : Toggle(a, d)
  BY <1>1, <1>2, <1>4, UpToDateOwing DEF ApplyAll, Toggle, UpToDate
<1>5. CASE SwitchMonitoring(a)
  BY <1>2, <1>5 DEF SwitchMonitoring, applyVars, historyVars, UpToDate, Current, Another,
                    RulesetFollowsTable, Owed
<1> QED
  BY <1>3, <1>4, <1>5

LEMMA UpToDateApply ==
  ASSUME Typed, Ordered, UpToDate, NEW a \in Appliers, ReadRows(a) \/ Install(a)
  PROVE  UpToDate'
<1>1. Free \notin Appliers /\ Held(a) /\ lock \in {Free, a}
  BY NamesAssumption DEF Appliers, Ordered, Held, ReadRows, Install
<1>2. \A b \in Appliers \ {a} : apply[b].at # "install"
  BY <1>1 DEF Ordered, Held
<1>3. round' = round /\ rows' = rows
  BY DEF ReadRows, Install, monitorVars, tableVars
<1>4. CASE ReadRows(a)
  <2>1. PICK ok \in BOOLEAN :
          /\ apply' = [apply EXCEPT ![a] = IF ~ok THEN Nothing
                         ELSE Apply("install", InRotation(rows),
                                    IF lock = a THEN apply[a].backup ELSE InRotation(rows))]
          /\ behind' = (behind \/ ~ok)
    BY <1>4 DEF ReadRows, Outcomes
  <2>2. \A b \in Appliers \ {a} : apply'[b] = apply[b]
    BY <2>1 DEF Typed, TypeOK
  <2>3. CASE ok
    <3>1. apply'[a].at = "install" /\ apply'[a].picture = InRotation(rows)
      BY <2>1, <2>3 DEF Typed, TypeOK, Apply
    <3> QED
      BY <1>2, <1>3, <2>2, <3>1 DEF UpToDate, Current, RulesetFollowsTable, Owed
  <2>4. CASE ~ok
    <3>1. apply'[a].at = "none" /\ behind'
      BY <2>1, <2>4, NobodyIs DEF Typed, TypeOK
    <3> QED
      BY <1>2, <1>3, <2>2, <3>1 DEF UpToDate, Current, RulesetFollowsTable
  <2> QED
    BY <2>3, <2>4
<1>5. CASE Install(a)
  <2>1. apply'[a].at = "none" /\ \A b \in Appliers \ {a} : apply'[b] = apply[b]
    BY <1>5, NobodyIs DEF Install, Typed, TypeOK
  <2>2. \A b \in Appliers : Current(b)'
    BY <1>2, <2>1 DEF Current
  <2>3. ASSUME ~Owed', ~behind' PROVE installed' = InRotation(rows)
    <3>1. installed' = apply[a].picture /\ (a = Boot => apply[a].picture = InRotation(rows))
      BY <1>5, <2>3 DEF Install
    <3>2. ~Another(a)
      BY <1>3, <2>1, <2>3 DEF Owed, Another
    <3>3. Current(a) /\ apply[a].at = "install"
      BY <1>5 DEF Install, UpToDate
    <3> QED
      BY <3>1, <3>2, <3>3 DEF Current
  <2> QED
    BY <1>3, <2>2, <2>3 DEF UpToDate, RulesetFollowsTable
<1> QED
  BY <1>4, <1>5

LEMMA UpToDateBoot ==
  ASSUME Typed, Ordered, UpToDate, BootRead \/ BootAcquire
  PROVE  UpToDate'
<1>1. Boot \in Appliers
  BY DEF Appliers
<1>2. round' = round /\ rows' = rows
  BY DEF BootRead, BootAcquire, monitorVars, tableVars
<1>3. apply[Boot].at # "none" /\ apply'[Boot].at # "none"
      /\ \A b \in Appliers \ {Boot} : apply'[b] = apply[b]
  BY <1>1 DEF BootRead, BootAcquire, Apply, Typed, TypeOK
<1>4. Owed'
  BY <1>1, <1>3 DEF Owed
<1>5. ASSUME NEW b \in Appliers PROVE Current(b)'
  BY <1>1, <1>3 DEF Current, Another
<1> QED
  BY <1>2, <1>4, <1>5 DEF UpToDate, RulesetFollowsTable

LEMMA UpToDateRestart ==
  ASSUME Restart
  PROVE  UpToDate'
<1>1. ~round'.changed
  BY BetweenIs DEF Restart
<1>2. \A a \in Appliers : apply'[a].at # "install"
  BY NobodyIs DEF Restart, Apply
<1>3. Boot \in Appliers /\ apply'[Boot].at = "start"
  BY DEF Restart, Apply, Appliers
<1>4. Owed'
  BY <1>3 DEF Owed
<1> QED
  BY <1>1, <1>2, <1>4 DEF UpToDate, Current, RulesetFollowsTable

LEMMA UpToDateStep == Typed /\ Ordered /\ UpToDate /\ [Next]_vars => UpToDate'
<1> SUFFICES ASSUME Typed, Ordered, UpToDate, [Next]_vars PROVE UpToDate'
  OBVIOUS
<1>1. CASE Watches
  BY <1>1, UpToDateMonitor
<1>2. ASSUME NEW a \in Appliers, ReadRows(a) \/ Install(a) PROVE UpToDate'
  BY <1>2, UpToDateApply
<1>3. CASE Booting
  BY <1>2, <1>3, UpToDateBoot DEF Booting, Applying, Appliers
<1>4. CASE Restart
  BY <1>4, UpToDateRestart
<1>5. ASSUME NEW a \in Changers,
             Save(a) \/ ApplyAll(a) \/ SwitchMonitoring(a) \/ \E d \in Dests : Toggle(a, d)
      PROVE  UpToDate'
  BY <1>5, UpToDateChanges
<1>6. CASE UNCHANGED vars
  BY <1>6 DEF vars, tableVars, monitorVars, applyVars, historyVars, UpToDate, Current, Another,
              RulesetFollowsTable, Owed
<1> QED
  BY <1>1, <1>2, <1>3, <1>4, <1>5, <1>6 DEF Next, Applying

\* Service.Reapply: when nobody owes an apply and the last one was neither refused nor
\* Reassert's with an outdated table, the kernel has the ruleset the table asks for,
\* for any number of requests racing with the monitor and the quota checker.
THEOREM RulesetFollows == Spec => []RulesetFollowsTable
<1>1. Init => Typed /\ Ordered /\ UpToDate
  BY TypedInit, OrderedInit, UpToDateInit
<1>2. Typed /\ Ordered /\ UpToDate => RulesetFollowsTable
  BY DEF UpToDate
<1> QED
  BY <1>1, <1>2, OrderedStep, UpToDateStep, PTL DEF Spec

(***************************************************************************)
(* The last destination stays.  Until a write fails or a request changes   *)
(* the rows, a round sees the rows as they are, and the part of the list   *)
(* it has gone through is as it wants it.                                  *)
(***************************************************************************)
Seen ==
  /\ round.at # "idle" /\ ~disturbed =>
       /\ rows.enabled = round.read.enabled /\ rows.gen = round.read.gen
       /\ rows.out = round.out
  /\ round.at = "write" /\ ~disturbed =>
       \A d \in round.read.enabled : d < round.next => (d \in Wanted) = (d \in round.out)

LEMMA SeenIsEnough == Typed /\ Seen => NeverTheLast
<1> SUFFICES ASSUME Typed, Seen, round.at = "write", Different = {}, ~disturbed,
                    rows.enabled # {}
             PROVE  rows.enabled \ rows.out # {}
  BY DEF NeverTheLast
<1>1. rows.enabled = round.read.enabled /\ rows.out = round.out
  BY DEF Seen
<1>2. ASSUME NEW d \in round.read.enabled PROVE (d \in Wanted) = (d \in round.out)
  <2>1. d \in Int /\ round.next \in Int
    <3>1. round.read.enabled \in SUBSET Dests /\ round.next \in 1..Count + 1
      BY RoundHas, TableHas DEF Typed, TypeOK
    <3> QED
      BY <3>1, DestinationsAssumption DEF Dests
  <2>2. CASE d < round.next
    BY <2>2 DEF Seen
  <2>3. CASE d >= round.next
    BY <2>3 DEF Different
  <2> QED
    BY <2>1, <2>2, <2>3
<1>3. PICK d \in round.read.enabled : d \notin Wanted
  BY <1>1 DEF Wanted, Failing
<1> QED
  BY <1>1, <1>2, <1>3

LEMMA PastKeeps ==
  ASSUME NEW d, NEW due, NEW out, Past(d, due, out).at # "idle"
  PROVE  Past(d, due, out).read = round.read /\ Past(d, due, out).out = out
  BY BetweenIs DEF Past, Round

\* Steps that leave the rows, the round and what the monitor remembers alone.
LEMMA SeenKept ==
  ASSUME Seen, rows' = rows, round' = round, memory' = memory, disturbed' = disturbed
  PROVE  Seen'
  BY DEF Seen, Wanted, Failing

LEMMA SeenMonitor ==
  ASSUME Typed, Seen, Watches
  PROVE  Seen'
<1>1. CASE Begin
  BY <1>1 DEF Begin, Round, tableVars, Seen
<1>2. ASSUME NEW d \in Dests, Ignore(d) \/ Watch(d) PROVE Seen'
  <2>1. rows' = rows /\ disturbed' = disturbed /\ round.at # "idle"
    BY <1>2 DEF Ignore, Watch, Looking, tableVars, historyVars
  <2>2. round'.at # "write"
        /\ (round'.at # "idle" => round'.read = round.read /\ round'.out = round.out)
    <3>1. CASE round' = Round("free", round.read, d, round.due, round.out, FALSE)
      BY <3>1 DEF Round
    <3>2. ASSUME NEW due \in {round.due \cup {d}, round.due}, round' = Past(d, due, round.out)
          PROVE  round'.at # "write"
                 /\ (round'.at # "idle" => round'.read = round.read /\ round'.out = round.out)
      <4>1. due \in SUBSET Dests /\ round.out \in SUBSET Dests
        BY RoundHas DEF Typed, TypeOK
      <4>2. Past(d, due, round.out).at \in {"idle", "look", "probe"}
        BY <4>1, PastIs DEF Typed
      <4>3. Past(d, due, round.out).at # "idle" =>
              Past(d, due, round.out).read = round.read /\ Past(d, due, round.out).out = round.out
        BY PastKeeps
      <4> QED
        BY <3>2, <4>2, <4>3
    <3> QED
      BY <1>2, <3>1, <3>2 DEF Ignore, Watch
  <2> QED
    BY <2>1, <2>2 DEF Seen
<1>3. CASE FreeWrite
  <2>1. PICK ok \in Outcomes :
           /\ rows' = IF ok THEN Suppress(round.next, FALSE) ELSE rows
           /\ round' = Past(round.next, round.due,
                            IF ok THEN round.out \ {round.next} ELSE round.out)
           /\ disturbed' = (disturbed \/ ~ok)
    BY <1>3 DEF FreeWrite
  <2>2. round.next \in Dests /\ round.due \in SUBSET Dests
        /\ round.out \in SUBSET Dests /\ round.out \ {round.next} \in SUBSET Dests
    BY <1>3, RoundHas DEF FreeWrite, Typed, TypeOK
  <2>3. round'.at # "write"
        /\ (round'.at # "idle" =>
             /\ round'.read = round.read
             /\ round'.out = IF ok THEN round.out \ {round.next} ELSE round.out)
    <3> DEFINE left == IF ok THEN round.out \ {round.next} ELSE round.out
    <3>1. left \in SUBSET Dests /\ round' = Past(round.next, round.due, left)
      BY <2>1, <2>2
    <3> HIDE DEF left
    <3>2. round'.at \in {"idle", "look", "probe"}
      BY <2>2, <3>1, PastIs DEF Typed
    <3>3. round'.at # "idle" => round'.read = round.read /\ round'.out = left
      BY <3>1, PastKeeps
    <3> QED
      BY <3>2, <3>3 DEF left
  <2>4. ASSUME ~disturbed' PROVE /\ rows'.enabled = round.read.enabled
                                 /\ rows'.gen = round.read.gen
                                 /\ rows'.out = round.out \ {round.next}
                                 /\ ok
    <3>1. ok /\ ~disturbed
      BY <2>1, <2>4
    <3>2. rows.enabled = round.read.enabled /\ rows.gen = round.read.gen /\ rows.out = round.out
      BY <1>3, <3>1 DEF FreeWrite, Seen
    <3> QED
      BY <2>1, <3>1, <3>2 DEF Suppress, Table
  <2> QED
    BY <2>3, <2>4 DEF Seen
<1>4. CASE Probe
  <2>1. rows' = rows /\ disturbed' = disturbed /\ round.at # "idle"
    BY <1>4 DEF Probe, tableVars
  <2>2. /\ round'.at = "write" /\ round'.read = round.read /\ round'.out = round.out
        /\ round'.next = 1
    BY <1>4 DEF Probe, Round
  <2>3. \A d \in round'.read.enabled : ~(d < round'.next)
    <3>1. round.read.enabled \in SUBSET Dests
      BY RoundHas, TableHas DEF Typed, TypeOK
    <3> QED
      BY <2>2, <3>1, DestinationsAssumption DEF Dests
  <2> QED
    BY <2>1, <2>2, <2>3 DEF Seen
<1>5. CASE EndRound
  <2>1. round'.at = "idle"
    BY <1>5, BetweenIs DEF EndRound
  <2> QED
    BY <2>1 DEF Seen
<1>6. ASSUME NEW d \in Dests, WriteOne(d) PROVE Seen'
  <2> DEFINE after == IF d \in Wanted THEN round.out \cup {d} ELSE round.out \ {d}
  <2>1. PICK ok \in Outcomes :
           /\ rows' = IF ok THEN Suppress(d, d \in Wanted) ELSE rows
           /\ round' = Round("write", round.read, d + 1, {}, IF ~ok THEN round.out ELSE after,
                             round.changed \/ ok)
           /\ disturbed' = (disturbed \/ ~ok)
    BY <1>6 DEF WriteOne
  <2>2. CASE disturbed'
    BY <2>2 DEF Seen
  <2>3. CASE ~disturbed'
    <3>1. ok /\ ~disturbed /\ round.at = "write"
      BY ZenonT(60), <1>6, <2>1, <2>3 DEF WriteOne
    <3>2. rows.enabled = round.read.enabled /\ rows.gen = round.read.gen /\ rows.out = round.out
      BY <3>1 DEF Seen
    <3>3. /\ round'.at = "write" /\ round'.read = round.read /\ round'.next = d + 1
          /\ round'.out = after
      BY <2>1, <3>1 DEF Round
    <3>4. /\ rows'.enabled = round.read.enabled /\ rows'.gen = round.read.gen
          /\ rows'.out = after
      BY <2>1, <3>1, <3>2 DEF Suppress, Table
    <3>5. Wanted' = Wanted
      BY ZenonT(60), <1>6, <3>3 DEF WriteOne, Wanted, Failing
    <3>6. ASSUME NEW e \in round.read.enabled, e < d + 1
          PROVE  (e \in Wanted) = (e \in after)
      <4>1. e \in Int /\ d \in Int /\ round.next \in Int
        <5>1. round.read.enabled \in SUBSET Dests /\ round.next \in 1..Count + 1
          BY RoundHas, TableHas DEF Typed, TypeOK
        <5> QED
          BY <5>1, DestinationsAssumption DEF Dests
      <4>2. CASE e = d
        BY <4>2
      <4>3. CASE e # d
        <5>1. e < d
          BY <3>6, <4>1, <4>3
        <5>2. e \notin Different
          <6>1. \A c \in Different : d <= c
            BY <1>6 DEF WriteOne
          <6> QED
            BY <4>1, <5>1, <6>1
        <5>3. (e \in Wanted) = (e \in round.out)
          <6>1. CASE e < round.next
            BY <3>1, <6>1 DEF Seen
          <6>2. CASE e >= round.next
            BY <5>2, <6>2 DEF Different
          <6> QED
            BY <4>1, <6>1, <6>2
        <5> QED
          BY <4>3, <5>3
      <4> QED
        BY <4>2, <4>3
    <3> HIDE DEF after
    <3> QED
      BY <3>3, <3>4, <3>5, <3>6 DEF Seen
  <2> QED
    BY <2>2, <2>3
<1> QED
  BY <1>1, <1>2, <1>3, <1>4, <1>5, <1>6 DEF Watches

LEMMA SeenStep == Typed /\ Seen /\ [Next]_vars => Seen'
<1> SUFFICES ASSUME Typed, Seen, [Next]_vars PROVE Seen'
  OBVIOUS
<1>1. CASE Watches
  BY <1>1, SeenMonitor
<1>2. ASSUME NEW a \in Appliers, ReadRows(a) \/ Install(a) PROVE Seen'
  BY <1>2, SeenKept DEF ReadRows, Install, tableVars, monitorVars
<1>3. CASE Booting
  <2>1. CASE BootRead \/ BootAcquire
    BY <2>1, SeenKept DEF BootRead, BootAcquire, tableVars, monitorVars, historyVars
  <2> QED
    BY <1>2, <1>3, <2>1 DEF Booting, Applying, Appliers
<1>4. CASE Restart
  <2>1. round'.at = "idle"
    BY <1>4, BetweenIs DEF Restart
  <2> QED
    BY <2>1 DEF Seen
<1>5. ASSUME NEW a \in Changers, Save(a) \/ \E d \in Dests : Toggle(a, d) PROVE Seen'
  BY <1>5 DEF Save, Toggle, Seen
<1>6. ASSUME NEW a \in Changers, ApplyAll(a) \/ SwitchMonitoring(a) PROVE Seen'
  BY <1>6, SeenKept DEF ApplyAll, SwitchMonitoring, tableVars, monitorVars, historyVars
<1>7. CASE UNCHANGED vars
  BY <1>7, SeenKept DEF vars, tableVars, monitorVars, historyVars
<1> QED
  BY <1>1, <1>2, <1>3, <1>4, <1>5, <1>6, <1>7 DEF Next, Applying

\* monitor.go:25: the monitor never takes out the last destination, for any number of
\* destinations and whatever order it writes them in, unless a write fails or a
\* request changes the rows behind it.
THEOREM LastStays == Spec => []NeverTheLast
<1>1. Init => Seen
  BY BetweenIs DEF Init, Seen
<1>2. Init => Typed /\ Ordered
  BY TypedInit, OrderedInit
<1> QED
  BY <1>1, <1>2, OrderedStep, SeenStep, SeenIsEnough, PTL DEF Spec

(***************************************************************************)
(* Taken out only after failures.  What the monitor remembers of the rows  *)
(* that are there is backed by the history of their probes: it counts no   *)
(* more failures in a row than there were, and holds a destination for     *)
(* down only while it has not recovered.                                   *)
(***************************************************************************)
Backed(d) ==
  /\ memory[d].fails > 0 => streak[d] >= memory[d].fails
  /\ memory[d].state = "Down" =>
       d \in condemned /\ memory[d].succs < Recoveries /\ streak[d] >= -memory[d].succs
Known ==
  /\ rows.gen <= changes /\ memGen <= changes
  /\ round.at # "idle" => round.read.gen = memGen
  /\ memGen = rows.gen => \A d \in Dests : Backed(d)

\* One more answer, at the thresholds and below.
LEMMA RecordBacked ==
  ASSUME TypeOK, NEW d \in Dests, Backed(d), NEW b \in BOOLEAN, NEW f \in BOOLEAN,
         NEW w \in 0..MaxWait
  PROVE  LET r == Record(memory[d], b, f, w)
             t == Streak(d, b)
         IN /\ r.fails > 0 => t >= r.fails
            /\ r.state = "Down" =>
                 /\ r.succs < Recoveries /\ t >= -r.succs
                 /\ t = Failures \/ (d \in condemned /\ t # -Recoveries)
<1> DEFINE m == memory[d]
           fails == IF b THEN 0 ELSE Lowest(m.fails + 1, Failures)
           succs == IF b THEN Lowest(m.succs + 1, Recoveries) ELSE 0
           state == IF succs = Recoveries THEN "Up" ELSE IF fails = Failures THEN "Down"
                    ELSE m.state
           t == Streak(d, b)
<1>1. /\ m.fails \in 0..Failures /\ m.succs \in 0..Recoveries
      /\ streak[d] \in -Recoveries..Failures
      /\ Failures \in Nat \ {0} /\ Recoveries \in Nat \ {0}
  BY MemoryHas, ThresholdsAssumption DEF TypeOK
<1>2. /\ Record(m, b, f, w).fails = fails /\ Record(m, b, f, w).succs = succs
      /\ Record(m, b, f, w).state = state
  BY DEF Record, Remembered
<1>3. Backed(d)
  OBVIOUS
<1>4. fails > 0 => t >= fails
  BY <1>1, <1>3 DEF Backed, Streak, Lowest, Highest
<1>5. ASSUME state = "Down"
      PROVE  /\ succs < Recoveries /\ t >= -succs
             /\ t = Failures \/ (d \in condemned /\ t # -Recoveries)
  <2>1. CASE b
    <3>1. succs = Lowest(m.succs + 1, Recoveries) /\ fails = 0 /\ succs # Recoveries
      BY <1>5, <2>1
    <3>2. m.state = "Down"
      BY <1>1, <1>5, <3>1
    <3>3. d \in condemned /\ streak[d] >= -m.succs
      BY <1>3, <3>2 DEF Backed
    <3>4. t = IF streak[d] > 0 THEN -1 ELSE Highest(streak[d] - 1, -Recoveries)
      BY <2>1 DEF Streak
    <3>5. succs < Recoveries /\ t >= -succs /\ t # -Recoveries
      BY <1>1, <3>1, <3>3, <3>4 DEF Lowest, Highest
    <3> QED
      BY <3>3, <3>5
  <2>2. CASE ~b
    <3>1. succs = 0 /\ fails = Lowest(m.fails + 1, Failures)
      BY <2>2
    <3>2. t = IF streak[d] < 0 THEN 1 ELSE Lowest(streak[d] + 1, Failures)
      BY <2>2 DEF Streak
    <3>3. succs < Recoveries /\ t >= -succs /\ t # -Recoveries
      BY <1>1, <3>1, <3>2 DEF Lowest
    <3>4. CASE fails = Failures
      <4>1. t = Failures
        BY <1>1, <1>4, <3>2, <3>4 DEF Lowest
      <4> QED
        BY <3>3, <4>1
    <3>5. CASE fails # Failures
      <4>1. m.state = "Down"
        BY <1>1, <1>5, <3>1, <3>5
      <4> QED
        BY <1>3, <3>3, <4>1 DEF Backed
    <3> QED
      BY <3>4, <3>5
  <2> QED
    BY <2>1, <2>2
<1> HIDE DEF m, fails, succs, state, t
<1>6. /\ Record(m, b, f, w).fails > 0 => t >= Record(m, b, f, w).fails
      /\ Record(m, b, f, w).state = "Down" =>
           /\ Record(m, b, f, w).succs < Recoveries /\ t >= -Record(m, b, f, w).succs
           /\ t = Failures \/ (d \in condemned /\ t # -Recoveries)
  BY <1>2, <1>4, <1>5
<1> QED
  BY <1>6 DEF m, t

LEMMA UnseenBacked ==
  ASSUME NEW d \in Dests, memory'[d] = Unseen
  PROVE  Backed(d)'
  BY UnseenIs DEF Backed

LEMMA BackedKept ==
  ASSUME NEW d \in Dests, Backed(d), streak'[d] = streak[d], condemned' = condemned,
         memory'[d].fails \in {0, memory[d].fails},
         memory'[d].state = "Down" =>
           memory[d].state = "Down" /\ memory'[d].succs = memory[d].succs
  PROVE  Backed(d)'
  BY DEF Backed

LEMMA KnownMonitor ==
  ASSUME Typed, Known, Watches
  PROVE  Known'
<1>1. changes' = changes /\ memGen \in 0..MaxChanges /\ rows.gen \in 0..MaxChanges
      /\ round.read.gen \in 0..MaxChanges
  BY RoundHas, TableHas DEF Typed, TypeOK, Watches, Begin, Ignore, Watch, FreeWrite, Probe,
     WriteOne, EndRound, boundVars
<1>2. ASSUME NEW t, t = rows \/ \E d, o : t = Suppress(d, o) PROVE t.gen = rows.gen
  BY <1>2 DEF Suppress, Table
<1>3. CASE Begin
  <2>1. /\ rows' = rows /\ memGen' = rows.gen /\ round'.read = rows
        /\ streak' = streak /\ condemned' = condemned
    BY <1>3 DEF Begin, tableVars, Round
  <2>2. ASSUME NEW d \in Dests PROVE Backed(d)'
    <3>1. CASE memGen = rows.gen
      BY <1>3, <2>1, <3>1 DEF Begin, Known, Backed
    <3>2. CASE memGen # rows.gen
      <4>1. memory'[d] = Unseen
        BY <1>3, <3>2 DEF Begin
      <4> QED
        BY <4>1, UnseenBacked
    <3> QED
      BY <3>1, <3>2
  <2> QED
    BY <1>1, <2>1, <2>2 DEF Known
<1>4. ASSUME NEW d \in Dests, Ignore(d) \/ Watch(d) PROVE Known'
  <2>1. /\ rows' = rows /\ memGen' = memGen /\ streak' = streak /\ condemned' = condemned
        /\ round.at # "idle"
    BY <1>4 DEF Ignore, Watch, Looking, tableVars, historyVars
  <2>2. round'.at # "idle" => round'.read = round.read
    <3>1. CASE round' = Round("free", round.read, d, round.due, round.out, FALSE)
      BY <3>1 DEF Round
    <3>2. ASSUME NEW due, round' = Past(d, due, round.out)
          PROVE  round'.at # "idle" => round'.read = round.read
      <4>1. Past(d, due, round.out).at # "idle" => Past(d, due, round.out).read = round.read
        BY PastKeeps
      <4> QED
        BY <3>2, <4>1
    <3>3. \/ round' = Round("free", round.read, d, round.due, round.out, FALSE)
          \/ \E due : round' = Past(d, due, round.out)
      BY <1>4 DEF Ignore, Watch
    <3> QED
      BY <3>1, <3>2, <3>3
  <2>3. ASSUME NEW e \in Dests, Backed(e) PROVE Backed(e)'
    <3>1. CASE e # d
      <4>1. memory'[e] = memory[e]
        BY <1>4, <3>1 DEF Ignore, Watch, Typed, TypeOK
      <4> QED
        BY <2>1, <2>3, <4>1 DEF Backed
    <3>2. CASE e = d
      <4>1. CASE Ignore(d)
        <5>1. memory'[d].fails = 0 /\ memory'[d].state = "Disabled"
          BY <4>1 DEF Ignore, Typed, TypeOK, Remembered
        <5> QED
          BY <2>1, <2>3, <3>2, <5>1, BackedKept
      <4>2. CASE Watch(d)
        <5>1. /\ memory'[d].fails = memory[d].fails /\ memory'[d].succs = memory[d].succs
              /\ memory'[d].state = IF memory[d].state = "Disabled" THEN "Unknown"
                                    ELSE memory[d].state
          BY <4>2 DEF Watch, Typed, TypeOK, Remembered
        <5> QED
          BY <2>1, <2>3, <3>2, <5>1, BackedKept
      <4> QED
        BY <1>4, <4>1, <4>2
    <3> QED
      BY <3>1, <3>2
  <2> QED
    BY <1>1, <2>1, <2>2, <2>3 DEF Known
<1>5. CASE FreeWrite
  <2>1. rows'.gen = rows.gen
    BY <1>2, <1>5 DEF FreeWrite
  <2>2. round'.at # "idle" => round'.read = round.read
    BY <1>5, PastKeeps DEF FreeWrite
  <2> QED
    BY <1>1, <1>5, <2>1, <2>2 DEF FreeWrite, Known, Backed
<1>6. CASE Probe
  <2>1. PICK answered \in SUBSET round.due, wait \in [round.due -> 0..MaxWait] :
           /\ memory' = [d \in Dests |->
                IF d \in round.due
                THEN Record(memory[d], d \in answered, round.read.failover, wait[d])
                ELSE memory[d]]
           /\ streak' = [d \in Dests |->
                IF d \in round.due /\ round.read.gen = rows.gen THEN Streak(d, d \in answered)
                ELSE streak[d]]
    BY <1>6 DEF Probe
  <2>2. /\ condemned' = {d \in Dests : streak'[d] = Failures
                                        \/ (d \in condemned /\ streak'[d] # -Recoveries)}
        /\ rows' = rows /\ memGen' = memGen /\ round'.read = round.read /\ round.at # "idle"
    BY <1>6 DEF Probe, tableVars, Round
  <2>3. ASSUME memGen = rows.gen, NEW d \in Dests PROVE Backed(d)'
    <3>1. Backed(d) /\ round.read.gen = rows.gen
      BY <2>2, <2>3 DEF Known
    <3>2. CASE d \in round.due
      <4> DEFINE r == Record(memory[d], d \in answered, round.read.failover, wait[d])
                 t == Streak(d, d \in answered)
      <4>1. memory'[d] = r /\ streak'[d] = t
        BY <2>1, <3>1, <3>2
      <4>2. /\ r.fails > 0 => t >= r.fails
            /\ r.state = "Down" =>
                 /\ r.succs < Recoveries /\ t >= -r.succs
                 /\ t = Failures \/ (d \in condemned /\ t # -Recoveries)
        <5>1. (d \in answered) \in BOOLEAN /\ round.read.failover \in BOOLEAN
              /\ wait[d] \in 0..MaxWait
          BY <3>2, RoundHas, TableHas DEF Typed, TypeOK
        <5> QED
          BY <3>1, <5>1, RecordBacked DEF Typed
      <4> HIDE DEF r, t
      <4> QED
        BY <2>2, <4>1, <4>2 DEF Backed
    <3>3. CASE d \notin round.due
      <4>1. memory'[d] = memory[d] /\ streak'[d] = streak[d]
        BY <2>1, <3>3
      <4>2. ASSUME memory[d].state = "Down" PROVE d \in condemned'
        <5>1. /\ d \in condemned /\ memory[d].succs < Recoveries /\ streak[d] >= -memory[d].succs
              /\ memory[d].succs \in 0..Recoveries /\ streak[d] \in -Recoveries..Failures
          BY <3>1, <4>2, MemoryHas DEF Backed, Typed, TypeOK
        <5>2. streak[d] # -Recoveries
          BY <5>1, ThresholdsAssumption
        <5> QED
          BY <2>2, <4>1, <5>1, <5>2
      <4> QED
        BY <3>1, <4>1, <4>2 DEF Backed
    <3> QED
      BY <3>2, <3>3
  <2> QED
    BY <1>1, <2>2, <2>3 DEF Known
<1>7. CASE EndRound
  <2>1. round'.at = "idle"
    BY <1>7, BetweenIs DEF EndRound
  <2> QED
    BY <1>1, <1>7, <2>1 DEF EndRound, tableVars, historyVars, Known, Backed
<1>8. ASSUME NEW d \in Dests, WriteOne(d) PROVE Known'
  <2>1. rows'.gen = rows.gen
    BY <1>2, <1>8 DEF WriteOne
  <2>2. round'.read = round.read /\ round.at # "idle"
    BY <1>8 DEF WriteOne, Round
  <2> QED
    BY <1>1, <1>8, <2>1, <2>2 DEF WriteOne, Known, Backed
<1> QED
  BY <1>3, <1>4, <1>5, <1>6, <1>7, <1>8 DEF Watches

LEMMA KnownInit == Init => Known
<1> SUFFICES ASSUME Init PROVE Known
  OBVIOUS
<1>1. rows.gen = 0 /\ memGen = 0 /\ changes = 0 /\ round.at = "idle"
  BY BetweenIs, TableHas DEF Init, Table
<1>2. ASSUME NEW d \in Dests PROVE Backed(d)
  BY <1>2, UnseenIs DEF Init, Backed
<1> QED
  BY <1>1, <1>2 DEF Known

\* Steps that leave the rows, the round and the history of the probes alone.
LEMMA KnownKept ==
  ASSUME TypeOK, Known, rows'.gen = rows.gen, round' = round, memory' = memory, memGen' = memGen,
         streak' = streak, condemned' = condemned, changes' \in {changes, changes + 1}
  PROVE  Known'
<1>1. changes \in Int /\ rows.gen \in Int /\ memGen \in Int
  BY TableHas DEF TypeOK
<1> QED
  BY <1>1 DEF Known, Backed

LEMMA KnownChanges ==
  ASSUME Typed, Known, NEW a \in Changers,
         Save(a) \/ ApplyAll(a) \/ SwitchMonitoring(a) \/ \E d \in Dests : Toggle(a, d)
  PROVE  Known'
<1>1. changes \in Int /\ rows.gen \in Int /\ memGen \in Int
  BY TableHas DEF Typed, TypeOK
<1>2. CASE Save(a)
  <2>1. rows'.gen = changes + 1 /\ changes' = changes + 1
    BY <1>2 DEF Save, Change, Table
  <2>2. memGen' = memGen /\ round' = round
    BY <1>2 DEF Save, monitorVars
  <2> QED
    BY <1>1, <2>1, <2>2 DEF Known
<1>3. CASE \E d \in Dests : Toggle(a, d)
  <2>1. rows'.gen = rows.gen
    BY <1>3 DEF Toggle, Table
  <2> QED
    BY <1>3, <2>1, KnownKept DEF Toggle, Change, monitorVars, Typed
<1>4. CASE ApplyAll(a) \/ SwitchMonitoring(a)
  BY <1>4, KnownKept DEF ApplyAll, SwitchMonitoring, Change, tableVars, monitorVars, historyVars,
     Typed
<1> QED
  BY <1>2, <1>3, <1>4

LEMMA KnownStep == Typed /\ Known /\ [Next]_vars => Known'
<1> SUFFICES ASSUME Typed, Known, [Next]_vars PROVE Known'
  OBVIOUS
<1>1. CASE Watches
  BY <1>1, KnownMonitor
<1>2. ASSUME NEW a \in Appliers, ReadRows(a) \/ Install(a) PROVE Known'
  BY <1>2, KnownKept DEF ReadRows, Install, tableVars, monitorVars, Typed
<1>3. CASE Booting
  <2>1. CASE BootRead \/ BootAcquire
    BY <2>1, KnownKept DEF BootRead, BootAcquire, tableVars, monitorVars, historyVars, boundVars,
       Typed
  <2> QED
    BY <1>2, <1>3, <2>1 DEF Booting, Applying, Appliers
<1>4. CASE Restart
  <2>1. round'.at = "idle" /\ rows' = rows /\ memGen' = rows.gen /\ changes' = changes
    BY <1>4, BetweenIs DEF Restart, tableVars
  <2>2. ASSUME NEW d \in Dests PROVE Backed(d)'
    <3>1. memory'[d] = Unseen
      BY <1>4 DEF Restart
    <3> QED
      BY <3>1, UnseenBacked
  <2> QED
    BY <2>1, <2>2 DEF Known
<1>5. ASSUME NEW a \in Changers,
             Save(a) \/ ApplyAll(a) \/ SwitchMonitoring(a) \/ \E d \in Dests : Toggle(a, d)
      PROVE  Known'
  BY <1>5, KnownChanges
<1>6. CASE UNCHANGED vars
  BY <1>6, KnownKept DEF vars, tableVars, monitorVars, historyVars, boundVars, Typed
<1> QED
  BY <1>1, <1>2, <1>3, <1>4, <1>5, <1>6 DEF Next, Applying

\* The one write that takes a destination out finds it condemned: the rows it
\* changes are those its round read and the monitor remembers.
LEMMA TakenOut ==
  ASSUME Typed, Known, NEW d \in Dests, NEW e \in Dests, WriteOne(e),
         d \in rows'.out, d \notin rows.out
  PROVE  d \in condemned
<1>1. PICK ok \in Outcomes : rows' = IF ok THEN Suppress(e, e \in Wanted) ELSE rows
  BY DEF WriteOne
<1>2. round.at = "write"
  BY DEF WriteOne
<1>3. ok /\ round.read.gen = rows.gen
  BY <1>1 DEF Suppress
<1>4. d = e /\ e \in Wanted
  BY <1>1, <1>3 DEF Suppress, Table
<1>5. memory[d].state = "Down"
  BY <1>4 DEF Wanted, Failing
<1>6. Backed(d)
  BY <1>2, <1>3 DEF Known
<1> QED
  BY <1>5, <1>6 DEF Backed

LEMMA OthersTakeNoneOut ==
  ASSUME [Next]_vars, \A e \in Dests : ~WriteOne(e)
  PROVE  rows'.out \subseteq rows.out
<1>1. CASE rows' = rows
  BY <1>1
<1>2. CASE FreeWrite
  BY <1>2 DEF FreeWrite, Suppress, Table
<1>3. ASSUME NEW a \in Changers, Save(a) \/ \E d \in Dests : Toggle(a, d)
      PROVE  rows'.out \subseteq rows.out
  BY <1>3 DEF Save, Toggle, Table
<1>4. CASE Begin \/ Probe \/ EndRound \/ \E d \in Dests : Ignore(d) \/ Watch(d)
  BY <1>1, <1>4 DEF Begin, Probe, EndRound, Ignore, Watch, tableVars
<1>5. CASE Booting \/ Restart \/ \E a \in Appliers : Applying(a)
  BY <1>1, <1>5 DEF Booting, BootRead, BootAcquire, Restart, Applying, ReadRows, Install, tableVars
<1>6. ASSUME NEW a \in Changers, ApplyAll(a) \/ SwitchMonitoring(a) PROVE rows' = rows
  BY <1>6 DEF ApplyAll, SwitchMonitoring, tableVars
<1>7. CASE UNCHANGED vars
  BY <1>1, <1>7 DEF vars, tableVars
<1> QED
  BY <1>1, <1>2, <1>3, <1>4, <1>5, <1>6, <1>7 DEF Next, Watches

\* record, reconcileRotation: for any thresholds, over restarts, saves and monitoring
\* switched off and on, a destination is taken out only after that many failures.
THEOREM OutAfterFailures == Spec => OutOnlyAfterFailures
<1>1. Typed /\ Known /\ [Next]_vars =>
        [\A d \in Dests : d \in rows'.out /\ d \notin rows.out => d \in condemned]_vars
  <2> SUFFICES ASSUME Typed, Known, [Next]_vars, NEW d \in Dests,
                      d \in rows'.out, d \notin rows.out
               PROVE  d \in condemned
    OBVIOUS
  <2>1. CASE \E e \in Dests : WriteOne(e)
    BY <2>1, TakenOut
  <2>2. CASE \A e \in Dests : ~WriteOne(e)
    BY <2>2, OthersTakeNoneOut
  <2> QED
    BY <2>1, <2>2
<1>2. Init => Typed /\ Ordered /\ Known
  BY TypedInit, OrderedInit, KnownInit
<1> QED
  BY <1>1, <1>2, OrderedStep, KnownStep, PTL DEF Spec, OutOnlyAfterFailures
=============================================================================

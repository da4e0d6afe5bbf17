------------------------- MODULE TunnelApply_proofs -------------------------
(***************************************************************************)
(* Theorems about the pipeline of one tunnel, for any configurations, any  *)
(* bounds and however many failures.                                       *)
(*                                                                         *)
(* TypeOK is inductive as it stands.  That a change in place never takes   *)
(* the interface away needs one more invariant, InPlaceInv: neither the    *)
(* plan nor its inverse holds a step that could, and the record the plan   *)
(* was computed from is still the one the history names.                   *)
(*                                                                         *)
(* The rest is what the pipeline promises of a host: that an applied       *)
(* change lasts (AppliedLasts), that reapply is a remedy                   *)
(* (ReapplyIsARemedy), that the rollback of an update restores             *)
(* (RollbackIsClean), and that what was taken away stays away              *)
(* (NothingComesBack).  None of these is inductive: each speaks of the end *)
(* of an operation.  Their strengthenings (DurableInv, HealInv,            *)
(* RestoreInv, AwayInv) say, with the steps still to run, what the host    *)
(* already is and what those steps will make of it.  Two forms recur: "the *)
(* file is right, or a step ahead that cannot be skipped sets it and       *)
(* nothing after it undoes it" (Coming), and "with k steps of the plan to  *)
(* go the host is so far" (UnitCourse, LinkCourse, Cleared, Removed,       *)
(* Lowered), each with a lemma that follows one step.                      *)
(***************************************************************************)
EXTENDS TunnelApply, SequenceTheorems, TLAPS

USE DEF Finished, Interrupt, pipeline

(***************************************************************************)
(* Plans are sequences of steps.                                           *)
(***************************************************************************)
LEMMA WhenTyped ==
  ASSUME NEW S, NEW s \in Seq(S), NEW b \in BOOLEAN
  PROVE  When(b, s) \in Seq(S)
BY EmptySeq DEF When

LEMMA StepsTyped ==
  ASSUME NEW k \in Kinds, NEW c \in Configs
  PROVE  Do(k, c) \in Steps /\ Tolerated(k, c) \in Steps
BY DEF Do, Tolerated, Steps

LEMMA CreateTyped ==
  ASSUME NEW c \in Configs
  PROVE  PlanCreate(c) \in Seq(Steps) /\ CreateRollback(c) \in Seq(Steps)
<1>1. \A k \in Kinds : Do(k, c) \in Steps /\ Tolerated(k, c) \in Steps
  BY StepsTyped
<1>2. PlanRuntimeCreate(c) \in Seq(Steps)
  BY <1>1 DEF PlanRuntimeCreate, Kinds, ExecKinds
<1>3. PlanSystemdCreate(c) \in Seq(Steps)
  BY <1>1 DEF PlanSystemdCreate, Kinds, ExecKinds
<1>4. << Do("NetdevWrite", c), Do("NetworkWrite", c),
         Tolerated("NetworkdReload", c) >> \in Seq(Steps)
  BY <1>1 DEF Kinds, ExecKinds
<1>5. PlanNetworkdCreate(c) \in Seq(Steps)
  BY <1>2, <1>4, ConcatProperties DEF PlanNetworkdCreate
<1>6. CreateRollback(c) \in Seq(Steps)
  BY <1>1 DEF CreateRollback, Kinds, ExecKinds
<1> QED
  BY <1>2, <1>3, <1>5, <1>6 DEF PlanCreate

LEMMA DeleteTyped ==
  ASSUME NEW c \in Configs
  PROVE  PlanDelete(c) \in Seq(Steps)
<1>1. \A k \in Kinds : Tolerated(k, c) \in Steps
  BY StepsTyped
<1> QED
  BY <1>1 DEF PlanDelete, Kinds, ExecKinds

LEMMA UpDownTyped ==
  ASSUME NEW c \in Configs
  PROVE  PlanUp(c) \in Seq(Steps) /\ UpRollback(c) \in Seq(Steps) /\ PlanDown(c) \in Seq(Steps)
<1>1. \A k \in Kinds : Do(k, c) \in Steps /\ Tolerated(k, c) \in Steps
  BY StepsTyped
<1>2. /\ << Do("LinkUp", c) >> \in Seq(Steps) /\ << Do("LinkDown", c) >> \in Seq(Steps)
      /\ << Tolerated("UnitEnable", c) >> \in Seq(Steps)
      /\ << Tolerated("UnitDisable", c) >> \in Seq(Steps)
      /\ << Tolerated("LinkDown", c) >> \in Seq(Steps)
  BY <1>1 DEF Kinds, ExecKinds
<1>3. /\ When(c.persist = "systemd", << Tolerated("UnitEnable", c) >>) \in Seq(Steps)
      /\ When(c.persist = "systemd", << Tolerated("UnitDisable", c) >>) \in Seq(Steps)
  BY <1>2, WhenTyped
<1> QED
  BY <1>2, <1>3, ConcatProperties DEF PlanUp, UpRollback, PlanDown

LEMMA RecreateTyped ==
  ASSUME NEW c \in Configs, NEW d \in Configs
  PROVE  /\ PlanDelete(c) \o PlanCreate(d) \in Seq(Steps)
         /\ PlanRecreate(c, d) \in Seq(Steps) /\ RecreateRollback(c, d) \in Seq(Steps)
BY CreateTyped, DeleteTyped, ConcatProperties DEF PlanRecreate, RecreateRollback

(***************************************************************************)
(* A plan in place holds none of the steps that take an interface away.    *)
(***************************************************************************)
InPlaceKinds == {"SetMtu", "AddressAdd", "AddressRemove", "LinkUp", "LinkDown",
                 "UnitWrite", "DaemonReload", "NetdevWrite", "NetworkWrite", "NetworkdReload"}
InPlaceSteps == {s \in Steps : s.kind \in InPlaceKinds}

LEMMA InPlaceStepsTyped ==
  ASSUME NEW k \in InPlaceKinds, NEW c \in Configs
  PROVE  Do(k, c) \in InPlaceSteps /\ Tolerated(k, c) \in InPlaceSteps
BY DEF InPlaceSteps, InPlaceKinds, Do, Tolerated, Steps, Kinds, ExecKinds

\* The plan of an update in place and its inverse consist of such steps only.
LEMMA InPlaceTyped ==
  ASSUME NEW c \in Configs, NEW d \in Configs, NEW e \in BOOLEAN, NEW f \in BOOLEAN
  PROVE  /\ PlanInPlace(c, e, d, f) \in Seq(InPlaceSteps)
         /\ InPlaceRollback(c, e, d, f) \in Seq(InPlaceSteps)
<1>1. \A k \in InPlaceKinds, x \in {c, d} :
        Do(k, x) \in InPlaceSteps /\ Tolerated(k, x) \in InPlaceSteps
  BY InPlaceStepsTyped
<1> DEFINE Q == Seq(InPlaceSteps)
<1>2. /\ << Do("UnitWrite", d), Do("DaemonReload", d) >> \in Q
      /\ << Do("NetdevWrite", d), Do("NetworkWrite", d), Tolerated("NetworkdReload", d) >> \in Q
      /\ << Do("UnitWrite", c) >> \in Q
  BY <1>1 DEF InPlaceKinds
<1>3. \A x \in {c, d} : << Do("SetMtu", x) >> \in Q
  BY <1>1 DEF InPlaceKinds
<1>4. /\ << Do("AddressRemove", c), Do("AddressAdd", d) >> \in Q
      /\ << Do("AddressRemove", d), Do("AddressAdd", c) >> \in Q
  BY <1>1 DEF InPlaceKinds
<1>5. \A x \in {c, d} : \A k \in {"LinkUp", "LinkDown"} : << Do(k, x) >> \in Q
  BY <1>1 DEF InPlaceKinds
<1>6. RewritePersistence(d) \in Q
  <2>1. /\ When(d.persist = "systemd", << Do("UnitWrite", d), Do("DaemonReload", d) >>) \in Q
        /\ When(d.persist = "networkd",
                << Do("NetdevWrite", d), Do("NetworkWrite", d),
                   Tolerated("NetworkdReload", d) >>) \in Q
    BY <1>2, WhenTyped
  <2> QED
    BY <2>1, ConcatProperties DEF RewritePersistence
<1>7. /\ When(c.mtu # d.mtu, << Do("SetMtu", d) >>) \in Q
      /\ When(c.mtu # d.mtu, << Do("SetMtu", c) >>) \in Q
  BY <1>3, WhenTyped
<1>8. /\ When(c.addr # d.addr, << Do("AddressRemove", c), Do("AddressAdd", d) >>) \in Q
      /\ When(c.addr # d.addr, << Do("AddressRemove", d), Do("AddressAdd", c) >>) \in Q
  BY <1>4, WhenTyped
<1>9. /\ When(e # f, << Do(IF f THEN "LinkUp" ELSE "LinkDown", d) >>) \in Q
      /\ When(e # f, << Do(IF f THEN "LinkDown" ELSE "LinkUp", c) >>) \in Q
  BY <1>5, WhenTyped
<1>10. When(d.persist = "systemd", << Do("UnitWrite", c) >>) \in Q
  BY <1>2, WhenTyped
<1> HIDE DEF Q
<1>11. \A s, t \in Q : s \o t \in Q
  BY ConcatProperties DEF Q
<1>12. PlanInPlace(c, e, d, f) \in Q
  BY <1>6, <1>7, <1>8, <1>9, <1>11 DEF PlanInPlace
<1>13. InPlaceRollback(c, e, d, f) \in Q
  BY <1>7, <1>8, <1>9, <1>10, <1>11 DEF InPlaceRollback
<1> QED
  BY <1>12, <1>13 DEF Q

LEMMA InPlaceIsSteps == Seq(InPlaceSteps) \subseteq Seq(Steps)
BY SeqMonotonic DEF InPlaceSteps

(***************************************************************************)
(* What steps and the environment do keeps the host's type.                *)
(***************************************************************************)
LEMMA BuiltTyped ==
  ASSUME NEW c \in Configs
  PROVE  NewLink(c) \in Links /\ BuiltLink(c) \in Links
BY DEF NewLink, BuiltLink, Links, Shapes, Mtus, Addrs

LEMMA EffectTyped ==
  ASSUME NEW s \in Steps, NEW h \in Hosts, Possible(s, h)
  PROVE  Effect(s, h) \in Hosts
<1>1. /\ s.kind \in Kinds /\ s.conf \in Configs
      /\ s.conf.mtu \in Mtus /\ s.conf.addr \in Addrs
  BY DEF Steps, Mtus, Addrs
<1>2. NewLink(s.conf) \in Links
  BY <1>1, BuiltTyped
<1>3. CASE s.kind \in {"LinkUp", "LinkDown", "SetMtu", "AddressAdd", "AddressRemove"}
  <2>1. h.link \in Links
    BY <1>3 DEF Possible, Hosts
  <2>2. /\ [h.link EXCEPT !.up = TRUE] \in Links /\ [h.link EXCEPT !.up = FALSE] \in Links
        /\ [h.link EXCEPT !.mtu = s.conf.mtu] \in Links
        /\ [h.link EXCEPT !.addrs = @ \cup {s.conf.addr}] \in Links
        /\ [h.link EXCEPT !.addrs = @ \ {s.conf.addr}] \in Links
    BY <1>1, <2>1 DEF Links
  <2>3. \A l \in Links : [h EXCEPT !.link = l] \in Hosts
    BY DEF Hosts
  <2> QED
    BY <1>3, <2>2, <2>3 DEF Effect
<1>4. CASE s.kind = "UnitStart"
  <2>1. CASE h.active
    BY <1>4, <2>1 DEF Effect
  <2>2. CASE ~h.active
    <3>1. Definition(h) \in Configs
      BY <1>4, <2>2 DEF Possible, Definition, Hosts
    <3>2. BuiltLink(Definition(h)) \in Links
      BY <3>1, BuiltTyped
    <3> QED
      BY <1>4, <2>2, <3>1, <3>2 DEF Effect, Hosts
  <2> QED
    BY <2>1, <2>2
<1>5. CASE s.kind \in {"LinkCreate", "LinkDelete", "UnitWrite", "UnitRemove", "NetdevWrite",
                       "NetdevRemove", "NetworkWrite", "NetworkRemove"}
  BY <1>1, <1>2, <1>5 DEF Effect, Hosts
<1>6. CASE s.kind \in {"DaemonReload", "UnitEnable", "UnitDisable"}
  BY ZenonT(60), <1>6 DEF Effect, Hosts
<1>7. CASE s.kind = "UnitStop"
  <2>1. [h EXCEPT !.link = None, !.active = FALSE] \in Hosts
    BY DEF Hosts
  <2> QED
    BY <1>7, <2>1 DEF Effect
<1>8. CASE s.kind = "NetworkdReload"
  BY <1>8 DEF Effect
<1> QED
  BY <1>1, <1>3, <1>4, <1>5, <1>6, <1>7, <1>8 DEF Kinds, ExecKinds

LEMMA FaultyTyped ==
  ASSUME NEW s \in Steps, NEW h \in Hosts
  PROVE  FaultyEffects(s, h) \subseteq Hosts
<1>1. Possible(s, h) => Effect(s, h) \in Hosts
  BY EffectTyped
<1>2. ASSUME Definition(h) # None
      PROVE  [h EXCEPT !.link = NewLink(Definition(h)), !.loaded = Definition(h)] \in Hosts
  <2>1. Definition(h) \in Configs
    BY <1>2 DEF Definition, Hosts
  <2>2. NewLink(Definition(h)) \in Links
    BY <2>1, BuiltTyped
  <2> QED
    BY <2>1, <2>2 DEF Hosts
<1> QED
  BY <1>1, <1>2 DEF FaultyEffects

LEMMA BootTyped ==
  ASSUME NEW h \in Hosts
  PROVE  BootLinks(h) \subseteq Links \cup {None}
<1>1. h.unit # None => BuiltLink(h.unit) \in Links
  BY BuiltTyped DEF Hosts
<1>2. h.netdev # None => NewLink(h.netdev) \in Links
  BY BuiltTyped DEF Hosts
<1>3. h.netdev # None /\ h.network # None =>
        [BuiltLink(h.network) EXCEPT !.shape = h.netdev.shape, !.mtu = h.netdev.mtu] \in Links
  <2>1. h.network # None => BuiltLink(h.network) \in Links
    BY BuiltTyped DEF Hosts
  <2>2. h.netdev # None => h.netdev.shape \in Shapes /\ h.netdev.mtu \in Mtus
    BY DEF Hosts, Shapes, Mtus
  <2> QED
    BY <2>1, <2>2 DEF Links
<1> QED
  BY <1>1, <1>2, <1>3 DEF BootLinks

LEMMA DriftTyped ==
  ASSUME NEW h \in Hosts
  PROVE  DriftedHosts(h) \subseteq Hosts
<1>1. {[h EXCEPT !.link = None], [h EXCEPT !.enabled = FALSE],
       [h EXCEPT !.unit = None, !.loaded = None],
       [h EXCEPT !.link = None, !.active = FALSE]} \subseteq Hosts
  BY DEF Hosts
<1>2. ASSUME h.link # None
      PROVE  {[h EXCEPT !.link.up = ~@], [h EXCEPT !.link.mtu = DefaultMtu],
              [h EXCEPT !.link.addrs = {}]} \subseteq Hosts
  <2>1. h.link \in Links
    BY <1>2 DEF Hosts
  <2>2. /\ [h.link EXCEPT !.up = ~@] \in Links
        /\ [h.link EXCEPT !.mtu = DefaultMtu] \in Links
        /\ [h.link EXCEPT !.addrs = {}] \in Links
    BY <2>1 DEF Links
  <2> QED
    BY <2>2 DEF Hosts
<1> QED
  BY <1>1, <1>2 DEF DriftedHosts

(***************************************************************************)
(* Type correctness, one lemma for each group of actions.                  *)
(***************************************************************************)
Verdicts == {"none", "running", "refused", "error", "applied", "done", "crashed",
             "inconsistent", "rolledBack"}
Operations == {"none", "create", "update", "reapply", "upRebuild", "up", "down", "delete"}
Histories == [op : Operations, verdict : Verdicts, disturbed : BOOLEAN, undoDisturbed : BOOLEAN,
              enabled : BOOLEAN, before : Hosts, from : Rows]
TypeInv == TypeOK /\ last \in Histories

LEMMA InitTyped == Init => TypeInv
<1> SUFFICES ASSUME Init PROVE TypeInv
  OBVIOUS
<1>1. NoRow \in Rows /\ NoHost \in Hosts
  BY DEF NoRow, NoHost, Rows, Hosts, Statuses
<1>2. NothingYet \in Histories
  BY <1>1 DEF NothingYet, Histories, Operations, Verdicts
<1>3. todo \in Seq(Steps) /\ undo \in Seq(Steps)
  BY EmptySeq DEF Init
<1>4. row \in Rows /\ ~row.live /\ host \in Hosts
  BY <1>1 DEF Init, NoRow
<1>5. faults \in 0..MaxFaults /\ interrupts \in 0..MaxInterrupts
  BY BoundsAssumption DEF Init
<1>6. want \in [conf : Configs \cup {None}, enabled : BOOLEAN]
  BY DEF Init, NoRecord
<1> QED
  BY <1>2, <1>3, <1>4, <1>5, <1>6 DEF Init, TypeInv, TypeOK

LEMMA BeginTyped ==
  ASSUME TypeInv, NEW r \in Rows, r.conf \in Configs,
         NEW name \in {"create", "update", "reapply", "upRebuild", "up", "down", "delete"},
         NEW steps \in Seq(Steps), NEW inverse \in Seq(Steps),
         Begin(name, r, steps, inverse)
  PROVE  TypeInv'
<1>1. r.enabled \in BOOLEAN
  BY DEF Rows
<1>2. last' \in Histories
  BY <1>1 DEF Begin, TypeInv, TypeOK, Histories, Operations, Verdicts
<1>3. want' \in [conf : Configs \cup {None}, enabled : BOOLEAN] /\ want'.conf \in Configs
  BY <1>1 DEF Begin
<1> QED
  BY <1>2, <1>3 DEF Begin, TypeInv, TypeOK

\* The operations a request may begin.
LEMMA OperationsTyped ==
  ASSUME TypeInv, NEW c \in Configs, NEW e \in BOOLEAN,
         \/ Create(c, e) \/ UpdateInPlace(c, e) \/ UpdateRecreate(c, e)
         \/ Reapply \/ UpRebuilds \/ Up \/ Down \/ Delete
  PROVE  TypeInv'
<1>1. row \in Rows /\ (row.live => row.conf \in Configs)
  BY DEF TypeInv, TypeOK
<1>2. row.live /\ row \in Rows => row.enabled \in BOOLEAN
  BY DEF Rows
<1>3. CASE Create(c, e)
  <2>1. [live |-> TRUE, conf |-> c, enabled |-> e, status |-> "pending"] \in Rows
    BY <1>1 DEF Rows, Statuses
  <2> QED
    BY <1>3, <2>1, CreateTyped, BeginTyped DEF Create
<1>4. ASSUME row.live
      PROVE  [row EXCEPT !.conf = c, !.enabled = e] \in Rows
             /\ [row EXCEPT !.conf = c, !.enabled = e].conf = c
  BY <1>1 DEF Rows
<1>5. CASE UpdateInPlace(c, e)
  <2>1. row.live /\ row.conf \in Configs
    BY <1>1, <1>5 DEF UpdateInPlace
  <2>2. /\ PlanInPlace(row.conf, row.enabled, c, e) \in Seq(Steps)
        /\ InPlaceRollback(row.conf, row.enabled, c, e) \in Seq(Steps)
    BY <1>1, <1>2, <2>1, InPlaceTyped, InPlaceIsSteps
  <2> QED
    BY <1>4, <1>5, <2>1, <2>2, BeginTyped DEF UpdateInPlace
<1>6. CASE UpdateRecreate(c, e)
  <2>1. row.live /\ row.conf \in Configs
    BY <1>1, <1>6 DEF UpdateRecreate
  <2> QED
    BY <1>4, <1>6, <2>1, RecreateTyped, BeginTyped DEF UpdateRecreate
<1>7. CASE Reapply \/ UpRebuilds
  <2>1. row.live /\ row.conf \in Configs
    BY <1>1, <1>7 DEF Reapply, UpRebuilds
  <2> QED
    BY <1>1, <1>7, <2>1, RecreateTyped, CreateTyped, BeginTyped DEF Reapply, UpRebuilds
<1>8. CASE Up
  <2>1. row.live /\ row.conf \in Configs
    BY <1>1, <1>8 DEF Up
  <2>2. [row EXCEPT !.enabled = TRUE] \in Rows
        /\ [row EXCEPT !.enabled = TRUE].conf = row.conf
    BY <1>1 DEF Rows
  <2> QED
    BY <1>8, <2>1, <2>2, UpDownTyped, BeginTyped DEF Up
<1>9. CASE Down \/ Delete
  <2>1. row.live /\ row.conf \in Configs
    BY <1>1, <1>9 DEF Down, Delete
  <2> QED
    BY <1>1, <1>9, <2>1, UpDownTyped, DeleteTyped, EmptySeq, BeginTyped DEF Down, Delete
<1> QED
  BY <1>3, <1>5, <1>6, <1>7, <1>8, <1>9

LEMMA StatusTyped ==
  ASSUME TypeInv, NEW status \in Statuses, SetApplyStatus(status)
  PROVE  /\ row' \in Rows /\ row'.live = row.live /\ row'.conf = row.conf
BY DEF TypeInv, TypeOK, SetApplyStatus, Rows

LEMMA EndTyped ==
  ASSUME TypeInv, NEW verdict \in Verdicts, End(verdict)
  PROVE  /\ op' = "none" /\ phase' = "idle"
         /\ todo' \in Seq(Steps) /\ undo' \in Seq(Steps)
         /\ want' \in [conf : Configs \cup {None}, enabled : BOOLEAN]
         /\ cancelled' \in BOOLEAN
         /\ last' \in Histories
<1>1. NoRow \in Rows /\ NoHost \in Hosts
  BY DEF NoRow, NoHost, Rows, Hosts, Statuses
<1> QED
  BY <1>1, EmptySeq DEF End, NoRecord, TypeInv, Histories

LEMMA FailsTyped ==
  ASSUME TypeInv, NEW h, Fails(h)
  PROVE  /\ host' \in Hosts /\ faults' \in 0..MaxFaults
         /\ Head(todo) \in Steps /\ Tail(todo) \in Seq(Steps)
         /\ Disturb(last) \in Histories /\ Disturb(last).from = last.from
<1>1. todo # << >> /\ todo \in Seq(Steps)
  BY DEF Fails, TypeInv, TypeOK
<1>2. Head(todo) \in Steps /\ Tail(todo) \in Seq(Steps)
  BY <1>1, HeadTailProperties
<1>3. FaultyEffects(Head(todo), host) \subseteq Hosts
  BY <1>2, FaultyTyped DEF TypeInv, TypeOK
<1>4. host' \in Hosts
  BY <1>3 DEF Fails, TypeInv, TypeOK
<1>5. faults' \in 0..MaxFaults
  BY BoundsAssumption DEF Fails, TypeInv, TypeOK
<1>6. Disturb(last) \in Histories /\ Disturb(last).from = last.from
  BY DEF Disturb, TypeInv, Histories
<1> QED
  BY <1>2, <1>4, <1>5, <1>6

\* The steps of a plan, and the ends of an operation.
LEMMA PipelineTyped ==
  ASSUME TypeInv,
         \/ GuardPasses \/ GuardRefuses \/ StepDone
         \/ Commit \/ VerifyFails \/ FinishDown \/ FinishDelete \/ UndoDone
  PROVE  TypeInv'
<1>1. CASE GuardPasses
  BY <1>1 DEF GuardPasses, TypeInv, TypeOK
<1>2. CASE GuardRefuses
  <2>1. row' \in Rows /\ row'.live = row.live /\ row'.conf = row.conf
    BY <1>2, StatusTyped DEF GuardRefuses, TypeInv, TypeOK, Statuses
  <2>2. interrupts' \in 0..MaxInterrupts
    BY <1>2, BoundsAssumption DEF GuardRefuses, TypeInv, TypeOK
  <2> QED
    BY <1>2, <2>1, <2>2, EndTyped DEF GuardRefuses, Verdicts, TypeInv, TypeOK
<1>3. CASE StepDone
  <2>1. todo # << >> /\ Head(todo) \in Steps /\ Tail(todo) \in Seq(Steps)
    BY <1>3, HeadTailProperties DEF StepDone, TypeInv, TypeOK
  <2>2. host' \in Hosts
    BY <1>3, <2>1, EffectTyped DEF StepDone, Succeeds, TypeInv, TypeOK
  <2> QED
    BY <1>3, <2>1, <2>2 DEF StepDone, TypeInv, TypeOK
<1>4. CASE Commit
  <2>1. row' \in Rows /\ row'.live = row.live /\ row'.conf = row.conf
    BY <1>4, StatusTyped DEF Commit, Statuses
  <2>2. settled' \in BOOLEAN
    BY <1>4 DEF Commit, TypeInv, TypeOK
  <2> QED
    BY <1>4, <2>1, <2>2, EndTyped DEF Commit, Verdicts, TypeInv, TypeOK
<1>5. CASE VerifyFails
  <2>1. last' \in Histories
    BY <1>5 DEF VerifyFails, TypeInv, Histories
  <2> QED
    BY <1>5, <2>1, EmptySeq DEF VerifyFails, TypeInv, TypeOK
<1>6. CASE FinishDown
  <2>1. row' \in Rows /\ row'.live = row.live /\ row'.conf = row.conf
    BY <1>6 DEF FinishDown, TypeInv, TypeOK, Rows
  <2>2. settled' \in BOOLEAN /\ takenDown' \in BOOLEAN
    BY <1>6 DEF FinishDown, TypeInv, TypeOK
  <2> QED
    BY <1>6, <2>1, <2>2, EndTyped DEF FinishDown, Verdicts, TypeInv, TypeOK
<1>7. CASE FinishDelete
  <2>1. row' \in Rows /\ (row'.live => row'.conf \in Configs)
    BY <1>7 DEF FinishDelete, TypeInv, TypeOK, Rows
  <2> QED
    BY <1>7, <2>1, EndTyped DEF FinishDelete, Verdicts, TypeInv, TypeOK
<1>8. CASE UndoDone
  <2>1. row' \in Rows /\ row'.live = row.live /\ row'.conf = row.conf
    BY <1>8, StatusTyped DEF UndoDone, Statuses
  <2> QED
    BY <1>8, <2>1, EndTyped DEF UndoDone, Verdicts, TypeInv, TypeOK
<1> QED
  BY <1>1, <1>2, <1>3, <1>4, <1>5, <1>6, <1>7, <1>8

\* Steps that fail.
LEMMA FailuresTyped ==
  ASSUME TypeInv, NEW h,
         StepTolerated(h) \/ StepFails(h) \/ StepGivesUp(h) \/ UndoFails(h)
  PROVE  TypeInv'
<1>1. Fails(h)
  BY DEF StepTolerated, StepFails, StepGivesUp, UndoFails
<1>2. CASE StepTolerated(h)
  BY <1>1, <1>2, FailsTyped DEF StepTolerated, TypeInv, TypeOK
<1>3. CASE StepFails(h)
  BY <1>1, <1>3, FailsTyped, EmptySeq DEF StepFails, TypeInv, TypeOK
<1>4. CASE StepGivesUp(h)
  BY <1>1, <1>4, FailsTyped, EndTyped DEF StepGivesUp, Verdicts, TypeInv, TypeOK
<1>5. CASE UndoFails(h)
  <2>1. row' \in Rows /\ row'.live = row.live /\ row'.conf = row.conf
    BY <1>5, StatusTyped DEF UndoFails, Statuses
  <2>2. NoRow \in Rows /\ NoHost \in Hosts
    BY DEF NoRow, NoHost, Rows, Hosts, Statuses
  <2>3. last' \in Histories
    BY <1>1, <1>5, <2>2, FailsTyped DEF UndoFails, Histories, Verdicts
  <2> QED
    BY <1>1, <1>5, <2>1, <2>3, FailsTyped, EmptySeq DEF UndoFails, NoRecord, TypeInv, TypeOK
<1> QED
  BY <1>2, <1>3, <1>4, <1>5

LEMMA EnvironmentTyped ==
  ASSUME TypeInv, Disconnect \/ Crash \/ Reboot \/ Drift
  PROVE  TypeInv'
<1>1. interrupts' \in 0..MaxInterrupts
  <2>1. Interrupt
    BY DEF Disconnect, Crash, Reboot, Drift
  <2> QED
    BY <2>1, BoundsAssumption DEF TypeInv, TypeOK
<1>2. CASE Disconnect
  BY <1>1, <1>2 DEF Disconnect, TypeInv, TypeOK
<1>3. CASE Crash
  BY <1>1, <1>3, EndTyped DEF Crash, Verdicts, TypeInv, TypeOK
<1>4. CASE Reboot
  <2>1. PICK l \in BootLinks(host) :
          host' = [host EXCEPT !.link = l, !.loaded = host.unit,
                               !.active = host.enabled /\ host.unit # None]
    BY <1>4 DEF Reboot
  <2>2. l \in Links \cup {None}
    BY BootTyped DEF TypeInv, TypeOK
  <2>3. host' \in Hosts
    BY ZenonT(60), <2>1, <2>2 DEF TypeInv, TypeOK, Hosts
  <2>4. CASE phase = "idle"
    BY <1>1, <1>4, <2>3, <2>4 DEF Reboot, TypeInv, TypeOK
  <2>5. CASE phase # "idle"
    BY <1>1, <1>4, <2>3, <2>5, EndTyped DEF Reboot, Verdicts, TypeInv, TypeOK
  <2> QED
    BY <2>4, <2>5
<1>5. CASE Drift
  <2>1. host' \in Hosts
    BY <1>5, DriftTyped DEF Drift, TypeInv, TypeOK
  <2> QED
    BY <1>1, <1>5, <2>1 DEF Drift, TypeInv, TypeOK
<1> QED
  BY <1>2, <1>3, <1>4, <1>5

LEMMA StepTyped == TypeInv /\ [Next]_vars => TypeInv'
<1> SUFFICES ASSUME TypeInv, [Next]_vars PROVE TypeInv'
  OBVIOUS
<1>1. CASE \E c \in Configs, e \in EnabledInputs :
             Create(c, e) \/ UpdateInPlace(c, e) \/ UpdateRecreate(c, e)
  BY <1>1, OperationsTyped, BoundsAssumption
<1>6. CASE Reapply \/ UpRebuilds \/ Up \/ Down \/ Delete
  <2>1. row.conf \in Configs
    BY <1>6 DEF Reapply, UpRebuilds, Up, Down, Delete, TypeInv, TypeOK
  <2> QED
    BY <1>6, <2>1, OperationsTyped
<1>2. CASE \/ GuardPasses \/ GuardRefuses \/ StepDone
           \/ Commit \/ VerifyFails \/ FinishDown \/ FinishDelete \/ UndoDone
  BY <1>2, PipelineTyped
<1>3. CASE FailedStep
  BY <1>3, FailuresTyped DEF FailedStep
<1>4. CASE Disconnect \/ Crash \/ Reboot \/ Drift
  BY <1>4, EnvironmentTyped
<1>5. CASE UNCHANGED vars
  BY <1>5 DEF vars, TypeInv, TypeOK
<1> QED
  BY <1>1, <1>2, <1>3, <1>4, <1>5, <1>6 DEF Next

\* Every variable keeps its type, whatever configurations exist and however many
\* steps fail: the pipeline only ever holds steps of plans, and a row that is not
\* deleted names a configuration.
THEOREM TypeInvariant == Spec => []TypeOK
<1>1. Init => TypeInv
  BY InitTyped
<1>2. TypeInv /\ [Next]_vars => TypeInv'
  BY StepTyped
<1>3. TypeInv => TypeOK
  BY DEF TypeInv
<1> QED
  BY <1>1, <1>2, <1>3, PTL DEF Spec

(***************************************************************************)
(* A change in place keeps the interface.                                  *)
(***************************************************************************)
InPlaceInv ==
  op = "update" /\ ~RequiresRecreate(last.from.conf, row.conf) =>
    todo \in Seq(InPlaceSteps) /\ undo \in Seq(InPlaceSteps)

\* None of these steps takes an interface away, not even when it fails half way.
LEMMA InPlaceStepKeepsLink ==
  ASSUME NEW s \in InPlaceSteps, NEW h \in Hosts, h.link # None
  PROVE  /\ Possible(s, h) => Effect(s, h).link # None
         /\ \A g \in FaultyEffects(s, h) : g.link # None
<1>1. s \in Steps /\ s.kind \in InPlaceKinds
  BY DEF InPlaceSteps
<1>2. h.link \in Links
  BY DEF Hosts
<1>3. ASSUME Possible(s, h) PROVE Effect(s, h).link # None
  <2>1. CASE s.kind \in {"LinkUp", "LinkDown", "SetMtu", "AddressAdd", "AddressRemove"}
    <3>1. Effect(s, h).link \in Links
      <4>1. Effect(s, h) \in Hosts
        BY <1>1, <1>3, EffectTyped
      <4>2. s.conf.mtu \in Mtus /\ s.conf.addr \in Addrs
        BY <1>1 DEF Steps, Mtus, Addrs
      <4>3. /\ [h.link EXCEPT !.up = TRUE] \in Links /\ [h.link EXCEPT !.up = FALSE] \in Links
            /\ [h.link EXCEPT !.mtu = s.conf.mtu] \in Links
            /\ [h.link EXCEPT !.addrs = @ \cup {s.conf.addr}] \in Links
            /\ [h.link EXCEPT !.addrs = @ \ {s.conf.addr}] \in Links
        BY <1>2, <4>2 DEF Links
      <4>4. \A l \in Links : [h EXCEPT !.link = l].link = l
        BY DEF Hosts
      <4> QED
        BY <2>1, <4>3, <4>4 DEF Effect
    <3> QED
      BY <3>1, NoneAssumption
  <2>2. CASE s.kind \in {"UnitWrite", "DaemonReload", "NetdevWrite", "NetworkWrite",
                         "NetworkdReload"}
    BY <2>2 DEF Effect, Hosts
  <2> QED
    BY <1>1, <2>1, <2>2 DEF InPlaceKinds
<1>4. s.kind # "UnitStart"
  BY <1>1 DEF InPlaceKinds
<1> QED
  BY <1>3, <1>4 DEF FaultyEffects

\* A step that only moves along the plan it has, or turns to its inverse.
OnlyAdvances ==
  /\ op' = op /\ row'.conf = row.conf /\ last'.from = last.from
  /\ todo' = todo \/ todo' = undo \/ (todo # << >> /\ todo' = Tail(todo))
  /\ undo' = undo \/ undo' = << >>

LEMMA AdvanceKeepsInPlaceInv == InPlaceInv /\ OnlyAdvances => InPlaceInv'
<1> SUFFICES ASSUME InPlaceInv, OnlyAdvances,
                    op = "update", ~RequiresRecreate(last.from.conf, row.conf)
             PROVE  todo' \in Seq(InPlaceSteps) /\ undo' \in Seq(InPlaceSteps)
  BY DEF InPlaceInv, OnlyAdvances, RequiresRecreate
<1>1. todo \in Seq(InPlaceSteps) /\ undo \in Seq(InPlaceSteps)
  BY DEF InPlaceInv
<1>2. todo # << >> => Tail(todo) \in Seq(InPlaceSteps)
  BY <1>1, HeadTailProperties
<1> QED
  BY <1>1, <1>2, EmptySeq DEF OnlyAdvances

LEMMA InPlaceInvStep == TypeInv /\ InPlaceInv /\ [Next]_vars => InPlaceInv'
<1> SUFFICES ASSUME TypeInv, InPlaceInv, [Next]_vars PROVE InPlaceInv'
  OBVIOUS
<1>1. CASE op' # "update"
  BY <1>1 DEF InPlaceInv
<1>2. ASSUME NEW c \in Configs, NEW e \in EnabledInputs, UpdateInPlace(c, e)
      PROVE  InPlaceInv'
  <2>1. row.conf \in Configs /\ row.enabled \in BOOLEAN /\ e \in BOOLEAN
    BY <1>2, BoundsAssumption DEF UpdateInPlace, TypeInv, TypeOK, Rows
  <2>2. /\ PlanInPlace(row.conf, row.enabled, c, e) \in Seq(InPlaceSteps)
        /\ InPlaceRollback(row.conf, row.enabled, c, e) \in Seq(InPlaceSteps)
    BY <2>1, InPlaceTyped
  <2> QED
    BY <1>2, <2>2 DEF UpdateInPlace, Begin, InPlaceInv
<1>3. ASSUME NEW c \in Configs, NEW e \in EnabledInputs, UpdateRecreate(c, e)
      PROVE  InPlaceInv'
  <2>1. row'.conf = c /\ last'.from = row /\ RequiresRecreate(row.conf, c)
    BY <1>3 DEF UpdateRecreate, Begin, TypeInv, TypeOK, Rows
  <2> QED
    BY <2>1 DEF InPlaceInv
<1>4. (\/ \E c \in Configs, e \in EnabledInputs : Create(c, e)
       \/ Reapply \/ UpRebuilds \/ Up \/ Down \/ Delete) => op' # "update"
  BY DEF Create, Reapply, UpRebuilds, Up, Down, Delete, Begin
<1>5. CASE GuardRefuses \/ Commit \/ FinishDown \/ FinishDelete \/ UndoDone \/ Crash
  BY <1>5 DEF GuardRefuses, Commit, FinishDown, FinishDelete, UndoDone, Crash, End, InPlaceInv
<1>6. OnlyAdvances => InPlaceInv'
  BY AdvanceKeepsInPlaceInv
<1>7. CASE GuardPasses \/ StepDone
  BY <1>6, <1>7 DEF GuardPasses, StepDone, OnlyAdvances
<1>8. CASE VerifyFails
  <2>1. last'.from = last.from
    BY <1>8 DEF VerifyFails, TypeInv, Histories
  <2> QED
    BY <1>6, <1>8, <2>1 DEF VerifyFails, OnlyAdvances
<1>9. ASSUME NEW h, StepTolerated(h) \/ StepFails(h) \/ StepGivesUp(h) \/ UndoFails(h)
      PROVE  InPlaceInv'
  <2>1. Fails(h) /\ todo # << >>
    BY <1>9 DEF StepTolerated, StepFails, StepGivesUp, UndoFails, Fails
  <2>2. Disturb(last).from = last.from
    BY <2>1, FailsTyped
  <2>3. CASE StepTolerated(h)
    BY <1>6, <2>1, <2>2, <2>3 DEF StepTolerated, OnlyAdvances
  <2>4. CASE StepFails(h)
    BY <1>6, <2>2, <2>4 DEF StepFails, OnlyAdvances
  <2>5. CASE StepGivesUp(h) \/ UndoFails(h)
    BY <2>5 DEF StepGivesUp, UndoFails, End, InPlaceInv
  <2> QED
    BY <1>9, <2>3, <2>4, <2>5
<1>10. CASE Disconnect \/ Drift
  BY <1>6, <1>10 DEF Disconnect, Drift, OnlyAdvances
<1>11. CASE Reboot
  <2>1. CASE phase = "idle"
    BY <1>6, <1>11, <2>1 DEF Reboot, OnlyAdvances
  <2>2. CASE phase # "idle"
    BY <1>11, <2>2 DEF Reboot, End, InPlaceInv
  <2> QED
    BY <2>1, <2>2
<1>12. CASE UNCHANGED vars
  BY <1>6, <1>12 DEF vars, OnlyAdvances
<1> QED
  BY <1>1, <1>2, <1>3, <1>4, <1>5, <1>7, <1>8, <1>9, <1>10, <1>11, <1>12 DEF Next, FailedStep

\* One step of a change in place leaves the interface where it is, unless somebody
\* else interrupts it.
LEMMA InPlaceKeepsStep ==
  ASSUME TypeInv, InPlaceInv, [Next]_vars,
         op = "update", phase \in {"steps", "undo"}, interrupts' = interrupts,
         ~RequiresRecreate(last.from.conf, row.conf), host.link # None
  PROVE  host'.link # None
<1>1. todo \in Seq(InPlaceSteps) /\ host \in Hosts /\ interrupts \in Nat
  BY BoundsAssumption DEF InPlaceInv, TypeInv, TypeOK
<1>2. todo # << >> => Head(todo) \in InPlaceSteps
  BY <1>1, HeadTailProperties
<1>3. CASE StepDone
  <2>1. Head(todo) \in InPlaceSteps /\ Possible(Head(todo), host)
    BY <1>2, <1>3 DEF StepDone, Succeeds
  <2> QED
    BY <1>1, <1>3, <2>1, InPlaceStepKeepsLink DEF StepDone
<1>4. ASSUME NEW h, StepTolerated(h) \/ StepFails(h) \/ StepGivesUp(h) \/ UndoFails(h)
      PROVE  host'.link # None
  <2>1. Fails(h)
    BY <1>4 DEF StepTolerated, StepFails, StepGivesUp, UndoFails
  <2>2. Head(todo) \in InPlaceSteps
    BY <1>2, <2>1 DEF Fails
  <2>3. \A g \in FaultyEffects(Head(todo), host) : g.link # None
    BY <1>1, <2>2, InPlaceStepKeepsLink
  <2> QED
    BY <2>1, <2>3 DEF Fails
<1>5. CASE Commit \/ VerifyFails \/ FinishDown \/ FinishDelete \/ UndoDone
  BY <1>5 DEF Commit, VerifyFails, FinishDown, FinishDelete, UndoDone
<1>6. CASE GuardRefuses \/ Disconnect \/ Crash \/ Reboot \/ Drift
  <2>1. interrupts' = interrupts + 1
    BY <1>6 DEF GuardRefuses, Disconnect, Crash, Reboot, Drift
  <2> QED
    BY <1>1, <2>1
<1>7. CASE UNCHANGED vars
  BY <1>7 DEF vars
<1>8. ASSUME NEW c \in Configs, NEW e \in EnabledInputs,
             \/ Create(c, e) \/ UpdateInPlace(c, e) \/ UpdateRecreate(c, e)
             \/ Reapply \/ UpRebuilds \/ Up \/ Down \/ Delete \/ GuardPasses
      PROVE  FALSE
  BY <1>8 DEF Create, UpdateInPlace, UpdateRecreate, Reapply, UpRebuilds, Up, Down, Delete,
              Begin, GuardPasses
<1>9. ~(Reapply \/ UpRebuilds \/ Up \/ Down \/ Delete \/ GuardPasses)
  BY DEF Reapply, UpRebuilds, Up, Down, Delete, Begin, GuardPasses
<1> QED
  BY <1>3, <1>4, <1>5, <1>6, <1>7, <1>8, <1>9 DEF Next, FailedStep

\* Changing an MTU, an address or the enabled state never takes the interface away,
\* for every configuration, whichever step fails and also while it is undone.
THEOREM InPlaceNeverInterrupts == Spec => InPlaceKeepsInterface
<1>1. Init => TypeInv /\ InPlaceInv
  BY InitTyped DEF Init, InPlaceInv
<1>2. TypeInv /\ InPlaceInv /\ [Next]_vars => (TypeInv /\ InPlaceInv)'
  BY StepTyped, InPlaceInvStep
<1>3. TypeInv /\ InPlaceInv /\ [Next]_vars =>
        [ /\ op = "update" /\ phase \in {"steps", "undo"} /\ interrupts' = interrupts
          /\ ~RequiresRecreate(last.from.conf, row.conf) /\ host.link # None
          => host'.link # None ]_vars
  BY InPlaceKeepsStep
<1> QED
  BY <1>1, <1>2, <1>3, PTL DEF Spec, InPlaceKeepsInterface

(***************************************************************************)
(* What is left of a plan, and what is still ahead in it.                  *)
(***************************************************************************)
\* The step of s with which k are left, itself included.
At(s, k) == s[Len(s) - k + 1]

\* s is what is left of the plan.
Remaining(s, plan) == Len(s) <= Len(plan) /\ \A k \in 1..Len(s) : At(s, k) = At(plan, k)

LEMMA RemainingWhole ==
  ASSUME NEW plan \in Seq(Steps)
  PROVE  Remaining(plan, plan)
BY DEF Remaining

LEMMA RemainingTail ==
  ASSUME NEW plan \in Seq(Steps), NEW s \in Seq(Steps), Remaining(s, plan), s # << >>
  PROVE  /\ Remaining(Tail(s), plan) /\ Len(Tail(s)) = Len(s) - 1
         /\ Len(s) \in 1..Len(plan) /\ Head(s) = At(plan, Len(s))
<1>1. /\ Len(s) \in Nat /\ Len(s) >= 1 /\ Len(Tail(s)) = Len(s) - 1
      /\ Len(plan) \in Nat /\ Head(s) = s[1]
  BY LenProperties, EmptySeq, HeadTailProperties
<1>2. \A i \in 1..Len(Tail(s)) : Tail(s)[i] = s[i + 1]
  BY <1>1, HeadTailProperties
<1>3. \A k \in 1..Len(Tail(s)) : At(Tail(s), k) = At(s, k)
  <2> TAKE k \in 1..Len(Tail(s))
  <2>1. Len(Tail(s)) - k + 1 \in 1..Len(Tail(s))
        /\ (Len(Tail(s)) - k + 1) + 1 = Len(s) - k + 1
    BY <1>1
  <2> QED
    BY <1>2, <2>1 DEF At
<1>4. At(s, Len(s)) = Head(s)
  BY <1>1 DEF At
<1> QED
  BY <1>1, <1>3, <1>4 DEF Remaining

LEMMA AtConcat ==
  ASSUME NEW s \in Seq(Steps), NEW t \in Seq(Steps)
  PROVE  /\ Len(s \o t) = Len(s) + Len(t)
         /\ \A k \in 1..(Len(s) + Len(t)) :
              At(s \o t, k) = IF k <= Len(t) THEN At(t, k) ELSE At(s, k - Len(t))
<1>1. /\ Len(s) \in Nat /\ Len(t) \in Nat /\ Len(s \o t) = Len(s) + Len(t)
      /\ \A i \in 1..(Len(s) + Len(t)) :
           (s \o t)[i] = IF i <= Len(s) THEN s[i] ELSE t[i - Len(s)]
  BY LenProperties, ConcatProperties
<1>2. ASSUME NEW k \in 1..(Len(s) + Len(t))
      PROVE  At(s \o t, k) = IF k <= Len(t) THEN At(t, k) ELSE At(s, k - Len(t))
  <2>1. /\ Len(s) + Len(t) - k + 1 \in 1..(Len(s) + Len(t))
        /\ (Len(s) + Len(t) - k + 1 <= Len(s)) <=> ~(k <= Len(t))
        /\ (Len(s) + Len(t) - k + 1) - Len(s) = Len(t) - k + 1
        /\ Len(s) + Len(t) - k + 1 = Len(s) - (k - Len(t)) + 1
    BY <1>1
  <2> QED
    BY <1>1, <2>1 DEF At
<1> QED
  BY <1>1, <1>2

\* s leaves alone what steps of kind w set and steps of kind r take away.
Keeps(s, w, r) == \A i \in DOMAIN s : s[i].kind \notin {w, r}

\* s sets it for c: a step does that cannot be skipped, and no later one undoes it.
Sets(s, w, r, c) ==
  \E i \in DOMAIN s : /\ s[i].kind = w /\ s[i].conf = c /\ ~s[i].tolerate
                      /\ \A j \in DOMAIN s : i < j => s[j].kind \notin {w, r}

\* At the end of s it is set for c, as it is now already or by a step ahead.
Coming(s, w, r, c, now) == Sets(s, w, r, c) \/ (now /\ Keeps(s, w, r))

LEMMA KeepsTail ==
  ASSUME NEW s \in Seq(Steps), s # << >>, NEW w, NEW r, Keeps(s, w, r)
  PROVE  Keeps(Tail(s), w, r) /\ Head(s).kind \notin {w, r}
<1>1. /\ Len(s) \in Nat /\ Len(s) >= 1 /\ DOMAIN s = 1..Len(s) /\ Head(s) = s[1]
      /\ Tail(s) \in Seq(Steps) /\ Len(Tail(s)) = Len(s) - 1
      /\ DOMAIN Tail(s) = 1..Len(Tail(s))
  BY LenProperties, EmptySeq, HeadTailProperties
<1>2. \A i \in 1..Len(Tail(s)) : Tail(s)[i] = s[i + 1] /\ i + 1 \in DOMAIN s
  BY <1>1, HeadTailProperties
<1> QED
  BY <1>1, <1>2 DEF Keeps

LEMMA SetsTail ==
  ASSUME NEW s \in Seq(Steps), s # << >>, NEW w, NEW r, NEW c, Sets(s, w, r, c)
  PROVE  \/ Sets(Tail(s), w, r, c)
         \/ /\ Head(s).kind = w /\ Head(s).conf = c /\ ~Head(s).tolerate
            /\ Keeps(Tail(s), w, r)
<1>1. /\ Len(s) \in Nat /\ Len(s) >= 1 /\ DOMAIN s = 1..Len(s) /\ Head(s) = s[1]
      /\ Tail(s) \in Seq(Steps) /\ Len(Tail(s)) = Len(s) - 1
      /\ DOMAIN Tail(s) = 1..Len(Tail(s))
  BY LenProperties, EmptySeq, HeadTailProperties
<1>2. \A i \in 1..Len(Tail(s)) : Tail(s)[i] = s[i + 1] /\ i + 1 \in DOMAIN s
  BY <1>1, HeadTailProperties
<1>3. PICK i \in DOMAIN s : /\ s[i].kind = w /\ s[i].conf = c /\ ~s[i].tolerate
                            /\ \A j \in DOMAIN s : i < j => s[j].kind \notin {w, r}
  BY DEF Sets
<1>4. CASE i = 1
  <2>1. \A j \in 1..Len(Tail(s)) : Tail(s)[j].kind \notin {w, r}
    BY <1>1, <1>2, <1>3, <1>4
  <2> QED
    BY <1>1, <1>3, <1>4, <2>1 DEF Keeps
<1>5. CASE i # 1
  <2>1. i - 1 \in 1..Len(Tail(s)) /\ (i - 1) + 1 = i
    BY <1>1, <1>5
  <2>2. Tail(s)[i - 1] = s[i]
    BY <1>2, <2>1
  <2>3. \A j \in 1..Len(Tail(s)) : i - 1 < j => Tail(s)[j].kind \notin {w, r}
    BY <1>1, <1>2, <1>3
  <2> QED
    BY <1>1, <1>3, <2>1, <2>2, <2>3 DEF Sets
<1> QED
  BY <1>4, <1>5

\* One step along the plan.
LEMMA ComingTail ==
  ASSUME NEW s \in Seq(Steps), s # << >>, NEW w, NEW r, NEW c,
         NEW now \in BOOLEAN, NEW next \in BOOLEAN, Coming(s, w, r, c, now),
         Head(s).kind \notin {w, r} /\ now => next,
         Head(s).kind = w /\ Head(s).conf = c /\ ~Head(s).tolerate => next
  PROVE  Coming(Tail(s), w, r, c, next)
BY KeepsTail, SetsTail DEF Coming

LEMMA KeepsConcat ==
  ASSUME NEW s \in Seq(Steps), NEW t \in Seq(Steps), NEW w, NEW r,
         Keeps(s, w, r), Keeps(t, w, r)
  PROVE  Keeps(s \o t, w, r)
<1>1. /\ s \o t \in Seq(Steps) /\ Len(s) \in Nat /\ Len(t) \in Nat
      /\ DOMAIN s = 1..Len(s) /\ DOMAIN t = 1..Len(t)
      /\ DOMAIN (s \o t) = 1..(Len(s) + Len(t))
  BY ConcatProperties, LenProperties
<1>2. \A i \in 1..(Len(s) + Len(t)) :
        IF i <= Len(s) THEN i \in DOMAIN s /\ (s \o t)[i] = s[i]
        ELSE i - Len(s) \in DOMAIN t /\ (s \o t)[i] = t[i - Len(s)]
  BY <1>1, ConcatProperties
<1> QED
  BY <1>1, <1>2 DEF Keeps

LEMMA SetsConcat ==
  ASSUME NEW s \in Seq(Steps), NEW t \in Seq(Steps), NEW w, NEW r, NEW c,
         Sets(t, w, r, c) \/ (Sets(s, w, r, c) /\ Keeps(t, w, r))
  PROVE  Sets(s \o t, w, r, c)
<1>1. /\ s \o t \in Seq(Steps) /\ Len(s) \in Nat /\ Len(t) \in Nat
      /\ DOMAIN s = 1..Len(s) /\ DOMAIN t = 1..Len(t)
      /\ DOMAIN (s \o t) = 1..(Len(s) + Len(t))
  BY ConcatProperties, LenProperties
<1>2. \A i \in 1..(Len(s) + Len(t)) :
        IF i <= Len(s) THEN i \in DOMAIN s /\ (s \o t)[i] = s[i]
        ELSE i - Len(s) \in DOMAIN t /\ (s \o t)[i] = t[i - Len(s)]
  BY <1>1, ConcatProperties
<1>3. CASE Sets(t, w, r, c)
  <2>1. PICK i \in DOMAIN t : /\ t[i].kind = w /\ t[i].conf = c /\ ~t[i].tolerate
                              /\ \A j \in DOMAIN t : i < j => t[j].kind \notin {w, r}
    BY <1>3 DEF Sets
  <2>2. /\ Len(s) + i \in DOMAIN (s \o t) /\ ~(Len(s) + i <= Len(s))
        /\ (Len(s) + i) - Len(s) = i
    BY <1>1
  <2>3. (s \o t)[Len(s) + i] = t[i]
    BY <1>1, <1>2, <2>2
  <2>4. \A j \in DOMAIN (s \o t) : Len(s) + i < j => (s \o t)[j].kind \notin {w, r}
    <3> SUFFICES ASSUME NEW j \in DOMAIN (s \o t), Len(s) + i < j
                 PROVE  (s \o t)[j].kind \notin {w, r}
      OBVIOUS
    <3>1. ~(j <= Len(s)) /\ i < j - Len(s)
      BY <1>1
    <3> QED
      BY <1>1, <1>2, <2>1, <3>1
  <2> QED
    BY <2>1, <2>2, <2>3, <2>4 DEF Sets
<1>4. CASE Sets(s, w, r, c) /\ Keeps(t, w, r)
  <2>1. PICK i \in DOMAIN s : /\ s[i].kind = w /\ s[i].conf = c /\ ~s[i].tolerate
                              /\ \A j \in DOMAIN s : i < j => s[j].kind \notin {w, r}
    BY <1>4 DEF Sets
  <2>2. i \in DOMAIN (s \o t) /\ (s \o t)[i] = s[i]
    BY <1>1, <1>2
  <2>3. \A j \in DOMAIN (s \o t) : i < j => (s \o t)[j].kind \notin {w, r}
    BY <1>1, <1>2, <1>4, <2>1 DEF Keeps
  <2> QED
    BY <2>1, <2>2, <2>3 DEF Sets
<1> QED
  BY <1>3, <1>4

(***************************************************************************)
(* What a step changes of the host, field by field.                        *)
(***************************************************************************)
LinkKinds == {"LinkCreate", "LinkDelete", "LinkUp", "LinkDown", "SetMtu",
              "AddressAdd", "AddressRemove", "UnitStart", "UnitStop"}

\* g is h after the step s.
After(s, h, g) ==
  /\ g.unit = (IF s.kind = "UnitWrite" THEN s.conf
               ELSE IF s.kind = "UnitRemove" THEN None ELSE h.unit)
  /\ g.netdev = (IF s.kind = "NetdevWrite" THEN s.conf
                 ELSE IF s.kind = "NetdevRemove" THEN None ELSE h.netdev)
  /\ g.network = (IF s.kind = "NetworkWrite" THEN s.conf
                  ELSE IF s.kind = "NetworkRemove" THEN None ELSE h.network)
  /\ g.enabled <=> s.kind = "UnitEnable" \/ (h.enabled /\ s.kind # "UnitDisable")
  /\ g.active <=> s.kind = "UnitStart" \/ (h.active /\ s.kind # "UnitStop")
  /\ s.kind = "DaemonReload" => g.loaded = h.unit
  /\ s.kind \notin {"DaemonReload", "UnitStart"} => g.loaded = h.loaded
  /\ s.kind \notin LinkKinds => g.link = h.link
  /\ s.kind = "LinkCreate" => g.link = NewLink(s.conf)
  /\ s.kind = "LinkDelete" => g.link = None
  /\ s.kind = "LinkUp" => h.link # None /\ g.link = [h.link EXCEPT !.up = TRUE]
  /\ s.kind = "LinkDown" => h.link # None /\ g.link = [h.link EXCEPT !.up = FALSE]
  /\ s.kind = "SetMtu" => h.link # None /\ g.link = [h.link EXCEPT !.mtu = s.conf.mtu]
  /\ s.kind = "AddressAdd" =>
       h.link # None /\ g.link = [h.link EXCEPT !.addrs = @ \cup {s.conf.addr}]
  /\ s.kind = "AddressRemove" =>
       h.link # None /\ g.link = [h.link EXCEPT !.addrs = @ \ {s.conf.addr}]
  /\ s.kind = "UnitStop" => g.link = (IF h.active THEN None ELSE h.link)
  /\ s.kind = "UnitStart" =>
       IF h.active THEN g.link = h.link
       ELSE g.link = BuiltLink(Definition(h)) /\ Definition(h) # None

LEMMA EffectFields ==
  ASSUME NEW s \in Steps, NEW h \in Hosts, Possible(s, h)
  PROVE  After(s, h, Effect(s, h))
<1>1. s.kind \in Kinds
  BY DEF Steps
<1>2. /\ h = [link |-> h.link, unit |-> h.unit, loaded |-> h.loaded, enabled |-> h.enabled,
              active |-> h.active, netdev |-> h.netdev, network |-> h.network]
      /\ h.enabled \in BOOLEAN /\ h.active \in BOOLEAN
  BY SMTT(40) DEF Hosts
<1>3. CASE s.kind \in {"LinkUp", "LinkDown", "SetMtu", "AddressAdd", "AddressRemove"}
  <2>1. h.link # None
    BY <1>3 DEF Possible
  <2>2. Effect(s, h) \in [link : {Effect(s, h).link}, unit : {h.unit}, loaded : {h.loaded},
          enabled : {h.enabled}, active : {h.active}, netdev : {h.netdev}, network : {h.network}]
    BY <1>2, <1>3 DEF Effect
  <2> QED
    BY ZenonT(60), <1>2, <1>3, <2>1, <2>2 DEF Effect, After, LinkKinds
<1>4. CASE s.kind = "UnitStart"
  BY <1>2, <1>4 DEF Effect, Possible, After, LinkKinds
<1>5. CASE s.kind = "UnitStop"
  BY SMTT(40), <1>2, <1>5 DEF Effect, After, LinkKinds
<1>6. CASE s.kind \in {"LinkCreate", "LinkDelete"}
  BY ZenonT(60), <1>2, <1>6 DEF Effect, After, LinkKinds
<1>7. CASE s.kind \in {"UnitWrite", "UnitRemove", "NetdevWrite",
                       "NetdevRemove", "NetworkWrite", "NetworkRemove"}
  BY ZenonT(60), <1>2, <1>7 DEF Effect, After, LinkKinds
<1>8. CASE s.kind \in {"DaemonReload", "UnitEnable", "UnitDisable", "NetworkdReload"}
  BY ZenonT(60), <1>2, <1>8 DEF Effect, After, LinkKinds
<1> QED
  BY <1>1, <1>3, <1>4, <1>5, <1>6, <1>7, <1>8 DEF Kinds, ExecKinds

\* What a step that failed may have done: nothing, all of it if it is a command, or
\* a start that ended half way.
LEMMA FaultyFields ==
  ASSUME NEW s \in Steps, NEW h \in Hosts, NEW g \in FaultyEffects(s, h)
  PROVE  \/ g = h
         \/ s.kind \in ExecKinds /\ After(s, h, g)
         \/ /\ s.kind = "UnitStart" /\ ~h.active
            /\ g.unit = h.unit /\ g.netdev = h.netdev /\ g.network = h.network
            /\ g.enabled = h.enabled /\ g.active = h.active
<1>1. Possible(s, h) => After(s, h, Effect(s, h))
  BY EffectFields
<1> QED
  BY <1>1 DEF FaultyEffects, Hosts

LEMMA FaultyKeepsFiles ==
  ASSUME NEW s \in Steps, NEW h \in Hosts, NEW g \in FaultyEffects(s, h)
  PROVE  /\ g.unit = h.unit /\ g.netdev = h.netdev /\ g.network = h.network
         /\ s.kind \notin {"UnitEnable", "UnitDisable"} => (g.enabled <=> h.enabled)
<1>1. CASE g = h
  BY <1>1
<1>2. CASE s.kind \in ExecKinds /\ After(s, h, g)
  BY <1>2 DEF After, ExecKinds, Hosts
<1>3. CASE g.unit = h.unit /\ g.netdev = h.netdev /\ g.network = h.network /\ g.enabled = h.enabled
  BY <1>3
<1> QED
  BY <1>1, <1>2, <1>3, FaultyFields

(***************************************************************************)
(* What the variables say together while an operation runs and after it.   *)
(***************************************************************************)
Changing == {"guard", "steps"}

Bookkeeping ==
  /\ phase = "idle" <=> op = "none"
  /\ phase # "idle" =>
       /\ row.live /\ want = [conf |-> row.conf, enabled |-> row.enabled]
       /\ last.op = op /\ last.verdict = "running" /\ last.enabled = row.enabled
  /\ phase = "idle" => ~cancelled /\ last.verdict # "running"
  /\ phase \in Changing => ~last.undoDisturbed
  /\ phase = "undo" => op \in RunOps /\ ~settled
  /\ takenDown => phase = "idle"

\* What no step under way changes of the row and of the history.
LEMMA SameOperation ==
  ASSUME TypeInv, NEW h, StepTolerated(h) \/ StepFails(h)
  PROVE  /\ row' = row /\ op' = op /\ want' = want /\ last'.op = last.op
         /\ last'.verdict = last.verdict /\ last'.enabled = last.enabled
         /\ last'.from = last.from /\ last'.before = last.before
         /\ phase = "steps" => last'.undoDisturbed = last.undoDisturbed
         /\ phase = "undo" => last'.disturbed = last.disturbed
BY DEF StepTolerated, StepFails, Disturb, TypeInv, Histories

LEMMA EndOf ==
  ASSUME TypeInv, NEW v, End(v)
  PROVE  /\ op' = "none" /\ phase' = "idle" /\ todo' = << >> /\ undo' = << >>
         /\ ~cancelled' /\ last'.verdict = v /\ last'.op = last.op
         /\ last'.disturbed = last.disturbed /\ last'.undoDisturbed = last.undoDisturbed
         /\ last'.enabled = last.enabled
BY DEF End, TypeInv, Histories

LEMMA BookkeepingBegins ==
  ASSUME TypeInv, Bookkeeping, NEW c \in Configs, NEW e \in BOOLEAN,
         \/ Create(c, e) \/ UpdateInPlace(c, e) \/ UpdateRecreate(c, e)
         \/ Reapply \/ UpRebuilds \/ Up \/ Down \/ Delete
  PROVE  Bookkeeping'
<1>1. row \in Rows
  BY DEF TypeInv, TypeOK
<1>2. row.live => /\ [row EXCEPT !.conf = c, !.enabled = e].live
                  /\ [row EXCEPT !.enabled = TRUE].live
  BY <1>1 DEF Rows
<1>3. ASSUME NEW r, NEW name \in {"create", "update", "reapply", "upRebuild", "up", "down", "delete"},
             NEW s, NEW t, r.live, Begin(name, r, s, t)
      PROVE  Bookkeeping'
  BY <1>3 DEF Begin, Bookkeeping, Changing
<1>4. CASE Create(c, e)
  BY <1>3, <1>4 DEF Create
<1>5. CASE UpdateInPlace(c, e) \/ UpdateRecreate(c, e)
  BY <1>2, <1>3, <1>5 DEF UpdateInPlace, UpdateRecreate
<1>6. CASE Reapply \/ UpRebuilds \/ Up \/ Down \/ Delete
  BY <1>2, <1>3, <1>6 DEF Reapply, UpRebuilds, Up, Down, Delete
<1> QED
  BY <1>4, <1>5, <1>6

LEMMA BookkeepingStep == TypeInv /\ Bookkeeping /\ [Next]_vars => Bookkeeping'
<1> SUFFICES ASSUME TypeInv, Bookkeeping, [Next]_vars PROVE Bookkeeping'
  OBVIOUS
<1>1. CASE \E c \in Configs, e \in EnabledInputs :
             Create(c, e) \/ UpdateInPlace(c, e) \/ UpdateRecreate(c, e)
  BY <1>1, BookkeepingBegins, BoundsAssumption
<1>2. CASE Reapply \/ UpRebuilds \/ Up \/ Down \/ Delete
  <2>1. row.conf \in Configs
    BY <1>2 DEF Reapply, UpRebuilds, Up, Down, Delete, TypeInv, TypeOK
  <2> QED
    BY <1>2, <2>1, BookkeepingBegins
<1>3. CASE GuardPasses \/ StepDone \/ Disconnect \/ Drift \/ UNCHANGED vars
  BY <1>3 DEF GuardPasses, StepDone, Disconnect, Drift, vars, Bookkeeping, Changing
<1>4. CASE GuardRefuses \/ Commit \/ FinishDown \/ FinishDelete \/ UndoDone \/ Crash
  BY <1>4, EndOf DEF GuardRefuses, Commit, FinishDown, FinishDelete, UndoDone, Crash,
                     Bookkeeping, Changing
<1>5. CASE VerifyFails
  BY <1>5 DEF VerifyFails, Bookkeeping, Changing, TypeInv, Histories
<1>6. ASSUME NEW h, StepTolerated(h) \/ StepFails(h)
      PROVE  Bookkeeping'
  <2>1. CASE StepTolerated(h)
    BY <2>1, SameOperation DEF StepTolerated, Bookkeeping, Changing
  <2>2. CASE StepFails(h)
    BY <2>2, SameOperation DEF StepFails, Bookkeeping, Changing
  <2> QED
    BY <1>6, <2>1, <2>2
<1>7. ASSUME NEW h, StepGivesUp(h) \/ UndoFails(h)
      PROVE  Bookkeeping'
  <2>1. CASE StepGivesUp(h)
    BY <2>1, EndOf DEF StepGivesUp, Bookkeeping, Changing
  <2>2. CASE UndoFails(h)
    <3>1. Fails(h)
      BY <2>2 DEF UndoFails
    <3>2. Disturb(last) \in Histories
      BY <3>1, FailsTyped
    <3>3. last'.verdict = "inconsistent"
      BY <2>2, <3>2 DEF UndoFails, Histories
    <3> QED
      BY <2>2, <3>3 DEF UndoFails, Bookkeeping, Changing
  <2> QED
    BY <1>7, <2>1, <2>2
<1>8. CASE Reboot
  <2>1. CASE phase = "idle"
    BY <1>8, <2>1 DEF Reboot, Bookkeeping, Changing
  <2>2. CASE phase # "idle"
    BY <1>8, <2>2, EndOf DEF Reboot, Bookkeeping, Changing
  <2> QED
    BY <2>1, <2>2
<1> QED
  BY <1>1, <1>2, <1>3, <1>4, <1>5, <1>6, <1>7, <1>8 DEF Next, FailedStep

(***************************************************************************)
(* Applied is durable.  The files of a tunnel are either right or written  *)
(* by a step of the plan that cannot be skipped and that nothing undoes.   *)
(***************************************************************************)
FilesRight(c, h) ==
  /\ c.persist = "systemd" => h.unit = c
  /\ c.persist = "networkd" => h.netdev = c /\ h.network = c

FilesComing(s, c, h) ==
  /\ c.persist = "systemd" => Coming(s, "UnitWrite", "UnitRemove", c, h.unit = c)
  /\ c.persist = "networkd" =>
       /\ Coming(s, "NetdevWrite", "NetdevRemove", c, h.netdev = c)
       /\ Coming(s, "NetworkWrite", "NetworkRemove", c, h.network = c)

LEMMA FilesComingDone ==
  ASSUME NEW s \in Seq(Steps), s # << >>, NEW c \in Configs, NEW h \in Hosts, NEW g,
         FilesComing(s, c, h), After(Head(s), h, g)
  PROVE  FilesComing(Tail(s), c, g)
<1>1. /\ Head(s).kind \notin {"UnitWrite", "UnitRemove"} => g.unit = h.unit
      /\ Head(s).kind = "UnitWrite" => g.unit = Head(s).conf
      /\ Head(s).kind \notin {"NetdevWrite", "NetdevRemove"} => g.netdev = h.netdev
      /\ Head(s).kind = "NetdevWrite" => g.netdev = Head(s).conf
      /\ Head(s).kind \notin {"NetworkWrite", "NetworkRemove"} => g.network = h.network
      /\ Head(s).kind = "NetworkWrite" => g.network = Head(s).conf
  BY DEF After
<1>2. ASSUME c.persist = "systemd"
      PROVE  Coming(Tail(s), "UnitWrite", "UnitRemove", c, g.unit = c)
  <2>1. Coming(s, "UnitWrite", "UnitRemove", c, h.unit = c)
    BY <1>2 DEF FilesComing
  <2> QED
    BY <1>1, <2>1, ComingTail
<1>3. ASSUME c.persist = "networkd"
      PROVE  /\ Coming(Tail(s), "NetdevWrite", "NetdevRemove", c, g.netdev = c)
             /\ Coming(Tail(s), "NetworkWrite", "NetworkRemove", c, g.network = c)
  <2>1. /\ Coming(s, "NetdevWrite", "NetdevRemove", c, h.netdev = c)
        /\ Coming(s, "NetworkWrite", "NetworkRemove", c, h.network = c)
    BY <1>3 DEF FilesComing
  <2>2. Coming(Tail(s), "NetdevWrite", "NetdevRemove", c, g.netdev = c)
    BY <1>1, <2>1, ComingTail
  <2>3. Coming(Tail(s), "NetworkWrite", "NetworkRemove", c, g.network = c)
    BY <1>1, <2>1, ComingTail
  <2> QED
    BY <2>2, <2>3
<1> QED
  BY <1>2, <1>3 DEF FilesComing

LEMMA FilesComingSkipped ==
  ASSUME NEW s \in Seq(Steps), s # << >>, NEW c \in Configs, NEW h, NEW g,
         FilesComing(s, c, h), Head(s).tolerate,
         g.unit = h.unit, g.netdev = h.netdev, g.network = h.network
  PROVE  FilesComing(Tail(s), c, g)
<1>1. ASSUME c.persist = "systemd"
      PROVE  Coming(Tail(s), "UnitWrite", "UnitRemove", c, g.unit = c)
  <2>1. Coming(s, "UnitWrite", "UnitRemove", c, h.unit = c)
    BY <1>1 DEF FilesComing
  <2> QED
    BY <2>1, ComingTail
<1>2. ASSUME c.persist = "networkd"
      PROVE  /\ Coming(Tail(s), "NetdevWrite", "NetdevRemove", c, g.netdev = c)
             /\ Coming(Tail(s), "NetworkWrite", "NetworkRemove", c, g.network = c)
  <2>1. /\ Coming(s, "NetdevWrite", "NetdevRemove", c, h.netdev = c)
        /\ Coming(s, "NetworkWrite", "NetworkRemove", c, h.network = c)
    BY <1>2 DEF FilesComing
  <2>2. Coming(Tail(s), "NetdevWrite", "NetdevRemove", c, g.netdev = c)
    BY <2>1, ComingTail
  <2>3. Coming(Tail(s), "NetworkWrite", "NetworkRemove", c, g.network = c)
    BY <2>1, ComingTail
  <2> QED
    BY <2>2, <2>3
<1> QED
  BY <1>1, <1>2 DEF FilesComing

\* The plans of the operations that write files.
LEMMA CreateWrites ==
  ASSUME NEW c \in Configs, NEW s \in Seq(Steps), NEW h
  PROVE  FilesComing(s \o PlanCreate(c), c, h) /\ FilesComing(PlanCreate(c), c, h)
<1>1. PlanCreate(c) \in Seq(Steps)
  BY CreateTyped
<1>2. ASSUME c.persist = "systemd"
      PROVE  Sets(PlanCreate(c), "UnitWrite", "UnitRemove", c)
  <2>1. PlanCreate(c) = << Do("UnitWrite", c), Do("DaemonReload", c), Do("UnitEnable", c),
                           Do("UnitStart", c) >>
    BY <1>2 DEF PlanCreate, PlanSystemdCreate
  <2>2. Sets(<< Do("UnitWrite", c), Do("DaemonReload", c), Do("UnitEnable", c),
                Do("UnitStart", c) >>, "UnitWrite", "UnitRemove", c)
    BY SMTT(40) DEF Sets, Do
  <2> QED
    BY <2>1, <2>2
<1>3. ASSUME c.persist = "networkd"
      PROVE  /\ Sets(PlanCreate(c), "NetdevWrite", "NetdevRemove", c)
             /\ Sets(PlanCreate(c), "NetworkWrite", "NetworkRemove", c)
  <2>1. PlanCreate(c) = PlanRuntimeCreate(c) \o
          << Do("NetdevWrite", c), Do("NetworkWrite", c), Tolerated("NetworkdReload", c) >>
    BY <1>3 DEF PlanCreate, PlanNetworkdCreate
  <2>2. /\ PlanRuntimeCreate(c) \in Seq(Steps)
        /\ << Do("NetdevWrite", c), Do("NetworkWrite", c), Tolerated("NetworkdReload", c) >>
             \in Seq(Steps)
    BY StepsTyped DEF PlanRuntimeCreate, Kinds, ExecKinds
  <2>3. /\ Sets(<< Do("NetdevWrite", c), Do("NetworkWrite", c), Tolerated("NetworkdReload", c) >>,
                "NetdevWrite", "NetdevRemove", c)
        /\ Sets(<< Do("NetdevWrite", c), Do("NetworkWrite", c), Tolerated("NetworkdReload", c) >>,
                "NetworkWrite", "NetworkRemove", c)
    BY DEF Sets, Do, Tolerated
  <2> QED
    BY <2>1, <2>2, <2>3, SetsConcat
<1>4. /\ c.persist = "systemd" => Sets(s \o PlanCreate(c), "UnitWrite", "UnitRemove", c)
      /\ c.persist = "networkd" => /\ Sets(s \o PlanCreate(c), "NetdevWrite", "NetdevRemove", c)
                                   /\ Sets(s \o PlanCreate(c), "NetworkWrite", "NetworkRemove", c)
  BY <1>1, <1>2, <1>3, SetsConcat
<1> QED
  BY <1>2, <1>3, <1>4 DEF FilesComing, Coming

LEMMA InPlaceWrites ==
  ASSUME NEW c \in Configs, NEW d \in Configs, NEW e \in BOOLEAN, NEW f \in BOOLEAN, NEW h
  PROVE  FilesComing(PlanInPlace(c, e, d, f), d, h)
<1>1. /\ << Do("UnitWrite", d), Do("DaemonReload", d) >> \in Seq(Steps)
      /\ << Do("NetdevWrite", d), Do("NetworkWrite", d), Tolerated("NetworkdReload", d) >>
           \in Seq(Steps)
      /\ << Do("SetMtu", d) >> \in Seq(Steps)
      /\ << Do("AddressRemove", c), Do("AddressAdd", d) >> \in Seq(Steps)
      /\ << Do(IF f THEN "LinkUp" ELSE "LinkDown", d) >> \in Seq(Steps)
  BY StepsTyped DEF Kinds, ExecKinds
<1>2. /\ Sets(<< Do("UnitWrite", d), Do("DaemonReload", d) >>, "UnitWrite", "UnitRemove", d)
      /\ Sets(<< Do("NetdevWrite", d), Do("NetworkWrite", d), Tolerated("NetworkdReload", d) >>,
              "NetdevWrite", "NetdevRemove", d)
      /\ Sets(<< Do("NetdevWrite", d), Do("NetworkWrite", d), Tolerated("NetworkdReload", d) >>,
              "NetworkWrite", "NetworkRemove", d)
  BY DEF Sets, Do, Tolerated
<1>3. RewritePersistence(d) \in Seq(Steps)
  BY <1>1, WhenTyped, ConcatProperties DEF RewritePersistence
<1>4. ASSUME d.persist = "systemd"
      PROVE  Sets(RewritePersistence(d), "UnitWrite", "UnitRemove", d)
  <2>1. RewritePersistence(d) = << Do("UnitWrite", d), Do("DaemonReload", d) >> \o << >>
    BY <1>4 DEF RewritePersistence, When
  <2>2. Keeps(<< >>, "UnitWrite", "UnitRemove")
    BY DEF Keeps
  <2> QED
    BY <1>1, <1>2, <2>1, <2>2, SetsConcat, EmptySeq
<1>5. ASSUME d.persist = "networkd"
      PROVE  /\ Sets(RewritePersistence(d), "NetdevWrite", "NetdevRemove", d)
             /\ Sets(RewritePersistence(d), "NetworkWrite", "NetworkRemove", d)
  <2>1. RewritePersistence(d) = << >> \o
          << Do("NetdevWrite", d), Do("NetworkWrite", d), Tolerated("NetworkdReload", d) >>
    BY <1>5 DEF RewritePersistence, When
  <2> QED
    BY <1>1, <1>2, <2>1, SetsConcat, EmptySeq
<1>6. PICK s \in Seq(Steps) : PlanInPlace(c, e, d, f) = s \o RewritePersistence(d)
  <2>1. /\ When(c.mtu # d.mtu, << Do("SetMtu", d) >>) \in Seq(Steps)
        /\ When(c.addr # d.addr, << Do("AddressRemove", c), Do("AddressAdd", d) >>) \in Seq(Steps)
        /\ When(e # f, << Do(IF f THEN "LinkUp" ELSE "LinkDown", d) >>) \in Seq(Steps)
    BY <1>1, WhenTyped
  <2>2. /\ When(c.mtu # d.mtu, << Do("SetMtu", d) >>) \o
           When(c.addr # d.addr, << Do("AddressRemove", c), Do("AddressAdd", d) >>) \in Seq(Steps)
    BY <2>1, ConcatProperties
  <2>3. (When(c.mtu # d.mtu, << Do("SetMtu", d) >>) \o
           When(c.addr # d.addr, << Do("AddressRemove", c), Do("AddressAdd", d) >>)) \o
        When(e # f, << Do(IF f THEN "LinkUp" ELSE "LinkDown", d) >>) \in Seq(Steps)
    BY <2>1, <2>2, ConcatProperties
  <2> QED
    BY <2>3 DEF PlanInPlace
<1>7. /\ d.persist = "systemd" => Sets(PlanInPlace(c, e, d, f), "UnitWrite", "UnitRemove", d)
      /\ d.persist = "networkd" =>
           /\ Sets(PlanInPlace(c, e, d, f), "NetdevWrite", "NetdevRemove", d)
           /\ Sets(PlanInPlace(c, e, d, f), "NetworkWrite", "NetworkRemove", d)
  BY <1>3, <1>4, <1>5, <1>6, SetsConcat
<1> QED
  BY <1>7 DEF FilesComing, Coming

\* Up and Down hold no step that touches a file.
SwitchKinds == {"LinkUp", "LinkDown", "UnitEnable", "UnitDisable"}
SwitchSteps == {s \in Steps : s.kind \in SwitchKinds}

LEMMA SwitchPlans ==
  ASSUME NEW c \in Configs
  PROVE  PlanUp(c) \in Seq(SwitchSteps) /\ PlanDown(c) \in Seq(SwitchSteps)
<1>1. \A k \in SwitchKinds : Do(k, c) \in SwitchSteps /\ Tolerated(k, c) \in SwitchSteps
  BY DEF SwitchSteps, SwitchKinds, Do, Tolerated, Steps, Kinds, ExecKinds
<1>2. /\ << Do("LinkUp", c) >> \in Seq(SwitchSteps)
      /\ << Do("LinkDown", c) >> \in Seq(SwitchSteps)
      /\ << Tolerated("UnitEnable", c) >> \in Seq(SwitchSteps)
      /\ << Tolerated("UnitDisable", c) >> \in Seq(SwitchSteps)
  BY <1>1 DEF SwitchKinds
<1>3. /\ When(c.persist = "systemd", << Tolerated("UnitEnable", c) >>) \in Seq(SwitchSteps)
      /\ When(c.persist = "systemd", << Tolerated("UnitDisable", c) >>) \in Seq(SwitchSteps)
  BY <1>2, WhenTyped
<1> QED
  BY <1>2, <1>3, ConcatProperties DEF PlanUp, PlanDown

\* What a boot builds from the right files and nothing else is the tunnel.
LEMMA BootBuilds ==
  ASSUME NEW c \in Configs, NEW h \in Hosts, FilesRight(c, h),
         c.persist \in {"systemd", "networkd"},
         c.persist = "systemd" => h.enabled /\ h.netdev = None,
         c.persist = "networkd" => h.unit = None
  PROVE  \A l \in BootLinks(h) : Matches(l, c) /\ l.up
<1>1. c # None /\ BuiltLink(c) # None /\ BuiltLink(c) \in Links
  BY NoneAssumption, BuiltTyped
<1>2. Matches(BuiltLink(c), c) /\ BuiltLink(c).up
  BY <1>1 DEF Matches, BuiltLink
<1>3. CASE c.persist = "systemd"
  <2>1. BootLinks(h) = {BuiltLink(c)}
    BY <1>1, <1>3 DEF BootLinks, FilesRight
  <2> QED
    BY <1>2, <2>1
<1>4. CASE c.persist = "networkd"
  <2>1. h.netdev = c /\ h.network = c /\ h.unit = None
    BY <1>4 DEF FilesRight
  <2>2. [BuiltLink(c) EXCEPT !.shape = c.shape, !.mtu = c.mtu] = BuiltLink(c)
    <3>1. BuiltLink(c).shape = c.shape /\ BuiltLink(c).mtu = c.mtu
      BY DEF BuiltLink
    <3> QED
      BY <1>1, <3>1 DEF Links
  <2>3. BootLinks(h) = {BuiltLink(c)}
    BY <1>1, <2>1, <2>2 DEF BootLinks
  <2> QED
    BY <1>2, <2>3
<1> QED
  BY <1>3, <1>4

Rebuilds == {"create", "update", "reapply", "upRebuild"}

DurableInv ==
  /\ phase \in Changing /\ op \in Rebuilds => FilesComing(todo, row.conf, host)
  /\ phase \in Changing /\ op \in {"up", "down"} => todo \in Seq(SwitchSteps)
  /\ settled /\ row.live /\ (phase = "idle" \/ op \in {"up", "down"}) =>
       FilesRight(row.conf, host)
  /\ settled /\ row.live /\ row.enabled /\ phase = "idle" =>
       /\ row.conf.persist = "systemd" => host.enabled
       /\ ~Leftover(row.conf) => Matches(host.link, row.conf) /\ host.link.up

LEMMA DurableBegins ==
  ASSUME TypeInv, Bookkeeping, DurableInv, NEW c \in Configs, NEW e \in BOOLEAN,
         \/ Create(c, e) \/ UpdateInPlace(c, e) \/ UpdateRecreate(c, e)
         \/ Reapply \/ UpRebuilds \/ Up \/ Down \/ Delete
  PROVE  DurableInv'
<1>1. row \in Rows /\ (row.live => row.conf \in Configs) /\ row.enabled \in BOOLEAN
  BY DEF TypeInv, TypeOK, Rows
<1>2. /\ [row EXCEPT !.conf = c, !.enabled = e].conf = c
      /\ [row EXCEPT !.enabled = TRUE].conf = row.conf
      /\ [row EXCEPT !.enabled = TRUE].live = row.live
  BY <1>1 DEF Rows
<1>3. ASSUME NEW r, NEW name \in Rebuilds, NEW s, NEW t, FilesComing(s, r.conf, host),
             Begin(name, r, s, t)
      PROVE  DurableInv'
  BY <1>3 DEF Begin, DurableInv, Changing, Rebuilds
<1>4. ASSUME NEW r, NEW name \in {"up", "down"}, NEW s \in Seq(SwitchSteps), NEW t,
             r.conf = row.conf, r.live = row.live, Begin(name, r, s, t)
      PROVE  DurableInv'
  BY <1>4 DEF Begin, DurableInv, Changing, Rebuilds
<1>5. CASE Create(c, e)
  <2>1. [live |-> TRUE, conf |-> c, enabled |-> e, status |-> "pending"].conf = c
    OBVIOUS
  <2> QED
    BY <1>3, <1>5, <2>1, CreateWrites, EmptySeq DEF Create, Rebuilds
<1>6. CASE UpdateInPlace(c, e)
  <2>1. FilesComing(PlanInPlace(row.conf, row.enabled, c, e), c, host)
    BY <1>1, <1>6, InPlaceWrites DEF UpdateInPlace
  <2> QED
    BY <1>2, <1>3, <1>6, <2>1 DEF UpdateInPlace, Rebuilds
<1>7. CASE UpdateRecreate(c, e)
  BY <1>1, <1>2, <1>3, <1>7, DeleteTyped, CreateWrites DEF UpdateRecreate, PlanRecreate, Rebuilds
<1>8. CASE Reapply \/ UpRebuilds
  BY <1>1, <1>3, <1>8, DeleteTyped, CreateWrites DEF Reapply, UpRebuilds, Rebuilds
<1>9. CASE Up \/ Down
  BY <1>1, <1>2, <1>4, <1>9, SwitchPlans DEF Up, Down
<1>10. CASE Delete
  BY <1>10 DEF Delete, Begin, DurableInv, Changing, Rebuilds
<1> QED
  BY <1>5, <1>6, <1>7, <1>8, <1>9, <1>10

\* A step that was done, or that failed and is skipped.
LEMMA DurableMoves ==
  ASSUME TypeInv, Bookkeeping, DurableInv, NEW h, StepDone \/ StepTolerated(h)
  PROVE  DurableInv'
<1>1. /\ todo # << >> /\ todo \in Seq(Steps) /\ Head(todo) \in Steps /\ host \in Hosts
      /\ todo' = Tail(todo) /\ row' = row /\ op' = op /\ phase' = phase
      /\ settled' = settled /\ phase \in {"steps", "undo"} /\ row.conf \in Configs
  BY HeadTailProperties DEF StepDone, StepTolerated, Fails, TypeInv, TypeOK, Bookkeeping
<1>2. \/ After(Head(todo), host, host')
      \/ /\ Head(todo).tolerate
         /\ host'.unit = host.unit /\ host'.netdev = host.netdev /\ host'.network = host.network
  <2>1. CASE StepDone
    BY <1>1, <2>1, EffectFields DEF StepDone, Succeeds
  <2>2. CASE StepTolerated(h)
    <3>1. host' = host \/ host' \in FaultyEffects(Head(todo), host)
      BY <2>2 DEF StepTolerated, Fails
    <3> QED
      BY <1>1, <2>2, <3>1, FaultyKeepsFiles DEF StepTolerated
  <2> QED
    BY <2>1, <2>2
<1>3. ASSUME phase \in Changing, op \in Rebuilds PROVE FilesComing(todo', row.conf, host')
  BY <1>1, <1>2, <1>3, FilesComingDone, FilesComingSkipped DEF DurableInv
<1>4. ASSUME phase \in Changing, op \in {"up", "down"}
      PROVE  /\ todo' \in Seq(SwitchSteps)
             /\ host'.unit = host.unit /\ host'.netdev = host.netdev /\ host'.network = host.network
  <2>1. todo \in Seq(SwitchSteps)
    BY <1>4 DEF DurableInv
  <2>2. Head(todo).kind \in SwitchKinds /\ Tail(todo) \in Seq(SwitchSteps)
    BY <1>1, <2>1, HeadTailProperties DEF SwitchSteps
  <2> QED
    BY <1>1, <1>2, <2>2 DEF After, SwitchKinds
<1>5. settled => phase \in Changing
  BY <1>1 DEF Bookkeeping, Changing
<1> QED
  BY <1>1, <1>3, <1>4, <1>5 DEF DurableInv, FilesRight

\* The verification that confirms an operation.
LEMMA DurableCommits == TypeInv /\ Bookkeeping /\ DurableInv /\ Commit => DurableInv'
<1> SUFFICES ASSUME TypeInv, Bookkeeping, DurableInv, Commit PROVE DurableInv'
  OBVIOUS
<1>1. /\ phase' = "idle" /\ host' = host /\ phase = "steps" /\ todo = << >> /\ op \in RunOps
      /\ Verified(want) /\ want = [conf |-> row.conf, enabled |-> row.enabled]
      /\ settled' = (IF op = "up" THEN settled ELSE ~cancelled)
  BY EndOf DEF Commit, Bookkeeping
<1>2. row'.conf = row.conf /\ row'.live = row.live /\ row'.enabled = row.enabled
  BY DEF Commit, SetApplyStatus, TypeInv, TypeOK, Rows
<1>3. op = "up" \/ op \in Rebuilds
  BY <1>1 DEF RunOps, Rebuilds
<1>4. ASSUME op \in Rebuilds PROVE FilesRight(row.conf, host)
  <2>1. FilesComing(<< >>, row.conf, host)
    BY <1>1, <1>4 DEF DurableInv, Changing
  <2>2. \A w, r, c : ~Sets(<< >>, w, r, c)
    BY DEF Sets
  <2> QED
    BY <2>1, <2>2 DEF FilesComing, FilesRight, Coming
<1>5. settled' /\ row.live => FilesRight(row.conf, host)
  BY <1>1, <1>3, <1>4 DEF DurableInv
<1>6. /\ Matches(host.link, row.conf) /\ host.link.up = row.enabled
      /\ row.conf.persist = "systemd" => host.enabled
  BY <1>1 DEF Verified
<1> QED
  BY <1>1, <1>2, <1>5, <1>6 DEF DurableInv, Changing

LEMMA DurableReboots ==
  TypeInv /\ Bookkeeping /\ DurableInv /\ Reboot /\ phase = "idle" => DurableInv'
<1> SUFFICES ASSUME TypeInv, Bookkeeping, DurableInv, Reboot, phase = "idle" PROVE DurableInv'
  OBVIOUS
<1>1. PICK l \in BootLinks(host) :
        host' = [host EXCEPT !.link = l, !.loaded = host.unit,
                             !.active = host.enabled /\ host.unit # None]
  BY DEF Reboot
<1>2. /\ phase' = "idle" /\ row' = row /\ host \in Hosts
      /\ settled' = (settled /\ row.conf.persist # "runtime")
  BY DEF Reboot, TypeInv, TypeOK
<1>3. /\ host'.link = l /\ host'.unit = host.unit /\ host'.enabled = host.enabled
      /\ host'.netdev = host.netdev /\ host'.network = host.network
  BY <1>1, <1>2 DEF Hosts
<1>4. ASSUME settled', row.live
      PROVE  FilesRight(row.conf, host) /\ row.conf \in Configs
             /\ row.conf.persist \in {"systemd", "networkd"}
  <2>1. row.conf \in Configs
    BY <1>4 DEF TypeInv, TypeOK
  <2> QED
    BY <1>2, <1>4, <2>1, ConfigsAssumption DEF DurableInv
<1>5. ASSUME settled', row.live, row.enabled
      PROVE  /\ row.conf.persist = "systemd" => host.enabled
             /\ ~Leftover(row.conf)' => Matches(l, row.conf) /\ l.up
  <2>1. row.conf.persist = "systemd" => host.enabled
    BY <1>2, <1>5 DEF DurableInv
  <2>2. ~Leftover(row.conf)' =>
          /\ row.conf.persist = "systemd" => host.netdev = None
          /\ row.conf.persist = "networkd" => host.unit = None
    BY <1>2, <1>3 DEF Leftover
  <2> QED
    BY <1>2, <1>4, <1>5, <2>1, <2>2, BootBuilds
<1> QED
  BY <1>2, <1>3, <1>4, <1>5 DEF DurableInv, Changing, FilesRight

LEMMA DurableStep == TypeInv /\ Bookkeeping /\ DurableInv /\ [Next]_vars => DurableInv'
<1> SUFFICES ASSUME TypeInv, Bookkeeping, DurableInv, [Next]_vars PROVE DurableInv'
  OBVIOUS
<1>1. CASE \E c \in Configs, e \in EnabledInputs :
             Create(c, e) \/ UpdateInPlace(c, e) \/ UpdateRecreate(c, e)
  BY <1>1, DurableBegins, BoundsAssumption
<1>2. CASE Reapply \/ UpRebuilds \/ Up \/ Down \/ Delete
  <2>1. row.conf \in Configs
    BY <1>2 DEF Reapply, UpRebuilds, Up, Down, Delete, TypeInv, TypeOK
  <2> QED
    BY <1>2, <2>1, DurableBegins
<1>3. CASE GuardPasses \/ Disconnect \/ UNCHANGED vars
  BY <1>3 DEF GuardPasses, Disconnect, vars, DurableInv, Changing, Leftover
<1>4. ASSUME NEW h, StepDone \/ StepTolerated(h) PROVE DurableInv'
  BY <1>4, DurableMoves
<1>5. CASE Commit
  BY <1>5, DurableCommits
<1>6. CASE Reboot /\ phase = "idle"
  BY <1>6, DurableReboots
<1>7. CASE FinishDown
  <2>1. /\ phase' = "idle" /\ host' = host /\ settled' = (settled /\ ~cancelled)
        /\ phase = "steps" /\ op = "down"
        /\ row'.conf = row.conf /\ row'.live = row.live /\ (~cancelled => ~row'.enabled)
    BY <1>7, EndOf DEF FinishDown, TypeInv, TypeOK, Rows
  <2> QED
    BY <2>1 DEF DurableInv, Changing
<1>8. ASSUME phase' \in {"idle", "undo"}, ~settled' PROVE DurableInv'
  BY <1>8 DEF DurableInv, Changing
<1>9. CASE GuardRefuses \/ VerifyFails \/ FinishDelete \/ UndoDone \/ Crash \/ Drift
           \/ (Reboot /\ phase # "idle")
  <2>1. CASE GuardRefuses \/ VerifyFails \/ FinishDelete \/ UndoDone \/ Crash
    BY <1>8, <2>1 DEF GuardRefuses, VerifyFails, FinishDelete, UndoDone, Crash, End, Bookkeeping
  <2>2. CASE Drift
    BY <1>8, <2>2 DEF Drift
  <2>3. CASE Reboot /\ phase # "idle"
    BY <1>8, <2>3 DEF Reboot, End
  <2> QED
    BY <1>9, <2>1, <2>2, <2>3
<1>10. ASSUME NEW h, StepFails(h) \/ StepGivesUp(h) \/ UndoFails(h) PROVE DurableInv'
  <2>1. phase' \in {"idle", "undo"} /\ ~settled'
    BY <1>10 DEF StepFails, StepGivesUp, UndoFails, End, Bookkeeping
  <2> QED
    BY <1>8, <2>1
<1> QED
  BY <1>1, <1>2, <1>3, <1>4, <1>5, <1>6, <1>7, <1>9, <1>10 DEF Next, FailedStep

LEMMA BookkeepingInit == Init => Bookkeeping
BY DEF Init, Bookkeeping, Changing, NothingYet

\* A tunnel whose last change succeeded is the stored one until somebody disturbs it,
\* and the files on disk bring it back after a reboot: for all configurations, also
\* if it changed its persistence method, however many steps failed before.
THEOREM AppliedLasts == Spec => []AppliedIsDurable
<1>1. Init => TypeInv /\ Bookkeeping /\ DurableInv
  BY InitTyped, BookkeepingInit DEF Init, DurableInv, Changing
<1>2. TypeInv /\ Bookkeeping /\ DurableInv /\ [Next]_vars =>
        (TypeInv /\ Bookkeeping /\ DurableInv)'
  BY StepTyped, BookkeepingStep, DurableStep
<1>3. TypeInv /\ DurableInv => AppliedIsDurable
  <2> SUFFICES ASSUME TypeInv, DurableInv, phase = "idle", settled, row.live, row.enabled,
                      ~Leftover(row.conf)
               PROVE  Matches(host.link, row.conf) /\ host.link.up /\ SurvivesReboot
    BY DEF AppliedIsDurable
  <2>1. Matches(host.link, row.conf) /\ host.link.up
    BY DEF DurableInv
  <2>2. row.conf \in Configs /\ host \in Hosts
    BY DEF TypeInv, TypeOK
  <2>3. /\ FilesRight(row.conf, host)
        /\ row.conf.persist = "systemd" => host.enabled /\ host.netdev = None
        /\ row.conf.persist = "networkd" => host.unit = None
    BY DEF DurableInv, Leftover
  <2>4. row.conf.persist \in {"systemd", "networkd", "runtime"}
    BY <2>2, ConfigsAssumption
  <2>5. SurvivesReboot
    BY <2>2, <2>3, <2>4, BootBuilds DEF SurvivesReboot
  <2> QED
    BY <2>1, <2>5
<1> QED
  BY <1>1, <1>2, <1>3, PTL DEF Spec

(***************************************************************************)
(* Plans that build the tunnel: whatever the host was like, with every     *)
(* step done more of it is as the configuration says.                      *)
(***************************************************************************)
\* The steps that nothing about the host can make impossible.
SureKinds == Kinds \ {"LinkCreate", "LinkUp", "LinkDown", "SetMtu", "AddressAdd",
                      "AddressRemove", "UnitEnable", "UnitStart"}

LEMMA SureIsPossible ==
  ASSUME NEW s \in Steps, NEW h, s.kind \in SureKinds
  PROVE  Possible(s, h)
BY DEF Possible, SureKinds, Kinds, ExecKinds

\* The plan stops the unit with n steps left, and ends with its start.
UnitPlan(plan, n, c) ==
  /\ At(plan, n + 1).kind = "UnitStop"
  /\ \A k \in 2..n : At(plan, k).kind # "UnitStart"
  /\ \A k \in 3..Len(plan) : At(plan, k).kind \in SureKinds
  /\ At(plan, 4) = Do("UnitWrite", c) /\ At(plan, 3) = Do("DaemonReload", c)
  /\ At(plan, 2) = Do("UnitEnable", c) /\ At(plan, 1) = Do("UnitStart", c)

UnitCourse(k, n, c, h) ==
  /\ k \in 1..n => ~h.active
  /\ k <= 3 => h.unit = c
  /\ k \in {1, 2} => h.loaded = c
  /\ k <= 1 => h.enabled
  /\ k = 0 => h.active /\ h.link = BuiltLink(c)

LEMMA UnitCourseStep ==
  ASSUME NEW plan \in Seq(Steps), NEW n \in {6, 8}, NEW c \in Configs, UnitPlan(plan, n, c),
         NEW h \in Hosts, NEW k \in 1..Len(plan), UnitCourse(k, n, c, h)
  PROVE  /\ Possible(At(plan, k), h)
         /\ \A g : After(At(plan, k), h, g) => UnitCourse(k - 1, n, c, g)
<1> DEFINE s == At(plan, k)
<1>1. c # None /\ Len(plan) \in Nat
  BY NoneAssumption, LenProperties
<1>2. s \in Steps
  <2>1. Len(plan) - k + 1 \in 1..Len(plan)
    BY <1>1
  <2> QED
    BY <2>1, ElementOfSeq DEF At
<1>3. CASE k > 4
  <2>1. Possible(s, h)
    BY <1>2, <1>3, SureIsPossible DEF UnitPlan
  <2>2. k <= n => s.kind # "UnitStart"
    BY <1>3 DEF UnitPlan
  <2>3. k = n + 1 => s.kind = "UnitStop"
    BY DEF UnitPlan
  <2>4. ASSUME NEW g, After(s, h, g) PROVE UnitCourse(k - 1, n, c, g)
    <3>1. k - 1 \in 1..n => ~g.active
      <4>1. k - 1 \in 1..n => (k = n + 1 \/ k \in 1..n)
        BY <1>1
      <4> QED
        BY <2>2, <2>3, <2>4, <4>1 DEF UnitCourse, After
    <3> QED
      BY <1>3, <3>1 DEF UnitCourse
  <2> QED
    BY <2>1, <2>4
<1>4. CASE k = 4
  <2>1. s.kind = "UnitWrite" /\ s.conf = c
    BY <1>4 DEF UnitPlan, Do
  <2>2. ASSUME NEW g, After(s, h, g) PROVE UnitCourse(3, n, c, g)
    BY <1>4, <2>1, <2>2 DEF After, UnitCourse
  <2> QED
    BY <1>2, <1>4, <2>1, <2>2, SureIsPossible DEF SureKinds, Kinds, ExecKinds
<1>5. CASE k = 3
  <2>1. s.kind = "DaemonReload"
    BY <1>5 DEF UnitPlan, Do
  <2>2. ASSUME NEW g, After(s, h, g) PROVE UnitCourse(2, n, c, g)
    BY <1>5, <2>1, <2>2 DEF After, UnitCourse
  <2> QED
    BY <1>2, <1>5, <2>1, <2>2, SureIsPossible DEF SureKinds, Kinds, ExecKinds
<1>6. CASE k = 2
  <2>1. s.kind = "UnitEnable"
    BY <1>6 DEF UnitPlan, Do
  <2>2. ASSUME NEW g, After(s, h, g) PROVE UnitCourse(1, n, c, g)
    BY <1>6, <2>1, <2>2 DEF After, UnitCourse
  <2>3. Possible(s, h)
    BY <1>1, <1>6, <2>1 DEF Possible, UnitCourse
  <2> QED
    BY <1>6, <2>2, <2>3
<1>7. CASE k = 1
  <2>1. s.kind = "UnitStart"
    BY <1>7 DEF UnitPlan, Do
  <2>2. ~h.active /\ Definition(h) = c /\ h.unit = c /\ h.enabled
    BY <1>1, <1>7 DEF Definition, UnitCourse
  <2>3. ASSUME NEW g, After(s, h, g) PROVE UnitCourse(0, n, c, g)
    BY <2>1, <2>2, <2>3 DEF After, UnitCourse
  <2>4. Possible(s, h)
    BY <1>1, <2>1, <2>2 DEF Possible
  <2> QED
    BY <1>7, <2>3, <2>4
<1> QED
  BY <1>1, <1>3, <1>4, <1>5, <1>6, <1>7

\* The plan builds the interface itself and does nothing to it in its last m steps.
LinkPlan(plan, m, c) ==
  /\ \A k \in 1..m : At(plan, k).kind \in {"NetdevWrite", "NetworkWrite", "NetworkdReload"}
  /\ At(plan, m + 1) = Do("LinkUp", c) /\ At(plan, m + 2) = Do("SetMtu", c)
  /\ At(plan, m + 3) = Do("AddressAdd", c) /\ At(plan, m + 4) = Do("LinkCreate", c)
  /\ At(plan, m + 5).kind = "LinkDelete"
  /\ \A k \in (m + 5)..Len(plan) : At(plan, k).kind \in SureKinds

\* The interface has c's shape and these values.
LinkSo(l, c, mtu, addrs) ==
  l # None /\ l.shape = c.shape /\ l.mtu = mtu /\ l.addrs = addrs

LinkCourse(k, m, c, h) ==
  /\ k = m + 4 => h.link = None
  /\ k = m + 3 => LinkSo(h.link, c, DefaultMtu, {}) /\ ~h.link.up
  /\ k = m + 2 => LinkSo(h.link, c, DefaultMtu, {c.addr}) /\ ~h.link.up
  /\ k = m + 1 => LinkSo(h.link, c, c.mtu, {c.addr}) /\ ~h.link.up
  /\ k <= m => LinkSo(h.link, c, c.mtu, {c.addr}) /\ h.link.up

\* The three ways a live interface is changed.
LEMMA LinkEdits ==
  ASSUME NEW l \in Links, NEW c \in Configs, NEW mtu, NEW addrs, LinkSo(l, c, mtu, addrs)
  PROVE  /\ LinkSo([l EXCEPT !.up = TRUE], c, mtu, addrs) /\ [l EXCEPT !.up = TRUE].up
         /\ LinkSo([l EXCEPT !.mtu = c.mtu], c, c.mtu, addrs)
         /\ LinkSo([l EXCEPT !.addrs = @ \cup {c.addr}], c, mtu, addrs \cup {c.addr})
         /\ [l EXCEPT !.mtu = c.mtu].up <=> l.up
         /\ [l EXCEPT !.addrs = @ \cup {c.addr}].up <=> l.up
<1>1. /\ [l EXCEPT !.up = TRUE] \in Links /\ [l EXCEPT !.mtu = c.mtu] \in Links
      /\ [l EXCEPT !.addrs = @ \cup {c.addr}] \in Links
  BY DEF Links, Mtus, Addrs
<1>2. /\ [l EXCEPT !.up = TRUE] # None /\ [l EXCEPT !.mtu = c.mtu] # None
      /\ [l EXCEPT !.addrs = @ \cup {c.addr}] # None
  BY <1>1, NoneAssumption
<1>3. /\ [l EXCEPT !.up = TRUE].up /\ [l EXCEPT !.up = TRUE].shape = l.shape
      /\ [l EXCEPT !.up = TRUE].mtu = l.mtu /\ [l EXCEPT !.up = TRUE].addrs = l.addrs
  BY DEF Links
<1>4. /\ [l EXCEPT !.mtu = c.mtu].up <=> l.up
      /\ [l EXCEPT !.mtu = c.mtu].shape = l.shape
      /\ [l EXCEPT !.mtu = c.mtu].mtu = c.mtu /\ [l EXCEPT !.mtu = c.mtu].addrs = l.addrs
  BY DEF Links
<1>5. /\ [l EXCEPT !.addrs = @ \cup {c.addr}].up <=> l.up
      /\ [l EXCEPT !.addrs = @ \cup {c.addr}].shape = l.shape
      /\ [l EXCEPT !.addrs = @ \cup {c.addr}].mtu = l.mtu
      /\ [l EXCEPT !.addrs = @ \cup {c.addr}].addrs = l.addrs \cup {c.addr}
  BY DEF Links
<1> QED
  BY <1>2, <1>3, <1>4, <1>5 DEF LinkSo

LEMMA LinkCourseStep ==
  ASSUME NEW plan \in Seq(Steps), NEW m \in {0, 3}, NEW c \in Configs, LinkPlan(plan, m, c),
         NEW h \in Hosts, NEW k \in 1..Len(plan), LinkCourse(k, m, c, h)
  PROVE  /\ Possible(At(plan, k), h)
         /\ \A g : After(At(plan, k), h, g) => LinkCourse(k - 1, m, c, g)
<1> DEFINE s == At(plan, k)
<1>1. Len(plan) \in Nat /\ m \in Nat /\ k \in Nat
  BY LenProperties
<1>2. s \in Steps
  <2>1. Len(plan) - k + 1 \in 1..Len(plan)
    BY <1>1
  <2> QED
    BY <2>1, ElementOfSeq DEF At
<1>3. \A mtu, addrs : LinkSo(h.link, c, mtu, addrs) => h.link # None /\ h.link \in Links
  BY DEF LinkSo, Hosts
<1>4. CASE k >= m + 5
  <2>1. Possible(s, h)
    BY <1>1, <1>2, <1>4, SureIsPossible DEF LinkPlan
  <2>2. k = m + 5 => s.kind = "LinkDelete"
    BY <1>1 DEF LinkPlan
  <2>3. ASSUME NEW g, After(s, h, g) PROVE LinkCourse(k - 1, m, c, g)
    <3>1. k = m + 5 => g.link = None
      BY <2>2, <2>3 DEF After
    <3> QED
      BY <1>1, <1>4, <3>1 DEF LinkCourse
  <2> QED
    BY <2>1, <2>3
<1>5. CASE k = m + 4
  <2>1. s.kind = "LinkCreate" /\ s.conf = c
    BY <1>1, <1>5 DEF LinkPlan, Do
  <2>2. ASSUME NEW g, After(s, h, g) PROVE LinkCourse(m + 3, m, c, g)
    <3>1. g.link = NewLink(c)
      BY <2>1, <2>2 DEF After
    <3>2. LinkSo(NewLink(c), c, DefaultMtu, {}) /\ ~NewLink(c).up
      <4>1. NewLink(c) \in Links
        BY BuiltTyped
      <4> QED
        BY <4>1, NoneAssumption DEF NewLink, LinkSo
    <3> QED
      BY <1>1, <3>1, <3>2 DEF LinkCourse
  <2>3. Possible(s, h)
    BY <1>1, <1>5, <2>1 DEF Possible, LinkCourse
  <2> QED
    BY <1>5, <2>2, <2>3
<1>6. CASE k = m + 3
  <2>1. s.kind = "AddressAdd" /\ s.conf = c /\ LinkSo(h.link, c, DefaultMtu, {}) /\ ~h.link.up
    BY <1>1, <1>6 DEF LinkPlan, Do, LinkCourse
  <2>2. ASSUME NEW g, After(s, h, g) PROVE LinkCourse(m + 2, m, c, g)
    <3>1. g.link = [h.link EXCEPT !.addrs = @ \cup {c.addr}]
      BY <2>1, <2>2 DEF After
    <3>2. LinkSo(g.link, c, DefaultMtu, {} \cup {c.addr}) /\ ~g.link.up
      <4>1. h.link \in Links
        BY <1>3, <2>1
      <4>2. /\ LinkSo([h.link EXCEPT !.addrs = @ \cup {c.addr}], c, DefaultMtu, {} \cup {c.addr})
            /\ [h.link EXCEPT !.addrs = @ \cup {c.addr}].up <=> h.link.up
        BY <2>1, <4>1, LinkEdits
      <4> QED
        BY <2>1, <3>1, <4>2
    <3>3. {} \cup {c.addr} = {c.addr}
      OBVIOUS
    <3> QED
      BY <1>1, <3>2, <3>3 DEF LinkCourse
  <2>3. Possible(s, h)
    BY <2>1 DEF Possible, LinkSo
  <2> QED
    BY <1>6, <2>2, <2>3
<1>7. CASE k = m + 2
  <2>1. s.kind = "SetMtu" /\ s.conf = c /\ LinkSo(h.link, c, DefaultMtu, {c.addr}) /\ ~h.link.up
    BY <1>1, <1>7 DEF LinkPlan, Do, LinkCourse
  <2>2. ASSUME NEW g, After(s, h, g) PROVE LinkCourse(m + 1, m, c, g)
    <3>1. g.link = [h.link EXCEPT !.mtu = c.mtu]
      BY <2>1, <2>2 DEF After
    <3>2. LinkSo(g.link, c, c.mtu, {c.addr}) /\ ~g.link.up
      <4>1. h.link \in Links
        BY <1>3, <2>1
      <4>2. /\ LinkSo([h.link EXCEPT !.mtu = c.mtu], c, c.mtu, {c.addr})
            /\ [h.link EXCEPT !.mtu = c.mtu].up <=> h.link.up
        BY <2>1, <4>1, LinkEdits
      <4> QED
        BY <2>1, <3>1, <4>2
    <3> QED
      BY <1>1, <3>2 DEF LinkCourse
  <2>3. Possible(s, h)
    BY <2>1 DEF Possible, LinkSo
  <2> QED
    BY <1>7, <2>2, <2>3
<1>8. CASE k = m + 1
  <2>1. s.kind = "LinkUp" /\ s.conf = c /\ LinkSo(h.link, c, c.mtu, {c.addr}) /\ ~h.link.up
    BY <1>1, <1>8 DEF LinkPlan, Do, LinkCourse
  <2>2. ASSUME NEW g, After(s, h, g) PROVE LinkCourse(m, m, c, g)
    <3>1. g.link = [h.link EXCEPT !.up = TRUE]
      BY <2>1, <2>2 DEF After
    <3>2. LinkSo(g.link, c, c.mtu, {c.addr}) /\ g.link.up
      <4>1. h.link \in Links
        BY <1>3, <2>1
      <4>2. LinkSo(h.link, c, c.mtu, {c.addr})
        BY <2>1
      <4>3. LinkSo([h.link EXCEPT !.up = TRUE], c, c.mtu, {c.addr})
        BY <4>1, <4>2, LinkEdits
      <4>4. [h.link EXCEPT !.up = TRUE].up
        BY <4>1 DEF Links
      <4> QED
        BY <3>1, <4>3, <4>4
    <3> QED
      BY <1>1, <3>2 DEF LinkCourse
  <2>3. Possible(s, h)
    BY <2>1 DEF Possible, LinkSo
  <2> QED
    BY <1>8, <2>2, <2>3
<1>9. CASE k <= m
  <2>1. s.kind \in {"NetdevWrite", "NetworkWrite", "NetworkdReload"}
    BY <1>1, <1>9 DEF LinkPlan
  <2>2. Possible(s, h)
    BY <1>2, <2>1, SureIsPossible DEF SureKinds, Kinds, ExecKinds
  <2>3. ASSUME NEW g, After(s, h, g) PROVE LinkCourse(k - 1, m, c, g)
    <3>1. g.link = h.link
      BY <2>1, <2>3 DEF After, LinkKinds
    <3>2. LinkSo(g.link, c, c.mtu, {c.addr}) /\ g.link.up
      BY <1>1, <1>9, <3>1 DEF LinkCourse
    <3>3. k - 1 <= m /\ k - 1 # m + 1 /\ k - 1 # m + 2 /\ k - 1 # m + 3 /\ k - 1 # m + 4
      BY <1>9
    <3> QED
      BY <1>1, <3>2, <3>3 DEF LinkCourse
  <2> QED
    BY <2>2, <2>3
<1> QED
  BY <1>1, <1>4, <1>5, <1>6, <1>7, <1>8, <1>9

\* The plans of the three persistence methods.
LEMMA CreateShape ==
  ASSUME NEW c \in Configs
  PROVE  /\ PlanCreate(c) \in Seq(Steps)
         /\ c.persist = "systemd" =>
              /\ Len(PlanCreate(c)) = 4
              /\ At(PlanCreate(c), 4) = Do("UnitWrite", c)
              /\ At(PlanCreate(c), 3) = Do("DaemonReload", c)
              /\ At(PlanCreate(c), 2) = Do("UnitEnable", c)
              /\ At(PlanCreate(c), 1) = Do("UnitStart", c)
         /\ c.persist # "systemd" =>
              \E m \in {0, 3} :
                /\ m = (IF c.persist = "networkd" THEN 3 ELSE 0)
                /\ Len(PlanCreate(c)) = m + 4
                /\ At(PlanCreate(c), m + 4) = Do("LinkCreate", c)
                /\ At(PlanCreate(c), m + 3) = Do("AddressAdd", c)
                /\ At(PlanCreate(c), m + 2) = Do("SetMtu", c)
                /\ At(PlanCreate(c), m + 1) = Do("LinkUp", c)
                /\ \A k \in 1..m : At(PlanCreate(c), k).kind
                                     \in {"NetdevWrite", "NetworkWrite", "NetworkdReload"}
<1>1. PlanCreate(c) \in Seq(Steps)
  BY CreateTyped
<1>2. ASSUME c.persist = "systemd"
      PROVE  /\ Len(PlanCreate(c)) = 4
             /\ At(PlanCreate(c), 4) = Do("UnitWrite", c)
             /\ At(PlanCreate(c), 3) = Do("DaemonReload", c)
             /\ At(PlanCreate(c), 2) = Do("UnitEnable", c)
             /\ At(PlanCreate(c), 1) = Do("UnitStart", c)
  BY <1>2 DEF PlanCreate, PlanSystemdCreate, At
<1>3. /\ PlanRuntimeCreate(c) \in Seq(Steps) /\ Len(PlanRuntimeCreate(c)) = 4
      /\ At(PlanRuntimeCreate(c), 4) = Do("LinkCreate", c)
      /\ At(PlanRuntimeCreate(c), 3) = Do("AddressAdd", c)
      /\ At(PlanRuntimeCreate(c), 2) = Do("SetMtu", c)
      /\ At(PlanRuntimeCreate(c), 1) = Do("LinkUp", c)
  BY StepsTyped DEF PlanRuntimeCreate, At, Kinds, ExecKinds
<1>4. CASE c.persist \notin {"systemd", "networkd"}
  <2>1. PlanCreate(c) = PlanRuntimeCreate(c)
    BY <1>4 DEF PlanCreate
  <2> QED
    BY <1>1, <1>3, <1>4, <2>1
<1>5. CASE c.persist = "networkd"
  <2>0. << Do("NetdevWrite", c), Do("NetworkWrite", c), Tolerated("NetworkdReload", c) >>
          \in Seq(Steps)
    BY StepsTyped DEF Kinds, ExecKinds
  <2>1. PICK files \in Seq(Steps) :
          files = << Do("NetdevWrite", c), Do("NetworkWrite", c),
                     Tolerated("NetworkdReload", c) >>
    BY <2>0
  <2>2. /\ Len(files) = 3 /\ At(files, 3) = Do("NetdevWrite", c)
        /\ At(files, 2) = Do("NetworkWrite", c) /\ At(files, 1) = Tolerated("NetworkdReload", c)
    BY <2>1 DEF At
  <2>3. PlanCreate(c) = PlanRuntimeCreate(c) \o files
    BY <1>5, <2>1 DEF PlanCreate, PlanNetworkdCreate
  <2> HIDE <2>1
  <2>4. /\ Len(PlanCreate(c)) = 7
        /\ \A k \in 1..7 : At(PlanCreate(c), k) =
             IF k <= 3 THEN At(files, k) ELSE At(PlanRuntimeCreate(c), k - 3)
    <3>1. /\ Len(PlanRuntimeCreate(c) \o files) = Len(PlanRuntimeCreate(c)) + Len(files)
          /\ \A k \in 1..(Len(PlanRuntimeCreate(c)) + Len(files)) :
               At(PlanRuntimeCreate(c) \o files, k) =
                 IF k <= Len(files) THEN At(files, k)
                 ELSE At(PlanRuntimeCreate(c), k - Len(files))
      BY <1>3, AtConcat
    <3>2. Len(PlanRuntimeCreate(c)) + Len(files) = 7
      BY <1>3, <2>2
    <3>3. ASSUME NEW k \in 1..7
          PROVE  At(PlanCreate(c), k) =
                   IF k <= 3 THEN At(files, k) ELSE At(PlanRuntimeCreate(c), k - 3)
      <4>1. At(PlanCreate(c), k) = IF k <= Len(files) THEN At(files, k)
                                   ELSE At(PlanRuntimeCreate(c), k - Len(files))
        BY <2>3, <3>1, <3>2
      <4> QED
        BY <2>2, <4>1
    <3> QED
      BY <2>3, <3>1, <3>2, <3>3
  <2>5. /\ At(PlanCreate(c), 7) = Do("LinkCreate", c) /\ At(PlanCreate(c), 6) = Do("AddressAdd", c)
        /\ At(PlanCreate(c), 5) = Do("SetMtu", c) /\ At(PlanCreate(c), 4) = Do("LinkUp", c)
    BY <1>3, <2>4
  <2>6. \A k \in 1..3 : At(PlanCreate(c), k).kind
                          \in {"NetdevWrite", "NetworkWrite", "NetworkdReload"}
    BY <2>2, <2>4 DEF Do, Tolerated
  <2> QED
    BY <1>1, <1>5, <2>4, <2>5, <2>6
<1> QED
  BY <1>1, <1>2, <1>4, <1>5

LEMMA DeleteShape ==
  ASSUME NEW c \in Configs
  PROVE  /\ PlanDelete(c) \in Seq(Steps) /\ Len(PlanDelete(c)) >= 1
         /\ \A k \in 1..Len(PlanDelete(c)) : At(PlanDelete(c), k).kind \in SureKinds
         /\ At(PlanDelete(c), 1).kind = "LinkDelete"
         /\ c.persist = "systemd" =>
              Len(PlanDelete(c)) = 5 /\ At(PlanDelete(c), 5).kind = "UnitStop"
<1>1. PlanDelete(c) \in Seq(Steps)
  BY DeleteTyped
<1>2. CASE c.persist = "systemd"
  <2>1. /\ Len(PlanDelete(c)) = 5 /\ At(PlanDelete(c), 5) = Tolerated("UnitStop", c)
        /\ At(PlanDelete(c), 4) = Tolerated("UnitDisable", c)
        /\ At(PlanDelete(c), 3) = Tolerated("UnitRemove", c)
        /\ At(PlanDelete(c), 2) = Tolerated("DaemonReload", c)
        /\ At(PlanDelete(c), 1) = Tolerated("LinkDelete", c)
    BY <1>2 DEF PlanDelete, At
  <2> QED
    BY <1>1, <1>2, <2>1 DEF Tolerated, SureKinds, Kinds, ExecKinds
<1>3. CASE c.persist = "networkd"
  <2>1. /\ Len(PlanDelete(c)) = 4 /\ At(PlanDelete(c), 4) = Tolerated("NetdevRemove", c)
        /\ At(PlanDelete(c), 3) = Tolerated("NetworkRemove", c)
        /\ At(PlanDelete(c), 2) = Tolerated("NetworkdReload", c)
        /\ At(PlanDelete(c), 1) = Tolerated("LinkDelete", c)
    BY <1>3 DEF PlanDelete, At
  <2> QED
    BY <1>1, <1>3, <2>1 DEF Tolerated, SureKinds, Kinds, ExecKinds
<1>4. CASE c.persist \notin {"systemd", "networkd"}
  <2>1. Len(PlanDelete(c)) = 1 /\ At(PlanDelete(c), 1) = Tolerated("LinkDelete", c)
    BY <1>4 DEF PlanDelete, At
  <2> QED
    BY <1>1, <1>4, <2>1 DEF Tolerated, SureKinds, Kinds, ExecKinds
<1> QED
  BY <1>2, <1>3, <1>4

\* The inverse of a create takes the unit away in this order.
LEMMA RollbackShape ==
  ASSUME NEW c \in Configs, c.persist = "systemd"
  PROVE  /\ CreateRollback(c) \in Seq(Steps) /\ Len(CreateRollback(c)) = 5
         /\ \A k \in 1..5 : At(CreateRollback(c), k).kind \in SureKinds
         /\ At(CreateRollback(c), 3).kind = "UnitStop"
<1>1. CreateRollback(c) \in Seq(Steps)
  BY CreateTyped
<1>2. /\ Len(CreateRollback(c)) = 5 /\ At(CreateRollback(c), 5) = Tolerated("DaemonReload", c)
      /\ At(CreateRollback(c), 4) = Tolerated("LinkDelete", c)
      /\ At(CreateRollback(c), 3) = Tolerated("UnitStop", c)
      /\ At(CreateRollback(c), 2) = Tolerated("UnitDisable", c)
      /\ At(CreateRollback(c), 1) = Tolerated("UnitRemove", c)
  BY DEF CreateRollback, At
<1> QED
  BY <1>1, <1>2 DEF Tolerated, SureKinds, Kinds, ExecKinds

\* Steps that are always possible and stop the unit, before a create that starts it.
LEMMA UnitPlanConcat ==
  ASSUME NEW s \in Seq(Steps), NEW c \in Configs, c.persist = "systemd", NEW n \in {6, 8},
         Len(s) = 5, \A k \in 1..5 : At(s, k).kind \in SureKinds, At(s, n - 3).kind = "UnitStop"
  PROVE  UnitPlan(s \o PlanCreate(c), n, c) /\ Len(s \o PlanCreate(c)) = 9
<1>1. PICK t \in Seq(Steps) : t = PlanCreate(c)
  BY CreateShape
<1>2. /\ Len(t) = 4 /\ At(t, 4) = Do("UnitWrite", c) /\ At(t, 3) = Do("DaemonReload", c)
      /\ At(t, 2) = Do("UnitEnable", c) /\ At(t, 1) = Do("UnitStart", c)
  BY <1>1, CreateShape
<1>3. /\ Len(s \o t) = 9
      /\ \A k \in 1..9 : At(s \o t, k) = IF k <= 4 THEN At(t, k) ELSE At(s, k - 4)
  <2>1. /\ Len(s \o t) = Len(s) + Len(t)
        /\ \A k \in 1..(Len(s) + Len(t)) :
             At(s \o t, k) = IF k <= Len(t) THEN At(t, k) ELSE At(s, k - Len(t))
    BY AtConcat
  <2>2. Len(s) + Len(t) = 9
    BY <1>2
  <2>3. ASSUME NEW k \in 1..9
        PROVE  At(s \o t, k) = IF k <= 4 THEN At(t, k) ELSE At(s, k - 4)
    <3>1. At(s \o t, k) = IF k <= Len(t) THEN At(t, k) ELSE At(s, k - Len(t))
      BY <2>1, <2>2
    <3> QED
      BY <1>2, <3>1
  <2> QED
    BY <2>1, <2>2, <2>3
<1>4. /\ At(s \o t, 4) = Do("UnitWrite", c) /\ At(s \o t, 3) = Do("DaemonReload", c)
      /\ At(s \o t, 2) = Do("UnitEnable", c) /\ At(s \o t, 1) = Do("UnitStart", c)
  BY <1>2, <1>3
<1>5. \A k \in 5..9 : At(s \o t, k).kind \in SureKinds
  BY <1>3
<1>6. \A k \in 3..9 : At(s \o t, k).kind \in SureKinds
  <2> SUFFICES ASSUME NEW k \in 3..9 PROVE At(s \o t, k).kind \in SureKinds
    OBVIOUS
  <2>1. k = 3 \/ k = 4 \/ k \in 5..9
    OBVIOUS
  <2> QED
    BY SMTT(40), <1>4, <1>5, <2>1 DEF Do, SureKinds, Kinds, ExecKinds
<1>7. At(s \o t, n + 1).kind = "UnitStop"
  <2>1. n + 1 \in 1..9 /\ ~(n + 1 <= 4) /\ (n + 1) - 4 = n - 3
    OBVIOUS
  <2> QED
    BY <1>3, <2>1
<1>8. \A k \in 2..n : At(s \o t, k).kind # "UnitStart"
  <2> SUFFICES ASSUME NEW k \in 2..n PROVE At(s \o t, k).kind # "UnitStart"
    OBVIOUS
  <2>1. k = 2 \/ k \in 3..9
    OBVIOUS
  <2> QED
    BY <1>4, <1>6, <2>1 DEF Do, SureKinds
<1> QED
  BY <1>1, <1>3, <1>4, <1>6, <1>7, <1>8 DEF UnitPlan

LEMMA LinkPlanConcat ==
  ASSUME NEW s \in Seq(Steps), NEW c \in Configs, c.persist # "systemd", Len(s) >= 1,
         \A k \in 1..Len(s) : At(s, k).kind \in SureKinds, At(s, 1).kind = "LinkDelete"
  PROVE  \E m \in {0, 3} : /\ m = (IF c.persist = "networkd" THEN 3 ELSE 0)
                           /\ LinkPlan(s \o PlanCreate(c), m, c)
                           /\ Len(s \o PlanCreate(c)) >= m + 5
<1>1. PICK t \in Seq(Steps) : t = PlanCreate(c)
  BY CreateShape
<1>2. PICK m \in {0, 3} :
        /\ m = (IF c.persist = "networkd" THEN 3 ELSE 0)
        /\ Len(t) = m + 4
        /\ At(t, m + 4) = Do("LinkCreate", c) /\ At(t, m + 3) = Do("AddressAdd", c)
        /\ At(t, m + 2) = Do("SetMtu", c) /\ At(t, m + 1) = Do("LinkUp", c)
        /\ \A k \in 1..m : At(t, k).kind \in {"NetdevWrite", "NetworkWrite", "NetworkdReload"}
  BY <1>1, CreateShape
<1>3. /\ Len(s) \in Nat /\ m \in Nat /\ Len(s \o t) = Len(s) + m + 4
      /\ \A k \in 1..(Len(s) + m + 4) :
           At(s \o t, k) = IF k <= m + 4 THEN At(t, k) ELSE At(s, k - (m + 4))
  <2>1. Len(s) \in Nat /\ m \in Nat
    BY LenProperties
  <2>2. /\ Len(s \o t) = Len(s) + Len(t)
        /\ \A k \in 1..(Len(s) + Len(t)) :
             At(s \o t, k) = IF k <= Len(t) THEN At(t, k) ELSE At(s, k - Len(t))
    BY AtConcat
  <2>3. Len(s) + Len(t) = Len(s) + m + 4
    BY <1>2, <2>1
  <2>4. ASSUME NEW k \in 1..(Len(s) + m + 4)
        PROVE  At(s \o t, k) = IF k <= m + 4 THEN At(t, k) ELSE At(s, k - (m + 4))
    <3>1. At(s \o t, k) = IF k <= Len(t) THEN At(t, k) ELSE At(s, k - Len(t))
      BY <2>2, <2>3
    <3> QED
      BY <1>2, <3>1
  <2> QED
    BY <2>1, <2>2, <2>3, <2>4
<1>4. /\ At(s \o t, m + 4) = Do("LinkCreate", c) /\ At(s \o t, m + 3) = Do("AddressAdd", c)
      /\ At(s \o t, m + 2) = Do("SetMtu", c) /\ At(s \o t, m + 1) = Do("LinkUp", c)
  BY <1>2, <1>3
<1>5. \A k \in 1..m : At(s \o t, k).kind \in {"NetdevWrite", "NetworkWrite", "NetworkdReload"}
  BY SMTT(40), <1>2, <1>3
<1>6. At(s \o t, m + 5).kind = "LinkDelete"
  <2>1. m + 5 \in 1..(Len(s) + m + 4) /\ ~(m + 5 <= m + 4) /\ (m + 5) - (m + 4) = 1
    BY <1>3
  <2> QED
    BY <1>3, <2>1
<1>7. \A k \in (m + 5)..(Len(s) + m + 4) : At(s \o t, k).kind \in SureKinds
  <2> SUFFICES ASSUME NEW k \in (m + 5)..(Len(s) + m + 4) PROVE At(s \o t, k).kind \in SureKinds
    OBVIOUS
  <2>1. k \in 1..(Len(s) + m + 4) /\ ~(k <= m + 4) /\ k - (m + 4) \in 1..Len(s)
    BY <1>3
  <2> QED
    BY <1>3, <2>1
<1>8. LinkPlan(s \o t, m, c)
  BY <1>3, <1>4, <1>5, <1>6, <1>7 DEF LinkPlan
<1>9. Len(s \o t) >= m + 5
  BY <1>3
<1> QED
  BY <1>1, <1>2, <1>8, <1>9

(***************************************************************************)
(* Reapply heals.  As long as none of its own steps failed the plan stays  *)
(* on course, whatever the host was like when it began, so that every step *)
(* is possible and what it ends with passes the verification.              *)
(***************************************************************************)
\* The files networkd reads, written and reloaded after the interface is up.
FileSteps(c) == IF c.persist = "networkd" THEN 3 ELSE 0

OnCourse(k, c, h) ==
  IF c.persist = "systemd" THEN UnitCourse(k, 8, c, h) ELSE LinkCourse(k, FileSteps(c), c, h)

LEMMA ReapplyCourse ==
  ASSUME NEW c \in Configs, NEW plan, plan = PlanDelete(c) \o PlanCreate(c), NEW h \in Hosts
  PROVE  /\ plan \in Seq(Steps)
         /\ OnCourse(Len(plan), c, h)
         /\ \A k \in 1..Len(plan) : OnCourse(k, c, h) =>
              /\ Possible(At(plan, k), h)
              /\ \A g : After(At(plan, k), h, g) => OnCourse(k - 1, c, g)
<1>1. plan \in Seq(Steps)
  BY RecreateTyped
<1>2. CASE c.persist = "systemd"
  <2>1. UnitPlan(plan, 8, c) /\ Len(plan) = 9
    <3>1. /\ PlanDelete(c) \in Seq(Steps) /\ Len(PlanDelete(c)) = 5
          /\ \A k \in 1..Len(PlanDelete(c)) : At(PlanDelete(c), k).kind \in SureKinds
          /\ At(PlanDelete(c), 5).kind = "UnitStop"
      BY <1>2, DeleteShape
    <3>2. /\ \A k \in 1..5 : At(PlanDelete(c), k).kind \in SureKinds
          /\ At(PlanDelete(c), 8 - 3).kind = "UnitStop"
      BY <3>1
    <3> QED
      BY <1>2, <3>1, <3>2, UnitPlanConcat
  <2>2. UnitCourse(9, 8, c, h)
    BY DEF UnitCourse
  <2>3. ASSUME NEW k \in 1..Len(plan), UnitCourse(k, 8, c, h)
        PROVE  /\ Possible(At(plan, k), h)
               /\ \A g : After(At(plan, k), h, g) => UnitCourse(k - 1, 8, c, g)
    BY <1>1, <2>1, <2>3, UnitCourseStep
  <2> QED
    BY <1>1, <1>2, <2>1, <2>2, <2>3 DEF OnCourse
<1>3. CASE c.persist # "systemd"
  <2>1. PICK m \in {0, 3} : m = FileSteps(c) /\ LinkPlan(plan, m, c) /\ Len(plan) >= m + 5
    <3>1. Len(PlanDelete(c)) >= 1
      BY DeleteShape
    <3> QED
      BY <1>3, <3>1, DeleteShape, LinkPlanConcat DEF FileSteps
  <2>2. LinkCourse(Len(plan), m, c, h)
    <3>1. Len(plan) \in Nat /\ m \in Nat
      BY <1>1, LenProperties
    <3>2. /\ Len(plan) # m + 4 /\ Len(plan) # m + 3 /\ Len(plan) # m + 2
          /\ Len(plan) # m + 1 /\ ~(Len(plan) <= m)
      BY <2>1, <3>1
    <3> QED
      BY <3>2 DEF LinkCourse
  <2>3. ASSUME NEW k \in 1..Len(plan), LinkCourse(k, m, c, h)
        PROVE  /\ Possible(At(plan, k), h)
               /\ \A g : After(At(plan, k), h, g) => LinkCourse(k - 1, m, c, g)
    BY <1>1, <2>1, <2>3, LinkCourseStep
  <2> QED
    BY <1>1, <1>3, <2>1, <2>2, <2>3 DEF OnCourse
<1> QED
  BY <1>2, <1>3

LEMMA CourseEnds ==
  ASSUME NEW c \in Configs, NEW h \in Hosts, OnCourse(0, c, h)
  PROVE  /\ Matches(h.link, c) /\ h.link.up
         /\ c.persist = "systemd" => h.enabled /\ h.active
<1>1. CASE c.persist = "systemd"
  <2>1. h.link = BuiltLink(c) /\ h.enabled /\ h.active
    BY <1>1 DEF OnCourse, UnitCourse
  <2>2. BuiltLink(c) # None
    BY BuiltTyped, NoneAssumption
  <2> QED
    BY <2>1, <2>2 DEF BuiltLink, Matches
<1>2. CASE c.persist # "systemd"
  <2>1. LinkSo(h.link, c, c.mtu, {c.addr}) /\ h.link.up
    BY <1>2 DEF OnCourse, LinkCourse, FileSteps
  <2> QED
    BY <1>2, <2>1 DEF LinkSo, Matches
<1> QED
  BY <1>1, <1>2

HealInv ==
  /\ phase \in Changing /\ op = "reapply" =>
       /\ Remaining(todo, PlanDelete(row.conf) \o PlanCreate(row.conf))
       /\ ~last.disturbed => OnCourse(Len(todo), row.conf, host)
  /\ phase = "undo" /\ op = "reapply" /\ last.enabled => last.disturbed
  /\ ReapplyHeals

\* While a reapply is on course its next step can be done.
LEMMA HealNext ==
  ASSUME TypeInv, Bookkeeping, HealInv, phase \in Changing, op = "reapply", todo # << >>
  PROVE  /\ row.conf \in Configs /\ Head(todo) \in Steps /\ host \in Hosts
         /\ Remaining(Tail(todo), PlanDelete(row.conf) \o PlanCreate(row.conf))
         /\ ~last.disturbed => /\ Possible(Head(todo), host)
                               /\ \A g : After(Head(todo), host, g) =>
                                           OnCourse(Len(Tail(todo)), row.conf, g)
<1>1. row.conf \in Configs /\ todo \in Seq(Steps) /\ host \in Hosts
  BY DEF TypeInv, TypeOK, Bookkeeping, Changing
<1>2. PICK plan \in Seq(Steps) : plan = PlanDelete(row.conf) \o PlanCreate(row.conf)
  BY <1>1, RecreateTyped
<1>3. Remaining(todo, plan) /\ (~last.disturbed => OnCourse(Len(todo), row.conf, host))
  BY <1>2 DEF HealInv
<1>4. /\ Remaining(Tail(todo), plan) /\ Len(Tail(todo)) = Len(todo) - 1
      /\ Len(todo) \in 1..Len(plan) /\ Head(todo) = At(plan, Len(todo))
  BY <1>1, <1>3, RemainingTail
<1>5. Head(todo) \in Steps
  BY <1>1, HeadTailProperties
<1>6. OnCourse(Len(todo), row.conf, host) =>
        /\ Possible(At(plan, Len(todo)), host)
        /\ \A g : After(At(plan, Len(todo)), host, g) => OnCourse(Len(todo) - 1, row.conf, g)
  BY <1>1, <1>2, <1>4, ReapplyCourse
<1> QED
  BY <1>1, <1>2, <1>3, <1>4, <1>5, <1>6

\* A step of it that fails does so for a reason of its own.
LEMMA HealDisturbed ==
  ASSUME TypeInv, Bookkeeping, HealInv, phase = "steps", op = "reapply", todo # << >>
  PROVE  Disturb(last).disturbed
<1>1. ~last.disturbed => Possible(Head(todo), host)
  BY HealNext DEF Changing
<1>2. ~last.disturbed => cancelled \/ Succeeds(Head(todo))
  BY <1>1 DEF Succeeds
<1>3. last \in Histories
  BY DEF TypeInv
<1> QED
  BY <1>2, <1>3 DEF Disturb, Histories

LEMMA HealBegins ==
  ASSUME TypeInv, Bookkeeping, HealInv, NEW c \in Configs, NEW e \in BOOLEAN,
         \/ Create(c, e) \/ UpdateInPlace(c, e) \/ UpdateRecreate(c, e)
         \/ Reapply \/ UpRebuilds \/ Up \/ Down \/ Delete
  PROVE  HealInv'
<1>1. ASSUME NEW r, NEW name \in {"create", "update", "upRebuild", "up", "down", "delete"},
             NEW s, NEW t, Begin(name, r, s, t)
      PROVE  HealInv'
  <2>1. phase' = "guard" /\ op' # "reapply" /\ last'.op # "reapply"
    BY <1>1 DEF Begin
  <2> QED
    BY <2>1 DEF HealInv, ReapplyHeals
<1>2. CASE Reapply
  <2>1. /\ phase' = "guard" /\ row' = row /\ host' = host /\ last'.verdict = "running"
        /\ todo' = PlanDelete(row.conf) \o PlanCreate(row.conf)
        /\ row.conf \in Configs /\ host \in Hosts
    BY <1>2 DEF Reapply, Begin, TypeInv, TypeOK
  <2>2. /\ Remaining(todo', PlanDelete(row.conf) \o PlanCreate(row.conf))
        /\ OnCourse(Len(todo'), row.conf, host)
    BY <2>1, RecreateTyped, RemainingWhole, ReapplyCourse
  <2> QED
    BY <2>1, <2>2 DEF HealInv, ReapplyHeals, Changing
<1> QED
  BY <1>1, <1>2 DEF Create, UpdateInPlace, UpdateRecreate, UpRebuilds, Up, Down, Delete

LEMMA HealStep == TypeInv /\ Bookkeeping /\ HealInv /\ [Next]_vars => HealInv'
<1> SUFFICES ASSUME TypeInv, Bookkeeping, HealInv, [Next]_vars PROVE HealInv'
  OBVIOUS
<1>1. CASE \E c \in Configs, e \in EnabledInputs :
             Create(c, e) \/ UpdateInPlace(c, e) \/ UpdateRecreate(c, e)
  BY <1>1, HealBegins, BoundsAssumption
<1>2. CASE Reapply \/ UpRebuilds \/ Up \/ Down \/ Delete
  <2>1. row.conf \in Configs
    BY <1>2 DEF Reapply, UpRebuilds, Up, Down, Delete, TypeInv, TypeOK
  <2> QED
    BY <1>2, <2>1, HealBegins
<1>3. CASE GuardPasses
  BY <1>3 DEF GuardPasses, HealInv, ReapplyHeals, Changing
<1>4. CASE Disconnect \/ UNCHANGED vars
  BY <1>4 DEF Disconnect, vars, HealInv, ReapplyHeals
<1>5. CASE Drift \/ (Reboot /\ phase = "idle")
  <2>1. phase' = "idle" /\ last' = last
    BY <1>5 DEF Drift, Reboot
  <2> QED
    BY <2>1 DEF HealInv, ReapplyHeals, Changing
<1>6. ASSUME NEW v \in {"refused", "error", "applied", "done", "crashed"}, End(v)
      PROVE  HealInv'
  <2>1. phase' = "idle" /\ last'.verdict = v
    BY <1>6, EndOf
  <2> QED
    BY <2>1 DEF HealInv, ReapplyHeals, Changing
<1>7. CASE GuardRefuses \/ Commit \/ FinishDown \/ FinishDelete \/ Crash
           \/ (Reboot /\ phase # "idle")
  BY <1>6, <1>7 DEF GuardRefuses, Commit, FinishDown, FinishDelete, Crash, Reboot
<1>8. CASE UndoDone
  <2>1. /\ phase' = "idle" /\ last'.op = op /\ last'.disturbed = last.disturbed
        /\ last'.enabled = last.enabled /\ phase = "undo"
    BY <1>8, EndOf DEF UndoDone, Bookkeeping
  <2> QED
    BY <2>1 DEF HealInv, ReapplyHeals, Changing
<1>9. CASE StepDone
  <2>1. /\ todo' = Tail(todo) /\ row' = row /\ op' = op /\ phase' = phase /\ last' = last
        /\ todo # << >> /\ phase \in {"steps", "undo"}
        /\ Possible(Head(todo), host) /\ host' = Effect(Head(todo), host)
    BY <1>9 DEF StepDone, Succeeds
  <2>2. ASSUME phase \in Changing, op = "reapply"
        PROVE  /\ Remaining(todo', PlanDelete(row.conf) \o PlanCreate(row.conf))
               /\ ~last.disturbed => OnCourse(Len(todo'), row.conf, host')
    <3>1. Head(todo) \in Steps /\ host \in Hosts
      BY <2>1, <2>2, HealNext
    <3>2. After(Head(todo), host, host')
      BY <2>1, <3>1, EffectFields
    <3> QED
      BY <2>1, <2>2, <3>2, HealNext
  <2> QED
    BY <2>1, <2>2 DEF HealInv, ReapplyHeals
<1>10. CASE VerifyFails
  <2>1. /\ phase = "steps" /\ todo = << >> /\ phase' = "undo" /\ op' = op
        /\ ~Verified(want) /\ last' = [last EXCEPT !.disturbed = @ \/ cancelled]
        /\ want = [conf |-> row.conf, enabled |-> row.enabled]
        /\ last.enabled = row.enabled /\ last.verdict = "running"
        /\ row.conf \in Configs /\ host \in Hosts /\ last \in Histories
    BY <1>10 DEF VerifyFails, Bookkeeping, TypeInv, TypeOK
  <2>2. ASSUME op = "reapply", last.enabled, ~last.disturbed PROVE cancelled
    <3>1. Len(todo) = 0
      BY <2>1, EmptySeq
    <3>2. OnCourse(0, row.conf, host)
      BY <2>1, <2>2, <3>1 DEF HealInv, Changing
    <3>3. /\ Matches(host.link, row.conf) /\ host.link.up
          /\ row.conf.persist = "systemd" => host.enabled /\ host.active
      BY <2>1, <3>2, CourseEnds
    <3>4. want.conf = row.conf /\ want.enabled
      BY <2>1, <2>2
    <3>5. host.link.up = want.enabled
      <4>1. host.link.up \in BOOLEAN
        BY <2>1, <3>3, NoneAssumption DEF Matches, Hosts, Links
      <4>2. want.enabled \in BOOLEAN
        BY DEF TypeInv, TypeOK
      <4> QED
        BY <3>3, <3>4, <4>1, <4>2
    <3> QED
      BY <2>1, <3>3, <3>4, <3>5 DEF Verified
  <2>3. /\ last'.verdict = "running" /\ last'.enabled = last.enabled
        /\ last'.disturbed <=> last.disturbed \/ cancelled
    BY <2>1 DEF Histories
  <2> QED
    BY <2>1, <2>2, <2>3 DEF HealInv, ReapplyHeals, Changing
<1>11. ASSUME NEW h, StepTolerated(h) PROVE HealInv'
  <2>1. /\ todo' = Tail(todo) /\ row' = row /\ op' = op /\ phase' = phase /\ todo # << >>
        /\ phase \in {"steps", "undo"} /\ last' = Disturb(last)
        /\ last'.verdict = "running" /\ last'.enabled = last.enabled
        /\ phase = "undo" => last'.disturbed = last.disturbed
    BY <1>11, SameOperation DEF StepTolerated, Fails, Bookkeeping
  <2>2. ASSUME phase \in Changing, op = "reapply"
        PROVE  /\ Remaining(todo', PlanDelete(row.conf) \o PlanCreate(row.conf))
               /\ last'.disturbed
    BY <2>1, <2>2, HealNext, HealDisturbed DEF Changing
  <2> QED
    BY <2>1, <2>2 DEF HealInv, ReapplyHeals, Changing
<1>12. ASSUME NEW h, StepFails(h) PROVE HealInv'
  <2>1. /\ phase = "steps" /\ phase' = "undo" /\ op' = op /\ todo # << >>
        /\ last' = Disturb(last) /\ last'.verdict = "running"
    BY <1>12, SameOperation DEF StepFails, Fails, Bookkeeping
  <2>2. op = "reapply" => last'.disturbed
    BY <2>1, HealDisturbed
  <2> QED
    BY <2>1, <2>2 DEF HealInv, ReapplyHeals, Changing
<1>13. ASSUME NEW h, StepGivesUp(h) PROVE HealInv'
  BY <1>6, <1>13 DEF StepGivesUp
<1>14. ASSUME NEW h, UndoFails(h) PROVE HealInv'
  <2>1. /\ phase' = "idle" /\ phase = "undo" /\ last \in Histories /\ last.op = op
        /\ last' = [Disturb(last) EXCEPT !.verdict = "inconsistent", !.before = NoHost,
                                         !.from = NoRow]
    BY <1>14 DEF UndoFails, TypeInv, Bookkeeping
  <2>2. /\ Disturb(last).op = op /\ Disturb(last).enabled = last.enabled
        /\ Disturb(last).disturbed = last.disturbed
    BY <2>1 DEF Disturb, Histories
  <2>3. /\ last'.op = op /\ last'.enabled = last.enabled /\ last'.disturbed = last.disturbed
    BY <2>1, <2>2 DEF Disturb, Histories
  <2> QED
    BY <2>1, <2>3 DEF HealInv, ReapplyHeals, Changing
<1> QED
  BY <1>1, <1>2, <1>3, <1>4, <1>5, <1>7, <1>8, <1>9, <1>10, <1>11, <1>12, <1>13, <1>14
     DEF Next, FailedStep

\* Reapply of an enabled tunnel only fails when a step of its own fails or the client
\* goes away: for all configurations and whatever was left on the host.
THEOREM ReapplyIsARemedy == Spec => []ReapplyHeals
<1>1. Init => TypeInv /\ Bookkeeping /\ HealInv
  BY InitTyped, BookkeepingInit DEF Init, HealInv, ReapplyHeals, Changing, NothingYet
<1>2. TypeInv /\ Bookkeeping /\ HealInv /\ [Next]_vars => (TypeInv /\ Bookkeeping /\ HealInv)'
  BY StepTyped, BookkeepingStep, HealStep
<1>3. HealInv => ReapplyHeals
  BY DEF HealInv
<1> QED
  BY <1>1, <1>2, <1>3, PTL DEF Spec

(***************************************************************************)
(* The inverse of a change in place.  While the plan runs each of the four *)
(* things it may change of a running systemd tunnel is either as it was,   *)
(* and no step ahead touches it, or set back by the inverse plan.          *)
(***************************************************************************)
Mends(p, s, u, w, r, c, now) ==
  IF p = "undo" THEN Coming(s, w, r, c, now)
  ELSE Sets(u, w, r, c) \/ (now /\ Keeps(s, w, r) /\ Keeps(u, w, r))

\* In phase p, with s still to run and u its inverse, c will be restored on h.
Mended(p, s, u, c, h) ==
  /\ h.link # None /\ h.link.shape = c.shape /\ h.enabled /\ h.active
  /\ Mends(p, s, u, "UnitWrite", "UnitRemove", c, h.unit = c)
  /\ Mends(p, s, u, "SetMtu", "SetMtu", c, h.link.mtu = c.mtu)
  /\ Mends(p, s, u, "AddressAdd", "AddressRemove", c, c.addr \in h.link.addrs)
  /\ Mends(p, s, u, "LinkUp", "LinkDown", c, h.link.up)

LEMMA MendsTail ==
  ASSUME NEW s \in Seq(Steps), s # << >>, NEW p, NEW u, NEW w, NEW r, NEW c,
         NEW now \in BOOLEAN, NEW next \in BOOLEAN, Mends(p, s, u, w, r, c, now),
         Head(s).kind \notin {w, r} /\ now => next,
         Head(s).kind = w /\ Head(s).conf = c /\ ~Head(s).tolerate => next
  PROVE  Mends(p, Tail(s), u, w, r, c, next)
<1>1. CASE p = "undo"
  BY <1>1, ComingTail DEF Mends
<1>2. CASE p # "undo"
  BY <1>2, KeepsTail DEF Mends
<1> QED
  BY <1>1, <1>2

\* What a step of a change in place does to a live interface.
LEMMA InPlaceFields ==
  ASSUME NEW s \in InPlaceSteps, NEW h \in Hosts, NEW g, h.link # None, After(s, h, g)
  PROVE  /\ g.link # None /\ g.link.shape = h.link.shape
         /\ (g.enabled <=> h.enabled) /\ (g.active <=> h.active)
         /\ s.kind \notin {"UnitWrite", "UnitRemove"} => g.unit = h.unit
         /\ s.kind = "UnitWrite" => g.unit = s.conf
         /\ s.kind \notin {"SetMtu"} => g.link.mtu = h.link.mtu
         /\ s.kind = "SetMtu" => g.link.mtu = s.conf.mtu
         /\ s.kind \notin {"AddressAdd", "AddressRemove"} => g.link.addrs = h.link.addrs
         /\ s.kind = "AddressAdd" => s.conf.addr \in g.link.addrs
         /\ s.kind \notin {"LinkUp", "LinkDown"} => (g.link.up <=> h.link.up)
         /\ s.kind = "LinkUp" => g.link.up
<1>1. /\ h.link \in Links /\ s.kind \in InPlaceKinds /\ s.conf.mtu \in Mtus
      /\ s.conf.addr \in Addrs
  BY DEF Hosts, InPlaceSteps, Steps, Mtus, Addrs
<1>2. /\ (g.enabled <=> h.enabled) /\ (g.active <=> h.active)
      /\ s.kind \notin {"UnitWrite", "UnitRemove"} => g.unit = h.unit
      /\ s.kind = "UnitWrite" => g.unit = s.conf
  <2>1. h.enabled \in BOOLEAN /\ h.active \in BOOLEAN
    BY DEF Hosts
  <2>2. s.kind \notin {"UnitEnable", "UnitDisable", "UnitStart", "UnitStop"}
    BY <1>1 DEF InPlaceKinds
  <2> QED
    BY <2>1, <2>2 DEF After
<1>3. CASE s.kind \in {"UnitWrite", "DaemonReload", "NetdevWrite", "NetworkWrite",
                       "NetworkdReload"}
  <2>1. g.link = h.link
    BY <1>3 DEF After, LinkKinds
  <2> QED
    BY <1>2, <1>3, <2>1
<1>4. CASE s.kind = "LinkUp"
  <2>1. g.link = [h.link EXCEPT !.up = TRUE]
    BY <1>4 DEF After
  <2>2. g.link \in Links
    BY <1>1, <2>1 DEF Links
  <2> QED
    BY <1>1, <1>2, <1>4, <2>1, <2>2, NoneAssumption DEF Links
<1>5. CASE s.kind = "LinkDown"
  <2>1. g.link = [h.link EXCEPT !.up = FALSE]
    BY <1>5 DEF After
  <2>2. g.link \in Links
    BY <1>1, <2>1 DEF Links
  <2> QED
    BY <1>1, <1>2, <1>5, <2>1, <2>2, NoneAssumption DEF Links
<1>6. CASE s.kind = "SetMtu"
  <2>1. g.link = [h.link EXCEPT !.mtu = s.conf.mtu]
    BY <1>6 DEF After
  <2>2. g.link \in Links
    BY <1>1, <2>1 DEF Links
  <2> QED
    BY <1>1, <1>2, <1>6, <2>1, <2>2, NoneAssumption DEF Links
<1>7. CASE s.kind = "AddressAdd"
  <2>1. g.link = [h.link EXCEPT !.addrs = @ \cup {s.conf.addr}]
    BY <1>7 DEF After
  <2>2. g.link \in Links
    BY <1>1, <2>1 DEF Links
  <2> QED
    BY <1>1, <1>2, <1>7, <2>1, <2>2, NoneAssumption DEF Links
<1>8. CASE s.kind = "AddressRemove"
  <2>1. g.link = [h.link EXCEPT !.addrs = @ \ {s.conf.addr}]
    BY <1>8 DEF After
  <2>2. g.link \in Links
    BY <1>1, <2>1 DEF Links
  <2> QED
    BY <1>1, <1>2, <1>8, <2>1, <2>2, NoneAssumption DEF Links
<1> QED
  BY <1>1, <1>3, <1>4, <1>5, <1>6, <1>7, <1>8 DEF InPlaceKinds

\* A step of it that fails changes none of it.
LEMMA InPlaceFault ==
  ASSUME NEW s \in InPlaceSteps, NEW h \in Hosts, NEW g \in FaultyEffects(s, h)
  PROVE  /\ g.link = h.link /\ g.unit = h.unit
         /\ (g.enabled <=> h.enabled) /\ (g.active <=> h.active)
<1>1. s \in Steps /\ s.kind \in InPlaceKinds
  BY DEF InPlaceSteps
<1>2. CASE s.kind \in ExecKinds /\ After(s, h, g)
  <2>1. s.kind \in {"DaemonReload", "NetworkdReload"}
    BY <1>1, <1>2 DEF InPlaceKinds, ExecKinds
  <2>2. h.enabled \in BOOLEAN /\ h.active \in BOOLEAN
    BY DEF Hosts
  <2> QED
    BY <1>2, <2>1, <2>2 DEF After, LinkKinds
<1>3. s.kind # "UnitStart"
  BY <1>1 DEF InPlaceKinds
<1>4. CASE g = h
  BY <1>4
<1> QED
  BY <1>1, <1>2, <1>3, <1>4, FaultyFields

LEMMA MendedStep ==
  ASSUME NEW s \in Seq(InPlaceSteps), s # << >>, NEW p, NEW u, NEW c \in Configs,
         NEW h \in Hosts, NEW g \in Hosts, Mended(p, s, u, c, h),
         \/ After(Head(s), h, g)
         \/ /\ Head(s).tolerate /\ g.link = h.link /\ g.unit = h.unit
            /\ (g.enabled <=> h.enabled) /\ (g.active <=> h.active)
  PROVE  Mended(p, Tail(s), u, c, g)
<1>1. s \in Seq(Steps) /\ Head(s) \in InPlaceSteps
  BY InPlaceIsSteps, HeadTailProperties
<1>2. h.link # None
  BY DEF Mended
<1>3. /\ g.link # None /\ g.link.shape = h.link.shape
      /\ (g.enabled <=> h.enabled) /\ (g.active <=> h.active)
  BY <1>1, <1>2, InPlaceFields
<1>4. Mends(p, Tail(s), u, "UnitWrite", "UnitRemove", c, g.unit = c)
  <2>1. /\ Head(s).kind \notin {"UnitWrite", "UnitRemove"} /\ h.unit = c => g.unit = c
        /\ Head(s).kind = "UnitWrite" /\ Head(s).conf = c /\ ~Head(s).tolerate => g.unit = c
    BY <1>1, <1>2, InPlaceFields
  <2>2. Mends(p, s, u, "UnitWrite", "UnitRemove", c, h.unit = c)
    BY DEF Mended
  <2> QED
    BY <1>1, <2>1, <2>2, MendsTail
<1>5. Mends(p, Tail(s), u, "SetMtu", "SetMtu", c, g.link.mtu = c.mtu)
  <2>1. /\ Head(s).kind \notin {"SetMtu", "SetMtu"} /\ h.link.mtu = c.mtu => g.link.mtu = c.mtu
        /\ Head(s).kind = "SetMtu" /\ Head(s).conf = c /\ ~Head(s).tolerate
             => g.link.mtu = c.mtu
    BY <1>1, <1>2, InPlaceFields
  <2>2. Mends(p, s, u, "SetMtu", "SetMtu", c, h.link.mtu = c.mtu)
    BY DEF Mended
  <2> QED
    BY <1>1, <2>1, <2>2, MendsTail
<1>6. Mends(p, Tail(s), u, "AddressAdd", "AddressRemove", c, c.addr \in g.link.addrs)
  <2>1. /\ Head(s).kind \notin {"AddressAdd", "AddressRemove"} /\ c.addr \in h.link.addrs
             => c.addr \in g.link.addrs
        /\ Head(s).kind = "AddressAdd" /\ Head(s).conf = c /\ ~Head(s).tolerate
             => c.addr \in g.link.addrs
    BY <1>1, <1>2, InPlaceFields
  <2>2. Mends(p, s, u, "AddressAdd", "AddressRemove", c, c.addr \in h.link.addrs)
    BY DEF Mended
  <2>3. ASSUME NEW now \in BOOLEAN, NEW next \in BOOLEAN,
               now <=> c.addr \in h.link.addrs, next <=> c.addr \in g.link.addrs
        PROVE  Mends(p, Tail(s), u, "AddressAdd", "AddressRemove", c, next)
    <3>1. Mends(p, s, u, "AddressAdd", "AddressRemove", c, now)
      BY <2>2, <2>3 DEF Mends, Coming
    <3> QED
      BY <1>1, <2>1, <2>3, <3>1, MendsTail
  <2>4. (c.addr \in h.link.addrs) \in BOOLEAN /\ (c.addr \in g.link.addrs) \in BOOLEAN
    OBVIOUS
  <2> QED
    BY <2>3, <2>4, Zenon
<1>7. Mends(p, Tail(s), u, "LinkUp", "LinkDown", c, g.link.up)
  <2>1. /\ Head(s).kind \notin {"LinkUp", "LinkDown"} /\ h.link.up => g.link.up
        /\ Head(s).kind = "LinkUp" /\ Head(s).conf = c /\ ~Head(s).tolerate => g.link.up
    BY <1>1, <1>2, InPlaceFields
  <2>2. Mends(p, s, u, "LinkUp", "LinkDown", c, h.link.up)
    BY DEF Mended
  <2>3. h.link.up \in BOOLEAN /\ g.link.up \in BOOLEAN
    BY <1>2, <1>3 DEF Hosts, Links
  <2> QED
    BY <1>1, <2>1, <2>2, <2>3, MendsTail
<1> QED
  BY <1>3, <1>4, <1>5, <1>6, <1>7 DEF Mended

\* The plan gives way to its inverse.
LEMMA MendedTurns ==
  ASSUME NEW s, NEW u, NEW v, NEW p, p # "undo", NEW c \in Configs, NEW h, NEW g,
         Mended(p, s, u, c, h), g.link = h.link, g.unit = h.unit,
         (g.enabled <=> h.enabled) /\ (g.active <=> h.active)
  PROVE  Mended("undo", u, v, c, g)
<1>1. Mends("undo", u, v, "UnitWrite", "UnitRemove", c, g.unit = c)
  BY DEF Mended, Mends, Coming
<1>2. Mends("undo", u, v, "SetMtu", "SetMtu", c, g.link.mtu = c.mtu)
  BY DEF Mended, Mends, Coming
<1>3. Mends("undo", u, v, "AddressAdd", "AddressRemove", c, c.addr \in g.link.addrs)
  BY DEF Mended, Mends, Coming
<1>4. Mends("undo", u, v, "LinkUp", "LinkDown", c, g.link.up)
  BY DEF Mended, Mends, Coming
<1> QED
  BY <1>1, <1>2, <1>3, <1>4 DEF Mended

LEMMA MendedEnds ==
  ASSUME NEW u, NEW c \in Configs, NEW h, Mended("undo", << >>, u, c, h)
  PROVE  Healthy(h, c)
<1>1. \A w, r : ~Sets(<< >>, w, r, c)
  BY DEF Sets
<1> QED
  BY <1>1 DEF Mended, Mends, Coming, Healthy, Matches

LEMMA WhenKeeps ==
  ASSUME NEW s, NEW b \in BOOLEAN, NEW w, NEW r, b => Keeps(s, w, r)
  PROVE  Keeps(When(b, s), w, r)
BY DEF When, Keeps

LEMMA FourParts ==
  ASSUME NEW s \in Seq(Steps), NEW t \in Seq(Steps), NEW u \in Seq(Steps), NEW v \in Seq(Steps),
         NEW w, NEW r, NEW c
  PROVE  /\ Keeps(s, w, r) /\ Keeps(t, w, r) /\ Keeps(u, w, r) /\ Keeps(v, w, r) =>
              Keeps(s \o t \o u \o v, w, r)
         /\ \/ Sets(s, w, r, c) /\ Keeps(t, w, r) /\ Keeps(u, w, r) /\ Keeps(v, w, r)
            \/ Sets(t, w, r, c) /\ Keeps(u, w, r) /\ Keeps(v, w, r)
            \/ Sets(u, w, r, c) /\ Keeps(v, w, r)
            \/ Sets(v, w, r, c)
            => Sets(s \o t \o u \o v, w, r, c)
<1>1. s \o t \in Seq(Steps) /\ (s \o t) \o u \in Seq(Steps)
  BY ConcatProperties
<1>2. /\ Keeps(s, w, r) /\ Keeps(t, w, r) => Keeps(s \o t, w, r)
      /\ Sets(t, w, r, c) \/ (Sets(s, w, r, c) /\ Keeps(t, w, r)) => Sets(s \o t, w, r, c)
  BY KeepsConcat, SetsConcat
<1>3. /\ Keeps(s \o t, w, r) /\ Keeps(u, w, r) => Keeps((s \o t) \o u, w, r)
      /\ Sets(u, w, r, c) \/ (Sets(s \o t, w, r, c) /\ Keeps(u, w, r)) =>
           Sets((s \o t) \o u, w, r, c)
  BY <1>1, KeepsConcat, SetsConcat
<1>4. /\ Keeps((s \o t) \o u, w, r) /\ Keeps(v, w, r) => Keeps(((s \o t) \o u) \o v, w, r)
      /\ Sets(v, w, r, c) \/ (Sets((s \o t) \o u, w, r, c) /\ Keeps(v, w, r)) =>
           Sets(((s \o t) \o u) \o v, w, r, c)
  BY <1>1, KeepsConcat, SetsConcat
<1> QED
  BY <1>2, <1>3, <1>4

\* The inverse plan sets back whatever the plan changes.
LEMMA MendedBegins ==
  ASSUME NEW c \in Configs, NEW d \in Configs, NEW e \in BOOLEAN, NEW f \in BOOLEAN, e,
         ~RequiresRecreate(c, d), c.persist = "systemd", NEW h, Healthy(h, c)
  PROVE  Mended("guard", PlanInPlace(c, e, d, f), InPlaceRollback(c, e, d, f), c, h)
<1>1. d.persist = "systemd" /\ (e # f => ~f)
  BY DEF RequiresRecreate
<1>2. /\ \A x \in {c, d} : << Do("SetMtu", x) >> \in Seq(Steps)
      /\ << Do("AddressRemove", c), Do("AddressAdd", d) >> \in Seq(Steps)
      /\ << Do("AddressRemove", d), Do("AddressAdd", c) >> \in Seq(Steps)
      /\ << Do("LinkDown", d) >> \in Seq(Steps) /\ << Do("LinkUp", c) >> \in Seq(Steps)
      /\ << Do("UnitWrite", c) >> \in Seq(Steps)
      /\ << Do("UnitWrite", d), Do("DaemonReload", d) >> \in Seq(Steps)
  BY StepsTyped DEF Kinds, ExecKinds
\* The parts of the plan.
<1>3. PICK m \in Seq(Steps) : m = When(c.mtu # d.mtu, << Do("SetMtu", d) >>)
  BY <1>2, WhenTyped
<1>4. PICK a \in Seq(Steps) :
        a = When(c.addr # d.addr, << Do("AddressRemove", c), Do("AddressAdd", d) >>)
  BY <1>2, WhenTyped
<1>5. PICK l \in Seq(Steps) : l = When(e # f, << Do("LinkDown", d) >>)
  BY <1>2, WhenTyped
<1>6. PICK p \in Seq(Steps) : p = << Do("UnitWrite", d), Do("DaemonReload", d) >>
  BY <1>2
<1>7. PlanInPlace(c, e, d, f) = m \o a \o l \o p
  <2>1. RewritePersistence(d) = p
    <3>1. RewritePersistence(d) = p \o << >>
      BY <1>1, <1>6 DEF RewritePersistence, When
    <3> QED
      BY <3>1, ConcatEmptySeq
  <2>2. When(e # f, << Do(IF f THEN "LinkUp" ELSE "LinkDown", d) >>) = l
    BY <1>1, <1>5 DEF When
  <2> QED
    BY <1>3, <1>4, <2>1, <2>2 DEF PlanInPlace
<1>8. /\ Keeps(<< Do("SetMtu", d) >>, "AddressAdd", "AddressRemove")
      /\ Keeps(<< Do("SetMtu", d) >>, "LinkUp", "LinkDown")
      /\ Keeps(<< Do("AddressRemove", c), Do("AddressAdd", d) >>, "SetMtu", "SetMtu")
      /\ Keeps(<< Do("AddressRemove", c), Do("AddressAdd", d) >>, "LinkUp", "LinkDown")
      /\ Keeps(<< Do("LinkDown", d) >>, "SetMtu", "SetMtu")
      /\ Keeps(<< Do("LinkDown", d) >>, "AddressAdd", "AddressRemove")
  BY DEF Keeps, Do
<1>9. /\ Keeps(m, "AddressAdd", "AddressRemove") /\ Keeps(m, "LinkUp", "LinkDown")
      /\ Keeps(a, "SetMtu", "SetMtu") /\ Keeps(a, "LinkUp", "LinkDown")
      /\ Keeps(l, "SetMtu", "SetMtu") /\ Keeps(l, "AddressAdd", "AddressRemove")
      /\ c.mtu = d.mtu => Keeps(m, "SetMtu", "SetMtu")
      /\ c.addr = d.addr => Keeps(a, "AddressAdd", "AddressRemove")
      /\ ~(e # f) => Keeps(l, "LinkUp", "LinkDown")
  BY <1>3, <1>4, <1>5, <1>8, WhenKeeps
<1>10. /\ Keeps(p, "SetMtu", "SetMtu") /\ Keeps(p, "AddressAdd", "AddressRemove")
       /\ Keeps(p, "LinkUp", "LinkDown")
  BY <1>6 DEF Keeps, Do
<1>11. /\ c.mtu = d.mtu => Keeps(m \o a \o l \o p, "SetMtu", "SetMtu")
       /\ c.addr = d.addr => Keeps(m \o a \o l \o p, "AddressAdd", "AddressRemove")
       /\ ~(e # f) => Keeps(m \o a \o l \o p, "LinkUp", "LinkDown")
  BY <1>9, <1>10, FourParts
\* The parts of its inverse.
<1>12. PICK q \in Seq(Steps) : q = << Do("UnitWrite", c) >>
  BY <1>2
<1>13. PICK k \in Seq(Steps) : k = When(e # f, << Do("LinkUp", c) >>)
  BY <1>2, WhenTyped
<1>14. PICK b \in Seq(Steps) :
         b = When(c.addr # d.addr, << Do("AddressRemove", d), Do("AddressAdd", c) >>)
  BY <1>2, WhenTyped
<1>15. PICK n \in Seq(Steps) : n = When(c.mtu # d.mtu, << Do("SetMtu", c) >>)
  BY <1>2, WhenTyped
<1>16. InPlaceRollback(c, e, d, f) = q \o k \o b \o n
  <2>1. When(d.persist = "systemd", << Do("UnitWrite", c) >>) = q
    BY <1>1, <1>12 DEF When
  <2>2. When(e # f, << Do(IF f THEN "LinkDown" ELSE "LinkUp", c) >>) = k
    BY <1>1, <1>13 DEF When
  <2> QED
    BY <1>14, <1>15, <2>1, <2>2 DEF InPlaceRollback
<1>17. /\ Keeps(<< Do("SetMtu", c) >>, "AddressAdd", "AddressRemove")
       /\ Keeps(<< Do("SetMtu", c) >>, "LinkUp", "LinkDown")
       /\ Keeps(<< Do("SetMtu", c) >>, "UnitWrite", "UnitRemove")
       /\ Keeps(<< Do("AddressRemove", d), Do("AddressAdd", c) >>, "SetMtu", "SetMtu")
       /\ Keeps(<< Do("AddressRemove", d), Do("AddressAdd", c) >>, "LinkUp", "LinkDown")
       /\ Keeps(<< Do("AddressRemove", d), Do("AddressAdd", c) >>, "UnitWrite", "UnitRemove")
       /\ Keeps(<< Do("LinkUp", c) >>, "SetMtu", "SetMtu")
       /\ Keeps(<< Do("LinkUp", c) >>, "AddressAdd", "AddressRemove")
       /\ Keeps(<< Do("LinkUp", c) >>, "UnitWrite", "UnitRemove")
  BY DEF Keeps, Do
<1>18. /\ Keeps(n, "AddressAdd", "AddressRemove") /\ Keeps(n, "LinkUp", "LinkDown")
       /\ Keeps(n, "UnitWrite", "UnitRemove")
       /\ Keeps(b, "SetMtu", "SetMtu") /\ Keeps(b, "LinkUp", "LinkDown")
       /\ Keeps(b, "UnitWrite", "UnitRemove")
       /\ Keeps(k, "SetMtu", "SetMtu") /\ Keeps(k, "AddressAdd", "AddressRemove")
       /\ Keeps(k, "UnitWrite", "UnitRemove")
       /\ c.mtu = d.mtu => Keeps(n, "SetMtu", "SetMtu")
       /\ c.addr = d.addr => Keeps(b, "AddressAdd", "AddressRemove")
       /\ ~(e # f) => Keeps(k, "LinkUp", "LinkDown")
  BY <1>13, <1>14, <1>15, <1>17, WhenKeeps
<1>19. /\ Keeps(q, "SetMtu", "SetMtu") /\ Keeps(q, "AddressAdd", "AddressRemove")
       /\ Keeps(q, "LinkUp", "LinkDown")
  BY <1>12 DEF Keeps, Do
<1>20. /\ Sets(<< Do("UnitWrite", c) >>, "UnitWrite", "UnitRemove", c)
       /\ Sets(<< Do("LinkUp", c) >>, "LinkUp", "LinkDown", c)
       /\ Sets(<< Do("SetMtu", c) >>, "SetMtu", "SetMtu", c)
       /\ Sets(<< Do("AddressRemove", d), Do("AddressAdd", c) >>,
               "AddressAdd", "AddressRemove", c)
  BY DEF Sets, Do
<1>21. /\ Sets(q, "UnitWrite", "UnitRemove", c)
       /\ c.mtu # d.mtu => Sets(n, "SetMtu", "SetMtu", c)
       /\ c.addr # d.addr => Sets(b, "AddressAdd", "AddressRemove", c)
       /\ e # f => Sets(k, "LinkUp", "LinkDown", c)
  BY <1>12, <1>13, <1>14, <1>15, <1>20 DEF When
<1>22. /\ Sets(q \o k \o b \o n, "UnitWrite", "UnitRemove", c)
       /\ c.mtu # d.mtu => Sets(q \o k \o b \o n, "SetMtu", "SetMtu", c)
       /\ c.mtu = d.mtu => Keeps(q \o k \o b \o n, "SetMtu", "SetMtu")
       /\ c.addr # d.addr => Sets(q \o k \o b \o n, "AddressAdd", "AddressRemove", c)
       /\ c.addr = d.addr => Keeps(q \o k \o b \o n, "AddressAdd", "AddressRemove")
       /\ e # f => Sets(q \o k \o b \o n, "LinkUp", "LinkDown", c)
       /\ ~(e # f) => Keeps(q \o k \o b \o n, "LinkUp", "LinkDown")
  BY <1>18, <1>19, <1>21, FourParts
<1> QED
  BY <1>7, <1>11, <1>16, <1>22 DEF Mended, Mends, Healthy, Matches

(***************************************************************************)
(* A rolled back update restores what was there: one that recreates the    *)
(* interface because the inverse plan builds the old tunnel whatever the   *)
(* plan left behind, one in place because the inverse sets back what the   *)
(* plan may have changed.                                                  *)
(***************************************************************************)
Rebuilding(c) ==
  /\ phase \in Changing => undo = RecreateRollback(c, row.conf)
  /\ phase = "undo" =>
       /\ Remaining(todo, RecreateRollback(c, row.conf))
       /\ ~last.undoDisturbed => UnitCourse(Len(todo), 6, c, host)

RestoreInv ==
  op = "update" =>
    /\ last.from.conf \in Configs /\ last.from.enabled \in BOOLEAN
    /\ /\ RequiresRecreate(last.from.conf, row.conf)
       /\ last.from.conf.persist = "systemd" /\ row.conf.persist = "systemd"
       => Rebuilding(last.from.conf)
    /\ /\ ~RequiresRecreate(last.from.conf, row.conf)
       /\ last.from.conf.persist = "systemd"
       /\ last.from.enabled /\ Healthy(last.before, last.from.conf)
       => Mended(phase, todo, undo, last.from.conf, host)

\* The inverse of a recreation is a plan that builds the old unit.
LEMMA RecreateRollbackPlan ==
  ASSUME NEW c \in Configs, NEW d \in Configs, c.persist = "systemd", d.persist = "systemd"
  PROVE  /\ RecreateRollback(c, d) \in Seq(Steps) /\ Len(RecreateRollback(c, d)) = 9
         /\ UnitPlan(RecreateRollback(c, d), 6, c)
<1>1. /\ CreateRollback(d) \in Seq(Steps) /\ Len(CreateRollback(d)) = 5
      /\ \A k \in 1..5 : At(CreateRollback(d), k).kind \in SureKinds
      /\ At(CreateRollback(d), 6 - 3).kind = "UnitStop"
  BY RollbackShape
<1>2. /\ UnitPlan(CreateRollback(d) \o PlanCreate(c), 6, c)
      /\ Len(CreateRollback(d) \o PlanCreate(c)) = 9
  BY <1>1, UnitPlanConcat
<1> QED
  BY <1>2, RecreateTyped DEF RecreateRollback

LEMMA RebuildMoves ==
  ASSUME TypeInv, Bookkeeping, NEW c \in Configs, c.persist = "systemd",
         row.conf.persist = "systemd", op = "update", Rebuilding(c),
         NEW h, StepDone \/ StepTolerated(h)
  PROVE  Rebuilding(c)'
<1>1. /\ row' = row /\ phase' = phase /\ undo' = undo /\ todo' = Tail(todo) /\ todo # << >>
      /\ phase \in {"steps", "undo"} /\ row.conf \in Configs /\ todo \in Seq(Steps)
      /\ host \in Hosts /\ last \in Histories /\ Head(todo) \in Steps
  BY HeadTailProperties
     DEF StepDone, StepTolerated, Fails, Bookkeeping, TypeInv, TypeOK
<1>2. ASSUME phase = "undo"
      PROVE  /\ Remaining(todo', RecreateRollback(c, row.conf))
             /\ ~last'.undoDisturbed => UnitCourse(Len(todo'), 6, c, host')
  <2>1. PICK plan \in Seq(Steps) : plan = RecreateRollback(c, row.conf)
    BY <1>1, RecreateRollbackPlan
  <2>2. UnitPlan(plan, 6, c) /\ Remaining(todo, plan)
    BY <1>1, <1>2, <2>1, RecreateRollbackPlan DEF Rebuilding
  <2>3. /\ Remaining(Tail(todo), plan) /\ Len(Tail(todo)) = Len(todo) - 1
        /\ Len(todo) \in 1..Len(plan) /\ Head(todo) = At(plan, Len(todo))
    BY <1>1, <2>2, RemainingTail
  <2>4. ASSUME ~last.undoDisturbed
        PROVE  /\ Possible(Head(todo), host)
               /\ \A g : After(Head(todo), host, g) => UnitCourse(Len(todo) - 1, 6, c, g)
    <3>1. UnitCourse(Len(todo), 6, c, host)
      BY <1>2, <2>4 DEF Rebuilding
    <3> QED
      BY <1>1, <2>2, <2>3, <3>1, UnitCourseStep
  <2>5. CASE StepDone
    <3>1. /\ last' = last /\ Possible(Head(todo), host) /\ host' = Effect(Head(todo), host)
      BY <2>5 DEF StepDone, Succeeds
    <3>2. After(Head(todo), host, host')
      BY <1>1, <3>1, EffectFields
    <3> QED
      BY <1>1, <2>1, <2>3, <2>4, <3>1, <3>2
  <2>6. CASE StepTolerated(h)
    <3>1. last' = Disturb(last)
      BY <2>6 DEF StepTolerated
    <3>2. last'.undoDisturbed
      BY <1>1, <1>2, <2>4, <3>1 DEF Disturb, Histories, Succeeds
    <3> QED
      BY <1>1, <2>1, <2>3, <3>2
  <2> QED
    BY <2>5, <2>6
<1> QED
  BY <1>1, <1>2 DEF Rebuilding

LEMMA RebuildTurns ==
  ASSUME TypeInv, Bookkeeping, NEW c \in Configs, c.persist = "systemd",
         row.conf.persist = "systemd", Rebuilding(c), NEW h, StepFails(h) \/ VerifyFails
  PROVE  Rebuilding(c)'
<1>1. /\ phase = "steps" /\ phase' = "undo" /\ todo' = undo /\ row' = row
      /\ row.conf \in Configs
  BY DEF StepFails, VerifyFails, Bookkeeping, TypeInv, TypeOK
<1>2. todo' = RecreateRollback(c, row.conf)
  BY <1>1 DEF Rebuilding, Changing
<1>3. /\ Remaining(RecreateRollback(c, row.conf), RecreateRollback(c, row.conf))
      /\ Len(RecreateRollback(c, row.conf)) = 9
  BY <1>1, RecreateRollbackPlan, RemainingWhole
<1>4. \A g : UnitCourse(9, 6, c, g)
  BY DEF UnitCourse
<1> QED
  BY <1>1, <1>2, <1>3, <1>4 DEF Rebuilding, Changing

LEMMA MendMoves ==
  ASSUME TypeInv, TypeInv', todo \in Seq(InPlaceSteps), NEW c \in Configs,
         Mended(phase, todo, undo, c, host), NEW h, StepDone \/ StepTolerated(h)
  PROVE  Mended(phase', todo', undo', c, host')
<1>1. /\ phase' = phase /\ undo' = undo /\ todo' = Tail(todo) /\ todo # << >>
      /\ host \in Hosts /\ host' \in Hosts /\ Head(todo) \in InPlaceSteps
      /\ Head(todo) \in Steps
  BY HeadTailProperties DEF StepDone, StepTolerated, Fails, TypeInv, TypeOK, InPlaceSteps
<1>2. CASE StepDone
  <2>1. Possible(Head(todo), host) /\ host' = Effect(Head(todo), host)
    BY <1>2 DEF StepDone, Succeeds
  <2>2. After(Head(todo), host, host')
    BY <1>1, <2>1, EffectFields
  <2> QED
    BY <1>1, <2>2, MendedStep
<1>3. CASE StepTolerated(h)
  <2>1. Head(todo).tolerate /\ (host' = host \/ host' \in FaultyEffects(Head(todo), host))
    BY <1>3 DEF StepTolerated, Fails
  <2>2. /\ host'.link = host.link /\ host'.unit = host.unit
        /\ (host'.enabled <=> host.enabled) /\ (host'.active <=> host.active)
    BY <1>1, <2>1, InPlaceFault
  <2> QED
    BY <1>1, <2>1, <2>2, MendedStep
<1> QED
  BY <1>2, <1>3

LEMMA MendTurns ==
  ASSUME TypeInv, todo \in Seq(InPlaceSteps), NEW c \in Configs,
         Mended(phase, todo, undo, c, host), NEW h, StepFails(h) \/ VerifyFails
  PROVE  Mended(phase', todo', undo', c, host')
<1>1. phase = "steps" /\ phase' = "undo" /\ todo' = undo /\ host \in Hosts
  BY DEF StepFails, VerifyFails, TypeInv, TypeOK
<1>2. /\ host'.link = host.link /\ host'.unit = host.unit
      /\ (host'.enabled <=> host.enabled) /\ (host'.active <=> host.active)
  <2>1. CASE VerifyFails
    BY <2>1 DEF VerifyFails
  <2>2. CASE StepFails(h)
    <3>1. /\ todo # << >>
          /\ host' = host \/ host' \in FaultyEffects(Head(todo), host)
      BY <2>2 DEF StepFails, Fails
    <3>2. Head(todo) \in InPlaceSteps
      BY <3>1, HeadTailProperties
    <3> QED
      BY <1>1, <3>1, <3>2, InPlaceFault
  <2> QED
    BY <2>1, <2>2
<1> QED
  BY <1>1, <1>2, MendedTurns

LEMMA RestoreBegins ==
  ASSUME TypeInv, NEW c \in Configs, NEW e \in BOOLEAN,
         UpdateInPlace(c, e) \/ UpdateRecreate(c, e)
  PROVE  RestoreInv'
<1>1. /\ row \in Rows /\ row.conf \in Configs /\ row.enabled \in BOOLEAN
      /\ phase' = "guard" /\ host' = host /\ last'.from = row /\ last'.before = host
      /\ row'.conf = c
  <2>1. row \in Rows /\ row.conf \in Configs
    BY DEF UpdateInPlace, UpdateRecreate, TypeInv, TypeOK
  <2>2. row.enabled \in BOOLEAN /\ [row EXCEPT !.conf = c, !.enabled = e].conf = c
    BY <2>1 DEF Rows
  <2>3. /\ phase' = "guard" /\ host' = host /\ last'.from = row /\ last'.before = host
        /\ row' = [row EXCEPT !.conf = c, !.enabled = e]
    BY DEF UpdateInPlace, UpdateRecreate, Begin
  <2> QED
    BY <2>1, <2>2, <2>3
<1>2. CASE UpdateRecreate(c, e)
  <2>1. undo' = RecreateRollback(row.conf, c) /\ RequiresRecreate(row.conf, c)
    BY <1>2 DEF UpdateRecreate, Begin
  <2> QED
    BY <1>1, <2>1 DEF RestoreInv, Rebuilding
<1>3. CASE UpdateInPlace(c, e)
  <2>1. /\ ~RequiresRecreate(row.conf, c)
        /\ todo' = PlanInPlace(row.conf, row.enabled, c, e)
        /\ undo' = InPlaceRollback(row.conf, row.enabled, c, e)
    BY <1>3 DEF UpdateInPlace, Begin
  <2>2. ASSUME row.conf.persist = "systemd", row.enabled, Healthy(host, row.conf)
        PROVE  Mended("guard", todo', undo', row.conf, host')
    BY <1>1, <2>1, <2>2, MendedBegins
  <2> QED
    BY <1>1, <2>1, <2>2 DEF RestoreInv
<1> QED
  BY <1>2, <1>3

LEMMA RestoreStep ==
  TypeInv /\ Bookkeeping /\ InPlaceInv /\ RestoreInv /\ [Next]_vars => RestoreInv'
<1> SUFFICES ASSUME TypeInv, Bookkeeping, InPlaceInv, RestoreInv, [Next]_vars
             PROVE  RestoreInv'
  OBVIOUS
<1>1. TypeInv'
  BY StepTyped
<1>2. op' # "update" => RestoreInv'
  BY DEF RestoreInv
<1>3. CASE \E c \in Configs, e \in EnabledInputs : UpdateInPlace(c, e) \/ UpdateRecreate(c, e)
  BY <1>3, RestoreBegins, BoundsAssumption
<1>4. CASE (\E c \in Configs, e \in EnabledInputs : Create(c, e))
           \/ Reapply \/ UpRebuilds \/ Up \/ Down \/ Delete
  BY <1>2, <1>4 DEF Create, Reapply, UpRebuilds, Up, Down, Delete, Begin
<1>5. CASE GuardRefuses \/ Commit \/ FinishDown \/ FinishDelete \/ UndoDone \/ Crash
           \/ (Reboot /\ phase # "idle")
  BY <1>2, <1>5 DEF GuardRefuses, Commit, FinishDown, FinishDelete, UndoDone, Crash, Reboot, End
<1>6. CASE Drift \/ (Reboot /\ phase = "idle")
  BY <1>2, <1>6 DEF Drift, Reboot, Bookkeeping
<1>7. CASE \E h : StepGivesUp(h) \/ UndoFails(h)
  BY <1>2, <1>7 DEF StepGivesUp, UndoFails, End
<1>8. CASE Disconnect \/ UNCHANGED vars
  BY <1>8 DEF Disconnect, vars, RestoreInv, Rebuilding
<1>9. CASE GuardPasses
  <2>1. /\ phase = "guard" /\ phase' = "steps" /\ row' = row /\ op' = op /\ last' = last
        /\ todo' = todo /\ undo' = undo /\ host' = host
    BY <1>9 DEF GuardPasses
  <2>2. \A c : Mended("guard", todo, undo, c, host) => Mended("steps", todo, undo, c, host)
    BY DEF Mended, Mends
  <2> QED
    BY <2>1, <2>2 DEF RestoreInv, Rebuilding, Changing
<1>10. ASSUME NEW h, StepDone \/ StepTolerated(h) \/ StepFails(h) \/ VerifyFails,
              op' = "update"
       PROVE  RestoreInv'
  <2>1. /\ op = "update" /\ row' = row /\ last'.from = last.from /\ last'.before = last.before
    <3>1. CASE StepDone
      BY <1>10, <3>1 DEF StepDone
    <3>2. CASE VerifyFails
      BY <1>10, <3>2 DEF VerifyFails, TypeInv, Histories
    <3>3. CASE StepTolerated(h) \/ StepFails(h)
      BY <1>10, <3>3, SameOperation
    <3> QED
      BY <1>10, <3>1, <3>2, <3>3
  <2>2. PICK c \in Configs : c = last.from.conf
    BY <2>1 DEF RestoreInv
  <2>3. ASSUME RequiresRecreate(c, row.conf), c.persist = "systemd", row.conf.persist = "systemd"
        PROVE  Rebuilding(c)'
    <3>1. Rebuilding(c)
      BY <2>1, <2>2, <2>3 DEF RestoreInv
    <3> QED
      BY <1>10, <2>1, <2>3, <3>1, RebuildMoves, RebuildTurns
  <2>4. ASSUME ~RequiresRecreate(c, row.conf), c.persist = "systemd", last.from.enabled,
               Healthy(last.before, c)
        PROVE  Mended(phase', todo', undo', c, host')
    <3>1. Mended(phase, todo, undo, c, host) /\ todo \in Seq(InPlaceSteps)
      BY <2>1, <2>2, <2>4 DEF RestoreInv, InPlaceInv
    <3> QED
      BY <1>1, <1>10, <3>1, MendMoves, MendTurns
  <2>5. last.from.enabled \in BOOLEAN
    BY <2>1 DEF RestoreInv
  <2> QED
    BY <2>1, <2>2, <2>3, <2>4, <2>5 DEF RestoreInv, Rebuilding
<1>11. CASE StepDone \/ VerifyFails \/ \E h : StepTolerated(h) \/ StepFails(h)
  BY <1>2, <1>10, <1>11
<1> QED
  BY <1>3, <1>4, <1>5, <1>6, <1>7, <1>8, <1>9, <1>11 DEF Next, FailedStep

\* What the inverse plan ends with.
LEMMA RestoredAtTheEnd ==
  ASSUME TypeInv, Bookkeeping, RestoreInv, [Next]_vars,
         phase = "undo", last'.op = "update", last'.verdict = "rolledBack",
         last.from.conf.persist = "systemd", row.conf.persist = "systemd", ~last.undoDisturbed,
         last.from.enabled, Healthy(last.before, last.from.conf)
  PROVE  Healthy(host', last.from.conf)
<1>1. last.verdict = "running"
  BY DEF Bookkeeping
<1>2. UndoDone
  <2>1. CASE GuardPasses \/ StepDone \/ Disconnect \/ UNCHANGED vars
    BY <1>1, <2>1 DEF GuardPasses, StepDone, Disconnect, vars
  <2>2. ASSUME NEW v \in {"refused", "error", "applied", "done", "crashed"}, End(v) PROVE FALSE
    BY <2>2, EndOf
  <2>3. CASE GuardRefuses \/ Commit \/ FinishDown \/ FinishDelete \/ Crash \/ Reboot \/ Drift
             \/ VerifyFails
    BY <2>2, <2>3 DEF GuardRefuses, Commit, FinishDown, FinishDelete, Crash, Reboot, Drift,
                      VerifyFails
  <2>4. ASSUME NEW h, StepTolerated(h) \/ StepFails(h) PROVE FALSE
    BY <1>1, <2>4, SameOperation
  <2>5. ASSUME NEW h, StepGivesUp(h) PROVE FALSE
    BY <2>5 DEF StepGivesUp
  <2>6. ASSUME NEW h, UndoFails(h) PROVE FALSE
    <3>1. Disturb(last) \in Histories
      BY DEF Disturb, TypeInv, Histories
    <3> QED
      BY <2>6, <3>1 DEF UndoFails, Histories
  <2>7. ~(Reapply \/ UpRebuilds \/ Up \/ Down \/ Delete)
    BY DEF Reapply, UpRebuilds, Up, Down, Delete, Begin
  <2>8. \A c, e : ~(Create(c, e) \/ UpdateInPlace(c, e) \/ UpdateRecreate(c, e))
    BY DEF Create, UpdateInPlace, UpdateRecreate, Begin
  <2> QED
    BY <2>1, <2>3, <2>4, <2>5, <2>6, <2>7, <2>8 DEF Next, FailedStep
<1>3. todo = << >> /\ host' = host /\ op = "update" /\ host \in Hosts
  BY <1>2, EndOf DEF UndoDone, Bookkeeping, TypeInv, TypeOK
<1>4. PICK c \in Configs : c = last.from.conf
  BY <1>3 DEF RestoreInv
<1>5. CASE RequiresRecreate(c, row.conf)
  <2>1. UnitCourse(0, 6, c, host)
    <3>1. Len(todo) = 0
      BY <1>3, EmptySeq
    <3>2. Rebuilding(c)
      BY <1>3, <1>4, <1>5 DEF RestoreInv
    <3> QED
      BY <3>1, <3>2 DEF Rebuilding
  <2>2. host.active /\ host.link = BuiltLink(c) /\ host.enabled /\ host.unit = c
    BY <2>1 DEF UnitCourse
  <2>3. BuiltLink(c) # None
    BY BuiltTyped, NoneAssumption
  <2> QED
    BY <1>3, <1>4, <2>2, <2>3 DEF Healthy, Matches, BuiltLink
<1>6. CASE ~RequiresRecreate(c, row.conf)
  <2>1. Mended("undo", << >>, undo, c, host)
    BY <1>3, <1>4, <1>6 DEF RestoreInv
  <2> QED
    BY <1>3, <1>4, <2>1, MendedEnds
<1> QED
  BY <1>5, <1>6

\* An update of a running systemd tunnel that was rolled back, no step of the rollback
\* having failed, has put it back: for all configurations, whichever step failed.
THEOREM RollbackIsClean == Spec => RollbackRestores
<1>1. Init => TypeInv /\ Bookkeeping /\ InPlaceInv /\ RestoreInv
  BY InitTyped, BookkeepingInit DEF Init, InPlaceInv, RestoreInv
<1>2. TypeInv /\ Bookkeeping /\ InPlaceInv /\ RestoreInv /\ [Next]_vars =>
        (TypeInv /\ Bookkeeping /\ InPlaceInv /\ RestoreInv)'
  BY StepTyped, BookkeepingStep, InPlaceInvStep, RestoreStep
<1>3. TypeInv /\ Bookkeeping /\ RestoreInv /\ [Next]_vars =>
        [ /\ phase = "undo" /\ last'.op = "update" /\ last'.verdict = "rolledBack"
          /\ last.from.conf.persist = "systemd" /\ row.conf.persist = "systemd"
          /\ ~last.undoDisturbed
          /\ last.from.enabled /\ Healthy(last.before, last.from.conf)
          => Healthy(host', last.from.conf) ]_vars
  BY RestoredAtTheEnd
<1> QED
  BY <1>1, <1>2, <1>3, PTL DEF Spec, RollbackRestores

(***************************************************************************)
(* What was taken away stays away.  With k steps of the plan to go this    *)
(* much of the tunnel is gone already, if none of its steps failed.        *)
(***************************************************************************)
Cleared(k, c, h) ==
  /\ c.persist = "systemd" => /\ k <= 3 => h.link = None
                              /\ k <= 2 => ~h.active
                              /\ k <= 1 => ~h.enabled
                              /\ k = 0 => h.unit = None
  /\ c.persist = "networkd" => /\ k <= 2 => h.network = None
                               /\ k <= 1 => h.netdev = None
  /\ c.persist # "systemd" /\ k = 0 => h.link = None

Removed(k, c, h) ==
  /\ c.persist = "systemd" => /\ k <= 4 => ~h.active
                              /\ k <= 3 => ~h.enabled
                              /\ k <= 2 => h.unit = None
  /\ c.persist = "networkd" => /\ k <= 3 => h.netdev = None
                               /\ k <= 2 => h.network = None

Lowered(k, c, h) ==
  /\ (IF c.persist = "systemd" THEN k <= 1 ELSE k = 0) => h.link = None \/ ~h.link.up
  /\ c.persist = "systemd" /\ k = 0 => ~h.enabled

LEMMA ClearedStep ==
  ASSUME NEW c \in Configs, NEW plan, plan = CreateRollback(c), NEW h \in Hosts
  PROVE  /\ plan \in Seq(Steps) /\ Cleared(Len(plan), c, h)
         /\ \A k \in 1..Len(plan) :
              /\ Possible(At(plan, k), h)
              /\ \A g : Cleared(k, c, h) /\ After(At(plan, k), h, g) => Cleared(k - 1, c, g)
<1>1. plan \in Seq(Steps)
  BY CreateTyped
<1>2. CASE c.persist = "systemd"
  <2>1. /\ Len(plan) = 5 /\ At(plan, 5) = Tolerated("DaemonReload", c)
        /\ At(plan, 4) = Tolerated("LinkDelete", c) /\ At(plan, 3) = Tolerated("UnitStop", c)
        /\ At(plan, 2) = Tolerated("UnitDisable", c) /\ At(plan, 1) = Tolerated("UnitRemove", c)
    BY <1>2 DEF CreateRollback, At
  <2>2. Cleared(5, c, h)
    BY <1>2 DEF Cleared
  <2>3. \A k \in 1..5 : Possible(At(plan, k), h)
    BY <2>1 DEF Possible, Tolerated
  <2>4. ASSUME NEW k \in 1..5, NEW g, Cleared(k, c, h), After(At(plan, k), h, g)
        PROVE  Cleared(k - 1, c, g)
    <3>1. CASE k = 5
      BY <1>2, <3>1 DEF Cleared
    <3>2. CASE k = 4
      <4>1. g.link = None
        BY <2>1, <2>4, <3>2 DEF After, Tolerated
      <4> QED
        BY <1>2, <3>2, <4>1 DEF Cleared
    <3>3. CASE k = 3
      <4>1. /\ g.link = (IF h.active THEN None ELSE h.link)
            /\ ~g.active
        BY <2>1, <2>4, <3>3 DEF After, Tolerated
      <4> QED
        BY <1>2, <2>4, <3>3, <4>1 DEF Cleared
    <3>4. CASE k = 2
      <4>1. g.link = h.link /\ ~g.enabled /\ (g.active => h.active)
        BY <2>1, <2>4, <3>4 DEF After, Tolerated, LinkKinds
      <4> QED
        BY <1>2, <2>4, <3>4, <4>1 DEF Cleared
    <3>5. CASE k = 1
      <4>1. g.link = h.link /\ g.unit = None /\ (g.active => h.active) /\ (g.enabled => h.enabled)
        BY <2>1, <2>4, <3>5 DEF After, Tolerated, LinkKinds
      <4> QED
        BY <1>2, <2>4, <3>5, <4>1 DEF Cleared
    <3> QED
      BY <3>1, <3>2, <3>3, <3>4, <3>5
  <2> QED
    BY <1>1, <2>1, <2>2, <2>3, <2>4
<1>3. CASE c.persist = "networkd"
  <2>1. /\ Len(plan) = 3 /\ At(plan, 3) = Tolerated("NetworkRemove", c)
        /\ At(plan, 2) = Tolerated("NetdevRemove", c) /\ At(plan, 1) = Tolerated("LinkDelete", c)
    BY <1>3 DEF CreateRollback, At
  <2>2. Cleared(3, c, h)
    BY <1>3 DEF Cleared
  <2>3. \A k \in 1..3 : Possible(At(plan, k), h)
    BY <2>1 DEF Possible, Tolerated
  <2>4. ASSUME NEW k \in 1..3, NEW g, Cleared(k, c, h), After(At(plan, k), h, g)
        PROVE  Cleared(k - 1, c, g)
    <3>1. CASE k = 3
      <4>1. g.network = None
        BY <2>1, <2>4, <3>1 DEF After, Tolerated
      <4> QED
        BY <1>3, <3>1, <4>1 DEF Cleared
    <3>2. CASE k = 2
      <4>1. g.netdev = None /\ g.network = h.network
        BY <2>1, <2>4, <3>2 DEF After, Tolerated
      <4> QED
        BY <1>3, <2>4, <3>2, <4>1 DEF Cleared
    <3>3. CASE k = 1
      <4>1. g.link = None /\ g.netdev = h.netdev /\ g.network = h.network
        BY <2>1, <2>4, <3>3 DEF After, Tolerated
      <4> QED
        BY <1>3, <2>4, <3>3, <4>1 DEF Cleared
    <3> QED
      BY <3>1, <3>2, <3>3
  <2> QED
    BY <1>1, <2>1, <2>2, <2>3, <2>4
<1>4. CASE c.persist \notin {"systemd", "networkd"}
  <2>1. Len(plan) = 1 /\ At(plan, 1) = Tolerated("LinkDelete", c)
    BY <1>4 DEF CreateRollback, At
  <2>2. Cleared(1, c, h)
    BY <1>4 DEF Cleared
  <2>3. ASSUME NEW g, After(At(plan, 1), h, g) PROVE Cleared(0, c, g)
    <3>1. g.link = None
      BY <2>1, <2>3 DEF After, Tolerated
    <3> QED
      BY <1>4, <3>1 DEF Cleared
  <2>4. Possible(At(plan, 1), h)
    BY <2>1 DEF Possible, Tolerated
  <2> QED
    BY <1>1, <2>1, <2>2, <2>3, <2>4
<1> QED
  BY <1>2, <1>3, <1>4

LEMMA RemovedStep ==
  ASSUME NEW c \in Configs, NEW plan, plan = PlanDelete(c), NEW h \in Hosts
  PROVE  /\ plan \in Seq(Steps) /\ Removed(Len(plan), c, h)
         /\ \A k \in 1..Len(plan) :
              /\ Possible(At(plan, k), h)
              /\ \A g : Removed(k, c, h) /\ After(At(plan, k), h, g) => Removed(k - 1, c, g)
<1>1. plan \in Seq(Steps)
  BY DeleteTyped
<1>2. CASE c.persist = "systemd"
  <2>1. /\ Len(plan) = 5 /\ At(plan, 5) = Tolerated("UnitStop", c)
        /\ At(plan, 4) = Tolerated("UnitDisable", c) /\ At(plan, 3) = Tolerated("UnitRemove", c)
        /\ At(plan, 2) = Tolerated("DaemonReload", c) /\ At(plan, 1) = Tolerated("LinkDelete", c)
    BY <1>2 DEF PlanDelete, At
  <2>2. Removed(5, c, h)
    BY <1>2 DEF Removed
  <2>3. \A k \in 1..5 : Possible(At(plan, k), h)
    BY <2>1 DEF Possible, Tolerated
  <2>4. ASSUME NEW k \in 1..5, NEW g, Removed(k, c, h), After(At(plan, k), h, g)
        PROVE  Removed(k - 1, c, g)
    <3>1. CASE k = 5
      <4>1. ~g.active
        BY <2>1, <2>4, <3>1 DEF After, Tolerated
      <4> QED
        BY <1>2, <3>1, <4>1 DEF Removed
    <3>2. CASE k = 4
      <4>1. (g.active => h.active) /\ ~g.enabled
        BY <2>1, <2>4, <3>2 DEF After, Tolerated
      <4> QED
        BY <1>2, <2>4, <3>2, <4>1 DEF Removed
    <3>3. CASE k = 3
      <4>1. (g.active => h.active) /\ (g.enabled => h.enabled) /\ g.unit = None
        BY <2>1, <2>4, <3>3 DEF After, Tolerated
      <4> QED
        BY <1>2, <2>4, <3>3, <4>1 DEF Removed
    <3>4. CASE k \in {1, 2}
      <4>1. (g.active => h.active) /\ (g.enabled => h.enabled) /\ g.unit = h.unit
        BY <2>1, <2>4, <3>4 DEF After, Tolerated
      <4> QED
        BY <1>2, <2>4, <3>4, <4>1 DEF Removed
    <3> QED
      BY <3>1, <3>2, <3>3, <3>4
  <2> QED
    BY <1>1, <2>1, <2>2, <2>3, <2>4
<1>3. CASE c.persist = "networkd"
  <2>1. /\ Len(plan) = 4 /\ At(plan, 4) = Tolerated("NetdevRemove", c)
        /\ At(plan, 3) = Tolerated("NetworkRemove", c)
        /\ At(plan, 2) = Tolerated("NetworkdReload", c) /\ At(plan, 1) = Tolerated("LinkDelete", c)
    BY <1>3 DEF PlanDelete, At
  <2>2. Removed(4, c, h)
    BY <1>3 DEF Removed
  <2>3. \A k \in 1..4 : Possible(At(plan, k), h)
    BY <2>1 DEF Possible, Tolerated
  <2>4. ASSUME NEW k \in 1..4, NEW g, Removed(k, c, h), After(At(plan, k), h, g)
        PROVE  Removed(k - 1, c, g)
    <3>1. CASE k = 4
      <4>1. g.netdev = None
        BY <2>1, <2>4, <3>1 DEF After, Tolerated
      <4> QED
        BY <1>3, <3>1, <4>1 DEF Removed
    <3>2. CASE k = 3
      <4>1. g.netdev = h.netdev /\ g.network = None
        BY <2>1, <2>4, <3>2 DEF After, Tolerated
      <4> QED
        BY <1>3, <2>4, <3>2, <4>1 DEF Removed
    <3>3. CASE k \in {1, 2}
      <4>1. g.netdev = h.netdev /\ g.network = h.network
        BY <2>1, <2>4, <3>3 DEF After, Tolerated
      <4> QED
        BY <1>3, <2>4, <3>3, <4>1 DEF Removed
    <3> QED
      BY <3>1, <3>2, <3>3
  <2> QED
    BY <1>1, <2>1, <2>2, <2>3, <2>4
<1>4. CASE c.persist \notin {"systemd", "networkd"}
  <2>1. Len(plan) = 1 /\ At(plan, 1) = Tolerated("LinkDelete", c)
    BY <1>4 DEF PlanDelete, At
  <2>2. \A k, g : Removed(k, c, g)
    BY <1>4 DEF Removed
  <2>3. Possible(At(plan, 1), h)
    BY <2>1 DEF Possible, Tolerated
  <2> QED
    BY <1>1, <2>1, <2>2, <2>3
<1> QED
  BY <1>2, <1>3, <1>4

LEMMA LoweredStep ==
  ASSUME NEW c \in Configs, NEW plan, plan = PlanDown(c), NEW h \in Hosts
  PROVE  /\ plan \in Seq(Steps) /\ Lowered(Len(plan), c, h)
         /\ \A k \in 1..Len(plan) :
              /\ At(plan, k).tolerate => Possible(At(plan, k), h)
              /\ \A g : Lowered(k, c, h) /\ After(At(plan, k), h, g) => Lowered(k - 1, c, g)
<1>1. plan \in Seq(Steps)
  BY UpDownTyped
<1>2. ASSUME NEW s \in Steps, NEW g, s.kind = "LinkDown", After(s, h, g)
      PROVE  ~g.link.up
  <2>1. h.link \in Links /\ g.link = [h.link EXCEPT !.up = FALSE]
    BY <1>2 DEF After, Hosts
  <2> QED
    BY <2>1 DEF Links
<1>3. Do("LinkDown", c) \in Steps
  BY StepsTyped DEF Kinds
<1>4. CASE c.persist = "systemd"
  <2>1. plan = << Do("LinkDown", c) >> \o << Tolerated("UnitDisable", c) >>
    BY <1>4 DEF PlanDown, When
  <2>2. /\ Len(plan) = 2 /\ At(plan, 2) = Do("LinkDown", c)
        /\ At(plan, 1) = Tolerated("UnitDisable", c)
    <3>1. ASSUME NEW a \in Steps, NEW b \in Steps, plan = << a >> \o << b >>
          PROVE  Len(plan) = 2 /\ plan[1] = a /\ plan[2] = b
      BY <3>1, ConcatProperties
    <3>2. Tolerated("UnitDisable", c) \in Steps
      BY StepsTyped DEF Kinds, ExecKinds
    <3>3. Len(plan) = 2 /\ plan[1] = Do("LinkDown", c) /\ plan[2] = Tolerated("UnitDisable", c)
      BY <1>3, <2>1, <3>1, <3>2
    <3> QED
      BY <3>3 DEF At
  <2>3. Lowered(2, c, h)
    BY <1>4 DEF Lowered
  <2>4. ASSUME NEW g, After(At(plan, 2), h, g) PROVE Lowered(1, c, g)
    <3>1. ~g.link.up
      BY <1>2, <1>3, <2>2, <2>4 DEF Do
    <3> QED
      BY <1>4, <3>1 DEF Lowered
  <2>5. ASSUME NEW g, Lowered(1, c, h), After(At(plan, 1), h, g) PROVE Lowered(0, c, g)
    <3>1. g.link = h.link /\ ~g.enabled
      BY <2>2, <2>5 DEF After, Tolerated, LinkKinds
    <3> QED
      BY <1>4, <2>5, <3>1 DEF Lowered
  <2>6. Possible(At(plan, 1), h) /\ ~At(plan, 2).tolerate
    BY <2>2 DEF Possible, Tolerated, Do
  <2> QED
    BY <1>1, <2>2, <2>3, <2>4, <2>5, <2>6
<1>5. CASE c.persist # "systemd"
  <2>1. plan = << Do("LinkDown", c) >>
    BY <1>5 DEF PlanDown, When
  <2>2. Len(plan) = 1 /\ At(plan, 1) = Do("LinkDown", c)
    BY <2>1 DEF At
  <2>3. Lowered(1, c, h)
    BY <1>5 DEF Lowered
  <2>4. ASSUME NEW g, After(At(plan, 1), h, g) PROVE Lowered(0, c, g)
    <3>1. ~g.link.up
      BY <1>2, <1>3, <2>2, <2>4 DEF Do
    <3> QED
      BY <1>5, <3>1 DEF Lowered
  <2>5. ~At(plan, 1).tolerate
    BY <2>2 DEF Do
  <2> QED
    BY <1>1, <2>2, <2>3, <2>4, <2>5
<1> QED
  BY <1>4, <1>5

\* The three plans that only take something away, and how far they have come.
TakeAway(name, c) ==
  IF name = "create" THEN CreateRollback(c)
  ELSE IF name = "delete" THEN PlanDelete(c) ELSE PlanDown(c)

Taken(name, k, c, h) ==
  IF name = "create" THEN Cleared(k, c, h)
  ELSE IF name = "delete" THEN Removed(k, c, h) ELSE Lowered(k, c, h)

LEMMA TakenStep ==
  ASSUME NEW name \in {"create", "delete", "down"}, NEW c \in Configs,
         NEW plan, plan = TakeAway(name, c), NEW h \in Hosts
  PROVE  /\ plan \in Seq(Steps) /\ Taken(name, Len(plan), c, h)
         /\ \A k \in 1..Len(plan) :
              /\ At(plan, k).tolerate => Possible(At(plan, k), h)
              /\ \A g : Taken(name, k, c, h) /\ After(At(plan, k), h, g)
                          => Taken(name, k - 1, c, g)
<1>1. CASE name = "create"
  <2>1. plan = CreateRollback(c)
    BY <1>1 DEF TakeAway
  <2> QED
    BY <1>1, <2>1, ClearedStep DEF Taken
<1>2. CASE name = "delete"
  <2>1. plan = PlanDelete(c)
    BY <1>2 DEF TakeAway
  <2> QED
    BY <1>2, <2>1, RemovedStep DEF Taken
<1>3. CASE name = "down"
  <2>1. plan = PlanDown(c)
    BY <1>3 DEF TakeAway
  <2> QED
    BY <1>3, <2>1, LoweredStep DEF Taken
<1> QED
  BY <1>1, <1>2, <1>3

\* Nothing of c's persistence method is there, and no interface but one that the
\* unit or the files of another method keep.
Gone(c, h) ==
  /\ c.persist = "systemd" => h.unit = None /\ ~h.enabled /\ ~h.active
  /\ c.persist = "networkd" => h.netdev = None /\ h.network = None
  /\ h.link # None => h.active \/ h.netdev # None

\* Nothing of c's persistence method brings the interface up.
Low(c, h) ==
  /\ c.persist = "systemd" => ~h.enabled
  /\ h.link # None /\ h.link.up =>
       h.netdev # None \/ (c.persist # "systemd" /\ h.active)

Taking == \/ op = "create" /\ phase = "undo"
          \/ op \in {"delete", "down"} /\ phase \in Changing

\* The plan that takes away has not failed in any step so far.
Clean == IF op = "create" THEN ~last.undoDisturbed ELSE faults = 0 /\ ~cancelled

AwayInv ==
  /\ op = "create" /\ phase \in Changing => undo = CreateRollback(row.conf)
  /\ Taking => /\ Remaining(todo, TakeAway(op, row.conf))
               /\ Clean => Taken(op, Len(todo), row.conf, host)
  /\ phase = "idle" /\ last.op = "create" /\ last.verdict = "rolledBack"
       /\ ~last.undoDisturbed => Gone(row.conf, host)
  /\ phase = "idle" /\ last.op = "delete" /\ last.verdict = "done" /\ faults = 0
       => Gone(row.conf, host)
  /\ takenDown /\ faults = 0 /\ row.conf.persist # "networkd" => Low(row.conf, host)

LEMMA TakingNext ==
  ASSUME TypeInv, Bookkeeping, AwayInv, Taking, todo # << >>
  PROVE  /\ row.conf \in Configs /\ Head(todo) \in Steps /\ host \in Hosts
         /\ Remaining(Tail(todo), TakeAway(op, row.conf))
         /\ Head(todo).tolerate => Possible(Head(todo), host)
         /\ Clean => \A g : After(Head(todo), host, g) =>
                              Taken(op, Len(Tail(todo)), row.conf, g)
<1>1. /\ row.conf \in Configs /\ todo \in Seq(Steps) /\ host \in Hosts
      /\ op \in {"create", "delete", "down"}
  BY DEF TypeInv, TypeOK, Bookkeeping, Changing, Taking
<1>2. PICK plan : plan = TakeAway(op, row.conf)
  OBVIOUS
<1>3. plan \in Seq(Steps)
  BY <1>1, <1>2, TakenStep
<1>4. Remaining(todo, plan) /\ (Clean => Taken(op, Len(todo), row.conf, host))
  BY <1>2 DEF AwayInv
<1>5. /\ Remaining(Tail(todo), plan) /\ Len(Tail(todo)) = Len(todo) - 1
      /\ Len(todo) \in 1..Len(plan) /\ Head(todo) = At(plan, Len(todo))
  BY <1>1, <1>3, <1>4, RemainingTail
<1>6. Head(todo) \in Steps
  BY <1>1, HeadTailProperties
<1>7. /\ At(plan, Len(todo)).tolerate => Possible(At(plan, Len(todo)), host)
      /\ \A g : Taken(op, Len(todo), row.conf, host) /\ After(At(plan, Len(todo)), host, g)
                  => Taken(op, Len(todo) - 1, row.conf, g)
  BY <1>1, <1>2, <1>5, TakenStep
<1> QED
  BY <1>1, <1>2, <1>4, <1>5, <1>6, <1>7

\* Each of these plans begins with everything still to be taken away.
LEMMA TakingWhole ==
  ASSUME NEW name \in {"create", "delete", "down"}, NEW c \in Configs, NEW h \in Hosts,
         NEW plan, plan = TakeAway(name, c)
  PROVE  Remaining(plan, TakeAway(name, c)) /\ Taken(name, Len(plan), c, h)
BY TakenStep, RemainingWhole

LEMMA AwayBegins ==
  ASSUME TypeInv, Bookkeeping, AwayInv, NEW c \in Configs, NEW e \in BOOLEAN,
         \/ Create(c, e) \/ UpdateInPlace(c, e) \/ UpdateRecreate(c, e)
         \/ Reapply \/ UpRebuilds \/ Up \/ Down \/ Delete
  PROVE  AwayInv'
<1>1. ASSUME NEW r, NEW name \in {"update", "reapply", "upRebuild", "up"},
             NEW s, NEW t, Begin(name, r, s, t)
      PROVE  AwayInv'
  <2>1. phase' = "guard" /\ op' = name /\ ~takenDown'
    BY <1>1 DEF Begin
  <2> QED
    BY <2>1 DEF AwayInv, Taking, Changing
<1>2. CASE Create(c, e)
  <2>1. /\ phase' = "guard" /\ op' = "create" /\ ~takenDown' /\ undo' = CreateRollback(c)
        /\ row'.conf = c
    BY <1>2 DEF Create, Begin
  <2> QED
    BY <2>1 DEF AwayInv, Taking, Changing
<1>3. CASE Delete \/ Down
  <2>1. row.live /\ row.conf \in Configs /\ host \in Hosts
    BY <1>3 DEF Delete, Down, TypeInv, TypeOK
  <2>2. /\ phase' = "guard" /\ ~takenDown' /\ row' = row /\ host' = host
        /\ op' \in {"delete", "down"} /\ todo' = TakeAway(op', row.conf)
    <3>1. CASE Delete
      BY <3>1 DEF Delete, Begin, TakeAway
    <3>2. CASE Down
      BY <3>2 DEF Down, Begin, TakeAway
    <3> QED
      BY <1>3, <3>1, <3>2
  <2>3. Remaining(todo', TakeAway(op', row.conf)) /\ Taken(op', Len(todo'), row.conf, host)
    BY <2>1, <2>2, TakingWhole
  <2> QED
    BY <2>1, <2>2, <2>3 DEF AwayInv, Taking, Changing
<1> QED
  BY <1>1, <1>2, <1>3 DEF UpdateInPlace, UpdateRecreate, Reapply, UpRebuilds, Up

\* An operation that ended in none of the three ways the invariant speaks of.
LEMMA AwayEnds ==
  ASSUME TypeInv, Bookkeeping, NEW v \in Verdicts, End(v), takenDown' = FALSE,
         last.op = "create" => v # "rolledBack",
         last.op = "delete" => v # "done"
  PROVE  AwayInv'
BY EndOf DEF AwayInv, Taking, Changing

\* A reboot and what somebody does to the host bring nothing back.
Rebooted(h, g) ==
  /\ g.link # None => (h.enabled /\ h.unit # None) \/ h.netdev # None
  /\ g.unit = h.unit /\ (g.enabled <=> h.enabled) /\ (g.active <=> h.enabled /\ h.unit # None)
  /\ g.netdev = h.netdev /\ g.network = h.network

LEMMA RebootFields ==
  ASSUME TypeInv, Reboot
  PROVE  Rebooted(host, host')
<1>1. PICK l \in BootLinks(host) :
        host' = [host EXCEPT !.link = l, !.loaded = host.unit,
                             !.active = host.enabled /\ host.unit # None]
  BY DEF Reboot
<1>2. /\ host'.link = l /\ host'.unit = host.unit /\ host'.enabled = host.enabled
      /\ (host'.active <=> host.enabled /\ host.unit # None)
      /\ host'.netdev = host.netdev /\ host'.network = host.network
  BY <1>1 DEF TypeInv, TypeOK, Hosts
<1>3. l # None => (host.enabled /\ host.unit # None) \/ host.netdev # None
  BY <1>1 DEF BootLinks
<1> QED
  BY <1>2, <1>3 DEF Rebooted

LEMMA GoneStays ==
  ASSUME NEW c, NEW h \in Hosts, NEW g, Rebooted(h, g) \/ g \in DriftedHosts(h), Gone(c, h)
  PROVE  Gone(c, g)
<1>1. CASE Rebooted(h, g)
  BY <1>1 DEF Rebooted, Gone
<1>2. CASE g \in DriftedHosts(h)
  <2>1. /\ g.netdev = h.netdev /\ g.network = h.network
        /\ g.enabled => h.enabled
        /\ g.active => h.active
        /\ g.unit \in {h.unit, None}
        /\ g.link # None => h.link # None /\ (g.active <=> h.active)
    BY <1>2 DEF DriftedHosts, Hosts
  <2> QED
    BY <2>1 DEF Gone
<1> QED
  BY <1>1, <1>2

LEMMA LowStays ==
  ASSUME NEW c, NEW h, NEW g, Rebooted(h, g), Low(c, h)
  PROVE  Low(c, g)
BY DEF Rebooted, Low

\* A step of such a plan that fails does so for a reason of its own.
LEMMA TakingFails ==
  ASSUME TypeInv, Bookkeeping, AwayInv, Taking, NEW h, StepTolerated(h)
  PROVE  ~Clean'
<1>1. /\ todo # << >> /\ Head(todo).tolerate /\ op' = op /\ last' = Disturb(last)
      /\ cancelled' = cancelled /\ faults \in Nat /\ last \in Histories
      /\ ~Succeeds(Head(todo)) \/ (Succeeds(Head(todo)) /\ faults' = faults + 1)
  BY BoundsAssumption DEF StepTolerated, Fails, TypeInv, TypeOK
<1>2. ~Succeeds(Head(todo)) => cancelled
  BY <1>1, TakingNext DEF Succeeds
<1>3. CASE op = "create"
  <2>1. phase = "undo"
    BY <1>3 DEF Taking
  <2>2. last'.undoDisturbed
    BY <1>1, <1>2, <2>1 DEF Disturb, Histories
  <2> QED
    BY <1>1, <1>3, <2>2 DEF Clean
<1>4. CASE op # "create"
  BY <1>1, <1>2, <1>4 DEF Clean
<1> QED
  BY <1>3, <1>4

LEMMA AwayStep == TypeInv /\ Bookkeeping /\ AwayInv /\ [Next]_vars => AwayInv'
<1> SUFFICES ASSUME TypeInv, Bookkeeping, AwayInv, [Next]_vars PROVE AwayInv'
  OBVIOUS
<1>1. CASE \E c \in Configs, e \in EnabledInputs :
             Create(c, e) \/ UpdateInPlace(c, e) \/ UpdateRecreate(c, e)
  BY <1>1, AwayBegins, BoundsAssumption
<1>2. CASE Reapply \/ UpRebuilds \/ Up \/ Down \/ Delete
  <2>1. row.conf \in Configs
    BY <1>2 DEF Reapply, UpRebuilds, Up, Down, Delete, TypeInv, TypeOK
  <2> QED
    BY <1>2, <2>1, AwayBegins
<1>3. CASE GuardPasses
  BY <1>3 DEF GuardPasses, AwayInv, Taking, Clean, Changing, Bookkeeping
<1>4. CASE UNCHANGED vars
  BY <1>4 DEF vars, AwayInv, Taking, Clean
<1>5. CASE Disconnect
  <2>1. /\ cancelled' /\ UNCHANGED <<row, host, op, phase, todo, undo, faults, takenDown, last>>
    BY <1>5 DEF Disconnect
  <2> QED
    BY <2>1 DEF AwayInv, Taking, Clean
<1>6. CASE Drift
  <2>1. /\ phase' = "idle" /\ phase = "idle" /\ last' = last /\ row' = row /\ faults' = faults
        /\ ~takenDown' /\ op' = "none" /\ host \in Hosts /\ host' \in DriftedHosts(host)
    BY <1>6 DEF Drift, Bookkeeping, TypeInv, TypeOK
  <2>2. Gone(row.conf, host) => Gone(row.conf, host')
    BY <2>1, GoneStays
  <2> QED
    BY <2>1, <2>2 DEF AwayInv, Taking, Changing
<1>7. CASE Reboot /\ phase = "idle"
  <2>1. /\ phase' = "idle" /\ last' = last /\ row' = row /\ faults' = faults
        /\ takenDown' = takenDown /\ op' = "none" /\ host \in Hosts
    BY <1>7 DEF Reboot, Bookkeeping, TypeInv, TypeOK
  <2>2. Rebooted(host, host')
    BY <1>7, RebootFields
  <2>3. Gone(row.conf, host) => Gone(row.conf, host')
    BY <2>1, <2>2, GoneStays
  <2>4. Low(row.conf, host) => Low(row.conf, host')
    BY <2>2, LowStays
  <2> QED
    BY <1>7, <2>1, <2>3, <2>4 DEF AwayInv, Taking, Changing
<1>8. ASSUME NEW v \in {"refused", "error", "applied", "crashed"}, End(v),
             takenDown' = takenDown, phase # "idle"
      PROVE  AwayInv'
  <2>1. takenDown' = FALSE
    BY <1>8 DEF Bookkeeping, TypeInv, TypeOK
  <2> QED
    BY <1>8, <2>1, AwayEnds DEF Verdicts
<1>9. CASE GuardRefuses \/ Commit \/ Crash \/ (Reboot /\ phase # "idle")
  BY <1>8, <1>9 DEF GuardRefuses, Commit, Crash, Reboot
<1>10. CASE FinishDown
  <2>1. /\ Finished /\ op = "down" /\ Taking /\ host' = host /\ faults' = faults
        /\ takenDown' = ~cancelled /\ last.op = "down" /\ row \in Rows
        /\ row'.conf = row.conf
        /\ cancelled \in BOOLEAN
    BY <1>10 DEF FinishDown, Bookkeeping, Taking, Changing, TypeInv, TypeOK, Rows
  <2>2. phase' = "idle" /\ op' = "none" /\ last'.op = "down"
    BY <1>10, <2>1, EndOf DEF FinishDown
  <2>3. ASSUME ~cancelled, faults = 0 PROVE Low(row.conf, host)
    <3>1. Clean
      BY <2>1, <2>3 DEF Clean
    <3>2. Len(todo) = 0
      BY <2>1, EmptySeq
    <3>3. Lowered(0, row.conf, host)
      BY <2>1, <3>1, <3>2 DEF AwayInv, Taken
    <3> QED
      BY <3>3 DEF Lowered, Low
  <2> QED
    BY <2>1, <2>2, <2>3 DEF AwayInv, Taking, Changing
<1>11. CASE FinishDelete
  <2>1. /\ Finished /\ op = "delete" /\ Taking /\ host' = host /\ faults' = faults
        /\ takenDown' = FALSE /\ last.op = "delete" /\ row \in Rows
        /\ row'.conf = row.conf
        /\ \/ ~cancelled /\ host.link = None /\ End("done")
           \/ End("error")
    BY <1>11 DEF FinishDelete, Bookkeeping, Taking, Changing, TypeInv, TypeOK, Rows
  <2>2. CASE End("error")
    BY <2>1, <2>2, AwayEnds DEF Verdicts
  <2>3. CASE ~cancelled /\ host.link = None /\ End("done")
    <3>1. phase' = "idle" /\ op' = "none" /\ last'.op = "delete"
      BY <2>1, <2>3, EndOf
    <3>2. ASSUME faults = 0 PROVE Gone(row.conf, host)
      <4>1. Clean
        BY <2>1, <2>3, <3>2 DEF Clean
      <4>2. Len(todo) = 0
        BY <2>1, EmptySeq
      <4>3. Removed(0, row.conf, host)
        BY <2>1, <4>1, <4>2 DEF AwayInv, Taken
      <4> QED
        BY <2>3, <4>3 DEF Removed, Gone
    <3> QED
      BY <2>1, <3>1, <3>2 DEF AwayInv, Taking, Changing
  <2> QED
    BY <2>1, <2>2, <2>3
<1>12. CASE UndoDone
  <2>1. /\ phase = "undo" /\ todo = << >> /\ host' = host /\ faults' = faults
        /\ ~takenDown' /\ last.op = op /\ row \in Rows /\ row'.conf = row.conf
        /\ op \in RunOps
    BY <1>12 DEF UndoDone, SetApplyStatus, Bookkeeping, TypeInv, TypeOK, Rows
  <2>2. /\ phase' = "idle" /\ op' = "none" /\ last'.op = op
        /\ last'.undoDisturbed = last.undoDisturbed
    BY <1>12, <2>1, EndOf DEF UndoDone
  <2>3. ASSUME op = "create", ~last.undoDisturbed PROVE Gone(row.conf, host)
    <3>1. Taking /\ Clean
      BY <2>1, <2>3 DEF Taking, Clean
    <3>2. Len(todo) = 0
      BY <2>1, EmptySeq
    <3>3. Cleared(0, row.conf, host)
      BY <2>3, <3>1, <3>2 DEF AwayInv, Taken
    <3> QED
      BY <3>3 DEF Cleared, Gone
  <2> QED
    BY <2>1, <2>2, <2>3 DEF AwayInv, Taking, Changing, RunOps
<1>13. CASE StepDone
  <2>1. /\ todo' = Tail(todo) /\ row' = row /\ op' = op /\ phase' = phase /\ last' = last
        /\ undo' = undo /\ cancelled' = cancelled /\ faults' = faults /\ takenDown' = takenDown
        /\ todo # << >> /\ phase \in {"steps", "undo"}
        /\ Possible(Head(todo), host) /\ host' = Effect(Head(todo), host)
    BY <1>13 DEF StepDone, Succeeds
  <2>2. ASSUME Taking
        PROVE  /\ Remaining(todo', TakeAway(op, row.conf))
               /\ Clean => Taken(op, Len(todo'), row.conf, host')
    <3>1. Head(todo) \in Steps /\ host \in Hosts
      BY <2>1, <2>2, TakingNext
    <3>2. After(Head(todo), host, host')
      BY <2>1, <3>1, EffectFields
    <3> QED
      BY <2>1, <2>2, <3>2, TakingNext
  <2>3. (Taking' <=> Taking) /\ (Clean' <=> Clean)
    BY <2>1 DEF Taking, Clean
  <2>4. ~takenDown
    BY <2>1 DEF Bookkeeping
  <2> QED
    BY <2>1, <2>2, <2>3, <2>4 DEF AwayInv
<1>14. ASSUME NEW h, StepTolerated(h) PROVE AwayInv'
  <2>1. /\ todo' = Tail(todo) /\ row' = row /\ op' = op /\ phase' = phase
        /\ undo' = undo /\ takenDown' = takenDown /\ todo # << >>
        /\ phase \in {"steps", "undo"}
    BY <1>14 DEF StepTolerated, Fails
  <2>2. (Taking' <=> Taking) /\ ~takenDown
    BY <2>1 DEF Taking, Bookkeeping
  <2>3. Taking => Remaining(todo', TakeAway(op, row.conf)) /\ ~Clean'
    BY <1>14, <2>1, TakingNext, TakingFails
  <2> QED
    BY <2>1, <2>2, <2>3 DEF AwayInv
<1>15. ASSUME NEW h, StepFails(h) \/ VerifyFails PROVE AwayInv'
  <2>1. /\ phase = "steps" /\ phase' = "undo" /\ op' = op /\ row' = row /\ todo' = undo
        /\ takenDown' = takenDown /\ op \in RunOps
    BY <1>15 DEF StepFails, VerifyFails, Fails
  <2>2. ~takenDown /\ row.conf \in Configs /\ host' \in Hosts
    BY <2>1, StepTyped DEF Bookkeeping, TypeInv, TypeOK
  <2>3. ASSUME op = "create"
        PROVE  /\ Remaining(todo', TakeAway(op, row.conf))
               /\ Taken(op, Len(todo'), row.conf, host')
    <3>1. todo' = TakeAway(op, row.conf)
      BY <2>1, <2>3 DEF AwayInv, Changing, TakeAway
    <3> QED
      BY <2>2, <2>3, <3>1, TakingWhole
  <2> QED
    BY <2>1, <2>2, <2>3 DEF AwayInv, Taking, Changing, RunOps
<1>16. ASSUME NEW h, StepGivesUp(h) PROVE AwayInv'
  BY <1>8, <1>16 DEF StepGivesUp
<1>17. ASSUME NEW h, UndoFails(h) PROVE AwayInv'
  <2>1. /\ phase' = "idle" /\ op' = "none" /\ ~takenDown'
    BY <1>17 DEF UndoFails, Bookkeeping
  <2>2. last'.verdict = "inconsistent"
    <3>1. Fails(h)
      BY <1>17 DEF UndoFails
    <3>2. Disturb(last) \in Histories
      BY <3>1, FailsTyped
    <3> QED
      BY <1>17, <3>2 DEF UndoFails, Histories
  <2> QED
    BY <2>1, <2>2 DEF AwayInv, Taking, Changing
<1> QED
  BY <1>1, <1>2, <1>3, <1>4, <1>5, <1>6, <1>7, <1>9, <1>10, <1>11, <1>12, <1>13, <1>14,
     <1>15, <1>16, <1>17 DEF Next, FailedStep

\* What a rolled back create, a delete or a down took away is gone and comes back by no
\* reboot: for all configurations, plans and hosts.
THEOREM NothingComesBack == Spec => []TakenAwayStaysAway
<1>1. Init => TypeInv /\ Bookkeeping /\ AwayInv
  BY InitTyped, BookkeepingInit DEF Init, AwayInv, Taking, Changing, NothingYet
<1>2. TypeInv /\ Bookkeeping /\ AwayInv /\ [Next]_vars => (TypeInv /\ Bookkeeping /\ AwayInv)'
  BY StepTyped, BookkeepingStep, AwayStep
<1>3. TypeInv /\ AwayInv => TakenAwayStaysAway
  <2> SUFFICES ASSUME TypeInv, AwayInv PROVE TakenAwayStaysAway
    OBVIOUS
  <2>1. ASSUME Gone(row.conf, host), ~Leftover(row.conf)
        PROVE  [host EXCEPT !.loaded = None] = NoHost
    <3>1. /\ host.unit = None /\ ~host.enabled /\ ~host.active
          /\ host.netdev = None /\ host.network = None
      BY <2>1 DEF Gone, Leftover
    <3>2. host.link = None
      BY <2>1, <3>1 DEF Gone
    <3>3. host \in [link : {None}, unit : {None}, loaded : {host.loaded}, enabled : {FALSE},
                    active : {FALSE}, netdev : {None}, network : {None}]
      BY <3>1, <3>2 DEF TypeInv, TypeOK, Hosts
    <3>4. [host EXCEPT !.loaded = None] \in
            [link : {None}, unit : {None}, loaded : {None}, enabled : {FALSE},
             active : {FALSE}, netdev : {None}, network : {None}]
      BY <3>3
    <3>5. NoHost \in
            [link : {None}, unit : {None}, loaded : {None}, enabled : {FALSE},
             active : {FALSE}, netdev : {None}, network : {None}]
      BY DEF NoHost
    <3> QED
      BY <3>4, <3>5
  <2>2. ASSUME Low(row.conf, host), row.conf.persist # "networkd", ~Leftover(row.conf)
        PROVE  host.link = None \/ ~host.link.up
    BY <2>2 DEF Low, Leftover
  <2> QED
    BY <2>1, <2>2 DEF AwayInv, TakenAwayStaysAway, FailedCreateLeavesNothing,
                      DeletedLeavesNothing, DownStaysDown
<1> QED
  BY <1>1, <1>2, <1>3, PTL DEF Spec

=============================================================================

------------------------- MODULE RouteService_proofs -------------------------
(***************************************************************************)
(* Proofs about RouteService, for any requests, rules, contents, backends  *)
(* and any number of faults: the service implements ForwardingTable, and a *)
(* rule marked applied is in the kernel.                                   *)
(***************************************************************************)
EXTENDS RouteService, TLAPS

-----------------------------------------------------------------------------
(* Types, as far as the proofs need them. Which places a rule may have and *)
(* which tables there are does not matter here, so any set will do.        *)
Kinds == {"create", "update", "edit", "duplicate", "switch", "delete", "reapply", "reorder"}
Asks == [kind : Kinds, id : Ids \cup {0}, cfg : Cfgs, on : BOOLEAN]

RowAt(places) == [state : {"free", "live", "deleted"}, on : BOOLEAN, cfg : Cfgs, at : places,
                  status : Statuses]
RowsTyped(rs) == \E places : rs \in [Ids -> RowAt(places)]

PlanTyped(p) ==
  \E tables : p \in [owner : Requests \cup {Start}, wanted : tables, before : tables,
                     todo : Seq(SUBSET Families), undoing : BOOLEAN]

Typed ==
  /\ backend \in {"nftables", "iptables"}
  /\ RowsTyped(rows)
  /\ \E rulesets : kernel \in [Families -> rulesets] /\ file \in [Families -> rulesets]
  /\ waiting \in [Requests -> Asks \cup {Unmade, Over}]
  /\ plan # NoPlan => PlanTyped(plan)

\* A request that was made carries a content.
LEMMA AskedCarries ==
  ASSUME RowsTyped(rows), NEW r \in Requests
  PROVE  Asked(r) \subseteq Asks
<1>1. \A i \in Live(rows) : i \in Ids /\ rows[i].cfg \in Cfgs /\ rows[i].on \in BOOLEAN
  BY DEF RowsTyped, RowAt, Live
<1>2. Asked(r) \subseteq Creates \cup Updates \cup Edits \cup Copies \cup Switches \cup Others
  BY DEF Asked
<1>3. Creates \subseteq Asks /\ Updates \subseteq Asks
  BY <1>1 DEF Creates, Updates, Asks, Kinds
<1>5. Edits \subseteq Asks
  <2> SUFFICES ASSUME NEW e \in Edits PROVE e \in Asks
    OBVIOUS
  <2>1. PICK i \in Live(rows), c \in Cfgs :
          e = [kind |-> "edit", id |-> i, cfg |-> c, on |-> rows[i].on]
    BY DEF Edits
  <2>2. PICK o \in BOOLEAN : o = rows[i].on
    BY <1>1
  <2>3. i \in Ids \cup {0} /\ c \in Cfgs /\ "edit" \in Kinds
    BY <1>1, <2>1 DEF Kinds
  <2>4. e = [kind |-> "edit", id |-> i, cfg |-> c, on |-> o]
    BY <2>1, <2>2
  <2> QED
    BY <2>2, <2>3, <2>4 DEF Asks
<1>4. Copies \subseteq Asks /\ Switches \subseteq Asks /\ Others \subseteq Asks
  <2>1. ASSUME NEW e \in Copies PROVE e \in Asks
    <3>1. PICK i \in Live(rows) :
            e = [kind |-> "duplicate", id |-> i, cfg |-> rows[i].cfg, on |-> FALSE]
      BY <2>1 DEF Copies
    <3> QED
      BY <1>1, <3>1 DEF Asks, Kinds
  <2>2. ASSUME NEW e \in Switches PROVE e \in Asks
    <3>1. PICK i \in Live(rows), on \in BOOLEAN :
            e = [kind |-> "switch", id |-> i, cfg |-> rows[i].cfg, on |-> on]
      BY <2>2 DEF Switches
    <3> QED
      BY <1>1, <3>1 DEF Asks, Kinds
  <2>3. ASSUME NEW e \in Others PROVE e \in Asks
    <3>1. PICK k \in {"delete", "reapply", "reorder"}, i \in Live(rows) :
            e = [kind |-> k, id |-> i, cfg |-> rows[i].cfg, on |-> TRUE]
      BY <2>3 DEF Others
    <3> QED
      BY <1>1, <3>1 DEF Asks, Kinds
  <2> QED
    BY <2>1, <2>2, <2>3
<1> QED
  BY <1>2, <1>3, <1>4, <1>5

\* A row with some of its fields set anew is a row, and so are the rows with one replaced.
LEMMA RowSet ==
  ASSUME NEW places, NEW row \in RowAt(places), NEW s \in {"live", "deleted"}, NEW n \in BOOLEAN,
         NEW c \in Cfgs
  PROVE  /\ [row EXCEPT !.on = n] \in RowAt(places)
         /\ [row EXCEPT !.cfg = c] \in RowAt(places)
         /\ [row EXCEPT !.state = s] \in RowAt(places)
<1>1. [row EXCEPT !.on = n] \in RowAt(places)
  BY DEF RowAt
<1>2. [row EXCEPT !.cfg = c] \in RowAt(places)
  BY DEF RowAt
<1>3. [row EXCEPT !.state = s] \in RowAt(places)
  BY DEF RowAt
<1> QED
  BY <1>1, <1>2, <1>3

LEMMA RowReplaced ==
  ASSUME NEW T, NEW rs \in [Ids -> T], NEW i, NEW r, i \in Ids => r \in T
  PROVE  [rs EXCEPT ![i] = r] \in [Ids -> T]
OBVIOUS

\* Whatever a request writes, the rows stay rows.
LEMMA WrittenTyped ==
  ASSUME RowsTyped(rows), NEW a \in Asks
  PROVE  RowsTyped(Written(a)) /\ RowsTyped(Insert(a))
<1>0. PICK places : rows \in [Ids -> RowAt(places)]
  BY DEF RowsTyped
<1>a. PICK n, c : n = a.on /\ c = a.cfg
  OBVIOUS
<1>b. n \in BOOLEAN /\ c \in Cfgs
  BY <1>a DEF Asks
<1>1. RowsTyped(Insert(a))
  <2>1. PICK at : at = Last(rows) + 1
    OBVIOUS
  <2>2. PICK r : r = [state |-> "live", on |-> n, cfg |-> c, at |-> at, status |-> "pending"]
    OBVIOUS
  <2>3. r \in RowAt(places \cup {at})
    BY <1>b, <2>2 DEF RowAt, Statuses
  <2>4. rows \in [Ids -> RowAt(places \cup {at})]
    <3>1. RowAt(places) \subseteq RowAt(places \cup {at})
      BY DEF RowAt
    <3> QED
      BY <1>0, <3>1
  <2>5. Insert(a) = [rows EXCEPT ![NextId] = r]
    BY <1>a, <2>1, <2>2 DEF Insert
  <2>6. PICK i : i = NextId
    OBVIOUS
  <2>7. [rows EXCEPT ![i] = r] \in [Ids -> RowAt(places \cup {at})]
    BY <2>3, <2>4, RowReplaced
  <2> QED
    BY <2>5, <2>6, <2>7 DEF RowsTyped
<1>2. RowsTyped(Update(a))
  <2>1. CASE a.id \in Live(rows)
    <3>1. a.id \in Ids /\ rows[a.id] \in RowAt(places)
      BY <1>0, <2>1 DEF Live
    <3>2. PICK q : q = [rows[a.id] EXCEPT !.cfg = c]
      OBVIOUS
    <3>3. PICK r : r = [q EXCEPT !.on = n]
      OBVIOUS
    <3>4. q \in RowAt(places)
      BY <1>b, <3>1, <3>2, RowSet
    <3>5. r \in RowAt(places)
      BY <1>b, <3>3, <3>4, RowSet
    <3>6. Update(a) = [rows EXCEPT ![a.id].cfg = c, ![a.id].on = n]
      BY <1>a, <2>1 DEF Update
    <3>7. [rows EXCEPT ![a.id].cfg = c, ![a.id].on = n] = [rows EXCEPT ![a.id] = r]
      BY <1>0, <3>1, <3>2, <3>3
    <3>8. [rows EXCEPT ![a.id] = r] \in [Ids -> RowAt(places)]
      BY <1>0, <3>5, RowReplaced
    <3> QED
      BY <3>6, <3>7, <3>8 DEF RowsTyped
  <2>2. CASE a.id \notin Live(rows)
    BY <1>0, <2>2 DEF Update, RowsTyped
  <2> QED
    BY <2>1, <2>2
<1>3. RowsTyped(SoftDelete(a))
  <2>1. CASE a.id \in Ids
    <3>1. rows[a.id] \in RowAt(places)
      BY <1>0, <2>1
    <3>2. PICK off : off = FALSE
      OBVIOUS
    <3>3. PICK q : q = [rows[a.id] EXCEPT !.state = "deleted"]
      OBVIOUS
    <3>4. PICK r : r = [q EXCEPT !.on = off]
      OBVIOUS
    <3>5. q \in RowAt(places)
      BY <1>b, <3>1, <3>3, RowSet
    <3>6. r \in RowAt(places)
      BY <1>b, <3>2, <3>4, <3>5, RowSet
    <3>7. SoftDelete(a) = [rows EXCEPT ![a.id].state = "deleted", ![a.id].on = off]
      BY <3>2 DEF SoftDelete
    <3>8. [rows EXCEPT ![a.id].state = "deleted", ![a.id].on = off] = [rows EXCEPT ![a.id] = r]
      BY <1>0, <2>1, <3>3, <3>4
    <3>9. [rows EXCEPT ![a.id] = r] \in [Ids -> RowAt(places)]
      BY <1>0, <3>6, RowReplaced
    <3> QED
      BY <3>7, <3>8, <3>9 DEF RowsTyped
  <2>2. CASE a.id \notin Ids
    <3>1. SoftDelete(a) = rows
      BY <1>0, <2>2 DEF SoftDelete
    <3> QED
      BY <1>0, <3>1 DEF RowsTyped
  <2> QED
    BY <2>1, <2>2
<1>4. RowsTyped(SetEnabled(a))
  <2>1. CASE a.id \in Live(rows)
    <3>1. a.id \in Ids /\ rows[a.id] \in RowAt(places)
      BY <1>0, <2>1 DEF Live
    <3>2. PICK r : r = [rows[a.id] EXCEPT !.on = n]
      OBVIOUS
    <3>3. r \in RowAt(places)
      BY <1>b, <3>1, <3>2, RowSet
    <3>4. SetEnabled(a) = [rows EXCEPT ![a.id].on = n]
      BY <1>a, <2>1 DEF SetEnabled
    <3>5. [rows EXCEPT ![a.id].on = n] = [rows EXCEPT ![a.id] = r]
      BY <1>0, <3>1, <3>2
    <3>6. [rows EXCEPT ![a.id] = r] \in [Ids -> RowAt(places)]
      BY <1>0, <3>3, RowReplaced
    <3> QED
      BY <3>4, <3>5, <3>6 DEF RowsTyped
  <2>2. CASE a.id \notin Live(rows)
    BY <1>0, <2>2 DEF SetEnabled, RowsTyped
  <2> QED
    BY <2>1, <2>2
<1>5. RowsTyped(Reorder(a))
  <2>1. PICK spot : spot = [i \in Ids |-> IF i = a.id THEN 1 ELSE
                      2 + Cardinality({j \in Live(rows) \ {a.id} : rows[j].at < rows[i].at})]
    OBVIOUS
  <2>2. Reorder(a) = [i \in Ids |-> IF i \notin Live(rows) THEN rows[i] ELSE [rows[i] EXCEPT !.at = spot[i]]]
    BY <2>1 DEF Reorder, Live
  <2>3. Reorder(a) \in [Ids -> RowAt(places \cup {spot[i] : i \in Ids})]
    BY <1>0, <2>2 DEF RowAt
  <2> QED
    BY <2>3 DEF RowsTyped
<1> QED
  BY <1>0, <1>1, <1>2, <1>3, <1>4, <1>5 DEF Written

\* Marking rules changes their status and nothing else.
LEMMA MarkedRows ==
  ASSUME NEW rs, RowsTyped(rs), NEW S, NEW s \in Statuses
  PROVE  /\ RowsTyped(Marked(rs, S, s))
         /\ \A i \in Ids : Marked(rs, S, s)[i].status = IF i \in S THEN s ELSE rs[i].status
         /\ Enabled(Marked(rs, S, s)) = Enabled(rs)
         /\ Table(Marked(rs, S, s)) = Table(rs)
<1>0. PICK places : rs \in [Ids -> RowAt(places)]
  BY DEF RowsTyped
<1>1. Marked(rs, S, s) \in [Ids -> RowAt(places)]
  BY <1>0 DEF Marked, RowAt
<1>2. \A i \in Ids : /\ Marked(rs, S, s)[i].state = rs[i].state
                     /\ Marked(rs, S, s)[i].on = rs[i].on
                     /\ Marked(rs, S, s)[i].cfg = rs[i].cfg
                     /\ Marked(rs, S, s)[i].at = rs[i].at
                     /\ Marked(rs, S, s)[i].status = IF i \in S THEN s ELSE rs[i].status
  BY <1>0 DEF Marked, RowAt
<1>4. Enabled(Marked(rs, S, s)) = Enabled(rs)
  BY <1>2 DEF Enabled, Live
<1>5. Table(Marked(rs, S, s)) = Table(rs)
  BY <1>2, <1>4 DEF Table, Enabled, Live
<1> QED
  BY <1>1, <1>2, <1>4, <1>5 DEF RowsTyped

LEMMA TypedNow ==
  ASSUME Typed
  PROVE  /\ backend \in {"nftables", "iptables"} /\ RowsTyped(rows)
         /\ waiting \in [Requests -> Asks \cup {Unmade, Over}]
         /\ plan # NoPlan => PlanTyped(plan)
  BY DEF Typed

\* What a plan installs, family by family.
LEMMA PutIs ==
  ASSUME NEW F, NEW old, NEW t
  PROVE  /\ Put(F, old, t) = [f \in Families |-> IF f \in F THEN Of(f, t) ELSE old[f]]
         /\ \A f \in Families : Put(F, old, t)[f] = IF f \in F THEN Of(f, t) ELSE old[f]
  BY DEF Put

LEMMA FunctionsTyped ==
  ASSUME NEW k, NEW g, k = [f \in Families |-> k[f]], g = [f \in Families |-> g[f]]
  PROVE  \E rulesets : k \in [Families -> rulesets] /\ g \in [Families -> rulesets]
<1>1. PICK s : s = {k[f] : f \in Families} \cup {g[f] : f \in Families}
  OBVIOUS
<1>2. k \in [Families -> s] /\ g \in [Families -> s]
  BY <1>1
<1> QED
  BY <1>2

\* The family f is installed by one of the steps.
Ahead(steps, f) == \E k \in DOMAIN steps : f \in steps[k]

LEMMA StepsTyped ==
  ASSUME NEW b \in {"nftables", "iptables"}
  PROVE  /\ Batches(b) \in Seq(SUBSET Families) /\ ApplySteps(b) \in Seq(SUBSET Families)
         /\ \A f \in Families : Ahead(Batches(b), f) /\ Ahead(ApplySteps(b), f)
<1>1. /\ Batches(b) \in Seq(SUBSET Families)
      /\ \A f \in Families : \E k \in DOMAIN Batches(b) : f \in Batches(b)[k]
  <2>1. {"v4"} \in SUBSET Families /\ {"v6"} \in SUBSET Families
    BY DEF Families
  <2>2. <<Families>> \in Seq(SUBSET Families) /\ <<{"v4"}, {"v6"}>> \in Seq(SUBSET Families)
    BY <2>1
  <2>3. CASE b = "nftables"
    <3>1. Batches(b) = <<Families>>
      BY <2>3 DEF Batches
    <3>2. 1 \in DOMAIN Batches(b) /\ Batches(b)[1] = Families
      BY <3>1
    <3> QED
      BY <2>2, <3>1, <3>2
  <2>4. CASE b = "iptables"
    <3>1. Batches(b) = <<{"v4"}, {"v6"}>>
      BY <2>4 DEF Batches
    <3>2. /\ 1 \in DOMAIN Batches(b) /\ Batches(b)[1] = {"v4"}
          /\ 2 \in DOMAIN Batches(b) /\ Batches(b)[2] = {"v6"}
      BY <3>1
    <3> QED
      BY <2>2, <3>1, <3>2 DEF Families
  <2> QED
    BY <2>3, <2>4
<1>2. {} \in SUBSET Families
  OBVIOUS
<1>3. /\ ApplySteps(b) \in Seq(SUBSET Families)
      /\ \A k \in DOMAIN Batches(b) : k \in DOMAIN ApplySteps(b) /\ ApplySteps(b)[k] = Batches(b)[k]
  BY <1>1, <1>2 DEF ApplySteps, EnableUnit
<1> QED
  BY <1>1, <1>3 DEF Ahead

\* What is left after a step is what was left but the step.
LEMMA TailLeaves ==
  ASSUME NEW s \in Seq(SUBSET Families), s # <<>>, NEW f
  PROVE  /\ Tail(s) \in Seq(SUBSET Families) /\ Head(s) \in SUBSET Families
         /\ Ahead(s, f) => f \in Head(s) \/ Ahead(Tail(s), f)
<1>1. Tail(s) \in Seq(SUBSET Families) /\ Head(s) \in SUBSET Families /\ Len(s) \in Nat /\ Len(s) > 0
  OBVIOUS
<1>2. ASSUME NEW k \in DOMAIN s, f \in s[k], f \notin Head(s)
      PROVE  \E j \in DOMAIN Tail(s) : f \in Tail(s)[j]
  <2>1. k \in 1..Len(s) /\ k # 1
    BY <1>2
  <2>2. k - 1 \in 1..Len(Tail(s)) /\ Tail(s)[k - 1] = s[k]
    BY <1>1, <2>1
  <2> QED
    BY <1>1, <1>2, <2>2
<1> QED
  BY <1>1, <1>2 DEF Ahead

LEMMA PlanIs ==
  ASSUME RowsTyped(rows), backend \in {"nftables", "iptables"},
         NEW o \in Requests \cup {Start}, NEW w, NEW b
  PROVE  PlanTyped(NewPlan(o, w, b))
<1>1. PICK s : s = {w, b}
  OBVIOUS
<1>2. NewPlan(o, w, b) \in [owner : Requests \cup {Start}, wanted : s, before : s,
                            todo : Seq(SUBSET Families), undoing : BOOLEAN]
  BY <1>1, StepsTyped DEF NewPlan
<1> QED
  BY <1>2 DEF PlanTyped

LEMMA PlanGoesOn ==
  ASSUME backend \in {"nftables", "iptables"}, plan # NoPlan, PlanTyped(plan)
  PROVE  /\ PlanTyped(Rollback)
         /\ plan.todo # <<>> => PlanTyped([plan EXCEPT !.todo = Tail(@)])
         /\ plan.owner \in Requests \cup {Start} /\ plan.todo \in Seq(SUBSET Families)
         /\ plan.undoing \in BOOLEAN
<1>1. PICK s : plan \in [owner : Requests \cup {Start}, wanted : s, before : s,
                         todo : Seq(SUBSET Families), undoing : BOOLEAN]
  BY DEF PlanTyped
<1>2. Rollback \in [owner : Requests \cup {Start}, wanted : s, before : s,
                    todo : Seq(SUBSET Families), undoing : BOOLEAN]
  BY <1>1, StepsTyped DEF Rollback
<1>3. plan.todo # <<>> =>
        [plan EXCEPT !.todo = Tail(@)] \in [owner : Requests \cup {Start}, wanted : s, before : s,
                                            todo : Seq(SUBSET Families), undoing : BOOLEAN]
  BY <1>1, TailLeaves
<1> QED
  BY <1>1, <1>2, <1>3 DEF PlanTyped

LEMMA RestTyped ==
  ASSUME backend' \in {"nftables", "iptables"}, RowsTyped(rows'),
         kernel' = [f \in Families |-> kernel'[f]], file' = [f \in Families |-> file'[f]],
         waiting' \in [Requests -> Asks \cup {Unmade, Over}],
         plan' # NoPlan => PlanTyped(plan')
  PROVE  Typed'
  BY FunctionsTyped DEF Typed

\* The request is over: the lists of requests and the rows stay what they are.
LEMMA EndTyped ==
  ASSUME Typed, NEW s \in Statuses, End(s)
  PROVE  /\ RowsTyped(rows') /\ Table(rows') = Table(rows)
         /\ waiting' \in [Requests -> Asks \cup {Unmade, Over}] /\ plan' = NoPlan
<1>1. PICK S : rows' = Marked(rows, S, s)
  BY DEF End
<1> QED
  BY <1>1, MarkedRows DEF End, Typed

LEMMA TypedInit == Init => Typed
<1> SUFFICES ASSUME Init PROVE Typed
  OBVIOUS
<1>1. rows \in [Ids -> RowAt({0})]
  BY RouteServiceAssumption DEF Init, RowAt, Statuses
<1>2. kernel = [f \in Families |-> kernel[f]] /\ file = [f \in Families |-> file[f]]
  BY DEF Init, View
<1>3. backend \in {"nftables", "iptables"} /\ plan = NoPlan
      /\ waiting \in [Requests -> Asks \cup {Unmade, Over}]
  BY RouteServiceAssumption DEF Init
<1> QED
  BY <1>1, <1>2, <1>3, FunctionsTyped DEF Typed, RowsTyped

LEMMA TypedStep == Typed /\ [Next]_vars => Typed'
<1> SUFFICES ASSUME Typed, [Next]_vars PROVE Typed'
  OBVIOUS
<1>0. /\ backend \in {"nftables", "iptables"} /\ RowsTyped(rows)
      /\ waiting \in [Requests -> Asks \cup {Unmade, Over}]
      /\ plan # NoPlan => PlanTyped(plan)
      /\ kernel = [f \in Families |-> kernel[f]] /\ file = [f \in Families |-> file[f]]
  BY DEF Typed
<1>1. ASSUME NEW r \in Requests, Submit(r) PROVE Typed'
  <2>1. PICK a \in Asks : waiting' = [waiting EXCEPT ![r] = a]
    BY <1>0, <1>1, AskedCarries DEF Submit
  <2> QED
    BY <1>0, <1>1, <2>1, RestTyped DEF Submit
<1>2. ASSUME NEW r \in Requests, Take(r) PROVE Typed'
  <2>1. waiting[r] \in Asks
    BY <1>0, <1>2 DEF Take
  <2>2. PICK a : a = waiting[r]
    OBVIOUS
  <2>3. /\ plan = NoPlan /\ backend' = backend /\ kernel' = kernel /\ file' = file
        /\ Begin(r, a) \/ Refuse(r, a) \/ Duplicate(r, a) \/ PlanFails(r, a) \/ GuardRefuses(r, a)
    BY <1>2, <2>2 DEF Take
  <2>4. RowsTyped(Written(a)) /\ RowsTyped(Insert(a))
    BY <1>0, <2>1, <2>2, WrittenTyped
  <2>5. RowsTyped(rows')
    BY <1>0, <2>3, <2>4, MarkedRows DEF Begin, Refuse, Duplicate, PlanFails, GuardRefuses, Statuses
  <2>6. waiting' \in [Requests -> Asks \cup {Unmade, Over}]
    BY <1>0, <2>3 DEF Begin, Refuse, Duplicate, PlanFails, GuardRefuses
  <2>7. plan' # NoPlan => PlanTyped(plan')
    <3>1. CASE Begin(r, a)
      <4>1. PICK w, b : plan' = NewPlan(r, w, b)
        BY <3>1 DEF Begin
      <4> QED
        BY <1>0, <2>3, <4>1, PlanIs
    <3>2. CASE Refuse(r, a) \/ Duplicate(r, a) \/ PlanFails(r, a) \/ GuardRefuses(r, a)
      BY <2>3, <3>2 DEF Refuse, Duplicate, PlanFails, GuardRefuses
    <3> QED
      BY <2>3, <3>1, <3>2
  <2> QED
    BY <1>0, <2>3, <2>5, <2>6, <2>7, RestTyped
<1>3. CASE Step
  <2>1. PICK F, t : kernel' = Put(F, kernel, t) /\ file' = Put(F, file, t)
    BY <1>3 DEF Step
  <2>2. plan' # NoPlan => PlanTyped(plan')
    BY <1>0, <1>3, PlanGoesOn DEF Step
  <2>3. /\ kernel' = [f \in Families |-> kernel'[f]] /\ file' = [f \in Families |-> file'[f]]
    BY <2>1, PutIs
  <2> QED
    BY <1>0, <1>3, <2>2, <2>3, RestTyped DEF Step
<1>4. ASSUME Fails
      PROVE  kernel' = [f \in Families |-> kernel'[f]] /\ file' = [f \in Families |-> file'[f]]
  <2>1. PICK F, t : /\ kernel' = kernel \/ kernel' = Put(F, kernel, t)
                    /\ file' = file \/ file' = Put(F, file, t)
    BY <1>4 DEF Fails
  <2> QED
    BY <1>0, <2>1, PutIs
<1>5. CASE StepFails
  <2>1. plan' # NoPlan => PlanTyped(plan')
    BY <1>0, <1>5, PlanGoesOn DEF StepFails, Fails
  <2> QED
    BY <1>0, <1>4, <1>5, <2>1, RestTyped DEF StepFails, Fails
<1>6. CASE RollbackFails
  <2>1. RowsTyped(rows')
    BY <1>0, <1>6, MarkedRows DEF RollbackFails, Statuses
  <2>2. waiting' \in [Requests -> Asks \cup {Unmade, Over}]
    BY <1>0, <1>6 DEF RollbackFails
  <2> QED
    BY <1>0, <1>4, <1>6, <2>1, <2>2, RestTyped DEF RollbackFails, Fails
<1>7. CASE Confirm \/ RolledBack
  <2>1. PICK s \in Statuses : End(s)
    BY <1>7 DEF Confirm, RolledBack, Statuses
  <2> QED
    BY <1>0, <1>7, <2>1, EndTyped, RestTyped DEF Confirm, RolledBack
<1>8. CASE VerifyFails
  <2>1. plan' # NoPlan => PlanTyped(plan')
    BY <1>0, <1>8, PlanGoesOn DEF VerifyFails, Ready
  <2> QED
    BY <1>0, <1>8, <2>1, RestTyped DEF VerifyFails
<1>9. CASE StartPanel \/ ReassertReads
  BY <1>0, <1>9, RestTyped DEF StartPanel, ReassertReads
<1>10. CASE ReassertTakes
  <2>1. PICK w, b : plan' = NewPlan(Start, w, b)
    BY <1>10 DEF ReassertTakes
  <2>2. PlanTyped(plan')
    BY <1>0, <2>1, PlanIs
  <2> QED
    BY <1>0, <1>10, <2>2, RestTyped DEF ReassertTakes
<1>11. CASE Crash \/ Reboot
  <2>1. waiting' \in [Requests -> Asks \cup {Unmade, Over}]
    BY <1>0, <1>11 DEF Crash, Reboot, Stopped
  <2>2. kernel' = [f \in Families |-> kernel'[f]]
    BY <1>0, <1>11 DEF Crash, Reboot
  <2> QED
    BY <1>0, <1>11, <2>1, <2>2, RestTyped DEF Crash, Reboot, Stopped
<1>12. CASE UNCHANGED vars
  BY <1>0, <1>12, RestTyped DEF vars
<1> QED
  BY <1>1, <1>2, <1>3, <1>5, <1>6, <1>7, <1>8, <1>9, <1>10, <1>11, <1>12 DEF Next

(* Types, for any requests, rules, backends and faults: rows stay rows     *)
(* whatever is written, a request keeps what it asks for until it is over, *)
(* and a plan has only steps that install families of the ruleset.         *)
THEOREM TypeInvariant == Spec => []Typed
  BY TypedInit, TypedStep, PTL DEF Spec

-----------------------------------------------------------------------------
(* Whole tables. What the kernel and the restore file have of a family is  *)
(* nothing or one of the tables saved since the last confirmed one, the    *)
(* start's included, and so is everything a plan may still install: the    *)
(* property says nothing of the file, which a reboot makes the kernel's,   *)
(* nor of the payload a rollback would put back.                           *)
Whole(tables, f, ruleset) == ruleset = {} \/ \E t \in tables : ruleset = Of(f, t)

TablesKnown ==
  /\ Table(rows) \in since
  /\ accepted \subseteq since \cup relic
  /\ plan # NoPlan => plan.wanted \in since \cup relic /\ plan.before \in since \cup relic
  /\ \A f \in Families : /\ Whole(since \cup relic, f, kernel[f])
                         /\ Whole(since \cup relic, f, file[f])

(* A family whose step is behind the plan is installed: the read-back, which *)
(* on iptables does not see IPv6, finds nothing that is not so anyway.       *)
StepsInstall ==
  plan # NoPlan =>
    \A f \in Families : Ahead(plan.todo, f) \/
                        (kernel[f] = Of(f, Payload(plan)) /\ file[f] = Of(f, Payload(plan)))

TableInv == Typed /\ TablesKnown /\ StepsInstall

LEMMA WholeGrows ==
  ASSUME NEW K, NEW L, K \subseteq L, NEW f, NEW k, Whole(K, f, k)
  PROVE  Whole(L, f, k)
  BY DEF Whole

LEMMA PutWhole ==
  ASSUME NEW K, NEW t \in K, NEW F, NEW old, \A f \in Families : Whole(K, f, old[f])
  PROVE  \A f \in Families : Whole(K, f, Put(F, old, t)[f])
  BY PutIs DEF Whole

LEMMA PayloadKnown ==
  ASSUME TablesKnown, plan # NoPlan
  PROVE  Payload(plan) \in since \cup relic
  BY DEF TablesKnown, Payload, PutBack

\* A plan goes on, installs what it is for, and reads nothing new.
LEMMA PlanKnown ==
  ASSUME TableInv, plan # NoPlan, since' = since, relic' = relic, rows' = rows,
         accepted' = accepted, plan'.wanted = plan.wanted, plan'.before = plan.before,
         NEW F, kernel' \in {kernel, Put(F, kernel, Payload(plan))},
         file' \in {file, Put(F, file, Payload(plan))}
  PROVE  TablesKnown'
<1>1. Payload(plan) \in since \cup relic
  BY PayloadKnown DEF TableInv
<1>2. \A f \in Families : /\ Whole(since \cup relic, f, kernel[f])
                          /\ Whole(since \cup relic, f, file[f])
  BY DEF TableInv, TablesKnown
<1>3. \A f \in Families : /\ Whole(since \cup relic, f, Put(F, kernel, Payload(plan))[f])
                          /\ Whole(since \cup relic, f, Put(F, file, Payload(plan))[f])
  BY <1>1, <1>2, PutWhole
<1> QED
  BY <1>2, <1>3 DEF TableInv, TablesKnown

\* A plan ends, whoever's it is: a start leaves what it read among the saved tables.
LEMMA EndKnown ==
  ASSUME TableInv, plan # NoPlan, plan' = NoPlan, Table(rows') = Table(rows),
         accepted' \subseteq since \cup relic, since' = since \cup Relic(plan),
         relic' = IF plan.owner = Start THEN {} ELSE relic,
         NEW F, kernel' \in {kernel, Put(F, kernel, Payload(plan))},
         file' \in {file, Put(F, file, Payload(plan))}
  PROVE  TablesKnown' /\ StepsInstall'
<1>1. Payload(plan) \in since \cup relic
  BY PayloadKnown DEF TableInv
<1>2. \A f \in Families : /\ Whole(since \cup relic, f, kernel[f])
                          /\ Whole(since \cup relic, f, file[f])
  BY DEF TableInv, TablesKnown
<1>3. \A f \in Families : /\ Whole(since \cup relic, f, Put(F, kernel, Payload(plan))[f])
                          /\ Whole(since \cup relic, f, Put(F, file, Payload(plan))[f])
  BY <1>1, <1>2, PutWhole
<1>4. since' \cup relic' = since \cup relic
  BY DEF Relic
<1>5. \A f \in Families : /\ Whole(since' \cup relic', f, kernel'[f])
                          /\ Whole(since' \cup relic', f, file'[f])
  BY <1>2, <1>3, <1>4
<1>6. Table(rows)' \in since' /\ accepted' \subseteq since' \cup relic'
  BY <1>4 DEF TableInv, TablesKnown
<1> QED
  BY <1>5, <1>6 DEF TablesKnown, StepsInstall

LEMMA TableInit == Init => TableInv
<1> SUFFICES ASSUME Init PROVE TableInv
  OBVIOUS
<1>1. Table(rows) = {}
  BY DEF Init, Table, Enabled, Live
<1>2. \A f \in Families : kernel[f] = {} /\ file[f] = {}
  BY DEF Init, View, Of
<1> QED
  BY <1>1, <1>2, TypedInit DEF Init, TableInv, TablesKnown, StepsInstall, Whole

LEMMA NewPlanKnown ==
  ASSUME backend \in {"nftables", "iptables"}, NEW o, NEW w, NEW b, NEW p, p = NewPlan(o, w, b)
  PROVE  /\ p.wanted = w /\ p.before = b
         /\ \A f \in Families : Ahead(p.todo, f)
<1>1. p.wanted = w /\ p.before = b /\ p.todo = ApplySteps(backend)
  BY DEF NewPlan
<1> QED
  BY <1>1, StepsTyped

LEMMA TakeKnown ==
  ASSUME TableInv, NEW r \in Requests, Take(r)
  PROVE  TablesKnown' /\ StepsInstall'
<1>1. /\ plan = NoPlan /\ since' = since \cup {Table(rows')} /\ relic' = relic
      /\ accepted' = accepted /\ kernel' = kernel /\ file' = file /\ backend' = backend
  BY DEF Take
<1>2. \/ plan' = plan
      \/ plan' = NewPlan(r, Table(rows'), Table(rows))
  BY <1>1 DEF Take, Begin, Refuse, Duplicate, PlanFails, GuardRefuses
<1>3. backend \in {"nftables", "iptables"}
  BY DEF TableInv, Typed
<1>4. plan' # NoPlan => /\ plan'.wanted = Table(rows') /\ plan'.before = Table(rows)
                        /\ \A f \in Families : Ahead(plan'.todo, f)
  BY <1>1, <1>2, <1>3, NewPlanKnown
<1>5. since \cup relic \subseteq since' \cup relic'
  BY <1>1
<1>6. \A f \in Families : /\ Whole(since' \cup relic', f, kernel'[f])
                          /\ Whole(since' \cup relic', f, file'[f])
  BY <1>1, <1>5, WholeGrows DEF TableInv, TablesKnown
<1>7. Table(rows)' \in since'
  BY <1>1
<1>8. accepted' \subseteq since' \cup relic' /\ Table(rows) \in since'
  BY <1>1, <1>5 DEF TableInv, TablesKnown
<1> QED
  BY <1>4, <1>6, <1>7, <1>8 DEF TablesKnown, StepsInstall

LEMMA StepKnown ==
  ASSUME TableInv, Step
  PROVE  TablesKnown' /\ StepsInstall'
<1>1. PICK F : /\ F = Head(plan.todo) /\ kernel' = Put(F, kernel, Payload(plan))
               /\ file' = Put(F, file, Payload(plan))
  BY DEF Step
<1>2. plan # NoPlan /\ plan.todo # <<>> /\ PlanTyped(plan)
  BY DEF Step, TableInv, Typed
<1>3. /\ plan'.wanted = plan.wanted /\ plan'.before = plan.before /\ plan'.undoing = plan.undoing
      /\ plan'.todo = Tail(plan.todo) /\ plan.todo \in Seq(SUBSET Families)
  BY <1>2 DEF Step, PlanTyped
<1>4. TablesKnown'
  BY <1>1, <1>2, <1>3, PlanKnown DEF Step
<1>5. Payload(plan') = Payload(plan) /\ Payload(plan)' = Payload(plan)
  BY <1>3 DEF Payload, PutBack, Step
<1>6. ASSUME NEW f \in Families, ~Ahead(plan'.todo, f)
      PROVE  kernel'[f] = Of(f, Payload(plan)) /\ file'[f] = Of(f, Payload(plan))
  <2>1. CASE f \in F
    BY <1>1, <2>1, PutIs
  <2>2. CASE f \notin F
    <3>1. ~Ahead(plan.todo, f)
      BY <1>1, <1>2, <1>3, <1>6, <2>2, TailLeaves
    <3>2. kernel[f] = Of(f, Payload(plan)) /\ file[f] = Of(f, Payload(plan))
      BY <1>2, <3>1 DEF TableInv, StepsInstall
    <3> QED
      BY <1>1, <2>2, <3>2, PutIs
  <2> QED
    BY <2>1, <2>2
<1> QED
  BY <1>4, <1>5, <1>6 DEF StepsInstall

\* What a failed step leaves is what the step would have left, or was before.
LEMMA FailsLeaves ==
  ASSUME Fails
  PROVE  /\ \E F : /\ kernel' \in {kernel, Put(F, kernel, Payload(plan))}
                   /\ file' \in {file, Put(F, file, Payload(plan))}
         /\ plan # NoPlan /\ accepted' = accepted /\ backend' = backend
  BY DEF Fails

LEMMA RollbackKnown ==
  ASSUME TableInv, StepFails \/ VerifyFails
  PROVE  TablesKnown' /\ StepsInstall'
<1>1. PICK F : /\ kernel' \in {kernel, Put(F, kernel, Payload(plan))}
               /\ file' \in {file, Put(F, file, Payload(plan))}
  BY FailsLeaves DEF StepFails, VerifyFails
<1>2. /\ plan # NoPlan /\ accepted' = accepted /\ rows' = rows /\ relic' = relic
      /\ since' = since /\ plan' = Rollback
  BY FailsLeaves DEF StepFails, VerifyFails, Ready
<1>3. PlanTyped(plan) /\ backend \in {"nftables", "iptables"}
  BY <1>2 DEF TableInv, Typed
<1>4. /\ plan'.wanted = plan.wanted /\ plan'.before = plan.before
      /\ plan'.todo = Batches(backend)
  BY <1>2, <1>3 DEF Rollback, PlanTyped
<1>5. TablesKnown'
  BY <1>1, <1>2, <1>4, PlanKnown
<1> QED
  BY <1>3, <1>4, <1>5, StepsTyped DEF StepsInstall

LEMMA RollbackFailsKnown ==
  ASSUME TableInv, RollbackFails
  PROVE  TablesKnown' /\ StepsInstall' /\ Table(rows') = Table(rows)
<1>1. PICK F : /\ kernel' \in {kernel, Put(F, kernel, Payload(plan))}
               /\ file' \in {file, Put(F, file, Payload(plan))}
  BY FailsLeaves DEF RollbackFails
<1>2. /\ plan # NoPlan /\ accepted' = accepted /\ plan' = NoPlan
      /\ since' = since \cup Relic(plan)
      /\ relic' = IF plan.owner = Start THEN {} ELSE relic
  BY FailsLeaves DEF RollbackFails
<1>3. Table(rows') = Table(rows)
  BY MarkedRows DEF RollbackFails, Statuses, TableInv, Typed
<1>4. accepted' \subseteq since \cup relic
  BY <1>2 DEF TableInv, TablesKnown
<1> QED
  BY <1>1, <1>2, <1>3, <1>4, EndKnown

LEMMA RolledBackKnown ==
  ASSUME TableInv, RolledBack
  PROVE  TablesKnown' /\ StepsInstall' /\ Table(rows') = Table(rows)
<1>1. End("failed") /\ plan # NoPlan
  BY DEF RolledBack, Ready
<1>2. Table(rows') = Table(rows)
  BY <1>1, EndTyped DEF TableInv, Statuses
<1>3. accepted' \subseteq since \cup relic
  BY DEF RolledBack, TableInv, TablesKnown
<1> QED
  BY <1>1, <1>2, <1>3, EndKnown DEF RolledBack, End

\* When the read-back agrees the whole of what was wanted is installed.
LEMMA ReadyInstalled ==
  ASSUME TableInv, Ready, ~plan.undoing
  PROVE  \A f \in Families : kernel[f] = Of(f, plan.wanted) /\ file[f] = Of(f, plan.wanted)
  BY DEF TableInv, Ready, StepsInstall, Payload, Ahead

LEMMA ConfirmKnown ==
  ASSUME TableInv, Confirm
  PROVE  TablesKnown' /\ StepsInstall' /\ Table(rows') = Table(rows)
<1>1. End("applied") /\ plan # NoPlan /\ plan' = NoPlan
  BY DEF Confirm, Ready, End
<1>2. Table(rows') = Table(rows)
  BY <1>1, EndTyped DEF TableInv, Statuses
<1>3. CASE Outdated(plan)
  <2>1. accepted' \subseteq since \cup relic /\ since' = since \cup Relic(plan)
    BY <1>1, <1>3 DEF Confirm, TableInv, TablesKnown
  <2> QED
    BY <1>1, <1>2, <2>1, EndKnown DEF Confirm, End
<1>4. CASE ~Outdated(plan)
  <2>1. plan.wanted = Table(rows) /\ since' = {Table(rows)} /\ accepted' = {Table(rows)}
    BY <1>4 DEF Confirm, Outdated
  <2>2. \A f \in Families : kernel'[f] = Of(f, Table(rows)) /\ file'[f] = Of(f, Table(rows))
    BY <2>1, ReadyInstalled DEF Confirm
  <2> QED
    BY <1>1, <1>2, <2>1, <2>2 DEF TablesKnown, StepsInstall, Whole
<1> QED
  BY <1>3, <1>4

LEMMA StartKnown ==
  ASSUME TableInv, StartPanel \/ ReassertReads \/ ReassertTakes
  PROVE  TablesKnown' /\ StepsInstall'
<1>1. CASE StartPanel
  BY <1>1 DEF StartPanel, TableInv, TablesKnown, StepsInstall, Payload, PutBack
<1>2. CASE ReassertReads
  <2>1. since \cup relic \subseteq since' \cup relic'
    BY <1>2 DEF ReassertReads
  <2>2. \A f \in Families : /\ Whole(since' \cup relic', f, kernel'[f])
                            /\ Whole(since' \cup relic', f, file'[f])
    BY <1>2, <2>1, WholeGrows DEF ReassertReads, TableInv, TablesKnown
  <2>3. /\ rows' = rows /\ since' = since /\ accepted' = accepted /\ plan' = plan
        /\ kernel' = kernel /\ file' = file
    BY <1>2 DEF ReassertReads
  <2>4. TablesKnown'
    BY <2>1, <2>2, <2>3 DEF TableInv, TablesKnown
  <2>5. StepsInstall'
    BY <2>3 DEF TableInv, StepsInstall, Payload, PutBack
  <2> QED
    BY <2>4, <2>5
<1>3. CASE ReassertTakes
  <2>1. PICK t \in relic : plan' = NewPlan(Start, t, t)
    BY <1>3 DEF ReassertTakes
  <2>2. /\ plan'.wanted = t /\ plan'.before = t
        /\ \A f \in Families : Ahead(plan'.todo, f)
    BY <2>1, NewPlanKnown DEF TableInv, Typed
  <2>3. TablesKnown'
    BY <1>3, <2>1, <2>2 DEF ReassertTakes, TableInv, TablesKnown
  <2> QED
    BY <2>2, <2>3 DEF StepsInstall
<1> QED
  BY <1>1, <1>2, <1>3

LEMMA StoppedKnown ==
  ASSUME TableInv, Crash \/ Reboot
  PROVE  /\ TablesKnown' /\ StepsInstall'
         /\ \A f \in Families : kernel'[f] \in {kernel[f], file[f], {}}
<1>1. Stopped
  BY DEF Crash, Reboot
<1>2. \A f \in Families : kernel'[f] \in {kernel[f], file[f], {}}
  BY DEF Crash, Reboot
<1>3. since' \cup relic' = since \cup relic /\ file' = file /\ rows' = rows /\ accepted' = {} /\ plan' = NoPlan
  BY <1>1 DEF Stopped
<1>4. \A f \in Families : /\ Whole(since \cup relic, f, kernel'[f])
                          /\ Whole(since \cup relic, f, file'[f])
  BY <1>2, <1>3 DEF TableInv, TablesKnown, Whole
<1>5. Table(rows) \in since'
  BY <1>1 DEF Stopped, TableInv, TablesKnown
<1> QED
  BY <1>2, <1>3, <1>4, <1>5 DEF TablesKnown, StepsInstall

LEMMA TableStep == TableInv /\ [Next]_vars => TableInv'
<1> SUFFICES ASSUME TableInv, [Next]_vars PROVE TableInv'
  OBVIOUS
<1>1. Typed'
  BY TypedStep DEF TableInv
<1>2. TablesKnown' /\ StepsInstall'
  <2>1. ASSUME NEW r \in Requests, Submit(r) PROVE TablesKnown' /\ StepsInstall'
    BY <2>1 DEF Submit, TableInv, TablesKnown, StepsInstall, Payload, PutBack
  <2>2. CASE UNCHANGED vars
    BY <2>2 DEF vars, TableInv, TablesKnown, StepsInstall, Payload, PutBack
  <2> QED
    BY <2>1, <2>2, TakeKnown, StepKnown, RollbackKnown, RollbackFailsKnown, RolledBackKnown,
       ConfirmKnown, StartKnown, StoppedKnown DEF Next
<1> QED
  BY <1>1, <1>2 DEF TableInv

LEMMA TableInvariant == Spec => []TableInv
  BY TableInit, TableStep, PTL DEF Spec

-----------------------------------------------------------------------------
(* Every step of the service is one that ForwardingTable allows.           *)
Promised == Promise!Next \/ UNCHANGED <<Table(rows), since, relic, kernel>>

\* A step of a plan that goes on.
LEMMA LoadsWhole ==
  ASSUME TableInv, plan # NoPlan, Table(rows') = Table(rows), since' = since, relic' = relic,
         NEW F, kernel' \in {kernel, Put(F, kernel, Payload(plan))}
  PROVE  Promised
<1>1. Payload(plan) \in since \cup relic
  BY PayloadKnown DEF TableInv
<1>2. CASE kernel' = kernel
  BY <1>2 DEF Promised
<1>3. CASE kernel' = Put(F, kernel, Payload(plan))
  <2>1. PICK G \in SUBSET Families : G = F \cap Families
    OBVIOUS
  <2>2. kernel' = [f \in Families |-> IF f \in G THEN Of(f, Payload(plan)) ELSE kernel[f]]
    BY <1>3, <2>1 DEF Put
  <2>3. Promise!Load
    BY <1>1, <2>2 DEF Promise!Load, Promise!Known
  <2> QED
    BY <2>3 DEF Promised, Promise!Next
<1> QED
  BY <1>2, <1>3

\* A start ends, whatever it leaves in the kernel.
LEMMA StartEnds ==
  ASSUME Table(rows') = Table(rows), since' \in {since, since \cup relic}, relic' = {},
         \A f \in Families : Whole(since \cup relic, f, kernel'[f])
  PROVE  Promised
<1>1. \A f \in Families : kernel'[f] \in {Of(f, t) : t \in Promise!Known} \cup {Promise!Nothing}
  BY DEF Whole, Promise!Known, Promise!Nothing
<1>2. Promise!Boot
  BY <1>1 DEF Promise!Boot, Promise!Known
<1> QED
  BY <1>2 DEF Promised, Promise!Next

\* A plan ends without the table being confirmed.
LEMMA EndPromised ==
  ASSUME TableInv, plan # NoPlan, Table(rows') = Table(rows), since' = since \cup Relic(plan),
         relic' = IF plan.owner = Start THEN {} ELSE relic,
         NEW F, kernel' \in {kernel, Put(F, kernel, Payload(plan))}
  PROVE  Promised
<1>1. CASE plan.owner = Start
  <2>1. Payload(plan) \in since \cup relic
    BY PayloadKnown DEF TableInv
  <2>2. \A f \in Families : Whole(since \cup relic, f, kernel[f])
    BY DEF TableInv, TablesKnown
  <2>3. \A f \in Families : Whole(since \cup relic, f, Put(F, kernel, Payload(plan))[f])
    BY <2>1, <2>2, PutWhole
  <2> QED
    BY <1>1, <2>2, <2>3, StartEnds DEF Relic
<1>2. CASE plan.owner # Start
  BY <1>2, LoadsWhole DEF Relic
<1> QED
  BY <1>1, <1>2

LEMMA ConfirmPromised ==
  ASSUME TableInv, Confirm
  PROVE  Promised
<1>1. End("applied") /\ plan # NoPlan /\ kernel' = kernel
  BY DEF Confirm, Ready
<1>2. Table(rows') = Table(rows)
  BY ConfirmKnown
<1>3. relic' = IF plan.owner = Start THEN {} ELSE relic
  BY <1>1 DEF End
<1>4. CASE Outdated(plan)
  BY <1>1, <1>2, <1>3, <1>4, EndPromised DEF Confirm
<1>5. CASE ~Outdated(plan)
  <2>1. plan.wanted = Table(rows) /\ since' = {Table(rows)}
    BY <1>5 DEF Confirm, Outdated
  <2>2. kernel = [f \in Families |-> kernel[f]]
    BY DEF TableInv, Typed
  <2>3. kernel = [f \in Families |-> Of(f, Table(rows))]
    BY <2>1, <2>2, ReadyInstalled DEF Confirm
  <2>4. Promise!Confirm
    BY <1>1, <1>2, <1>3, <2>1, <2>3 DEF Promise!Confirm
  <2> QED
    BY <2>4 DEF Promised, Promise!Next
<1> QED
  BY <1>4, <1>5

LEMMA StepPromised ==
  ASSUME TableInv, Next
  PROVE  Promised
<1>1. ASSUME NEW r \in Requests, Submit(r) PROVE Promised
  BY <1>1 DEF Submit, Promised
<1>2. ASSUME NEW r \in Requests, Take(r) PROVE Promised
  <2>1. Promise!Save
    BY <1>2 DEF Take, Promise!Save
  <2> QED
    BY <2>1 DEF Promised, Promise!Next
<1>3. CASE Step
  <2>1. PICK F : kernel' = Put(F, kernel, Payload(plan))
    BY <1>3 DEF Step
  <2> QED
    BY <1>3, <2>1, LoadsWhole DEF Step
<1>4. CASE StepFails
  <2>1. PICK F : kernel' \in {kernel, Put(F, kernel, Payload(plan))}
    BY <1>4, FailsLeaves DEF StepFails
  <2> QED
    BY <1>4, <2>1, FailsLeaves, LoadsWhole DEF StepFails
<1>5. CASE RollbackFails
  <2>1. PICK F : kernel' \in {kernel, Put(F, kernel, Payload(plan))}
    BY <1>5, FailsLeaves DEF RollbackFails
  <2>2. plan # NoPlan /\ Table(rows') = Table(rows)
    BY <1>5, FailsLeaves, RollbackFailsKnown DEF RollbackFails
  <2> QED
    BY <1>5, <2>1, <2>2, EndPromised DEF RollbackFails
<1>6. CASE RolledBack
  <2>1. plan # NoPlan /\ Table(rows') = Table(rows) /\ kernel' = kernel
    BY <1>6, RolledBackKnown DEF RolledBack, Ready
  <2> QED
    BY <1>6, <2>1, EndPromised DEF RolledBack, End
<1>7. CASE VerifyFails \/ StartPanel \/ ReassertTakes
  BY <1>7 DEF VerifyFails, StartPanel, ReassertTakes, Promised
<1>8. CASE ReassertReads
  <2>1. CASE relic' = relic
    BY <1>8, <2>1 DEF ReassertReads, Promised
  <2>2. CASE relic' = {Table(rows)}
    <3>1. Promise!Start
      BY <1>8, <2>2 DEF ReassertReads, Promise!Start
    <3> QED
      BY <3>1 DEF Promised, Promise!Next
  <2> QED
    BY <1>8, <2>1, <2>2 DEF ReassertReads
<1>9. CASE Crash \/ Reboot
  <2>1. Stopped
    BY <1>9 DEF Crash, Reboot
  <2>2. \A f \in Families : Whole(since \cup relic, f, kernel'[f])
    BY <1>9, StoppedKnown DEF TableInv, TablesKnown, Whole
  <2> QED
    BY <2>1, <2>2, StartEnds DEF Stopped
<1> QED
  BY <1>1, <1>2, <1>3, <1>4, <1>5, <1>6, <1>7, <1>8, <1>9, ConfirmPromised DEF Next

LEMMA InitPromised == Init => Promise!Init
<1> SUFFICES ASSUME Init PROVE Promise!Init
  OBVIOUS
<1>1. Table(rows) = {}
  BY DEF Init, Table, Enabled, Live
<1>2. kernel = [f \in Families |-> {}]
  BY DEF Init, View, Of
<1> QED
  BY <1>1, <1>2 DEF Init, Promise!Init, Promise!Nothing

(* The service implements ForwardingTable (service.go, plan.go): whichever *)
(* request, start, step, rollback, crash or reboot comes in between, each  *)
(* family of the kernel's ruleset is one whole table saved since the last  *)
(* confirmed one.                                                          *)
THEOREM ServiceFollowsTheTable == Spec => FollowsTheTable
<1>1. TableInv /\ [Next]_vars => [Promise!Next]_(Promise!tableVars)
  <2> SUFFICES ASSUME TableInv, [Next]_vars PROVE [Promise!Next]_(Promise!tableVars)
    OBVIOUS
  <2>1. CASE Next
    BY <2>1, StepPromised DEF Promised, Promise!tableVars
  <2>2. CASE UNCHANGED vars
    <3>1. UNCHANGED <<rows, since, relic, kernel>>
      BY <2>2 DEF vars
    <3> QED
      BY <3>1 DEF Promise!tableVars, Table, Enabled, Live
  <2> QED
    BY <2>1, <2>2
<1> QED
  BY <1>1, InitPromised, TableInvariant, PTL DEF Spec, FollowsTheTable, Promise!Spec

-----------------------------------------------------------------------------
(* What is marked applied is relayed.                                      *)
Relayed == \A e \in Table(rows) : rows[e.id].status = "applied" => e \in kernel[FamilyOf[e.cfg]]

(* Also while the panel starts or is down: what holds between two plans.   *)
StatusInv == TableInv /\ (plan = NoPlan /\ ~silent => Relayed)

LEMMA SomePlan ==
  ASSUME NEW p, PlanTyped(p)
  PROVE  p # NoPlan
<1>1. p.owner \in Requests \cup {Start}
  BY DEF PlanTyped
<1>2. NoPlan.owner \notin Requests \cup {Start}
  BY RouteServiceAssumption DEF NoPlan, Start
<1> QED
  BY <1>1, <1>2

LEMMA TableHas ==
  ASSUME NEW rs, RowsTyped(rs), NEW e \in Table(rs)
  PROVE  /\ e.id \in Enabled(rs) /\ e.id \in Ids /\ FamilyOf[e.cfg] \in Families
         /\ e = [id |-> e.id, cfg |-> rs[e.id].cfg, at |-> rs[e.id].at]
<1>1. PICK i \in Enabled(rs) : e = [id |-> i, cfg |-> rs[i].cfg, at |-> rs[i].at]
  BY DEF Table
<1>2. i \in Ids /\ rs[i].cfg \in Cfgs
  BY <1>1 DEF RowsTyped, RowAt, Enabled, Live
<1> QED
  BY <1>1, <1>2, RouteServiceAssumption DEF Families

\* Whoever marks all enabled rules with another status promises nothing of them.
LEMMA OtherwiseMarked ==
  ASSUME NEW rs, RowsTyped(rs), NEW s \in Statuses, s # "applied", NEW S, Enabled(rs) \subseteq S,
         rows' = Marked(rs, S, s)
  PROVE  Relayed'
<1>1. /\ \A i \in Ids : rows'[i].status = IF i \in S THEN s ELSE rs[i].status
      /\ Table(rows') = Table(rs)
  BY MarkedRows
<1>2. \A e \in Table(rs) : e.id \in Ids /\ e.id \in S
  BY TableHas
<1> QED
  BY <1>1, <1>2 DEF Relayed

LEMMA WantedAreEnabled ==
  ASSUME ~Outdated(plan)
  PROVE  Enabled(rows) \subseteq InTable(plan.wanted)
<1>1. plan.wanted = Table(rows)
  BY DEF Outdated
<1>2. ASSUME NEW i \in Enabled(rows) PROVE i \in InTable(Table(rows))
  <2>1. [id |-> i, cfg |-> rows[i].cfg, at |-> rows[i].at] \in Table(rows)
    BY DEF Table
  <2> QED
    BY <2>1 DEF InTable
<1> QED
  BY <1>1, <1>2

LEMMA TakeStatus ==
  ASSUME StatusInv, NEW r \in Requests, Take(r), plan' = NoPlan, ~silent'
  PROVE  Relayed'
<1>1. PICK a : a = waiting[r]
  OBVIOUS
<1>2. /\ plan = NoPlan /\ kernel' = kernel /\ backend \in {"nftables", "iptables"}
      /\ RowsTyped(rows) /\ waiting[r] \in Asks
      /\ Begin(r, a) \/ Refuse(r, a) \/ Duplicate(r, a) \/ PlanFails(r, a) \/ GuardRefuses(r, a)
  BY <1>1 DEF Take, StatusInv, TableInv, Typed
<1>3. CASE Begin(r, a)
  <2>1. PICK w, b : plan' = NewPlan(r, w, b)
    BY <1>3 DEF Begin
  <2> QED
    BY <1>2, <2>1, PlanIs, SomePlan
<1>4. CASE Refuse(r, a)
  BY <1>2, <1>4 DEF Refuse, StatusInv, Relayed, Table, Enabled, Live
<1>5. CASE Duplicate(r, a)
  <2>1. rows' = Insert(a) /\ ~silent
    BY <1>5 DEF Duplicate
  <2>2. PICK places : rows \in [Ids -> RowAt(places)]
    BY <1>2 DEF RowsTyped
  <2>3. \A i \in Ids : rows'[i] = rows[i] \/ rows'[i].status = "pending"
    BY <2>1, <2>2 DEF Insert
  <2>4. ASSUME NEW e \in Table(rows'), rows'[e.id].status = "applied"
        PROVE  e \in Table(rows) /\ rows[e.id].status = "applied"
    <3>0. RowsTyped(rows')
      BY <1>1, <1>2, <2>1, WrittenTyped
    <3>1. /\ e.id \in Enabled(rows') /\ e.id \in Ids
          /\ e = [id |-> e.id, cfg |-> rows'[e.id].cfg, at |-> rows'[e.id].at]
      BY <3>0, <2>4, TableHas
    <3>2. rows'[e.id] = rows[e.id]
      BY <2>3, <2>4, <3>1
    <3>3. e.id \in Enabled(rows)
      BY <3>1, <3>2 DEF Enabled, Live
    <3> QED
      BY <2>4, <3>1, <3>2, <3>3 DEF Table
  <2> QED
    BY <1>2, <2>1, <2>4 DEF StatusInv, Relayed
<1>6. CASE PlanFails(r, a)
  BY <1>6 DEF PlanFails
<1>7. CASE GuardRefuses(r, a)
  <2>1. RowsTyped(Written(a)) /\ rows' = Marked(Written(a), Enabled(Written(a)), "failed")
    BY <1>1, <1>2, <1>7, WrittenTyped DEF GuardRefuses
  <2> QED
    BY <2>1, OtherwiseMarked DEF Statuses
<1> QED
  BY <1>2, <1>3, <1>4, <1>5, <1>6, <1>7

LEMMA StatusStep == StatusInv /\ [Next]_vars => StatusInv'
<1> SUFFICES ASSUME StatusInv, [Next]_vars, plan' = NoPlan, ~silent' PROVE Relayed'
  BY TableStep DEF StatusInv
<1>0. RowsTyped(rows) /\ TableInv /\ (plan # NoPlan => PlanTyped(plan)) /\ Typed'
  BY TypedStep DEF StatusInv, TableInv, Typed
\* An action that leaves the plan, the rows and the kernel alone.
<1>1. ASSUME plan' = plan, rows' = rows, kernel' = kernel, silent' = silent PROVE Relayed'
  BY <1>1 DEF StatusInv, Relayed
<1>2. ASSUME NEW r \in Requests, Submit(r) PROVE Relayed'
  BY <1>1, <1>2 DEF Submit
<1>3. CASE Step \/ StepFails \/ VerifyFails
  <2>1. plan # NoPlan /\ PlanTyped(plan)
    BY <1>0, <1>3, FailsLeaves DEF Step, StepFails, VerifyFails, Ready
  <2>2. plan'.owner = plan.owner
    BY <1>3, <2>1 DEF Step, StepFails, VerifyFails, Rollback, PlanTyped
  <2>3. plan.owner \in Requests \cup {Start}
    BY <2>1 DEF PlanTyped
  <2> QED
    BY <2>2, <2>3, RouteServiceAssumption DEF NoPlan, Start
<1>4. CASE RollbackFails
  <2>1. PICK S : /\ rows' = Marked(rows, S, "inconsistent")
                 /\ silent' = (silent \/ Outdated(plan) \/ S # InTable(plan.wanted))
    BY <1>4 DEF RollbackFails
  <2>2. Enabled(rows) \subseteq S
    BY <2>1, WantedAreEnabled
  <2> QED
    BY <1>0, <2>1, <2>2, OtherwiseMarked DEF Statuses
<1>5. ASSUME NEW s, End(s)
      PROVE  ~Outdated(plan) /\ rows' = Marked(rows, InTable(plan.wanted), s)
  BY <1>5 DEF End
<1>6. CASE RolledBack
  <2>1. ~Outdated(plan) /\ rows' = Marked(rows, InTable(plan.wanted), "failed")
    BY <1>5, <1>6 DEF RolledBack
  <2> QED
    BY <1>0, <2>1, WantedAreEnabled, OtherwiseMarked DEF Statuses
<1>7. CASE Confirm
  <2>1. plan.wanted = Table(rows)
    BY <1>5, <1>7 DEF Confirm, Outdated
  <2>2. Table(rows') = Table(rows) /\ kernel' = kernel
    BY <1>0, <1>7, ConfirmKnown DEF Confirm
  <2>3. \A f \in Families : kernel[f] = Of(f, Table(rows))
    BY <1>0, <1>7, <2>1, ReadyInstalled DEF Confirm
  <2>4. \A e \in Table(rows) : e \in kernel[FamilyOf[e.cfg]]
    BY <1>0, <2>3, TableHas DEF Of
  <2> QED
    BY <2>2, <2>4 DEF Relayed
<1>8. CASE StartPanel \/ ReassertReads
  BY <1>1, <1>8 DEF StartPanel, ReassertReads
<1>9. CASE ReassertTakes
  <2>1. PICK w, b : plan' = NewPlan(Start, w, b)
    BY <1>9 DEF ReassertTakes
  <2> QED
    BY <1>0, <2>1, PlanIs, SomePlan DEF TableInv, Typed
<1>10. CASE Crash \/ Reboot
  BY <1>10 DEF Crash, Reboot, Stopped
<1>11. CASE UNCHANGED vars
  BY <1>1, <1>11 DEF vars
<1> QED
  BY <1>2, <1>3, <1>4, <1>6, <1>7, <1>8, <1>9, <1>10, <1>11, TakeStatus DEF Next

(* While no request is at work, an enabled rule marked applied is in the   *)
(* kernel with the content and the place of its row (service.go, the       *)
(* status a plan ends with), for any requests, rules, backends and faults. *)
THEOREM AppliedRelayed == Spec => []AppliedIsRelayed
<1>1. Init => StatusInv
  <2>1. Init => Table(rows) = {}
    BY DEF Init, Table, Enabled, Live
  <2> QED
    BY <2>1, TableInit DEF StatusInv, Relayed
<1>2. StatusInv => AppliedIsRelayed
  BY DEF StatusInv, Relayed, AppliedIsRelayed
<1> QED
  BY <1>1, <1>2, StatusStep, PTL DEF Spec
=============================================================================

----------------------------- MODULE Panel_proofs -----------------------------
(***************************************************************************)
(* Parts of the panel, proved for every value of their constants: for each *)
(* the invariant its module gives begins to hold and is kept, and at the   *)
(* end the parts are put together. The parts share no state, so a step of  *)
(* the panel is a step of the part the behaviour is about; s1, s2, ... are *)
(* that part's variables in the order each section lists them.             *)
(***************************************************************************)
EXTENDS Panel, FiniteSetTheorems, WellFoundedInduction, TLAPS

-----------------------------------------------------------------------------
(* Accounting: truth, kernel, volume, row, dirty, work, overtaken.         *)
LEMMA AccountingBegins == Accounting!Init => Accounting!Accounted
<1> SUFFICES ASSUME Accounting!Init PROVE Accounting!Accounted
  OBVIOUS
<1> USE DEF Accounting!Init
<1>1. Accounting!Unknown \in Accounting!Volumes
  BY DEF Accounting!Unknown, Accounting!Volumes
<1>2. \A w \in Accounting!Workers : s6[w] = Accounting!Idle
  OBVIOUS
<1>3. \A w \in Accounting!Workers :
        Accounting!JobKnown(s6[w]) /\ Accounting!JobWithin(s6[w])
  BY <1>2 DEF Accounting!Idle, Accounting!JobKnown, Accounting!JobWithin
<1>4. s6 = [w \in Accounting!Workers |-> s6[w]]
  OBVIOUS
<1>5. Accounting!Within(s3) /\ Accounting!Within(s4)
  BY DEF Accounting!Unknown, Accounting!Within, Accounting!Moved
<1>6. QED
  BY <1>1, <1>3, <1>4, <1>5 DEF Accounting!Accounted

(* The step gives one worker another job and leaves the other what it had. *)
LEMMA AccountingDoes ==
    ASSUME NEW w \in Accounting!Workers, NEW job, Accounting!Does(w, job),
           s6 = [v \in Accounting!Workers |-> s6[v]]
    PROVE  /\ s6' = [v \in Accounting!Workers |-> s6'[v]]
           /\ s6'[w] = job
           /\ \A v \in Accounting!Workers : v # w => s6'[v] = s6[v]
BY SMTT(40) DEF Accounting!Does

LEMMA AccountingKeeps ==
    Accounting!Accounted /\ [Accounting!Next]_(Accounting!vars) => Accounting!Accounted'
<1> SUFFICES ASSUME Accounting!Accounted, [Accounting!Next]_(Accounting!vars)
             PROVE  Accounting!Accounted'
  OBVIOUS
<1> USE DEF Accounting!Accounted, Accounting!Volumes, Accounting!JobKnown,
            Accounting!JobWithin, Accounting!Within, Accounting!Moved,
            Accounting!MovedAfter
<1>1. CASE Accounting!Relay
  BY <1>1 DEF Accounting!Relay
<1>2. CASE Accounting!Rebuild
  <2>1. Accounting!Does("service", Accounting!Idle)
    BY <1>2 DEF Accounting!Rebuild
  <2>2. /\ s6' = [v \in Accounting!Workers |-> s6'[v]]
        /\ s6'["service"].at = "idle"
        /\ \A v \in Accounting!Workers : v # "service" => s6'[v] = s6[v]
    BY <2>1, AccountingDoes DEF Accounting!Workers, Accounting!Idle
  <2>3. QED
    BY <1>2, <2>2 DEF Accounting!Rebuild
<1>3. CASE Accounting!Stop
  BY <1>3 DEF Accounting!Stop, Accounting!Load, Accounting!Idle
<1>4. ASSUME NEW reboot \in BOOLEAN, Accounting!Crash(reboot)
      PROVE  Accounting!Accounted'
  <2>1. /\ s6' = [v \in Accounting!Workers |-> s6'[v]]
        /\ \A v \in Accounting!Workers : s6'[v].at = "idle"
    BY <1>4 DEF Accounting!Crash, Accounting!Load, Accounting!Idle
  <2>2. s3' = s4 /\ s5' \in BOOLEAN /\ s2' \in {0, s2} /\ UNCHANGED <<s1, s4, s7>>
    BY <1>4 DEF Accounting!Crash, Accounting!Load
  <2>3. ~s7 => Accounting!Within(s4)'
    BY <2>2
  <2>4. QED
    BY <2>1, <2>2, <2>3
<1>5. ASSUME NEW w \in Accounting!Workers, Accounting!Sample(w)
      PROVE  Accounting!Accounted'
  <2>1. CASE Accounting!Does(w, [at |-> "fold", raw |-> s2, late |-> FALSE])
    <3>1. /\ s6' = [v \in Accounting!Workers |-> s6'[v]]
          /\ s6'[w] = [at |-> "fold", raw |-> s2, late |-> FALSE]
          /\ \A v \in Accounting!Workers : v # w => s6'[v] = s6[v]
      BY <2>1, AccountingDoes
    <3>2. /\ s6'[w] \in [at : {"fold"}, raw : Nat, late : BOOLEAN]
          /\ s6'[w].at = "fold" /\ s6'[w].raw = s2
      BY <3>1
    <3>3. UNCHANGED <<s1, s2, s3, s4, s5, s7>>
      BY <1>5 DEF Accounting!Sample
    <3>4. \A v \in Accounting!Workers : Accounting!JobKnown(s6[v])'
      BY <3>1, <3>2, <3>3
    <3>5. ~s7 => \A v \in Accounting!Workers : Accounting!JobWithin(s6[v])'
      BY <3>1, <3>2, <3>3
    <3>6. QED
      BY <3>1, <3>3, <3>4, <3>5
  <2>2. CASE Accounting!Does(w, [at |-> "flush"])
    <3>1. /\ s6' = [v \in Accounting!Workers |-> s6'[v]]
          /\ s6'[w].at = "flush"
          /\ \A v \in Accounting!Workers : v # w => s6'[v] = s6[v]
      BY <2>2, AccountingDoes
    <3>2. QED
      BY <1>5, <3>1 DEF Accounting!Sample
  <2>3. QED
    BY <1>5, <2>1, <2>2 DEF Accounting!Sample
<1>6. ASSUME NEW w \in Accounting!Workers, Accounting!Observe(w)
      PROVE  Accounting!Accounted'
  <2>1. /\ s6' = [v \in Accounting!Workers |-> s6'[v]]
        /\ s6'[w].at \in {"idle", "flush"}
        /\ \A v \in Accounting!Workers : v # w =>
             IF s6[v].at = "fold" THEN s6'[v] = [s6[v] EXCEPT !.late = TRUE]
             ELSE s6'[v] = s6[v]
    BY <1>6 DEF Accounting!Observe, Accounting!Idle
  <2>2. \A v \in Accounting!Workers : v # w /\ s6[v].at = "fold" =>
          s6'[v] \in [at : {"fold"}, raw : Nat, late : {TRUE}]
    <3> SUFFICES ASSUME NEW v \in Accounting!Workers, v # w, s6[v].at = "fold"
                 PROVE  s6'[v] \in [at : {"fold"}, raw : Nat, late : {TRUE}]
      OBVIOUS
    <3>1. s6[v] \in [at : {"fold"}, raw : Nat, late : BOOLEAN]
      OBVIOUS
    <3>2. s6'[v] = [s6[v] EXCEPT !.late = TRUE]
      BY <2>1
    <3>3. QED
      BY ONLY <3>1, <3>2
  <2>3. /\ s3' = [known |-> TRUE, last |-> s6[w].raw,
                  total |-> s3.total + Accounting!Moved(s3, s6[w].raw)]
        /\ s6[w].at = "fold" /\ s6[w] \in [at : {"fold"}, raw : Nat, late : BOOLEAN]
        /\ s5' \in BOOLEAN /\ UNCHANGED <<s1, s2, s4>>
        /\ s7' = (s7 \/ s6[w].late)
    BY <1>6 DEF Accounting!Observe
  <2>4. s3' \in Accounting!Volumes
    BY <2>3
  <2>5. \A v \in Accounting!Workers : Accounting!JobKnown(s6[v])'
    BY <2>1, <2>2
  <2>6. ~s7' => Accounting!Within(s3)' /\ Accounting!Within(s4)'
    BY <2>3
  <2>7. ~s7' => \A v \in Accounting!Workers : Accounting!JobWithin(s6[v])'
    BY <2>1, <2>2, <2>3
  <2>8. QED
    BY <2>1, <2>3, <2>4, <2>5, <2>6, <2>7
<1>7. ASSUME NEW w \in Accounting!Workers, Accounting!Flush(w)
      PROVE  Accounting!Accounted'
  <2>1. Accounting!Does(w, [at |-> "save", some |-> s5, volume |-> s3])
    BY <1>7 DEF Accounting!Flush
  <2>2. /\ s6' = [v \in Accounting!Workers |-> s6'[v]]
        /\ s6'[w] = [at |-> "save", some |-> s5, volume |-> s3]
        /\ \A v \in Accounting!Workers : v # w => s6'[v] = s6[v]
    BY <2>1, AccountingDoes
  <2>3. /\ s6'[w] \in [at : {"save"}, some : BOOLEAN, volume : Accounting!Volumes]
        /\ s6'[w].at = "save" /\ s6'[w].volume = s3
    BY <2>2
  <2>4. s5' = FALSE /\ UNCHANGED <<s1, s2, s3, s4, s7>>
    BY <1>7 DEF Accounting!Flush
  <2>5. \A v \in Accounting!Workers : Accounting!JobKnown(s6[v])'
    BY <2>2, <2>3
  <2>6. ~s7 => \A v \in Accounting!Workers : Accounting!JobWithin(s6[v])'
    BY <2>2, <2>3, <2>4
  <2>7. QED
    BY <2>2, <2>4, <2>5, <2>6
<1>8. ASSUME NEW w \in Accounting!Workers, Accounting!Saved(w)
      PROVE  Accounting!Accounted'
  BY ZenonT(60), <1>8 DEF Accounting!Saved, Accounting!Save, Accounting!Does, Accounting!Idle
<1>9. CASE UNCHANGED Accounting!vars
  BY <1>9 DEF Accounting!vars
<1>10. QED
  BY <1>1, <1>2, <1>3, <1>4, <1>5, <1>6, <1>7, <1>8, <1>9 DEF Accounting!Next

-----------------------------------------------------------------------------
(* Destinations: truth, flows, seen, dest, row, dirty, work, truncated.    *)
LEMMA MovedIs ==
    ASSUME NEW was, NEW now
    PROVE  /\ \A x \in Destinations!Moved(was, now) :
                \E k \in DestinationsKeys :
                  \E b \in Destinations!MovedBy(was[k], now[k]) : x = <<k, b>>
           /\ \A k \in DestinationsKeys : \A b \in Destinations!MovedBy(was[k], now[k]) :
                <<k, b>> \in Destinations!Moved(was, now)
BY DEF Destinations!Moved

(* The size of a set, in the module of a part and here.                    *)
LEMMA SameSize == \A S : Destinations!Cardinality(S) = Cardinality(S)
BY DEF Destinations!Cardinality, Cardinality

(* What a connection moved is a finite set of bytes, and so is the whole.  *)
LEMMA MovedFinite ==
    ASSUME NEW was \in [DestinationsKeys -> Int], NEW now \in [DestinationsKeys -> Int]
    PROVE  /\ IsFiniteSet(Destinations!Moved(was, now))
           /\ Cardinality(Destinations!Moved(was, now)) \in Nat
<1>1. PICK f : f = [k \in DestinationsKeys |-> {k} \X Destinations!MovedBy(was[k], now[k])]
  OBVIOUS
<1>2. PICK S : S = {{k} \X Destinations!MovedBy(was[k], now[k]) : k \in DestinationsKeys}
  OBVIOUS
<1>3. f \in Surjection(DestinationsKeys, S)
  BY <1>1, <1>2 DEF Surjection
<1>4. IsFiniteSet(S)
  BY <1>3, FS_Surjection, DestinationsAssumption
<1>5. ASSUME NEW k \in DestinationsKeys
      PROVE  IsFiniteSet({k} \X Destinations!MovedBy(was[k], now[k]))
  <2>1. IsFiniteSet(Destinations!MovedBy(was[k], now[k]))
    <3>1. was[k] \in Int /\ now[k] \in Int /\ was[k] + 1 \in Int /\ 1 \in Int
      OBVIOUS
    <3>2. IsFiniteSet(1..now[k]) /\ IsFiniteSet((was[k] + 1)..now[k])
      BY <3>1, FS_Interval
    <3>3. QED
      BY <3>2, FS_EmptySet DEF Destinations!MovedBy
  <2>2. QED
    BY <2>1, FS_Singleton, FS_Product
<1>6. \A T \in S : IsFiniteSet(T)
  BY <1>2, <1>5
<1>7. IsFiniteSet(Destinations!Moved(was, now))
  BY <1>2, <1>4, <1>6, FS_UNION DEF Destinations!Moved
<1>8. QED
  BY <1>7, FS_CardinalityType

LEMMA PendingFinite ==
    ASSUME Destinations!DestinationsInv
    PROVE  /\ IsFiniteSet(Destinations!Pending)
           /\ Cardinality(Destinations!Pending) \in Nat
<1>1. s2 \in [DestinationsKeys -> Int] /\ s3 \in [DestinationsKeys -> Int]
  BY DEF Destinations!DestinationsInv, Destinations!Counts, Destinations!Gone, Destinations!NotRead
<1>2. CASE s7["loop"].at = "list"
  <2>1. s7["loop"] \in Destinations!Jobs
    BY DEF Destinations!DestinationsInv, Destinations!Workers
  <2>2. s7["loop"].flows \in [DestinationsKeys -> Int]
    BY <1>2, <2>1 DEF Destinations!Jobs, Destinations!Idle, Destinations!Counts, Destinations!Gone
  <2>3. IsFiniteSet(Destinations!Pending)
    BY <1>1, <1>2, <2>2, MovedFinite, FS_Union DEF Destinations!Pending
  <2>4. QED
    BY <2>3, FS_CardinalityType
<1>3. CASE s7["loop"].at # "list"
  BY <1>1, <1>3, MovedFinite DEF Destinations!Pending
<1>4. QED
  BY <1>2, <1>3

(* A step after which no more waits to be folded, or one byte more, has no *)
(* more, or one more, to add.                                              *)
LEMMA PendingLess ==
    ASSUME Destinations!DestinationsInv, Destinations!Pending' \subseteq Destinations!Pending
    PROVE  /\ Cardinality(Destinations!Pending') <= Cardinality(Destinations!Pending)
           /\ Cardinality(Destinations!Pending') \in Nat
BY PendingFinite, FS_Subset, FS_CardinalityType

LEMMA PendingOneMore ==
    ASSUME Destinations!DestinationsInv, NEW x,
           Destinations!Pending' \subseteq Destinations!Pending \cup {x}
    PROVE  /\ Cardinality(Destinations!Pending') <= Cardinality(Destinations!Pending) + 1
           /\ Cardinality(Destinations!Pending') \in Nat
<1>1. /\ IsFiniteSet(Destinations!Pending \cup {x})
      /\ Cardinality(Destinations!Pending \cup {x}) <= Cardinality(Destinations!Pending) + 1
      /\ Cardinality(Destinations!Pending \cup {x}) \in Nat
  BY PendingFinite, FS_AddElement, FS_CardinalityType
<1>2. PICK A : A = Destinations!Pending \cup {x}
  OBVIOUS
<1>3. /\ IsFiniteSet(A) /\ Destinations!Pending' \in SUBSET A
      /\ Cardinality(A) <= Cardinality(Destinations!Pending) + 1 /\ Cardinality(A) \in Nat
  BY <1>1, <1>2
<1>4. IsFiniteSet(Destinations!Pending') /\ Cardinality(Destinations!Pending') <= Cardinality(A)
  BY <1>3, FS_Subset
<1>5. Cardinality(Destinations!Pending') \in Nat
  BY <1>4, FS_CardinalityType
<1>6. QED
  BY <1>3, <1>4, <1>5, PendingFinite

LEMMA NothingMoves ==
    /\ \A now : Destinations!Moved(Destinations!NeverRead, now) = {}
    /\ \A was \in Destinations!Counts : Destinations!Moved(was, was) = {}
<1>1. \A now : Destinations!Moved(Destinations!NeverRead, now) = {}
  BY MovedIs DEF Destinations!NeverRead, Destinations!MovedBy
<1>2. ASSUME NEW was \in Destinations!Counts PROVE Destinations!Moved(was, was) = {}
  <2>1. \A k \in DestinationsKeys : Destinations!MovedBy(was[k], was[k]) = {}
    BY DEF Destinations!MovedBy, Destinations!Counts, Destinations!Gone, Destinations!NotRead
  <2>2. QED
    BY <2>1, MovedIs
<1>3. QED
  BY <1>1, <1>2

LEMMA DestinationsBegin == Destinations!Init => Destinations!DestinationsInv
<1> SUFFICES ASSUME Destinations!Init PROVE Destinations!DestinationsInv
  OBVIOUS
<1> USE DEF Destinations!Init
<1>1. /\ s7 \in [Destinations!Workers -> Destinations!Jobs] /\ s7["loop"].at = "idle"
      /\ \A w \in Destinations!Workers : s7[w].at = "idle"
  <2>1. Destinations!Idle \in Destinations!Jobs /\ Destinations!Idle.at = "idle"
    BY DEF Destinations!Jobs, Destinations!Idle
  <2>2. QED
    BY <2>1 DEF Destinations!Workers
<1>2. s2 \in Destinations!Counts
      /\ s3 \in [DestinationsKeys -> Nat \cup {Destinations!Gone, Destinations!NotRead}]
  BY DEF Destinations!Counts, Destinations!NeverRead
<1>3. Destinations!Pending = {}
  <2>1. s3 = Destinations!NeverRead
    OBVIOUS
  <2>2. Destinations!Pending = Destinations!Moved(s3, s2)
    BY <1>1 DEF Destinations!Pending
  <2>3. QED
    BY <2>1, <2>2, NothingMoves
<1>4. Cardinality(Destinations!Pending) = 0
  BY <1>3, FS_EmptySet
<1>5. Destinations!Cardinality(Destinations!Pending) = 0
  BY <1>4, SameSize
<1>6. s4 + Destinations!Cardinality(Destinations!Pending) <= s1
  BY <1>5
<1>7. \A w \in Destinations!Workers : s7[w].at = "save" => s7[w].dest <= s1
  BY <1>1
<1>8. s5 <= s1 /\ s1 \in Nat /\ s4 \in Nat /\ s5 \in Nat /\ s6 \in BOOLEAN /\ s8 \in BOOLEAN
  <2>1. s1 = 0 /\ s4 = 0 /\ s5 = 0
    OBVIOUS
  <2>2. s6 \in BOOLEAN /\ s8 \in BOOLEAN
    BY Zenon
  <2>3. s5 <= s1 /\ s1 \in Nat /\ s4 \in Nat /\ s5 \in Nat
    BY <2>1
  <2>4. QED
    BY <2>2, <2>3
<1> HIDE DEF Destinations!Init
<1>9. QED
  BY <1>1, <1>2, <1>6, <1>7, <1>8 DEF Destinations!DestinationsInv

(* The step gives one worker another job and leaves the other what it had. *)
LEMMA DestinationsDo ==
    ASSUME Destinations!DestinationsInv, NEW w \in Destinations!Workers,
           NEW job \in Destinations!Jobs, Destinations!Does(w, job)
    PROVE  /\ s7' \in [Destinations!Workers -> Destinations!Jobs]
           /\ s7'[w] = job
           /\ \A v \in Destinations!Workers : v # w => s7'[v] = s7[v]
BY DEF Destinations!DestinationsInv, Destinations!Does

(* A packet adds one byte to what waits: the connection's last.            *)
LEMMA RelayAddsOne ==
    ASSUME Destinations!DestinationsInv, NEW k \in DestinationsKeys, Destinations!Relay(k)
    PROVE  Destinations!Pending' \subseteq Destinations!Pending \cup {<<k, s2'[k]>>}
<1>1. /\ s2 \in Destinations!Counts
      /\ s2' = [s2 EXCEPT ![k] = IF @ = Destinations!Gone THEN 1 ELSE @ + 1]
      /\ s3' = s3 /\ s7' = s7
  BY DEF Destinations!DestinationsInv, Destinations!Relay
<1>2. ASSUME NEW was \in [DestinationsKeys -> Nat \cup {Destinations!Gone, Destinations!NotRead}]
      PROVE  Destinations!Moved(was, s2') \subseteq Destinations!Moved(was, s2) \cup {<<k, s2'[k]>>}
  <2>1. ASSUME NEW i \in DestinationsKeys, NEW b \in Destinations!MovedBy(was[i], s2'[i]),
               <<i, b>> # <<k, s2'[k]>>
        PROVE  b \in Destinations!MovedBy(was[i], s2[i])
    <3>1. CASE i # k
      BY <1>1, <2>1, <3>1 DEF Destinations!Counts
    <3>2. CASE i = k
      <4>1. b # s2'[k] /\ b \in Int /\ s2'[k] \in Nat /\ s2'[k] >= 0
        BY <1>1, <2>1, <3>2 DEF Destinations!Counts, Destinations!MovedBy, Destinations!Gone
      <4>2. CASE s2[k] = Destinations!Gone
        BY <1>1, <2>1, <3>2, <4>1, <4>2 DEF Destinations!Counts, Destinations!MovedBy, Destinations!Gone,
           Destinations!NotRead
      <4>3. CASE s2[k] # Destinations!Gone
        BY <1>1, <2>1, <3>2, <4>1, <4>3 DEF Destinations!Counts, Destinations!MovedBy, Destinations!Gone,
           Destinations!NotRead
      <4>4. QED
        BY <4>2, <4>3
    <3>3. QED
      BY <3>1, <3>2
  <2>2. QED
    BY <2>1, MovedIs
<1>3. s3 \in [DestinationsKeys -> Nat \cup {Destinations!Gone, Destinations!NotRead}]
  BY DEF Destinations!DestinationsInv, Destinations!Gone, Destinations!NotRead
<1>4. ASSUME s7["loop"].at = "list" PROVE s7["loop"].flows \in [DestinationsKeys -> Nat \cup {Destinations!Gone, Destinations!NotRead}]
  <2>1. s7["loop"] \in Destinations!Jobs
    BY DEF Destinations!DestinationsInv, Destinations!Workers
  <2>2. QED
    BY <1>4, <2>1 DEF Destinations!Jobs, Destinations!Idle, Destinations!Counts, Destinations!Gone
<1>5. CASE s7["loop"].at = "list"
  BY <1>1, <1>2, <1>4, <1>5 DEF Destinations!Pending
<1>6. CASE s7["loop"].at # "list"
  BY <1>1, <1>2, <1>3, <1>6 DEF Destinations!Pending
<1>7. QED
  BY <1>5, <1>6

(* What the invariant says, with the library's Cardinality.                *)
DestinationsKnown ==
    /\ s1 \in Nat /\ s2 \in Destinations!Counts
    /\ s3 \in [DestinationsKeys -> Nat \cup {Destinations!Gone, Destinations!NotRead}]
    /\ s4 \in Nat /\ s5 \in Nat /\ s6 \in BOOLEAN /\ s8 \in BOOLEAN
    /\ s7 \in [Destinations!Workers -> Destinations!Jobs]
DestinationsBounded ==
    /\ s4 + Cardinality(Destinations!Pending) <= s1 /\ s5 <= s1
    /\ \A w \in Destinations!Workers : s7[w].at = "save" => s7[w].dest <= s1

LEMMA DestinationsSaid ==
    /\ Destinations!DestinationsInv <=> DestinationsKnown /\ (s8 \/ DestinationsBounded)
    /\ Destinations!DestinationsInv' <=> DestinationsKnown' /\ (s8' \/ DestinationsBounded')
<1>1. /\ Destinations!Cardinality(Destinations!Pending) = Cardinality(Destinations!Pending)
      /\ Destinations!Cardinality(Destinations!Pending') = Cardinality(Destinations!Pending')
  BY SameSize
<1>2. Destinations!DestinationsInv <=> DestinationsKnown /\ (s8 \/ DestinationsBounded)
  BY <1>1 DEF Destinations!DestinationsInv, DestinationsKnown, DestinationsBounded
<1>3. Destinations!DestinationsInv' <=> DestinationsKnown' /\ (s8' \/ DestinationsBounded')
  BY <1>1 DEF Destinations!DestinationsInv, DestinationsKnown, DestinationsBounded
<1>4. QED
  BY <1>2, <1>3

(* A worker that begins or ends a write changes neither what waits nor the *)
(* listing, and no other worker's figures.                                 *)
LEMMA WriteLeavesPending ==
    ASSUME Destinations!DestinationsInv, NEW w \in Destinations!Workers,
           NEW job \in Destinations!Jobs, Destinations!Does(w, job), UNCHANGED <<s2, s3>>,
           s7[w].at # "list", job.at # "list"
    PROVE  Destinations!Pending' = Destinations!Pending
<1>1. s7'["loop"].at = "list" <=> s7["loop"].at = "list"
  BY DestinationsDo DEF Destinations!Workers
<1>2. s7'["loop"].at = "list" => s7'["loop"] = s7["loop"]
  BY DestinationsDo DEF Destinations!Workers
<1>3. QED
  BY <1>1, <1>2 DEF Destinations!Pending

LEMMA CloseKeeps ==
    ASSUME Destinations!DestinationsInv, NEW k \in DestinationsKeys, Destinations!Close(k)
    PROVE  Destinations!Pending' \subseteq Destinations!Pending
<1>1. /\ s2 \in Destinations!Counts /\ s2' = [s2 EXCEPT ![k] = Destinations!Gone]
      /\ s3' = s3 /\ s7' = s7
  BY DEF Destinations!DestinationsInv, Destinations!Close
<1>2. ASSUME NEW was PROVE Destinations!Moved(was, s2') \subseteq Destinations!Moved(was, s2)
  <2>1. ASSUME NEW i \in DestinationsKeys, NEW b \in Destinations!MovedBy(was[i], s2'[i])
        PROVE  b \in Destinations!MovedBy(was[i], s2[i])
    <3>1. CASE i # k
      BY <1>1, <2>1, <3>1 DEF Destinations!Counts
    <3>2. CASE i = k
      BY <1>1, <2>1, <3>2 DEF Destinations!Counts, Destinations!MovedBy
    <3>3. QED
      BY <3>1, <3>2
  <2>2. QED
    BY <2>1, MovedIs
<1>3. QED
  BY <1>1, <1>2 DEF Destinations!Pending

(* A listing begins with nothing moved since.                              *)
LEMMA FlowsKeeps ==
    ASSUME Destinations!DestinationsInv, Destinations!Flows
    PROVE  Destinations!Pending' = Destinations!Pending /\ s7' \in [Destinations!Workers -> Destinations!Jobs]
           /\ \A w \in Destinations!Workers : s7'[w].at = "save" => s7'[w] = s7[w]
<1>1. PICK job : job = [at |-> "list", left |-> DestinationsKeys, flows |-> s2]
  OBVIOUS
<1>2. job \in Destinations!Jobs /\ job.at = "list" /\ job.flows = s2 /\ s2 \in Destinations!Counts
  BY <1>1 DEF Destinations!Jobs, Destinations!DestinationsInv
<1>3. Destinations!Does("loop", job) /\ s2' = s2 /\ s3' = s3 /\ s7["loop"] = Destinations!Idle
  BY <1>1 DEF Destinations!Flows
<1>4. /\ s7' \in [Destinations!Workers -> Destinations!Jobs] /\ s7'["loop"] = job
      /\ \A v \in Destinations!Workers : v # "loop" => s7'[v] = s7[v]
  BY <1>2, <1>3, DestinationsDo DEF Destinations!Workers
<1>5. Destinations!Moved(s2, s2) = {}
  BY <1>2, NothingMoves
<1>6. Destinations!Pending = Destinations!Moved(s3, s2)
  BY <1>3 DEF Destinations!Pending, Destinations!Idle
<1>7. Destinations!Pending' = Destinations!Moved(s3, s2) \cup Destinations!Moved(s2, s2)
  BY <1>2, <1>3, <1>4 DEF Destinations!Pending
<1>8. QED
  BY <1>2, <1>4, <1>5, <1>6, <1>7

(* A listing that moves on splits what a connection moved elsewhere.       *)
LEMMA ListOneKeeps ==
    ASSUME Destinations!DestinationsInv, NEW k \in DestinationsKeys, Destinations!ListOne(k)
    PROVE  Destinations!Pending' \subseteq Destinations!Pending
           /\ s7' \in [Destinations!Workers -> Destinations!Jobs]
           /\ \A w \in Destinations!Workers : s7'[w].at = "save" => s7'[w] = s7[w]
<1>1. /\ s7["loop"] \in Destinations!Jobs /\ s7["loop"].at = "list" /\ s2' = s2 /\ s3' = s3
      /\ s2 \in Destinations!Counts
      /\ s3 \in [DestinationsKeys -> Nat \cup {Destinations!Gone, Destinations!NotRead}]
  BY DEF Destinations!DestinationsInv, Destinations!ListOne, Destinations!Workers
<1>2. PICK L \in SUBSET DestinationsKeys, F \in Destinations!Counts :
        s7["loop"] = [at |-> "list", left |-> L, flows |-> F]
  <2>1. PICK j : j = s7["loop"]
    OBVIOUS
  <2>2. j \in [at : {"list"}, left : SUBSET DestinationsKeys, flows : Destinations!Counts]
    BY <1>1, <2>1 DEF Destinations!Jobs, Destinations!Idle
  <2>3. j = [at |-> "list", left |-> j.left, flows |-> j.flows]
        /\ j.left \in SUBSET DestinationsKeys /\ j.flows \in Destinations!Counts
    BY <2>2
  <2>4. QED
    BY <2>1, <2>3
<1>3. PICK G : G = [F EXCEPT ![k] = s2[k]]
  OBVIOUS
<1>4. PICK job : job = [at |-> "list", left |-> L \ {k}, flows |-> G]
  OBVIOUS
<1>5. [s7["loop"] EXCEPT !.left = @ \ {k}, !.flows[k] = s2[k]] = job
  <2>1. PICK i, j : /\ i = [at |-> "list", left |-> L, flows |-> F]
                    /\ j = [at |-> "list", left |-> L \ {k}, flows |-> F]
    OBVIOUS
  <2>2. [i EXCEPT !.left = @ \ {k}] = j
    BY <2>1
  <2>3. [j EXCEPT !.flows[k] = s2[k]] = job
    BY <1>3, <1>4, <2>1
  <2>4. [i EXCEPT !.left = @ \ {k}, !.flows[k] = s2[k]]
        = [[i EXCEPT !.left = @ \ {k}] EXCEPT !.flows[k] = s2[k]]
    BY <2>1
  <2>5. QED
    BY <1>2, <2>1, <2>2, <2>3, <2>4
<1>6. G \in Destinations!Counts /\ job \in Destinations!Jobs /\ job.at = "list" /\ job.flows = G
  BY <1>1, <1>3, <1>4 DEF Destinations!Jobs, Destinations!Counts
<1>7. Destinations!Does("loop", job)
  BY <1>5 DEF Destinations!ListOne
<1>8. /\ s7' \in [Destinations!Workers -> Destinations!Jobs] /\ s7'["loop"] = job
      /\ \A v \in Destinations!Workers : v # "loop" => s7'[v] = s7[v]
  BY <1>6, <1>7, DestinationsDo DEF Destinations!Workers
<1>9. Destinations!Pending = Destinations!Moved(s3, F) \cup Destinations!Moved(F, s2)
  BY <1>2 DEF Destinations!Pending
<1>10. Destinations!Pending' = Destinations!Moved(s3, G) \cup Destinations!Moved(G, s2)
  BY <1>1, <1>6, <1>8 DEF Destinations!Pending
<1>11. ASSUME NEW i \in DestinationsKeys,
              NEW b \in Destinations!MovedBy(s3[i], G[i]) \cup Destinations!MovedBy(G[i], s2[i])
       PROVE  b \in Destinations!MovedBy(s3[i], F[i]) \cup Destinations!MovedBy(F[i], s2[i])
  <2>1. CASE i # k
    BY <1>3, <1>11, <2>1 DEF Destinations!Counts
  <2>2. CASE i = k
    <3>1. G[i] = s2[i] /\ s2[i] \in Nat \cup {-1} /\ F[i] \in Nat \cup {-1}
          /\ s3[i] \in Nat \cup {-1, -2}
      BY <1>1, <1>3, <2>2 DEF Destinations!Counts, Destinations!Gone, Destinations!NotRead
    <3>2. b \in Destinations!MovedBy(s3[i], s2[i])
      BY <1>11, <3>1 DEF Destinations!MovedBy, Destinations!Gone, Destinations!NotRead
    <3>3. QED
      BY <3>1, <3>2 DEF Destinations!MovedBy, Destinations!Gone, Destinations!NotRead
  <2>3. QED
    BY <2>1, <2>2
<1>12. Destinations!Pending' \subseteq Destinations!Pending
  BY <1>9, <1>10, <1>11, MovedIs
<1>13. QED
  BY <1>6, <1>8, <1>12

(* A reading folds what moved up to it, and leaves what moved since: the   *)
(* two are apart, and without truncation the reading is remembered whole.  *)
LEMMA SampleKeeps ==
    ASSUME Destinations!DestinationsInv, Destinations!SampleConnections
    PROVE  Destinations!DestinationsInv'
<1>1. /\ s7["loop"] \in Destinations!Jobs /\ s7["loop"].at = "list"
      /\ DestinationsKnown /\ (s8 \/ DestinationsBounded)
  BY DestinationsSaid DEF DestinationsKnown, Destinations!SampleConnections, Destinations!Workers
<1>2. PICK now : now = s7["loop"].flows
  OBVIOUS
<1>3. now \in Destinations!Counts
  BY <1>1, <1>2 DEF Destinations!Jobs, Destinations!Idle
<1>4. PICK live : live = {k \in DestinationsKeys : now[k] # Destinations!Gone}
  OBVIOUS
<1>5. PICK kept \in SUBSET live :
        /\ kept = live \/ Destinations!Cardinality(kept) = DestinationsMaxTracked
        /\ s3' = [k \in DestinationsKeys |-> IF k \in kept THEN now[k] ELSE Destinations!Gone]
  BY <1>2, <1>4 DEF Destinations!SampleConnections
<1>6. /\ s4' = s4 + Cardinality(Destinations!Moved(s3, now))
      /\ s8' = (s8 \/ Cardinality(live) > DestinationsMaxTracked)
      /\ Destinations!Does("loop", Destinations!Idle) /\ s1' = s1 /\ s2' = s2 /\ s5' = s5
  BY <1>2, <1>4, SameSize DEF Destinations!SampleConnections
<1>7. Destinations!Idle \in Destinations!Jobs /\ Destinations!Idle.at = "idle"
  BY DEF Destinations!Jobs, Destinations!Idle
<1>8. /\ s7' \in [Destinations!Workers -> Destinations!Jobs] /\ s7'["loop"] = Destinations!Idle
      /\ \A v \in Destinations!Workers : v # "loop" => s7'[v] = s7[v]
  BY <1>6, <1>7, DestinationsDo DEF Destinations!Workers
<1>9. /\ s3 \in [DestinationsKeys -> Int] /\ now \in [DestinationsKeys -> Int]
      /\ s2 \in [DestinationsKeys -> Int]
  BY <1>1, <1>3 DEF DestinationsKnown, Destinations!Counts, Destinations!Gone, Destinations!NotRead
<1>10. PICK A, B : A = Destinations!Moved(s3, now) /\ B = Destinations!Moved(now, s2)
  OBVIOUS
<1>11. /\ IsFiniteSet(A) /\ IsFiniteSet(B) /\ Cardinality(A) \in Nat /\ Cardinality(B) \in Nat
  BY <1>9, <1>10, MovedFinite
<1>12. DestinationsKnown'
  <2>1. s3' \in [DestinationsKeys -> Nat \cup {Destinations!Gone, Destinations!NotRead}]
    BY <1>3, <1>5 DEF Destinations!Counts
  <2>2. s4' \in Nat
    BY <1>1, <1>6, <1>10, <1>11 DEF DestinationsKnown
  <2>3. QED
    <3>1. s6' \in BOOLEAN /\ s8' \in BOOLEAN
      BY <1>1 DEF DestinationsKnown, Destinations!SampleConnections
    <3>2. QED
      BY <1>1, <1>6, <1>8, <2>1, <2>2, <3>1 DEF DestinationsKnown
<1>13. ASSUME ~s8' PROVE DestinationsBounded'
  <2>1. /\ IsFiniteSet(live) /\ Cardinality(live) \in Nat /\ Cardinality(live) <= DestinationsMaxTracked
        /\ ~s8
    <3>1. live \in SUBSET DestinationsKeys
      BY <1>4
    <3>2. IsFiniteSet(live)
      BY <3>1, FS_Subset, DestinationsAssumption
    <3>3. Cardinality(live) \in Nat
      BY <3>2, FS_CardinalityType
    <3>4. ~s8 /\ ~(Cardinality(live) > DestinationsMaxTracked)
      BY <1>6, <1>13, Zenon
    <3>5. DestinationsMaxTracked \in Nat
      BY DestinationsAssumption
    <3>6. QED
      BY <3>2, <3>3, <3>4, <3>5
  <2>2. kept = live
    <3>1. IsFiniteSet(kept) /\ Cardinality(kept) <= Cardinality(live)
          /\ (Cardinality(live) = Cardinality(kept) => live = kept)
      BY <2>1, FS_Subset
    <3>2. Cardinality(kept) \in Nat
      BY <3>1, FS_CardinalityType
    <3>3. kept # live => Cardinality(kept) = DestinationsMaxTracked
      BY <1>5, SameSize
    <3>4. QED
      BY <2>1, <3>1, <3>2, <3>3, DestinationsAssumption
  <2>3. s3' = now
    BY <1>3, <1>4, <1>5, <2>2 DEF Destinations!Counts
  <2>4. Destinations!Pending' = B
    BY <1>6, <1>7, <1>8, <1>10, <2>3 DEF Destinations!Pending
  <2>5. Destinations!Pending = A \cup B
    BY <1>1, <1>2, <1>10 DEF Destinations!Pending
  <2>6. A \cap B = {}
    <3>1. ASSUME NEW k \in DestinationsKeys
          PROVE  Destinations!MovedBy(s3[k], now[k]) \cap Destinations!MovedBy(now[k], s2[k]) = {}
      <4>1. now[k] \in Int /\ s2[k] \in Int /\ s3[k] \in Int
        BY <1>9
      <4>2. QED
        BY <4>1 DEF Destinations!MovedBy
    <3>2. QED
      BY <1>10, <3>1, MovedIs
  <2>7. Cardinality(A \cup B) = Cardinality(A) + Cardinality(B)
    <3>1. Cardinality(A \cap B) = 0
      BY <2>6, FS_EmptySet
    <3>2. Cardinality(A \cup B) = Cardinality(A) + Cardinality(B) - Cardinality(A \cap B)
      BY <1>11, FS_Union
    <3>3. QED
      BY <1>11, <3>1, <3>2
  <2>8. s4 + Cardinality(A \cup B) <= s1 /\ s4 \in Nat /\ s1 \in Nat
    BY <1>1, <2>1, <2>5 DEF DestinationsBounded, DestinationsKnown
  <2>9. s4' + Cardinality(B) <= s1'
    BY <1>6, <1>10, <1>11, <2>7, <2>8
  <2>10. \A w \in Destinations!Workers : s7'[w].at = "save" => s7'[w].dest <= s1'
    BY <1>1, <1>6, <1>7, <1>8, <2>1 DEF DestinationsBounded
  <2>11. QED
    BY <1>1, <1>6, <2>1, <2>4, <2>9, <2>10 DEF DestinationsBounded
<1>14. QED
  BY <1>12, <1>13, DestinationsSaid DEF DestinationsKnown

(* What is read from the table is what was written: the first reading of a *)
(* new process folds nothing.                                              *)
LEMMA DestinationsLoad ==
    ASSUME Destinations!DestinationsInv, NEW r \in Nat, Destinations!Load(r), s5' = r,
           s1' = s1, s8' = s8, s2' \in Destinations!Counts, s8 \/ r <= s1
    PROVE  Destinations!DestinationsInv'
<1>1. DestinationsKnown
  BY DestinationsSaid
<1>2. Destinations!Idle \in Destinations!Jobs /\ Destinations!Idle.at = "idle"
  BY DEF Destinations!Jobs, Destinations!Idle
<1>3. /\ s4' = r /\ s3' = Destinations!NeverRead
      /\ s7' = [w \in Destinations!Workers |-> Destinations!Idle] /\ s6' = FALSE
  BY DEF Destinations!Load
<1>4. Destinations!Pending' = {}
  BY <1>2, <1>3, NothingMoves DEF Destinations!Pending, Destinations!Workers
<1>5. Cardinality(Destinations!Pending') = 0
  BY <1>4, FS_EmptySet
<1>6. DestinationsKnown'
  BY <1>1, <1>2, <1>3 DEF DestinationsKnown, Destinations!NeverRead
<1>7. s8 \/ DestinationsBounded'
  BY <1>1, <1>2, <1>3, <1>5 DEF DestinationsBounded, DestinationsKnown
<1>8. QED
  BY <1>6, <1>7, DestinationsSaid

LEMMA DestinationsKeep ==
    ASSUME Destinations!DestinationsInv, [Destinations!Next]_(Destinations!vars)
    PROVE  Destinations!DestinationsInv'
<1>1. DestinationsKnown /\ (s8 \/ DestinationsBounded) /\ Cardinality(Destinations!Pending) \in Nat
  BY DestinationsSaid, PendingFinite
<1>2. ASSUME NEW k \in DestinationsKeys, Destinations!Relay(k) PROVE Destinations!DestinationsInv'
  <2>1. /\ Cardinality(Destinations!Pending') <= Cardinality(Destinations!Pending) + 1
        /\ Cardinality(Destinations!Pending') \in Nat
    BY <1>2, RelayAddsOne, PendingOneMore
  <2>2. /\ s1' = s1 + 1 /\ UNCHANGED <<s3, s4, s5, s6, s7, s8>>
        /\ s2' = [s2 EXCEPT ![k] = IF @ = Destinations!Gone THEN 1 ELSE @ + 1]
    BY <1>2 DEF Destinations!Relay
  <2>3. s2' \in Destinations!Counts
    <3>1. s2[k] = Destinations!Gone \/ s2[k] \in Nat
      BY <1>1 DEF DestinationsKnown, Destinations!Counts
    <3>2. QED
      BY <1>1, <2>2, <3>1 DEF DestinationsKnown, Destinations!Counts
  <2>4. DestinationsKnown'
    BY <1>1, <2>2, <2>3 DEF DestinationsKnown
  <2>5. ASSUME DestinationsBounded PROVE DestinationsBounded'
    <3>1. ASSUME NEW w \in Destinations!Workers, s7[w].at = "save" PROVE s7[w].dest <= s1 + 1
      <4>1. s7[w].dest \in Nat /\ s7[w].dest <= s1
        BY <1>1, <2>5, <3>1 DEF DestinationsKnown, DestinationsBounded, Destinations!Jobs, Destinations!Idle
      <4>2. QED
        BY <1>1, <4>1 DEF DestinationsKnown
    <3>2. QED
      BY <1>1, <2>1, <2>2, <2>5, <3>1 DEF DestinationsKnown, DestinationsBounded
  <2>6. QED
    BY <1>1, <2>2, <2>4, <2>5, DestinationsSaid
<1>3. ASSUME Destinations!Pending' \subseteq Destinations!Pending,
             s2' \in Destinations!Counts, UNCHANGED <<s1, s3, s4, s5, s6, s8>>,
             s7' \in [Destinations!Workers -> Destinations!Jobs],
             \A w \in Destinations!Workers : s7'[w].at = "save" => s7'[w] = s7[w]
      PROVE  Destinations!DestinationsInv'
  <2>1. /\ Cardinality(Destinations!Pending') <= Cardinality(Destinations!Pending)
        /\ Cardinality(Destinations!Pending') \in Nat
    BY <1>3, PendingLess
  <2>2. DestinationsKnown'
    BY <1>1, <1>3 DEF DestinationsKnown
  <2>3. ASSUME DestinationsBounded PROVE DestinationsBounded'
    <3>1. \A w \in Destinations!Workers : s7'[w].at = "save" => s7'[w].dest <= s1'
      BY <1>3, <2>3 DEF DestinationsBounded
    <3>2. QED
      BY <1>1, <1>3, <2>1, <2>3, <3>1 DEF DestinationsKnown, DestinationsBounded
  <2>4. QED
    BY <1>1, <1>3, <2>2, <2>3, DestinationsSaid
<1>4. ASSUME NEW k \in DestinationsKeys, Destinations!Close(k) PROVE Destinations!DestinationsInv'
  <2>1. s2' \in Destinations!Counts /\ UNCHANGED <<s1, s3, s4, s5, s6, s7, s8>>
    BY <1>1, <1>4 DEF Destinations!Close, DestinationsKnown, Destinations!Counts
  <2>2. QED
    BY <1>1, <1>3, <1>4, <2>1, CloseKeeps DEF DestinationsKnown
<1>5. ASSUME NEW k \in DestinationsKeys, Destinations!ListOne(k) PROVE Destinations!DestinationsInv'
  <2>1. UNCHANGED <<s1, s2, s3, s4, s5, s6, s8>>
    BY <1>5 DEF Destinations!ListOne
  <2>2. QED
    BY <1>1, <1>3, <1>5, <2>1, ListOneKeeps DEF DestinationsKnown
<1>6. CASE Destinations!Flows
  <2>1. UNCHANGED <<s1, s2, s3, s4, s5, s6, s8>>
    BY <1>6 DEF Destinations!Flows
  <2>2. QED
    BY <1>1, <1>3, <1>6, <2>1, FlowsKeeps DEF DestinationsKnown
<1>7. CASE Destinations!SampleConnections
  BY <1>7, SampleKeeps
<1>8. ASSUME NEW w \in Destinations!Workers, Destinations!Flush(w) PROVE Destinations!DestinationsInv'
  <2>1. PICK job : job = [at |-> "save", some |-> s6, dest |-> s4]
    OBVIOUS
  <2>2. /\ s7[w] = Destinations!Idle /\ Destinations!Does(w, job)
        /\ UNCHANGED <<s1, s2, s3, s4, s5, s8>>
    BY <1>8, <2>1 DEF Destinations!Flush
  <2>3. job \in Destinations!Jobs /\ job.at # "list" /\ job.dest = s4
    BY <1>1, <2>1 DEF DestinationsKnown, Destinations!Jobs
  <2>4. /\ s7' \in [Destinations!Workers -> Destinations!Jobs] /\ s7'[w] = job
        /\ \A v \in Destinations!Workers : v # w => s7'[v] = s7[v]
    BY <2>2, <2>3, DestinationsDo
  <2>5. Destinations!Pending' = Destinations!Pending
    BY <2>2, <2>3, WriteLeavesPending DEF Destinations!Idle
  <2>6. s6' = FALSE
    BY <1>8 DEF Destinations!Flush
  <2>7. DestinationsKnown'
    BY <1>1, <2>2, <2>4, <2>6 DEF DestinationsKnown
  <2>8. ASSUME DestinationsBounded PROVE DestinationsBounded'
    <3>1. s4 <= s1
      BY <1>1, <2>8 DEF DestinationsKnown, DestinationsBounded
    <3>2. \A v \in Destinations!Workers : s7'[v].at = "save" => s7'[v].dest <= s1'
      BY <2>2, <2>3, <2>4, <2>8, <3>1 DEF DestinationsBounded
    <3>3. QED
      BY <2>2, <2>5, <2>8, <3>2 DEF DestinationsBounded
  <2>9. QED
    BY <1>1, <2>2, <2>7, <2>8, DestinationsSaid
<1>9. ASSUME NEW w \in Destinations!Workers, Destinations!SaveDestinationVolumes(w)
      PROVE  Destinations!DestinationsInv'
  <2>1. /\ s7[w].at = "save" /\ Destinations!Does(w, Destinations!Idle)
        /\ UNCHANGED <<s1, s2, s3, s4, s8>>
        /\ s5' = s5 \/ s5' = s7[w].dest
        /\ s6' = s6 \/ s6' = TRUE
    BY <1>9 DEF Destinations!SaveDestinationVolumes
  <2>2. Destinations!Idle \in Destinations!Jobs /\ Destinations!Idle.at = "idle"
    BY DEF Destinations!Jobs, Destinations!Idle
  <2>3. /\ s7' \in [Destinations!Workers -> Destinations!Jobs] /\ s7'[w] = Destinations!Idle
        /\ \A v \in Destinations!Workers : v # w => s7'[v] = s7[v]
    BY <2>1, <2>2, DestinationsDo
  <2>4. Destinations!Pending' = Destinations!Pending
    BY <2>1, <2>2, WriteLeavesPending
  <2>5. s7[w].dest \in Nat
    BY <1>1, <2>1 DEF DestinationsKnown, Destinations!Jobs, Destinations!Idle
  <2>6. DestinationsKnown'
    BY <1>1, <2>1, <2>3, <2>5 DEF DestinationsKnown
  <2>7. ASSUME DestinationsBounded PROVE DestinationsBounded'
    <3>1. s5' <= s1
      BY <2>1, <2>7 DEF DestinationsBounded
    <3>2. \A v \in Destinations!Workers : s7'[v].at = "save" => s7'[v].dest <= s1'
      BY <2>1, <2>2, <2>3, <2>7 DEF DestinationsBounded
    <3>3. QED
      BY <2>1, <2>4, <2>7, <3>1, <3>2 DEF DestinationsBounded
  <2>8. QED
    BY <1>1, <2>1, <2>6, <2>7, DestinationsSaid
<1>10. CASE Destinations!Stop
  <2>1. PICK r : r = s5'
    OBVIOUS
  <2>2. /\ r = s4 \/ r = s5
        /\ Destinations!Load(r) /\ UNCHANGED <<s1, s2, s8>>
    BY <1>10, <2>1 DEF Destinations!Stop
  <2>3. r \in Nat /\ (s8 \/ r <= s1)
    BY <1>1, <2>2 DEF DestinationsKnown, DestinationsBounded
  <2>4. s2' \in Destinations!Counts
    BY <1>1, <2>2 DEF DestinationsKnown
  <2>5. QED
    BY <2>1, <2>2, <2>3, <2>4, DestinationsLoad
<1>11. ASSUME NEW reboot \in BOOLEAN, Destinations!Crash(reboot) PROVE Destinations!DestinationsInv'
  <2>1. Destinations!Load(s5) /\ UNCHANGED <<s1, s5, s8>>
    BY <1>11 DEF Destinations!Crash
  <2>2. s2' \in Destinations!Counts
    BY <1>1, <1>11 DEF Destinations!Crash, DestinationsKnown, Destinations!Counts
  <2>3. s5 \in Nat /\ (s8 \/ s5 <= s1)
    BY <1>1 DEF DestinationsKnown, DestinationsBounded
  <2>4. QED
    BY <2>1, <2>2, <2>3, DestinationsLoad
<1>12. CASE UNCHANGED <<s1, s2, s3, s4, s5, s6, s7, s8>>
  <2>1. Destinations!Pending' = Destinations!Pending
    BY <1>12 DEF Destinations!Pending
  <2>2. QED
    BY <1>1, <1>12, <2>1, DestinationsSaid DEF DestinationsKnown, DestinationsBounded
<1>13. QED
  BY <1>2, <1>4, <1>5, <1>6, <1>7, <1>8, <1>9, <1>10, <1>11, <1>12
     DEF Destinations!Next, Destinations!vars

-----------------------------------------------------------------------------
(* Reconcile: rec, device, unit, backups, adoption, report, reapply, hand, *)
(* foreign.                                                                *)
LEMMA ReconcileBegins == Reconcile!Init => Reconcile!OriginalsAreKept
BY DEF Reconcile!Init, Reconcile!OriginalsAreKept

LEMMA ReconcileKeeps ==
    Reconcile!OriginalsAreKept /\ [Reconcile!Next]_(Reconcile!vars)
        => Reconcile!OriginalsAreKept'
<1> SUFFICES ASSUME Reconcile!OriginalsAreKept, [Reconcile!Next]_(Reconcile!vars)
             PROVE  Reconcile!OriginalsAreKept'
  OBVIOUS
<1> USE DEF Reconcile!OriginalsAreKept, Reconcile!host, Reconcile!jobs
(* A file is written or removed only when it is the panel's, or after a    *)
(* copy of it was made.                                                    *)
<1>a. ASSUME NEW cfg, NEW takeover, Reconcile!WriteUnit(cfg, takeover), UNCHANGED s9
      PROVE  Reconcile!OriginalsAreKept'
  BY <1>a DEF Reconcile!WriteUnit, Reconcile!Owned
<1>b. ASSUME NEW takeover, Reconcile!RemoveUnit(takeover), UNCHANGED s9
      PROVE  Reconcile!OriginalsAreKept'
  BY <1>b DEF Reconcile!RemoveUnit, Reconcile!Owned
<1>1. CASE Reconcile!AdoptReadsLink
  BY <1>1 DEF Reconcile!AdoptReadsLink
<1>2. CASE Reconcile!Insert
  BY <1>2 DEF Reconcile!Insert
<1>3. CASE Reconcile!TakeOverUnits
  <2>1. CASE UNCHANGED <<s3, s4>>
    BY <1>3, <2>1 DEF Reconcile!TakeOverUnits
  <2>2. CASE Reconcile!WriteUnit(s1.cfg, TRUE)
    BY <1>a, <1>3, <2>2 DEF Reconcile!TakeOverUnits
  <2>3. QED
    BY <1>3, <2>1, <2>2 DEF Reconcile!TakeOverUnits
<1>4. CASE Reconcile!ReportReadsRecords
  BY <1>4 DEF Reconcile!ReportReadsRecords
<1>5. CASE Reconcile!ReportReadsLinks
  BY <1>5 DEF Reconcile!ReportReadsLinks
<1>6. CASE Reconcile!GuardReapply
  BY <1>6 DEF Reconcile!GuardReapply
<1>7. CASE Reconcile!Reapply
  BY <1>a, <1>7 DEF Reconcile!Reapply
<1>8. CASE Reconcile!Forget
  BY <1>8 DEF Reconcile!Forget
<1>9. CASE Reconcile!ByHand
  <2>1. CASE UNCHANGED <<s3, s4, s9>>
    BY <2>1
  <2>2. ASSUME NEW c \in ReconcileCfgs, UNCHANGED s4,
               s3' = [owner |-> "other", cfg |-> c, enabled |-> TRUE],
               s9' = IF s3.owner = "other" THEN (s9 \ {s3.cfg}) \cup {c} ELSE s9 \cup {c}
        PROVE  Reconcile!OriginalsAreKept'
    <3> SUFFICES ASSUME NEW d \in s9', d # c PROVE d \in s4
      BY <2>2
    <3>1. d \in s9 /\ (s3.owner = "other" => d # s3.cfg)
      BY <2>2
    <3>2. d \in s4 \/ s3 = [owner |-> "other", cfg |-> d, enabled |-> TRUE]
      BY <3>1
    <3>3. QED
      BY <3>1, <3>2
  <2>3. QED
    BY <1>9, <2>1, <2>2 DEF Reconcile!ByHand
<1>10. CASE Reconcile!Reboot
  BY <1>10 DEF Reconcile!Reboot
<1>11. ASSUME NEW t \in BOOLEAN,
              Reconcile!Sweep(t) \/ Reconcile!AdoptReadsUnit(t) \/ Reconcile!AskReapply(t)
       PROVE  Reconcile!OriginalsAreKept'
  BY <1>11 DEF Reconcile!Sweep, Reconcile!AdoptReadsUnit, Reconcile!AskReapply
<1>12. ASSUME NEW t \in BOOLEAN, Reconcile!Delete(t) PROVE Reconcile!OriginalsAreKept'
  BY <1>b, <1>12 DEF Reconcile!Delete
<1>13. ASSUME NEW t \in BOOLEAN, NEW c \in ReconcileCfgs, Reconcile!Update(c, t)
       PROVE  Reconcile!OriginalsAreKept'
  BY <1>a, <1>13 DEF Reconcile!Update
<1>14. CASE UNCHANGED Reconcile!vars
  BY <1>14 DEF Reconcile!vars
<1>15. QED
  BY <1>1, <1>2, <1>3, <1>4, <1>5, <1>6, <1>7, <1>8, <1>9, <1>10, <1>11, <1>12, <1>13, <1>14
     DEF Reconcile!Next

-----------------------------------------------------------------------------
(* Diagnostics: rule, host, fate, rotation, flow, counter, cause, answer.  *)
LEMMA DiagnosisBegins == Diagnostics!Init => Diagnostics!DiagnosisInv
<1> SUFFICES ASSUME Diagnostics!Init PROVE Diagnostics!DiagnosisInv
  OBVIOUS
<1> USE DEF Diagnostics!Init
<1>1. s4 \in (SUBSET DiagnosticsDests) \ {{}} /\ s6 \in BOOLEAN /\ s5 = "none"
  BY DiagnosticsAssumption
<1>2. s7 \in [met : {"nothing", "switch", "filter"}, restarted : BOOLEAN]
  BY DEF Diagnostics!NoCause
<1>3. s8.verdict = "none" /\ s8.state = "none"
  BY DEF Diagnostics!NoAnswer
<1>4. Diagnostics!DiagnosisIsFair
  BY <1>3 DEF Diagnostics!DiagnosisIsFair, Diagnostics!BlameIsDeserved,
     Diagnostics!HealthyIsSupported, Diagnostics!AnswersAgree
<1>5. QED
  BY <1>1, <1>2, <1>4 DEF Diagnostics!DiagnosisInv

(* A step that is no analysis takes the answer away.                       *)
LEMMA DiagnosisForgotten ==
    s8' = Diagnostics!NoAnswer => Diagnostics!DiagnosisIsFair'
<1>1. Diagnostics!NoAnswer.verdict = "none" /\ Diagnostics!NoAnswer.state = "none"
  BY DEF Diagnostics!NoAnswer
<1>2. QED
  BY <1>1 DEF Diagnostics!DiagnosisIsFair, Diagnostics!BlameIsDeserved,
     Diagnostics!HealthyIsSupported, Diagnostics!AnswersAgree

(* What each verdict was reached from.                                     *)
LEMMA VerdictMeans ==
    ASSUME NEW reads, Diagnostics!DiagnosisInv
    PROVE  LET v == Diagnostics!Verdict(reads) IN
           /\ v.verdict = "FORWARD_BLOCKED" =>
                 s5 # "none" /\ ("counters" \in reads => ~s6)
           /\ v.verdict = "DESTINATION_UNREACHABLE" => \A d \in s4 : s3[d] = "refuses"
           /\ v.verdict = "DESTINATION_PARTIAL" =>
                 \E d, e \in s4 : s3[d] = "refuses" /\ s3[e] = "answers"
           /\ v.verdict = "HEALTHY" /\ v.confidence = "high" =>
                 /\ s2.installed /\ Diagnostics!Forwards /\ s2.tunnel # "down"
                 /\ "foreign" \in reads => ~s2.shadow
                 /\ "probe" \in reads => ~\A d \in s4 : s3[d] = "refuses"
<1> DEFINE v == Diagnostics!Verdict(reads)
           reach == Diagnostics!Summarise("probe" \in reads)
<1>1. /\ \A x : Diagnostics!High(x).verdict = x /\ Diagnostics!Low(x).verdict = x
      /\ \A x : Diagnostics!High(x).confidence = "high"
      /\ \A x : Diagnostics!Low(x).confidence = "low"
  BY DEF Diagnostics!High, Diagnostics!Low
<1>2. /\ Diagnostics!None(reach) => "probe" \in reads /\ \A d \in s4 : s3[d] = "refuses"
      /\ Diagnostics!Some(reach) =>
            \E d, e \in s4 : s3[d] = "refuses" /\ s3[e] = "answers"
      /\ "probe" \in reads /\ (\A d \in s4 : s3[d] = "refuses") => Diagnostics!None(reach)
  BY DEF Diagnostics!None, Diagnostics!Some, Diagnostics!Summarise, Diagnostics!DiagnosisInv
<1>3. v.verdict = "FORWARD_BLOCKED" => s5 # "none" /\ ("counters" \in reads => ~s6)
  BY <1>1 DEF Diagnostics!Verdict
<1>4. v.verdict = "DESTINATION_UNREACHABLE" => Diagnostics!None(reach)
  BY <1>1 DEF Diagnostics!Verdict
<1>5. v.verdict = "DESTINATION_PARTIAL" => Diagnostics!Some(reach)
  BY <1>1 DEF Diagnostics!Verdict
<1>6. v.verdict = "HEALTHY" /\ v.confidence = "high" =>
        /\ s2.installed /\ Diagnostics!Forwards /\ s2.tunnel # "down"
        /\ "foreign" \in reads => ~s2.shadow
        /\ ~Diagnostics!None(reach)
  BY <1>1 DEF Diagnostics!Verdict, Diagnostics!Forwards
<1>7. QED
  BY <1>2, <1>3, <1>4, <1>5, <1>6

(* The list and the analysis, for a rule of IPv4.                          *)
LEMMA VerdictAgrees ==
    ASSUME NEW reads, Diagnostics!HealthOf(reads) = "healthy", ~s1.ipv6
    PROVE  Diagnostics!Verdict(reads).verdict \notin
               {"RULE_DISABLED", "RULE_MISSING", "FORWARDING_DISABLED", "TUNNEL_DOWN"}
<1>1. \A x : Diagnostics!High(x).verdict = x /\ Diagnostics!Low(x).verdict = x
  BY DEF Diagnostics!High, Diagnostics!Low
<1>2. s1.enabled /\ "ruleset" \in reads /\ s2.installed /\ s2.tunnel # "down" /\ s2.v4
  BY DEF Diagnostics!HealthOf, Diagnostics!Forwards
<1>3. QED
  BY <1>1, <1>2 DEF Diagnostics!Verdict

LEMMA DiagnosisKeeps ==
    Diagnostics!DiagnosisInv /\ [Diagnostics!Next]_(Diagnostics!vars)
        => Diagnostics!DiagnosisInv'
<1> SUFFICES ASSUME Diagnostics!DiagnosisInv, [Diagnostics!Next]_(Diagnostics!vars)
             PROVE  Diagnostics!DiagnosisInv'
  OBVIOUS
<1>a. /\ s4 \in (SUBSET DiagnosticsDests) \ {{}} /\ s6 \in BOOLEAN
      /\ s7 \in [met : {"nothing", "switch", "filter"}, restarted : BOOLEAN]
      /\ s5 # "none" /\ ~s6 => s7.met # "nothing" \/ s7.restarted
  BY DEF Diagnostics!DiagnosisInv
<1> DEFINE restarted == [s7 EXCEPT !.restarted = TRUE]
<1>b. /\ restarted \in [met : {"nothing", "switch", "filter"}, restarted : BOOLEAN]
      /\ restarted.restarted
  BY <1>a
<1> HIDE DEF restarted
<1>1. CASE Diagnostics!HostChanges
  <2>1. s8' = Diagnostics!NoAnswer /\ s4' \in (SUBSET DiagnosticsDests) \ {{}}
    BY <1>a, <1>1 DEF Diagnostics!HostChanges
  <2>2. UNCHANGED <<s5, s6, s7>> \/ (s6' = FALSE /\ s7' = restarted)
    BY <1>1 DEF Diagnostics!HostChanges, Diagnostics!traffic, restarted
  <2>3. s6' \in BOOLEAN
    BY <1>a, <2>2, Zenon
  <2>4. QED
    BY <1>a, <1>b, <2>1, <2>2, <2>3, DiagnosisForgotten DEF Diagnostics!DiagnosisInv
<1>2. CASE Diagnostics!Rebuild
  <2>1. s8' = Diagnostics!NoAnswer /\ s4' = s4 /\ s6' = FALSE /\ s7' = restarted
    BY <1>2 DEF Diagnostics!Rebuild, restarted
  <2>2. s6' \in BOOLEAN
    BY <2>1, Zenon
  <2>3. QED
    BY <1>a, <1>b, <2>1, <2>2, DiagnosisForgotten DEF Diagnostics!DiagnosisInv
<1>3. CASE Diagnostics!Packet
  <2> DEFINE forwarded == Diagnostics!Forwards /\ ~s2.blocked
             met == IF ~Diagnostics!Forwards THEN "switch"
                    ELSE IF s2.blocked THEN "filter" ELSE "nothing"
  <2>1. /\ s8' = Diagnostics!NoAnswer /\ s4' = s4
        /\ s6' = (s6 \/ forwarded) /\ s7' = [met |-> met, restarted |-> FALSE]
    BY <1>3 DEF Diagnostics!Packet
  <2>2. s6' \in BOOLEAN
    BY <2>1, Zenon
  <2>3. met \in {"nothing", "switch", "filter"} /\ (met = "nothing" => forwarded)
    OBVIOUS
  <2>4. met = "nothing" => s6'
    BY <2>1, <2>3, Zenon
  <2> HIDE DEF met
  <2>5. /\ s7' \in [met : {"nothing", "switch", "filter"}, restarted : BOOLEAN]
        /\ s7'.met = met
    BY <2>1, <2>3
  <2>6. QED
    BY <1>a, <2>1, <2>2, <2>4, <2>5, DiagnosisForgotten DEF Diagnostics!DiagnosisInv
<1>4. CASE Diagnostics!FlowEnds
  <2>1. /\ s8' = Diagnostics!NoAnswer /\ s4' = s4 /\ s6' = s6 /\ s5' = "none"
        /\ s7' = Diagnostics!NoCause
    BY <1>4 DEF Diagnostics!FlowEnds
  <2>2. Diagnostics!NoCause \in [met : {"nothing", "switch", "filter"}, restarted : BOOLEAN]
    BY DEF Diagnostics!NoCause
  <2>3. QED
    BY <1>a, <2>1, <2>2, DiagnosisForgotten DEF Diagnostics!DiagnosisInv
<1>5. ASSUME NEW reads, Diagnostics!Analyze(reads)
      PROVE  Diagnostics!DiagnosisInv'
  <2> DEFINE v == Diagnostics!Verdict(reads)
  <2>1. /\ s8'.verdict = v.verdict /\ s8'.confidence = v.confidence
        /\ s8'.state = Diagnostics!HealthOf(reads) /\ s8'.reads = reads
        /\ UNCHANGED <<s1, s2, s3, s4, s5, s6, s7>>
    BY <1>5 DEF Diagnostics!Analyze
  <2>2. /\ v.verdict = "FORWARD_BLOCKED" =>
             s5 # "none" /\ ("counters" \in reads => ~s6)
        /\ v.verdict = "DESTINATION_UNREACHABLE" => \A d \in s4 : s3[d] = "refuses"
        /\ v.verdict = "DESTINATION_PARTIAL" =>
             \E d, e \in s4 : s3[d] = "refuses" /\ s3[e] = "answers"
        /\ v.verdict = "HEALTHY" /\ v.confidence = "high" =>
             /\ s2.installed /\ Diagnostics!Forwards /\ s2.tunnel # "down"
             /\ "foreign" \in reads => ~s2.shadow
             /\ "probe" \in reads => ~\A d \in s4 : s3[d] = "refuses"
    BY VerdictMeans
  <2>3. Diagnostics!HealthOf(reads) = "healthy" /\ ~s1.ipv6 =>
          v.verdict \notin {"RULE_DISABLED", "RULE_MISSING", "FORWARDING_DISABLED",
                            "TUNNEL_DOWN"}
    BY VerdictAgrees
  <2> HIDE DEF v
  <2>4. Diagnostics!Forwards' <=> Diagnostics!Forwards
    BY <2>1 DEF Diagnostics!Forwards
  <2>5. Diagnostics!BlameIsDeserved'
    BY <1>a, <2>1, <2>2 DEF Diagnostics!BlameIsDeserved
  <2>6. Diagnostics!HealthyIsSupported'
    BY <2>1, <2>2, <2>4 DEF Diagnostics!HealthyIsSupported
  <2>7. Diagnostics!AnswersAgree'
    BY <2>1, <2>3 DEF Diagnostics!AnswersAgree
  <2>8. QED
    BY <1>a, <2>1, <2>5, <2>6, <2>7 DEF Diagnostics!DiagnosisInv, Diagnostics!DiagnosisIsFair
<1>6. CASE UNCHANGED Diagnostics!vars
  BY <1>6 DEF Diagnostics!vars, Diagnostics!DiagnosisInv, Diagnostics!DiagnosisIsFair,
     Diagnostics!BlameIsDeserved, Diagnostics!HealthyIsSupported, Diagnostics!AnswersAgree,
     Diagnostics!Forwards
<1>7. QED
  BY <1>1, <1>2, <1>3, <1>4, <1>5, <1>6 DEF Diagnostics!Next

-----------------------------------------------------------------------------
(* RouteAdmission: wants, sshd, service, rows, installed, request.         *)
LEMMA AdmissionBegins == Admission!Init => Admission!AdmissionInv
<1> SUFFICES ASSUME Admission!Init PROVE Admission!AdmissionInv
  OBVIOUS
<1>1. s1 \in [AdmissionRules -> Admission!Specs] /\ s5 = {} /\ s6 = Admission!NoRequest
      /\ s4 = [i \in AdmissionRules |-> Admission!NoRow]
  BY DEF Admission!Init
<1>2. Admission!NoRow \in Admission!Row
      /\ ~Admission!NoRow.enabled /\ ~Admission!NoRow.spares
  BY DEF Admission!NoRow, Admission!Row
<1>3. QED
  BY <1>1, <1>2 DEF Admission!AdmissionInv

(* Two rules meet whichever is asked about first.                          *)
LEMMA AdmissionMeets ==
    ASSUME NEW i \in AdmissionRules, NEW j \in AdmissionRules, Admission!Meet(i, j)
    PROVE  Admission!Meet(j, i)
BY DEF Admission!Meet, Admission!ProtocolsOverlap, Admission!BindAddressesOverlap,
   Admission!PortRangesOverlap

(* What a request was checked for holds when nothing changed since.        *)
LEMMA AdmissionValid ==
    ASSUME NEW i \in AdmissionRules, NEW on \in BOOLEAN, NEW force \in BOOLEAN,
           Admission!Validate(i, on, force)
    PROVE  /\ on => \A j \in AdmissionRules \ {i} : s4[j].enabled => ~Admission!Meet(i, j)
           /\ on /\ ~force => Admission!TakesNothing(i)
           /\ LET row == [stored |-> TRUE, enabled |-> on, spares |-> on /\ ~force,
                          checked |-> TRUE]
              IN row \in Admission!Row /\ (row.enabled <=> on) /\ (row.spares <=> on /\ ~force)
BY DEF Admission!Validate, Admission!CheckPortConflicts, Admission!CheckListenerConflicts,
   Admission!Meet, Admission!TakesNothing, Admission!Row

(* A row is written under the lock, and the ruleset follows.               *)
LEMMA AdmissionWrites ==
    ASSUME Admission!AdmissionInv, NEW i \in AdmissionRules, NEW row \in Admission!Row,
           Admission!Write(i, row), UNCHANGED <<s1, s2, s3>>,
           row.enabled /\ row.checked =>
             \A j \in AdmissionRules \ {i} : s4[j].enabled => ~Admission!Meet(i, j),
           row.spares => Admission!TakesNothing(i)
    PROVE  /\ s4' \in [AdmissionRules -> Admission!Row]
           /\ (\A k, j \in AdmissionRules :
                  (/\ k # j /\ s4[k].enabled /\ s4[k].checked
                   /\ s4[j].enabled /\ s4[j].checked) => ~Admission!Meet(k, j))'
           /\ (\A k \in AdmissionRules : s4[k].spares => Admission!TakesNothing(k))'
           /\ (s5 \subseteq AdmissionRules /\ \A k \in s5 : Admission!CheckPanel(s1[k]))'
<1>1. /\ s4 \in [AdmissionRules -> Admission!Row] /\ s4' = [s4 EXCEPT ![i] = row]
      /\ s4'[i] = row /\ \A j \in AdmissionRules : j # i => s4'[j] = s4[j]
  BY DEF Admission!Write, Admission!AdmissionInv
<1>2. \A k, j \in AdmissionRules : Admission!Meet(k, j)' <=> Admission!Meet(k, j)
  BY DEF Admission!Meet
<1>3. \A k \in AdmissionRules : Admission!TakesNothing(k)' <=> Admission!TakesNothing(k)
  BY DEF Admission!TakesNothing, Admission!Listeners
<1>4. s4' \in [AdmissionRules -> Admission!Row]
  BY <1>1
<1>5. ASSUME NEW k \in AdmissionRules, NEW j \in AdmissionRules, k # j,
             s4'[k].enabled, s4'[k].checked, s4'[j].enabled, s4'[j].checked
      PROVE  ~Admission!Meet(k, j)
  <2>1. CASE k = i
    BY <1>1, <1>5, <2>1
  <2>2. CASE j = i
    <3>1. ~Admission!Meet(j, k)
      BY <1>1, <1>5, <2>2
    <3>2. QED
      BY <3>1, AdmissionMeets
  <2>3. CASE k # i /\ j # i
    BY <1>1, <1>5, <2>3 DEF Admission!AdmissionInv
  <2>4. QED
    BY <2>1, <2>2, <2>3
<1>6. \A k \in AdmissionRules : s4'[k].spares => Admission!TakesNothing(k)
  BY <1>1 DEF Admission!AdmissionInv
<1>7. s5' \subseteq AdmissionRules /\ \A k \in s5' : Admission!CheckPanel(s1[k])
  <2> DEFINE enabled == {k \in AdmissionRules : s4'[k].enabled}
  <2>1. CASE s5' = s5
    BY <2>1 DEF Admission!AdmissionInv
  <2>2. CASE s5' = enabled /\ \A k \in enabled : Admission!CheckRoute(s1[k])
    BY <2>2 DEF Admission!CheckRoute, Admission!CheckPanel, Admission!ProtectedPorts
  <2>3. QED
    BY <2>1, <2>2 DEF Admission!Write, Admission!Apply
<1>8. QED
  BY <1>2, <1>3, <1>4, <1>5, <1>6, <1>7

(* What waits while a row is written no longer counts as checked.          *)
LEMMA AdmissionStale ==
    ASSUME Admission!AdmissionInv, Admission!Stale, UNCHANGED <<s1, s2, s3>>
    PROVE  s6' # Admission!NoRequest =>
              /\ s6' \in [at : {"wait"}, rule : AdmissionRules, row : Admission!Row]
              /\ ~s6'.row.checked
              /\ (s6.row.spares => Admission!TakesNothing(s6.rule))'
<1> SUFFICES ASSUME s6' # Admission!NoRequest
             PROVE  /\ s6' \in [at : {"wait"}, rule : AdmissionRules, row : Admission!Row]
                    /\ ~s6'.row.checked
                    /\ (s6.row.spares => Admission!TakesNothing(s6.rule))'
  OBVIOUS
<1>1. s6 # Admission!NoRequest /\ s6' = [s6 EXCEPT !.row.checked = FALSE]
  BY DEF Admission!Stale
<1>2. /\ s6 \in [at : {"wait"}, rule : AdmissionRules, row : Admission!Row]
      /\ s6.row.spares => Admission!TakesNothing(s6.rule)
  BY <1>1 DEF Admission!AdmissionInv
<1>3. /\ [s6.row EXCEPT !.checked = FALSE] \in Admission!Row
      /\ ~[s6.row EXCEPT !.checked = FALSE].checked
      /\ [s6.row EXCEPT !.checked = FALSE].spares <=> s6.row.spares
  BY <1>2 DEF Admission!Row
<1>4. /\ s6' \in [at : {"wait"}, rule : AdmissionRules, row : Admission!Row]
      /\ s6'.rule = s6.rule /\ s6'.row = [s6.row EXCEPT !.checked = FALSE]
  BY <1>1, <1>2, <1>3
<1>5. \A k \in AdmissionRules : Admission!TakesNothing(k)' <=> Admission!TakesNothing(k)
  BY DEF Admission!TakesNothing, Admission!Listeners
<1>6. QED
  BY <1>2, <1>3, <1>4, <1>5

LEMMA AdmissionKeeps ==
    Admission!AdmissionInv /\ [Admission!Next]_(Admission!vars) => Admission!AdmissionInv'
<1> SUFFICES ASSUME Admission!AdmissionInv, [Admission!Next]_(Admission!vars)
             PROVE  Admission!AdmissionInv'
  OBVIOUS
<1>a. /\ s1 \in [AdmissionRules -> Admission!Specs] /\ s4 \in [AdmissionRules -> Admission!Row]
      /\ \A i \in AdmissionRules : s4[i].spares => Admission!TakesNothing(i)
      /\ s6 # Admission!NoRequest =>
           /\ s6 \in [at : {"wait"}, rule : AdmissionRules, row : Admission!Row]
           /\ s6.row.enabled /\ s6.row.checked =>
                \A j \in AdmissionRules \ {s6.rule} :
                   s4[j].enabled => ~Admission!Meet(s6.rule, j)
           /\ s6.row.spares => Admission!TakesNothing(s6.rule)
  BY DEF Admission!AdmissionInv
<1>b. ASSUME UNCHANGED <<s1, s2, s3>>
      PROVE  /\ \A k, j \in AdmissionRules : Admission!Meet(k, j)' <=> Admission!Meet(k, j)
             /\ \A k \in AdmissionRules :
                   Admission!TakesNothing(k)' <=> Admission!TakesNothing(k)
  BY <1>b DEF Admission!Meet, Admission!TakesNothing, Admission!Listeners
<1>1. ASSUME NEW i \in AdmissionRules, NEW on \in BOOLEAN, NEW force \in BOOLEAN,
             Admission!Submit(i, on, force)
      PROVE  Admission!AdmissionInv'
  <2> DEFINE row == [stored |-> TRUE, enabled |-> on, spares |-> on /\ ~force, checked |-> TRUE]
  <2>1. /\ Admission!Validate(i, on, force) /\ s6' = [at |-> "wait", rule |-> i, row |-> row]
        /\ UNCHANGED <<s1, s2, s3, s4, s5>>
    BY <1>1 DEF Admission!Submit
  <2>2. /\ on => \A j \in AdmissionRules \ {i} : s4[j].enabled => ~Admission!Meet(i, j)
        /\ on /\ ~force => Admission!TakesNothing(i)
        /\ row \in Admission!Row /\ (row.enabled <=> on) /\ (row.spares <=> on /\ ~force)
    BY <2>1, AdmissionValid
  <2> HIDE DEF row
  <2>3. /\ s6' \in [at : {"wait"}, rule : AdmissionRules, row : Admission!Row]
        /\ s6'.rule = i /\ s6'.row = row
    BY <2>1, <2>2
  <2>4. /\ s6'.row.enabled => \A j \in AdmissionRules \ {s6'.rule} :
             s4'[j].enabled => ~Admission!Meet(s6'.rule, j)
        /\ s6'.row.spares => Admission!TakesNothing(s6'.rule)
    BY <2>1, <2>2, <2>3
  <2>5. QED
    BY <1>b, <2>1, <2>3, <2>4 DEF Admission!AdmissionInv, Admission!Meet,
       Admission!TakesNothing, Admission!Listeners
<1>2. CASE Admission!Proceed
  <2>1. /\ s6.at = "wait" /\ s6' = Admission!NoRequest /\ UNCHANGED <<s1, s2, s3>>
        /\ s6 # Admission!NoRequest
    BY <1>2 DEF Admission!Proceed, Admission!NoRequest
  <2>2. s6.rule \in AdmissionRules /\ s6.row \in Admission!Row
    BY <1>a, <2>1
  <2>3. CASE UNCHANGED <<s4, s5>>
    BY <1>b, <2>1, <2>3 DEF Admission!AdmissionInv
  <2>4. CASE Admission!Write(s6.rule, s6.row)
    BY <1>a, <2>1, <2>2, <2>4, AdmissionWrites DEF Admission!AdmissionInv
  <2>5. QED
    BY <1>2, <2>3, <2>4 DEF Admission!Proceed
<1>c. ASSUME NEW i \in AdmissionRules, NEW row \in Admission!Row, Admission!Write(i, row),
             UNCHANGED <<s1, s2, s3>>, Admission!Stale,
             row.enabled /\ row.checked =>
               \A j \in AdmissionRules \ {i} : s4[j].enabled => ~Admission!Meet(i, j),
             row.spares => Admission!TakesNothing(i)
      PROVE  Admission!AdmissionInv'
  <2>1. /\ s4' \in [AdmissionRules -> Admission!Row]
        /\ (\A k, j \in AdmissionRules :
              (/\ k # j /\ s4[k].enabled /\ s4[k].checked
               /\ s4[j].enabled /\ s4[j].checked) => ~Admission!Meet(k, j))'
        /\ (\A k \in AdmissionRules : s4[k].spares => Admission!TakesNothing(k))'
        /\ (s5 \subseteq AdmissionRules /\ \A k \in s5 : Admission!CheckPanel(s1[k]))'
    BY <1>c, AdmissionWrites
  <2>2. s6' # Admission!NoRequest =>
              /\ s6' \in [at : {"wait"}, rule : AdmissionRules, row : Admission!Row]
              /\ ~s6'.row.checked
              /\ (s6.row.spares => Admission!TakesNothing(s6.rule))'
    BY <1>c, AdmissionStale
  <2>3. QED
    BY <1>a, <1>c, <2>1, <2>2 DEF Admission!AdmissionInv
<1>3. ASSUME NEW i \in AdmissionRules, NEW on \in BOOLEAN, NEW force \in BOOLEAN,
             Admission!Store(i, on, force)
      PROVE  Admission!AdmissionInv'
  <2>1. PICK row :
          /\ row = [stored |-> TRUE, enabled |-> on, spares |-> on /\ ~force, checked |-> TRUE]
          /\ Admission!Write(i, row) /\ Admission!Validate(i, on, force)
          /\ Admission!Stale /\ UNCHANGED <<s1, s2, s3>>
    BY <1>3 DEF Admission!Store
  <2>2. /\ on => \A j \in AdmissionRules \ {i} : s4[j].enabled => ~Admission!Meet(i, j)
        /\ on /\ ~force => Admission!TakesNothing(i)
        /\ row \in Admission!Row /\ (row.enabled <=> on) /\ (row.spares <=> on /\ ~force)
    BY <2>1, AdmissionValid
  <2>3. QED
    BY <1>c, <2>1, <2>2
<1>4. ASSUME NEW i \in AdmissionRules, NEW on \in BOOLEAN, Admission!SetEnabled(i, on)
      PROVE  Admission!AdmissionInv'
  <2>1. PICK row :
          /\ row = [s4[i] EXCEPT !.enabled = on, !.checked = FALSE, !.spares = FALSE]
          /\ Admission!Write(i, row) /\ Admission!Stale /\ UNCHANGED <<s1, s2, s3>>
    BY <1>4 DEF Admission!SetEnabled
  <2>2. row \in Admission!Row /\ ~row.checked /\ ~row.spares
    BY <1>a, <2>1 DEF Admission!Row
  <2>3. QED
    BY <1>c, <2>1, <2>2
<1>5. ASSUME NEW i \in AdmissionRules, Admission!Delete(i)
      PROVE  Admission!AdmissionInv'
  <2>1. Admission!NoRow \in Admission!Row
        /\ ~Admission!NoRow.enabled /\ ~Admission!NoRow.spares
    BY DEF Admission!NoRow, Admission!Row
  <2>2. QED
    BY <1>5, <1>c, <2>1 DEF Admission!Delete
<1>6. CASE Admission!DaemonsChange
  <2>1. /\ s4' = [i \in AdmissionRules |-> [s4[i] EXCEPT !.spares = FALSE]]
        /\ UNCHANGED <<s1, s5>>
    BY <1>6 DEF Admission!DaemonsChange
  <2>2. ASSUME NEW row \in Admission!Row
        PROVE  /\ [row EXCEPT !.spares = FALSE] \in Admission!Row
               /\ ~[row EXCEPT !.spares = FALSE].spares
               /\ [row EXCEPT !.spares = FALSE].enabled <=> row.enabled
               /\ [row EXCEPT !.spares = FALSE].checked <=> row.checked
    BY DEF Admission!Row
  <2>3. /\ s4' \in [AdmissionRules -> Admission!Row]
        /\ \A i \in AdmissionRules : /\ ~s4'[i].spares
                                     /\ s4'[i].enabled <=> s4[i].enabled
                                     /\ s4'[i].checked <=> s4[i].checked
    BY <1>a, <2>1, <2>2
  <2>4. \A k, j \in AdmissionRules : Admission!Meet(k, j)' <=> Admission!Meet(k, j)
    BY <2>1 DEF Admission!Meet
  <2>5. ASSUME s6' # Admission!NoRequest
        PROVE  /\ s6' \in [at : {"wait"}, rule : AdmissionRules, row : Admission!Row]
               /\ s6'.row.enabled /\ s6'.row.checked =>
                    \A j \in AdmissionRules \ {s6'.rule} :
                       s4'[j].enabled => ~Admission!Meet(s6'.rule, j)
               /\ ~s6'.row.spares
    <3>1. s6 # Admission!NoRequest /\ s6' = [s6 EXCEPT !.row.spares = FALSE]
      BY <1>6, <2>5 DEF Admission!DaemonsChange
    <3>2. /\ s6' \in [at : {"wait"}, rule : AdmissionRules, row : Admission!Row]
          /\ s6'.rule = s6.rule /\ s6'.row = [s6.row EXCEPT !.spares = FALSE]
      BY <1>a, <2>2, <3>1
    <3>3. s6.row \in Admission!Row
      BY <1>a, <3>1
    <3>4. ~s6'.row.spares /\ (s6'.row.enabled <=> s6.row.enabled)
          /\ (s6'.row.checked <=> s6.row.checked)
      BY <2>2, <3>2, <3>3
    <3>5. QED
      BY <1>a, <2>3, <3>1, <3>2, <3>4
  <2>6. QED
    BY <1>a, <2>1, <2>3, <2>4, <2>5 DEF Admission!AdmissionInv, Admission!Meet
<1>7. CASE UNCHANGED Admission!vars
  BY <1>7, <1>b DEF Admission!vars, Admission!AdmissionInv
<1>8. QED
  BY <1>1, <1>2, <1>3, <1>4, <1>5, <1>6, <1>7 DEF Admission!Next

(* A rule claims only what it meets, and takes only from what it met.      *)
LEMMA AdmissionIsSound == Admission!AdmissionInv => Admission!RulesAreAdmitted
<1> SUFFICES ASSUME Admission!AdmissionInv PROVE Admission!RulesAreAdmitted
  OBVIOUS
<1> USE DEF Admission!AdmissionInv
<1>1. ASSUME NEW i \in AdmissionRules
      PROVE  /\ s1[i].ports.first \in Int /\ s1[i].ports.last \in Int
  BY AdmissionAssumption DEF Admission!Specs, Admission!Ranges
<1>2. ASSUME NEW i \in AdmissionRules, NEW j \in AdmissionRules,
             "none" \notin {s1[i].address, s1[j].address}, ~Admission!Meet(i, j)
      PROVE  Admission!NothingInCommon(s1[i], s1[j])
  <2> SUFFICES ASSUME NEW pr \in {"tcp", "udp"}, NEW a \in Admission!Hosts,
                      NEW p \in 1..AdmissionMaxPort,
                      Admission!Claims(s1[i], pr, a, p), Admission!Claims(s1[j], pr, a, p)
               PROVE  FALSE
    BY DEF Admission!NothingInCommon
  <2>1. Admission!ProtocolsOverlap(s1[i].protocol, s1[j].protocol)
    BY DEF Admission!Claims, Admission!ProtocolsOverlap
  <2>2. Admission!BindAddressesOverlap(s1[i].address, s1[j].address)
    BY <1>2 DEF Admission!Claims, Admission!BindAddressesOverlap
  <2>3. Admission!PortRangesOverlap(s1[i].ports, s1[j].ports)
    BY <1>1, AdmissionAssumption DEF Admission!Claims, Admission!Covers,
       Admission!PortRangesOverlap
  <2>4. QED
    BY <1>2, <2>1, <2>2, <2>3 DEF Admission!Meet
<1>3. Admission!ListenersAreDisjoint
  <2>1. \A i, j \in AdmissionRules : i < j => i # j
    BY AdmissionAssumption
  <2>2. QED
    BY <1>2, <2>1 DEF Admission!ListenersAreDisjoint
<1>4. Admission!ServicesAreSpared
  <2> SUFFICES ASSUME NEW i \in AdmissionRules, s4[i].spares, NEW l \in Admission!Listeners,
                      NEW a \in Admission!Hosts, l.address \in {"any", a},
                      Admission!Claims(s1[i], l.protocol, a, l.port)
               PROVE  FALSE
    BY DEF Admission!ServicesAreSpared
  <2>1. ~Admission!TakesFrom(s1[i], l)
    BY DEF Admission!TakesNothing
  <2>2. QED
    BY <2>1 DEF Admission!TakesFrom, Admission!Claims
<1>5. Admission!PanelIsReachable
  BY DEF Admission!PanelIsReachable, Admission!CheckPanel, Admission!Claims
<1>6. QED
  BY <1>3, <1>4, <1>5 DEF Admission!RulesAreAdmitted

-----------------------------------------------------------------------------
(* Accounts: user, accounts, hits, jobs, sessions, checked.                *)
LEMMA AccountsBegin == Accounts!Init => Accounts!AccountsInv
<1> SUFFICES ASSUME Accounts!Init PROVE Accounts!AccountsInv
  OBVIOUS
<1> USE DEF Accounts!Init
<1>1. Accounts!NoUser \in Accounts!Rows
  BY DEF Accounts!NoUser, Accounts!Rows
<1>2. \A c \in AccountsClients : Accounts!JobKnown(s4[c])
  BY DEF Accounts!Idle, Accounts!JobKnown
<1>3. Accounts!AccountKnown
  BY <1>1, <1>2 DEF Accounts!AccountKnown, Accounts!NoUser
<1>4. Accounts!LimiterSound
  BY AccountsAssumption DEF Accounts!LimiterSound, Accounts!Throttled, Accounts!Recent,
     Accounts!NoHits, Accounts!Ages
<1>5. QED
  BY <1>3, <1>4 DEF Accounts!AccountsInv

(* What was read of the row stays of the row, whatever is written since.   *)
LEMMA AccountsLater ==
    ASSUME s1 \in Accounts!Rows, s1' \in Accounts!Rows, s5 \subseteq s5',
           \/ s1'.version = s1.version /\ s1'.password = s1.password
           \/ s1.version < s1'.version
    PROVE  /\ \A x : Accounts!OfTheRow(x) => Accounts!OfTheRow(x)'
           /\ \A job : Accounts!JobKnown(job) => Accounts!JobKnown(job)'
<1>1. \A x : Accounts!OfTheRow(x) => Accounts!OfTheRow(x)'
  BY DEF Accounts!OfTheRow, Accounts!Rows
<1>2. QED
  BY <1>1 DEF Accounts!JobKnown

(* A step of one client: it takes up another job.                          *)
LEMMA AccountsBecome ==
    ASSUME NEW c \in AccountsClients, NEW job, Accounts!Become(c, job),
           Accounts!AccountKnown, Accounts!JobKnown(job)',
           \A j : Accounts!JobKnown(j) => Accounts!JobKnown(j)'
    PROVE  /\ s4' = [d \in AccountsClients |-> s4'[d]]
           /\ \A d \in AccountsClients : Accounts!JobKnown(s4[d])'
<1>1. /\ s4' = [d \in AccountsClients |-> s4'[d]] /\ s4'[c] = job
      /\ \A d \in AccountsClients : d # c => s4'[d] = s4[d]
  BY DEF Accounts!Become, Accounts!AccountKnown
<1>2. \A d \in AccountsClients : Accounts!JobKnown(s4[d])
  BY DEF Accounts!AccountKnown
<1>3. \A d \in AccountsClients : (Accounts!JobKnown(s4[d]))'
  <2> SUFFICES ASSUME NEW d \in AccountsClients PROVE Accounts!JobKnown(s4[d])'
    OBVIOUS
  <2>1. CASE d = c
    <3>1. s4'[d] = job
      BY <1>1, <2>1
    <3>2. QED
      BY <3>1 DEF Accounts!JobKnown, Accounts!OfTheRow
  <2>2. CASE d # c
    <3>1. s4'[d] = s4[d] /\ Accounts!JobKnown(s4[d])
      BY <1>1, <1>2, <2>2
    <3>2. QED
      BY <3>1 DEF Accounts!JobKnown, Accounts!OfTheRow
  <2>3. QED
    BY <2>1, <2>2
<1>4. QED
  BY <1>1, <1>3

LEMMA AccountsKeep ==
    Accounts!AccountsInv /\ [Accounts!Next]_(Accounts!vars) => Accounts!AccountsInv'
<1> SUFFICES ASSUME Accounts!AccountsInv, [Accounts!Next]_(Accounts!vars)
             PROVE  Accounts!AccountsInv'
  OBVIOUS
<1> USE DEF Accounts!AccountsInv
<1>a. UNCHANGED <<s3, s6>> => Accounts!LimiterSound'
  BY DEF Accounts!LimiterSound, Accounts!Throttled, Accounts!Recent
<1>b. s3' = Accounts!NoHits /\ s6' = Accounts!NoHits => Accounts!LimiterSound'
  BY AccountsAssumption DEF Accounts!LimiterSound, Accounts!Throttled, Accounts!Recent,
     Accounts!NoHits, Accounts!Ages
<1>c. /\ s1 \in Accounts!Rows /\ s4 = [c \in AccountsClients |-> s4[c]]
      /\ \A c \in AccountsClients : Accounts!JobKnown(s4[c])
      /\ \A s \in s5 : Accounts!OfTheRow(s)
      /\ s2 \in {0, 1} /\ (s1.version = 0 => s2 = 0)
  BY DEF Accounts!AccountKnown
<1>d. ASSUME UNCHANGED <<s1, s5>>
      PROVE  \A job : Accounts!JobKnown(job) => Accounts!JobKnown(job)'
  BY <1>c, <1>d, AccountsLater
<1>e. Accounts!JobKnown(Accounts!Idle)'
  BY DEF Accounts!Idle, Accounts!JobKnown
<1>1. ASSUME NEW c \in AccountsClients, NEW p \in AccountsPasswords, Accounts!AskSetup(c, p)
      PROVE  Accounts!AccountsInv'
  <2>1. /\ Accounts!Become(c, [at |-> "setup", password |-> p])
        /\ UNCHANGED <<s1, s2, s3, s5, s6>>
    BY <1>1 DEF Accounts!AskSetup
  <2>2. Accounts!JobKnown([at |-> "setup", password |-> p])'
    BY DEF Accounts!JobKnown
  <2>3. Accounts!AccountKnown'
    BY <1>c, <1>d, <2>1, <2>2, AccountsBecome DEF Accounts!AccountKnown, Accounts!OfTheRow
  <2>4. QED
    BY <1>a, <2>1, <2>3
<1>2. ASSUME NEW c \in AccountsClients, Accounts!Setup(c)
      PROVE  Accounts!AccountsInv'
  <2>1. Accounts!Become(c, Accounts!Idle) /\ s4[c].at = "setup" /\ UNCHANGED <<s3, s6>>
    BY <1>2 DEF Accounts!Setup
  <2>2. CASE UNCHANGED <<s1, s2, s5>>
    BY <1>a, <1>c, <1>d, <1>e, <2>1, <2>2, AccountsBecome
       DEF Accounts!AccountKnown, Accounts!OfTheRow
  <2>3. ASSUME s1 = Accounts!NoUser, NEW p, p = s4[c].password,
               s1' = [password |-> p, version |-> 1, failed |-> 0, locked |-> 0],
               s2' = s2 + 1,
               s5' = s5 \cup {[version |-> 1, password |-> p, by |-> "login"]}
        PROVE  Accounts!AccountsInv'
    <3>1. p \in AccountsPasswords
      BY <1>c, <2>1, <2>3 DEF Accounts!JobKnown
    <3>2. s1' \in Accounts!Rows /\ s1'.version = 1 /\ s1'.password = p /\ s1.version = 0
      BY <2>3, <3>1 DEF Accounts!Rows, Accounts!NoUser
    <3>3. /\ \A x : Accounts!OfTheRow(x) => Accounts!OfTheRow(x)'
          /\ \A job : Accounts!JobKnown(job) => Accounts!JobKnown(job)'
      BY <1>c, <2>3, <3>2, AccountsLater
    <3>4. /\ s4' = [d \in AccountsClients |-> s4'[d]]
          /\ \A d \in AccountsClients : Accounts!JobKnown(s4[d])'
      BY <1>e, <2>1, <3>3, AccountsBecome
    <3>5. ASSUME NEW s \in s5' PROVE Accounts!OfTheRow(s)'
      <4>1. CASE s \in s5
        BY <1>c, <3>3, <4>1
      <4>2. CASE s = [version |-> 1, password |-> p, by |-> "login"]
        BY <3>2, <4>2 DEF Accounts!OfTheRow
      <4>3. QED
        BY <2>3, <4>1, <4>2
    <3>6. s2' = 1
      BY <1>c, <2>3, <3>2
    <3>7. QED
      BY <1>a, <2>1, <3>2, <3>4, <3>5, <3>6 DEF Accounts!AccountKnown
  <2>4. QED
    BY <1>2, <2>2, <2>3 DEF Accounts!Setup
<1>3. ASSUME NEW c \in AccountsClients, NEW p \in AccountsPasswords,
             Accounts!Authenticate(c, p)
      PROVE  Accounts!AccountsInv'
  <2>1. s1 # Accounts!NoUser /\ s3' = Accounts!Count(s3) /\ UNCHANGED <<s1, s2, s5>>
    BY <1>3 DEF Accounts!Authenticate
  <2>2. CASE UNCHANGED <<s6, s4>>
    <3>1. Accounts!AccountKnown'
      BY <1>c, <2>1, <2>2 DEF Accounts!AccountKnown, Accounts!OfTheRow, Accounts!JobKnown
    <3>2. Accounts!LimiterSound'
      BY <2>1, <2>2, AccountsAssumption DEF Accounts!LimiterSound, Accounts!Throttled,
         Accounts!Recent, Accounts!Count, Accounts!Ages
    <3>3. QED
      BY <3>1, <3>2
  <2>3. CASE /\ Accounts!Recent(s3) < AccountsLimit /\ s6' = Accounts!Count(s6)
             /\ Accounts!Become(c, [at |-> "check", password |-> p, row |-> s1])
    <3>1. Accounts!LimiterSound'
      BY <2>1, <2>3, AccountsAssumption DEF Accounts!LimiterSound, Accounts!Throttled,
         Accounts!Recent, Accounts!Count, Accounts!Ages
    <3>2. Accounts!JobKnown([at |-> "check", password |-> p, row |-> s1])'
      BY <1>c, <2>1 DEF Accounts!JobKnown, Accounts!OfTheRow, Accounts!Rows
    <3>3. Accounts!AccountKnown'
      BY <1>c, <1>d, <2>1, <2>3, <3>2, AccountsBecome DEF Accounts!AccountKnown, Accounts!OfTheRow
    <3>4. QED
      BY <3>1, <3>3
  <2>4. QED
    BY <1>3, <2>2, <2>3 DEF Accounts!Authenticate
<1>f. ASSUME NEW c \in AccountsClients, s4[c].at \in {"check", "issue"}
      PROVE  /\ s4[c] \in [at : {"check", "issue"}, password : AccountsPasswords,
                           row : Accounts!Rows]
             /\ Accounts!OfTheRow(s4[c].row)
             /\ s4[c].at = "issue" => s4[c].password = s4[c].row.password
  BY <1>c, <1>f DEF Accounts!JobKnown
<1>4. ASSUME NEW c \in AccountsClients, Accounts!RecordFailure(c)
      PROVE  Accounts!AccountsInv'
  <2>1. /\ Accounts!Become(c, Accounts!Idle) /\ s4[c].at = "check"
        /\ UNCHANGED <<s2, s3, s5, s6>>
    BY <1>4 DEF Accounts!RecordFailure
  <2>2. s4[c].row.failed + 1 \in Nat
    BY <1>f, <2>1 DEF Accounts!Rows
  <2>3. s1' \in Accounts!Rows /\ s1'.version = s1.version /\ s1'.password = s1.password
    BY <1>4, <1>c, <2>2 DEF Accounts!RecordFailure, Accounts!Rows
  <2>4. /\ \A x : Accounts!OfTheRow(x) => Accounts!OfTheRow(x)'
        /\ \A job : Accounts!JobKnown(job) => Accounts!JobKnown(job)'
    BY <1>c, <2>1, <2>3, AccountsLater
  <2>5. Accounts!AccountKnown'
    BY <1>c, <1>e, <2>1, <2>3, <2>4, AccountsBecome DEF Accounts!AccountKnown
  <2>6. QED
    BY <1>a, <2>1, <2>5
<1>5. ASSUME NEW c \in AccountsClients, Accounts!RecordSuccess(c)
      PROVE  Accounts!AccountsInv'
  <2>1. PICK job, row :
           /\ job = [s4[c] EXCEPT !.at = "issue"] /\ row = s4[c].row
           /\ Accounts!Become(c, job) /\ s4[c].at = "check" /\ s4[c].password = row.password
           /\ s3' = Accounts!NoHits /\ s6' = Accounts!NoHits /\ UNCHANGED <<s2, s5>>
    BY <1>5 DEF Accounts!RecordSuccess
  <2>2. s1' \in Accounts!Rows /\ s1'.version = s1.version /\ s1'.password = s1.password
    BY <1>5, <1>c DEF Accounts!RecordSuccess, Accounts!Rows
  <2>3. /\ \A x : Accounts!OfTheRow(x) => Accounts!OfTheRow(x)'
        /\ \A j : Accounts!JobKnown(j) => Accounts!JobKnown(j)'
    BY <1>c, <2>1, <2>2, AccountsLater
  <2>4. /\ job \in [at : {"check", "issue"}, password : AccountsPasswords, row : Accounts!Rows]
        /\ job.row = row /\ job.password = row.password /\ job.at = "issue"
    <3>1. s4[c] \in [at : {"check", "issue"}, password : AccountsPasswords,
                     row : Accounts!Rows]
      BY <1>f, <2>1
    <3>2. QED
      BY ONLY <3>1, <2>1
  <2>5. Accounts!JobKnown(job)'
    <3>1. Accounts!OfTheRow(job.row)'
      BY <1>f, <2>1, <2>3, <2>4
    <3>2. QED
      BY <2>4, <3>1 DEF Accounts!JobKnown
  <2>6. Accounts!AccountKnown'
    BY <1>c, <2>1, <2>2, <2>3, <2>5, AccountsBecome DEF Accounts!AccountKnown
  <2>7. QED
    BY <1>b, <2>1, <2>6
<1>g. ASSUME NEW c \in AccountsClients, NEW s, Accounts!Become(c, Accounts!Idle),
             s5' = s5 \cup {s}, Accounts!OfTheRow(s),
             UNCHANGED <<s1, s2, s3, s6>>
      PROVE  Accounts!AccountsInv'
  <2>1. /\ \A x : Accounts!OfTheRow(x) => Accounts!OfTheRow(x)'
        /\ \A job : Accounts!JobKnown(job) => Accounts!JobKnown(job)'
    BY <1>c, <1>g, AccountsLater
  <2>2. \A x \in s5' : Accounts!OfTheRow(x)'
    BY <1>c, <1>g, <2>1
  <2>3. Accounts!AccountKnown'
    BY <1>c, <1>e, <1>g, <2>1, <2>2, AccountsBecome DEF Accounts!AccountKnown
  <2>4. QED
    BY <1>a, <1>g, <2>3
<1>6. ASSUME NEW c \in AccountsClients, Accounts!IssueSession(c)
      PROVE  Accounts!AccountsInv'
  <2> DEFINE s == [version |-> s4[c].row.version, by |-> "login",
                   password |-> s4[c].row.password]
  <2>1. /\ Accounts!Become(c, Accounts!Idle) /\ s4[c].at = "issue"
        /\ s5' = s5 \cup {s} /\ UNCHANGED <<s1, s2, s3, s6>>
    BY <1>6 DEF Accounts!IssueSession
  <2>2. Accounts!OfTheRow(s)
    BY <1>f, <2>1 DEF Accounts!OfTheRow
  <2> HIDE DEF s
  <2>3. QED
    BY <1>g, <2>1, <2>2
<1>7. ASSUME NEW c \in AccountsClients, NEW s \in s5, Accounts!ResolveToken(c, s)
      PROVE  Accounts!AccountsInv'
  <2>1. /\ Accounts!Become(c, [at |-> "refresh", session |-> s])
        /\ UNCHANGED <<s1, s2, s3, s5, s6>>
    BY <1>7 DEF Accounts!ResolveToken
  <2>2. Accounts!JobKnown([at |-> "refresh", session |-> s])'
    BY <2>1 DEF Accounts!JobKnown
  <2>3. Accounts!AccountKnown'
    BY <1>c, <1>d, <2>1, <2>2, AccountsBecome DEF Accounts!AccountKnown, Accounts!OfTheRow
  <2>4. QED
    BY <1>a, <2>1, <2>3
<1>8. ASSUME NEW c \in AccountsClients, Accounts!Refresh(c)
      PROVE  Accounts!AccountsInv'
  <2>1. /\ Accounts!Become(c, Accounts!Idle) /\ s4[c].at = "refresh"
        /\ s5' = s5 \cup {s4[c].session} /\ UNCHANGED <<s1, s2, s3, s6>>
    BY <1>8 DEF Accounts!Refresh
  <2>2. s4[c].session \in s5
    BY <1>c, <2>1 DEF Accounts!JobKnown
  <2>3. QED
    BY <1>c, <1>g, <2>1, <2>2
<1>9. ASSUME NEW c \in AccountsClients, NEW s, NEW p \in AccountsPasswords,
             Accounts!UpdateMe(c, s, p)
      PROVE  Accounts!AccountsInv'
  <2>1. /\ Accounts!Become(c, [at |-> "change", password |-> p])
        /\ UNCHANGED <<s1, s2, s3, s5, s6>>
    BY <1>9 DEF Accounts!UpdateMe
  <2>2. Accounts!JobKnown([at |-> "change", password |-> p])'
    BY DEF Accounts!JobKnown
  <2>3. Accounts!AccountKnown'
    BY <1>c, <1>d, <2>1, <2>2, AccountsBecome DEF Accounts!AccountKnown, Accounts!OfTheRow
  <2>4. QED
    BY <1>a, <2>1, <2>3
<1>10. ASSUME NEW c \in AccountsClients, Accounts!ChangePassword(c)
       PROVE  Accounts!AccountsInv'
  <2>1. /\ Accounts!Become(c, [at |-> "reread"]) /\ s4[c].at = "change"
        /\ s1' = [s1 EXCEPT !.password = s4[c].password, !.version = @ + 1]
        /\ UNCHANGED <<s2, s3, s5, s6>>
    BY <1>10 DEF Accounts!ChangePassword, Accounts!WritePassword
  <2>2. s4[c].password \in AccountsPasswords
    BY <1>c, <2>1 DEF Accounts!JobKnown
  <2>3. s1' \in Accounts!Rows /\ s1'.version = s1.version + 1 /\ s1.version \in Nat
    <3>1. s1.version \in Nat
      BY <1>c DEF Accounts!Rows
    <3>2. s1.version + 1 \in Nat
      BY <3>1
    <3>3. QED
      BY <1>c, <2>1, <2>2, <3>1, <3>2 DEF Accounts!Rows
  <2>4. /\ \A x : Accounts!OfTheRow(x) => Accounts!OfTheRow(x)'
        /\ \A j : Accounts!JobKnown(j) => Accounts!JobKnown(j)'
    BY <1>c, <2>1, <2>3, AccountsLater
  <2>5. Accounts!JobKnown([at |-> "reread"])'
    BY DEF Accounts!JobKnown
  <2>6. Accounts!AccountKnown'
    BY <1>c, <2>1, <2>3, <2>4, <2>5, AccountsBecome DEF Accounts!AccountKnown
  <2>7. QED
    BY <1>a, <2>1, <2>6
<1>11. ASSUME NEW c \in AccountsClients, Accounts!ChangeUsername(c)
       PROVE  Accounts!AccountsInv'
  <2>1. Accounts!Become(c, [at |-> "reread"]) /\ UNCHANGED <<s1, s2, s3, s5, s6>>
    BY <1>11 DEF Accounts!ChangeUsername
  <2>2. Accounts!JobKnown([at |-> "reread"])'
    BY DEF Accounts!JobKnown
  <2>3. Accounts!AccountKnown'
    BY <1>c, <1>d, <2>1, <2>2, AccountsBecome DEF Accounts!AccountKnown, Accounts!OfTheRow
  <2>4. QED
    BY <1>a, <2>1, <2>3
<1>12. ASSUME NEW c \in AccountsClients, Accounts!UserByID(c)
       PROVE  Accounts!AccountsInv'
  <2> DEFINE s == [version |-> s1.version, by |-> "change", password |-> s1.password]
  <2>1. /\ Accounts!Become(c, Accounts!Idle) /\ s4[c].at = "reread"
        /\ s5' = s5 \cup {s} /\ UNCHANGED <<s1, s2, s3, s6>>
    BY <1>12 DEF Accounts!UserByID
  <2>2. Accounts!OfTheRow(s)
    BY <1>c DEF Accounts!OfTheRow, Accounts!Rows
  <2> HIDE DEF s
  <2>3. QED
    BY <1>g, <2>1, <2>2
<1>13. ASSUME NEW p \in AccountsPasswords, Accounts!ResetPassword(p)
       PROVE  Accounts!AccountsInv'
  <2>1. /\ s1' = [password |-> p, version |-> s1.version + 1, failed |-> 0, locked |-> 0]
        /\ UNCHANGED <<s2, s3, s4, s5, s6>>
    BY <1>13 DEF Accounts!ResetPassword
  <2>2. s1' \in Accounts!Rows /\ s1'.version = s1.version + 1 /\ s1.version \in Nat
    BY <1>c, <2>1 DEF Accounts!Rows
  <2>3. /\ \A x : Accounts!OfTheRow(x) => Accounts!OfTheRow(x)'
        /\ \A j : Accounts!JobKnown(j) => Accounts!JobKnown(j)'
    BY <1>c, <2>1, <2>2, AccountsLater
  <2>4. Accounts!AccountKnown'
    BY <1>c, <2>1, <2>2, <2>3 DEF Accounts!AccountKnown
  <2>5. QED
    BY <1>a, <2>1, <2>4
<1>14. CASE Accounts!Tick
  <2>1. UNCHANGED <<s2, s4, s5>>
    BY <1>14 DEF Accounts!Tick
  <2>2. s1' \in Accounts!Rows /\ s1'.version = s1.version /\ s1'.password = s1.password
    BY <1>14, <1>c DEF Accounts!Tick, Accounts!Rows
  <2>3. /\ \A x : Accounts!OfTheRow(x) => Accounts!OfTheRow(x)'
        /\ \A j : Accounts!JobKnown(j) => Accounts!JobKnown(j)'
    BY <1>c, <2>1, <2>2, AccountsLater
  <2>4. Accounts!AccountKnown'
    BY <1>c, <2>1, <2>2, <2>3 DEF Accounts!AccountKnown
  <2>5. Accounts!LimiterSound'
    BY <1>14, AccountsAssumption DEF Accounts!Tick, Accounts!LimiterSound,
       Accounts!Throttled, Accounts!Recent, Accounts!Ages
  <2>6. QED
    BY <2>4, <2>5
<1>15. CASE Accounts!Restart
  <2>1. /\ s4' = [c \in AccountsClients |-> Accounts!Idle]
        /\ s3' = Accounts!NoHits /\ s6' = Accounts!NoHits /\ UNCHANGED <<s1, s2, s5>>
    BY <1>15 DEF Accounts!Restart
  <2>2. \A c \in AccountsClients : Accounts!JobKnown(s4[c])'
    BY <2>1 DEF Accounts!Idle, Accounts!JobKnown
  <2>3. Accounts!AccountKnown'
    BY <1>c, <2>1, <2>2 DEF Accounts!AccountKnown, Accounts!OfTheRow
  <2>4. QED
    BY <1>b, <2>1, <2>3
<1>16. CASE UNCHANGED Accounts!vars
  BY <1>16, <1>a, <1>c DEF Accounts!vars, Accounts!AccountKnown, Accounts!OfTheRow,
     Accounts!JobKnown
<1>17. QED
  BY <1>1, <1>2, <1>3, <1>4, <1>5, <1>6, <1>7, <1>8, <1>9, <1>10, <1>11, <1>12, <1>13,
     <1>14, <1>15, <1>16 DEF Accounts!Next

-----------------------------------------------------------------------------
(* SelfUpdate: file, unit, disk, current, age, start, check, stale,        *)
(* doubted, ok, lookups.                                                   *)
LEMMA UpdateBegins == Update!Init => Update!UpdateInv
<1> SUFFICES ASSUME Update!Init PROVE Update!UpdateInv
  OBVIOUS
<1>1. /\ s1 = [stage |-> "idle", from |-> UpdateLocal] /\ s2 = "none" /\ s5 = 0
      /\ s6 = [next |-> 0] /\ s4 \in UpdateVersions \cup {UpdateLocal} /\ s3 = s4
      /\ s7 = [checking |-> FALSE, latest |-> UpdateLocal, fresh |-> FALSE]
      /\ s8 = 0 /\ s9 = FALSE /\ s10 = FALSE /\ s11 = 0
  BY DEF Update!Init, Update!Idle, Update!NoStart
<1>2. Update!UpdateKnown
  <2>1. s1 \in [stage : {"idle", "running", "failed", "succeeded"},
               from : UpdateVersions \cup {UpdateLocal}]
    BY <1>1
  <2>2. s7 \in [checking : BOOLEAN, latest : UpdateVersions \cup {UpdateLocal},
               fresh : BOOLEAN]
    BY <1>1
  <2>3. s6 \in [next : 0..2]
    BY <1>1
  <2>4. QED
    BY <1>1, <2>1, <2>2, <2>3 DEF Update!UpdateKnown
<1>3. QED
  BY <1>1, <1>2 DEF Update!UpdateInv

(* What State and Start make of the recorded run.                          *)
LEMMA UpdateResolves ==
    ASSUME Update!UpdateInv, NEW u, Update!Reading(u)
    PROVE  /\ Update!Resolve(u) \in [stage : {"idle", "running", "failed", "succeeded"},
                                     from : UpdateVersions \cup {UpdateLocal}]
           /\ s9' \in BOOLEAN /\ (~s9' => ~s9 /\ u = s2)
           /\ Update!Resolve(u).stage = "running" => s1.stage = "running"
           /\ s1.stage = "running" /\ u = "active" /\ s5 < 2
                 => Update!Resolve(u).stage = "running"
           /\ s1.stage = "running" /\ Update!Resolve(u).stage = "succeeded"
                 => s10 \/ s4 # s1.from
<1>1. u \in {s2, "none"} /\ s9' = (s9 \/ u # s2)
  BY DEF Update!Reading
<1>2. CASE s1.stage # "running"
  BY <1>1, <1>2 DEF Update!Resolve, Update!UpdateInv, Update!UpdateKnown
<1>3. CASE s1.stage = "running"
  <2>1. PICK stage \in {"running", "failed", "succeeded"} :
          /\ Update!Resolve(u) = [s1 EXCEPT !.stage = stage]
          /\ u = "active" /\ s5 < 2 => stage = "running"
          /\ stage = "succeeded" => u = "exited" \/ s4 # s1.from
    <3>1. CASE u = "active"
      BY <1>3, <3>1 DEF Update!Resolve, Update!UpdateInv, Update!UpdateKnown
    <3>2. CASE u = "failed"
      BY <1>3, <3>2 DEF Update!Resolve, Update!UpdateInv, Update!UpdateKnown
    <3>3. CASE u = "exited"
      BY <1>3, <3>3 DEF Update!Resolve, Update!UpdateInv, Update!UpdateKnown
    <3>4. CASE u \notin {"active", "failed", "exited"}
      BY <1>3, <3>4 DEF Update!Resolve, Update!UpdateInv, Update!UpdateKnown
    <3>5. QED
      BY <3>1, <3>2, <3>3, <3>4
  <2>2. /\ [s1 EXCEPT !.stage = stage] \in [stage : {"idle", "running", "failed", "succeeded"},
                                            from : UpdateVersions \cup {UpdateLocal}]
        /\ [s1 EXCEPT !.stage = stage].stage = stage
    BY DEF Update!UpdateInv, Update!UpdateKnown
  <2>3. u = "exited" => s10
    BY <1>1 DEF Update!UpdateInv
  <2>4. QED
    BY <1>1, <1>3, <2>1, <2>2, <2>3 DEF Update!UpdateInv, Update!UpdateKnown
<1>4. QED
  BY <1>2, <1>3

LEMMA UpdateKeeps ==
    Update!UpdateInv /\ [Update!Next]_(Update!vars) => Update!UpdateInv' /\ Update!UpdateIsSafe
<1> SUFFICES ASSUME Update!UpdateInv, [Update!Next]_(Update!vars)
             PROVE  Update!UpdateInv' /\ Update!UpdateIsSafe
  OBVIOUS
<1> USE DEF Update!UpdateInv, Update!UpdateKnown, Update!UpdateIsSafe, Update!Undisturbed, Update!Truthful,
            Update!checkVars, Update!runVars
<1>1. ASSUME NEW u, Update!State(u)
      PROVE  Update!UpdateInv' /\ Update!UpdateIsSafe
  <2>1. Update!Reading(u) /\ s6 = Update!NoStart /\ s1' = Update!Resolve(u)
        /\ UNCHANGED <<s2, s3, s4, s5, s6, s10>> /\ UNCHANGED <<s7, s8, s11>>
    BY <1>1 DEF Update!State
  <2>2. s6.next = 0
    BY <2>1 DEF Update!NoStart
  <2>3. QED
    BY <2>1, <2>2, UpdateResolves
<1>2. ASSUME NEW u, Update!Start(u)
      PROVE  Update!UpdateInv' /\ Update!UpdateIsSafe
  <2>1. Update!Reading(u) /\ s6 = Update!NoStart /\ s1' = Update!Resolve(u)
        /\ UNCHANGED <<s3, s4, s5, s10>> /\ UNCHANGED <<s7, s8, s11>>
    BY <1>2 DEF Update!Start
  <2>2. s6.next = 0
    BY <2>1 DEF Update!NoStart
  <2>3. CASE s1'.stage = "running" /\ UNCHANGED <<s2, s6>>
    BY <2>1, <2>2, <2>3, UpdateResolves
  <2>4. CASE s1'.stage # "running" /\ s2' = "none" /\ s6' = [next |-> 1]
    <3>1. s6' \in [next : 0..2] /\ s6'.next = 1
      BY <2>4
    <3>2. QED
      BY <2>1, <2>4, <3>1, UpdateResolves
  <2>5. QED
    BY <1>2, <2>3, <2>4 DEF Update!Start
<1>3. ASSUME NEW doing, Update!Proceed(doing)
      PROVE  /\ s6' \in [next : 0..2]
             /\ \/ doing = "write" /\ s6.next = 1 /\ s6'.next = 2
                \/ doing = "launch" /\ s6.next = 2 /\ s6'.next = 0
             /\ UNCHANGED <<s3, s4>> /\ UNCHANGED <<s7, s8, s11>>
  BY <1>3 DEF Update!Proceed, Update!Steps, Update!NoStart
<1>4. CASE Update!Write
  <2>1. s6' \in [next : 0..2] /\ s6.next = 1 /\ s6'.next = 2
        /\ UNCHANGED <<s3, s4>> /\ UNCHANGED <<s7, s8, s11>>
    BY <1>3, <1>4 DEF Update!Write
  <2>2. s5' = 0 /\ s9' = FALSE /\ s10' = FALSE /\ s2' = s2
    BY <1>4 DEF Update!Write
  <2>3. /\ s1' \in [stage : {"idle", "running", "failed", "succeeded"},
                   from : UpdateVersions \cup {UpdateLocal}]
        /\ s1'.stage = "running"
    <3>1. s1' = [stage |-> "running", from |-> s4]
      BY <1>4 DEF Update!Write
    <3>2. QED
      BY <3>1
  <2>4. s2' = "none"
    BY <2>1, <2>2
  <2>5. Update!UpdateKnown'
    <3>1. s9' \in BOOLEAN /\ s10' \in BOOLEAN
      BY ONLY <2>2, Zenon
    <3>2. s7' \in [checking : BOOLEAN, latest : UpdateVersions \cup {UpdateLocal},
                  fresh : BOOLEAN]
      BY <2>1
    <3>3. s2' \in {"none", "active", "exited", "failed"} /\ s8' \in Nat
          /\ s3' \in UpdateVersions \cup {UpdateLocal} /\ s4' \in UpdateVersions \cup {UpdateLocal}
      BY <2>1, <2>2
    <3>4. QED
      BY <2>1, <2>2, <2>3, <3>1, <3>2, <3>3
  <2>6. QED
    BY <2>1, <2>2, <2>3, <2>4, <2>5
<1>5. CASE Update!Launch
  <2>1. s6' \in [next : 0..2] /\ s6.next = 2 /\ s6'.next = 0
        /\ UNCHANGED <<s3, s4>> /\ UNCHANGED <<s7, s8, s11>>
    BY <1>3, <1>5 DEF Update!Launch
  <2>2. s2' = "active" /\ UNCHANGED <<s1, s5, s9, s10>>
    BY <1>5 DEF Update!Launch
  <2>3. QED
    BY <2>1, <2>2
<1>6. CASE Update!LaunchFails
  <2>1. s6' \in [next : 0..2] /\ s6.next = 2 /\ s6'.next = 0
        /\ UNCHANGED <<s3, s4>> /\ UNCHANGED <<s7, s8, s11>>
    BY <1>3, <1>6 DEF Update!LaunchFails
  <2>2. s2' \in {"none", "active"} /\ s9' = (s2' = "active") /\ UNCHANGED <<s5, s10>>
        /\ s1' = [s1 EXCEPT !.stage = "failed"]
    BY <1>6 DEF Update!LaunchFails
  <2>3. s1' \in [stage : {"failed"}, from : UpdateVersions \cup {UpdateLocal}]
    BY <2>2
  <2>4. Update!UpdateKnown' /\ (~s9' => s2' = "none")
    BY <2>1, <2>2, <2>3
  <2>5. QED
    BY <2>1, <2>2, <2>3, <2>4
<1>7. ASSUME NEW v \in UpdateVersions, Update!Install(v)
      PROVE  Update!UpdateInv' /\ Update!UpdateIsSafe
  BY <1>7 DEF Update!Install
<1>8. ASSUME Update!Restarted, s2' \in {s2, "none"}, UNCHANGED <<s1, s3, s5, s9, s10>>
      PROVE  Update!UpdateInv' /\ Update!UpdateIsSafe
  <2>1. /\ s4' = s3 /\ s6' \in [next : {0}] /\ s8' = 0 /\ s11' = 0
        /\ s7' = [checking |-> FALSE, latest |-> UpdateLocal, fresh |-> FALSE]
    BY <1>8 DEF Update!Restarted, Update!NoStart
  <2>2. s6'.next = 0 /\ ~s7'.checking
    BY <2>1
  <2>3. s6' \in [next : 0..2] /\ s7' \in [checking : BOOLEAN, fresh : BOOLEAN,
                                        latest : UpdateVersions \cup {UpdateLocal}]
    BY <2>1
  <2>4. Update!UpdateKnown'
    BY <1>8, <2>1, <2>3
  <2>5. QED
    BY <1>8, <2>1, <2>2, <2>4
<1>9. CASE Update!RestartPanel
  BY <1>8, <1>9 DEF Update!RestartPanel
<1>10. CASE Update!Reboot
  BY <1>8, <1>10 DEF Update!Reboot
<1>11. CASE Update!Exit
  <2>1. s2 = "active" /\ UNCHANGED <<s1, s3, s4, s5, s6, s9>> /\ UNCHANGED <<s7, s8, s11>>
        /\ s2' \in {"exited", "failed"} /\ s10' \in BOOLEAN /\ (s2' = "exited" => s10')
    BY <1>11 DEF Update!Exit
  <2>2. QED
    BY <2>1
<1>12. CASE Update!Tick
  <2>1. s7' = [s7 EXCEPT !.fresh = FALSE]
    BY <1>12 DEF Update!Tick
  <2>2. /\ s7' \in [checking : BOOLEAN, latest : UpdateVersions \cup {UpdateLocal},
                    fresh : BOOLEAN]
        /\ s7'.checking = s7.checking
    BY <2>1
  <2>3. QED
    BY <1>12, <2>2 DEF Update!Tick
<1>13. CASE Update!FindStale
  BY <1>13 DEF Update!FindStale
<1>14. ASSUME NEW asked \in BOOLEAN, Update!Begin(asked)
       PROVE  Update!UpdateInv' /\ Update!UpdateIsSafe
  <2>1. s8' \in Nat
    BY <1>14 DEF Update!Begin
  <2>2. CASE s7.checking /\ UNCHANGED <<s7, s11>>
    BY <1>14, <2>1, <2>2 DEF Update!Begin
  <2>3. CASE ~s7.checking /\ s7' = [s7 EXCEPT !.checking = TRUE] /\ s11' = s11 + 1
    <3>1. s7' \in [checking : {TRUE}, latest : UpdateVersions \cup {UpdateLocal},
                   fresh : BOOLEAN]
      BY <2>3
    <3>2. UNCHANGED <<s1, s2, s3, s4, s5, s6, s9, s10>>
      BY <1>14 DEF Update!Begin
    <3>3. Update!UpdateKnown' /\ s7'.checking /\ s11 = 0
      BY <2>1, <2>3, <3>1, <3>2
    <3>4. QED
      BY <2>3, <3>2, <3>3
  <2>4. QED
    BY <1>14, <2>2, <2>3 DEF Update!Begin
<1>15. CASE Update!Fetch
  <2>1. s11 > 0 /\ s11' = s11 - 1 /\ s8' = s8 /\ UNCHANGED <<s1, s2, s3, s4, s5, s6, s9, s10>>
    BY <1>15 DEF Update!Fetch
  <2>2. ~s7'.checking /\ s7' \in [checking : BOOLEAN, fresh : BOOLEAN,
                                  latest : UpdateVersions \cup {UpdateLocal}]
    <3>1. CASE s7' = [s7 EXCEPT !.checking = FALSE, !.fresh = TRUE]
      BY <3>1
    <3>2. ASSUME NEW v \in UpdateVersions, s7' = [checking |-> FALSE, fresh |-> TRUE, latest |-> v]
          PROVE  ~s7'.checking /\ s7' \in [checking : BOOLEAN, fresh : BOOLEAN,
                                           latest : UpdateVersions \cup {UpdateLocal}]
      BY <3>2
    <3>3. QED
      BY <1>15, <3>1, <3>2 DEF Update!Fetch
  <2>3. s7' \in [checking : BOOLEAN, latest : UpdateVersions \cup {UpdateLocal},
                 fresh : BOOLEAN]
    BY <2>2
  <2>4. ~s7'.checking /\ s11 = 1
    BY <2>1, <2>2
  <2>5. Update!UpdateKnown'
    BY <2>1, <2>3
  <2>6. QED
    BY <2>1, <2>4, <2>5
<1>16. CASE UNCHANGED Update!vars
  BY <1>16 DEF Update!vars
<1>17. QED
  BY <1>1, <1>2, <1>4, <1>5, <1>6, <1>7, <1>9, <1>10, <1>11, <1>12, <1>13, <1>14, <1>15, <1>16
     DEF Update!Next

-----------------------------------------------------------------------------
(* Settings: row, cache, jobs, signal, monitor, bent, crossed.             *)
LEMMA SettingsValue ==
    /\ \A r : Settings!Effective(r) \in [Settings!Keys -> SettingsValues]
    /\ \A old \in [Settings!Keys -> SettingsValues],
          c \in [Settings!Keys -> SettingsValues \cup {SettingsUnset}] :
             Settings!Merged(old, c) \in [Settings!Keys -> SettingsValues]
BY SettingsAssumption DEF Settings!Effective, Settings!Merged, Settings!Keys

LEMMA SettingsBegin == Settings!Init => Settings!SettingsInv
<1> SUFFICES ASSUME Settings!Init PROVE Settings!SettingsInv
  OBVIOUS
<1>1. s2 = Settings!Effective(s1) /\ s5 = s2 /\ s4 = FALSE /\ s6 = FALSE /\ s7 = FALSE
  BY DEF Settings!Init
<1>2. s3 = [w \in SettingsWriters |-> Settings!NoJob]
  BY DEF Settings!Init
<1>3. Settings!JobKnown(Settings!NoJob)
  BY DEF Settings!NoJob, Settings!JobKnown
<1>4. Settings!NoJob.at = "idle"
  BY DEF Settings!NoJob
<1>5. s1 = [k \in Settings!Keys |-> s1[k]] /\ Settings!Ordered(Settings!Effective(s1))
  BY SettingsAssumption DEF Settings!Init, Settings!Keys, Settings!Effective, Settings!Ordered
<1>6. s2 \in [Settings!Keys -> SettingsValues]
  BY <1>1, SettingsValue
<1>7. \A w \in SettingsWriters : Settings!WillApply(s3[w]) /\ Settings!WillBeOrdered(s3[w])
  BY <1>2, <1>4 DEF Settings!WillApply, Settings!WillBeOrdered
<1>8. Settings!SettingsAreInForce
  BY <1>1, <1>5 DEF Settings!SettingsAreInForce
<1>9. QED
  BY <1>1, <1>2, <1>3, <1>4, <1>5, <1>6, <1>7, <1>8 DEF Settings!SettingsInv

(* One request moves on and the others stay where they are.                *)
LEMMA SettingsMove ==
    ASSUME NEW w \in SettingsWriters, NEW job, Settings!JobKnown(job),
           s3' = [s3 EXCEPT ![w] = job], Settings!SettingsInv
    PROVE  /\ s3' = [v \in SettingsWriters |-> s3'[v]]
           /\ s3'[w] = job
           /\ \A v \in SettingsWriters : v # w => s3'[v] = s3[v]
           /\ \A v \in SettingsWriters : Settings!JobKnown(s3'[v])
BY DEF Settings!SettingsInv

(* A request that ends without an effect on the values.                    *)
LEMMA SettingsIdle ==
    ASSUME NEW w \in SettingsWriters, Settings!SettingsInv,
           s3' = [s3 EXCEPT ![w] = Settings!NoJob], UNCHANGED <<s1, s2, s5, s6, s7>>,
           \/ s3[w].at = "commits" /\ s4' = s4
           \/ s3[w].at = "notifies" /\ s4' = TRUE
    PROVE  Settings!SettingsInv'
<1>1. Settings!JobKnown(Settings!NoJob) /\ Settings!NoJob.at = "idle"
  BY DEF Settings!NoJob, Settings!JobKnown
<1>2. /\ s3' = [v \in SettingsWriters |-> s3'[v]] /\ s3'[w] = Settings!NoJob
      /\ \A v \in SettingsWriters : v # w => s3'[v] = s3[v]
      /\ \A v \in SettingsWriters : Settings!JobKnown(s3'[v])
  BY <1>1, SettingsMove
<1>3. \A v \in SettingsWriters :
        /\ Settings!WillApply(s3[v]) => Settings!WillApply(s3[v])'
        /\ Settings!WillBeOrdered(s3[v]) => Settings!WillBeOrdered(s3[v])'
  BY <1>1, <1>2 DEF Settings!WillApply, Settings!WillBeOrdered
<1>4. ~s7 => \A u, v \in SettingsWriters : s3'[u].at # "idle" /\ s3'[v].at # "idle" => u = v
  BY <1>1, <1>2 DEF Settings!SettingsInv
<1>5. Settings!SettingsAreInForce'
  <2>1. ASSUME ~s7, \A v \in SettingsWriters : s3'[v].at # "applies"
        PROVE  s2 = Settings!Effective(s1)
    BY <1>2, <2>1 DEF Settings!SettingsInv, Settings!SettingsAreInForce
  <2>2. ASSUME ~s4', \A v \in SettingsWriters : s3'[v].at # "notifies"
        PROVE  s5 = s2
    BY <1>2, <2>2 DEF Settings!SettingsInv, Settings!SettingsAreInForce
  <2>3. QED
    BY <2>1, <2>2 DEF Settings!SettingsInv, Settings!SettingsAreInForce
<1>6. s4' \in BOOLEAN
  BY DEF Settings!SettingsInv
<1>7. QED
  BY <1>1, <1>2, <1>3, <1>4, <1>5, <1>6 DEF Settings!SettingsInv

LEMMA SettingsKeep ==
    Settings!SettingsInv /\ [Settings!Next]_(Settings!vars) => Settings!SettingsInv'
<1> SUFFICES ASSUME Settings!SettingsInv, [Settings!Next]_(Settings!vars)
             PROVE  Settings!SettingsInv'
  OBVIOUS
<1> USE DEF Settings!SettingsInv
<1>1. ASSUME NEW w \in SettingsWriters,
             NEW c \in [Settings!Keys -> SettingsValues \cup {SettingsUnset}],
             NEW erases \in BOOLEAN, Settings!Begin(w, c, erases),
             erases => \A k \in Settings!Touched(c) : c[k] = SettingsDefault[k],
             ~erases => Settings!Ordered(Settings!Merged(s2, c))
      PROVE  Settings!SettingsInv'
  <2> DEFINE job == [at |-> "commits", change |-> c, erases |-> erases]
  <2>1. Settings!JobKnown(job)
    BY <1>1 DEF Settings!JobKnown
  <2>2. s3' = [s3 EXCEPT ![w] = job] /\ UNCHANGED <<s1, s2, s4, s5>>
    BY <1>1 DEF Settings!Begin
  <2>3. /\ s3' = [v \in SettingsWriters |-> s3'[v]] /\ s3'[w] = job
        /\ \A v \in SettingsWriters : v # w => s3'[v] = s3[v]
        /\ \A v \in SettingsWriters : Settings!JobKnown(s3'[v])
    BY <2>1, <2>2, SettingsMove
  <2>4. job.at = "commits" /\ job.change = c /\ (job.erases <=> erases)
    OBVIOUS
  <2>5. /\ s7' \in BOOLEAN /\ s6' \in BOOLEAN /\ (s7' => s6')
        /\ ~s7' => ~s7 /\ \A v \in SettingsWriters : s3[v].at = "idle"
        /\ ~s6' => ~s6
        /\ s3[w].at = "idle"
    BY <1>1 DEF Settings!Begin
  <2> HIDE DEF job
  <2>6. /\ ~s7' => \A u, v \in SettingsWriters :
                     s3'[u].at # "idle" /\ s3'[v].at # "idle" => u = v
        /\ ~s7' => \A v \in SettingsWriters : Settings!WillApply(s3[v])'
    BY <2>2, <2>3, <2>4, <2>5 DEF Settings!WillApply
  <2>7. ~s6' => \A v \in SettingsWriters : Settings!WillBeOrdered(s3[v])'
    BY <1>1, <2>2, <2>3, <2>4, <2>5 DEF Settings!WillBeOrdered
  <2>8. Settings!SettingsAreInForce'
    BY <2>2, <2>3, <2>4, <2>5 DEF Settings!SettingsAreInForce
  <2>9. QED
    BY <2>2, <2>3, <2>5, <2>6, <2>7, <2>8
<1>2. ASSUME NEW w \in SettingsWriters,
             NEW c \in [Settings!Keys -> SettingsValues \cup {SettingsUnset}],
             Settings!Update(w, c)
      PROVE  Settings!SettingsInv'
  BY <1>1, <1>2 DEF Settings!Update, Settings!Validate
<1>3. ASSUME NEW w \in SettingsWriters, NEW keys \in SUBSET Settings!Keys,
             Settings!Reset(w, keys)
      PROVE  Settings!SettingsInv'
  <2> DEFINE c == [k \in Settings!Keys |-> IF k \in keys THEN SettingsDefault[k]
                                                         ELSE SettingsUnset]
  <2>1. c \in [Settings!Keys -> SettingsValues \cup {SettingsUnset}]
    BY SettingsAssumption DEF Settings!Keys
  <2>2. \A k \in Settings!Touched(c) : c[k] = SettingsDefault[k]
    BY DEF Settings!Touched
  <2>3. Settings!Begin(w, c, TRUE)
    BY <1>3 DEF Settings!Reset
  <2> HIDE DEF c
  <2>4. QED
    BY <1>1, <2>1, <2>2, <2>3
<1>4. ASSUME NEW w \in SettingsWriters, Settings!Commit(w)
      PROVE  Settings!SettingsInv'
  <2> DEFINE c == s3[w].change
  <2>1. /\ s3[w] \in [at : {"idle", "commits", "applies", "notifies"},
                      change : [Settings!Keys -> SettingsValues \cup {SettingsUnset}],
                      erases : BOOLEAN]
        /\ s3[w].at = "commits"
        /\ s3[w].erases => \A k \in Settings!Touched(c) : c[k] = SettingsDefault[k]
    BY <1>4 DEF Settings!Commit, Settings!JobKnown
  <2>2. UNCHANGED <<s2, s4, s5, s7>>
    BY <1>4 DEF Settings!Commit
  <2>3. CASE /\ s1' = [k \in Settings!Keys |-> IF c[k] = SettingsUnset THEN s1[k]
                                     ELSE IF s3[w].erases THEN SettingsUnset ELSE c[k]]
             /\ s3' = [s3 EXCEPT ![w].at = "applies"]
             /\ s6' = (s6 \/ (s3[w].erases /\ ~Settings!Ordered(Settings!Effective(s1'))))
    <3> DEFINE job == [s3[w] EXCEPT !.at = "applies"]
    <3>1. /\ job \in [at : {"applies"},
                      change : [Settings!Keys -> SettingsValues \cup {SettingsUnset}],
                      erases : BOOLEAN]
          /\ job.change = c
      BY <2>1
    <3>2. Settings!JobKnown(job) /\ job.at = "applies"
      BY <3>1 DEF Settings!JobKnown
    <3>3. s3' = [s3 EXCEPT ![w] = job]
      BY <2>3
    <3>4. /\ s3' = [v \in SettingsWriters |-> s3'[v]] /\ s3'[w] = job
          /\ \A v \in SettingsWriters : v # w => s3'[v] = s3[v]
          /\ \A v \in SettingsWriters : Settings!JobKnown(s3'[v])
      BY <3>2, <3>3, SettingsMove
    <3> HIDE DEF job
    <3>5. s6' \in BOOLEAN /\ (s6 => s6') /\ s1' = [k \in Settings!Keys |-> s1'[k]]
      BY <2>3
    <3>6. ~s7 => /\ \A v \in SettingsWriters : v # w => s3[v].at = "idle"
                 /\ s2 = Settings!Effective(s1)
      BY <2>1 DEF Settings!SettingsAreInForce
    <3>7. ~s7 => Settings!Effective(s1') = Settings!Merged(s2, c)
      <4>1. \A k \in Settings!Keys : c[k] \in SettingsValues \cup {SettingsUnset}
        BY <2>1
      <4>2. \A k \in Settings!Keys : s3[w].erases /\ c[k] # SettingsUnset =>
                                        c[k] = SettingsDefault[k]
        BY <2>1 DEF Settings!Touched
      <4>3. ASSUME ~s7, NEW k \in Settings!Keys
            PROVE  (IF s1'[k] \in SettingsValues THEN s1'[k] ELSE SettingsDefault[k])
                     = IF c[k] = SettingsUnset THEN s2[k] ELSE c[k]
        <5>1. s2[k] = IF s1[k] \in SettingsValues THEN s1[k] ELSE SettingsDefault[k]
          BY <3>6, <4>3 DEF Settings!Effective
        <5>2. s1'[k] = IF c[k] = SettingsUnset THEN s1[k]
                       ELSE IF s3[w].erases THEN SettingsUnset ELSE c[k]
          BY <2>3
        <5>3. QED
          BY <4>1, <4>2, <5>1, <5>2, SettingsAssumption
      <4>4. QED
        BY <4>3 DEF Settings!Effective, Settings!Merged
    <3>8. ~s7 => \A v \in SettingsWriters : Settings!WillApply(s3[v])'
      BY <2>2, <3>1, <3>4, <3>6, <3>7 DEF Settings!WillApply
    <3>9. ~s6' => Settings!Ordered(Settings!Merged(s2, c))
      <4>1. CASE s3[w].erases
        BY <2>3, <3>5, <3>7, <4>1
      <4>2. CASE ~s3[w].erases
        BY <2>1, <3>5, <4>2 DEF Settings!WillBeOrdered
      <4>3. QED
        BY <4>1, <4>2
    <3>10. ~s6' => \A v \in SettingsWriters : Settings!WillBeOrdered(s3[v])'
      BY <2>2, <3>1, <3>4, <3>5, <3>9 DEF Settings!WillBeOrdered
    <3>11. Settings!SettingsAreInForce'
      BY <2>1, <2>2, <3>2, <3>4, <3>5 DEF Settings!SettingsAreInForce
    <3>12. ~s7' => \A u, v \in SettingsWriters :
                     s3'[u].at # "idle" /\ s3'[v].at # "idle" => u = v
      BY <2>2, <3>4, <3>6
    <3>13. QED
      BY <2>2, <3>4, <3>5, <3>8, <3>10, <3>11, <3>12
  <2>4. CASE s3' = [s3 EXCEPT ![w] = Settings!NoJob] /\ UNCHANGED <<s1, s6>>
    BY <2>1, <2>2, <2>4, SettingsIdle
  <2>5. QED
    BY <1>4, <2>3, <2>4 DEF Settings!Commit
<1>5. ASSUME NEW w \in SettingsWriters, Settings!Apply(w)
      PROVE  Settings!SettingsInv'
  <2> DEFINE c == s3[w].change
  <2>1. /\ c \in [Settings!Keys -> SettingsValues \cup {SettingsUnset}]
        /\ s3[w].at = "applies"
    BY <1>5 DEF Settings!Apply, Settings!JobKnown
  <2>2. s2' = Settings!Merged(s2, c) /\ UNCHANGED <<s1, s4, s5, s6, s7>>
    BY <1>5 DEF Settings!Apply
  <2>3. s2' \in [Settings!Keys -> SettingsValues]
    BY <2>1, <2>2, SettingsValue
  <2>4. PICK job \in {Settings!NoJob, [Settings!NoJob EXCEPT !.at = "notifies"]} :
          /\ s3' = [s3 EXCEPT ![w] = job]
          /\ job = Settings!NoJob => s2' = s2
          /\ job.at \in {"idle", "notifies"}
          /\ job.at = "idle" => job = Settings!NoJob
    BY <1>5, <2>2 DEF Settings!Apply, Settings!SameValues, Settings!NoJob
  <2>5. Settings!JobKnown(job)
    <3>1. Settings!NoJob \in [at : {"idle"}, erases : BOOLEAN,
                change : [Settings!Keys -> SettingsValues \cup {SettingsUnset}]]
      BY DEF Settings!NoJob
    <3>2. [Settings!NoJob EXCEPT !.at = "notifies"] \in [at : {"notifies"}, erases : BOOLEAN,
                change : [Settings!Keys -> SettingsValues \cup {SettingsUnset}]]
      BY <3>1
    <3>3. QED
      BY <3>1, <3>2 DEF Settings!JobKnown
  <2>6. /\ s3' = [v \in SettingsWriters |-> s3'[v]] /\ s3'[w] = job
        /\ \A v \in SettingsWriters : v # w => s3'[v] = s3[v]
        /\ \A v \in SettingsWriters : Settings!JobKnown(s3'[v])
    BY <2>4, <2>5, SettingsMove
  <2>7. ~s7 => /\ \A v \in SettingsWriters : v # w => s3[v].at = "idle"
               /\ s2' = Settings!Effective(s1)
    BY <2>1, <2>2 DEF Settings!WillApply
  <2>8. ~s7 => /\ \A v \in SettingsWriters : Settings!WillApply(s3[v])'
               /\ \A u, v \in SettingsWriters :
                     s3'[u].at # "idle" /\ s3'[v].at # "idle" => u = v
    BY <2>4, <2>6, <2>7 DEF Settings!WillApply
  <2>9. ~s6 => /\ \A v \in SettingsWriters : Settings!WillBeOrdered(s3[v])'
               /\ Settings!Ordered(s2')
    BY <2>1, <2>2, <2>4, <2>6, <2>7 DEF Settings!WillBeOrdered
  <2>10. Settings!SettingsAreInForce'
    BY <2>1, <2>2, <2>4, <2>6, <2>7, <2>9 DEF Settings!SettingsAreInForce
  <2>11. QED
    BY <2>2, <2>3, <2>6, <2>8, <2>9, <2>10
<1>6. ASSUME NEW w \in SettingsWriters, Settings!Notify(w)
      PROVE  Settings!SettingsInv'
  <2>1. s3' = [s3 EXCEPT ![w] = Settings!NoJob] /\ s3[w].at = "notifies" /\ s4' = TRUE
        /\ UNCHANGED <<s1, s2, s5, s6, s7>>
    BY <1>6 DEF Settings!Notify
  <2>2. QED
    BY <2>1, SettingsIdle
<1>7. CASE Settings!ReconcileMonitor
  BY <1>7 DEF Settings!ReconcileMonitor, Settings!SettingsAreInForce, Settings!WillApply,
     Settings!WillBeOrdered
<1>8. CASE Settings!Restart
  <2>1. /\ s3' = [w \in SettingsWriters |-> Settings!NoJob]
        /\ s2' = Settings!Effective(s1) /\ s5' = s2' /\ s4' = FALSE /\ s7' = FALSE
        /\ s6' = (s6 \/ ~Settings!Ordered(s2')) /\ s1' = s1
    BY <1>8 DEF Settings!Restart
  <2>2. Settings!JobKnown(Settings!NoJob) /\ Settings!NoJob.at = "idle"
    BY DEF Settings!NoJob, Settings!JobKnown
  <2>3. s2' \in [Settings!Keys -> SettingsValues]
    BY <2>1, SettingsValue
  <2>4. \A w \in SettingsWriters : /\ s3'[w].at = "idle" /\ Settings!JobKnown(s3'[w])
                                   /\ Settings!WillApply(s3[w])'
                                   /\ Settings!WillBeOrdered(s3[w])'
    BY <2>1, <2>2 DEF Settings!WillApply, Settings!WillBeOrdered
  <2>5. s6' \in BOOLEAN /\ (~s6' => Settings!Ordered(s2'))
    BY <2>1
  <2>6. Settings!SettingsAreInForce'
    BY <2>1, <2>5 DEF Settings!SettingsAreInForce
  <2>7. QED
    BY <2>1, <2>3, <2>4, <2>5, <2>6
<1>9. CASE UNCHANGED Settings!vars
  BY <1>9 DEF Settings!vars, Settings!SettingsAreInForce, Settings!WillApply,
     Settings!WillBeOrdered
<1>10. QED
  BY <1>2, <1>3, <1>4, <1>5, <1>6, <1>7, <1>8, <1>9 DEF Settings!Next

-----------------------------------------------------------------------------
(* Monitor: cfg, window, machine, prober, link, bucket, agreeing, seen.    *)
LEMMA MonitorBegins == Monitor!Init => Monitor!MonitorInv
<1> SUFFICES ASSUME Monitor!Init PROVE Monitor!MonitorInv
  OBVIOUS
<1>1. s1 \in MonitorConfigs /\ s3 = Monitor!NewMachine(s1.samples)
      /\ s6 = "none" /\ s7 = 0 /\ s8 = {}
  BY DEF Monitor!Init
<1>2. s1.samples \in Int
  BY <1>1, MonitorAssumption
<1>3. s3 \in Monitor!Machines /\ s3.candidate = s3.current
  BY <1>1, <1>2 DEF Monitor!NewMachine, Monitor!Machines, Monitor!States
<1>4. QED
  BY <1>1, <1>3 DEF Monitor!MonitorInv, Monitor!Tracked, Monitor!WorstIsStored

(* A verdict is one of the states.                                         *)
LEMMA VerdictIsAState ==
    ASSUME NEW w, NEW c, NEW peer, NEW slow
    PROVE  Monitor!Classify(w, c, peer, slow) \in Monitor!States
BY DEF Monitor!Classify, Monitor!States

(* A bucket keeps the worst of two states.                                 *)
LEMMA WorstIsWorst ==
    ASSUME NEW a \in Monitor!States, NEW b \in Monitor!States \cup {"none"}
    PROVE  /\ Monitor!Worst(a, b) \in Monitor!States
           /\ Monitor!Rank[a] <= Monitor!Rank[Monitor!Worst(a, b)]
           /\ Monitor!Rank[b] <= Monitor!Rank[Monitor!Worst(a, b)]
           /\ Monitor!Rank[b] \in Int
<1>1. /\ Monitor!Rank["none"] = 0 /\ Monitor!Rank["Unknown"] = 1 /\ Monitor!Rank["Up"] = 2
      /\ Monitor!Rank["Degraded"] = 3 /\ Monitor!Rank["Down"] = 4
  BY DEF Monitor!Rank
<1>2. Monitor!Rank[a] \in Int /\ Monitor!Rank[b] \in Int /\ (b = "none" => Monitor!Rank[a] > Monitor!Rank[b])
  BY <1>1 DEF Monitor!States
<1>3. QED
  BY <1>2 DEF Monitor!Worst

(* What hysteresis does with a verdict.                                    *)
LEMMA ObserveDoes ==
    ASSUME NEW m \in Monitor!Machines, NEW s \in Monitor!States
    PROVE  LET o == Monitor!Observe(m, s) IN
           /\ o \in Monitor!Machines /\ o.candidate = s
           /\ s # m.candidate => o.agreed = 1
           /\ s = m.candidate => o.agreed = IF m.agreed < m.required THEN m.agreed + 1 ELSE m.agreed
           /\ o.current = IF o.agreed < m.required THEN m.current ELSE s
<1> DEFINE agreed == IF m.agreed < m.required THEN m.agreed + 1 ELSE m.agreed
<1>0. /\ m.agreed \in Int /\ m.required \in Int /\ m.current \in Monitor!States
      /\ m.candidate \in Monitor!States /\ m.forced \in BOOLEAN
  BY DEF Monitor!Machines
<1>1. PICK o : o = IF s = m.candidate THEN [m EXCEPT !.agreed = agreed]
                   ELSE [m EXCEPT !.candidate = s, !.agreed = 1]
  OBVIOUS
<1>2. /\ o \in Monitor!Machines /\ o.candidate = s /\ o.current = m.current
      /\ s # m.candidate => o.agreed = 1
      /\ s = m.candidate => o.agreed = agreed
  <2>1. CASE s = m.candidate
    <3>1. agreed \in Int
      BY <1>0
    <3> HIDE DEF agreed
    <3>2. o = [m EXCEPT !.agreed = agreed]
      BY <1>1, <2>1
    <3>3. QED
      BY <1>0, <2>1, <3>1, <3>2 DEF Monitor!Machines
  <2>2. CASE s # m.candidate
    <3>1. o = [m EXCEPT !.candidate = s, !.agreed = 1]
      BY <1>1, <2>2
    <3>2. o \in Monitor!Machines
      <4>1. PICK p : p = [m EXCEPT !.candidate = s]
        OBVIOUS
      <4>2. p \in Monitor!Machines
        BY <4>1 DEF Monitor!Machines
      <4>3. o = [p EXCEPT !.agreed = 1]
        BY <3>1, <4>1
      <4>4. QED
        BY <4>2, <4>3 DEF Monitor!Machines
    <3>3. o.candidate = s /\ o.current = m.current /\ o.agreed = 1
      BY <3>1 DEF Monitor!Machines
    <3>4. QED
      BY <2>2, <3>2, <3>3
  <2>3. QED
    BY <2>1, <2>2
<1>3. Monitor!Observe(m, s) = IF s = m.current \/ o.agreed < m.required THEN o
                              ELSE [o EXCEPT !.current = s, !.forced = FALSE]
  BY <1>1 DEF Monitor!Observe
<1>4. PICK turned : turned = [o EXCEPT !.current = s, !.forced = FALSE]
  OBVIOUS
<1>5. turned \in Monitor!Machines /\ turned.candidate = s /\ turned.current = s
      /\ turned.agreed = o.agreed
  BY <1>2, <1>4 DEF Monitor!Machines
<1>6. QED
  BY <1>2, <1>3, <1>4, <1>5

LEMMA RequiredDoes ==
    ASSUME NEW m \in Monitor!Machines, NEW n \in Int
    PROVE  LET r == Monitor!SetRequired(m, n) IN
           /\ r \in Monitor!Machines /\ r.current = m.current /\ r.candidate = m.candidate
           /\ r.required = n /\ r.agreed <= n /\ r.agreed <= m.agreed
<1>1. PICK agreed : agreed = IF m.agreed > n THEN n ELSE m.agreed
  OBVIOUS
<1>2. m.agreed \in Int
  BY DEF Monitor!Machines
<1>3. Monitor!SetRequired(m, n) = [m EXCEPT !.required = n, !.agreed = agreed]
  BY <1>1 DEF Monitor!SetRequired
<1>4. agreed \in Int /\ agreed <= n /\ agreed <= m.agreed
  BY <1>1, <1>2
<1>5. QED
  BY <1>3, <1>4 DEF Monitor!Machines

LEMMA ForceDoes ==
    ASSUME NEW m \in Monitor!Machines, NEW s \in Monitor!States
    PROVE  /\ Monitor!Force(m, s) \in Monitor!Machines
           /\ Monitor!Force(m, s).candidate = Monitor!Force(m, s).current
           /\ Monitor!Force(m, s).forced
BY DEF Monitor!Force, Monitor!Machines

LEMMA MonitorKeeps ==
    Monitor!MonitorInv /\ [Monitor!Next]_(Monitor!vars)
        => Monitor!MonitorInv' /\ Monitor!MonitorTellsWhatItSaw
<1> SUFFICES ASSUME Monitor!MonitorInv, [Monitor!Next]_(Monitor!vars)
             PROVE  Monitor!MonitorInv' /\ Monitor!Earned
  BY DEF Monitor!MonitorInv, Monitor!MonitorTellsWhatItSaw
<1> USE DEF Monitor!MonitorInv, Monitor!Earned
<1>a. s1.samples \in Nat
  BY MonitorAssumption
<1>b. "Down" \in Monitor!States /\ "Unknown" \in Monitor!States
  BY DEF Monitor!States
<1>c. ASSUME NEW s \in Monitor!States, Monitor!Fact(s), UNCHANGED <<s1, s6, s8>>
      PROVE  Monitor!MonitorInv' /\ Monitor!Earned
  BY <1>c, ForceDoes DEF Monitor!Fact, Monitor!Tracked, Monitor!WorstIsStored
<1>d. ASSUME UNCHANGED <<s1, s3, s7>>, UNCHANGED <<s6, s8>> \/ (s6' = "none" /\ s8' = {})
      PROVE  Monitor!MonitorInv' /\ Monitor!Earned
  BY <1>d DEF Monitor!Tracked, Monitor!WorstIsStored
<1>e. ASSUME s3' = [s3 EXCEPT !.forced = FALSE], UNCHANGED <<s1, s6, s7, s8>>
      PROVE  Monitor!MonitorInv' /\ Monitor!Earned
  <2>1. /\ s3' \in Monitor!Machines /\ s3'.current = s3.current
        /\ s3'.candidate = s3.candidate /\ s3'.agreed = s3.agreed
    BY <1>e DEF Monitor!Machines
  <2>2. QED
    BY <1>e, <2>1 DEF Monitor!Tracked, Monitor!WorstIsStored
<1>1. CASE Monitor!Send
  BY <1>1, <1>d DEF Monitor!Send
<1>2. CASE Monitor!LinkGone
  BY <1>2, <1>b, <1>c, <1>d DEF Monitor!LinkGone
<1>3. CASE Monitor!LinkBack
  BY <1>3, <1>e DEF Monitor!LinkBack
<1>4. CASE Monitor!ProberFails
  BY <1>4, <1>b, <1>c DEF Monitor!ProberFails
<1>5. CASE Monitor!Retry
  BY <1>5, <1>b, <1>c, <1>e DEF Monitor!Retry
<1>6. CASE Monitor!Update
  BY <1>6 DEF Monitor!Update, Monitor!Tracked, Monitor!WorstIsStored
<1>7. CASE Monitor!StopProber
  BY <1>7, <1>d DEF Monitor!StopProber
<1>8. CASE Monitor!StartProber
  <2>1. /\ s1' \in MonitorConfigs /\ s3' = Monitor!NewMachine(s1'.samples) /\ s7' = 0
        /\ s4 = "off" /\ UNCHANGED <<s6, s8>>
    BY <1>8 DEF Monitor!StartProber
  <2>2. s1'.samples \in Int
    BY <2>1, MonitorAssumption
  <2>3. s3' \in Monitor!Machines /\ s3'.candidate = s3'.current
    BY <2>1, <2>2 DEF Monitor!NewMachine, Monitor!Machines, Monitor!States
  <2>4. QED
    BY <2>1, <2>3 DEF Monitor!Tracked, Monitor!WorstIsStored
<1>9. CASE Monitor!Flush
  BY <1>9, <1>d DEF Monitor!Flush
<1>10. ASSUME NEW i, Monitor!Expire(i) \/ Monitor!Reply(i)
       PROVE  Monitor!MonitorInv' /\ Monitor!Earned
  BY <1>10, <1>d DEF Monitor!Expire, Monitor!Reply
<1>11. ASSUME NEW peer \in BOOLEAN, NEW slow \in BOOLEAN, Monitor!Evaluate(peer, slow)
       PROVE  Monitor!MonitorInv' /\ Monitor!Earned
  <2>1. PICK verdict : verdict = Monitor!Classify(s2', s1, peer, slow)
    OBVIOUS
  <2>2. verdict \in Monitor!States
    BY <2>1, VerdictIsAState
  <2>3. PICK m : m = Monitor!SetRequired(s3, s1.samples)
    OBVIOUS
  <2>4. /\ m \in Monitor!Machines /\ m.current = s3.current /\ m.candidate = s3.candidate
        /\ m.required = s1.samples /\ m.agreed <= s1.samples /\ m.agreed <= s3.agreed
        /\ m.agreed \in Int /\ s3.agreed \in Int
    <3>1. s3 \in Monitor!Machines /\ s1.samples \in Int
      BY <1>a
    <3>2. /\ m \in Monitor!Machines /\ m.current = s3.current /\ m.candidate = s3.candidate
          /\ m.required = s1.samples /\ m.agreed <= s1.samples /\ m.agreed <= s3.agreed
      BY <2>3, <3>1, RequiredDoes
    <3>3. QED
      BY <3>1, <3>2 DEF Monitor!Machines
  <2>5. /\ s3' = Monitor!Observe(m, verdict)
        /\ s7' = IF verdict # s3.candidate \/ s7 = 0 THEN 1
                 ELSE IF s7 < s1.samples THEN s7 + 1 ELSE s7
        /\ s6' = Monitor!Worst(s3'.current, s6) /\ s8' = s8 \cup {s3'.current} /\ s1' = s1
    BY <1>11, <2>1, <2>3 DEF Monitor!Evaluate
  <2>6. /\ s3' \in Monitor!Machines /\ s3'.candidate = verdict
        /\ verdict # m.candidate => s3'.agreed = 1
        /\ verdict = m.candidate =>
             s3'.agreed = IF m.agreed < m.required THEN m.agreed + 1 ELSE m.agreed
        /\ s3'.current = IF s3'.agreed < m.required THEN m.current ELSE verdict
    BY <2>2, <2>4, <2>5, ObserveDoes
  <2>7. s7' \in Nat
    BY <1>a, <2>5
  <2>8. s3'.candidate = s3'.current \/ s3'.agreed <= s7'
    BY <1>a, <2>4, <2>5, <2>6 DEF Monitor!Tracked
  <2>9. s3'.current # s3.current => s7' >= s1.samples
    BY <1>a, <2>4, <2>5, <2>6 DEF Monitor!Tracked
  <2>10. s3'.current \in Monitor!States
    BY <2>6 DEF Monitor!Machines
  <2>11. /\ s6' \in Monitor!States /\ s8' \subseteq Monitor!States
         /\ \A s \in s8' : Monitor!Rank[s] <= Monitor!Rank[s6']
    <3>1. /\ s6' \in Monitor!States
          /\ Monitor!Rank[s3'.current] <= Monitor!Rank[s6']
          /\ Monitor!Rank[s6] <= Monitor!Rank[s6']
          /\ Monitor!Rank[s6] \in Int
      BY <2>5, <2>10, WorstIsWorst
    <3>2. Monitor!Rank[s6'] \in Int /\ \A s \in s8 : Monitor!Rank[s] \in Int
      BY <3>1, WorstIsWorst
    <3>3. QED
      BY <2>5, <2>10, <3>1, <3>2 DEF Monitor!WorstIsStored
  <2>12. QED
    BY <2>5, <2>6, <2>7, <2>8, <2>9, <2>11 DEF Monitor!Tracked, Monitor!WorstIsStored
<1>12. CASE UNCHANGED Monitor!vars
  BY <1>12, <1>d DEF Monitor!vars
<1>13. QED
  BY <1>1, <1>2, <1>3, <1>4, <1>5, <1>6, <1>7, <1>8, <1>9, <1>10, <1>11, <1>12
     DEF Monitor!Next

-----------------------------------------------------------------------------
(* Kernel: scope, kernel, file, base, work, asked, own, hand, overlapped.  *)
LEMMA KernelConstants ==
    /\ Kernel!None = 0 /\ Kernel!Off = 1 /\ Kernel!On = 2 /\ Kernel!Drop = -1
    /\ Kernel!NoEntry.value = 0 /\ Kernel!NoEntry.previous = 0
    /\ Kernel!Forwarding # Kernel!Tuning
    /\ "v4" \in Kernel!Forwarding /\ "v6" \in Kernel!Forwarding /\ "v4" \notin Kernel!Tuning
    /\ "max" \in Kernel!Tuning
    /\ Kernel!Lives \subseteq Int \ {0, -1}
    /\ s1 = Kernel!Forwarding => Kernel!Lives = {1, 2}
    /\ s1 = Kernel!Tuning => Kernel!Lives = Int \ {0, -1}
    /\ \A w \in Kernel!Workers : Kernel!Idle.at = "idle"
<1>1. "v4" \in Kernel!Forwarding /\ "v4" \notin Kernel!Tuning
  BY DEF Kernel!Forwarding, Kernel!Tuning
<1>2. Kernel!Forwarding # Kernel!Tuning
  BY <1>1
<1>3. QED
  BY <1>1, <1>2 DEF Kernel!None, Kernel!Off, Kernel!On, Kernel!Drop, Kernel!NoEntry,
     Kernel!Forwarding, Kernel!Tuning, Kernel!Lives, Kernel!Idle

(* An entry is nothing, or a value with what it replaced.                  *)
LEMMA EntryIs ==
    /\ Kernel!NoEntry \in Kernel!Entries
    /\ \A v \in Kernel!Lives, p \in Kernel!Lives \cup {Kernel!None} :
          [value |-> v, previous |-> p] \in Kernel!Entries
    /\ \A e \in Kernel!Entries :
          /\ e.value \in Kernel!Lives \cup {Kernel!None}
          /\ e.previous \in Kernel!Lives \cup {Kernel!None}
          /\ e.value = Kernel!None => e.previous = Kernel!None
BY KernelConstants DEF Kernel!Entries

LEMMA KernelBegins == Kernel!Init => Kernel!KernelInv
<1> SUFFICES ASSUME Kernel!Init PROVE Kernel!KernelInv
  OBVIOUS
<1>1. /\ s1 \in {Kernel!Forwarding, Kernel!Tuning} /\ s2 = s4 /\ s7 = s4
      /\ s3 = [k \in s1 |-> Kernel!NoEntry] /\ s6 = [k \in s1 |-> Kernel!None]
      /\ s5 = [w \in Kernel!Workers |-> Kernel!Idle] /\ s9 = FALSE
  BY DEF Kernel!Init
<1>2. s4 \in [s1 -> Kernel!Lives]
  BY <1>1, KernelConstants DEF Kernel!Init
<1>3. s3 \in [s1 -> Kernel!Entries] /\ s6 \in Kernel!Wishes
  BY <1>1, EntryIs DEF Kernel!Wishes
<1>4. \A w \in Kernel!Workers : s5[w].at = "idle"
  BY <1>1 DEF Kernel!Idle
<1>5. \A w \in Kernel!Workers : Kernel!JobSound(s5[w])
  BY <1>4 DEF Kernel!JobSound
<1>6. Kernel!KeptIsKept /\ Kernel!RevertsToTheirs
  BY <1>1, KernelConstants DEF Kernel!KeptIsKept, Kernel!RevertsToTheirs, Kernel!Kept
<1>7. QED
  BY <1>1, <1>2, <1>3, <1>4, <1>5, <1>6 DEF Kernel!KernelInv, Kernel!KernelSound

(* The worker takes up another job and the other one stays idle.           *)
LEMMA KernelDoes ==
    ASSUME Kernel!KernelSound, NEW w \in Kernel!Workers, NEW job, Kernel!Does(w, job),
           s5[w].at # "idle" \/ \A v \in Kernel!Workers : s5[v].at = "idle",
           Kernel!JobSound(job)'
    PROVE  /\ (s5 = [v \in Kernel!Workers |-> s5[v]])'
           /\ (\A v \in Kernel!Workers : Kernel!JobSound(s5[v]))'
           /\ (\A u, v \in Kernel!Workers : s5[u].at # "idle" /\ s5[v].at # "idle" => u = v)'
<1>1. /\ s5 = [v \in Kernel!Workers |-> s5[v]]
      /\ \A u, v \in Kernel!Workers : s5[u].at # "idle" /\ s5[v].at # "idle" => u = v
  BY DEF Kernel!KernelSound
<1>2. /\ s5' = [v \in Kernel!Workers |-> s5'[v]] /\ s5'[w] = job
      /\ \A v \in Kernel!Workers \ {w} : s5'[v] = s5[v] /\ s5[v].at = "idle"
  BY <1>1 DEF Kernel!Does
<1>3. ASSUME NEW v \in Kernel!Workers
      PROVE  Kernel!JobSound(s5[v])'
  <2>1. CASE v = w
    BY <1>2, <2>1 DEF Kernel!JobSound, Kernel!Keeps, Kernel!Records, Kernel!Kept, Kernel!Wishes, Kernel!Lives, Kernel!Entries
  <2>2. CASE v # w
    BY <1>2, <2>2 DEF Kernel!JobSound
  <2>3. QED
    BY SMTT(40), <2>1, <2>2
<1>4. QED
  BY <1>2, <1>3

(* A change that begins beside no other leaves everything as it was.       *)
LEMMA KernelStarts ==
    ASSUME Kernel!KernelInv, NEW w \in Kernel!Workers, NEW job, Kernel!Begins(w, job),
           Kernel!KernelSound => Kernel!JobSound(job)
    PROVE  Kernel!KernelInv'
<1>1. /\ ~s9 /\ Kernel!Does(w, job) /\ s5[w] = Kernel!Idle
      /\ s9' = (s9 \/ \E v \in Kernel!Workers : s5[v] # Kernel!Idle)
      /\ UNCHANGED <<s1, s2, s3, s4, s6, s7, s8>>
  BY DEF Kernel!Begins
<1>2. s9' \in BOOLEAN
  BY <1>1, Zenon DEF Kernel!KernelInv
<1>3. ASSUME ~s9' PROVE Kernel!KernelSound'
  <2>1. Kernel!KernelSound /\ Kernel!JobSound(job)
    BY <1>1 DEF Kernel!KernelInv
  <2>2. \A v \in Kernel!Workers : s5[v].at = "idle"
    BY <1>1, <1>3, KernelConstants
  <2>3. Kernel!JobSound(job)'
    BY <1>1, <2>1 DEF Kernel!JobSound, Kernel!Keeps, Kernel!Records, Kernel!Kept,
       Kernel!Wishes, Kernel!Lives, Kernel!Entries
  <2>4. /\ (s5 = [v \in Kernel!Workers |-> s5[v]])'
        /\ (\A v \in Kernel!Workers : Kernel!JobSound(s5[v]))'
        /\ (\A u, v \in Kernel!Workers : s5[u].at # "idle" /\ s5[v].at # "idle" => u = v)'
    BY <1>1, <2>1, <2>2, <2>3, KernelDoes
  <2>5. QED
    BY <1>1, <2>1, <2>4 DEF Kernel!KernelSound, Kernel!KeptIsKept, Kernel!RevertsToTheirs,
       Kernel!Kept, Kernel!Wishes, Kernel!Lives, Kernel!Entries
<1>4. QED
  BY <1>2, <1>3 DEF Kernel!KernelInv

LEMMA EnableStarts ==
    ASSUME Kernel!KernelInv, NEW w \in Kernel!Workers, NEW ipv6 \in BOOLEAN,
           Kernel!Enable(w, ipv6)
    PROVE  Kernel!KernelInv'
<1> DEFINE needed == IF ipv6 THEN Kernel!Forwarding ELSE {"v4"}
<1>1. PICK entries, live :
        /\ entries = [k \in s1 |-> IF k \in needed
                        THEN [value |-> Kernel!On, previous |-> Kernel!PreviousFor(k)]
                        ELSE Kernel!NoEntry]
        /\ live = [k \in s1 |-> IF k \in needed THEN Kernel!On ELSE Kernel!None]
        /\ Kernel!Begins(w, [at |-> "write", order |-> TRUE, asked |-> s6, file |-> entries,
                             live |-> live])
        /\ s1 = Kernel!Forwarding
  BY DEF Kernel!Enable
<1>2. PICK job : job = [at |-> "write", order |-> TRUE, asked |-> s6, file |-> entries,
                        live |-> live]
  OBVIOUS
<1>3. /\ job.at = "write" /\ job.asked = s6 /\ job.file = entries /\ job.live = live
  BY <1>2
<1>4. ASSUME Kernel!KernelSound PROVE Kernel!JobSound(job)
  <2> USE DEF Kernel!KernelSound
  <2>1. Kernel!Lives = {1, 2} /\ s1 = Kernel!Forwarding
    BY <1>1, KernelConstants
  <2>2. ASSUME NEW k \in s1
        PROVE  /\ s2[k] \in {1, 2} /\ s3[k] \in Kernel!Entries /\ s6[k] = 0
               /\ s3[k].previous \in {0, 1, 2}
               /\ Kernel!PreviousFor(k) \in {0, 1, 2}
               /\ s3[k].previous # 0 => Kernel!PreviousFor(k) = s3[k].previous
               /\ s3[k].previous = 0 => Kernel!PreviousFor(k) \in {0, s2[k]}
    <3>1. s2[k] \in {1, 2} /\ s3[k] \in Kernel!Entries /\ s6[k] = 0
      BY <1>4, <2>1, KernelConstants
    <3>2. s3[k].previous \in {0, 1, 2}
      BY <2>1, <3>1, EntryIs, KernelConstants
    <3>3. QED
      BY <3>1, <3>2, KernelConstants DEF Kernel!PreviousFor
  <2>3. ASSUME NEW k \in s1
        PROVE  /\ entries[k] \in Kernel!Entries
               /\ entries[k].value # 0 => entries[k].previous = Kernel!PreviousFor(k)
    <3>1. CASE k \in needed
      <4>1. PICK p : p = Kernel!PreviousFor(k)
        OBVIOUS
      <4>2. entries[k] = [value |-> Kernel!On, previous |-> p]
        BY <1>1, <3>1, <4>1
      <4>3. p \in Kernel!Lives \cup {Kernel!None} /\ Kernel!On \in Kernel!Lives
        BY <2>1, <2>2, <4>1, KernelConstants
      <4>4. entries[k] \in Kernel!Entries
        BY <4>2, <4>3, EntryIs
      <4>5. QED
        BY <4>1, <4>2, <4>4
    <3>2. CASE k \notin needed
      BY <1>1, <3>2, EntryIs, KernelConstants
    <3>3. QED
      BY <3>1, <3>2
  <2>4. entries \in [s1 -> Kernel!Entries] /\ live \in Kernel!Wishes
    <3>1. entries = [k \in s1 |-> entries[k]]
      BY <1>1
    <3>2. entries \in [s1 -> Kernel!Entries]
      BY <2>3, <3>1
    <3>3. QED
      BY <1>1, <2>1, <3>2, KernelConstants DEF Kernel!Wishes
  <2>5. Kernel!Records(entries)
    BY <2>1, <2>2, <2>3, KernelConstants DEF Kernel!Records, Kernel!Kept
  <2>6. Kernel!Keeps(s6, entries) /\ \A k \in s1 : s6[k] = Kernel!None
    BY <2>2, KernelConstants DEF Kernel!Keeps
  <2>7. QED
    BY <1>3, <1>4, <2>4, <2>5, <2>6 DEF Kernel!JobSound
<1>5. QED
  BY <1>1, <1>2, <1>4, KernelStarts

LEMMA SetStarts ==
    ASSUME Kernel!KernelInv, NEW wanted \in [Kernel!Tuning -> KernelValues \cup {Kernel!None, Kernel!Drop}],
           Kernel!Set("request", wanted)
    PROVE  Kernel!KernelInv'
<1>1. PICK job : /\ job = [at |-> "commit", wanted |-> wanted, byHand |-> TRUE]
                 /\ Kernel!Begins("request", job) /\ s1 = Kernel!Tuning
  BY DEF Kernel!Set
<1>2. job.at = "commit" /\ job.wanted = wanted /\ job.byHand
  BY <1>1
<1>3. KernelValues \subseteq Kernel!Lives
  BY <1>1, KernelConstants, KernelAssumption
<1>4. wanted \in [s1 -> Kernel!Lives \cup {Kernel!None, Kernel!Drop}]
  BY <1>1, <1>3
<1>5. Kernel!JobSound(job)
  BY <1>1, <1>2, <1>4 DEF Kernel!JobSound
<1>6. QED
  BY <1>1, <1>5, KernelStarts DEF Kernel!Workers

LEMMA SafetyStarts ==
    ASSUME Kernel!KernelInv, NEW v \in KernelValues, Kernel!EnsureSafety(v)
    PROVE  Kernel!KernelInv'
<1>1. PICK want :
        /\ want = IF s3["max"].value # Kernel!None THEN s3["max"].value
                  ELSE IF s2["max"] < v THEN v ELSE Kernel!None
        /\ want \notin {Kernel!None, s2["max"]} /\ s1 = Kernel!Tuning
        /\ Kernel!Begins("background", [at |-> "commit", byHand |-> FALSE,
             wanted |-> [k \in s1 |-> IF k = "max" THEN want ELSE Kernel!None]])
  BY DEF Kernel!EnsureSafety
<1>2. PICK wanted : wanted = [k \in s1 |-> IF k = "max" THEN want ELSE Kernel!None]
  OBVIOUS
<1>3. PICK job : job = [at |-> "commit", byHand |-> FALSE, wanted |-> wanted]
  OBVIOUS
<1>4. job.at = "commit" /\ job.wanted = wanted /\ ~job.byHand
  BY <1>3
<1>5. ASSUME Kernel!KernelSound PROVE Kernel!JobSound(job)
  <2>1. s3["max"] \in Kernel!Entries /\ "max" \in s1
    BY <1>1, <1>5, KernelConstants DEF Kernel!KernelSound
  <2>2. want \in Kernel!Lives
    <3>1. v \in Kernel!Lives
      BY <1>1, KernelConstants, KernelAssumption
    <3>2. s3["max"].value \in Kernel!Lives \cup {Kernel!None}
      BY <2>1, EntryIs
    <3>3. QED
      BY <1>1, <3>1, <3>2
  <2>3. wanted \in [s1 -> Kernel!Lives \cup {Kernel!None, Kernel!Drop}]
    BY <1>2, <2>2
  <2>4. ASSUME NEW k \in s1
        PROVE  /\ wanted[k] # Kernel!Drop
               /\ wanted[k] # Kernel!None => s3[k].value \in {Kernel!None, wanted[k]}
    BY <1>1, <1>2, <2>2, KernelConstants
  <2>5. QED
    BY <1>1, <1>4, <2>3, <2>4 DEF Kernel!JobSound
<1>6. QED
  BY <1>1, <1>2, <1>3, <1>5, KernelStarts DEF Kernel!Workers

LEMMA RevertStarts ==
    ASSUME Kernel!KernelInv, NEW w \in Kernel!Workers, Kernel!Revert(w)
    PROVE  Kernel!KernelInv'
<1>1. PICK live : /\ live = [k \in s1 |-> s3[k].previous]
                  /\ Kernel!Begins(w, [at |-> "back", live |-> live])
  BY DEF Kernel!Revert
<1>2. PICK job : job = [at |-> "back", live |-> live]
  OBVIOUS
<1>3. job = [at |-> "back", live |-> job.live] /\ job.live = live
  BY <1>2
<1>4. ASSUME Kernel!KernelSound PROVE Kernel!JobSound(job)
  <2>1. \A k \in s1 : s3[k].previous \in Kernel!Lives \cup {Kernel!None}
    BY <1>4, EntryIs DEF Kernel!KernelSound
  <2>2. live \in Kernel!Wishes
    BY <1>1, <2>1 DEF Kernel!Wishes
  <2>3. QED
    BY <1>3, <2>2 DEF Kernel!JobSound
<1>5. QED
  BY <1>1, <1>2, <1>4, KernelStarts

(* What a worker at work goes on to, when the other one is idle.           *)
LEMMA KernelGoesOn ==
    ASSUME Kernel!KernelSound, NEW w \in Kernel!Workers, NEW job, Kernel!Does(w, job),
           s5[w].at # "idle", s1' = s1, s4' = s4, s2' \in [s1 -> Kernel!Lives],
           s3' \in [s1 -> Kernel!Entries], s6' \in Kernel!Wishes, s7' \in [s1 -> Kernel!Lives],
           s1 = Kernel!Forwarding => \A k \in s1 : s6'[k] = Kernel!None,
           Kernel!KeptIsKept', Kernel!RevertsToTheirs', Kernel!JobSound(job)'
    PROVE  Kernel!KernelSound'
<1>1. /\ (s5 = [v \in Kernel!Workers |-> s5[v]])'
      /\ (\A v \in Kernel!Workers : Kernel!JobSound(s5[v]))'
      /\ (\A u, v \in Kernel!Workers : s5[u].at # "idle" /\ s5[v].at # "idle" => u = v)'
  BY KernelDoes
<1>2. /\ (s2 \in [s1 -> Kernel!Lives])' /\ (s4 \in [s1 -> Kernel!Lives])'
      /\ (s3 \in [s1 -> Kernel!Entries])' /\ (s6 \in Kernel!Wishes)'
      /\ (s7 \in [s1 -> Kernel!Lives])'
  BY DEF Kernel!KernelSound, Kernel!Wishes, Kernel!Lives, Kernel!Entries
<1>3. QED
  BY <1>1, <1>2 DEF Kernel!KernelSound

LEMMA CommitKeeps ==
    ASSUME Kernel!KernelSound, NEW w \in Kernel!Workers, Kernel!Commit(w)
    PROVE  Kernel!KernelSound'
<1> USE DEF Kernel!KernelSound
<1>1. PICK old : old = s5[w]
  OBVIOUS
<1>2. /\ old.at = "commit" /\ s1 = Kernel!Tuning
      /\ old.wanted \in [s1 -> Kernel!Lives \cup {Kernel!None, Kernel!Drop}]
      /\ ~old.byHand => \A k \in s1 : /\ old.wanted[k] # Kernel!Drop
                                      /\ old.wanted[k] # Kernel!None =>
                                            s3[k].value \in {Kernel!None, old.wanted[k]}
  BY <1>1 DEF Kernel!Commit, Kernel!JobSound
<1>3. PICK wanted : wanted = old.wanted
  OBVIOUS
<1>4. PICK next : next = [k \in s1 |->
                    IF Kernel!Desired(k, wanted) = Kernel!None THEN Kernel!NoEntry
                    ELSE [value |-> Kernel!Desired(k, wanted),
                          previous |-> IF s3[k].previous # Kernel!None THEN s3[k].previous
                                       ELSE s2[k]]]
  OBVIOUS
<1>5. PICK asked : asked = [k \in s1 |->
                     IF ~old.byHand \/ wanted[k] = Kernel!None THEN s6[k]
                     ELSE IF wanted[k] = Kernel!Drop THEN Kernel!None ELSE wanted[k]]
  OBVIOUS
<1>6. PICK live : live = [k \in s1 |-> IF next[k].value = s2[k] THEN Kernel!None
                                       ELSE next[k].value]
  OBVIOUS
<1>7. PICK job : job = [at |-> "write", order |-> FALSE, file |-> next, asked |-> asked,
                        live |-> live]
  OBVIOUS
<1>8. Kernel!Does(w, job) /\ UNCHANGED <<s1, s2, s3, s4, s6, s7, s8, s9>>
  BY <1>1, <1>3, <1>4, <1>5, <1>6, <1>7 DEF Kernel!Commit
<1>9. job.at = "write" /\ job.file = next /\ job.asked = asked /\ job.live = live
  BY <1>7
<1>10. ASSUME NEW k \in s1
       PROVE  /\ s2[k] \in Kernel!Lives /\ s3[k] \in Kernel!Entries
              /\ s6[k] \in Kernel!Lives \cup {Kernel!None}
              /\ s3[k].value \in Kernel!Lives \cup {Kernel!None}
              /\ s3[k].previous \in Kernel!Lives \cup {Kernel!None}
              /\ wanted[k] \in Kernel!Lives \cup {Kernel!None, Kernel!Drop}
              /\ Kernel!Desired(k, wanted) \in Kernel!Lives \cup {Kernel!None}
  <2>1. /\ s2[k] \in Kernel!Lives /\ s3[k] \in Kernel!Entries
        /\ s6[k] \in Kernel!Lives \cup {Kernel!None}
        /\ wanted[k] \in Kernel!Lives \cup {Kernel!None, Kernel!Drop}
    BY <1>2, <1>3 DEF Kernel!Wishes
  <2>2. /\ s3[k].value \in Kernel!Lives \cup {Kernel!None}
        /\ s3[k].previous \in Kernel!Lives \cup {Kernel!None}
    BY <2>1, EntryIs
  <2>3. QED
    BY <2>1, <2>2 DEF Kernel!Desired
<1>11. ASSUME NEW k \in s1
       PROVE  /\ next[k] \in Kernel!Entries /\ next[k].value = Kernel!Desired(k, wanted)
              /\ next[k].value # Kernel!None =>
                    next[k].previous = IF s3[k].previous # Kernel!None THEN s3[k].previous
                                       ELSE s2[k]
  <2>1. CASE Kernel!Desired(k, wanted) = Kernel!None
    BY <1>4, <2>1, EntryIs, KernelConstants
  <2>2. CASE Kernel!Desired(k, wanted) # Kernel!None
    <3>1. PICK v, p : /\ v = Kernel!Desired(k, wanted)
                      /\ p = IF s3[k].previous # Kernel!None THEN s3[k].previous ELSE s2[k]
      OBVIOUS
    <3>2. next[k] = [value |-> v, previous |-> p]
      BY <1>4, <2>2, <3>1
    <3>3. v \in Kernel!Lives /\ p \in Kernel!Lives \cup {Kernel!None}
      BY <1>10, <2>2, <3>1
    <3>4. [value |-> v, previous |-> p] \in Kernel!Entries
      BY <3>3, EntryIs
    <3>5. next[k].value = v /\ next[k].previous = p
      BY <3>2
    <3>6. QED
      BY <3>1, <3>2, <3>4, <3>5
  <2>3. QED
    BY <2>1, <2>2
<1>12. next \in [s1 -> Kernel!Entries] /\ live \in Kernel!Wishes
  <2>1. next = [k \in s1 |-> next[k]]
    BY <1>4
  <2>2. next \in [s1 -> Kernel!Entries]
    BY <1>11, <2>1
  <2>3. live \in Kernel!Wishes
    BY <1>6, <1>10, <1>11 DEF Kernel!Wishes
  <2>4. QED
    BY <2>2, <2>3
<1>13. asked \in Kernel!Wishes
  BY <1>5, <1>10 DEF Kernel!Wishes
<1>14. Kernel!Records(next)
  BY <1>11 DEF Kernel!Records, Kernel!Kept
<1>15. Kernel!Keeps(asked, next)
  <2> SUFFICES ASSUME NEW k \in s1, asked[k] # Kernel!None PROVE next[k].value = asked[k]
    BY DEF Kernel!Keeps
  <2>1. CASE ~old.byHand \/ wanted[k] = Kernel!None
    <3>1. asked[k] = s6[k] /\ s3[k].value = s6[k]
      BY <1>5, <2>1 DEF Kernel!KeptIsKept
    <3>2. wanted[k] = Kernel!None \/ (wanted[k] # Kernel!Drop /\ wanted[k] = s3[k].value)
      BY <1>2, <1>3, <2>1, <3>1
    <3>3. QED
      BY <1>11, <3>1, <3>2, KernelConstants DEF Kernel!Desired
  <2>2. CASE ~(~old.byHand \/ wanted[k] = Kernel!None)
    BY <1>5, <1>11, <2>2 DEF Kernel!Desired
  <2>3. QED
    BY <2>1, <2>2
<1>16. Kernel!JobSound(job)
  BY <1>2, <1>9, <1>12, <1>13, <1>14, <1>15, KernelConstants DEF Kernel!JobSound
<1>17. Kernel!JobSound(job)'
  BY <1>8, <1>16 DEF Kernel!JobSound, Kernel!Keeps, Kernel!Records, Kernel!Kept,
     Kernel!Wishes, Kernel!Lives, Kernel!Entries
<1>18. Kernel!KeptIsKept' /\ Kernel!RevertsToTheirs'
  BY <1>8 DEF Kernel!KeptIsKept, Kernel!RevertsToTheirs, Kernel!Kept
<1>19. QED
  BY <1>1, <1>2, <1>8, <1>17, <1>18, KernelGoesOn

LEMMA WriteFileKeeps ==
    ASSUME Kernel!KernelSound, NEW w \in Kernel!Workers, Kernel!WriteFile(w)
    PROVE  Kernel!KernelSound'
<1> USE DEF Kernel!KernelSound
<1>1. PICK old : old = s5[w]
  OBVIOUS
<1>2. /\ old.at = "write" /\ old.file \in [s1 -> Kernel!Entries]
      /\ old.asked \in Kernel!Wishes /\ old.live \in Kernel!Wishes
      /\ s1 = Kernel!Forwarding => \A k \in s1 : old.asked[k] = Kernel!None
      /\ Kernel!Keeps(old.asked, old.file) /\ Kernel!Records(old.file)
  BY <1>1 DEF Kernel!WriteFile, Kernel!JobSound
<1>3. UNCHANGED <<s1, s2, s4, s8, s9>>
  BY DEF Kernel!WriteFile
<1>4. CASE /\ s3' = old.file /\ s7' = Kernel!Own(old.file) /\ s6' = old.asked
           /\ Kernel!Does(w, [at |-> "live", order |-> old.order, live |-> old.live])
  <2>1. PICK job : job = [at |-> "live", order |-> old.order, live |-> old.live]
    OBVIOUS
  <2>2. job = [at |-> "live", order |-> job.order, live |-> job.live] /\ job.live = old.live
    BY <2>1
  <2>3. Kernel!JobSound(job)'
    BY <1>2, <1>3, <2>2 DEF Kernel!JobSound, Kernel!Wishes, Kernel!Lives
  <2>4. Kernel!KeptIsKept'
    BY <1>2, <1>3, <1>4 DEF Kernel!KeptIsKept, Kernel!Keeps
  <2>5. s7' \in [s1 -> Kernel!Lives]
    BY <1>4 DEF Kernel!Own
  <2>6. Kernel!RevertsToTheirs'
    <3> SUFFICES ASSUME NEW k \in s1, s3'[k].value # Kernel!None,
                        ~(s1 = Kernel!Forwarding /\ s3'[k].previous = Kernel!None)
                 PROVE  s3'[k].previous = s7'[k]
      BY <1>3 DEF Kernel!RevertsToTheirs, Kernel!Kept
    <3>1. k \in Kernel!Kept(old.file)
      BY <1>4 DEF Kernel!Kept
    <3>2. s3'[k].previous = IF s3[k].previous # Kernel!None THEN s3[k].previous ELSE s2[k]
      BY <1>2, <1>4, <3>1 DEF Kernel!Records
    <3>3. s7'[k] = IF s3[k].previous # Kernel!None THEN s7[k] ELSE s2[k]
      BY <1>4, <3>1 DEF Kernel!Own
    <3>4. s3[k].previous # Kernel!None => s3[k].previous = s7[k]
      <4>1. s3[k] \in Kernel!Entries
        OBVIOUS
      <4>2. s3[k].previous # Kernel!None => k \in Kernel!Kept(s3)
        BY <4>1, EntryIs DEF Kernel!Kept
      <4>3. QED
        BY <4>2 DEF Kernel!RevertsToTheirs
    <3>5. QED
      BY <3>2, <3>3, <3>4
  <2>7. QED
    BY <1>1, <1>2, <1>3, <1>4, <2>1, <2>3, <2>4, <2>5, <2>6, KernelGoesOn
<1>5. CASE Kernel!Does(w, Kernel!Idle) /\ UNCHANGED <<s3, s6, s7>>
  <2>1. PICK job : job = Kernel!Idle
    OBVIOUS
  <2>2. Kernel!JobSound(job)'
    BY <2>1 DEF Kernel!JobSound, Kernel!Idle
  <2>3. Kernel!KeptIsKept' /\ Kernel!RevertsToTheirs'
    BY <1>3, <1>5 DEF Kernel!KeptIsKept, Kernel!RevertsToTheirs, Kernel!Kept
  <2>4. QED
    BY <1>1, <1>2, <1>3, <1>5, <2>1, <2>2, <2>3, KernelGoesOn
<1>6. QED
  BY <1>1, <1>4, <1>5 DEF Kernel!WriteFile

(* A parameter less to set.                                                *)
LEMMA OneLess ==
    ASSUME NEW old, NEW k \in s1, Kernel!JobSound(old), old.at \in {"live", "back"},
           NEW left, left = [old EXCEPT !.live[k] = Kernel!None]
    PROVE  Kernel!JobSound(left) /\ left.at = old.at
<1>1. PICK live : live = [old.live EXCEPT ![k] = Kernel!None]
  OBVIOUS
<1>2. left = [old EXCEPT !.live = live] /\ old.live \in Kernel!Wishes
  BY <1>1 DEF Kernel!JobSound
<1>3. live \in Kernel!Wishes
  BY <1>1, <1>2 DEF Kernel!Wishes
<1>4. CASE old = [at |-> "live", order |-> old.order, live |-> old.live]
  <2>1. left = [at |-> "live", order |-> old.order, live |-> live]
    BY <1>2, <1>4
  <2>2. QED
    BY <1>3, <1>4, <2>1 DEF Kernel!JobSound
<1>5. CASE old = [at |-> "back", live |-> old.live]
  <2>1. left = [at |-> "back", live |-> live]
    BY <1>2, <1>5
  <2>2. QED
    BY <1>3, <1>5, <2>1 DEF Kernel!JobSound
<1>6. QED
  BY <1>4, <1>5 DEF Kernel!JobSound

(* One live value is set or refused, or there is none left.                *)
LEMMA LiveKeeps ==
    ASSUME Kernel!KernelSound, NEW w \in Kernel!Workers, s5[w].at \in {"live", "back"},
           NEW job, Kernel!Does(w, job), UNCHANGED <<s1, s3, s4, s6, s7>>,
           Kernel!JobSound(job), job.at \in {"idle", "live", "back"},
           s2' \in [s1 -> Kernel!Lives]
    PROVE  Kernel!KernelSound'
<1>1. Kernel!JobSound(job)'
  BY DEF Kernel!JobSound, Kernel!Wishes, Kernel!Lives
<1>2. Kernel!KeptIsKept' /\ Kernel!RevertsToTheirs'
  BY DEF Kernel!KeptIsKept, Kernel!RevertsToTheirs, Kernel!Kept, Kernel!KernelSound
<1>3. QED
  BY <1>1, <1>2, KernelGoesOn DEF Kernel!KernelSound

LEMMA WriteLiveKeeps ==
    ASSUME Kernel!KernelSound, NEW w \in Kernel!Workers, Kernel!WriteLive(w)
    PROVE  Kernel!KernelSound'
<1>1. PICK old : old = s5[w]
  OBVIOUS
<1>2. /\ old.at = "live" /\ Kernel!JobSound(old) /\ old.live \in Kernel!Wishes
      /\ UNCHANGED <<s1, s3, s4, s6, s7, s9>> /\ s2 \in [s1 -> Kernel!Lives]
  BY <1>1 DEF Kernel!WriteLive, Kernel!JobSound, Kernel!KernelSound
<1>3. PICK idle : idle = Kernel!Idle
  OBVIOUS
<1>4. Kernel!JobSound(idle) /\ idle.at = "idle"
  BY <1>3 DEF Kernel!JobSound, Kernel!Idle
<1>5. CASE Kernel!Does(w, idle) /\ s2' = s2
  BY <1>1, <1>2, <1>4, <1>5, LiveKeeps
<1>6. ASSUME NEW k \in s1, old.live[k] # Kernel!None,
             s2' = [s2 EXCEPT ![k] = old.live[k]] \/ s2' = s2,
             Kernel!Does(w, [old EXCEPT !.live[k] = Kernel!None])
      PROVE  Kernel!KernelSound'
  <2>1. PICK left : left = [old EXCEPT !.live[k] = Kernel!None]
    OBVIOUS
  <2>2. Kernel!JobSound(left) /\ left.at = "live"
    BY <1>2, <2>1, OneLess
  <2>3. s2' \in [s1 -> Kernel!Lives]
    BY <1>2, <1>6 DEF Kernel!Wishes
  <2>4. QED
    BY <1>1, <1>2, <1>6, <2>1, <2>2, <2>3, LiveKeeps
<1>7. \/ Kernel!Does(w, idle) /\ s2' = s2
      \/ \E k \in s1 : /\ old.live[k] # Kernel!None
                       /\ s2' = [s2 EXCEPT ![k] = old.live[k]] \/ s2' = s2
                       /\ \/ Kernel!Does(w, [old EXCEPT !.live[k] = Kernel!None])
                          \/ Kernel!Does(w, idle) /\ s2' = s2
  BY <1>1, <1>3 DEF Kernel!WriteLive
<1>8. QED
  BY <1>5, <1>6, <1>7

LEMMA PutBackKeeps ==
    ASSUME Kernel!KernelSound, NEW w \in Kernel!Workers, Kernel!PutBack(w)
    PROVE  Kernel!KernelSound'
<1>1. PICK old : old = s5[w]
  OBVIOUS
<1>2. /\ old.at = "back" /\ Kernel!JobSound(old) /\ old.live \in Kernel!Wishes
      /\ UNCHANGED <<s1, s4, s9>> /\ s2 \in [s1 -> Kernel!Lives]
  BY <1>1 DEF Kernel!PutBack, Kernel!JobSound, Kernel!KernelSound
<1>3. PICK idle : idle = Kernel!Idle
  OBVIOUS
<1>4. Kernel!JobSound(idle) /\ idle.at = "idle"
  BY <1>3 DEF Kernel!JobSound, Kernel!Idle
<1>5. CASE Kernel!Does(w, idle) /\ s2' = s2 /\ UNCHANGED <<s3, s6, s7>>
  BY <1>1, <1>2, <1>4, <1>5, LiveKeeps
<1>6. ASSUME NEW k \in s1, old.live[k] # Kernel!None, UNCHANGED <<s3, s6, s7>>,
             s2' = [s2 EXCEPT ![k] = old.live[k]] \/ s2' = s2,
             Kernel!Does(w, [old EXCEPT !.live[k] = Kernel!None])
      PROVE  Kernel!KernelSound'
  <2>1. PICK left : left = [old EXCEPT !.live[k] = Kernel!None]
    OBVIOUS
  <2>2. Kernel!JobSound(left) /\ left.at = "back"
    BY <1>2, <2>1, OneLess
  <2>3. s2' \in [s1 -> Kernel!Lives]
    BY <1>2, <1>6 DEF Kernel!Wishes
  <2>4. QED
    BY <1>1, <1>2, <1>6, <2>1, <2>2, <2>3, LiveKeeps
<1>7. CASE /\ s3' = [k \in s1 |-> Kernel!NoEntry] /\ s6' = [k \in s1 |-> Kernel!None]
           /\ s7' = s2 /\ Kernel!Does(w, idle) /\ s2' = s2
  <2>1. s3' \in [s1 -> Kernel!Entries] /\ s6' \in Kernel!Wishes
    BY <1>7, EntryIs DEF Kernel!Wishes
  <2>2. Kernel!JobSound(idle)'
    BY <1>4 DEF Kernel!JobSound
  <2>3. Kernel!KeptIsKept' /\ Kernel!RevertsToTheirs'
    BY <1>2, <1>7, KernelConstants DEF Kernel!KeptIsKept, Kernel!RevertsToTheirs, Kernel!Kept
  <2>4. \A k \in s1 : s6'[k] = Kernel!None
    BY <1>7
  <2>5. s7' \in [s1 -> Kernel!Lives]
    BY <1>2, <1>7
  <2>6. QED
    BY <1>1, <1>2, <1>7, <2>1, <2>2, <2>3, <2>4, <2>5, KernelGoesOn
<1>8. \/ /\ s3' = [k \in s1 |-> Kernel!NoEntry] /\ s6' = [k \in s1 |-> Kernel!None]
         /\ s7' = s2 /\ Kernel!Does(w, idle) /\ s2' = s2
      \/ /\ UNCHANGED <<s3, s6, s7>>
         /\ \E k \in s1 : /\ old.live[k] # Kernel!None
                          /\ s2' = [s2 EXCEPT ![k] = old.live[k]] \/ s2' = s2
                          /\ \/ Kernel!Does(w, [old EXCEPT !.live[k] = Kernel!None])
                             \/ Kernel!Does(w, idle) /\ s2' = s2
  BY <1>1, <1>3 DEF Kernel!PutBack
<1>9. QED
  BY <1>5, <1>6, <1>7, <1>8

LEMMA ByHandKeeps ==
    ASSUME Kernel!KernelInv, Kernel!ByHand
    PROVE  Kernel!KernelInv'
<1>1. PICK k \in s1, v \in IF s1 = Kernel!Forwarding THEN {Kernel!Off, Kernel!On} ELSE KernelValues :
        /\ s2' = [s2 EXCEPT ![k] = v]
        /\ s4' \in {s4, [s4 EXCEPT ![k] = v]}
        /\ s7' = [s7 EXCEPT ![k] = IF s3[k].previous # Kernel!None THEN @ ELSE v]
  BY DEF Kernel!ByHand
<1>2. /\ s9' = (s9 \/ \E w \in Kernel!Workers : s5[w] # Kernel!Idle)
      /\ UNCHANGED <<s1, s3, s5, s6>>
  BY DEF Kernel!ByHand
<1>3. s9' \in BOOLEAN
  BY <1>2, Zenon DEF Kernel!KernelInv
<1>4. ASSUME ~s9' PROVE Kernel!KernelSound'
  <2>1. ~s9 /\ \A w \in Kernel!Workers : s5[w] = Kernel!Idle
    BY <1>2, <1>4, Zenon
  <2>2. Kernel!KernelSound /\ \A w \in Kernel!Workers : s5[w].at = "idle"
    BY <2>1 DEF Kernel!KernelInv, Kernel!Idle
  <2>3. s1 \in {Kernel!Forwarding, Kernel!Tuning}
    BY <2>2 DEF Kernel!KernelSound
  <2>4. v \in Kernel!Lives
    BY <1>1, <2>3, KernelConstants, KernelAssumption
  <2>5. s2' \in [s1 -> Kernel!Lives] /\ s4' \in [s1 -> Kernel!Lives]
    BY <1>1, <2>2, <2>4 DEF Kernel!KernelSound
  <2>6. s7' \in [s1 -> Kernel!Lives] /\ \A j \in s1 : s3[j].previous # Kernel!None => s7'[j] = s7[j]
    BY <1>1, <2>2, <2>4 DEF Kernel!KernelSound
  <2>7. ASSUME NEW j \in s1, s3[j].value # Kernel!None
        PROVE  s3[j].previous = s7'[j] \/ (s1 = Kernel!Forwarding /\ s3[j].previous = Kernel!None)
    <3>1. j \in Kernel!Kept(s3) /\ s3[j] \in Kernel!Entries
      BY <2>2, <2>7 DEF Kernel!Kept, Kernel!KernelSound
    <3>2. s3[j].previous = s7[j] \/ (s1 = Kernel!Forwarding /\ s3[j].previous = Kernel!None)
      BY <2>2, <3>1 DEF Kernel!KernelSound, Kernel!RevertsToTheirs
    <3>3. s1 = Kernel!Tuning => s3[j].previous # Kernel!None
      BY <2>2, <3>2, KernelConstants DEF Kernel!KernelSound
    <3>4. QED
      BY <2>3, <2>6, <3>2, <3>3
  <2>8. \A w \in Kernel!Workers : Kernel!JobSound(s5[w])'
    BY <1>2, <2>2 DEF Kernel!JobSound
  <2>9. QED
    BY <1>2, <2>2, <2>5, <2>6, <2>7, <2>8 DEF Kernel!KernelSound, Kernel!KeptIsKept,
       Kernel!RevertsToTheirs, Kernel!Kept, Kernel!Wishes, Kernel!Lives, Kernel!Entries
<1>5. QED
  BY <1>3, <1>4 DEF Kernel!KernelInv

LEMMA RestartKeeps ==
    ASSUME Kernel!KernelSound, NEW boots \in BOOLEAN, Kernel!Restart(boots)
    PROVE  Kernel!KernelSound'
<1> USE DEF Kernel!KernelSound
<1>1. s5' = [w \in Kernel!Workers |-> Kernel!Idle] /\ UNCHANGED <<s1, s3, s4, s6>>
  BY DEF Kernel!Restart
<1>2. \A w \in Kernel!Workers : s5'[w].at = "idle"
  BY <1>1 DEF Kernel!Idle
<1>3. \A w \in Kernel!Workers : Kernel!JobSound(s5[w])'
  BY <1>2 DEF Kernel!JobSound
<1>4. s2' \in [s1 -> Kernel!Lives] /\ s7' \in [s1 -> Kernel!Lives]
      /\ \A k \in Kernel!Kept(s3) : s7'[k] = s7[k]
  <2>1. CASE boots
    <3>1. \A k \in Kernel!Kept(s3) : s3[k].value \in Kernel!Lives
      BY EntryIs DEF Kernel!Kept
    <3>2. QED
      BY <2>1, <3>1 DEF Kernel!Restart, Kernel!Kept
  <2>2. CASE ~boots
    BY <2>2 DEF Kernel!Restart, Kernel!Kept
  <2>3. QED
    BY <2>1, <2>2
<1>5. Kernel!KeptIsKept' /\ Kernel!RevertsToTheirs'
  BY <1>1, <1>4 DEF Kernel!KeptIsKept, Kernel!RevertsToTheirs, Kernel!Kept
<1>6. QED
  BY <1>1, <1>2, <1>3, <1>4, <1>5 DEF Kernel!Wishes, Kernel!Lives, Kernel!Entries

LEMMA KernelKeeps ==
    Kernel!KernelInv /\ [Kernel!Next]_(Kernel!vars) => Kernel!KernelInv'
<1> SUFFICES ASSUME Kernel!KernelInv, [Kernel!Next]_(Kernel!vars) PROVE Kernel!KernelInv'
  OBVIOUS
<1>1. ASSUME s9' = s9, Kernel!KernelSound => Kernel!KernelSound' PROVE Kernel!KernelInv'
  BY <1>1 DEF Kernel!KernelInv
<1>2. ASSUME NEW w \in Kernel!Workers, NEW ipv6 \in BOOLEAN, Kernel!Enable(w, ipv6)
      PROVE  Kernel!KernelInv'
  BY <1>2, EnableStarts
<1>3. ASSUME NEW w \in Kernel!Workers,
             Kernel!Commit(w) \/ Kernel!WriteFile(w) \/ Kernel!WriteLive(w) \/ Kernel!PutBack(w)
      PROVE  Kernel!KernelInv'
  <2>1. s9' = s9
    BY <1>3 DEF Kernel!Commit, Kernel!WriteFile, Kernel!WriteLive, Kernel!PutBack
  <2>2. QED
    BY SMTT(40), <1>1, <1>3, <2>1, CommitKeeps, WriteFileKeeps, WriteLiveKeeps, PutBackKeeps
<1>4. ASSUME NEW w \in Kernel!Workers, Kernel!Revert(w) PROVE Kernel!KernelInv'
  BY <1>4, RevertStarts
<1>5. ASSUME NEW wanted \in [Kernel!Tuning -> KernelValues \cup {Kernel!None, Kernel!Drop}],
             Kernel!Set("request", wanted)
      PROVE  Kernel!KernelInv'
  BY <1>5, SetStarts
<1>6. ASSUME NEW v \in KernelValues, Kernel!EnsureSafety(v) PROVE Kernel!KernelInv'
  BY <1>6, SafetyStarts
<1>7. CASE Kernel!ByHand
  BY <1>7, ByHandKeeps
<1>8. ASSUME NEW boots \in BOOLEAN, Kernel!Restart(boots) PROVE Kernel!KernelInv'
  BY <1>1, <1>8, RestartKeeps DEF Kernel!Restart
<1>9. CASE UNCHANGED Kernel!vars
  <2>1. Kernel!KernelSound => Kernel!KernelSound'
    BY <1>9 DEF Kernel!vars, Kernel!KernelSound, Kernel!KeptIsKept, Kernel!RevertsToTheirs,
       Kernel!Kept, Kernel!JobSound, Kernel!Keeps, Kernel!Records, Kernel!Wishes,
       Kernel!Lives, Kernel!Entries
  <2>2. QED
    BY <1>1, <1>9, <2>1 DEF Kernel!vars
<1>10. QED
  BY <1>2, <1>3, <1>4, <1>5, <1>6, <1>7, <1>8, <1>9 DEF Kernel!Next

-----------------------------------------------------------------------------
(* A set of numbers that is not empty has a least one.                     *)
LEMMA LeastOne ==
    ASSUME NEW S, S \subseteq Nat, S # {}
    PROVE  \E x \in S : \A y \in S : x <= y
<1>1. PICK x \in S : \A y \in S : ~(<<y, x>> \in OpToRel(<, Nat))
  BY NatLessThanWellFounded, WFMin
<1>2. \A y \in S : ~(y < x)
  BY <1>1 DEF OpToRel
<1>3. QED
  BY <1>2

-----------------------------------------------------------------------------
(* Link: now, rows, asks, loads, told, ended, met.                         *)
LEMMA LinkBegins == Link!Init => Link!LinksInv
<1> SUFFICES ASSUME Link!Init PROVE Link!LinksInv
  OBVIOUS
<1>1. /\ s1 = 0 /\ s2 = [t \in Link!Tokens |-> Link!NoRow]
      /\ s3 = [a \in LinkAskers |-> Link!NoAsk] /\ s4 = [d \in LinkLoads |-> Link!NoLoad]
      /\ s5 = [shown |-> {}, wrongly |-> FALSE] /\ s6 = [lapsed |-> {}, revoked |-> {}]
      /\ s7 = FALSE
  BY DEF Link!Init
<1>2. Link!NoRow \in Link!Links /\ ~Link!NoRow.exists
  BY DEF Link!NoRow, Link!Links
<1>3. Link!Issued = {} /\ Link!Live(s1) = {} /\ Link!Ended = {}
  BY <1>1, <1>2 DEF Link!Issued, Link!Live, Link!Ended
<1>4. \A a \in LinkAskers : s3[a].at = "idle" /\ Link!AskSound(s3[a])
  BY <1>1 DEF Link!NoAsk, Link!AskSound
<1>5. s4 \in [LinkLoads -> [at : {"idle", "counts"}, token : Link!Tokens \cup {Link!NoToken}]]
  BY <1>1 DEF Link!NoLoad
<1>6. s2 \in [Link!Tokens -> Link!Links]
  BY <1>1, <1>2
<1>7. QED
  BY <1>1, <1>3, <1>4, <1>5, <1>6 DEF Link!LinksInv, Link!LinkKnown, Link!AsksAreSound,
     Link!ToldIsSound

(* A request goes on; unless two overlapped the others are idle.           *)
LEMMA AsksMove ==
    ASSUME Link!AsksAreSound, NEW a \in LinkAskers, NEW ask, s3' = [s3 EXCEPT ![a] = ask],
           s1' = s1, Link!AskSound(ask)', s7 => s7',
           ~s7' => \A b \in LinkAskers : b # a => s3[b].at = "idle"
    PROVE  Link!AsksAreSound'
<1>1. s3 = [b \in LinkAskers |-> s3[b]] /\ \A b \in LinkAskers : Link!AskSound(s3[b])
  BY DEF Link!AsksAreSound
<1>2. s3' = [b \in LinkAskers |-> s3'[b]] /\ s3'[a] = ask
      /\ \A b \in LinkAskers : b # a => s3'[b] = s3[b]
  BY <1>1
<1>3. ASSUME NEW b \in LinkAskers PROVE Link!AskSound(s3[b])'
  <2>1. CASE b = a
    BY <1>2, <2>1 DEF Link!AskSound
  <2>2. CASE b # a
    BY <1>1, <1>2, <2>2 DEF Link!AskSound
  <2>3. QED
    BY <2>1, <2>2
<1>4. QED
  BY <1>2, <1>3 DEF Link!AsksAreSound

(* Time passes or links go: no request sees one it did not see before.     *)
LEMMA LinksGo ==
    ASSUME Link!AsksAreSound, s3' = s3, s7' = s7, s1 \in Nat, s1' \in Nat, s1 <= s1',
           \A time \in Nat : Link!Live(time)' \subseteq Link!Live(time)
    PROVE  Link!AsksAreSound'
<1>1. ASSUME NEW a \in LinkAskers PROVE Link!AskSound(s3[a])'
  <2>1. Link!AskSound(s3[a]) /\ s3'[a] = s3[a] /\ s3[a].now \in Nat
    BY DEF Link!AskSound, Link!AsksAreSound
  <2>2. Link!Live(s3[a].now)' \subseteq Link!Live(s3[a].now)
    BY <2>1
  <2>3. QED
    BY <2>1, <2>2 DEF Link!AskSound
<1>2. QED
  BY <1>1 DEF Link!AsksAreSound

LEMMA LinkAsks ==
    ASSUME Link!LinksInv, NEW a \in LinkAskers,
           Link!HandleBackupLink(a) \/ Link!IssueFinds(a) \/ Link!IssueFindsNone(a)
    PROVE  Link!LinksInv'
<1> USE DEF Link!LinksInv
<1>0. /\ s3 = [b \in LinkAskers |-> s3[b]] /\ Link!AskSound(s3[a]) /\ s1 \in Nat /\ s7 \in BOOLEAN
      /\ ~s7 => \A b, c \in LinkAskers : s3[b].at # "idle" /\ s3[c].at # "idle" => b = c
  BY DEF Link!AsksAreSound, Link!LinkKnown
<1>1. UNCHANGED <<s1, s2, s4, s6>>
  BY DEF Link!HandleBackupLink, Link!IssueFinds, Link!IssueFindsNone
<1>2. CASE Link!HandleBackupLink(a)
  <2>1. PICK ask : /\ ask = [at |-> "looked", now |-> s1, reused |-> Link!Live(s1) # {}]
                   /\ s3' = [s3 EXCEPT ![a] = ask]
    BY <1>2 DEF Link!HandleBackupLink
  <2>2. /\ s7' = (s7 \/ \E b \in LinkAskers : s3[b].at # "idle") /\ s5' = s5
    BY <1>2 DEF Link!HandleBackupLink
  <2>3. s7' \in BOOLEAN /\ (s7 => s7') /\ (~s7' => \A b \in LinkAskers : s3[b].at = "idle")
    BY <1>0, <2>2, Zenon
  <2>4. Link!AskSound(ask)'
    <3>1. ask \in [at : {"idle", "looked", "inserts"}, now : Nat, reused : BOOLEAN]
          /\ ask.at = "looked" /\ ask.now = s1 /\ (~ask.reused => Link!Live(ask.now) = {})
      BY <1>0, <2>1
    <3>2. QED
      BY <1>0, <1>1, <3>1 DEF Link!AskSound, Link!Live
  <2>5. Link!AsksAreSound'
    BY <1>1, <2>1, <2>3, <2>4, AsksMove
  <2>6. QED
    BY <1>1, <2>2, <2>3, <2>5 DEF Link!LinkKnown, Link!ToldIsSound, Link!Ended, Link!Issued,
       Link!Live
<1>3. CASE Link!IssueFinds(a)
  <2>1. PICK ask : ask = Link!NoAsk /\ s3' = [s3 EXCEPT ![a] = ask]
    BY <1>3 DEF Link!IssueFinds
  <2>2. /\ s3[a].at = "looked" /\ Link!Live(s3[a].now) # {} /\ s7' = s7
    BY <1>3 DEF Link!IssueFinds
  <2>3. Link!AskSound(ask)'
    BY <1>0, <1>1, <2>1 DEF Link!AskSound, Link!NoAsk
  <2>4. Link!AsksAreSound'
    BY <1>0, <1>1, <2>1, <2>2, <2>3, AsksMove
  <2>5. CASE s3[a].reused
    <3>1. PICK t : t \in Link!Live(s3[a].now)
      BY <2>2
    <3>2. t \notin s6.revoked
      BY <3>1 DEF Link!ToldIsSound, Link!Live, Link!Issued
    <3>3. PICK w : w = (s5.wrongly \/ Link!Live(s3[a].now) \subseteq s6.revoked)
      OBVIOUS
    <3>4. ~w
      <4>1. ~s5.wrongly /\ ~(Link!Live(s3[a].now) \subseteq s6.revoked)
        BY <3>1, <3>2 DEF Link!ToldIsSound
      <4>2. QED
        BY <3>3, <4>1
    <3>5. s5' = [s5 EXCEPT !.wrongly = w]
      BY <1>3, <2>5, <3>3 DEF Link!IssueFinds
    <3>6. PICK S, v : s5 = [shown |-> S, wrongly |-> v]
      BY DEF Link!ToldIsSound
    <3>7. s5' = [shown |-> S, wrongly |-> w]
      BY <3>5, <3>6
    <3>8. s5' = [shown |-> s5'.shown, wrongly |-> s5'.wrongly] /\ ~s5'.wrongly
          /\ s5'.shown = s5.shown
      BY <3>4, <3>6, <3>7
    <3>9. QED
      BY <1>1, <2>2, <2>4, <3>8 DEF Link!LinkKnown, Link!ToldIsSound, Link!Ended,
         Link!Issued, Link!Live
  <2>6. CASE ~s3[a].reused
    <3>1. s7
      BY <1>0, <2>2, <2>6 DEF Link!AskSound
    <3>2. PICK S, v : s5 = [shown |-> S, wrongly |-> v] /\ ~v
      BY DEF Link!ToldIsSound
    <3>3. s5' = [s5 EXCEPT !.shown = @ \cup {Link!NoToken}]
      BY <1>3, <2>6 DEF Link!IssueFinds
    <3>4. PICK T : T = s5.shown \cup {Link!NoToken}
      OBVIOUS
    <3>5. s5' = [shown |-> T, wrongly |-> v]
      BY <3>2, <3>3, <3>4
    <3>6. s5' = [shown |-> s5'.shown, wrongly |-> s5'.wrongly] /\ ~s5'.wrongly
          /\ s5'.shown = s5.shown \cup {Link!NoToken}
      BY <3>2, <3>4, <3>5
    <3>7. QED
      BY <1>1, <2>2, <2>4, <3>1, <3>6 DEF Link!LinkKnown, Link!ToldIsSound, Link!Ended,
         Link!Issued, Link!Live
  <2>7. QED
    BY <2>5, <2>6
<1>4. CASE Link!IssueFindsNone(a)
  <2>1. PICK ask : ask = [s3[a] EXCEPT !.at = "inserts"]
    OBVIOUS
  <2>2. /\ s3' = [s3 EXCEPT ![a] = ask] /\ s3[a].at = "looked" /\ Link!Live(s3[a].now) = {}
        /\ s5' = s5 /\ s7' = s7
    BY <1>4, <2>1 DEF Link!IssueFindsNone
  <2>3. Link!AskSound(ask)'
    <3>1. s3[a] \in [at : {"idle", "looked", "inserts"}, now : Nat, reused : BOOLEAN]
      BY <1>0 DEF Link!AskSound
    <3>2. ask \in [at : {"idle", "looked", "inserts"}, now : Nat, reused : BOOLEAN]
          /\ ask.now = s3[a].now
      BY <2>1, <3>1
    <3>3. QED
      BY <1>0, <1>1, <2>2, <3>2 DEF Link!AskSound, Link!Live
  <2>4. Link!AsksAreSound'
    BY <1>0, <1>1, <2>2, <2>3, AsksMove
  <2>5. QED
    BY <1>1, <2>2, <2>4 DEF Link!LinkKnown, Link!ToldIsSound, Link!Ended, Link!Issued,
       Link!Live
<1>5. QED
  BY <1>2, <1>3, <1>4

LEMMA LinkIssued ==
    ASSUME Link!LinksInv, NEW a \in LinkAskers, Link!IssueInserts(a)
    PROVE  Link!LinksInv'
<1> USE DEF Link!LinksInv
<1>0. /\ s3 = [b \in LinkAskers |-> s3[b]] /\ Link!AskSound(s3[a]) /\ s1 \in Nat /\ s7 \in BOOLEAN
      /\ ~s7 => \A b, c \in LinkAskers : s3[b].at # "idle" /\ s3[c].at # "idle" => b = c
      /\ s2 \in [Link!Tokens -> Link!Links]
  BY DEF Link!AsksAreSound, Link!LinkKnown
<1>1. PICK fresh : fresh = {t \in Link!Tokens : t \notin s5.shown /\ ~s2[t].exists}
  OBVIOUS
<1>2. PICK token : token = CHOOSE t \in fresh : \A s \in fresh : t <= s
  OBVIOUS
<1>3. /\ s3[a].at = "inserts" /\ fresh # {} /\ UNCHANGED <<s1, s4, s7>>
      /\ s2' = [s2 EXCEPT ![token] = [Link!NoRow EXCEPT !.exists = TRUE,
                                                       !.expires = s3[a].now + LinkWindow]]
      /\ s3' = [s3 EXCEPT ![a] = Link!NoAsk]
      /\ s5' = [s5 EXCEPT !.shown = @ \cup {token}]
      /\ s6' = IF s3[a].now + LinkWindow > s1 THEN s6
               ELSE [s6 EXCEPT !.lapsed = @ \cup {token}]
  BY <1>1, <1>2 DEF Link!IssueInserts
<1>4. token \in fresh
  <2>1. fresh \subseteq Nat
    BY <1>1, LinkAssumption DEF Link!Tokens
  <2>2. \E t \in fresh : \A s \in fresh : t <= s
    BY <1>3, <2>1, LeastOne
  <2>3. QED
    BY <1>2, <2>2
<1>5. token \in Link!Tokens /\ token \notin s5.shown /\ token # Link!NoToken
  BY <1>1, <1>4, LinkAssumption DEF Link!Tokens, Link!NoToken
<1>6. PICK expires : expires = s3[a].now + LinkWindow
  OBVIOUS
<1>7. expires \in Nat
  BY <1>0, <1>6, LinkAssumption DEF Link!AskSound
<1>8. PICK row : row = [Link!NoRow EXCEPT !.exists = TRUE, !.expires = expires]
  OBVIOUS
<1>9. s2' = [s2 EXCEPT ![token] = row] /\ row \in Link!Links
      /\ row.exists /\ ~row.deleted /\ row.expires = expires
  <2>1. Link!NoRow \in Link!Links /\ ~Link!NoRow.deleted
    BY DEF Link!NoRow, Link!Links
  <2>2. PICK y : y = TRUE
    OBVIOUS
  <2>3. row = [Link!NoRow EXCEPT !.exists = y, !.expires = expires]
    BY <1>8, <2>2
  <2>4. y \in BOOLEAN /\ y
    BY <2>2
  <2>5. row \in Link!Links
    BY <1>7, <2>1, <2>3, <2>4 DEF Link!Links
  <2>6. row.exists = y /\ row.deleted = Link!NoRow.deleted /\ row.expires = expires
    BY <2>1, <2>3 DEF Link!Links
  <2>7. s2' = [s2 EXCEPT ![token] = row]
    BY <1>3, <1>6, <1>8
  <2>8. QED
    BY <2>1, <2>4, <2>5, <2>6, <2>7
<1>10. /\ s2' \in [Link!Tokens -> Link!Links] /\ s2'[token] = row
       /\ \A t \in Link!Tokens : t # token => s2'[t] = s2[t]
  BY <1>0, <1>5, <1>9
<1>11. Link!LinkKnown'
  BY <1>3, <1>10 DEF Link!LinkKnown
<1>12. Link!AsksAreSound'
  <2>1. PICK ask : ask = Link!NoAsk
    OBVIOUS
  <2>2. Link!AskSound(ask)'
    BY <1>0, <1>3, <2>1 DEF Link!AskSound, Link!NoAsk
  <2>3. ~s7' => \A b \in LinkAskers : b # a => s3[b].at = "idle"
    BY <1>0, <1>3
  <2>4. QED
    BY <1>3, <2>1, <2>2, <2>3, AsksMove
<1>13. Link!ToldIsSound'
  <2>1. s5' = [shown |-> s5'.shown, wrongly |-> s5'.wrongly] /\ ~s5'.wrongly
        /\ s5'.shown = s5.shown \cup {token}
    <3>1. PICK S, v : s5 = [shown |-> S, wrongly |-> v] /\ ~v
      BY DEF Link!ToldIsSound
    <3>2. PICK T : T = s5.shown \cup {token}
      OBVIOUS
    <3>3. s5' = [shown |-> T, wrongly |-> v]
      BY <1>3, <3>1, <3>2
    <3>4. QED
      BY <3>1, <3>2, <3>3
  <2>2. /\ s6' = [lapsed |-> s6'.lapsed, revoked |-> s6'.revoked] /\ s6'.revoked = s6.revoked
        /\ s6'.lapsed = IF expires > s1 THEN s6.lapsed ELSE s6.lapsed \cup {token}
    <3>1. s6 = [lapsed |-> s6.lapsed, revoked |-> s6.revoked]
      BY DEF Link!ToldIsSound
    <3>2. QED
      BY <1>3, <1>6, <3>1
  <2>3. /\ s5.shown \subseteq Link!Tokens \cup {Link!NoToken} /\ (~s7 => Link!NoToken \notin s5.shown)
        /\ s6.lapsed \cup s6.revoked \subseteq s5.shown
        /\ Link!Issued \subseteq s5.shown
        /\ \A t \in s6.revoked \cap Link!Issued : s2[t].deleted
        /\ \A t \in s5.shown \ {Link!NoToken} :
              t \in Link!Live(s1) <=> t \notin s6.lapsed \cup s6.revoked
        /\ ~s7 => \A s, t \in Link!Live(s1) : s = t
    BY DEF Link!ToldIsSound, Link!Ended
  <2>4. \A t \in Link!Tokens : t \in Link!Live(s1)' <=>
             IF t = token THEN expires > s1 ELSE t \in Link!Live(s1)
    BY <1>3, <1>9, <1>10 DEF Link!Live
  <2>5. \A t \in Link!Tokens : t \in Link!Issued' <=> t = token \/ t \in Link!Issued
    BY <1>9, <1>10 DEF Link!Issued
  <2>6. Link!Issued' \subseteq Link!Tokens /\ Link!Live(s1)' \subseteq Link!Tokens
    BY DEF Link!Issued, Link!Live
  <2>7. /\ s5'.shown \subseteq Link!Tokens \cup {Link!NoToken}
        /\ ~s7' => Link!NoToken \notin s5'.shown
        /\ Link!Ended' \subseteq s5'.shown /\ Link!Issued' \subseteq s5'.shown
    BY <1>3, <1>5, <2>1, <2>2, <2>3, <2>5, <2>6 DEF Link!Ended
  <2>8. \A t \in s6'.revoked \cap Link!Issued' : s2'[t].deleted
    BY <1>5, <1>10, <2>2, <2>3, <2>5, <2>6
  <2>9. \A t \in s5'.shown \ {Link!NoToken} : t \in Link!Live(s1)' <=> t \notin Link!Ended'
    BY <1>5, <2>1, <2>2, <2>3, <2>4 DEF Link!Ended
  <2>10. ~s7' => \A s, t \in Link!Live(s1)' : s = t
    <3> SUFFICES ASSUME ~s7 PROVE \A t \in Link!Live(s1)' : t = token
      BY <1>3
    <3>1. Link!Live(s3[a].now) = {} /\ s3[a].now \in Nat /\ s3[a].now <= s1
      BY <1>0, <1>3 DEF Link!AskSound
    <3>2. Link!Live(s1) \subseteq Link!Live(s3[a].now)
      BY <1>0, <3>1 DEF Link!Live, Link!Links
    <3>3. QED
      BY <2>4, <2>6, <3>1, <3>2
  <2>11. QED
    BY <2>1, <2>2, <2>7, <2>8, <2>9, <2>10 DEF Link!ToldIsSound
<1>14. QED
  BY <1>11, <1>12, <1>13

(* What the other steps leave of the requests and of what they were told.  *)
LEMMA LinkRevoked ==
    ASSUME Link!LinksInv, Link!Revoke PROVE Link!LinksInv'
<1> USE DEF Link!LinksInv
<1>1. UNCHANGED <<s1, s3, s4, s5, s7>> /\ s1 \in Nat /\ s2 \in [Link!Tokens -> Link!Links]
  BY DEF Link!Revoke, Link!LinkKnown
<1>2. s2' = [t \in Link!Tokens |-> IF s2[t].exists THEN [s2[t] EXCEPT !.deleted = TRUE] ELSE s2[t]]
  BY DEF Link!Revoke
<1>3. ASSUME NEW t \in Link!Tokens
      PROVE /\ s2'[t] \in Link!Links /\ s2'[t].exists = s2[t].exists
            /\ s2'[t].exists => s2'[t].deleted
  <2>1. s2[t] \in Link!Links /\ s2'[t] = IF s2[t].exists THEN [s2[t] EXCEPT !.deleted = TRUE] ELSE s2[t]
    BY <1>1, <1>2
  <2>2. PICK y : y = TRUE
    OBVIOUS
  <2>3. y \in BOOLEAN /\ y
    BY <2>2
  <2>4. s2'[t] = IF s2[t].exists THEN [s2[t] EXCEPT !.deleted = y] ELSE s2[t]
    BY <2>1, <2>2
  <2>5. QED
    BY <2>1, <2>3, <2>4 DEF Link!Links
<1>4. s2' \in [Link!Tokens -> Link!Links]
  BY <1>2, <1>3
<1>5. Link!Issued' = Link!Issued /\ \A time \in Nat : Link!Live(time)' = {}
  BY <1>3 DEF Link!Issued, Link!Live
<1>6. Link!LinkKnown'
  BY <1>1, <1>4 DEF Link!LinkKnown
<1>7. Link!AsksAreSound'
  BY <1>1, <1>5, LinksGo
<1>8. Link!Live(s1)' = {}
  BY <1>1, <1>5
<1>9. Link!ToldIsSound'
  <2>1. PICK l, r : s6 = [lapsed |-> l, revoked |-> r]
    BY DEF Link!ToldIsSound
  <2>2. PICK q : q = r \cup Link!Issued
    OBVIOUS
  <2>3. s6' = [s6 EXCEPT !.revoked = @ \cup Link!Issued]
    BY DEF Link!Revoke
  <2>4. s6' = [lapsed |-> l, revoked |-> q]
    BY <2>1, <2>2, <2>3
  <2>5. /\ s6' = [lapsed |-> s6'.lapsed, revoked |-> s6'.revoked]
        /\ s6'.lapsed = s6.lapsed /\ s6'.revoked = s6.revoked \cup Link!Issued
    BY <2>1, <2>2, <2>4
  <2>6. \A t \in s5.shown \ {Link!NoToken} : t \in Link!Live(s1) => t \in Link!Issued
    BY DEF Link!Live, Link!Issued
  <2>7. \A t \in s5'.shown \ {Link!NoToken} : t \in Link!Ended'
    BY <1>1, <2>5, <2>6 DEF Link!ToldIsSound, Link!Ended
  <2>8. \A t \in s6'.revoked \cap Link!Issued' : s2'[t].deleted
    BY <1>3 DEF Link!Issued
  <2>9. Link!Ended' \subseteq s5'.shown /\ Link!Issued' \subseteq s5'.shown
    BY <1>1, <1>5, <2>5 DEF Link!ToldIsSound, Link!Ended
  <2>10. QED
    BY <1>1, <1>8, <2>5, <2>7, <2>8, <2>9 DEF Link!ToldIsSound
<1>10. QED
  BY <1>6, <1>7, <1>9

LEMMA LinkServes ==
    ASSUME Link!LinksInv, NEW d \in LinkLoads,
           Link!Counted(d) \/ \E t \in Link!Tokens : Link!Redeem(d, t)
    PROVE  Link!LinksInv'
<1> USE DEF Link!LinksInv
<1>0. /\ s2 \in [Link!Tokens -> Link!Links] /\ s1 \in Nat
      /\ s4 \in [LinkLoads -> [at : {"idle", "counts"}, token : Link!Tokens \cup {Link!NoToken}]]
  BY DEF Link!LinkKnown
<1>1. CASE Link!Counted(d)
  <2>1. PICK none : none = Link!NoLoad
    OBVIOUS
  <2>2. none \in [at : {"idle", "counts"}, token : Link!Tokens \cup {Link!NoToken}]
    BY <2>1 DEF Link!NoLoad
  <2>3. s4' = [s4 EXCEPT ![d] = none] /\ UNCHANGED <<s1, s3, s5, s6, s7>>
    BY <1>1, <2>1 DEF Link!Counted
  <2>4. s4' \in [LinkLoads -> [at : {"idle", "counts"}, token : Link!Tokens \cup {Link!NoToken}]]
    BY <1>0, <2>2, <2>3
  <2>5. PICK n : n = IF s2[s4[d].token].exists THEN s2[s4[d].token].downloads + 1
                     ELSE s2[s4[d].token].downloads
    OBVIOUS
  <2>6. PICK row : row = [s2[s4[d].token] EXCEPT !.downloads = n]
    OBVIOUS
  <2>7. s2' = [s2 EXCEPT ![s4[d].token] = row]
    BY <1>1, <2>5, <2>6 DEF Link!Counted
  <2>8. \A t \in Link!Tokens : /\ s2'[t] \in Link!Links /\ s2'[t].exists = s2[t].exists
                               /\ s2'[t].deleted = s2[t].deleted /\ s2'[t].expires = s2[t].expires
    <3> SUFFICES ASSUME NEW t \in Link!Tokens
                 PROVE /\ s2'[t] \in Link!Links /\ s2'[t].exists = s2[t].exists
                       /\ s2'[t].deleted = s2[t].deleted /\ s2'[t].expires = s2[t].expires
      OBVIOUS
    <3>1. CASE t = s4[d].token
      <4>1. s2'[t] = row /\ s2[t] \in Link!Links /\ row = [s2[t] EXCEPT !.downloads = n]
        BY <1>0, <2>6, <2>7, <3>1
      <4>2. n \in Nat
        BY <2>5, <3>1, <4>1 DEF Link!Links
      <4>3. QED
        BY <4>1, <4>2 DEF Link!Links
    <3>2. CASE t # s4[d].token
      BY <1>0, <2>7, <3>2
    <3>3. QED
      BY <3>1, <3>2
  <2>9. s2' \in [Link!Tokens -> Link!Links]
    BY <1>0, <2>7, <2>8
  <2>10. Link!Issued' = Link!Issued /\ \A time \in Nat : Link!Live(time)' = Link!Live(time)
    BY <1>0, <2>8 DEF Link!Issued, Link!Live
  <2>11. Link!AsksAreSound'
    BY <1>0, <2>3, <2>10, LinksGo
  <2>12. Link!Live(s1)' = Link!Live(s1)
    BY <1>0, <2>3, <2>10
  <2>13. \A t \in s6'.revoked \cap Link!Issued' : s2'[t].deleted
    BY <2>3, <2>8, <2>10 DEF Link!ToldIsSound, Link!Issued
  <2>14. Link!ToldIsSound'
    BY <2>3, <2>10, <2>12, <2>13 DEF Link!ToldIsSound, Link!Ended
  <2>15. QED
    BY <1>0, <2>3, <2>4, <2>9, <2>11, <2>14 DEF Link!LinkKnown
<1>2. ASSUME NEW t \in Link!Tokens, Link!Redeem(d, t) PROVE Link!LinksInv'
  <2>1. t \notin Link!Ended
    BY <1>2, LinkAssumption DEF Link!Redeem, Link!ToldIsSound, Link!Live, Link!Issued, Link!Tokens,
       Link!NoToken
  <2>2. PICK load : load = [at |-> "counts", token |-> t]
    OBVIOUS
  <2>3. s4' = [s4 EXCEPT ![d] = load] /\ UNCHANGED <<s1, s2, s3, s5, s6, s7>>
    BY <1>2, <2>1, <2>2 DEF Link!Redeem
  <2>4. load \in [at : {"idle", "counts"}, token : Link!Tokens \cup {Link!NoToken}]
    BY <2>2
  <2>5. s4' \in [LinkLoads -> [at : {"idle", "counts"}, token : Link!Tokens \cup {Link!NoToken}]]
    BY <1>0, <2>3, <2>4
  <2>6. \A time \in Nat : Link!Live(time)' = Link!Live(time)
    BY <2>3 DEF Link!Live
  <2>7. Link!AsksAreSound'
    BY <1>0, <2>3, <2>6, LinksGo
  <2>8. QED
    BY <1>0, <2>3, <2>5, <2>7 DEF Link!LinkKnown, Link!ToldIsSound, Link!Ended, Link!Issued,
       Link!Live
<1>3. QED
  BY <1>1, <1>2

LEMMA LinkAges ==
    ASSUME Link!LinksInv, Link!Sweep \/ Link!Tick PROVE Link!LinksInv'
<1> USE DEF Link!LinksInv
<1>0. /\ s2 \in [Link!Tokens -> Link!Links] /\ s1 \in Nat
  BY DEF Link!LinkKnown
<1>1. CASE Link!Sweep
  <2>1. /\ s2' = [t \in Link!Tokens |-> IF s2[t].expires <= s1 THEN Link!NoRow ELSE s2[t]]
        /\ UNCHANGED <<s1, s3, s4, s5, s6, s7>>
    BY <1>1 DEF Link!Sweep
  <2>2. Link!NoRow \in Link!Links /\ ~Link!NoRow.exists
    BY DEF Link!NoRow, Link!Links
  <2>3. \A t \in Link!Tokens : /\ s2'[t] \in Link!Links
                               /\ s2[t].expires <= s1 => ~s2'[t].exists
                               /\ ~(s2[t].expires <= s1) => s2'[t] = s2[t]
    BY <1>0, <2>1, <2>2
  <2>4. s2' \in [Link!Tokens -> Link!Links]
    BY <2>1, <2>3
  <2>5. Link!Issued' \subseteq Link!Issued /\ \A time \in Nat : Link!Live(time)' \subseteq Link!Live(time)
    BY <2>3 DEF Link!Issued, Link!Live
  <2>6. Link!Live(s1)' = Link!Live(s1)
    BY <1>0, <2>1, <2>3 DEF Link!Live, Link!Links
  <2>7. Link!AsksAreSound'
    BY <1>0, <2>1, <2>5, LinksGo
  <2>8. \A t \in s6'.revoked \cap Link!Issued' : s2'[t].deleted
    <3> SUFFICES ASSUME NEW t \in s6.revoked, t \in Link!Issued' PROVE s2'[t].deleted
      BY <2>1
    <3>1. t \in Link!Tokens /\ s2'[t].exists
      BY DEF Link!Issued
    <3>2. s2'[t] = s2[t] /\ t \in Link!Issued
      BY <2>3, <2>5, <3>1
    <3>3. QED
      BY <3>2 DEF Link!ToldIsSound
  <2>9. Link!ToldIsSound'
    BY <2>1, <2>5, <2>6, <2>8 DEF Link!ToldIsSound, Link!Ended
  <2>10. QED
    BY <2>1, <2>4, <2>7, <2>9 DEF Link!LinkKnown
<1>2. CASE Link!Tick
  <2>1. PICK out : out = {t \in Link!Issued : s2[t].expires <= s1 + 1}
    OBVIOUS
  <2>2. /\ s1' = s1 + 1 /\ UNCHANGED <<s2, s3, s4, s5, s7>>
        /\ s6' = [s6 EXCEPT !.lapsed = @ \cup out]
    BY <1>2, <2>1 DEF Link!Tick
  <2>3. PICK l, r : s6 = [lapsed |-> l, revoked |-> r]
    BY DEF Link!ToldIsSound
  <2>4. PICK q : q = l \cup out
    OBVIOUS
  <2>5. s6' = [lapsed |-> q, revoked |-> r]
    BY <2>2, <2>3, <2>4
  <2>6. /\ s6' = [lapsed |-> s6'.lapsed, revoked |-> s6'.revoked]
        /\ s6'.lapsed = s6.lapsed \cup out /\ s6'.revoked = s6.revoked
    BY <2>3, <2>4, <2>5
  <2>7. \A time \in Nat : Link!Live(time)' = Link!Live(time)
    BY <2>2 DEF Link!Live
  <2>8. Link!AsksAreSound'
    BY <1>0, <2>2, <2>7, LinksGo
  <2>9. Link!Issued' = Link!Issued
    BY <2>2 DEF Link!Issued
  <2>10. Link!Live(s1)' = {t \in Link!Live(s1) : ~(s2[t].expires <= s1 + 1)}
    BY <1>0, <2>2 DEF Link!Live, Link!Links
  <2>11. \A t \in s5'.shown \ {Link!NoToken} : t \in Link!Live(s1)' <=> t \notin Link!Ended'
    <3>1. \A t \in Link!Live(s1) : t \in Link!Issued
      BY DEF Link!Live, Link!Issued
    <3>2. \A t \in s5.shown \ {Link!NoToken} : t \in Link!Live(s1) <=> t \notin s6.lapsed \cup s6.revoked
      BY DEF Link!ToldIsSound, Link!Ended
    <3>3. Link!Ended' = s6.lapsed \cup out \cup s6.revoked
      BY <2>6 DEF Link!Ended
    <3>4. QED
      BY <2>1, <2>2, <2>10, <3>1, <3>2, <3>3
  <2>12. Link!Ended' \subseteq s5'.shown /\ Link!Issued' \subseteq s5'.shown
    BY <2>1, <2>2, <2>6, <2>9 DEF Link!ToldIsSound, Link!Ended
  <2>13. Link!ToldIsSound'
    BY <2>2, <2>6, <2>9, <2>10, <2>11, <2>12 DEF Link!ToldIsSound
  <2>14. QED
    BY <1>0, <2>2, <2>8, <2>13 DEF Link!LinkKnown
<1>3. QED
  BY <1>1, <1>2

LEMMA LinkKeeps == Link!LinksInv /\ [Link!Next]_(Link!vars) => Link!LinksInv'
<1> SUFFICES ASSUME Link!LinksInv, [Link!Next]_(Link!vars) PROVE Link!LinksInv'
  OBVIOUS
<1>1. CASE \E a \in LinkAskers : Link!IssueInserts(a)
  BY <1>1, LinkIssued
<1>2. CASE \E a \in LinkAskers : Link!HandleBackupLink(a) \/ Link!IssueFinds(a) \/ Link!IssueFindsNone(a)
  BY <1>2, LinkAsks
<1>3. CASE \E d \in LinkLoads : Link!Counted(d) \/ \E t \in Link!Tokens : Link!Redeem(d, t)
  BY <1>3, LinkServes
<1>4. CASE Link!Revoke
  BY <1>4, LinkRevoked
<1>5. CASE Link!Sweep \/ Link!Tick
  BY <1>5, LinkAges
<1>6. CASE UNCHANGED Link!vars
  <2>1. /\ UNCHANGED <<s1, s2, s3, s4, s5, s6, s7>>
        /\ \A time \in Nat : Link!Live(time)' = Link!Live(time)
    BY <1>6 DEF Link!vars, Link!Live
  <2>2. s1 \in Nat /\ Link!AsksAreSound
    BY DEF Link!LinksInv, Link!LinkKnown
  <2>3. Link!AsksAreSound'
    BY <2>1, <2>2, LinksGo
  <2>4. Link!LinkKnown' /\ Link!ToldIsSound'
    BY <2>1 DEF Link!LinksInv, Link!LinkKnown, Link!ToldIsSound, Link!Ended, Link!Issued, Link!Live
  <2>5. QED
    BY <2>3, <2>4 DEF Link!LinksInv
<1>7. QED
  BY <1>1, <1>2, <1>3, <1>4, <1>5, <1>6 DEF Link!Next

LEMMA LinksAreTold == Link!LinksInv => Link!LinksAreSound
<1> SUFFICES ASSUME Link!LinksInv PROVE Link!LinksAreSound
  OBVIOUS
<1>1. \A d \in LinkLoads : s4[d].at # "late"
  BY DEF Link!LinksInv, Link!LinkKnown
<1>2. QED
  BY <1>1 DEF Link!LinksInv, Link!LinksAreSound, Link!ToldIsSound

-----------------------------------------------------------------------------
(* Transfer: backup, host, spent, job, before, failed.                     *)
LEMMA NoJobIsIdle ==
    /\ Transfer!NoJob \in Transfer!Jobs /\ Transfer!NoJob.at = "idle"
    /\ \A n \in TransferNames : Transfer!NoJob.report[n] = "none"
<1>1. PICK none : none = Transfer!NoReport
  OBVIOUS
<1>2. /\ none \in [TransferNames -> {"none", "skip", "would create", "would fail", "created", "failed"}]
      /\ \A n \in TransferNames : none[n] = "none"
  BY <1>1 DEF Transfer!NoReport
<1>3. PICK dry : dry = FALSE
  OBVIOUS
<1>4. Transfer!NoJob = [at |-> "idle", dry |-> dry, ranges |-> {}, names |-> {}, pools |-> {},
                        left |-> {}, report |-> none]
  BY <1>1, <1>3 DEF Transfer!NoJob
<1>5. dry \in BOOLEAN
  BY <1>3
<1>6. QED
  BY <1>2, <1>4, <1>5 DEF Transfer!Jobs

(* A host that is as it was found, and an import that has no answers yet.  *)
LEMMA TransferBegins == Transfer!Init => Transfer!TransferInv
<1> SUFFICES ASSUME Transfer!Init PROVE Transfer!TransferInv
  OBVIOUS
<1>1. /\ s1 \in Transfer!States /\ s2 \in Transfer!States /\ s3 = {1} /\ s4 = Transfer!NoJob
      /\ s6 = 0 /\ s5 = [host |-> s2, touched |-> {}] /\ Transfer!Pools(s2) \subseteq {1}
  BY DEF Transfer!Init, Transfer!Hosts, Transfer!States
<1>2. /\ s5 \in [host : Transfer!States, touched : SUBSET (TransferNames \cup TransferPoolIds)]
      /\ s5.host = s2 /\ s5.touched = {}
  BY <1>1
<1>3. Transfer!TransferKnown
  BY <1>1, <1>2, NoJobIsIdle, TransferAssumption DEF Transfer!TransferKnown
<1>4. Transfer!NothingLost /\ Transfer!Answered /\ Transfer!PoolsCarried
  BY <1>1, <1>2, NoJobIsIdle DEF Transfer!NothingLost, Transfer!Answered, Transfer!PoolsCarried
<1>5. QED
  BY <1>3, <1>4 DEF Transfer!TransferInv

LEMMA ImportBegins ==
    ASSUME Transfer!TransferInv, NEW dry \in BOOLEAN, Transfer!Import(dry)
    PROVE  Transfer!TransferInv'
<1> USE DEF Transfer!TransferInv
<1>0. /\ s1 \in Transfer!States /\ s2 \in Transfer!States /\ s3 \subseteq TransferPoolIds
      /\ s6 \in Nat /\ Transfer!Pools(s2) \subseteq s3
  BY DEF Transfer!TransferKnown
<1>1. PICK ranges, pools : ranges = Transfer!Listed(s2) /\ pools = Transfer!Pools(s1)
  OBVIOUS
<1>2. ranges \subseteq TransferRanges /\ pools \subseteq TransferPoolIds
  BY <1>0, <1>1 DEF Transfer!Listed, Transfer!Pools, Transfer!States
<1>3. PICK job : job = [Transfer!NoJob EXCEPT !.at = "pools", !.dry = dry, !.ranges = ranges, !.pools = pools]
  OBVIOUS
<1>4. /\ job \in Transfer!Jobs /\ job.at = "pools" /\ job.ranges = ranges /\ job.pools = pools
      /\ \A n \in TransferNames : job.report[n] = "none"
  BY <1>2, <1>3, NoJobIsIdle DEF Transfer!Jobs
<1>5. /\ s4' = job /\ s5' = [host |-> s2, touched |-> {}] /\ UNCHANGED <<s1, s2, s3, s6>>
  BY <1>1, <1>3 DEF Transfer!Import
<1>6. /\ s5' \in [host : Transfer!States, touched : SUBSET (TransferNames \cup TransferPoolIds)]
      /\ s5'.host = s2 /\ s5'.touched = {}
  BY <1>0, <1>5
<1>7. Transfer!TransferKnown'
  BY <1>0, <1>4, <1>5, <1>6 DEF Transfer!TransferKnown
<1>8. Transfer!NothingLost' /\ Transfer!Answered'
  BY <1>4, <1>5, <1>6 DEF Transfer!NothingLost, Transfer!Answered
<1>9. Transfer!PoolsCarried'
  <2>1. \A i \in Transfer!Pools(s1) \ pools : FALSE
    BY <1>1
  <2>2. QED
    BY <1>1, <1>4, <1>5, <2>1 DEF Transfer!PoolsCarried
<1>10. QED
  BY <1>7, <1>8, <1>9

(* The next pool of the backup.                                            *)
LEMMA PoolComes ==
    ASSUME Transfer!TransferInv, NEW i \in TransferPoolIds, Transfer!ImportPool(i)
    PROVE  Transfer!TransferInv'
<1> USE DEF Transfer!TransferInv
<1>0. /\ s1 \in Transfer!States /\ s2 \in Transfer!States /\ s3 \subseteq TransferPoolIds
      /\ s4 \in Transfer!Jobs /\ s6 \in Nat /\ Transfer!Pools(s2) \subseteq s3
      /\ s5 \in [host : Transfer!States, touched : SUBSET (TransferNames \cup TransferPoolIds)]
      /\ Transfer!Pools(s5.host) \subseteq s3
  BY DEF Transfer!TransferKnown
<1>1. PICK range, pools, job : /\ range = s1.pools[i] /\ pools = s4.pools \ {i}
                               /\ job = [s4 EXCEPT !.pools = pools]
  OBVIOUS
<1>2. /\ job \in Transfer!Jobs /\ job.at = s4.at /\ job.dry = s4.dry /\ job.ranges = s4.ranges
      /\ job.names = s4.names /\ job.left = s4.left /\ job.report = s4.report /\ job.pools = pools
  BY <1>0, <1>1 DEF Transfer!Jobs
<1>3. s4' = job /\ s4.at = "pools" /\ UNCHANGED <<s1, s5, s6>>
  BY <1>1 DEF Transfer!ImportPool
<1>4. CASE Transfer!SkipsPool(range)
  <2>1. UNCHANGED <<s2, s3>>
    BY <1>1, <1>4 DEF Transfer!ImportPool
  <2>2. Transfer!TransferKnown' /\ Transfer!NothingLost' /\ Transfer!Answered'
    BY <1>0, <1>2, <1>3, <2>1 DEF Transfer!TransferKnown, Transfer!NothingLost, Transfer!Answered
  <2>3. Transfer!PoolsCarried'
    BY <1>1, <1>2, <1>3, <1>4, <2>1 DEF Transfer!PoolsCarried, Transfer!PoolsUntouched,
       Transfer!SkipsPool
  <2>4. QED
    BY <2>2, <2>3
<1>5. CASE ~Transfer!SkipsPool(range)
  <2>1. PICK free : free = TransferPoolIds \ s3
    OBVIOUS
  <2>2. PICK new : new = CHOOSE j \in free : \A k \in free : j <= k
    OBVIOUS
  <2>3. s2' = [s2 EXCEPT !.pools[new] = range] /\ s3' = s3 \cup {new}
    BY <1>1, <1>5, <2>1, <2>2 DEF Transfer!ImportPool
  <2>4. s3 # TransferPoolIds /\ ~s4.dry
    BY <1>5 DEF Transfer!SkipsPool
  <2>5. new \in TransferPoolIds /\ new \notin s3
    <3>1. free \subseteq Nat /\ free # {}
      BY <1>0, <2>1, <2>4, TransferAssumption
    <3>2. \E j \in free : \A k \in free : j <= k
      BY <3>1, LeastOne
    <3>3. new \in free
      BY <2>2, <3>2
    <3>4. QED
      BY <2>1, <3>3
  <2>6. range \in TransferRanges \cup {TransferNothing}
    BY <1>0, <1>1 DEF Transfer!States
  <2>7. PICK made : made = [s2.pools EXCEPT ![new] = range]
    OBVIOUS
  <2>8. s2' = [s2 EXCEPT !.pools = made]
    BY <2>3, <2>7
  <2>9. /\ made \in [TransferPoolIds -> TransferRanges \cup {TransferNothing}] /\ made[new] = range
        /\ \A j \in TransferPoolIds : j # new => made[j] = s2.pools[j]
    BY <1>0, <2>5, <2>6, <2>7 DEF Transfer!States
  <2>10. s2' \in Transfer!States /\ s2'.pools = made /\ s2'.tunnels = s2.tunnels
    BY <1>0, <2>8, <2>9 DEF Transfer!States
  <2>11. s2.pools[new] = TransferNothing
    BY <1>0, <2>5 DEF Transfer!Pools
  <2>12. Transfer!Pools(s2)' \subseteq s3'
    BY <1>0, <2>3, <2>9, <2>10 DEF Transfer!Pools
  <2>13. Transfer!TransferKnown'
    BY <1>0, <1>2, <1>3, <2>3, <2>5, <2>10, <2>12 DEF Transfer!TransferKnown, Transfer!Pools
  <2>14. Transfer!There(s2)' = Transfer!There(s2)
    BY <2>10 DEF Transfer!There
  <2>15. Transfer!NothingLost'
    <3>1. \A j \in Transfer!Pools(s5.host) : j # new /\ j \in TransferPoolIds
      BY <1>0, <2>5 DEF Transfer!Pools
    <3>2. QED
      BY <1>2, <1>3, <2>4, <2>9, <2>10, <3>1 DEF Transfer!NothingLost
  <2>16. Transfer!Answered'
    BY <1>2, <1>3, <2>10, <2>14 DEF Transfer!Answered, Transfer!There
  <2>17. Transfer!Listed(s2) \subseteq Transfer!Listed(s2)'
    BY <2>9, <2>10, <2>11 DEF Transfer!Listed, Transfer!Pools
  <2>18. range # TransferNothing => range \in Transfer!Listed(s2)'
    BY <2>5, <2>9, <2>10 DEF Transfer!Listed, Transfer!Pools
  <2>19. Transfer!PoolsCarried'
    <3>1. s1.pools[i] = range /\ Transfer!Pools(s1)' = Transfer!Pools(s1)
      BY <1>1, <1>3 DEF Transfer!Pools
    <3>2. \A j \in Transfer!Pools(s1) : s1.pools[j] # TransferNothing
      BY DEF Transfer!Pools
    <3>3. QED
      BY <1>1, <1>2, <1>3, <2>4, <2>17, <2>18, <3>1, <3>2 DEF Transfer!PoolsCarried,
         Transfer!PoolsUntouched
  <2>20. QED
    BY <2>13, <2>15, <2>16, <2>19
<1>6. QED
  BY <1>4, <1>5

LEMMA TunnelsListed ==
    ASSUME Transfer!TransferInv, Transfer!ListTunnels
    PROVE  Transfer!TransferInv'
<1> USE DEF Transfer!TransferInv
<1>0. s4 \in Transfer!Jobs /\ s1 \in Transfer!States
  BY DEF Transfer!TransferKnown
<1>1. PICK names, left : names = Transfer!There(s2) /\ left = Transfer!There(s1)
  OBVIOUS
<1>2. names \subseteq TransferNames /\ left \subseteq TransferNames
  BY <1>1 DEF Transfer!There
<1>3. PICK job : job = [s4 EXCEPT !.at = "tunnels", !.names = names, !.left = left]
  OBVIOUS
<1>4. /\ job \in Transfer!Jobs /\ job.at = "tunnels" /\ job.names = names /\ job.left = left
      /\ job.dry = s4.dry /\ job.ranges = s4.ranges /\ job.pools = s4.pools /\ job.report = s4.report
  BY <1>0, <1>2, <1>3 DEF Transfer!Jobs
<1>5. /\ s4' = job /\ s4.at = "pools" /\ s4.pools = {} /\ UNCHANGED <<s1, s2, s3, s5, s6>>
  BY <1>1, <1>3 DEF Transfer!ListTunnels
<1>6. Transfer!TransferKnown' /\ Transfer!NothingLost'
  BY <1>4, <1>5 DEF Transfer!TransferKnown, Transfer!NothingLost
<1>7. \A n \in TransferNames : s4.report[n] = "none"
  BY <1>5 DEF Transfer!Answered
<1>8. names \ s5.touched \subseteq Transfer!There(s5.host)
  BY <1>1, <1>2, <1>7 DEF Transfer!Answered
<1>9. Transfer!Answered'
  BY <1>1, <1>2, <1>4, <1>5, <1>7, <1>8 DEF Transfer!Answered
<1>10. Transfer!PoolsCarried'
  BY <1>4, <1>5 DEF Transfer!PoolsCarried, Transfer!PoolsUntouched
<1>11. QED
  BY <1>6, <1>9, <1>10

(* The next tunnel of the backup.                                          *)
LEMMA TunnelComes ==
    ASSUME Transfer!TransferInv, NEW n \in TransferNames,
           Transfer!Skip(n) \/ Transfer!Preview(n) \/ Transfer!Create(n)
    PROVE  Transfer!TransferInv'
<1> USE DEF Transfer!TransferInv
<1>0. /\ s1 \in Transfer!States /\ s2 \in Transfer!States /\ s4 \in Transfer!Jobs /\ s6 \in Nat
      /\ s5 \in [host : Transfer!States, touched : SUBSET (TransferNames \cup TransferPoolIds)]
  BY DEF Transfer!TransferKnown
<1>1. s4.at = "tunnels" /\ n \in s4.left /\ UNCHANGED <<s1, s3, s5>>
  BY ZenonT(60) DEF Transfer!Skip, Transfer!Preview, Transfer!Create, Transfer!Chosen
<1>2. PICK verdict :
        /\ verdict \in {"skip", "would create", "would fail", "created", "failed"}
        /\ s4' = [s4 EXCEPT !.left = @ \ {n}, !.report[n] = verdict]
        /\ \/ /\ UNCHANGED <<s2, s6>> /\ verdict # "created"
              /\ n \in s4.names \/ s4.dry \/ verdict = "failed"
           \/ /\ ~s4.dry /\ s2.tunnels[n] = TransferNothing /\ verdict \in {"created", "failed"}
              /\ s2' = [s2 EXCEPT !.tunnels[n] = s1.tunnels[n]] /\ s6' \in {s6, s6 + 1}
  <2>1. CASE Transfer!Skip(n)
    BY <2>1 DEF Transfer!Skip, Transfer!Reported
  <2>2. CASE Transfer!Preview(n)
    BY ZenonT(60), <2>2 DEF Transfer!Preview, Transfer!Reported
  <2>3. CASE Transfer!Create(n)
    BY <2>3 DEF Transfer!Create, Transfer!Reported, Transfer!Valid
  <2>4. QED
    BY <2>1, <2>2, <2>3
<1>3. PICK left, report : left = s4.left \ {n} /\ report = [s4.report EXCEPT ![n] = verdict]
  OBVIOUS
<1>4. /\ left \subseteq TransferNames /\ report[n] = verdict
      /\ report \in [TransferNames -> {"none", "skip", "would create", "would fail", "created", "failed"}]
      /\ \A m \in TransferNames : m # n => report[m] = s4.report[m]
  BY <1>0, <1>2, <1>3 DEF Transfer!Jobs
<1>5. PICK job : job = [s4 EXCEPT !.left = left, !.report = report]
  OBVIOUS
<1>6. s4' = job
  BY <1>2, <1>3, <1>5
<1>7. /\ job \in Transfer!Jobs /\ job.at = s4.at /\ job.dry = s4.dry /\ job.ranges = s4.ranges
      /\ job.pools = s4.pools /\ job.names = s4.names /\ job.left = left /\ job.report = report
  BY <1>0, <1>4, <1>5 DEF Transfer!Jobs
<1>8. /\ n \in Transfer!There(s1) /\ s4.report[n] = "none"
      /\ s4.names \ s5.touched \subseteq Transfer!There(s5.host)
      /\ \A m \in Transfer!There(s1) \ s4.left : s4.report[m] # "none"
      /\ \A m \in s4.left : m \in Transfer!There(s1) /\ s4.report[m] = "none"
  BY <1>1 DEF Transfer!Answered
<1>9. /\ \A m \in Transfer!There(s1) \ left : report[m] # "none"
      /\ \A m \in left : m \in Transfer!There(s1) /\ report[m] = "none"
  <2>1. Transfer!There(s1) \subseteq TransferNames /\ s4.left \subseteq TransferNames
    BY <1>0 DEF Transfer!There, Transfer!Jobs
  <2>2. QED
    BY <1>2, <1>3, <1>4, <1>8, <2>1
<1>10. CASE /\ UNCHANGED <<s2, s6>> /\ verdict # "created"
            /\ n \in s4.names \/ s4.dry \/ verdict = "failed"
  <2>1. Transfer!TransferKnown' /\ Transfer!NothingLost' /\ Transfer!PoolsCarried'
    BY <1>1, <1>6, <1>7, <1>10 DEF Transfer!TransferKnown, Transfer!NothingLost,
       Transfer!PoolsCarried, Transfer!PoolsUntouched
  <2>2. ASSUME NEW m \in TransferNames, m \notin s5.touched
        PROVE  /\ report[m] = "created" =>
                     s2.tunnels[m] = s1.tunnels[m] /\ m \notin Transfer!There(s5.host)
               /\ m \in Transfer!There(s2) \ Transfer!There(s5.host) => report[m] \in {"created", "failed"}
    <3>1. CASE m = n
      <4>1. n \in s4.names => n \in Transfer!There(s5.host)
        BY <1>8, <2>2, <3>1
      <4>2. s4.dry => s2.tunnels[n] = s5.host.tunnels[n]
        BY <2>2, <3>1 DEF Transfer!NothingLost
      <4>3. QED
        BY <1>4, <1>10, <3>1, <4>1, <4>2 DEF Transfer!There
    <3>2. CASE m # n
      BY <1>4, <2>2, <3>2 DEF Transfer!Answered
    <3>3. QED
      BY <3>1, <3>2
  <2>3. Transfer!Answered'
    BY <1>1, <1>6, <1>7, <1>8, <1>9, <1>10, <2>2 DEF Transfer!Answered
  <2>4. QED
    BY <2>1, <2>3
<1>11. CASE /\ ~s4.dry /\ s2.tunnels[n] = TransferNothing /\ verdict \in {"created", "failed"}
            /\ s2' = [s2 EXCEPT !.tunnels[n] = s1.tunnels[n]] /\ s6' \in {s6, s6 + 1}
  <2>1. PICK tunnels : tunnels = [s2.tunnels EXCEPT ![n] = s1.tunnels[n]]
    OBVIOUS
  <2>2. /\ tunnels \in [TransferNames -> TransferPoolIds \cup {Transfer!Loose, TransferNothing}]
        /\ tunnels[n] = s1.tunnels[n]
        /\ \A m \in TransferNames : m # n => tunnels[m] = s2.tunnels[m]
    BY <1>0, <2>1 DEF Transfer!States
  <2>3. s2' = [s2 EXCEPT !.tunnels = tunnels]
    BY <1>11, <2>1
  <2>4. s2' \in Transfer!States /\ s2'.tunnels = tunnels /\ s2'.pools = s2.pools
    BY <1>0, <2>2, <2>3 DEF Transfer!States
  <2>5. s6' \in Nat
    BY <1>0, <1>11
  <2>6. Transfer!TransferKnown'
    BY <1>1, <1>6, <1>7, <2>4, <2>5 DEF Transfer!TransferKnown, Transfer!Pools
  <2>7. n \notin s5.touched => n \notin Transfer!There(s5.host)
    BY <1>11 DEF Transfer!NothingLost, Transfer!There
  <2>8. Transfer!NothingLost'
    <3>1. Transfer!There(s5.host) \subseteq TransferNames
      BY DEF Transfer!There
    <3>2. QED
      BY <1>1, <1>6, <1>7, <1>11, <2>2, <2>4, <2>7, <3>1 DEF Transfer!NothingLost
  <2>9. ASSUME NEW m \in TransferNames, m \notin s5.touched
        PROVE  /\ report[m] = "created" =>
                     tunnels[m] = s1.tunnels[m] /\ m \notin Transfer!There(s5.host)
               /\ m \in Transfer!There(s2)' \ Transfer!There(s5.host) => report[m] \in {"created", "failed"}
    <3>1. CASE m = n
      BY <1>4, <1>11, <2>2, <2>7, <2>9, <3>1
    <3>2. CASE m # n
      BY <1>4, <2>2, <2>4, <2>9, <3>2 DEF Transfer!Answered, Transfer!There
    <3>3. QED
      BY <3>1, <3>2
  <2>10. Transfer!Answered'
    BY <1>1, <1>6, <1>7, <1>8, <1>9, <2>4, <2>9 DEF Transfer!Answered
  <2>11. Transfer!PoolsCarried'
    BY <1>1, <1>6, <1>7, <2>4 DEF Transfer!PoolsCarried, Transfer!PoolsUntouched, Transfer!Listed,
       Transfer!Pools
  <2>12. QED
    BY <2>6, <2>8, <2>10, <2>11
<1>12. QED
  BY <1>2, <1>10, <1>11

LEMMA ImportEnds ==
    ASSUME Transfer!TransferInv, Transfer!End
    PROVE  Transfer!TransferInv'
<1> USE DEF Transfer!TransferInv
<1>0. s4 \in Transfer!Jobs
  BY DEF Transfer!TransferKnown
<1>1. PICK job : job = [Transfer!NoJob EXCEPT !.report = s4.report, !.dry = s4.dry]
  OBVIOUS
<1>2. /\ job \in Transfer!Jobs /\ job.at = "idle" /\ job.report = s4.report /\ job.dry = s4.dry
  BY <1>0, <1>1, NoJobIsIdle DEF Transfer!Jobs
<1>3. s4' = job /\ UNCHANGED <<s1, s2, s3, s5, s6>>
  BY <1>1 DEF Transfer!End
<1>4. QED
  BY <1>2, <1>3 DEF Transfer!TransferKnown, Transfer!NothingLost, Transfer!Answered,
     Transfer!PoolsCarried

(* What others touch is excused.                                           *)
LEMMA OthersWork ==
    ASSUME Transfer!TransferInv,
           \/ \E n \in TransferNames : Transfer!OtherCreates(n) \/ Transfer!OtherDeletes(n)
           \/ \E i \in TransferPoolIds : Transfer!OtherDropsPool(i)
    PROVE  Transfer!TransferInv'
<1> USE DEF Transfer!TransferInv
<1>0. /\ s1 \in Transfer!States /\ s2 \in Transfer!States /\ s4 \in Transfer!Jobs
      /\ s5 \in [host : Transfer!States, touched : SUBSET (TransferNames \cup TransferPoolIds)]
  BY DEF Transfer!TransferKnown
<1>1. ASSUME NEW n \in TransferNames, Transfer!OtherCreates(n) \/ Transfer!OtherDeletes(n)
      PROVE  Transfer!TransferInv'
  <2>1. PICK left : /\ left \in {Transfer!Loose, TransferNothing}
                    /\ s2' = [s2 EXCEPT !.tunnels[n] = left]
    BY <1>1 DEF Transfer!OtherCreates, Transfer!OtherDeletes
  <2>2. s5' = [s5 EXCEPT !.touched = @ \cup {n}] /\ UNCHANGED <<s1, s3, s4, s6>>
    BY <1>1 DEF Transfer!OtherCreates, Transfer!OtherDeletes, Transfer!Touch
  <2>3. PICK tunnels : tunnels = [s2.tunnels EXCEPT ![n] = left]
    OBVIOUS
  <2>4. /\ tunnels \in [TransferNames -> TransferPoolIds \cup {Transfer!Loose, TransferNothing}]
        /\ \A m \in TransferNames : m # n => tunnels[m] = s2.tunnels[m]
    BY <1>0, <2>1, <2>3 DEF Transfer!States
  <2>5. s2' \in Transfer!States /\ s2'.tunnels = tunnels /\ s2'.pools = s2.pools
    BY <1>0, <2>1, <2>3, <2>4 DEF Transfer!States
  <2>6. PICK touched : touched = s5.touched \cup {n}
    OBVIOUS
  <2>7. /\ s5' \in [host : Transfer!States, touched : SUBSET (TransferNames \cup TransferPoolIds)]
        /\ s5'.host = s5.host /\ s5'.touched = touched
    BY <1>0, <2>2, <2>6
  <2>8. Transfer!TransferKnown'
    BY <2>2, <2>5, <2>7 DEF Transfer!TransferKnown, Transfer!Pools
  <2>9. Transfer!NothingLost' /\ Transfer!Answered' /\ Transfer!PoolsCarried'
    <3>1. n \in touched /\ s5.touched \subseteq touched /\ touched # {}
      BY <2>6
    <3>2. Transfer!There(s5.host) \subseteq TransferNames
      BY DEF Transfer!There
    <3>3. Transfer!NothingLost'
      BY <2>2, <2>4, <2>5, <2>7, <3>1, <3>2 DEF Transfer!NothingLost, Transfer!Pools
    <3>4. \A m \in TransferNames : m # n => (m \in Transfer!There(s2)' <=> m \in Transfer!There(s2))
      BY <2>4, <2>5 DEF Transfer!There
    <3>5. Transfer!Answered'
      BY <2>2, <2>4, <2>5, <2>7, <3>1, <3>4 DEF Transfer!Answered
    <3>6. Transfer!PoolsCarried'
      BY <2>2, <2>5, <2>7, <3>1 DEF Transfer!PoolsCarried, Transfer!PoolsUntouched, Transfer!Listed,
         Transfer!Pools
    <3>7. QED
      BY <3>3, <3>5, <3>6
  <2>10. QED
    BY <2>8, <2>9
<1>2. ASSUME NEW i \in TransferPoolIds, Transfer!OtherDropsPool(i) PROVE Transfer!TransferInv'
  <2>1. /\ s2' = [s2 EXCEPT !.pools[i] = TransferNothing]
        /\ s5' = [s5 EXCEPT !.touched = @ \cup {i}] /\ UNCHANGED <<s1, s3, s4, s6>>
    BY <1>2 DEF Transfer!OtherDropsPool, Transfer!Touch
  <2>2. PICK pools : pools = [s2.pools EXCEPT ![i] = TransferNothing]
    OBVIOUS
  <2>3. /\ pools \in [TransferPoolIds -> TransferRanges \cup {TransferNothing}]
        /\ pools[i] = TransferNothing
        /\ \A j \in TransferPoolIds : j # i => pools[j] = s2.pools[j]
    BY <1>0, <2>2 DEF Transfer!States
  <2>4. s2' \in Transfer!States /\ s2'.pools = pools /\ s2'.tunnels = s2.tunnels
    BY <1>0, <2>1, <2>2, <2>3 DEF Transfer!States
  <2>5. PICK touched : touched = s5.touched \cup {i}
    OBVIOUS
  <2>6. /\ s5' \in [host : Transfer!States, touched : SUBSET (TransferNames \cup TransferPoolIds)]
        /\ s5'.host = s5.host /\ s5'.touched = touched
    BY <1>0, <2>1, <2>5
  <2>7. Transfer!Pools(s2)' \subseteq Transfer!Pools(s2)
    BY <2>3, <2>4 DEF Transfer!Pools
  <2>8. Transfer!TransferKnown'
    BY <2>1, <2>4, <2>6, <2>7 DEF Transfer!TransferKnown, Transfer!Pools
  <2>9. i \in touched /\ s5.touched \subseteq touched /\ touched # {} /\ touched \cap TransferPoolIds # {}
    BY <2>5
  <2>10. Transfer!NothingLost'
    <3>1. Transfer!Pools(s5.host) \subseteq TransferPoolIds
      BY DEF Transfer!Pools
    <3>2. QED
      BY <2>1, <2>3, <2>4, <2>6, <2>9, <3>1 DEF Transfer!NothingLost, Transfer!There
  <2>11. Transfer!Answered'
    BY <2>1, <2>4, <2>6, <2>9 DEF Transfer!Answered, Transfer!There
  <2>12. Transfer!PoolsCarried'
    BY <2>1, <2>6, <2>9 DEF Transfer!PoolsCarried, Transfer!PoolsUntouched
  <2>13. QED
    BY <2>8, <2>10, <2>11, <2>12
<1>3. QED
  BY <1>1, <1>2

LEMMA TransferKeeps ==
    Transfer!TransferInv /\ [Transfer!Next]_(Transfer!vars) => Transfer!TransferInv'
<1> SUFFICES ASSUME Transfer!TransferInv, [Transfer!Next]_(Transfer!vars) PROVE Transfer!TransferInv'
  OBVIOUS
<1>1. CASE \E dry \in BOOLEAN : Transfer!Import(dry)
  BY <1>1, ImportBegins
<1>2. CASE \E i \in TransferPoolIds : Transfer!ImportPool(i)
  BY <1>2, PoolComes
<1>3. CASE Transfer!ListTunnels
  BY <1>3, TunnelsListed
<1>4. CASE \E n \in TransferNames : Transfer!Skip(n) \/ Transfer!Preview(n) \/ Transfer!Create(n)
  BY <1>4, TunnelComes
<1>5. CASE Transfer!End
  BY <1>5, ImportEnds
<1>6. CASE \/ \E n \in TransferNames : Transfer!OtherCreates(n) \/ Transfer!OtherDeletes(n)
           \/ \E i \in TransferPoolIds : Transfer!OtherDropsPool(i)
  BY <1>6, OthersWork
<1>7. CASE UNCHANGED Transfer!vars
  BY <1>7 DEF Transfer!vars, Transfer!TransferInv, Transfer!TransferKnown, Transfer!NothingLost,
     Transfer!Answered, Transfer!PoolsCarried, Transfer!PoolsUntouched, Transfer!There,
     Transfer!Pools, Transfer!Listed
<1>8. QED
  BY <1>1, <1>2, <1>3, <1>4, <1>5, <1>6, <1>7 DEF Transfer!Next

(* What the property asks of an import that is done.                       *)
LEMMA ImportIsTold == Transfer!TransferInv => Transfer!ImportIsFaithful
<1> SUFFICES ASSUME Transfer!TransferInv PROVE Transfer!ImportIsFaithful
  OBVIOUS
<1> USE DEF Transfer!TransferInv
<1>1. ASSUME Transfer!Done PROVE \A n \in Transfer!There(s1) : s4.report[n] # "none"
  BY <1>1 DEF Transfer!Done, Transfer!Answered
<1>2. ASSUME Transfer!Done, ~s4.dry, s3 # TransferPoolIds, s5.touched \cap TransferPoolIds = {}
      PROVE  Transfer!Listed(s1) \subseteq Transfer!Listed(s2)
  <2>1. \A i \in Transfer!Pools(s1) : s1.pools[i] \in Transfer!Listed(s2)
    BY <1>2 DEF Transfer!Done, Transfer!PoolsCarried, Transfer!PoolsUntouched
  <2>2. QED
    BY <2>1 DEF Transfer!Listed
<1>3. QED
  BY <1>1, <1>2 DEF Transfer!ImportIsFaithful, Transfer!NothingLost, Transfer!Answered

-----------------------------------------------------------------------------
(* Address: file, row, panel, taken, cli, meant.                           *)
CliAtWork == {"stored", "written", "synced", "waits", "undoes", "undone"}

LEMMA AddressBegins == Address!Init => Address!AddressInv
<1> SUFFICES ASSUME Address!Init PROVE Address!AddressInv
  OBVIOUS
<1>1. ~s2.exists /\ s5.at = "idle"
  BY DEF Address!Init, Address!NoCli
<1>2. /\ s2 = [exists |-> s2.exists, address |-> s2.address, lastGood |-> s2.lastGood,
               seed |-> s2.seed]
      /\ s6 = [address |-> s6.address, read |-> s6.read, clean |-> s6.clean]
  BY DEF Address!Init
<1>3. QED
  BY <1>1, <1>2 DEF Address!AddressInv, Address!AddressKnown, Address!MeantIsStored,
     Address!UndoIsStored

(* Whoever writes beside the command line's change leaves it not alone.    *)
LEMMA OthersDisturb ==
    ASSUME Address!AddressKnown, Address!Disturbed
    PROVE  /\ s5'.at = s5.at
           /\ s5'.at # "idle" => ~s5'.alone
           /\ s5'.at \in CliAtWork =>
                 /\ s5' = [at |-> s5'.at, want |-> s5'.want, from |-> s5'.from, old |-> s5'.old,
                           alone |-> s5'.alone]
                 /\ s5'.from = [p \in Address!Parts |-> s5'.from[p]]
<1>1. CASE s5.at = "idle"
  <2>1. s5' = s5
    BY <1>1 DEF Address!Disturbed
  <2>2. QED
    BY <1>1, <2>1 DEF CliAtWork
<1>2. CASE s5.at # "idle"
  <2>1. PICK n : n = FALSE
    OBVIOUS
  <2>2. ~n
    BY <2>1
  <2>3. s5' = [s5 EXCEPT !.alone = n]
    BY <1>2, <2>1 DEF Address!Disturbed
  <2>4. QED
    BY <1>2, <2>2, <2>3 DEF Address!AddressKnown, CliAtWork
<1>3. QED
  BY <1>1, <1>2

(* What a change stores: the address it means and the seed of the file.    *)
LEMMA SetStores ==
    ASSUME Address!AddressKnown, NEW address, NEW seen, Address!Set(address, seen)
    PROVE  /\ s2'.exists /\ s2'.address = address /\ s2'.seed = Address!Seed(seen)
           /\ s2' = [exists |-> s2'.exists, address |-> s2'.address, lastGood |-> s2'.lastGood,
                     seed |-> s2'.seed]
<1>1. PICK y : y = TRUE
  OBVIOUS
<1>2. PICK seed : seed = Address!Seed(seen)
  OBVIOUS
<1>3. s2' = [s2 EXCEPT !.exists = y, !.address = address, !.seed = seed]
  BY <1>1, <1>2 DEF Address!Set
<1>4. PICK e, l, a, s : s2 = [exists |-> e, address |-> a, lastGood |-> l, seed |-> s]
  BY DEF Address!AddressKnown
<1>5. s2' = [exists |-> y, address |-> address, lastGood |-> l, seed |-> seed]
  BY <1>3, <1>4
<1>6. y
  BY <1>1
<1>7. QED
  BY <1>2, <1>5, <1>6

(* A change of the command line stores what it means.                      *)
LEMMA CliStores ==
    ASSUME Address!AddressInv, NEW address, NEW seen, Address!Set(address, seen),
           Address!Mean(address, seen)
    PROVE  /\ Address!MeantIsStored'
           /\ s6' = [address |-> s6'.address, read |-> s6'.read, clean |-> s6'.clean]
<1>1. Address!AddressKnown
  BY DEF Address!AddressInv
<1>2. /\ s2'.exists /\ s2'.address = address /\ s2'.seed = Address!Seed(seen)
  BY <1>1, SetStores
<1>3. /\ s6' = [s6 EXCEPT !.address = address, !.read = seen]
      /\ s6 = [address |-> s6.address, read |-> s6.read, clean |-> s6.clean]
  BY <1>1 DEF Address!Mean, Address!AddressKnown
<1>4. s6'.address = address /\ s6'.read = seen
      /\ s6' = [address |-> s6'.address, read |-> s6'.read, clean |-> s6'.clean]
  BY <1>3
<1>5. QED
  BY <1>2, <1>4 DEF Address!MeantIsStored, Address!Seed

(* The next start serves what was asked for last.                          *)
LEMMA LastWord == Address!MeantIsStored => Address!LastWordIsKept
<1> SUFFICES ASSUME Address!MeantIsStored, s6.clean
             PROVE  Address!Resolve(s2, s1, {}) = Address!Expected
  BY DEF Address!LastWordIsKept
<1>1. \A p \in Address!Parts : s1[p] # AddressAbsent => Address!Seed(s1)[p] = s1[p]
  BY DEF Address!Seed
<1>2. CASE ~s2.exists
  BY <1>2 DEF Address!Resolve, Address!ResolvePart, Address!Expected, Address!Seed
<1>3. CASE s2.exists
  <2>1. \A p \in Address!Parts : /\ s2.seed[p] = Address!Seed(s6.read)[p]
                                    /\ s2.address[p] = s6.address[p]
    BY <1>3 DEF Address!MeantIsStored
  <2>2. \A p \in Address!Parts : Address!ResolvePart(s2, s1, p, p \in {})
           = IF s1[p] # AddressAbsent /\ Address!Seed(s1)[p] # Address!Seed(s6.read)[p]
             THEN s1[p] ELSE s6.address[p]
    BY <1>1, <1>3, <2>1 DEF Address!ResolvePart
  <2>3. QED
    BY <1>3, <2>2 DEF Address!Resolve, Address!Expected
<1>4. QED
  BY <1>2, <1>3

LEMMA AddressStarts ==
    ASSUME Address!AddressInv, NEW flagged \in BOOLEAN, Address!Start(flagged)
    PROVE  Address!AddressInv'
<1> USE DEF Address!AddressInv
<1>1. PICK wanted, good :
        /\ wanted = Address!Resolve(s2, s1, IF flagged THEN {"port"} ELSE {})
        /\ Address!Save(wanted, good)
  BY DEF Address!Start
<1>2. PICK clean : clean = (s6.clean /\ ~flagged)
  OBVIOUS
<1>3. s6' = [address |-> Address!Expected, read |-> s1, clean |-> clean]
      /\ Address!Disturbed /\ UNCHANGED <<s1, s4>>
  BY <1>2 DEF Address!Start
<1>4. PICK y : y = TRUE
  OBVIOUS
<1>5. s2' = [exists |-> y, address |-> wanted, seed |-> Address!Seed(s1), lastGood |-> good]
  BY <1>1, <1>4 DEF Address!Save
<1>6. Address!AddressKnown'
  BY <1>3, <1>5, OthersDisturb DEF Address!AddressKnown, CliAtWork
<1>7. Address!MeantIsStored'
  <2> SUFFICES ASSUME clean PROVE Address!MeantIsStored'
    BY <1>3 DEF Address!MeantIsStored
  <2>1. s6.clean /\ ~flagged
    BY <1>2
  <2>2. wanted = Address!Expected
    BY <1>1, <2>1, LastWord DEF Address!LastWordIsKept
  <2>3. /\ s2'.seed = Address!Seed(s1) /\ s2'.address = Address!Expected
        /\ s6'.read = s1 /\ s6'.address = Address!Expected
    BY <1>3, <1>5, <2>2
  <2>4. QED
    BY <1>3, <2>3 DEF Address!MeantIsStored, Address!Seed
<1>8. Address!UndoIsStored'
  BY <1>3, OthersDisturb DEF Address!UndoIsStored
<1>9. QED
  BY <1>6, <1>7, <1>8

LEMMA AddressSet ==
    ASSUME Address!AddressInv, NEW ask, Address!HandleSetAddress(ask)
    PROVE  Address!AddressInv'
<1> USE DEF Address!AddressInv
<1>1. PICK new : new = [p \in Address!Parts |-> IF ask[p] = AddressAbsent
                                                   THEN s3.address[p] ELSE ask[p]]
  OBVIOUS
<1>2. PICK mean : mean = [p \in Address!Parts |-> IF ask[p] = AddressAbsent
                                                     THEN s6.address[p] ELSE ask[p]]
  OBVIOUS
<1>3. PICK clean : clean = (s6.clean /\ \A p \in Address!Parts :
                              ask[p] = AddressAbsent => new[p] = s6.address[p])
  OBVIOUS
<1>4. /\ Address!Set(new, s3.saw) /\ s6' = [address |-> mean, read |-> s3.saw, clean |-> clean]
      /\ Address!Disturbed
  BY <1>1, <1>2, <1>3 DEF Address!HandleSetAddress
<1>5. Address!AddressKnown'
  BY <1>4, OthersDisturb, SetStores DEF Address!AddressKnown, CliAtWork
<1>6. Address!MeantIsStored'
  <2> SUFFICES ASSUME clean PROVE Address!MeantIsStored'
    BY <1>4 DEF Address!MeantIsStored
  <2>1. \A p \in Address!Parts : new[p] = mean[p]
    BY <1>1, <1>2, <1>3
  <2>2. s2'.address = new /\ s2'.seed = Address!Seed(s3.saw)
    BY <1>4, SetStores
  <2>3. s6'.address = mean /\ s6'.read = s3.saw
    BY <1>4
  <2>4. QED
    BY <2>1, <2>2, <2>3 DEF Address!MeantIsStored, Address!Seed
<1>7. Address!UndoIsStored'
  BY <1>4, OthersDisturb DEF Address!UndoIsStored
<1>8. QED
  BY <1>5, <1>6, <1>7

LEMMA FileEdited ==
    ASSUME Address!AddressInv, NEW p, NEW value, Address!EditFile(p, value)
    PROVE  Address!AddressInv'
<1> USE DEF Address!AddressInv
<1>1. Address!Disturbed /\ UNCHANGED <<s2, s6>>
  BY DEF Address!EditFile
<1>2. Address!AddressKnown'
  BY <1>1, OthersDisturb DEF Address!AddressKnown, CliAtWork
<1>3. Address!MeantIsStored'
  BY <1>1 DEF Address!MeantIsStored, Address!Seed
<1>4. Address!UndoIsStored'
  BY <1>1, OthersDisturb DEF Address!UndoIsStored
<1>5. QED
  BY <1>2, <1>3, <1>4

(* Steps that change neither the file, the row nor what was meant.         *)
LEMMA AddressUntouched ==
    ASSUME Address!AddressInv, UNCHANGED <<s1, s2, s6>>, UNCHANGED s5 \/ s5'.at = "idle"
    PROVE  Address!AddressInv'
BY DEF Address!AddressInv, Address!AddressKnown, Address!MeantIsStored, Address!UndoIsStored,
       Address!Seed

(* The command line's change, step by step.                                *)
LEMMA CliSteps ==
    ASSUME Address!AddressInv,
           \/ \E want \in Address!Addresses : Address!CliStore(want)
           \/ Address!CliWriteFile \/ Address!CliSync \/ Address!CliRestart
           \/ Address!CliUndo \/ Address!CliRestoreFile
    PROVE  Address!AddressInv'
<1> USE DEF Address!AddressInv
<1>0. s5.at \in CliAtWork =>
        /\ s5 = [at |-> s5.at, want |-> s5.want, from |-> s5.from, old |-> s5.old, alone |-> s5.alone]
        /\ s5.from = [p \in Address!Parts |-> s5.from[p]]
  BY DEF Address!AddressKnown, CliAtWork
<1>1. ASSUME NEW want \in Address!Addresses, Address!CliStore(want) PROVE Address!AddressInv'
  <2>1. PICK from : from = Address!Resolve(s2, s1, {})
    OBVIOUS
  <2>2. PICK y : y = TRUE
    OBVIOUS
  <2>3. /\ Address!Set(want, s1) /\ Address!Mean(want, s1)
        /\ s5' = [at |-> "stored", want |-> want, from |-> from, old |-> s1, alone |-> y]
    BY <1>1, <2>1, <2>2 DEF Address!CliStore
  <2>4. from = [p \in Address!Parts |-> from[p]]
    BY <2>1 DEF Address!Resolve
  <2>5. Address!AddressKnown'
    BY <2>3, <2>4, SetStores, CliStores DEF Address!AddressKnown
  <2>6. Address!MeantIsStored'
    BY <2>3, CliStores
  <2>7. Address!UndoIsStored'
    BY <2>3 DEF Address!UndoIsStored
  <2>8. QED
    BY <2>5, <2>6, <2>7
<1>2. CASE Address!CliWriteFile \/ Address!CliRestart
  <2>1. PICK at : at \in {"written", "waits"} /\ s5' = [s5 EXCEPT !.at = at] /\ UNCHANGED <<s2, s6>>
        /\ s5.at \in CliAtWork
    BY <1>2 DEF Address!CliWriteFile, Address!CliRestart, Address!CliGoes, Address!CliAt, CliAtWork
  <2>2. /\ s5' = [at |-> s5'.at, want |-> s5'.want, from |-> s5'.from, old |-> s5'.old, alone |-> s5'.alone]
        /\ s5'.from = s5.from /\ s5'.at = at
    BY <1>0, <2>1
  <2>3. Address!AddressKnown'
    BY <1>0, <2>1, <2>2 DEF Address!AddressKnown
  <2>4. Address!MeantIsStored' /\ Address!UndoIsStored'
    BY <2>1, <2>2 DEF Address!MeantIsStored, Address!UndoIsStored, Address!Seed
  <2>5. QED
    BY <2>3, <2>4
<1>3. CASE Address!CliSync
  <2>1. PICK want, seen : Address!Set(want, seen) /\ Address!Mean(want, seen)
    BY <1>3 DEF Address!CliSync
  <2>2. s5' = [s5 EXCEPT !.at = "synced"] /\ s5.at \in CliAtWork
    BY <1>3 DEF Address!CliSync, Address!CliGoes, Address!CliAt, CliAtWork
  <2>3. /\ s5' = [at |-> s5'.at, want |-> s5'.want, from |-> s5'.from, old |-> s5'.old, alone |-> s5'.alone]
        /\ s5'.from = s5.from /\ s5'.at = "synced"
    BY <1>0, <2>2
  <2>4. Address!AddressKnown'
    BY <1>0, <2>1, <2>2, <2>3, SetStores, CliStores DEF Address!AddressKnown
  <2>5. Address!MeantIsStored' /\ Address!UndoIsStored'
    BY <2>1, <2>3, CliStores DEF Address!UndoIsStored
  <2>6. QED
    BY <2>4, <2>5
<1>4. CASE Address!CliUndo
  <2>1. PICK y : y = TRUE
    OBVIOUS
  <2>2. /\ Address!Set(s5.from, s5.old) /\ Address!Mean(s5.from, s5.old) /\ s5.at \in CliAtWork
        /\ s5' = [s5 EXCEPT !.at = "undoes", !.alone = y]
    BY <1>4, <2>1 DEF Address!CliUndo, Address!CliAt, CliAtWork
  <2>3. PICK want, from, old, alone, at :
          s5 = [at |-> at, want |-> want, from |-> from, old |-> old, alone |-> alone]
          /\ from = [p \in Address!Parts |-> from[p]]
    BY <1>0, <2>2
  <2>4. s5' = [at |-> "undoes", want |-> want, from |-> from, old |-> old, alone |-> y]
    BY <2>2, <2>3
  <2>5. Address!Set(from, old) /\ Address!Mean(from, old)
    BY <2>2, <2>3
  <2>6. Address!AddressKnown'
    BY <2>3, <2>4, <2>5, SetStores, CliStores DEF Address!AddressKnown
  <2>7. Address!MeantIsStored'
    BY <2>5, CliStores
  <2>8. Address!UndoIsStored'
    <3>1. s2'.exists /\ s2'.address = from /\ s2'.seed = Address!Seed(old)
      BY <2>5, SetStores
    <3>2. s5'.at = "undoes" /\ s5'.old = old /\ s5'.from = from
      BY <2>4
    <3>3. QED
      BY <3>1, <3>2 DEF Address!UndoIsStored, Address!Seed
  <2>9. QED
    BY <2>6, <2>7, <2>8
<1>5. CASE Address!CliRestoreFile
  <2>1. /\ s5.at = "undoes" /\ s1' = s5.old /\ s5' = [s5 EXCEPT !.at = "undone"]
        /\ UNCHANGED <<s2, s6>> /\ s5.at \in CliAtWork
    BY <1>5 DEF Address!CliRestoreFile, Address!CliAt, Address!CliGoes, CliAtWork
  <2>2. PICK want, from, old, alone, at :
          s5 = [at |-> at, want |-> want, from |-> from, old |-> old, alone |-> alone]
          /\ from = [p \in Address!Parts |-> from[p]]
    BY <1>0, <2>1
  <2>3. s5' = [at |-> "undone", want |-> want, from |-> from, old |-> old, alone |-> alone]
    BY <2>1, <2>2
  <2>4. Address!AddressKnown'
    BY <2>1, <2>2, <2>3 DEF Address!AddressKnown
  <2>5. Address!MeantIsStored'
    BY <2>1 DEF Address!MeantIsStored, Address!Seed
  <2>6. Address!UndoIsStored'
    <3>1. /\ s1' = old /\ s5'.old = old /\ s5'.from = from /\ (s5'.alone <=> alone)
          /\ s5.old = old /\ s5.from = from /\ (s5.alone <=> alone)
      BY <2>1, <2>2, <2>3
    <3>2. alone => /\ s2.exists
                   /\ \A p \in Address!Parts : /\ s2.seed[p] = Address!Seed(old)[p]
                                                   /\ s2.address[p] = from[p]
      BY <2>1, <3>1 DEF Address!UndoIsStored
    <3>3. QED
      BY <2>1, <3>1, <3>2 DEF Address!UndoIsStored, Address!Seed
  <2>7. QED
    BY <2>4, <2>5, <2>6
<1>6. QED
  BY <1>1, <1>2, <1>3, <1>4, <1>5

LEMMA AddressKeeps ==
    Address!AddressInv /\ [Address!Next]_(Address!vars) => Address!AddressInv'
<1> SUFFICES ASSUME Address!AddressInv, [Address!Next]_(Address!vars) PROVE Address!AddressInv'
  OBVIOUS
<1>1. CASE \E flagged \in BOOLEAN : Address!Start(flagged)
  BY <1>1, AddressStarts
<1>2. CASE \E ask : Address!HandleSetAddress(ask)
  BY <1>2, AddressSet
<1>3. CASE \E p, value : Address!EditFile(p, value)
  BY <1>3, FileEdited
<1>4. CASE \/ \E want \in Address!Addresses : Address!CliStore(want)
           \/ Address!CliWriteFile \/ Address!CliSync \/ Address!CliRestart
           \/ Address!CliUndo \/ Address!CliRestoreFile
  BY <1>4, CliSteps
<1>5. CASE \/ Address!Stop \/ \E p \in AddressBusy : Address!PortTaken(p)
           \/ Address!CliSucceeds \/ Address!CliEnds \/ Address!CliKilled
           \/ UNCHANGED Address!vars
  <2>1. UNCHANGED <<s1, s2, s6>> /\ (UNCHANGED s5 \/ s5'.at = "idle")
    BY <1>5 DEF Address!Stop, Address!PortTaken, Address!CliSucceeds, Address!CliEnds,
       Address!CliKilled, Address!NoCli, Address!vars
  <2>2. QED
    BY <2>1, AddressUntouched
<1>6. QED
  BY <1>1, <1>2, <1>3, <1>4, <1>5 DEF Address!Next

(* A change that was rolled back has put the file back by then.            *)
LEMMA AddressStays == Address!AddressInv => Address!AddressIsKept
<1> SUFFICES ASSUME Address!AddressInv PROVE Address!AddressIsKept
  OBVIOUS
<1> USE DEF Address!AddressInv
<1>1. ASSUME s5.at = "undone", s5.alone PROVE Address!Resolve(s2, s1, {}) = s5.from
  <2>1. /\ s2.exists /\ s1 = s5.old
        /\ \A p \in Address!Parts : /\ s2.seed[p] = Address!Seed(s5.old)[p]
                                       /\ s2.address[p] = s5.from[p]
    BY <1>1 DEF Address!UndoIsStored
  <2>2. \A p \in Address!Parts : Address!ResolvePart(s2, s1, p, p \in {}) = s5.from[p]
    BY <2>1 DEF Address!ResolvePart
  <2>3. s5.from = [p \in Address!Parts |-> s5.from[p]]
    BY <1>1 DEF Address!AddressKnown
  <2>4. QED
    BY <2>2, <2>3 DEF Address!Resolve
<1>2. QED
  BY <1>1, LastWord DEF Address!AddressIsKept, Address!RollbackRestores

-----------------------------------------------------------------------------
(* Restore: names, disk, log, panel, work, hist.                           *)
LEMMA RestoreWords ==
    /\ Restore!Original \in Restore!Files /\ Restore!Original # 0 /\ 0 \notin Restore!Files
    /\ Restore!Files \subseteq Nat
    /\ \A u \in RestoreUploads : u # RestoreCli /\ Restore!Source(u) = "staged"
    /\ Restore!Source(RestoreCli) = "incoming" /\ RestoreCli \in Restore!Actors
    /\ RestoreUploads \subseteq Restore!Actors
    /\ Restore!Actors = RestoreUploads \cup {RestoreCli}
BY RestoreAssumption DEF Restore!Original, Restore!Files, Restore!Source, Restore!Actors

LEMMA BlankFacts ==
    /\ Restore!Blank.by = {} /\ ~Restore!Blank.torn
    /\ Restore!Blank = [by |-> Restore!Blank.by, torn |-> Restore!Blank.torn,
                        good |-> Restore!Blank.good, complete |-> Restore!Blank.complete]
    /\ Restore!Idle = [at |-> Restore!Idle.at, file |-> Restore!Idle.file, good |-> Restore!Idle.good]
    /\ Restore!Idle.at = "idle"
BY DEF Restore!Blank, Restore!Idle

LEMMA RestoreBegins == Restore!Init => Restore!RestoreInv
<1> SUFFICES ASSUME Restore!Init PROVE Restore!RestoreInv
  OBVIOUS
<1>1. s1 = [live |-> Restore!Original, previous |-> 0, staged |-> 0, incoming |-> 0]
  BY DEF Restore!Init
<1>2. PICK y : y = TRUE
  OBVIOUS
<1>3. PICK n : n = FALSE
  OBVIOUS
<1>4. PICK first : first = [Restore!Blank EXCEPT !.by = {Restore!Nobody}, !.good = y]
  OBVIOUS
<1>5. /\ first = [by |-> first.by, torn |-> first.torn, good |-> first.good, complete |-> first.complete]
      /\ first.by = {Restore!Nobody} /\ ~first.torn /\ first.good
  BY <1>2, <1>4, BlankFacts
<1>6. /\ s2 = [f \in Restore!Files |-> IF f = Restore!Original THEN first ELSE Restore!Blank]
      /\ s4 = [up |-> y, on |-> Restore!Original]
      /\ s5 = [a \in Restore!Actors |-> Restore!Idle]
      /\ s6 = [installs |-> 0, last |-> Restore!Nobody, met |-> n]
  BY <1>2, <1>3, <1>4 DEF Restore!Init
<1>7. /\ \A f \in Restore!Files : s2[f] = [by |-> s2[f].by, torn |-> s2[f].torn, good |-> s2[f].good,
                                           complete |-> s2[f].complete]
      /\ Restore!Own(Restore!Original, Restore!Nobody)
  BY <1>5, <1>6, BlankFacts, RestoreWords DEF Restore!Own
<1>8. \A a \in Restore!Actors : s5[a].at = "idle"
      /\ s5[a] = [at |-> s5[a].at, file |-> s5[a].file, good |-> s5[a].good]
  BY <1>6, BlankFacts
<1>9. Restore!RestoreKnown
  BY <1>1, <1>2, <1>6, <1>7, <1>8, RestoreWords DEF Restore!RestoreKnown, Restore!InFiles, Restore!Stages
<1>10. Restore!OriginalKept
  BY <1>1, <1>6, <1>8 DEF Restore!OriginalKept
<1>11. Restore!Usable(Restore!Original)
  BY <1>7 DEF Restore!Own, Restore!Usable, Restore!Whole
<1>12. Restore!Undisturbed
  BY <1>1, <1>6, <1>7, <1>8, <1>11, RestoreWords DEF Restore!Undisturbed, Restore!OwnsItsFile
<1>13. QED
  BY <1>9, <1>10, <1>12 DEF Restore!RestoreInv

(* Restores that meet are remembered.                                      *)
LEMMA MeetsDoes ==
    ASSUME Restore!RestoreKnown, NEW S, s6' = Restore!Meets(S)
    PROVE  /\ s6'.installs = s6.installs /\ s6'.last = s6.last
           /\ s6.met => s6'.met
           /\ S # {} => s6'.met
           /\ s6' = [installs |-> s6'.installs, last |-> s6'.last, met |-> s6'.met]
<1>1. CASE S = {}
  BY <1>1 DEF Restore!Meets, Restore!RestoreKnown
<1>2. CASE S # {}
  <2>1. PICK y : y = TRUE
    OBVIOUS
  <2>2. s6' = [s6 EXCEPT !.met = y] /\ y
    BY <1>2, <2>1 DEF Restore!Meets
  <2>3. PICK i, l, m : s6 = [installs |-> i, last |-> l, met |-> m]
    BY DEF Restore!RestoreKnown
  <2>4. s6' = [installs |-> i, last |-> l, met |-> y]
    BY <2>2, <2>3
  <2>5. QED
    BY <2>2, <2>3, <2>4
<1>3. QED
  BY <1>1, <1>2

(* What a commit, a checkpoint and a start do to the files.                *)
SameBytes == \A f \in Restore!Files : /\ s2'[f].by = s2[f].by
                                      /\ s2'[f].torn <=> s2[f].torn
                                      /\ s2'[f].good <=> s2[f].good
DiskKnown ==
    /\ s2 = [f \in Restore!Files |-> s2[f]]
    /\ \A f \in Restore!Files : s2[f] = [by |-> s2[f].by, torn |-> s2[f].torn, good |-> s2[f].good,
                                         complete |-> s2[f].complete]
WorkKnown ==
    /\ s5 = [a \in Restore!Actors |-> s5[a]]
    /\ \A a \in Restore!Actors : s5[a] = [at |-> s5[a].at, file |-> s5[a].file, good |-> s5[a].good]

LEMMA CompleteOnly ==
    ASSUME DiskKnown, NEW f, NEW c, s2' = [s2 EXCEPT ![f].complete = c]
    PROVE  SameBytes /\ DiskKnown'
<1>1. PICK d : d = [s2[f] EXCEPT !.complete = c]
  OBVIOUS
<1>2. s2' = [s2 EXCEPT ![f] = d]
  BY <1>1
<1>3. s2' = [g \in Restore!Files |-> s2'[g]]
  BY <1>2 DEF DiskKnown
<1>4. ASSUME NEW g \in Restore!Files
      PROVE  /\ s2'[g].by = s2[g].by /\ (s2'[g].torn <=> s2[g].torn) /\ (s2'[g].good <=> s2[g].good)
             /\ s2'[g] = [by |-> s2'[g].by, torn |-> s2'[g].torn, good |-> s2'[g].good,
                          complete |-> s2'[g].complete]
  <2>1. PICK b, t, o, k : s2[g] = [by |-> b, torn |-> t, good |-> o, complete |-> k]
    BY DEF DiskKnown
  <2>2. CASE g = f
    <3>1. s2'[g] = d /\ d = [by |-> b, torn |-> t, good |-> o, complete |-> c]
      BY <1>1, <1>2, <2>1, <2>2 DEF DiskKnown
    <3>2. QED
      BY <2>1, <3>1
  <2>3. CASE g # f
    <3>1. s2'[g] = s2[g]
      BY <1>2, <2>3 DEF DiskKnown
    <3>2. QED
      BY <2>1, <3>1
  <2>4. QED
    BY <2>2, <2>3
<1>5. QED
  BY <1>3, <1>4 DEF SameBytes, DiskKnown

(* A restore that goes on.                                                 *)
LEMMA GoesDoes ==
    ASSUME WorkKnown, NEW a \in Restore!Actors, NEW at, Restore!Goes(a, at)
    PROVE  /\ WorkKnown' /\ s5'[a].at = at /\ s5'[a].file = s5[a].file
           /\ \A b \in Restore!Actors : b # a => s5'[b] = s5[b]
<1>1. PICK w : w = [s5[a] EXCEPT !.at = at]
  OBVIOUS
<1>2. s5' = [s5 EXCEPT ![a] = w]
  BY <1>1 DEF Restore!Goes
<1>3. PICK t, f, g : s5[a] = [at |-> t, file |-> f, good |-> g]
  BY DEF WorkKnown
<1>4. w = [at |-> at, file |-> f, good |-> g]
  BY <1>1, <1>3
<1>5. /\ s5' = [b \in Restore!Actors |-> s5'[b]] /\ s5'[a] = w
      /\ \A b \in Restore!Actors : b # a => s5'[b] = s5[b]
  BY <1>2 DEF WorkKnown
<1>6. QED
  BY <1>3, <1>4, <1>5 DEF WorkKnown

LEMMA BecomesDoes ==
    ASSUME WorkKnown, NEW a \in Restore!Actors, NEW w,
           w = [at |-> w.at, file |-> w.file, good |-> w.good], s5' = [s5 EXCEPT ![a] = w]
    PROVE  /\ WorkKnown' /\ s5'[a] = w
           /\ \A b \in Restore!Actors : b # a => s5'[b] = s5[b]
<1>1. /\ s5' = [b \in Restore!Actors |-> s5'[b]] /\ s5'[a] = w
      /\ \A b \in Restore!Actors : b # a => s5'[b] = s5[b]
  BY DEF WorkKnown
<1>2. QED
  BY <1>1 DEF WorkKnown

(* Restores that end or that stop the panel, and what the panel does while *)
(* no restore is between its renames, disturb nothing.                     *)
LEMMA Calms ==
    ASSUME Restore!RestoreInv, SameBytes, DiskKnown', WorkKnown', s1' = s1,
           s6'.installs = s6.installs, s6'.last = s6.last, s6.met => s6'.met,
           s6' = [installs |-> s6'.installs, last |-> s6'.last, met |-> s6'.met],
           s4' = s4 \/ (s4' = [up |-> s4'.up, on |-> s4'.on] /\ ~s4'.up /\ s4'.on = 0),
           \A u \in RestoreUploads : s5'[u].at # "idle" => s4'.up,
           \A a \in Restore!Actors :
              \/ s5'[a] = s5[a]
              \/ s5'[a].at = "idle" /\ (s5[a].at \in {"aside", "cleared"} => s6'.met)
              \/ a = RestoreCli /\ s5[a].at = "asked" /\ s5'[a].at = "stopped" /\ ~s4'.up
    PROVE  Restore!RestoreInv'
<1> USE DEF Restore!RestoreInv
<1>1. \A a \in Restore!Actors : s5'[a].at \in Restore!Stages(a)
  <2> SUFFICES ASSUME NEW a \in Restore!Actors PROVE s5'[a].at \in Restore!Stages(a)
    OBVIOUS
  <2>1. s5[a].at \in Restore!Stages(a)
    BY DEF Restore!RestoreKnown
  <2>2. QED
    BY <2>1 DEF Restore!Stages
<1>2. IF s4'.up THEN s4'.on \in Restore!Files ELSE s4'.on = 0
  BY DEF Restore!RestoreKnown
<1>3. Restore!RestoreKnown'
  BY <1>1, <1>2 DEF Restore!RestoreKnown, DiskKnown, WorkKnown, Restore!InFiles, Restore!Stages
<1>4. Restore!OriginalKept'
  <2>1. \A a \in Restore!Actors : s5'[a].at \in {"aside", "cleared", "placed"} => s6.installs # 0
    BY DEF Restore!OriginalKept
  <2>2. QED
    BY <2>1 DEF Restore!OriginalKept
<1>5. ASSUME ~s6'.met PROVE Restore!Undisturbed'
  <2>1. Restore!Undisturbed
    BY <1>5
  <2>2. \A f \in Restore!Files : \A a : (Restore!Own(f, a)' <=> Restore!Own(f, a))
    BY DEF SameBytes, Restore!Own
  <2>3. \A f \in Restore!Files : (Restore!Usable(f)' <=> Restore!Usable(f))
    BY DEF SameBytes, Restore!Usable, Restore!Whole
  <2>4. \A a, b \in Restore!Actors : s5'[a].at # "idle" /\ s5'[b].at # "idle" => a = b
    BY <2>1 DEF Restore!Undisturbed
  <2>5. s5'[RestoreCli].at \in {"stopped", "verified", "aside", "cleared"} => ~s4'.up
    BY <2>1, RestoreWords DEF Restore!Undisturbed
  <2>6. Restore!Installing' = {} => Restore!Installing = {}
    BY <1>5 DEF Restore!Installing
  <2>7. Restore!Installing' = {} => s1.live # 0 /\ Restore!Own(s1.live, s6.last)'
    BY <2>1, <2>2, <2>6 DEF Restore!Undisturbed, Restore!RestoreKnown, Restore!InFiles
  <2>8. ASSUME NEW a \in Restore!Actors PROVE Restore!OwnsItsFile(a)'
    <3>1. CASE s5'[a] = s5[a]
      <4>1. s1[Restore!Source(a)] \in Restore!Files \cup {0}
        BY DEF Restore!RestoreKnown, Restore!InFiles, Restore!Source
      <4>2. Restore!OwnsItsFile(a)
        BY <2>1 DEF Restore!Undisturbed
      <4>3. s5[a].at = "writing" => s5[a].file \in Restore!Files
        BY <4>1, <4>2 DEF Restore!OwnsItsFile
      <4>4. QED
        BY <3>1, <4>1, <4>2, <4>3 DEF Restore!OwnsItsFile, Restore!Own, SameBytes, Restore!Source
    <3>2. CASE s5'[a] # s5[a]
      BY <3>2 DEF Restore!OwnsItsFile
    <3>3. QED
      BY <3>1, <3>2
  <2>9. \A f \in {s1.staged, s1.incoming} \ {0} : f # s1.live /\ f # s4'.on
    BY <2>1 DEF Restore!Undisturbed
  <2>10. s4'.up => Restore!Usable(s4.on)' /\ s4'.on = s4.on
    BY <2>1, <2>3 DEF Restore!Undisturbed, Restore!RestoreKnown
  <2>11. s1.staged # 0 => s1.staged # s1.incoming
    BY <2>1 DEF Restore!Undisturbed
  <2>12. QED
    BY <2>4, <2>5, <2>7, <2>8, <2>9, <2>10, <2>11 DEF Restore!Undisturbed, Restore!Usable, Restore!Whole
<1>6. QED
  BY <1>3, <1>4, <1>5

(* The facts an action starts from.                                        *)
LEMMA RestoreFacts ==
    ASSUME Restore!RestoreKnown
    PROVE  /\ DiskKnown /\ WorkKnown
           /\ s6 = [installs |-> s6.installs, last |-> s6.last, met |-> s6.met]
           /\ \A a \in Restore!Actors : s1[Restore!Source(a)] \in Restore!Files \cup {0}
           /\ \A u \in RestoreUploads : s5[u].at # "idle" => s4.up
BY DEF Restore!RestoreKnown, DiskKnown, WorkKnown, Restore!InFiles, Restore!Source

LEMMA DiskStays ==
    ASSUME s2' = s2, DiskKnown PROVE SameBytes /\ DiskKnown'
BY DEF SameBytes, DiskKnown

(* The panel's own work, and restores that end.                            *)
LEMMA PanelWorks ==
    ASSUME Restore!RestoreInv, Restore!Commit \/ Restore!Checkpoint
    PROVE  Restore!RestoreInv'
<1>1. DiskKnown /\ WorkKnown /\ Restore!RestoreKnown
  BY RestoreFacts DEF Restore!RestoreInv
<1>2. PICK c : s2' = [s2 EXCEPT ![s4.on].complete = c] /\ UNCHANGED <<s1, s4, s5, s6>>
  BY DEF Restore!Commit, Restore!Checkpoint, Restore!Checkpointed
<1>3. SameBytes /\ DiskKnown'
  BY <1>1, <1>2, CompleteOnly
<1>4. WorkKnown'
  BY <1>1, <1>2 DEF WorkKnown
<1>5. QED
  BY <1>1, <1>2, <1>3, <1>4, RestoreFacts, Calms

LEMMA RestoreAnswers ==
    ASSUME Restore!RestoreInv, NEW a \in Restore!Actors,
           \/ a \in RestoreUploads /\ Restore!Answer(a)
           \/ Restore!NotThere(a)
           \/ a = RestoreCli /\ (Restore!CliStart \/ Restore!CliKilled)
    PROVE  Restore!RestoreInv'
<1>1. DiskKnown /\ WorkKnown /\ Restore!RestoreKnown
  BY RestoreFacts DEF Restore!RestoreInv
<1>2. s5' = [s5 EXCEPT ![a] = Restore!Idle] /\ UNCHANGED <<s1, s4>>
  BY DEF Restore!Answer, Restore!NotThere, Restore!CliStart, Restore!CliKilled, Restore!Fails
<1>3. /\ WorkKnown' /\ s5'[a].at = "idle"
      /\ \A b \in Restore!Actors : b # a => s5'[b] = s5[b]
  BY <1>1, <1>2, BecomesDoes, BlankFacts
<1>4. SameBytes /\ DiskKnown'
  <2>1. s2' = s2 \/ \E c : s2' = [s2 EXCEPT ![s4.on].complete = c]
    BY DEF Restore!Answer, Restore!NotThere, Restore!CliStart, Restore!CliKilled, Restore!Fails
  <2>2. QED
    BY <1>1, <2>1, CompleteOnly, DiskStays
<1>5. /\ s6'.installs = s6.installs /\ s6'.last = s6.last /\ (s6.met => s6'.met)
      /\ s6' = [installs |-> s6'.installs, last |-> s6'.last, met |-> s6'.met]
      /\ s5[a].at \in {"aside", "cleared"} => s6'.met
  <2>1. CASE \/ a \in RestoreUploads /\ Restore!Answer(a)
             \/ a = RestoreCli /\ Restore!CliStart
    BY <1>1, <2>1, RestoreFacts DEF Restore!Answer, Restore!CliStart, Restore!Fails
  <2>2. CASE Restore!NotThere(a)
    <3>1. s5[a].at \in {"verified", "cleared"} /\ s1[Restore!Source(a)] = 0 /\ s6' = s6
      BY <2>2 DEF Restore!NotThere, Restore!Fails
    <3>2. s6.met
      BY <3>1 DEF Restore!RestoreInv, Restore!Undisturbed, Restore!OwnsItsFile
    <3>3. QED
      BY <1>1, <3>1, <3>2, RestoreFacts
  <2>3. CASE a = RestoreCli /\ Restore!CliKilled
    <3>1. s6' = Restore!Meets({RestoreCli} \cap Restore!Installing)
      BY <2>3 DEF Restore!CliKilled
    <3>2. s5[a].at \in {"aside", "cleared"} => {RestoreCli} \cap Restore!Installing # {}
      BY <2>3 DEF Restore!Installing
    <3>3. QED
      BY <1>1, <3>1, <3>2, MeetsDoes
  <2>4. QED
    BY <2>1, <2>2, <2>3
<1>6. \A u \in RestoreUploads : s5'[u].at # "idle" => s4'.up
  BY <1>1, <1>2, <1>3, RestoreFacts, RestoreWords
<1>7. QED
  BY <1>2, <1>3, <1>4, <1>5, <1>6, Calms

(* The panel stops, by itself, by systemd's hand or by the command's.      *)
LEMMA PanelStops ==
    ASSUME Restore!RestoreInv, Restore!Stop \/ Restore!Crash \/ Restore!CliStop
    PROVE  Restore!RestoreInv'
<1>1. DiskKnown /\ WorkKnown /\ Restore!RestoreKnown
  BY RestoreFacts DEF Restore!RestoreInv
<1>2. SameBytes /\ DiskKnown'
  <2>1. s2' = s2 \/ \E c : s2' = [s2 EXCEPT ![s4.on].complete = c]
    BY DEF Restore!Stop, Restore!Crash, Restore!CliStop, Restore!Closes, Restore!Checkpointed
  <2>2. QED
    BY <1>1, <2>1, CompleteOnly, DiskStays
<1>3. CASE Restore!CliStop /\ ~s4.up
  <2>1. /\ Restore!Goes(RestoreCli, "stopped") /\ s5[RestoreCli].at = "asked"
        /\ UNCHANGED <<s1, s4, s6>>
    BY <1>3 DEF Restore!CliStop
  <2>2. /\ WorkKnown' /\ s5'[RestoreCli].at = "stopped"
        /\ \A b \in Restore!Actors : b # RestoreCli => s5'[b] = s5[b]
    BY <1>1, <2>1, GoesDoes, RestoreWords
  <2>3. \A u \in RestoreUploads : s5'[u].at # "idle" => s4'.up
    BY <1>1, <2>1, <2>2, RestoreFacts, RestoreWords
  <2>4. QED
    BY <1>1, <1>2, <1>3, <2>1, <2>2, <2>3, RestoreFacts, Calms
<1>4. CASE Restore!Stop \/ Restore!Crash \/ (Restore!CliStop /\ s4.up)
  <2>1. PICK n : n = FALSE
    OBVIOUS
  <2>2. s4' = [up |-> n, on |-> 0] /\ UNCHANGED s1
    BY <1>4, <2>1 DEF Restore!Stop, Restore!Crash, Restore!CliStop, Restore!Ends
  <2>3. s4' = [up |-> s4'.up, on |-> s4'.on] /\ ~s4'.up /\ s4'.on = 0
    BY <2>1, <2>2
  <2>4. PICK w : /\ w = s5[RestoreCli] \/ (/\ w = [s5[RestoreCli] EXCEPT !.at = "stopped"]
                                          /\ s5[RestoreCli].at = "asked")
                 /\ s5' = [a \in Restore!Actors |-> IF a = RestoreCli THEN w ELSE Restore!Idle]
    BY <1>4 DEF Restore!Stop, Restore!Crash, Restore!CliStop, Restore!Ends
  <2>5. /\ w = [at |-> w.at, file |-> w.file, good |-> w.good]
        /\ w = s5[RestoreCli] \/ (s5[RestoreCli].at = "asked" /\ w.at = "stopped")
    <3>0. s5[RestoreCli] = [at |-> s5[RestoreCli].at, file |-> s5[RestoreCli].file,
                            good |-> s5[RestoreCli].good]
      BY <1>1, RestoreWords DEF WorkKnown
    <3>1. PICK t, f, g : s5[RestoreCli] = [at |-> t, file |-> f, good |-> g]
      BY <3>0
    <3>2. \/ w = s5[RestoreCli]
          \/ w = [at |-> "stopped", file |-> f, good |-> g] /\ s5[RestoreCli].at = "asked"
      BY <2>4, <3>1
    <3>3. QED
      BY <3>1, <3>2
  <2>6. WorkKnown' /\ s5'[RestoreCli] = w /\ \A u \in RestoreUploads : s5'[u].at = "idle"
    BY <2>4, <2>5, BlankFacts, RestoreWords DEF WorkKnown
  <2>7. PICK S : /\ s6' = Restore!Meets(S)
                 /\ \A u \in RestoreUploads : s5[u].at \in {"aside", "cleared"} => S # {}
    <3>1. \A u \in RestoreUploads : s5[u].at \in {"aside", "cleared"} =>
             Restore!Installing # {} /\ Restore!Installing \cap RestoreUploads # {}
      BY RestoreWords DEF Restore!Installing
    <3>2. \/ s6' = Restore!Meets(Restore!Installing \cap RestoreUploads)
          \/ s6' = Restore!Meets(Restore!Installing)
      BY <1>4 DEF Restore!Stop, Restore!Crash, Restore!CliStop, Restore!Ends
    <3>3. QED
      BY <3>1, <3>2
  <2>8. /\ s6'.installs = s6.installs /\ s6'.last = s6.last /\ (s6.met => s6'.met)
        /\ s6' = [installs |-> s6'.installs, last |-> s6'.last, met |-> s6'.met]
        /\ \A u \in RestoreUploads : s5[u].at \in {"aside", "cleared"} => s6'.met
    BY <1>1, <2>7, MeetsDoes
  <2>9. ASSUME NEW a \in Restore!Actors
        PROVE  \/ s5'[a] = s5[a]
               \/ s5'[a].at = "idle" /\ (s5[a].at \in {"aside", "cleared"} => s6'.met)
               \/ a = RestoreCli /\ s5[a].at = "asked" /\ s5'[a].at = "stopped" /\ ~s4'.up
    BY <2>3, <2>5, <2>6, <2>8, RestoreWords
  <2>10. QED
    BY <1>2, <2>2, <2>3, <2>6, <2>8, <2>9, Calms
<1>5. QED
  BY <1>3, <1>4

(* A start that finds the database opens it.                               *)
LEMMA PanelStarts ==
    ASSUME Restore!RestoreInv, Restore!Start
    PROVE  Restore!RestoreInv'
<1> USE DEF Restore!RestoreInv
<1>1. DiskKnown /\ WorkKnown /\ Restore!RestoreKnown
  BY RestoreFacts
<1>2. PICK free : free = Restore!Free
  OBVIOUS
<1>3. PICK f : f = IF s1.live = 0 THEN CHOOSE g \in free : \A h \in free : g <= h ELSE s1.live
  OBVIOUS
<1>4. PICK y : y = TRUE
  OBVIOUS
<1>5. /\ ~s4.up /\ (s1.live = 0 => free # {}) /\ UNCHANGED s5
      /\ s4' = [up |-> y, on |-> f] /\ s1' = [s1 EXCEPT !.live = f]
      /\ s6' = Restore!Meets({a \in Restore!AtWork : s5[a].at \notin {"asked", "placed"}})
  BY <1>2, <1>3, <1>4 DEF Restore!Start, Restore!NewFile
<1>6. f \in Restore!Files
  <2>1. CASE s1.live = 0
    <3>1. free \subseteq Restore!Files /\ free \subseteq Nat
      BY <1>2, RestoreWords DEF Restore!Free
    <3>2. \E g \in free : \A h \in free : g <= h
      BY <1>5, <2>1, <3>1, LeastOne
    <3>3. QED
      BY <1>3, <2>1, <3>1, <3>2
  <2>2. CASE s1.live # 0
    BY <1>1, <1>3, <2>2 DEF Restore!RestoreKnown, Restore!InFiles
  <2>3. QED
    BY <2>1, <2>2
<1>7. PICK l, p, s, i : s1 = [live |-> l, previous |-> p, staged |-> s, incoming |-> i]
  BY <1>1 DEF Restore!RestoreKnown
<1>8. s1' = [live |-> f, previous |-> p, staged |-> s, incoming |-> i]
  BY <1>5, <1>7
<1>9. DiskKnown' /\ (s1.live # 0 => SameBytes)
  <2>1. CASE s1.live = 0
    <3>1. PICK b : b = [Restore!Blank EXCEPT !.by = {Restore!Nobody}]
      OBVIOUS
    <3>2. s2' = [s2 EXCEPT ![f] = b]
      BY <1>2, <1>3, <2>1, <3>1 DEF Restore!Start, Restore!NewFile
    <3>3. b = [by |-> b.by, torn |-> b.torn, good |-> b.good, complete |-> b.complete]
      BY <3>1, BlankFacts
    <3>4. QED
      BY <1>1, <2>1, <3>2, <3>3 DEF DiskKnown
  <2>2. CASE s1.live # 0
    <3>1. PICK c : s2' = [s2 EXCEPT ![f].complete = c]
      BY <1>3, <2>2 DEF Restore!Start
    <3>2. QED
      BY <1>1, <3>1, CompleteOnly
  <2>3. QED
    BY <2>1, <2>2
<1>10. /\ s6'.installs = s6.installs /\ s6'.last = s6.last /\ (s6.met => s6'.met)
       /\ s6' = [installs |-> s6'.installs, last |-> s6'.last, met |-> s6'.met]
       /\ ~s6'.met => \A a \in Restore!Actors : s5[a].at \in {"idle", "asked", "placed"}
  <2>1. {a \in Restore!AtWork : s5[a].at \notin {"asked", "placed"}} = {} =>
           \A a \in Restore!Actors : s5[a].at \in {"idle", "asked", "placed"}
    BY DEF Restore!AtWork
  <2>2. QED
    BY <1>1, <1>5, <2>1, MeetsDoes
<1>11. Restore!RestoreKnown'
  <2>1. s4' = [up |-> s4'.up, on |-> s4'.on] /\ s4'.up /\ s4'.on \in Restore!Files
    BY <1>4, <1>5, <1>6
  <2>2. s1' = [live |-> s1'.live, previous |-> s1'.previous, staged |-> s1'.staged,
               incoming |-> s1'.incoming]
        /\ s1'.live \in Restore!Files \cup {0} /\ s1'.staged = s1.staged /\ s1'.incoming = s1.incoming
    BY <1>6, <1>7, <1>8
  <2>3. /\ Restore!InFiles(s1.staged) /\ Restore!InFiles(s1.incoming)
        /\ s5 = [a \in Restore!Actors |-> s5[a]]
        /\ \A a \in Restore!Actors :
             /\ s5[a] = [at |-> s5[a].at, file |-> s5[a].file, good |-> s5[a].good]
             /\ s5[a].at \in Restore!Stages(a)
        /\ s6.installs \in Nat /\ s6.last \in Restore!Actors \cup {Restore!Nobody}
    BY <1>1 DEF Restore!RestoreKnown
  <2>4. Restore!InFiles(s1'.live) /\ Restore!InFiles(s1'.staged) /\ Restore!InFiles(s1'.incoming)
    BY <2>2, <2>3 DEF Restore!InFiles
  <2>5. /\ s5' = [a \in Restore!Actors |-> s5'[a]]
        /\ \A a \in Restore!Actors :
             /\ s5'[a] = [at |-> s5'[a].at, file |-> s5'[a].file, good |-> s5'[a].good]
             /\ s5'[a].at \in Restore!Stages(a)
    BY <1>5, <2>3
  <2>6. s6'.installs \in Nat /\ s6'.last \in Restore!Actors \cup {Restore!Nobody}
    BY <1>10, <2>3
  <2>7. QED
    BY <1>9, <1>10, <2>1, <2>2, <2>4, <2>5, <2>6 DEF Restore!RestoreKnown, DiskKnown
<1>12. Restore!OriginalKept'
  <2>1. s6.installs = 0 => f = s1.live
    BY <1>3, RestoreWords DEF Restore!OriginalKept
  <2>2. s1'.previous = s1.previous /\ s1'.live = f
    BY <1>7, <1>8
  <2>3. QED
    BY <1>5, <1>10, <2>1, <2>2 DEF Restore!OriginalKept
<1>13. ASSUME ~s6'.met PROVE Restore!Undisturbed'
  <2>1. Restore!Undisturbed /\ \A a \in Restore!Actors : s5[a].at \in {"idle", "asked", "placed"}
    BY <1>10, <1>13
  <2>2. Restore!Installing = {} /\ Restore!Installing' = {}
    BY <1>5, <2>1 DEF Restore!Installing
  <2>3. s1.live # 0 /\ Restore!Own(s1.live, s6.last)
    BY <2>1, <2>2 DEF Restore!Undisturbed
  <2>4. f = s1.live /\ SameBytes
    BY <1>3, <1>9, <2>3
  <2>5. s1' = s1
    BY <1>7, <1>8, <2>4
  <2>6. Restore!Own(s1.live, s6.last)'
    BY <1>6, <1>10, <2>3, <2>4, <2>5 DEF SameBytes, Restore!Own
  <2>7. Restore!Usable(f)'
    <3>1. s2'[f].by = {s6.last} /\ ~s2'[f].torn /\ s2'[f].good
      BY <1>10, <2>4, <2>5, <2>6 DEF Restore!Own
    <3>2. s6.last \in Restore!Actors \cup {Restore!Nobody}
      BY <1>1 DEF Restore!RestoreKnown
    <3>3. QED
      BY <3>1, <3>2 DEF Restore!Usable, Restore!Whole
  <2>8. s4'.on = f /\ s4'.up
    BY <1>4, <1>5
  <2>9. Restore!Usable(s4.on)'
    BY <2>7, <2>8 DEF Restore!Usable, Restore!Whole
  <2>10. \A a \in Restore!Actors : Restore!OwnsItsFile(a)'
    BY <1>5, <2>1 DEF Restore!OwnsItsFile
  <2>11. \A g \in {s1.staged, s1.incoming} \ {0} : g # f
    BY <2>1, <2>4 DEF Restore!Undisturbed
  <2>12. QED
    BY <1>5, <1>10, <2>1, <2>2, <2>3, <2>4, <2>5, <2>6, <2>8, <2>9, <2>10, <2>11, RestoreWords
    DEF Restore!Undisturbed
<1>14. QED
  BY <1>11, <1>12, <1>13

(* A restore that goes on beside nobody: its file stays its own.           *)
LEMMA RestoreGoes ==
    ASSUME Restore!RestoreInv, NEW a \in Restore!Actors, NEW at \in Restore!Stages(a),
           Restore!Goes(a, at), UNCHANGED <<s1, s2, s4>>,
           s6'.installs = s6.installs, s6'.last = s6.last, s6.met => s6'.met,
           s6' = [installs |-> s6'.installs, last |-> s6'.last, met |-> s6'.met],
           a \in RestoreUploads => s5[a].at # "idle",
           \/ at = "asked" /\ (~s6'.met => \A b \in Restore!Actors : s5[b].at = "idle")
           \/ s5[a].at = "written" /\ at = "verified"
              /\ (Restore!Whole(s1[Restore!Source(a)]) => s2[s1[Restore!Source(a)]].good)
           \/ s5[a].at = "aside" /\ at = "cleared"
    PROVE  Restore!RestoreInv'
<1> USE DEF Restore!RestoreInv
<1>1. DiskKnown /\ WorkKnown /\ Restore!RestoreKnown
  BY RestoreFacts
<1>2. /\ WorkKnown' /\ s5'[a].at = at
      /\ \A b \in Restore!Actors : b # a => s5'[b] = s5[b]
  BY <1>1, GoesDoes
<1>3. SameBytes /\ DiskKnown'
  BY <1>1, DiskStays
<1>4. Restore!RestoreKnown'
  <2>1. \A u \in RestoreUploads : s5'[u].at # "idle" => s4'.up
    BY <1>1, <1>2, RestoreWords DEF Restore!RestoreKnown
  <2>2. \A b \in Restore!Actors : s5'[b].at \in Restore!Stages(b)
    BY <1>1, <1>2 DEF Restore!RestoreKnown
  <2>3. /\ s1' = [live |-> s1'.live, previous |-> s1'.previous, staged |-> s1'.staged,
                  incoming |-> s1'.incoming]
        /\ Restore!InFiles(s1'.live) /\ Restore!InFiles(s1'.staged)
        /\ Restore!InFiles(s1'.incoming)
    BY <1>1 DEF Restore!RestoreKnown
  <2>4. /\ s4' = [up |-> s4'.up, on |-> s4'.on]
        /\ IF s4'.up THEN s4'.on \in Restore!Files ELSE s4'.on = 0
    BY <1>1 DEF Restore!RestoreKnown
  <2>5. s6'.installs \in Nat /\ s6'.last \in Restore!Actors \cup {Restore!Nobody}
    BY <1>1 DEF Restore!RestoreKnown
  <2>6. QED
    BY <1>2, <1>3, <2>1, <2>2, <2>3, <2>4, <2>5 DEF Restore!RestoreKnown, DiskKnown, WorkKnown
<1>5. Restore!OriginalKept'
  BY <1>2 DEF Restore!OriginalKept
<1>6. ASSUME ~s6'.met PROVE Restore!Undisturbed'
  <2>1. Restore!Undisturbed
    BY <1>6
  <2>2. \A b \in Restore!Actors : b # a => s5'[b].at = "idle"
    <3>1. \A b \in Restore!Actors : b # a => s5[b].at = "idle"
      BY <2>1, <1>6 DEF Restore!Undisturbed
    <3>2. QED
      BY <1>2, <3>1
  <2>3. Restore!OwnsItsFile(a)'
    <3>1. CASE at = "asked"
      BY <1>2, <3>1 DEF Restore!OwnsItsFile
    <3>2. CASE s5[a].at = "written" /\ at = "verified"
      <4>1. /\ s1[Restore!Source(a)] # 0 /\ ~s2[s1[Restore!Source(a)]].torn
            /\ s2[s1[Restore!Source(a)]].by = {a}
        BY <2>1, <3>2 DEF Restore!Undisturbed, Restore!OwnsItsFile
      <4>2. s2[s1[Restore!Source(a)]].good
        BY <4>1, <3>2 DEF Restore!Whole
      <4>3. QED
        BY <1>2, <3>2, <4>1, <4>2 DEF Restore!OwnsItsFile, Restore!Own, Restore!Source
    <3>3. CASE s5[a].at = "aside" /\ at = "cleared"
      BY <1>2, <2>1, <3>3 DEF Restore!Undisturbed, Restore!OwnsItsFile, Restore!Own, Restore!Source
    <3>4. QED
      BY <3>1, <3>2, <3>3
  <2>4. \A b \in Restore!Actors : Restore!OwnsItsFile(b)'
    <3>1. \A b \in Restore!Actors : b # a => Restore!OwnsItsFile(b)'
      BY <2>2 DEF Restore!OwnsItsFile
    <3>2. QED
      BY <2>3, <3>1
  <2>5. s5'[RestoreCli].at \in {"stopped", "verified", "aside", "cleared"} => ~s4.up
    <3>1. CASE a = RestoreCli
      <4>1. s5[a].at \in Restore!Stages(a) /\ s5[a].at # "written"
        BY <1>1, <3>1 DEF Restore!RestoreKnown, Restore!Stages
      <4>2. at = "asked" \/ s5[a].at = "aside"
        BY <4>1
      <4>3. s5[a].at = "aside" => ~s4.up
        BY <2>1, <3>1 DEF Restore!Undisturbed
      <4>4. QED
        BY <1>2, <3>1, <4>2, <4>3
    <3>2. CASE a # RestoreCli
      BY <2>2, <3>2, RestoreWords
    <3>3. QED
      BY <3>1, <3>2
  <2>6. Restore!Installing' = {} => Restore!Installing = {}
    <3>1. ASSUME NEW b \in Restore!Actors, s5[b].at \in {"aside", "cleared"}
          PROVE  s5'[b].at \in {"aside", "cleared"}
      BY <1>2, <1>6, <3>1
    <3>2. QED
      BY <3>1 DEF Restore!Installing
  <2>7. Restore!Installing' = {} => s1.live # 0 /\ Restore!Own(s1.live, s6.last)
    BY <2>1, <2>6 DEF Restore!Undisturbed
  <2>8. QED
    BY <2>1, <2>2, <2>4, <2>5, <2>7 DEF Restore!Undisturbed, Restore!Own, Restore!Usable, Restore!Whole
<1>7. QED
  BY <1>4, <1>5, <1>6

(* The steps that are of that kind.                                        *)
LEMMA RestoreAdvances ==
    ASSUME Restore!RestoreInv,
           \/ \E u \in RestoreUploads : /\ Restore!Verify(u) /\ Restore!Goes(u, "verified")
                                        /\ UNCHANGED <<s1, s2, s4, s6>>
           \/ \E a \in Restore!Actors : Restore!ClearLog(a)
           \/ Restore!CliVerify
    PROVE  Restore!RestoreInv'
<1>1. DiskKnown /\ WorkKnown /\ Restore!RestoreKnown
  BY RestoreFacts DEF Restore!RestoreInv
<1>2. ASSUME NEW u \in RestoreUploads, Restore!Verify(u), Restore!Goes(u, "verified"),
             UNCHANGED <<s1, s2, s4, s6>>
      PROVE  Restore!RestoreInv'
  <2>1. s5[u].at = "written" /\ u \in Restore!Actors /\ "verified" \in Restore!Stages(u)
    BY <1>2, RestoreWords DEF Restore!Verify, Restore!Stages
  <2>2. Restore!Source(u) = "staged" /\ s1["staged"] = s1.staged
    BY RestoreWords
  <2>3. Restore!Whole(s1.staged) => s2[s1.staged].good
    <3>1. CASE s1.staged # 0 /\ (Restore!Whole(s1.staged) => s2[s1.staged].good)
      BY <3>1
    <3>2. CASE Restore!Refused(u)
      <4>1. s5' = [s5 EXCEPT ![u] = Restore!Idle]
        BY <3>2 DEF Restore!Refused
      <4>2. s5'[u].at = "idle"
        BY <1>1, <2>1, <4>1, BlankFacts DEF WorkKnown
      <4>3. s5'[u].at = "verified"
        BY <1>1, <1>2, <2>1, GoesDoes
      <4>4. QED
        BY <4>2, <4>3
    <3>3. QED
      BY <1>2, <3>1, <3>2 DEF Restore!Verify
  <2>4. QED
    BY <1>1, <1>2, <2>1, <2>2, <2>3, RestoreFacts, RestoreGoes
<1>3. ASSUME NEW a \in Restore!Actors, Restore!ClearLog(a) PROVE Restore!RestoreInv'
  <2>1. /\ s5[a].at = "aside" /\ Restore!Goes(a, "cleared") /\ UNCHANGED <<s1, s2, s4, s6>>
        /\ "cleared" \in Restore!Stages(a)
    BY <1>3 DEF Restore!ClearLog, Restore!Stages
  <2>2. QED
    BY <1>1, <2>1, RestoreFacts, RestoreGoes
<1>4. CASE Restore!CliVerify
  <2>1. /\ Restore!Goes(RestoreCli, "asked") /\ s6' = Restore!Meets(Restore!AtWork)
        /\ UNCHANGED <<s1, s2, s4>> /\ "asked" \in Restore!Stages(RestoreCli)
    BY <1>4 DEF Restore!CliVerify, Restore!Stages
  <2>2. ~s6'.met => \A b \in Restore!Actors : s5[b].at = "idle"
    BY <1>1, <2>1, MeetsDoes DEF Restore!AtWork
  <2>3. QED
    BY <1>1, <2>1, <2>2, MeetsDoes, RestoreWords, RestoreGoes
<1>5. QED
  BY <1>2, <1>3, <1>4

(* What the next state owes when one restore took a step and every other   *)
(* one is idle, or is remembered to have been met.                         *)
LEMMA OneWorks ==
    ASSUME NEW a \in Restore!Actors, Restore!RestoreKnown', Restore!OriginalKept',
           \A b \in Restore!Actors : b # a => s5'[b] = s5[b],
           ~s6'.met =>
              /\ \A b \in Restore!Actors : b # a => s5[b].at = "idle"
              /\ a = RestoreCli /\ s5'[a].at \in {"stopped", "verified", "aside", "cleared"} => ~s4'.up
              /\ \A f \in {s1'.staged, s1'.incoming} \ {0} : f # s1'.live /\ f # s4'.on
              /\ s1'.staged # 0 => s1'.staged # s1'.incoming
              /\ Restore!OwnsItsFile(a)'
              /\ s5'[a].at \notin {"aside", "cleared"} => s1'.live # 0 /\ Restore!Own(s1.live, s6.last)'
              /\ s4'.up => Restore!Usable(s4.on)'
    PROVE  Restore!RestoreInv'
<1> SUFFICES ASSUME ~s6'.met PROVE Restore!Undisturbed'
  BY DEF Restore!RestoreInv
<1>1. \A b \in Restore!Actors : b # a => s5'[b].at = "idle"
  OBVIOUS
<1>2. \A b \in Restore!Actors : Restore!OwnsItsFile(b)'
  <2>1. \A b \in Restore!Actors : b # a => Restore!OwnsItsFile(b)'
    BY <1>1 DEF Restore!OwnsItsFile
  <2>2. QED
    BY <2>1
<1>3. s5'[RestoreCli].at \in {"stopped", "verified", "aside", "cleared"} => ~s4'.up
  BY <1>1, RestoreWords
<1>4. Restore!Installing' = {} => s5'[a].at \notin {"aside", "cleared"}
  BY DEF Restore!Installing
<1>5. \A b, c \in Restore!Actors : s5'[b].at # "idle" /\ s5'[c].at # "idle" => b = c
  BY <1>1
<1>6. QED
  BY <1>2, <1>3, <1>4, <1>5 DEF Restore!Undisturbed

LEMMA FreshFile ==
    ASSUME Restore!Free # {}
    PROVE  Restore!NewFile \in Restore!Free
<1>1. Restore!Free \subseteq Nat
  BY RestoreWords DEF Restore!Free
<1>2. \E f \in Restore!Free : \A g \in Restore!Free : f <= g
  BY <1>1, LeastOne
<1>3. QED
  BY <1>2 DEF Restore!NewFile

LEMMA WritesOne ==
    ASSUME DiskKnown, NEW f, NEW d, s2' = [s2 EXCEPT ![f] = d],
           d = [by |-> d.by, torn |-> d.torn, good |-> d.good, complete |-> d.complete]
    PROVE  /\ DiskKnown' /\ (f \in Restore!Files => s2'[f] = d)
           /\ \A g \in Restore!Files : g # f => s2'[g] = s2[g]
<1>1. /\ s2' = [g \in Restore!Files |-> s2'[g]] /\ (f \in Restore!Files => s2'[f] = d)
      /\ \A g \in Restore!Files : g # f => s2'[g] = s2[g]
  BY DEF DiskKnown
<1>2. QED
  BY <1>1 DEF DiskKnown

(* The work of one restore, once its parts are known.                      *)
LEMMA KnownAgain ==
    ASSUME Restore!RestoreKnown, DiskKnown', WorkKnown', s4' = s4,
           s1' = [live |-> s1'.live, previous |-> s1'.previous, staged |-> s1'.staged,
                  incoming |-> s1'.incoming],
           s1'.live \in Restore!Files \cup {0}, s1'.staged \in Restore!Files \cup {0},
           s1'.incoming \in Restore!Files \cup {0},
           s6' = [installs |-> s6'.installs, last |-> s6'.last, met |-> s6'.met],
           s6'.installs \in Nat, s6'.last \in Restore!Actors \cup {Restore!Nobody},
           NEW a \in Restore!Actors, s5'[a].at \in Restore!Stages(a),
           a \in RestoreUploads /\ s5'[a].at # "idle" => s4.up,
           \A b \in Restore!Actors : b # a => s5'[b] = s5[b]
    PROVE  Restore!RestoreKnown'
<1>1. \A b \in Restore!Actors : s5'[b].at \in Restore!Stages(b)
  BY DEF Restore!RestoreKnown
<1>2. \A u \in RestoreUploads : s5'[u].at # "idle" => s4'.up
  BY RestoreWords DEF Restore!RestoreKnown
<1>3. QED
  BY <1>1, <1>2 DEF Restore!RestoreKnown, Restore!InFiles, DiskKnown, WorkKnown, Restore!Stages

(* An upload that is refused.                                              *)
LEMMA UploadRefused ==
    ASSUME Restore!RestoreInv, NEW u \in RestoreUploads, Restore!Refused(u),
           s5[u].at \in {"writing", "written"}
    PROVE  Restore!RestoreInv'
<1> USE DEF Restore!RestoreInv
<1>1. DiskKnown /\ WorkKnown /\ Restore!RestoreKnown /\ u \in Restore!Actors
  BY RestoreFacts, RestoreWords
<1>2. /\ s5' = [s5 EXCEPT ![u] = Restore!Idle] /\ s1' = [s1 EXCEPT !.staged = 0]
      /\ UNCHANGED <<s2, s4, s6>>
  BY DEF Restore!Refused
<1>3. /\ WorkKnown' /\ s5'[u].at = "idle"
      /\ \A b \in Restore!Actors : b # u => s5'[b] = s5[b]
  BY <1>1, <1>2, BecomesDoes, BlankFacts
<1>4. PICK l, p, s, i : s1 = [live |-> l, previous |-> p, staged |-> s, incoming |-> i]
  BY <1>1 DEF Restore!RestoreKnown
<1>5. s1' = [live |-> l, previous |-> p, staged |-> 0, incoming |-> i]
  BY <1>2, <1>4
<1>6. /\ s1'.live = s1.live /\ s1'.previous = s1.previous /\ s1'.staged = 0
      /\ s1'.incoming = s1.incoming
      /\ s1' = [live |-> s1'.live, previous |-> s1'.previous, staged |-> s1'.staged,
                incoming |-> s1'.incoming]
  BY <1>4, <1>5
<1>7. SameBytes /\ DiskKnown'
  BY <1>1, <1>2, DiskStays
<1>8. Restore!RestoreKnown'
  <2>1. "idle" \in Restore!Stages(u) /\ s1.live \in Restore!Files \cup {0}
        /\ s1.incoming \in Restore!Files \cup {0} /\ s6.installs \in Nat
        /\ s6.last \in Restore!Actors \cup {Restore!Nobody}
        /\ s6' = [installs |-> s6'.installs, last |-> s6'.last, met |-> s6'.met]
    BY <1>1, <1>2 DEF Restore!RestoreKnown, Restore!InFiles, Restore!Stages
  <2>2. QED
    BY <1>1, <1>2, <1>3, <1>6, <1>7, <2>1, KnownAgain
<1>9. Restore!OriginalKept'
  BY <1>2, <1>3, <1>6 DEF Restore!OriginalKept
<1>10. ASSUME ~s6'.met
       PROVE  /\ \A b \in Restore!Actors : b # u => s5[b].at = "idle"
              /\ \A f \in {s1'.staged, s1'.incoming} \ {0} : f # s1'.live /\ f # s4'.on
              /\ s1'.live # 0 /\ Restore!Own(s1.live, s6.last)'
              /\ s4'.up => Restore!Usable(s4.on)'
  <2>1. Restore!Undisturbed
    BY <1>2, <1>10
  <2>2. \A b \in Restore!Actors : b # u => s5[b].at = "idle"
    BY <1>1, <2>1 DEF Restore!Undisturbed
  <2>3. Restore!Installing = {}
    BY <2>2 DEF Restore!Installing
  <2>4. QED
    BY <1>2, <1>6, <2>1, <2>2, <2>3 DEF Restore!Undisturbed, Restore!Own, Restore!Usable, Restore!Whole
<1>11. Restore!OwnsItsFile(u)'
  BY <1>3 DEF Restore!OwnsItsFile
<1>12. QED
  BY <1>1, <1>3, <1>6, <1>8, <1>9, <1>10, <1>11, RestoreWords, OneWorks

(* An upload begins.                                                       *)
LEMMA UploadBegins ==
    ASSUME Restore!RestoreInv, NEW u \in RestoreUploads, NEW good \in BOOLEAN, Restore!Stage(u, good)
    PROVE  Restore!RestoreInv'
<1> USE DEF Restore!RestoreInv
<1>1. DiskKnown /\ WorkKnown /\ Restore!RestoreKnown /\ u \in Restore!Actors
  BY RestoreFacts, RestoreWords
<1>2. PICK f : f = IF s1.staged = 0 THEN Restore!NewFile ELSE s1.staged
  OBVIOUS
<1>3. PICK t : t = (\E v \in RestoreUploads : s5[v].at = "writing" /\ s5[v].file = f)
  OBVIOUS
<1>4. PICK d : d = [Restore!Blank EXCEPT !.torn = t]
  OBVIOUS
<1>5. PICK w : w = [at |-> "writing", file |-> f, good |-> good]
  OBVIOUS
<1>6. /\ s4.up /\ s5[u].at = "idle" /\ (s1.staged = 0 => Restore!Free # {})
      /\ s1' = [s1 EXCEPT !.staged = f] /\ s5' = [s5 EXCEPT ![u] = w]
      /\ s6' = Restore!Meets(Restore!AtWork) /\ s4' = s4
  BY <1>2, <1>3, <1>4, <1>5 DEF Restore!Stage
<1>7. s2' = [s2 EXCEPT ![f] = d]
  BY <1>2, <1>3, <1>4 DEF Restore!Stage
<1>8. /\ f \in Restore!Files
      /\ s1.staged = 0 => f \in Restore!Free
  <2>1. s1.staged = 0 => f \in Restore!Free
    BY <1>2, <1>6, FreshFile
  <2>2. s1.staged \in Restore!Files \cup {0}
    BY <1>1 DEF Restore!RestoreKnown, Restore!InFiles
  <2>3. QED
    BY <1>2, <2>1, <2>2 DEF Restore!Free
<1>9. /\ d = [by |-> d.by, torn |-> d.torn, good |-> d.good, complete |-> d.complete]
      /\ d.by = {} /\ (d.torn <=> t)
  <2>1. PICK b, n, o, k : Restore!Blank = [by |-> b, torn |-> n, good |-> o, complete |-> k]
    BY BlankFacts
  <2>2. d = [by |-> b, torn |-> t, good |-> o, complete |-> k]
    BY <1>4, <2>1
  <2>3. QED
    BY <2>1, <2>2, BlankFacts
<1>10. /\ DiskKnown' /\ s2'[f] = d
       /\ \A g \in Restore!Files : g # f => s2'[g] = s2[g]
  BY <1>1, <1>7, <1>8, <1>9, WritesOne
<1>11. /\ WorkKnown' /\ s5'[u] = w /\ s5'[u].at = "writing" /\ s5'[u].file = f
       /\ \A b \in Restore!Actors : b # u => s5'[b] = s5[b]
  <2>1. w = [at |-> w.at, file |-> w.file, good |-> w.good] /\ w.at = "writing" /\ w.file = f
    BY <1>5
  <2>2. QED
    BY <1>1, <1>6, <2>1, BecomesDoes
<1>12. /\ s6'.installs = s6.installs /\ s6'.last = s6.last /\ (s6.met => s6'.met)
       /\ s6' = [installs |-> s6'.installs, last |-> s6'.last, met |-> s6'.met]
       /\ ~s6'.met => \A b \in Restore!Actors : s5[b].at = "idle"
  BY <1>1, <1>6, MeetsDoes DEF Restore!AtWork
<1>13. PICK l, p, s, i : s1 = [live |-> l, previous |-> p, staged |-> s, incoming |-> i]
  BY <1>1 DEF Restore!RestoreKnown
<1>14. s1' = [live |-> l, previous |-> p, staged |-> f, incoming |-> i]
  BY <1>6, <1>13
<1>15. /\ s1'.live = s1.live /\ s1'.previous = s1.previous /\ s1'.staged = f
       /\ s1'.incoming = s1.incoming
       /\ s1' = [live |-> s1'.live, previous |-> s1'.previous, staged |-> s1'.staged,
                 incoming |-> s1'.incoming]
  BY <1>13, <1>14
<1>16. Restore!RestoreKnown'
  <2>1. "writing" \in Restore!Stages(u) /\ s1.live \in Restore!Files \cup {0}
        /\ s1.incoming \in Restore!Files \cup {0} /\ s6.installs \in Nat
        /\ s6.last \in Restore!Actors \cup {Restore!Nobody}
    BY <1>1, RestoreWords DEF Restore!RestoreKnown, Restore!InFiles, Restore!Stages
  <2>2. QED
    BY <1>1, <1>6, <1>8, <1>10, <1>11, <1>12, <1>15, <2>1, KnownAgain
<1>17. Restore!OriginalKept'
  BY <1>11, <1>12, <1>15 DEF Restore!OriginalKept
<1>18. ASSUME ~s6'.met
       PROVE  /\ \A b \in Restore!Actors : b # u => s5[b].at = "idle"
              /\ \A g \in {s1'.staged, s1'.incoming} \ {0} : g # s1'.live /\ g # s4'.on
              /\ s1'.staged # 0 => s1'.staged # s1'.incoming
              /\ Restore!OwnsItsFile(u)'
              /\ s1'.live # 0 /\ Restore!Own(s1.live, s6.last)'
              /\ s4'.up => Restore!Usable(s4.on)'
  <2>1. Restore!Undisturbed
    BY <1>12, <1>18
  <2>2. \A b \in Restore!Actors : s5[b].at = "idle"
    BY <1>12, <1>18
  <2>3. f # s1.live /\ f # s4.on /\ f # s1.incoming /\ f # 0
    <3>1. CASE s1.staged = 0
      BY <1>8, <3>1, RestoreWords DEF Restore!Free, Restore!Named, Restore!Open
    <3>2. CASE s1.staged # 0
      BY <1>2, <2>1, <3>2 DEF Restore!Undisturbed
    <3>3. QED
      BY <3>1, <3>2
  <2>4. ~t
    BY <1>3, <2>2, RestoreWords
  <2>5. Restore!OwnsItsFile(u)'
    <3>1. /\ s1'[Restore!Source(u)] = f /\ s2'[f].by = {} /\ ~s2'[f].torn /\ f # 0
      BY <1>9, <1>10, <1>15, <2>3, <2>4, RestoreWords
    <3>2. QED
      BY <1>11, <3>1 DEF Restore!OwnsItsFile, Restore!Source
  <2>6. Restore!Installing = {}
    BY <2>2 DEF Restore!Installing
  <2>7. s1.live # 0 /\ s1.live \in Restore!Files /\ Restore!Own(s1.live, s6.last)
    BY <1>1, <2>1, <2>6 DEF Restore!Undisturbed, Restore!RestoreKnown, Restore!InFiles
  <2>8. Restore!Own(s1.live, s6.last)'
    BY <1>10, <1>12, <1>15, <2>3, <2>7 DEF Restore!Own
  <2>9. s4.on \in Restore!Files /\ s2'[s4.on] = s2[s4.on] /\ Restore!Usable(s4.on)
    BY <1>1, <1>6, <1>10, <2>1, <2>3 DEF Restore!RestoreKnown, Restore!Undisturbed
  <2>10. Restore!Usable(s4.on)'
    BY <1>6, <2>9 DEF Restore!Usable, Restore!Whole
  <2>11. QED
    BY <1>6, <1>15, <2>1, <2>2, <2>3, <2>5, <2>7, <2>8, <2>10 DEF Restore!Undisturbed
<1>19. QED
  BY <1>1, <1>11, <1>16, <1>17, <1>18, RestoreWords, OneWorks

(* An upload is written out.                                               *)
LEMMA UploadWritten ==
    ASSUME Restore!RestoreInv, NEW u \in RestoreUploads, Restore!CopyInto(u)
    PROVE  Restore!RestoreInv'
<1> USE DEF Restore!RestoreInv
<1>1. DiskKnown /\ WorkKnown /\ Restore!RestoreKnown /\ u \in Restore!Actors
  BY RestoreFacts, RestoreWords
<1>2. CASE Restore!Refused(u)
  BY <1>2, UploadRefused DEF Restore!CopyInto
<1>3. CASE ~Restore!Refused(u)
  <2>1. PICK f : f = s5[u].file
    OBVIOUS
  <2>2. PICK y : y = s5[u].good
    OBVIOUS
  <2>3. PICK by : by = s2[f].by \cup {u}
    OBVIOUS
  <2>4. PICK e : e = [s2[f] EXCEPT !.by = by]
    OBVIOUS
  <2>5. PICK d : d = [e EXCEPT !.good = y]
    OBVIOUS
  <2>6. PICK w : w = [Restore!Idle EXCEPT !.at = "written"]
    OBVIOUS
  <2>7. /\ s5[u].at = "writing" /\ s2' = [s2 EXCEPT ![f].by = @ \cup {u}, ![f].good = y]
        /\ s5' = [s5 EXCEPT ![u] = w] /\ UNCHANGED <<s1, s4, s6>>
    BY <1>3, <2>2, <2>1, <2>6 DEF Restore!CopyInto
  <2>8. s2' = [s2 EXCEPT ![f] = d]
    BY <1>1, <2>5, <2>7, <2>3, <2>4 DEF DiskKnown
  <2>9. /\ WorkKnown' /\ s5'[u].at = "written"
        /\ \A b \in Restore!Actors : b # u => s5'[b] = s5[b]
    <3>1. PICK t, g, o : Restore!Idle = [at |-> t, file |-> g, good |-> o]
      BY BlankFacts
    <3>2. w = [at |-> "written", file |-> g, good |-> o]
      BY <2>6, <3>1
    <3>3. w = [at |-> w.at, file |-> w.file, good |-> w.good] /\ w.at = "written"
      BY <3>2
    <3>4. QED
      BY <1>1, <2>7, <3>3, BecomesDoes
  <2>10. /\ f \in Restore!Files =>
              /\ d = [by |-> d.by, torn |-> d.torn, good |-> d.good, complete |-> d.complete]
              /\ d.by = s2[f].by \cup {u} /\ (d.torn <=> s2[f].torn)
    <3>1. SUFFICES ASSUME f \in Restore!Files
                   PROVE  /\ d = [by |-> d.by, torn |-> d.torn, good |-> d.good, complete |-> d.complete]
                          /\ d.by = s2[f].by \cup {u} /\ (d.torn <=> s2[f].torn)
      OBVIOUS
    <3>2. PICK b, t, o, k : s2[f] = [by |-> b, torn |-> t, good |-> o, complete |-> k]
      BY <1>1, <3>1 DEF DiskKnown
    <3>3. e = [by |-> by, torn |-> t, good |-> o, complete |-> k]
      BY <2>4, <3>2
    <3>4. d = [by |-> by, torn |-> t, good |-> y, complete |-> k]
      BY <2>5, <3>3
    <3>5. QED
      BY <2>3, <3>2, <3>4
  <2>11. /\ s2' = [g \in Restore!Files |-> s2'[g]] /\ (f \in Restore!Files => s2'[f] = d)
        /\ \A g \in Restore!Files : g # f => s2'[g] = s2[g]
    BY <1>1, <2>8 DEF DiskKnown
  <2>12. DiskKnown'
    BY <1>1, <2>10, <2>11 DEF DiskKnown
  <2>13. Restore!RestoreKnown'
    <3>1. /\ "written" \in Restore!Stages(u) /\ s4.up
          /\ s1' = [live |-> s1'.live, previous |-> s1'.previous, staged |-> s1'.staged,
                    incoming |-> s1'.incoming]
          /\ s1'.live \in Restore!Files \cup {0} /\ s1'.staged \in Restore!Files \cup {0}
          /\ s1'.incoming \in Restore!Files \cup {0}
          /\ s6' = [installs |-> s6'.installs, last |-> s6'.last, met |-> s6'.met]
          /\ s6'.installs \in Nat /\ s6'.last \in Restore!Actors \cup {Restore!Nobody}
      BY <1>1, <2>7, RestoreWords DEF Restore!RestoreKnown, Restore!InFiles, Restore!Stages
    <3>2. QED
      BY <1>1, <2>7, <2>9, <2>12, <3>1, KnownAgain
  <2>14. Restore!OriginalKept'
    BY <2>7, <2>9 DEF Restore!OriginalKept
  <2>15. ASSUME ~s6'.met
         PROVE  /\ \A b \in Restore!Actors : b # u => s5[b].at = "idle"
                /\ \A g \in {s1'.staged, s1'.incoming} \ {0} : g # s1'.live /\ g # s4'.on
                /\ s1'.staged # 0 => s1'.staged # s1'.incoming
                /\ Restore!OwnsItsFile(u)'
                /\ s1'.live # 0 /\ Restore!Own(s1.live, s6.last)'
                /\ s4'.up => Restore!Usable(s4.on)'
    <3>1. Restore!Undisturbed
      BY <2>7, <2>15
    <3>2. \A b \in Restore!Actors : b # u => s5[b].at = "idle"
      BY <1>1, <2>7, <3>1 DEF Restore!Undisturbed
    <3>3. s1.staged = f /\ f # 0 /\ s2[f].by = {} /\ ~s2[f].torn
      BY <1>1, <2>1, <2>7, <3>1, RestoreWords DEF Restore!Undisturbed, Restore!OwnsItsFile
    <3>4. f \in Restore!Files /\ f # s1.live /\ f # s4.on
      BY <1>1, <3>1, <3>3 DEF Restore!Undisturbed, Restore!RestoreKnown, Restore!InFiles
    <3>5. Restore!OwnsItsFile(u)'
      <4>1. s1'[Restore!Source(u)] = f /\ s2'[f].by = {u} /\ ~s2'[f].torn
        BY <2>7, <2>10, <2>11, <3>3, <3>4, RestoreWords
      <4>2. QED
        BY <2>9, <3>3, <4>1 DEF Restore!OwnsItsFile, Restore!Source
    <3>6. Restore!Installing = {}
      BY <2>7, <3>2 DEF Restore!Installing
    <3>7. s1.live # 0 /\ s1.live \in Restore!Files /\ Restore!Own(s1.live, s6.last)
      BY <1>1, <3>1, <3>6 DEF Restore!Undisturbed, Restore!RestoreKnown, Restore!InFiles
    <3>8. Restore!Own(s1.live, s6.last)'
      BY <2>7, <2>11, <3>4, <3>7 DEF Restore!Own
    <3>9. s4.up => s4.on \in Restore!Files /\ s2'[s4.on] = s2[s4.on] /\ Restore!Usable(s4.on)
      BY <1>1, <2>11, <3>1, <3>4 DEF Restore!RestoreKnown, Restore!Undisturbed
    <3>10. s4.up => Restore!Usable(s4.on)'
      BY <2>7, <3>9 DEF Restore!Usable, Restore!Whole
    <3>11. QED
      BY <2>7, <3>1, <3>2, <3>5, <3>7, <3>8, <3>10 DEF Restore!Undisturbed
  <2>16. QED
    BY <1>1, <2>9, <2>13, <2>14, <2>15, RestoreWords, OneWorks
<1>4. QED
  BY <1>2, <1>3

(* The live database is moved aside.                                       *)
LEMMA LiveSetAside ==
    ASSUME Restore!RestoreInv, NEW a \in Restore!Actors, Restore!SetAside(a)
    PROVE  Restore!RestoreInv'
<1> USE DEF Restore!RestoreInv
<1>1. DiskKnown /\ WorkKnown /\ Restore!RestoreKnown
  BY RestoreFacts
<1>2. /\ s5[a].at = "verified" /\ Restore!Goes(a, "aside") /\ UNCHANGED <<s2, s4>>
      /\ s1' = IF s1.live = 0 THEN s1 ELSE [s1 EXCEPT !.previous = s1.live, !.live = 0]
      /\ s6' = [s6 EXCEPT !.installs = @ + 1]
  BY DEF Restore!SetAside
<1>3. /\ WorkKnown' /\ s5'[a].at = "aside"
      /\ \A b \in Restore!Actors : b # a => s5'[b] = s5[b]
  BY <1>1, <1>2, GoesDoes
<1>4. PICK i, l, m : s6 = [installs |-> i, last |-> l, met |-> m]
  BY <1>1 DEF Restore!RestoreKnown
<1>5. s6' = [installs |-> i + 1, last |-> l, met |-> m]
  BY <1>2, <1>4
<1>6. /\ s6.installs \in Nat /\ s6'.installs = s6.installs + 1 /\ s6'.last = s6.last
      /\ (s6'.met <=> s6.met)
      /\ s6' = [installs |-> s6'.installs, last |-> s6'.last, met |-> s6'.met]
      /\ s6.last \in Restore!Actors \cup {Restore!Nobody}
  BY <1>1, <1>4, <1>5 DEF Restore!RestoreKnown
<1>7. PICK v, p, s, n : s1 = [live |-> v, previous |-> p, staged |-> s, incoming |-> n]
  BY <1>1 DEF Restore!RestoreKnown
<1>8. s1' = [live |-> 0, previous |-> IF v = 0 THEN p ELSE v, staged |-> s, incoming |-> n]
  BY <1>2, <1>7
<1>9. /\ s1'.live = 0 /\ s1'.staged = s1.staged /\ s1'.incoming = s1.incoming
      /\ s1.live # 0 => s1'.previous = s1.live
      /\ s1' = [live |-> s1'.live, previous |-> s1'.previous, staged |-> s1'.staged,
                incoming |-> s1'.incoming]
  BY <1>7, <1>8
<1>10. Restore!RestoreKnown'
  <2>0. "aside" \in Restore!Stages(a) /\ s6'.installs \in Nat
    BY <1>6 DEF Restore!Stages
  <2>1. s1.staged \in Restore!Files \cup {0} /\ s1.incoming \in Restore!Files \cup {0}
        /\ (a \in RestoreUploads => s4.up)
    BY <1>1, <1>2 DEF Restore!RestoreKnown, Restore!InFiles
  <2>2. DiskKnown'
    BY <1>1, <1>2, DiskStays
  <2>3. QED
    BY <1>1, <1>2, <1>3, <1>6, <1>9, <2>0, <2>1, <2>2, KnownAgain
<1>11. Restore!OriginalKept'
  <2>1. s6'.installs # 0 /\ (s6'.installs = 1 => s6.installs = 0)
    BY <1>6
  <2>2. s6'.installs = 1 => s1'.previous = Restore!Original
    BY <1>9, <2>1, RestoreWords DEF Restore!OriginalKept
  <2>3. QED
    BY <2>1, <2>2 DEF Restore!OriginalKept
<1>12. ASSUME ~s6'.met
       PROVE  /\ \A b \in Restore!Actors : b # a => s5[b].at = "idle"
              /\ a = RestoreCli => ~s4'.up
              /\ \A f \in {s1'.staged, s1'.incoming} \ {0} : f # s1'.live /\ f # s4'.on
              /\ s1'.staged # 0 => s1'.staged # s1'.incoming
              /\ Restore!OwnsItsFile(a)'
              /\ s4'.up => Restore!Usable(s4.on)'
  <2>1. Restore!Undisturbed
    BY <1>6, <1>12
  <2>2. Restore!OwnsItsFile(a)'
    <3>1. s1[Restore!Source(a)] # 0 /\ Restore!Own(s1[Restore!Source(a)], a)
      BY <1>2, <2>1 DEF Restore!Undisturbed, Restore!OwnsItsFile
    <3>2. s1'[Restore!Source(a)] = s1[Restore!Source(a)]
      BY <1>9, RestoreWords
    <3>3. QED
      BY <1>2, <1>3, <3>1, <3>2 DEF Restore!OwnsItsFile, Restore!Own, Restore!Source
  <2>3. QED
    BY <1>2, <1>9, <2>1, <2>2 DEF Restore!Undisturbed, Restore!Usable, Restore!Whole
<1>13. QED
  BY <1>3, <1>10, <1>11, <1>12, OneWorks

(* The new database is put in its place.                                   *)
LEMMA NewPlaced ==
    ASSUME Restore!RestoreInv, NEW a \in Restore!Actors, Restore!Place(a)
    PROVE  Restore!RestoreInv'
<1> USE DEF Restore!RestoreInv
<1>1. DiskKnown /\ WorkKnown /\ Restore!RestoreKnown
  BY RestoreFacts
<1>2. PICK f : f = s1[Restore!Source(a)]
  OBVIOUS
<1>3. /\ s5[a].at = "cleared" /\ f # 0 /\ Restore!Goes(a, "placed") /\ UNCHANGED <<s2, s4>>
      /\ s1' = [s1 EXCEPT !.live = f, ![Restore!Source(a)] = 0]
      /\ s6' = [s6 EXCEPT !.last = a]
  BY <1>2 DEF Restore!Place
<1>4. /\ WorkKnown' /\ s5'[a].at = "placed"
      /\ \A b \in Restore!Actors : b # a => s5'[b] = s5[b]
  BY <1>1, <1>3, GoesDoes
<1>5. PICK i, l, m : s6 = [installs |-> i, last |-> l, met |-> m]
  BY <1>1 DEF Restore!RestoreKnown
<1>6. s6' = [installs |-> i, last |-> a, met |-> m]
  BY <1>3, <1>5
<1>7. /\ s6.installs \in Nat /\ s6'.installs = s6.installs /\ s6'.last = a
      /\ (s6'.met <=> s6.met)
      /\ s6' = [installs |-> s6'.installs, last |-> s6'.last, met |-> s6'.met]
  BY <1>1, <1>5, <1>6 DEF Restore!RestoreKnown
<1>8. PICK v, p, s, n : s1 = [live |-> v, previous |-> p, staged |-> s, incoming |-> n]
  BY <1>1 DEF Restore!RestoreKnown
<1>9. \/ /\ a = RestoreCli /\ f = n
         /\ s1' = [live |-> f, previous |-> p, staged |-> s, incoming |-> 0]
      \/ /\ a # RestoreCli /\ f = s
         /\ s1' = [live |-> f, previous |-> p, staged |-> 0, incoming |-> n]
  <2>1. CASE a = RestoreCli
    <3>1. f = s1["incoming"] /\ s1' = [s1 EXCEPT !.live = f, !["incoming"] = 0]
      BY <1>2, <1>3, <2>1, RestoreWords
    <3>2. QED
      BY <1>8, <2>1, <3>1
  <2>2. CASE a # RestoreCli
    <3>1. Restore!Source(a) = "staged"
      BY <2>2, RestoreWords
    <3>2. f = s1["staged"] /\ s1' = [s1 EXCEPT !.live = f, !["staged"] = 0]
      BY <1>2, <1>3, <3>1
    <3>3. QED
      BY <1>8, <2>2, <3>2
  <2>3. QED
    BY <2>1, <2>2
<1>10. /\ s1'.live = f /\ s1'.previous = s1.previous
       /\ \/ f = s1.incoming /\ s1'.staged = s1.staged /\ s1'.incoming = 0
          \/ f = s1.staged /\ s1'.staged = 0 /\ s1'.incoming = s1.incoming
       /\ s1' = [live |-> s1'.live, previous |-> s1'.previous, staged |-> s1'.staged,
                 incoming |-> s1'.incoming]
  BY <1>8, <1>9
<1>11. Restore!RestoreKnown'
  <2>1. /\ "placed" \in Restore!Stages(a) /\ s1.staged \in Restore!Files \cup {0}
        /\ s1.incoming \in Restore!Files \cup {0} /\ (a \in RestoreUploads => s4.up)
        /\ s6'.last \in Restore!Actors \cup {Restore!Nobody}
    BY <1>1, <1>3, <1>7 DEF Restore!RestoreKnown, Restore!InFiles, Restore!Stages
  <2>2. /\ s1'.live \in Restore!Files \cup {0} /\ s1'.staged \in Restore!Files \cup {0}
        /\ s1'.incoming \in Restore!Files \cup {0}
    BY <1>10, <2>1
  <2>3. DiskKnown'
    BY <1>1, <1>3, DiskStays
  <2>4. QED
    BY <1>1, <1>3, <1>4, <1>7, <1>10, <2>1, <2>2, <2>3, KnownAgain
<1>12. Restore!OriginalKept'
  <2>1. s6.installs # 0
    BY <1>3 DEF Restore!OriginalKept
  <2>2. QED
    BY <1>7, <1>10, <2>1 DEF Restore!OriginalKept
<1>13. ASSUME ~s6'.met
       PROVE  /\ \A b \in Restore!Actors : b # a => s5[b].at = "idle"
              /\ \A g \in {s1'.staged, s1'.incoming} \ {0} : g # s1'.live /\ g # s4'.on
              /\ s1'.staged # 0 => s1'.staged # s1'.incoming
              /\ s1'.live # 0 /\ Restore!Own(s1.live, s6.last)'
              /\ s4'.up => Restore!Usable(s4.on)'
  <2>1. Restore!Undisturbed
    BY <1>7, <1>13
  <2>2. Restore!Own(f, a)
    BY <1>2, <1>3, <2>1 DEF Restore!Undisturbed, Restore!OwnsItsFile
  <2>3. Restore!Own(s1.live, s6.last)'
    BY <1>3, <1>7, <1>10, <2>2 DEF Restore!Own
  <2>4. s1'.staged # 0 => s1'.staged # s1'.incoming
    BY <1>10, <2>1 DEF Restore!Undisturbed
  <2>5. \A g \in {s1'.staged, s1'.incoming} \ {0} : g # s1'.live /\ g # s4'.on
    BY <1>3, <1>10, <2>1 DEF Restore!Undisturbed
  <2>6. \A b \in Restore!Actors : b # a => s5[b].at = "idle"
    BY <1>3, <2>1 DEF Restore!Undisturbed
  <2>7. s4'.up => Restore!Usable(s4.on)'
    BY <1>3, <2>1 DEF Restore!Undisturbed, Restore!Usable, Restore!Whole
  <2>8. QED
    BY <1>3, <1>10, <2>3, <2>4, <2>5, <2>6, <2>7
<1>14. Restore!OwnsItsFile(a)'
  BY <1>4 DEF Restore!OwnsItsFile
<1>15. QED
  BY <1>4, <1>11, <1>12, <1>13, <1>14, OneWorks

(* The command copies the backup beside the live database.                 *)
LEMMA CommandCopies ==
    ASSUME Restore!RestoreInv, Restore!CliCopy
    PROVE  Restore!RestoreInv'
<1> USE DEF Restore!RestoreInv
<1> DEFINE c == RestoreCli
<1>1. DiskKnown /\ WorkKnown /\ Restore!RestoreKnown /\ c \in Restore!Actors
  BY RestoreFacts, RestoreWords
<1>2. PICK f : f = IF s1.incoming = 0 THEN Restore!NewFile ELSE s1.incoming
  OBVIOUS
<1>3. PICK y : y = TRUE
  OBVIOUS
<1>4. PICK d : d = [Restore!Blank EXCEPT !.by = {c}, !.good = y]
  OBVIOUS
<1>5. /\ s5[c].at = "stopped" /\ (s1.incoming = 0 => Restore!Free # {})
      /\ s1' = [s1 EXCEPT !.incoming = f] /\ s2' = [s2 EXCEPT ![f] = d]
      /\ Restore!Goes(c, "verified") /\ UNCHANGED <<s4, s6>>
  BY <1>2, <1>3, <1>4 DEF Restore!CliCopy
<1>6. f \in Restore!Files /\ (s1.incoming = 0 => f \in Restore!Free)
  <2>1. s1.incoming = 0 => f \in Restore!Free
    BY <1>2, <1>5, FreshFile
  <2>2. s1.incoming \in Restore!Files \cup {0}
    BY <1>1 DEF Restore!RestoreKnown, Restore!InFiles
  <2>3. QED
    BY <1>2, <2>1, <2>2 DEF Restore!Free
<1>7. /\ d = [by |-> d.by, torn |-> d.torn, good |-> d.good, complete |-> d.complete]
      /\ d.by = {c} /\ ~d.torn /\ d.good
  BY <1>3, <1>4, BlankFacts
<1>8. /\ DiskKnown' /\ s2'[f] = d
      /\ \A g \in Restore!Files : g # f => s2'[g] = s2[g]
  BY <1>1, <1>5, <1>6, <1>7, WritesOne
<1>9. /\ WorkKnown' /\ s5'[c].at = "verified"
      /\ \A b \in Restore!Actors : b # c => s5'[b] = s5[b]
  BY <1>1, <1>5, GoesDoes
<1>10. PICK l, p, s, i : s1 = [live |-> l, previous |-> p, staged |-> s, incoming |-> i]
  BY <1>1 DEF Restore!RestoreKnown
<1>11. s1' = [live |-> l, previous |-> p, staged |-> s, incoming |-> f]
  BY <1>5, <1>10
<1>12. /\ s1'.live = s1.live /\ s1'.previous = s1.previous /\ s1'.staged = s1.staged
       /\ s1'.incoming = f
       /\ s1' = [live |-> s1'.live, previous |-> s1'.previous, staged |-> s1'.staged,
                 incoming |-> s1'.incoming]
  BY <1>10, <1>11
<1>13. Restore!RestoreKnown'
  <2>1. /\ "verified" \in Restore!Stages(c) /\ s1.live \in Restore!Files \cup {0}
        /\ s1.staged \in Restore!Files \cup {0} /\ s6.installs \in Nat
        /\ s6.last \in Restore!Actors \cup {Restore!Nobody}
        /\ s6' = [installs |-> s6'.installs, last |-> s6'.last, met |-> s6'.met]
        /\ c \notin RestoreUploads
    BY <1>1, <1>5, RestoreWords DEF Restore!RestoreKnown, Restore!InFiles, Restore!Stages
  <2>2. QED
    BY <1>1, <1>5, <1>6, <1>8, <1>9, <1>12, <2>1, KnownAgain
<1>14. Restore!OriginalKept'
  BY <1>5, <1>9, <1>12 DEF Restore!OriginalKept
<1>15. ASSUME ~s6'.met
       PROVE  /\ \A b \in Restore!Actors : b # c => s5[b].at = "idle"
              /\ ~s4'.up
              /\ \A g \in {s1'.staged, s1'.incoming} \ {0} : g # s1'.live /\ g # s4'.on
              /\ s1'.staged # 0 => s1'.staged # s1'.incoming
              /\ Restore!OwnsItsFile(c)'
              /\ s1'.live # 0 /\ Restore!Own(s1.live, s6.last)'
  <2>1. Restore!Undisturbed
    BY <1>5, <1>15
  <2>2. f # s1.live /\ f # s4.on /\ f # s1.staged /\ f # 0
    <3>1. CASE s1.incoming = 0
      BY <1>6, <3>1, RestoreWords DEF Restore!Free, Restore!Named, Restore!Open
    <3>2. CASE s1.incoming # 0
      BY <1>2, <2>1, <3>2 DEF Restore!Undisturbed
    <3>3. QED
      BY <3>1, <3>2
  <2>3. Restore!OwnsItsFile(c)'
    <3>1. s1'[Restore!Source(c)] = f /\ s2'[f].by = {c} /\ ~s2'[f].torn /\ s2'[f].good
      BY <1>7, <1>8, <1>12, RestoreWords
    <3>2. QED
      BY <1>9, <2>2, <3>1 DEF Restore!OwnsItsFile, Restore!Own, Restore!Source
  <2>4. \A b \in Restore!Actors : b # c => s5[b].at = "idle"
    BY <1>1, <1>5, <2>1 DEF Restore!Undisturbed
  <2>5. Restore!Installing = {}
    BY <1>5, <2>4 DEF Restore!Installing
  <2>6. s1.live # 0 /\ s1.live \in Restore!Files /\ Restore!Own(s1.live, s6.last)
    BY <1>1, <2>1, <2>5 DEF Restore!Undisturbed, Restore!RestoreKnown, Restore!InFiles
  <2>7. Restore!Own(s1.live, s6.last)'
    BY <1>5, <1>8, <1>12, <2>2, <2>6 DEF Restore!Own
  <2>8. ~s4.up
    BY <1>5, <2>1 DEF Restore!Undisturbed
  <2>9. QED
    BY <1>5, <1>12, <2>1, <2>2, <2>3, <2>4, <2>6, <2>7, <2>8 DEF Restore!Undisturbed
<1>16. QED
  BY <1>1, <1>9, <1>13, <1>14, <1>15, OneWorks

LEMMA RestoreKeeps ==
    ASSUME Restore!RestoreInv, [Restore!Next]_(Restore!vars)
    PROVE  Restore!RestoreInv'
<1>1. DiskKnown /\ WorkKnown /\ Restore!RestoreKnown
  BY RestoreFacts DEF Restore!RestoreInv
<1>2. ASSUME NEW u \in RestoreUploads, NEW good \in BOOLEAN, Restore!Stage(u, good)
      PROVE  Restore!RestoreInv'
  BY <1>2, UploadBegins
<1>3. ASSUME NEW u \in RestoreUploads, Restore!CopyInto(u) PROVE Restore!RestoreInv'
  BY <1>3, UploadWritten
<1>4. ASSUME NEW u \in RestoreUploads, Restore!Verify(u) PROVE Restore!RestoreInv'
  <2>1. CASE Restore!Goes(u, "verified") /\ UNCHANGED <<s1, s2, s4, s6>>
    BY <1>4, <2>1, RestoreAdvances
  <2>2. CASE Restore!Refused(u)
    BY <1>4, <2>2, UploadRefused DEF Restore!Verify
  <2>3. QED
    BY <1>4, <2>1, <2>2 DEF Restore!Verify
<1>5. ASSUME NEW u \in RestoreUploads, Restore!Answer(u) PROVE Restore!RestoreInv'
  BY <1>5, RestoreAnswers, RestoreWords
<1>6. ASSUME NEW a \in Restore!Actors,
             Restore!SetAside(a) \/ Restore!ClearLog(a) \/ Restore!Place(a) \/ Restore!NotThere(a)
      PROVE  Restore!RestoreInv'
  BY <1>6, LiveSetAside, RestoreAdvances, NewPlaced, RestoreAnswers
<1>7. CASE \/ Restore!Commit \/ Restore!Checkpoint \/ Restore!Stop \/ Restore!Crash \/ Restore!Start
           \/ Restore!CliVerify \/ Restore!CliStop \/ Restore!CliCopy \/ Restore!CliStart
           \/ Restore!CliKilled
  BY <1>7, PanelWorks, PanelStops, PanelStarts, RestoreAdvances, CommandCopies, RestoreAnswers,
     RestoreWords
<1>8. CASE UNCHANGED <<s1, s2, s3, s4, s5, s6>>
  <2>1. SameBytes /\ DiskKnown' /\ WorkKnown'
    BY <1>1, <1>8, DiskStays DEF WorkKnown
  <2>2. \A u \in RestoreUploads : s5'[u].at # "idle" => s4'.up
    BY <1>1, <1>8, RestoreFacts
  <2>3. QED
    BY <1>1, <1>8, <2>1, <2>2, RestoreFacts, Calms
<1>9. QED
  BY <1>2, <1>3, <1>4, <1>5, <1>6, <1>7, <1>8 DEF Restore!Next, Restore!vars

LEMMA RestoreStays == Restore!RestoreInv => Restore!RestoreIsSafe
<1> SUFFICES ASSUME Restore!RestoreInv PROVE Restore!RestoreIsSafe
  OBVIOUS
<1> USE DEF Restore!RestoreInv
<1>1. s6.installs < 2 => Restore!Original \in {s1.live, s1.previous}
  <2>1. s6.installs \in Nat
    BY DEF Restore!RestoreKnown
  <2>2. s6.installs < 2 => s6.installs = 0 \/ s6.installs = 1
    BY <2>1
  <2>3. QED
    BY <2>2 DEF Restore!OriginalKept
<1>2. ASSUME ~s6.met, Restore!Installing = {}
      PROVE  s1.live # 0 /\ Restore!Usable(s1.live) /\ s2[s1.live].by = {s6.last}
  <2>1. s1.live # 0 /\ Restore!Own(s1.live, s6.last)
    BY <1>2 DEF Restore!Undisturbed
  <2>2. s6.last \in Restore!Actors \cup {Restore!Nobody}
    BY DEF Restore!RestoreKnown
  <2>3. QED
    BY <2>1, <2>2 DEF Restore!Own, Restore!Usable, Restore!Whole
<1>3. ~s6.met /\ s4.up => Restore!Usable(s4.on)
  BY DEF Restore!Undisturbed
<1>4. QED
  BY <1>1, <1>2, <1>3 DEF Restore!RestoreIsSafe

-----------------------------------------------------------------------------
(* A set of naturals that is not empty has a least one.                    *)
LEMMA NatMin == ASSUME NEW T \in SUBSET Nat, T # {} PROVE \E m \in T : \A k \in T : m <= k
<1>1. PICK R : R = OpToRel(<, Nat)
  OBVIOUS
<1>2. IsWellFoundedOn(R, Nat)
  BY <1>1, NatLessThanWellFounded
<1>3. PICK m \in T : \A k \in T : ~(<<k, m>> \in R)
  BY <1>2, WFMin
<1>4. \A x, y \in Nat : <<y, x>> \in R <=> y < x
  BY <1>1 DEF OpToRel
<1>5. ASSUME NEW k \in T PROVE m <= k
  <2>1. k \in Nat /\ m \in Nat /\ ~(k < m)
    BY <1>3, <1>4
  <2>2. QED
    BY <2>1
<1>6. QED
  BY <1>5

(* The powers of two, from the number of subsets of a set.                 *)
LEMMA SubsetsOfSome == \A n \in Nat : Cardinality(SUBSET (1..n)) = 2^n /\ IsFiniteSet(SUBSET (1..n))
<1>1. ASSUME NEW n \in Nat PROVE Cardinality(SUBSET (1..n)) = 2^n /\ IsFiniteSet(SUBSET (1..n))
  <2>1. IsFiniteSet(1..n) /\ Cardinality(1..n) = n
    BY FS_Interval
  <2>2. QED
    BY <2>1, FS_SUBSET
<1>2. QED
  BY <1>1

LEMMA PowersCount == 2^0 = 1 /\ \A n \in Nat : 2^n \in Nat /\ 2^(n + 1) = 2 * 2^n
<1>1. \A n \in Nat : 2^n \in Nat
  BY SubsetsOfSome, FS_CardinalityType
<1>2. 2^0 = 1
  <2>1. SUBSET (1..0) = {{}}
    OBVIOUS
  <2>2. QED
    BY <2>1, SubsetsOfSome, FS_Singleton
<1>3. ASSUME NEW n \in Nat PROVE 2^(n + 1) = 2 * 2^n
  <2>1. PICK A, B, C : /\ A = SUBSET (1..n) /\ B = SUBSET (1..(n + 1))
                       /\ C = {X \cup {n + 1} : X \in A}
    OBVIOUS
  <2>2. B = A \cup C
    <3>1. ASSUME NEW X \in B, n + 1 \notin X PROVE X \in A
      BY <2>1, <3>1
    <3>2. ASSUME NEW X \in B, n + 1 \in X PROVE X \in C
      <4>1. X \ {n + 1} \in A /\ X = (X \ {n + 1}) \cup {n + 1}
        BY <2>1, <3>2
      <4>2. QED
        BY <2>1, <4>1
    <3>3. A \subseteq B
      BY <2>1
    <3>4. ASSUME NEW X \in A PROVE X \cup {n + 1} \in B
      BY <2>1
    <3>5. C \subseteq B
      BY <2>1, <3>4
    <3>6. B \subseteq A \cup C
      BY <3>1, <3>2
    <3>7. QED
      BY <3>3, <3>5, <3>6
  <2>3. A \cap C = {}
    BY <2>1
  <2>4. /\ IsFiniteSet(A) /\ Cardinality(A) = 2^n
        /\ IsFiniteSet(B) /\ Cardinality(B) = 2^(n + 1)
    <3>1. n + 1 \in Nat
      OBVIOUS
    <3>2. QED
      BY <2>1, <3>1, SubsetsOfSome
  <2>5. IsFiniteSet(C) /\ Cardinality(C) = 2^n
    <3>1. PICK f : f = [X \in A |-> X \cup {n + 1}]
      OBVIOUS
    <3>2. f \in Surjection(A, C)
      BY <2>1, <3>1 DEF Surjection
    <3>3. ASSUME NEW X \in A, NEW Y \in A, f[X] = f[Y] PROVE X = Y
      <4>1. f[X] \ {n + 1} = X /\ f[Y] \ {n + 1} = Y
        BY <2>1, <3>1
      <4>2. QED
        BY <3>3, <4>1
    <3>4. f \in Injection(A, C)
      BY <3>2, <3>3 DEF Injection, IsInjective, Surjection
    <3>5. QED
      BY <2>4, <3>2, <3>4, FS_Surjection
  <2>6. Cardinality(B) = 2^n + 2^n
    <3>1. Cardinality(A \cap C) = 0
      BY <2>3, FS_EmptySet
    <3>2. Cardinality(A \cup C) = Cardinality(A) + Cardinality(C) - Cardinality(A \cap C)
      BY <2>4, <2>5, FS_Union
    <3>3. 2^n \in Nat
      BY <1>1
    <3>4. QED
      BY <2>2, <2>4, <2>5, <3>1, <3>2, <3>3
  <2>7. 2^n \in Nat
    BY <1>1
  <2>8. QED
    BY <2>4, <2>6, <2>7
<1>4. QED
  BY <1>1, <1>2, <1>3

(* What holds of every power but fails of a sum fails of a least one.      *)
LEMMA PowersAdd == \A a, b \in Nat : 2^(a + b) = 2^a * 2^b
<1> SUFFICES ASSUME NEW a \in Nat PROVE \A b \in Nat : 2^(a + b) = 2^a * 2^b
  OBVIOUS
<1>1. SUFFICES ASSUME NEW T, T = {b \in Nat : 2^(a + b) # 2^a * 2^b}, T # {} PROVE FALSE
  OBVIOUS
<1>2. PICK m \in T : \A k \in T : m <= k
  BY <1>1, NatMin
<1>3. m # 0
  <2>1. 2^(a + m) # 2^a * 2^m
    BY <1>1
  <2>2. 2^a = 2^a * 1 /\ a + 0 = a /\ 2^0 = 1
    BY PowersCount
  <2>3. QED
    BY <2>1, <2>2
<1>4. m - 1 \in Nat /\ m - 1 \notin T /\ m \in Nat
  BY <1>1, <1>2, <1>3
<1>5. 2^(a + (m - 1)) = 2^a * 2^(m - 1)
  BY <1>1, <1>4
<1>6. a + (m - 1) \in Nat /\ (a + (m - 1)) + 1 = a + m /\ (m - 1) + 1 = m
  BY <1>4
<1>7. 2^(a + m) = 2 * 2^(a + (m - 1)) /\ 2^m = 2 * 2^(m - 1)
  BY <1>4, <1>6, PowersCount
<1>8. 2^(m - 1) \in Nat /\ 2^a \in Nat
  BY <1>4, PowersCount
<1>9. 2^(a + m) = 2^a * 2^m
  <2>1. PICK x, y : x = 2^a /\ y = 2^(m - 1)
    OBVIOUS
  <2>2. x \in Nat /\ y \in Nat /\ 2 * (x * y) = x * (2 * y)
    BY <1>8, <2>1
  <2>3. QED
    BY <1>5, <1>7, <2>1, <2>2
<1>10. QED
  BY <1>1, <1>2, <1>9

LEMMA PowersGrow ==
    /\ \A n \in Nat : 2^n \in Nat \ {0}
    /\ \A a, b \in Nat : a <= b => 2^a <= 2^b
    /\ \A n \in Nat \ {0} : 2^n >= 2
<1>1. \A n \in Nat : 2^n \in Nat \ {0}
  <2> PICK T : T = {b \in Nat : 2^b = 0}
    OBVIOUS
  <2>1. SUFFICES ASSUME T # {} PROVE FALSE
    BY PowersCount
  <2>2. PICK m \in T : \A k \in T : m <= k
    BY <2>1, NatMin
  <2>3. m # 0
    <3>1. 2^m = 0
      OBVIOUS
    <3>2. m = 0 => 2^m = 2^0
      OBVIOUS
    <3>3. QED
      BY <3>1, <3>2, PowersCount
  <2>4. m - 1 \in Nat /\ m - 1 \notin T /\ m \in Nat /\ (m - 1) + 1 = m
    BY <2>1, <2>2, <2>3
  <2>5. 2^m = 2 * 2^(m - 1) /\ 2^(m - 1) \in Nat /\ 2^(m - 1) # 0
    BY <2>1, <2>4, PowersCount
  <2>6. QED
    BY <2>1, <2>2, <2>5
<1>2. ASSUME NEW a \in Nat, NEW b \in Nat, a <= b PROVE 2^a <= 2^b
  <2>1. b - a \in Nat /\ a + (b - a) = b
    BY <1>2
  <2>2. 2^b = 2^a * 2^(b - a)
    BY <2>1, PowersAdd
  <2>3. PICK x, y : x = 2^a /\ y = 2^(b - a)
    OBVIOUS
  <2>4. x \in Nat \ {0} /\ y \in Nat \ {0}
    BY <1>1, <2>1, <2>3
  <2>5. x <= x * y
    BY <2>4
  <2>6. QED
    BY <2>2, <2>3, <2>5
<1>3. ASSUME NEW n \in Nat \ {0} PROVE 2^n >= 2
  <2>1. n - 1 \in Nat /\ (n - 1) + 1 = n
    OBVIOUS
  <2>2. 2^n = 2 * 2^(n - 1) /\ 2^(n - 1) \in Nat \ {0}
    BY <1>1, <2>1, PowersCount
  <2>3. QED
    BY <2>2
<1>4. QED
  BY <1>1, <1>2, <1>3

(* Division: where the remainder is in range the quotient is the one.      *)
LEMMA Products ==
    ASSUME NEW s \in Nat \ {0}
    PROVE  /\ \A a, b \in Int : a * s < b * s => a < b
           /\ \A a, b \in Int : a < b => a * s + s <= b * s
           /\ \A a \in Nat : a * s \in Nat /\ a <= a * s
<1>1. ASSUME NEW a \in Int, NEW b \in Int, a < b PROVE a * s + s <= b * s
  <2>1. PICK d \in Nat : b = a + 1 + d
    <3>1. b - a - 1 \in Nat /\ b = a + 1 + (b - a - 1)
      BY <1>1
    <3>2. QED
      BY <3>1
  <2>2. b * s = a * s + s + d * s
    BY <2>1
  <2>3. d * s \in Nat
    OBVIOUS
  <2>4. a * s \in Int
    OBVIOUS
  <2>5. QED
    BY <2>2, <2>3, <2>4
<1>2. ASSUME NEW a \in Int, NEW b \in Int, a * s < b * s PROVE a < b
  <2>1. SUFFICES ASSUME b <= a PROVE FALSE
    OBVIOUS
  <2>2. b = a \/ b < a
    BY <2>1
  <2>3. b < a => b * s + s <= a * s
    BY <1>1
  <2>4. a * s \in Int /\ b * s \in Int
    OBVIOUS
  <2>5. QED
    BY <1>2, <2>2, <2>3, <2>4
<1>3. ASSUME NEW a \in Nat PROVE a * s \in Nat /\ a <= a * s
  OBVIOUS
<1>4. QED
  BY <1>1, <1>2, <1>3

LEMMA Divides ==
    ASSUME NEW s \in Nat \ {0}, NEW x \in Nat
    PROVE  /\ x \div s \in Nat /\ x % s \in 0..(s - 1) /\ x = ((x \div s) * s) + (x % s)
           /\ \A q \in Nat : q * s <= x /\ x < q * s + s => x \div s = q /\ x % s = x - q * s
<1>1. /\ x \div s \in Nat /\ x % s \in 0..(s - 1) /\ x = ((x \div s) * s) + (x % s)
  OBVIOUS
<1>2. ASSUME NEW q \in Nat, q * s <= x, x < q * s + s PROVE x \div s = q /\ x % s = x - q * s
  <2>1. PICK d, r : d = x \div s /\ r = x % s
    OBVIOUS
  <2>2. d \in Nat /\ r \in Nat /\ r < s /\ x = d * s + r /\ d * s \in Nat /\ q * s \in Nat
    BY <1>1, <2>1, Products
  <2>3. d < q => d * s + s <= q * s
    BY <2>2, Products
  <2>4. q < d => q * s + s <= d * s
    BY <2>2, Products
  <2>5. d = q
    BY <1>2, <2>2, <2>3, <2>4
  <2>6. QED
    BY <2>1, <2>2, <2>5
<1>3. QED
  BY <1>1, <1>2

-----------------------------------------------------------------------------
(* Addressing: family, len, pool, rows, foreign, request.                  *)
FamilyKnown ==
    /\ s1.bits \in Nat /\ s1.octet \in 0..s1.bits /\ s1.word \in Nat
    /\ s1.lens \subseteq 1..(s1.bits - 1) /\ s1.pools \subseteq 0..s1.bits
    /\ s1.octet > 0 => s1.bits < s1.word
    /\ \A l \in s1.lens, p \in s1.pools :
         /\ s1.bits - l + 1 < s1.word
         /\ p <= l => s1.bits - l + (IF l - p > AddressingMaxSpan THEN AddressingMaxSpan
                                     ELSE l - p) < s1.word

LEMMA FamilyIsKnown == ASSUME s1 \in AddressingFamilies PROVE FamilyKnown
BY AddressingAssumption DEF FamilyKnown

LEMMA SizeIs ==
    ASSUME FamilyKnown
    PROVE  /\ \A l \in 0..s1.bits : Addressing!Size(l) \in Nat \ {0}
           /\ \A w, l \in 0..s1.bits : w <= l =>
                Addressing!Size(w) = 2^(l - w) * Addressing!Size(l) /\ 2^(l - w) \in Nat \ {0}
           /\ \A l \in 1..(s1.bits - 1) : /\ Addressing!Size(l) >= 2
                                          /\ l # s1.bits - 1 => Addressing!Size(l) >= 4
<1> PICK b : b = s1.bits
  OBVIOUS
<1>1. b \in Nat
  BY DEF FamilyKnown
<1>2. \A l \in 0..b : 2^(b - l) \in Nat \ {0}
  BY <1>1, PowersGrow
<1>3. ASSUME NEW w \in 0..b, NEW l \in 0..b, w <= l
      PROVE  2^(b - w) = 2^(l - w) * 2^(b - l) /\ 2^(l - w) \in Nat \ {0}
  <2>1. l - w \in Nat /\ b - l \in Nat /\ (l - w) + (b - l) = b - w
    BY <1>1, <1>3
  <2>2. 2^((l - w) + (b - l)) = 2^(l - w) * 2^(b - l)
    BY <2>1, PowersAdd
  <2>3. QED
    BY <2>1, <2>2, PowersGrow
<1>4. ASSUME NEW l \in 1..(b - 1) PROVE 2^(b - l) >= 2 /\ (l # b - 1 => 2^(b - l) >= 4)
  <2>1. b - l \in Nat \ {0} /\ b - l - 1 \in Nat /\ (b - l - 1) + 1 = b - l
    BY <1>1
  <2>2. l # b - 1 => b - l - 1 \in Nat \ {0}
    BY <1>1
  <2>3. 2^(b - l) = 2 * 2^(b - l - 1) /\ 2^(b - l - 1) \in Nat
    BY <2>1, PowersCount
  <2>4. l # b - 1 => 2^(b - l - 1) >= 2
    BY <2>2, PowersGrow
  <2>5. 2^(b - l) >= 2
    BY <2>1, PowersGrow
  <2>6. QED
    BY <2>3, <2>4, <2>5
<1>5. QED
  BY <1>2, <1>3, <1>4 DEF Addressing!Size

(* A subnet is the aligned range its address is in.                        *)
LEMMA MaskedRange ==
    ASSUME FamilyKnown, NEW l \in 0..s1.bits, NEW f \in Nat
    PROVE  /\ Addressing!Size(l) \in Nat \ {0} /\ Addressing!Masked(f, l) \in Nat
           /\ \E q \in Nat : /\ Addressing!Masked(f, l) = q * Addressing!Size(l)
                             /\ q * Addressing!Size(l) <= f
                             /\ f < q * Addressing!Size(l) + Addressing!Size(l)
           /\ \A q \in Nat : /\ q * Addressing!Size(l) <= f
                             /\ f < q * Addressing!Size(l) + Addressing!Size(l)
                             => Addressing!Masked(f, l) = q * Addressing!Size(l)
<1> PICK s : s = Addressing!Size(l)
  OBVIOUS
<1>1. s \in Nat \ {0}
  BY SizeIs
<1>2. PICK d, r : d = f \div s /\ r = f % s
  OBVIOUS
<1>3. d \in Nat /\ r \in 0..(s - 1) /\ f = (d * s) + r /\ d * s \in Nat
  BY <1>1, <1>2, Divides, Products
<1>4. f - r = d * s /\ d * s <= f /\ f < d * s + s
  BY <1>1, <1>3
<1>5. \A q \in Nat : q * s <= f /\ f < q * s + s => f % s = f - q * s
  BY <1>1, Divides
<1>6. \A q \in Nat : q * s <= f /\ f < q * s + s => f - (f % s) = q * s
  <2>1. ASSUME NEW q \in Nat, q * s <= f, f < q * s + s PROVE f - (f % s) = q * s
    <3>1. f % s = f - q * s /\ q * s \in Nat
      BY <1>1, <1>5, <2>1, Products
    <3>2. QED
      BY <3>1
  <2>2. QED
    BY <2>1
<1>7. Addressing!Masked(f, l) = f - r
  BY <1>2 DEF Addressing!Masked
<1>8. QED
  BY <1>1, <1>2, <1>3, <1>4, <1>6, <1>7 DEF Addressing!Masked

LEMMA InsideWider ==
    ASSUME FamilyKnown, NEW l \in 0..s1.bits, NEW w \in 0..s1.bits, w <= l,
           NEW f \in Nat, NEW x \in Nat,
           Addressing!Masked(f, l) <= x, x < Addressing!Masked(f, l) + Addressing!Size(l)
    PROVE  Addressing!Masked(x, w) = Addressing!Masked(f, w)
<1> PICK s, t, c : s = Addressing!Size(l) /\ t = Addressing!Size(w) /\ c = 2^(l - w)
  OBVIOUS
<1>1. s \in Nat \ {0} /\ t \in Nat \ {0} /\ c \in Nat \ {0} /\ t = c * s
  BY SizeIs
<1>2. PICK q \in Nat : Addressing!Masked(f, l) = q * s /\ q * s <= f /\ f < q * s + s
  BY MaskedRange
<1>3. PICK k \in Nat : Addressing!Masked(f, w) = k * t /\ k * t <= f /\ f < k * t + t
  BY MaskedRange
<1>4. k * c \in Nat /\ k * t = (k * c) * s /\ k * t + t = (k * c + c) * s /\ k * c + c \in Nat
  BY <1>1
<1>5. (q + 1) * s = q * s + s /\ q * s \in Nat /\ k * t \in Nat
  BY <1>1
<1>6. k * c < q + 1
  <2> PICK u, v : u = (k * c) * s /\ v = (q + 1) * s
    OBVIOUS
  <2>1. u < v
    <3>1. u = k * t /\ v = q * s + s
      BY <1>4, <1>5
    <3>2. u <= f /\ f < v /\ u \in Nat /\ v \in Nat
      BY <1>1, <1>2, <1>3, <1>5, <3>1
    <3>3. QED
      BY <3>2
  <2>2. QED
    BY <1>1, <1>4, <2>1, Products
<1>7. q < k * c + c
  <2>1. q * s < (k * c + c) * s
    BY <1>1, <1>2, <1>3, <1>4, <1>5
  <2>2. QED
    BY <1>1, <1>4, <2>1, Products
<1>8. k * t <= q * s
  <2>1. k * c = q \/ k * c < q
    BY <1>4, <1>6
  <2>2. k * c < q => (k * c) * s + s <= q * s
    BY <1>1, <1>4, Products
  <2>3. QED
    BY <1>1, <1>4, <1>5, <2>1, <2>2
<1>9. q * s + s <= k * t + t
  BY <1>1, <1>4, <1>7, Products
<1>10. k * t <= x /\ x < k * t + t
  BY <1>1, <1>2, <1>5, <1>8, <1>9
<1>11. QED
  BY <1>3, <1>10, MaskedRange

(* The two addresses of a subnet are in it.                                *)
LEMMA EndsInside ==
    ASSUME FamilyKnown, NEW l \in 1..(s1.bits - 1), NEW f \in Nat, NEW side \in {"A", "B"}
    PROVE  /\ Addressing!Ends(f, l)[side] \in Nat
           /\ Addressing!Masked(f, l) <= Addressing!Ends(f, l)[side]
           /\ Addressing!Ends(f, l)[side] < Addressing!Masked(f, l) + Addressing!Size(l)
<1>1. l \in 0..s1.bits
  BY DEF FamilyKnown
<1>2. /\ Addressing!Masked(f, l) \in Nat /\ Addressing!Size(l) \in Nat /\ Addressing!Size(l) >= 2
      /\ l # s1.bits - 1 => Addressing!Size(l) >= 4
  BY <1>1, MaskedRange, SizeIs
<1>3. PICK a : a = Addressing!Masked(f, l) + (IF l = s1.bits - 1 THEN 0 ELSE 1)
  OBVIOUS
<1>4. Addressing!Ends(f, l) = [A |-> a, B |-> a + 1]
  BY <1>3 DEF Addressing!Ends
<1>5. Addressing!Ends(f, l)[side] = a \/ Addressing!Ends(f, l)[side] = a + 1
  BY <1>4
<1>6. QED
  BY <1>2, <1>3, <1>5

(* Subnets that do not overlap have no address in common.                  *)
LEMMA ApartEnds ==
    ASSUME FamilyKnown, NEW l \in 1..(s1.bits - 1), NEW k \in 1..(s1.bits - 1),
           NEW f \in Nat, NEW g \in Nat, ~Addressing!Overlap(f, l, g, k),
           NEW a \in {"A", "B"}, NEW b \in {"A", "B"}
    PROVE  Addressing!Ends(f, l)[a] # Addressing!Ends(g, k)[b]
<1> SUFFICES ASSUME Addressing!Ends(f, l)[a] = Addressing!Ends(g, k)[b] PROVE FALSE
  OBVIOUS
<1>1. PICK x, w : x = Addressing!Ends(f, l)[a] /\ w = (IF l < k THEN l ELSE k)
  OBVIOUS
<1>2. l \in 0..s1.bits /\ k \in 0..s1.bits /\ w \in 0..s1.bits /\ w <= l /\ w <= k
  BY <1>1 DEF FamilyKnown
<1>3. x \in Nat /\ Addressing!Masked(f, l) <= x /\ x < Addressing!Masked(f, l) + Addressing!Size(l)
  BY <1>1, EndsInside
<1>4. Addressing!Masked(g, k) <= x /\ x < Addressing!Masked(g, k) + Addressing!Size(k)
  BY <1>1, EndsInside
<1>5. Addressing!Masked(x, w) = Addressing!Masked(f, w)
  BY <1>2, <1>3, InsideWider
<1>6. Addressing!Masked(x, w) = Addressing!Masked(g, w)
  BY <1>2, <1>3, <1>4, InsideWider
<1>7. QED
  BY <1>1, <1>5, <1>6 DEF Addressing!Overlap

(* The counter does not wrap over what a pool holds.                       *)
LEMMA WrapLeaves ==
    ASSUME FamilyKnown, NEW x \in Nat, s1.word \in Nat \ {0}, x < 2^(s1.word - 1)
    PROVE  Addressing!Wrap(x) = x
<1> PICK h : h = 2^(s1.word - 1)
  OBVIOUS
<1>1. h \in Nat \ {0}
  BY PowersGrow
<1>2. (x + h) % (2 * h) = x + h
  <2>1. x + h \in Nat /\ 2 * h \in Nat \ {0} /\ 0 * (2 * h) <= x + h /\ x + h < 0 * (2 * h) + 2 * h
    BY <1>1
  <2>2. (x + h) % (2 * h) = (x + h) - 0 * (2 * h)
    BY <2>1, Divides
  <2>3. QED
    BY <1>1, <2>2
<1>3. QED
  BY <1>1, <1>2 DEF Addressing!Wrap

LEMMA StrideIs ==
    ASSUME FamilyKnown, NEW p, p.bits \in s1.pools, NEW l \in s1.lens, p.bits <= l
    PROVE  /\ Addressing!Stride(p, l) \in Nat \ {0}
           /\ Addressing!Capacity(p, l) \in Nat \ {0}
           /\ Addressing!Stride(p, l) * Addressing!Capacity(p, l) <= 2^(s1.word - 1)
           /\ s1.word \in Nat \ {0}
           /\ Addressing!OctetScheme(p, l) => Addressing!Stride(p, l) = 2^s1.octet
           /\ ~Addressing!OctetScheme(p, l) => Addressing!Stride(p, l) = Addressing!Size(l)
<1> PICK b, o, w, q, m : b = s1.bits /\ o = s1.octet /\ w = s1.word /\ q = p.bits
                         /\ m = AddressingMaxSpan
  OBVIOUS
<1>1. /\ b \in Nat /\ o \in 0..b /\ w \in Nat /\ q \in 0..b /\ l \in 1..(b - 1) /\ m \in Nat
      /\ b - l + 1 < w /\ q <= l /\ (o > 0 => b < w)
      /\ b - l + (IF l - q > m THEN m ELSE l - q) < w
  BY AddressingAssumption DEF FamilyKnown
<1>2. w \in Nat \ {0} /\ w - 1 \in Nat
  BY <1>1
<1>3. CASE Addressing!OctetScheme(p, l)
  <2>1. o > 0 /\ q < b - o /\ b < w
    BY <1>1, <1>3 DEF Addressing!OctetScheme, Addressing!Third
  <2>2. Addressing!Stride(p, l) = 2^o /\ Addressing!Capacity(p, l) = 2^(b - o - q)
    BY <1>3 DEF Addressing!Stride, Addressing!Capacity, Addressing!Third
  <2>3. o \in Nat /\ b - o - q \in Nat /\ o + (b - o - q) = b - q /\ b - q <= w - 1 /\ b - q \in Nat
    BY <1>1, <2>1
  <2>4. 2^o * 2^(b - o - q) = 2^(b - q) /\ 2^(b - q) <= 2^(w - 1)
    BY <1>2, <2>3, PowersAdd, PowersGrow
  <2>5. 2^o \in Nat \ {0} /\ 2^(b - o - q) \in Nat \ {0}
    BY <2>3, PowersGrow
  <2>6. QED
    BY <1>2, <1>3, <2>2, <2>4, <2>5
<1>4. CASE ~Addressing!OctetScheme(p, l)
  <2>1. PICK c : c = IF l - q > m THEN m ELSE l - q
    OBVIOUS
  <2>2. c \in Nat /\ b - l \in Nat /\ b - l + c <= w - 1 /\ b - l <= w - 2 /\ w - 2 \in Nat
        /\ b - l + c \in Nat
    BY <1>1, <2>1
  <2>3. Addressing!Capacity(p, l) = 2^c
    BY <1>4, <2>1 DEF Addressing!Capacity
  <2>4. 2^(b - l) * 2^c = 2^(b - l + c) /\ 2^(b - l + c) <= 2^(w - 1)
    BY <1>2, <2>2, PowersAdd, PowersGrow
  <2>5. 2^(b - l) \in Nat \ {0} /\ 2^c \in Nat \ {0}
    BY <2>2, PowersGrow
  <2>6. 2^(b - l) < 2^(w - 1)
    <3>1. 2^(b - l) <= 2^(w - 2) /\ 2^(w - 2) \in Nat \ {0} /\ (w - 2) + 1 = w - 1
      <4>1. PICK i, j : i = b - l /\ j = w - 2
        OBVIOUS
      <4>2. i \in Nat /\ j \in Nat /\ i <= j /\ (w - 2) + 1 = w - 1
        BY <1>1, <2>2, <4>1
      <4>3. 2^i <= 2^j /\ 2^j \in Nat \ {0}
        BY <4>2, PowersGrow
      <4>4. QED
        BY <4>1, <4>2, <4>3
    <3>2. 2^(w - 1) = 2 * 2^(w - 2)
      BY <2>2, <3>1, PowersCount
    <3>3. QED
      BY <2>5, <3>1, <3>2
  <2>7. Addressing!Size(l) = 2^(b - l)
    BY DEF Addressing!Size
  <2>8. Addressing!Wrap(Addressing!Size(l)) = Addressing!Size(l)
    BY <1>2, <2>5, <2>6, <2>7, WrapLeaves
  <2>9. Addressing!Stride(p, l) = 2^(b - l)
    BY <1>4, <2>7, <2>8 DEF Addressing!Stride
  <2>10. QED
    BY <1>2, <1>4, <2>3, <2>4, <2>5, <2>7, <2>9
<1>5. QED
  BY <1>3, <1>4

(* A number gives the subnet that many strides into the pool, and that     *)
(* subnet gives the number back.                                           *)
LEMMA NumberBack ==
    ASSUME FamilyKnown, NEW p, p.bits \in s1.pools, NEW l \in s1.lens, p.bits <= l,
           NEW n \in 0..(Addressing!Capacity(p, l) - 1)
    PROVE  /\ n * Addressing!Stride(p, l) \in Nat
           /\ Addressing!SubnetForNumber(p, l, n) =
                IF n * Addressing!Stride(p, l) < Addressing!Size(p.bits)
                THEN n * Addressing!Stride(p, l) ELSE Addressing!None
           /\ n * Addressing!Stride(p, l) < Addressing!Size(p.bits) =>
                Addressing!NumberForSubnet(p, n * Addressing!Stride(p, l), l) = n
<1> PICK s, c, h, z : /\ s = Addressing!Stride(p, l) /\ c = Addressing!Capacity(p, l)
                      /\ h = 2^(s1.word - 1) /\ z = Addressing!Size(p.bits)
  OBVIOUS
<1>1. s \in Nat \ {0} /\ c \in Nat \ {0} /\ s * c <= h /\ s1.word \in Nat \ {0} /\ h \in Nat \ {0}
  BY StrideIs, PowersGrow
<1>2. z \in Nat
  <2>1. p.bits \in 0..s1.bits
    BY DEF FamilyKnown
  <2>2. QED
    BY <2>1, SizeIs
<1>3. n \in Nat /\ n < c
  BY <1>1
<1>4. n * s \in Nat /\ n * s < h
  <2>1. n * s + s <= c * s
    BY <1>1, <1>3, Products
  <2>2. n * s \in Nat /\ c * s = s * c /\ s * c \in Nat
    BY <1>1, <1>3
  <2>3. QED
    BY <1>1, <2>1, <2>2
<1>5. Addressing!Wrap(n * s) = n * s
  BY <1>1, <1>4, WrapLeaves
<1>6. Addressing!SubnetForNumber(p, l, n) = IF n * s < z THEN n * s ELSE Addressing!None
  <2>1. PICK x : x = n * s
    OBVIOUS
  <2>2. x \in Nat /\ 0 <= x /\ Addressing!Wrap(n * s) = x
    BY <1>4, <1>5, <2>1
  <2>3. QED
    BY <2>1, <2>2 DEF Addressing!SubnetForNumber
<1>7. (n * s) \div s = n /\ (n * s) % s = 0
  <2>1. n * s <= n * s /\ n * s < n * s + s
    BY <1>1, <1>4
  <2>2. PICK x : x = n * s
    OBVIOUS
  <2>3. x \in Nat /\ n * s <= x /\ x < n * s + s
    BY <1>4, <2>1, <2>2
  <2>4. x \div s = n /\ x % s = x - n * s
    BY <1>1, <1>3, <2>3, Divides
  <2>5. QED
    BY <2>2, <2>3, <2>4
<1>8. n * s < z => Addressing!NumberForSubnet(p, n * s, l) = n
  <2>1. PICK x : x = n * s
    OBVIOUS
  <2>2. x \in Nat /\ x \div s = n /\ x % s = 0 /\ s # 0
    BY <1>1, <1>4, <1>7, <2>1
  <2>3. x < z => Addressing!NumberForSubnet(p, x, l) = n
    BY <1>2, <2>2 DEF Addressing!NumberForSubnet
  <2>4. QED
    BY <2>1, <2>3
<1>9. QED
  BY <1>4, <1>6, <1>8

(* Every place a subnet may start at has a number.                         *)
LEMMA PlaceHasNumber ==
    ASSUME Addressing!AddressingInv, FamilyKnown, Addressing!Shaped(s3, s2),
           NEW f \in Addressing!Places
    PROVE  \E n \in Addressing!Numbers : /\ Addressing!SubnetForNumber(s3, s2, n) = f
                                         /\ Addressing!NumberForSubnet(s3, f, s2) = n
<1> PICK s, c, z : /\ s = Addressing!Stride(s3, s2) /\ c = Addressing!Capacity(s3, s2)
                   /\ z = Addressing!Size(s3.bits)
  OBVIOUS
<1>1. s3.bits \in s1.pools /\ s2 \in s1.lens /\ s3.bits <= s2
  BY DEF Addressing!AddressingInv, Addressing!Shaped
<1>2. /\ s1.bits \in Nat /\ s1.octet \in 0..s1.bits /\ s3.bits \in 0..s1.bits
      /\ s2 \in 1..(s1.bits - 1) /\ s2 \in 0..s1.bits
  BY <1>1 DEF FamilyKnown
<1>3. s \in Nat \ {0} /\ c \in Nat \ {0} /\ z \in Nat \ {0}
  BY <1>1, <1>2, StrideIs, SizeIs
<1>4. f \in Nat /\ f < z
  BY <1>3 DEF Addressing!Places
<1>5. PICK n : n = f \div s
  OBVIOUS
<1>6. ASSUME f % s = 0 PROVE n \in Nat /\ f = n * s /\ (f > 0 => n >= 1)
  <2>1. n \in Nat /\ f = (n * s) + (f % s) /\ n * s \in Nat
    BY <1>3, <1>4, <1>5, Divides, Products
  <2>2. f = n * s
    BY <1>6, <2>1
  <2>3. n = 0 => n * s = 0
    BY <1>3
  <2>4. QED
    BY <2>1, <2>2, <2>3
<1>7. f % s = 0 /\ n < c /\ (Addressing!OctetScheme(s3, s2) => f > 0)
  <2>1. CASE Addressing!OctetScheme(s3, s2)
    <3>1. s = 2^s1.octet
      BY <1>1, <2>1, StrideIs
    <3>2. f > 0 /\ f % s = 0
      BY <2>1, <3>1 DEF Addressing!Places
    <3>3. c = 2^(s1.bits - s1.octet - s3.bits)
      BY <2>1 DEF Addressing!Capacity, Addressing!Third
    <3>4. z = c * s
      <4>1. /\ s1.octet \in Nat /\ s1.bits - s1.octet - s3.bits \in Nat
            /\ s1.octet + (s1.bits - s1.octet - s3.bits) = s1.bits - s3.bits
        BY <1>2, <2>1 DEF Addressing!OctetScheme, Addressing!Third
      <4>2. 2^(s1.octet + (s1.bits - s1.octet - s3.bits)) = s * c
        BY <3>1, <3>3, <4>1, PowersAdd
      <4>3. z = s * c
        BY <4>1, <4>2 DEF Addressing!Size
      <4>4. QED
        BY <1>3, <4>3
    <3>5. n < c
      BY <1>3, <1>4, <1>6, <3>2, <3>4, Products
    <3>6. QED
      BY <3>2, <3>5
  <2>2. CASE ~Addressing!OctetScheme(s3, s2)
    <3>1. s = Addressing!Size(s2)
      BY <1>1, <2>2, StrideIs
    <3>2. PICK m, d : m = AddressingMaxSpan /\ d = s2 - s3.bits
      OBVIOUS
    <3>3. f % s = 0 /\ f < s * 2^m
      BY <2>2, <3>1, <3>2 DEF Addressing!Places
    <3>4. m \in Nat /\ d \in Nat /\ 2^m \in Nat \ {0} /\ 2^d \in Nat \ {0}
      BY <1>1, <1>2, <3>2, AddressingAssumption, PowersGrow
    <3>5. z = 2^d * s
      BY <1>1, <1>2, <3>1, <3>2, SizeIs
    <3>6. c = 2^(IF d > m THEN m ELSE d)
      BY <2>2, <3>2 DEF Addressing!Capacity
    <3>7. n * s < 2^m * s
      <4>1. s * 2^m = 2^m * s
        BY <1>3, <3>4
      <4>2. QED
        BY <1>6, <3>3, <4>1
    <3>8. n * s < 2^d * s
      BY <1>4, <1>6, <3>3, <3>5
    <3>9. n < 2^m /\ n < 2^d
      BY <1>3, <1>6, <3>3, <3>4, <3>7, <3>8, Products
    <3>10. QED
      BY <2>2, <3>3, <3>6, <3>9
  <2>3. QED
    BY <2>1, <2>2
<1>8. n \in 0..(c - 1) /\ n \in Addressing!Numbers
  BY <1>3, <1>6, <1>7 DEF Addressing!Numbers
<1>9. Addressing!SubnetForNumber(s3, s2, n) = f /\ Addressing!NumberForSubnet(s3, f, s2) = n
  BY <1>1, <1>4, <1>6, <1>7, <1>8, NumberBack
<1>10. QED
  BY <1>8, <1>9

(* The lowest free number is missing only when there is no free number.    *)
LEMMA NoneLeft ==
    ASSUME Addressing!AddressingInv, FamilyKnown PROVE Addressing!RefusedOnlyWhenFull
<1>1. SUFFICES ASSUME NEW side \in {"A", "B"}, Addressing!Shaped(s3, s2),
                      Addressing!NextFree(side) = {}, NEW f \in Addressing!Places
               PROVE  \/ {Addressing!Ends(f, s2).A, Addressing!Ends(f, s2).B} \cap Addressing!Used # {}
                      \/ Addressing!NumberForSubnet(s3, f, s2) \in Addressing!TakenNames(side)
  BY DEF Addressing!RefusedOnlyWhenFull
<1>2. PICK used, names : used = Addressing!Used /\ names = Addressing!TakenNames(side)
  OBVIOUS
<1>3. PICK free : free = {n \in Addressing!Numbers : Addressing!Free(n, used, names)}
  OBVIOUS
<1>4. Addressing!NextFree(side) = {n \in free : \A m \in free : n <= m}
  BY <1>2, <1>3 DEF Addressing!NextFree
<1>5. free \in SUBSET Nat
  BY <1>3 DEF Addressing!Numbers
<1>6. free = {}
  BY <1>1, <1>4, <1>5, NatMin
<1>7. PICK n \in Addressing!Numbers : /\ Addressing!SubnetForNumber(s3, s2, n) = f
                                      /\ Addressing!NumberForSubnet(s3, f, s2) = n
  BY <1>1, PlaceHasNumber
<1>8. ~Addressing!Free(n, used, names)
  BY <1>3, <1>6
<1>9. f # Addressing!None
  <2>1. f \in Int /\ 0 <= f
    BY DEF Addressing!Places
  <2>2. QED
    BY <2>1 DEF Addressing!None
<1>10. QED
  BY <1>2, <1>7, <1>8, <1>9 DEF Addressing!Free

(* What a row was chosen by holds as long as what it names is as it was.   *)
LEMMA HoldsStill ==
    ASSUME s1' = s1, s3'.bits = s3.bits, NEW r, Addressing!Holds(r),
           NEW q, q.len = r.len, q.first = r.first, q.number = r.number, q.auto = r.auto,
           q.apart \subseteq r.apart, q.apart \subseteq Addressing!Live',
           q.auto /\ q.sound => s3'.live,
           \A j \in q.apart : s4'[j].first = s4[j].first /\ s4'[j].len = s4[j].len
    PROVE  Addressing!Holds(q)'
<1>1. \A l : Addressing!Size(l)' = Addressing!Size(l)
  BY DEF Addressing!Size
<1>2. \A f, l : Addressing!Masked(f, l)' = Addressing!Masked(f, l)
  BY <1>1 DEF Addressing!Masked
<1>3. \A f, l, g, k : Addressing!Overlap(f, l, g, k)' = Addressing!Overlap(f, l, g, k)
  BY <1>2 DEF Addressing!Overlap
<1>4. Addressing!NumberForSubnet(s3, q.first, q.len)' = Addressing!NumberForSubnet(s3, q.first, q.len)
  BY DEF Addressing!NumberForSubnet, Addressing!Size, Addressing!Stride, Addressing!OctetScheme,
     Addressing!Third, Addressing!Wrap
<1>5. \A j \in q.apart : ~Addressing!Overlap(q.first, q.len, s4[j].first, s4[j].len)'
  BY <1>3 DEF Addressing!Holds
<1>6. QED
  BY <1>4, <1>5 DEF Addressing!Holds

LEMMA NothingAsked ==
    /\ Addressing!NoRow \in Addressing!Rows /\ ~Addressing!NoRow.live
    /\ [Addressing!NoRow EXCEPT !.sound = FALSE, !.apart = {}] = Addressing!NoRow
<1>1. PICK no, yes : no = FALSE /\ yes = TRUE
  OBVIOUS
<1>2. Addressing!NoRow \in Addressing!Rows /\ ~Addressing!NoRow.live
  BY DEF Addressing!NoRow, Addressing!Rows, Addressing!None
<1>3. Addressing!NoRow.sound = FALSE /\ Addressing!NoRow.apart = {}
  BY DEF Addressing!NoRow
<1>4. [Addressing!NoRow EXCEPT !.sound = FALSE, !.apart = {}] = Addressing!NoRow
  BY <1>3 DEF Addressing!NoRow
<1>5. QED
  BY <1>2, <1>4

(* What waits is as it was, except that nothing is checked any more.       *)
LEMMA StaleIs ==
    ASSUME Addressing!AddressingInv, Addressing!Stale
    PROVE  /\ s6' \in Addressing!Rows
           /\ s6 = Addressing!NoRow => s6' = Addressing!NoRow
           /\ s6'.live = s6.live /\ s6'.len = s6.len /\ s6'.first = s6.first
           /\ s6'.number = s6.number /\ s6'.auto = s6.auto /\ ~s6'.sound /\ s6'.apart = {}
<1>1. s6 \in Addressing!Rows /\ s6' = [s6 EXCEPT !.sound = FALSE, !.apart = {}]
  BY DEF Addressing!AddressingInv, Addressing!Stale
<1>2. s6 = Addressing!NoRow => s6' = Addressing!NoRow
  BY <1>1, NothingAsked
<1>3. PICK y : y = [s6 EXCEPT !.apart = {}]
  OBVIOUS
<1>4. /\ y \in Addressing!Rows /\ y.live = s6.live /\ y.len = s6.len /\ y.first = s6.first
      /\ y.number = s6.number /\ y.auto = s6.auto /\ y.apart = {}
  BY <1>1, <1>3 DEF Addressing!Rows
<1>5. PICK no \in BOOLEAN : no = FALSE
  OBVIOUS
<1>6. s6' = [y EXCEPT !.sound = no]
  BY <1>1, <1>3, <1>5 DEF Addressing!Rows
<1>7. /\ s6' \in Addressing!Rows /\ s6'.live = y.live /\ s6'.len = y.len /\ s6'.first = y.first
      /\ s6'.number = y.number /\ s6'.auto = y.auto /\ s6'.sound = no /\ s6'.apart = y.apart
  BY <1>4, <1>6 DEF Addressing!Rows
<1>8. QED
  BY <1>2, <1>4, <1>5, <1>7

LEMMA StaleHolds ==
    ASSUME Addressing!AddressingInv, Addressing!Stale, s1' = s1, s3'.bits = s3.bits
    PROVE  /\ s6' \in Addressing!Rows
           /\ s6' = Addressing!NoRow \/ (s6'.live /\ Addressing!Holds(s6)')
<1>1. s6 = Addressing!NoRow \/ (s6.live /\ Addressing!Holds(s6))
  BY DEF Addressing!AddressingInv
<1>2. PICK q : q = s6'
  OBVIOUS
<1>3. ASSUME Addressing!Holds(s6) PROVE Addressing!Holds(q)'
  BY <1>2, <1>3, StaleIs, HoldsStill
<1>4. Addressing!Holds(q)' => Addressing!Holds(s6)'
  BY <1>2 DEF Addressing!Holds
<1>5. QED
  BY <1>1, <1>3, <1>4, StaleIs

(* A row that is put in leaves the others as they were.                    *)
LEMMA InsertKeeps ==
    ASSUME Addressing!AddressingInv, NEW row \in Addressing!Rows, row.live, Addressing!Holds(row),
           Addressing!Insert(row), s1' = s1, s3' = s3
    PROVE  /\ s4' \in [Addressing!Ids -> Addressing!Rows]
           /\ \A i \in Addressing!Live' : Addressing!Holds(s4[i])'
<1>1. PICK k \in Addressing!Ids \ Addressing!Live : s4' = [s4 EXCEPT ![k] = row]
  BY DEF Addressing!Insert
<1>2. s4 \in [Addressing!Ids -> Addressing!Rows] /\ \A i \in Addressing!Live : Addressing!Holds(s4[i])
  BY DEF Addressing!AddressingInv
<1>3. s4' \in [Addressing!Ids -> Addressing!Rows]
  BY <1>1, <1>2
<1>4. /\ Addressing!Live' = Addressing!Live \cup {k} /\ s4'[k] = row
      /\ \A i \in Addressing!Live : s4'[i] = s4[i]
  BY <1>1, <1>2 DEF Addressing!Live
<1>5. ASSUME NEW i \in Addressing!Live' PROVE Addressing!Holds(s4[i])'
  <2>1. PICK q : q = s4'[i]
    OBVIOUS
  <2>2. Addressing!Holds(q)
    BY <1>2, <1>4, <2>1
  <2>3. q.auto /\ q.sound => s3.live
    BY <2>2 DEF Addressing!Holds
  <2>4. q.apart \subseteq Addressing!Live
    BY <2>2 DEF Addressing!Holds
  <2>5. Addressing!Holds(q)'
    BY <1>4, <2>2, <2>3, <2>4, HoldsStill
  <2>6. QED
    BY <2>1, <2>5 DEF Addressing!Holds
<1>6. QED
  BY <1>3, <1>5

(* A create is checked by what is so when it is asked.                     *)
LEMMA CreateKeeps ==
    ASSUME Addressing!AddressingInv, NEW row \in Addressing!Rows, row.live, Addressing!Holds(row),
           Addressing!Create(row)
    PROVE  Addressing!AddressingInv'
<1>1. CASE Addressing!Insert(row) /\ Addressing!Stale /\ UNCHANGED <<s1, s2, s3, s5>>
  <2>1. /\ s4' \in [Addressing!Ids -> Addressing!Rows]
        /\ \A i \in Addressing!Live' : Addressing!Holds(s4[i])'
    BY <1>1, InsertKeeps
  <2>2. s6' \in Addressing!Rows /\ (s6' = Addressing!NoRow \/ (s6'.live /\ Addressing!Holds(s6)'))
    BY <1>1, StaleHolds
  <2>3. s1' \in AddressingFamilies /\ s2' \in s1'.lens /\ s3' \in [live : BOOLEAN, bits : s1'.pools]
    BY <1>1 DEF Addressing!AddressingInv
  <2>4. QED
    BY <2>1, <2>2, <2>3 DEF Addressing!AddressingInv
<1>2. CASE s6' = row /\ UNCHANGED <<s1, s2, s3, s4, s5>>
  <2>1. Addressing!Live' = Addressing!Live
    BY <1>2 DEF Addressing!Live
  <2>2. ASSUME NEW q, Addressing!Holds(q) PROVE Addressing!Holds(q)'
    BY <1>2, <2>1, <2>2, HoldsStill DEF Addressing!Holds
  <2>3. Addressing!Holds(s6)'
    BY <1>2, <2>2 DEF Addressing!Holds
  <2>4. \A i \in Addressing!Live' : Addressing!Holds(s4[i])'
    <3>1. ASSUME NEW i \in Addressing!Live' PROVE Addressing!Holds(s4[i])'
      <4>1. PICK q : q = s4[i]
        OBVIOUS
      <4>2. Addressing!Holds(q)'
        BY <2>1, <2>2, <4>1 DEF Addressing!AddressingInv
      <4>3. q = s4'[i]
        BY <1>2, <4>1
      <4>4. QED
        BY <4>2, <4>3 DEF Addressing!Holds
    <3>2. QED
      BY <3>1
  <2>5. QED
    BY <1>2, <2>3, <2>4 DEF Addressing!AddressingInv
<1>3. QED
  BY <1>1, <1>2 DEF Addressing!Create

LEMMA RowHolds ==
    ASSUME Addressing!AddressingInv, NEW side \in {"A", "B"}, NEW n \in Int, NEW first \in Nat,
           NEW auto \in BOOLEAN, NEW force \in BOOLEAN,
           Addressing!CheckAddressConflicts(first, s2, side, force),
           auto => s3.live /\ Addressing!NumberForSubnet(s3, first, s2) = n
    PROVE  /\ Addressing!Row(side, n, first, auto, force) \in Addressing!Rows
           /\ Addressing!Row(side, n, first, auto, force).live
           /\ Addressing!Holds(Addressing!Row(side, n, first, auto, force))
<1>1. PICK yes \in BOOLEAN : yes = TRUE
  OBVIOUS
<1>2. PICK name, apart : /\ name = IF n \in Addressing!TakenNames(side) THEN Addressing!None ELSE n
                         /\ apart = IF force THEN {} ELSE {i \in Addressing!Live : s4[i].up}
  OBVIOUS
<1>3. PICK r : r = [live |-> yes, side |-> side, number |-> n, first |-> first, len |-> s2,
                    auto |-> auto, name |-> name, up |-> yes, sound |-> yes, apart |-> apart]
  OBVIOUS
<1>4. Addressing!Row(side, n, first, auto, force) = r
  BY <1>1, <1>2, <1>3 DEF Addressing!Row
<1>5. name \in Int /\ apart \subseteq Addressing!Live /\ apart \in SUBSET Addressing!Ids
  BY <1>2 DEF Addressing!None, Addressing!Live
<1>6. s2 \in s1.lens /\ s2 \in Int
  <2>1. s1 \in AddressingFamilies /\ s2 \in s1.lens
    BY DEF Addressing!AddressingInv
  <2>2. s1.lens \subseteq 1..(s1.bits - 1)
    BY <2>1, AddressingAssumption
  <2>3. QED
    BY <2>1, <2>2
<1>7. r \in Addressing!Rows
  BY <1>3, <1>5, <1>6 DEF Addressing!Rows
<1>8. /\ r.live = yes /\ r.len = s2 /\ r.first = first /\ r.number = n /\ r.auto = auto
      /\ r.apart = apart
  BY <1>3
<1>9. \A j \in apart : ~Addressing!Overlap(first, s2, s4[j].first, s4[j].len)
  BY <1>2 DEF Addressing!CheckAddressConflicts
<1>10. Addressing!Holds(r)
  BY <1>5, <1>6, <1>8, <1>9 DEF Addressing!Holds
<1>11. QED
  BY <1>1, <1>4, <1>7, <1>8, <1>10

(* A number that is used has a subnet in the pool, which gives it back.    *)
LEMMA NumberedHolds ==
    ASSUME Addressing!AddressingInv, NEW side \in {"A", "B"}, NEW force \in BOOLEAN,
           Addressing!CanUsePool, NEW n \in 0..(Addressing!Capacity(s3, s2) - 1),
           Addressing!SubnetForNumber(s3, s2, n) # Addressing!None,
           Addressing!CheckAddressConflicts(Addressing!SubnetForNumber(s3, s2, n), s2, side, force),
           Addressing!Create(Addressing!Row(side, n, Addressing!SubnetForNumber(s3, s2, n), TRUE, force))
    PROVE  Addressing!AddressingInv'
<1>1. /\ FamilyKnown /\ s3.bits \in s1.pools /\ s2 \in s1.lens /\ s3.bits <= s2 /\ s3.live
  BY FamilyIsKnown DEF Addressing!AddressingInv, Addressing!CanUsePool, Addressing!Shaped
<1>2. PICK first : first = Addressing!SubnetForNumber(s3, s2, n)
  OBVIOUS
<1>3. PICK x : x = n * Addressing!Stride(s3, s2)
  OBVIOUS
<1>4. x \in Nat /\ first = IF x < Addressing!Size(s3.bits) THEN x ELSE Addressing!None
  BY <1>1, <1>2, <1>3, NumberBack
<1>5. x < Addressing!Size(s3.bits) => Addressing!NumberForSubnet(s3, x, s2) = n
  BY <1>1, <1>3, NumberBack
<1>6. first \in Nat /\ Addressing!NumberForSubnet(s3, first, s2) = n
  BY <1>2, <1>4, <1>5
<1>7. PICK auto \in BOOLEAN : auto = TRUE
  OBVIOUS
<1>8. Addressing!CheckAddressConflicts(first, s2, side, force)
  BY <1>2
<1>9. n \in Int
  OBVIOUS
<1>10. PICK r : r = Addressing!Row(side, n, first, auto, force)
  OBVIOUS
<1>11. r \in Addressing!Rows /\ r.live /\ Addressing!Holds(r)
  BY <1>1, <1>6, <1>8, <1>9, <1>10, RowHolds
<1>12. Addressing!Create(r)
  BY <1>2, <1>7, <1>10
<1>13. QED
  BY <1>11, <1>12, CreateKeeps

LEMMA AddressingBegins == Addressing!Init => Addressing!AddressingInv
<1> SUFFICES ASSUME Addressing!Init PROVE Addressing!AddressingInv
  OBVIOUS
<1>1. /\ s1 \in AddressingFamilies /\ s2 \in s1.lens /\ s3 \in [live : {TRUE}, bits : s1.pools]
      /\ s4 = [i \in Addressing!Ids |-> Addressing!NoRow] /\ s6 = Addressing!NoRow
  BY DEF Addressing!Init
<1>2. s3 \in [live : BOOLEAN, bits : s1.pools]
  BY <1>1
<1>3. s4 \in [Addressing!Ids -> Addressing!Rows] /\ Addressing!Live = {}
  BY <1>1, NothingAsked DEF Addressing!Live
<1>4. QED
  BY <1>1, <1>2, <1>3, NothingAsked DEF Addressing!AddressingInv

(* Every row keeps what it was chosen by, but for what leaves.             *)
LEMMA RowsKeep ==
    ASSUME Addressing!AddressingInv, Addressing!Stale, s1' = s1, s2' = s2,
           s3' \in [live : BOOLEAN, bits : s1.pools], s3'.bits = s3.bits,
           s4' \in [Addressing!Ids -> Addressing!Rows],
           \A i \in Addressing!Live' :
             /\ i \in Addressing!Live /\ s4'[i].len = s4[i].len /\ s4'[i].first = s4[i].first
             /\ s4'[i].number = s4[i].number /\ s4'[i].auto = s4[i].auto
             /\ s4'[i].sound = s4[i].sound /\ s4'[i].apart \subseteq s4[i].apart
             /\ s4'[i].apart \subseteq Addressing!Live'
             /\ s4[i].auto => s3'.live = s3.live
    PROVE  Addressing!AddressingInv'
<1>1. ASSUME NEW i \in Addressing!Live' PROVE Addressing!Holds(s4[i])'
  <2>1. PICK r, q : r = s4[i] /\ q = s4'[i]
    OBVIOUS
  <2>2. Addressing!Holds(r) /\ i \in Addressing!Live
    BY <2>1 DEF Addressing!AddressingInv
  <2>3. /\ q.len = r.len /\ q.first = r.first /\ q.number = r.number /\ q.auto = r.auto
        /\ q.sound = r.sound /\ q.apart \subseteq r.apart /\ q.apart \subseteq Addressing!Live'
        /\ r.auto => s3'.live = s3.live
    BY <2>1
  <2>4. q.auto /\ q.sound => s3'.live
    BY <2>2, <2>3 DEF Addressing!Holds
  <2>5. \A j \in q.apart : s4'[j].first = s4[j].first /\ s4'[j].len = s4[j].len
    BY <2>3
  <2>6. Addressing!Holds(q)'
    BY <2>2, <2>3, <2>4, <2>5, HoldsStill
  <2>7. QED
    BY <2>1, <2>6 DEF Addressing!Holds
<1>2. s6' \in Addressing!Rows /\ (s6' = Addressing!NoRow \/ (s6'.live /\ Addressing!Holds(s6)'))
  BY StaleHolds
<1>3. QED
  BY <1>1, <1>2 DEF Addressing!AddressingInv

LEMMA AddressingKeeps ==
    ASSUME Addressing!AddressingInv, [Addressing!Next]_(Addressing!vars)
    PROVE  Addressing!AddressingInv'
<1>1. /\ s1 \in AddressingFamilies /\ s2 \in s1.lens /\ s3 \in [live : BOOLEAN, bits : s1.pools]
      /\ s4 \in [Addressing!Ids -> Addressing!Rows] /\ s6 \in Addressing!Rows
      /\ \A i \in Addressing!Live : Addressing!Holds(s4[i])
      /\ s6 = Addressing!NoRow \/ (s6.live /\ Addressing!Holds(s6))
  BY DEF Addressing!AddressingInv
<1>2. FamilyKnown
  BY <1>1, FamilyIsKnown
<1>3. ASSUME NEW side \in {"A", "B"}, NEW force \in BOOLEAN, Addressing!CreateAuto(side, force)
      PROVE  Addressing!AddressingInv'
  <2>1. PICK n \in Addressing!NextFree(side) :
          /\ Addressing!CheckAddressConflicts(Addressing!SubnetForNumber(s3, s2, n), s2, side, force)
          /\ Addressing!Create(Addressing!Row(side, n, Addressing!SubnetForNumber(s3, s2, n), TRUE, force))
    BY <1>3 DEF Addressing!CreateAuto
  <2>2. n \in Addressing!Numbers
        /\ Addressing!Free(n, Addressing!Used, Addressing!TakenNames(side))
    BY <2>1 DEF Addressing!NextFree
  <2>3. n \in 0..(Addressing!Capacity(s3, s2) - 1)
    BY <2>2 DEF Addressing!Numbers
  <2>4. Addressing!SubnetForNumber(s3, s2, n) # Addressing!None
    BY <2>2 DEF Addressing!Free
  <2>5. Addressing!CanUsePool
    BY <1>3 DEF Addressing!CreateAuto
  <2>6. QED
    BY <2>1, <2>3, <2>4, <2>5, NumberedHolds
<1>4. ASSUME NEW n \in AddressingPinned, NEW force \in BOOLEAN, Addressing!CreateAt("B", n, force)
      PROVE  Addressing!AddressingInv'
  <2>1. /\ Addressing!CanUsePool /\ n \in 0..(Addressing!Capacity(s3, s2) - 1)
        /\ Addressing!SubnetForNumber(s3, s2, n) # Addressing!None
        /\ Addressing!CheckAddressConflicts(Addressing!SubnetForNumber(s3, s2, n), s2, "B", force)
        /\ Addressing!Create(Addressing!Row("B", n, Addressing!SubnetForNumber(s3, s2, n), TRUE, force))
    BY <1>4 DEF Addressing!CreateAt
  <2>2. QED
    BY <2>1, NumberedHolds
<1>5. ASSUME NEW first \in {0, Addressing!Size(s2)}, NEW force \in BOOLEAN,
             Addressing!CreateByHand("A", first, force)
      PROVE  Addressing!AddressingInv'
  <2>1. PICK n \in 1..(AddressingMaxTunnels + 1) :
          Addressing!Create(Addressing!Row("A", n, first, FALSE, force))
    BY <1>5 DEF Addressing!CreateByHand
  <2>2. first \in Nat
    <3>1. s2 \in 0..s1.bits
      BY <1>1, <1>2 DEF FamilyKnown
    <3>2. QED
      BY <1>2, <3>1, SizeIs
  <2>3. PICK auto \in BOOLEAN : auto = FALSE
    OBVIOUS
  <2>4. PICK r : r = Addressing!Row("A", n, first, auto, force)
    OBVIOUS
  <2>5. n \in Int
    OBVIOUS
  <2>6. Addressing!CheckAddressConflicts(first, s2, "A", force)
    BY <1>5 DEF Addressing!CreateByHand
  <2>7. r \in Addressing!Rows /\ r.live /\ Addressing!Holds(r)
    BY <2>2, <2>3, <2>4, <2>5, <2>6, RowHolds
  <2>8. Addressing!Create(r)
    BY <2>1, <2>3, <2>4
  <2>9. QED
    BY <2>7, <2>8, CreateKeeps
<1>6. ASSUME NEW i \in Addressing!Ids, Addressing!Delete(i) PROVE Addressing!AddressingInv'
  <2>1. /\ s4' = [j \in Addressing!Ids |-> IF j = i THEN Addressing!NoRow
                                         ELSE [s4[j] EXCEPT !.apart = @ \ {i}]]
        /\ Addressing!Stale /\ UNCHANGED <<s1, s2, s3, s5>>
    BY <1>6 DEF Addressing!Delete
  <2>2. ASSUME NEW j \in Addressing!Ids, j # i
        PROVE  /\ s4'[j] \in Addressing!Rows /\ s4'[j].live = s4[j].live /\ s4'[j].len = s4[j].len
               /\ s4'[j].first = s4[j].first /\ s4'[j].number = s4[j].number
               /\ s4'[j].auto = s4[j].auto /\ s4'[j].sound = s4[j].sound
               /\ s4'[j].apart = s4[j].apart \ {i}
    <3>1. PICK r \in Addressing!Rows : r = s4[j]
      BY <1>1
    <3>2. s4'[j] = [r EXCEPT !.apart = @ \ {i}]
      BY <2>1, <2>2, <3>1
    <3>3. QED
      BY <3>1, <3>2 DEF Addressing!Rows
  <2>3. s4' \in [Addressing!Ids -> Addressing!Rows]
    <3>1. s4'[i] = Addressing!NoRow
      BY <2>1
    <3>2. \A j \in Addressing!Ids : s4'[j] \in Addressing!Rows
      BY <2>2, <3>1, NothingAsked
    <3>3. QED
      BY <2>1, <3>2
  <2>4. Addressing!Live' = Addressing!Live \ {i}
    <3>1. ~s4'[i].live
      BY <2>1, NothingAsked
    <3>2. QED
      BY <2>2, <3>1 DEF Addressing!Live
  <2>5. ASSUME NEW j \in Addressing!Live'
        PROVE  j \in Addressing!Ids /\ j # i /\ s4[j].apart \subseteq Addressing!Live
    BY <1>1, <2>4 DEF Addressing!Holds, Addressing!Live
  <2>6. s3' = s3
    BY <2>1
  <2>7. QED
    BY <1>1, <2>1, <2>2, <2>3, <2>4, <2>5, <2>6, RowsKeep
<1>7. ASSUME NEW i \in Addressing!Ids, NEW up \in BOOLEAN, Addressing!SetUp(i, up)
      PROVE  Addressing!AddressingInv'
  <2>1. s4' = [s4 EXCEPT ![i].up = up] /\ Addressing!Stale /\ UNCHANGED <<s1, s2, s3, s5>>
    BY <1>7 DEF Addressing!SetUp
  <2>2. ASSUME NEW j \in Addressing!Ids
        PROVE  /\ s4'[j] \in Addressing!Rows /\ s4'[j].live = s4[j].live /\ s4'[j].len = s4[j].len
               /\ s4'[j].first = s4[j].first /\ s4'[j].number = s4[j].number
               /\ s4'[j].auto = s4[j].auto /\ s4'[j].sound = s4[j].sound
               /\ s4'[j].apart = s4[j].apart
    <3>1. PICK r \in Addressing!Rows : r = s4[j]
      BY <1>1
    <3>2. s4'[j] = IF j = i THEN [r EXCEPT !.up = up] ELSE r
      BY <1>1, <2>1, <3>1
    <3>3. QED
      BY <3>1, <3>2 DEF Addressing!Rows
  <2>3. s4' \in [Addressing!Ids -> Addressing!Rows]
    BY <1>1, <2>1, <2>2
  <2>4. Addressing!Live' = Addressing!Live
    BY <2>2 DEF Addressing!Live
  <2>5. ASSUME NEW j \in Addressing!Live'
        PROVE  j \in Addressing!Ids /\ s4[j].apart \subseteq Addressing!Live
    BY <1>1, <2>4 DEF Addressing!Holds, Addressing!Live
  <2>6. s3' = s3
    BY <2>1
  <2>7. QED
    BY <1>1, <2>1, <2>2, <2>3, <2>4, <2>5, <2>6, RowsKeep
<1>8. CASE Addressing!DeletePool
  <2>1. s3' = [s3 EXCEPT !.live = FALSE] /\ Addressing!Stale /\ UNCHANGED <<s1, s2, s4, s5>>
        /\ \A i \in Addressing!Live : ~s4[i].auto
    BY <1>8 DEF Addressing!DeletePool
  <2>2. s3' \in [live : BOOLEAN, bits : s1.pools] /\ s3'.bits = s3.bits
    BY <1>1, <2>1
  <2>3. Addressing!Live' = Addressing!Live
    BY <2>1 DEF Addressing!Live
  <2>4. \A i \in Addressing!Live : s4[i].apart \subseteq Addressing!Live
    BY <1>1 DEF Addressing!Holds
  <2>5. QED
    BY <1>1, <2>1, <2>2, <2>3, <2>4, RowsKeep
<1>9. CASE Addressing!Proceed
  <2>1. /\ s6 # Addressing!NoRow /\ s6' = Addressing!NoRow /\ UNCHANGED <<s1, s2, s3, s5>>
        /\ s4' = s4 \/ Addressing!Insert(s6)
    BY <1>9 DEF Addressing!Proceed
  <2>2. s4' \in [Addressing!Ids -> Addressing!Rows]
        /\ \A i \in Addressing!Live' : Addressing!Holds(s4[i])'
    <3>1. CASE Addressing!Insert(s6)
      <4>1. PICK r : r = s6
        OBVIOUS
      <4>2. r \in Addressing!Rows /\ r.live /\ Addressing!Holds(r) /\ Addressing!Insert(r)
        BY <1>1, <2>1, <3>1, <4>1
      <4>3. QED
        BY <2>1, <4>2, InsertKeeps
    <3>2. CASE s4' = s4
      <4>1. Addressing!Live' = Addressing!Live
        BY <3>2 DEF Addressing!Live
      <4>2. ASSUME NEW i \in Addressing!Live' PROVE Addressing!Holds(s4[i])'
        <5>1. PICK q : q = s4[i]
          OBVIOUS
        <5>2. Addressing!Holds(q)
          BY <1>1, <4>1, <5>1
        <5>3. Addressing!Holds(q)'
          BY <2>1, <3>2, <4>1, <5>2, HoldsStill DEF Addressing!Holds
        <5>4. QED
          BY <3>2, <5>1, <5>3 DEF Addressing!Holds
      <4>3. QED
        BY <1>1, <3>2, <4>2
    <3>3. QED
      BY <2>1, <3>1, <3>2
  <2>3. QED
    BY <1>1, <2>1, <2>2, NothingAsked DEF Addressing!AddressingInv
<1>10. CASE UNCHANGED <<s1, s3, s4, s6>> /\ s2' \in s1.lens
  <2>1. Addressing!Live' = Addressing!Live
    BY <1>10 DEF Addressing!Live
  <2>2. ASSUME NEW q, Addressing!Holds(q) PROVE Addressing!Holds(q)'
    BY <1>10, <2>1, <2>2, HoldsStill DEF Addressing!Holds
  <2>3. ASSUME NEW i \in Addressing!Live' PROVE Addressing!Holds(s4[i])'
    <3>1. PICK q : q = s4[i]
      OBVIOUS
    <3>2. Addressing!Holds(q)'
      BY <1>1, <2>1, <2>2, <3>1
    <3>3. QED
      BY <1>10, <3>1, <3>2 DEF Addressing!Holds
  <2>4. s6' = Addressing!NoRow \/ (s6'.live /\ Addressing!Holds(s6)')
    <3>1. PICK q : q = s6
      OBVIOUS
    <3>2. q = Addressing!NoRow \/ (q.live /\ Addressing!Holds(q)')
      BY <1>1, <2>2, <3>1
    <3>3. QED
      BY <1>10, <3>1, <3>2 DEF Addressing!Holds
  <2>5. QED
    BY <1>1, <1>10, <2>3, <2>4 DEF Addressing!AddressingInv
<1>11. CASE UNCHANGED <<s1, s2, s3, s4, s5, s6>>
  BY <1>1, <1>10, <1>11
<1>12. ASSUME NEW l \in s1.lens, Addressing!SetDefaultLength(l) PROVE Addressing!AddressingInv'
  BY <1>10, <1>12 DEF Addressing!SetDefaultLength
<1>13. QED
  BY <1>3, <1>4, <1>5, <1>6, <1>7, <1>8, <1>9, <1>11, <1>12 DEF Addressing!Next, Addressing!vars

(* What holds of the rows is what the panel promises of them.              *)
LEMMA AddressesAreSound == Addressing!AddressingInv => Addressing!AllocationIsSound
<1> SUFFICES ASSUME Addressing!AddressingInv PROVE Addressing!AllocationIsSound
  OBVIOUS
<1>1. /\ FamilyKnown /\ s4 \in [Addressing!Ids -> Addressing!Rows]
      /\ \A i \in Addressing!Live : Addressing!Holds(s4[i])
  BY FamilyIsKnown DEF Addressing!AddressingInv
<1>2. Addressing!NumbersAreReversible
  BY <1>1 DEF Addressing!NumbersAreReversible, Addressing!Holds
<1>3. Addressing!PoolStays
  BY <1>1 DEF Addressing!PoolStays, Addressing!Holds
<1>4. ASSUME NEW i \in Addressing!Live, NEW j \in Addressing!Live, j \in s4[i].apart
      PROVE  /\ ~Addressing!Overlap(s4[i].first, s4[i].len, s4[j].first, s4[j].len)
             /\ {Addressing!Own(s4[i]), Addressing!Peer(s4[i])}
                  \cap {Addressing!Own(s4[j]), Addressing!Peer(s4[j])} = {}
  <2>1. ~Addressing!Overlap(s4[i].first, s4[i].len, s4[j].first, s4[j].len)
    BY <1>1, <1>4 DEF Addressing!Holds
  <2>2. PICK r, q : r = s4[i] /\ q = s4[j]
    OBVIOUS
  <2>3. /\ r \in Addressing!Rows /\ q \in Addressing!Rows
        /\ r.len \in 1..(s1.bits - 1) /\ q.len \in 1..(s1.bits - 1)
    BY <1>1, <2>2 DEF Addressing!Live, Addressing!Holds, FamilyKnown
  <2>4. /\ r.first \in Nat /\ q.first \in Nat /\ r.side \in {"A", "B"} /\ q.side \in {"A", "B"}
        /\ Addressing!Other(r.side) \in {"A", "B"} /\ Addressing!Other(q.side) \in {"A", "B"}
    BY <2>3 DEF Addressing!Rows, Addressing!Other
  <2>5. \A a, b \in {"A", "B"} :
          Addressing!Ends(r.first, r.len)[a] # Addressing!Ends(q.first, q.len)[b]
    BY <1>1, <2>1, <2>2, <2>3, <2>4, ApartEnds
  <2>6. {Addressing!Own(r), Addressing!Peer(r)} \cap {Addressing!Own(q), Addressing!Peer(q)} = {}
    BY <2>4, <2>5 DEF Addressing!Own, Addressing!Peer
  <2>7. QED
    BY <2>1, <2>2, <2>6
<1>5. Addressing!SubnetsAreApart
  BY <1>4 DEF Addressing!SubnetsAreApart
<1>6. QED
  BY <1>1, <1>2, <1>3, <1>5, NoneLeft DEF Addressing!AllocationIsSound

-----------------------------------------------------------------------------
(* The parts together.                                                     *)
PartsInv ==
    /\ part = "accounting" => Accounting!Accounted
    /\ part = "destinations" => Destinations!DestinationsInv
    /\ part = "reconcile" => Reconcile!OriginalsAreKept
    /\ part = "diagnostics" => Diagnostics!DiagnosisInv
    /\ part = "admission" => Admission!AdmissionInv
    /\ part = "accounts" => Accounts!AccountsInv
    /\ part = "update" => Update!UpdateInv
    /\ part = "settings" => Settings!SettingsInv
    /\ part = "monitor" => Monitor!MonitorInv
    /\ part = "kernel" => Kernel!KernelInv
    /\ part = "link" => Link!LinksInv
    /\ part = "transfer" => Transfer!TransferInv
    /\ part = "address" => Address!AddressInv
    /\ part = "restore" => Restore!RestoreInv
    /\ part = "addressing" => Addressing!AddressingInv

LEMMA PartsBegin == Init => PartsInv
BY AccountingBegins, DestinationsBegin, ReconcileBegins, DiagnosisBegins, AdmissionBegins, AccountsBegin,
   UpdateBegins, SettingsBegin, MonitorBegins, KernelBegins, LinkBegins, TransferBegins,
   AddressBegins, RestoreBegins, AddressingBegins DEF Init, PartsInv

(* The behaviour stays with its part.                                      *)
LEMMA PartStays == [Next]_vars => part' = part
BY DEF Next, vars, from7, from8, from9, from10, from11

(* A step of the panel is a step of the part it is about.                  *)
LEMMA PartSteps ==
    ASSUME [Next]_vars
    PROVE  /\ part = "accounting" => [Accounting!Next]_(Accounting!vars)
           /\ part = "destinations" => [Destinations!Next]_(Destinations!vars)
           /\ part = "reconcile" => [Reconcile!Next]_(Reconcile!vars)
           /\ part = "diagnostics" => [Diagnostics!Next]_(Diagnostics!vars)
           /\ part = "admission" => [Admission!Next]_(Admission!vars)
           /\ part = "accounts" => [Accounts!Next]_(Accounts!vars)
           /\ part = "update" => [Update!Next]_(Update!vars)
           /\ part = "settings" => [Settings!Next]_(Settings!vars)
           /\ part = "monitor" => [Monitor!Next]_(Monitor!vars)
           /\ part = "kernel" => [Kernel!Next]_(Kernel!vars)
           /\ part = "link" => [Link!Next]_(Link!vars)
           /\ part = "transfer" => [Transfer!Next]_(Transfer!vars)
           /\ part = "address" => [Address!Next]_(Address!vars)
           /\ part = "restore" => [Restore!Next]_(Restore!vars)
           /\ part = "addressing" => [Addressing!Next]_(Addressing!vars)
<1>1. CASE Next
  BY <1>1 DEF Next
<1>2. CASE UNCHANGED vars
  BY <1>2 DEF vars, Accounting!vars, Destinations!vars, Reconcile!vars, Diagnostics!vars, Admission!vars,
     Accounts!vars, Update!vars, Settings!vars, Monitor!vars, Kernel!vars, Link!vars, Transfer!vars,
     Address!vars, Restore!vars, Addressing!vars
<1>3. QED
  BY <1>1, <1>2

LEMMA PartsKeep == PartsInv /\ [Next]_vars => PartsInv'
<1> SUFFICES ASSUME PartsInv, [Next]_vars PROVE PartsInv'
  OBVIOUS
<1>1. part' = part
  BY PartStays
<1>2. part = "accounting" => Accounting!Accounted'
  BY PartSteps, AccountingKeeps DEF PartsInv
<1>3. part = "reconcile" => Reconcile!OriginalsAreKept'
  BY PartSteps, ReconcileKeeps DEF PartsInv
<1>4. part = "diagnostics" => Diagnostics!DiagnosisInv'
  BY PartSteps, DiagnosisKeeps DEF PartsInv
<1>5. part = "admission" => Admission!AdmissionInv'
  BY PartSteps, AdmissionKeeps DEF PartsInv
<1>6. part = "accounts" => Accounts!AccountsInv'
  BY PartSteps, AccountsKeep DEF PartsInv
<1>7. part = "update" => Update!UpdateInv'
  BY PartSteps, UpdateKeeps DEF PartsInv
<1>8. part = "settings" => Settings!SettingsInv'
  BY PartSteps, SettingsKeep DEF PartsInv
<1>9. part = "monitor" => Monitor!MonitorInv'
  BY PartSteps, MonitorKeeps DEF PartsInv
<1>10. part = "kernel" => Kernel!KernelInv'
  BY PartSteps, KernelKeeps DEF PartsInv
<1>11. part = "link" => Link!LinksInv'
  BY PartSteps, LinkKeeps DEF PartsInv
<1>12. part = "transfer" => Transfer!TransferInv'
  BY PartSteps, TransferKeeps DEF PartsInv
<1>13. part = "address" => Address!AddressInv'
  BY PartSteps, AddressKeeps DEF PartsInv
<1>14. part = "restore" => Restore!RestoreInv'
  BY PartSteps, RestoreKeeps DEF PartsInv
<1>15. part = "destinations" => Destinations!DestinationsInv'
  BY PartSteps, DestinationsKeep DEF PartsInv
<1>16. part = "addressing" => Addressing!AddressingInv'
  BY PartSteps, AddressingKeeps DEF PartsInv
<1>17. QED
  BY <1>1, <1>2, <1>3, <1>4, <1>5, <1>6, <1>7, <1>8, <1>9, <1>10, <1>11, <1>12, <1>13, <1>14,
     <1>15, <1>16 DEF PartsInv

(* Whatever part a behaviour is about, its invariant holds throughout.     *)
THEOREM PartsStayTrue == Spec => []PartsInv
<1>1. QED
  BY PartsBegin, PartsKeep, PTL DEF Spec

(* route/accounting.go: no byte is counted twice, in memory or in the      *)
(* table, for counters of any size.                                        *)
THEOREM NoByteTwice == Spec => []NothingCountedTwice
<1>1. PartsInv => NothingCountedTwice
  <2> SUFFICES ASSUME Accounting!Accounted, ~s7 PROVE s3.total <= s1 /\ s4.total <= s1
    BY DEF PartsInv, NothingCountedTwice, Accounting!NothingCountedTwice
  <2>1. QED
    BY DEF Accounting!Accounted, Accounting!Volumes, Accounting!Within, Accounting!Moved,
       Accounting!MovedAfter
<1>2. QED
  BY <1>1, PartsStayTrue, PTL

(* route/conntrack.go, destvolume.go: a destination's total is a floor on  *)
(* what was relayed to it, for any connections and any limit on those      *)
(* remembered, as long as no reading is truncated.                         *)
THEOREM TotalIsAFloor == Spec => []FloorUnlessTruncated
<1>1. PartsInv => FloorUnlessTruncated
  <2> SUFFICES ASSUME part = "destinations", DestinationsKnown, s8 \/ DestinationsBounded
               PROVE  s8 \/ (s4 <= s1 /\ s5 <= s1)
    BY DestinationsSaid DEF PartsInv, FloorUnlessTruncated, Destinations!FloorUnlessTruncated
  <2>1. Destinations!DestinationsInv
    BY DestinationsSaid
  <2>2. QED
    BY <2>1, PendingFinite DEF DestinationsKnown, DestinationsBounded
<1>2. QED
  BY <1>1, PartsStayTrue, PTL

(* reconcile, persist/files.go: a unit file somebody else wrote is in its  *)
(* place or backed up.                                                     *)
THEOREM NoOriginalIsLost == Spec => []OriginalsAreKept
<1>1. PartsInv => OriginalsAreKept
  BY DEF PartsInv, OriginalsAreKept
<1>2. QED
  BY <1>1, PartsStayTrue, PTL

(* route/diagnostics.go, health.go: an analysis blames and praises only    *)
(* what deserves it, for any destinations and any number of faults.        *)
THEOREM AnalysesAreFair == Spec => []DiagnosisIsFair
<1>1. PartsInv => DiagnosisIsFair
  BY DEF PartsInv, DiagnosisIsFair, Diagnostics!DiagnosisInv
<1>2. QED
  BY <1>1, PartsStayTrue, PTL

(* validate/route.go, safety/route.go: no packet is claimed by two checked *)
(* rules, taken from a service that was checked, or from the panel.        *)
THEOREM AdmissionIsSafe == Spec => []RulesAreAdmitted
<1>1. PartsInv => RulesAreAdmitted
  BY AdmissionIsSound DEF PartsInv, RulesAreAdmitted
<1>2. QED
  BY <1>1, PartsStayTrue, PTL

(* auth/service.go: sessions follow the password, password checks stay     *)
(* under the limit, and setup makes one account.                           *)
THEOREM AccountStaysGuarded == Spec => []AccountIsGuarded
<1>1. PartsInv => AccountIsGuarded
  <2> SUFFICES ASSUME Accounts!AccountsInv PROVE Accounts!AccountIsGuarded
    BY DEF PartsInv, AccountIsGuarded
  <2>1. Accounts!SessionsFollowThePassword
    BY DEF Accounts!SessionsFollowThePassword, Accounts!Accepted, Accounts!OfTheRow,
       Accounts!AccountsInv, Accounts!AccountKnown
  <2>2. Accounts!Throttled /\ s2 <= 1
    BY DEF Accounts!AccountsInv, Accounts!AccountKnown, Accounts!LimiterSound
  <2>3. QED
    BY <2>1, <2>2 DEF Accounts!AccountIsGuarded
<1>2. QED
  BY <1>1, PartsStayTrue, PTL

(* settings/store.go: while no two requests met, the values in force are   *)
(* the stored ones and obey the rule between keys.                         *)
THEOREM SettingsStayInForce == Spec => []SettingsAreInForce
<1>1. PartsInv => SettingsAreInForce
  BY DEF PartsInv, SettingsAreInForce, Settings!SettingsInv
<1>2. QED
  BY <1>1, PartsStayTrue, PTL

(* update/apply.go: no later start stops a running installer, no run is    *)
(* recorded as succeeded without one, and one lookup runs at a time.       *)
THEOREM UpdateStaysSafe == Spec => UpdateIsSafe
<1>1. PartsInv /\ [Next]_vars => (part = "update" => Update!UpdateIsSafe)
  BY PartSteps, UpdateKeeps DEF PartsInv
<1>2. QED
  BY <1>1, PartsStayTrue, PTL DEF Spec, UpdateIsSafe

(* monitor/state.go: a state changes only after as many equal verdicts in a *)
(* row as are asked for, and a bucket has the worst state a sample left.   *)
THEOREM MonitorStaysHonest == Spec => MonitorTellsWhatItSaw
<1>1. PartsInv /\ [Next]_vars => (part = "monitor" => Monitor!MonitorTellsWhatItSaw)
  BY PartSteps, MonitorKeeps DEF PartsInv
<1>2. QED
  BY <1>1, PartsStayTrue, PTL DEF Spec, MonitorTellsWhatItSaw

(* tuning/manager.go, route/forward.go: unless two changes overlapped what *)
(* the panel was asked to keep is in the file, and what it would put back  *)
(* is what the parameter held before.                                      *)
THEOREM KernelSettingsStay == Spec => []SettingsAreKept
<1>1. PartsInv => SettingsAreKept
  BY DEF PartsInv, SettingsAreKept, Kernel!SettingsAreKept, Kernel!KernelInv, Kernel!KernelSound
<1>2. QED
  BY <1>1, PartsStayTrue, PTL

(* backup/grant.go: a link opens the database until it lapses or is        *)
(* revoked and never after, for any number of links, requests and downloads.*)
THEOREM LinksStaySound == Spec => []LinksAreSound
<1>1. PartsInv => LinksAreSound
  BY LinksAreTold DEF PartsInv, LinksAreSound
<1>2. QED
  BY <1>1, PartsStayTrue, PTL

(* api/backup.go: an import changes nothing it found and its report tells  *)
(* what became of every tunnel, whatever others do on the host meanwhile.  *)
THEOREM ImportStaysFaithful == Spec => []ImportIsFaithful
<1>1. PartsInv => ImportIsFaithful
  BY ImportIsTold DEF PartsInv, ImportIsFaithful
<1>2. QED
  BY <1>1, PartsStayTrue, PTL

(* address/address.go, tnp/address.go: whoever changes the panel's address, *)
(* path, name or certificate, with whatever failing on the way, the next    *)
(* start serves what was last stored, and what an undo puts back was once   *)
(* stored; the browser's and the command's changes interleaved.             *)
THEOREM AddressStaysKept == Spec => []AddressIsKept
<1>1. PartsInv => AddressIsKept
  BY AddressStays DEF PartsInv, AddressIsKept
<1>2. QED
  BY <1>1, PartsStayTrue, PTL

(* backup/file.go, api/dbbackup.go, tnp/backup.go: the database the panel  *)
(* had is kept until a second restore, and what the next start opens is a  *)
(* whole one, the last restore's, unless two restores met or one was cut   *)
(* off between its renames.                                                *)
THEOREM RestoreStaysSafe == Spec => []RestoreIsSafe
<1>1. PartsInv => RestoreIsSafe
  BY RestoreStays DEF PartsInv, RestoreIsSafe
<1>2. QED
  BY <1>1, PartsStayTrue, PTL

(* alloc/alloc.go, tunnel/service.go, validate/validate.go, api/pools.go:  *)
(* the number of a tunnel gives back its subnet, a pool is refused only    *)
(* when every place in it is used, checked subnets are apart, and a pool   *)
(* that is used stays; for any widths a counter holds, and any waits.      *)
THEOREM AllocationStaysSound == Spec => []AllocationIsSound
<1>1. PartsInv => AllocationIsSound
  BY AddressesAreSound DEF PartsInv, AllocationIsSound
<1>2. QED
  BY <1>1, PartsStayTrue, PTL
=============================================================================

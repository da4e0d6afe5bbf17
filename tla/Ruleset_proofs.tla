--------------------------- MODULE Ruleset_proofs ---------------------------
(***************************************************************************)
(* What netfilter does with the panel's rules is what each rule promises,  *)
(* for every set of rules, what the verification says of them is true, and *)
(* a balanced rule shares connections by its weights.                      *)
(***************************************************************************)
EXTENDS Ruleset, FiniteSetTheorems, WellFoundedInduction, TLAPS

(***************************************************************************)
(* What is rendered.                                                       *)
(***************************************************************************)
\* The lookup table of rendered rules holds what it was filled with.
LEMMA KeptIsTheSame == ASSUME NEW f PROVE Kept(f) = f
  BY DEF Kept

\* A chain holds what the rules that are switched on render for it.
LEMMA RulesOfChain ==
  ASSUME NEW b \in Backends, NEW P \in Pools, NEW S \in SUBSET P, NEW c \in Roles
  PROVE  \A r : r \in RulesOf(b, S)[c] <=>
           r.chain = c /\ \E s \in S : Renderable(b, s) /\ r \in Rendered(b, s)
<1> DEFINE All == UNION {Rendered(b, s) : s \in {t \in S : Renderable(b, t)}}
<1>1. S \in RuleSets
  BY DEF RuleSets
<1> DEFINE Chained(specs, bk) ==
      [ch \in Roles |-> {r \in UNION {Rendered(bk, s) : s \in {t \in specs : Renderable(bk, t)}} :
                           r.chain = ch}]
<1>2. RulesOf(b, S)[c] = {r \in All : r.chain = c}
  <2>1. \A bk : \A T : Kept(Chained(T, bk)) = Chained(T, bk)
    BY KeptIsTheSame
  <2>2. Rules = Kept([bk \in Backends |-> Kept([T \in RuleSets |-> Kept(Chained(T, bk))])])
    BY DEF Rules
  <2> HIDE DEF Chained
  <2>3. Rules = [bk \in Backends |-> Kept([T \in RuleSets |-> Kept(Chained(T, bk))])]
    BY <2>2, KeptIsTheSame
  <2>4. Rules[b] = Kept([T \in RuleSets |-> Kept(Chained(T, b))])
    BY <2>3
  <2>5. Rules[b] = [T \in RuleSets |-> Kept(Chained(T, b))]
    BY <2>4, KeptIsTheSame
  <2>6. Rules[b][S] = Chained(S, b)
    BY <1>1, <2>1, <2>5
  <2>7. Chained(S, b)[c] = {r \in All : r.chain = c}
    BY DEF Chained
  <2>8. QED
    BY <2>6, <2>7 DEF RulesOf
<1>3. QED
  BY <1>2

\* A rule looks at the fields of a packet it names values for.
LEMMA MatchFields ==
  ASSUME NEW r, NEW p
  PROVE  Matches(r, p) <=>
           /\ r.fam = "ip" /\ \A id \in r.lists : <<id, p.src>> \in kernel.lists
           /\ r.match.proto = {} \/ p.proto \in r.match.proto
           /\ r.match.iface = {} \/ p.iface \in r.match.iface
           /\ r.match.src = {} \/ p.src \in r.match.src
           /\ r.match.sport = {} \/ p.sport \in r.match.sport
           /\ r.match.dst = {} \/ p.dst \in r.match.dst
           /\ r.match.dport = {} \/ p.dport \in r.match.dport
           /\ r.match.odst = {} \/ p.odst \in r.match.odst
           /\ r.match.odport = {} \/ p.odport \in r.match.odport
  BY DEF Matches, Fields

\* The fields of the three kinds of match.
LEMMA BindFields ==
  ASSUME NEW s, NEW p
  PROVE  LET m == BindMatch(s, p) IN
         /\ m.proto = {p} /\ m.dport = s.ports /\ m.dst = Only(s.bind) /\ m.iface = Only(s.iface)
         /\ m.src = {} /\ m.sport = {} /\ m.odst = {} /\ m.odport = {}
  BY DEF BindMatch, Anything, Fields
LEMMA DestFields ==
  ASSUME NEW s, NEW d, NEW p
  PROVE  LET m == DestMatch(s, d, p) IN
         /\ m.proto = {p} /\ m.dst = {d.addr} /\ m.dport = d.ports
         /\ m.odst = Only(s.bind) /\ m.odport = s.ports
         /\ m.src = {} /\ m.sport = {} /\ m.iface = {}
  BY DEF DestMatch, OriginMatch, Anything, Fields
LEMMA ReverseFields ==
  ASSUME NEW s, NEW d, NEW p
  PROVE  LET m == ReverseMatch(s, d, p) IN
         /\ m.proto = {p} /\ m.src = {d.addr} /\ m.sport = d.ports
         /\ m.odst = Only(s.bind) /\ m.odport = s.ports
         /\ m.dst = {} /\ m.dport = {} /\ m.iface = {}
  BY DEF ReverseMatch, OriginMatch, Anything, Fields

\* What a rendered rule of s is called, which sources it admits, and what it looks
\* at: a new connection, its packets on the way to a destination, the replies.
Labelled(s, r, chain, act) ==
  r.order = s.order /\ r.id = s.id /\ r.fam = s.fam /\ r.chain = chain /\ r.act = act
Unsourced(r) == r.lists = {} /\ r.match.src = {}
Sourced(b, s, r) ==
  /\ r.lists = IF s.listed /\ b = "nftables" THEN {s.id} ELSE {}
  /\ s.listed => r.match.src = {}
  /\ ~s.listed => r.match.src = s.sources \/ \E x \in s.sources : r.match.src = {x}
ArrivingMatch(s, p, r) ==
  /\ r.match.proto = {p} /\ r.match.dport = s.ports
  /\ r.match.dst = Only(s.bind) /\ r.match.iface = Only(s.iface)
  /\ r.match.sport = {} /\ r.match.odst = {} /\ r.match.odport = {}
OnwardMatch(s, d, p, r) ==
  /\ r.match.proto = {p} /\ r.match.dst = {d.addr} /\ r.match.dport = d.ports
  /\ r.match.odst = Only(s.bind) /\ r.match.odport = s.ports
  /\ r.match.sport = {} /\ r.match.iface = {}
HomewardMatch(s, d, p, r) ==
  /\ r.match.proto = {p} /\ r.match.src = {d.addr} /\ r.match.sport = d.ports
  /\ r.match.odst = Only(s.bind) /\ r.match.odport = s.ports
  /\ r.match.dst = {} /\ r.match.dport = {} /\ r.match.iface = {} /\ r.lists = {}

LEMMA ArrivingRule ==
  ASSUME NEW s, NEW p, NEW chain, NEW act, NEW arg
  PROVE  LET r == Rule(s, chain, BindMatch(s, p), act, arg) IN
         /\ Labelled(s, r, chain, act) /\ r.rung = 0 /\ r.arg = arg
         /\ ArrivingMatch(s, p, r) /\ Unsourced(r)
  BY BindFields DEF Rule, Labelled, ArrivingMatch, Unsourced
LEMMA OnwardRule ==
  ASSUME NEW s, NEW d, NEW p, NEW chain, NEW act, NEW arg
  PROVE  LET r == Rule(s, chain, DestMatch(s, d, p), act, arg) IN
         /\ Labelled(s, r, chain, act) /\ r.rung = 0 /\ r.arg = arg
         /\ OnwardMatch(s, d, p, r) /\ Unsourced(r)
  BY DestFields DEF Rule, Labelled, OnwardMatch, Unsourced
LEMMA HomewardRule ==
  ASSUME NEW s, NEW d, NEW p, NEW chain, NEW act, NEW arg
  PROVE  LET r == Rule(s, chain, ReverseMatch(s, d, p), act, arg) IN
         /\ Labelled(s, r, chain, act) /\ HomewardMatch(s, d, p, r)
  BY ReverseFields DEF Rule, Labelled, HomewardMatch

\* The sources are added to a match and change nothing else of it.
LEMMA MatchShapes ==
  ASSUME NEW s, NEW d, NEW p
  PROVE  /\ BindMatch(s, p) = [f \in Fields |-> BindMatch(s, p)[f]]
         /\ DestMatch(s, d, p) = [f \in Fields |-> DestMatch(s, d, p)[f]]
         /\ BindMatch(s, p).src = {} /\ DestMatch(s, d, p).src = {}
<1>1. /\ BindMatch(s, p) = [f \in Fields |-> BindMatch(s, p)[f]]
      /\ DestMatch(s, d, p) = [f \in Fields |-> DestMatch(s, d, p)[f]]
  BY DEF BindMatch, DestMatch, OriginMatch, Anything
<1>2. BindMatch(s, p).src = {} /\ DestMatch(s, d, p).src = {}
  BY BindFields, DestFields
<1>3. QED
  BY <1>1, <1>2
SameFields(m, k) ==
  /\ m.proto = k.proto /\ m.iface = k.iface /\ m.sport = k.sport /\ m.dst = k.dst
  /\ m.dport = k.dport /\ m.odst = k.odst /\ m.odport = k.odport
LEMMA SourceAdded ==
  ASSUME NEW m, m = [f \in Fields |-> m[f]], NEW src
  PROVE  LET k == [m EXCEPT !.src = src] IN
         k.src = src /\ SameFields(k, m)
<1> DEFINE k == [m EXCEPT !.src = src]
<1>1. DOMAIN m = Fields
  OBVIOUS
<1>2. k = [f \in Fields |-> IF f = "src" THEN src ELSE m[f]]
  BY <1>1
<1>3. k.src = src
  BY <1>2 DEF Fields
<1>4. \A f \in Fields \ {"src"} : k[f] = m[f]
  BY <1>2
<1>5. SameFields(k, m)
  BY <1>4 DEF Fields, SameFields
<1>6. QED
  BY <1>3, <1>5
LEMMA FromAdds ==
  ASSUME NEW s, NEW chain, NEW m, NEW act, NEW arg, m = [f \in Fields |-> m[f]], NEW src
  PROVE  LET r == From(src, Rule(s, chain, m, act, arg)) IN
         /\ Labelled(s, r, chain, act) /\ r.rung = 0 /\ r.arg = arg
         /\ r.match.src = src /\ SameFields(r.match, m) /\ r.lists = {}
<1> DEFINE k == [m EXCEPT !.src = src]
<1>1. From(src, Rule(s, chain, m, act, arg)) = [Rule(s, chain, m, act, arg) EXCEPT !.match = k]
  BY DEF From, Rule
<1>2. k.src = src /\ SameFields(k, m)
  BY SourceAdded
<1> HIDE DEF k
<1>3. QED
  BY <1>1, <1>2 DEF Rule, Labelled
LEMMA NftSourceAdds ==
  ASSUME NEW s, NEW chain, NEW m, NEW act, NEW arg, m = [f \in Fields |-> m[f]], m.src = {}
  PROVE  LET r == NftSource(s, Rule(s, chain, m, act, arg)) IN
         /\ Labelled(s, r, chain, act) /\ r.rung = 0 /\ r.arg = arg
         /\ SameFields(r.match, m)
         /\ s.listed => r.match.src = {} /\ r.lists = {s.id}
         /\ ~s.listed => r.match.src = s.sources /\ r.lists = {}
<1>1. CASE s.listed
  <2>1. NftSource(s, Rule(s, chain, m, act, arg)) = [Rule(s, chain, m, act, arg) EXCEPT !.lists = {s.id}]
    BY <1>1 DEF NftSource
  <2>2. QED
    BY <1>1, <2>1 DEF Rule, Labelled, SameFields
<1>2. CASE ~s.listed
  <2>1. NftSource(s, Rule(s, chain, m, act, arg)) = From(s.sources, Rule(s, chain, m, act, arg))
    BY <1>2 DEF NftSource, From
  <2>2. QED
    BY <1>2, <2>1, FromAdds
<1>3. QED
  BY <1>1, <1>2
LEMMA RungOnly ==
  ASSUME NEW s, NEW chain, NEW m, NEW act, NEW arg, NEW src, NEW i
  PROVE  LET q == From(src, Rule(s, chain, m, act, arg)) r == Rung(i, q) IN
         /\ r.order = q.order /\ r.id = q.id /\ r.fam = q.fam /\ r.chain = q.chain /\ r.act = q.act
         /\ r.match = q.match /\ r.lists = q.lists /\ r.arg = q.arg /\ r.rung = i
  BY DEF Rung, From, Rule

\* The source a rule of iptables admits: one of its own addresses, if it has any.
LEMMA SourcesMeans ==
  ASSUME NEW s
  PROVE  \A src : src \in SourcesOrAny(s) <=>
           \/ (s.listed \/ s.sources = {}) /\ src = {}
           \/ ~s.listed /\ s.sources # {} /\ \E x \in s.sources : src = {x}
  BY DEF SourcesOrAny

\* The eight kinds of rendered rules.
TargetsOf(b, s, r) ==
  IF b = "nftables" THEN r.rung = 0 /\ r.arg = NftTargets(s)
  ELSE \E i \in DOMAIN IptTargets(s) : r.rung = i /\ r.arg = IptTargets(s)[i]
Takes(b, s, p, chain, r) ==
  /\ chain \in Entries(s) /\ Labelled(s, r, chain, "dnat")
  /\ ArrivingMatch(s, p, r) /\ Sourced(b, s, r) /\ TargetsOf(b, s, r)
Marks(b, s, p, r) ==
  s.marked /\ Labelled(s, r, "mark", "mark") /\ ArrivingMatch(s, p, r) /\ Sourced(b, s, r)
Caps(b, s, d, p, r) ==
  /\ s.maxconn > 0 /\ Labelled(s, r, "forward", "limit")
  /\ OnwardMatch(s, d, p, r) /\ Unsourced(r)
  /\ r.arg.max = s.maxconn
  /\ b = "nftables" => r.arg.scope = <<s.id>>
Lets(b, s, d, p, r) ==
  Labelled(s, r, "forward", "accept") /\ OnwardMatch(s, d, p, r) /\ Sourced(b, s, r)
Translates(s, d, p, r) ==
  /\ s.nat # "none" /\ Labelled(s, r, "postrouting", s.nat) /\ r.rung = 0
  /\ OnwardMatch(s, d, p, r) /\ Unsourced(r)
Shortens(s, d, p, r) ==
  /\ s.mss /\ p = "tcp" /\ Labelled(s, r, "mss", "clamp")
  /\ OnwardMatch(s, d, p, r) /\ Unsourced(r)
CountsIn(b, s) == {"accounting"} \cup When(s.local /\ b = "nftables", {"local_accounting"})
Sends(b, s, d, p, chain, r) ==
  /\ chain \in CountsIn(b, s) /\ Labelled(s, r, chain, "tx")
  /\ OnwardMatch(s, d, p, r) /\ Unsourced(r)
Answers(b, s, d, p, chain, r) ==
  chain \in CountsIn(b, s) /\ Labelled(s, r, chain, "rx") /\ HomewardMatch(s, d, p, r)
Kind(b, s, p, d, chain, r) ==
  \/ Caps(b, s, d, p, r) \/ Lets(b, s, d, p, r) \/ Translates(s, d, p, r) \/ Shortens(s, d, p, r)
  \/ Sends(b, s, d, p, chain, r) \/ Answers(b, s, d, p, chain, r)
Described(b, s, r) ==
  \E p \in s.protos :
    \/ \E chain \in Entries(s) : Takes(b, s, p, chain, r)
    \/ Marks(b, s, p, r)
    \/ \E d \in Dests(s), chain \in CountsIn(b, s) : Kind(b, s, p, d, chain, r)

\* The parts both backends share.
LEMMA SharedParts ==
  ASSUME NEW b \in {"nftables", "iptables"}, NEW s, NEW r,
         \/ r \in Limits(b, s) \/ r \in SourceNat(s) \/ r \in Clamps(s)
         \/ \E chain \in CountsIn(b, s) : r \in Counters(s, chain)
  PROVE  Described(b, s, r)
<1> USE DEF When
<1>0. "accounting" \in CountsIn(b, s)
  BY DEF CountsIn
<1>1. CASE r \in Limits(b, s)
  <2>1. PICK d \in Dests(s), p \in s.protos :
          /\ s.maxconn > 0
          /\ r = Rule(s, "forward", DestMatch(s, d, p), "limit",
                 [max |-> s.maxconn, scope |-> IF b = "nftables" THEN <<s.id>> ELSE <<s.id, p, d.addr>>])
    BY <1>1 DEF Limits
  <2>2. Caps(b, s, d, p, r)
    BY <2>1, OnwardRule DEF Caps
  <2>3. QED
    BY <1>0, <2>2 DEF Described, Kind
<1>2. CASE r \in SourceNat(s)
  <2>1. PICK d \in Dests(s), p \in s.protos :
          s.nat # "none" /\ r = Rule(s, "postrouting", DestMatch(s, d, p), s.nat, NoArg)
    BY <1>2 DEF SourceNat
  <2>2. Translates(s, d, p, r)
    BY <2>1, OnwardRule DEF Translates
  <2>3. QED
    BY <1>0, <2>2 DEF Described, Kind
<1>3. CASE r \in Clamps(s)
  <2>1. PICK d \in Dests(s), p \in s.protos :
          s.mss /\ p = "tcp" /\ r = Rule(s, "mss", DestMatch(s, d, p), "clamp", NoArg)
    BY <1>3 DEF Clamps
  <2>2. Shortens(s, d, p, r)
    BY <2>1, OnwardRule DEF Shortens
  <2>3. QED
    BY <1>0, <2>2 DEF Described, Kind
<1>4. ASSUME NEW chain \in CountsIn(b, s), r \in Counters(s, chain) PROVE Described(b, s, r)
  <2>1. PICK d \in Dests(s), p \in s.protos :
          \/ r = Rule(s, chain, DestMatch(s, d, p), "tx", NoArg)
          \/ r = Rule(s, chain, ReverseMatch(s, d, p), "rx", NoArg)
    BY <1>4 DEF Counters
  <2>2. Sends(b, s, d, p, chain, r) \/ Answers(b, s, d, p, chain, r)
    BY <2>1, OnwardRule, HomewardRule DEF Sends, Answers
  <2>3. QED
    BY <2>2 DEF Described, Kind
<1>5. QED
  BY <1>1, <1>2, <1>3, <1>4

\* Whom a rule admits by its own addresses, and whom a rendered rule lets in.
MayUse(s, x) == s.listed \/ s.sources = {} \/ x \in s.sources
ForSource(x, r) == r.match.src = {} \/ x \in r.match.src
OwnSources(s, r) ==
  /\ s.listed => r.match.src = {} /\ r.lists = {s.id}
  /\ ~s.listed => r.match.src = s.sources /\ r.lists = {}
LEMMA SourcedByNft ==
  ASSUME NEW s, s.listed \in BOOLEAN, NEW r, OwnSources(s, r)
  PROVE  Sourced("nftables", s, r) /\ \A x : MayUse(s, x) => ForSource(x, r)
<1>1. CASE s.listed
  BY <1>1 DEF OwnSources, Sourced, MayUse, ForSource
<1>2. CASE ~s.listed
  BY <1>2 DEF OwnSources, Sourced, MayUse, ForSource
<1>3. QED
  BY <1>1, <1>2
LEMMA SourcedByIpt ==
  ASSUME NEW s, s.listed \in BOOLEAN, NEW src \in SourcesOrAny(s), NEW r, r.match.src = src, r.lists = {}
  PROVE  Sourced("iptables", s, r) /\ \A x : src = {} \/ x \in src => ForSource(x, r)
<1>1. \/ (s.listed \/ s.sources = {}) /\ src = {}
      \/ ~s.listed /\ s.sources # {} /\ \E x \in s.sources : src = {x}
  BY SourcesMeans
<1>2. CASE s.listed
  BY <1>1, <1>2 DEF Sourced, ForSource
<1>3. CASE ~s.listed
  BY <1>1, <1>3 DEF Sourced, ForSource
<1>4. QED
  BY <1>2, <1>3
LEMMA SourceForMe ==
  ASSUME NEW s, NEW x, MayUse(s, x)
  PROVE  \E src \in SourcesOrAny(s) : src = {} \/ x \in src
<1>1. CASE s.listed \/ s.sources = {}
  BY <1>1, SourcesMeans
<1>2. CASE ~s.listed /\ s.sources # {}
  <2>1. {x} \in SourcesOrAny(s)
    BY <1>2, SourcesMeans DEF MayUse
  <2>2. QED
    BY <2>1
<1>3. QED
  BY <1>1, <1>2
LEMMA NftDescribed == ASSUME NEW s, s.listed \in BOOLEAN, NEW r \in NftRule(s) PROVE Described("nftables", s, r)
<1> USE DEF When
<1>0. "accounting" \in CountsIn("nftables", s)
  BY DEF CountsIn
<1>1. ASSUME NEW chain \in Entries(s), NEW p \in s.protos,
             r = NftSource(s, Rule(s, chain, BindMatch(s, p), "dnat", NftTargets(s)))
      PROVE  Described("nftables", s, r)
  <2>1. /\ Labelled(s, r, chain, "dnat") /\ r.rung = 0 /\ r.arg = NftTargets(s)
        /\ SameFields(r.match, BindMatch(s, p)) /\ OwnSources(s, r)
    BY <1>1, MatchShapes, NftSourceAdds DEF OwnSources
  <2>2. Takes("nftables", s, p, chain, r)
    BY SourcedByNft, <2>1, BindFields DEF Takes, TargetsOf, ArrivingMatch, SameFields
  <2>3. QED
    BY <2>2 DEF Described
<1>2. ASSUME NEW p \in s.protos, s.marked,
             r = NftSource(s, Rule(s, "mark", BindMatch(s, p), "mark", NoArg))
      PROVE  Described("nftables", s, r)
  <2>1. /\ Labelled(s, r, "mark", "mark")
        /\ SameFields(r.match, BindMatch(s, p)) /\ OwnSources(s, r)
    BY <1>2, MatchShapes, NftSourceAdds DEF OwnSources
  <2>2. Marks("nftables", s, p, r)
    BY SourcedByNft, <1>2, <2>1, BindFields DEF Marks, ArrivingMatch, SameFields
  <2>3. QED
    BY <2>2 DEF Described
<1>3. ASSUME NEW d \in Dests(s), NEW p \in s.protos,
             r = NftSource(s, Rule(s, "forward", DestMatch(s, d, p), "accept", NoArg))
      PROVE  Described("nftables", s, r)
  <2>1. /\ Labelled(s, r, "forward", "accept")
        /\ SameFields(r.match, DestMatch(s, d, p)) /\ OwnSources(s, r)
    BY <1>3, MatchShapes, NftSourceAdds DEF OwnSources
  <2>2. Lets("nftables", s, d, p, r)
    BY SourcedByNft, <2>1, DestFields DEF Lets, OnwardMatch, SameFields
  <2>3. QED
    BY <1>0, <2>2 DEF Described, Kind
<1>4. ASSUME s.local, r \in Counters(s, "local_accounting") PROVE Described("nftables", s, r)
  BY <1>4, SharedParts DEF CountsIn
<1>5. QED
  BY <1>0, <1>1, <1>2, <1>3, <1>4, SharedParts DEF NftRule

LEMMA IptDescribed == ASSUME NEW s, s.listed \in BOOLEAN, NEW r \in IptRule(s) PROVE Described("iptables", s, r)
<1> USE DEF When
<1>0. "accounting" \in CountsIn("iptables", s)
  BY DEF CountsIn
<1>1. ASSUME NEW chain \in Entries(s), NEW p \in s.protos, NEW src \in SourcesOrAny(s),
             NEW i \in DOMAIN IptTargets(s),
             r = Rung(i, From(src, Rule(s, chain, BindMatch(s, p), "dnat", IptTargets(s)[i])))
      PROVE  Described("iptables", s, r)
  <2> DEFINE q == From(src, Rule(s, chain, BindMatch(s, p), "dnat", IptTargets(s)[i]))
  <2>1. /\ r.order = q.order /\ r.id = q.id /\ r.fam = q.fam /\ r.chain = q.chain /\ r.act = q.act
        /\ r.match = q.match /\ r.lists = q.lists /\ r.arg = q.arg /\ r.rung = i
    <3>1. r = Rung(i, q)
      BY <1>1
    <3>2. QED
      BY <3>1, RungOnly
  <2>2. /\ Labelled(s, q, chain, "dnat") /\ q.arg = IptTargets(s)[i]
        /\ q.match.src = src /\ SameFields(q.match, BindMatch(s, p)) /\ q.lists = {}
    <3> DEFINE m == BindMatch(s, p)
               a == IptTargets(s)[i]
    <3>1. m = [f \in Fields |-> m[f]]
      BY MatchShapes
    <3> HIDE DEF m, a
    <3>2. LET t == From(src, Rule(s, chain, m, "dnat", a)) IN
          /\ Labelled(s, t, chain, "dnat") /\ t.arg = a
          /\ t.match.src = src /\ SameFields(t.match, m) /\ t.lists = {}
      BY <3>1, FromAdds
    <3>3. QED
      BY <3>2 DEF m, a
  <2> HIDE DEF q
  <2>3. Sourced("iptables", s, r)
    BY SourcedByIpt, <2>1, <2>2
  <2>4. Takes("iptables", s, p, chain, r)
    BY <2>1, <2>2, <2>3, BindFields DEF Takes, TargetsOf, ArrivingMatch, SameFields, Labelled
  <2>5. QED
    BY <2>4 DEF Described
<1>2. ASSUME NEW p \in s.protos, s.marked, NEW src \in SourcesOrAny(s),
             r = From(src, Rule(s, "mark", BindMatch(s, p), "mark", NoArg))
      PROVE  Described("iptables", s, r)
  <2>1. /\ Labelled(s, r, "mark", "mark") /\ SameFields(r.match, BindMatch(s, p))
        /\ r.match.src = src /\ r.lists = {}
    BY <1>2, MatchShapes, FromAdds
  <2>2. Sourced("iptables", s, r)
    BY SourcedByIpt, <2>1
  <2>3. Marks("iptables", s, p, r)
    BY <1>2, <2>1, <2>2, BindFields DEF Marks, ArrivingMatch, SameFields
  <2>4. QED
    BY <2>3 DEF Described
<1>3. ASSUME NEW d \in Dests(s), NEW p \in s.protos, NEW src \in SourcesOrAny(s),
             r = From(src, Rule(s, "forward", DestMatch(s, d, p), "accept", NoArg))
      PROVE  Described("iptables", s, r)
  <2>1. /\ Labelled(s, r, "forward", "accept") /\ SameFields(r.match, DestMatch(s, d, p))
        /\ r.match.src = src /\ r.lists = {}
    BY <1>3, MatchShapes, FromAdds
  <2>2. Sourced("iptables", s, r)
    BY SourcedByIpt, <2>1
  <2>3. Lets("iptables", s, d, p, r)
    BY <2>1, <2>2, DestFields DEF Lets, OnwardMatch, SameFields
  <2>4. QED
    BY <1>0, <2>3 DEF Described, Kind
<1>4. QED
  BY <1>0, <1>1, <1>2, <1>3, SharedParts DEF IptRule

LEMMA AllDescribed ==
  ASSUME NEW b \in Backends, NEW s, s.listed \in BOOLEAN, NEW r \in Rendered(b, s)
  PROVE  Described(b, s, r)
  BY NftDescribed, IptDescribed, RulesetAssumption DEF Rendered

\* Every kind is there, and lets in whom the rule admits.
LEMMA TakesIsThere ==
  ASSUME NEW b \in Backends, NEW s, s.listed \in BOOLEAN, NEW chain \in Entries(s),
         NEW p \in s.protos, NEW x, MayUse(s, x),
         NEW i \in (IF b = "nftables" THEN {0} ELSE DOMAIN IptTargets(s))
  PROVE  \E r \in Rendered(b, s) : Takes(b, s, p, chain, r) /\ r.rung = i /\ ForSource(x, r)
<1>1. CASE b = "nftables"
  <2> DEFINE m == BindMatch(s, p)
             a == NftTargets(s)
             r == NftSource(s, Rule(s, chain, m, "dnat", a))
  <2>1. r \in Rendered(b, s)
    BY <1>1 DEF Rendered, NftRule
  <2>2. m = [f \in Fields |-> m[f]] /\ m.src = {}
    BY MatchShapes
  <2> HIDE DEF m, a
  <2>3. /\ Labelled(s, r, chain, "dnat") /\ r.rung = 0 /\ r.arg = a
        /\ SameFields(r.match, m) /\ OwnSources(s, r)
    BY <2>2, NftSourceAdds DEF OwnSources
  <2> HIDE DEF r
  <2>4. Sourced(b, s, r) /\ ForSource(x, r)
    BY <1>1, <2>3, SourcedByNft
  <2>5. Takes(b, s, p, chain, r) /\ r.rung = i
    BY <1>1, <2>2, <2>3, <2>4, BindFields DEF Takes, TargetsOf, ArrivingMatch, SameFields, m, a
  <2>6. QED
    BY <2>1, <2>4, <2>5
<1>2. CASE b = "iptables"
  <2>1. PICK src \in SourcesOrAny(s) : src = {} \/ x \in src
    BY SourceForMe
  <2> DEFINE m == BindMatch(s, p)
             a == IptTargets(s)[i]
             q == From(src, Rule(s, chain, m, "dnat", a))
             r == Rung(i, q)
  <2>2. r \in Rendered(b, s)
    BY <1>2 DEF Rendered, IptRule
  <2>3. m = [f \in Fields |-> m[f]] /\ i \in DOMAIN IptTargets(s) /\ a = IptTargets(s)[i]
    BY <1>2, MatchShapes
  <2> HIDE DEF m, a
  <2>4. /\ Labelled(s, q, chain, "dnat") /\ q.arg = a
        /\ q.match.src = src /\ SameFields(q.match, m) /\ q.lists = {}
    BY <2>3, FromAdds
  <2>5. /\ r.order = q.order /\ r.id = q.id /\ r.fam = q.fam /\ r.chain = q.chain /\ r.act = q.act
        /\ r.match = q.match /\ r.lists = q.lists /\ r.arg = q.arg /\ r.rung = i
    BY RungOnly
  <2> HIDE DEF q, r
  <2>6. Sourced(b, s, r) /\ ForSource(x, r)
    BY <1>2, <2>1, <2>4, <2>5, SourcedByIpt
  <2>7. Takes(b, s, p, chain, r)
    BY <1>2, <2>3, <2>4, <2>5, <2>6, BindFields
       DEF Takes, TargetsOf, ArrivingMatch, SameFields, Labelled, m
  <2>8. QED
    BY <2>2, <2>5, <2>6, <2>7
<1>3. QED
  BY <1>1, <1>2, RulesetAssumption

LEMMA MarksIsThere ==
  ASSUME NEW b \in Backends, NEW s, s.listed \in BOOLEAN, s.marked, NEW p \in s.protos,
         NEW x, MayUse(s, x)
  PROVE  \E r \in Rendered(b, s) : Marks(b, s, p, r) /\ ForSource(x, r)
<1> DEFINE m == BindMatch(s, p)
<1>0. m = [f \in Fields |-> m[f]] /\ m.src = {}
  BY MatchShapes
<1>1. CASE b = "nftables"
  <2> DEFINE r == NftSource(s, Rule(s, "mark", m, "mark", NoArg))
  <2>1. r \in Rendered(b, s)
    BY <1>1 DEF Rendered, NftRule, When
  <2> HIDE DEF m
  <2>2. Labelled(s, r, "mark", "mark") /\ SameFields(r.match, m) /\ OwnSources(s, r)
    BY <1>0, NftSourceAdds DEF OwnSources
  <2> HIDE DEF r
  <2>3. Sourced(b, s, r) /\ ForSource(x, r)
    BY <1>1, <2>2, SourcedByNft
  <2>4. Marks(b, s, p, r)
    BY <2>2, <2>3, BindFields DEF Marks, ArrivingMatch, SameFields, m
  <2>5. QED
    BY <2>1, <2>3, <2>4
<1>2. CASE b = "iptables"
  <2>1. PICK src \in SourcesOrAny(s) : src = {} \/ x \in src
    BY SourceForMe
  <2> DEFINE r == From(src, Rule(s, "mark", m, "mark", NoArg))
  <2>2. r \in Rendered(b, s)
    BY <1>2 DEF Rendered, IptRule, When
  <2> HIDE DEF m
  <2>3. /\ Labelled(s, r, "mark", "mark") /\ SameFields(r.match, m)
        /\ r.match.src = src /\ r.lists = {}
    BY <1>0, FromAdds
  <2> HIDE DEF r
  <2>4. Sourced(b, s, r) /\ ForSource(x, r)
    BY <1>2, <2>1, <2>3, SourcedByIpt
  <2>5. Marks(b, s, p, r)
    BY <2>3, <2>4, BindFields DEF Marks, ArrivingMatch, SameFields, m
  <2>6. QED
    BY <2>2, <2>4, <2>5
<1>3. QED
  BY <1>1, <1>2, RulesetAssumption
LEMMA LetsIsThere ==
  ASSUME NEW b \in Backends, NEW s, s.listed \in BOOLEAN, NEW d \in Dests(s), NEW p \in s.protos,
         NEW x, MayUse(s, x)
  PROVE  \E r \in Rendered(b, s) : Lets(b, s, d, p, r) /\ ForSource(x, r)
<1> DEFINE m == DestMatch(s, d, p)
<1>0. m = [f \in Fields |-> m[f]] /\ m.src = {}
  BY MatchShapes
<1>1. CASE b = "nftables"
  <2> DEFINE r == NftSource(s, Rule(s, "forward", m, "accept", NoArg))
  <2>1. r \in Rendered(b, s)
    BY <1>1 DEF Rendered, NftRule
  <2> HIDE DEF m
  <2>2. Labelled(s, r, "forward", "accept") /\ SameFields(r.match, m) /\ OwnSources(s, r)
    BY <1>0, NftSourceAdds DEF OwnSources
  <2> HIDE DEF r
  <2>3. Sourced(b, s, r) /\ ForSource(x, r)
    BY <1>1, <2>2, SourcedByNft
  <2>4. Lets(b, s, d, p, r)
    BY <2>2, <2>3, DestFields DEF Lets, OnwardMatch, SameFields, m
  <2>5. QED
    BY <2>1, <2>3, <2>4
<1>2. CASE b = "iptables"
  <2>1. PICK src \in SourcesOrAny(s) : src = {} \/ x \in src
    BY SourceForMe
  <2> DEFINE r == From(src, Rule(s, "forward", m, "accept", NoArg))
  <2>2. r \in Rendered(b, s)
    BY <1>2 DEF Rendered, IptRule
  <2> HIDE DEF m
  <2>3. /\ Labelled(s, r, "forward", "accept") /\ SameFields(r.match, m)
        /\ r.match.src = src /\ r.lists = {}
    BY <1>0, FromAdds
  <2> HIDE DEF r
  <2>4. Sourced(b, s, r) /\ ForSource(x, r)
    BY <1>2, <2>1, <2>3, SourcedByIpt
  <2>5. Lets(b, s, d, p, r)
    BY <2>3, <2>4, DestFields DEF Lets, OnwardMatch, SameFields, m
  <2>6. QED
    BY <2>2, <2>4, <2>5
<1>3. QED
  BY <1>1, <1>2, RulesetAssumption
LEMMA TheRestIsThere ==
  ASSUME NEW b \in Backends, NEW s, NEW d \in Dests(s), NEW p \in s.protos
  PROVE  /\ s.maxconn > 0 => \E r \in Rendered(b, s) : Caps(b, s, d, p, r)
         /\ s.nat # "none" => \E r \in Rendered(b, s) : Translates(s, d, p, r)
         /\ s.mss /\ p = "tcp" => \E r \in Rendered(b, s) : Shortens(s, d, p, r)
         /\ \A chain \in CountsIn(b, s) :
              /\ \E r \in Rendered(b, s) : Sends(b, s, d, p, chain, r)
              /\ \E r \in Rendered(b, s) : Answers(b, s, d, p, chain, r)
<1> USE DEF When
<1>1. ASSUME s.maxconn > 0 PROVE \E r \in Rendered(b, s) : Caps(b, s, d, p, r)
  <2> DEFINE r == Rule(s, "forward", DestMatch(s, d, p), "limit",
                 [max |-> s.maxconn, scope |-> IF b = "nftables" THEN <<s.id>> ELSE <<s.id, p, d.addr>>])
  <2>1. r \in Limits(b, s)
    BY <1>1 DEF Limits
  <2>2. r \in Rendered(b, s)
    BY <2>1, RulesetAssumption DEF Rendered, NftRule, IptRule
  <2>3. Caps(b, s, d, p, r)
    BY <1>1, OnwardRule DEF Caps
  <2>4. QED
    BY <2>2, <2>3
<1>2. ASSUME s.nat # "none" PROVE \E r \in Rendered(b, s) : Translates(s, d, p, r)
  <2> DEFINE r == Rule(s, "postrouting", DestMatch(s, d, p), s.nat, NoArg)
  <2>1. r \in SourceNat(s)
    BY <1>2 DEF SourceNat
  <2>2. r \in Rendered(b, s)
    BY <2>1, RulesetAssumption DEF Rendered, NftRule, IptRule
  <2>3. Translates(s, d, p, r)
    BY <1>2, OnwardRule DEF Translates
  <2>4. QED
    BY <2>2, <2>3
<1>3. ASSUME s.mss, p = "tcp" PROVE \E r \in Rendered(b, s) : Shortens(s, d, p, r)
  <2> DEFINE r == Rule(s, "mss", DestMatch(s, d, p), "clamp", NoArg)
  <2>1. r \in Clamps(s)
    BY <1>3 DEF Clamps
  <2>2. r \in Rendered(b, s)
    BY <2>1, RulesetAssumption DEF Rendered, NftRule, IptRule
  <2>3. Shortens(s, d, p, r)
    BY <1>3, OnwardRule DEF Shortens
  <2>4. QED
    BY <2>2, <2>3
<1>4. ASSUME NEW chain \in CountsIn(b, s)
      PROVE  /\ \E r \in Rendered(b, s) : Sends(b, s, d, p, chain, r)
             /\ \E r \in Rendered(b, s) : Answers(b, s, d, p, chain, r)
  <2> DEFINE to == Rule(s, chain, DestMatch(s, d, p), "tx", NoArg)
             back == Rule(s, chain, ReverseMatch(s, d, p), "rx", NoArg)
  <2>1. to \in Counters(s, chain) /\ back \in Counters(s, chain)
    BY DEF Counters
  <2>2. Counters(s, chain) \subseteq Rendered(b, s)
    BY RulesetAssumption DEF Rendered, NftRule, IptRule, CountsIn
  <2>3. Sends(b, s, d, p, chain, to) /\ Answers(b, s, d, p, chain, back)
    BY OnwardRule, HomewardRule DEF Sends, Answers
  <2>4. QED
    BY <2>1, <2>2, <2>3
<1>5. QED
  BY <1>1, <1>2, <1>3, <1>4

(***************************************************************************)
(* Packets, and the rules they meet.                                       *)
(***************************************************************************)
\* What the model's constants and the type invariant give of the rules held.
LEMMA PoolRules ==
  ASSUME TypeOK
  PROVE  /\ backend \in Backends /\ backend \in {"nftables", "iptables"} /\ pool \in Pools
         /\ \A s \in pool : WellFormed(s)
         /\ \A s, t \in pool : s.id = t.id => s.maxconn = t.maxconn
         /\ kernel.specs \in SUBSET pool
         /\ \A s \in kernel.specs : Renderable(backend, s) /\ WellFormed(s)
         /\ Compatible(kernel.specs)
  BY RulesetAssumption DEF TypeOK, Installable
LEMMA RulesHeld ==
  ASSUME TypeOK, NEW chain \in Roles
  PROVE  \A r : r \in RulesIn(chain) <=>
           /\ r \notin taken /\ r.chain = chain
           /\ \E s \in kernel.specs : r \in Rendered(backend, s)
<1>1. \A r : r \in RulesOf(backend, kernel.specs)[chain] <=>
        r.chain = chain /\ \E s \in kernel.specs : Renderable(backend, s) /\ r \in Rendered(backend, s)
  BY PoolRules, RulesOfChain
<1>2. QED
  BY <1>1, PoolRules DEF RulesIn

Packets == Arriving \cup Own
LEMMA PacketFields ==
  ASSUME NEW p \in Packets
  PROVE  /\ p.sport = 0 /\ p.odst = p.dst /\ p.odport = p.dport
         /\ p.src \in Sources \cup Hosts
         /\ p \in Arriving => ~IsOwn(p) /\ p.src \in Sources
<1>1. CASE p \in Arriving
  <2>1. PICK proto \in {"tcp", "udp"}, i \in Ifaces, c \in Sources, h \in Hosts, n \in Ports :
          p = Packet(proto, i, c, h, n)
    BY <1>1 DEF Arriving
  <2>2. QED
    BY <2>1, RulesetAssumption DEF Packet, IsOwn
<1>2. CASE p \in Own
  <2>1. PICK proto \in {"tcp", "udp"}, h \in Hosts, n \in Ports : p = Packet(proto, Every, h, h, n)
    BY <1>2 DEF Own
  <2>2. IsOwn(p)
    BY <2>1 DEF Packet, IsOwn
  <2>3. p \notin Arriving
    <3>1. ASSUME p \in Arriving PROVE FALSE
      <4>1. PICK proto2 \in {"tcp", "udp"}, i \in Ifaces, c \in Sources, h2 \in Hosts, n2 \in Ports :
              p = Packet(proto2, i, c, h2, n2)
        BY <3>1 DEF Arriving
      <4>2. p.iface = i
        BY <4>1 DEF Packet
      <4>3. QED
        BY <2>2, <4>2, RulesetAssumption DEF IsOwn
    <3>2. QED
      BY <3>1
  <2>4. QED
    BY <2>1, <2>3 DEF Packet
<1>3. QED
  BY <1>1, <1>2 DEF Packets
LEMMA PacketShape ==
  ASSUME NEW p \in Packets
  PROVE  p = [proto |-> p.proto, iface |-> p.iface, src |-> p.src, sport |-> p.sport, dst |-> p.dst,
              dport |-> p.dport, odst |-> p.odst, odport |-> p.odport]
  BY DEF Packets, Arriving, Own, Packet
LEMMA ToFields ==
  ASSUME NEW p \in Packets, NEW d, NEW n
  PROVE  LET q == To(p, d, n) IN
         /\ q.proto = p.proto /\ q.iface = p.iface /\ q.src = p.src /\ q.sport = 0
         /\ q.dst = d.addr /\ q.dport = n /\ q.odst = p.dst /\ q.odport = p.dport
<1>1. PICK a, b, c, e, f, g, h, i :
        p = [proto |-> a, iface |-> b, src |-> c, sport |-> e, dst |-> f, dport |-> g, odst |-> h, odport |-> i]
  BY PacketShape
<1>2. QED
  BY <1>1, PacketFields DEF To
LEMMA ReplyFields ==
  ASSUME NEW p \in Packets, NEW d, NEW n
  PROVE  LET q == Reply(p, d, n) IN
         /\ q.proto = p.proto /\ q.iface = p.iface /\ q.src = d.addr /\ q.sport = n
         /\ q.dst = p.src /\ q.dport = 0 /\ q.odst = p.dst /\ q.odport = p.dport
<1>1. PICK a, b, c, e, f, g, h, i :
        p = [proto |-> a, iface |-> b, src |-> c, sport |-> e, dst |-> f, dport |-> g, odst |-> h, odport |-> i]
  BY PacketShape
<1>2. QED
  BY <1>1, PacketFields DEF Reply

\* p arrives at the listener of s, whoever sends it.
Listens(s, p) ==
  s.fam = "ip" /\ p.proto \in s.protos /\ p.dport \in s.ports /\ s.bind \in {Every, p.dst}
\* The source of p passes rendered rule r.
LetIn(r, p) == ForSource(p.src, r) /\ \A id \in r.lists : <<id, p.src>> \in kernel.lists

\* Two rules held by the kernel never listen to one packet.
LEMMA OneListener ==
  ASSUME TypeOK, NEW s \in kernel.specs, NEW t \in kernel.specs, NEW p, Listens(s, p), Listens(t, p)
  PROVE  s = t
  BY PoolRules DEF Listens, Compatible, Overlap
LEMMA OneIdentity ==
  ASSUME TypeOK, NEW s \in kernel.specs, NEW t \in kernel.specs, s.id = t.id
  PROVE  s = t
  BY PoolRules DEF Compatible

LEMMA OnlyIs == ASSUME NEW v, NEW x PROVE (Only(v) = {} \/ x \in Only(v)) <=> v \in {Every, x}
  BY DEF Only
LEMMA ArrivingMeans ==
  ASSUME NEW s, WellFormed(s), NEW proto, NEW r, r.fam = s.fam, ArrivingMatch(s, proto, r), NEW p
  PROVE  Matches(r, p) <=>
           /\ s.fam = "ip" /\ p.proto = proto /\ p.dport \in s.ports
           /\ s.bind \in {Every, p.dst} /\ s.iface \in {Every, p.iface} /\ LetIn(r, p)
<1>1. s.ports # {}
  BY DEF WellFormed
<1>2. QED
  BY <1>1, MatchFields, OnlyIs DEF ArrivingMatch, LetIn, ForSource
LEMMA OnwardMeans ==
  ASSUME NEW s, WellFormed(s), NEW d \in Dests(s), NEW proto, NEW r, r.fam = s.fam,
         OnwardMatch(s, d, proto, r), NEW q
  PROVE  Matches(r, q) <=>
           /\ s.fam = "ip" /\ q.proto = proto /\ q.dst = d.addr /\ q.dport \in d.ports
           /\ q.odport \in s.ports /\ s.bind \in {Every, q.odst} /\ LetIn(r, q)
<1>1. s.ports # {} /\ d.ports # {}
  BY DEF WellFormed, Dests
<1>2. QED
  BY <1>1, MatchFields, OnlyIs DEF OnwardMatch, LetIn, ForSource
LEMMA HomewardMeans ==
  ASSUME NEW s, WellFormed(s), NEW d \in Dests(s), NEW proto, NEW r, r.fam = s.fam,
         HomewardMatch(s, d, proto, r), NEW q
  PROVE  Matches(r, q) <=>
           /\ s.fam = "ip" /\ q.proto = proto /\ q.src = d.addr /\ q.sport \in d.ports
           /\ q.odport \in s.ports /\ s.bind \in {Every, q.odst}
<1>1. s.ports # {} /\ d.ports # {}
  BY DEF WellFormed, Dests
<1>2. QED
  BY <1>1, MatchFields, OnlyIs DEF HomewardMatch

\* Where a list is held, a rule lets in the sources its owner admits.
LEMMA AdmitsMeans ==
  ASSUME NEW s, WellFormed(s), ListHeld(s), NEW r, Sourced(backend, s, r), NEW p
  PROVE  /\ LetIn(r, p) => Admits(s, p.src)
         /\ Admits(s, p.src) => MayUse(s, p.src)
         /\ Admits(s, p.src) /\ ForSource(p.src, r) => LetIn(r, p)
<1>0. s.listed \in BOOLEAN
  BY DEF WellFormed
<1>1. CASE s.listed
  <2>1. backend = "nftables" /\ {e \in kernel.lists : e[1] = s.id} = {s.id} \X SetOf(s)
    BY <1>1 DEF ListHeld
  <2>2. r.lists = {s.id} /\ r.match.src = {}
    BY <1>1, <2>1 DEF Sourced
  <2>3. <<s.id, p.src>> \in kernel.lists <=> <<s.id, p.src>> \in {e \in kernel.lists : e[1] = s.id}
    OBVIOUS
  <2>4. <<s.id, p.src>> \in kernel.lists <=> p.src \in SetOf(s)
    BY <2>1, <2>3
  <2>5. LetIn(r, p) <=> p.src \in SetOf(s)
    BY <2>2, <2>4 DEF LetIn, ForSource
  <2>6. s.sources \subseteq SetOf(s)
    BY <1>1 DEF SetOf
  <2>7. Admits(s, p.src) <=> p.src \in SetOf(s)
    BY <1>1, <2>6 DEF Admits
  <2>8. QED
    BY <1>1, <2>5, <2>7 DEF MayUse
<1>2. CASE ~s.listed
  <2>1. /\ r.lists = {}
        /\ r.match.src = s.sources \/ \E x \in s.sources : r.match.src = {x}
    BY <1>2 DEF Sourced
  <2>2. Admits(s, p.src) <=> s.sources = {} \/ p.src \in s.sources
    BY <1>2 DEF Admits, SetOf
  <2>3. QED
    BY <1>2, <2>1, <2>2 DEF LetIn, ForSource, MayUse
<1>3. QED
  BY <1>0, <1>1, <1>2
\* A rule without a list lets in whom it admits, whatever the lists hold.
LEMMA UnlistedMeans ==
  ASSUME NEW s, WellFormed(s), ~s.listed
  PROVE  ListHeld(s)
  BY DEF ListHeld

\* A new connection meets the dnats and marks of rules that listen to it.
LEMMA NewHits ==
  ASSUME TypeOK, NEW p \in Packets, NEW chain \in {"prerouting", "output", "mark"}, NEW r \in Hits(chain, p)
  PROVE  \E s \in kernel.specs :
           /\ r \in Rendered(backend, s)
           /\ Listens(s, p) /\ s.iface \in {Every, p.iface} /\ Sourced(backend, s, r) /\ LetIn(r, p)
           /\ chain # "mark" => Takes(backend, s, p.proto, chain, r)
           /\ chain = "mark" => Marks(backend, s, p.proto, r)
<1>1. Matches(r, p) /\ r \in RulesIn(chain)
  BY DEF Hits
<1>2. PICK s \in kernel.specs : r \in Rendered(backend, s) /\ r.chain = chain
  BY <1>1, RulesHeld DEF Roles
<1>3. WellFormed(s) /\ backend \in Backends /\ s.listed \in BOOLEAN
  BY PoolRules DEF WellFormed
<1>4. PICK proto \in s.protos :
        \/ \E ch \in Entries(s) : Takes(backend, s, proto, ch, r)
        \/ Marks(backend, s, proto, r)
        \/ \E d \in Dests(s), ch \in CountsIn(backend, s) : Kind(backend, s, proto, d, ch, r)
  BY <1>2, <1>3, AllDescribed DEF Described
<1>5. ~ \E d \in Dests(s), ch \in CountsIn(backend, s) : Kind(backend, s, proto, d, ch, r)
  BY <1>2 DEF Kind, Caps, Lets, Translates, Shortens, Sends, Answers, Labelled, CountsIn, When
<1>6. CASE \E ch \in Entries(s) : Takes(backend, s, proto, ch, r)
  <2>1. PICK ch \in Entries(s) : Takes(backend, s, proto, ch, r)
    BY <1>6
  <2>2. ch = chain /\ chain # "mark" /\ r.fam = s.fam
    BY <1>2, <2>1 DEF Takes, Labelled, Entries, When
  <2>3. p.proto = proto /\ Listens(s, p) /\ s.iface \in {Every, p.iface} /\ LetIn(r, p)
    BY <1>1, <1>3, <2>1, <2>2, ArrivingMeans DEF Takes, Listens
  <2>4. QED
    BY <1>2, <2>1, <2>2, <2>3 DEF Takes
<1>7. CASE Marks(backend, s, proto, r)
  <2>1. chain = "mark" /\ r.fam = s.fam
    BY <1>2, <1>7 DEF Marks, Labelled
  <2>2. p.proto = proto /\ Listens(s, p) /\ s.iface \in {Every, p.iface} /\ LetIn(r, p)
    BY <1>1, <1>3, <1>7, <2>1, ArrivingMeans DEF Marks, Listens
  <2>3. QED
    BY <1>2, <1>7, <2>1, <2>2 DEF Marks
<1>8. QED
  BY <1>4, <1>5, <1>6, <1>7

\* The packets of a connection p opened that s relays to d, and their replies.
Leg(q, s, p, d, n) ==
  \/ q = To(p, d, n)
  \/ q = Reply(p, d, n)
\* They meet the rules of s alone, those of their own direction.
LEMMA LegHits ==
  ASSUME TypeOK, NEW p \in Packets, NEW s \in kernel.specs, Listens(s, p), NEW d, NEW n,
         NEW q, Leg(q, s, p, d, n), NEW chain \in Roles \ {"prerouting", "output", "mark"},
         NEW r \in Hits(chain, q)
  PROVE  \E e \in Dests(s), ch \in CountsIn(backend, s) :
           /\ Kind(backend, s, p.proto, e, ch, r) /\ r.chain = chain
           /\ q = To(p, d, n) => ~Answers(backend, s, e, p.proto, ch, r)
           /\ q = Reply(p, d, n) => Answers(backend, s, e, p.proto, ch, r)
<1>1. Matches(r, q) /\ r \in RulesIn(chain)
  BY DEF Hits
<1>2. PICK t \in kernel.specs : r \in Rendered(backend, t) /\ r.chain = chain
  BY <1>1, RulesHeld
<1>3. WellFormed(t) /\ backend \in Backends /\ t.listed \in BOOLEAN
  BY PoolRules DEF WellFormed
<1>4. PICK proto \in t.protos :
        \/ \E ch \in Entries(t) : Takes(backend, t, proto, ch, r)
        \/ Marks(backend, t, proto, r)
        \/ \E e \in Dests(t), ch \in CountsIn(backend, t) : Kind(backend, t, proto, e, ch, r)
  BY <1>2, <1>3, AllDescribed DEF Described
<1>5. PICK e \in Dests(t), ch \in CountsIn(backend, t) : Kind(backend, t, proto, e, ch, r)
  BY <1>2, <1>4 DEF Takes, Marks, Labelled, Entries, When
<1>6. q.proto = p.proto /\ q.odst = p.dst /\ q.odport = p.dport
  BY ToFields, ReplyFields DEF Leg
<1>7. q = To(p, d, n) => q.sport = 0
  BY ToFields
<1>8. q = Reply(p, d, n) => q.dport = 0
  BY ReplyFields
<1>9. 0 \notin e.ports
  BY <1>3 DEF WellFormed, Dests
<1>10. r.fam = t.fam
  BY <1>5 DEF Kind, Caps, Lets, Translates, Shortens, Sends, Answers, Labelled
<1>11. \/ OnwardMatch(t, e, proto, r) /\ ~Answers(backend, t, e, proto, ch, r)
       \/ Answers(backend, t, e, proto, ch, r)
  BY <1>5 DEF Kind, Caps, Lets, Translates, Shortens, Sends
<1>12. CASE OnwardMatch(t, e, proto, r) /\ ~Answers(backend, t, e, proto, ch, r)
  <2>1. /\ t.fam = "ip" /\ q.proto = proto /\ q.dport \in e.ports
        /\ q.odport \in t.ports /\ t.bind \in {Every, q.odst}
    BY <1>1, <1>3, <1>10, <1>12, OnwardMeans
  <2>2. Listens(t, p)
    BY <1>6, <2>1 DEF Listens
  <2>3. s = t /\ proto = p.proto /\ q # Reply(p, d, n)
    BY <1>6, <1>8, <1>9, <2>1, <2>2, OneListener
  <2>4. QED
    BY <1>2, <1>5, <1>12, <2>3
<1>13. CASE Answers(backend, t, e, proto, ch, r)
  <2>1. /\ t.fam = "ip" /\ q.proto = proto /\ q.sport \in e.ports
        /\ q.odport \in t.ports /\ t.bind \in {Every, q.odst}
    BY <1>1, <1>3, <1>10, <1>13, HomewardMeans DEF Answers
  <2>2. Listens(t, p)
    BY <1>6, <2>1 DEF Listens
  <2>3. s = t /\ proto = p.proto /\ q # To(p, d, n)
    BY <1>6, <1>7, <1>9, <2>1, <2>2, OneListener
  <2>4. QED
    BY <1>2, <1>5, <1>13, <2>3
<1>14. QED
  BY <1>11, <1>12, <1>13

\* Of rules at one place none comes before another.
LEMMA NotBefore ==
  ASSUME NEW s, WellFormed(s), NEW q, NEW r,
         q.order = s.order, r.order = s.order, q.id = s.id, r.id = s.id
  PROVE  Before(q, r) <=> q.rung < r.rung
  BY DEF Before, WellFormed

\* What is rendered is hit, unless something was taken away.
AllThere == taken = {} /\ (backend = "nftables" \/ kernel.jumps = Roles)
LEMMA RenderedHits ==
  ASSUME TypeOK, AllThere, NEW s \in kernel.specs, NEW r \in Rendered(backend, s), r.chain \in Roles,
         NEW p, Matches(r, p)
  PROVE  r \in Hits(r.chain, p)
  BY RulesHeld DEF Hits, AllThere

\* The packets of a connection get the NAT of the rule that claimed it, if that is
\* still there, and no other.
LEMMA OneTranslation ==
  ASSUME TypeOK, NEW p \in Packets, NEW s \in kernel.specs, Listens(s, p), NEW d, NEW n,
         s.nat # "none" => Hits("postrouting", To(p, d, n)) # {}
  PROVE  Translated(To(p, d, n)) = {s.nat} \ {"none"}
<1>1. PICK q : q = To(p, d, n)
  OBVIOUS
<1>2. WellFormed(s)
  BY PoolRules
<1>3. ASSUME NEW r \in Hits("postrouting", q) PROVE \E e \in Dests(s) : Translates(s, e, p.proto, r)
  <2>1. PICK e \in Dests(s), ch \in CountsIn(backend, s) :
          /\ Kind(backend, s, p.proto, e, ch, r) /\ r.chain = "postrouting"
          /\ ~Answers(backend, s, e, p.proto, ch, r)
    BY <1>1, LegHits DEF Leg, Roles
  <2>2. QED
    BY <2>1 DEF Kind, Caps, Lets, Shortens, Sends, Labelled, CountsIn, When
<1>4. CASE s.nat = "none"
  <2>1. Hits("postrouting", q) = {}
    BY <1>3, <1>4 DEF Translates
  <2>2. QED
    BY <1>1, <1>4, <2>1 DEF Translated, First
<1>5. CASE s.nat # "none"
  <2>1. PICK r : r \in Hits("postrouting", q)
    BY <1>1, <1>5
  <2>2. \A t \in Hits("postrouting", q) : t.act = s.nat /\ t.rung = 0 /\ t.order = s.order /\ t.id = s.id
    BY <1>3 DEF Translates, Labelled
  <2>3. \A t, u \in Hits("postrouting", q) : ~Before(t, u)
    BY <1>2, <2>2, NotBefore
  <2>4. First(Hits("postrouting", q)) = Hits("postrouting", q)
    BY <2>3 DEF First
  <2>5. QED
    BY <1>1, <1>5, <2>1, <2>2, <2>4 DEF Translated
<1>6. QED
  BY <1>4, <1>5

\* A relayed connection gets the NAT, mark, clamping, permission and counters of
\* the rule that claimed it.
LEMMA PromiseKept ==
  ASSUME TypeOK, AllThere, NEW s \in kernel.specs, ListHeld(s), NEW p \in Packets, Claims(s, p),
         NEW d \in Dests(s), NEW n \in d.ports
  PROVE  Relayed(s, p, To(p, d, n), Reply(p, d, n))
<1> DEFINE q == To(p, d, n)
           back == Reply(p, d, n)
<1>1. WellFormed(s) /\ backend \in Backends /\ backend \in {"nftables", "iptables"}
  BY PoolRules
<1>2. s.listed \in BOOLEAN /\ s.local \in BOOLEAN /\ s.mss \in BOOLEAN /\ s.marked \in BOOLEAN
  BY <1>1 DEF WellFormed
<1>3. Listens(s, p) /\ s.iface \in {Every, p.iface} /\ Admits(s, p.src) /\ p.proto \in s.protos
  BY DEF Claims, Listens
<1>4. MayUse(s, p.src)
  BY <1>3 DEF Admits, MayUse, SetOf
<1>5. /\ q.proto = p.proto /\ q.iface = p.iface /\ q.src = p.src /\ q.dst = d.addr /\ q.dport = n
      /\ q.odst = p.dst /\ q.odport = p.dport
  BY ToFields
<1>6. /\ back.proto = p.proto /\ back.iface = p.iface /\ back.src = d.addr /\ back.sport = n
      /\ back.odst = p.dst /\ back.odport = p.dport
  BY ReplyFields
<1>7. Leg(q, s, p, d, n) /\ Leg(back, s, p, d, n) /\ q = To(p, d, n) /\ back = Reply(p, d, n)
  BY DEF Leg
<1> HIDE DEF q, back
<1>8. ASSUME NEW chain \in Roles \ {"prerouting", "output", "mark"}, NEW r \in Hits(chain, q)
      PROVE  \E e \in Dests(s), ch \in CountsIn(backend, s) :
               /\ Kind(backend, s, p.proto, e, ch, r) /\ r.chain = chain
               /\ ~Answers(backend, s, e, p.proto, ch, r)
  BY <1>3, <1>7, LegHits
<1>9. ASSUME NEW r \in Rendered(backend, s), r.chain \in Roles, r.fam = s.fam,
             OnwardMatch(s, d, p.proto, r), LetIn(r, p)
      PROVE  r \in Hits(r.chain, q)
  <2>1. LetIn(r, q)
    BY <1>5, <1>9 DEF LetIn
  <2>2. Matches(r, q)
    BY <1>1, <1>3, <1>5, <1>9, <2>1, OnwardMeans DEF Listens
  <2>3. QED
    BY <1>9, <2>2, RenderedHits
<1>10. \A r : Unsourced(r) => LetIn(r, p)
  BY DEF Unsourced, LetIn, ForSource
<1>11. Translated(q) = {s.nat} \ {"none"}
  <2>1. s.nat # "none" => Hits("postrouting", q) # {}
    <3>1. ASSUME s.nat # "none" PROVE Hits("postrouting", q) # {}
      <4>1. PICK r \in Rendered(backend, s) : Translates(s, d, p.proto, r)
        BY <1>1, <1>3, <3>1, TheRestIsThere
      <4>2. r \in Hits("postrouting", q)
        BY <1>9, <1>10, <4>1 DEF Translates, Labelled, Roles
      <4>3. QED
        BY <4>2
    <3>2. QED
      BY <3>1
  <2>2. QED
    BY <1>3, <1>7, <2>1, OneTranslation
<1>12. Marked(p) <=> ~IsOwn(p) /\ s.marked
  <2>1. ASSUME NEW r \in Hits("mark", p) PROVE s.marked
    <3>1. PICK t \in kernel.specs : Listens(t, p) /\ Marks(backend, t, p.proto, r)
      BY NewHits
    <3>2. t = s
      BY <1>3, <3>1, OneListener
    <3>3. QED
      BY <3>1, <3>2 DEF Marks
  <2>2. ASSUME s.marked PROVE Hits("mark", p) # {}
    <3>1. PICK r \in Rendered(backend, s) : Marks(backend, s, p.proto, r) /\ ForSource(p.src, r)
      BY <1>1, <1>2, <1>3, <1>4, <2>2, MarksIsThere
    <3>2. LetIn(r, p)
      BY <1>1, <1>3, <3>1, AdmitsMeans DEF Marks
    <3>3. Matches(r, p)
      BY <1>1, <1>3, <3>1, <3>2, ArrivingMeans DEF Marks, Labelled, Listens
    <3>4. QED
      BY <3>1, <3>3, RenderedHits DEF Marks, Labelled, Roles
  <2>3. QED
    BY <2>1, <2>2 DEF Marked
<1>13. Clamped(q) <=> ~IsOwn(p) /\ s.mss /\ p.proto = "tcp"
  <2>1. ASSUME NEW r \in Hits("mss", q) PROVE s.mss /\ p.proto = "tcp"
    BY <1>8, <2>1 DEF Roles, Kind, Caps, Lets, Translates, Shortens, Sends, Answers, Labelled, CountsIn, When
  <2>2. ASSUME s.mss, p.proto = "tcp" PROVE Hits("mss", q) # {}
    <3>1. PICK r \in Rendered(backend, s) : Shortens(s, d, p.proto, r)
      BY <1>1, <1>3, <2>2, TheRestIsThere
    <3>2. QED
      BY <1>9, <1>10, <3>1 DEF Shortens, Labelled, Roles
  <2>3. IsOwn(q) <=> IsOwn(p)
    BY <1>5 DEF IsOwn
  <2>4. QED
    BY <2>1, <2>2, <2>3 DEF Clamped
<1>14. Allowed(q)
  <2>1. PICK r \in Rendered(backend, s) : Lets(backend, s, d, p.proto, r) /\ ForSource(p.src, r)
    BY <1>1, <1>2, <1>3, <1>4, LetsIsThere
  <2>2. LetIn(r, p)
    BY <1>1, <1>3, <2>1, AdmitsMeans DEF Lets
  <2>3. r \in Hits("forward", q) /\ r.act = "accept"
    BY <1>9, <2>1, <2>2 DEF Lets, Labelled, Roles
  <2>4. QED
    BY <2>3 DEF Allowed
<1>15. /\ Counting(p) \in {"accounting", "local_accounting"}
       /\ Counting(p) \in Roles \ {"prerouting", "output", "mark"}
       /\ Counting(p) \in CountsIn(backend, s) <=> ~(backend = "iptables" /\ IsOwn(p))
  BY <1>1, <1>2 DEF Counting, CountsIn, When, Claims, Roles
<1>16. Acts(Counting(p), q) = Counted(s, p, "tx")
  <2>1. ASSUME NEW r \in Hits(Counting(p), q)
        PROVE  r.id = s.id /\ r.act = "tx" /\ Counting(p) \in CountsIn(backend, s)
    <3>1. PICK e \in Dests(s), ch \in CountsIn(backend, s) :
             /\ Kind(backend, s, p.proto, e, ch, r) /\ r.chain = Counting(p)
             /\ ~Answers(backend, s, e, p.proto, ch, r)
      BY <1>8, <1>15
    <3>2. Sends(backend, s, e, p.proto, ch, r)
      BY <1>15, <3>1 DEF Kind, Caps, Lets, Translates, Shortens, Labelled
    <3>3. QED
      BY <3>1, <3>2 DEF Sends, Labelled
  <2>2. ASSUME Counting(p) \in CountsIn(backend, s) PROVE \E r \in Hits(Counting(p), q) : TRUE
    <3>1. PICK r \in Rendered(backend, s) : Sends(backend, s, d, p.proto, Counting(p), r)
      BY <1>1, <1>3, <2>2, TheRestIsThere
    <3>2. r \in Hits(Counting(p), q)
      BY <1>9, <1>10, <1>15, <3>1 DEF Sends, Labelled
    <3>3. QED
      BY <3>2
  <2>3. QED
    BY <1>15, <2>1, <2>2 DEF Acts, Counted
<1>17. Acts(Counting(p), back) = Counted(s, p, "rx")
  <2>1. ASSUME NEW r \in Hits(Counting(p), back)
        PROVE  r.id = s.id /\ r.act = "rx" /\ Counting(p) \in CountsIn(backend, s)
    <3>1. PICK e \in Dests(s), ch \in CountsIn(backend, s) :
            r.chain = Counting(p) /\ Answers(backend, s, e, p.proto, ch, r)
      BY <1>3, <1>7, <1>15, LegHits
    <3>2. QED
      BY <3>1 DEF Answers, Labelled
  <2>2. ASSUME Counting(p) \in CountsIn(backend, s) PROVE \E r \in Hits(Counting(p), back) : TRUE
    <3>1. PICK r \in Rendered(backend, s) : Answers(backend, s, d, p.proto, Counting(p), r)
      BY <1>1, <1>3, <2>2, TheRestIsThere
    <3>2. Matches(r, back)
      BY <1>1, <1>3, <1>6, <3>1, HomewardMeans DEF Answers, Labelled, Listens
    <3>3. r \in Hits(Counting(p), back)
      BY <1>15, <3>1, <3>2, RenderedHits DEF Answers, Labelled
    <3>4. QED
      BY <3>3
  <2>3. QED
    BY <1>15, <2>1, <2>2 DEF Acts, Counted
<1>18. QED
  BY <1>7, <1>11, <1>12, <1>13, <1>14, <1>16, <1>17 DEF Relayed

(***************************************************************************)
(* Targets.                                                                *)
(***************************************************************************)
Slots(w, I) == UNION {{i} \X (1 .. w[i]) : i \in I}
LEMMA SumFinite ==
  ASSUME NEW I, IsFiniteSet(I), NEW w, \A i \in I : w[i] \in Nat \ {0}
  PROVE  /\ Sum(w, I) \in Nat
         /\ IsFiniteSet(Slots(w, I)) /\ Sum(w, I) = Cardinality(Slots(w, I))
         /\ \A i \in I : w[i] <= Sum(w, I)
         /\ I = {} => Sum(w, I) = 0
<1> DEFINE Part(i) == {i} \X (1 .. w[i])
<1>1. PICK f : f = [i \in I |-> Part(i)]
  OBVIOUS
<1>2. PICK S : S = {Part(i) : i \in I}
  OBVIOUS
<1>3. f \in Surjection(I, S)
  BY <1>1, <1>2 DEF Surjection
<1>4. IsFiniteSet(S)
  BY <1>3, FS_Surjection
<1>5. ASSUME NEW i \in I PROVE IsFiniteSet(Part(i)) /\ Cardinality(Part(i)) = w[i]
  <2>1. w[i] \in Nat
    OBVIOUS
  <2>2. IsFiniteSet(1 .. w[i]) /\ Cardinality(1 .. w[i]) = w[i]
    BY <2>1, FS_Interval
  <2>3. IsFiniteSet({i}) /\ Cardinality({i}) = 1
    BY FS_Singleton
  <2>4. PICK A, B : A = {i} /\ B = 1 .. w[i]
    OBVIOUS
  <2>5. IsFiniteSet(A \X B) /\ Cardinality(A \X B) = Cardinality(A) * Cardinality(B)
    BY <2>2, <2>3, <2>4, FS_Product
  <2>6. Cardinality(A) = 1 /\ Cardinality(B) = w[i]
    BY <2>2, <2>3, <2>4
  <2>7. 1 * w[i] = w[i]
    BY <2>1
  <2>8. QED
    BY <2>4, <2>5, <2>6, <2>7
<1>6. \A T \in S : IsFiniteSet(T)
  BY <1>2, <1>5
<1>7. IsFiniteSet(UNION S)
  BY <1>4, <1>6, FS_UNION
<1>8. Sum(w, I) = Cardinality(UNION S)
  BY <1>2 DEF Sum
<1>9. ASSUME NEW i \in I PROVE w[i] <= Sum(w, I)
  <2>1. Part(i) \in SUBSET UNION S
    BY <1>2
  <2>2. Cardinality(Part(i)) <= Cardinality(UNION S)
    BY <1>7, <2>1, FS_Subset
  <2>3. QED
    BY <1>5, <1>8, <2>2
<1>10. Sum(w, I) \in Nat
  BY <1>7, <1>8, FS_CardinalityType
<1>11. I = {} => Sum(w, I) = 0
  BY FS_EmptySet DEF Sum
<1>12. IsFiniteSet(Slots(w, I)) /\ Sum(w, I) = Cardinality(Slots(w, I))
  BY <1>2, <1>7 DEF Slots, Sum
<1>13. QED
  BY <1>9, <1>10, <1>11, <1>12

LEMMA Quotients == ASSUME NEW w \in Nat \ {0}, NEW x \in Nat, w <= x PROVE x \div w \in Nat \ {0}
<1>1. x \div w \in Nat /\ x % w \in 0 .. w - 1 /\ x = ((x \div w) * w) + (x % w)
  OBVIOUS
<1>2. PICK d, r : d = x \div w /\ r = x % w
  OBVIOUS
<1>3. x = (d * w) + r /\ r < w /\ d \in Nat /\ r \in Int
  BY <1>1, <1>2
<1>4. d # 0
  <2>1. SUFFICES ASSUME d = 0 PROVE FALSE
    OBVIOUS
  <2>2. d * w = 0
    BY <2>1
  <2>3. QED
    BY <1>3, <2>2
<1>5. QED
  BY <1>2, <1>3, <1>4
LEMMA Factors == ASSUME NEW x \in Nat \ {0}, NEW y \in Nat \ {0} PROVE x * y \in Nat \ {0}
  OBVIOUS
LEMMA Remainders == ASSUME NEW x \in Nat, NEW y \in Nat \ {0} PROVE x % y \in Nat /\ x % 1 = 0
  OBVIOUS

\* A dnat has targets, all of them destinations of its rule, each with a weight.
TargetsKnown(s, a) ==
  /\ a.every \in Nat \ {0}
  /\ \E n \in Nat \ {0} :
       /\ DOMAIN a.to = 1 .. n /\ Len(a.to) = n
       /\ \A i \in 1 .. n : a.to[i] \in Dests(s) /\ a.weights[i] \in Nat \ {0}
LEMMA DnatKnown ==
  ASSUME NEW s, NEW e \in Nat \ {0}, NEW to, NEW w, NEW sticky, NEW n \in Nat \ {0},
         DOMAIN to = 1 .. n, Len(to) = n,
         \A i \in 1 .. n : to[i] \in Dests(s) /\ w[i] \in Nat \ {0}
  PROVE  TargetsKnown(s, Dnat(e, to, w, sticky)) /\ Dnat(e, to, w, sticky).every = e
  BY DEF TargetsKnown, Dnat
LEMMA WeightsKnown ==
  ASSUME NEW b, NEW s, WellFormed(s), Renderable(b, s)
  PROVE  /\ Len(s.dests) \in Nat \ {0} /\ DOMAIN s.dests = 1 .. Len(s.dests)
         /\ \A i \in 1 .. Len(s.dests) :
              /\ s.dests[i] \in Dests(s)
              /\ Weights(s)[i] \in Nat \ {0} /\ Even(s.dests)[i] \in Nat \ {0}
         /\ DOMAIN Weights(s) = DOMAIN s.dests /\ DOMAIN Even(s.dests) = DOMAIN s.dests
         /\ Mode(s) \in {"round_robin", "source_hash", "weighted"}
  BY DEF WellFormed, Renderable, Dests, Weights, Even, Mode
LEMMA LadderKnown ==
  ASSUME NEW b, NEW s, WellFormed(s), Renderable(b, s), NEW w, DOMAIN w = DOMAIN s.dests,
         \A i \in DOMAIN s.dests : w[i] \in Nat \ {0}
  PROVE  /\ DOMAIN Ladder(s, w) = 1 .. Len(s.dests)
         /\ \A i \in 1 .. Len(s.dests) : TargetsKnown(s, Ladder(s, w)[i])
         /\ Ladder(s, w)[Len(s.dests)].every = 1
<1>1. /\ Len(s.dests) \in Nat \ {0} /\ DOMAIN s.dests = 1 .. Len(s.dests)
      /\ \A i \in 1 .. Len(s.dests) : s.dests[i] \in Dests(s)
  BY WeightsKnown
<1>2. ASSUME NEW i \in 1 .. Len(s.dests), NEW e \in Nat \ {0}
      PROVE  TargetsKnown(s, Dnat(e, <<s.dests[i]>>, <<1>>, FALSE)) /\ Dnat(e, <<s.dests[i]>>, <<1>>, FALSE).every = e
  <2> DEFINE to == <<s.dests[i]>>
             ones == <<1>>
  <2>1. DOMAIN to = 1 .. 1 /\ Len(to) = 1 /\ to[1] = s.dests[i] /\ ones[1] = 1
    OBVIOUS
  <2>2. \A j \in 1 .. 1 : to[j] \in Dests(s) /\ ones[j] \in Nat \ {0}
    BY <1>1, <2>1
  <2> HIDE DEF to, ones
  <2>3. TargetsKnown(s, Dnat(e, to, ones, FALSE)) /\ Dnat(e, to, ones, FALSE).every = e
    <3>1. PICK n, no : n = 1 /\ no = FALSE
      OBVIOUS
    <3>2. n \in Nat \ {0} /\ DOMAIN to = 1 .. n /\ Len(to) = n
          /\ \A j \in 1 .. n : to[j] \in Dests(s) /\ ones[j] \in Nat \ {0}
      BY <2>1, <2>2, <3>1
    <3>3. TargetsKnown(s, Dnat(e, to, ones, no)) /\ Dnat(e, to, ones, no).every = e
      BY <3>2, DnatKnown
    <3>4. QED
      BY <3>1, <3>3
  <2>4. QED
    BY <2>3 DEF to, ones
<1>3. ASSUME NEW i \in 1 .. Len(s.dests) PROVE Remaining(w, i) \div w[i] \in Nat \ {0}
  <2> DEFINE I == {j \in DOMAIN w : j >= i}
  <2>1. IsFiniteSet(I) /\ i \in I
    <3>1. IsFiniteSet(1 .. Len(s.dests))
      BY <1>1, FS_Interval
    <3>2. I \in SUBSET (1 .. Len(s.dests)) /\ i \in I
      BY <1>1
    <3>3. QED
      BY <3>1, <3>2, FS_Subset
  <2>2. \A j \in I : w[j] \in Nat \ {0}
    BY <1>1
  <2>3. Remaining(w, i) = Sum(w, I)
    BY DEF Remaining
  <2> HIDE DEF I
  <2>4. Sum(w, I) \in Nat /\ w[i] <= Sum(w, I)
    BY <2>1, <2>2, SumFinite
  <2>5. QED
    BY <2>1, <2>2, <2>3, <2>4, Quotients
<1>4. ASSUME NEW i \in 1 .. Len(s.dests)
      PROVE  TargetsKnown(s, Ladder(s, w)[i]) /\ (i = Len(s.dests) => Ladder(s, w)[i].every = 1)
  <2> DEFINE e == IF i = Len(s.dests) THEN 1 ELSE Remaining(w, i) \div w[i]
  <2>1. e \in Nat \ {0} /\ (i = Len(s.dests) => e = 1)
    BY <1>3
  <2>2. Ladder(s, w)[i] = Dnat(e, <<s.dests[i]>>, <<1>>, FALSE)
    BY <1>1 DEF Ladder
  <2> HIDE DEF e
  <2>3. QED
    BY <1>2, <2>1, <2>2
<1>5. DOMAIN Ladder(s, w) = 1 .. Len(s.dests)
  BY <1>1 DEF Ladder
<1>6. Len(s.dests) \in 1 .. Len(s.dests)
  BY <1>1
<1>7. QED
  BY <1>4, <1>5, <1>6
LEMMA NftTargetsKnown ==
  ASSUME NEW b, NEW s, WellFormed(s), Renderable(b, s)
  PROVE  TargetsKnown(s, NftTargets(s)) /\ NftTargets(s).every = 1
<1>1. /\ Len(s.dests) \in Nat \ {0} /\ DOMAIN s.dests = 1 .. Len(s.dests)
      /\ \A i \in 1 .. Len(s.dests) :
           /\ s.dests[i] \in Dests(s)
           /\ Weights(s)[i] \in Nat \ {0} /\ Even(s.dests)[i] \in Nat \ {0}
      /\ Mode(s) \in {"round_robin", "source_hash", "weighted"}
  BY WeightsKnown
<1>2. \A sticky : /\ TargetsKnown(s, Dnat(1, s.dests, Even(s.dests), sticky))
                  /\ TargetsKnown(s, Dnat(1, s.dests, Weights(s), sticky))
                  /\ Dnat(1, s.dests, Even(s.dests), sticky).every = 1
                  /\ Dnat(1, s.dests, Weights(s), sticky).every = 1
  BY <1>1, DnatKnown
<1>3. \/ NftTargets(s) = Dnat(1, s.dests, Even(s.dests), FALSE)
      \/ NftTargets(s) = Dnat(1, s.dests, Even(s.dests), TRUE)
      \/ NftTargets(s) = Dnat(1, s.dests, Weights(s), FALSE)
  <2>1. CASE ~Balanced(s)
    BY <2>1 DEF NftTargets
  <2>2. CASE Balanced(s) /\ Mode(s) = "round_robin"
    BY <2>2 DEF NftTargets
  <2>3. CASE Balanced(s) /\ Mode(s) = "source_hash"
    BY <2>3 DEF NftTargets
  <2>4. CASE Balanced(s) /\ Mode(s) = "weighted"
    BY <2>4 DEF NftTargets
  <2>5. QED
    BY <1>1, <2>1, <2>2, <2>3, <2>4
<1>4. QED
  BY <1>2, <1>3
LEMMA IptTargetsKnown ==
  ASSUME NEW b, NEW s, WellFormed(s), Renderable(b, s)
  PROVE  \E n \in Nat \ {0} :
           /\ DOMAIN IptTargets(s) = 1 .. n
           /\ \A i \in 1 .. n : TargetsKnown(s, IptTargets(s)[i])
           /\ IptTargets(s)[n].every = 1
<1>1. /\ Len(s.dests) \in Nat \ {0} /\ DOMAIN s.dests = 1 .. Len(s.dests)
      /\ \A i \in 1 .. Len(s.dests) :
           /\ s.dests[i] \in Dests(s)
           /\ Weights(s)[i] \in Nat \ {0} /\ Even(s.dests)[i] \in Nat \ {0}
      /\ DOMAIN Weights(s) = DOMAIN s.dests /\ DOMAIN Even(s.dests) = DOMAIN s.dests
      /\ Mode(s) \in {"round_robin", "source_hash", "weighted"}
  BY WeightsKnown
<1>2. ASSUME NEW a, IptTargets(s) = <<a>>, TargetsKnown(s, a), a.every = 1
      PROVE  \E n \in Nat \ {0} :
               /\ DOMAIN IptTargets(s) = 1 .. n
               /\ \A i \in 1 .. n : TargetsKnown(s, IptTargets(s)[i])
               /\ IptTargets(s)[n].every = 1
  <2>1. DOMAIN <<a>> = 1 .. 1 /\ <<a>>[1] = a
    OBVIOUS
  <2>2. DOMAIN IptTargets(s) = 1 .. 1 /\ IptTargets(s)[1] = a
    BY <1>2, <2>1
  <2>3. QED
    BY <1>2, <2>2
<1>3. \A sticky : /\ TargetsKnown(s, Dnat(1, s.dests, Even(s.dests), sticky))
                  /\ Dnat(1, s.dests, Even(s.dests), sticky).every = 1
  BY <1>1, DnatKnown
<1>4. \/ IptTargets(s) = <<Dnat(1, s.dests, Even(s.dests), FALSE)>>
      \/ IptTargets(s) = <<Dnat(1, s.dests, Even(s.dests), TRUE)>>
      \/ IptTargets(s) = Ladder(s, Even(s.dests))
      \/ IptTargets(s) = Ladder(s, Weights(s))
  <2>1. CASE ~Balanced(s)
    BY <2>1 DEF IptTargets
  <2>2. CASE Balanced(s) /\ Mode(s) = "round_robin"
    BY <2>2 DEF IptTargets
  <2>3. CASE Balanced(s) /\ Mode(s) = "source_hash"
    BY <2>3 DEF IptTargets
  <2>4. CASE Balanced(s) /\ Mode(s) = "weighted"
    BY <2>4 DEF IptTargets
  <2>5. QED
    BY <1>1, <2>1, <2>2, <2>3, <2>4
<1>5. CASE IptTargets(s) = Ladder(s, Even(s.dests))
  BY <1>1, <1>5, LadderKnown
<1>6. CASE IptTargets(s) = Ladder(s, Weights(s))
  BY <1>1, <1>6, LadderKnown
<1>7. QED
  BY <1>2, <1>3, <1>4, <1>5, <1>6

LEMMA NatMin == ASSUME NEW T \in SUBSET Nat, T # {} PROVE \E m \in T : \A k \in T : m <= k
<1>1. PICK R : R = OpToRel(<, Nat)
  OBVIOUS
<1>2. IsWellFoundedOn(R, Nat)
  BY <1>1, NatLessThanWellFounded
<1>3. PICK m \in T : \A k \in T : ~(<<k, m>> \in R)
  BY <1>2, WFMin
<1>4. \A x, y \in Nat : <<y, x>> \in R <=> y < x
  BY <1>1 DEF OpToRel
<1>5. ASSUME NEW k \in T PROVE m <= k
  <2>1. k \in Nat /\ m \in Nat /\ ~(k < m)
    BY <1>3, <1>4
  <2>2. QED
    BY <2>1
<1>6. QED
  BY <1>5

\* However many connections it has seen, a dnat picks the last of its targets whose
\* turn has come.
LEMMA PicksInTurn ==
  ASSUME NEW a, NEW n \in Nat \ {0}, DOMAIN a.to = 1 .. n, \A i \in 1 .. n : a.weights[i] \in Nat \ {0},
         NEW seen \in Nat
  PROVE  \E i \in 1 .. n :
           /\ Pick(a, seen) = a.to[i] /\ Sum(a.weights, 1 .. i - 1) <= seen
           /\ \A j \in 1 .. n : j > i => seen < Sum(a.weights, 1 .. j - 1)
<1>1. DOMAIN a.to = 1 .. n /\ \A i \in 1 .. n : a.weights[i] \in Nat \ {0}
  OBVIOUS
<1> DEFINE Come(i) == Sum(a.weights, 1 .. i - 1) <= seen
<1>2. \A i \in 1 .. n : Sum(a.weights, 1 .. i - 1) \in Nat
  <2>1. ASSUME NEW i \in 1 .. n PROVE Sum(a.weights, 1 .. i - 1) \in Nat
    <3>1. IsFiniteSet(1 .. i - 1)
      BY FS_Interval
    <3>2. \A j \in 1 .. i - 1 : a.weights[j] \in Nat \ {0}
      BY <1>1
    <3>3. QED
      BY <3>1, <3>2, SumFinite
  <2>2. QED
    BY <2>1
<1>3. Come(1)
  <2>1. 1 .. 1 - 1 = {}
    OBVIOUS
  <2>2. Sum(a.weights, 1 .. 1 - 1) = 0
    BY <2>1, FS_EmptySet, SumFinite
  <2>3. QED
    BY <2>2
<1>4. PICK T : T = {k \in Nat : k < n /\ Come(n - k)}
  OBVIOUS
<1>5. n - 1 \in T
  <2>1. n - 1 \in Nat /\ n - 1 < n /\ n - (n - 1) = 1
    BY <1>1
  <2>2. Come(n - (n - 1))
    BY <1>3, <2>1
  <2> HIDE DEF Come
  <2>3. QED
    BY <1>4, <2>1, <2>2
<1>6. PICK m \in T : \A k \in T : m <= k
  BY <1>4, <1>5, NatMin
<1>7. n - m \in 1 .. n /\ Come(n - m)
  BY <1>4, <1>6
<1>8. ASSUME NEW j \in 1 .. n, j > n - m PROVE seen < Sum(a.weights, 1 .. j - 1)
  <2>1. n - j \in Nat /\ n - j < n /\ n - j < m /\ n - (n - j) = j
    BY <1>4, <1>6, <1>8
  <2>2. ~Come(n - (n - j))
    <3> HIDE DEF Come
    <3>1. m \in Nat
      BY <1>4
    <3>2. n - j \notin T
      BY <1>6, <2>1, <3>1
    <3>3. QED
      BY <1>4, <2>1, <3>2
  <2>3. QED
    BY <1>2, <2>1, <2>2
<1> HIDE DEF Come
<1>9. \E i \in DOMAIN a.to :
        /\ Sum(a.weights, 1 .. i - 1) <= seen
        /\ \A j \in DOMAIN a.to : j > i => seen < Sum(a.weights, 1 .. j - 1)
  BY <1>1, <1>7, <1>8 DEF Come
<1>10. PICK i \in DOMAIN a.to :
         /\ Pick(a, seen) = a.to[i] /\ Sum(a.weights, 1 .. i - 1) <= seen
         /\ \A j \in DOMAIN a.to : j > i => seen < Sum(a.weights, 1 .. j - 1)
  BY <1>9 DEF Pick
<1>11. QED
  BY <1>1, <1>10
LEMMA PicksATarget ==
  ASSUME NEW s, NEW a, TargetsKnown(s, a), NEW seen \in Nat
  PROVE  Pick(a, seen) \in Dests(s)
<1>1. PICK n \in Nat \ {0} :
        /\ DOMAIN a.to = 1 .. n /\ Len(a.to) = n
        /\ \A i \in 1 .. n : a.to[i] \in Dests(s) /\ a.weights[i] \in Nat \ {0}
  BY DEF TargetsKnown
<1>2. PICK i \in 1 .. n : Pick(a, seen) = a.to[i]
  BY <1>1, PicksInTurn
<1>3. QED
  BY <1>1, <1>2

(***************************************************************************)
(* Who takes a new connection.                                             *)
(***************************************************************************)
LEMMA TurnsKnown ==
  ASSUME TypeOK, NEW chain \in {"prerouting", "output"}, NEW r \in RulesIn(chain)
  PROVE  turn[r] \in Nat
<1>1. turn \in [RulesOf(backend, kernel.specs)["prerouting"]
                  \cup RulesOf(backend, kernel.specs)["output"] -> Nat]
  BY DEF TypeOK, Fresh
<1>2. r \in RulesOf(backend, kernel.specs)["prerouting"] \cup RulesOf(backend, kernel.specs)["output"]
  BY DEF RulesIn
<1>3. QED
  BY <1>1, <1>2

\* What a dnat of s gives its connections to, and where it stands in the ladder.
LEMMA TakesTargets ==
  ASSUME NEW b \in Backends, NEW s, WellFormed(s), Renderable(b, s),
         NEW proto, NEW chain, NEW r, Takes(b, s, proto, chain, r)
  PROVE  TargetsKnown(s, r.arg) /\ r.rung \in Nat
<1>1. CASE b = "nftables"
  BY <1>1, NftTargetsKnown DEF Takes, TargetsOf
<1>2. CASE b # "nftables"
  <2>1. PICK n \in Nat \ {0} : /\ DOMAIN IptTargets(s) = 1 .. n
                               /\ \A i \in 1 .. n : TargetsKnown(s, IptTargets(s)[i])
    BY IptTargetsKnown
  <2>2. PICK i \in DOMAIN IptTargets(s) : r.rung = i /\ r.arg = IptTargets(s)[i]
    BY <1>2 DEF Takes, TargetsOf
  <2>3. i \in 1 .. n
    BY <2>1, <2>2
  <2>4. QED
    BY <2>1, <2>2, <2>3
<1>3. QED
  BY <1>1, <1>2
\* The last rung of a ladder takes every connection that reaches it.
LEMMA LastRung ==
  ASSUME NEW b \in Backends, NEW s, WellFormed(s), Renderable(b, s)
  PROVE  \E i \in (IF b = "nftables" THEN {0} ELSE DOMAIN IptTargets(s)) :
           \A r : TargetsOf(b, s, r) /\ r.rung = i => r.arg.every = 1
<1>1. CASE b = "nftables"
  BY <1>1, NftTargetsKnown DEF TargetsOf
<1>2. CASE b # "nftables"
  <2>1. PICK n \in Nat \ {0} : DOMAIN IptTargets(s) = 1 .. n /\ IptTargets(s)[n].every = 1
    BY IptTargetsKnown
  <2>2. n \in DOMAIN IptTargets(s)
    BY <2>1
  <2>3. \A r : TargetsOf(b, s, r) /\ r.rung = n => r.arg.every = 1
    BY <1>2, <2>1 DEF TargetsOf
  <2>4. QED
    BY <1>2, <2>2, <2>3
<1>3. QED
  BY <1>1, <1>2

LEMMA EntryIs == ASSUME NEW p PROVE Entry(p) \in {"prerouting", "output"} /\ (IsOwn(p) => Entry(p) = "output") /\ (~IsOwn(p) => Entry(p) = "prerouting")
  BY DEF Entry

\* The dnats a packet meets are of one rule, which claims it but for the list.
Taker(s, p, o) ==
  /\ o \in Rendered(backend, s) /\ s.id = o.id
  /\ Listens(s, p) /\ s.iface \in {Every, p.iface} /\ (IsOwn(p) => s.local)
  /\ Sourced(backend, s, o) /\ LetIn(o, p)
  /\ Takes(backend, s, p.proto, Entry(p), o)
LEMMA HasTaker ==
  ASSUME TypeOK, NEW p \in Packets, NEW o \in Hits(Entry(p), p)
  PROVE  \E s \in kernel.specs : Taker(s, p, o)
<1>1. PICK s \in kernel.specs :
        /\ o \in Rendered(backend, s)
        /\ Listens(s, p) /\ s.iface \in {Every, p.iface} /\ Sourced(backend, s, o) /\ LetIn(o, p)
        /\ Takes(backend, s, p.proto, Entry(p), o)
  <2>1. PICK chain \in {"prerouting", "output"} : chain = Entry(p)
    BY EntryIs
  <2>2. o \in Hits(chain, p)
    BY <2>1
  <2>3. QED
    BY <2>1, <2>2, NewHits
<1>2. s.id = o.id /\ Entry(p) \in Entries(s)
  BY <1>1 DEF Takes, Labelled
<1>3. IsOwn(p) => s.local
  BY <1>2, EntryIs DEF Entries, When
<1>4. QED
  BY <1>1, <1>2, <1>3 DEF Taker
LEMMA TargetIsADest ==
  ASSUME TypeOK, NEW p \in Packets, NEW o \in Hits(Entry(p), p), NEW s \in kernel.specs, Taker(s, p, o)
  PROVE  Target(turn, p, o) \in Dests(s)
<1>1. TargetsKnown(s, o.arg)
  BY PoolRules, TakesTargets DEF Taker
<1>2. turn[o] \in Nat
  BY EntryIs, TurnsKnown DEF Hits
<1>3. Hash[p.src] \in Nat
  BY PacketFields, RulesetAssumption
<1>4. Len(o.arg.to) \in Nat \ {0}
  BY <1>1 DEF TargetsKnown
<1>5. PICK h, l, rest : h = Hash[p.src] /\ l = Len(o.arg.to) /\ rest = h % l
  OBVIOUS
<1>6. rest \in Nat
  BY <1>3, <1>4, <1>5, Remainders
<1>7. Target(turn, p, o) = Pick(o.arg, rest) \/ Target(turn, p, o) = Pick(o.arg, turn[o])
  BY <1>5 DEF Target
<1>8. QED
  BY <1>1, <1>2, <1>6, <1>7, PicksATarget

\* A dnat that takes every connection it meets leaves none untaken.
LEMMA SomeoneTakes ==
  ASSUME TypeOK, NEW p \in Packets, NEW r \in Hits(Entry(p), p), r.arg.every = 1
  PROVE  Takers(turn, p) # {}
<1> DEFINE Offering == {q \in Hits(Entry(p), p) : turn[q] % q.arg.every = 0}
<1>1. r \in Offering
  <2>1. turn[r] \in Nat
    BY EntryIs, TurnsKnown DEF Hits
  <2>2. turn[r] % 1 = 0
    BY <2>1, Remainders
  <2>3. QED
    BY <2>2
<1>2. PICK s \in kernel.specs : Taker(s, p, r)
  BY HasTaker
<1>3. WellFormed(s)
  BY PoolRules
<1>4. ASSUME NEW q \in Offering PROVE q.order = s.order /\ q.id = s.id /\ q.rung \in Nat
  <2>1. PICK t \in kernel.specs : Taker(t, p, q)
    BY HasTaker
  <2>2. s = t
    BY <1>2, <2>1, OneListener DEF Taker
  <2>3. QED
    BY <1>3, <2>1, <2>2, PoolRules, TakesTargets DEF Taker, Takes, Labelled
<1> HIDE DEF Offering
<1>5. PICK T : T = {q.rung : q \in Offering}
  OBVIOUS
<1>6. T \in SUBSET Nat /\ T # {}
  BY <1>1, <1>4, <1>5
<1>7. PICK m \in T : \A k \in T : m <= k
  BY <1>6, NatMin
<1>8. PICK o \in Offering : o.rung = m
  BY <1>5, <1>7
<1>9. ASSUME NEW q \in Offering PROVE ~Before(q, o)
  <2>1. m <= q.rung /\ m \in Nat /\ q.rung \in Nat
    BY <1>4, <1>5, <1>6, <1>7
  <2>2. Before(q, o) <=> q.rung < o.rung
    BY <1>3, <1>4, <1>8, NotBefore
  <2>3. QED
    BY <1>8, <2>1, <2>2
<1>10. o \in First(Offering)
  BY <1>8, <1>9 DEF First
<1>11. Takers(turn, p) = First(Offering)
  BY DEF Takers, Offering
<1>12. QED
  BY <1>10, <1>11

\* A rule that claims a packet gets it.
LEMMA ClaimerTakes ==
  ASSUME TypeOK, AllThere, NEW s \in kernel.specs, ListHeld(s), NEW p \in Packets, Claims(s, p)
  PROVE  Takers(turn, p) # {}
<1>1. WellFormed(s) /\ Renderable(backend, s) /\ backend \in Backends
  BY PoolRules
<1>2. s.listed \in BOOLEAN /\ p.proto \in s.protos /\ Listens(s, p) /\ s.iface \in {Every, p.iface}
  BY <1>1 DEF WellFormed, Claims, Listens
<1>3. Entry(p) \in Entries(s) /\ Entry(p) \in Roles
  BY EntryIs DEF Claims, Entries, When, Roles
<1>4. Admits(s, p.src)
  BY DEF Claims
<1>5. MayUse(s, p.src)
  BY <1>4 DEF Admits, MayUse, SetOf
<1>6. PICK i \in (IF backend = "nftables" THEN {0} ELSE DOMAIN IptTargets(s)) :
        \A r : TargetsOf(backend, s, r) /\ r.rung = i => r.arg.every = 1
  BY <1>1, LastRung
<1>7. PICK r \in Rendered(backend, s) :
        Takes(backend, s, p.proto, Entry(p), r) /\ r.rung = i /\ ForSource(p.src, r)
  BY <1>1, <1>2, <1>3, <1>5, TakesIsThere
<1>8. r.arg.every = 1 /\ r.chain = Entry(p) /\ r.fam = s.fam /\ Sourced(backend, s, r)
  BY <1>6, <1>7 DEF Takes, Labelled
<1>9. LetIn(r, p)
  BY <1>1, <1>4, <1>7, <1>8, AdmitsMeans
<1>10. Matches(r, p)
  BY <1>1, <1>2, <1>7, <1>8, <1>9, ArrivingMeans DEF Takes, Listens
<1>11. r \in Hits(Entry(p), p)
  BY <1>3, <1>8, <1>10, RenderedHits
<1>12. QED
  BY <1>8, <1>11, SomeoneTakes

\* What the rules do with a packet, from the parts of the invariant.
LEMMA Relaying ==
  ASSUME TypeOK, JumpsCome, ConnectionsAreCapped
  PROVE  RelaysAsPromised
<1> SUFFICES ASSUME Intact, \A s \in kernel.specs : ListHeld(s), NEW p \in Arriving \cup Own
             PROVE  LET owners == {s \in kernel.specs : Claims(s, p)} IN
                    /\ Takers(turn, p) = {} => owners = {} /\ ~Marked(p)
                    /\ \A o \in Takers(turn, p) : \E d \in {Target(turn, p, o)} : \E s \in owners :
                         /\ s.id = o.id /\ d \in Dests(s)
                         /\ \A n \in d.ports : Relayed(s, p, To(p, d, n), Reply(p, d, n))
  BY DEF RelaysAsPromised
<1> DEFINE owners == {s \in kernel.specs : Claims(s, p)}
<1>1. p \in Packets
  BY DEF Packets
<1>2. kernel.specs # {} => AllThere
  BY PoolRules DEF Intact, AllThere, JumpsCome
<1>3. ASSUME NEW s \in kernel.specs PROVE Claims(s, p) => Takers(turn, p) # {}
  BY <1>1, <1>2, ClaimerTakes
<1>4. ASSUME Marked(p) PROVE \E s \in kernel.specs : Claims(s, p)
  <2>1. PICK r : r \in Hits("mark", p) /\ ~IsOwn(p)
    BY <1>4 DEF Marked
  <2>2. PICK s \in kernel.specs :
          Listens(s, p) /\ s.iface \in {Every, p.iface} /\ Sourced(backend, s, r) /\ LetIn(r, p)
    BY <1>1, <2>1, NewHits
  <2>3. Admits(s, p.src)
    BY <2>2, PoolRules, AdmitsMeans
  <2>4. QED
    BY <2>1, <2>2, <2>3 DEF Claims, Listens
<1>5. ASSUME NEW o \in Takers(turn, p)
      PROVE  \E s \in owners :
               /\ s.id = o.id /\ Target(turn, p, o) \in Dests(s)
               /\ \A n \in Target(turn, p, o).ports :
                    Relayed(s, p, To(p, Target(turn, p, o), n), Reply(p, Target(turn, p, o), n))
  <2>1. o \in Hits(Entry(p), p)
    BY DEF Takers, First
  <2>2. PICK s \in kernel.specs : Taker(s, p, o)
    BY <1>1, <2>1, HasTaker
  <2>3. Target(turn, p, o) \in Dests(s)
    BY <1>1, <2>1, <2>2, TargetIsADest
  <2>4. Admits(s, p.src)
    BY <2>2, PoolRules, AdmitsMeans DEF Taker
  <2>5. Claims(s, p)
    BY <2>2, <2>4 DEF Claims, Taker, Listens
  <2>6. \A n \in Target(turn, p, o).ports :
          Relayed(s, p, To(p, Target(turn, p, o), n), Reply(p, Target(turn, p, o), n))
    BY <1>1, <1>2, <2>3, <2>5, PromiseKept
  <2>7. QED
    BY <2>2, <2>3, <2>5, <2>6 DEF Taker
<1>6. QED
  BY <1>3, <1>4, <1>5

(***************************************************************************)
(* The payload.                                                            *)
(***************************************************************************)
LEMMA PayloadFields ==
  ASSUME NEW f
  PROVE  /\ Payload(f).specs = f.specs
         /\ backend = "nftables" =>
              /\ Payload(f).declared.counters = f.retired /\ Payload(f).deleted.counters = f.retired
              /\ Payload(f).declared.chains = f.stale /\ Payload(f).deleted.chains = f.stale
              /\ Payload(f).counters = Ids(f.specs) /\ Payload(f).jumps = {}
              /\ Payload(f).elements = UNION {{s.id} \X SetOf(s) : s \in f.specs}
         /\ backend # "nftables" =>
              /\ Payload(f).declared.counters = {} /\ Payload(f).deleted.counters = {}
              /\ Payload(f).declared.chains = {} /\ Payload(f).deleted.chains = {}
              /\ Payload(f).counters = {} /\ Payload(f).jumps = Roles /\ Payload(f).elements = {}
  BY DEF Payload, NftPayload, IptPayload, Named
LEMMA AfterFields ==
  ASSUME NEW k, NEW t
  PROVE  /\ DOMAIN After(k, t) = DOMAIN NoRules
         /\ After(k, t).specs = t.specs
         /\ After(k, t).jumps = k.jumps \cup t.jumps
         /\ After(k, t).chains =
              ((k.chains \cup t.declared.chains) \ t.deleted.chains) \cup Chains(backend, t.specs)
  BY DEF After, NoRules
\* Every chain that is filled is one of the panel's, and nft can spell it.
LEMMA ChainsKnown ==
  ASSUME NEW b, NEW S
  PROVE  \A c \in Chains(b, S) : c \in Roles /\ c \in OwnedChains /\ Spells(c)
  BY DEF Chains, Roles, OwnedChains, Spells

\* A list no element of the payload or the kernel belongs to.
Unlisted(k, f) ==
  \E c \in Roles : \E r \in RulesOf(backend, f.specs)[c] : \E id \in r.lists :
    \A e \in k.lists \cup Payload(f).elements : e[1] # id
LEMMA RefusesMeans ==
  ASSUME NEW k, NEW f, \A c \in f.stale : Spells(c)
  PROVE  Refuses(k, Payload(f)) <=> Unlisted(k, f)
<1>1. /\ Payload(f).deleted.counters \subseteq Payload(f).declared.counters
      /\ Payload(f).deleted.chains \subseteq Payload(f).declared.chains
      /\ \A c \in Payload(f).declared.chains : Spells(c)
  BY PayloadFields
<1>2. Payload(f).specs = f.specs
  BY PayloadFields
<1>3. QED
  BY <1>1, <1>2 DEF Refuses, Unlisted
LEMMA RefusedForAList ==
  ASSUME TypeOK, NEW f, f.specs \in SUBSET pool, NEW k, Unlisted(k, f)
  PROVE  Unlisted(NoRules, f) /\ \E s \in f.specs : s.listed /\ SetOf(s) = {}
<1>1. PICK c, r, id : /\ c \in Roles /\ r \in RulesOf(backend, f.specs)[c] /\ id \in r.lists
                      /\ \A e \in k.lists \cup Payload(f).elements : e[1] # id
  BY DEF Unlisted
<1>2. NoRules.lists = {}
  BY DEF NoRules
<1>3. Unlisted(NoRules, f)
  BY <1>1, <1>2 DEF Unlisted
<1>4. backend \in Backends /\ backend \in {"nftables", "iptables"} /\ pool \in Pools
  BY PoolRules
<1>5. PICK s \in f.specs : r \in Rendered(backend, s)
  BY <1>1, <1>4, RulesOfChain
<1>6. s.listed \in BOOLEAN
  BY <1>5, PoolRules DEF WellFormed
<1>7. Described(backend, s, r)
  BY <1>4, <1>5, <1>6, AllDescribed
<1>8. r.lists = IF s.listed /\ backend = "nftables" THEN {s.id} ELSE {}
  BY <1>1, <1>7 DEF Described, Kind, Takes, Marks, Caps, Lets, Translates, Shortens, Sends, Answers,
                    Sourced, Unsourced, HomewardMatch
<1>9. s.listed /\ backend = "nftables" /\ id = s.id
  BY <1>1, <1>8
<1>10. {s.id} \X SetOf(s) \subseteq Payload(f).elements
  BY <1>5, <1>9, PayloadFields
<1>11. SetOf(s) = {}
  <2>1. ASSUME NEW x \in SetOf(s) PROVE FALSE
    <3>1. <<s.id, x>> \in Payload(f).elements
      BY <1>10
    <3>2. <<s.id, x>>[1] # id
      BY <1>1, <3>1
    <3>3. QED
      BY <1>9, <3>2
  <2>2. QED
    BY <2>1
<1>12. QED
  BY <1>3, <1>9, <1>11

\* What holds of the kernel after a payload it takes.
LEMMA AfterPayload ==
  ASSUME NEW f, NEW k, \A c \in f.stale : c \notin Chains("nftables", f.specs),
         \A c \in k.chains \cap OwnedChains :
           Spells(c) => c \in Chains("nftables", f.specs) \cup f.stale \/ backend # "nftables"
  PROVE  /\ DOMAIN After(k, Payload(f)) = DOMAIN NoRules
         /\ After(k, Payload(f)).specs = f.specs
         /\ backend = "nftables" =>
              /\ After(k, Payload(f)).jumps = k.jumps
              /\ {c \in After(k, Payload(f)).chains \cap OwnedChains : Spells(c)} = Chains(backend, f.specs)
         /\ backend # "nftables" => After(k, Payload(f)).jumps = k.jumps \cup Roles
<1>1. /\ DOMAIN After(k, Payload(f)) = DOMAIN NoRules
      /\ After(k, Payload(f)).specs = f.specs
      /\ backend = "nftables" =>
           /\ After(k, Payload(f)).jumps = k.jumps
           /\ After(k, Payload(f)).chains =
                ((k.chains \cup f.stale) \ f.stale) \cup Chains(backend, f.specs)
      /\ backend # "nftables" => After(k, Payload(f)).jumps = k.jumps \cup Roles
  <2>1. PICK t : t = Payload(f)
    OBVIOUS
  <2>2. /\ DOMAIN After(k, t) = DOMAIN NoRules /\ After(k, t).specs = t.specs
        /\ After(k, t).jumps = k.jumps \cup t.jumps
        /\ After(k, t).chains =
             ((k.chains \cup t.declared.chains) \ t.deleted.chains) \cup Chains(backend, t.specs)
    BY AfterFields
  <2>3. t.specs = f.specs /\ (backend # "nftables" => t.jumps = Roles)
    BY <2>1, PayloadFields
  <2>4. backend = "nftables" =>
          t.declared.chains = f.stale /\ t.deleted.chains = f.stale /\ t.jumps = {}
    BY <2>1, PayloadFields
  <2>5. backend = "nftables" => After(k, t).jumps = k.jumps
    BY <2>2, <2>4
  <2>6. QED
    BY <2>1, <2>2, <2>3, <2>4, <2>5
<1>2. ASSUME backend = "nftables"
      PROVE  {c \in After(k, Payload(f)).chains \cap OwnedChains : Spells(c)} = Chains(backend, f.specs)
  <2>1. PICK C, old, gone, now :
          /\ C = Chains("nftables", f.specs) /\ old = k.chains /\ gone = f.stale
          /\ now = After(k, Payload(f)).chains
    OBVIOUS
  <2>2. Chains(backend, f.specs) = C
    BY <1>2, <2>1
  <2>3. now = ((old \cup gone) \ gone) \cup C
    BY <1>1, <1>2, <2>1, <2>2
  <2>4. \A c \in C : c \in OwnedChains /\ Spells(c) /\ c \notin gone
    BY <2>1, ChainsKnown
  <2>5. \A c \in old \cap OwnedChains : Spells(c) => c \in C \cup gone
    BY <1>2, <2>1
  <2>6. {c \in now \cap OwnedChains : Spells(c)} = C
    BY <2>3, <2>4, <2>5
  <2>7. QED
    BY <2>1, <2>2, <2>6
<1>3. QED
  BY <1>1, <1>2

(***************************************************************************)
(* The invariant, action by action.                                        *)
(***************************************************************************)
\* The backend never changes, and with it what a payload does.
LEMMA SamePayload ==
  ASSUME backend' = backend, NEW f, NEW k
  PROVE  /\ Payload(f)' = Payload(f)
         /\ Refuses(k, Payload(f))' <=> Refuses(k, Payload(f))
         /\ After(k, Payload(f))' = After(k, Payload(f))
  BY DEF Payload, Refuses, After

\* What the type invariant says of the next state.
LEMMA NextType ==
  ASSUME TypeOK, backend' = backend, pool' = pool,
         DOMAIN kernel' = DOMAIN NoRules, kernel'.specs \in Installable(pool),
         \A f, g \in file' : f.specs \in Installable(pool) /\ f = g,
         turn' \in [RulesOf(backend, kernel'.specs)["prerouting"]
                      \cup RulesOf(backend, kernel'.specs)["output"] -> Nat],
         IsFiniteSet(conns')
  PROVE  TypeOK'
<1>1. backend' \in Backends /\ pool' \in Pools
  BY DEF TypeOK
<1>2. kernel'.specs \in Installable(pool)' /\ \A f, g \in file' : f.specs \in Installable(pool)' /\ f = g
  BY DEF Installable
<1>3. turn' \in [DOMAIN Fresh(kernel.specs)' -> Nat]
  BY DEF Fresh
<1>4. DOMAIN NoRules' = DOMAIN NoRules
  BY DEF NoRules
<1>5. QED
  BY <1>1, <1>2, <1>3, <1>4 DEF TypeOK

LEMMA FreshTurns ==
  ASSUME NEW S
  PROVE  Fresh(S) \in [RulesOf(backend, S)["prerouting"] \cup RulesOf(backend, S)["output"] -> Nat]
  BY DEF Fresh
LEMMA TypeMeans ==
  ASSUME TypeOK
  PROVE  /\ backend \in Backends /\ pool \in Pools
         /\ DOMAIN kernel = DOMAIN NoRules /\ kernel.specs \in Installable(pool)
         /\ \A f, g \in file : f.specs \in Installable(pool) /\ f = g
         /\ turn \in [RulesOf(backend, kernel.specs)["prerouting"]
                        \cup RulesOf(backend, kernel.specs)["output"] -> Nat]
         /\ IsFiniteSet(conns)
  BY DEF TypeOK, Fresh

LEMMA Starts == ASSUME Init PROVE RulesetInv
<1>1. kernel.specs = {} /\ kernel.jumps = {} /\ DOMAIN kernel = DOMAIN NoRules
  BY DEF Init, NoRules
<1>2. file = {} /\ conns = {} /\ backend \in Backends /\ pool \in Pools /\ turn = Fresh({})
  BY DEF Init
<1>3. TypeOK
  <2>1. {} \in Installable(pool)
    BY DEF Installable, Compatible
  <2>2. Fresh({}) \in [DOMAIN Fresh({}) -> Nat]
    BY DEF Fresh
  <2>3. IsFiniteSet(conns)
    BY <1>2, FS_EmptySet
  <2>4. QED
    BY <1>1, <1>2, <2>1, <2>2, <2>3 DEF TypeOK
<1>4. JumpsCome /\ StaleIsSpelled /\ NoneForgotten /\ PayloadReplays
  BY <1>1, <1>2 DEF JumpsCome, StaleIsSpelled, NoneForgotten, PayloadReplays
<1>5. ConnectionsAreCapped
  <2>1. ASSUME NEW s \in pool, NEW c \in Sources
        PROVE  Cardinality({k \in conns : k.of.src = c /\ k.of.id = s.id}) <= s.maxconn
    <3>1. PICK mine : mine = {k \in conns : k.of.src = c /\ k.of.id = s.id}
      OBVIOUS
    <3>2. s.maxconn \in Nat
      BY <1>3, PoolRules DEF WellFormed
    <3>3. mine = {} /\ Cardinality({}) = 0
      BY <1>2, <3>1, FS_EmptySet
    <3>4. Cardinality(mine) <= s.maxconn
      BY <3>2, <3>3
    <3>5. QED
      BY <3>1, <3>4
  <2>2. QED
    BY <2>1 DEF ConnectionsAreCapped
<1>6. QED
  BY <1>3, <1>4, <1>5 DEF RulesetInv

\* Closing connections, or losing some, breaks no limit.
LEMMA FewerConnections ==
  ASSUME TypeOK, NoneForgotten, ConnectionsAreCapped, backend' = backend, pool' = pool,
         backend = "nftables" => conns' \in SUBSET conns
  PROVE  NoneForgotten' /\ ConnectionsAreCapped'
<1>1. NoneForgotten'
  BY DEF NoneForgotten
<1>2. ASSUME backend = "nftables", NEW s \in {t \in pool : t.maxconn > 0}, NEW c \in Sources
      PROVE  Cardinality({k \in conns' : k.of.src = c /\ k.of.id = s.id}) <= s.maxconn
  <2>1. PICK new, old : /\ new = {k \in conns' : k.of.src = c /\ k.of.id = s.id}
                        /\ old = {k \in conns : k.of.src = c /\ k.of.id = s.id}
    OBVIOUS
  <2>2. new \in SUBSET old /\ old \in SUBSET conns
    BY <1>2, <2>1
  <2>3. IsFiniteSet(old) /\ IsFiniteSet(new)
    BY <2>2, TypeMeans, FS_Subset
  <2>4. Cardinality(new) <= Cardinality(old)
    BY <2>2, <2>3, FS_Subset
  <2>5. Cardinality(old) <= s.maxconn
    BY <1>2, <2>1 DEF ConnectionsAreCapped
  <2>6. Cardinality(new) \in Nat /\ Cardinality(old) \in Nat /\ s.maxconn \in Nat
    BY <1>2, <2>3, FS_CardinalityType, PoolRules DEF WellFormed
  <2>7. QED
    BY <2>1, <2>4, <2>5, <2>6
<1>3. QED
  BY <1>1, <1>2 DEF ConnectionsAreCapped

\* Whether the next state's file replays is a question about that file alone.
LEMMA ReplaysNext ==
  ASSUME backend' = backend, NEW f, file' = {f},
         Refuses(NoRules, Payload(f)) => \E s \in f.specs : s.listed /\ SetOf(s) = {},
         ~Refuses(NoRules, Payload(f)) =>
           /\ kernel'.specs = f.specs
           /\ Intact' => kernel'.jumps = After(NoRules, Payload(f)).jumps
           /\ backend = "nftables" =>
                {c \in kernel'.chains \cap OwnedChains : Spells(c)} = Chains(backend, f.specs)
  PROVE  PayloadReplays'
<1>1. PICK none : none = NoRules
  OBVIOUS
<1>2. /\ Refuses(none, Payload(f))' <=> Refuses(none, Payload(f))
      /\ After(none, Payload(f))' = After(none, Payload(f))
  BY SamePayload
<1>3. NoRules' = none
  BY <1>1 DEF NoRules
<1>4. Refuses(NoRules, Payload(f))' <=> Refuses(NoRules, Payload(f))
  BY <1>1, <1>2, <1>3
<1>5. After(NoRules, Payload(f))' = After(NoRules, Payload(f))
  BY <1>1, <1>2, <1>3
<1>6. QED
  BY <1>4, <1>5 DEF PayloadReplays
\* A payload into an empty kernel gives it the rules, and the jumps.
LEMMA IntoNothing ==
  ASSUME NEW f, \A c \in f.stale : c \notin Chains("nftables", f.specs)
  PROVE  /\ DOMAIN After(NoRules, Payload(f)) = DOMAIN NoRules
         /\ After(NoRules, Payload(f)).specs = f.specs
         /\ After(NoRules, Payload(f)).jumps = IF backend = "nftables" THEN {} ELSE Roles
         /\ backend = "nftables" =>
              {c \in After(NoRules, Payload(f)).chains \cap OwnedChains : Spells(c)} =
                Chains(backend, f.specs)
<1>1. NoRules.chains = {} /\ NoRules.jumps = {}
  BY DEF NoRules
<1>2. PICK none : none = NoRules
  OBVIOUS
<1>3. \A c \in none.chains \cap OwnedChains :
        Spells(c) => c \in Chains("nftables", f.specs) \cup f.stale \/ backend # "nftables"
  BY <1>1, <1>2
<1>4. /\ DOMAIN After(none, Payload(f)) = DOMAIN NoRules
      /\ After(none, Payload(f)).specs = f.specs
      /\ backend = "nftables" =>
           /\ After(none, Payload(f)).jumps = none.jumps
           /\ {c \in After(none, Payload(f)).chains \cap OwnedChains : Spells(c)} =
                Chains(backend, f.specs)
      /\ backend # "nftables" => After(none, Payload(f)).jumps = none.jumps \cup Roles
  BY <1>3, AfterPayload
<1>5. After(none, Payload(f)).jumps = IF backend = "nftables" THEN {} ELSE Roles
  BY <1>1, <1>2, <1>4
<1>6. QED
  BY <1>2, <1>4, <1>5

LEMMA AppliedKeeps ==
  ASSUME RulesetInv, NEW f, f.specs \in Installable(pool), backend' = backend, pool' = pool, file' = {f},
         \A c \in f.stale : Spells(c) /\ c \notin Chains("nftables", f.specs),
         \A c \in kernel.chains \cap OwnedChains :
           Spells(c) => c \in Chains("nftables", f.specs) \cup f.stale \/ backend # "nftables",
         \/ Refuses(kernel, Payload(f)) /\ UNCHANGED <<kernel, taken, turn, conns>>
         \/ /\ ~Refuses(kernel, Payload(f))
            /\ kernel' = After(kernel, Payload(f)) /\ taken' = {} /\ turn' = Fresh(f.specs)
            /\ conns' = {Known(c) : c \in conns}
  PROVE  RulesetInv'
<1>0. TypeOK /\ JumpsCome /\ NoneForgotten /\ ConnectionsAreCapped
  BY DEF RulesetInv
<1>1. f.specs \in SUBSET pool
  BY DEF Installable
<1>2. StaleIsSpelled'
  BY DEF StaleIsSpelled
<1>3. backend = "nftables" => conns' = conns
  <2>1. \A c : backend = "nftables" => Known(c) = c
    BY DEF Known
  <2>2. QED
    BY <2>1
<1>4. NoneForgotten' /\ ConnectionsAreCapped'
  BY <1>0, <1>3, FewerConnections
<1>5. IsFiniteSet(conns')
  <2>1. IsFiniteSet(conns)
    BY <1>0, TypeMeans
  <2>2. PICK all, fun : all = {Known(c) : c \in conns} /\ fun = [c \in conns |-> Known(c)]
    OBVIOUS
  <2>3. fun \in Surjection(conns, all)
    BY <2>2 DEF Surjection
  <2>4. IsFiniteSet(all)
    BY <2>1, <2>3, FS_Surjection
  <2>5. QED
    BY <2>1, <2>2, <2>4
<1>6. Refuses(NoRules, Payload(f)) => \E s \in f.specs : s.listed /\ SetOf(s) = {}
  <2>1. Refuses(NoRules, Payload(f)) => Unlisted(NoRules, f)
    BY RefusesMeans
  <2>2. QED
    BY <1>0, <1>1, <2>1, RefusedForAList
<1>7. CASE Refuses(kernel, Payload(f))
  <2>1. UNCHANGED <<kernel, taken, turn, conns>>
    BY <1>7
  <2>2. TypeOK'
    BY <1>0, <1>5, <2>1, TypeMeans, NextType
  <2>3. JumpsCome'
    BY <1>0, <2>1 DEF JumpsCome
  <2>4. Unlisted(kernel, f)
    BY <1>7, RefusesMeans
  <2>5. Unlisted(NoRules, f)
    BY <1>0, <1>1, <2>4, RefusedForAList
  <2>6. Refuses(NoRules, Payload(f))
    BY <2>5, RefusesMeans
  <2>7. PayloadReplays'
    BY <1>6, <2>6, ReplaysNext
  <2>8. QED
    BY <1>2, <1>4, <2>2, <2>3, <2>7 DEF RulesetInv
<1>8. CASE ~Refuses(kernel, Payload(f))
  <2>1. kernel' = After(kernel, Payload(f)) /\ taken' = {} /\ turn' = Fresh(f.specs)
    BY <1>8
  <2>2. /\ DOMAIN kernel' = DOMAIN NoRules /\ kernel'.specs = f.specs
        /\ backend = "nftables" =>
             /\ kernel'.jumps = kernel.jumps
             /\ {c \in kernel'.chains \cap OwnedChains : Spells(c)} = Chains(backend, f.specs)
        /\ backend # "nftables" => kernel'.jumps = kernel.jumps \cup Roles
    <3>1. PICK k : k = kernel
      OBVIOUS
    <3>2. \A c \in k.chains \cap OwnedChains :
            Spells(c) => c \in Chains("nftables", f.specs) \cup f.stale \/ backend # "nftables"
      BY <3>1
    <3>3. kernel' = After(k, Payload(f))
      BY <2>1, <3>1
    <3>4. QED
      BY <3>1, <3>2, <3>3, AfterPayload
  <2>3. TypeOK'
    <3>1. turn' \in [RulesOf(backend, kernel'.specs)["prerouting"]
                       \cup RulesOf(backend, kernel'.specs)["output"] -> Nat]
      BY <2>1, <2>2, FreshTurns
    <3>2. QED
      BY <1>0, <1>5, <2>2, <3>1, NextType
  <2>4. JumpsCome'
    BY <1>0, <2>2 DEF JumpsCome, Roles
  <2>5. PayloadReplays'
    <3>1. After(NoRules, Payload(f)).jumps = IF backend = "nftables" THEN {} ELSE Roles
      BY IntoNothing
    <3>2. Intact' => kernel'.jumps = After(NoRules, Payload(f)).jumps
      BY <1>0, <2>2, <3>1 DEF Intact, JumpsCome, Roles
    <3>3. QED
      BY <1>6, <2>2, <3>2, ReplaysNext
  <2>6. QED
    BY <1>2, <1>4, <2>3, <2>4, <2>5 DEF RulesetInv
<1>9. QED
  BY <1>7, <1>8
LEMMA InstallKeeps ==
  ASSUME RulesetInv, NEW S \in Installable(pool), NEW deleted, Install(S, deleted)
  PROVE  RulesetInv'
<1>1. PICK f : f = [specs |-> S, retired |-> kernel.counters \cap deleted,
                    stale |-> When(backend = "nftables", Stale(kernel.chains, S))]
  OBVIOUS
<1>2. backend' = backend /\ pool' = pool /\ file' = {f}
  BY <1>1 DEF Install
<1>3. f.specs = S /\ f.stale = When(backend = "nftables", Stale(kernel.chains, S))
  BY <1>1
<1>4. \/ Refuses(kernel, Payload(f)) /\ UNCHANGED <<kernel, taken, turn, conns>>
      \/ /\ ~Refuses(kernel, Payload(f))
         /\ kernel' = After(kernel, Payload(f)) /\ taken' = {} /\ turn' = Fresh(S)
         /\ conns' = {Known(c) : c \in conns}
  BY <1>1 DEF Install
<1>5. \A c \in f.stale : Spells(c) /\ c \notin Chains("nftables", f.specs)
  BY <1>3 DEF When, Stale
<1>6. \A c \in kernel.chains \cap OwnedChains :
        Spells(c) => c \in Chains("nftables", f.specs) \cup f.stale \/ backend # "nftables"
  BY <1>3 DEF When, Stale
<1>7. QED
  BY <1>2, <1>3, <1>4, <1>5, <1>6, AppliedKeeps

\* A step that leaves the file and the kernel's rules alone replays what it did.
LEMMA SameReplays ==
  ASSUME PayloadReplays, backend' = backend, file' = file, kernel'.specs = kernel.specs,
         kernel'.chains = kernel.chains,
         Intact' => Intact /\ kernel'.jumps = kernel.jumps
  PROVE  PayloadReplays'
<1> SUFFICES ASSUME NEW f \in file
             PROVE  (IF Refuses(NoRules, Payload(f)) THEN \E s \in f.specs : s.listed /\ SetOf(s) = {}
                     ELSE LET booted == After(NoRules, Payload(f)) IN
                          /\ kernel.specs = f.specs
                          /\ Intact => kernel.jumps = booted.jumps
                          /\ backend = "nftables" =>
                               {c \in kernel.chains \cap OwnedChains : Spells(c)} =
                                 Chains(backend, f.specs))'
  BY DEF PayloadReplays
<1>1. PICK none : none = NoRules
  OBVIOUS
<1>2. /\ Refuses(none, Payload(f))' <=> Refuses(none, Payload(f))
      /\ After(none, Payload(f))' = After(none, Payload(f))
  BY SamePayload
<1>3. NoRules' = none
  BY <1>1 DEF NoRules
<1>4. Refuses(NoRules, Payload(f))' <=> Refuses(NoRules, Payload(f))
  BY <1>1, <1>2, <1>3
<1>5. After(NoRules, Payload(f))' = After(NoRules, Payload(f))
  BY <1>1, <1>2, <1>3
<1>6. CASE Refuses(NoRules, Payload(f))
  BY <1>4, <1>6 DEF PayloadReplays
<1>7. CASE ~Refuses(NoRules, Payload(f))
  <2>1. /\ kernel.specs = f.specs
        /\ Intact => kernel.jumps = After(NoRules, Payload(f)).jumps
        /\ backend = "nftables" =>
             {c \in kernel.chains \cap OwnedChains : Spells(c)} = Chains(backend, f.specs)
    BY <1>7 DEF PayloadReplays
  <2>2. /\ kernel'.specs = f.specs
        /\ Intact' => kernel'.jumps = After(NoRules, Payload(f)).jumps
        /\ backend' = "nftables" =>
             {c \in kernel'.chains \cap OwnedChains : Spells(c)} = Chains(backend, f.specs)
    BY <2>1
  <2>3. QED
    BY <1>4, <1>5, <1>7, <2>2
<1>8. QED
  BY <1>6, <1>7

LEMMA CloseKeeps == ASSUME RulesetInv, NEW c \in conns, Close(c) PROVE RulesetInv'
<1>0. TypeOK /\ JumpsCome /\ StaleIsSpelled /\ NoneForgotten /\ PayloadReplays /\ ConnectionsAreCapped
  BY DEF RulesetInv
<1>1. UNCHANGED <<backend, pool, file, kernel, taken, turn>> /\ conns' \in SUBSET conns
  BY DEF Close
<1>2. IsFiniteSet(conns')
  BY <1>0, <1>1, TypeMeans, FS_Subset
<1>3. TypeOK'
  BY <1>0, <1>1, <1>2, TypeMeans, NextType
<1>4. NoneForgotten' /\ ConnectionsAreCapped'
  BY <1>0, <1>1, FewerConnections
<1>5. PayloadReplays'
  BY <1>0, <1>1, SameReplays DEF Intact
<1>6. JumpsCome' /\ StaleIsSpelled'
  BY <1>0, <1>1 DEF JumpsCome, StaleIsSpelled
<1>7. QED
  BY <1>3, <1>4, <1>5, <1>6 DEF RulesetInv

LEMMA NothingOpen == ASSUME conns' = {} PROVE IsFiniteSet(conns') /\ conns' \in SUBSET conns
  BY FS_EmptySet
LEMMA BootKeeps == ASSUME RulesetInv, Boot PROVE RulesetInv'
<1>0. TypeOK /\ JumpsCome /\ StaleIsSpelled /\ NoneForgotten /\ PayloadReplays /\ ConnectionsAreCapped
  BY DEF RulesetInv
<1>1. PICK f \in file :
        kernel' = IF Refuses(NoRules, Payload(f)) THEN NoRules ELSE After(NoRules, Payload(f))
  BY DEF Boot
<1>2. taken' = {} /\ conns' = {} /\ UNCHANGED <<backend, pool, file>>
  BY DEF Boot
<1>3. turn' \in [RulesOf(backend, kernel'.specs)["prerouting"]
                   \cup RulesOf(backend, kernel'.specs)["output"] -> Nat]
  <2>1. PICK S : S = kernel'.specs
    OBVIOUS
  <2>2. turn' = Fresh(S)
    BY <2>1 DEF Boot
  <2>3. QED
    BY <2>1, <2>2, FreshTurns
<1>4. file' = {f} /\ f.specs \in Installable(pool) /\ f.specs \in SUBSET pool
  BY <1>0, <1>2, TypeMeans DEF Installable
<1>5. \A c \in f.stale : Spells(c) /\ c \notin Chains("nftables", f.specs)
  BY <1>0 DEF StaleIsSpelled
<1>6. NoneForgotten' /\ ConnectionsAreCapped' /\ IsFiniteSet(conns')
  BY <1>0, <1>2, NothingOpen, FewerConnections
<1>7. StaleIsSpelled'
  BY <1>0, <1>2 DEF StaleIsSpelled
<1>8. Refuses(NoRules, Payload(f)) => \E s \in f.specs : s.listed /\ SetOf(s) = {}
  BY <1>0 DEF PayloadReplays
<1>9. CASE Refuses(NoRules, Payload(f))
  <2>1. kernel' = NoRules
    BY <1>1, <1>9
  <2>2. kernel'.specs = {} /\ kernel'.jumps = {} /\ DOMAIN kernel' = DOMAIN NoRules
    BY <2>1 DEF NoRules
  <2>3. {} \in Installable(pool)
    BY DEF Installable, Compatible
  <2>4. TypeOK'
    BY <1>0, <1>2, <1>3, <1>6, <2>2, <2>3, TypeMeans, NextType
  <2>5. JumpsCome'
    BY <2>2 DEF JumpsCome
  <2>6. PayloadReplays'
    BY <1>2, <1>4, <1>8, <1>9, ReplaysNext
  <2>7. QED
    BY <1>6, <1>7, <2>4, <2>5, <2>6 DEF RulesetInv
<1>10. CASE ~Refuses(NoRules, Payload(f))
  <2>1. kernel' = After(NoRules, Payload(f))
    BY <1>1, <1>10
  <2>2. /\ DOMAIN kernel' = DOMAIN NoRules /\ kernel'.specs = f.specs
        /\ kernel'.jumps = IF backend = "nftables" THEN {} ELSE Roles
        /\ backend = "nftables" =>
             {c \in kernel'.chains \cap OwnedChains : Spells(c)} = Chains(backend, f.specs)
    BY <1>5, <2>1, IntoNothing
  <2>3. TypeOK'
    BY <1>0, <1>2, <1>3, <1>4, <1>6, <2>2, TypeMeans, NextType
  <2>4. JumpsCome'
    BY <1>2, <2>2 DEF JumpsCome, Roles
  <2>5. PayloadReplays'
    BY <1>2, <1>4, <1>8, <2>1, <2>2, ReplaysNext
  <2>6. QED
    BY <1>6, <1>7, <2>3, <2>4, <2>5 DEF RulesetInv
<1>11. QED
  BY <1>9, <1>10

LEMMA TakeAwayKeeps == ASSUME RulesetInv, NEW r, TakeAway(r) PROVE RulesetInv'
<1>0. TypeOK /\ JumpsCome /\ StaleIsSpelled /\ NoneForgotten /\ PayloadReplays /\ ConnectionsAreCapped
  BY DEF RulesetInv
<1>1. UNCHANGED <<backend, pool, file, kernel>> /\ conns' = {} /\ taken' = {r}
  BY DEF TakeAway
<1>2. turn' \in [RulesOf(backend, kernel'.specs)["prerouting"]
                   \cup RulesOf(backend, kernel'.specs)["output"] -> Nat]
  <2>1. PICK S : S = kernel.specs
    OBVIOUS
  <2>2. turn' = Fresh(S)
    BY <2>1 DEF TakeAway
  <2>3. QED
    BY <1>1, <2>1, <2>2, FreshTurns
<1>3. NoneForgotten' /\ ConnectionsAreCapped' /\ IsFiniteSet(conns')
  BY <1>0, <1>1, NothingOpen, FewerConnections
<1>4. TypeOK'
  BY <1>0, <1>1, <1>2, <1>3, TypeMeans, NextType
<1>5. PayloadReplays'
  <2>1. ~Intact'
    BY <1>1 DEF Intact
  <2>2. QED
    BY <1>0, <1>1, <2>1, SameReplays
<1>6. JumpsCome' /\ StaleIsSpelled'
  BY <1>0, <1>1 DEF JumpsCome, StaleIsSpelled
<1>7. QED
  BY <1>3, <1>4, <1>5, <1>6 DEF RulesetInv

LEMMA TakeJumpKeeps == ASSUME RulesetInv, NEW chain \in kernel.jumps, TakeJump(chain) PROVE RulesetInv'
<1>0. TypeOK /\ JumpsCome /\ StaleIsSpelled /\ NoneForgotten /\ PayloadReplays /\ ConnectionsAreCapped
  BY DEF RulesetInv
<1>1. UNCHANGED <<backend, pool, file, taken>> /\ conns' = {} /\ kernel.jumps = Roles
  BY DEF TakeJump
<1>2. /\ kernel'.specs = kernel.specs /\ kernel'.chains = kernel.chains
      /\ kernel'.jumps = Roles \ {chain} /\ DOMAIN kernel' = DOMAIN NoRules
  <2>1. DOMAIN kernel = DOMAIN NoRules
    BY <1>0, TypeMeans
  <2>2. DOMAIN NoRules = {"specs", "lists", "counters", "chains", "jumps"}
    BY DEF NoRules
  <2>3. PICK less : less = kernel.jumps \ {chain}
    OBVIOUS
  <2>4. kernel' = [kernel EXCEPT !.jumps = less]
    BY <2>3 DEF TakeJump
  <2>5. QED
    BY <1>1, <2>1, <2>2, <2>3, <2>4
<1>3. turn' \in [RulesOf(backend, kernel'.specs)["prerouting"]
                   \cup RulesOf(backend, kernel'.specs)["output"] -> Nat]
  <2>1. PICK S : S = kernel.specs
    OBVIOUS
  <2>2. turn' = Fresh(S)
    BY <2>1 DEF TakeJump
  <2>3. QED
    BY <1>2, <2>1, <2>2, FreshTurns
<1>4. NoneForgotten' /\ ConnectionsAreCapped' /\ IsFiniteSet(conns')
  BY <1>0, <1>1, NothingOpen, FewerConnections
<1>5. TypeOK'
  BY <1>0, <1>1, <1>2, <1>3, <1>4, TypeMeans, NextType
<1>6. chain \in Roles /\ Roles \ {chain} # {}
  BY <1>1 DEF Roles
<1>7. PayloadReplays'
  <2>1. ~Intact'
    BY <1>2, <1>6 DEF Intact
  <2>2. QED
    BY <1>0, <1>1, <1>2, <2>1, SameReplays
<1>8. JumpsCome' /\ StaleIsSpelled'
  BY <1>0, <1>1, <1>2, <1>6 DEF JumpsCome, StaleIsSpelled
<1>9. QED
  BY <1>4, <1>5, <1>7, <1>8 DEF RulesetInv

\* A dnat's turns come round after at least one.
LEMMA PeriodKnown == ASSUME NEW s, NEW a, TargetsKnown(s, a) PROVE Period(a) \in Nat \ {0}
<1>1. PICK n \in Nat \ {0} :
        /\ DOMAIN a.to = 1 .. n /\ \A i \in 1 .. n : a.weights[i] \in Nat \ {0}
  BY DEF TargetsKnown
<1>2. a.every \in Nat \ {0}
  BY DEF TargetsKnown
<1>3. IsFiniteSet(1 .. n) /\ 1 \in 1 .. n
  BY FS_Interval
<1>4. Sum(a.weights, 1 .. n) \in Nat /\ a.weights[1] <= Sum(a.weights, 1 .. n)
  BY <1>1, <1>3, SumFinite
<1>5. Sum(a.weights, 1 .. n) \in Nat \ {0}
  BY <1>1, <1>3, <1>4
<1>6. a.every * Sum(a.weights, 1 .. n) \in Nat \ {0}
  BY <1>2, <1>5, Factors
<1>7. QED
  BY <1>1, <1>6 DEF Period
LEMMA TurnsCount ==
  ASSUME TypeOK, NEW p \in Packets, NEW o
  PROVE  Turned(turn, p, o) \in [RulesOf(backend, kernel.specs)["prerouting"]
                                   \cup RulesOf(backend, kernel.specs)["output"] -> Nat]
<1> DEFINE next(r) == IF r \in Hits(Entry(p), p) /\ ~Before(o, r)
                      THEN (turn[r] + 1) % Period(r.arg) ELSE turn[r]
<1>1. Turned(turn, p, o) = [r \in DOMAIN turn |-> next(r)]
  BY DEF Turned
<1>2. /\ DOMAIN turn = RulesOf(backend, kernel.specs)["prerouting"]
                         \cup RulesOf(backend, kernel.specs)["output"]
      /\ \A r \in DOMAIN turn : turn[r] \in Nat
  BY TypeMeans
<1>3. ASSUME NEW r \in DOMAIN turn PROVE next(r) \in Nat
  <2>1. CASE r \in Hits(Entry(p), p)
    <3>1. PICK s \in kernel.specs : Taker(s, p, r)
      BY <2>1, HasTaker
    <3>2. TargetsKnown(s, r.arg)
      BY <3>1, PoolRules, TakesTargets DEF Taker
    <3>3. Period(r.arg) \in Nat \ {0}
      BY <3>2, PeriodKnown
    <3>4. PICK x, y : x = turn[r] + 1 /\ y = Period(r.arg)
      OBVIOUS
    <3>5. x % y \in Nat
      BY <1>2, <3>3, <3>4, Remainders
    <3>6. QED
      BY <1>2, <3>4, <3>5
  <2>2. CASE r \notin Hits(Entry(p), p)
    BY <1>2, <2>2
  <2>3. QED
    BY <2>1, <2>2
<1> HIDE DEF next
<1>4. QED
  BY <1>1, <1>2, <1>3

\* The limit of a taker's rule is asked, and counts that rule's connections.
LEMMA LimitAsked ==
  ASSUME TypeOK, AllThere, backend = "nftables", NoneForgotten,
         NEW p \in Packets, NEW o \in Hits(Entry(p), p), NEW d, d = Target(turn, p, o), NEW port \in d.ports,
         NEW s \in pool, s.id = o.id, s.maxconn > 0,
         ~ \E r \in Hits("forward", To(p, d, port)) : Full(r, p)
  PROVE  Cardinality({k \in conns : k.of.src = p.src /\ k.of.id = s.id}) + 1 <= s.maxconn
<1>1. PICK t \in kernel.specs : Taker(t, p, o)
  BY HasTaker
<1>2. WellFormed(t) /\ t \in pool /\ t.id = s.id /\ t.maxconn = s.maxconn /\ backend \in Backends
  BY <1>1, PoolRules DEF Taker
<1>3. d \in Dests(t) /\ p.proto \in t.protos /\ Listens(t, p)
  BY <1>1, TargetIsADest DEF Taker, Listens
<1>4. PICK r \in Rendered(backend, t) : Caps(backend, t, d, p.proto, r)
  BY <1>2, <1>3, TheRestIsThere
<1>5. PICK q : q = To(p, d, port)
  OBVIOUS
<1>6. /\ q.proto = p.proto /\ q.dst = d.addr /\ q.dport = port /\ q.odst = p.dst /\ q.odport = p.dport
  BY <1>5, ToFields
<1>7. LetIn(r, q)
  BY <1>4 DEF Caps, Unsourced, LetIn, ForSource
<1>8. Matches(r, q)
  BY <1>2, <1>3, <1>4, <1>6, <1>7, OnwardMeans DEF Caps, Labelled, Listens
<1>9. r \in Hits("forward", q)
  BY <1>4, <1>8, RenderedHits DEF Caps, Labelled, Roles
<1>10. ~Full(r, p)
  BY <1>5, <1>9
<1> DEFINE mine == {c \in conns : /\ c.known /\ c.of.src = p.src
                                  /\ r.arg.scope \in {<<c.of.id>>, <<c.of.id, c.of.proto, c.of.dest>>}}
           his == {k \in conns : k.of.src = p.src /\ k.of.id = s.id}
<1>11. r.act = "limit" /\ r.arg.max = s.maxconn /\ r.arg.scope = <<s.id>>
  BY <1>2, <1>4 DEF Caps, Labelled
<1>12. ~(Cardinality(mine) + 1 > r.arg.max)
  BY <1>10, <1>11 DEF Full
<1>13. his \in SUBSET mine
  BY <1>11 DEF NoneForgotten
<1>14. mine \in SUBSET conns
  OBVIOUS
<1> HIDE DEF mine, his
<1>15. IsFiniteSet(mine) /\ IsFiniteSet(his)
  BY <1>13, <1>14, TypeMeans, FS_Subset
<1>16. Cardinality(his) <= Cardinality(mine)
  BY <1>13, <1>15, FS_Subset
<1>17. Cardinality(his) \in Nat /\ Cardinality(mine) \in Nat /\ s.maxconn \in Nat
  BY <1>15, FS_CardinalityType, PoolRules DEF WellFormed
<1>18. Cardinality(his) + 1 <= s.maxconn
  BY <1>11, <1>12, <1>16, <1>17
<1>19. QED
  BY <1>18 DEF his

LEMMA ConnectKeeps == ASSUME RulesetInv, NEW p \in Packets, Connect(p) PROVE RulesetInv'
<1>0. TypeOK /\ JumpsCome /\ StaleIsSpelled /\ NoneForgotten /\ PayloadReplays /\ ConnectionsAreCapped
  BY DEF RulesetInv
<1>1. PICK o \in Takers(turn, p) : \E d \in {Target(turn, p, o)} : \E port \in d.ports :
        /\ turn' = Turned(turn, p, o)
        /\ IF \/ o.id \notin Ids({s \in pool : s.maxconn > 0})
              \/ \E r \in Hits("forward", To(p, d, port)) : Full(r, p)
           THEN UNCHANGED conns
           ELSE \E of \in {[src |-> p.src, id |-> o.id, proto |-> p.proto, dest |-> d.addr]} :
                \E number \in Numbers(of) :
                  conns' = conns \cup {[of |-> of, number |-> number, known |-> TRUE]}
  BY DEF Connect
<1>2. PICK d, port :
        /\ d = Target(turn, p, o) /\ port \in d.ports
        /\ turn' = Turned(turn, p, o)
        /\ IF \/ o.id \notin Ids({s \in pool : s.maxconn > 0})
              \/ \E r \in Hits("forward", To(p, d, port)) : Full(r, p)
           THEN UNCHANGED conns
           ELSE \E of \in {[src |-> p.src, id |-> o.id, proto |-> p.proto, dest |-> d.addr]} :
                \E number \in Numbers(of) :
                  conns' = conns \cup {[of |-> of, number |-> number, known |-> TRUE]}
  BY <1>1
<1>3. Intact /\ UNCHANGED <<backend, pool, file, kernel, taken>>
  BY DEF Connect
<1>4. o \in Hits(Entry(p), p)
  BY DEF Takers, First
<1>5. AllThere
  <2>1. PICK s \in kernel.specs : Taker(s, p, o)
    BY <1>0, <1>4, HasTaker
  <2>2. QED
    BY <1>0, <1>3, <2>1, PoolRules DEF Intact, AllThere, JumpsCome
<1>6. CASE UNCHANGED conns
  <2>1. TypeOK'
    BY <1>0, <1>2, <1>3, <1>6, TypeMeans, TurnsCount, NextType
  <2>2. NoneForgotten' /\ ConnectionsAreCapped'
    BY <1>0, <1>3, <1>6, FewerConnections
  <2>3. PayloadReplays'
    BY <1>0, <1>3, SameReplays DEF Intact
  <2>4. JumpsCome' /\ StaleIsSpelled'
    BY <1>0, <1>3 DEF JumpsCome, StaleIsSpelled
  <2>5. QED
    BY <2>1, <2>2, <2>3, <2>4 DEF RulesetInv
<1>7. CASE ~ UNCHANGED conns
  <2>1. PICK of, number :
          /\ of = [src |-> p.src, id |-> o.id, proto |-> p.proto, dest |-> d.addr]
          /\ conns' = conns \cup {[of |-> of, number |-> number, known |-> TRUE]}
          /\ ~ \E r \in Hits("forward", To(p, d, port)) : Full(r, p)
    BY <1>2, <1>7
  <2>2. PICK new : new = [of |-> of, number |-> number, known |-> TRUE]
    OBVIOUS
  <2>3. conns' = conns \cup {new} /\ new.known /\ new.of.src = p.src /\ new.of.id = o.id
    BY <2>1, <2>2
  <2>4. IsFiniteSet(conns')
    BY <1>0, <2>3, TypeMeans, FS_AddElement
  <2>5. TypeOK'
    BY <1>0, <1>2, <1>3, <2>4, TypeMeans, TurnsCount, NextType
  <2>6. NoneForgotten'
    BY <1>0, <1>3, <2>3 DEF NoneForgotten
  <2>7. ConnectionsAreCapped'
    <3>1. ASSUME backend = "nftables", NEW s \in {t \in pool : t.maxconn > 0}, NEW c \in Sources
          PROVE  Cardinality({k \in conns' : k.of.src = c /\ k.of.id = s.id}) <= s.maxconn
      <4>1. PICK next, old : /\ next = {k \in conns' : k.of.src = c /\ k.of.id = s.id}
                             /\ old = {k \in conns : k.of.src = c /\ k.of.id = s.id}
        OBVIOUS
      <4>2. old \in SUBSET conns /\ IsFiniteSet(conns)
        BY <1>0, <4>1, TypeMeans
      <4>3. IsFiniteSet(old) /\ Cardinality(old) \in Nat
        BY <4>2, FS_Subset, FS_CardinalityType
      <4>4. Cardinality(old) <= s.maxconn
        BY <1>0, <3>1, <4>1 DEF ConnectionsAreCapped
      <4>5. CASE c = p.src /\ s.id = o.id
        <5>1. next \subseteq old \cup {new}
          BY <2>3, <4>1
        <5>2. Cardinality(old) + 1 <= s.maxconn
          <6>1. Cardinality({k \in conns : k.of.src = p.src /\ k.of.id = s.id}) + 1 <= s.maxconn
            BY <1>0, <1>2, <1>4, <1>5, <2>1, <3>1, <4>5, LimitAsked
          <6>2. QED
            BY <4>1, <4>5, <6>1
        <5>3. /\ IsFiniteSet(old \cup {new})
              /\ Cardinality(old \cup {new}) <= Cardinality(old) + 1
              /\ Cardinality(old \cup {new}) \in Nat
          <6>1. /\ IsFiniteSet(old \cup {new})
                /\ Cardinality(old \cup {new}) = IF new \in old THEN Cardinality(old) ELSE Cardinality(old) + 1
            BY <4>3, FS_AddElement
          <6>2. PICK n, m : n = Cardinality(old \cup {new}) /\ m = Cardinality(old)
            OBVIOUS
          <6>3. n \in Nat /\ m \in Nat /\ (n = m \/ n = m + 1)
            BY <4>3, <6>1, <6>2, FS_CardinalityType
          <6>4. n <= m + 1
            BY <6>3
          <6>5. QED
            BY <6>1, <6>2, <6>3, <6>4
        <5>4. Cardinality(next) <= Cardinality(old \cup {new}) /\ Cardinality(next) \in Nat
          BY <5>1, <5>3, FS_Subset, FS_CardinalityType
        <5>5. s.maxconn \in Nat
          BY <1>0, <3>1, PoolRules DEF WellFormed
        <5>6. Cardinality(next) <= s.maxconn
          BY <4>3, <5>2, <5>3, <5>4, <5>5
        <5>7. QED
          BY <4>1, <5>6
      <4>6. CASE ~(c = p.src /\ s.id = o.id)
        <5>1. next = old
          BY <2>3, <4>1, <4>6
        <5>2. QED
          BY <4>1, <4>4, <5>1
      <4>7. QED
        BY <4>5, <4>6
    <3>2. QED
      BY <1>3, <3>1 DEF ConnectionsAreCapped
  <2>8. PayloadReplays'
    BY <1>0, <1>3, SameReplays DEF Intact
  <2>9. JumpsCome' /\ StaleIsSpelled'
    BY <1>0, <1>3 DEF JumpsCome, StaleIsSpelled
  <2>10. QED
    BY <2>5, <2>6, <2>7, <2>8, <2>9 DEF RulesetInv
<1>8. QED
  BY <1>6, <1>7

LEMMA Stutters == ASSUME RulesetInv, UNCHANGED vars PROVE RulesetInv'
<1>0. TypeOK /\ JumpsCome /\ StaleIsSpelled /\ NoneForgotten /\ PayloadReplays /\ ConnectionsAreCapped
  BY DEF RulesetInv
<1>1. UNCHANGED <<backend, pool, file, kernel, taken, turn, conns>>
  BY DEF vars
<1>2. TypeOK'
  BY <1>0, <1>1, TypeMeans, NextType
<1>3. NoneForgotten' /\ ConnectionsAreCapped'
  BY <1>0, <1>1, FewerConnections
<1>4. PayloadReplays'
  BY <1>0, <1>1, SameReplays DEF Intact
<1>5. JumpsCome' /\ StaleIsSpelled'
  BY <1>0, <1>1 DEF JumpsCome, StaleIsSpelled
<1>6. QED
  BY <1>2, <1>3, <1>4, <1>5 DEF RulesetInv

LEMMA Steps == ASSUME RulesetInv, [Next]_vars PROVE RulesetInv'
<1>1. ASSUME NEW S \in Installable(pool), NEW deleted, Install(S, deleted) PROVE RulesetInv'
  BY <1>1, InstallKeeps
<1>2. ASSUME NEW p \in Arriving \cup Own, Connect(p) PROVE RulesetInv'
  BY <1>2, ConnectKeeps DEF Packets
<1>3. ASSUME NEW c \in conns, Close(c) PROVE RulesetInv'
  BY <1>3, CloseKeeps
<1>4. ASSUME NEW r, TakeAway(r) PROVE RulesetInv'
  BY <1>4, TakeAwayKeeps
<1>5. ASSUME NEW chain \in kernel.jumps, TakeJump(chain) PROVE RulesetInv'
  BY <1>5, TakeJumpKeeps
<1>6. QED
  BY <1>1, <1>2, <1>3, <1>4, <1>5, BootKeeps, Stutters DEF Next

\* The ruleset's invariant: with the properties below, the jumps come with the
\* rules, nft can spell what the file deletes, and no connection is forgotten.
THEOREM RulesetStays == Spec => []RulesetInv
<1>1. Init => RulesetInv
  BY Starts
<1>2. RulesetInv /\ [Next]_vars => RulesetInv'
  BY Steps
<1>3. QED
  BY <1>1, <1>2, PTL DEF Spec

\* Every packet is taken by the rule that claims it and by no other, and gets from
\* the kernel what that rule promises, within its limit (rules.go, nftables.go,
\* iptables.go).
THEOREM RulesKeepTheirPromises == Spec => []RelaysAsPromised
<1>1. RulesetInv => RelaysAsPromised
  <2>1. ASSUME RulesetInv PROVE RelaysAsPromised
    BY <2>1, Relaying DEF RulesetInv
  <2>2. QED
    BY <2>1
<1>2. QED
  BY <1>1, RulesetStays, PTL

\* The file on disk gives an empty kernel the rules that were installed last, and
\* only the payload of a rule whose list is empty is refused.
THEOREM BootReplaysTheFile == Spec => []PayloadReplays
<1>1. RulesetInv => PayloadReplays
  BY DEF RulesetInv
<1>2. QED
  BY <1>1, RulesetStays, PTL

(***************************************************************************)
(* The verification.                                                       *)
(***************************************************************************)
\* A rendered rule with the identifier of s is one of s, of the kind its chain holds.
LEMMA HeldBy ==
  ASSUME TypeOK, NEW s \in kernel.specs, NEW role \in Roles, NEW r \in RulesIn(role), r.id = s.id
  PROVE  /\ r \in Rendered(backend, s) /\ r.fam = s.fam /\ r.chain = role
         /\ \E p \in s.protos :
              \/ role \in {"prerouting", "output"} /\ Takes(backend, s, p, role, r)
              \/ role = "mark"
              \/ \E d \in Dests(s), ch \in CountsIn(backend, s) :
                   Kind(backend, s, p, d, ch, r) /\ role \notin {"prerouting", "output", "mark"}
<1>1. PICK t \in kernel.specs : r \in Rendered(backend, t) /\ r.chain = role
  BY RulesHeld
<1>2. t.listed \in BOOLEAN /\ backend \in Backends
  BY PoolRules DEF WellFormed
<1>3. Described(backend, t, r)
  BY <1>1, <1>2, AllDescribed
<1>4. r.id = t.id /\ r.fam = t.fam
  BY <1>3 DEF Described, Kind, Takes, Marks, Caps, Lets, Translates, Shortens, Sends, Answers, Labelled
<1>5. t = s
  BY <1>4, OneIdentity
<1>6. PICK p \in s.protos :
        \/ \E chain \in Entries(s) : Takes(backend, s, p, chain, r)
        \/ Marks(backend, s, p, r)
        \/ \E d \in Dests(s), ch \in CountsIn(backend, s) : Kind(backend, s, p, d, ch, r)
  BY <1>3, <1>5 DEF Described
<1>7. ASSUME NEW chain \in Entries(s), Takes(backend, s, p, chain, r)
      PROVE  role \in {"prerouting", "output"} /\ Takes(backend, s, p, role, r)
  BY <1>1, <1>7 DEF Takes, Labelled, Entries, When
<1>8. Marks(backend, s, p, r) => role = "mark"
  BY <1>1 DEF Marks, Labelled
<1>9. ASSUME NEW d \in Dests(s), NEW ch \in CountsIn(backend, s), Kind(backend, s, p, d, ch, r)
      PROVE  role \notin {"prerouting", "output", "mark"}
  BY <1>1, <1>9 DEF Kind, Caps, Lets, Translates, Shortens, Sends, Answers, Labelled, CountsIn, When
<1>10. QED
  BY <1>1, <1>4, <1>5, <1>6, <1>7, <1>8, <1>9

\* The rules verification promises the truth about, and where a packet gets to.
Simple(s) ==
  Cardinality(s.protos) = 1 /\ Len(s.dests) = 1 /\ Cardinality(s.sources) <= 1 /\ ~s.listed
Reached(chain) == backend = "nftables" \/ chain \in kernel.jumps
LEMMA SimpleMeans ==
  ASSUME NEW b \in Backends, NEW s, WellFormed(s), Simple(s)
  PROVE  /\ \A p, q \in s.protos : p = q
         /\ \A d, e \in Dests(s) : d = e
         /\ \A x, y \in s.sources : x = y
         /\ \A proto, chain, r : Takes(b, s, proto, chain, r) => r.arg.every = 1
<1>1. IsFiniteSet(s.protos)
  <2>1. IsFiniteSet({"tcp", "udp"})
    <3>1. PICK one : one = {"tcp"}
      OBVIOUS
    <3>2. IsFiniteSet(one)
      BY <3>1, FS_Singleton
    <3>3. IsFiniteSet(one \cup {"udp"})
      BY <3>2, FS_AddElement
    <3>4. one \cup {"udp"} = {"tcp", "udp"}
      BY <3>1
    <3>5. QED
      BY <3>3, <3>4
  <2>2. QED
    BY <2>1, FS_Subset DEF WellFormed
<1>2. \A p, q \in s.protos : p = q
  <2>1. \E x : s.protos = {x}
    BY <1>1, FS_Singleton DEF Simple
  <2>2. QED
    BY <2>1
<1>3. \A d, e \in Dests(s) : d = e
  BY DEF Dests, WellFormed, Simple
<1>4. \A x, y \in s.sources : x = y
  <2>1. IsFiniteSet(s.sources) /\ Cardinality(s.sources) \in Nat
    BY FS_CardinalityType DEF WellFormed
  <2>2. Cardinality(s.sources) = 0 \/ Cardinality(s.sources) = 1
    BY <2>1 DEF Simple
  <2>3. s.sources = {} \/ \E x : s.sources = {x}
    BY <2>1, <2>2, FS_EmptySet, FS_Singleton
  <2>4. QED
    BY <2>3
<1>5. ASSUME NEW proto, NEW chain, NEW r, Takes(b, s, proto, chain, r) PROVE r.arg.every = 1
  <2>1. ~Balanced(s)
    BY DEF Balanced, Simple
  <2>2. PICK a : a = Dnat(1, s.dests, Even(s.dests), FALSE)
    OBVIOUS
  <2>3. a.every = 1
    BY <2>2 DEF Dnat
  <2>4. NftTargets(s) = a /\ IptTargets(s) = <<a>>
    BY <2>1, <2>2 DEF NftTargets, IptTargets
  <2>5. \A i \in DOMAIN <<a>> : <<a>>[i] = a
    OBVIOUS
  <2>6. r.arg = a
    BY <1>5, <2>4, <2>5 DEF Takes, TargetsOf
  <2>7. QED
    BY <2>3, <2>6
<1>6. QED
  BY <1>2, <1>3, <1>4, <1>5

\* Part one: what a passing verification found is enough for a simple rule.
LEMMA FoundMatters ==
  ASSUME TypeOK, Verified, NEW s \in kernel.specs, Simple(s), NEW p \in Arriving, Claims(s, p)
  PROVE  /\ Takers(turn, p) # {}
         /\ \A d \in Dests(s) : \A n \in d.ports :
              /\ Translated(To(p, d, n)) = {s.nat} \ {"none"}
              /\ Allowed(To(p, d, n))
              /\ s.mss /\ p.proto = "tcp" => Clamped(To(p, d, n))
<1>1. /\ WellFormed(s) /\ Renderable(backend, s)
      /\ backend \in Backends /\ backend \in {"nftables", "iptables"} /\ p \in Packets
  BY PoolRules DEF Packets
<1>2. /\ Listens(s, p) /\ s.iface \in {Every, p.iface} /\ Admits(s, p.src) /\ p.proto \in s.protos
      /\ s.fam = "ip" /\ ~IsOwn(p) /\ s.mss \in BOOLEAN
  BY <1>1, PacketFields DEF Claims, Listens, WellFormed
<1>3. /\ \A x, y \in s.protos : x = y
      /\ \A d, e \in Dests(s) : d = e
      /\ \A x, y \in s.sources : x = y
      /\ \A proto, chain, r : Takes(backend, s, proto, chain, r) => r.arg.every = 1
  BY <1>1, SimpleMeans
<1>4. \A chain \in Roles \ {"local_accounting"} : Reached(chain)
  BY DEF Verified, MissingJumps, Reached
<1>5. \A w \in Wanted(s) : Satisfied(w)
  BY DEF Verified
<1>6. ASSUME NEW r, Sourced(backend, s, r) PROVE LetIn(r, p)
  <2>1. ~s.listed /\ r.lists = {} /\ (r.match.src = s.sources \/ \E x \in s.sources : r.match.src = {x})
    BY <1>6 DEF Sourced, Simple
  <2>2. s.sources = {} \/ p.src \in s.sources
    BY <1>2, <2>1 DEF Admits, SetOf
  <2>3. QED
    BY <1>3, <2>1, <2>2 DEF LetIn, ForSource
<1>7. ASSUME NEW chain \in Roles \ {"local_accounting"}, NEW r \in RulesIn(chain), NEW q, Matches(r, q)
      PROVE  r \in Hits(chain, q)
  BY <1>4, <1>7 DEF Hits, Reached
<1>8. Takers(turn, p) # {}
  <2>1. Want(s, "prerouting", Every, {"dnat"}) \in Wanted(s)
    BY DEF Wanted, Entries
  <2>2. PICK r \in RulesIn("prerouting") : r.id = s.id
    BY <1>5, <2>1 DEF Satisfied, Want
  <2>3. PICK proto \in s.protos : Takes(backend, s, proto, "prerouting", r)
    BY <2>2, HeldBy DEF Roles
  <2>4. /\ r.fam = s.fam /\ Sourced(backend, s, r) /\ ArrivingMatch(s, proto, r) /\ r.arg.every = 1
        /\ proto = p.proto
    BY <1>2, <1>3, <2>3 DEF Takes, Labelled
  <2>5. Matches(r, p)
    BY <1>1, <1>2, <1>6, <2>4, ArrivingMeans DEF Listens
  <2>6. r \in Hits(Entry(p), p)
    BY <1>2, <1>7, <2>2, <2>5, EntryIs DEF Roles
  <2>7. QED
    BY <1>1, <2>4, <2>6, SomeoneTakes
<1>9. ASSUME NEW d \in Dests(s), NEW n \in d.ports
      PROVE  /\ Translated(To(p, d, n)) = {s.nat} \ {"none"}
             /\ Allowed(To(p, d, n))
             /\ s.mss /\ p.proto = "tcp" => Clamped(To(p, d, n))
  <2>1. PICK q : q = To(p, d, n)
    OBVIOUS
  <2>2. /\ q.proto = p.proto /\ q.iface = p.iface /\ q.src = p.src /\ q.dst = d.addr /\ q.dport = n
        /\ q.odst = p.dst /\ q.odport = p.dport
    BY <1>1, <2>1, ToFields
  <2>3. ASSUME NEW chain \in Roles \ {"local_accounting"}, NEW r \in RulesIn(chain), NEW proto \in s.protos,
               NEW e \in Dests(s), r.fam = s.fam, OnwardMatch(s, e, proto, r), LetIn(r, p)
        PROVE  r \in Hits(chain, q)
    <3>1. proto = p.proto /\ e = d
      BY <1>2, <1>3
    <3>2. LetIn(r, q)
      BY <2>2, <2>3 DEF LetIn
    <3>3. Matches(r, q)
      BY <1>1, <1>2, <2>2, <2>3, <3>1, <3>2, OnwardMeans DEF Listens
    <3>4. QED
      BY <1>7, <3>3
  <2>4. \A r : Unsourced(r) => LetIn(r, p)
    BY DEF Unsourced, LetIn, ForSource
  <2>5. Allowed(q)
    <3>1. Want(s, "forward", d.addr, {"accept"}) \in Wanted(s)
      BY DEF Wanted
    <3>2. PICK r \in RulesIn("forward") : r.id = s.id /\ r.act = "accept"
      BY <1>5, <3>1 DEF Satisfied, Want
    <3>3. PICK proto \in s.protos, e \in Dests(s), ch \in CountsIn(backend, s) :
            Kind(backend, s, proto, e, ch, r) /\ r.chain = "forward" /\ r.fam = s.fam
      BY <3>2, HeldBy DEF Roles
    <3>4. Lets(backend, s, e, proto, r)
      BY <3>2, <3>3 DEF Kind, Caps, Translates, Shortens, Sends, Answers, Labelled, CountsIn, When
    <3>5. r \in Hits("forward", q)
      BY <1>6, <2>3, <3>3, <3>4 DEF Lets, Roles
    <3>6. QED
      BY <3>2, <3>5 DEF Allowed
  <2>6. ASSUME s.nat # "none" PROVE Hits("postrouting", q) # {}
    <3>1. Want(s, "postrouting", d.addr, {s.nat}) \in Wanted(s)
      BY <2>6 DEF Wanted, When
    <3>2. PICK r \in RulesIn("postrouting") : r.id = s.id
      BY <1>5, <3>1 DEF Satisfied, Want
    <3>3. PICK proto \in s.protos, e \in Dests(s), ch \in CountsIn(backend, s) :
            Kind(backend, s, proto, e, ch, r) /\ r.chain = "postrouting" /\ r.fam = s.fam
      BY <3>2, HeldBy DEF Roles
    <3>4. Translates(s, e, proto, r)
      BY <3>3 DEF Kind, Caps, Lets, Shortens, Sends, Answers, Labelled, CountsIn, When
    <3>5. r \in Hits("postrouting", q)
      BY <2>3, <2>4, <3>3, <3>4 DEF Translates, Roles
    <3>6. QED
      BY <3>5
  <2>7. Translated(q) = {s.nat} \ {"none"}
    BY <1>1, <1>2, <2>1, <2>6, OneTranslation
  <2>8. ASSUME s.mss, p.proto = "tcp" PROVE Clamped(q)
    <3>1. Want(s, "mss", d.addr, {"clamp"}) \in Wanted(s)
      BY <1>2, <2>8 DEF Wanted, When
    <3>2. PICK r \in RulesIn("mss") : r.id = s.id
      BY <1>5, <3>1 DEF Satisfied, Want
    <3>3. PICK proto \in s.protos, e \in Dests(s), ch \in CountsIn(backend, s) :
            Kind(backend, s, proto, e, ch, r) /\ r.chain = "mss" /\ r.fam = s.fam
      BY <3>2, HeldBy DEF Roles
    <3>4. Shortens(s, e, proto, r)
      <4>1. ~Translates(s, e, proto, r)
        BY <3>3 DEF Translates, Labelled
      <4>2. QED
        BY <3>3, <4>1 DEF Kind, Caps, Lets, Sends, Answers, Labelled, CountsIn, When
    <3>5. r \in Hits("mss", q)
      BY <2>3, <2>4, <3>3, <3>4 DEF Shortens, Roles
    <3>6. ~IsOwn(q)
      BY <1>2, <2>2 DEF IsOwn
    <3>7. QED
      BY <3>5, <3>6 DEF Clamped
  <2>9. QED
    BY <2>1, <2>5, <2>7, <2>8
<1>10. QED
  BY <1>8, <1>9

\* Part two: what was just installed is found, where it can be read back.
LEMMA Finds ==
  ASSUME TypeOK, AllThere, NEW s \in kernel.specs, NEW r \in Rendered(backend, s),
         NEW w, r.chain = w.role, w.role \in Roles, w.id = s.id, r.id = s.id, r.fam = s.fam,
         backend = "nftables" \/ s.fam = "ip", w.addr \in Mentions(r), r.act \in w.acts
  PROVE  Satisfied(w)
<1>1. r \in RulesIn(w.role)
  BY RulesHeld DEF AllThere
<1>2. QED
  BY <1>1 DEF Satisfied
LEMMA InstalledIsFound ==
  ASSUME TypeOK, AllThere, NEW s \in kernel.specs,
         backend = "nftables" \/ (s.fam = "ip" /\ ~s.local), NEW w \in Wanted(s)
  PROVE  Satisfied(w)
<1>1. /\ WellFormed(s) /\ Renderable(backend, s)
      /\ backend \in Backends /\ backend \in {"nftables", "iptables"} /\ s.listed \in BOOLEAN
  BY PoolRules DEF WellFormed
<1>2. PICK p : p \in s.protos
  BY <1>1 DEF WellFormed
<1>3. PICK x : MayUse(s, x)
  <2>1. CASE s.sources = {}
    BY <2>1 DEF MayUse
  <2>2. CASE s.sources # {}
    BY <2>2 DEF MayUse
  <2>3. QED
    BY <2>1, <2>2
<1>4. PICK some : some \in Dests(s)
  BY <1>1, WeightsKnown
<1>5. ASSUME NEW d \in Dests(s), NEW act, NEW chain \in Roles, NEW r \in Rendered(backend, s),
             Labelled(s, r, chain, act), OnwardMatch(s, d, p, r)
      PROVE  \A acts : act \in acts =>
               Satisfied(Want(s, chain, d.addr, acts)) /\ Satisfied(Want(s, chain, Every, acts))
  <2>1. d.addr \in Mentions(r) /\ Every \in Mentions(r)
    BY <1>5 DEF OnwardMatch, Mentions
  <2>2. ASSUME NEW acts, act \in acts, NEW addr \in Mentions(r) PROVE Satisfied(Want(s, chain, addr, acts))
    <3>1. PICK v : v = Want(s, chain, addr, acts)
      OBVIOUS
    <3>2. v.id = s.id /\ v.role = chain /\ v.addr = addr /\ v.acts = acts
      BY <3>1 DEF Want
    <3>3. Satisfied(v)
      BY <1>5, <2>2, <3>2, Finds DEF Labelled
    <3>4. QED
      BY <3>1, <3>3
  <2>3. QED
    BY <2>1, <2>2
<1>6. ASSUME NEW act, NEW chain \in Roles, NEW r \in Rendered(backend, s), Labelled(s, r, chain, act)
      PROVE  Satisfied(Want(s, chain, Every, {act}))
  <2>1. PICK v : v = Want(s, chain, Every, {act})
    OBVIOUS
  <2>2. v.id = s.id /\ v.role = chain /\ v.addr = Every /\ v.acts = {act}
    BY <2>1 DEF Want
  <2>3. Satisfied(v)
    BY <1>6, <2>2, Finds DEF Labelled, Mentions
  <2>4. QED
    BY <2>1, <2>3
<1>7. ASSUME NEW d \in Dests(s) PROVE Satisfied(Want(s, "forward", d.addr, {"accept"}))
  <2>1. PICK r \in Rendered(backend, s) : Lets(backend, s, d, p, r)
    BY <1>1, <1>2, <1>3, LetsIsThere
  <2>2. QED
    BY <1>5, <2>1 DEF Lets, Roles
<1>8. ASSUME NEW d \in Dests(s), NEW ch \in CountsIn(backend, s)
      PROVE  Satisfied(Want(s, ch, d.addr, {"tx", "rx"})) /\ Satisfied(Want(s, ch, Every, {"tx", "rx"}))
  <2>1. PICK r \in Rendered(backend, s) : Sends(backend, s, d, p, ch, r)
    BY <1>1, <1>2, TheRestIsThere
  <2>2. ch \in Roles
    BY DEF CountsIn, When, Roles
  <2>3. QED
    BY <1>5, <2>1, <2>2 DEF Sends
<1>9. ASSUME NEW d \in Dests(s), s.nat # "none" PROVE Satisfied(Want(s, "postrouting", d.addr, {s.nat}))
  <2>1. PICK r \in Rendered(backend, s) : Translates(s, d, p, r)
    BY <1>1, <1>2, <1>9, TheRestIsThere
  <2>2. QED
    BY <1>5, <2>1 DEF Translates, Roles
<1>10. ASSUME NEW d \in Dests(s), s.mss, "tcp" \in s.protos PROVE Satisfied(Want(s, "mss", d.addr, {"clamp"}))
  <2>1. PICK r \in Rendered(backend, s) : Shortens(s, d, "tcp", r)
    BY <1>1, <1>10, TheRestIsThere
  <2>2. d.addr \in Mentions(r)
    BY <2>1 DEF Shortens, OnwardMatch, Mentions
  <2>3. PICK v : v = Want(s, "mss", d.addr, {"clamp"})
    OBVIOUS
  <2>4. v.id = s.id /\ v.role = "mss" /\ v.addr = d.addr /\ v.acts = {"clamp"}
    BY <2>3 DEF Want
  <2>5. Satisfied(v)
    BY <2>1, <2>2, <2>4, Finds DEF Shortens, Labelled, Roles
  <2>6. QED
    BY <2>3, <2>5
<1>11. ASSUME NEW chain \in Entries(s) PROVE Satisfied(Want(s, chain, Every, {"dnat"}))
  <2>1. PICK i : i \in (IF backend = "nftables" THEN {0} ELSE DOMAIN IptTargets(s))
    BY <1>1, LastRung
  <2>2. PICK r \in Rendered(backend, s) : Takes(backend, s, p, chain, r)
    BY <1>1, <1>2, <1>3, <2>1, TakesIsThere
  <2>3. chain \in Roles
    BY DEF Entries, When, Roles
  <2>4. QED
    BY <1>6, <2>2, <2>3 DEF Takes
<1>12. ASSUME s.local PROVE Satisfied(Want(s, "local_accounting", Every, {"tx", "rx"}))
  BY <1>4, <1>8, <1>12 DEF CountsIn, When
<1>13. ASSUME s.marked PROVE Satisfied(Want(s, "mark", Every, {"mark"}))
  <2>1. PICK r \in Rendered(backend, s) : Marks(backend, s, p, r)
    BY <1>1, <1>2, <1>3, <1>13, MarksIsThere
  <2>2. QED
    BY <1>6, <2>1 DEF Marks, Roles
<1>14. "accounting" \in CountsIn(backend, s)
  BY DEF CountsIn
<1>15. QED
  BY <1>7, <1>8, <1>9, <1>10, <1>11, <1>12, <1>13, <1>14 DEF Wanted, When
\* On iptables neither an IPv6 rule nor local accounting is found.
LEMMA NotReadBack ==
  ASSUME TypeOK, backend = "iptables", Verified, NEW s \in kernel.specs
  PROVE  s.fam = "ip" /\ ~s.local
<1>1. WellFormed(s) /\ Renderable(backend, s)
  BY PoolRules
<1>2. PICK d : d \in Dests(s)
  BY <1>1, WeightsKnown
<1>3. \A w \in Wanted(s) : Satisfied(w)
  BY DEF Verified
<1>4. s.fam = "ip"
  <2>1. Want(s, "forward", d.addr, {"accept"}) \in Wanted(s)
    BY <1>2 DEF Wanted
  <2>2. PICK r \in RulesIn("forward") : r.id = s.id /\ r.fam = "ip"
    BY <1>3, <2>1 DEF Satisfied, Want
  <2>3. QED
    BY <2>2, HeldBy DEF Roles
<1>5. ASSUME s.local PROVE FALSE
  <2>1. Want(s, "local_accounting", Every, {"tx", "rx"}) \in Wanted(s)
    BY <1>5 DEF Wanted, When
  <2>2. PICK r \in RulesIn("local_accounting") : r.id = s.id
    BY <1>3, <2>1 DEF Satisfied, Want
  <2>3. PICK p \in s.protos, e \in Dests(s), ch \in CountsIn(backend, s) :
          Kind(backend, s, p, e, ch, r) /\ r.chain = "local_accounting"
    BY <2>2, HeldBy DEF Roles
  <2>4. ch = "accounting"
    BY DEF CountsIn, When
  <2>5. QED
    BY <2>3, <2>4 DEF Kind, Caps, Lets, Translates, Shortens, Sends, Answers, Labelled
<1>6. QED
  BY <1>4, <1>5
LEMMA VerifiesTheInstalled ==
  ASSUME TypeOK, JumpsCome, Intact, kernel.specs # {}
  PROVE  Verified <=> backend = "nftables" \/ \A s \in kernel.specs : s.fam = "ip" /\ ~s.local
<1>1. AllThere /\ backend \in {"nftables", "iptables"}
  BY PoolRules DEF Intact, AllThere, JumpsCome
<1>2. MissingJumps = {}
  BY <1>1 DEF MissingJumps, AllThere
<1>3. ASSUME Verified PROVE backend = "nftables" \/ \A s \in kernel.specs : s.fam = "ip" /\ ~s.local
  BY <1>1, <1>3, NotReadBack
<1>4. ASSUME backend = "nftables" \/ \A s \in kernel.specs : s.fam = "ip" /\ ~s.local PROVE Verified
  BY <1>1, <1>2, <1>4, InstalledIsFound DEF Verified
<1>5. QED
  BY <1>3, <1>4

\* A verification that passes means that packets are relayed with the promised NAT,
\* permission and clamping, and what was just installed passes where it can be read
\* back (verify.go).
THEOREM VerificationTellsTheTruth == Spec => []VerificationIsExact
<1>1. RulesetInv => VerificationIsExact
  <2>1. ASSUME RulesetInv PROVE VerificationIsExact
    <3>1. TypeOK /\ JumpsCome
      BY <2>1 DEF RulesetInv
    <3>2. ASSUME Verified, NEW s \in kernel.specs, Simple(s), NEW p \in Arriving, Claims(s, p)
          PROVE  /\ Takers(turn, p) # {}
                 /\ \A d \in Dests(s) : \A n \in d.ports :
                      /\ Translated(To(p, d, n)) = {s.nat} \ {"none"}
                      /\ Allowed(To(p, d, n))
                      /\ s.mss /\ p.proto = "tcp" => Clamped(To(p, d, n))
      BY <3>1, <3>2, FoundMatters
    <3>3. Intact /\ kernel.specs # {} =>
            (Verified <=> backend = "nftables" \/ \A s \in kernel.specs : s.fam = "ip" /\ ~s.local)
      BY <3>1, VerifiesTheInstalled
    <3>4. QED
      BY <3>2, <3>3 DEF VerificationIsExact, Simple
  <2>2. QED
    BY <2>1
<1>2. QED
  BY <1>1, RulesetStays, PTL

(***************************************************************************)
(* The shares of a balanced rule.  A play of as many connections as the    *)
(* weights add up to is built one connection at a time: the turn of an     *)
(* nftables map goes through all its slots, and each rung of an iptables   *)
(* ladder for equal shares takes exactly one.                              *)
(***************************************************************************)

\* Counting round a period.
LEMMA Around ==
  ASSUME NEW P \in Nat \ {0}, NEW x \in 0 .. P - 1
  PROVE  x % P = x /\ P % P = 0 /\ (x + 1) % P = IF x + 1 = P THEN 0 ELSE x + 1
<1>1. ASSUME NEW y \in 0 .. P - 1 PROVE y % P = y
  <2>1. y = ((y \div P) * P) + (y % P) /\ y % P \in 0 .. P - 1 /\ y \div P \in Int
    OBVIOUS
  <2>2. PICK d, r : d = y \div P /\ r = y % P
    OBVIOUS
  <2>3. d = 0
    <3>1. d >= 1 => d * P >= P
      BY <2>1, <2>2
    <3>2. d <= -1 => d * P <= -P
      BY <2>1, <2>2
    <3>3. QED
      BY <2>1, <2>2, <3>1, <3>2
  <2>4. QED
    BY <2>1, <2>2, <2>3
<1>2. P % P = 0
  <2>1. P = ((P \div P) * P) + (P % P) /\ P % P \in 0 .. P - 1 /\ P \div P \in Int
    OBVIOUS
  <2>2. PICK d, r : d = P \div P /\ r = P % P
    OBVIOUS
  <2>3. d = 1
    <3>1. d >= 2 => d * P >= 2 * P
      BY <2>1, <2>2
    <3>2. d <= 0 => d * P <= 0
      BY <2>1, <2>2
    <3>3. QED
      BY <2>1, <2>2, <3>1, <3>2
  <2>4. QED
    BY <2>1, <2>2, <2>3
<1>3. QED
  BY <1>1, <1>2

\* The slots of a place are its own.
LEMMA SlotsAre ==
  ASSUME NEW w, NEW I
  PROVE  \A e : e \in Slots(w, I) <=> e = <<e[1], e[2]>> /\ e[1] \in I /\ e[2] \in 1 .. w[e[1]]
<1>1. ASSUME NEW i, NEW e PROVE e \in {i} \X (1 .. w[i]) <=> e = <<e[1], e[2]>> /\ e[1] = i /\ e[2] \in 1 .. w[i]
  OBVIOUS
<1>2. QED
  BY <1>1 DEF Slots
\* A sum of weights grows by one weight at a time.
LEMMA SumStep ==
  ASSUME NEW n \in Nat, NEW w, \A i \in 1 .. n : w[i] \in Nat \ {0}, NEW i \in 1 .. n
  PROVE  /\ Sum(w, 1 .. i) = Sum(w, 1 .. i - 1) + w[i]
         /\ Sum(w, 1 .. i - 1) \in Nat /\ Sum(w, 1 .. i) \in Nat
<1>1. PICK I, J, K : I = 1 .. i /\ J = 1 .. i - 1 /\ K = {i}
  OBVIOUS
<1>2. IsFiniteSet(I) /\ IsFiniteSet(J) /\ IsFiniteSet(K)
  <2>1. IsFiniteSet(I) /\ IsFiniteSet(J)
    BY <1>1, FS_Interval
  <2>2. IsFiniteSet(K)
    BY <1>1, FS_Singleton
  <2>3. QED
    BY <2>1, <2>2
<1>3. \A k \in I \cup J \cup K : w[k] \in Nat \ {0}
  <2>1. I \cup J \cup K \subseteq 1 .. n
    BY <1>1
  <2>2. QED
    BY <2>1
<1>4. /\ IsFiniteSet(Slots(w, I)) /\ Sum(w, I) = Cardinality(Slots(w, I)) /\ Sum(w, I) \in Nat
      /\ IsFiniteSet(Slots(w, J)) /\ Sum(w, J) = Cardinality(Slots(w, J)) /\ Sum(w, J) \in Nat
  BY <1>2, <1>3, SumFinite
<1>5. IsFiniteSet(Slots(w, K)) /\ Cardinality(Slots(w, K)) = w[i]
  <2>1. PICK one, some : one = {i} /\ some = 1 .. w[i]
    OBVIOUS
  <2>2. IsFiniteSet(some) /\ Cardinality(some) = w[i]
    BY <1>1, <1>3, <2>1, FS_Interval
  <2>3. IsFiniteSet(one) /\ Cardinality(one) = 1
    BY <2>1, FS_Singleton
  <2>4. Slots(w, K) = one \X some
    <3>1. Slots(w, K) = UNION {{k} \X (1 .. w[k]) : k \in {i}}
      BY <1>1 DEF Slots
    <3>2. Slots(w, K) = {i} \X (1 .. w[i])
      BY <3>1
    <3>3. QED
      BY <2>1, <3>2
  <2>5. IsFiniteSet(one \X some) /\ Cardinality(one \X some) = Cardinality(one) * Cardinality(some)
    BY <2>2, <2>3, FS_Product
  <2>6. 1 * w[i] = w[i]
    OBVIOUS
  <2>7. QED
    BY <2>2, <2>3, <2>4, <2>5, <2>6
<1>6. Slots(w, I) = Slots(w, J) \cup Slots(w, K) /\ Slots(w, J) \cap Slots(w, K) = {}
  <2>1. I = J \cup K /\ J \cap K = {}
    BY <1>1
  <2>2. \A e : e \in Slots(w, I) <=> e \in Slots(w, J) \/ e \in Slots(w, K)
    BY <2>1, SlotsAre
  <2>3. \A e : ~(e \in Slots(w, J) /\ e \in Slots(w, K))
    BY <2>1, SlotsAre
  <2>4. QED
    BY <2>2, <2>3
<1>7. Cardinality(Slots(w, I)) =
        Cardinality(Slots(w, J)) + Cardinality(Slots(w, K)) - Cardinality(Slots(w, J) \cap Slots(w, K))
  BY <1>4, <1>5, <1>6, FS_Union
<1>8. Cardinality(Slots(w, J) \cap Slots(w, K)) = 0
  BY <1>6, FS_EmptySet
<1>9. PICK a, b, c : a = Sum(w, I) /\ b = Sum(w, J) /\ c = w[i]
  OBVIOUS
<1>10. a = b + c - 0 /\ a \in Nat /\ b \in Nat /\ c \in Nat
  BY <1>1, <1>3, <1>4, <1>5, <1>7, <1>8, <1>9
<1>11. QED
  BY <1>1, <1>9, <1>10
\* Destinations of weight one add up to how many they are.
LEMMA SumOfOnes ==
  ASSUME NEW I, IsFiniteSet(I), NEW w, \A i \in I : w[i] = 1
  PROVE  Sum(w, I) = Cardinality(I)
<1>1. PICK f : f = [i \in I |-> <<i, 1>>]
  OBVIOUS
<1>2. \A i \in I : 1 .. w[i] = {1}
  OBVIOUS
<1>3. Slots(w, I) = {<<i, 1>> : i \in I}
  <2>1. \A i \in I : {i} \X (1 .. w[i]) = {<<i, 1>>}
    BY <1>2
  <2>2. QED
    BY <2>1 DEF Slots
<1>4. f \in Bijection(I, Slots(w, I))
  <2>1. f \in [I -> Slots(w, I)] /\ \A i \in I : f[i] = <<i, 1>>
    BY <1>1, <1>3
  <2>2. \A i, j \in I : f[i] = f[j] => i = j
    BY <2>1
  <2>3. \A e \in Slots(w, I) : \E i \in I : f[i] = e
    BY <1>3, <2>1
  <2>4. QED
    BY <2>1, <2>2, <2>3 DEF Bijection, Injection, Surjection, IsInjective
<1>5. Cardinality(Slots(w, I)) = Cardinality(I)
  BY <1>4, FS_Bijection DEF ExistsBijection
<1>6. QED
  BY <1>5 DEF Sum, Slots
\* As many connections as there are slots, no two of one slot: the places in B get
\* as many as they have slots.
Share(h, B) == {k \in DOMAIN h : h[k][1] \in B}
LEMMA SlotsShare ==
  ASSUME NEW N \in Nat, NEW w, \A i \in 1 .. N : w[i] \in Nat \ {0},
         NEW h \in Injection(1 .. Sum(w, 1 .. N), Slots(w, 1 .. N)), NEW B \in SUBSET (1 .. N)
  PROVE  Cardinality(Share(h, B)) = Sum(w, B)
<1>0. PICK W, A : W = Sum(w, 1 .. N) /\ A = Share(h, B)
  OBVIOUS
<1>1. PICK S, T : S = Slots(w, 1 .. N) /\ T = Slots(w, B)
  OBVIOUS
<1>2. IsFiniteSet(S) /\ Cardinality(S) = W /\ W \in Nat
  <2>1. IsFiniteSet(1 .. N)
    <3>1. 1 \in Int /\ N \in Int
      OBVIOUS
    <3>2. QED
      BY ONLY <3>1, FS_Interval
  <2>2. /\ Sum(w, 1 .. N) \in Nat
        /\ IsFiniteSet(Slots(w, 1 .. N)) /\ Sum(w, 1 .. N) = Cardinality(Slots(w, 1 .. N))
    BY <2>1, SumFinite
  <2>3. QED
    BY <1>0, <1>1, <2>2
<1>3. h \in Injection(1 .. W, S) /\ h \in [1 .. W -> S] /\ \A k, l \in 1 .. W : h[k] = h[l] => k = l
  BY <1>0, <1>1 DEF Injection, IsInjective
<1>A. A \in SUBSET (1 .. W) /\ \A k \in 1 .. W : k \in A <=> h[k][1] \in B
  BY <1>0, <1>3 DEF Share
<1>4. h \in Surjection(1 .. W, S)
  <2>1. Cardinality(1 .. W) = W
    BY <1>2, FS_Interval
  <2>2. QED
    BY <1>2, <1>3, <2>1, FS_Injection
<1>5. \A e : e \in T <=> e \in S /\ e[1] \in B
  BY <1>1, SlotsAre
<1>6. PICK f : f = [k \in A |-> h[k]]
  OBVIOUS
<1>7. f \in Bijection(A, T)
  <2>1. \A k \in A : f[k] = h[k] /\ k \in 1 .. W /\ h[k][1] \in B /\ h[k] \in S
    BY <1>3, <1>A, <1>6
  <2>2. f \in [A -> T]
    BY <1>5, <1>6, <2>1
  <2>3. \A k, l \in A : f[k] = f[l] => k = l
    BY <1>3, <2>1
  <2>4. ASSUME NEW e \in T PROVE \E k \in A : f[k] = e
    <3>1. e \in S /\ e[1] \in B
      BY <1>5
    <3>2. PICK k \in 1 .. W : h[k] = e
      BY <1>4, <3>1 DEF Surjection
    <3>3. k \in A
      BY <1>A, <3>1, <3>2
    <3>4. QED
      BY <2>1, <3>2, <3>3
  <2>5. QED
    BY <2>2, <2>3, <2>4 DEF Bijection, Injection, Surjection, IsInjective
<1>8. IsFiniteSet(A)
  <2>1. IsFiniteSet(1 .. W)
    BY <1>2, FS_Interval
  <2>2. QED
    BY <1>A, <2>1, FS_Subset
<1>9. Cardinality(T) = Cardinality(A)
  BY <1>7, <1>8, FS_Bijection DEF ExistsBijection
<1>10. QED
  BY <1>0, <1>1, <1>9 DEF Sum, Slots

\* A ladder of N rungs for equal shares: rung i takes one in N - i + 1 of the
\* connections that reach it.  Once those in G have taken one, that many have
\* reached rung i since its turn was t, and its turn is this.
Reaching(G, i, N) == Cardinality(G \cap (i .. N))
Phase(t, P, a) == IF t + a < P THEN t + a ELSE t + a - P
Wait(t, P) == IF t = 0 THEN 0 ELSE P - t
\* A rung has taken one as soon as its turn came.
InTurn(T, N, G) ==
  /\ G \in SUBSET (1 .. N)
  /\ \A i \in 1 .. N : i \in G <=> Reaching(G, i, N) > Wait(T[i], N - i + 1)

\* No more reach a rung than it and the rungs below have taken.
LEMMA ReachingCounts ==
  ASSUME NEW N \in Nat, NEW G \in SUBSET (1 .. N), NEW i \in 1 .. N
  PROVE  /\ Reaching(G, i, N) \in 0 .. N - i + 1
         /\ Reaching(G, i, N) = N - i + 1 => (i .. N) \subseteq G
         /\ (i .. N) \subseteq G => Reaching(G, i, N) = N - i + 1
         /\ i \notin G /\ ((i + 1) .. N) \subseteq G => Reaching(G, i, N) = N - i
<1>1. PICK S, T : S = i .. N /\ T = G \cap S
  OBVIOUS
<1>2. IsFiniteSet(S) /\ Cardinality(S) = N - i + 1
  BY <1>1, FS_Interval
<1>3. T \in SUBSET S
  BY <1>1
<1>4. IsFiniteSet(T) /\ Cardinality(T) <= Cardinality(S) /\ (Cardinality(S) = Cardinality(T) => S = T)
  BY <1>2, <1>3, FS_Subset
<1>5. Cardinality(T) \in Nat /\ Reaching(G, i, N) = Cardinality(T)
  BY <1>1, <1>4, FS_CardinalityType DEF Reaching
<1>6. Reaching(G, i, N) \in 0 .. N - i + 1
  BY <1>2, <1>4, <1>5
<1>7. Reaching(G, i, N) = N - i + 1 => (i .. N) \subseteq G
  BY <1>1, <1>2, <1>4, <1>5
<1>8. (i .. N) \subseteq G => Reaching(G, i, N) = N - i + 1
  <2>1. (i .. N) \subseteq G => T = S
    BY <1>1
  <2>2. QED
    BY <1>2, <1>5, <2>1
<1>9. ASSUME i \notin G, ((i + 1) .. N) \subseteq G PROVE Reaching(G, i, N) = N - i
  <2>1. T = (i + 1) .. N
    BY <1>1, <1>9
  <2>2. Cardinality((i + 1) .. N) = IF i + 1 > N THEN 0 ELSE N - (i + 1) + 1
    BY FS_Interval
  <2>3. QED
    BY <1>5, <2>1, <2>2
<1>10. QED
  BY <1>6, <1>7, <1>8, <1>9
\* One more reaches the rungs down to the one that takes it.
LEMMA ReachingMore ==
  ASSUME NEW N \in Nat, NEW G \in SUBSET (1 .. N), NEW o \in 1 .. N, o \notin G, NEW i \in 1 .. N
  PROVE  Reaching(G \cup {o}, i, N) = IF i <= o THEN Reaching(G, i, N) + 1 ELSE Reaching(G, i, N)
<1>1. PICK T : T = G \cap (i .. N)
  OBVIOUS
<1>2. IsFiniteSet(T)
  <2>1. IsFiniteSet(i .. N)
    BY FS_Interval
  <2>2. QED
    BY <1>1, <2>1, FS_Subset
<1>3. CASE i <= o
  <2>1. (G \cup {o}) \cap (i .. N) = T \cup {o} /\ o \notin T
    BY <1>1, <1>3
  <2>2. Cardinality(T \cup {o}) = Cardinality(T) + 1
    BY <1>2, <2>1, FS_AddElement
  <2>3. QED
    BY <1>1, <1>3, <2>1, <2>2 DEF Reaching
<1>4. CASE ~(i <= o)
  <2>1. (G \cup {o}) \cap (i .. N) = T
    BY <1>1, <1>4
  <2>2. QED
    BY <1>1, <1>4, <2>1 DEF Reaching
<1>5. QED
  BY <1>3, <1>4

\* The turn of a rung goes on by one, round its period.
LEMMA PhaseSteps ==
  ASSUME NEW P \in Nat \ {0}, NEW t \in 0 .. P - 1, NEW a \in 0 .. P - 1
  PROVE  Phase(t, P, a + 1) = (Phase(t, P, a) + 1) % P
<1>1. PICK x : x = Phase(t, P, a)
  OBVIOUS
<1>2. x \in 0 .. P - 1
  BY <1>1 DEF Phase
<1>3. (x + 1) % P = IF x + 1 = P THEN 0 ELSE x + 1
  BY <1>2, Around
<1>4. Phase(t, P, a + 1) = IF x + 1 = P THEN 0 ELSE x + 1
  BY <1>1 DEF Phase
<1>5. QED
  BY <1>1, <1>3, <1>4

\* The turn of rung i, what it becomes once rung o has taken one, and the rung that
\* takes next: the first whose turn it is.
TurnIn(N, T, G, i) == Phase(T[i], N - i + 1, Reaching(G, i, N))
Onward(N, T, G, o, i) ==
  IF i <= o THEN (TurnIn(N, T, G, i) + 1) % (N - i + 1) ELSE TurnIn(N, T, G, i)
FirstRung(N, T, G, o) ==
  o \in 1 .. N /\ TurnIn(N, T, G, o) = 0 /\ \A i \in 1 .. N : i < o => TurnIn(N, T, G, i) # 0
TurnsIn(N, T) == \A i \in 1 .. N : T[i] \in 0 .. N - i
\* Until all have taken one, the rung that takes next is the first whose turn it is,
\* and it has taken none yet.
LEMMA NextRung ==
  ASSUME NEW N \in Nat \ {0}, NEW T, TurnsIn(N, T), NEW G, InTurn(T, N, G), G # 1 .. N,
         NEW o, FirstRung(N, T, G, o)
  PROVE  /\ o \notin G /\ InTurn(T, N, G \cup {o})
         /\ \A i \in 1 .. N :
              TurnIn(N, T, G \cup {o}, i) = Onward(N, T, G, o, i)
<1> USE DEF TurnIn
<1>a. /\ o \in 1 .. N /\ Phase(T[o], N - o + 1, Reaching(G, o, N)) = 0
      /\ \A i \in 1 .. N : i < o => Phase(T[i], N - i + 1, Reaching(G, i, N)) # 0
  BY DEF FirstRung
<1>b. \A i \in 1 .. N : T[i] \in 0 .. N - i
  BY DEF TurnsIn
<1> USE <1>a, <1>b
<1>1. G \in SUBSET (1 .. N) /\ \A i \in 1 .. N : i \in G <=> Reaching(G, i, N) > Wait(T[i], N - i + 1)
  BY DEF InTurn
<1>2. \A i \in 1 .. N : Reaching(G, i, N) \in 0 .. N - i + 1
  BY <1>1, ReachingCounts
<1> DEFINE A(i) == Reaching(G, i, N)
           Z(i) == Wait(T[i], N - i + 1)
           F(i) == Phase(T[i], N - i + 1, A(i))
<1>4. ASSUME NEW i \in 1 .. N
      PROVE  /\ A(i) \in 0 .. N - i + 1 /\ Z(i) \in 0 .. N - i
             /\ F(i) = 0 <=> A(i) = Z(i) \/ (A(i) = N - i + 1 /\ Z(i) = 0)
             /\ A(i) = N - i /\ A(i) <= Z(i) => F(i) = 0
  <2>1. PICK P, t, a : P = N - i + 1 /\ t = T[i] /\ a = A(i)
    OBVIOUS
  <2>2. P \in Nat \ {0} /\ t \in 0 .. P - 1 /\ a \in 0 .. P /\ P - 1 = N - i
    BY <1>2, <2>1
  <2>3. /\ Phase(t, P, a) \in 0 .. P - 1 /\ Wait(t, P) \in 0 .. P - 1
        /\ Phase(t, P, a) = 0 <=> a = Wait(t, P) \/ (a = P /\ Wait(t, P) = 0)
        /\ a = P - 1 /\ a <= Wait(t, P) => Phase(t, P, a) = 0
    BY <2>2 DEF Phase, Wait
  <2> HIDE DEF A
  <2>4. QED
    BY <2>1, <2>2, <2>3
<1>5. \A i \in 1 .. N : A(i) \in Nat /\ Z(i) \in Nat /\ A(i) <= N - i + 1 /\ Z(i) <= N - i
  BY <1>4
<1>6. \A i \in 1 .. N : F(i) = 0 <=> A(i) = Z(i) \/ (A(i) = N - i + 1 /\ Z(i) = 0)
  BY <1>4
<1>7. \A i \in 1 .. N : A(i) = N - i /\ A(i) <= Z(i) => F(i) = 0
  BY <1>4
<1>8. \A i \in 1 .. N : i \in G <=> A(i) > Z(i)
  BY <1>1
<1>9. F(o) = 0 /\ \A i \in 1 .. N : i < o => F(i) # 0
  OBVIOUS
<1>10. ASSUME NEW i \in 1 .. N, A(i) <= N - i
       PROVE  Phase(T[i], N - i + 1, A(i) + 1) = (F(i) + 1) % (N - i + 1)
  <2>1. PICK P, t, a : P = N - i + 1 /\ t = T[i] /\ a = A(i)
    OBVIOUS
  <2>2. P \in Nat \ {0} /\ t \in 0 .. P - 1 /\ a \in 0 .. P - 1
    BY <1>2, <1>10, <2>1
  <2>3. Phase(t, P, a + 1) = (Phase(t, P, a) + 1) % P
    BY <2>2, PhaseSteps
  <2>4. QED
    BY <2>1, <2>3
<1> HIDE DEF A, Z, F
<1>11. o \notin G
  <2>1. SUFFICES ASSUME o \in G PROVE FALSE
    OBVIOUS
  <2>2. Reaching(G, o, N) = N - o + 1
    <3>1. A(o) > Z(o)
      BY <1>8, <2>1
    <3>2. A(o) = N - o + 1
      BY <1>5, <1>6, <1>9, <3>1
    <3>3. QED
      BY <3>2 DEF A
  <2>3. (o .. N) \subseteq G
    BY <1>1, <2>2, ReachingCounts
  <2>4. PICK M : M = {k \in Nat : k < N /\ N - k \notin G}
    OBVIOUS
  <2>5. M # {}
    <3>1. PICK j \in 1 .. N : j \notin G
      BY <1>1
    <3>2. N - j \in Nat /\ N - j < N /\ N - (N - j) = j
      BY <3>1
    <3>3. QED
      BY <2>4, <3>1, <3>2
  <2>6. PICK m \in M : \A k \in M : m <= k
    BY <2>4, <2>5, NatMin
  <2>7. PICK j : j = N - m
    OBVIOUS
  <2>8. j \in 1 .. N /\ j \notin G
    BY <2>4, <2>6, <2>7
  <2>9. ((j + 1) .. N) \subseteq G
    <3>1. SUFFICES ASSUME NEW i \in (j + 1) .. N, i \notin G PROVE FALSE
      OBVIOUS
    <3>2. N - i \in Nat /\ N - i < N /\ N - i < m /\ N - (N - i) = i
      BY <2>4, <2>6, <2>7, <2>8, <3>1
    <3>3. N - i \in M
      BY <2>4, <3>1, <3>2
    <3>4. m \in Nat /\ m <= N - i
      BY <2>4, <2>6, <3>3
    <3>5. QED
      BY <3>2, <3>4
  <2>10. j < o
    BY <2>3, <2>8
  <2>11. Reaching(G, j, N) = N - j
    BY <1>1, <2>8, <2>9, ReachingCounts
  <2>12. F(j) = 0
    <3>1. ~(A(j) > Z(j)) /\ A(j) \in Nat /\ Z(j) \in Nat
      BY <1>5, <1>8, <2>8
    <3>2. A(j) = N - j
      BY <2>11 DEF A
    <3>3. QED
      BY <1>7, <2>8, <3>1, <3>2
  <2>13. QED
    BY <1>9, <2>8, <2>10, <2>12
<1>12. \A i \in 1 .. N :
        Reaching(G \cup {o}, i, N) = IF i <= o THEN Reaching(G, i, N) + 1 ELSE Reaching(G, i, N)
  BY <1>1, <1>11, ReachingMore
<1>13. ASSUME NEW i \in 1 .. N
      PROVE  i \in G \cup {o} <=> Reaching(G \cup {o}, i, N) > Z(i)
  <2>1. Reaching(G \cup {o}, i, N) = IF i <= o THEN A(i) + 1 ELSE A(i)
    BY <1>12 DEF A
  <2>2. /\ A(i) \in Nat /\ Z(i) \in Nat /\ (i \in G <=> A(i) > Z(i))
        /\ F(i) = 0 <=> A(i) = Z(i) \/ (A(i) = N - i + 1 /\ Z(i) = 0)
    BY <1>5, <1>6, <1>8
  <2>3. CASE i = o
    BY <1>9, <1>11, <2>1, <2>2, <2>3
  <2>4. CASE i < o
    <3>1. F(i) # 0 /\ i <= o /\ i # o
      BY <1>9, <2>4
    <3>2. QED
      BY <2>1, <2>2, <3>1
  <2>5. CASE i > o
    <3>1. ~(i <= o) /\ i # o
      BY <2>5
    <3>2. QED
      BY <2>1, <2>2, <3>1
  <2>6. QED
    BY <2>3, <2>4, <2>5
<1>14. InTurn(T, N, G \cup {o})
  BY <1>1, <1>11, <1>13 DEF InTurn, Z
<1>15. ASSUME NEW i \in 1 .. N
      PROVE  Phase(T[i], N - i + 1, Reaching(G \cup {o}, i, N)) =
               IF i <= o THEN (Phase(T[i], N - i + 1, Reaching(G, i, N)) + 1) % (N - i + 1)
               ELSE Phase(T[i], N - i + 1, Reaching(G, i, N))
  <2>1. CASE ~(i <= o)
    BY <1>12, <2>1 DEF A, F
  <2>2. CASE i <= o
    <3>1. Reaching(G \cup {o}, i, N) = A(i) + 1
      BY <1>12, <2>2 DEF A
    <3>2. Reaching(G \cup {o}, i, N) \in 0 .. N - i + 1
      <4>1. PICK H : H = G \cup {o}
        OBVIOUS
      <4>2. H \in SUBSET (1 .. N)
        BY <1>1, <4>1
      <4>3. Reaching(H, i, N) \in 0 .. N - i + 1
        BY <4>2, ReachingCounts
      <4>4. QED
        BY <4>1, <4>3
    <3>3. A(i) \in Nat
      BY <1>5
    <3>4. A(i) <= N - i
      BY <3>1, <3>2, <3>3
    <3>5. Phase(T[i], N - i + 1, A(i) + 1) = (F(i) + 1) % (N - i + 1)
      BY <1>10, <3>4
    <3>6. QED
      BY <2>2, <3>1, <3>5 DEF A, F
  <2>3. QED
    BY <2>1, <2>2
<1>16. QED
  BY <1>11, <1>14, <1>15 DEF Onward

\* One more connection of p in a play, and the plays of n connections.
Start == [turns |-> turn, gone |-> << >>]
Going(p, b) ==
  {[turns |-> Turned(b.turns, p, o), gone |-> Append(b.gone, Target(b.turns, p, o))]
     : o \in Takers(b.turns, p)}

\* A play is built from the empty one, connection by connection.
LEMMA PlaysAre ==
  ASSUME NEW p, NEW n \in Nat
  PROVE  \E f : /\ f[0] = {Start}
                /\ \A k \in 1 .. n : f[k] = UNION {Going(p, b) : b \in f[k - 1]}
                /\ Plays(p, n) = f[n]
<1> DEFINE Body(m, f) == [k \in 0 .. m |-> IF k = 0 THEN {Start} ELSE UNION {Going(p, b) : b \in f[k - 1]}]
<1>1. ASSUME NEW m \in Nat PROVE \E f : f = Body(m, f)
  <2>1. PICK M : M = {k \in Nat : ~ \E f : f = Body(k, f)}
    OBVIOUS
  <2>2. SUFFICES ASSUME M # {} PROVE FALSE
    BY <2>1
  <2>3. PICK k \in M : \A l \in M : k <= l
    BY <2>1, <2>2, NatMin
  <2>4. k # 0
    <3>1. PICK f : f = [j \in 0 .. 0 |-> {Start}]
      OBVIOUS
    <3>2. f = Body(0, f)
      BY <3>1
    <3> HIDE DEF Body
    <3>3. QED
      BY <2>1, <3>2
  <2>5. k - 1 \in Nat /\ k \in Nat
    BY <2>1, <2>4
  <2>6. PICK g : g = Body(k - 1, g)
    <3> HIDE DEF Body
    <3>1. k - 1 \notin M
      BY <2>3, <2>5
    <3>2. QED
      BY <2>1, <2>5, <3>1
  <2>7. PICK f : f = [j \in 0 .. k |-> IF j = k THEN UNION {Going(p, b) : b \in g[k - 1]} ELSE g[j]]
    OBVIOUS
  <2>8. \A j \in 0 .. k - 1 : f[j] = g[j]
    BY <2>5, <2>7
  <2>9. ASSUME NEW j \in 0 .. k
        PROVE  f[j] = IF j = 0 THEN {Start} ELSE UNION {Going(p, b) : b \in f[j - 1]}
    <3>1. CASE j = k
      BY <2>4, <2>5, <2>7, <2>8, <3>1
    <3>2. CASE j # k
      <4>1. j \in 0 .. k - 1 /\ (j # 0 => j - 1 \in 0 .. k - 1)
        BY <2>5, <3>2
      <4>2. g[j] = IF j = 0 THEN {Start} ELSE UNION {Going(p, b) : b \in g[j - 1]}
        BY <2>6, <4>1
      <4>3. QED
        BY <2>8, <4>1, <4>2
    <3>3. QED
      BY <3>1, <3>2
  <2>10. f = Body(k, f)
    BY <2>7, <2>9
  <2> HIDE DEF Body
  <2>11. QED
    BY <2>1, <2>3, <2>10
<1>2. PICK f : f = CHOOSE g : g = Body(n, g)
  OBVIOUS
<1>3. f = Body(n, f)
  <2> HIDE DEF Body
  <2>1. QED
    BY <1>1, <1>2
<1>4. Plays(p, n) = f[n]
  BY <1>2 DEF Plays, Going, Start
<1>5. f[0] = {Start}
  BY <1>3
<1>6. ASSUME NEW k \in 1 .. n PROVE f[k] = UNION {Going(p, b) : b \in f[k - 1]}
  <2>1. k \in 0 .. n /\ k # 0
    OBVIOUS
  <2>2. QED
    BY <1>3, <2>1
<1>7. QED
  BY <1>4, <1>5, <1>6
\* If a good play can always go on to a good one, there is a good play of any length.
LEMMA PlayOn ==
  ASSUME NEW p, NEW n \in Nat, NEW Good, Start \in Good[0],
         \A k \in 0 .. n - 1 : \A b \in Good[k] : \E c \in Going(p, b) : c \in Good[k + 1]
  PROVE  \E play \in Plays(p, n) : play \in Good[n]
<1>1. PICK f : /\ f[0] = {Start}
               /\ \A k \in 1 .. n : f[k] = UNION {Going(p, b) : b \in f[k - 1]}
               /\ Plays(p, n) = f[n]
  BY PlaysAre
<1>2. PICK M : M = {k \in Nat : k <= n /\ ~ \E b \in f[k] : b \in Good[k]}
  OBVIOUS
<1>3. CASE M = {}
  <2>1. n \notin M
    BY <1>3
  <2>2. QED
    BY <1>1, <1>2, <2>1
<1>4. CASE M # {}
  <2>1. PICK k \in M : \A l \in M : k <= l
    BY <1>2, <1>4, NatMin
  <2>2. k # 0
    BY <1>1, <1>2
  <2>3. k \in Nat /\ k - 1 \in 0 .. n - 1 /\ k \in 1 .. n /\ k - 1 \in Nat /\ k - 1 <= n /\ (k - 1) + 1 = k /\ ~(k <= k - 1)
    BY <1>2, <2>1, <2>2
  <2>4. k - 1 \notin M
    BY <2>1, <2>3
  <2>5. PICK b \in f[k - 1] : b \in Good[k - 1]
    BY <1>2, <2>3, <2>4
  <2>6. PICK c \in Going(p, b) : c \in Good[(k - 1) + 1]
    BY <2>3, <2>5
  <2>7. c \in f[k] /\ c \in Good[k]
    BY <1>1, <2>3, <2>5, <2>6
  <2>8. QED
    BY <1>2, <2>1, <2>7
<1>5. QED
  BY <1>3, <1>4

\* The turns of the dnats of the rules in S.
Dnats(S) == RulesOf(backend, S)["prerouting"] \cup RulesOf(backend, S)["output"]
Within(t) == \A r \in DOMAIN t : t[r] \in Nat /\ t[r] < Period(r.arg)
TurnsWithin == Within(turn)

\* What has a turn has a period.
LEMMA DnatTurns ==
  ASSUME TypeOK, NEW S \in SUBSET pool, NEW r \in Dnats(S)
  PROVE  Period(r.arg) \in Nat \ {0}
<1>1. PICK chain \in {"prerouting", "output"} : r \in RulesOf(backend, S)[chain]
  BY DEF Dnats
<1>2. PICK s \in S : r.chain = chain /\ Renderable(backend, s) /\ r \in Rendered(backend, s)
  BY <1>1, PoolRules, RulesOfChain DEF Roles
<1>3. WellFormed(s) /\ backend \in Backends /\ s.listed \in BOOLEAN
  BY PoolRules DEF WellFormed
<1>4. PICK proto \in s.protos :
        \/ \E ch \in Entries(s) : Takes(backend, s, proto, ch, r)
        \/ Marks(backend, s, proto, r)
        \/ \E d \in Dests(s), ch \in CountsIn(backend, s) : Kind(backend, s, proto, d, ch, r)
  BY <1>2, <1>3, AllDescribed DEF Described
<1>5. \E ch \in Entries(s) : Takes(backend, s, proto, ch, r)
  BY <1>2, <1>4 DEF Kind, Caps, Lets, Translates, Shortens, Sends, Answers, Labelled, CountsIn, When, Marks
<1>6. QED
  BY <1>2, <1>3, <1>5, TakesTargets, PeriodKnown
\* A turn is short of its period when rules are installed, and stays so.
LEMMA FreshWithin == ASSUME TypeOK, NEW S \in SUBSET pool PROVE Within(Fresh(S))
<1>1. Fresh(S) = [r \in Dnats(S) |-> 0]
  BY DEF Fresh, Dnats
<1>2. \A r \in Dnats(S) : Period(r.arg) \in Nat \ {0}
  BY DnatTurns
<1>3. QED
  BY <1>1, <1>2 DEF Within
LEMMA TurnedWithin ==
  ASSUME TypeOK, NEW t, DOMAIN t = DOMAIN turn, Within(t), NEW p, NEW o
  PROVE  DOMAIN Turned(t, p, o) = DOMAIN turn /\ Within(Turned(t, p, o))
<1> DEFINE next(r) == IF r \in Hits(Entry(p), p) /\ ~Before(o, r)
                      THEN (t[r] + 1) % Period(r.arg) ELSE t[r]
<1>1. Turned(t, p, o) = [r \in DOMAIN t |-> next(r)]
  BY DEF Turned
<1>2. DOMAIN turn = Dnats(kernel.specs) /\ kernel.specs \in SUBSET pool
  BY TypeMeans, PoolRules DEF Dnats
<1>3. ASSUME NEW r \in DOMAIN t PROVE next(r) \in Nat /\ next(r) < Period(r.arg)
  <2>1. Period(r.arg) \in Nat \ {0}
    BY <1>2, DnatTurns
  <2>2. PICK x, y, z : x = t[r] /\ y = Period(r.arg) /\ z = (x + 1) % y
    OBVIOUS
  <2>3. x \in Nat /\ x < y /\ y \in Nat \ {0}
    BY <2>1, <2>2 DEF Within
  <2>4. z \in Nat /\ z < y
    <3>1. x \in 0 .. y - 1
      BY <2>3
    <3>2. z = IF x + 1 = y THEN 0 ELSE x + 1
      BY <2>2, <2>3, <3>1, Around
    <3>3. QED
      BY <2>3, <3>2
  <2>5. next(r) = x \/ next(r) = z
    BY <2>2
  <2> HIDE DEF next
  <2>6. QED
    BY <2>2, <2>3, <2>4, <2>5
<1> HIDE DEF next
<1>4. QED
  BY <1>1, <1>3 DEF Within

\* No turn ever reaches its period.
LEMMA TurnsStay == Spec => []TurnsWithin
<1>1. Init => TurnsWithin
  <2>1. ASSUME Init PROVE TurnsWithin
    <3>1. TypeOK
      BY <2>1, Starts DEF RulesetInv
    <3>2. turn = Fresh({})
      BY <2>1 DEF Init
    <3>3. QED
      BY <3>1, <3>2, FreshWithin DEF TurnsWithin
  <2>2. QED
    BY <2>1
<1>2. RulesetInv /\ RulesetInv' /\ TurnsWithin /\ [Next]_vars => TurnsWithin'
  <2>1. SUFFICES ASSUME RulesetInv, RulesetInv', TurnsWithin, [Next]_vars PROVE TurnsWithin'
    OBVIOUS
  <2>2. TypeOK /\ TypeOK'
    BY <2>1 DEF RulesetInv
  <2>3. ASSUME NEW S \in SUBSET pool, turn' = Fresh(S) PROVE TurnsWithin'
    <3>1. PICK t : t = Fresh(S)
      OBVIOUS
    <3>2. Within(t)
      BY <2>2, <3>1, FreshWithin
    <3>3. Within(turn')
      BY <2>3, <3>1, <3>2
    <3>4. QED
      BY <3>3 DEF TurnsWithin, Within
  <2>4. ASSUME UNCHANGED turn PROVE TurnsWithin'
    BY <2>1, <2>4 DEF TurnsWithin, Within
  <2>5. kernel.specs \in SUBSET pool
    BY <2>2, PoolRules
  <2>6. ASSUME NEW S \in Installable(pool), NEW deleted, Install(S, deleted) PROVE TurnsWithin'
    <3>1. turn' = Fresh(S) \/ UNCHANGED turn
      BY <2>6 DEF Install
    <3>2. S \in SUBSET pool
      BY DEF Installable
    <3>3. QED
      BY <2>3, <2>4, <3>1, <3>2
  <2>7. ASSUME NEW p, Connect(p) PROVE TurnsWithin'
    <3>1. PICK o : turn' = Turned(turn, p, o)
      BY <2>7 DEF Connect
    <3>2. PICK t : t = Turned(turn, p, o)
      OBVIOUS
    <3>3. Within(t)
      BY <2>1, <2>2, <3>2, TurnedWithin DEF TurnsWithin
    <3>4. Within(turn')
      BY <3>1, <3>2, <3>3
    <3>5. QED
      BY <3>4 DEF TurnsWithin, Within
  <2>8. ASSUME NEW c, Close(c) PROVE TurnsWithin'
    BY <2>4, <2>8 DEF Close
  <2>9. ASSUME Boot PROVE TurnsWithin'
    <3>1. PICK S : S = kernel'.specs
      OBVIOUS
    <3>2. turn' = Fresh(S) /\ pool' = pool
      BY <2>9, <3>1 DEF Boot
    <3>3. S \in SUBSET pool
      <4>1. kernel'.specs \in SUBSET pool'
        BY <2>2 DEF TypeOK, Installable
      <4>2. QED
        BY <3>1, <3>2, <4>1
    <3>4. QED
      BY <2>3, <3>2, <3>3
  <2>10. ASSUME NEW r, TakeAway(r) PROVE TurnsWithin'
    <3>1. turn' = Fresh(kernel.specs)
      BY <2>10 DEF TakeAway
    <3>2. QED
      BY <2>3, <2>5, <3>1
  <2>11. ASSUME NEW chain, TakeJump(chain) PROVE TurnsWithin'
    <3>1. turn' = Fresh(kernel.specs)
      BY <2>11 DEF TakeJump
    <3>2. QED
      BY <2>3, <2>5, <3>1
  <2>12. CASE UNCHANGED vars
    BY <2>4, <2>12 DEF vars
  <2>13. QED
    BY <2>1, <2>6, <2>7, <2>8, <2>9, <2>10, <2>11, <2>12 DEF Next
<1>3. QED
  BY <1>1, <1>2, RulesetStays, PTL DEF Spec

\* The dnats that p meets at the listener of s: one under nftables, a rung for each
\* target under iptables.
MySource(s, p) == IF s.listed \/ s.sources = {} THEN {} ELSE {p.src}
NftDnat(s, p) == NftSource(s, Rule(s, "prerouting", BindMatch(s, p.proto), "dnat", NftTargets(s)))
IptDnat(s, p, i) ==
  Rung(i, From(MySource(s, p), Rule(s, "prerouting", BindMatch(s, p.proto), "dnat", IptTargets(s)[i])))

\* Limits, source NAT, clamps and counters are not where new connections arrive.
LEMMA ElsewhereShared ==
  ASSUME NEW b, NEW s, NEW r, NEW chain,
         r \in Limits(b, s) \/ r \in SourceNat(s) \/ r \in Clamps(s)
           \/ (r \in Counters(s, chain) /\ chain # "prerouting")
  PROVE  r.chain # "prerouting"
<1>1. \A ch, m, act, arg : Rule(s, ch, m, act, arg).chain = ch
  BY DEF Rule
<1>2. CASE r \in Limits(b, s)
  <2>1. PICK d \in Dests(s), p \in s.protos :
          r = Rule(s, "forward", DestMatch(s, d, p), "limit",
                   [max |-> s.maxconn, scope |-> IF b = "nftables" THEN <<s.id>> ELSE <<s.id, p, d.addr>>])
    BY <1>2 DEF Limits, When
  <2>2. QED
    BY <1>1, <2>1
<1>3. CASE r \in SourceNat(s)
  BY <1>1, <1>3 DEF SourceNat
<1>4. CASE r \in Clamps(s)
  BY <1>1, <1>4 DEF Clamps
<1>5. CASE r \in Counters(s, chain) /\ chain # "prerouting"
  BY <1>1, <1>5 DEF Counters
<1>6. QED
  BY <1>2, <1>3, <1>4, <1>5
\* What nftables renders there is the one dnat.
LEMMA NftDnatIs ==
  ASSUME NEW s, NEW r \in NftRule(s), NEW p, r.chain = "prerouting", r.match.proto = {p.proto}
  PROVE  r = NftDnat(s, p)
<1> USE DEF When
<1>1. PICK chain \in Entries(s), pr \in s.protos :
        r = NftSource(s, Rule(s, chain, BindMatch(s, pr), "dnat", NftTargets(s)))
  <2>1. \/ \E chain \in Entries(s), pr \in s.protos :
             r = NftSource(s, Rule(s, chain, BindMatch(s, pr), "dnat", NftTargets(s)))
        \/ \E pr : r = NftSource(s, Rule(s, "mark", BindMatch(s, pr), "mark", NoArg))
        \/ \E d, pr : r = NftSource(s, Rule(s, "forward", DestMatch(s, d, pr), "accept", NoArg))
        \/ r \in Limits("nftables", s) \/ r \in SourceNat(s) \/ r \in Clamps(s)
        \/ r \in Counters(s, "accounting") \/ r \in Counters(s, "local_accounting")
    BY DEF NftRule
  <2>2. \A pr, act, arg, d : /\ NftSource(s, Rule(s, "mark", BindMatch(s, pr), act, arg)).chain # "prerouting"
                             /\ NftSource(s, Rule(s, "forward", DestMatch(s, d, pr), act, arg)).chain # "prerouting"
    BY MatchShapes, NftSourceAdds DEF Labelled
  <2>3. ~ \E pr : r = NftSource(s, Rule(s, "mark", BindMatch(s, pr), "mark", NoArg))
    BY <2>2
  <2>4. ~ \E d, pr : r = NftSource(s, Rule(s, "forward", DestMatch(s, d, pr), "accept", NoArg))
    BY <2>2
  <2>5. /\ r \notin Limits("nftables", s) /\ r \notin SourceNat(s) /\ r \notin Clamps(s)
        /\ r \notin Counters(s, "accounting") /\ r \notin Counters(s, "local_accounting")
    BY ElsewhereShared
  <2>6. QED
    BY <2>1, <2>3, <2>4, <2>5
<1>2. r.chain = chain /\ r.match.proto = {pr}
  <2>1. PICK m, a : m = BindMatch(s, pr) /\ a = NftTargets(s)
    OBVIOUS
  <2>2. m = [f \in Fields |-> m[f]] /\ m.src = {} /\ m.proto = {pr}
    <3>1. BindMatch(s, pr) = [f \in Fields |-> BindMatch(s, pr)[f]]
      BY MatchShapes
    <3>2. BindMatch(s, pr).src = {} /\ BindMatch(s, pr).proto = {pr}
      BY BindFields
    <3>3. QED
      BY <2>1, <3>1, <3>2
  <2>3. r = NftSource(s, Rule(s, chain, m, "dnat", a))
    BY <1>1, <2>1
  <2>4. r.chain = chain /\ SameFields(r.match, m)
    BY <2>2, <2>3, NftSourceAdds DEF Labelled
  <2>5. QED
    BY <2>2, <2>4 DEF SameFields
<1>3. pr = p.proto
  BY <1>2
<1>4. QED
  BY <1>1, <1>2, <1>3 DEF NftDnat
\* A rung admits the packet's source alone, if its rule has sources.
LEMMA IptDnatIs ==
  ASSUME NEW s, NEW i, NEW src, NEW chain, NEW proto, NEW arg
  PROVE  LET r == Rung(i, From(src, Rule(s, chain, BindMatch(s, proto), "dnat", arg))) IN
         /\ Labelled(s, r, chain, "dnat") /\ r.rung = i /\ r.arg = arg
         /\ r.match.src = src /\ ArrivingMatch(s, proto, r) /\ r.lists = {}
<1> DEFINE m == BindMatch(s, proto)
           q == From(src, Rule(s, chain, m, "dnat", arg))
           r == Rung(i, q)
<1>1. m = [f \in Fields |-> m[f]]
  BY MatchShapes
<1> HIDE DEF m
<1>2. /\ Labelled(s, q, chain, "dnat") /\ q.arg = arg
      /\ q.match.src = src /\ SameFields(q.match, m) /\ q.lists = {}
  BY <1>1, FromAdds
<1>3. /\ r.order = q.order /\ r.id = q.id /\ r.fam = q.fam /\ r.chain = q.chain /\ r.act = q.act
      /\ r.match = q.match /\ r.lists = q.lists /\ r.arg = q.arg /\ r.rung = i
  BY RungOnly
<1> HIDE DEF q, r
<1>4. Labelled(s, r, chain, "dnat") /\ r.rung = i /\ r.arg = arg /\ r.match.src = src /\ r.lists = {}
  BY <1>2, <1>3 DEF Labelled
<1>5. ArrivingMatch(s, proto, r)
  BY <1>2, <1>3, BindFields DEF ArrivingMatch, SameFields, m
<1>6. QED
  BY <1>4, <1>5 DEF m, q, r
\* What iptables renders there, for one source, are the rungs.
LEMMA IptDnatAmong ==
  ASSUME NEW s, NEW r \in IptRule(s), NEW p, r.chain = "prerouting", r.match.proto = {p.proto},
         ForSource(p.src, r)
  PROVE  \E i \in DOMAIN IptTargets(s) : r = IptDnat(s, p, i)
<1> USE DEF When
<1>1. PICK chain \in Entries(s), pr \in s.protos, src \in SourcesOrAny(s), i \in DOMAIN IptTargets(s) :
        r = Rung(i, From(src, Rule(s, chain, BindMatch(s, pr), "dnat", IptTargets(s)[i])))
  <2>1. \/ \E chain \in Entries(s), pr \in s.protos, src \in SourcesOrAny(s), i \in DOMAIN IptTargets(s) :
             r = Rung(i, From(src, Rule(s, chain, BindMatch(s, pr), "dnat", IptTargets(s)[i])))
        \/ \E pr, src : r = From(src, Rule(s, "mark", BindMatch(s, pr), "mark", NoArg))
        \/ \E d, pr, src : r = From(src, Rule(s, "forward", DestMatch(s, d, pr), "accept", NoArg))
        \/ r \in Limits("iptables", s) \/ r \in SourceNat(s) \/ r \in Clamps(s)
        \/ r \in Counters(s, "accounting")
    BY DEF IptRule
  <2>2. \A pr, act, arg, d, src :
          /\ From(src, Rule(s, "mark", BindMatch(s, pr), act, arg)).chain # "prerouting"
          /\ From(src, Rule(s, "forward", DestMatch(s, d, pr), act, arg)).chain # "prerouting"
    BY MatchShapes, FromAdds DEF Labelled
  <2>3. ~ \E pr, src : r = From(src, Rule(s, "mark", BindMatch(s, pr), "mark", NoArg))
    BY <2>2
  <2>4. ~ \E d, pr, src : r = From(src, Rule(s, "forward", DestMatch(s, d, pr), "accept", NoArg))
    BY <2>2
  <2>5. /\ r \notin Limits("iptables", s) /\ r \notin SourceNat(s) /\ r \notin Clamps(s)
        /\ r \notin Counters(s, "accounting")
    BY ElsewhereShared
  <2>6. QED
    BY <2>1, <2>3, <2>4, <2>5
<1>2. PICK arg : arg = IptTargets(s)[i]
  OBVIOUS
<1>3. r = Rung(i, From(src, Rule(s, chain, BindMatch(s, pr), "dnat", arg)))
  BY <1>1, <1>2
<1>4. r.chain = chain /\ r.match.proto = {pr} /\ r.match.src = src
  BY <1>3, IptDnatIs DEF Labelled, ArrivingMatch
<1>5. pr = p.proto /\ chain = "prerouting"
  BY <1>4
<1>6. src = MySource(s, p)
  BY <1>4, SourcesMeans DEF ForSource, MySource
<1>7. QED
  BY <1>1, <1>5, <1>6 DEF IptDnat

\* All that p meets is what its taker's rule renders.
LEMMA HitsOfOne ==
  ASSUME TypeOK, NEW p \in Arriving, NEW s \in kernel.specs, NEW o \in Hits(Entry(p), p), Taker(s, p, o),
         NEW r \in Hits(Entry(p), p)
  PROVE  Taker(s, p, r)
<1>1. PICK t \in kernel.specs : Taker(t, p, r)
  BY HasTaker DEF Packets
<1>2. t = s
  BY <1>1, OneListener DEF Taker
<1>3. QED
  BY <1>1, <1>2
\* So it meets one dnat of nftables, and all rungs of iptables.
LEMMA NftHits ==
  ASSUME TypeOK, backend = "nftables", NEW p \in Arriving, NEW s \in kernel.specs,
         NEW o \in Hits(Entry(p), p), Taker(s, p, o)
  PROVE  Hits(Entry(p), p) = {NftDnat(s, p)}
<1>1. Entry(p) = "prerouting"
  BY PacketFields, EntryIs DEF Packets
<1>2. ASSUME NEW r \in Hits(Entry(p), p) PROVE r = NftDnat(s, p)
  <2>1. Taker(s, p, r)
    BY <1>2, HitsOfOne
  <2>2. r \in NftRule(s) /\ r.chain = "prerouting" /\ r.match.proto = {p.proto}
    BY <1>1, <2>1 DEF Taker, Takes, Labelled, ArrivingMatch, Rendered
  <2>3. QED
    BY <2>2, NftDnatIs
<1>3. QED
  BY <1>2
LEMMA IptHits ==
  ASSUME TypeOK, AllThere, backend = "iptables", NEW p \in Arriving, NEW s \in kernel.specs,
         NEW o \in Hits(Entry(p), p), Taker(s, p, o)
  PROVE  Hits(Entry(p), p) = {IptDnat(s, p, i) : i \in DOMAIN IptTargets(s)}
<1>1. Entry(p) = "prerouting"
  BY PacketFields, EntryIs DEF Packets
<1>2. ASSUME NEW r \in Hits(Entry(p), p) PROVE \E i \in DOMAIN IptTargets(s) : r = IptDnat(s, p, i)
  <2>1. Taker(s, p, r)
    BY <1>2, HitsOfOne
  <2>2. /\ r \in IptRule(s) /\ r.chain = "prerouting" /\ r.match.proto = {p.proto} /\ ForSource(p.src, r)
    BY <1>1, <2>1 DEF Taker, Takes, Labelled, ArrivingMatch, Rendered, LetIn
  <2>3. QED
    BY <2>2, IptDnatAmong
<1>3. ASSUME NEW i \in DOMAIN IptTargets(s) PROVE IptDnat(s, p, i) \in Hits(Entry(p), p)
  <2>1. PICK r : r = IptDnat(s, p, i)
    OBVIOUS
  <2>2. /\ Labelled(s, r, "prerouting", "dnat") /\ r.match.src = MySource(s, p)
        /\ ArrivingMatch(s, p.proto, r) /\ r.lists = {}
    BY <2>1, IptDnatIs DEF IptDnat
  <2>3. Listens(s, p) /\ s.iface \in {Every, p.iface} /\ p.proto \in s.protos /\ "prerouting" \in Entries(s)
    BY DEF Taker, Listens, Entries
  <2>4. MySource(s, p) \in SourcesOrAny(s)
    <3>1. ~s.listed /\ s.sources # {} => p.src \in s.sources
      BY DEF Taker, Sourced, LetIn, ForSource
    <3>2. QED
      BY <3>1, SourcesMeans DEF MySource
  <2>5. r \in Rendered(backend, s)
    BY <2>1, <2>3, <2>4 DEF Rendered, IptRule, IptDnat
  <2>6. LetIn(r, p)
    BY <2>2 DEF LetIn, ForSource, MySource
  <2>7. WellFormed(s)
    BY PoolRules
  <2>8. Matches(r, p)
    BY <2>2, <2>3, <2>6, <2>7, ArrivingMeans DEF Labelled, Listens
  <2>9. r \in Hits(r.chain, p)
    BY <2>2, <2>5, <2>8, RenderedHits DEF Labelled, Roles
  <2>10. QED
    BY <1>1, <2>1, <2>2, <2>9 DEF Labelled
<1>4. QED
  BY <1>2, <1>3

\* A turn short of the period falls into a slot of the target picked, each its own.
LEMMA SlotOfTurn ==
  ASSUME NEW N \in Nat \ {0}, NEW w, \A i \in 1 .. N : w[i] \in Nat \ {0}, NEW W, W = Sum(w, 1 .. N),
         NEW a, DOMAIN a.to = 1 .. N, a.weights = w
  PROVE  \E g \in [0 .. W - 1 -> Slots(w, 1 .. N)] :
           /\ \A x, y \in 0 .. W - 1 : g[x] = g[y] => x = y
           /\ \A x \in 0 .. W - 1 : Pick(a, x) = a.to[g[x][1]]
<1> DEFINE Pre(i) == Sum(w, 1 .. i - 1)
<1>1. ASSUME NEW i \in 1 .. N PROVE Pre(i) \in Nat /\ Sum(w, 1 .. i) = Pre(i) + w[i] /\ w[i] \in Nat
  BY SumStep
<1>2. W \in Nat
  BY <1>1
<1>3. ASSUME NEW x \in 0 .. W - 1
      PROVE  \E i \in 1 .. N : Pick(a, x) = a.to[i] /\ x - Pre(i) + 1 \in 1 .. w[i]
  <2>1. PICK i \in 1 .. N :
          /\ Pick(a, x) = a.to[i] /\ Pre(i) <= x
          /\ \A j \in 1 .. N : j > i => x < Pre(j)
    <3>1. x \in Nat /\ \A i \in 1 .. N : a.weights[i] \in Nat \ {0}
      BY <1>2
    <3>2. PICK i \in 1 .. N :
            /\ Pick(a, x) = a.to[i] /\ Sum(a.weights, 1 .. i - 1) <= x
            /\ \A j \in 1 .. N : j > i => x < Sum(a.weights, 1 .. j - 1)
      BY <3>1, PicksInTurn
    <3>3. QED
      BY <3>2
  <2>2. x < Sum(w, 1 .. i)
    <3>1. CASE i = N
      BY <1>2, <3>1
    <3>2. CASE i # N
      <4>1. i + 1 \in 1 .. N /\ i + 1 > i /\ (i + 1) - 1 = i
        BY <3>2
      <4>2. x < Pre(i + 1)
        BY <2>1, <4>1
      <4>3. QED
        BY <4>1, <4>2
    <3>3. QED
      BY <3>1, <3>2
  <2>3. Pre(i) \in Nat /\ Sum(w, 1 .. i) = Pre(i) + w[i] /\ w[i] \in Nat /\ x \in Nat
    BY <1>1, <1>2
  <2> HIDE DEF Pre
  <2>4. x - Pre(i) + 1 \in 1 .. w[i]
    BY <2>1, <2>2, <2>3
  <2>5. QED
    BY <2>1, <2>4
<1> HIDE DEF Pre
<1>4. PICK c : c = [x \in 0 .. W - 1 |->
                      CHOOSE i \in 1 .. N : Pick(a, x) = a.to[i] /\ x - Pre(i) + 1 \in 1 .. w[i]]
  OBVIOUS
<1>5. \A x \in 0 .. W - 1 : c[x] \in 1 .. N /\ Pick(a, x) = a.to[c[x]] /\ x - Pre(c[x]) + 1 \in 1 .. w[c[x]]
  BY <1>3, <1>4
<1>6. PICK g : g = [x \in 0 .. W - 1 |-> <<c[x], x - Pre(c[x]) + 1>>]
  OBVIOUS
<1>7. \A x \in 0 .. W - 1 : g[x] \in Slots(w, 1 .. N) /\ g[x][1] = c[x] /\ g[x][2] = x - Pre(c[x]) + 1
  BY <1>5, <1>6, SlotsAre
<1>8. g \in [0 .. W - 1 -> Slots(w, 1 .. N)]
  BY <1>6, <1>7
<1>9. ASSUME NEW x \in 0 .. W - 1, NEW y \in 0 .. W - 1, g[x] = g[y] PROVE x = y
  <2>1. c[x] = c[y] /\ x - Pre(c[x]) + 1 = y - Pre(c[x]) + 1
    BY <1>7, <1>9
  <2>2. Pre(c[x]) \in Nat
    BY <1>1, <1>5
  <2>3. QED
    BY <1>2, <2>1, <2>2
<1>10. \A x \in 0 .. W - 1 : Pick(a, x) = a.to[g[x][1]]
  BY <1>5, <1>7
<1>11. QED
  BY <1>8, <1>9, <1>10

\* One more connection at the end.
LEMMA GoesNext ==
  ASSUME NEW k \in Nat, NEW D, NEW g \in [1 .. k -> D], NEW x \in D
  PROVE  Append(g, x) = [j \in 1 .. k + 1 |-> IF j <= k THEN g[j] ELSE x]
<1>1. g \in Seq(D) /\ Len(g) = k
  OBVIOUS
<1>2. PICK q : q = Append(g, x)
  OBVIOUS
<1>3. q \in Seq(D) /\ Len(q) = k + 1 /\ \A j \in 1 .. k + 1 : q[j] = IF j <= k THEN g[j] ELSE x
  BY <1>1, <1>2
<1>4. q = [j \in 1 .. k + 1 |-> q[j]]
  BY <1>3
<1>5. QED
  BY <1>2, <1>3, <1>4

\* Round a period, each turn comes once.
LEMMA PhaseOneToOne ==
  ASSUME NEW P \in Nat \ {0}, NEW t \in 0 .. P - 1
  PROVE  /\ Phase(t, P, 0) = t
         /\ \A x \in 0 .. P - 1 : Phase(t, P, x) \in 0 .. P - 1
         /\ \A x, y \in 0 .. P - 1 : Phase(t, P, x) = Phase(t, P, y) => x = y
  BY DEF Phase
\* The order of a dnat, and its turn.
LEMMA TurnOfOne ==
  ASSUME TypeOK, TurnsWithin, NEW p \in Arriving, NEW s \in kernel.specs,
         NEW r \in Hits(Entry(p), p), Taker(s, p, r)
  PROVE  /\ r \in DOMAIN turn /\ turn[r] \in Nat /\ turn[r] < Period(r.arg)
         /\ r.order = s.order /\ r.id = s.id /\ s.order \in Nat /\ s.id \in Nat
<1>1. r \in DOMAIN turn
  <2>1. r \in RulesOf(backend, kernel.specs)[Entry(p)] /\ Entry(p) \in {"prerouting", "output"}
    BY EntryIs DEF Hits, RulesIn
  <2>2. DOMAIN turn = RulesOf(backend, kernel.specs)["prerouting"]
                        \cup RulesOf(backend, kernel.specs)["output"]
    BY TypeMeans
  <2>3. QED
    BY <2>1, <2>2
<1>2. QED
  BY <1>1, PoolRules DEF TurnsWithin, Within, Taker, Takes, Labelled, WellFormed

\* What FairShares asks of a rule and a packet, for the weights w.
Shares(s, p, w) ==
  \E play \in Plays(p, Sum(w, DOMAIN w)) : \A i \in DOMAIN s.dests :
    Cardinality({k \in DOMAIN play.gone : play.gone[k] = s.dests[i]})
      = Sum(w, {j \in DOMAIN w : s.dests[j] = s.dests[i]})

\* nftables: one map, whose turn goes round all slots.
LEMMA NftShares ==
  ASSUME TypeOK, TurnsWithin, backend = "nftables", NEW p \in Arriving, NEW s \in kernel.specs,
         NEW o \in Hits(Entry(p), p), Taker(s, p, o),
         NEW w, w \in {Even(s.dests), Weights(s)}, NftTargets(s) = Dnat(1, s.dests, w, FALSE)
  PROVE  Shares(s, p, w)
<1>1. PICK N : /\ N \in Nat \ {0} /\ N = Len(s.dests)
               /\ DOMAIN s.dests = 1 .. N /\ DOMAIN w = 1 .. N /\ \A i \in 1 .. N : w[i] \in Nat \ {0}
  BY PoolRules, WeightsKnown
<1>2. PICK W : W = Sum(w, 1 .. N)
  OBVIOUS
<1>3. W \in Nat \ {0}
  <2>1. 1 \in 1 .. N /\ N \in 1 .. N /\ w[N] \in Nat \ {0}
    BY <1>1
  <2>2. Sum(w, 1 .. N) = Sum(w, 1 .. N - 1) + w[N] /\ Sum(w, 1 .. N - 1) \in Nat
    BY <1>1, <2>1, SumStep
  <2>3. QED
    BY <1>2, <2>1, <2>2
<1>4. Hits(Entry(p), p) = {o}
  BY NftHits
<1>5. o.arg = Dnat(1, s.dests, w, FALSE)
  BY DEF Taker, Takes, TargetsOf
<1>6. /\ o.arg.every = 1 /\ o.arg.to = s.dests /\ o.arg.weights = w /\ o.arg.sticky = FALSE
      /\ Period(o.arg) = W
  <2>1. o.arg.every = 1 /\ o.arg.to = s.dests /\ o.arg.weights = w /\ o.arg.sticky = FALSE
    BY <1>5 DEF Dnat
  <2>2. Period(o.arg) = 1 * W
    BY <1>1, <1>2, <2>1 DEF Period
  <2>3. QED
    BY <1>3, <2>1, <2>2
<1>7. PICK t : t = turn[o]
  OBVIOUS
<1>8. t \in 0 .. W - 1 /\ o \in DOMAIN turn /\ o.order \in Nat /\ o.id \in Nat
  BY <1>3, <1>6, <1>7, TurnOfOne
<1>9. PICK g \in [0 .. W - 1 -> Slots(w, 1 .. N)] :
        /\ \A x, y \in 0 .. W - 1 : g[x] = g[y] => x = y
        /\ \A x \in 0 .. W - 1 : Pick(o.arg, x) = s.dests[g[x][1]]
  <2>1. PICK a : a = o.arg
    OBVIOUS
  <2>2. a.to = s.dests /\ a.weights = w /\ DOMAIN a.to = 1 .. N
    BY <1>1, <1>6, <2>1
  <2>3. N \in Nat \ {0} /\ \A i \in 1 .. N : w[i] \in Nat \ {0}
    BY <1>1
  <2>4. PICK g \in [0 .. W - 1 -> Slots(w, 1 .. N)] :
          /\ \A x, y \in 0 .. W - 1 : g[x] = g[y] => x = y
          /\ \A x \in 0 .. W - 1 : Pick(a, x) = a.to[g[x][1]]
    BY ONLY <1>2, <2>2, <2>3, SlotOfTurn
  <2>5. ASSUME NEW x \in 0 .. W - 1 PROVE Pick(o.arg, x) = s.dests[g[x][1]]
    <3>1. Pick(a, x) = a.to[g[x][1]]
      BY <2>4
    <3>2. QED
      BY <2>1, <2>2, <3>1
  <2>6. QED
    BY <2>4, <2>5
<1>10. PICK h : h = [k \in 1 .. W |-> g[Phase(t, W, k - 1)]]
  OBVIOUS
<1>11. \A k \in 1 .. W : k - 1 \in 0 .. W - 1 /\ Phase(t, W, k - 1) \in 0 .. W - 1
  BY <1>3, <1>8, PhaseOneToOne
<1>12. h \in [1 .. W -> Slots(w, 1 .. N)]
  BY <1>10, <1>11
<1>13. ASSUME NEW k \in 1 .. W, NEW l \in 1 .. W, h[k] = h[l] PROVE k = l
  <2>1. Phase(t, W, k - 1) = Phase(t, W, l - 1)
    BY <1>9, <1>10, <1>11, <1>13
  <2>2. k - 1 = l - 1
    BY <1>3, <1>8, <1>11, <2>1, PhaseOneToOne
  <2>3. QED
    BY <1>3, <2>2
<1> DEFINE Turns(k) == [r \in DOMAIN turn |-> IF r = o THEN Phase(t, W, k) ELSE turn[r]]
           Gone(k) == [j \in 1 .. k |-> s.dests[h[j][1]]]
<1>14. PICK Good : Good = [k \in 0 .. W |-> {[turns |-> Turns(k), gone |-> Gone(k)]}]
  OBVIOUS
<1>15. Start \in Good[0]
  <2>1. Phase(t, W, 0) = t
    BY <1>3, <1>8, PhaseOneToOne
  <2>2. turn = [r \in DOMAIN turn |-> turn[r]]
    BY TypeMeans
  <2>3. Turns(0) = turn
    BY <1>7, <2>1, <2>2
  <2>4. Gone(0) = << >>
    OBVIOUS
  <2>5. 0 \in 0 .. W
    BY <1>3
  <2> HIDE DEF Turns, Gone
  <2>6. QED
    BY <1>14, <2>3, <2>4, <2>5 DEF Start
<1>16. ASSUME NEW k \in 0 .. W - 1, NEW b \in Good[k] PROVE \E c \in Going(p, b) : c \in Good[k + 1]
  <2>1. k \in 0 .. W /\ k + 1 \in 0 .. W /\ k + 1 \in 1 .. W /\ (k + 1) - 1 = k /\ k \in Nat
    BY <1>3
  <2>2. b = [turns |-> Turns(k), gone |-> Gone(k)]
    BY <1>14, <2>1
  <2>3. PICK x : x = Phase(t, W, k)
    OBVIOUS
  <2>4. x \in 0 .. W - 1 /\ x \in Nat
    BY <1>3, <1>8, <2>3, PhaseOneToOne
  <2>5. Turns(k)[o] = x
    BY <1>8, <2>3
  <2>6. o \in Takers(Turns(k), p)
    <3>1. x % 1 = 0
      BY <2>4, Remainders
    <3>2. ~Before(o, o)
      BY <1>8, TakesTargets, PoolRules DEF Before, Taker
    <3> HIDE DEF Turns
    <3>3. {r \in Hits(Entry(p), p) : Turns(k)[r] % r.arg.every = 0} = {o}
      BY <1>4, <1>6, <2>5, <3>1
    <3>4. QED
      BY <3>2, <3>3 DEF Takers, First
  <2>7. Turned(Turns(k), p, o) = Turns(k + 1)
    <3>1. (x + 1) % W = Phase(t, W, k + 1)
      BY <1>3, <1>8, <2>3, PhaseSteps
    <3>2. ~Before(o, o)
      BY <1>8, TakesTargets, PoolRules DEF Before, Taker
    <3>3. ASSUME NEW r \in DOMAIN turn
          PROVE  (IF r \in Hits(Entry(p), p) /\ ~Before(o, r)
                  THEN (Turns(k)[r] + 1) % Period(r.arg) ELSE Turns(k)[r]) =
                 (IF r = o THEN Phase(t, W, k + 1) ELSE turn[r])
      BY <1>4, <1>6, <2>5, <3>1, <3>2
    <3>4. QED
      BY <3>3 DEF Turned
  <2>8. Target(Turns(k), p, o) = s.dests[h[k + 1][1]]
    <3>1. Target(Turns(k), p, o) = Pick(o.arg, x)
      BY <1>6, <2>5 DEF Target
    <3>2. h[k + 1] = g[x]
      BY <1>10, <2>1, <2>3
    <3>3. QED
      BY <1>9, <2>4, <3>1, <3>2
  <2>9. Append(Gone(k), s.dests[h[k + 1][1]]) = Gone(k + 1)
    <3>1. PICK D : D = {s.dests[h[j][1]] : j \in 1 .. W}
      OBVIOUS
    <3>2. Gone(k) \in [1 .. k -> D] /\ s.dests[h[k + 1][1]] \in D
      <4>1. \A j \in 1 .. W : s.dests[h[j][1]] \in D
        BY ONLY <3>1
      <4>2. \A j \in 1 .. k : j \in 1 .. W
        BY <1>3, <2>1
      <4>3. \A j \in 1 .. k : s.dests[h[j][1]] \in D
        BY ONLY <4>1, <4>2
      <4>4. QED
        BY ONLY <2>1, <4>1, <4>3
    <3>3. PICK q, y : q = Gone(k) /\ y = s.dests[h[k + 1][1]]
      OBVIOUS
    <3>4. Append(q, y) = [j \in 1 .. k + 1 |-> IF j <= k THEN q[j] ELSE y]
      BY <2>1, <3>2, <3>3, GoesNext
    <3>5. \A j \in 1 .. k + 1 : (IF j <= k THEN q[j] ELSE y) = s.dests[h[j][1]]
      BY <2>1, <3>3
    <3>6. QED
      BY <3>3, <3>4, <3>5
  <2>10. PICK c : c = [turns |-> Turned(Turns(k), p, o), gone |-> Append(Gone(k), Target(Turns(k), p, o))]
    OBVIOUS
  <2> HIDE DEF Turns, Gone
  <2>11. c \in Going(p, b)
    BY <2>2, <2>6, <2>10 DEF Going
  <2>12. c \in Good[k + 1]
    BY <1>14, <2>1, <2>7, <2>8, <2>9, <2>10
  <2>13. QED
    BY <2>11, <2>12
<1>17. PICK play \in Plays(p, W) : play \in Good[W]
  BY <1>3, <1>15, <1>16, PlayOn
<1>18. play.gone = Gone(W)
  <2> HIDE DEF Turns, Gone
  <2>1. W \in 0 .. W
    BY <1>3
  <2>2. QED
    BY <1>14, <1>17, <2>1
<1>19. ASSUME NEW d
       PROVE  Cardinality({k \in DOMAIN play.gone : play.gone[k] = d}) = Sum(w, {j \in 1 .. N : s.dests[j] = d})
  <2>1. PICK A, B : A = {k \in DOMAIN play.gone : play.gone[k] = d} /\ B = {j \in 1 .. N : s.dests[j] = d}
    OBVIOUS
  <2>2. A = Share(h, B)
    <3>1. \A k \in 1 .. W : h[k][1] \in 1 .. N
      BY <1>12, SlotsAre
    <3>2. DOMAIN h = 1 .. W
      BY <1>12
    <3>3. play.gone = [k \in 1 .. W |-> s.dests[h[k][1]]]
      BY <1>18
    <3>4. QED
      BY ONLY <2>1, <3>1, <3>2, <3>3 DEF Share
  <2>3. h \in Injection(1 .. Sum(w, 1 .. N), Slots(w, 1 .. N))
    BY <1>2, <1>12, <1>13 DEF Injection, IsInjective
  <2>4. N \in Nat /\ \A i \in 1 .. N : w[i] \in Nat \ {0}
    BY <1>1
  <2>5. B \in SUBSET (1 .. N)
    BY <2>1
  <2>6. Cardinality(Share(h, B)) = Sum(w, B)
    BY ONLY <2>3, <2>4, <2>5, SlotsShare
  <2>7. QED
    BY <2>1, <2>2, <2>6
<1>20. \A i \in DOMAIN s.dests :
         Cardinality({k \in DOMAIN play.gone : play.gone[k] = s.dests[i]})
           = Sum(w, {j \in DOMAIN w : s.dests[j] = s.dests[i]})
  <2>1. DOMAIN w = 1 .. N
    BY <1>1
  <2>2. QED
    BY ONLY <1>19, <2>1
<1>21. play \in Plays(p, Sum(w, DOMAIN w))
  BY <1>1, <1>2, <1>17
<1>22. QED
  BY ONLY <1>20, <1>21 DEF Shares

\* The rungs that have taken the first k connections, each one of them; and the
\* turn of a rung after them.
Served(h) == {h[k] : k \in DOMAIN h}
Orders(N, T, k) ==
  {h \in [1 .. k -> 1 .. N] :
     /\ \A i, j \in 1 .. k : h[i] = h[j] => i = j
     /\ IsFiniteSet(Served(h)) /\ Cardinality(Served(h)) = k /\ InTurn(T, N, Served(h))}
TurnAfter(N, T, h, i) == TurnIn(N, T, Served(h), i)

\* Before the first connection, every turn is as it was.
LEMMA OrderFirst ==
  ASSUME NEW N \in Nat \ {0}, NEW T, TurnsIn(N, T)
  PROVE  /\ << >> \in Orders(N, T, 0)
         /\ \A i \in 1 .. N : TurnAfter(N, T, << >>, i) = T[i]
<1>1. PICK h : h = << >>
  OBVIOUS
<1>2. h \in [1 .. 0 -> 1 .. N] /\ Served(h) = {} /\ DOMAIN h = {}
  BY <1>1 DEF Served
<1>3. IsFiniteSet({}) /\ Cardinality({}) = 0
  BY FS_EmptySet
<1>4. \A i \in 1 .. N : Reaching({}, i, N) = 0
  <2>1. \A i \in 1 .. N : {} \cap (i .. N) = {}
    OBVIOUS
  <2>2. QED
    BY <1>3, <2>1 DEF Reaching
<1>5. InTurn(T, N, {})
  <2>1. \A i \in 1 .. N : ~(0 > Wait(T[i], N - i + 1))
    BY DEF Wait, TurnsIn
  <2>2. QED
    BY <1>4, <2>1 DEF InTurn
<1>6. h \in Orders(N, T, 0)
  BY <1>2, <1>3, <1>5 DEF Orders
<1>7. ASSUME NEW i \in 1 .. N PROVE TurnAfter(N, T, h, i) = T[i]
  BY <1>2, <1>4, <1>7 DEF TurnAfter, TurnIn, Phase, TurnsIn
<1>8. QED
  BY <1>1, <1>6, <1>7

\* The last rung always takes one, so a first one does.
LEMMA SomeRung ==
  ASSUME NEW N \in Nat \ {0}, NEW T, TurnsIn(N, T), NEW k \in Nat, NEW h \in Orders(N, T, k)
  PROVE  \E o \in 1 .. N : FirstRung(N, T, Served(h), o)
<1>1. PICK G : G = Served(h)
  OBVIOUS
<1>2. G \in SUBSET (1 .. N)
  BY <1>1 DEF Orders, InTurn
<1>3. N \in 1 .. N /\ T[N] = 0 /\ N - N + 1 = 1
  BY DEF TurnsIn
<1>4. Reaching(G, N, N) \in 0 .. 1
  <2>1. \A i \in 1 .. N : Reaching(G, i, N) \in 0 .. N - i + 1
    BY <1>2, ReachingCounts
  <2>2. QED
    BY <1>3, <2>1
<1>5. TurnAfter(N, T, h, N) = 0
  BY <1>1, <1>3, <1>4 DEF TurnAfter, TurnIn, Phase
<1>6. PICK M : M = {i \in 1 .. N : TurnAfter(N, T, h, i) = 0}
  OBVIOUS
<1>7. M \in SUBSET Nat /\ M # {}
  BY <1>3, <1>5, <1>6
<1>8. PICK o \in M : \A i \in M : o <= i
  BY <1>7, NatMin
<1>9. QED
  BY <1>6, <1>8 DEF FirstRung, TurnAfter

\* It has taken none yet, and those before it are one turn on.
LEMMA OrderGrows ==
  ASSUME NEW N \in Nat \ {0}, NEW T, TurnsIn(N, T),
         NEW k \in 0 .. N - 1, NEW h \in Orders(N, T, k),
         NEW o \in 1 .. N, FirstRung(N, T, Served(h), o)
  PROVE  \E next \in Orders(N, T, k + 1) :
           /\ \A j \in 1 .. k : next[j] = h[j]
           /\ next[k + 1] = o
           /\ \A i \in 1 .. N : TurnAfter(N, T, next, i) =
                Onward(N, T, Served(h), o, i)
<1>1. PICK G : G = Served(h)
  OBVIOUS
<1>2. /\ h \in [1 .. k -> 1 .. N] /\ \A i, j \in 1 .. k : h[i] = h[j] => i = j
      /\ IsFiniteSet(G) /\ Cardinality(G) = k /\ InTurn(T, N, G)
  BY <1>1 DEF Orders
<1>3. G # 1 .. N
  <2>1. Cardinality(1 .. N) = N
    BY FS_Interval
  <2>2. QED
    BY <1>2, <2>1
<1>4. FirstRung(N, T, G, o)
  BY <1>1
<1>5. /\ o \notin G /\ InTurn(T, N, G \cup {o})
      /\ \A i \in 1 .. N :
           TurnIn(N, T, G \cup {o}, i) =
             Onward(N, T, G, o, i)
  <2>0. InTurn(T, N, G) /\ TurnsIn(N, T)
    BY <1>2
  <2>1. o \notin G
    BY ONLY <2>0, <1>3, <1>4, NextRung
  <2>2. InTurn(T, N, G \cup {o})
    BY ONLY <2>0, <1>3, <1>4, NextRung
  <2>3. \A i \in 1 .. N : TurnIn(N, T, G \cup {o}, i) = Onward(N, T, G, o, i)
    BY ONLY <2>0, <1>3, <1>4, NextRung
  <2>4. QED
    BY <2>1, <2>2, <2>3
<1>6. PICK next : next = [j \in 1 .. k + 1 |-> IF j <= k THEN h[j] ELSE o]
  OBVIOUS
<1>7. /\ \A j \in 1 .. k : next[j] = h[j] /\ j \in 1 .. k + 1
      /\ next[k + 1] = o /\ k + 1 \in 1 .. k + 1 /\ DOMAIN next = 1 .. k + 1
      /\ \A j \in 1 .. k + 1 : j \in 1 .. k \/ j = k + 1
  BY <1>6
<1>8. Served(next) = G \cup {o}
  <2>1. DOMAIN h = 1 .. k
    BY <1>2
  <2>2. \A e : e \in Served(next) <=> \E j \in 1 .. k + 1 : e = next[j]
    BY <1>7 DEF Served
  <2>3. \A e : e \in G <=> \E j \in 1 .. k : e = h[j]
    BY <1>1, <2>1 DEF Served
  <2>4. QED
    BY <1>7, <2>2, <2>3
<1>9. IsFiniteSet(G \cup {o}) /\ Cardinality(G \cup {o}) = k + 1
  BY <1>2, <1>5, FS_AddElement
<1>10. next \in [1 .. k + 1 -> 1 .. N]
  <2>1. \A j \in 1 .. k : h[j] \in 1 .. N
    BY <1>2
  <2>2. \A j \in 1 .. k + 1 : next[j] \in 1 .. N
    BY <1>7, <2>1
  <2>3. QED
    BY <1>6, <2>2
<1>11. ASSUME NEW i \in 1 .. k + 1, NEW j \in 1 .. k + 1, next[i] = next[j] PROVE i = j
  <2>1. \A l \in 1 .. k : next[l] \in G /\ next[l] = h[l]
    BY <1>1, <1>2, <1>7 DEF Served
  <2>2. i \in 1 .. k <=> j \in 1 .. k
    BY <1>5, <1>7, <1>11, <2>1
  <2>3. QED
    BY <1>2, <1>7, <1>11, <2>1, <2>2
<1>12. next \in Orders(N, T, k + 1)
  BY <1>5, <1>8, <1>9, <1>10, <1>11 DEF Orders
<1>13. \A i \in 1 .. N : TurnAfter(N, T, next, i) =
         Onward(N, T, Served(h), o, i)
  BY <1>1, <1>5, <1>8 DEF TurnAfter
<1>14. QED
  BY <1>7, <1>12, <1>13

\* The ladder of equal shares.
OneOf(s, i, every, a) ==
  /\ a.every = every /\ a.sticky = FALSE /\ Period(a) = every
  /\ \A x \in Nat : Pick(a, x) = s.dests[i]
LEMMA EvenLadder ==
  ASSUME NEW b, NEW s, WellFormed(s), Renderable(b, s), Balanced(s), Mode(s) = "round_robin"
  PROVE  \E N \in Nat \ {0} :
           /\ N = Len(s.dests) /\ DOMAIN s.dests = 1 .. N /\ DOMAIN Even(s.dests) = 1 .. N
           /\ DOMAIN IptTargets(s) = 1 .. N
           /\ \A i \in 1 .. N : OneOf(s, i, N - i + 1, IptTargets(s)[i])
<1>1. PICK N \in Nat \ {0} : N = Len(s.dests) /\ DOMAIN s.dests = 1 .. N
  BY WeightsKnown
<1>2. PICK w : w = Even(s.dests)
  OBVIOUS
<1>3. DOMAIN w = 1 .. N /\ \A i \in 1 .. N : w[i] = 1
  BY <1>1, <1>2 DEF Even
<1>4. IptTargets(s) = Ladder(s, w)
  BY <1>2 DEF IptTargets
<1>5. ASSUME NEW i \in 1 .. N PROVE Remaining(w, i) = N - i + 1
  <2>1. {j \in DOMAIN w : j >= i} = i .. N
    BY <1>3
  <2>2. IsFiniteSet(i .. N) /\ Cardinality(i .. N) = N - i + 1
    BY FS_Interval
  <2>3. \A j \in i .. N : w[j] = 1
    BY <1>3
  <2>4. Sum(w, i .. N) = N - i + 1
    BY <2>2, <2>3, SumOfOnes
  <2>5. QED
    BY <2>1, <2>4 DEF Remaining
<1>6. ASSUME NEW i \in 1 .. N
      PROVE  Ladder(s, w)[i] = Dnat(N - i + 1, <<s.dests[i]>>, <<1>>, FALSE)
  <2>1. PICK e : e = IF i = N THEN 1 ELSE Remaining(w, i) \div w[i]
    OBVIOUS
  <2>2. (N - i + 1) \div 1 = N - i + 1
    OBVIOUS
  <2>3. e = N - i + 1
    BY <1>3, <1>5, <2>1, <2>2
  <2>4. Ladder(s, w)[i] = Dnat(e, <<s.dests[i]>>, <<1>>, FALSE)
    BY <1>1, <2>1 DEF Ladder
  <2>5. QED
    BY <2>3, <2>4
<1>7. ASSUME NEW i \in 1 .. N, NEW a, a = IptTargets(s)[i]
      PROVE  OneOf(s, i, N - i + 1, a)
  <2>1. a = Dnat(N - i + 1, <<s.dests[i]>>, <<1>>, FALSE)
    BY <1>4, <1>6, <1>7
  <2>2. a.every = N - i + 1 /\ a.to = <<s.dests[i]>> /\ a.weights = <<1>> /\ a.sticky = FALSE
    BY <2>1 DEF Dnat
  <2>3. DOMAIN a.to = 1 .. 1 /\ a.to[1] = s.dests[i] /\ \A j \in 1 .. 1 : a.weights[j] = 1
    BY <2>2
  <2>4. IsFiniteSet(1 .. 1) /\ Cardinality(1 .. 1) = 1
    <3>1. 1 .. 1 = {1}
      OBVIOUS
    <3>2. QED
      BY <3>1, FS_Singleton
  <2>5. Sum(a.weights, 1 .. 1) = 1
    BY <2>3, <2>4, SumOfOnes
  <2>6. Period(a) = (N - i + 1) * 1
    BY <2>2, <2>3, <2>5 DEF Period
  <2>7. ASSUME NEW x \in Nat PROVE Pick(a, x) = s.dests[i]
    <3>1. PICK n : n = 1
      OBVIOUS
    <3>2. n \in Nat \ {0} /\ DOMAIN a.to = 1 .. n /\ \A j \in 1 .. n : a.weights[j] \in Nat \ {0}
      BY <2>3, <3>1
    <3>3. PICK j \in 1 .. n : Pick(a, x) = a.to[j]
      BY <3>2, PicksInTurn
    <3>4. QED
      BY <2>3, <3>1, <3>3
  <2>8. QED
    BY <2>2, <2>6, <2>7 DEF OneOf
<1>8. DOMAIN IptTargets(s) = 1 .. N
  BY <1>1, <1>4 DEF Ladder
<1>9. QED
  BY <1>1, <1>2, <1>3, <1>7, <1>8

\* A rung's turn stays short of its period.
LEMMA AfterKnown ==
  ASSUME NEW N \in Nat \ {0}, NEW T, TurnsIn(N, T), NEW k \in Nat, NEW h \in Orders(N, T, k), NEW i \in 1 .. N
  PROVE  TurnAfter(N, T, h, i) \in 0 .. N - i
<1>1. PICK G, t, P, a : G = Served(h) /\ t = T[i] /\ P = N - i + 1 /\ a = Reaching(G, i, N)
  OBVIOUS
<1>2. G \in SUBSET (1 .. N)
  BY <1>1 DEF Orders, InTurn
<1>3. a \in 0 .. N - i + 1
  BY <1>1, <1>2, ReachingCounts
<1>4. P \in Nat \ {0} /\ t \in 0 .. P - 1 /\ a \in 0 .. P /\ P - 1 = N - i
  BY <1>1, <1>3 DEF TurnsIn
<1>5. Phase(t, P, a) \in 0 .. P - 1
  BY <1>4 DEF Phase
<1>6. QED
  BY <1>1, <1>4, <1>5 DEF TurnAfter, TurnIn

\* The rungs of the ladder that p meets, from the first.
LEMMA Rungs ==
  ASSUME TypeOK, TurnsWithin, AllThere, backend = "iptables", NEW p \in Arriving, NEW s \in kernel.specs,
         NEW o \in Hits(Entry(p), p), Taker(s, p, o), NEW N \in Nat \ {0}, DOMAIN IptTargets(s) = 1 .. N,
         \A i \in 1 .. N : OneOf(s, i, N - i + 1, IptTargets(s)[i])
  PROVE  \E rung : /\ DOMAIN rung = 1 .. N /\ Hits(Entry(p), p) = {rung[i] : i \in 1 .. N}
                   /\ \A i \in 1 .. N : /\ rung[i] \in DOMAIN turn /\ rung[i].rung = i
                                        /\ turn[rung[i]] \in 0 .. N - i
                                        /\ OneOf(s, i, N - i + 1, rung[i].arg)
                   /\ \A i, j \in 1 .. N : Before(rung[i], rung[j]) <=> i < j
<1>1. PICK rung : rung = [i \in 1 .. N |-> IptDnat(s, p, i)]
  OBVIOUS
<1>2. Hits(Entry(p), p) = {rung[i] : i \in 1 .. N}
  BY <1>1, IptHits
<1>3. ASSUME NEW i \in 1 .. N
      PROVE  /\ Taker(s, p, rung[i]) /\ rung[i].rung = i /\ rung[i].arg = IptTargets(s)[i]
             /\ rung[i] \in Hits(Entry(p), p)
  <2>1. PICK arg : arg = IptTargets(s)[i]
    OBVIOUS
  <2>2. rung[i] = Rung(i, From(MySource(s, p), Rule(s, "prerouting", BindMatch(s, p.proto), "dnat", arg)))
    BY <1>1, <2>1 DEF IptDnat
  <2>3. rung[i].rung = i /\ rung[i].arg = arg
    BY <2>2, IptDnatIs
  <2>4. rung[i] \in Hits(Entry(p), p)
    BY <1>2
  <2>5. Taker(s, p, rung[i])
    BY <2>4, HitsOfOne
  <2>6. QED
    BY <2>1, <2>3, <2>4, <2>5
<1>4. ASSUME NEW i \in 1 .. N
      PROVE  /\ rung[i] \in DOMAIN turn /\ turn[rung[i]] \in 0 .. N - i
             /\ rung[i].order = s.order /\ rung[i].id = s.id
  <2>1. PICK r, t : r = rung[i] /\ t = turn[r]
    OBVIOUS
  <2>2. r \in Hits(Entry(p), p) /\ Taker(s, p, r) /\ r.arg = IptTargets(s)[i]
    BY <1>3, <2>1
  <2>3. r \in DOMAIN turn /\ t \in Nat /\ t < Period(r.arg) /\ r.order = s.order /\ r.id = s.id
    BY <2>1, <2>2, TurnOfOne
  <2>4. Period(r.arg) = N - i + 1
    BY <2>2 DEF OneOf
  <2>5. t \in 0 .. N - i
    BY <2>3, <2>4
  <2>6. QED
    BY <2>1, <2>3, <2>5
<1>5. ASSUME NEW i \in 1 .. N, NEW j \in 1 .. N PROVE Before(rung[i], rung[j]) <=> i < j
  <2>1. WellFormed(s)
    BY PoolRules
  <2>2. PICK q, r : q = rung[i] /\ r = rung[j]
    OBVIOUS
  <2>3. q.order = s.order /\ q.id = s.id /\ r.order = s.order /\ r.id = s.id /\ q.rung = i /\ r.rung = j
    BY <1>3, <1>4, <2>2
  <2>4. Before(q, r) <=> q.rung < r.rung
    BY <2>1, <2>3, NotBefore
  <2>5. QED
    BY <2>2, <2>3, <2>4
<1>6. DOMAIN rung = 1 .. N
  BY <1>1
<1>7. \A i \in 1 .. N : OneOf(s, i, N - i + 1, rung[i].arg)
  BY <1>3
<1>8. QED
  BY <1>2, <1>3, <1>4, <1>5, <1>6, <1>7

\* iptables: the ladder, each rung with its own turn.
LEMMA IptShares ==
  ASSUME TypeOK, TurnsWithin, AllThere, backend = "iptables", NEW p \in Arriving, NEW s \in kernel.specs,
         NEW o \in Hits(Entry(p), p), Taker(s, p, o), Balanced(s), Mode(s) = "round_robin"
  PROVE  Shares(s, p, Even(s.dests))
<1>1. PICK N \in Nat \ {0} :
        /\ N = Len(s.dests) /\ DOMAIN s.dests = 1 .. N /\ DOMAIN Even(s.dests) = 1 .. N
        /\ DOMAIN IptTargets(s) = 1 .. N
        /\ \A i \in 1 .. N : OneOf(s, i, N - i + 1, IptTargets(s)[i])
  <2>1. WellFormed(s) /\ Renderable(backend, s)
    BY PoolRules
  <2>2. QED
    BY <2>1, EvenLadder
<1>2. PICK rung :
        /\ DOMAIN rung = 1 .. N /\ Hits(Entry(p), p) = {rung[i] : i \in 1 .. N}
        /\ \A i \in 1 .. N : /\ rung[i] \in DOMAIN turn /\ rung[i].rung = i
                             /\ turn[rung[i]] \in 0 .. N - i
                             /\ OneOf(s, i, N - i + 1, rung[i].arg)
        /\ \A i, j \in 1 .. N : Before(rung[i], rung[j]) <=> i < j
  <2>1. N \in Nat \ {0} /\ DOMAIN IptTargets(s) = 1 .. N
    BY <1>1
  <2>2. \A i \in 1 .. N : OneOf(s, i, N - i + 1, IptTargets(s)[i])
    BY <1>1
  <2>3. QED
    BY ONLY TypeOK, TurnsWithin, AllThere, backend = "iptables", o \in Hits(Entry(p), p), Taker(s, p, o),
            p \in Arriving, s \in kernel.specs, <2>1, <2>2, Rungs
<1>3. PICK w : w = Even(s.dests)
  OBVIOUS
<1>4. \A i \in 1 .. N : w[i] = 1 /\ w[i] \in Nat \ {0}
  BY <1>1, <1>3 DEF Even
<1>5. Sum(w, 1 .. N) = N
  <2>1. IsFiniteSet(1 .. N) /\ Cardinality(1 .. N) = N
    BY FS_Interval
  <2>2. QED
    BY <1>4, <2>1, SumOfOnes
<1>6. PICK T : T = [i \in 1 .. N |-> turn[rung[i]]]
  OBVIOUS
<1>7. TurnsIn(N, T)
  BY <1>2, <1>6 DEF TurnsIn
<1> DEFINE met == Hits(Entry(p), p)
           Turns(h) == [r \in DOMAIN turn |-> IF r \in met THEN TurnAfter(N, T, h, r.rung) ELSE turn[r]]
           Gone(h, k) == [j \in 1 .. k |-> s.dests[h[j]]]
<1>8. \A h : DOMAIN Turns(h) = DOMAIN turn
             /\ \A i \in 1 .. N : rung[i] \in met /\ Turns(h)[rung[i]] = TurnAfter(N, T, h, i)
  BY <1>2
<1>9. \A r \in met : \E i \in 1 .. N : r = rung[i]
  BY <1>2
<1>10. PICK Good :
         Good = [k \in 0 .. N |-> {[turns |-> Turns(h), gone |-> Gone(h, k)] : h \in Orders(N, T, k)}]
  OBVIOUS
<1>11. Start \in Good[0]
  <2>1. PICK h : h = << >>
    OBVIOUS
  <2>2. h \in Orders(N, T, 0) /\ \A i \in 1 .. N : TurnAfter(N, T, h, i) = T[i]
    BY <1>7, <2>1, OrderFirst
  <2>3. \A r \in DOMAIN turn : (IF r \in met THEN TurnAfter(N, T, h, r.rung) ELSE turn[r]) = turn[r]
    <3>1. ASSUME NEW r \in met PROVE TurnAfter(N, T, h, r.rung) = turn[r]
      <4>1. PICK i \in 1 .. N : r = rung[i]
        BY <1>9
      <4>2. r.rung = i /\ T[i] = turn[r]
        BY <1>2, <1>6, <4>1
      <4>3. QED
        BY <2>2, <4>2
    <3> HIDE DEF met
    <3>2. QED
      BY <3>1
  <2>4. turn = [r \in DOMAIN turn |-> turn[r]]
    BY TypeMeans
  <2>5. Turns(h) = turn
    BY <2>3, <2>4
  <2>6. Gone(h, 0) = << >>
    OBVIOUS
  <2>7. 0 \in 0 .. N
    OBVIOUS
  <2> HIDE DEF Turns, Gone
  <2>8. QED
    BY <1>10, <2>2, <2>5, <2>6, <2>7 DEF Start
<1>12. ASSUME NEW k \in 0 .. N - 1, NEW b \in Good[k] PROVE \E c \in Going(p, b) : c \in Good[k + 1]
  <2>1. k \in 0 .. N /\ k + 1 \in 0 .. N /\ k \in Nat
    OBVIOUS
  <2>2. PICK h \in Orders(N, T, k) : b = [turns |-> Turns(h), gone |-> Gone(h, k)]
    BY <1>10, <2>1
  <2>3. PICK m \in 1 .. N : FirstRung(N, T, Served(h), m)
    BY <1>7, <2>1, SomeRung
  <2>4. PICK next \in Orders(N, T, k + 1) :
          /\ \A j \in 1 .. k : next[j] = h[j]
          /\ next[k + 1] = m
          /\ \A i \in 1 .. N : TurnAfter(N, T, next, i) = Onward(N, T, Served(h), m, i)
    BY <1>7, <2>3, OrderGrows
  <2>5. \A i \in 1 .. N : TurnAfter(N, T, h, i) \in 0 .. N - i
    BY <1>7, <2>1, AfterKnown
  <2>6. TurnAfter(N, T, h, m) = 0 /\ \A i \in 1 .. N : i < m => TurnAfter(N, T, h, i) # 0
    BY <2>3 DEF FirstRung, TurnAfter
  <2>7. \A i \in 1 .. N : /\ rung[i].arg.every = N - i + 1 /\ rung[i].arg.sticky = FALSE
                          /\ Period(rung[i].arg) = N - i + 1
                          /\ \A x \in Nat : Pick(rung[i].arg, x) = s.dests[i]
    BY <1>2 DEF OneOf
  <2>8. ASSUME NEW i \in 1 .. N
        PROVE  Turns(h)[rung[i]] % rung[i].arg.every = TurnAfter(N, T, h, i)
    <3>1. PICK P, x : P = N - i + 1 /\ x = TurnAfter(N, T, h, i)
      OBVIOUS
    <3>2. P \in Nat \ {0} /\ x \in 0 .. P - 1
      BY <2>5, <3>1
    <3>3. x % P = x
      BY <3>2, Around
    <3> HIDE DEF Turns
    <3>4. QED
      BY <1>8, <2>7, <3>1, <3>3
  <2>9. PICK q : q = rung[m]
    OBVIOUS
  <2>10. PICK t : t = Turns(h)
    OBVIOUS
  <2>11. q \in Takers(t, p)
    <3>1. q \in met /\ t[q] % q.arg.every = 0
      BY <1>8, <2>6, <2>8, <2>9, <2>10
    <3>2. ASSUME NEW r \in met, t[r] % r.arg.every = 0 PROVE ~Before(r, q)
      <4>1. PICK i \in 1 .. N : r = rung[i]
        BY <1>9
      <4>2. TurnAfter(N, T, h, i) = 0
        BY <2>8, <2>10, <3>2, <4>1
      <4>3. ~(i < m)
        BY <2>6, <4>2
      <4>4. QED
        BY <1>2, <2>9, <4>1, <4>3
    <3>3. QED
      BY <3>1, <3>2 DEF Takers, First
  <2>12. Turned(t, p, q) = Turns(next)
    <3>1. ASSUME NEW r \in DOMAIN turn
          PROVE  (IF r \in met /\ ~Before(q, r) THEN (t[r] + 1) % Period(r.arg) ELSE t[r]) =
                 (IF r \in met THEN TurnAfter(N, T, next, r.rung) ELSE turn[r])
      <4>1. CASE r \notin met
        BY <2>10, <4>1
      <4>2. CASE r \in met
        <5>1. PICK i \in 1 .. N : r = rung[i]
          BY <1>9, <4>2
        <5>2. r.rung = i /\ Period(r.arg) = N - i + 1 /\ t[r] = TurnAfter(N, T, h, i)
          BY <1>2, <1>8, <2>7, <2>10, <5>1
        <5>3. Before(q, r) <=> m < i
          BY <1>2, <2>9, <5>1
        <5>4. ~Before(q, r) <=> i <= m
          BY <5>3
        <5>5. TurnAfter(N, T, next, i) =
                IF i <= m THEN (t[r] + 1) % Period(r.arg) ELSE t[r]
          BY <2>4, <5>2 DEF Onward, TurnAfter
        <5> HIDE DEF met
        <5>6. QED
          BY <4>2, <5>2, <5>4, <5>5
      <4>3. QED
        BY <4>1, <4>2
    <3>2. DOMAIN t = DOMAIN turn
      BY <2>10
    <3>3. QED
      BY <3>1, <3>2 DEF Turned
  <2>13. Target(t, p, q) = s.dests[m]
    <3>1. t[q] \in Nat
      BY <1>8, <2>6, <2>9, <2>10
    <3>2. q.arg.sticky = FALSE /\ \A x \in Nat : Pick(q.arg, x) = s.dests[m]
      BY <2>7, <2>9
    <3>3. QED
      BY <3>1, <3>2 DEF Target
  <2>14. Append(Gone(h, k), s.dests[m]) = Gone(next, k + 1)
    <3>1. PICK D, g, y : D = {s.dests[j] : j \in 1 .. N} /\ g = Gone(h, k) /\ y = s.dests[m]
      OBVIOUS
    <3>2. g \in [1 .. k -> D] /\ y \in D
      <4>1. \A j \in 1 .. k : h[j] \in 1 .. N
        BY DEF Orders
      <4>2. \A i \in 1 .. N : s.dests[i] \in D
        BY <3>1
      <4>3. \A j \in 1 .. k : s.dests[h[j]] \in D
        BY ONLY <4>1, <4>2
      <4>4. QED
        BY <3>1, <4>2, <4>3
    <3>3. Append(g, y) = [j \in 1 .. k + 1 |-> IF j <= k THEN g[j] ELSE y]
      BY <2>1, <3>2, GoesNext
    <3>4. \A j \in 1 .. k + 1 : (IF j <= k THEN g[j] ELSE y) = s.dests[next[j]]
      <4>1. \A j \in 1 .. k + 1 : j <= k => j \in 1 .. k /\ g[j] = s.dests[h[j]]
        BY <2>1, <3>1
      <4>2. \A j \in 1 .. k + 1 : ~(j <= k) => j = k + 1
        BY <2>1
      <4>3. QED
        BY <2>4, <3>1, <4>1, <4>2
    <3>5. QED
      BY <3>1, <3>3, <3>4
  <2>15. PICK c : c = [turns |-> Turned(t, p, q), gone |-> Append(Gone(h, k), Target(t, p, q))]
    OBVIOUS
  <2> HIDE DEF Turns, Gone
  <2>16. c \in Going(p, b)
    BY <2>2, <2>10, <2>11, <2>15 DEF Going
  <2>17. c \in Good[k + 1]
    BY <1>10, <2>1, <2>12, <2>13, <2>14, <2>15
  <2>18. QED
    BY <2>16, <2>17
<1>13. PICK play \in Plays(p, N) : play \in Good[N]
  BY <1>11, <1>12, PlayOn
<1>14. PICK h \in Orders(N, T, N) : play.gone = Gone(h, N)
  <2> HIDE DEF Turns, Gone
  <2>1. N \in 0 .. N
    OBVIOUS
  <2>2. QED
    BY <1>10, <1>13, <2>1
<1>15. PICK slot : slot = [k \in 1 .. N |-> <<h[k], 1>>]
  OBVIOUS
<1>16. slot \in Injection(1 .. Sum(w, 1 .. N), Slots(w, 1 .. N))
  <2>1. \A k \in 1 .. N : h[k] \in 1 .. N /\ slot[k] = <<h[k], 1>>
    BY <1>15 DEF Orders
  <2>2. \A k \in 1 .. N : slot[k] \in Slots(w, 1 .. N)
    <3>1. ASSUME NEW k \in 1 .. N PROVE <<h[k], 1>> \in Slots(w, 1 .. N)
      <4>1. PICK e, i : e = <<h[k], 1>> /\ i = h[k]
        OBVIOUS
      <4>2. e = <<e[1], e[2]>> /\ e[1] = i /\ e[2] = 1 /\ i \in 1 .. N
        BY <2>1, <4>1
      <4>3. 1 \in 1 .. w[i]
        BY <1>4, <4>2
      <4>4. e \in Slots(w, 1 .. N)
        BY <4>2, <4>3, SlotsAre
      <4>5. QED
        BY <4>1, <4>4
    <3>2. QED
      BY <2>1, <3>1
  <2>3. \A k, l \in 1 .. N : slot[k] = slot[l] => k = l
    <3>1. \A k, l \in 1 .. N : h[k] = h[l] => k = l
      BY DEF Orders
    <3>2. QED
      BY <2>1, <3>1
  <2>4. QED
    BY <1>5, <1>15, <2>2, <2>3 DEF Injection, IsInjective
<1>17. ASSUME NEW d
       PROVE  Cardinality({k \in DOMAIN play.gone : play.gone[k] = d}) = Sum(w, {j \in 1 .. N : s.dests[j] = d})
  <2>1. PICK A, B : A = {k \in DOMAIN play.gone : play.gone[k] = d} /\ B = {j \in 1 .. N : s.dests[j] = d}
    OBVIOUS
  <2>2. A = Share(slot, B)
    <3>1. \A k \in 1 .. N : slot[k][1] = h[k] /\ h[k] \in 1 .. N
      BY <1>15 DEF Orders
    <3>2. DOMAIN slot = 1 .. N
      BY <1>15
    <3>3. play.gone = [k \in 1 .. N |-> s.dests[h[k]]]
      BY <1>14
    <3>4. QED
      BY ONLY <2>1, <3>1, <3>2, <3>3 DEF Share
  <2>3. N \in Nat /\ \A i \in 1 .. N : w[i] \in Nat \ {0}
    BY <1>4
  <2>4. B \in SUBSET (1 .. N)
    BY <2>1
  <2>5. Cardinality(Share(slot, B)) = Sum(w, B)
    BY ONLY <1>16, <2>3, <2>4, SlotsShare
  <2>6. QED
    BY <2>1, <2>2, <2>5
<1>18. DOMAIN w = 1 .. N
  BY <1>1, <1>3
<1>19. \A i \in DOMAIN s.dests :
         Cardinality({k \in DOMAIN play.gone : play.gone[k] = s.dests[i]})
           = Sum(w, {j \in DOMAIN w : s.dests[j] = s.dests[i]})
  BY ONLY <1>17, <1>18
<1>20. play \in Plays(p, Sum(w, DOMAIN w))
  BY <1>5, <1>13, <1>18
<1>21. Shares(s, p, w)
  BY ONLY <1>19, <1>20 DEF Shares
<1>22. QED
  BY <1>3, <1>21

\* As many new connections of one client as the weights add up to are shared by the
\* weights, from any point on: by the map of nftables (nftDnatTarget) and, for
\* round robin, by the ladder of iptables (iptDnatRules).
THEOREM SharesAreFair == Spec => []FairShares
<1>1. RulesetInv /\ TurnsWithin => FairShares
  <2>1. ASSUME RulesetInv, TurnsWithin, NEW s \in kernel.specs, Balanced(s),
               Mode(s) = "round_robin" \/ (Mode(s) = "weighted" /\ backend = "nftables"),
               NEW p \in Arriving, Intact, NEW o \in Takers(turn, p), o.id = s.id
        PROVE  Shares(s, p, IF Mode(s) = "weighted" THEN Weights(s) ELSE Even(s.dests))
    <3>1. TypeOK /\ JumpsCome
      BY <2>1 DEF RulesetInv
    <3>2. AllThere /\ backend \in {"nftables", "iptables"}
      BY <2>1, <3>1, PoolRules DEF Intact, AllThere, JumpsCome
    <3>3. o \in Hits(Entry(p), p) /\ p \in Packets
      BY DEF Takers, First, Packets
    <3>4. Taker(s, p, o)
      <4>1. PICK t \in kernel.specs : Taker(t, p, o)
        BY <3>1, <3>3, HasTaker
      <4>2. t.id = s.id
        BY <2>1, <4>1 DEF Taker
      <4>3. t = s
        BY <3>1, <4>2, OneIdentity
      <4>4. QED
        BY <4>1, <4>3
    <3>5. CASE Mode(s) = "round_robin" /\ backend = "nftables"
      <4>1. PICK w : w = Even(s.dests)
        OBVIOUS
      <4>2. NftTargets(s) = Dnat(1, s.dests, w, FALSE)
        BY <2>1, <3>5, <4>1 DEF NftTargets
      <4>3. Shares(s, p, w)
        BY <2>1, <3>1, <3>3, <3>4, <3>5, <4>1, <4>2, NftShares
      <4>4. QED
        BY <3>5, <4>1, <4>3
    <3>6. CASE Mode(s) = "weighted" /\ backend = "nftables"
      <4>1. PICK w : w = Weights(s)
        OBVIOUS
      <4>2. NftTargets(s) = Dnat(1, s.dests, w, FALSE)
        BY <2>1, <3>6, <4>1 DEF NftTargets
      <4>3. Shares(s, p, w)
        BY <2>1, <3>1, <3>3, <3>4, <3>6, <4>1, <4>2, NftShares
      <4>4. QED
        BY <3>6, <4>1, <4>3
    <3>7. CASE Mode(s) = "round_robin" /\ backend = "iptables"
      BY <2>1, <3>1, <3>2, <3>3, <3>4, <3>7, IptShares
    <3>8. QED
      BY <2>1, <3>2, <3>5, <3>6, <3>7
  <2>2. QED
    BY <2>1 DEF FairShares, Shares
<1>2. QED
  BY <1>1, RulesetStays, TurnsStay, PTL
=============================================================================

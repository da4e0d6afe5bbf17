------------------------------ MODULE Ruleset ------------------------------
(***************************************************************************)
(* The forwarding rules of the panel as netfilter holds them               *)
(* (src/internal/rules): what each backend renders for a set of rules,     *)
(* what the kernel does with a packet under it, and what the verification  *)
(* of src/internal/route recognises of it.                                 *)
(*                                                                         *)
(* A match gives each field of a packet the values it admits: a field      *)
(* without any is not looked at.  A rendered rule is a match, the declared *)
(* sets it looks the source up in, and what it does.  It carries the place *)
(* it is emitted at: the operator's order, the identifier, and for a       *)
(* ladder of dnats the rung.  Rules at one place differ in the protocol,   *)
(* the source or the destination they match.                               *)
(*                                                                         *)
(* Abstractions: addresses, sources and interfaces are small values; the   *)
(* rate limit, logging and the text of the payload are left out; packets   *)
(* are IPv4, and an IPv6 rule only takes part in rendering and             *)
(* verification.                                                           *)
(***************************************************************************)
EXTENDS Integers, Sequences, FiniteSets

CONSTANTS
  Pools,     \* the sets of forwarding rules an operator may have, a record for each rule
  Sources,   \* client addresses
  Hosts,     \* addresses of this server
  Ports,     \* ports packets are sent to
  Ifaces,    \* interfaces packets arrive on
  Hash,      \* the hash of a source address
  Every,     \* no bind address, no bind interface
  Backends,  \* the backends a host may have
  OldNft,    \* the host's nft cannot parse the chain name "mss"
  MaxConns   \* bound: connections of limited rules open at once

\* What validation and the database guarantee of a rule; ports start at 1.
WellFormed(s) ==
  /\ s.id \in Nat /\ s.order \in Nat /\ s.maxconn \in Nat
  /\ s.protos \subseteq {"tcp", "udp"} /\ s.protos # {} /\ s.ports # {} /\ 0 \notin s.ports
  /\ IsFiniteSet(s.sources)
  /\ s.listed \in BOOLEAN /\ s.local \in BOOLEAN /\ s.mss \in BOOLEAN /\ s.marked \in BOOLEAN
  /\ s.balance \in {"none", "round_robin", "source_hash", "weighted"}
  /\ DOMAIN s.dests = 1 .. Len(s.dests) /\ Len(s.dests) \in Nat
  /\ \A i \in DOMAIN s.dests :
       LET d == s.dests[i] IN d.ports # {} /\ 0 \notin d.ports /\ d.weight \in Nat
\* An edit may change everything of a rule but its identity and its limit.
ASSUME RulesetAssumption ==
  /\ MaxConns \in Nat
  /\ Backends \subseteq {"nftables", "iptables"}
  /\ Every \notin Ifaces
  /\ \A c \in Sources \cup Hosts : Hash[c] \in Nat
  /\ \A P \in Pools : \A s \in P :
       WellFormed(s) /\ \A t \in P : s.id = t.id => s.maxconn = t.maxconn

VARIABLES
  backend,  \* the backend detected at the start
  pool,     \* the operator's rules, enabled or not
  file,     \* the payload on disk, if there is one, which a boot replays
  kernel,   \* what netfilter holds
  taken,    \* the rule another program took away since the last install
  turn,     \* how many connections each dnat has seen, modulo its period
  conns     \* the open connections of rules with a limit

vars == <<backend, pool, file, kernel, taken, turn, conns>>

When(cond, S) == IF cond THEN S ELSE {}

(***************************************************************************)
(* What a rule asks for (rules.go).                                        *)
(***************************************************************************)
Dests(s) == {s.dests[i] : i \in DOMAIN s.dests}
Balanced(s) == Len(s.dests) > 1
Weights(s) == [i \in DOMAIN s.dests |-> IF s.dests[i].weight = 0 THEN 1 ELSE s.dests[i].weight]
Mode(s) == IF s.balance = "none" THEN "round_robin" ELSE s.balance
Ranged(s) == Cardinality(s.ports) > 1
\* What the weights in some places add up to.
Sum(w, places) == Cardinality(UNION {{i} \X (1 .. w[i]) : i \in places})

\* Record.Spec: a rule that allows a list matches one set, its own addresses in it.
SetOf(s) == IF s.listed THEN s.ranges \cup s.sources ELSE {}

(***************************************************************************)
(* Rendering, the parts both backends share.                               *)
(***************************************************************************)
Fields == {"proto", "iface", "src", "sport", "dst", "dport", "odst", "odport"}
Anything == [f \in Fields |-> {}]
Only(v) == {v} \ {Every}

BindMatch(s, p) ==
  [Anything EXCEPT !.proto = {p}, !.dport = s.ports, !.dst = Only(s.bind), !.iface = Only(s.iface)]
\* Mutant: the ports the client asked for are not looked at.
OriginByAddress(s) == [Anything EXCEPT !.odst = Only(s.bind)]
OriginMatch(s) == [Anything EXCEPT !.odport = s.ports, !.odst = Only(s.bind)]
DestMatch(s, d, p) ==
  [OriginMatch(s) EXCEPT !.dst = {d.addr}, !.proto = {p}, !.dport = d.ports]
ReverseMatch(s, d, p) ==
  [OriginMatch(s) EXCEPT !.src = {d.addr}, !.proto = {p}, !.sport = d.ports]

Rule(s, chain, match, act, arg) ==
  [order |-> s.order, id |-> s.id, rung |-> 0, fam |-> s.fam, chain |-> chain,
   match |-> match, lists |-> {}, act |-> act, arg |-> arg]

\* Emission order.
Before(q, r) ==
  \/ q.order < r.order
  \/ q.order = r.order /\ q.id < r.id
  \/ q.order = r.order /\ q.id = r.id /\ q.rung < r.rung
First(rules) == {r \in rules : \A q \in rules : ~Before(q, r)}

\* A dnat takes one in "every" of the connections that reach it and gives them to
\* its targets in turn by their weights, or by the hash of the source.
Dnat(every, to, weights, sticky) ==
  [every |-> every, to |-> to, weights |-> weights, sticky |-> sticky]
Even(seq) == [i \in DOMAIN seq |-> 1]
NoArg == [every |-> 1]

SourceNat(s) ==
  {Rule(s, "postrouting", DestMatch(s, d, p), s.nat, NoArg) :
     d \in When(s.nat # "none", Dests(s)), p \in s.protos}
\* iptables counts for each destination and protocol apart.
Limits(b, s) ==
  {Rule(s, "forward", DestMatch(s, d, p), "limit",
        [max |-> s.maxconn, scope |-> IF b = "nftables" THEN <<s.id>> ELSE <<s.id, p, d.addr>>]) :
     d \in When(s.maxconn > 0, Dests(s)), p \in s.protos}
Clamps(s) ==
  {Rule(s, "mss", DestMatch(s, d, p), "clamp", NoArg) :
     d \in When(s.mss, Dests(s)), p \in s.protos \cap {"tcp"}}
Counters(s, chain) ==
  {Rule(s, chain, DestMatch(s, d, p), "tx", NoArg) : d \in Dests(s), p \in s.protos}
    \cup {Rule(s, chain, ReverseMatch(s, d, p), "rx", NoArg) : d \in Dests(s), p \in s.protos}
\* The nat chains a new connection may come through.
Entries(s) == {"prerouting"} \cup When(s.local, {"output"})

(***************************************************************************)
(* nftables.go: one table, sources in declared or anonymous sets.          *)
(***************************************************************************)
NftTargets(s) ==
  IF ~Balanced(s) THEN Dnat(1, s.dests, Even(s.dests), FALSE)
  ELSE CASE Mode(s) = "round_robin" -> Dnat(1, s.dests, Even(s.dests), FALSE)
         [] Mode(s) = "source_hash" -> Dnat(1, s.dests, Even(s.dests), TRUE)
         [] Mode(s) = "weighted"    -> Dnat(1, s.dests, Weights(s), FALSE)
NftSource(s, rule) ==
  IF s.listed THEN [rule EXCEPT !.lists = {s.id}] ELSE [rule EXCEPT !.match.src = s.sources]

NftRule(s) ==
  {NftSource(s, Rule(s, chain, BindMatch(s, p), "dnat", NftTargets(s))) :
     chain \in Entries(s), p \in s.protos}
  \cup {NftSource(s, Rule(s, "mark", BindMatch(s, p), "mark", NoArg)) : p \in When(s.marked, s.protos)}
  \cup Limits("nftables", s)
  \cup {NftSource(s, Rule(s, "forward", DestMatch(s, d, p), "accept", NoArg)) :
          d \in Dests(s), p \in s.protos}
  \cup SourceNat(s) \cup Clamps(s) \cup Counters(s, "accounting")
  \cup When(s.local, Counters(s, "local_accounting"))

(***************************************************************************)
(* iptables.go: the panel's own chains, one rule for each allowed source,  *)
(* load balancing as a ladder of dnat rules.                               *)
(***************************************************************************)
Contiguous(s) ==
  \A i \in DOMAIN s.dests \ {1} :
    s.dests[i].addr = s.dests[i - 1].addr + 1 /\ s.dests[i].ports = s.dests[1].ports
\* Mutant: the destinations not offered yet are counted without the one at hand.
RemainingAfter(w, i) ==
  LET rest == Sum(w, {j \in DOMAIN w : j > i}) IN IF rest < w[i] THEN w[i] ELSE rest
Remaining(w, i) == Sum(w, {j \in DOMAIN w : j >= i})
Ladder(s, w) ==
  [i \in DOMAIN s.dests |->
     Dnat(IF i = Len(s.dests) THEN 1 ELSE Remaining(w, i) \div w[i], <<s.dests[i]>>, <<1>>, FALSE)]
IptTargets(s) ==
  IF ~Balanced(s) THEN <<Dnat(1, s.dests, Even(s.dests), FALSE)>>
  ELSE CASE Mode(s) = "source_hash" -> <<Dnat(1, s.dests, Even(s.dests), TRUE)>>
         [] Mode(s) = "round_robin" -> Ladder(s, Even(s.dests))
         [] Mode(s) = "weighted"    -> Ladder(s, Weights(s))
\* A rule with a list has no addresses of its own left, so it admits every source.
SourcesOrAny(s) == IF s.listed \/ s.sources = {} THEN {{}} ELSE {{x} : x \in s.sources}
From(src, rule) == [rule EXCEPT !.match.src = src]
Rung(i, rule) == [rule EXCEPT !.rung = i]

IptRule(s) ==
  {Rung(i, From(src, Rule(s, chain, BindMatch(s, p), "dnat", IptTargets(s)[i]))) :
     chain \in Entries(s), p \in s.protos, src \in SourcesOrAny(s), i \in DOMAIN IptTargets(s)}
  \cup {From(src, Rule(s, "mark", BindMatch(s, p), "mark", NoArg)) :
          p \in When(s.marked, s.protos), src \in SourcesOrAny(s)}
  \cup Limits("iptables", s)
  \cup {From(src, Rule(s, "forward", DestMatch(s, d, p), "accept", NoArg)) :
          d \in Dests(s), p \in s.protos, src \in SourcesOrAny(s)}
  \cup SourceNat(s) \cup Clamps(s) \cup Counters(s, "accounting")

\* RouteSpec.Check and the refusals of the two dnat renderers.
Renderable(b, s) ==
  /\ Len(s.dests) > 0
  /\ \A d \in Dests(s) : Cardinality(d.ports) = Cardinality(s.ports)
  /\ Balanced(s) => ~Ranged(s)
  /\ b = "iptables" /\ Balanced(s) /\ Mode(s) = "source_hash" => Contiguous(s)

Rendered(b, s) == IF b = "nftables" THEN NftRule(s) ELSE IptRule(s)

(***************************************************************************)
(* The payload: what netfilter declares, deletes and fills in one          *)
(* transaction, all or nothing.  It is kept as what it was rendered from.  *)
(***************************************************************************)
Roles == {"prerouting", "output", "postrouting", "forward", "accounting", "local_accounting", "mss", "mark"}
OwnedChains == Roles \cup {"legacy_mss"}
Spells(chain) == ~(OldNft /\ chain = "legacy_mss")
\* What is rendered for every set of rules, by chain.  (TLC keeps a function it has
\* compared, and evaluates another one anew wherever it is applied.)
Kept(f) == CHOOSE g \in {f} : g = f
RuleSets == UNION {SUBSET P : P \in Pools}
Rules ==
  Kept([b \in Backends |-> Kept([specs \in RuleSets |->
    LET all == UNION {Rendered(b, s) : s \in {t \in specs : Renderable(b, t)}}
    IN  Kept([c \in Roles |-> {r \in all : r.chain = c}])])])
RulesOf(b, specs) == Rules[b][specs]
Chains(b, specs) == {c \in Roles : RulesOf(b, specs)[c] # {}}
Stale(live, specs) ==
  {c \in live \cap OwnedChains : c \notin Chains("nftables", specs) /\ Spells(c)}

Ids(specs) == {s.id : s \in specs}
Named(counters, chains) == [counters |-> counters, chains |-> chains]
\* Mutant: the counters of deleted rules are not declared first, the stale chains stay.
PayloadDeletingOutright(f) ==
  [declared |-> Named({}, {}), deleted |-> Named(f.retired, {}),
   elements |-> UNION {{s.id} \X SetOf(s) : s \in f.specs},
   counters |-> Ids(f.specs), specs |-> f.specs, jumps |-> {}]
NftPayload(f) ==
  [declared |-> Named(f.retired, f.stale), deleted |-> Named(f.retired, f.stale),
   elements |-> UNION {{s.id} \X SetOf(s) : s \in f.specs},
   counters |-> Ids(f.specs), specs |-> f.specs, jumps |-> {}]
\* iptables: every chain of the panel is declared and flushed, and the jumps are
\* installed where a check does not find them.
IptPayload(f) ==
  [declared |-> Named({}, {}), deleted |-> Named({}, {}), elements |-> {}, counters |-> {},
   specs |-> f.specs, jumps |-> Roles]
Payload(f) == IF backend = "nftables" THEN NftPayload(f) ELSE IptPayload(f)

\* "lists" holds the elements of the declared sets: a set is declared with its first.
NoRules ==
  [specs |-> {}, lists |-> {}, counters |-> {}, chains |-> {}, jumps |-> {}]
Refuses(k, t) ==
  \/ ~(t.deleted.counters \subseteq k.counters \cup t.declared.counters)
  \/ ~(t.deleted.chains \subseteq k.chains \cup t.declared.chains)
  \/ \E c \in t.declared.chains : ~Spells(c)
  \/ \E c \in Roles : \E r \in RulesOf(backend, t.specs)[c] : \E id \in r.lists : \A e \in k.lists \cup t.elements : e[1] # id
\* A flush empties the chains, and leaves the sets and counters alone.
After(k, t) ==
  [specs    |-> t.specs,
   lists    |-> k.lists \cup t.elements,
   counters |-> ((k.counters \cup t.declared.counters) \ t.deleted.counters) \cup t.counters,
   chains   |-> ((k.chains \cup t.declared.chains) \ t.deleted.chains) \cup Chains(backend, t.specs),
   jumps    |-> k.jumps \cup t.jumps]

(***************************************************************************)
(* A packet in the kernel.                                                 *)
(***************************************************************************)
Packet(proto, iface, src, dst, dport) ==
  [proto |-> proto, iface |-> iface, src |-> src, sport |-> 0, dst |-> dst, dport |-> dport,
   odst |-> dst, odport |-> dport]
Arriving == {Packet(proto, i, c, h, n) :
               proto \in {"tcp", "udp"}, i \in Ifaces, c \in Sources, h \in Hosts, n \in Ports}
\* What processes on this server send: it arrives on no interface.
Own == {Packet(proto, Every, h, h, n) : proto \in {"tcp", "udp"}, h \in Hosts, n \in Ports}
IsOwn(p) == p.iface = Every

Matches(r, p) ==
  /\ r.fam = "ip"
  /\ \A f \in Fields : p[f] \in r.match[f] \/ r.match[f] = {}
  /\ \A id \in r.lists : <<id, p.src>> \in kernel.lists
RulesIn(chain) == RulesOf(backend, kernel.specs)[chain] \ taken
Hits(chain, p) ==
  {r \in RulesIn(chain) : Matches(r, p) /\ (backend = "nftables" \/ chain \in kernel.jumps)}
Acts(chain, p) == {<<r.id, r.act>> : r \in Hits(chain, p)}

\* The dnat that takes a new connection, given what each has seen before (t): the
\* first that offers itself, if one does; and the target it picks, the last whose
\* turn has come.
Entry(p) == IF IsOwn(p) THEN "output" ELSE "prerouting"
Takers(t, p) == First({r \in Hits(Entry(p), p) : t[r] % r.arg.every = 0})
Pick(a, seen) ==
  a.to[CHOOSE i \in DOMAIN a.to :
         /\ Sum(a.weights, 1 .. i - 1) <= seen
         /\ \A j \in DOMAIN a.to : j > i => seen < Sum(a.weights, 1 .. j - 1)]
Target(t, p, o) == Pick(o.arg, IF o.arg.sticky THEN Hash[p.src] % Len(o.arg.to) ELSE t[o])
Period(a) == IF a.sticky THEN 1 ELSE a.every * Sum(a.weights, DOMAIN a.to)
Turned(t, p, o) ==
  [r \in DOMAIN t |-> IF r \in Hits(Entry(p), p) /\ ~Before(o, r)
                      THEN (t[r] + 1) % Period(r.arg) ELSE t[r]]

To(p, d, n) == [p EXCEPT !.dst = d.addr, !.dport = n]
Reply(p, d, n) == [p EXCEPT !.src = d.addr, !.sport = n, !.dst = p.src, !.dport = 0]
Counting(p) == IF IsOwn(p) THEN "local_accounting" ELSE "accounting"
Translated(q) == {r.act : r \in First(Hits("postrouting", q))}
Marked(p) == ~IsOwn(p) /\ Hits("mark", p) # {}
Clamped(q) == ~IsOwn(q) /\ Hits("mss", q) # {}
Allowed(q) == IsOwn(q) \/ \E r \in Hits("forward", q) : r.act = "accept"

(***************************************************************************)
(* What a rule promises.                                                   *)
(***************************************************************************)
Admits(s, src) == s.listed \/ s.sources # {} => src \in SetOf(s) \cup s.sources
Claims(s, p) ==
  /\ s.fam = "ip" /\ p.proto \in s.protos /\ p.dport \in s.ports
  /\ s.bind \in {Every, p.dst} /\ s.iface \in {Every, p.iface}
  /\ Admits(s, p.src)
  /\ IsOwn(p) => s.local
\* iptables has no chain that counts the traffic of this server itself.
Counted(s, p, act) == IF backend = "iptables" /\ IsOwn(p) THEN {} ELSE {<<s.id, act>>}
\* Packets q of a connection that p opened, and their replies, get what s promises.
Relayed(s, p, q, back) ==
  /\ Translated(q) = {s.nat} \ {"none"}
  /\ Marked(p) <=> ~IsOwn(p) /\ s.marked
  /\ Clamped(q) <=> ~IsOwn(p) /\ s.mss /\ p.proto = "tcp"
  /\ Allowed(q)
  /\ Acts(Counting(p), q) = Counted(s, p, "tx")
  /\ Acts(Counting(p), back) = Counted(s, p, "rx")

(***************************************************************************)
(* validate/route.go: two enabled rules may not claim one listener.        *)
(***************************************************************************)
Overlap(s, t) ==
  /\ s.protos \cap t.protos # {}
  /\ s.bind = Every \/ t.bind = Every \/ s.bind = t.bind
  /\ s.ports \cap t.ports # {}
Compatible(S) == \A s, t \in S : s # t => s.id # t.id /\ ~Overlap(s, t)

(***************************************************************************)
(* Actions.                                                                *)
(***************************************************************************)
Installable(P) ==
  {S \in SUBSET P : Compatible(S) /\ \A s \in S : Renderable(backend, s)}
Fresh(specs) ==
  [r \in RulesOf(backend, specs)["prerouting"] \cup RulesOf(backend, specs)["output"] |-> 0]

Init ==
  /\ backend \in Backends
  /\ pool \in Pools
  /\ \E old \in {{}, {"legacy_mss", "other"}} :
       kernel = [NoRules EXCEPT !.chains = When(backend = "nftables", old)]
  /\ file = {}
  /\ taken = {}
  /\ turn = Fresh({})
  /\ conns = {}

\* iptables restores its chains rule by rule anew, and with them the table of
\* connections each limit knows; an nftables set survives the flush.
Known(c) == IF backend = "iptables" THEN [c EXCEPT !.known = FALSE] ELSE c

\* One apply of the complete ruleset: the file is written, then handed to the
\* backend as one transaction.  Rules deleted since take their counters along.
Install(S, deleted) ==
  LET f == [specs |-> S, retired |-> kernel.counters \cap deleted,
            stale |-> When(backend = "nftables", Stale(kernel.chains, S))]
      payload == Payload(f)
  IN  /\ file' = {f}
      /\ IF Refuses(kernel, payload) THEN UNCHANGED <<kernel, taken, turn, conns>>
         ELSE /\ kernel' = After(kernel, payload) /\ taken' = {}
              /\ turn' = Fresh(S)
              /\ conns' = {Known(c) : c \in conns}
      /\ UNCHANGED <<backend, pool>>

\* A client opens a connection: the limits of its rule are asked first.
Intact == taken = {} /\ kernel.jumps \in {{}, Roles}
Full(r, p) ==
  LET mine == {c \in conns : /\ c.known /\ c.of.src = p.src
                             /\ r.arg.scope \in {<<c.of.id>>, <<c.of.id, c.of.proto, c.of.dest>>}}
  IN  r.act = "limit" /\ Cardinality(mine) + 1 > r.arg.max
\* Connections alike are told apart by a number.
Numbers(of) == {n \in 1 .. MaxConns : \A c \in conns : c.of = of => c.number # n}
Connect(p) ==
  /\ Intact
  /\ \E o \in Takers(turn, p) : \E d \in {Target(turn, p, o)} : \E port \in d.ports :
       /\ turn' = Turned(turn, p, o)
       /\ IF \/ o.id \notin Ids({s \in pool : s.maxconn > 0})
             \/ \E r \in Hits("forward", To(p, d, port)) : Full(r, p)
          THEN UNCHANGED conns
          ELSE \E of \in {[src |-> p.src, id |-> o.id, proto |-> p.proto, dest |-> d.addr]} :
               \E number \in Numbers(of) :
                 /\ Cardinality(conns) < MaxConns /\ \A n \in Numbers(of) : number <= n
                 /\ conns' = conns \cup {[of |-> of, number |-> number, known |-> TRUE]}
  /\ UNCHANGED <<backend, pool, file, kernel, taken>>
Close(c) ==
  /\ conns' = conns \ {c}
  /\ UNCHANGED <<backend, pool, file, kernel, taken, turn>>

\* The restore unit replays the file into an empty kernel, which keeps nothing of
\* a payload it refuses.
Boot ==
  /\ \E f \in file :
       kernel' = IF Refuses(NoRules, Payload(f)) THEN NoRules ELSE After(NoRules, Payload(f))
  /\ taken' = {} /\ turn' = Fresh(kernel'.specs) /\ conns' = {}
  /\ UNCHANGED <<backend, pool, file>>

\* Another program takes one of the panel's rules, or one of its jumps, away.  (The
\* connections and turns are not followed from there.)
TakeAway(r) ==
  /\ taken = {} /\ taken' = {r}
  /\ turn' = Fresh(kernel.specs) /\ conns' = {}
  /\ UNCHANGED <<backend, pool, file, kernel>>
TakeJump(chain) ==
  /\ taken = {} /\ kernel.jumps = Roles
  /\ kernel' = [kernel EXCEPT !.jumps = @ \ {chain}]
  /\ turn' = Fresh(kernel.specs) /\ conns' = {}
  /\ UNCHANGED <<backend, pool, file, taken>>

Next ==
  \/ \E S \in Installable(pool) : \E deleted \in SUBSET (Ids(pool) \ Ids(S)) : Install(S, deleted)
  \/ \E p \in Arriving \cup Own : Connect(p)
  \/ \E c \in conns : Close(c)
  \/ Boot
  \/ \E chain \in Roles : \E r \in RulesIn(chain) : TakeAway(r)
  \/ \E chain \in kernel.jumps : TakeJump(chain)

Spec == Init /\ [][Next]_vars

(***************************************************************************)
(* Verification (verify.go): what of a rule is looked for in the kernel.   *)
(***************************************************************************)
Want(s, role, addr, acts) == [id |-> s.id, role |-> role, addr |-> addr, acts |-> acts]
Wanted(s) ==
  {Want(s, "forward", d.addr, {"accept"}) : d \in Dests(s)}
  \cup {Want(s, "accounting", d.addr, {"tx", "rx"}) : d \in Dests(s)}
  \cup {Want(s, "postrouting", d.addr, {s.nat}) : d \in When(s.nat # "none", Dests(s))}
  \cup {Want(s, "mss", d.addr, {"clamp"}) : d \in When(s.mss /\ "tcp" \in s.protos, Dests(s))}
  \cup {Want(s, chain, Every, {"dnat"}) : chain \in Entries(s)}
  \cup When(s.local, {Want(s, "local_accounting", Every, {"tx", "rx"})})
  \cup When(s.marked, {Want(s, "mark", Every, {"mark"})})
Mentions(r) == r.match.dst \cup r.match.src \cup {Every}
\* iptables is read back with the IPv4 program only.
Satisfied(w) ==
  \E r \in RulesIn(w.role) :
    /\ (backend = "nftables" \/ r.fam = "ip")
    /\ r.id = w.id /\ w.addr \in Mentions(r) /\ r.act \in w.acts
\* Mutant: one jump is taken for all of them.
SomeJump == IF backend = "nftables" \/ kernel.jumps # {} THEN {} ELSE Roles
MissingJumps == IF backend = "nftables" THEN {} ELSE Roles \ (kernel.jumps \cup {"local_accounting"})
Verified == MissingJumps = {} /\ \A s \in kernel.specs : \A w \in Wanted(s) : Satisfied(w)

(***************************************************************************)
(* Properties.                                                             *)
(***************************************************************************)
TypeOK ==
  /\ backend \in Backends /\ pool \in Pools
  /\ DOMAIN kernel = DOMAIN NoRules /\ kernel.specs \in Installable(pool)
  /\ \A f, g \in file : f.specs \in Installable(pool) /\ f = g
  /\ turn \in [DOMAIN Fresh(kernel.specs) -> Nat]
  /\ IsFiniteSet(conns)

\* Admission by list is right where nftables holds the set and its list never
\* shrank: iptables does not look at lists, and the set keeps removed ranges.
ListHeld(s) ==
  s.listed => backend = "nftables" /\ {e \in kernel.lists : e[1] = s.id} = {s.id} \X SetOf(s)

\* "MaxConnectionsPerSource caps concurrent connections from one source address"
\* (rules.go): of a rule under nftables, over every destination, protocol, apply
\* and load balancing turn.  iptables counts for each destination and protocol
\* apart, and from zero after an apply.
ConnectionsAreCapped ==
  backend = "nftables" =>
    \A s \in {t \in pool : t.maxconn > 0} : \A c \in Sources :
      Cardinality({k \in conns : k.of.src = c /\ k.of.id = s.id}) <= s.maxconn

\* Every packet is taken by the rule that claims it and by no other, goes to a
\* destination of that rule, and has that rule's NAT, mark, clamping, permission
\* and counters, within its connection limit: rules that share a destination do
\* not run on each other's traffic (nftOriginMatch, iptOriginMatch), and no order
\* of rules matters.
RelaysAsPromised ==
  /\ ConnectionsAreCapped
  /\ Intact /\ (\A s \in kernel.specs : ListHeld(s)) =>
    \A p \in Arriving \cup Own :
      LET owners == {s \in kernel.specs : Claims(s, p)} IN
      /\ Takers(turn, p) = {} => owners = {} /\ ~Marked(p)
      /\ \A o \in Takers(turn, p) : \E d \in {Target(turn, p, o)} : \E s \in owners :
           /\ s.id = o.id /\ d \in Dests(s)
           /\ \A n \in d.ports : Relayed(s, p, To(p, d, n), Reply(p, d, n))

\* From any point on, as many new connections of one client as the weights add up
\* to are shared by the weights (nftDnatTarget's map, iptDnatRules' ladder); a
\* destination listed twice has both shares.  The ladder is exact for round robin
\* only: its divisions round weights down.
Plays(p, n) ==
  LET plays[k \in 0 .. n] ==
        IF k = 0 THEN {[turns |-> turn, gone |-> << >>]}
        ELSE UNION {{[turns |-> Turned(b.turns, p, o), gone |-> Append(b.gone, Target(b.turns, p, o))]
                      : o \in Takers(b.turns, p)} : b \in plays[k - 1]}
  IN  plays[n]
FairShares ==
  \A s \in kernel.specs :
    Balanced(s) /\ (Mode(s) = "round_robin" \/ (Mode(s) = "weighted" /\ backend = "nftables")) =>
      \A p \in Arriving :
        LET w == IF Mode(s) = "weighted" THEN Weights(s) ELSE Even(s.dests) IN
        Intact /\ (\E o \in Takers(turn, p) : o.id = s.id) =>
          \E play \in Plays(p, Sum(w, DOMAIN w)) : \A i \in DOMAIN s.dests :
            Cardinality({k \in DOMAIN play.gone : play.gone[k] = s.dests[i]})
              = Sum(w, {j \in DOMAIN w : s.dests[j] = s.dests[i]})

\* The file a boot replays gives an empty kernel the rules that were installed
\* last, with their jumps, however many applies, deletions and boots came before;
\* after an apply the panel's chains are the declared ones and no others.  The only
\* payload netfilter refuses is that of a rule whose list has no range, whose set
\* is not declared.
PayloadReplays ==
  \A f \in file :
    IF Refuses(NoRules, Payload(f)) THEN \E s \in f.specs : s.listed /\ SetOf(s) = {}
    ELSE LET booted == After(NoRules, Payload(f)) IN
         /\ kernel.specs = f.specs
         /\ Intact => kernel.jumps = booted.jumps
         /\ backend = "nftables" =>
              {c \in kernel.chains \cap OwnedChains : Spells(c)} = Chains(backend, f.specs)

\* Whatever another program takes away, a verification that passes means that
\* packets are still relayed with the promised NAT, permission and clamping: for
\* rules of one protocol, one destination and at most one allowed source (what
\* is looked for names neither the protocol nor the source).  And what was just
\* installed passes, except on iptables for IPv6 rules, which are not read back,
\* and for local traffic, which has no accounting there.
VerificationIsExact ==
  /\ Verified => \A s \in kernel.specs :
       Cardinality(s.protos) = 1 /\ Len(s.dests) = 1 /\ Cardinality(s.sources) <= 1 /\ ~s.listed =>
         \A p \in Arriving : Claims(s, p) =>
           /\ Takers(turn, p) # {}
           /\ \A d \in Dests(s) : \A n \in d.ports : LET q == To(p, d, n) IN
                /\ Translated(q) = {s.nat} \ {"none"}
                /\ Allowed(q)
                /\ s.mss /\ p.proto = "tcp" => Clamped(q)
  /\ Intact /\ kernel.specs # {} =>
       (Verified <=> backend = "nftables" \/ \A s \in kernel.specs : s.fam = "ip" /\ ~s.local)

\* The inductive invariant of the proofs.  Besides the properties it says that the
\* jumps come with the rules, and only on iptables; that nft can spell the chains
\* the file deletes, none of which it fills; and that an nftables host forgets no
\* connection.
JumpsCome ==
  IF backend = "nftables" THEN kernel.jumps = {} ELSE kernel.specs # {} => kernel.jumps # {}
StaleIsSpelled ==
  \A f \in file : \A c \in f.stale : Spells(c) /\ c \notin Chains("nftables", f.specs)
NoneForgotten == backend = "nftables" => \A c \in conns : c.known
RulesetInv ==
  TypeOK /\ JumpsCome /\ StaleIsSpelled /\ NoneForgotten /\ PayloadReplays /\ ConnectionsAreCapped
=============================================================================

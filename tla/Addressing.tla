------------------------------ MODULE Addressing ------------------------------
(***************************************************************************)
(* Which addresses a tunnel gets: the arithmetic of tunnel numbers and     *)
(* subnets (alloc/alloc.go), the choice of a free one when a tunnel is     *)
(* created (tunnel/service.go), the checks against records, interfaces and *)
(* routes (validate/validate.go) and the pool it comes from (api/pools.go).*)
(* A create chooses and checks before it waits for the lock.               *)
(***************************************************************************)
EXTENDS Integers, FiniteSets

CONSTANTS Families,   \* [bits, octet, word, lens, pools]: width of an address, of the last
                      \* octet (0 for IPv6) and of the counter, default prefix lengths,
                      \* lengths of the pool, which starts at address 0
          Pinned,     \* numbers an operator asks for
          MaxTunnels, \* rows
          MaxSpan     \* a pool spans at most 2^MaxSpan subnets
None == -1

VARIABLES family, len,  \* the addresses in use, the default prefix length
          pool,         \* [live, bits]: a disabled pool is as good as a deleted one
          rows,         \* the tunnels
          foreign,      \* subnets of other interfaces of the host, [first, len]
          request       \* the create that waits for the lock

vars == <<family, len, pool, rows, foreign, request>>

NoRow == [live |-> FALSE, side |-> "A", number |-> None, name |-> None, first |-> 0, len |-> 0,
          auto |-> FALSE, up |-> FALSE, sound |-> FALSE, apart |-> {}]
Ids == 1..MaxTunnels
Live == {i \in Ids : rows[i].live}

-----------------------------------------------------------------------------
(* The arithmetic. A counter wraps.                                        *)
Size(l) == 2^(family.bits - l)
Wrap(n) == LET half == 2^(family.word - 1) IN ((n + half) % (2 * half)) - half

Third == family.bits - family.octet
OctetScheme(p, l) == family.octet > 0 /\ p.bits < Third /\ l >= Third
Stride(p, l) == IF OctetScheme(p, l) THEN 2^family.octet ELSE Wrap(Size(l))

Shaped(p, l) == p.bits <= l /\ l < family.bits
Capacity(p, l) == IF OctetScheme(p, l) THEN 2^(Third - p.bits)
                  ELSE 2^(IF l - p.bits > MaxSpan THEN MaxSpan ELSE l - p.bits)

\* Mutant: every subnet is placed by its own size.
SubnetDense(p, l, n) == LET first == n * Size(l) IN IF first < Size(p.bits) THEN first ELSE None
\* The first address of the subnet of a number, or None.
SubnetForNumber(p, l, n) == LET first == Wrap(n * Stride(p, l))
                            IN IF 0 <= first /\ first < Size(p.bits) THEN first ELSE None

NumberForSubnet(p, first, l) ==
    IF first >= Size(p.bits) \/ Stride(p, l) = 0 \/ first % Stride(p, l) # 0 THEN None
    ELSE first \div Stride(p, l)

Masked(first, l) == first - (first % Size(l))
Ends(first, l) == LET a == Masked(first, l) + (IF l = family.bits - 1 THEN 0 ELSE 1)
                  IN [A |-> a, B |-> a + 1]
Other(side) == IF side = "A" THEN "B" ELSE "A"
Own(r)  == Ends(r.first, r.len)[r.side]
Peer(r) == Ends(r.first, r.len)[Other(r.side)]

Overlap(f, l, g, k) == LET w == IF l < k THEN l ELSE k IN Masked(f, w) = Masked(g, w)

-----------------------------------------------------------------------------
(* What is taken: records, and the interfaces that are up.                 *)
Used == UNION {{Own(rows[i]), Peer(rows[i])} : i \in Live} \cup {f.first + 1 : f \in foreign}
TakenNames(side) == {rows[i].name : i \in {j \in Live : rows[j].side = side}} \ {None}

(* The lowest number whose subnet and name are both free, if there is one. *)
Numbers == (IF OctetScheme(pool, len) THEN 1 ELSE 0)..(Capacity(pool, len) - 1)
Free(n, used, names) ==
    LET first == SubnetForNumber(pool, len, n)
    IN n \notin names /\ first # None /\ {Ends(first, len).A, Ends(first, len).B} \cap used = {}
NextFree(side) ==
    UNION {{n \in free : \A m \in free : n <= m} : free \in
            {{n \in Numbers : Free(n, used, names)} : used \in {Used}, names \in {TakenNames(side)}}}

CheckAddressConflicts(first, l, side, force) ==
    LET own == Ends(first, l)[side]
    IN /\ \A i \in Live : Own(rows[i]) # own
       /\ \A f \in foreign : f.first + 1 # own
       /\ force \/ ( /\ \A i \in Live : rows[i].up => ~Overlap(first, l, rows[i].first, rows[i].len)
                     /\ \A f \in foreign : ~Overlap(first, l, f.first, f.len) )

-----------------------------------------------------------------------------
Init == /\ family \in Families /\ len \in family.lens
        /\ pool \in [live : {TRUE}, bits : family.pools]
        /\ rows = [i \in Ids |-> NoRow]
        /\ foreign \in {{}, {[first |-> 0, len |-> len]}} /\ request = NoRow

Row(side, n, first, auto, force) ==
    [live |-> TRUE, side |-> side, number |-> n, first |-> first, len |-> len, auto |-> auto,
     name |-> IF n \in TakenNames(side) THEN None ELSE n, up |-> TRUE, sound |-> TRUE,
     apart |-> IF force THEN {} ELSE {i \in Live : rows[i].up}]

(* What waits was chosen by what is no longer so.                          *)
Stale == request' = [request EXCEPT !.sound = FALSE, !.apart = {}]

(* The lowest free id; a row for what waits is left (a bound).             *)
Insert(row) == \E i \in Ids \ Live : /\ \A j \in 1..(i - 1) : j \in Live
                                     /\ rows' = [rows EXCEPT ![i] = row]

(* A create is stored at once, or waits for the lock first.                *)
Create(row) == /\ request # NoRow => Cardinality(Live) + 1 < MaxTunnels
               /\ \/ Insert(row) /\ Stale /\ UNCHANGED <<family, len, pool, foreign>>
                  \/ /\ request = NoRow /\ Cardinality(Live) < MaxTunnels /\ request' = row
                     /\ UNCHANGED <<family, len, pool, rows, foreign>>

CanUsePool == pool.live /\ Shaped(pool, len)

CreateAuto(side, force) ==
    CanUsePool /\ \E n \in NextFree(side) :
        LET first == SubnetForNumber(pool, len, n)
        IN /\ CheckAddressConflicts(first, len, side, force)
           /\ Create(Row(side, n, first, TRUE, force))

(* The operator pins the number; a name that is taken gets a suffix.       *)
CreateAt(side, n, force) ==
    /\ CanUsePool /\ n \in 0..(Capacity(pool, len) - 1)
    /\ LET first == SubnetForNumber(pool, len, n)
       IN /\ first # None /\ CheckAddressConflicts(first, len, side, force)
          /\ Create(Row(side, n, first, TRUE, force))

(* The operator gives the subnet; the name is the lowest that is free.     *)
CreateByHand(side, first, force) ==
    /\ CheckAddressConflicts(first, len, side, force)
    /\ \E n \in 1..(MaxTunnels + 1) :
         /\ n \notin TakenNames(side) /\ \A m \in 1..(n - 1) : m \in TakenNames(side)
         /\ Create(Row(side, n, first, FALSE, force))

(* The row is inserted unless the name was taken meanwhile.                *)
Proceed == /\ request # NoRow /\ request' = NoRow
           /\ IF request.name \in TakenNames(request.side) THEN UNCHANGED rows ELSE Insert(request)
           /\ UNCHANGED <<family, len, pool, foreign>>

Delete(i) == /\ i \in Live
             /\ rows' = [j \in Ids |-> IF j = i THEN NoRow
                                       ELSE [rows[j] EXCEPT !.apart = @ \ {i}]]
             /\ Stale /\ UNCHANGED <<family, len, pool, foreign>>

SetUp(i, up) == /\ i \in Live /\ rows[i].up # up
                /\ rows' = [rows EXCEPT ![i].up = up]
                /\ Stale /\ UNCHANGED <<family, len, pool, foreign>>

SetDefaultLength(l) == /\ l \in family.lens /\ len' = l
                       /\ UNCHANGED <<family, pool, rows, foreign, request>>

DeletePool == /\ pool.live /\ \A i \in Live : ~rows[i].auto
              /\ pool' = [pool EXCEPT !.live = FALSE]
              /\ Stale /\ UNCHANGED <<family, len, rows, foreign>>

Next == \/ \E force \in BOOLEAN :
             \/ \E side \in {"A", "B"} : CreateAuto(side, force)
             \/ \E n \in Pinned : CreateAt("B", n, force)
             \/ \E first \in {0, Size(len)} : CreateByHand("A", first, force)
        \/ \E i \in Ids : Delete(i) \/ \E up \in BOOLEAN : SetUp(i, up)
        \/ \E l \in family.lens : SetDefaultLength(l)
        \/ Proceed \/ DeletePool

-----------------------------------------------------------------------------
(* The number of a tunnel the panel numbered gives back its subnet.        *)
NumbersAreReversible ==
    \A i \in Live : rows[i].auto =>
        NumberForSubnet(pool, rows[i].first, rows[i].len) = rows[i].number

(* A pool that gives no subnet has none left: each of the places a subnet  *)
(* may start at is used, or the name of its number is.                     *)
Places == {f \in 0..(Size(pool.bits) - 1) :
             IF OctetScheme(pool, len) THEN f > 0 /\ f % 2^family.octet = 0
             ELSE f % Size(len) = 0 /\ f < Size(len) * 2^MaxSpan}
RefusedOnlyWhenFull ==
    \A side \in {"A", "B"} : Shaped(pool, len) /\ NextFree(side) = {} =>
        \A used \in {Used} : \A f \in Places :
            \/ {Ends(f, len).A, Ends(f, len).B} \cap used # {}
            \/ NumberForSubnet(pool, f, len) \in TakenNames(side)

(* Tunnels that were checked against each other have addresses of their    *)
(* own, and subnets apart from those that were up; a tunnel the panel      *)
(* placed avoids both addresses of every other.                            *)
SubnetsAreApart ==
    \A i, j \in Live : j \in rows[i].apart /\ rows[i].sound =>
        /\ ~Overlap(rows[i].first, rows[i].len, rows[j].first, rows[j].len)
        /\ {Own(rows[i]), Peer(rows[i])} \cap {Own(rows[j]), Peer(rows[j])} = {}

PoolStays == ~pool.live => \A i \in Live : ~(rows[i].auto /\ rows[i].sound)

(* The addresses the panel gives out are the ones the pool has, each once. *)
AllocationIsSound == NumbersAreReversible /\ RefusedOnlyWhenFull /\ SubnetsAreApart /\ PoolStays

-----------------------------------------------------------------------------
(* Why: what a row or what waits was chosen by still holds of it. A row    *)
(* that leaves takes its id out of every check; what waits is forgotten to *)
(* be checked as soon as anything it was checked by changes.               *)
Rows == [live : BOOLEAN, side : {"A", "B"}, number : Int, name : Int, first : Nat, len : Int,
         auto : BOOLEAN, up : BOOLEAN, sound : BOOLEAN, apart : SUBSET Ids]
Holds(r) == /\ r.len \in family.lens /\ r.apart \subseteq Live
            /\ r.auto => NumberForSubnet(pool, r.first, r.len) = r.number
            /\ r.auto /\ r.sound => pool.live
            /\ \A j \in r.apart : ~Overlap(r.first, r.len, rows[j].first, rows[j].len)
AddressingInv ==
    /\ family \in Families /\ len \in family.lens
    /\ pool \in [live : BOOLEAN, bits : family.pools]
    /\ rows \in [Ids -> Rows] /\ request \in Rows
    /\ \A i \in Live : Holds(rows[i])
    /\ request = NoRow \/ (request.live /\ Holds(request))
=============================================================================

---------------------------- MODULE Destinations ----------------------------
(***************************************************************************)
(* Traffic totals of one destination of a rule (internal/route:            *)
(* conntrack.go, destvolume.go, accounting.go). The sampling loop reads    *)
(* the connection table and folds what each connection moved since the     *)
(* last reading; the loop and the snapshot before a rebuild write the      *)
(* total down after the rule's own, in a second transaction.               *)
(***************************************************************************)
EXTENDS Integers, FiniteSets

CONSTANTS Keys,          \* connection tuples: protocol, client, listener
          MaxTracked,    \* maxTrackedFlows: connections remembered of one reading
          MaxBytes       \* bound: bytes relayed, and counted before the last reading

Workers == {"loop", "service"}

VARIABLES truth,         \* history: bytes relayed to the destination
          flows,         \* tuple -> bytes on the live connection, Gone
          seen,          \* tuple -> bytes at the last reading, Gone; NeverRead
          dest,          \* the destination's total in memory
          row,           \* and in the database
          dirty,         \* it is to be written
          work,          \* worker -> what it does
          truncated      \* history: a reading had more connections than are remembered

vars == <<truth, flows, seen, dest, row, dirty, work, truncated>>

Gone == -1
NotRead == -2
NeverRead == [k \in Keys |-> NotRead]
Idle == [at |-> "idle"]
Does(w, job) == work' = [work EXCEPT ![w] = job]

Init == /\ truth = 0 /\ flows = [k \in Keys |-> Gone] /\ seen = NeverRead
        /\ dest = 0 /\ row = 0 /\ dirty = FALSE /\ work = [w \in Workers |-> Idle]
        /\ truncated = FALSE

(* A byte crosses the relay on a connection, which it may open; a          *)
(* connection closes, and another may take its tuple.                      *)
Relay(k) == /\ truth < MaxBytes /\ truth' = truth + 1
            /\ flows' = [flows EXCEPT ![k] = IF @ = Gone THEN 1 ELSE @ + 1]
            /\ UNCHANGED <<seen, dest, row, dirty, work, truncated>>

Close(k) == /\ flows[k] # Gone /\ flows' = [flows EXCEPT ![k] = Gone]
            /\ UNCHANGED <<truth, seen, dest, row, dirty, work, truncated>>

(* A listing of the table, entry by entry: each is read at its own time.   *)
Flows == /\ work["loop"] = Idle /\ dest <= MaxBytes      \* bound
         /\ Does("loop", [at |-> "list", left |-> Keys, flows |-> flows])
         /\ UNCHANGED <<truth, flows, seen, dest, row, dirty, truncated>>

ListOne(k) == /\ work["loop"].at = "list" /\ k \in work["loop"].left
              /\ Does("loop", [work["loop"] EXCEPT !.left = @ \ {k}, !.flows[k] = flows[k]])
              /\ UNCHANGED <<truth, flows, seen, dest, row, dirty, truncated>>

\* Mutant: the first reading is folded as if all of it had just moved.
AllIsNew(was, now) == IF now = Gone THEN {} ELSE IF was < 0 THEN 1..now ELSE (was + 1)..now

(* The bytes one connection moved since the last reading: all of them when *)
(* it was not there, none when its tuple was taken by a younger one, and   *)
(* none when there is no reading to compare with.                          *)
MovedBy(was, now) == IF now = Gone \/ was = NotRead THEN {}
                     ELSE IF was = Gone THEN 1..now ELSE (was + 1)..now
Moved(was, now) == UNION {{k} \X MovedBy(was[k], now[k]) : k \in Keys}

SampleConnections ==
    /\ work["loop"].at = "list" /\ work["loop"].left = {}
    /\ LET now == work["loop"].flows
           moved == Cardinality(Moved(seen, now))
           live == {k \in Keys : now[k] # Gone}
       IN /\ dest' = dest + moved
          /\ \E kept \in SUBSET live :
               /\ kept = live \/ Cardinality(kept) = MaxTracked
               /\ Cardinality(kept) <= MaxTracked
               /\ seen' = [k \in Keys |-> IF k \in kept THEN now[k] ELSE Gone]
          /\ truncated' = (truncated \/ Cardinality(live) > MaxTracked)
          /\ dirty' = (dirty \/ moved > 0)
    /\ Does("loop", Idle)
    /\ UNCHANGED <<truth, flows, row>>

(* A flush takes the mark; the write of the rule's own totals comes first, *)
(* and when that fails the mark is not put back.                           *)
Flush(w) == /\ work[w] = Idle
            /\ Does(w, [at |-> "save", some |-> dirty, dest |-> dest])
            /\ dirty' = FALSE
            /\ UNCHANGED <<truth, flows, seen, dest, row, truncated>>

SaveDestinationVolumes(w) ==
    /\ work[w].at = "save" /\ Does(w, Idle)
    /\ \/ row' = (IF work[w].some THEN work[w].dest ELSE row) /\ UNCHANGED dirty
       \/ work[w].some /\ dirty' = TRUE /\ UNCHANGED row
       \/ UNCHANGED <<row, dirty>>                      \* Save failed before
    /\ UNCHANGED <<truth, flows, seen, dest, truncated>>

Load(r) == dest' = r /\ seen' = NeverRead /\ dirty' = FALSE /\ work' = [w \in Workers |-> Idle]

Stop == /\ work = [w \in Workers |-> Idle]
        /\ row' = IF dirty THEN dest ELSE row
        /\ Load(row') /\ UNCHANGED <<truth, flows, truncated>>

Crash(reboot) == /\ Load(row)
                 /\ flows' = IF reboot THEN [k \in Keys |-> Gone] ELSE flows
                 /\ UNCHANGED <<truth, row, truncated>>

Next == \/ \E k \in Keys : Relay(k) \/ Close(k) \/ ListOne(k)
        \/ Flows \/ SampleConnections \/ Stop \/ \E reboot \in BOOLEAN : Crash(reboot)
        \/ \E w \in Workers : Flush(w) \/ SaveDestinationVolumes(w)

-----------------------------------------------------------------------------
(* The destination's total is a floor on what was relayed to it, through   *)
(* connections that close and tuples that are reused, writes out of order, *)
(* restarts and reboots, as long as no reading is truncated: a limit       *)
(* compared with it never stops a destination early.                       *)
FloorUnlessTruncated == truncated \/ (dest <= truth /\ row <= truth)

-----------------------------------------------------------------------------
(* Why: what the total would become if all that moved since the last       *)
(* reading were folded now is no more than was relayed; while a listing is *)
(* under way a connection counts up to its entry and from its entry on.    *)
Counts == [Keys -> Nat \cup {Gone}]
Jobs == {Idle} \cup [at : {"list"}, left : SUBSET Keys, flows : Counts]
               \cup [at : {"save"}, some : BOOLEAN, dest : Nat]
Pending == IF work["loop"].at = "list"
           THEN Moved(seen, work["loop"].flows) \cup Moved(work["loop"].flows, flows)
           ELSE Moved(seen, flows)

DestinationsInv ==
    /\ truth \in Nat /\ flows \in Counts /\ seen \in [Keys -> Nat \cup {Gone, NotRead}]
    /\ dest \in Nat /\ row \in Nat /\ dirty \in BOOLEAN /\ truncated \in BOOLEAN
    /\ work \in [Workers -> Jobs]
    /\ truncated \/ /\ dest + Cardinality(Pending) <= truth /\ row <= truth
                    /\ \A w \in Workers : work[w].at = "save" => work[w].dest <= truth
=============================================================================

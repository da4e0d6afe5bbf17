----------------------------- MODULE Accounting -----------------------------
(***************************************************************************)
(* Traffic totals of one forwarding rule (internal/route/accounting.go,    *)
(* counters.go). The kernel's counter restarts at every rebuild of the     *)
(* ruleset; the sampling loop and the snapshot before a rebuild read it,   *)
(* fold it into the totals in memory, and write those down. Bytes stand    *)
(* for the four figures, which move and restart together.                  *)
(***************************************************************************)
EXTENDS Integers

CONSTANT MaxBytes        \* bound: bytes relayed

Workers == {"loop", "service"}

VARIABLES truth,         \* history: bytes the rule has relayed
          kernel,        \* the rule's counter in the forward hook
          volume,        \* totals in memory: [known, total, last]
          row,           \* the same as the database has them
          dirty,         \* the totals are to be written
          work,          \* worker -> what it does
          overtaken      \* history: a reading was folded after a later one

vars == <<truth, kernel, volume, row, dirty, work, overtaken>>

Unknown == [known |-> FALSE, total |-> 0, last |-> 0]
Idle == [at |-> "idle"]
Does(w, job) == work' = [work EXCEPT ![w] = job]

Init == /\ truth = 0 /\ kernel = 0 /\ volume = Unknown /\ row = Unknown
        /\ dirty = FALSE /\ work = [w \in Workers |-> Idle] /\ overtaken = FALSE

Relay == /\ truth < MaxBytes
         /\ truth' = truth + 1 /\ kernel' = kernel + 1
         /\ UNCHANGED <<volume, row, dirty, work, overtaken>>

(* A reading is taken without the lock. The service's snapshot goes on to  *)
(* the flush also when there is none.                                      *)
Sample(w) == /\ work[w] = Idle
             /\ \/ Does(w, [at |-> "fold", raw |-> kernel, late |-> FALSE])
                \/ w = "service" /\ Does(w, [at |-> "flush"])
             /\ UNCHANGED <<truth, kernel, volume, row, dirty, overtaken>>

\* Mutant: a counter that stands still is taken for one that restarted.
MovedSinceRestart(v, raw) == IF ~v.known THEN 0 ELSE IF raw <= v.last THEN raw ELSE raw - v.last

(* What moved since the last sample: all of it after a restart, none of it *)
(* when the counter is seen for the first time.                            *)
Moved(v, raw) == IF ~v.known THEN 0 ELSE IF raw < v.last THEN raw ELSE raw - v.last

Observe(w) ==
    /\ work[w].at = "fold"
    /\ volume' = [known |-> TRUE, last |-> work[w].raw,
                  total |-> volume.total + Moved(volume, work[w].raw)]
    /\ dirty' = TRUE
    /\ overtaken' = (overtaken \/ work[w].late)
    /\ work' = [v \in Workers |->
                  IF v = w THEN IF w = "loop" THEN Idle ELSE [at |-> "flush"]
                  ELSE IF work[v].at = "fold" THEN [work[v] EXCEPT !.late = TRUE] ELSE work[v]]
    /\ UNCHANGED <<truth, kernel, row>>

(* A flush copies what is dirty under the lock and writes it without; when *)
(* the write fails it is dirty again.                                      *)
Flush(w) == /\ \/ work[w].at = "flush"
               \/ w = "loop" /\ work[w] = Idle
            /\ Does(w, [at |-> "save", some |-> dirty, volume |-> volume])
            /\ dirty' = FALSE
            /\ UNCHANGED <<truth, kernel, volume, row, overtaken>>

Save(w) == work[w].volume

Saved(w) == /\ work[w].at = "save"
            /\ \/ row' = (IF work[w].some THEN Save(w) ELSE row) /\ UNCHANGED dirty
               \/ work[w].some /\ dirty' = TRUE /\ UNCHANGED row
            /\ Does(w, IF w = "loop" THEN Idle ELSE [at |-> "rebuild"])
            /\ UNCHANGED <<truth, kernel, volume, overtaken>>

(* The ruleset is replaced whether or not the snapshot succeeded.          *)
Rebuild == /\ work["service"].at = "rebuild" /\ Does("service", Idle)
           /\ kernel' = 0
           /\ UNCHANGED <<truth, volume, row, dirty, overtaken>>

(* The panel stops with a flush, or crashes, or the host reboots; at the   *)
(* next start the totals are loaded before anything is sampled.            *)
Load(r) == /\ volume' = r /\ dirty' = FALSE /\ work' = [w \in Workers |-> Idle]

Stop == /\ work = [w \in Workers |-> Idle]
        /\ row' = IF dirty THEN volume ELSE row
        /\ Load(row')
        /\ UNCHANGED <<truth, kernel, overtaken>>

Crash(reboot) == /\ Load(row)
                 /\ kernel' = IF reboot THEN 0 ELSE kernel
                 /\ UNCHANGED <<truth, row, overtaken>>

Next == \/ Relay \/ Rebuild \/ Stop \/ \E reboot \in BOOLEAN : Crash(reboot)
        \/ \E w \in Workers : Sample(w) \/ Observe(w) \/ Flush(w) \/ Saved(w)

-----------------------------------------------------------------------------
(* Through rebuilds, failed writes, writes out of order, crashes and       *)
(* reboots no byte is counted twice, in memory or in the table, as long as *)
(* no reading of the counters is folded after a later one.                 *)
NothingCountedTwice == overtaken \/ (volume.total <= truth /\ row.total <= truth)

-----------------------------------------------------------------------------
(* Why: what a total would become if the counter were folded into it now   *)
(* is no more than was relayed, in memory, in the table and in a write     *)
(* under way; and so it is with a reading that waits to be folded.         *)
Volumes == [known : BOOLEAN, total : Nat, last : Nat]
MovedAfter(raw) == IF kernel < raw THEN kernel ELSE kernel - raw
Within(v) == v.total + Moved(v, kernel) <= truth
JobKnown(job) ==
    /\ job.at = "fold" => job \in [at : {"fold"}, raw : Nat, late : BOOLEAN]
    /\ job.at = "save" => job \in [at : {"save"}, some : BOOLEAN, volume : Volumes]
JobWithin(job) ==
    /\ (job.at = "fold" /\ ~job.late) =>
          volume.total + Moved(volume, job.raw) + MovedAfter(job.raw) <= truth
    /\ (job.at = "save" /\ job.some) => Within(job.volume)

Accounted ==
    /\ truth \in Nat /\ kernel \in Nat /\ volume \in Volumes /\ row \in Volumes
    /\ dirty \in BOOLEAN /\ overtaken \in BOOLEAN
    /\ work = [w \in Workers |-> work[w]] /\ \A w \in Workers : JobKnown(work[w])
    /\ ~overtaken => Within(volume) /\ Within(row) /\ \A w \in Workers : JobWithin(work[w])
=============================================================================

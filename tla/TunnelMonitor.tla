--------------------------- MODULE TunnelMonitor ---------------------------
(***************************************************************************)
(* Monitoring of one tunnel (internal/monitor): its prober sends, receives *)
(* and evaluates in three goroutines, link events force the state, the     *)
(* supervisor restarts a prober that failed or whose endpoints changed,    *)
(* and an aggregator writes one bucket per interval with the worst state   *)
(* in it. Times are order only; figures are counts.                        *)
(***************************************************************************)
EXTENDS Integers, Sequences

CONSTANTS Configs     \* [size, samples, down, degraded]: window, samples, loss in percent

VARIABLES cfg,        \* the configuration in force
          window,       \* fates of the last probes, oldest first
          machine,      \* [current, candidate, agreed, forced, required]
          prober,       \* "off" | "running" | "backoff"
          link,         \* the interface exists
          bucket,       \* worst state of the open bucket, "none" when there is none
          agreeing,     \* history: equal verdicts in a row, newest included, since the
                        \* last fact or start
          seen          \* history: the states the samples of the open bucket left in force

vars == <<cfg, window, machine, prober, link, bucket, agreeing, seen>>

Fates == {"pending", "lost", "answered"}
States == {"Unknown", "Up", "Degraded", "Down"}
Rank == [none |-> 0, Unknown |-> 1, Up |-> 2, Degraded |-> 3, Down |-> 4]
Worst(a, b) == IF Rank[a] > Rank[b] THEN a ELSE b

Trim(w, n) == IF Len(w) > n THEN SubSeq(w, Len(w) - n + 1, Len(w)) ELSE w
CountOf(w, f) == LET count[i \in 0 .. Len(w)] ==
                       IF i = 0 THEN 0 ELSE count[i - 1] + (IF w[i] = f THEN 1 ELSE 0)
                 IN count[Len(w)]

NewMachine(required) == [current |-> "Unknown", candidate |-> "Unknown", agreed |-> 0,
                         forced |-> FALSE, required |-> required]

(* The verdict on a window, before hysteresis; peer: the far end answered  *)
(* a TCP connection; slow: the round trips exceed the latency threshold.   *)
Classify(w, c, peer, slow) ==
    LET lost == CountOf(w, "lost")
        sent == lost + CountOf(w, "answered")
        loses(percent) == 100 * lost >= percent * sent
    IN IF sent < c.samples THEN "Unknown"
       ELSE IF loses(c.down) THEN IF peer THEN "Up" ELSE "Down"
       ELSE IF loses(c.degraded) \/ slow THEN "Degraded"
       ELSE "Up"

\* Mutant: a verdict that differs from the candidate does not restart the count.
ObserveAnyChange(m, s) ==
    LET o == [m EXCEPT !.agreed = @ + 1, !.candidate = s]
    IN IF s = m.current THEN [o EXCEPT !.agreed = 1]
       ELSE IF o.agreed < m.required THEN o
       ELSE [o EXCEPT !.current = s, !.forced = FALSE]

(* Hysteresis: as many verdicts in a row as required change the state.     *)
Observe(m, s) ==
    LET o == IF s = m.candidate THEN [m EXCEPT !.agreed = IF @ < m.required THEN @ + 1 ELSE @]
             ELSE [m EXCEPT !.candidate = s, !.agreed = 1]
    IN IF s = m.current \/ o.agreed < m.required THEN o
       ELSE [o EXCEPT !.current = s, !.forced = FALSE]

Force(m, s) == [m EXCEPT !.current = s, !.candidate = s, !.agreed = m.required, !.forced = TRUE]
SetRequired(m, n) == [m EXCEPT !.required = n, !.agreed = IF @ > n THEN n ELSE @]

Fact(s) == machine' = Force(machine, s) /\ agreeing' = 0

Init == /\ cfg \in Configs
        /\ window = <<>>
        /\ machine = NewMachine(cfg.samples)
        /\ prober = "off"
        /\ link \in BOOLEAN
        /\ bucket = "none" /\ agreeing = 0 /\ seen = {}

(* A probe leaves; without an interface it is lost at once (ENETUNREACH).  *)
Send == /\ prober = "running"
        /\ window' = Trim(Append(window, IF link THEN "pending" ELSE "lost"), cfg.size)
        /\ UNCHANGED <<cfg, machine, prober, link, bucket, agreeing, seen>>

(* Its timeout passes, or an ICMP error ends it.                           *)
Expire(i) == /\ i \in DOMAIN window /\ window[i] = "pending"
             /\ window' = [window EXCEPT ![i] = "lost"]
             /\ UNCHANGED <<cfg, machine, prober, link, bucket, agreeing, seen>>

(* An answer counts also after the timeout; a second one does not.         *)
Reply(i) == /\ i \in DOMAIN window /\ prober = "running" /\ link
            /\ window[i] # "answered"
            /\ window' = [window EXCEPT ![i] = "answered"]
            /\ UNCHANGED <<cfg, machine, prober, link, bucket, agreeing, seen>>

(* One tick of the evaluator. The far end is asked over TCP only when the  *)
(* probes are unanswered.                                                  *)
Evaluate(peer, slow) ==
    /\ prober = "running"
    /\ window' = Trim(window, cfg.size)
    /\ LET m == SetRequired(machine, cfg.samples)
           verdict == Classify(window', cfg, peer, slow)
       IN /\ machine' = Observe(m, verdict)
          /\ agreeing' = IF verdict # machine.candidate \/ agreeing = 0 THEN 1
                         ELSE IF agreeing < cfg.samples THEN agreeing + 1 ELSE agreeing
    /\ bucket' = Worst(machine'.current, bucket)
    /\ seen' = seen \cup {machine'.current}
    /\ UNCHANGED <<cfg, prober, link>>

(* Netlink: the interface is removed, taken down, or back.                 *)
LinkGone == /\ link /\ link' = FALSE
            /\ IF prober = "off" THEN UNCHANGED <<machine, agreeing>> ELSE Fact("Down")
            /\ UNCHANGED <<cfg, window, prober, bucket, seen>>

LinkBack == /\ ~link /\ link' = TRUE
            /\ machine' = [machine EXCEPT !.forced = FALSE]
            /\ UNCHANGED <<cfg, window, prober, bucket, agreeing, seen>>

(* The prober ends with an error and waits; it runs again after the        *)
(* backoff, or at once when the interface is back. Its socket is bound to  *)
(* an address of the interface.                                            *)
ProberFails == /\ prober = "running" /\ prober' = "backoff"
               /\ Fact("Unknown")
               /\ UNCHANGED <<cfg, window, link, bucket, seen>>

Retry == /\ prober = "backoff"
         /\ IF link THEN /\ prober' = "running" /\ window' = <<>>
                         /\ machine' = [machine EXCEPT !.forced = FALSE]
                         /\ UNCHANGED agreeing
            ELSE Fact("Unknown") /\ UNCHANGED <<prober, window>>
         /\ UNCHANGED <<cfg, link, bucket, seen>>

(* The supervisor's sweep: thresholds are swapped in while the prober      *)
(* runs; a change of what is probed stops it and starts another; a tunnel  *)
(* that is no longer monitored loses its open bucket.                      *)
Update == /\ prober # "off" /\ cfg' \in Configs \ {cfg}
          /\ UNCHANGED <<window, machine, prober, link, bucket, agreeing, seen>>

StopProber == /\ prober # "off" /\ prober' = "off"
              /\ bucket' = "none" /\ seen' = {}
              /\ UNCHANGED <<cfg, window, machine, link, agreeing>>

StartProber == /\ prober = "off"
               /\ cfg' \in Configs
               /\ window' = <<>> /\ machine' = NewMachine(cfg'.samples) /\ agreeing' = 0
               /\ prober' = IF link THEN "running" ELSE "backoff"
               /\ UNCHANGED <<link, bucket, seen>>

(* The flush of a bucket that is old enough.                               *)
Flush == /\ bucket # "none" /\ bucket' = "none" /\ seen' = {}
         /\ UNCHANGED <<cfg, window, machine, prober, link, agreeing>>

Next == \/ Send \/ LinkGone \/ LinkBack \/ ProberFails \/ Retry \/ Update
        \/ StopProber \/ StartProber \/ Flush
        \/ \E i \in DOMAIN window : Expire(i) \/ Reply(i)
        \/ \E peer, slow \in BOOLEAN : Evaluate(peer, slow)

-----------------------------------------------------------------------------
(* The evaluator changes the state only after as many equal verdicts in a  *)
(* row as the configuration in force asks for, counted from the last fact  *)
(* or start, over changes of the configuration; and what a bucket stores   *)
(* is the worst state any of its samples left (state.go, store.go).        *)
Earned == (prober = "running" /\ machine'.current # machine.current /\ ~machine'.forced)
              => agreeing' >= cfg.samples
WorstIsStored == \A s \in seen : Rank[s] <= Rank[bucket]
MonitorTellsWhatItSaw == Earned /\ WorstIsStored

-----------------------------------------------------------------------------
(* Why: a candidate that is not the state yet has been agreed on no more   *)
(* often than verdicts in a row were equal to it.                          *)
Machines == [current : States, candidate : States, agreed : Int, forced : BOOLEAN,
             required : Int]
Tracked == machine.candidate = machine.current \/ machine.agreed <= agreeing

MonitorInv ==
    /\ cfg \in Configs /\ machine \in Machines /\ agreeing \in Nat
    /\ bucket \in States \cup {"none"} /\ seen \subseteq States
    /\ Tracked /\ WorstIsStored
=============================================================================

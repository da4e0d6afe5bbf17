---------------------------- MODULE Diagnostics ----------------------------
(***************************************************************************)
(* The on-demand analysis of a forwarding rule and its state in the list   *)
(* (internal/route: diagnostics.go, health.go, forward.go). The analysis   *)
(* reads the ruleset, the switches, foreign rules, the connection table,   *)
(* the counters, the tunnel and the destinations, and each reading may     *)
(* fail; the host changes and traffic comes and goes between analyses. The *)
(* counters restart with the ruleset, the connections do not.              *)
(***************************************************************************)
EXTENDS Naturals, FiniteSets

CONSTANTS Dests, MaxFaults     \* bound: what is wrong with the host at one time

VARIABLES rule,      \* [enabled, ipv6, status]
          host,      \* [installed, v4, v6, shadow, blocked, narrow, tunnel]
          fate,      \* destination -> "answers" | "refuses" | "silent"
          rotation,  \* destinations traffic is sent to
          flow,      \* the rule's connection: "none" | "opening" | "open" | "stalled"
          counter,   \* packets were forwarded since the ruleset was built
          cause,     \* history: what the connection's last packet met, and
                     \* whether the counter restarted since
          answer     \* the analysis just made: [verdict, confidence, state, reads]

vars == <<rule, host, fate, rotation, flow, counter, cause, answer>>
traffic == <<flow, counter, cause>>

Fates == {"answers", "refuses", "silent"}
NoCause == [met |-> "nothing", restarted |-> FALSE]
NoAnswer == [verdict |-> "none", confidence |-> "low", state |-> "none", reads |-> {}]

Init == /\ rule \in [enabled : {TRUE}, ipv6 : BOOLEAN, status : {"Applied"}]
        /\ host = [installed |-> TRUE, v4 |-> TRUE, v6 |-> TRUE, shadow |-> FALSE,
                   blocked |-> FALSE, narrow |-> FALSE, tunnel |-> "up"]
        /\ fate = [d \in Dests |-> "answers"] /\ rotation = Dests
        /\ flow = "none" /\ counter = FALSE /\ cause = NoCause /\ answer = NoAnswer

Forwards == IF rule.ipv6 THEN host.v6 ELSE host.v4

Faults(h) == {f \in {"installed", "v4", "v6"} : ~h[f]} \cup
             {f \in {"shadow", "blocked", "narrow"} : h[f]} \cup ({h.tunnel} \ {"up"})

-----------------------------------------------------------------------------
(* The host: a switch is turned, another tool adds a rule or flushes, the  *)
(* tunnel fails, a service stops.                                          *)
HostChanges ==
    /\ \/ /\ \E f \in {"v4", "v6", "shadow", "blocked", "narrow"} :
               host' = [host EXCEPT ![f] = ~@]
          /\ UNCHANGED <<fate, rotation, traffic>>
       \/ /\ \E t \in {"up", "down", "none"} : host' = [host EXCEPT !.tunnel = t]
          /\ UNCHANGED <<fate, rotation, traffic>>
       \/ /\ \E d \in Dests, f \in Fates : fate' = [fate EXCEPT ![d] = f]
          /\ UNCHANGED <<host, rotation, traffic>>
       \/ /\ rotation' \in (SUBSET Dests) \ {{}}
          /\ UNCHANGED <<host, fate, traffic>>
       \/ /\ host' = [host EXCEPT !.installed = FALSE] /\ counter' = FALSE
          /\ cause' = [cause EXCEPT !.restarted = TRUE]
          /\ UNCHANGED <<fate, rotation, flow>>
    /\ Cardinality(Faults(host')) <= MaxFaults
    /\ answer' = NoAnswer /\ UNCHANGED rule

(* An apply, which leaves a status: the ruleset is built anew.             *)
Rebuild == /\ \E e \in BOOLEAN, s \in {"Applied", "Failed"} :
                rule' = [rule EXCEPT !.enabled = e, !.status = s]
           /\ host' = [host EXCEPT !.installed = rule'.enabled]
           /\ counter' = FALSE /\ cause' = [cause EXCEPT !.restarted = TRUE]
           /\ answer' = NoAnswer /\ UNCHANGED <<fate, rotation, flow>>

(* A packet of a client is translated, unless a foreign rule takes it      *)
(* first, and forwarded, unless the kernel does not or a filter drops it.  *)
Packet == /\ host.installed /\ ~host.shadow
          /\ LET forwarded == Forwards /\ ~host.blocked
                 served == forwarded /\ \E d \in rotation : fate[d] = "answers"
             IN /\ flow' = IF served THEN IF host.narrow THEN "stalled" ELSE "open"
                           ELSE IF flow = "none" THEN "opening" ELSE flow
                /\ counter' = (counter \/ forwarded)
                /\ cause' = [met |-> IF ~Forwards THEN "switch" ELSE IF host.blocked
                                     THEN "filter" ELSE "nothing", restarted |-> FALSE]
          /\ answer' = NoAnswer /\ UNCHANGED <<rule, host, fate, rotation>>

FlowEnds == /\ flow # "none" /\ flow' = "none" /\ cause' = NoCause
            /\ answer' = NoAnswer /\ UNCHANGED <<rule, host, fate, rotation, counter>>

-----------------------------------------------------------------------------
\* Mutant: destinations out of the rotation decide as well.
SummariseAll(probed) == [probed |-> IF probed THEN Dests ELSE {},
                         refused |-> IF probed THEN {d \in Dests : fate[d] = "refuses"} ELSE {},
                         reachable |-> {d \in Dests : fate[d] = "answers"}]

(* What the probes of the destinations in the rotation found.              *)
Summarise(probed) ==
    [probed |-> IF probed THEN rotation ELSE {},
     refused |-> IF probed THEN {d \in rotation : fate[d] = "refuses"} ELSE {},
     reachable |-> IF probed THEN {d \in rotation : fate[d] = "answers"} ELSE {}]

None(reach) == reach.probed # {} /\ reach.refused = reach.probed
Some(reach) == reach.refused # {} /\ reach.reachable # {}

High(v) == [verdict |-> v, confidence |-> "high"]
Low(v) == [verdict |-> v, confidence |-> "low"]

Readings == {"ruleset", "foreign", "table", "counters", "probe"}

(* The decision tree; reads: the readings that worked.                     *)
Verdict(reads) ==
    LET shadowed == "foreign" \in reads /\ host.shadow
        translated == "table" \in reads /\ flow # "none"
        forwarded == "counters" \in reads /\ counter
        stalled == "table" \in reads /\ flow = "stalled"
        reach == Summarise("probe" \in reads)
    IN CASE ~rule.enabled -> High("RULE_DISABLED")
         [] rule.enabled /\ "ruleset" \notin reads -> Low("RULE_MISSING")
         [] OTHER ->
            IF ~host.installed THEN High("RULE_MISSING")
            ELSE IF ~host.v4 \/ (rule.ipv6 /\ ~host.v6) THEN High("FORWARDING_DISABLED")
            ELSE IF shadowed /\ ~forwarded THEN High("RULE_SHADOWED")
            ELSE IF host.tunnel = "down" THEN High("TUNNEL_DOWN")
            ELSE IF None(reach) THEN High("DESTINATION_UNREACHABLE")
            ELSE IF Some(reach) THEN High("DESTINATION_PARTIAL")
            ELSE IF ~translated /\ ~forwarded THEN Low("NO_INBOUND_TRAFFIC")
            ELSE IF ~forwarded THEN High("FORWARD_BLOCKED")
            ELSE IF stalled THEN Low("MTU_PROBLEM")      \* high where the clamp is off
            ELSE IF shadowed THEN Low("HEALTHY") ELSE High("HEALTHY")

(* The state in the list of rules.                                         *)
HealthOf(reads) ==
    CASE ~rule.enabled -> "disabled"
      [] rule.enabled /\ rule.status = "Failed" -> "failed"
      [] OTHER -> IF "ruleset" \notin reads THEN "pending"
                  ELSE IF ~host.installed THEN "failed"
                  ELSE IF host.tunnel = "down" \/ ~Forwards THEN "impaired"
                  ELSE "healthy"

Analyze(reads) ==
    /\ answer' = [verdict |-> Verdict(reads).verdict, confidence |-> Verdict(reads).confidence,
                  state |-> HealthOf(reads), reads |-> reads]
    /\ UNCHANGED <<rule, host, fate, rotation, flow, counter, cause>>

Next == \/ HostChanges \/ Rebuild \/ Packet \/ FlowEnds
        \/ \E failed \in Readings \cup {"none"} : Analyze(Readings \ {failed})

-----------------------------------------------------------------------------
(* An analysis blames a filter only when the last packet of a connection   *)
(* it lists met one, or a closed switch, unless it could not read the      *)
(* counters or they restarted under that connection; blames a destination  *)
(* only when traffic is sent there; calls a rule healthy only when every   *)
(* reading that worked supports it; and what the list calls healthy is not *)
(* missing, unforwarded or behind a dead tunnel to the analysis, for a     *)
(* rule of IPv4.                                                           *)
BlameIsDeserved ==
    /\ answer.verdict = "FORWARD_BLOCKED" =>
          cause.met # "nothing" \/ cause.restarted \/ "counters" \notin answer.reads
    /\ answer.verdict = "DESTINATION_UNREACHABLE" => \A d \in rotation : fate[d] = "refuses"
    /\ answer.verdict = "DESTINATION_PARTIAL" =>
          \E d, e \in rotation : fate[d] = "refuses" /\ fate[e] = "answers"
HealthyIsSupported ==
    answer.verdict = "HEALTHY" /\ answer.confidence = "high" =>
        /\ host.installed /\ Forwards /\ host.tunnel # "down"
        /\ "foreign" \in answer.reads => ~host.shadow
        /\ "probe" \in answer.reads => ~\A d \in rotation : fate[d] = "refuses"
AnswersAgree ==
    answer.state = "healthy" /\ ~rule.ipv6 =>
        answer.verdict \notin {"RULE_DISABLED", "RULE_MISSING", "FORWARDING_DISABLED",
                               "TUNNEL_DOWN"}
DiagnosisIsFair == BlameIsDeserved /\ HealthyIsSupported /\ AnswersAgree

-----------------------------------------------------------------------------
(* Why: a connection whose last packet was forwarded since the ruleset was *)
(* built has counted, and the rotation has a destination.                  *)
DiagnosisInv ==
    /\ rotation \in (SUBSET Dests) \ {{}} /\ counter \in BOOLEAN
    /\ cause \in [met : {"nothing", "switch", "filter"}, restarted : BOOLEAN]
    /\ flow # "none" /\ ~counter => cause.met # "nothing" \/ cause.restarted
    /\ DiagnosisIsFair
=============================================================================

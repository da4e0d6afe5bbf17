--------------------------- MODULE KernelSettings ---------------------------
(***************************************************************************)
(* The kernel parameters the panel sets: forwarding (route/forward.go) and *)
(* tuning (tuning/manager.go), each recorded in a sysctl file of the       *)
(* panel's own beside the value it replaced. A change reads the file,      *)
(* writes it, then sets the live values one by one; no lock is held. The   *)
(* two files share no parameter, so a behaviour is about one of them.      *)
(***************************************************************************)
EXTENDS Integers

CONSTANTS Values,        \* values a tuning parameter may take
          MaxHand        \* bound: changes made by hand

None == 0                \* not recorded, not asked for
Forwarding == {"v4", "v6"}
Tuning == {"max", "buf"}         \* "max" is in the safety group
Workers == {"request", "background"}
Off == 1                 \* the two values of a switch
On == 2

VARIABLES scope,         \* the parameters of the file
          kernel,        \* parameter -> its live value
          file,          \* parameter -> [value, previous], None where not recorded
          base,          \* parameter -> its value at boot without the panel's file
          work,          \* worker -> its change
          asked,         \* history: parameter -> the value an operator asked to keep
          own,           \* history: its value before the panel began to keep it
          hand,          \* changes made by hand so far
          overlapped     \* history: two changes of the file were under way at once

vars == <<scope, kernel, file, base, work, asked, own, hand, overlapped>>

NoEntry == [value |-> None, previous |-> None]
Idle == [at |-> "idle"]
Kept(f) == {k \in scope : f[k].value # None}

Init == /\ scope \in {Forwarding, Tuning}
        /\ base \in [scope -> IF scope = Forwarding THEN {Off, On} ELSE {1}]
        /\ kernel = base /\ own = base
        /\ file = [k \in scope |-> NoEntry] /\ asked = [k \in scope |-> None]
        /\ work = [w \in Workers |-> Idle] /\ hand = 0 /\ overlapped = FALSE

Does(w, job) == work' = [work EXCEPT ![w] = job]
Begins(w, job) == /\ ~overlapped                    \* bound: none begins after an overlap
                  /\ work[w] = Idle /\ Does(w, job)
                  /\ overlapped' = (overlapped \/ \E v \in Workers : work[v] # Idle)
                  /\ UNCHANGED <<scope, kernel, file, base, asked, own, hand>>

-----------------------------------------------------------------------------
(* Enable records the previous value of a switch the first time, nothing   *)
(* for one that is on already, and writes only the switches needed now.    *)
PreviousFor(k) == IF file[k].previous # None THEN file[k].previous
                  ELSE IF kernel[k] = On THEN None ELSE Off

Enable(w, ipv6) ==
    /\ scope = Forwarding
    /\ w = "background" => kernel["v4"] = Off \/ (ipv6 /\ kernel["v6"] = Off)   \* the plan
    /\ LET needed == IF ipv6 THEN Forwarding ELSE {"v4"}
       IN Begins(w, [at |-> "write", order |-> TRUE, asked |-> asked,
                     file |-> [k \in scope |-> IF k \in needed
                                 THEN [value |-> On, previous |-> PreviousFor(k)] ELSE NoEntry],
                     live |-> [k \in scope |-> IF k \in needed THEN On ELSE None]])

(* Set keeps what an operator chose beside what was kept already, and lets *)
(* go of what is asked for as empty; Apply keeps the recommendations.      *)
Drop == -1
Set(w, wanted) == /\ scope = Tuning /\ w = "request"
                  /\ Begins(w, [at |-> "commit", wanted |-> wanted, byHand |-> TRUE])

(* The sweep holds a parameter of the safety group at what the operator    *)
(* chose, or raises it to the recommendation, never lowers it.             *)
EnsureSafety(recommended) ==
    /\ scope = Tuning
    /\ LET want == IF file["max"].value # None THEN file["max"].value
                   ELSE IF kernel["max"] < recommended THEN recommended ELSE None
       IN /\ want \notin {None, kernel["max"]}
          /\ Begins("background", [at |-> "commit", byHand |-> FALSE,
                                   wanted |-> [k \in scope |-> IF k = "max" THEN want ELSE None]])

\* Mutant: only the part that changed is written.
DesiredOnlyTheChange(k, wanted) == IF wanted[k] = Drop THEN None ELSE wanted[k]
Desired(k, wanted) == CASE wanted[k] = Drop -> None
                        [] wanted[k] = None -> file[k].value
                        [] OTHER -> wanted[k]

Commit(w) ==
    /\ work[w].at = "commit"
    /\ LET wanted == work[w].wanted
           next == [k \in scope |->
                      IF Desired(k, wanted) = None THEN NoEntry
                      ELSE [value |-> Desired(k, wanted),
                            previous |-> IF file[k].previous # None THEN file[k].previous
                                         ELSE kernel[k]]]
       IN Does(w, [at |-> "write", order |-> FALSE, file |-> next,
                   asked |-> [k \in scope |-> IF ~work[w].byHand \/ wanted[k] = None THEN asked[k]
                                              ELSE IF wanted[k] = Drop THEN None ELSE wanted[k]],
                   live |-> [k \in scope |-> IF next[k].value = kernel[k] THEN None
                                             ELSE next[k].value]])
    /\ UNCHANGED <<scope, kernel, file, base, asked, own, hand, overlapped>>

(* What a parameter had before: fixed while the file records it.           *)
Own(new) == [k \in scope |-> IF file[k].previous # None /\ k \in Kept(new)
                             THEN own[k] ELSE kernel[k]]

(* The file goes first and the live values second; the file is removed     *)
(* when nothing is kept. When it cannot be written nothing else happens.   *)
WriteFile(w) ==
    /\ work[w].at = "write"
    /\ \/ /\ file' = work[w].file /\ own' = Own(work[w].file) /\ asked' = work[w].asked
          /\ Does(w, [at |-> "live", order |-> work[w].order, live |-> work[w].live])
       \/ Does(w, Idle) /\ UNCHANGED <<file, own, asked>>
    /\ UNCHANGED <<scope, kernel, base, hand, overlapped>>

(* A switch that cannot be set ends the change; a tuning parameter the     *)
(* kernel refuses does not.                                                *)
WriteLive(w) ==
    /\ work[w].at = "live"
    /\ LET todo == {k \in scope : work[w].live[k] # None}
       IN IF todo = {} THEN Does(w, Idle) /\ UNCHANGED kernel
          ELSE \E k \in todo :
                 /\ work[w].order /\ "v4" \in todo => k = "v4"
                 /\ \/ /\ kernel' = [kernel EXCEPT ![k] = work[w].live[k]]
                       /\ Does(w, [work[w] EXCEPT !.live[k] = None])
                    \/ /\ UNCHANGED kernel
                       /\ Does(w, IF work[w].order THEN Idle ELSE [work[w] EXCEPT !.live[k] = None])
    /\ UNCHANGED <<scope, file, base, asked, own, hand, overlapped>>

(* Revert puts back what the file recorded, then removes it.               *)
Revert(w) ==
    /\ w = "request" /\ Kept(file) # {}
    /\ Begins(w, [at |-> "back", live |-> [k \in scope |-> file[k].previous]])

PutBack(w) ==
    /\ work[w].at = "back"
    /\ LET todo == {k \in scope : work[w].live[k] # None}
       IN IF todo = {}
          THEN /\ file' = [k \in scope |-> NoEntry] /\ asked' = [k \in scope |-> None]
               /\ own' = kernel /\ Does(w, Idle) /\ UNCHANGED kernel
          ELSE \E k \in todo :
                 /\ \/ /\ kernel' = [kernel EXCEPT ![k] = work[w].live[k]]
                       /\ Does(w, [work[w] EXCEPT !.live[k] = None])
                    \/ /\ UNCHANGED kernel
                       /\ Does(w, IF scope = Forwarding THEN Idle
                                  ELSE [work[w] EXCEPT !.live[k] = None])
                 /\ UNCHANGED <<file, asked, own>>
    /\ UNCHANGED <<scope, base, hand, overlapped>>

-----------------------------------------------------------------------------
(* The operator sets a parameter by hand, now or for the next boot.        *)
ByHand == /\ hand < MaxHand /\ hand' = hand + 1
          /\ \E k \in scope, v \in IF scope = Forwarding THEN {Off, On} ELSE Values :
               /\ kernel' = [kernel EXCEPT ![k] = v]
               /\ base' \in {base, [base EXCEPT ![k] = v]}
               /\ own' = [own EXCEPT ![k] = IF file[k].previous # None THEN @ ELSE v]
          /\ overlapped' = (overlapped \/ \E w \in Workers : work[w] # Idle)
          /\ UNCHANGED <<scope, file, work, asked>>

Restart(boots) ==
    /\ work' = [w \in Workers |-> Idle]
    /\ IF boots THEN /\ kernel' = [k \in scope |-> IF k \in Kept(file) THEN file[k].value
                                                   ELSE base[k]]
                     /\ own' = [k \in scope |-> IF k \in Kept(file) THEN own[k] ELSE base[k]]
       ELSE UNCHANGED <<kernel, own>>
    /\ UNCHANGED <<scope, file, base, asked, hand, overlapped>>

Next == \/ \E w \in Workers, ipv6 \in BOOLEAN : Enable(w, ipv6)
        \/ \E w \in Workers : Commit(w) \/ WriteFile(w) \/ WriteLive(w) \/ Revert(w) \/ PutBack(w)
        \/ \E wanted \in [Tuning -> Values \cup {None, Drop}] : Set("request", wanted)
        \/ \E v \in Values : EnsureSafety(v)
        \/ ByHand \/ \E boots \in BOOLEAN : Restart(boots)

-----------------------------------------------------------------------------
(* Unless two changes of one file overlapped: what an operator asked the   *)
(* panel to keep is in the file, whatever is changed beside it and whatever*)
(* the sweep holds the table at, so it survives a reboot; and what the     *)
(* file would put back is what the parameter held before the panel began   *)
(* to keep it, through failures half way, crashes, restarts and reboots.   *)
KeptIsKept == \A k \in scope : asked[k] # None => file[k].value = asked[k]
RevertsToTheirs == \A k \in Kept(file) : \/ file[k].previous = own[k]
                                         \/ scope = Forwarding /\ file[k].previous = None
SettingsAreKept == overlapped \/ (KeptIsKept /\ RevertsToTheirs)

-----------------------------------------------------------------------------
(* Why: while no two changes overlapped one worker is at work at most, so  *)
(* what it is about to write rests on the file and the live values as they *)
(* are: it keeps what is asked for and records what a parameter has now.   *)
Lives == IF scope = Forwarding THEN {Off, On} ELSE Int \ {None, Drop}
Entries == {NoEntry} \cup [value : Lives, previous : Lives \cup {None}]
Wishes == [scope -> Lives \cup {None}]

Keeps(what, entries) == \A k \in scope : what[k] # None => entries[k].value = what[k]
Records(entries) ==
    \A k \in Kept(entries) :
        \/ entries[k].previous = IF file[k].previous # None THEN file[k].previous ELSE kernel[k]
        \/ scope = Forwarding /\ entries[k].previous = None

JobSound(job) ==
    \/ job.at = "idle"
    \/ /\ job.at = "commit" /\ scope = Tuning
       /\ job.wanted \in [scope -> Lives \cup {None, Drop}]
       /\ ~job.byHand => \A k \in scope : /\ job.wanted[k] # Drop
                                          /\ job.wanted[k] # None =>
                                                file[k].value \in {None, job.wanted[k]}
    \/ /\ job.at = "write" /\ job.file \in [scope -> Entries]
       /\ job.asked \in Wishes /\ job.live \in Wishes
       /\ scope = Forwarding => \A k \in scope : job.asked[k] = None
       /\ Keeps(job.asked, job.file) /\ Records(job.file)
    \/ /\ job.at = "live" /\ job = [at |-> "live", order |-> job.order, live |-> job.live]
       /\ job.live \in Wishes
    \/ job.at = "back" /\ job = [at |-> "back", live |-> job.live] /\ job.live \in Wishes

KernelSound ==
    /\ scope \in {Forwarding, Tuning} /\ kernel \in [scope -> Lives] /\ base \in [scope -> Lives]
    /\ file \in [scope -> Entries] /\ asked \in Wishes /\ own \in [scope -> Lives]
    /\ scope = Forwarding => \A k \in scope : asked[k] = None
    /\ KeptIsKept /\ RevertsToTheirs
    /\ work = [w \in Workers |-> work[w]] /\ \A w \in Workers : JobSound(work[w])
    /\ \A v, w \in Workers : work[v].at # "idle" /\ work[w].at # "idle" => v = w
KernelInv == overlapped \in BOOLEAN /\ (~overlapped => KernelSound)
=============================================================================

-------------------------------- MODULE Settings --------------------------------
(***************************************************************************)
(* The settings: the stored overrides, the values in memory every reader   *)
(* uses, and the supervisor that is told of a change and reads them again  *)
(* (settings/store.go, settings/definition.go, monitor/supervisor.go). Two *)
(* keys stand for a pair with a rule between them (degraded loss, down     *)
(* loss); a request validates, commits and applies one step at a time.     *)
(***************************************************************************)
EXTENDS Naturals

CONSTANTS Writers,
          Values, Default,  \* the range of both keys; their defaults, [lo, hi]
          Retired,          \* a value an older release stored, out of today's range
          Unset             \* no row; in a request: the key is not touched

VARIABLES row,      \* per key, the stored override
          cache,    \* the values in memory
          jobs,     \* per request: where it stands, and what each touched key becomes
          signal,   \* the supervisor has been told
          monitor,  \* the values it works with
          bent,     \* two requests met, or a default came back beside the other's override
          crossed   \* two requests met since the start

vars == <<row, cache, jobs, signal, monitor, bent, crossed>>

Keys == {"lo", "hi"}
NoJob == [at |-> "idle", change |-> [k \in Keys |-> Unset], erases |-> FALSE]
Touched(c) == {k \in Keys : c[k] # Unset}
Merged(old, c) == [k \in Keys |-> IF c[k] = Unset THEN old[k] ELSE c[k]]
Effective(r) == [k \in Keys |-> IF r[k] \in Values THEN r[k] ELSE Default[k]]
Ordered(v) == v.lo <= v.hi

Init == /\ row \in {[k \in Keys |-> Unset], [lo |-> Retired, hi |-> Default.hi]}
        /\ cache = Effective(row) /\ jobs = [w \in Writers |-> NoJob]
        /\ signal = FALSE /\ monitor = cache /\ bent = FALSE /\ crossed = FALSE

Coerced(c) == \A k \in Touched(c) : c[k] \in Values

\* Mutant: the rule is checked against the values in force.
ValidInForce(c) == Coerced(c) /\ Ordered(cache)
Validate(c) == Coerced(c) /\ Ordered(Merged(cache, c))

Begin(w, c, erases) ==
    /\ jobs[w].at = "idle" /\ Touched(c) # {}
    /\ jobs' = [jobs EXCEPT ![w] = [at |-> "commits", change |-> c, erases |-> erases]]
    /\ LET meets == \E v \in Writers : jobs[v].at # "idle"
       IN crossed' = (crossed \/ meets) /\ bent' = (bent \/ meets)
    /\ UNCHANGED <<row, cache, signal, monitor>>

Update(w, c) == Validate(c) /\ Begin(w, c, FALSE)

(* The rows are removed; nothing is asked of the values that come back.    *)
Reset(w, keys) == Begin(w, [k \in Keys |-> IF k \in keys THEN Default[k] ELSE Unset], TRUE)

(* One transaction, or none of it.                                         *)
Commit(w) ==
    LET c == jobs[w].change
    IN /\ jobs[w].at = "commits"
       /\ \/ /\ row' = [k \in Keys |-> IF c[k] = Unset THEN row[k]
                                       ELSE IF jobs[w].erases THEN Unset ELSE c[k]]
             /\ jobs' = [jobs EXCEPT ![w].at = "applies"]
             /\ bent' = (bent \/ (jobs[w].erases /\ ~Ordered(Effective(row'))))
          \/ jobs' = [jobs EXCEPT ![w] = NoJob] /\ UNCHANGED <<row, bent>>
       /\ UNCHANGED <<cache, signal, monitor, crossed>>

SameValues(c) == Merged(cache, c) = cache
Apply(w) == /\ jobs[w].at = "applies" /\ cache' = Merged(cache, jobs[w].change)
            /\ jobs' = [jobs EXCEPT ![w] = IF SameValues(@.change) THEN NoJob
                                           ELSE [NoJob EXCEPT !.at = "notifies"]]
            /\ UNCHANGED <<row, signal, monitor, bent, crossed>>

(* The signal has room for one; whoever is told reads what is there then.  *)
Notify(w) == /\ jobs[w].at = "notifies" /\ signal' = TRUE
             /\ jobs' = [jobs EXCEPT ![w] = NoJob]
             /\ UNCHANGED <<row, cache, monitor, bent, crossed>>

ReconcileMonitor == /\ signal /\ signal' = FALSE /\ monitor' = cache
                    /\ UNCHANGED <<row, cache, jobs, bent, crossed>>

(* What no longer satisfies its range comes back as its default.           *)
Restart == /\ jobs' = [w \in Writers |-> NoJob]
           /\ cache' = Effective(row) /\ monitor' = cache' /\ signal' = FALSE
           /\ crossed' = FALSE /\ bent' = (bent \/ ~Ordered(cache')) /\ UNCHANGED row

Next == \/ \E w \in Writers :
             \/ \E c \in [Keys -> Values \cup {Unset}] : Update(w, c)
             \/ \E keys \in SUBSET Keys : Reset(w, keys)
             \/ Commit(w) \/ Apply(w) \/ Notify(w)
        \/ ReconcileMonitor \/ Restart

-----------------------------------------------------------------------------
(* While no two requests met, the values in force are the stored ones, and *)
(* they obey the rule between the two keys; whatever order requests are    *)
(* handled in, the supervisor ends up with the values in force.            *)
SettingsAreInForce ==
    /\ ~crossed /\ (\A w \in Writers : jobs[w].at # "applies") => cache = Effective(row)
    /\ ~bent => Ordered(cache)
    /\ ~signal /\ (\A w \in Writers : jobs[w].at # "notifies") => monitor = cache

-----------------------------------------------------------------------------
(* Why: a request that met no other finds the values as it checked them,   *)
(* and what it stored and still has to apply is what they become.          *)
JobKnown(job) ==
    /\ job \in [at : {"idle", "commits", "applies", "notifies"},
                change : [Keys -> Values \cup {Unset}], erases : BOOLEAN]
    /\ job.at = "commits" /\ job.erases =>
          \A k \in Touched(job.change) : job.change[k] = Default[k]
WillApply(job) == job.at = "applies" => Effective(row) = Merged(cache, job.change)
WillBeOrdered(job) ==
    job.at = "applies" \/ (job.at = "commits" /\ ~job.erases) =>
        Ordered(Merged(cache, job.change))

SettingsInv ==
    /\ cache \in [Keys -> Values] /\ row = [k \in Keys |-> row[k]]
    /\ bent \in BOOLEAN /\ crossed \in BOOLEAN /\ signal \in BOOLEAN
    /\ jobs = [w \in Writers |-> jobs[w]] /\ \A w \in Writers : JobKnown(jobs[w])
    /\ crossed => bent
    /\ ~crossed => /\ \A v, w \in Writers : jobs[v].at # "idle" /\ jobs[w].at # "idle" => v = w
                   /\ \A w \in Writers : WillApply(jobs[w])
    /\ ~bent => \A w \in Writers : WillBeOrdered(jobs[w])
    /\ SettingsAreInForce
=============================================================================

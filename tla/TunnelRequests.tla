--------------------------- MODULE TunnelRequests ---------------------------
(***************************************************************************)
(* Requests to the tunnel service that run at the same time.  A handler    *)
(* reads and validates first, takes the mutation lock second and changes   *)
(* the database and the host third, so everything it knows of the tunnel   *)
(* may be old when it acts on it (src/internal/tunnel/service.go).         *)
(*                                                                         *)
(* The plan a handler carries out under the lock is the subject of         *)
(* TunnelApply; here it is one step that succeeds or is rolled back.  The  *)
(* lock itself is MutationLock.  Each request is issued once.              *)
(***************************************************************************)
EXTENDS MutationLock

CONSTANTS
  Names,   \* interface names, by the tunnel number that renders them
  Addrs,   \* tunnel addresses, by the tunnel number they are allocated for
  Labels,  \* display names, stored and never applied
  Keys,    \* idempotency keys
  Kinds,   \* the operations the requests may ask for
  MaxRows, \* bound: tunnels ever inserted
  None     \* no row, no interface, no key

ASSUME RequestAssumption ==
  /\ Kinds \subseteq {"create", "createAuto", "update", "relabel", "reapply", "delete"}
  /\ MaxRows \in Nat \ {0}
  /\ Names \subseteq Nat /\ Addrs \subseteq Nat
  /\ None \notin Names \cup Addrs \cup Keys
  /\ \A addrs \in SUBSET Addrs : addrs # None

VARIABLES
  rows,   \* the Tunnel table
  kernel, \* per name, the addresses of the interface, None when there is none
  cache,  \* the idempotency cache: the row a key was answered with
  job     \* per request, what it asks for and what it read before the lock

vars == <<lockVars, rows, kernel, cache, job>>

RowIds == 1..MaxRows
NoRow  == [live |-> FALSE, name |-> None, addr |-> None, label |-> None, status |-> "none"]
NoJob  == [kind |-> "none", id |-> 0, key |-> None, seen |-> NoRow, asks |-> NoRow,
           part |-> "new"]

Rows == [live : BOOLEAN, name : Names \cup {None}, addr : Addrs \cup {None},
         label : Labels \cup {None},
         status : {"none", "pending", "applied", "failed"}]
Jobs == [kind : {"none", "create", "update", "relabel", "reapply", "delete"}, id : RowIds \cup {0}, key : Keys \cup {None},
         seen : Rows, asks : Rows, part : {"new", "read", "written", "answered"}]

Live == {i \in RowIds : rows[i].live}

Init ==
  /\ LockInit
  /\ rows = [i \in RowIds |-> NoRow]
  /\ kernel = [n \in Names |-> None]
  /\ cache = [k \in Keys |-> None]
  /\ job = [r \in Requests |-> NoJob]

\* What is left of an answered request: the operation and the row.
Answered(kind, i) == [NoJob EXCEPT !.kind = kind, !.id = i, !.part = "answered"]
Answer(r) == job' = [job EXCEPT ![r] = Answered(job[r].kind, job[r].id)]

\* A handler has read what it needs and found it valid.
Prepare(r, j) ==
  /\ job[r].part = "new" /\ stage[r] = "out"
  /\ job' = [job EXCEPT ![r] = j]
  /\ UNCHANGED <<lockVars, rows, kernel, cache>>

\* Mutant: the handler does not wait for the lock.
QueueBarges(r) ==
  /\ job[r].part = "read" /\ job[r].kind # "relabel" /\ stage[r] = "out"
  /\ stage' = [stage EXCEPT ![r] = "holding"] /\ slots' = 1
  /\ UNCHANGED <<queue, rows, kernel, cache, job>>

\* Some time later it asks for the lock.
Queue(r) ==
  /\ job[r].part = "read" /\ job[r].kind # "relabel"
  /\ Acquire(r) \/ Enqueue(r)
  /\ UNCHANGED <<rows, kernel, cache, job>>

(***************************************************************************)
(* Before the lock.                                                        *)
(***************************************************************************)
\* checkNameConflict and checkAddressConflicts, as seen from row i (0: none).
NameFree(n) == kernel[n] = None /\ \A i \in Live : rows[i].name # n
AddrFree(i, a) ==
  /\ \A j \in Live \ {i} : rows[j].addr # a
  /\ \A n \in Names : kernel[n] # None /\ (i # 0 => n # rows[i].name) => a \notin kernel[n]

\* A request may carry no idempotency key (None).
SubmitCreate(r, n, a, k) ==
  /\ k # None => cache[k] = None
  /\ NameFree(n) /\ AddrFree(0, a)
  /\ Prepare(r, [kind |-> "create", id |-> 0, key |-> k, seen |-> NoRow, part |-> "read",
                 asks |-> [live |-> TRUE, name |-> n, addr |-> a, label |-> None,
                           status |-> "pending"]])

\* The number the panel picks itself: the lowest whose name and subnet are free
\* (nextFreeAllocation).
FreeNumbers == {n \in Names \cap Addrs : NameFree(n) /\ AddrFree(0, n)}
SubmitCreateAuto(r, k) ==
  \E n \in FreeNumbers :
    /\ \A m \in FreeNumbers : n <= m
    /\ SubmitCreate(r, n, n, k)

\* A key that was answered is answered again, and nothing else happens.
SubmitAnswered(r, k) ==
  /\ job[r].part = "new" /\ stage[r] = "out" /\ cache[k] # None
  /\ job' = [job EXCEPT ![r] = Answered("create", cache[k])]
  /\ UNCHANGED <<lockVars, rows, kernel, cache>>

ExistingJob(kind, i, asks) ==
  [kind |-> kind, id |-> i, key |-> None, seen |-> rows[i], asks |-> asks, part |-> "read"]

SubmitUpdate(r, i, a) ==
  /\ i \in Live /\ a # rows[i].addr /\ AddrFree(i, a)
  /\ Prepare(r, ExistingJob("update", i, [rows[i] EXCEPT !.addr = a]))

SubmitReapply(r, i) == i \in Live /\ Prepare(r, ExistingJob("reapply", i, rows[i]))
SubmitDelete(r, i)  == i \in Live /\ Prepare(r, ExistingJob("delete", i, rows[i]))

\* An update that changes nothing the kernel would notice: no lock is taken.
SubmitRelabel(r, i, l) ==
  /\ i \in Live /\ l # rows[i].label
  /\ Prepare(r, ExistingJob("relabel", i, [rows[i] EXCEPT !.label = l]))

(***************************************************************************)
(* The database.                                                           *)
(***************************************************************************)
\* repo.Update rewrites every column the request carries, of a live row only,
\* and leaves the status alone.
RepoUpdate(r) ==
  rows' = [rows EXCEPT ![job[r].id] = [job[r].asks EXCEPT !.status = rows[job[r].id].status]]

StoreRelabel(r) ==
  /\ job[r].kind = "relabel" /\ job[r].part = "read"
  /\ IF job[r].id \in Live THEN RepoUpdate(r) ELSE UNCHANGED rows
  /\ Answer(r)
  /\ UNCHANGED <<lockVars, kernel, cache>>

Holds(r, kind) == stage[r] = "holding" /\ job[r].kind = kind

\* Mutant: the name has no unique index.
InsertTwice(r) ==
  /\ Holds(r, "create") /\ job[r].part = "read"
  /\ \E i \in RowIds :
       /\ rows[i] = NoRow /\ \A j \in 1..(i - 1) : rows[j] # NoRow
       /\ rows' = [rows EXCEPT ![i] = job[r].asks]
       /\ job' = [job EXCEPT ![r].id = i, ![r].part = "written"]
  /\ UNCHANGED <<lockVars, kernel, cache>>

\* Insert: the unique index on the name of live rows is all that is checked again.
Insert(r) ==
  /\ Holds(r, "create") /\ job[r].part = "read"
  /\ \A j \in Live : rows[j].name # job[r].asks.name
  /\ \E i \in RowIds :
       /\ rows[i] = NoRow /\ \A j \in 1..(i - 1) : rows[j] # NoRow
       /\ rows' = [rows EXCEPT ![i] = job[r].asks]
       /\ job' = [job EXCEPT ![r].id = i, ![r].part = "written"]
  /\ UNCHANGED <<lockVars, kernel, cache>>

StoreUpdate(r) ==
  /\ Holds(r, "update") /\ job[r].part = "read" /\ job[r].id \in Live
  /\ RepoUpdate(r)
  /\ job' = [job EXCEPT ![r].part = "written"]
  /\ UNCHANGED <<lockVars, kernel, cache>>

\* The row could not be written: the name is taken, or the tunnel is gone.
StoreRefused(r) ==
  /\ job[r].part = "read"
  /\ \/ Holds(r, "create") /\ \E j \in Live : rows[j].name = job[r].asks.name
     \/ Holds(r, "update") /\ job[r].id \notin Live
  /\ Answer(r)
  /\ Release(r)
  /\ UNCHANGED <<rows, kernel, cache>>

(***************************************************************************)
(* The host.  Every one of these ends the request and releases the lock.   *)
(***************************************************************************)
\* The plan ran and the host was verified: n has exactly the addresses given.
Applied(r, n, addrs) ==
  /\ kernel' = [kernel EXCEPT ![n] = addrs]
  /\ rows' = [rows EXCEPT ![job[r].id].status = "applied"]
  /\ Answer(r) /\ Release(r)

\* The plan failed and was rolled back; only the status is recorded.
RolledBack(r, n, addrs) ==
  /\ kernel' = [kernel EXCEPT ![n] = addrs]
  /\ rows' = [rows EXCEPT ![job[r].id].status = "failed"]
  /\ Answer(r) /\ Release(r)
  /\ UNCHANGED cache

ApplyCreate(r) ==
  /\ Holds(r, "create") /\ job[r].part = "written"
  /\ Applied(r, job[r].asks.name, {job[r].asks.addr})
  /\ cache' = [cache EXCEPT ![job[r].key] = job[r].id]

FailCreate(r) ==
  /\ Holds(r, "create") /\ job[r].part = "written"
  /\ RolledBack(r, job[r].asks.name, None)

\* Mutant: the steps after the first one are tolerated.
ApplyUpdateTolerant(r) ==
  LET name == job[r].seen.name
  IN /\ Holds(r, "update") /\ job[r].part = "written"
     /\ Applied(r, name, IF kernel[name] = None THEN {} ELSE kernel[name] \ {job[r].seen.addr})
     /\ UNCHANGED cache

\* The plan was computed from the record read before the lock: it removes the
\* address that record had, tolerating that it is gone, and adds the new one.
ApplyUpdate(r) ==
  LET name == job[r].seen.name
  IN /\ Holds(r, "update") /\ job[r].part = "written"
     /\ kernel[name] # None
     /\ job[r].asks.addr \notin kernel[name] \ {job[r].seen.addr}
     /\ Applied(r, name, (kernel[name] \ {job[r].seen.addr}) \cup {job[r].asks.addr})
     /\ UNCHANGED cache

FailUpdate(r) ==
  /\ Holds(r, "update") /\ job[r].part = "written"
  /\ RolledBack(r, job[r].seen.name, kernel[job[r].seen.name])

\* SetApplyStatus does not look at IsDeleted, so a deleted row is updated too.
ApplyReapply(r) ==
  /\ Holds(r, "reapply") /\ job[r].part = "read"
  /\ Applied(r, job[r].seen.name, {job[r].seen.addr})
  /\ UNCHANGED cache

FailReapply(r) ==
  /\ Holds(r, "reapply") /\ job[r].part = "read"
  /\ RolledBack(r, job[r].seen.name, None)

\* Delete works on the interface name it read and on the row's identifier.
ApplyDelete(r) ==
  /\ Holds(r, "delete") /\ job[r].part = "read"
  /\ kernel' = [kernel EXCEPT ![job[r].seen.name] = None]
  /\ rows' = [rows EXCEPT ![job[r].id].live = FALSE]
  /\ Answer(r) /\ Release(r)
  /\ UNCHANGED cache

\* The client goes away while its request waits for the lock.
GiveUp(r) ==
  /\ Abandon(r) /\ Answer(r)
  /\ UNCHANGED <<rows, kernel, cache>>

Submit(r) ==
  \/ \E k \in Keys : SubmitAnswered(r, k)
  \/ \E k \in Keys \cup {None} :
       \/ "create" \in Kinds /\ \E n \in Names, a \in Addrs : SubmitCreate(r, n, a, k)
       \/ "createAuto" \in Kinds /\ SubmitCreateAuto(r, k)
  \/ \E i \in RowIds :
       \/ "update" \in Kinds /\ \E a \in Addrs : SubmitUpdate(r, i, a)
       \/ "relabel" \in Kinds /\ \E l \in Labels : SubmitRelabel(r, i, l)
       \/ "reapply" \in Kinds /\ SubmitReapply(r, i)
       \/ "delete" \in Kinds /\ SubmitDelete(r, i)

Work(r) ==
  \/ Queue(r) \/ StoreRelabel(r) \/ Insert(r) \/ StoreUpdate(r) \/ StoreRefused(r)
  \/ ApplyCreate(r) \/ FailCreate(r) \/ ApplyUpdate(r) \/ FailUpdate(r)
  \/ ApplyReapply(r) \/ FailReapply(r) \/ ApplyDelete(r)

Next == \E r \in Requests : Submit(r) \/ Work(r) \/ GiveUp(r)

Spec == Init /\ [][Next]_vars

\* A handler that runs keeps running: net/http has a goroutine for each request.
FairSpec == Spec /\ \A r \in Requests : WF_vars(Work(r))

(***************************************************************************)
(* Properties.                                                             *)
(***************************************************************************)
\* The job of every request, the table and the host keep their types.
TypeOK ==
  /\ LockTypeOK
  /\ rows \in [RowIds -> Rows]
  /\ kernel \in [Names -> SUBSET Addrs \cup {None}]
  /\ cache \in [Keys -> RowIds \cup {None}]
  /\ job \in [Requests -> Jobs]

\* Nothing is being applied.
Quiet == \A r \in Requests : stage[r] # "holding"

\* The requests do not write back a whole record they read before the lock - a
\* reapply onto the host, a relabel into the table - and no two of them delete the
\* same tunnel: the second may find its interface name in use again.
NoneActsOnOldRows ==
  /\ \A r \in Requests : job[r].kind \notin {"reapply", "relabel"}
  /\ \A r, s \in Requests : r # s /\ job[r].kind = "delete" /\ job[s].kind = "delete" =>
                              job[r].id # job[s].id

\* Two live tunnels never share an interface name, though the name was checked
\* before the lock (UX_Tunnel_InterfaceName).
LiveNamesUnique == \A i, j \in Live : rows[i].name = rows[j].name => i = j

\* Whenever nobody holds the lock, what a row calls applied is on the host and
\* every interface of the host has a row, unless requests act on old rows.
HostFollowsTable ==
  Quiet /\ NoneActsOnOldRows =>
    /\ \A i \in Live : rows[i].status = "applied" =>
         kernel[rows[i].name] # None /\ rows[i].addr \in kernel[rows[i].name]
    /\ \A n \in Names : kernel[n] # None => \E i \in Live : rows[i].name = n

\* Whatever the handlers do around it, they use the lock as MutationLock says:
\* the requests implement the lock specification.
UsesMutationLock == LockSpec

\* Every request that got as far as asking for the lock is answered.
EveryRequestAnswered ==
  \A r \in Requests : job[r].part = "read" ~> job[r].part = "answered"
=============================================================================

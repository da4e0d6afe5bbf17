----------------------- MODULE TunnelRequests_proofs -----------------------
(***************************************************************************)
(* Theorems about concurrent requests, for any number of them.  That the   *)
(* requests use the lock as MutationLock says is a step simulation.  That  *)
(* interface names stay unique is not inductive by itself: an update that  *)
(* waits for the lock writes the name it read before, so the proof needs   *)
(* that this is still the name of its row (JobsKnowTheirRow), which holds  *)
(* because a row, once inserted, is never renamed nor inserted again.      *)
(***************************************************************************)
EXTENDS TunnelRequests, MutationLock_proofs, TLAPS

LEMMA StepUsesLock == [Next]_vars => [LockNext]_lockVars
<1> SUFFICES ASSUME Next PROVE [LockNext]_lockVars
  BY DEF vars
<1>1. PICK r \in Requests : Submit(r) \/ Work(r) \/ GiveUp(r)
  BY DEF Next
<1>2. ASSUME NEW j, Prepare(r, j) PROVE UNCHANGED lockVars
  BY <1>2 DEF Prepare
<1>3. CASE Submit(r)
  <2>1. ASSUME NEW k \in Keys, SubmitAnswered(r, k) PROVE UNCHANGED lockVars
    BY <2>1 DEF SubmitAnswered
  <2>2. ASSUME NEW n, NEW a, NEW k, SubmitCreate(r, n, a, k) PROVE UNCHANGED lockVars
    BY <1>2, <2>2 DEF SubmitCreate
  <2>3. ASSUME NEW i, NEW l, SubmitRelabel(r, i, l) PROVE UNCHANGED lockVars
    BY <1>2, <2>3 DEF SubmitRelabel
  <2>4. ASSUME NEW i, NEW a, SubmitUpdate(r, i, a) PROVE UNCHANGED lockVars
    BY <1>2, <2>4 DEF SubmitUpdate
  <2>5. ASSUME NEW i, SubmitReapply(r, i) \/ SubmitDelete(r, i) PROVE UNCHANGED lockVars
    BY <1>2, <2>5 DEF SubmitReapply, SubmitDelete
  <2> QED
    BY <1>3, <2>1, <2>2, <2>3, <2>4, <2>5 DEF Submit, SubmitCreateAuto
<1>4. CASE Work(r)
  <2>1. CASE StoreRelabel(r) \/ Insert(r) \/ StoreUpdate(r)
    BY <2>1 DEF StoreRelabel, Insert, StoreUpdate
  <2>2. CASE StoreRefused(r) \/ Queue(r)
    BY <2>2 DEF StoreRefused, Queue, LockNext
  <2>3. CASE ApplyCreate(r) \/ ApplyUpdate(r) \/ ApplyReapply(r) \/ ApplyDelete(r)
    BY <2>3 DEF ApplyCreate, ApplyUpdate, ApplyReapply, ApplyDelete, Applied, LockNext
  <2>4. CASE FailCreate(r) \/ FailUpdate(r) \/ FailReapply(r)
    BY <2>4 DEF FailCreate, FailUpdate, FailReapply, RolledBack, LockNext
  <2> QED
    BY <1>4, <2>1, <2>2, <2>3, <2>4 DEF Work
<1>5. CASE GiveUp(r)
  BY <1>5 DEF GiveUp, LockNext
<1> QED
  BY <1>1, <1>3, <1>4, <1>5

\* Whatever the handlers do around it, for any set of requests, they use the lock
\* as its specification says.
THEOREM RequestsImplementLock == Spec => UsesMutationLock
<1>1. Init => LockInit
  BY DEF Init
<1>2. [Next]_vars => [LockNext]_lockVars
  BY StepUsesLock
<1> QED
  BY <1>1, <1>2, PTL DEF Spec, UsesMutationLock, LockSpec

(***************************************************************************)
(* Interface names.                                                        *)
(***************************************************************************)
\* Just enough typing: a table of rows, a job for each request, the cache.
TablesTyped ==
  /\ rows \in [RowIds -> Rows]
  /\ job \in [Requests -> Jobs]
  /\ cache \in [Keys -> RowIds \cup {0, None}]

Inserted(i) == rows[i].status # "none"

LiveRowsInserted == \A i \in RowIds : rows[i].live => Inserted(i)

\* A job that changes a row without the lock or after waiting for it carries the
\* name that row still has.
JobsKnowTheirRow ==
  \A r \in Requests :
    /\ job[r].kind \in {"update", "relabel"} /\ job[r].part = "read" =>
         /\ job[r].id \in RowIds /\ Inserted(job[r].id)
         /\ job[r].asks.name = rows[job[r].id].name
    /\ job[r].kind = "create" /\ job[r].part = "read" => job[r].asks.status = "pending"

NamesInv == TablesTyped /\ LiveRowsInserted /\ JobsKnowTheirRow /\ LiveNamesUnique

\* What every step that is neither an insertion nor a new job does to the tables:
\* no row is renamed or forgotten, none comes to life, and jobs only get on.
OnlyAdvances ==
  /\ rows' \in [RowIds -> Rows]
  /\ \A i \in RowIds :
       /\ rows'[i].name = rows[i].name
       /\ rows'[i].live => rows[i].live
       /\ Inserted(i) => rows'[i].status # "none"
  /\ job' \in [Requests -> Jobs]
  /\ cache' \in [Keys -> RowIds \cup {0, None}]
  /\ \A r \in Requests : job'[r] = job[r] \/ job'[r].part \in {"written", "answered"}

LEMMA AdvanceKeepsNames == NamesInv /\ OnlyAdvances => NamesInv'
<1> SUFFICES ASSUME NamesInv, OnlyAdvances PROVE NamesInv'
  OBVIOUS
<1>1. TablesTyped'
  BY DEF OnlyAdvances, TablesTyped
<1>2. LiveRowsInserted'
  BY DEF OnlyAdvances, NamesInv, LiveRowsInserted, Inserted, RowIds
<1>3. JobsKnowTheirRow'
  BY DEF OnlyAdvances, NamesInv, JobsKnowTheirRow, Inserted, RowIds
<1>4. LiveNamesUnique'
  BY DEF OnlyAdvances, NamesInv, LiveNamesUnique, Live, RowIds
<1> QED
  BY <1>1, <1>2, <1>3, <1>4 DEF NamesInv

\* A new job, for rows that stay as they are.
LEMMA NewJobKeepsNames ==
  ASSUME NamesInv, NEW r \in Requests, NEW j \in Jobs,
         job' = [job EXCEPT ![r] = j], rows' = rows, cache' = cache,
         j.kind \in {"update", "relabel"} /\ j.part = "read" =>
           /\ j.id \in RowIds /\ Inserted(j.id) /\ j.asks.name = rows[j.id].name,
         j.kind = "create" /\ j.part = "read" => j.asks.status = "pending"
  PROVE  NamesInv'
<1>1. TablesTyped'
  BY DEF NamesInv, TablesTyped
<1>2. LiveRowsInserted' /\ LiveNamesUnique'
  BY DEF NamesInv, LiveRowsInserted, LiveNamesUnique, Live, Inserted, RowIds
<1>3. JobsKnowTheirRow'
  BY DEF NamesInv, TablesTyped, JobsKnowTheirRow, Inserted, RowIds
<1> QED
  BY <1>1, <1>2, <1>3 DEF NamesInv

\* Requests that read what they need and ask for the lock, or are answered at once.
LEMMA SubmitKeepsNames ==
  ASSUME NamesInv, NEW r \in Requests, Submit(r)
  PROVE  NamesInv'
<1>1. NoRow \in Rows
  BY DEF NoRow, Rows
<1>2. ASSUME NEW k \in Keys, SubmitAnswered(r, k) PROVE NamesInv'
  <2> DEFINE j == Answered("create", cache[k])
  <2>1. cache[k] \in RowIds \cup {0}
    BY <1>2 DEF SubmitAnswered, NamesInv, TablesTyped
  <2>2. j \in Jobs /\ j.part = "answered"
    BY <1>1, <2>1 DEF NoJob, Jobs, Answered
  <2>3. job' = [job EXCEPT ![r] = j] /\ rows' = rows /\ cache' = cache
    BY <1>2 DEF SubmitAnswered
  <2> HIDE DEF j
  <2> QED
    BY <2>2, <2>3, NewJobKeepsNames
<1>3. ASSUME NEW n \in Names, NEW a \in Addrs, NEW k \in Keys \cup {None}, SubmitCreate(r, n, a, k)
      PROVE  NamesInv'
  <2> DEFINE asks == [live |-> TRUE, name |-> n, addr |-> a, label |-> None,
                      status |-> "pending"]
             j == [kind |-> "create", id |-> 0, key |-> k, seen |-> NoRow, part |-> "read",
                   asks |-> asks]
  <2>1. asks \in Rows /\ asks.status = "pending"
    BY DEF Rows
  <2> HIDE DEF asks
  <2>2. j \in Jobs /\ j.kind = "create" /\ j.asks = asks
    BY <1>1, <2>1 DEF Jobs
  <2>3. job' = [job EXCEPT ![r] = j] /\ rows' = rows /\ cache' = cache
    BY <1>3 DEF SubmitCreate, Prepare, asks
  <2> HIDE DEF j
  <2> QED
    BY <2>1, <2>2, <2>3, NewJobKeepsNames
<1>4. ASSUME NEW kind \in {"update", "relabel", "reapply", "delete"}, NEW i \in Live,
             NEW asks \in Rows, asks.name = rows[i].name,
             job' = [job EXCEPT ![r] = ExistingJob(kind, i, asks)],
             rows' = rows, cache' = cache
      PROVE  NamesInv'
  <2>1. i \in RowIds /\ rows[i] \in Rows /\ Inserted(i)
    BY DEF Live, NamesInv, TablesTyped, LiveRowsInserted
  <2> DEFINE j == ExistingJob(kind, i, asks)
  <2>2. /\ j \in Jobs /\ j.kind = kind /\ j.id = i /\ j.asks = asks
    BY <2>1 DEF ExistingJob, Jobs
  <2>3. job' = [job EXCEPT ![r] = j]
    BY <1>4
  <2> HIDE DEF j
  <2> QED
    BY <1>4, <2>1, <2>2, <2>3, NewJobKeepsNames
<1>5. ASSUME NEW i \in RowIds, NEW a \in Addrs, SubmitUpdate(r, i, a) PROVE NamesInv'
  <2>1. i \in Live /\ rows[i] \in Rows
    BY <1>5 DEF SubmitUpdate, NamesInv, TablesTyped
  <2>2. [rows[i] EXCEPT !.addr = a] \in Rows /\ [rows[i] EXCEPT !.addr = a].name = rows[i].name
    BY <2>1 DEF Rows
  <2> QED
    BY <1>4, <1>5, <2>1, <2>2 DEF SubmitUpdate, Prepare
<1>6. ASSUME NEW i \in RowIds, NEW l \in Labels, SubmitRelabel(r, i, l) PROVE NamesInv'
  <2>1. i \in Live /\ rows[i] \in Rows
    BY <1>6 DEF SubmitRelabel, NamesInv, TablesTyped
  <2>2. [rows[i] EXCEPT !.label = l] \in Rows
        /\ [rows[i] EXCEPT !.label = l].name = rows[i].name
    BY <2>1 DEF Rows
  <2> QED
    BY <1>4, <1>6, <2>1, <2>2 DEF SubmitRelabel, Prepare
<1>7. ASSUME NEW i \in RowIds, SubmitReapply(r, i) \/ SubmitDelete(r, i) PROVE NamesInv'
  <2>1. i \in Live /\ rows[i] \in Rows
    BY <1>7 DEF SubmitReapply, SubmitDelete, NamesInv, TablesTyped
  <2> QED
    BY <1>4, <1>7, <2>1 DEF SubmitReapply, SubmitDelete, Prepare
<1>8. FreeNumbers \subseteq Names \cap Addrs
  BY DEF FreeNumbers
<1> QED
  BY <1>2, <1>3, <1>5, <1>6, <1>7, <1>8 DEF Submit, SubmitCreateAuto

\* The insertion: the row it writes was empty, and its name is no live row's.
LEMMA InsertKeepsNames ==
  ASSUME NamesInv, NEW r \in Requests, Insert(r)
  PROVE  NamesInv'
<1>1. PICK i \in RowIds :
        /\ rows[i] = NoRow
        /\ rows' = [rows EXCEPT ![i] = job[r].asks]
        /\ job' = [job EXCEPT ![r].id = i, ![r].part = "written"]
  BY DEF Insert
<1>2. /\ job[r] \in Jobs /\ job[r].asks \in Rows /\ job[r].asks.status = "pending"
      /\ \A k \in Live : rows[k].name # job[r].asks.name
  BY DEF Insert, Holds, NamesInv, TablesTyped, JobsKnowTheirRow, Jobs
<1>3. ~Inserted(i)
  BY <1>1 DEF Inserted, NoRow
<1>4. TablesTyped'
  <2>1. [job[r] EXCEPT !.id = i, !.part = "written"] \in Jobs
    BY <1>2 DEF Jobs
  <2>2. job' \in [Requests -> Jobs]
    BY <1>1, <2>1 DEF NamesInv, TablesTyped
  <2>3. rows' \in [RowIds -> Rows] /\ cache' = cache
    BY <1>1, <1>2 DEF NamesInv, TablesTyped, Insert
  <2> QED
    BY <2>2, <2>3 DEF NamesInv, TablesTyped, RowIds
<1>5. LiveRowsInserted'
  BY <1>1, <1>2 DEF NamesInv, TablesTyped, LiveRowsInserted, Inserted, RowIds
<1>6. JobsKnowTheirRow'
  <2> SUFFICES ASSUME NEW s \in Requests PROVE
        /\ job'[s].kind \in {"update", "relabel"} /\ job'[s].part = "read" =>
             /\ job'[s].id \in RowIds /\ rows'[job'[s].id].status # "none"
             /\ job'[s].asks.name = rows'[job'[s].id].name
        /\ job'[s].kind = "create" /\ job'[s].part = "read" => job'[s].asks.status = "pending"
    BY DEF JobsKnowTheirRow, Inserted, RowIds
  <2>1. CASE s = r
    BY <1>1, <1>2, <2>1 DEF NamesInv, TablesTyped, Jobs
  <2>2. CASE s # r
    <3>1. job'[s] = job[s]
      BY <1>1, <2>2 DEF NamesInv, TablesTyped
    <3>2. \A k \in RowIds : Inserted(k) => rows'[k] = rows[k]
      BY <1>1, <1>3 DEF NamesInv, TablesTyped
    <3> QED
      BY <3>1, <3>2 DEF NamesInv, JobsKnowTheirRow, Inserted
  <2> QED
    BY <2>1, <2>2
<1>7. LiveNamesUnique'
  <2>1. \A k \in RowIds : rows'[k] = IF k = i THEN job[r].asks ELSE rows[k]
    BY <1>1 DEF NamesInv, TablesTyped
  <2> QED
    BY <1>2, <2>1 DEF NamesInv, LiveNamesUnique, Live, RowIds
<1> QED
  BY <1>4, <1>5, <1>6, <1>7 DEF NamesInv

\* An answer, or the next part, of a job leaves the other jobs alone.
LEMMA JobsAdvance ==
  ASSUME NamesInv, NEW r \in Requests, job' = [job EXCEPT ![r].part = "written"] \/ Answer(r)
  PROVE  /\ job' \in [Requests -> Jobs]
         /\ \A s \in Requests : job'[s] = job[s] \/ job'[s].part \in {"written", "answered"}
<1>1. job[r] \in Jobs /\ job[r].kind \in {"none", "create", "update", "relabel", "reapply", "delete"}
      /\ job[r].id \in RowIds \cup {0}
  BY DEF NamesInv, TablesTyped, Jobs
<1>2. [job[r] EXCEPT !.part = "written"] \in Jobs
      /\ [job[r] EXCEPT !.part = "written"].part = "written"
  BY <1>1 DEF Jobs
<1>3. Answered(job[r].kind, job[r].id) \in Jobs /\ Answered(job[r].kind, job[r].id).part = "answered"
  <2>1. NoRow \in Rows
    BY DEF NoRow, Rows
  <2> QED
    BY <1>1, <2>1 DEF Answered, NoJob, Jobs
<1> QED
  BY <1>2, <1>3 DEF NamesInv, TablesTyped, Answer

LEMMA RowsStay ==
  ASSUME NamesInv, rows' = rows
  PROVE  /\ rows' \in [RowIds -> Rows]
         /\ \A i \in RowIds : /\ rows'[i].name = rows[i].name
                              /\ rows'[i].live => rows[i].live
                              /\ Inserted(i) => rows'[i].status # "none"
BY DEF NamesInv, TablesTyped, Inserted

\* Writing a status or clearing a row's life renames nothing.
LEMMA StatusOnly ==
  ASSUME NamesInv, NEW k, NEW t \in {"applied", "failed"},
         rows' = [rows EXCEPT ![k].status = t] \/ rows' = [rows EXCEPT ![k].live = FALSE]
  PROVE  /\ rows' \in [RowIds -> Rows]
         /\ \A i \in RowIds : /\ rows'[i].name = rows[i].name
                              /\ rows'[i].live => rows[i].live
                              /\ Inserted(i) => rows'[i].status # "none"
<1>1. \A i \in RowIds : rows[i] \in Rows
  BY DEF NamesInv, TablesTyped
<1>2. \A x \in Rows : /\ [x EXCEPT !.status = t] \in Rows
                     /\ [x EXCEPT !.status = t].name = x.name
                     /\ [x EXCEPT !.status = t].live = x.live
                     /\ [x EXCEPT !.status = t].status # "none"
  BY DEF Rows
<1>3. \A x \in Rows : /\ [x EXCEPT !.live = FALSE] \in Rows
                     /\ [x EXCEPT !.live = FALSE].name = x.name
                     /\ [x EXCEPT !.live = FALSE].live = FALSE
                     /\ [x EXCEPT !.live = FALSE].status = x.status
  BY DEF Rows
<1>4. DOMAIN rows = RowIds /\ rows \in [RowIds -> Rows]
  BY DEF NamesInv, TablesTyped
<1>5. CASE rows' = [rows EXCEPT ![k].status = t]
  <2>1. /\ rows' \in [RowIds -> Rows]
        /\ \A i \in RowIds : rows'[i] = IF i = k THEN [rows[i] EXCEPT !.status = t] ELSE rows[i]
    BY <1>1, <1>2, <1>4, <1>5
  <2> QED
    BY <1>1, <1>2, <2>1 DEF Inserted
<1>6. CASE rows' = [rows EXCEPT ![k].live = FALSE]
  <2>1. /\ rows' \in [RowIds -> Rows]
        /\ \A i \in RowIds : rows'[i] = IF i = k THEN [rows[i] EXCEPT !.live = FALSE] ELSE rows[i]
    BY <1>1, <1>3, <1>4, <1>6
  <2>2. ASSUME NEW i \in RowIds
        PROVE  /\ rows'[i].name = rows[i].name /\ rows'[i].status = rows[i].status
               /\ rows'[i].live => rows[i].live
    <3>1. CASE i = k
      BY <1>1, <1>3, <2>1, <3>1
    <3>2. CASE i # k
      BY <2>1, <3>2
    <3> QED
      BY <3>1, <3>2
  <2> QED
    BY <2>1, <2>2 DEF Inserted
<1> QED
  BY <1>5, <1>6

LEMMA UpdateKeepsNames ==
  ASSUME NamesInv, NEW r \in Requests, job[r].kind \in {"update", "relabel"},
         job[r].part = "read", job[r].id \in Live, RepoUpdate(r)
  PROVE  /\ rows' \in [RowIds -> Rows]
         /\ \A i \in RowIds : /\ rows'[i].name = rows[i].name
                              /\ rows'[i].live => rows[i].live
                              /\ Inserted(i) => rows'[i].status # "none"
<1> DEFINE id == job[r].id
           new == [job[r].asks EXCEPT !.status = rows[id].status]
<1>1. /\ id \in RowIds /\ rows[id] \in Rows /\ job[r].asks \in Rows
      /\ job[r].asks.name = rows[id].name /\ rows[id].live
  BY DEF NamesInv, TablesTyped, JobsKnowTheirRow, Live, Jobs
<1>2. new \in Rows /\ new.name = rows[id].name /\ new.status = rows[id].status
  BY <1>1 DEF Rows
<1>3. rows' = [rows EXCEPT ![id] = new]
  BY DEF RepoUpdate
<1> HIDE DEF id, new
<1> QED
  BY <1>1, <1>2, <1>3 DEF NamesInv, TablesTyped, Inserted

LEMMA WorkKeepsNames ==
  ASSUME NamesInv, NEW r \in Requests, Work(r) \/ GiveUp(r)
  PROVE  NamesInv'
<1>1. cache \in [Keys -> RowIds \cup {0, None}]
  BY DEF NamesInv, TablesTyped
<1>2. CASE Insert(r)
  BY <1>2, InsertKeepsNames
<1>3. CASE StoreRelabel(r)
  BY <1>1, <1>3, UpdateKeepsNames, RowsStay, JobsAdvance, AdvanceKeepsNames
     DEF StoreRelabel, OnlyAdvances
<1>4. CASE StoreUpdate(r)
  BY <1>1, <1>4, UpdateKeepsNames, JobsAdvance, AdvanceKeepsNames
     DEF StoreUpdate, Holds, OnlyAdvances
<1>5. CASE StoreRefused(r) \/ GiveUp(r)
  BY <1>1, <1>5, RowsStay, JobsAdvance, AdvanceKeepsNames
     DEF StoreRefused, GiveUp, OnlyAdvances
<1>6. CASE ApplyCreate(r)
  <2>1. cache' \in [Keys -> RowIds \cup {0, None}]
    BY <1>1, <1>6 DEF ApplyCreate, NamesInv, TablesTyped, Jobs
  <2> QED
    BY <1>6, <2>1, StatusOnly, JobsAdvance, AdvanceKeepsNames
       DEF ApplyCreate, Applied, OnlyAdvances
<1>7. CASE ApplyUpdate(r) \/ ApplyReapply(r)
  BY <1>1, <1>7, StatusOnly, JobsAdvance, AdvanceKeepsNames
     DEF ApplyUpdate, ApplyReapply, Applied, OnlyAdvances
<1>8. CASE FailCreate(r) \/ FailUpdate(r) \/ FailReapply(r)
  BY <1>1, <1>8, StatusOnly, JobsAdvance, AdvanceKeepsNames
     DEF FailCreate, FailUpdate, FailReapply, RolledBack, OnlyAdvances
<1>9. CASE ApplyDelete(r)
  BY <1>1, <1>9, StatusOnly, JobsAdvance, AdvanceKeepsNames
     DEF ApplyDelete, OnlyAdvances
<1>10. CASE Queue(r)
  BY <1>1, <1>10, RowsStay, AdvanceKeepsNames DEF Queue, OnlyAdvances, NamesInv, TablesTyped
<1> QED
  BY <1>2, <1>3, <1>4, <1>5, <1>6, <1>7, <1>8, <1>9, <1>10 DEF Work

LEMMA NamesInit == Init => NamesInv
<1> SUFFICES ASSUME Init PROVE NamesInv
  OBVIOUS
<1>1. NoRow \in Rows /\ NoRow.live = FALSE
  BY DEF NoRow, Rows
<1>2. NoJob \in Jobs /\ NoJob.part = "new"
  BY <1>1 DEF NoJob, Jobs
<1> QED
  BY <1>1, <1>2 DEF Init, NamesInv, TablesTyped, LiveRowsInserted, JobsKnowTheirRow,
                    LiveNamesUnique, Live

LEMMA NamesStep == NamesInv /\ [Next]_vars => NamesInv'
<1> SUFFICES ASSUME NamesInv, [Next]_vars PROVE NamesInv'
  OBVIOUS
<1>1. CASE UNCHANGED vars
  BY <1>1 DEF vars, NamesInv, TablesTyped, LiveRowsInserted, JobsKnowTheirRow,
              LiveNamesUnique, Live, Inserted, RowIds
<1>2. CASE Next
  BY <1>2, SubmitKeepsNames, WorkKeepsNames DEF Next
<1> QED
  BY <1>1, <1>2

\* However many requests read, wait and write at the same time, two live tunnels
\* never share an interface name.
THEOREM InterfaceNamesUnique == Spec => []LiveNamesUnique
<1>1. NamesInv => LiveNamesUnique
  BY DEF NamesInv
<1> QED
  BY <1>1, NamesInit, NamesStep, PTL DEF Spec

(***************************************************************************)
(* The host follows the table.  What a request read before the lock is old *)
(* when it acts, but the name of its row never changes, and only one       *)
(* request at a time writes rows or the host (Sound).  Then, unless        *)
(* requests act on old rows, the row of a delete is still there when it    *)
(* runs, and the only row that may be ahead of the host is the one being   *)
(* written (Follows).                                                      *)
(***************************************************************************)
\* A job still to be carried out asks for a live record with a name and an address;
\* a row once read keeps its name.
JobSound(j, row) ==
  /\ j.part = "new" => j.kind = "none"
  /\ j.part \in {"read", "written"} =>
       /\ j.kind # "none"
       /\ j.asks.live /\ j.asks.name \in Names /\ j.asks.addr \in Addrs
       /\ j.kind = "create" => j.asks.status = "pending"
       /\ j.kind # "create" => /\ j.id \in RowIds
                               /\ j.seen.name = j.asks.name /\ j.seen.addr \in Addrs
                               /\ row[j.id].status # "none" /\ row[j.id].name = j.asks.name
\* The row a request has written stays its own while it holds the lock.
Writing(j, row, place) ==
  j.part = "written" =>
    /\ place = "holding" /\ j.kind \in {"create", "update"} /\ j.id \in RowIds
    /\ row[j.id].live /\ row[j.id].name = j.asks.name /\ row[j.id].status # "none"

Sound ==
  /\ kernel \in [Names -> (SUBSET Addrs) \cup {None}]
  /\ \A i \in RowIds : Inserted(i) => rows[i].name \in Names /\ rows[i].addr \in Addrs
  /\ \A r \in Requests : JobSound(job[r], rows) /\ Writing(job[r], rows, stage[r])

Ahead(i) == \E r \in Requests : job[r].part = "written" /\ job[r].id = i
\* What the row says is on the host.
OnHost(row, host) == host[row.name] # None /\ row.addr \in host[row.name]

Follows ==
  /\ \A r \in Requests : job[r].part = "read" /\ job[r].kind = "delete" => rows[job[r].id].live
  /\ \A r \in Requests : job[r].part = "written" => rows[job[r].id].addr = job[r].asks.addr
  /\ \A i \in RowIds : rows[i].live /\ rows[i].status = "applied" /\ ~Ahead(i) => OnHost(rows[i], kernel)
  /\ \A n \in Names : kernel[n] # None => \E i \in RowIds : rows[i].live /\ rows[i].name = n

HostInv == NamesInv /\ Sound /\ (NoneActsOnOldRows => Follows)

LEMMA HostInvImplies == HostInv => HostFollowsTable
<1> SUFFICES ASSUME HostInv, Quiet, NoneActsOnOldRows
             PROVE  /\ \A i \in Live : rows[i].status = "applied" =>
                         kernel[rows[i].name] # None /\ rows[i].addr \in kernel[rows[i].name]
                    /\ \A n \in Names : kernel[n] # None => \E i \in Live : rows[i].name = n
  BY DEF HostFollowsTable
<1>1. \A i \in RowIds : ~Ahead(i)
  BY DEF Ahead, HostInv, Sound, Writing, Quiet
<1> QED
  BY <1>1 DEF HostInv, Follows, OnHost, Live
LockStep(r) == UNCHANGED lockVars \/ Acquire(r) \/ Enqueue(r) \/ Abandon(r) \/ Release(r)

\* Nobody else loses the lock by a step of r.
LEMMA OthersHold ==
  ASSUME LockInv, NEW r \in Requests, LockStep(r)
  PROVE  \A s \in Requests : s # r /\ stage[s] = "holding" => stage'[s] = "holding"
<1>1. stage \in [Requests -> {"out", "queued", "holding"}]
  BY DEF LockInv, LockTypeOK
<1>2. CASE UNCHANGED lockVars
  BY <1>2 DEF lockVars
<1>3. CASE Acquire(r) \/ Enqueue(r) \/ Abandon(r)
  BY <1>1, <1>3 DEF Acquire, Enqueue, Abandon
<1>4. CASE Release(r)
  BY <1>1, <1>4 DEF Release, LockInv, MutualExclusion
<1> QED
  BY <1>2, <1>3, <1>4 DEF LockStep

LEMMA OnlyHolderWrites ==
  ASSUME HostInv, LockInv, NEW r \in Requests, stage[r] = "holding"
  PROVE  \A s \in Requests : job[s].part = "written" => s = r
BY DEF HostInv, Sound, Writing, LockInv, MutualExclusion

\* What a step of r does that keeps the tables sound.
LEMMA SoundStep ==
  ASSUME HostInv, LockInv, NEW r \in Requests, LockStep(r),
         kernel' \in [Names -> (SUBSET Addrs) \cup {None}],
         \A s \in Requests : s # r => job'[s] = job[s],
         \A i \in RowIds : Inserted(i) => rows'[i].status # "none" /\ rows'[i].name = rows[i].name,
         \A i \in RowIds : rows'[i].status # "none" => rows'[i].name \in Names /\ rows'[i].addr \in Addrs,
         stage[r] = "holding" \/ \A i \in RowIds : rows'[i].live = rows[i].live,
         JobSound(job'[r], rows'), Writing(job'[r], rows', stage'[r])
  PROVE  Sound'
<1>1. ASSUME NEW s \in Requests PROVE JobSound(job'[s], rows') /\ Writing(job'[s], rows', stage'[s])
  <2>1. CASE s = r
    BY <2>1
  <2>2. CASE s # r
    <3>1. job'[s] = job[s] /\ JobSound(job[s], rows) /\ Writing(job[s], rows, stage[s])
      BY <2>2 DEF HostInv, Sound
    <3>2. JobSound(job[s], rows')
      BY <3>1 DEF JobSound, Inserted
    <3>3. Writing(job[s], rows', stage'[s])
      <4>1. SUFFICES ASSUME job[s].part = "written" PROVE Writing(job[s], rows', stage'[s])
        BY DEF Writing
      <4>2. stage[r] # "holding" /\ stage'[s] = "holding"
        BY <2>2, <3>1, <4>1, OthersHold, OnlyHolderWrites DEF Writing
      <4> QED
        BY <3>1, <4>1, <4>2 DEF Writing, Inserted
    <3> QED
      BY <3>1, <3>2, <3>3
  <2> QED
    BY <2>1, <2>2
<1> QED
  BY <1>1 DEF Sound, Inserted, RowIds

\* The exclusion of requests that act on old rows looks at every request there was.
LEMMA NoneBefore ==
  ASSUME HostInv, NEW r \in Requests, NoneActsOnOldRows',
         \A s \in Requests : s # r => job'[s] = job[s],
         job[r].kind \in {"none", "create"} \/ (job'[r].kind = job[r].kind /\ job'[r].id = job[r].id)
  PROVE  NoneActsOnOldRows
<1>1. \A s \in Requests : job[s].kind \in {"none", "create"}
                           \/ (job'[s].kind = job[s].kind /\ job'[s].id = job[s].id)
  OBVIOUS
<1> QED
  BY <1>1 DEF NoneActsOnOldRows

\* A step that leaves rows and host as they are: a request reads, asks for the
\* lock, gives up or is refused.
LEMMA JobOnly ==
  ASSUME HostInv, LockInv, NamesInv', NEW r \in Requests, LockStep(r),
         rows' = rows, kernel' = kernel,
         \A s \in Requests : s # r => job'[s] = job[s],
         job[r].part # "written", job'[r].part # "written",
         job[r].kind \in {"none", "create"} \/ (job'[r].kind = job[r].kind /\ job'[r].id = job[r].id),
         JobSound(job'[r], rows),
         job'[r].part = "read" /\ job'[r].kind = "delete" => \/ rows[job'[r].id].live
                                                            \/ job'[r] = job[r]
  PROVE  HostInv'
<1>1. Sound'
  BY SoundStep DEF HostInv, Sound, Inserted, Writing
<1>2. ASSUME NoneActsOnOldRows' PROVE Follows'
  <2>1. Follows
    BY <1>2, NoneBefore DEF HostInv
  <2>2. \A s \in Requests : job'[s].part = "written" => job'[s] = job[s]
    OBVIOUS
  <2>3. \A i \in RowIds : Ahead(i) <=> Ahead(i)'
    BY DEF Ahead
  <2>4. \A s \in Requests : job'[s].part = "read" /\ job'[s].kind = "delete" =>
                              rows[job'[s].id].live
    BY <2>1 DEF Follows
  <2>5. \A i \in RowIds : rows[i].live /\ rows[i].status = "applied" /\ ~Ahead(i)' => OnHost(rows[i], kernel)
    BY <2>1, <2>3 DEF Follows
  <2> QED
    BY <2>1, <2>2, <2>4, <2>5 DEF Follows, RowIds
<1> QED
  BY <1>1, <1>2 DEF HostInv

\* What the holder of the lock does to the row i of its request and to the interface
\* of that name.
LEMMA HolderApplies ==
  ASSUME HostInv, LockInv, Follows, NEW r \in Requests, stage[r] = "holding",
         NEW i \in RowIds, NEW n \in Names, NEW x, NEW h,
         rows[i].live, rows[i].name = n, job[r].part = "written" => job[r].id = i,
         rows' = [rows EXCEPT ![i] = x], x.name = n,
         kernel' = [kernel EXCEPT ![n] = h],
         \A s \in Requests : s # r => job'[s] = job[s],
         job'[r].part = "answered",
         x.live /\ x.status = "applied" => h # None /\ x.addr \in h,
         h # None => x.live,
         \A s \in Requests : s # r /\ job[s].part = "read" /\ job[s].kind = "delete" /\ job[s].id = i
                               => x.live
  PROVE  Follows'
<1>1. /\ \A k \in RowIds : rows'[k] = IF k = i THEN x ELSE rows[k]
      /\ \A m \in Names : kernel'[m] = IF m = n THEN h ELSE kernel[m]
  BY DEF HostInv, NamesInv, TablesTyped, Sound
<1>2. \A s \in Requests : job'[s].part # "written"
  BY OnlyHolderWrites
<1>3. \A k \in RowIds : k # i /\ rows[k].live => rows[k].name # n
  BY DEF HostInv, NamesInv, LiveNamesUnique, Live
<1>4. \A s \in Requests : job'[s].part = "read" /\ job'[s].kind = "delete" => rows'[job'[s].id].live
  <2> SUFFICES ASSUME NEW s \in Requests, job'[s].part = "read", job'[s].kind = "delete"
               PROVE  rows'[job'[s].id].live
    OBVIOUS
  <2>1. s # r /\ job'[s] = job[s]
    OBVIOUS
  <2>2. job[s].id \in RowIds /\ rows[job[s].id].live
    BY <2>1 DEF HostInv, Sound, JobSound, Follows
  <2> QED
    BY <1>1, <2>1, <2>2
<1>5. \A k \in RowIds : k # i => ~Ahead(k)
  BY OnlyHolderWrites DEF Ahead
<1>6. ASSUME NEW k \in RowIds, rows'[k].live, rows'[k].status = "applied"
      PROVE  OnHost(rows'[k], kernel')
  <2>1. CASE k = i
    BY <1>1, <1>6, <2>1 DEF OnHost
  <2>2. CASE k # i
    <3>1. rows'[k] = rows[k] /\ OnHost(rows[k], kernel) /\ rows[k].name # n
      BY <1>1, <1>3, <1>5, <1>6, <2>2 DEF Follows
    <3>2. rows[k].name \in Names
      BY <1>6, <3>1 DEF HostInv, Sound, Inserted
    <3> QED
      BY <1>1, <3>1, <3>2 DEF OnHost
  <2> QED
    BY <2>1, <2>2
<1>7. ASSUME NEW m \in Names, kernel'[m] # None
      PROVE  \E k \in RowIds : rows'[k].live /\ rows'[k].name = m
  <2>1. CASE m = n
    BY <1>1, <1>7, <2>1
  <2>2. CASE m # n
    BY <1>1, <1>7, <2>2 DEF Follows
  <2> QED
    BY <2>1, <2>2
<1> QED
  BY <1>2, <1>4, <1>6, <1>7 DEF Follows, RowIds

LEMMA AnswerIs ==
  ASSUME NamesInv, NEW r \in Requests, Answer(r)
  PROVE  /\ \A s \in Requests : s # r => job'[s] = job[s]
         /\ job'[r].part = "answered" /\ job'[r].kind = job[r].kind /\ job'[r].id = job[r].id
  BY DEF NamesInv, TablesTyped, Answer, Answered, NoJob

LEMMA AnsweredIsSound ==
  ASSUME NEW j, j.part = "answered", NEW row, NEW place
  PROVE  JobSound(j, row) /\ Writing(j, row, place)
  BY DEF JobSound, Writing

LEMMA SubmitHost ==
  ASSUME HostInv, LockInv, NamesInv', NEW r \in Requests, Submit(r)
  PROVE  HostInv'
<1>1. ASSUME NEW j, job[r].part = "new", job' = [job EXCEPT ![r] = j],
             UNCHANGED <<lockVars, rows, kernel>>, j.part \in {"read", "answered"},
             JobSound(j, rows), j.kind = "delete" /\ j.part = "read" => rows[j.id].live
      PROVE  HostInv'
  <2>1. \A s \in Requests : job'[s] = IF s = r THEN j ELSE job[s]
    BY <1>1 DEF HostInv, NamesInv, TablesTyped
  <2>2. job[r].kind = "none"
    BY <1>1 DEF HostInv, Sound, JobSound
  <2> QED
    BY <1>1, <2>1, <2>2, JobOnly DEF LockStep
<1>2. ASSUME NEW k \in Keys, SubmitAnswered(r, k) PROVE HostInv'
  <2> DEFINE j == Answered("create", cache[k])
  <2>1. j.part = "answered" /\ j.kind = "create"
    BY DEF Answered, NoJob
  <2>2. job' = [job EXCEPT ![r] = j] /\ job[r].part = "new" /\ UNCHANGED <<lockVars, rows, kernel>>
    BY <1>2 DEF SubmitAnswered
  <2> HIDE DEF j
  <2> QED
    BY <1>1, <2>1, <2>2, AnsweredIsSound
<1>3. ASSUME NEW n \in Names, NEW a \in Addrs, NEW k, SubmitCreate(r, n, a, k) PROVE HostInv'
  <2> DEFINE asks == [live |-> TRUE, name |-> n, addr |-> a, label |-> None,
                      status |-> "pending"]
             j == [kind |-> "create", id |-> 0, key |-> k, seen |-> NoRow, part |-> "read",
                   asks |-> asks]
  <2>1. job' = [job EXCEPT ![r] = j] /\ job[r].part = "new" /\ UNCHANGED <<lockVars, rows, kernel>>
    BY <1>3 DEF SubmitCreate, Prepare
  <2>2. j.part = "read" /\ j.kind = "create" /\ JobSound(j, rows)
    BY DEF JobSound
  <2> HIDE DEF j
  <2> QED
    BY <1>1, <2>1, <2>2
<1>4. ASSUME NEW kind \in {"update", "relabel", "reapply", "delete"}, NEW i \in Live, NEW asks,
             asks.live, asks.name = rows[i].name, asks.addr \in Addrs,
             Prepare(r, ExistingJob(kind, i, asks))
      PROVE  HostInv'
  <2> DEFINE j == ExistingJob(kind, i, asks)
  <2>1. /\ i \in RowIds /\ rows[i].live /\ rows[i].status # "none"
        /\ rows[i].name \in Names /\ rows[i].addr \in Addrs
    BY DEF Live, HostInv, NamesInv, LiveRowsInserted, Sound, Inserted
  <2>2. /\ j.part = "read" /\ j.kind = kind /\ j.id = i /\ j.asks = asks /\ j.seen = rows[i]
    BY DEF ExistingJob
  <2>3. job' = [job EXCEPT ![r] = j] /\ job[r].part = "new" /\ UNCHANGED <<lockVars, rows, kernel>>
    BY <1>4 DEF Prepare
  <2> HIDE DEF j
  <2>4. JobSound(j, rows)
    BY <1>4, <2>1, <2>2 DEF JobSound
  <2> QED
    BY <1>1, <2>1, <2>2, <2>3, <2>4
<1>5. ASSUME NEW i \in Live
      PROVE  /\ rows[i] \in Rows /\ rows[i].live /\ rows[i].addr \in Addrs
             /\ \A a \in Addrs : /\ [rows[i] EXCEPT !.addr = a].live = rows[i].live
                                 /\ [rows[i] EXCEPT !.addr = a].name = rows[i].name
                                 /\ [rows[i] EXCEPT !.addr = a].addr = a
             /\ \A l \in Labels : /\ [rows[i] EXCEPT !.label = l].live = rows[i].live
                                  /\ [rows[i] EXCEPT !.label = l].name = rows[i].name
                                  /\ [rows[i] EXCEPT !.label = l].addr = rows[i].addr
  <2>1. rows[i] \in Rows /\ rows[i].live /\ rows[i].addr \in Addrs
    BY DEF Live, HostInv, NamesInv, TablesTyped, LiveRowsInserted, Sound, Inserted
  <2> QED
    BY <2>1 DEF Rows
<1>6. ASSUME NEW i \in RowIds, NEW a \in Addrs, SubmitUpdate(r, i, a) PROVE HostInv'
  <2> DEFINE asks == [rows[i] EXCEPT !.addr = a]
  <2>1. i \in Live /\ Prepare(r, ExistingJob("update", i, asks))
    BY <1>6 DEF SubmitUpdate
  <2>2. asks.live /\ asks.name = rows[i].name /\ asks.addr \in Addrs
    BY <1>5, <2>1
  <2> HIDE DEF asks
  <2> QED
    BY <1>4, <2>1, <2>2
<1>7. ASSUME NEW i \in RowIds, NEW l \in Labels, SubmitRelabel(r, i, l) PROVE HostInv'
  <2> DEFINE asks == [rows[i] EXCEPT !.label = l]
  <2>1. i \in Live /\ Prepare(r, ExistingJob("relabel", i, asks))
    BY <1>7 DEF SubmitRelabel
  <2>2. asks.live /\ asks.name = rows[i].name /\ asks.addr \in Addrs
    BY <1>5, <2>1
  <2> HIDE DEF asks
  <2> QED
    BY <1>4, <2>1, <2>2
<1>8. ASSUME NEW i \in RowIds, SubmitReapply(r, i) \/ SubmitDelete(r, i) PROVE HostInv'
  BY <1>4, <1>5, <1>8 DEF SubmitReapply, SubmitDelete
<1>9. FreeNumbers \subseteq Names \cap Addrs
  BY DEF FreeNumbers
<1> QED
  BY <1>2, <1>3, <1>6, <1>7, <1>8, <1>9 DEF Submit, SubmitCreateAuto

\* The parts of a request that change neither rows nor host.
LEMMA WaitHost ==
  ASSUME HostInv, LockInv, NamesInv', NEW r \in Requests,
         Queue(r) \/ StoreRefused(r) \/ GiveUp(r)
  PROVE  HostInv'
<1>1. CASE Queue(r)
  <2>1. job[r].part = "read" /\ JobSound(job[r], rows) /\ LockStep(r)
        /\ UNCHANGED <<rows, kernel, job>>
    BY <1>1 DEF Queue, LockStep, HostInv, Sound
  <2> QED
    BY <2>1, JobOnly
<1>2. CASE StoreRefused(r) \/ GiveUp(r)
  <2>1. Answer(r) /\ LockStep(r) /\ UNCHANGED <<rows, kernel>>
    BY <1>2 DEF StoreRefused, GiveUp, LockStep
  <2>2. job[r].part # "written"
    BY <1>2 DEF StoreRefused, GiveUp, Abandon, HostInv, Sound, Writing
  <2> QED
    BY <2>1, <2>2, AnswerIs, AnsweredIsSound, JobOnly DEF HostInv
<1> QED
  BY <1>1, <1>2

\* A row is written as a request asks for it: it keeps its life, name and status.
LEMMA RepoUpdateIs ==
  ASSUME HostInv, NEW r \in Requests, job[r].kind \in {"update", "relabel"},
         job[r].part = "read", job[r].id \in Live, RepoUpdate(r)
  PROVE  \E x : /\ rows' = [rows EXCEPT ![job[r].id] = x]
                /\ x.live /\ x.name = rows[job[r].id].name /\ x.name = job[r].asks.name
                /\ x.addr = job[r].asks.addr /\ x.addr \in Addrs
                /\ x.status = rows[job[r].id].status
<1> DEFINE x == [job[r].asks EXCEPT !.status = rows[job[r].id].status]
<1>1. job[r].asks \in Rows /\ JobSound(job[r], rows)
  BY DEF HostInv, NamesInv, TablesTyped, Jobs, Sound
<1>2. /\ x.live = job[r].asks.live /\ x.name = job[r].asks.name /\ x.addr = job[r].asks.addr
      /\ x.status = rows[job[r].id].status
  BY <1>1 DEF Rows
<1>3. rows' = [rows EXCEPT ![job[r].id] = x]
  BY DEF RepoUpdate
<1> HIDE DEF x
<1> QED
  BY <1>1, <1>2, <1>3 DEF JobSound

LEMMA StoreHost ==
  ASSUME HostInv, LockInv, NamesInv', NEW r \in Requests,
         StoreRelabel(r) \/ StoreUpdate(r) \/ Insert(r)
  PROVE  HostInv'
<1>0. /\ rows \in [RowIds -> Rows] /\ job \in [Requests -> Jobs]
      /\ kernel \in [Names -> (SUBSET Addrs) \cup {None}] /\ kernel' = kernel
      /\ UNCHANGED lockVars /\ job[r] \in Jobs /\ JobSound(job[r], rows)
  BY DEF HostInv, NamesInv, TablesTyped, Sound, StoreRelabel, StoreUpdate, Insert
<1>1. CASE StoreRelabel(r)
  <2>1. Answer(r) /\ job[r].kind = "relabel"
    BY <1>1 DEF StoreRelabel
  <2>2. ~NoneActsOnOldRows'
    BY <2>1, AnswerIs DEF NoneActsOnOldRows, HostInv
  <2>3. CASE job[r].id \notin Live
    <3>1. UNCHANGED <<rows, kernel>> /\ job[r].part = "read"
      BY <1>1, <2>3 DEF StoreRelabel
    <3> QED
      BY <1>0, <2>1, <3>1, AnswerIs, AnsweredIsSound, JobOnly DEF HostInv, LockStep
  <2>4. CASE job[r].id \in Live
    <3>1. PICK x : /\ rows' = [rows EXCEPT ![job[r].id] = x]
                   /\ x.live /\ x.name = rows[job[r].id].name /\ x.name = job[r].asks.name
                   /\ x.addr = job[r].asks.addr /\ x.addr \in Addrs
                   /\ x.status = rows[job[r].id].status
      BY <1>1, <2>4, RepoUpdateIs DEF StoreRelabel
    <3>2. \A i \in RowIds : /\ rows'[i].live = rows[i].live /\ rows'[i].name = rows[i].name
                            /\ rows'[i].status = rows[i].status
                            /\ rows'[i].addr = rows[i].addr \/ rows'[i].addr \in Addrs
      <4>1. rows[job[r].id].live = TRUE /\ x.live = TRUE
        <5>1. rows[job[r].id].live
          BY <2>4 DEF Live
        <5>2. rows' \in [RowIds -> Rows]
          BY DEF NamesInv, TablesTyped
        <5> QED
          BY <1>0, <2>4, <3>1, <5>1, <5>2 DEF Live, Rows
      <4> QED
        BY <1>0, <3>1, <4>1
    <3>3. Sound'
      BY <1>0, <2>1, <3>2, AnswerIs, AnsweredIsSound, SoundStep
         DEF HostInv, Sound, Inserted, LockStep
    <3> QED
      BY <2>2, <3>3 DEF HostInv
  <2> QED
    BY <2>3, <2>4
<1>2. CASE StoreUpdate(r)
  <2> DEFINE j == [job[r] EXCEPT !.part = "written"]
  <2>0. PICK i \in RowIds :
          /\ i = job[r].id /\ i \in Live /\ rows[i].live /\ rows[i].status # "none"
          /\ stage[r] = "holding" /\ job[r].part = "read" /\ job[r].kind = "update"
    BY <1>0, <1>2 DEF StoreUpdate, Holds, Live, JobSound
  <2>1. PICK x : /\ rows' = [rows EXCEPT ![i] = x]
                 /\ x.live /\ x.name = rows[i].name /\ x.name = job[r].asks.name
                 /\ x.addr = job[r].asks.addr /\ x.addr \in Addrs
                 /\ x.status = rows[i].status
    BY <1>2, <2>0, RepoUpdateIs DEF StoreUpdate
  <2>2. \A k \in RowIds : rows'[k] = IF k = i THEN x ELSE rows[k]
    BY <1>0, <2>1
  <2>3. /\ job' = [job EXCEPT ![r] = j] /\ j.part = "written" /\ j.kind = "update" /\ j.id = i
        /\ j.asks = job[r].asks /\ j.seen = job[r].seen
    BY <1>0, <1>2, <2>0 DEF StoreUpdate, Jobs
  <2> HIDE DEF j
  <2>4. \A s \in Requests : job'[s] = IF s = r THEN j ELSE job[s]
    BY <1>0, <2>3
  <2>5. JobSound(j, rows') /\ Writing(j, rows', stage'[r])
    BY <1>0, <2>0, <2>1, <2>2, <2>3 DEF JobSound, Writing, lockVars
  <2>6. Sound'
    BY ZenonT(60), <1>0, <2>0, <2>1, <2>2, <2>4, <2>5, SoundStep
       DEF HostInv, Sound, Inserted, LockStep
  <2>7. ASSUME NoneActsOnOldRows' PROVE Follows'
    <3>1. Follows
      BY <2>0, <2>3, <2>4, <2>7, NoneBefore DEF HostInv
    <3>2. \A s \in Requests : job'[s].part = "written" => s = r
      BY <2>0, <2>4, OnlyHolderWrites
    <3>3. \A k \in RowIds : k # i => ~Ahead(k) /\ rows'[k] = rows[k]
      BY <2>0, <2>2, OnlyHolderWrites DEF Ahead
    <3>4. Ahead(i)'
      BY <2>3, <2>4 DEF Ahead
    <3>5. \A s \in Requests : job'[s].part = "read" /\ job'[s].kind = "delete" =>
                                rows'[job'[s].id].live
      <4> SUFFICES ASSUME NEW s \in Requests, job'[s].part = "read", job'[s].kind = "delete"
                   PROVE  rows'[job'[s].id].live
        OBVIOUS
      <4>1. job'[s] = job[s] /\ job[s].id \in RowIds /\ rows[job[s].id].live
        BY <2>3, <2>4, <3>1 DEF Follows, HostInv, Sound, JobSound
      <4> QED
        BY <2>1, <2>2, <4>1
    <3>6. \A k \in RowIds : rows'[k].live /\ rows'[k].status = "applied" /\ ~Ahead(k)' =>
                              OnHost(rows'[k], kernel')
      BY <1>0, <3>1, <3>3, <3>4 DEF Follows
    <3>7. \A n \in Names : kernel'[n] # None => \E k \in RowIds : rows'[k].live /\ rows'[k].name = n
      <4>1. \A k \in RowIds : rows'[k].name = rows[k].name /\ (rows[k].live => rows'[k].live)
        BY <2>1, <2>2
      <4> QED
        BY <1>0, <3>1, <4>1 DEF Follows
    <3> QED
      BY <2>1, <2>2, <2>3, <2>4, <3>2, <3>5, <3>6, <3>7, <2>0 DEF Follows, RowIds
  <2> QED
    BY <2>6, <2>7 DEF HostInv
<1>3. CASE Insert(r)
  <2>0. stage[r] = "holding" /\ job[r].part = "read" /\ job[r].kind = "create"
    BY <1>3 DEF Insert, Holds
  <2>1. PICK i \in RowIds :
          /\ rows[i] = NoRow
          /\ rows' = [rows EXCEPT ![i] = job[r].asks]
          /\ job' = [job EXCEPT ![r].id = i, ![r].part = "written"]
    BY <1>3 DEF Insert
  <2> DEFINE j == [job[r] EXCEPT !.id = i, !.part = "written"]
  <2>2. \A k \in RowIds : rows'[k] = IF k = i THEN job[r].asks ELSE rows[k]
    BY <1>0, <2>1
  <2>3. /\ job' = [job EXCEPT ![r] = j] /\ j.part = "written" /\ j.kind = "create" /\ j.id = i
        /\ j.asks = job[r].asks
    BY <1>0, <2>0, <2>1 DEF Jobs
  <2> HIDE DEF j
  <2>4. \A s \in Requests : job'[s] = IF s = r THEN j ELSE job[s]
    BY <1>0, <2>3
  <2>5. /\ job[r].asks.live /\ job[r].asks.name \in Names /\ job[r].asks.addr \in Addrs
        /\ job[r].asks.status = "pending" /\ ~Inserted(i) /\ ~rows[i].live
    BY <1>0, <2>0, <2>1 DEF JobSound, Inserted, NoRow
  <2>6. JobSound(j, rows') /\ Writing(j, rows', stage'[r])
    BY <1>0, <2>0, <2>2, <2>3, <2>5 DEF JobSound, Writing, lockVars
  <2>7. Sound'
    BY <1>0, <2>0, <2>2, <2>4, <2>5, <2>6, SoundStep DEF HostInv, Sound, Inserted, LockStep
  <2>8. ASSUME NoneActsOnOldRows' PROVE Follows'
    <3>1. Follows
      BY <2>0, <2>4, <2>8, NoneBefore DEF HostInv
    <3>2. \A s \in Requests : job'[s].part = "written" => s = r
      BY <2>0, <2>4, OnlyHolderWrites
    <3>3. \A k \in RowIds : k # i => ~Ahead(k) /\ rows'[k] = rows[k]
      BY <2>0, <2>2, OnlyHolderWrites DEF Ahead
    <3>4. Ahead(i)'
      BY <2>3, <2>4 DEF Ahead
    <3>5. \A s \in Requests : job'[s].part = "read" /\ job'[s].kind = "delete" =>
                                rows'[job'[s].id].live
      <4> SUFFICES ASSUME NEW s \in Requests, job'[s].part = "read", job'[s].kind = "delete"
                   PROVE  rows'[job'[s].id].live
        OBVIOUS
      <4>1. job'[s] = job[s] /\ job[s].id \in RowIds /\ rows[job[s].id].live
        BY <2>3, <2>4, <3>1 DEF Follows, HostInv, Sound, JobSound
      <4> QED
        BY <2>2, <2>5, <4>1
    <3>6. \A k \in RowIds : rows'[k].live /\ rows'[k].status = "applied" /\ ~Ahead(k)' =>
                              OnHost(rows'[k], kernel')
      BY <1>0, <3>1, <3>3, <3>4 DEF Follows
    <3>7. \A n \in Names : kernel'[n] # None => \E k \in RowIds : rows'[k].live /\ rows'[k].name = n
      BY <1>0, <2>2, <2>5, <3>1 DEF Follows
    <3> QED
      BY <2>2, <2>3, <2>4, <3>2, <3>5, <3>6, <3>7 DEF Follows, RowIds
  <2> QED
    BY <2>7, <2>8 DEF HostInv
<1> QED
  BY <1>1, <1>2, <1>3

\* The end of a request that holds the lock.
LEMMA ApplyHost ==
  ASSUME HostInv, LockInv, NamesInv', NEW r \in Requests,
         \/ ApplyCreate(r) \/ FailCreate(r) \/ ApplyUpdate(r) \/ FailUpdate(r)
         \/ ApplyReapply(r) \/ FailReapply(r) \/ ApplyDelete(r)
  PROVE  HostInv'
<1>0. /\ rows \in [RowIds -> Rows] /\ rows' \in [RowIds -> Rows]
      /\ kernel \in [Names -> (SUBSET Addrs) \cup {None}]
      /\ JobSound(job[r], rows) /\ Writing(job[r], rows, stage[r])
  BY SMTT(40) DEF HostInv, NamesInv, TablesTyped, Sound
<1>1. stage[r] = "holding" /\ Answer(r) /\ LockStep(r)
      /\ job[r].part \in {"read", "written"} /\ job[r].kind # "none"
      /\ (job[r].kind # "create" \/ job[r].part = "written")
      /\ (job[r].kind # "delete" \/ job[r].part = "read")
  BY DEF ApplyCreate, FailCreate, ApplyUpdate, FailUpdate, ApplyReapply, FailReapply,
         ApplyDelete, Applied, RolledBack, Holds, LockStep
<1>2. PICK i \in RowIds : i = job[r].id /\ Inserted(i) /\ rows[i].name = job[r].asks.name
  BY <1>0, <1>1 DEF JobSound, Writing, Inserted
<1>3. PICK n \in Names : n = job[r].asks.name
  BY <1>0, <1>1 DEF JobSound
<1>4. /\ \A s \in Requests : s # r => job'[s] = job[s]
      /\ job'[r].part = "answered" /\ job'[r].kind = job[r].kind /\ job'[r].id = job[r].id
  BY <1>1, AnswerIs DEF HostInv
<1>5. rows[i] \in Rows /\ rows[i].addr \in Addrs /\ job[r].asks.addr \in Addrs
  BY <1>0, <1>1, <1>2 DEF HostInv, Sound, JobSound
\* What is left to show of each of them: the row x and the interface h it leaves.
<1>6. ASSUME NEW x \in Rows, NEW h \in (SUBSET Addrs) \cup {None},
             rows' = [rows EXCEPT ![i] = x], kernel' = [kernel EXCEPT ![n] = h],
             x.name = rows[i].name, x.addr = rows[i].addr, x.status # "none"
      PROVE  Sound'
  <2>1. \A k \in RowIds : rows'[k] = IF k = i THEN x ELSE rows[k]
    BY <1>0, <1>6
  <2>2. kernel' \in [Names -> (SUBSET Addrs) \cup {None}]
    BY <1>0, <1>6
  <2>3. JobSound(job'[r], rows') /\ Writing(job'[r], rows', stage'[r])
    BY <1>4, AnsweredIsSound
  <2>4. \A k \in RowIds : /\ Inserted(k) => rows'[k].status # "none" /\ rows'[k].name = rows[k].name
                          /\ rows'[k].status # "none" => rows'[k].name \in Names /\ rows'[k].addr \in Addrs
    <3>1. \A k \in RowIds : Inserted(k) => rows[k].name \in Names /\ rows[k].addr \in Addrs
      BY DEF HostInv, Sound
    <3> QED
      BY <1>2, <1>6, <2>1, <3>1 DEF Inserted
  <2> QED
    BY <1>1, <1>4, <2>2, <2>3, <2>4, SoundStep
<1>7. ASSUME NEW x \in Rows, NEW h \in (SUBSET Addrs) \cup {None},
             rows' = [rows EXCEPT ![i] = x], kernel' = [kernel EXCEPT ![n] = h],
             x.name = rows[i].name, x.addr = rows[i].addr, x.status # "none",
             NoneActsOnOldRows => rows[i].live,
             NoneActsOnOldRows /\ Follows =>
               /\ x.live /\ x.status = "applied" => h # None /\ x.addr \in h
               /\ h # None => x.live
               /\ \A s \in Requests : s # r /\ job[s].part = "read" /\ job[s].kind = "delete"
                                        /\ job[s].id = i => x.live
      PROVE  HostInv'
  <2>1. Sound'
    BY <1>6, <1>7
  <2>2. ASSUME NoneActsOnOldRows' PROVE Follows'
    <3>1. NoneActsOnOldRows /\ Follows
      BY <1>4, <2>2, NoneBefore DEF HostInv
    <3>2. rows[i].live /\ rows[i].name = n /\ x.name = n
      BY <1>2, <1>3, <1>7, <3>1
    <3>3. job[r].part = "written" => job[r].id = i
      BY <1>2
    <3>4. /\ x.live /\ x.status = "applied" => h # None /\ x.addr \in h
          /\ h # None => x.live
      BY <1>7, <3>1
    <3>5. \A s \in Requests : s # r /\ job[s].part = "read" /\ job[s].kind = "delete" /\ job[s].id = i
                                => x.live
      BY <1>7, <3>1
    <3>6. rows' = [rows EXCEPT ![i] = x] /\ kernel' = [kernel EXCEPT ![n] = h]
      BY <1>7
    <3>7. stage[r] = "holding"
      BY <1>1
    <3>8. (\A s \in Requests : s # r => job'[s] = job[s]) /\ job'[r].part = "answered"
      BY <1>4
    <3> QED
      BY <3>1, <3>2, <3>3, <3>4, <3>5, <3>6, <3>7, <3>8, HolderApplies
  <2> QED
    BY <2>1, <2>2 DEF HostInv
<1>8. ASSUME NEW t \in {"applied", "failed"}
      PROVE  /\ [rows[i] EXCEPT !.status = t] \in Rows
             /\ [rows[i] EXCEPT !.status = t].live = rows[i].live
             /\ [rows[i] EXCEPT !.status = t].name = rows[i].name
             /\ [rows[i] EXCEPT !.status = t].addr = rows[i].addr
             /\ [rows[i] EXCEPT !.status = t].status = t
  BY <1>5 DEF Rows
<1>9. /\ [rows[i] EXCEPT !.live = FALSE] \in Rows
      /\ [rows[i] EXCEPT !.live = FALSE].live = FALSE
      /\ [rows[i] EXCEPT !.live = FALSE].name = rows[i].name
      /\ [rows[i] EXCEPT !.live = FALSE].addr = rows[i].addr
      /\ [rows[i] EXCEPT !.live = FALSE].status = rows[i].status
  BY <1>5 DEF Rows
<1>10. ASSUME job[r].part = "written" PROVE rows[i].live /\ (Follows => rows[i].addr = job[r].asks.addr)
  BY <1>0, <1>2, <1>10 DEF Writing, Follows
<1>11. job[r].kind # "create" => job[r].seen.name = n
  BY <1>0, <1>1, <1>3 DEF JobSound
<1>12. ASSUME NEW h \in (SUBSET Addrs) \cup {None}, job[r].part = "written",
              kernel' = [kernel EXCEPT ![n] = h], rows' = [rows EXCEPT ![i].status = "applied"],
              h # None, job[r].asks.addr \in h
       PROVE  HostInv'
  <2> DEFINE x == [rows[i] EXCEPT !.status = "applied"]
  <2>1. x \in Rows /\ x.live = rows[i].live /\ x.name = rows[i].name /\ x.addr = rows[i].addr
        /\ x.status = "applied"
    BY <1>8
  <2>2. rows' = [rows EXCEPT ![i] = x]
    BY <1>12
  <2> HIDE DEF x
  <2> QED
    BY <1>7, <1>10, <1>12, <2>1, <2>2
<1>13. ASSUME NEW h \in (SUBSET Addrs) \cup {None}, job[r].part = "written",
              kernel' = [kernel EXCEPT ![n] = h], rows' = [rows EXCEPT ![i].status = "failed"]
       PROVE  HostInv'
  <2> DEFINE x == [rows[i] EXCEPT !.status = "failed"]
  <2>1. x \in Rows /\ x.live = rows[i].live /\ x.name = rows[i].name /\ x.addr = rows[i].addr
        /\ x.status = "failed"
    BY <1>8
  <2>2. rows' = [rows EXCEPT ![i] = x]
    BY <1>13
  <2> HIDE DEF x
  <2> QED
    BY <1>7, <1>10, <1>13, <2>1, <2>2
<1>14. CASE ApplyCreate(r)
  <2>1. /\ kernel' = [kernel EXCEPT ![n] = {job[r].asks.addr}] /\ job[r].part = "written"
        /\ rows' = [rows EXCEPT ![i].status = "applied"]
    BY <1>2, <1>3, <1>14 DEF ApplyCreate, Applied
  <2>2. {job[r].asks.addr} \in SUBSET Addrs /\ {job[r].asks.addr} # None
    BY <1>5, RequestAssumption
  <2> QED
    BY <1>12, <2>1, <2>2
<1>15. CASE ApplyUpdate(r)
  <2> DEFINE h == (kernel[n] \ {job[r].seen.addr}) \cup {job[r].asks.addr}
  <2>1. /\ kernel' = [kernel EXCEPT ![n] = h] /\ kernel[n] # None
        /\ job[r].part = "written" /\ rows' = [rows EXCEPT ![i].status = "applied"]
    BY <1>2, <1>11, <1>15 DEF ApplyUpdate, Applied, Holds
  <2>2. kernel[n] \in SUBSET Addrs
    BY <1>0, <2>1
  <2>3. h \in SUBSET Addrs /\ job[r].asks.addr \in h
    BY <1>5, <2>2
  <2>4. h # None
    BY <2>3, RequestAssumption
  <2> HIDE DEF h
  <2> QED
    BY <1>12, <2>1, <2>3, <2>4
<1>16. CASE FailCreate(r)
  BY <1>2, <1>3, <1>13, <1>16 DEF FailCreate, RolledBack
<1>17. CASE FailUpdate(r)
  <2>1. /\ kernel' = [kernel EXCEPT ![n] = kernel[n]] /\ job[r].part = "written"
        /\ rows' = [rows EXCEPT ![i].status = "failed"]
    BY <1>2, <1>11, <1>17 DEF FailUpdate, RolledBack, Holds
  <2> QED
    BY <1>0, <1>13, <2>1
<1>18. CASE ApplyReapply(r) \/ FailReapply(r)
  <2>1. ~NoneActsOnOldRows /\ job[r].kind = "reapply"
    BY <1>18 DEF ApplyReapply, FailReapply, Holds, NoneActsOnOldRows
  <2>2. ~NoneActsOnOldRows'
    BY <1>4, <2>1 DEF NoneActsOnOldRows
  <2>3. PICK t \in {"applied", "failed"}, h \in (SUBSET Addrs) \cup {None} :
          kernel' = [kernel EXCEPT ![n] = h] /\ rows' = [rows EXCEPT ![i].status = t]
    <3>1. {job[r].seen.addr} \in SUBSET Addrs
      BY <1>0, <1>1, <2>1 DEF JobSound
    <3> QED
      BY <1>2, <1>11, <1>18, <2>1, <3>1 DEF ApplyReapply, FailReapply, Applied, RolledBack
  <2>4. Sound'
    BY <1>6, <1>8, <2>3
  <2> QED
    BY <2>2, <2>4 DEF HostInv
<1>19. CASE ApplyDelete(r)
  <2> DEFINE x == [rows[i] EXCEPT !.live = FALSE]
  <2>1. x \in Rows /\ x.live = FALSE /\ x.name = rows[i].name /\ x.addr = rows[i].addr
        /\ x.status # "none"
    BY <1>2, <1>9 DEF Inserted
  <2>2. /\ rows' = [rows EXCEPT ![i] = x] /\ kernel' = [kernel EXCEPT ![n] = None]
        /\ job[r].kind = "delete" /\ job[r].part = "read"
    BY <1>2, <1>11, <1>19 DEF ApplyDelete, Holds
  <2> HIDE DEF x
  <2>3. NoneActsOnOldRows => rows[i].live
    BY <1>2, <2>2 DEF HostInv, Follows
  <2>4. NoneActsOnOldRows => \A s \in Requests : s # r /\ job[s].kind = "delete" => job[s].id # i
    BY <1>2, <2>2 DEF NoneActsOnOldRows
  <2> QED
    BY <1>7, <2>1, <2>2, <2>3, <2>4
<1> QED
  BY <1>14, <1>15, <1>16, <1>17, <1>18, <1>19

LEMMA HostStep == HostInv /\ LockInv /\ [Next]_vars => HostInv'
<1> SUFFICES ASSUME HostInv, LockInv, [Next]_vars PROVE HostInv'
  OBVIOUS
<1>1. NamesInv'
  BY NamesStep DEF HostInv
<1>2. CASE UNCHANGED vars
  BY <1>1, <1>2 DEF vars, lockVars, HostInv, Sound, Inserted, Follows, Ahead, NoneActsOnOldRows,
                    RowIds
<1>3. ASSUME NEW r \in Requests, Submit(r) \/ Work(r) \/ GiveUp(r) PROVE HostInv'
  BY <1>1, <1>3, SubmitHost, WaitHost, StoreHost, ApplyHost DEF Work
<1> QED
  BY <1>2, <1>3 DEF Next

\* Whenever nobody holds the lock, what a row calls applied is on the host and every
\* interface has a row, however many requests read before the lock and act after:
\* unless they write back what they read, or delete the same tunnel twice.
THEOREM TableOnHost == Spec => []HostFollowsTable
<1>1. Init => HostInv
  <2> SUFFICES ASSUME Init PROVE HostInv
    OBVIOUS
  <2>1. NamesInv
    BY NamesInit
  <2>2. /\ \A i \in RowIds : rows[i].live = FALSE /\ ~Inserted(i)
        /\ \A r \in Requests : job[r].part = "new" /\ job[r].kind = "none"
        /\ kernel \in [Names -> (SUBSET Addrs) \cup {None}] /\ \A n \in Names : kernel[n] = None
    BY DEF Init, NoRow, NoJob, Inserted
  <2> QED
    BY <2>1, <2>2 DEF HostInv, Sound, JobSound, Writing, Follows
<1>2. LockSpec => []LockInv
  BY LockInvariant
<1>3. Spec => LockSpec
  BY RequestsImplementLock DEF UsesMutationLock
<1> QED
  BY <1>1, <1>2, <1>3, HostStep, HostInvImplies, PTL DEF Spec
=============================================================================

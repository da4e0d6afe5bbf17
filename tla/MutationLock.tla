---------------------------- MODULE MutationLock ----------------------------
(***************************************************************************)
(* The panel's one mutation lock (src/internal/lock): a channel with room  *)
(* for a single token.  Sending the token takes the lock, receiving it     *)
(* releases it; a send that waits is given up when its context is done.    *)
(*                                                                         *)
(* The Go runtime serves waiting senders in the order they arrived, and a  *)
(* receive from a full channel hands the free slot to the first of them in *)
(* the same step, so a newcomer never overtakes the queue.                 *)
(***************************************************************************)
EXTENDS Naturals, Sequences, SequencesExt

CONSTANT Requests \* the goroutines that may ask for the lock

VARIABLES
  slots,  \* the tokens in the channel
  queue,  \* the senders that wait, in arrival order
  stage   \* where each request is: out, queued or holding the lock

lockVars == <<slots, queue, stage>>

LockTypeOK ==
  /\ slots \in 0..1
  /\ queue \in Seq(Requests)
  /\ stage \in [Requests -> {"out", "queued", "holding"}]

LockInit ==
  /\ slots = 0 /\ queue = << >>
  /\ stage = [r \in Requests |-> "out"]

\* The select in Acquire, when the send does not have to wait.
Acquire(r) ==
  /\ stage[r] = "out" /\ slots = 0
  /\ slots' = 1
  /\ stage' = [stage EXCEPT ![r] = "holding"]
  /\ UNCHANGED queue

Enqueue(r) ==
  /\ stage[r] = "out" /\ slots = 1
  /\ queue' = Append(queue, r)
  /\ stage' = [stage EXCEPT ![r] = "queued"]
  /\ UNCHANGED slots

\* The other branch of the select: the context of a queued request is done.
Abandon(r) ==
  /\ stage[r] = "queued"
  /\ \E i \in 1..Len(queue) : queue[i] = r /\ queue' = RemoveAt(queue, i)
  /\ stage' = [stage EXCEPT ![r] = "out"]
  /\ UNCHANGED slots

\* Mutant: a release that does not wake anybody when the channel was full.
ReleaseSleeps(r) ==
  /\ stage[r] = "holding"
  /\ slots' = 0
  /\ stage' = [stage EXCEPT ![r] = "out"]
  /\ UNCHANGED queue

\* The function Acquire returned: it takes the token out again.
Release(r) ==
  /\ stage[r] = "holding"
  /\ IF queue = << >>
     THEN /\ slots' = 0
          /\ stage' = [stage EXCEPT ![r] = "out"]
          /\ UNCHANGED queue
     ELSE /\ stage' = [stage EXCEPT ![r] = "out", ![Head(queue)] = "holding"]
          /\ queue' = Tail(queue)
          /\ UNCHANGED slots

LockNext ==
  \E r \in Requests : Acquire(r) \/ Enqueue(r) \/ Abandon(r) \/ Release(r)

LockSpec == LockInit /\ [][LockNext]_lockVars

(***************************************************************************)
(* Properties.                                                             *)
(***************************************************************************)
\* A tunnel apply and a forwarding rule apply never interleave (lock.go): no two
\* requests hold the lock at the same time.
MutualExclusion ==
  \A r, s \in Requests : stage[r] = "holding" /\ stage[s] = "holding" => r = s

\* The token is in the channel exactly while somebody holds the lock, and only
\* then does anybody wait.
TokenHeld ==
  /\ slots = 1 <=> \E r \in Requests : stage[r] = "holding"
  /\ queue # << >> => slots = 1

\* The queue holds the waiting requests, each of them once.
QueueExact ==
  /\ \A r \in Requests : stage[r] = "queued" <=> \E i \in 1..Len(queue) : queue[i] = r
  /\ \A i, j \in 1..Len(queue) : queue[i] = queue[j] => i = j

LockInv == LockTypeOK /\ MutualExclusion /\ TokenHeld /\ QueueExact
=============================================================================

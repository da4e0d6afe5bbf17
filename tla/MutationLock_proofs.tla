------------------------ MODULE MutationLock_proofs ------------------------
(***************************************************************************)
(* Mutual exclusion of the mutation lock for any set of requests.  By      *)
(* itself it is not inductive: a release hands the lock to the head of the *)
(* queue, so the proof needs that the token is in the channel while        *)
(* somebody holds the lock (TokenHeld) and that the queue holds exactly    *)
(* the requests that wait (QueueExact).                                    *)
(***************************************************************************)
EXTENDS MutationLock, SequenceTheorems, TLAPS

\* Taking the element at position i out of a sequence leaves a sequence over the
\* same set whose elements are those before i and, one place to the left, those
\* after it (the sender Abandon removes from the channel's queue).
LEMMA RemoveAtProperties ==
  ASSUME NEW S, NEW q \in Seq(S), NEW i \in 1..Len(q)
  PROVE  /\ RemoveAt(q, i) \in Seq(S)
         /\ Len(RemoveAt(q, i)) = Len(q) - 1
         /\ \A k \in 1..(Len(q) - 1) :
              RemoveAt(q, i)[k] = IF k < i THEN q[k] ELSE q[k + 1]
<1> DEFINE a == SubSeq(q, 1, i - 1)
           b == SubSeq(q, i + 1, Len(q))
<1>1. a \in Seq(S) /\ Len(a) = i - 1 /\ \A k \in 1..(i - 1) : a[k] = q[k]
  BY SubSeqProperties, LenProperties
<1>2. b \in Seq(S) /\ Len(b) = Len(q) - i /\ \A k \in 1..(Len(q) - i) : b[k] = q[k + i]
  BY SubSeqProperties, LenProperties
<1> HIDE DEF a, b
<1>3. /\ a \o b \in Seq(S) /\ Len(a \o b) = Len(a) + Len(b)
      /\ \A k \in 1..(Len(a) + Len(b)) : (a \o b)[k] = IF k <= Len(a) THEN a[k] ELSE b[k - Len(a)]
  BY <1>1, <1>2, ConcatProperties
<1>4. RemoveAt(q, i) = a \o b
  BY DEF RemoveAt, a, b
<1>5. Len(q) \in Nat
  BY LenProperties
<1>6. Len(a) = i - 1 /\ Len(b) = Len(q) - i /\ i \in Nat /\ i >= 1 /\ i <= Len(q)
  BY <1>1, <1>2, <1>5
<1>7. Len(a) + Len(b) = Len(q) - 1
  BY <1>5, <1>6
<1>8. ASSUME NEW k \in 1..(Len(q) - 1)
      PROVE (a \o b)[k] = IF k < i THEN q[k] ELSE q[k + 1]
  <2>1. k \in 1..(Len(a) + Len(b))
    BY <1>7
  <2>2. CASE k < i
    <3>1. k <= Len(a) /\ k \in 1..(i - 1)
      BY <1>5, <1>6, <2>2
    <3> QED
      BY <1>1, <1>3, <2>1, <2>2, <3>1
  <2>3. CASE ~(k < i)
    <3>1. ~(k <= Len(a)) /\ k - Len(a) \in 1..(Len(q) - i) /\ (k - Len(a)) + i = k + 1
      BY <1>5, <1>6, <2>3
    <3>2. (a \o b)[k] = b[k - Len(a)] /\ b[k - Len(a)] = q[(k - Len(a)) + i]
      BY <1>2, <1>3, <2>1, <3>1
    <3> QED
      BY <2>3, <3>1, <3>2
  <2> QED
    BY <2>2, <2>3
<1> QED
  BY <1>3, <1>4, <1>7, <1>8

\* The lock starts free and with an empty queue.
LEMMA LockInitInv == LockInit => LockInv
  BY EmptySeq DEF LockInit, LockInv, LockTypeOK, MutualExclusion, TokenHeld, QueueExact

\* Every step of a request keeps the invariant.
LEMMA LockStepInv == LockInv /\ [LockNext]_lockVars => LockInv'
<1> SUFFICES ASSUME LockInv, [LockNext]_lockVars PROVE LockInv'
  OBVIOUS
<1> USE DEF LockInv, LockTypeOK, MutualExclusion, TokenHeld, QueueExact
<1>1. ASSUME NEW r \in Requests, Acquire(r) PROVE LockInv'
  BY <1>1 DEF Acquire
<1>2. ASSUME NEW r \in Requests, Enqueue(r) PROVE LockInv'
  <2>1. /\ queue' \in Seq(Requests) /\ Len(queue') = Len(queue) + 1
        /\ \A k \in 1..Len(queue) : queue'[k] = queue[k]
        /\ queue'[Len(queue) + 1] = r
    BY <1>2, AppendProperties DEF Enqueue
  <2>2. Len(queue) \in Nat
    BY LenProperties
  <2>3. LockTypeOK' /\ MutualExclusion' /\ TokenHeld'
    BY <1>2, <2>1 DEF Enqueue
  <2>4. QueueExact'
    BY <1>2, <2>1, <2>2 DEF Enqueue
  <2> QED
    BY <2>3, <2>4
<1>3. ASSUME NEW r \in Requests, Abandon(r) PROVE LockInv'
  <2>1. PICK i \in 1..Len(queue) : queue[i] = r /\ queue' = RemoveAt(queue, i)
    BY <1>3 DEF Abandon
  <2>2. /\ queue' \in Seq(Requests) /\ Len(queue') = Len(queue) - 1
        /\ \A k \in 1..(Len(queue) - 1) : queue'[k] = IF k < i THEN queue[k] ELSE queue[k + 1]
    <3>1. queue \in Seq(Requests)
      OBVIOUS
    <3>2. /\ RemoveAt(queue, i) \in Seq(Requests)
          /\ Len(RemoveAt(queue, i)) = Len(queue) - 1
          /\ \A k \in 1..(Len(queue) - 1) :
               RemoveAt(queue, i)[k] = IF k < i THEN queue[k] ELSE queue[k + 1]
      BY ONLY <3>1, <2>1, i \in 1..Len(queue), RemoveAtProperties
    <3> QED
      BY <2>1, <3>2
  <2>3. Len(queue) \in Nat
    BY LenProperties
  <2>4. LockTypeOK' /\ MutualExclusion'
    BY <1>3, <2>2 DEF Abandon
  <2>5. queue # << >>
    BY <2>1, <2>3, EmptySeq
  <2>6. TokenHeld'
    BY <1>3, <2>5 DEF Abandon
  <2>7. ASSUME NEW s \in Requests
        PROVE stage'[s] = "queued" <=> \E k \in 1..Len(queue') : queue'[k] = s
    <3>1. CASE s = r
      <4>1. stage'[s] # "queued"
        BY <1>3, <3>1 DEF Abandon
      <4>2. ASSUME NEW k \in 1..Len(queue'), queue'[k] = s PROVE FALSE
        BY <2>1, <2>2, <2>3, <3>1, <4>2
      <4> QED
        BY <4>1, <4>2
    <3>2. CASE s # r
      <4>1. stage'[s] = stage[s]
        BY <1>3, <3>2 DEF Abandon
      <4>2. ASSUME NEW j \in 1..Len(queue), queue[j] = s
            PROVE \E k \in 1..Len(queue') : queue'[k] = s
        <5>1. CASE j < i
          <6>1. j \in 1..Len(queue') /\ queue'[j] = queue[j]
            BY <2>1, <2>2, <2>3, <5>1
          <6> QED
            BY <4>2, <6>1
        <5>2. CASE j > i
          <6>1. j - 1 \in 1..Len(queue') /\ queue'[j - 1] = queue[j]
            BY <2>1, <2>2, <2>3, <5>2
          <6> QED
            BY <4>2, <6>1
        <5>3. j # i
          BY <2>1, <3>2, <4>2
        <5> QED
          BY <2>3, <5>1, <5>2, <5>3
      <4>3. ASSUME NEW k \in 1..Len(queue'), queue'[k] = s
            PROVE \E j \in 1..Len(queue) : queue[j] = s
        <5>1. k \in 1..Len(queue) /\ k + 1 \in 1..Len(queue)
          BY <2>2, <2>3
        <5> QED
          BY <2>2, <2>3, <4>3, <5>1
      <4> QED
        BY <4>1, <4>2, <4>3
    <3> QED
      BY <3>1, <3>2
  <2>8. ASSUME NEW j \in 1..Len(queue'), NEW k \in 1..Len(queue'), queue'[j] = queue'[k]
        PROVE j = k
    <3> DEFINE old(n) == IF n < i THEN n ELSE n + 1
    <3>1. /\ old(j) \in 1..Len(queue) /\ queue'[j] = queue[old(j)]
          /\ old(k) \in 1..Len(queue) /\ queue'[k] = queue[old(k)]
      BY <2>2, <2>3
    <3>2. \A m, n \in 1..Len(queue) : queue[m] = queue[n] => m = n
      OBVIOUS
    <3>3. queue[old(j)] = queue[old(k)]
      BY <2>8, <3>1
    <3>4. old(j) = old(k)
      <4> HIDE DEF old
      <4> QED
        BY ONLY <3>1, <3>2, <3>3
    <3> QED
      BY <2>2, <2>3, <3>4
  <2> QED
    BY <2>4, <2>6, <2>7, <2>8
<1>4. ASSUME NEW r \in Requests, Release(r) PROVE LockInv'
  <2>1. CASE queue = << >>
    BY <1>4, <2>1 DEF Release
  <2>2. CASE queue # << >>
    <3>1. /\ Head(queue) \in Requests /\ Tail(queue) \in Seq(Requests)
          /\ Len(Tail(queue)) = Len(queue) - 1
          /\ \A k \in 1..Len(Tail(queue)) : Tail(queue)[k] = queue[k + 1]
          /\ Head(queue) = queue[1]
      BY <2>2, HeadTailProperties
    <3>2. Len(queue) \in Nat /\ Len(queue) >= 1
      BY <2>2, LenProperties, EmptySeq
    <3>3. /\ stage' = [stage EXCEPT ![r] = "out", ![Head(queue)] = "holding"]
          /\ queue' = Tail(queue) /\ slots' = slots /\ stage[r] = "holding"
      BY <1>4, <2>2 DEF Release
    <3>4. stage[Head(queue)] = "queued" /\ Head(queue) # r
      BY <3>1, <3>2, <3>3
    <3>5. LockTypeOK' /\ MutualExclusion' /\ TokenHeld'
      BY <2>2, <3>1, <3>3, <3>4
    <3>6. ASSUME NEW s \in Requests
          PROVE stage'[s] = "queued" <=> \E k \in 1..Len(queue') : queue'[k] = s
      <4>1. ASSUME stage'[s] = "queued" PROVE \E k \in 1..Len(queue') : queue'[k] = s
        <5>1. stage[s] = "queued" /\ s # Head(queue)
          BY <3>1, <3>3, <3>4, <4>1
        <5>2. PICK j \in 1..Len(queue) : queue[j] = s
          BY <5>1
        <5>3. j # 1
          BY <3>1, <5>1, <5>2
        <5>4. j - 1 \in 1..Len(queue') /\ queue'[j - 1] = s
          BY <3>1, <3>2, <3>3, <5>2, <5>3
        <5> QED
          BY <5>4
      <4>2. ASSUME NEW k \in 1..Len(queue'), queue'[k] = s PROVE stage'[s] = "queued"
        <5>1. k + 1 \in 1..Len(queue) /\ queue[k + 1] = s
          BY <3>1, <3>2, <3>3, <4>2
        <5>2. stage[s] = "queued"
          BY <5>1
        <5>3. s # Head(queue)
          BY <3>1, <3>2, <5>1
        <5> QED
          BY <3>3, <5>2, <5>3
      <4> QED
        BY <4>1, <4>2
    <3>7. ASSUME NEW j \in 1..Len(queue'), NEW k \in 1..Len(queue'), queue'[j] = queue'[k]
          PROVE j = k
      BY <3>1, <3>2, <3>3, <3>7
    <3> QED
      BY <3>5, <3>6, <3>7
  <2> QED
    BY <2>1, <2>2
<1>5. CASE UNCHANGED lockVars
  BY <1>5 DEF lockVars
<1> QED
  BY <1>1, <1>2, <1>3, <1>4, <1>5 DEF LockNext

\* The invariant holds in every state of every behaviour of the lock.
THEOREM LockInvariant == LockSpec => []LockInv
<1>1. LockInit => LockInv
  BY LockInitInv
<1>2. LockInv /\ [LockNext]_lockVars => LockInv'
  BY LockStepInv
<1> QED
  BY <1>1, <1>2, PTL DEF LockSpec

\* Whatever the number of requests, at most one of them holds the mutation lock:
\* no two changes to kernel state run at the same time (lock.go).
THEOREM LockMutualExclusion == LockSpec => []MutualExclusion
<1>1. LockInv => MutualExclusion
  BY DEF LockInv
<1> QED
  BY LockInvariant, <1>1, PTL
=============================================================================

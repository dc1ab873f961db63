----------------------------- MODULE SlotProofs -----------------------------
(***************************************************************************)
(* Proofs about who may use which slot: SlotGate, for any number of chats  *)
(* and internal runs and any MAX_QUEUE; Loadout, for any machines and      *)
(* settings; and Ultra, for any number of workers and sub-tasks.           *)
(***************************************************************************)
EXTENDS SlotGate, Ultra, FiniteSetTheorems, SequenceTheorems, WellFoundedInduction, TLAPS

\* What taking one element out of a sequence leaves.
LEMMA RemoveAtFacts ==
  ASSUME NEW S, NEW q \in Seq(S), NEW k \in DOMAIN q
  PROVE  /\ RemoveAt(q, k) \in Seq(S)
         /\ Len(RemoveAt(q, k)) = Len(q) - 1
         /\ \A i \in 1..Len(q) - 1 :
              RemoveAt(q, k)[i] = IF i < k THEN q[i] ELSE q[i + 1]
  <1> DEFINE a == SubSeq(q, 1, k - 1)
             b == SubSeq(q, k + 1, Len(q))
  <1>1. Len(q) \in Nat /\ k \in 1..Len(q) /\ DOMAIN q = 1..Len(q)
    OBVIOUS
  <1>2. a \in Seq(S) /\ Len(a) = k - 1 /\ \A i \in 1..k - 1 : a[i] = q[i]
    BY <1>1, SubSeqProperties
  <1>3. b \in Seq(S) /\ Len(b) = Len(q) - k /\ \A i \in 1..Len(q) - k : b[i] = q[k + i]
    BY <1>1, SubSeqProperties
  <1>4. RemoveAt(q, k) = a \o b
    BY DEF RemoveAt
  <1>5. /\ a \o b \in Seq(S)
        /\ Len(a \o b) = Len(a) + Len(b)
        /\ \A i \in 1..Len(a) + Len(b) : (a \o b)[i] = IF i <= Len(a) THEN a[i] ELSE b[i - Len(a)]
    BY <1>2, <1>3, ConcatProperties
  <1>8. Len(a) = k - 1 /\ Len(b) = Len(q) - k
    BY <1>2, <1>3
  <1> HIDE DEF a, b
  <1>6. Len(a \o b) = Len(q) - 1
    BY <1>1, <1>5, <1>8
  <1>7. ASSUME NEW i \in 1..Len(q) - 1
        PROVE  (a \o b)[i] = IF i < k THEN q[i] ELSE q[i + 1]
    <2>3. i \in 1..Len(a) + Len(b)
      BY <1>1, <1>8
    <2>1. CASE i < k
      <3>1. i <= Len(a) /\ i \in 1..k - 1
        BY <1>1, <1>8, <2>1
      <3>2. (a \o b)[i] = a[i]
        BY <1>5, <2>3, <3>1
      <3> QED BY <1>2, <2>1, <3>1, <3>2
    <2>2. CASE ~(i < k)
      <3>1. i - (k - 1) \in 1..Len(q) - k /\ k + (i - (k - 1)) = i + 1
        BY <1>1, <2>2
      <3>2. ~(i <= Len(a)) /\ i - Len(a) = i - (k - 1)
        BY <1>1, <1>8, <2>2
      <3>3. (a \o b)[i] = b[i - (k - 1)]
        BY <1>5, <2>3, <3>2
      <3> QED BY <1>3, <2>2, <3>1, <3>3
    <2> QED BY <2>1, <2>2
  <1> QED BY <1>4, <1>5, <1>6, <1>7

-----------------------------------------------------------------------------
(* Queues without duplicates.                                              *)

Distinct(q) == \A i, j \in DOMAIN q : q[i] = q[j] => i = j
Member(q, r) == \E i \in DOMAIN q : q[i] = r

LEMMA AppendMember ==
  ASSUME NEW S, NEW q \in Seq(S), NEW r \in S, Distinct(q), ~Member(q, r)
  PROVE  /\ Append(q, r) \in Seq(S)
         /\ Len(Append(q, r)) = Len(q) + 1
         /\ Distinct(Append(q, r))
         /\ \A s : Member(Append(q, r), s) <=> Member(q, s) \/ s = r
  <1> DEFINE a == Append(q, r)
  <1>1. a \in Seq(S) /\ Len(a) = Len(q) + 1 /\ a[Len(q) + 1] = r /\ \A i \in 1..Len(q) : a[i] = q[i]
    BY AppendProperties
  <1>2. DOMAIN q = 1..Len(q) /\ DOMAIN a = 1..Len(q) + 1 /\ Len(q) \in Nat
    BY <1>1, LenProperties
  <1> HIDE DEF a
  <1>3. Distinct(a)
    BY <1>1, <1>2 DEF Distinct, Member
  <1>4. ASSUME NEW s
        PROVE  Member(a, s) <=> Member(q, s) \/ s = r
    <2>1. ASSUME Member(a, s) PROVE Member(q, s) \/ s = r
      BY <1>1, <1>2, <2>1 DEF Member
    <2>2. ASSUME Member(q, s) PROVE Member(a, s)
      BY <1>1, <1>2, <2>2 DEF Member
    <2>3. ASSUME s = r PROVE Member(a, s)
      BY <1>1, <1>2, <2>3 DEF Member
    <2> QED BY <2>1, <2>2, <2>3
  <1> QED BY <1>1, <1>3, <1>4 DEF a

LEMMA RemoveMember ==
  ASSUME NEW S, NEW q \in Seq(S), NEW k \in DOMAIN q, Distinct(q)
  PROVE  /\ RemoveAt(q, k) \in Seq(S)
         /\ Len(RemoveAt(q, k)) = Len(q) - 1
         /\ Distinct(RemoveAt(q, k))
         /\ \A s : Member(RemoveAt(q, k), s) <=> Member(q, s) /\ s # q[k]
  <1> DEFINE a == RemoveAt(q, k)
  <1>1. /\ a \in Seq(S) /\ Len(a) = Len(q) - 1
        /\ \A i \in 1..Len(q) - 1 : a[i] = IF i < k THEN q[i] ELSE q[i + 1]
    BY RemoveAtFacts
  <1>2. DOMAIN q = 1..Len(q) /\ DOMAIN a = 1..Len(q) - 1 /\ Len(q) \in Nat /\ k \in 1..Len(q)
    BY <1>1, LenProperties
  <1> HIDE DEF a
  <1>3. Distinct(a)
    <2> SUFFICES ASSUME NEW i \in 1..Len(q) - 1, NEW j \in 1..Len(q) - 1, a[i] = a[j]
                 PROVE  i = j
      BY <1>2 DEF Distinct
    <2>1. CASE i < k /\ j < k
      <3>1. q[i] = q[j] /\ i \in DOMAIN q /\ j \in DOMAIN q
        BY <1>1, <1>2, <2>1
      <3> QED BY <3>1 DEF Distinct
    <2>2. CASE ~(i < k) /\ ~(j < k)
      <3>3. i + 1 \in 1..Len(q) /\ j + 1 \in 1..Len(q)
        <4>1. Len(q) \in Nat
          BY <1>2
        <4> QED BY <4>1
      <3>4. a[i] = q[i + 1] /\ a[j] = q[j + 1]
        BY <1>1, <2>2
      <3>1. q[i + 1] = q[j + 1] /\ i + 1 \in 1..Len(q) /\ j + 1 \in 1..Len(q)
        BY <3>3, <3>4
      <3>2. i + 1 = j + 1
        BY <1>2, <3>1 DEF Distinct
      <3> QED BY <3>2
    <2>3. CASE i < k /\ ~(j < k)
      <3>1. q[i] = q[j + 1] /\ i \in 1..Len(q) /\ j + 1 \in 1..Len(q)
        BY <1>1, <1>2, <2>3
      <3>2. i = j + 1
        BY <1>2, <3>1 DEF Distinct
      <3> QED BY <1>2, <2>3, <3>2
    <2>4. CASE ~(i < k) /\ j < k
      <3>1. q[i + 1] = q[j] /\ i + 1 \in 1..Len(q) /\ j \in 1..Len(q)
        BY <1>1, <1>2, <2>4
      <3>2. i + 1 = j
        BY <1>2, <3>1 DEF Distinct
      <3> QED BY <1>2, <2>4, <3>2
    <2> QED BY <2>1, <2>2, <2>3, <2>4
  <1>4. ASSUME NEW s
        PROVE  Member(a, s) <=> Member(q, s) /\ s # q[k]
    <2>1. ASSUME Member(a, s) PROVE Member(q, s) /\ s # q[k]
      <3>1. PICK i \in 1..Len(q) - 1 : a[i] = s
        BY <1>2, <2>1 DEF Member
      <3>2. CASE i < k
        BY <1>1, <1>2, <3>1, <3>2 DEF Member, Distinct
      <3>3. CASE ~(i < k)
        <4>1. i + 1 \in 1..Len(q) /\ q[i + 1] = s /\ i + 1 # k
          BY <1>1, <1>2, <3>1, <3>3
        <4> QED BY <1>2, <4>1 DEF Member, Distinct
      <3> QED BY <3>2, <3>3
    <2>2. ASSUME Member(q, s), s # q[k] PROVE Member(a, s)
      <3>1. PICK i \in 1..Len(q) : q[i] = s /\ i # k
        BY <1>2, <2>2 DEF Member
      <3>2. CASE i < k
        <4>1. i \in 1..Len(q) - 1 /\ a[i] = s
          BY <1>1, <1>2, <3>1, <3>2
        <4> QED BY <1>2, <4>1 DEF Member
      <3>3. CASE ~(i < k)
        <4>1. i - 1 \in 1..Len(q) - 1 /\ ~(i - 1 < k) /\ (i - 1) + 1 = i
          BY <1>2, <3>1, <3>3
        <4>2. a[i - 1] = s
          BY <1>1, <3>1, <4>1
        <4> QED BY <1>2, <4>1, <4>2 DEF Member
      <3> QED BY <3>2, <3>3
    <2> QED BY <2>1, <2>2
  <1> QED BY <1>1, <1>3, <1>4 DEF a

\* Tail is the removal of the first element.
LEMMA TailMember ==
  ASSUME NEW S, NEW q \in Seq(S), q # <<>>, Distinct(q)
  PROVE  /\ Tail(q) \in Seq(S)
         /\ Len(Tail(q)) = Len(q) - 1
         /\ Distinct(Tail(q))
         /\ \A s : Member(Tail(q), s) <=> Member(q, s) /\ s # Head(q)
  <1>1. 1 \in DOMAIN q /\ Head(q) = q[1] /\ Len(q) \in Nat
    BY EmptySeq, LenProperties
  <1>2. /\ RemoveAt(q, 1) \in Seq(S) /\ Len(RemoveAt(q, 1)) = Len(q) - 1
        /\ \A i \in 1..Len(q) - 1 : RemoveAt(q, 1)[i] = IF i < 1 THEN q[i] ELSE q[i + 1]
    BY <1>1, RemoveAtFacts
  <1>3. Tail(q) \in Seq(S) /\ Len(Tail(q)) = Len(q) - 1 /\ \A i \in 1..Len(q) - 1 : Tail(q)[i] = q[i + 1]
    BY <1>1, HeadTailProperties
  <1>4. Tail(q) = RemoveAt(q, 1)
    BY <1>1, <1>2, <1>3, SeqEqual
  <1>5. /\ Distinct(RemoveAt(q, 1))
        /\ \A s : Member(RemoveAt(q, 1), s) <=> Member(q, s) /\ s # q[1]
    BY <1>1, RemoveMember
  <1> QED BY <1>1, <1>3, <1>4, <1>5

-----------------------------------------------------------------------------
(* The inductive invariant.                                                *)

\* TypeOK without the Boolean, which is typed apart.
DataOK ==
  /\ pc \in [Runs -> {"out", "admitted", "timed", "notified", "queued", "holding"}]
  /\ waiters \in Seq(Runs)
  /\ waiting \in Nat

IInv == DataOK /\ OneDecodes /\ CountsWaiters

\* What a step that joins, leaves or advances the queue must establish.
QueueOK ==
  /\ waiters \in Seq(Runs)
  /\ waiting = Len(waiters)
  /\ Distinct(waiters)
  /\ \A r \in Runs : InQueue(r) <=> Member(waiters, r)

LEMMA CountsIsQueueOK == waiters \in Seq(Runs) => (CountsWaiters <=> QueueOK)
  BY DEF CountsWaiters, QueueOK, Distinct, Member

LEMMA InvInit == Init => IInv
  <1> SUFFICES ASSUME Init PROVE IInv
    OBVIOUS
  <1>1. DataOK
    BY DEF Init, DataOK
  <1>2. OneDecodes
    BY DEF Init, OneDecodes
  <1>3. CountsWaiters
    BY DEF Init, CountsWaiters, InQueue
  <1> QED BY <1>1, <1>2, <1>3 DEF IInv

LEMMA InvEnqueue ==
  ASSUME IInv, NEW r \in Runs, ~InQueue(r), pc[r] # "holding",
         NEW how \in {"timed", "queued"}, Enqueue(r, how)
  PROVE  IInv'
  <1> USE DEF IInv
  <1>1. waiters \in Seq(Runs) /\ QueueOK /\ ~Member(waiters, r) /\ Len(waiters) \in Nat
    BY CountsIsQueueOK, LenProperties DEF DataOK, QueueOK
  <1>2. /\ waiters' \in Seq(Runs) /\ Len(waiters') = Len(waiters) + 1 /\ Distinct(waiters')
        /\ \A s : Member(waiters', s) <=> Member(waiters, s) \/ s = r
    BY <1>1, AppendMember DEF Enqueue, QueueOK
  <1>3. DataOK'
    BY <1>1, <1>2 DEF DataOK, Enqueue, QueueOK
  <1>4. \A s \in Runs : pc'[s] = IF s = r THEN how ELSE pc[s]
    BY DEF Enqueue, DataOK
  <1>5. OneDecodes'
    BY <1>4 DEF OneDecodes, Enqueue
  <1>6. QueueOK'
    <2>1. waiting' = Len(waiters')
      BY <1>1, <1>2 DEF Enqueue, QueueOK
    <2>2. \A s \in Runs : InQueue(s)' <=> Member(waiters', s)
      BY <1>1, <1>2, <1>4 DEF InQueue, QueueOK
    <2>3. Distinct(waiters)'
      BY <1>2 DEF Distinct
    <2>4. \A s \in Runs : InQueue(s)' <=> Member(waiters, s)'
      BY <2>2 DEF Member
    <2> QED BY <1>2, <2>1, <2>3, <2>4 DEF QueueOK
  <1>7. CountsWaiters'
    BY <1>6 DEF CountsWaiters, QueueOK, Distinct, Member
  <1> QED BY <1>3, <1>5, <1>7

LEMMA InvTake ==
  ASSUME IInv, NEW r \in Runs, ~InQueue(r), Take(r)
  PROVE  IInv'
  <1> USE DEF IInv
  <1>1. \A s \in Runs : pc'[s] = IF s = r THEN "holding" ELSE pc[s]
    BY DEF Take, DataOK
  <1>2. DataOK'
    BY DEF DataOK, Take
  <1>3. OneDecodes'
    BY <1>1 DEF OneDecodes, Take, Free
  <1>4. CountsWaiters'
    BY <1>1 DEF CountsWaiters, InQueue, Take
  <1> QED BY <1>2, <1>3, <1>4

LEMMA InvAcquire ==
  ASSUME IInv, NEW r \in Runs, ~InQueue(r), pc[r] # "holding",
         NEW how \in {"timed", "queued"}, Acquire(r, how)
  PROVE  IInv'
  BY InvTake, InvEnqueue DEF Acquire

LEMMA InvGrant ==
  ASSUME IInv, NEW r \in Runs, Grant(r)
  PROVE  IInv'
  <1> USE DEF IInv
  <1>1. waiters \in Seq(Runs) /\ QueueOK /\ Len(waiters) \in Nat /\ waiters # <<>> /\ r = Head(waiters)
    BY CountsIsQueueOK, LenProperties DEF DataOK, Grant
  <1>2. /\ waiters' \in Seq(Runs) /\ Len(waiters') = Len(waiters) - 1 /\ Distinct(waiters')
        /\ \A s : Member(waiters', s) <=> Member(waiters, s) /\ s # r
    BY <1>1, TailMember DEF Grant, QueueOK
  <1>3. \A s \in Runs : pc'[s] = IF s = r THEN "holding" ELSE pc[s]
    BY DEF Grant, DataOK
  <1>4. waiting' = Len(waiters') /\ waiting' \in Nat
    BY <1>1, <1>2, LenProperties DEF Grant, QueueOK
  <1>5. DataOK'
    BY <1>2, <1>4 DEF DataOK, Grant
  <1>6. OneDecodes'
    BY <1>3 DEF OneDecodes, Grant
  <1>7. CountsWaiters'
    <2>1. \A s \in Runs : InQueue(s)' <=> Member(waiters', s)
      BY <1>1, <1>2, <1>3 DEF InQueue, QueueOK
    <2> QED BY <1>2, <1>4, <2>1 DEF CountsWaiters, Distinct, Member
  <1> QED BY <1>5, <1>6, <1>7

LEMMA InvLeaveQueue ==
  ASSUME IInv, NEW r \in Runs, InQueue(r), LeaveQueue(r), UNCHANGED locked,
         NEW to \in {"out", "notified"}, pc' = [pc EXCEPT ![r] = to]
  PROVE  IInv'
  <1> USE DEF IInv
  <1>1. waiters \in Seq(Runs) /\ QueueOK /\ Len(waiters) \in Nat
    BY CountsIsQueueOK, LenProperties DEF DataOK
  <1>0. PICK k \in DOMAIN waiters : waiters[k] = r /\ waiters' = RemoveAt(waiters, k)
    BY DEF LeaveQueue
  <1>2. /\ waiters' \in Seq(Runs) /\ Len(waiters') = Len(waiters) - 1 /\ Distinct(waiters')
        /\ \A s : Member(waiters', s) <=> Member(waiters, s) /\ s # r
    BY <1>0, <1>1, RemoveMember DEF QueueOK
  <1>3. \A s \in Runs : pc'[s] = IF s = r THEN to ELSE pc[s]
    BY DEF DataOK
  <1>4. waiting' = Len(waiters') /\ waiting' \in Nat
    BY <1>1, <1>2, LenProperties DEF LeaveQueue, QueueOK
  <1>5. DataOK'
    BY <1>2, <1>4 DEF DataOK
  <1>6. OneDecodes'
    BY <1>3 DEF OneDecodes, InQueue
  <1>7. CountsWaiters'
    <2>1. \A s \in Runs : InQueue(s)' <=> Member(waiters', s)
      BY <1>1, <1>2, <1>3 DEF InQueue, QueueOK
    <2> QED BY <1>2, <1>4, <2>1 DEF CountsWaiters, Distinct, Member
  <1> QED BY <1>5, <1>6, <1>7

\* A run that moves between places outside the queue and the slot.
LEMMA InvOutside ==
  ASSUME IInv, NEW r \in Runs, ~InQueue(r), pc[r] # "holding", UNCHANGED <<locked, waiters, waiting>>,
         NEW to \in {"out", "admitted"}, pc' = [pc EXCEPT ![r] = to]
  PROVE  IInv'
  <1> USE DEF IInv
  <1>1. \A s \in Runs : pc'[s] = IF s = r THEN to ELSE pc[s]
    BY DEF DataOK
  <1>2. DataOK'
    BY DEF DataOK
  <1>3. OneDecodes'
    BY <1>1 DEF OneDecodes
  <1>4. CountsWaiters'
    BY <1>1 DEF CountsWaiters, InQueue
  <1> QED BY <1>2, <1>3, <1>4

LEMMA InvRelease ==
  ASSUME IInv, NEW r \in Runs, Release(r)
  PROVE  IInv'
  <1> USE DEF IInv
  <1>1. \A s \in Runs : pc'[s] = IF s = r THEN "out" ELSE pc[s]
    BY DEF Release, DataOK
  <1>2. DataOK'
    BY DEF DataOK, Release
  <1>3. OneDecodes'
    BY <1>1 DEF OneDecodes, Release
  <1>4. CountsWaiters'
    BY <1>1 DEF CountsWaiters, InQueue, Release
  <1> QED BY <1>2, <1>3, <1>4

LEMMA InvNext == IInv /\ [Next]_vars => IInv'
  <1> SUFFICES ASSUME IInv, [Next]_vars PROVE IInv'
    OBVIOUS
  <1>1. ASSUME NEW c \in Chats, Arrive(c) \/ Join(c) \/ Notice(c) \/ Rejoin(c)
        PROVE  IInv'
    <2>0. c \in Runs
      BY DEF Runs
    <2>1. CASE Arrive(c)
      BY <2>0, <2>1, InvOutside DEF Arrive, InQueue
    <2>2. CASE Join(c) \/ Rejoin(c)
      BY <2>0, <2>2, InvAcquire DEF Join, Rejoin, InQueue
    <2>3. CASE Notice(c)
      BY <2>0, <2>3, InvLeaveQueue DEF Notice, InQueue
    <2> QED BY <1>1, <2>1, <2>2, <2>3
  <1>2. ASSUME NEW i \in Internal, InternalJoin(i)
        PROVE  IInv'
    <2>0. i \in Runs
      BY DEF Runs
    <2> QED BY <1>2, <2>0, InvAcquire DEF InternalJoin, InQueue
  <1>3. ASSUME NEW r \in Runs, Grant(r) \/ Release(r) \/ Abandon(r)
        PROVE  IInv'
    <2>1. CASE Abandon(r) /\ InQueue(r) /\ LeaveQueue(r)
      BY <2>1, InvLeaveQueue DEF Abandon
    <2>2. CASE Abandon(r) /\ pc[r] \in {"admitted", "notified"} /\ UNCHANGED <<waiters, waiting>>
      BY <2>2, InvOutside DEF Abandon, InQueue
    <2> QED BY <1>3, <2>1, <2>2, InvGrant, InvRelease DEF Abandon
  <1>4. CASE UNCHANGED vars
    BY <1>4 DEF vars, IInv, DataOK, OneDecodes, CountsWaiters, InQueue
  <1> QED BY <1>1, <1>2, <1>3, <1>4 DEF Next

LEMMA InvAlways == Spec => []IInv
  BY InvInit, InvNext, PTL DEF Spec

\* Two runs never decode on one slot, and the lock is never left taken by a run
\* that ended nor released by one that only waited, for any number of runs.
THEOREM MutualExclusion == Spec => []OneDecodes
  <1>1. IInv => OneDecodes
    BY DEF IInv
  <1> QED BY <1>1, InvAlways, PTL

\* The waiter count and the queue agree after any sequence of waits, timeouts,
\* notices and cancellations, and nobody stands in the queue twice.
THEOREM CountAccurate == Spec => []CountsWaiters
  <1>1. IInv => CountsWaiters
    BY DEF IInv
  <1> QED BY <1>1, InvAlways, PTL

\* The variables keep their types: in particular _waiting never goes negative.
THEOREM TypeCorrect == Spec => []TypeOK
  <1>1. Init => locked \in BOOLEAN
    BY Zenon DEF Init
  <1>2. locked \in BOOLEAN /\ [Next]_vars => (locked \in BOOLEAN)'
    BY Zenon
    DEF Next, Arrive, Join, Notice, Rejoin, InternalJoin, Acquire, Take, Enqueue, Grant, Release,
        Abandon, vars
  <1>3. Spec => [](locked \in BOOLEAN)
    BY <1>1, <1>2, PTL DEF Spec
  <1>4. IInv /\ locked \in BOOLEAN => TypeOK
    BY Zenon DEF IInv, DataOK, TypeOK
  <1> QED BY <1>3, <1>4, InvAlways, PTL

LEMMA OrderStep ==
  ASSUME IInv, [Next]_vars, NEW p \in Runs, NEW q \in Runs,
         InQueue(p), pc'[p] = pc[p], pc[q] # "holding", pc'[q] = "holding"
  PROVE  Before(q, p)
  <1> USE DEF IInv, DataOK
  <1>1. p # q
    BY DEF InQueue
  <1>2. PICK j \in DOMAIN waiters : waiters[j] = p
    BY DEF CountsWaiters
  <1>3. waiters # <<>> /\ 1 \in DOMAIN waiters /\ Head(waiters) = waiters[1] /\ j \in 1..Len(waiters)
    BY <1>2, EmptySeq, LenProperties
  <1>4. ~Free
    BY <1>3 DEF Free
  <1>5. Grant(q)
    <2>1. ASSUME NEW c \in Chats, Arrive(c) \/ Join(c) \/ Notice(c) \/ Rejoin(c)
          PROVE  pc'[q] # "holding"
      BY <1>4, <2>1 DEF Arrive, Join, Notice, Rejoin, Acquire, Take, Enqueue, Runs
    <2>2. ASSUME NEW i \in Internal, InternalJoin(i)
          PROVE  pc'[q] # "holding"
      BY <1>4, <2>2 DEF InternalJoin, Acquire, Take, Enqueue, Runs
    <2>3. ASSUME NEW r \in Runs, Release(r) \/ Abandon(r)
          PROVE  pc'[q] # "holding"
      BY <2>3 DEF Release, Abandon
    <2>4. ASSUME NEW r \in Runs, Grant(r)
          PROVE  r = q
      BY <2>4 DEF Grant
    <2> QED BY <2>1, <2>2, <2>3, <2>4 DEF Next, vars
  <1>6. waiters[1] = q
    BY <1>3, <1>5 DEF Grant
  <1> QED BY <1>1, <1>2, <1>3, <1>6 DEF Before

\* The slot goes to whoever began its present wait first: neither a newcomer nor a
\* rich run back from its notice passes a run that is waiting.
THEOREM FirstComeFirstServed == Spec => NoOvertaking
  <1>1. IInv /\ [Next]_vars =>
          [\A p, q \in Runs :
             pc[p] \in {"timed", "queued"} /\ pc'[p] = pc[p] /\ pc[q] # "holding" /\ pc'[q] = "holding"
               => Before(q, p)]_vars
    BY OrderStep DEF InQueue
  <1> QED BY <1>1, InvAlways, PTL DEF Spec, NoOvertaking

-----------------------------------------------------------------------------
(* Loadout. Sums over the members of a finite set, in any order. There is no
   induction here over sets: what fails for some set fails for a least one. *)

\* A set of numbers has a least one.
LEMMA Least ==
  ASSUME NEW S \in SUBSET Nat, S # {}
  PROVE  \E m \in S : \A k \in S : m <= k
  <1> DEFINE R == {p \in Nat \X Nat : p[1] < p[2]}
  <1>1. IsWellFoundedOn(R, Nat)
    BY NatLessThanWellFounded DEF OpToRel
  <1> HIDE DEF R
  <1>2. PICK x \in S : \A y \in S : ~ (<<y, x>> \in R)
    BY <1>1, WFMin
  <1>3. ASSUME NEW y \in S PROVE x <= y
    <2>1. <<y, x>> \in R <=> y < x
      BY DEF R
    <2> QED BY <1>2, <2>1
  <1> QED BY <1>3

\* The library takes the members of a set in an order of its choice.
Pick(s) == CHOOSE x \in s : TRUE
Summed(g, f, s) == IF s = {} THEN 0 ELSE f[Pick(s)] + g[s \ {Pick(s)}]
IsSum(g, f, S) == g = [s \in SUBSET S |-> Summed(g, f, s)]

LEMMA TotalIsSum ==
  ASSUME NEW f
  PROVE  Total(f) = (CHOOSE g : IsSum(g, f, DOMAIN f))[DOMAIN f]
BY DEF Total, FoldSet, MapThenFoldSet, IsSum, Summed, Pick

LEMMA Picked == ASSUME NEW s, s # {} PROVE Pick(s) \in s
BY DEF Pick

LEMMA Smaller ==
  ASSUME NEW S, IsFiniteSet(S), NEW s \in SUBSET S
  PROVE  /\ IsFiniteSet(s) /\ Cardinality(s) \in Nat
         /\ s = {} <=> Cardinality(s) = 0
         /\ \A x \in s : s \ {x} \in SUBSET S /\ Cardinality(s \ {x}) = Cardinality(s) - 1
<1>1. IsFiniteSet(s) /\ Cardinality(s) \in Nat
  BY FS_Subset, FS_CardinalityType
<1>2. s = {} <=> Cardinality(s) = 0
  BY <1>1, FS_EmptySet
<1>3. ASSUME NEW x \in s PROVE Cardinality(s \ {x}) = Cardinality(s) - 1
  BY <1>1, FS_RemoveElement
<1> QED BY <1>1, <1>2, <1>3

\* g sums the sets of at most n members.
SumsTo(g, f, S, n) ==
  /\ DOMAIN g = SUBSET S /\ g = [s \in SUBSET S |-> g[s]]
  /\ \A s \in SUBSET S : Cardinality(s) <= n => g[s] = Summed(g, f, s)

LEMMA SumGrows ==
  ASSUME NEW S, IsFiniteSet(S), NEW f, NEW n \in Nat, NEW g, SumsTo(g, f, S, n)
  PROVE  \E h : SumsTo(h, f, S, n + 1)
<1> DEFINE h == [s \in SUBSET S |-> Summed(g, f, s)]
<1>1. ASSUME NEW s \in SUBSET S, Cardinality(s) <= n + 1 PROVE h[s] = Summed(h, f, s)
  <2>1. CASE s = {}
    BY <2>1 DEF Summed
  <2>2. CASE s # {}
    <3>1. PICK r \in SUBSET S : r = s \ {Pick(s)} /\ Cardinality(r) <= n
      <4>1. Pick(s) \in s
        BY <2>2, Picked
      <4>2. Cardinality(s \ {Pick(s)}) = Cardinality(s) - 1 /\ Cardinality(s) \in Nat
        BY <4>1, Smaller
      <4> QED BY <1>1, <4>2
    <3>2. h[r] = g[r]
      BY <3>1 DEF SumsTo
    <3> QED BY <2>2, <3>1, <3>2 DEF Summed
  <2> QED BY <2>1, <2>2
<1>2. DOMAIN h = SUBSET S /\ h = [s \in SUBSET S |-> h[s]]
  OBVIOUS
<1> HIDE DEF h
<1>3. SumsTo(h, f, S, n + 1)
  BY <1>1, <1>2 DEF SumsTo
<1> QED BY <1>3

LEMMA SumsExist ==
  ASSUME NEW S, IsFiniteSet(S), NEW f, NEW n \in Nat
  PROVE  \E g : SumsTo(g, f, S, n)
<1> DEFINE Missing == {k \in 0..n : ~ \E g : SumsTo(g, f, S, k)}
<1>1. SUFFICES ASSUME Missing # {} PROVE FALSE
  <2>1. n \in 0..n
    OBVIOUS
  <2>2. Missing = {} => \E g : SumsTo(g, f, S, n)
    BY <2>1, Zenon
  <2> QED BY <2>2
<1>2. PICK m \in Missing : \A k \in Missing : m <= k
  <2>1. Missing \in SUBSET Nat
    OBVIOUS
  <2> HIDE DEF Missing
  <2> QED BY <1>1, <2>1, Least
<1>3. CASE m = 0
  <2> DEFINE g == [s \in SUBSET S |-> 0]
  <2>1. ASSUME NEW s \in SUBSET S, Cardinality(s) <= 0 PROVE s = {}
    BY <2>1, Smaller
  <2>2. SumsTo(g, f, S, 0)
    BY <2>1 DEF SumsTo, Summed
  <2> QED BY <1>3, <2>2
<1>4. CASE m # 0
  <2>1. PICK k \in 0..n : m = k + 1 /\ k \notin Missing
    BY <1>2, <1>4
  <2>2. PICK g : SumsTo(g, f, S, k)
    BY <2>1
  <2>3. \E h : SumsTo(h, f, S, k + 1)
    BY <2>1, <2>2, SumGrows
  <2> QED BY <2>1, <2>3
<1> QED BY <1>3, <1>4

LEMMA SumExists ==
  ASSUME NEW S, IsFiniteSet(S), NEW f
  PROVE  \E g : IsSum(g, f, S)
<1>1. Cardinality(S) \in Nat
  BY FS_CardinalityType
<1>2. PICK g : SumsTo(g, f, S, Cardinality(S))
  BY <1>1, SumsExist
<1>3. \A s \in SUBSET S : Cardinality(s) <= Cardinality(S)
  BY FS_Subset
<1>4. g = [s \in SUBSET S |-> Summed(g, f, s)]
  BY <1>2, <1>3 DEF SumsTo
<1> QED BY <1>4 DEF IsSum

\* It does not matter of which set s is taken to be a part.
LEMMA SumsAgree ==
  ASSUME NEW S, IsFiniteSet(S), NEW T \in SUBSET S, NEW f, NEW e, \A x \in T : e[x] = f[x],
         NEW g, NEW h, IsSum(g, f, S), IsSum(h, e, T)
  PROVE  g[T] = h[T]
<1> DEFINE Differing == {n \in Nat : \E s \in SUBSET T : Cardinality(s) = n /\ g[s] # h[s]}
<1>1. SUFFICES ASSUME Differing # {} PROVE FALSE
  <2>1. Cardinality(T) \in Nat /\ T \in SUBSET T
    BY Smaller
  <2> QED BY <2>1
<1>2. PICK n \in Differing : \A k \in Differing : n <= k
  <2>1. Differing \in SUBSET Nat
    OBVIOUS
  <2> HIDE DEF Differing
  <2> QED BY <1>1, <2>1, Least
<1>3. PICK s \in SUBSET T : Cardinality(s) = n /\ g[s] # h[s]
  BY <1>2
<1>4. s \in SUBSET S
  OBVIOUS
<1>5. g[s] = Summed(g, f, s) /\ h[s] = Summed(h, e, s)
  BY <1>4 DEF IsSum
<1>6. s # {}
  BY <1>3, <1>5 DEF Summed
<1>7. PICK x \in s : x = Pick(s)
  BY <1>6, Picked
<1>8. Cardinality(s \ {x}) = n - 1 /\ n - 1 \in Nat
  <2>1. n \in Nat /\ n # 0
    BY <1>2, <1>3, <1>4, <1>6, Smaller
  <2>2. Cardinality(s \ {x}) = Cardinality(s) - 1
    BY <1>4, Smaller
  <2> QED BY <1>3, <2>1, <2>2
<1>9. g[s \ {x}] = h[s \ {x}]
  <2>1. n - 1 \notin Differing
    BY <1>2, <1>8
  <2> QED BY <1>8, <2>1
<1> QED BY <1>3, <1>5, <1>6, <1>7, <1>9 DEF Summed

LEMMA TotalOfPart ==
  ASSUME NEW S, IsFiniteSet(S), NEW f, NEW g, IsSum(g, f, S), NEW T \in SUBSET S
  PROVE  Total([x \in T |-> f[x]]) = g[T]
<1> DEFINE e == [x \in T |-> f[x]]
<1>1. IsFiniteSet(T)
  BY FS_Subset
<1>2. PICK h : h = (CHOOSE k : IsSum(k, e, T))
  OBVIOUS
<1>3. IsSum(h, e, T)
  <2>1. \E k : IsSum(k, e, T)
    BY <1>1, SumExists
  <2> QED BY <1>2, <2>1
<1>4. Total(e) = h[T]
  <2>1. DOMAIN e = T
    OBVIOUS
  <2> HIDE DEF e
  <2> QED BY <1>2, <2>1, TotalIsSum
<1>5. \A x \in T : e[x] = f[x]
  OBVIOUS
<1> HIDE DEF e
<1>6. g[T] = h[T]
  BY <1>3, <1>5, SumsAgree
<1> QED BY <1>4, <1>6 DEF e

LEMMA SumTypes ==
  ASSUME NEW S, IsFiniteSet(S), NEW f, \A x \in S : f[x] \in Int, NEW g, IsSum(g, f, S)
  PROVE  \A s \in SUBSET S : g[s] \in Int
<1> DEFINE Wrong == {n \in Nat : \E s \in SUBSET S : Cardinality(s) = n /\ g[s] \notin Int}
<1>1. SUFFICES ASSUME Wrong # {} PROVE FALSE
  <2>1. \A s \in SUBSET S : Cardinality(s) \in Nat
    BY Smaller
  <2> QED BY <2>1
<1>2. PICK n \in Wrong : \A k \in Wrong : n <= k
  <2>1. Wrong \in SUBSET Nat
    OBVIOUS
  <2> HIDE DEF Wrong
  <2> QED BY <1>1, <2>1, Least
<1>3. PICK s \in SUBSET S : Cardinality(s) = n /\ g[s] \notin Int
  BY <1>2
<1>4. g[s] = Summed(g, f, s)
  BY DEF IsSum
<1>5. s # {}
  BY <1>3, <1>4 DEF Summed
<1>6. PICK x \in s : x = Pick(s)
  BY <1>5, Picked
<1>7. Cardinality(s \ {x}) = n - 1 /\ n - 1 \in Nat /\ s \ {x} \in SUBSET S
  <2>1. n \in Nat /\ n # 0
    BY <1>2, <1>3, <1>5, Smaller
  <2>2. Cardinality(s \ {x}) = Cardinality(s) - 1
    BY Smaller
  <2> QED BY <1>3, <2>1, <2>2
<1>8. g[s \ {x}] \in Int
  <2>1. n - 1 \notin Wrong
    BY <1>2, <1>7
  <2> QED BY <1>7, <2>1
<1> QED BY <1>3, <1>4, <1>5, <1>6, <1>8 DEF Summed

\* Any member may be taken first.
LEMMA AnyFirst ==
  ASSUME NEW S, IsFiniteSet(S), NEW f, \A x \in S : f[x] \in Int, NEW g, IsSum(g, f, S)
  PROVE  \A s \in SUBSET S : \A x \in s : g[s] = f[x] + g[s \ {x}]
<1> DEFINE Wrong == {n \in Nat : \E s \in SUBSET S : Cardinality(s) = n /\ \E x \in s : g[s] # f[x] + g[s \ {x}]}
<1>1. SUFFICES ASSUME Wrong # {} PROVE FALSE
  <2>1. \A s \in SUBSET S : Cardinality(s) \in Nat
    BY Smaller
  <2> QED BY <2>1
<1>2. PICK n \in Wrong : \A k \in Wrong : n <= k
  <2>1. Wrong \in SUBSET Nat
    OBVIOUS
  <2> HIDE DEF Wrong
  <2> QED BY <1>1, <2>1, Least
<1>0. PICK s \in SUBSET S : Cardinality(s) = n /\ \E x \in s : g[s] # f[x] + g[s \ {x}]
  BY <1>2
<1>3. PICK x \in s : Cardinality(s) = n /\ g[s] # f[x] + g[s \ {x}]
  BY <1>0
<1>4. PICK c \in s : c = Pick(s)
  BY <1>3, Picked
<1>5. g[s] = f[c] + g[s \ {c}]
  <2>1. g[s] = Summed(g, f, s)
    BY DEF IsSum
  <2> QED BY <1>4, <2>1 DEF Summed
<1>6. x # c
  BY <1>3, <1>5
<1>7. PICK r \in SUBSET S : r = (s \ {x}) \ {c}
  OBVIOUS
<1>8. ASSUME NEW y \in s, NEW z \in s, y # z PROVE g[s \ {y}] = f[z] + g[(s \ {y}) \ {z}]
  <2>1. n \in Nat /\ Cardinality(s \ {y}) = n - 1 /\ n - 1 \in Nat
    <3>1. Cardinality(s \ {y}) = Cardinality(s) - 1 /\ Cardinality(s) \in Nat /\ Cardinality(s) # 0
      BY <1>3, Smaller
    <3> QED BY <1>3, <3>1
  <2>2. n - 1 \notin Wrong
    BY <1>2, <2>1
  <2>3. s \ {y} \in SUBSET S /\ z \in s \ {y}
    BY <1>8
  <2> QED BY <2>1, <2>2, <2>3
<1>9. g[s \ {c}] = f[x] + g[r]
  <2>1. (s \ {c}) \ {x} = r
    BY <1>7
  <2> QED BY <1>6, <1>8, <2>1
<1>10. g[s \ {x}] = f[c] + g[r]
  BY <1>6, <1>7, <1>8
<1>11. f[x] \in Int /\ f[c] \in Int /\ g[r] \in Int
  BY <1>7, SumTypes
<1> QED BY <1>3, <1>5, <1>9, <1>10, <1>11

LEMMA TotalNone == Total([x \in {} |-> 0]) = 0
<1> DEFINE f == [x \in {} |-> 0]
<1>1. IsFiniteSet({})
  BY FS_EmptySet
<1>2. PICK g : IsSum(g, f, {})
  BY <1>1, SumExists
<1>3. Total([x \in {} |-> f[x]]) = g[{}]
  BY <1>1, <1>2, TotalOfPart
<1>4. g[{}] = 0
  BY <1>2 DEF IsSum, Summed
<1>5. f = [x \in {} |-> f[x]]
  OBVIOUS
<1> QED BY <1>3, <1>4, <1>5

\* The total of the parts.
LEMMA TotalSplits ==
  ASSUME NEW S, IsFiniteSet(S), NEW f \in [S -> Int], NEW x \in S
  PROVE  Total(f) = f[x] + Total([y \in S \ {x} |-> f[y]])
<1>1. PICK g : IsSum(g, f, S)
  BY SumExists
<1>2. Total([y \in S |-> f[y]]) = g[S] /\ f = [y \in S |-> f[y]]
  BY <1>1, TotalOfPart
<1>3. Total([y \in S \ {x} |-> f[y]]) = g[S \ {x}]
  BY <1>1, TotalOfPart
<1>4. g[S] = f[x] + g[S \ {x}]
  BY <1>1, AnyFirst
<1> QED BY <1>2, <1>3, <1>4

LEMMA TotalOne ==
  ASSUME NEW a, NEW f \in [{a} -> Int]
  PROVE  Total(f) = f[a]
<1>1. IsFiniteSet({a})
  BY FS_Singleton
<1>2. Total(f) = f[a] + Total([y \in {a} \ {a} |-> f[y]])
  BY <1>1, TotalSplits
<1>3. [y \in {a} \ {a} |-> f[y]] = [x \in {} |-> 0]
  OBVIOUS
<1>4. f[a] \in Int
  OBVIOUS
<1>5. Total([y \in {a} \ {a} |-> f[y]]) = 0
  BY <1>3, TotalNone, Zenon
<1> QED BY <1>2, <1>4, <1>5

LEMMA TotalTwo ==
  ASSUME NEW a, NEW b, a # b, NEW f \in [{a, b} -> Int]
  PROVE  Total(f) = f[a] + f[b]
<1>1. IsFiniteSet({a, b})
  <2>1. IsFiniteSet({a}) /\ {a, b} = {a} \cup {b}
    BY FS_Singleton
  <2> QED BY <2>1, FS_AddElement
<1>2. Total(f) = f[a] + Total([y \in {a, b} \ {a} |-> f[y]])
  BY <1>1, TotalSplits
<1>3. {a, b} \ {a} = {b}
  OBVIOUS
<1>4. Total([y \in {b} |-> f[y]]) = f[b]
  <2> PICK e : e = [y \in {b} |-> f[y]]
    OBVIOUS
  <2>1. e \in [{b} -> Int] /\ e[b] = f[b]
    OBVIOUS
  <2> QED BY <2>1, TotalOne
<1> QED BY <1>2, <1>3, <1>4

LEMMA MaxOfTwo ==
  ASSUME NEW a \in Int, NEW b \in Int
  PROVE  Max({a, b}) = IF a >= b THEN a ELSE b
<1> PICK m \in {a, b} : m = IF a >= b THEN a ELSE b
  OBVIOUS
<1>1. \A y \in {a, b} : m >= y
  OBVIOUS
<1>2. \A x \in {a, b} : (\A y \in {a, b} : x >= y) => x = m
  BY <1>1
<1> QED BY <1>1, <1>2 DEF Max

LEMMA MinOfTwo ==
  ASSUME NEW a \in Int, NEW b \in Int
  PROVE  Min({a, b}) = IF a <= b THEN a ELSE b
<1> PICK m \in {a, b} : m = IF a <= b THEN a ELSE b
  OBVIOUS
<1>1. \A y \in {a, b} : m <= y
  OBVIOUS
<1>2. \A x \in {a, b} : (\A y \in {a, b} : x <= y) => x = m
  BY <1>1
<1> QED BY <1>1, <1>2 DEF Min

LEMMA MinOfThree ==
  ASSUME NEW a \in Int, NEW b \in Int, NEW c \in Int, b <= c
  PROVE  Min({a, b, c}) = IF a <= b THEN a ELSE b
<1> PICK m \in {a, b, c} : m = IF a <= b THEN a ELSE b
  OBVIOUS
<1>1. \A y \in {a, b, c} : m <= y
  OBVIOUS
<1>2. \A x \in {a, b, c} : (\A y \in {a, b, c} : x <= y) => x = m
  BY <1>1
<1> QED BY <1>1, <1>2 DEF Min

LEMMA MinIn ==
  ASSUME NEW S \in SUBSET Nat, S # {}
  PROVE  Min(S) \in S /\ \A y \in S : Min(S) <= y
<1>1. \E m \in S : \A y \in S : m <= y
  BY Least
<1> QED BY <1>1 DEF Min

LEMMA MaxIn ==
  ASSUME NEW b \in Nat, NEW S \in SUBSET (0..b), S # {}
  PROVE  Max(S) \in S
<1> DEFINE D == {d \in 0..b : b - d \in S}
<1>1. D \in SUBSET Nat
  OBVIOUS
<1>2. D # {}
  <2>1. PICK x \in S : TRUE
    OBVIOUS
  <2>2. b - x \in 0..b /\ b - (b - x) = x
    BY <2>1
  <2> QED BY <2>1, <2>2
<1>3. PICK d \in D : \A e \in D : d <= e
  <2> HIDE DEF D
  <2> QED BY <1>1, <1>2, Least
<1>4. b - d \in S
  BY <1>3
<1>5. ASSUME NEW y \in S PROVE b - d >= y
  <2>1. b - y \in 0..b /\ b - (b - y) = y
    OBVIOUS
  <2>2. b - y \in D
    BY <2>1
  <2>3. d <= b - y
    BY <1>3, <2>2
  <2> QED BY <1>3, <2>1, <2>3
<1>6. \E x \in S : \A y \in S : x >= y
  BY <1>4, <1>5
<1> QED BY <1>6 DEF Max

-----------------------------------------------------------------------------
Roles == {"orchestrator", "utility", "worker"}
NoticeKinds == {"cpu_only", "no_27b_resident", "gpu_too_small", "loadout_overflow", "family_degraded",
            "dspark_unavailable", "vram_tight", "orchestrator_ctx_reduced", "ultra_sequential",
            "workers_degraded", "turboquant_prebuilt_fallback"}
PlannedSlot == [role : Roles, model : Models, family : Families, gpu : Nat, mb : Nat, buffers : Nat]
LoadoutPlan == [slots : Seq(PlannedSlot), kv : Nat, notices : SUBSET NoticeKinds]
Measured == [Models \X Families -> Nat \cup {Analytic}]

LoadoutTypes ==
  /\ machine \in Machines
  /\ plan \in LoadoutPlan
  /\ plan.slots # <<>> => settings \in Settings
  /\ measured \in Measured

Sizes(slots, is) == Total([i \in is |-> slots[i].mb])
On(p, gpu) == {i \in DOMAIN p.slots : p.slots[i].gpu = gpu}
WorkersOf(p) == {i \in DOMAIN p.slots : p.slots[i].role = "worker"}
IsTight(p) == "vram_tight" \in p.notices

FitsMachine(p) ==
  \A gpu \in DOMAIN machine.gpus :
    On(p, gpu) # {} =>
      Sizes(p.slots, On(p, gpu)) <= machine.gpus[gpu]
        - (IF IsTight(p) /\ gpu = 1 THEN 0 ELSE Margin(machine.gpus[gpu]))

IsAnalytic == \A mf \in DOMAIN measured : measured[mf] = Analytic
RungTotal(s, f, kv, i) == Total(RungMbs(s, f, kv, WorkerLadder[i]))

BestWorkers(p, s) ==
  LET room == WorkerPool(Sizes(p.slots, DOMAIN p.slots \ WorkersOf(p)), IsTight(p))
  IN \A i \in Rungs(s) :
       RungTotal(s, p.slots[1].family, p.kv, i) <= room
         => RungTotal(s, p.slots[1].family, p.kv, i) <= Sizes(p.slots, WorkersOf(p))

IsBest(p, s) ==
  p.slots # <<>> /\ "cpu_only" \notin p.notices => FitsMachine(p) /\ (IsAnalytic => BestWorkers(p, s))

LEMMA BestFitIs == BestFit <=> IsBest(plan, settings)
<1>1. Workers = WorkersOf(plan) /\ \A gpu : OnGpu(gpu) = On(plan, gpu)
  BY DEF Workers, WorkersOf, OnGpu, On
<1>2. \A is : SizeOf(is) = Sizes(plan.slots, is)
  BY DEF SizeOf, Sizes
<1> QED BY <1>1, <1>2 DEF BestFit, IsBest, FitsMachine, BestWorkers, IsTight, IsAnalytic, RungTotal

-----------------------------------------------------------------------------
LEMMA BuffersType == ASSUME measured \in Measured, NEW m \in Models, NEW f \in Families PROVE Buffers(m, f) \in Nat
<1>1. <<m, f>> \in Models \X Families
  OBVIOUS
<1>2. measured[<<m, f>>] \in Nat \cup {Analytic}
  BY <1>1 DEF Measured
<1>3. BufferPrior(m) \in Nat
  BY DEF BufferPrior
<1> QED BY <1>2, <1>3 DEF Buffers

LEMMA KvType == ASSUME NEW m \in Models, NEW ctx \in Nat, NEW kv \in Nat PROVE Kv(m, ctx, kv) \in Nat
<1>1. PICK p \in Nat : p = kv * ctx
  OBVIOUS
<1>2. \A n \in {4, 7, 9} : (p * n) \div 4 \in Nat
  OBVIOUS
<1> QED BY <1>1, <1>2 DEF Kv

LEMMA WeightsType == ASSUME NEW m \in Models, NEW f \in Families PROVE Weights(m, f) \in Nat
BY DEF Weights, Models, Families

LEMMA CostType ==
  ASSUME measured \in Measured, NEW m \in Models, NEW f \in Families, NEW ctx \in Nat, NEW kv \in Nat
  PROVE  Cost(m, f, ctx, kv) \in Nat
<1>1. Weights(m, f) \in Nat /\ Kv(m, ctx, kv) \in Nat /\ Buffers(m, f) \in Nat
  BY BuffersType, KvType, WeightsType
<1> QED BY <1>1 DEF Cost

LEMMA SlotType ==
  ASSUME measured \in Measured, NEW m \in Models, NEW f \in Families, NEW role \in Roles,
         NEW gpu \in Nat, NEW mb \in Nat
  PROVE  Slot(role, m, f, gpu, mb) \in PlannedSlot
BY BuffersType DEF Slot, PlannedSlot

LEMMA MarginType == ASSUME NEW v \in Nat PROVE Margin(v) \in Nat
<1>1. (v * 8) \div 100 \in Nat
  OBVIOUS
<1> QED BY <1>1, MaxOfTwo DEF Margin

LEMMA RungCtxIs ==
  ASSUME NEW s \in Settings, NEW m \in {"8b", "4b", "1.7b"}
  PROVE  RungCtx(s, m) \in Nat /\ RungCtx(s, m) = RungCtx(s, "8b")
<1>1. s.worker_ctx \in Nat
  <2>1. s.worker_ctx \in {2 * n : n \in 1..200}
    BY LoadoutAssumption DEF LoadoutAssumption
  <2> QED BY <2>1
<1>2. MaxCtx("1.7b") = 32 /\ MaxCtx("8b") = 64 /\ MaxCtx("4b") = 32
  BY DEF MaxCtx
<1>3. ASSUME NEW k \in {"8b", "4b", "1.7b"}
      PROVE  RungCtx(s, k) = IF s.worker_ctx <= 32 THEN s.worker_ctx ELSE 32
  BY <1>1, <1>2, MinOfThree DEF RungCtx
<1> QED BY <1>1, <1>3

LEMMA LadderIs ==
  /\ DOMAIN WorkerLadder = 1..7
  /\ WorkerLadder[1] = <<"8b", "8b">> /\ WorkerLadder[2] = <<"8b", "4b">>
  /\ WorkerLadder[3] = <<"4b", "4b">> /\ WorkerLadder[4] = <<"8b">>
  /\ WorkerLadder[5] = <<"4b">> /\ WorkerLadder[6] = <<"1.7b">> /\ WorkerLadder[7] = <<>>
BY DEF WorkerLadder

LEMMA RungMbsAre ==
  ASSUME measured \in Measured, NEW s \in Settings, NEW f \in Families, NEW kv \in Nat,
         NEW i \in DOMAIN WorkerLadder
  PROVE  LET rung == WorkerLadder[i] IN
           /\ Len(rung) \in 0..2 /\ DOMAIN rung = 1..Len(rung)
           /\ \A k \in DOMAIN rung : rung[k] \in {"8b", "4b", "1.7b"}
           /\ RungMbs(s, f, kv, rung) \in [1..Len(rung) -> Nat]
<1>1. i \in 1..7
  BY LadderIs
<1>2. PICK rung : rung = WorkerLadder[i]
  OBVIOUS
<1>3. Len(rung) \in 0..2 /\ DOMAIN rung = 1..Len(rung) /\ \A k \in DOMAIN rung : rung[k] \in {"8b", "4b", "1.7b"}
  <2>1. i = 1 \/ i = 2 \/ i = 3 \/ i = 4 \/ i = 5 \/ i = 6 \/ i = 7
    BY <1>1
  <2>2. CASE i = 1
    BY <1>2, <2>2, LadderIs
  <2>3. CASE i = 2
    BY <1>2, <2>3, LadderIs
  <2>4. CASE i = 3
    BY <1>2, <2>4, LadderIs
  <2>5. CASE i = 4
    BY <1>2, <2>5, LadderIs
  <2>6. CASE i = 5
    BY <1>2, <2>6, LadderIs
  <2>7. CASE i = 6
    BY <1>2, <2>7, LadderIs
  <2>8. CASE i = 7
    BY <1>2, <2>8, LadderIs
  <2> QED BY <2>1, <2>2, <2>3, <2>4, <2>5, <2>6, <2>7, <2>8
<1>4. ASSUME NEW k \in DOMAIN rung PROVE Cost(rung[k], f, RungCtx(s, rung[k]), kv) \in Nat
  <2>1. rung[k] \in Models /\ RungCtx(s, rung[k]) \in Nat
    BY <1>3, RungCtxIs DEF Models
  <2> QED BY <2>1, CostType
<1>5. RungMbs(s, f, kv, rung) \in [1..Len(rung) -> Nat]
  BY <1>3, <1>4 DEF RungMbs
<1> QED BY <1>2, <1>3, <1>5

LEMMA TotalWithout ==
  ASSUME NEW S, IsFiniteSet(S), NEW f \in [S -> Int], NEW x \in S, NEW T, T = S \ {x}
  PROVE  Total(f) = f[x] + Total([y \in T |-> f[y]])
BY TotalSplits

LEMMA TotalMore ==
  ASSUME NEW n \in Nat, NEW f \in [1..n + 1 -> Int]
  PROVE  Total(f) = f[n + 1] + Total([y \in 1..n |-> f[y]])
<1> PICK S : S = 1..n + 1
  OBVIOUS
<1> PICK T : T = 1..n
  OBVIOUS
<1>1. IsFiniteSet(S)
  <2> PICK m \in Int : m = n + 1
    OBVIOUS
  <2>1. 1 \in Int /\ m \in Int
    OBVIOUS
  <2>2. IsFiniteSet(1..m)
    BY <2>1, FS_Interval
  <2> QED BY <2>2
<1> PICK x : x = n + 1
  OBVIOUS
<1>2. x \in S /\ T = S \ {x}
  OBVIOUS
<1>3. f \in [S -> Int]
  OBVIOUS
<1>4. Total(f) = f[x] + Total([y \in T |-> f[y]])
  BY <1>1, <1>2, <1>3, TotalWithout
<1> QED BY <1>4

LEMMA TotalNothing == ASSUME NEW f, f = [x \in {} |-> 0] PROVE Total(f) = 0
BY TotalNone, Zenon

\* The sizes of two slots and at most two workers after them.
LEMMA SlotSizes ==
  ASSUME NEW n \in 0..2, NEW f \in [1..n + 2 -> Nat], NEW mbs \in [1..n -> Nat],
         \A k \in 1..n : f[k + 2] = mbs[k]
  PROVE  /\ Total(mbs) \in Nat
         /\ Total([i \in {1, 2} |-> f[i]]) = f[1] + f[2]
         /\ Total([i \in 3..n + 2 |-> f[i]]) = Total(mbs)
         /\ Total([i \in 1..n + 2 |-> f[i]]) = f[1] + f[2] + Total(mbs)
<1>0. ASSUME NEW e, NEW i \in 1..n + 2, e = [x \in {i} |-> f[x]] PROVE Total(e) = f[i]
  <2>1. e \in [{i} -> Int] /\ e[i] = f[i]
    BY <1>0
  <2> QED BY <2>1, TotalOne
<1>1. ASSUME NEW e, NEW i \in 1..n + 2, NEW j \in 1..n + 2, i # j, e = [x \in {i, j} |-> f[x]]
      PROVE  Total(e) = f[i] + f[j]
  <2>1. e \in [{i, j} -> Int] /\ e[i] = f[i] /\ e[j] = f[j]
    BY <1>1
  <2> QED BY <1>1, <2>1, TotalTwo
<1>2. Total([i \in {1, 2} |-> f[i]]) = f[1] + f[2]
  <2>1. 1 \in 1..n + 2 /\ 2 \in 1..n + 2 /\ 1 # 2
    OBVIOUS
  <2> QED BY <1>1, <2>1
<1>3. n = 0 \/ n = 1 \/ n = 2
  OBVIOUS
<1>4. CASE n = 0
  <2>1. 1..n = {} /\ 3..n + 2 = {} /\ 1..n + 2 = {1, 2}
    BY <1>4
  <2>2. mbs = [x \in {} |-> 0] /\ [i \in 3..n + 2 |-> f[i]] = [x \in {} |-> 0]
    BY <2>1
  <2>3. Total(mbs) = 0 /\ Total([i \in 3..n + 2 |-> f[i]]) = 0
    BY <2>2, TotalNothing
  <2>4. Total([i \in 1..n + 2 |-> f[i]]) = f[1] + f[2]
    BY <1>2, <2>1
  <2>5. f[1] \in Nat /\ f[2] \in Nat
    BY <1>4
  <2> QED BY <1>2, <2>3, <2>4, <2>5
<1>5. CASE n = 1
  <2>1. 1..n = {1} /\ 3..n + 2 = {3} /\ 1..n + 2 = 1..2 + 1 /\ 1..2 = {1, 2} /\ mbs[1] = f[3]
    BY <1>5
  <2>2. Total(mbs) = mbs[1]
    <3>1. mbs \in [{1} -> Int]
      BY <2>1
    <3> QED BY <3>1, TotalOne
  <2>3. Total([i \in 3..n + 2 |-> f[i]]) = f[3]
    BY <1>0, <1>5, <2>1
  <2>4. Total([i \in 1..n + 2 |-> f[i]]) = f[3] + Total([i \in {1, 2} |-> f[i]])
    <3> PICK e : e = [i \in 1..n + 2 |-> f[i]]
      OBVIOUS
    <3>1. e \in [1..2 + 1 -> Int] /\ e[2 + 1] = f[3] /\ [i \in 1..2 |-> e[i]] = [i \in {1, 2} |-> f[i]]
      BY <1>5, <2>1
    <3>2. Total(e) = e[2 + 1] + Total([i \in 1..2 |-> e[i]])
      BY <3>1, TotalMore
    <3> QED BY <3>1, <3>2
  <2> QED BY <1>2, <1>5, <2>1, <2>2, <2>3, <2>4
<1>6. CASE n = 2
  <2>1. 1..n = {1, 2} /\ 3..n + 2 = {3, 4} /\ 1..n + 2 = 1..3 + 1 /\ 1..3 = 1..2 + 1 /\ 1..2 = {1, 2}
        /\ mbs[1] = f[3] /\ mbs[2] = f[4]
    BY <1>6
  <2>2. Total(mbs) = mbs[1] + mbs[2]
    <3>1. mbs \in [{1, 2} -> Int] /\ 1 # 2
      BY <2>1
    <3> QED BY <3>1, TotalTwo
  <2>3. Total([i \in 3..n + 2 |-> f[i]]) = f[3] + f[4]
    BY <1>1, <1>6, <2>1
  <2>4. Total([i \in 1..n + 2 |-> f[i]]) = f[4] + (f[3] + Total([i \in {1, 2} |-> f[i]]))
    <3> PICK e : e = [i \in 1..n + 2 |-> f[i]]
      OBVIOUS
    <3> PICK d : d = [i \in 1..3 |-> e[i]]
      OBVIOUS
    <3>1. e \in [1..3 + 1 -> Int] /\ e[3 + 1] = f[4]
      BY <1>6, <2>1
    <3>2. Total(e) = e[3 + 1] + Total(d)
      BY <3>1, TotalMore
    <3>3. d \in [1..2 + 1 -> Int] /\ d[2 + 1] = f[3] /\ [i \in 1..2 |-> d[i]] = [i \in {1, 2} |-> f[i]]
      BY <1>6, <2>1
    <3>4. Total(d) = d[2 + 1] + Total([i \in 1..2 |-> d[i]])
      BY <3>3, TotalMore
    <3> QED BY <3>1, <3>2, <3>3, <3>4
  <2> QED BY <1>2, <1>6, <2>1, <2>2, <2>3, <2>4
<1> QED BY <1>3, <1>4, <1>5, <1>6

LEMMA RungTotalType ==
  ASSUME measured \in Measured, NEW s \in Settings, NEW f \in Families, NEW kv \in Nat,
         NEW i \in DOMAIN WorkerLadder
  PROVE  RungTotal(s, f, kv, i) \in Nat
<1> PICK n \in 0..2 : n = Len(WorkerLadder[i])
  BY RungMbsAre
<1> PICK mbs \in [1..n -> Nat] : mbs = RungMbs(s, f, kv, WorkerLadder[i])
  BY RungMbsAre
<1>1. Total(mbs) \in Nat
  <2>1. CASE n = 0
    <3>1. mbs = [x \in {} |-> 0]
      BY <2>1
    <3> QED BY <3>1, TotalNothing
  <2>2. CASE n = 1
    <3>1. mbs \in [{1} -> Int] /\ mbs[1] \in Nat
      BY <2>2
    <3>2. Total(mbs) = mbs[1]
      BY <3>1, TotalOne
    <3> QED BY <3>1, <3>2
  <2>3. CASE n = 2
    <3>1. mbs \in [{1, 2} -> Int] /\ 1 # 2 /\ mbs[1] \in Nat /\ mbs[2] \in Nat
      BY <2>3
    <3>2. Total(mbs) = mbs[1] + mbs[2]
      BY <3>1, TotalTwo
    <3> QED BY <3>1, <3>2
  <2> QED BY <2>1, <2>2, <2>3
<1> QED BY <1>1 DEF RungTotal

-----------------------------------------------------------------------------
(* While nothing is measured, each rung of the ladder is at most as large as the
   one before: then the first that fits is the largest that does. *)

LEMMA AnalyticCost ==
  ASSUME measured \in Measured, IsAnalytic, NEW m \in {"8b", "4b", "1.7b"}, NEW f \in Families,
         NEW ctx, NEW kv
  PROVE  Cost(m, f, ctx, kv) = Weights(m, f) + Kv(m, ctx, kv) + 614
<1>1. <<m, f>> \in DOMAIN measured
  <2>1. <<m, f>> \in Models \X Families
    BY DEF Models
  <2> QED BY <2>1 DEF Measured
<1>2. measured[<<m, f>>] = Analytic
  BY <1>1 DEF IsAnalytic
<1> QED BY <1>2 DEF Cost, Buffers, BufferPrior

LEMMA QuartersGrow == ASSUME NEW a \in Nat, NEW b \in Nat, a <= b PROVE a \div 4 <= b \div 4
OBVIOUS

\* What is nothing measured, the sizes of the models are in their order.
LEMMA CostsOrdered ==
  ASSUME measured \in Measured, IsAnalytic, NEW f \in Families, NEW ctx \in Nat, NEW kv \in Nat
  PROVE  /\ Cost("8b", f, ctx, kv) >= Cost("4b", f, ctx, kv)
         /\ Cost("4b", f, ctx, kv) >= Cost("1.7b", f, ctx, kv)
         /\ 2 * Cost("4b", f, ctx, kv) >= Cost("8b", f, ctx, kv)
<1>1. PICK a \in Nat : a = Kv("8b", ctx, kv) /\ a = Kv("4b", ctx, kv)
  <2>1. Kv("8b", ctx, kv) = Kv("4b", ctx, kv)
    BY DEF Kv
  <2>2. Kv("8b", ctx, kv) \in Nat
    BY KvType DEF Models
  <2> QED BY <2>1, <2>2
<1>2. PICK b \in Nat : b = Kv("1.7b", ctx, kv)
  BY KvType DEF Models
<1>3. a >= b
  <2>1. PICK p \in Nat : p = kv * ctx
    OBVIOUS
  <2>2. p * 7 <= p * 9 /\ p * 7 \in Nat /\ p * 9 \in Nat
    OBVIOUS
  <2>3. (p * 7) \div 4 <= (p * 9) \div 4
    BY <2>2, QuartersGrow
  <2> QED BY <1>1, <1>2, <2>1, <2>3 DEF Kv
<1>4. /\ Cost("8b", f, ctx, kv) = Weights("8b", f) + a + 614
      /\ Cost("4b", f, ctx, kv) = Weights("4b", f) + a + 614
      /\ Cost("1.7b", f, ctx, kv) = Weights("1.7b", f) + b + 614
  BY <1>1, <1>2, AnalyticCost
<1>5. f = "ternary" \/ f = "1bit"
  BY DEF Families
<1>6. CASE f = "ternary"
  <2>1. Weights("8b", f) = 2079 /\ Weights("4b", f) = 1024 /\ Weights("1.7b", f) = 440
    BY <1>6 DEF Weights
  <2> QED BY <1>3, <1>4, <2>1
<1>7. CASE f = "1bit"
  <2>1. Weights("8b", f) = 1106 /\ Weights("4b", f) = 543 /\ Weights("1.7b", f) = 236
    BY <1>7 DEF Weights
  <2> QED BY <1>3, <1>4, <2>1
<1> QED BY <1>5, <1>6, <1>7

LEMMA RungTotals ==
  ASSUME measured \in Measured, NEW s \in Settings, NEW f \in Families, NEW kv \in Nat,
         NEW a, a = Cost("8b", f, RungCtx(s, "8b"), kv),
         NEW b, b = Cost("4b", f, RungCtx(s, "8b"), kv),
         NEW c, c = Cost("1.7b", f, RungCtx(s, "8b"), kv)
  PROVE  /\ RungTotal(s, f, kv, 1) = a + a /\ RungTotal(s, f, kv, 2) = a + b
         /\ RungTotal(s, f, kv, 3) = b + b /\ RungTotal(s, f, kv, 4) = a
         /\ RungTotal(s, f, kv, 5) = b /\ RungTotal(s, f, kv, 6) = c
         /\ RungTotal(s, f, kv, 7) = 0
<1>1. a \in Nat /\ b \in Nat /\ c \in Nat
  <2>1. RungCtx(s, "8b") \in Nat
    BY RungCtxIs
  <2> QED BY <2>1, CostType DEF Models
<1>2. /\ Cost("8b", f, RungCtx(s, "8b"), kv) = a /\ Cost("4b", f, RungCtx(s, "4b"), kv) = b
      /\ Cost("1.7b", f, RungCtx(s, "1.7b"), kv) = c
  BY RungCtxIs
<1>3. ASSUME NEW m, NEW k, NEW x \in Nat, NEW y \in Nat,
             Cost(m, f, RungCtx(s, m), kv) = x, Cost(k, f, RungCtx(s, k), kv) = y
      PROVE  Total(RungMbs(s, f, kv, <<m, k>>)) = x + y
  <2>1. PICK g : g = RungMbs(s, f, kv, <<m, k>>)
    OBVIOUS
  <2>2. g = [i \in {1, 2} |-> IF i = 1 THEN x ELSE y]
    <3>1. DOMAIN <<m, k>> = {1, 2} /\ <<m, k>>[1] = m /\ <<m, k>>[2] = k
      OBVIOUS
    <3> QED BY <1>3, <2>1, <3>1 DEF RungMbs
  <2>3. g \in [{1, 2} -> Int] /\ g[1] = x /\ g[2] = y /\ 1 # 2
    BY <2>2
  <2>4. Total(g) = g[1] + g[2]
    BY <2>3, TotalTwo
  <2> QED BY <2>1, <2>3, <2>4
<1>4. ASSUME NEW m, NEW x \in Nat, Cost(m, f, RungCtx(s, m), kv) = x
      PROVE  Total(RungMbs(s, f, kv, <<m>>)) = x
  <2>1. PICK g : g = RungMbs(s, f, kv, <<m>>)
    OBVIOUS
  <2>2. g = [i \in {1} |-> x]
    <3>1. DOMAIN <<m>> = {1} /\ <<m>>[1] = m
      OBVIOUS
    <3> QED BY <1>4, <2>1, <3>1 DEF RungMbs
  <2>3. g \in [{1} -> Int] /\ g[1] = x
    BY <2>2
  <2>4. Total(g) = g[1]
    BY <2>3, TotalOne
  <2> QED BY <2>1, <2>3, <2>4
<1>5. Total(RungMbs(s, f, kv, <<>>)) = 0
  <2>1. PICK g : g = RungMbs(s, f, kv, <<>>)
    OBVIOUS
  <2>2. g = [x \in {} |-> 0]
    <3>1. DOMAIN <<>> = {}
      OBVIOUS
    <3> QED BY <2>1, <3>1 DEF RungMbs
  <2> QED BY <2>1, <2>2, TotalNothing
<1>6. RungTotal(s, f, kv, 1) = a + a
  BY <1>1, <1>2, <1>3, LadderIs DEF RungTotal
<1>7. RungTotal(s, f, kv, 2) = a + b
  BY <1>1, <1>2, <1>3, LadderIs DEF RungTotal
<1>8. RungTotal(s, f, kv, 3) = b + b
  BY <1>1, <1>2, <1>3, LadderIs DEF RungTotal
<1>9. RungTotal(s, f, kv, 4) = a /\ RungTotal(s, f, kv, 5) = b /\ RungTotal(s, f, kv, 6) = c
  BY <1>1, <1>2, <1>4, LadderIs DEF RungTotal
<1>10. RungTotal(s, f, kv, 7) = 0
  BY <1>5, LadderIs DEF RungTotal
<1> QED BY <1>6, <1>7, <1>8, <1>9, <1>10

LEMMA LadderFalls ==
  ASSUME measured \in Measured, IsAnalytic, NEW s \in Settings, NEW f \in Families, NEW kv \in Nat,
         NEW i \in DOMAIN WorkerLadder, NEW j \in DOMAIN WorkerLadder, i <= j
  PROVE  RungTotal(s, f, kv, i) >= RungTotal(s, f, kv, j)
<1>1. PICK ctx \in Nat : ctx = RungCtx(s, "8b")
  BY RungCtxIs
<1>2. PICK a \in Nat : a = Cost("8b", f, ctx, kv)
  BY CostType DEF Models
<1>3. PICK b \in Nat : b = Cost("4b", f, ctx, kv)
  BY CostType DEF Models
<1>4. PICK c \in Nat : c = Cost("1.7b", f, ctx, kv)
  BY CostType DEF Models
<1>5. a >= b /\ b >= c /\ 2 * b >= a
  BY <1>2, <1>3, <1>4, CostsOrdered
<1>6. PICK t : \A k \in 1..7 : t[k] = RungTotal(s, f, kv, k)
  <2>1. \A k \in 1..7 : [n \in 1..7 |-> RungTotal(s, f, kv, n)][k] = RungTotal(s, f, kv, k)
    OBVIOUS
  <2> QED BY <2>1
<1>7. /\ t[1] = a + a /\ t[2] = a + b /\ t[3] = b + b /\ t[4] = a
      /\ t[5] = b /\ t[6] = c /\ t[7] = 0
  BY <1>1, <1>2, <1>3, <1>4, <1>6, RungTotals
<1>8. i \in 1..7 /\ j \in 1..7
  BY LadderIs
<1>9. t[i] >= t[j]
  <2>1. /\ t[1] >= t[2] /\ t[2] >= t[3] /\ t[3] >= t[4] /\ t[4] >= t[5] /\ t[5] >= t[6] /\ t[6] >= t[7]
        /\ \A k \in 1..7 : t[k] \in Nat
    BY <1>5, <1>7
  <2> QED BY <1>8, <2>1
<1> QED BY <1>6, <1>8, <1>9

\* The slots of a plan for a GPU: orchestrator, utility model, at most two workers.
AreSlots(slots, o, u, w, n) ==
  /\ Len(slots) = n + 2 /\ DOMAIN slots = 1..n + 2 /\ slots # <<>>
  /\ slots[1] = o /\ slots[2] = u /\ \A k \in 1..n : slots[k + 2] = w[k]
  /\ \A i \in 1..n + 2 : i = 1 \/ i = 2 \/ i \in 3..n + 2
  /\ \A i \in 3..n + 2 : i - 2 \in 1..n /\ slots[i] = w[i - 2]

LEMMA SlotsOf ==
  ASSUME NEW n \in 0..2, NEW o, NEW u, NEW w, w = [k \in 1..n |-> w[k]], NEW slots, slots = <<o, u>> \o w
  PROVE  AreSlots(slots, o, u, w, n)
<1> PICK e : e = <<o, u>>
  OBVIOUS
<1> PICK A : A = {o, u} \cup {w[k] : k \in 1..n}
  OBVIOUS
<1>1. e \in Seq(A) /\ Len(e) = 2 /\ e[1] = o /\ e[2] = u
  OBVIOUS
<1>2. w \in Seq(A) /\ Len(w) = n
  <2>1. w \in [1..n -> A]
    <3>1. \A k \in 1..n : w[k] \in A
      OBVIOUS
    <3>2. [k \in 1..n |-> w[k]] \in [1..n -> A]
      BY <3>1
    <3> QED BY <3>2
  <2>2. n \in Nat
    OBVIOUS
  <2> QED BY <2>1, <2>2
<1>3. slots = e \o w
  OBVIOUS
<1>4. slots \in Seq(A) /\ Len(slots) = n + 2
  BY <1>1, <1>2, <1>3
<1>5. ASSUME NEW k \in 1..n PROVE slots[k + 2] = w[k]
  <2> PICK i : i = k + 2
    OBVIOUS
  <2>1. i \in 1..Len(e) + Len(w) /\ ~ (i <= Len(e)) /\ i - Len(e) = k
    BY <1>1, <1>2
  <2>2. (e \o w)[i] = w[i - Len(e)]
    BY <1>1, <1>2, <2>1
  <2> QED BY <1>3, <2>1, <2>2
<1>6. slots[1] = o /\ slots[2] = u
  <2>1. \A k \in 1..Len(e) : slots[k] = e[k]
    BY <1>1, <1>2, <1>3
  <2>2. 1 \in 1..Len(e) /\ 2 \in 1..Len(e)
    BY <1>1
  <2> QED BY <1>1, <2>1, <2>2
<1>7. DOMAIN slots = 1..n + 2 /\ slots # <<>>
  BY <1>4
<1>8. ASSUME NEW i \in 3..n + 2 PROVE i - 2 \in 1..n /\ slots[i] = w[i - 2]
  <2>1. i - 2 \in 1..n /\ (i - 2) + 2 = i
    OBVIOUS
  <2> QED BY <1>5, <2>1
<1> QED BY <1>4, <1>5, <1>6, <1>7, <1>8 DEF AreSlots

\* The rung that is taken: the first that fits, or none.
LEMMA RungTaken ==
  ASSUME measured \in Measured, NEW s \in Settings, NEW f \in Families, NEW kv \in Nat, NEW room \in Int,
         NEW fitting, \A i : i \in fitting <=> i \in Rungs(s) /\ RungTotal(s, f, kv, i) <= room,
         NEW rung, rung = IF fitting = {} THEN <<>> ELSE WorkerLadder[Min(fitting)]
  PROVE  /\ Len(rung) \in 0..2 /\ DOMAIN rung = 1..Len(rung)
         /\ \A k \in DOMAIN rung : rung[k] \in {"8b", "4b", "1.7b"}
         /\ RungMbs(s, f, kv, rung) \in [1..Len(rung) -> Nat]
         /\ rung # <<>> => Total(RungMbs(s, f, kv, rung)) <= room
         /\ IsAnalytic => \A i \in Rungs(s) : RungTotal(s, f, kv, i) <= room
                             => RungTotal(s, f, kv, i) <= Total(RungMbs(s, f, kv, rung))
<1>1. CASE fitting = {}
  <2>1. rung = <<>> /\ Len(rung) = 0 /\ DOMAIN rung = 1..Len(rung) /\ DOMAIN rung = {}
    BY <1>1
  <2>2. RungMbs(s, f, kv, rung) \in [1..Len(rung) -> Nat]
    BY <2>1 DEF RungMbs
  <2> QED BY <1>1, <2>1, <2>2
<1>2. CASE fitting # {}
  <2>1. fitting \in SUBSET Nat
    BY LadderIs DEF Rungs
  <2>2. PICK m \in fitting : m = Min(fitting) /\ \A i \in fitting : m <= i
    BY <1>2, <2>1, MinIn
  <2>3. rung = WorkerLadder[m] /\ m \in DOMAIN WorkerLadder /\ RungTotal(s, f, kv, m) <= room
    BY <1>2, <2>2 DEF Rungs
  <2>4. IsAnalytic => \A i \in Rungs(s) : RungTotal(s, f, kv, i) <= room
                        => RungTotal(s, f, kv, i) <= RungTotal(s, f, kv, m)
    <3> SUFFICES ASSUME IsAnalytic, NEW i \in Rungs(s), RungTotal(s, f, kv, i) <= room
                 PROVE  RungTotal(s, f, kv, i) <= RungTotal(s, f, kv, m)
      OBVIOUS
    <3>1. i \in fitting /\ i \in DOMAIN WorkerLadder
      BY DEF Rungs
    <3>2. m <= i
      BY <2>2, <3>1
    <3>3. RungTotal(s, f, kv, m) >= RungTotal(s, f, kv, i)
      BY <2>3, <3>1, <3>2, LadderFalls
    <3>4. RungTotal(s, f, kv, m) \in Nat /\ RungTotal(s, f, kv, i) \in Nat
      BY <2>3, <3>1, RungTotalType
    <3> QED BY <3>3, <3>4
  <2>5. RungTotal(s, f, kv, m) = Total(RungMbs(s, f, kv, rung))
    BY <2>3 DEF RungTotal
  <2>6. /\ Len(rung) \in 0..2 /\ DOMAIN rung = 1..Len(rung)
        /\ \A k \in DOMAIN rung : rung[k] \in {"8b", "4b", "1.7b"}
        /\ RungMbs(s, f, kv, rung) \in [1..Len(rung) -> Nat]
    BY <2>3, RungMbsAre
  <2> QED BY <2>3, <2>4, <2>5, <2>6
<1> QED BY <1>1, <1>2

LEMMA PoolType ==
  ASSUME machine \in Machines, machine.gpus # <<>>, NEW mandatory \in Nat, NEW tight \in BOOLEAN
  PROVE  /\ machine.gpus \in Seq(Nat) /\ machine.gpus[1] \in Nat
         /\ \A g \in DOMAIN machine.gpus : machine.gpus[g] \in Nat /\ Margin(machine.gpus[g]) \in Nat
         /\ WorkerPool(mandatory, tight) \in Int
<1> PICK gpus : gpus = machine.gpus
  OBVIOUS
<1>1. gpus \in Seq(Nat)
  BY LoadoutAssumption DEF LoadoutAssumption
<1>2. gpus[1] \in Nat /\ \A g \in DOMAIN gpus : gpus[g] \in Nat
  BY <1>1
<1>3. \A g \in DOMAIN gpus : Margin(gpus[g]) \in Nat
  BY <1>2, MarginType
<1>4. 1 \in DOMAIN gpus /\ (Len(gpus) > 1 => 2 \in DOMAIN gpus)
  BY <1>1
<1>5. WorkerPool(mandatory, tight) \in Int
  BY <1>2, <1>3, <1>4 DEF WorkerPool
<1> QED BY <1>1, <1>2, <1>3, <1>5

\* A plan whose first two slots leave what they have to.
LEMMA GpuPlanBest ==
  ASSUME measured \in Measured, machine \in Machines, machine.gpus # <<>>,
         NEW s \in Settings, NEW f \in Families, NEW kv \in Nat, NEW utility \in Models,
         NEW utilityMb \in Nat, NEW ctx \in Nat, NEW mb \in Nat, NEW notices \in SUBSET NoticeKinds,
         NEW tight \in BOOLEAN, tight <=> "vram_tight" \in notices,
         mb + utilityMb <= machine.gpus[1] - (IF tight THEN 0 ELSE Margin(machine.gpus[1])),
         NEW p, p = GpuPlan(s, f, kv, utility, utilityMb, ctx, mb, notices)
  PROVE  p \in LoadoutPlan /\ p.slots # <<>> /\ FitsMachine(p) /\ (IsAnalytic => BestWorkers(p, s))
<1>1. PICK room \in Int : room = WorkerPool(mb + utilityMb, tight)
  <2>1. mb + utilityMb \in Nat
    OBVIOUS
  <2> QED BY <2>1, PoolType
<1>2. PICK fitting : fitting = {i \in Rungs(s) : RungTotal(s, f, kv, i) <= room}
  OBVIOUS
<1>3. PICK rung : rung = IF fitting = {} THEN <<>> ELSE WorkerLadder[Min(fitting)]
  OBVIOUS
<1>0. /\ Len(rung) \in 0..2 /\ DOMAIN rung = 1..Len(rung)
      /\ \A k \in DOMAIN rung : rung[k] \in {"8b", "4b", "1.7b"}
      /\ RungMbs(s, f, kv, rung) \in [1..Len(rung) -> Nat]
      /\ rung # <<>> => Total(RungMbs(s, f, kv, rung)) <= room
      /\ IsAnalytic => \A i \in Rungs(s) : RungTotal(s, f, kv, i) <= room
                          => RungTotal(s, f, kv, i) <= Total(RungMbs(s, f, kv, rung))
  <2>1. \A i : i \in fitting <=> i \in Rungs(s) /\ RungTotal(s, f, kv, i) <= room
    BY <1>2
  <2> QED BY <1>3, <2>1, RungTaken
<1>4. PICK n \in 0..2 : n = Len(rung)
  BY <1>0
<1>5. PICK mbs \in [1..n -> Nat] : mbs = RungMbs(s, f, kv, rung)
  BY <1>0, <1>4
<1>6. /\ DOMAIN rung = 1..n /\ \A k \in 1..n : rung[k] \in {"8b", "4b", "1.7b"}
      /\ n > 0 => Total(mbs) <= room
      /\ IsAnalytic => \A i \in Rungs(s) : RungTotal(s, f, kv, i) <= room
                          => RungTotal(s, f, kv, i) <= Total(mbs)
  <2>1. n > 0 => rung # <<>>
    BY <1>4
  <2> QED BY <1>0, <1>4, <1>5, <2>1
<1>7. PICK gpu \in {1, 2} : gpu = IF Len(machine.gpus) > 1 THEN 2 ELSE 1
  OBVIOUS
<1>8. PICK o : o = Slot("orchestrator", "27b", f, 1, mb)
  OBVIOUS
<1>9. PICK u : u = Slot("utility", utility, f, 1, utilityMb)
  OBVIOUS
<1>10. PICK w : w = [k \in 1..n |-> Slot("worker", rung[k], f, gpu, mbs[k])]
  OBVIOUS
<1>11. PICK slots : slots = <<o, u>> \o w
  OBVIOUS
<1>12. p.slots = slots /\ p.kv = kv
       /\ p = [slots |-> slots, kv |-> kv, notices |-> p.notices] /\ p.notices \in SUBSET NoticeKinds
       /\ (IsTight(p) <=> tight)
  <2>1. PICK more : /\ more \in SUBSET {"orchestrator_ctx_reduced", "ultra_sequential", "workers_degraded"}
                    /\ p = [slots |-> slots, kv |-> kv, notices |-> notices \cup more]
    <3>1. PICK a : a = IF ctx < s.orchestrator_ctx THEN {"orchestrator_ctx_reduced"} ELSE {}
      OBVIOUS
    <3>2. PICK b : b = IF rung = <<>> THEN {"ultra_sequential"}
                       ELSE IF Min(fitting) > Min(Rungs(s)) THEN {"workers_degraded"} ELSE {}
      OBVIOUS
    <3>3. p = [slots |-> slots, kv |-> kv, notices |-> notices \cup a \cup b]
      BY <1>1, <1>2, <1>3, <1>5, <1>6, <1>7, <1>8, <1>9, <1>10, <1>11, <3>1, <3>2
      DEF GpuPlan, RungTotal
    <3>4. a \cup b \in SUBSET {"orchestrator_ctx_reduced", "ultra_sequential", "workers_degraded"}
      BY <3>1, <3>2
    <3>5. notices \cup a \cup b = notices \cup (a \cup b)
      OBVIOUS
    <3> QED BY <3>3, <3>4, <3>5
  <2>2. "vram_tight" \notin more
    BY <2>1
  <2>3. p.slots = slots /\ p.kv = kv /\ p.notices = notices \cup more
    BY <2>1
  <2>4. IsTight(p) <=> tight
    BY <2>2, <2>3 DEF IsTight
  <2>5. notices \cup more \in SUBSET NoticeKinds
    BY <2>1 DEF NoticeKinds
  <2>6. p = [slots |-> slots, kv |-> kv, notices |-> p.notices] /\ p.notices \in SUBSET NoticeKinds
    BY <2>1, <2>3, <2>5
  <2> QED BY <2>3, <2>4, <2>6
<1>13. /\ Len(slots) = n + 2 /\ DOMAIN slots = 1..n + 2 /\ slots # <<>>
       /\ slots[1] = o /\ slots[2] = u /\ \A k \in 1..n : slots[k + 2] = w[k]
       /\ \A i \in 1..n + 2 : i = 1 \/ i = 2 \/ i \in 3..n + 2
       /\ \A i \in 3..n + 2 : i - 2 \in 1..n /\ slots[i] = w[i - 2]
  <2>1. w = [k \in 1..n |-> w[k]]
    BY <1>10
  <2>2. AreSlots(slots, o, u, w, n)
    BY <1>11, <2>1, SlotsOf
  <2> QED BY <2>2 DEF AreSlots
<1>14. /\ o \in PlannedSlot /\ o.role = "orchestrator" /\ o.gpu = 1 /\ o.mb = mb /\ o.family = f
       /\ u \in PlannedSlot /\ u.role = "utility" /\ u.gpu = 1 /\ u.mb = utilityMb
  <2>2. Slot("orchestrator", "27b", f, 1, mb) \in PlannedSlot
    <3>1. "27b" \in Models /\ "orchestrator" \in Roles /\ 1 \in Nat
      BY DEF Models, Roles
    <3> QED BY <3>1, SlotType
  <2>3. Slot("utility", utility, f, 1, utilityMb) \in PlannedSlot
    <3>1. "utility" \in Roles /\ 1 \in Nat
      BY DEF Roles
    <3> QED BY <3>1, SlotType
  <2>1. o \in PlannedSlot /\ u \in PlannedSlot
    BY <1>8, <1>9, <2>2, <2>3
  <2> QED BY <1>8, <1>9, <2>1 DEF Slot
<1>15. ASSUME NEW k \in 1..n
       PROVE  w[k] \in PlannedSlot /\ w[k].role = "worker" /\ w[k].gpu = gpu /\ w[k].mb = mbs[k]
  <2>1. rung[k] \in Models /\ mbs[k] \in Nat /\ gpu \in Nat /\ "worker" \in Roles
    BY <1>6 DEF Models, Roles
  <2>2. w[k] = Slot("worker", rung[k], f, gpu, mbs[k])
    BY <1>10
  <2>3. Slot("worker", rung[k], f, gpu, mbs[k]) \in PlannedSlot
    BY <2>1, SlotType
  <2> QED BY <2>2, <2>3 DEF Slot
<1>16. \A i \in 1..n + 2 : slots[i] \in PlannedSlot
  BY <1>13, <1>14, <1>15
<1>17. p \in LoadoutPlan
  <2>1. slots \in Seq(PlannedSlot)
    <3>1. slots = [i \in 1..n + 2 |-> slots[i]]
      <4>1. w = [k \in 1..n |-> w[k]]
        BY <1>10
      <4> QED BY <1>11, <1>13
    <3>2. slots \in [1..n + 2 -> PlannedSlot]
      BY <1>16, <3>1
    <3>3. n + 2 \in Nat
      OBVIOUS
    <3> QED BY <3>2, <3>3
  <2> QED BY <1>12, <2>1 DEF LoadoutPlan
<1>18. PICK g \in [1..n + 2 -> Nat] : g = [i \in 1..n + 2 |-> slots[i].mb]
  BY <1>16 DEF PlannedSlot
<1>19. g[1] = mb /\ g[2] = utilityMb /\ \A k \in 1..n : g[k + 2] = mbs[k]
  <2>1. 1 \in 1..n + 2 /\ 2 \in 1..n + 2 /\ \A k \in 1..n : k + 2 \in 1..n + 2
    OBVIOUS
  <2>2. g[1] = slots[1].mb /\ g[2] = slots[2].mb /\ \A k \in 1..n : g[k + 2] = slots[k + 2].mb
    BY <1>18, <2>1
  <2>3. g[1] = mb /\ g[2] = utilityMb
    BY <1>13, <1>14, <2>2
  <2>4. ASSUME NEW k \in 1..n PROVE g[k + 2] = mbs[k]
    <3>1. g[k + 2] = slots[k + 2].mb /\ slots[k + 2] = w[k] /\ w[k].mb = mbs[k]
      BY <1>13, <1>15, <2>2
    <3> QED BY <3>1
  <2> QED BY <2>3, <2>4
<1>20. /\ Total(mbs) \in Nat
       /\ Total([i \in {1, 2} |-> g[i]]) = g[1] + g[2]
       /\ Total([i \in 3..n + 2 |-> g[i]]) = Total(mbs)
       /\ Total([i \in 1..n + 2 |-> g[i]]) = g[1] + g[2] + Total(mbs)
  BY <1>19, SlotSizes
<1>21. /\ Sizes(slots, {1, 2}) = mb + utilityMb
       /\ Sizes(slots, 3..n + 2) = Total(mbs)
       /\ Sizes(slots, 1..n + 2) = mb + utilityMb + Total(mbs)
  <2>1. ASSUME NEW is \in SUBSET (1..n + 2) PROVE [i \in is |-> slots[i].mb] = [i \in is |-> g[i]]
    BY <1>18
  <2>2. {1, 2} \in SUBSET (1..n + 2) /\ 3..n + 2 \in SUBSET (1..n + 2)
    OBVIOUS
  <2> QED BY <1>19, <1>20, <2>1, <2>2 DEF Sizes
<1>22. WorkersOf(p) = 3..n + 2 /\ DOMAIN p.slots \ WorkersOf(p) = {1, 2}
  <2>1. ASSUME NEW i \in 1..n + 2 PROVE slots[i].role = "worker" <=> i \in 3..n + 2
    BY <1>13, <1>14, <1>15
  <2>2. WorkersOf(p) = 3..n + 2
    BY <1>12, <1>13, <2>1 DEF WorkersOf
  <2> QED BY <1>12, <1>13, <2>2
<1>23. IsAnalytic => BestWorkers(p, s)
  <2>1. Sizes(p.slots, DOMAIN p.slots \ WorkersOf(p)) = mb + utilityMb
    BY <1>12, <1>21, <1>22
  <2>2. Sizes(p.slots, WorkersOf(p)) = Total(mbs)
    BY <1>12, <1>21, <1>22
  <2>3. WorkerPool(mb + utilityMb, IsTight(p)) = room
    <3>1. IsTight(p) = tight
      BY <1>12 DEF IsTight
    <3> QED BY <1>1, <3>1
  <2>4. p.slots[1].family = f /\ p.kv = kv
    BY <1>12, <1>13, <1>14
  <2> QED BY <1>6, <2>1, <2>2, <2>3, <2>4 DEF BestWorkers
<1>24. FitsMachine(p)
  <2> SUFFICES ASSUME NEW h \in DOMAIN machine.gpus, On(p, h) # {}
               PROVE  Sizes(slots, On(p, h)) <= machine.gpus[h]
                        - (IF tight /\ h = 1 THEN 0 ELSE Margin(machine.gpus[h]))
    BY <1>12 DEF FitsMachine
  <2>1. machine.gpus \in Seq(Nat) /\ machine.gpus[h] \in Nat /\ Margin(machine.gpus[h]) \in Nat
        /\ machine.gpus[1] \in Nat
    BY PoolType
  <2>2. On(p, h) = {i \in 1..n + 2 : slots[i].gpu = h}
    BY <1>12, <1>13 DEF On
  <2>3. slots[1].gpu = 1 /\ slots[2].gpu = 1 /\ \A i \in 3..n + 2 : slots[i].gpu = gpu
    <3>1. ASSUME NEW i \in 3..n + 2 PROVE slots[i].gpu = gpu
      <4>1. i - 2 \in 1..n /\ slots[i] = w[i - 2]
        BY <1>13
      <4> QED BY <1>15, <4>1
    <3> QED BY <1>13, <1>14, <3>1
  <2>4. CASE gpu = 2 /\ h = 1
    <3>1. On(p, h) = {1, 2}
      <4>1. \A i \in 3..n + 2 : slots[i].gpu # h
        BY <2>3, <2>4
      <4>2. slots[1].gpu = h /\ slots[2].gpu = h /\ 1 \in 1..n + 2 /\ 2 \in 1..n + 2
        BY <2>3, <2>4
      <4> QED BY <1>13, <2>2, <4>1, <4>2
    <3> QED BY <1>21, <2>4, <3>1
  <2>5. CASE gpu = 2 /\ h # 1
    <3>1. On(p, h) \subseteq 3..n + 2
      BY <1>13, <2>2, <2>3, <2>5
    <3>2. h = 2 /\ n > 0 /\ On(p, h) = 3..n + 2
      BY <2>2, <2>3, <2>5, <3>1
    <3>3. room = machine.gpus[2] - Margin(machine.gpus[2])
      BY <1>1, <1>7, <2>5 DEF WorkerPool
    <3> QED BY <1>6, <1>20, <1>21, <2>1, <3>2, <3>3
  <2>6. CASE gpu = 1
    <3>1. Len(machine.gpus) = 1
      <4> PICK gpus : gpus = machine.gpus
        OBVIOUS
      <4>1. ~ (Len(gpus) > 1) /\ gpus \in Seq(Nat) /\ gpus # <<>>
        BY <1>7, <2>1, <2>6
      <4>2. Len(gpus) \in Nat /\ Len(gpus) # 0
        BY <4>1
      <4>3. PICK k \in Nat : k = Len(gpus)
        BY <4>2
      <4>4. ~ (k > 1) /\ k # 0
        BY <4>1, <4>2, <4>3
      <4>5. k = 1
        BY <4>4
      <4> QED BY <4>3, <4>5
    <3>2. h = 1
      BY <2>1, <3>1
    <3>3. On(p, h) = 1..n + 2
      BY <1>13, <2>2, <2>3, <2>6, <3>2
    <3>4. room = IF tight THEN 0 ELSE machine.gpus[1] - Margin(machine.gpus[1]) - (mb + utilityMb)
      BY <1>1, <3>1 DEF WorkerPool
    <3>5. n = 0 => Total(mbs) = 0
      <4>1. n = 0 => mbs = [x \in {} |-> 0]
        OBVIOUS
      <4> QED BY <4>1, TotalNothing
    <3>6. Sizes(slots, On(p, h)) = mb + utilityMb + Total(mbs)
      BY <1>21, <3>3
    <3>7. PICK t \in Nat : t = Total(mbs)
      BY <1>20
    <3>8. PICK v \in Nat : v = machine.gpus[h] /\ v = machine.gpus[1]
      BY <2>1, <3>2
    <3>9. PICK margin \in Nat : margin = Margin(v)
      BY <2>1, <3>8
    <3>10. t = 0 \/ t <= room
      BY <1>6, <3>5, <3>7
    <3>11. CASE tight
      BY <3>2, <3>4, <3>6, <3>7, <3>8, <3>10, <3>11
    <3>12. CASE ~tight
      <4>1. mb + utilityMb <= v - margin /\ room = v - margin - (mb + utilityMb)
        BY <3>4, <3>8, <3>9, <3>12
      <4>2. mb + utilityMb + t <= v - margin
        BY <3>10, <4>1
      <4> QED BY <3>6, <3>7, <3>8, <3>9, <3>12, <4>2
    <3> QED BY <3>11, <3>12
  <2> QED BY <2>4, <2>5, <2>6
<1> QED BY <1>12, <1>13, <1>17, <1>23, <1>24

LEMMA SettingsTypes ==
  ASSUME NEW s \in Settings
  PROVE  s.orchestrator_ctx \in Nat /\ s.family \in Families
<1>1. s.orchestrator_ctx \in {2 * n : n \in 1..200} /\ s.family \in Families
  BY LoadoutAssumption DEF LoadoutAssumption, Families
<1> QED BY <1>1

LEMMA CpuPlanIs ==
  ASSUME measured \in Measured, NEW s \in Settings, NEW kv \in Nat, NEW notices \in SUBSET NoticeKinds,
         NEW p, p = CpuPlan(s, kv, notices)
  PROVE  p \in LoadoutPlan /\ p.slots # <<>> /\ "cpu_only" \in p.notices
<1>1. PICK m \in {"27b", "8b"} : m = IF machine.ram >= 16 * 1024 THEN "27b" ELSE "8b"
  OBVIOUS
<1>2. PICK ctx \in Nat : ctx = Min({s.orchestrator_ctx, MaxCtx(m)})
  <2>1. s.orchestrator_ctx \in Nat /\ MaxCtx(m) \in Nat
    BY SettingsTypes DEF MaxCtx
  <2>2. Min({s.orchestrator_ctx, MaxCtx(m)}) \in Nat
    BY <2>1, MinOfTwo
  <2> QED BY <2>2
<1>3. PICK mb \in Nat : mb = Cost(m, s.family, ctx, kv) + (IF m = "27b" THEN Mmproj ELSE 0)
  <2>1. Cost(m, s.family, ctx, kv) \in Nat
    BY SettingsTypes, CostType DEF Models
  <2> QED BY <2>1 DEF Mmproj
<1>4. PICK slot \in PlannedSlot : slot = Slot("orchestrator", m, s.family, 0, mb)
  <2>1. "orchestrator" \in Roles /\ m \in Models /\ s.family \in Families /\ 0 \in Nat
    BY SettingsTypes DEF Roles, Models
  <2>2. Slot("orchestrator", m, s.family, 0, mb) \in PlannedSlot
    BY <2>1, SlotType
  <2> QED BY <2>2
<1>5. PICK all \in SUBSET NoticeKinds :
        "cpu_only" \in all /\ p = [slots |-> <<slot>>, kv |-> kv, notices |-> all]
  <2>1. PICK more : more = IF m = "8b" THEN {"no_27b_resident"} ELSE {}
    OBVIOUS
  <2>2. p = [slots |-> <<slot>>, kv |-> kv, notices |-> notices \cup {"cpu_only"} \cup more]
    BY <1>1, <1>2, <1>3, <1>4, <2>1 DEF CpuPlan
  <2>3. notices \cup {"cpu_only"} \cup more \in SUBSET NoticeKinds
    BY <2>1 DEF NoticeKinds
  <2> QED BY <2>2, <2>3
<1>6. <<slot>> \in Seq(PlannedSlot) /\ <<slot>> # <<>>
  OBVIOUS
<1>7. p \in LoadoutPlan
  BY <1>5, <1>6 DEF LoadoutPlan
<1> QED BY <1>5, <1>6, <1>7

LEMMA CtxLadderIs ==
  ASSUME NEW s \in Settings
  PROVE  CtxLadder(s) \in SUBSET (0..s.orchestrator_ctx)
<1>1. s.orchestrator_ctx \in Nat /\ MaxCtx("27b") = 256
  BY SettingsTypes DEF MaxCtx
<1>2. Min({s.orchestrator_ctx, 256}) \in Nat
  BY <1>1, MinOfTwo
<1> QED BY <1>1, <1>2 DEF CtxLadder

\* What is planned, on any machine and for any settings.
LEMMA PlannedBest ==
  ASSUME measured \in Measured, machine \in Machines, NEW s \in Settings, NEW kv \in Nat,
         NEW p, p = Planned(s, kv)
  PROVE  p \in LoadoutPlan /\ p.slots # <<>> /\ IsBest(p, s)
<1> PICK gpus : gpus = machine.gpus
  OBVIOUS
<1>1. ASSUME NEW notices \in SUBSET NoticeKinds, p = CpuPlan(s, kv, notices)
      PROVE  p \in LoadoutPlan /\ p.slots # <<>> /\ IsBest(p, s)
  <2>1. p \in LoadoutPlan /\ p.slots # <<>> /\ "cpu_only" \in p.notices
    BY <1>1, CpuPlanIs
  <2> QED BY <2>1 DEF IsBest
<1>2. CASE gpus = <<>>
  <2>1. {} \in SUBSET NoticeKinds
    OBVIOUS
  <2> QED BY <1>1, <1>2, <2>1 DEF Planned
<1>3. CASE gpus # <<>> /\ gpus[1] < 6 * 1024
  <2>1. {"gpu_too_small"} \in SUBSET NoticeKinds
    BY DEF NoticeKinds
  <2>2. p = CpuPlan(s, kv, {"gpu_too_small"})
    BY <1>3 DEF Planned
  <2> QED BY <1>1, <2>1, <2>2
<1>4. CASE gpus # <<>> /\ ~ (gpus[1] < 6 * 1024)
  <2> DEFINE vram == gpus[1]
             avail == vram - Margin(vram)
             degraded == vram < 14 * 1024 /\ s.family = "ternary"
             f == IF degraded THEN "1bit" ELSE s.family
             utility == IF vram < 10 * 1024 THEN "1.7b" ELSE "4b"
             utilityMb == Cost(utility, f, 8, kv)
             mb(c) == Cost("27b", f, c, kv) + Mmproj + (IF s.dspark /\ machine.cuda THEN Dspark ELSE 0)
             fits == {c \in CtxLadder(s) : mb(c) + utilityMb <= avail}
             notices == (IF degraded THEN {"family_degraded"} ELSE {})
                          \cup (IF s.dspark /\ ~machine.cuda THEN {"dspark_unavailable"} ELSE {})
  <2>1. vram \in Nat /\ avail = gpus[1] - Margin(gpus[1])
    BY <1>4, PoolType
  <2>4. f \in Families
    BY SettingsTypes DEF Families
  <2>5. utility \in Models
    BY DEF Models
  <2>6. utilityMb \in Nat
    <3> HIDE DEF f, utility
    <3> QED BY <2>4, <2>5, CostType
  <2>8. \A c \in Nat : mb(c) \in Nat
    <3>1. \A c \in Nat : Cost("27b", f, c, kv) \in Nat
      <4> HIDE DEF f
      <4> QED BY <2>4, CostType DEF Models
    <3> HIDE DEF f
    <3> QED BY <3>1 DEF Mmproj, Dspark
  <2>9. notices \in SUBSET NoticeKinds /\ "vram_tight" \notin notices
    <3>1. PICK a : a = IF degraded THEN {"family_degraded"} ELSE {}
      OBVIOUS
    <3>2. PICK b : b = IF s.dspark /\ ~machine.cuda THEN {"dspark_unavailable"} ELSE {}
      OBVIOUS
    <3>3. a \in SUBSET NoticeKinds /\ "vram_tight" \notin a
      BY <3>1 DEF NoticeKinds
    <3>4. b \in SUBSET NoticeKinds /\ "vram_tight" \notin b
      BY <3>2 DEF NoticeKinds
    <3> QED BY <3>1, <3>2, <3>3, <3>4
  <2>10. fits = {c \in CtxLadder(s) : mb(c) + utilityMb <= avail}
    OBVIOUS
  <2>11. p = IF fits # {}
             THEN GpuPlan(s, f, kv, utility, utilityMb, Max(fits), mb(Max(fits)), notices)
             ELSE IF mb(LastCtx) + utilityMb <= vram
             THEN GpuPlan(s, f, kv, utility, utilityMb, LastCtx, mb(LastCtx), notices \cup {"vram_tight"})
             ELSE CpuPlan(s, kv, {"loadout_overflow"})
    BY <1>4 DEF Planned
  <2>2. vram = gpus[1]
    OBVIOUS
  <2> HIDE DEF vram, avail, degraded, f, utility, utilityMb, mb, fits, notices
  <2>12. CASE fits # {}
    <3>1. PICK ctx \in Nat : ctx = Max(fits) /\ ctx \in fits
      <4>1. s.orchestrator_ctx \in Nat /\ fits \in SUBSET (0..s.orchestrator_ctx)
        BY <2>10, SettingsTypes, CtxLadderIs
      <4>2. Max(fits) \in fits
        BY <2>12, <4>1, MaxIn
      <4>3. \A c \in fits : c \in Nat
        BY <4>1
      <4> QED BY <4>2, <4>3
    <3>2. PICK size \in Nat : size = mb(ctx)
      BY <2>8
    <3>3. p = GpuPlan(s, f, kv, utility, utilityMb, ctx, size, notices)
      BY <2>11, <2>12, <3>1, <3>2
    <3>4. size + utilityMb <= gpus[1] - (IF FALSE THEN 0 ELSE Margin(gpus[1]))
      BY <2>1, <2>2, <2>10, <3>1, <3>2
    <3>5. FALSE \in BOOLEAN /\ (FALSE <=> "vram_tight" \in notices)
      BY <2>9
    <3>6. p \in LoadoutPlan /\ p.slots # <<>> /\ FitsMachine(p) /\ (IsAnalytic => BestWorkers(p, s))
      BY <1>4, <2>4, <2>5, <2>6, <2>9, <3>3, <3>4, <3>5, GpuPlanBest
    <3> QED BY <3>6 DEF IsBest
  <2>13. CASE fits = {} /\ mb(LastCtx) + utilityMb <= vram
    <3>1. PICK size \in Nat : size = mb(LastCtx)
      BY <2>8 DEF LastCtx
    <3>2. PICK more \in SUBSET NoticeKinds : more = notices \cup {"vram_tight"} /\ "vram_tight" \in more
      BY <2>9 DEF NoticeKinds
    <3>3. p = GpuPlan(s, f, kv, utility, utilityMb, LastCtx, size, more)
      BY <2>11, <2>13, <3>1, <3>2
    <3>4. size + utilityMb <= gpus[1] - (IF TRUE THEN 0 ELSE Margin(gpus[1]))
      BY <2>1, <2>2, <2>6, <2>13, <3>1
    <3>5. TRUE \in BOOLEAN /\ (TRUE <=> "vram_tight" \in more) /\ LastCtx \in Nat
      BY <3>2 DEF LastCtx
    <3>6. p \in LoadoutPlan /\ p.slots # <<>> /\ FitsMachine(p) /\ (IsAnalytic => BestWorkers(p, s))
      BY <1>4, <2>4, <2>5, <2>6, <2>9, <3>3, <3>4, <3>5, GpuPlanBest
    <3> QED BY <3>6 DEF IsBest
  <2>14. CASE fits = {} /\ ~ (mb(LastCtx) + utilityMb <= vram)
    <3>1. {"loadout_overflow"} \in SUBSET NoticeKinds
      BY DEF NoticeKinds
    <3>2. p = CpuPlan(s, kv, {"loadout_overflow"})
      BY <2>11, <2>14
    <3> QED BY <1>1, <3>1, <3>2
  <2> QED BY <2>12, <2>13, <2>14
<1> QED BY <1>2, <1>3, <1>4

\* The parts that depend on the machine and the measurements, in the next state.
LEMMA SameCosts ==
  ASSUME measured' = measured
  PROVE  \A s, f, kv, i : RungTotal(s, f, kv, i)' = RungTotal(s, f, kv, i)
<1>1. \A m, f : Buffers(m, f)' = Buffers(m, f)
  BY DEF Buffers
<1>2. \A m, f, ctx, kv : Cost(m, f, ctx, kv)' = Cost(m, f, ctx, kv)
  BY <1>1 DEF Cost
<1>3. \A s, f, kv, rung : RungMbs(s, f, kv, rung)' = RungMbs(s, f, kv, rung)
  BY <1>2 DEF RungMbs
<1> QED BY <1>3 DEF RungTotal

LEMMA SamePool ==
  ASSUME machine' = machine
  PROVE  \A mandatory, tight : WorkerPool(mandatory, tight)' = WorkerPool(mandatory, tight)
BY DEF WorkerPool

LEMMA SameFit ==
  ASSUME machine' = machine
  PROVE  FitsMachine(plan)' <=> FitsMachine(plan')
BY DEF FitsMachine, On, Sizes, IsTight

LEMMA SameWorkers ==
  ASSUME machine' = machine, measured' = measured
  PROVE  BestWorkers(plan, settings)' <=> BestWorkers(plan', settings')
<1>1. (Rungs(settings))' = Rungs(settings')
  BY DEF Rungs
<1>2. /\ (Sizes(plan.slots, DOMAIN plan.slots \ WorkersOf(plan)))'
            = Sizes(plan'.slots, DOMAIN plan'.slots \ WorkersOf(plan'))
      /\ (Sizes(plan.slots, WorkersOf(plan)))' = Sizes(plan'.slots, WorkersOf(plan'))
      /\ IsTight(plan)' = IsTight(plan')
  BY DEF Sizes, WorkersOf, IsTight
<1> QED BY <1>1, <1>2, SameCosts, SamePool DEF BestWorkers

LEMMA BestFitNext ==
  ASSUME machine' = machine, measured' = measured
  PROVE  BestFit' <=> IsBest(plan', settings')
<1>1. BestFit' <=> IsBest(plan, settings)'
  BY BestFitIs, PTL
<1>2. IsAnalytic' <=> IsAnalytic
  BY DEF IsAnalytic
<1> QED BY <1>1, <1>2, SameFit, SameWorkers DEF IsBest

\* What has become measured asks nothing of the workers any more.
LEMMA BestFitKept ==
  ASSUME machine' = machine, plan' = plan, settings' = settings, IsAnalytic' => measured' = measured, BestFit
  PROVE  BestFit'
<1>1. BestFit' <=> IsBest(plan, settings)'
  BY BestFitIs, PTL
<1>2. BestFit <=> IsBest(plan, settings)
  BY BestFitIs
<1>3. CASE measured' = measured
  <2>1. BestFit' <=> IsBest(plan', settings')
    BY <1>3, BestFitNext
  <2> QED BY <1>2, <2>1
<1>4. CASE ~ IsAnalytic'
  <2>1. FitsMachine(plan)' <=> FitsMachine(plan')
    BY SameFit
  <2> QED BY <1>1, <1>2, <1>4, <2>1 DEF IsBest
<1> QED BY <1>3, <1>4

LEMMA KvSixteenthsType == ASSUME NEW s, NEW kernels PROVE KvSixteenths(s, kernels) \in Nat
BY DEF KvSixteenths

\* A notice more that is not about the fit.
LEMMA NoticeAdded ==
  ASSUME NEW s, NEW q \in LoadoutPlan, q.slots # <<>>, IsBest(q, s), NEW more \in SUBSET {"turboquant_prebuilt_fallback"},
         NEW p, p = [q EXCEPT !.notices = @ \cup more]
  PROVE  p \in LoadoutPlan /\ p.slots # <<>> /\ IsBest(p, s)
<1>1. p.slots = q.slots /\ p.kv = q.kv /\ p.notices = q.notices \cup more
  BY DEF LoadoutPlan
<1>2. more \in SUBSET NoticeKinds /\ "cpu_only" \notin more /\ "vram_tight" \notin more
  BY DEF NoticeKinds
<1>3. p \in LoadoutPlan
  BY <1>1, <1>2 DEF LoadoutPlan
<1>4. IsTight(p) = IsTight(q) /\ ("cpu_only" \in p.notices <=> "cpu_only" \in q.notices)
  BY <1>1, <1>2 DEF IsTight
<1>5. \A h : On(p, h) = On(q, h)
  BY <1>1 DEF On
<1>6. WorkersOf(p) = WorkersOf(q)
  BY <1>1 DEF WorkersOf
<1>7. FitsMachine(p) <=> FitsMachine(q)
  BY <1>1, <1>4, <1>5 DEF FitsMachine
<1>8. BestWorkers(p, s) <=> BestWorkers(q, s)
  BY <1>1, <1>4, <1>6 DEF BestWorkers
<1> QED BY <1>1, <1>3, <1>4, <1>7, <1>8 DEF IsBest

\* Inductive: while nothing is measured the costs do not change, and once
\* something is, the second part of BestFit asks nothing any more.
BestInv == LoadoutTypes /\ started \in Nat /\ BestFit

LEMMA BootBest == ASSUME BestInv, Boot PROVE BestInv'
<1>1. machine' = machine /\ measured' = measured /\ settings' \in Settings /\ started' = 0
  BY DEF Boot
<1>2. measured \in Measured /\ machine \in Machines
  BY DEF BestInv, LoadoutTypes
<1>3. PICK kernels \in BOOLEAN :
        plan' = [Planned(settings', KvSixteenths(settings', kernels)) EXCEPT !.notices =
                   @ \cup (IF settings'.turboquant /\ settings'.preset # "off" /\ ~kernels
                           THEN {"turboquant_prebuilt_fallback"} ELSE {})]
  BY DEF Boot
<1>4. PICK q : q = Planned(settings', KvSixteenths(settings', kernels))
  OBVIOUS
<1>5. PICK more \in SUBSET {"turboquant_prebuilt_fallback"} : plan' = [q EXCEPT !.notices = @ \cup more]
  BY <1>3, <1>4
<1>6. q \in LoadoutPlan /\ q.slots # <<>> /\ IsBest(q, settings')
  BY <1>1, <1>2, <1>4, KvSixteenthsType, PlannedBest
<1>7. plan' \in LoadoutPlan /\ IsBest(plan', settings')
  BY <1>5, <1>6, NoticeAdded
<1>8. BestFit'
  BY <1>1, <1>7, BestFitNext
<1> QED BY <1>1, <1>2, <1>7, <1>8 DEF BestInv, LoadoutTypes

LEMMA RememberedType ==
  ASSUME measured \in Measured, NEW slot \in PlannedSlot, NEW delta \in Nat
  PROVE  /\ Remembered(slot, delta) \in Measured
         /\ \E mf \in Models \X Families : Remembered(slot, delta)[mf] # Analytic
<1>1. PICK n \in Nat : n = Max({64, delta - (slot.mb - slot.buffers)})
  <2>1. delta - (slot.mb - slot.buffers) \in Int
    BY DEF PlannedSlot
  <2> QED BY <2>1, MaxOfTwo
<1>2. <<slot.model, slot.family>> \in Models \X Families
  BY DEF PlannedSlot
<1>3. Remembered(slot, delta) = [measured EXCEPT ![<<slot.model, slot.family>>] = n]
  BY <1>1 DEF Remembered
<1>4. n # Analytic
  BY LoadoutAssumption DEF LoadoutAssumption
<1> QED BY <1>2, <1>3, <1>4 DEF Measured

LEMMA LaunchBest == ASSUME BestInv, Launch PROVE BestInv'
<1>1. /\ machine' = machine /\ plan' = plan /\ settings' = settings
      /\ started' = started + 1 /\ started < Len(plan.slots)
  BY DEF Launch
<1>2. measured \in Measured /\ machine \in Machines /\ plan \in LoadoutPlan /\ started' \in Nat
  BY <1>1 DEF BestInv, LoadoutTypes
<1>3. PICK slot \in PlannedSlot : slot = plan.slots[started']
  <2>1. plan.slots \in Seq(PlannedSlot) /\ started' \in 1..Len(plan.slots)
    BY <1>1, <1>2 DEF LoadoutPlan, BestInv
  <2> QED BY <2>1
<1>4. measured' = measured \/ \E delta \in Deltas[machine] \cup {0} : measured' = Remembered(slot, delta)
  BY <1>3 DEF Launch
<1>5. measured' \in Measured /\ (IsAnalytic' => measured' = measured)
  <2>1. CASE measured' = measured
    BY <1>2, <2>1
  <2>2. CASE \E delta \in Deltas[machine] \cup {0} : measured' = Remembered(slot, delta)
    <3>1. PICK delta \in Nat : measured' = Remembered(slot, delta)
      <4>1. Deltas[machine] \in SUBSET Nat
        BY <1>2, LoadoutAssumption DEF LoadoutAssumption
      <4> QED BY <2>2, <4>1
    <3>2. PICK mf \in Models \X Families : measured'[mf] # Analytic
      BY <1>2, <3>1, RememberedType
    <3>3. measured' \in Measured
      BY <1>2, <3>1, RememberedType
    <3>4. ~ IsAnalytic'
      BY <3>2, <3>3 DEF IsAnalytic, Measured
    <3> QED BY <3>3, <3>4
  <2> QED BY <1>4, <2>1, <2>2
<1>6. BestFit'
  BY <1>1, <1>5, BestFitKept DEF BestInv
<1> QED BY <1>1, <1>2, <1>5, <1>6 DEF BestInv, LoadoutTypes

LEMMA BestKept == ASSUME BestInv, UNCHANGED loadoutVars PROVE BestInv'
<1>1. BestFit'
  BY BestFitKept DEF BestInv, loadoutVars
<1> QED BY <1>1 DEF BestInv, LoadoutTypes, loadoutVars

LEMMA InitBest == UltraInit => BestInv
<1> SUFFICES ASSUME UltraInit PROVE BestInv
  OBVIOUS
<1>1. machine \in Machines /\ plan = [slots |-> <<>>, kv |-> 0, notices |-> {}] /\ started = 0
      /\ measured = [mf \in Models \X Families |-> Analytic]
  BY DEF UltraInit, LoadoutInit
<1>2. plan \in LoadoutPlan /\ plan.slots = <<>>
  BY <1>1 DEF LoadoutPlan
<1>3. measured \in Measured
  BY <1>1 DEF Measured
<1> QED BY <1>1, <1>2, <1>3 DEF BestInv, LoadoutTypes, BestFit

LEMMA NextBest == BestInv /\ [UltraNext]_requestVars => BestInv'
<1> SUFFICES ASSUME BestInv, [UltraNext]_requestVars PROVE BestInv'
  OBVIOUS
<1>1. CASE Reboot
  BY <1>1, BootBest DEF Reboot
<1>2. CASE Warm
  BY <1>2, LaunchBest DEF Warm
<1>3. CASE Begin
  BY <1>3, BestKept DEF Begin
<1>4. CASE Leave
  BY <1>4, BestKept DEF Leave
<1>5. CASE RunStep
  BY <1>5, BestKept DEF RunStep, Drain, Synthesize, Plan, Decide
<1>6. ASSUME NEW i \in 1..SequentialCap, SubStep(i) PROVE BestInv'
  BY <1>6, BestKept DEF SubStep, Start, End, Ended
<1>7. CASE UNCHANGED requestVars
  BY <1>7, BestKept DEF requestVars
<1> QED BY <1>1, <1>2, <1>3, <1>4, <1>5, <1>6, <1>7 DEF UltraNext

\* Each plan leaves the margin free on each GPU, or just fits the first and says
\* so, and its workers are the largest that fit while nothing is measured.
THEOREM LoadoutsFit == UltraSpec => []BestFit
<1>1. BestInv => BestFit
  BY DEF BestInv
<1> QED BY <1>1, InitBest, NextBest, PTL DEF UltraSpec

-----------------------------------------------------------------------------
(* Ultra. Elements of sequences: that there is one, that there is one only, and
   that one comes before another. *)

Has(s, x) == \E k \in DOMAIN s : s[k] = x
Single(s, x) == \E k \in DOMAIN s : s[k] = x /\ \A l \in DOMAIN s : s[l] = x => l = k
Precede(s, x, y) == \A k, l \in DOMAIN s : s[k] = x /\ s[l] = y => k < l

\* c is a, of n elements, and then b.
IsJoin(c, a, b, n) ==
  /\ n \in Nat /\ Len(b) \in Nat
  /\ DOMAIN c = 1..n + Len(b) /\ DOMAIN a = 1..n /\ DOMAIN b = 1..Len(b)
  /\ \A k \in DOMAIN a : k \in DOMAIN c /\ c[k] = a[k]
  /\ \A k \in DOMAIN b : n + k \in DOMAIN c /\ c[n + k] = b[k]
  /\ \A k \in DOMAIN c : k \in DOMAIN a \/ \E l \in DOMAIN b : k = n + l

LEMMA Joined ==
  ASSUME NEW E, NEW a \in Seq(E), NEW b \in Seq(E), NEW c, c = a \o b, NEW n, n = Len(a)
  PROVE  c \in Seq(E) /\ IsJoin(c, a, b, n)
<1> PICK m \in Nat : m = Len(b)
  OBVIOUS
<1>1. c \in Seq(E) /\ n \in Nat /\ DOMAIN c = 1..n + m /\ DOMAIN a = 1..n /\ DOMAIN b = 1..m
  OBVIOUS
<1>2. ASSUME NEW k \in DOMAIN a PROVE k \in DOMAIN c /\ c[k] = a[k]
  BY <1>1
<1>3. ASSUME NEW k \in DOMAIN b PROVE n + k \in DOMAIN c /\ c[n + k] = b[k]
  <2> PICK i : i = n + k
    OBVIOUS
  <2>1. i \in 1..n + m /\ ~ (i <= n) /\ i - n = k
    BY <1>1
  <2>2. (a \o b)[i] = b[i - Len(a)]
    BY <1>1, <2>1
  <2> QED BY <1>1, <2>1, <2>2
<1>4. ASSUME NEW k \in DOMAIN c PROVE k \in DOMAIN a \/ \E l \in DOMAIN b : k = n + l
  <2>1. k \in 1..n + m
    BY <1>1
  <2>2. k \in 1..n \/ (k - n \in 1..m /\ k = n + (k - n))
    BY <1>1, <2>1
  <2> QED BY <1>1, <2>2
<1> QED BY <1>1, <1>2, <1>3, <1>4 DEF IsJoin

LEMMA HasJoined ==
  ASSUME NEW E, NEW a \in Seq(E), NEW b \in Seq(E), NEW x
  PROVE  Has(a \o b, x) <=> Has(a, x) \/ Has(b, x)
<1> PICK c : c = a \o b
  OBVIOUS
<1> PICK n : n = Len(a)
  OBVIOUS
<1>1. IsJoin(c, a, b, n)
  BY Joined
<1>2. Has(c, x) => Has(a, x) \/ Has(b, x)
  BY <1>1 DEF Has, IsJoin
<1>3. Has(a, x) \/ Has(b, x) => Has(c, x)
  BY <1>1 DEF Has, IsJoin
<1> QED BY <1>2, <1>3

LEMMA NotJoined ==
  ASSUME NEW E, NEW a \in Seq(E), NEW b \in Seq(E), NEW x, ~Has(a, x), ~Has(b, x)
  PROVE  ~Has(a \o b, x)
BY HasJoined

LEMMA SingleJoined ==
  ASSUME NEW E, NEW a \in Seq(E), NEW b \in Seq(E), NEW x
  PROVE  /\ Single(a, x) /\ ~Has(b, x) => Single(a \o b, x)
         /\ Single(b, x) /\ ~Has(a, x) => Single(a \o b, x)
<1> PICK c : c = a \o b
  OBVIOUS
<1> PICK n \in Nat : n = Len(a)
  OBVIOUS
<1>1. IsJoin(c, a, b, n)
  BY Joined
<1>2. ASSUME Single(a, x), ~Has(b, x) PROVE Single(c, x)
  <2>1. PICK k \in DOMAIN a : a[k] = x /\ \A l \in DOMAIN a : a[l] = x => l = k
    BY <1>2 DEF Single
  <2>2. ASSUME NEW l \in DOMAIN c, c[l] = x PROVE l = k
    <3>1. l \in DOMAIN a
      BY <1>1, <1>2, <2>2 DEF Has, IsJoin
    <3>2. a[l] = x
      BY <1>1, <2>2, <3>1 DEF IsJoin
    <3> QED BY <2>1, <3>1, <3>2
  <2>3. k \in DOMAIN c /\ c[k] = x
    BY <1>1, <2>1 DEF IsJoin
  <2> QED BY <2>2, <2>3 DEF Single
<1>3. ASSUME Single(b, x), ~Has(a, x) PROVE Single(c, x)
  <2>1. PICK k \in DOMAIN b : b[k] = x /\ \A l \in DOMAIN b : b[l] = x => l = k
    BY <1>3 DEF Single
  <2>2. ASSUME NEW l \in DOMAIN c, c[l] = x PROVE l = n + k
    BY <1>1, <1>3, <2>1, <2>2 DEF Has, IsJoin
  <2>3. n + k \in DOMAIN c /\ c[n + k] = x
    BY <1>1, <2>1 DEF IsJoin
  <2> QED BY <2>2, <2>3 DEF Single
<1> QED BY <1>2, <1>3

LEMMA PrecedeJoined ==
  ASSUME NEW E, NEW a \in Seq(E), NEW b \in Seq(E), NEW x, NEW y,
         Precede(a, x, y), Precede(b, x, y), ~Has(b, x) \/ ~Has(a, y)
  PROVE  Precede(a \o b, x, y)
<1> PICK c : c = a \o b
  OBVIOUS
<1> PICK n \in Nat : n = Len(a)
  OBVIOUS
<1>1. IsJoin(c, a, b, n)
  BY Joined
<1> SUFFICES ASSUME NEW k \in DOMAIN c, NEW l \in DOMAIN c, c[k] = x, c[l] = y PROVE k < l
  BY DEF Precede
<1>2. CASE k \in DOMAIN a /\ l \in DOMAIN a
  BY <1>1, <1>2 DEF Precede, IsJoin
<1>3. ASSUME NEW i \in DOMAIN b, l = n + i, k \in DOMAIN a PROVE k < l
  BY <1>1, <1>3 DEF IsJoin
<1>4. ASSUME NEW i \in DOMAIN b, k = n + i, l \in DOMAIN a PROVE FALSE
  BY <1>1, <1>4 DEF Has, IsJoin
<1>5. ASSUME NEW i \in DOMAIN b, NEW j \in DOMAIN b, k = n + i, l = n + j PROVE k < l
  <2>1. b[i] = x /\ b[j] = y
    BY <1>1, <1>5 DEF IsJoin
  <2>2. i < j
    BY <2>1 DEF Precede
  <2> QED BY <1>1, <1>5, <2>2 DEF IsJoin
<1> QED BY <1>1, <1>2, <1>3, <1>4, <1>5 DEF IsJoin

LEMMA HasOne == ASSUME NEW a, NEW x PROVE Has(<<a>>, x) <=> x = a
<1> PICK s : s = <<a>>
  OBVIOUS
<1>1. DOMAIN s = {1} /\ s[1] = a
  OBVIOUS
<1>2. Has(s, x) <=> x = a
  BY <1>1 DEF Has
<1> QED BY <1>2

LEMMA SingleOne == ASSUME NEW a PROVE Single(<<a>>, a)
<1> PICK s : s = <<a>>
  OBVIOUS
<1>1. DOMAIN s = {1} /\ s[1] = a
  OBVIOUS
<1>2. Single(s, a)
  BY <1>1 DEF Single
<1> QED BY <1>2

LEMMA HasNone == ASSUME NEW x PROVE ~Has(<<>>, x)
<1>1. DOMAIN <<>> = {}
  OBVIOUS
<1> QED BY <1>1 DEF Has

\* What is not there comes before everything.
LEMMA PrecedeNone ==
  ASSUME NEW s, NEW x, NEW y, ~Has(s, x) \/ ~Has(s, y)
  PROVE  Precede(s, x, y)
BY DEF Has, Precede

LEMMA SingleHas == ASSUME NEW s, NEW x, Single(s, x) PROVE Has(s, x)
BY DEF Single, Has

LEMMA Shifted ==
  ASSUME NEW n \in Nat, NEW l \in Nat, l >= 1
  PROVE  n + l \in Nat /\ ~ (n + l <= n) /\ (n + l) + 1 = n + (l + 1)
OBVIOUS

\* Without the first of b, c keeps everything else, in its order.
LEMMA HeadTaken ==
  ASSUME NEW E, NEW a \in Seq(E), NEW b \in Seq(E), b # <<>>, NEW x, NEW y, x # Head(b)
  PROVE  /\ Has(a \o Tail(b), x) <=> Has(a \o b, x)
         /\ Single(a \o b, x) => Single(a \o Tail(b), x)
         /\ Precede(a \o b, x, y) => Precede(a \o Tail(b), x, y)
<1> PICK c : c = a \o b
  OBVIOUS
<1>0. Tail(b) \in Seq(E)
  OBVIOUS
<1> PICK t \in Seq(E) : t = Tail(b)
  BY <1>0
<1> PICK d : d = a \o t
  OBVIOUS
<1> PICK n \in Nat : n = Len(a)
  OBVIOUS
<1>1. IsJoin(c, a, b, n)
  BY Joined
<1>2. IsJoin(d, a, t, n)
  BY Joined
<1>3. /\ DOMAIN b \in SUBSET Nat /\ DOMAIN t \in SUBSET Nat
      /\ \A k \in DOMAIN t : k >= 1 /\ k + 1 \in DOMAIN b /\ b[k + 1] = t[k]
      /\ \A k \in DOMAIN b : k = 1 \/ (k - 1 \in DOMAIN t /\ t[k - 1] = b[k])
      /\ b[1] = Head(b)
  <2>1. Len(b) \in Nat /\ Len(b) # 0
    OBVIOUS
  <2>2. DOMAIN b = 1..Len(b) /\ DOMAIN t = 1..Len(b) - 1 /\ b[1] = Head(b)
    BY <2>1
  <2>3. ASSUME NEW k \in DOMAIN t PROVE k >= 1 /\ k + 1 \in DOMAIN b /\ b[k + 1] = t[k]
    BY <2>1, <2>2
  <2>4. ASSUME NEW k \in DOMAIN b, k # 1 PROVE k - 1 \in DOMAIN t /\ t[k - 1] = b[k]
    <3>1. k - 1 \in DOMAIN t /\ (k - 1) + 1 = k
      BY <2>1, <2>2, <2>4
    <3> QED BY <2>3, <3>1
  <2> QED BY <2>2, <2>3, <2>4
<1> DEFINE up(k) == IF k <= n THEN k ELSE k + 1
<1>4. ASSUME NEW k \in DOMAIN d PROVE k \in Nat /\ up(k) \in DOMAIN c /\ c[up(k)] = d[k]
  <2>1. CASE k \in DOMAIN a
    BY <1>1, <1>2, <2>1 DEF IsJoin
  <2>2. ASSUME NEW l \in DOMAIN t, k = n + l PROVE k \in Nat /\ up(k) \in DOMAIN c /\ c[up(k)] = d[k]
    <3>1. l \in Nat /\ l >= 1 /\ l + 1 \in DOMAIN b /\ b[l + 1] = t[l]
      BY <1>3
    <3> PICK j \in DOMAIN b : j = l + 1 /\ b[j] = t[l]
      BY <3>1
    <3>2. up(k) = n + j /\ k \in Nat
      <4> HIDE DEF up
      <4>1. l \in Nat /\ l >= 1
        BY <3>1
      <4>2. n + l \in Nat /\ ~ (n + l <= n) /\ (n + l) + 1 = n + (l + 1)
        BY <4>1, Shifted, Zenon
      <4>3. up(n + l) = n + (l + 1)
        BY <4>2, Zenon DEF up
      <4> QED BY <2>2, <4>2, <4>3
    <3>3. n + j \in DOMAIN c /\ c[n + j] = b[j]
      BY <1>1 DEF IsJoin
    <3>4. d[k] = t[l]
      BY <1>2, <2>2 DEF IsJoin
    <3> HIDE DEF up
    <3> QED BY <3>2, <3>3, <3>4
  <2> QED BY <1>2, <2>1, <2>2 DEF IsJoin
<1>5. ASSUME NEW l \in DOMAIN c, l # n + 1 PROVE \E k \in DOMAIN d : l = up(k)
  <2>1. CASE l \in DOMAIN a
    <3>1. l \in DOMAIN d /\ l <= n
      BY <1>2, <2>1 DEF IsJoin
    <3> QED BY <3>1
  <2>2. ASSUME NEW i \in DOMAIN b, l = n + i PROVE \E k \in DOMAIN d : l = up(k)
    <3>1. i \in Nat /\ i # 1 /\ i - 1 \in DOMAIN t /\ i - 1 >= 1
      BY <1>3, <1>5, <2>2
    <3> PICK j \in DOMAIN t : j = i - 1
      BY <3>1
    <3>2. n + j \in DOMAIN d
      BY <1>2 DEF IsJoin
    <3>3. up(n + j) = l
      BY <2>2, <3>1
    <3> QED BY <3>2, <3>3
  <2> QED BY <1>1, <2>1, <2>2 DEF IsJoin
<1>6. c[n + 1] = Head(b)
  <2>1. 1 \in DOMAIN b
    OBVIOUS
  <2> QED BY <1>1, <1>3, <2>1 DEF IsJoin
<1>7. \A k, l \in DOMAIN d : (up(k) < up(l) => k < l) /\ (up(k) = up(l) => k = l)
  BY <1>4
<1> HIDE DEF up
<1>8. Has(d, x) <=> Has(c, x)
  <2>1. ASSUME NEW k \in DOMAIN d, d[k] = x PROVE Has(c, x)
    BY <1>4, <2>1 DEF Has
  <2>2. ASSUME NEW l \in DOMAIN c, c[l] = x PROVE Has(d, x)
    <3>1. PICK k \in DOMAIN d : l = up(k)
      BY <1>5, <1>6, <2>2
    <3> QED BY <1>4, <2>2, <3>1 DEF Has
  <2> QED BY <2>1, <2>2 DEF Has
<1>9. ASSUME Single(c, x) PROVE Single(d, x)
  <2>1. PICK l \in DOMAIN c : c[l] = x /\ \A i \in DOMAIN c : c[i] = x => i = l
    BY <1>9 DEF Single
  <2>2. PICK k \in DOMAIN d : l = up(k)
    BY <1>5, <1>6, <2>1
  <2>3. d[k] = x
    BY <1>4, <2>1, <2>2
  <2>4. ASSUME NEW i \in DOMAIN d, d[i] = x PROVE i = k
    <3>1. up(i) = up(k)
      BY <1>4, <2>1, <2>2, <2>4
    <3> QED BY <1>7, <3>1
  <2> QED BY <2>3, <2>4 DEF Single
<1>10. ASSUME Precede(c, x, y) PROVE Precede(d, x, y)
  <2> SUFFICES ASSUME NEW k \in DOMAIN d, NEW l \in DOMAIN d, d[k] = x, d[l] = y PROVE k < l
    BY DEF Precede
  <2>1. up(k) < up(l)
    BY <1>4, <1>10 DEF Precede
  <2> QED BY <1>7, <2>1
<1> QED BY <1>8, <1>9, <1>10

\* What goes from the queue to the client leaves the stream as it is.
LEMMA HeadMoved ==
  ASSUME NEW E, NEW a \in Seq(E), NEW b \in Seq(E), b # <<>>
  PROVE  Append(a, Head(b)) \o Tail(b) = a \o b
OBVIOUS

-----------------------------------------------------------------------------
(* What is said of a sub-task, to the client and in the transcript. *)

Kinds == {"plan", "plan fallback", "plan truncated", "degraded", "sequential", "effort capped",
          "spawn", "timeout", "result", "marker", "done", "error"}
Operations == {"", "capability", "assign", "result", "decide"}
Events == [kind : Kinds, of : Operations, agent : Nat]
Messages == [operation : Operations, task : Nat]
SubTasks == [state : {"waiting", "running", "done"}, worker : Nat, result : {"none", "ok", "failed"},
             timeout : BOOLEAN]

\* Either the message is in the transcript or a notice says it is not.
Accounted(s, t, operation, i) ==
  \/ Single(s, Degradation(operation, i)) /\ ~Has(t, Said(operation, i))
  \/ ~Has(s, Degradation(operation, i)) /\ Single(t, Said(operation, i))
Unsaid(s, t, operation, i) ==
  ~Has(s, Degradation(operation, i)) /\ ~Has(t, Said(operation, i))

\* What stream s and transcript t have of sub-task i.
Streamed(s, sub, i) ==
  /\ IF sub.state = "waiting" THEN ~Has(s, Event("spawn", i)) ELSE Single(s, Event("spawn", i))
  /\ IF sub.state = "done" THEN Single(s, Event("result", i)) ELSE ~Has(s, Event("result", i))
  /\ IF sub.timeout THEN sub.state = "done" /\ Single(s, Event("timeout", i))
     ELSE ~Has(s, Event("timeout", i))
  /\ Precede(s, Event("spawn", i), Event("timeout", i))
  /\ Precede(s, Event("spawn", i), Event("result", i))
  /\ Precede(s, Event("timeout", i), Event("result", i))

Transcribed(s, t, sub, i) ==
  /\ IF sub.state = "waiting" THEN Unsaid(s, t, "assign", i) ELSE Accounted(s, t, "assign", i)
  /\ IF sub.state = "done" THEN Accounted(s, t, "result", i) ELSE Unsaid(s, t, "result", i)
  /\ Precede(t, Said("assign", i), Said("result", i))

\* The events that are about sub-task i.
About(i) == {Event("spawn", i), Event("result", i), Event("timeout", i),
             Degradation("assign", i), Degradation("result", i)}

LEMMA RecordsDiffer ==
  /\ \A k, l, i, j : Event(k, i) = Event(l, j) => k = l /\ i = j
  /\ \A o, p, i, j : Degradation(o, i) = Degradation(p, j) => o = p /\ i = j
  /\ \A k, p, i, j : Event(k, i) = Degradation(p, j) => k = "degraded"
  /\ \A o, p, i, j : Said(o, i) = Said(p, j) => o = p /\ i = j
<1>1. ASSUME NEW k, NEW l, NEW i, NEW j, Event(k, i) = Event(l, j) PROVE k = l /\ i = j
  <2>1. Event(k, i).kind = k /\ Event(l, j).kind = l /\ Event(k, i).agent = i /\ Event(l, j).agent = j
    BY DEF Event
  <2> QED BY <1>1, <2>1
<1>2. ASSUME NEW o, NEW p, NEW i, NEW j, Degradation(o, i) = Degradation(p, j) PROVE o = p /\ i = j
  <2>1. /\ Degradation(o, i).of = o /\ Degradation(p, j).of = p
        /\ Degradation(o, i).agent = i /\ Degradation(p, j).agent = j
    BY DEF Degradation
  <2> QED BY <1>2, <2>1
<1>3. ASSUME NEW k, NEW p, NEW i, NEW j, Event(k, i) = Degradation(p, j) PROVE k = "degraded"
  <2>1. Event(k, i).kind = k /\ Degradation(p, j).kind = "degraded"
    BY DEF Event, Degradation
  <2> QED BY <1>3, <2>1
<1>4. ASSUME NEW o, NEW p, NEW i, NEW j, Said(o, i) = Said(p, j) PROVE o = p /\ i = j
  <2>1. /\ Said(o, i).operation = o /\ Said(p, j).operation = p
        /\ Said(o, i).task = i /\ Said(p, j).task = j
    BY DEF Said
  <2> QED BY <1>4, <2>1
<1> QED BY <1>1, <1>2, <1>3, <1>4

LEMMA Different ==
  ASSUME NEW i, NEW j
  PROVE  /\ Event("spawn", i) # Event("result", j) /\ Event("spawn", i) # Event("timeout", j)
         /\ Event("timeout", i) # Event("result", j) /\ Event("marker", 0) # Event("spawn", j)
         /\ Event("marker", 0) # Event("timeout", j) /\ Event("marker", 0) # Event("result", j)
         /\ Degradation("assign", i) # Degradation("result", j)
         /\ Event("spawn", i) # Degradation("assign", j) /\ Event("spawn", i) # Degradation("result", j)
         /\ Event("timeout", i) # Degradation("assign", j) /\ Event("timeout", i) # Degradation("result", j)
         /\ Event("result", i) # Degradation("assign", j) /\ Event("result", i) # Degradation("result", j)
         /\ Event("marker", 0) # Degradation("assign", j) /\ Event("marker", 0) # Degradation("result", j)
         /\ Said("assign", i) # Said("result", j)
         /\ i # j => /\ \A k \in {"spawn", "timeout", "result"} : Event(k, i) # Event(k, j)
                     /\ \A o \in {"assign", "result"} : Degradation(o, i) # Degradation(o, j)
                                                          /\ Said(o, i) # Said(o, j)
<1>1. ASSUME NEW k, NEW l, k # l PROVE Event(k, i) # Event(l, j) /\ Event(l, i) # Event(k, j)
                                       /\ Event(k, 0) # Event(l, j)
  BY <1>1, RecordsDiffer
<1>2. ASSUME NEW k \in {"spawn", "timeout", "result", "marker"}, NEW o
      PROVE  Event(k, i) # Degradation(o, j) /\ Event(k, 0) # Degradation(o, j)
  BY RecordsDiffer
<1>3. Degradation("assign", i) # Degradation("result", j) /\ Said("assign", i) # Said("result", j)
  BY RecordsDiffer
<1>4. ASSUME i # j
      PROVE  /\ \A k : Event(k, i) # Event(k, j)
             /\ \A o : Degradation(o, i) # Degradation(o, j) /\ Said(o, i) # Said(o, j)
  BY <1>4, RecordsDiffer
<1> QED BY <1>1, <1>2, <1>3, <1>4

LEMMA EventTypes ==
  ASSUME NEW i \in Nat
  PROVE  /\ \A k \in Kinds : Event(k, i) \in Events
         /\ \A o \in Operations : Degradation(o, i) \in Events /\ Said(o, i) \in Messages
<1>1. "degraded" \in Kinds /\ "" \in Operations
  BY DEF Kinds, Operations
<1> QED BY <1>1 DEF Event, Degradation, Said, Events, Messages

-----------------------------------------------------------------------------
\* Events that are not about a sub-task leave what the stream has of it.
LEMMA StreamedMore ==
  ASSUME NEW s \in Seq(Events), NEW e \in Seq(Events), NEW sub, NEW i, Streamed(s, sub, i),
         \A x \in About(i) : ~Has(e, x)
  PROVE  Streamed(s \o e, sub, i)
<1> PICK c : c = s \o e
  OBVIOUS
<1>1. \A x \in About(i) : (Has(c, x) <=> Has(s, x)) /\ (Single(s, x) => Single(c, x))
  BY HasJoined, SingleJoined
<1>2. ASSUME NEW x \in About(i), NEW y, Precede(s, x, y), Precede(e, x, y) PROVE Precede(c, x, y)
  BY <1>2, PrecedeJoined
<1>3. \A x \in About(i) : \A y : Precede(e, x, y)
  BY DEF Has, Precede
<1>4. /\ Event("spawn", i) \in About(i) /\ Event("result", i) \in About(i)
      /\ Event("timeout", i) \in About(i)
  BY DEF About
<1>5. /\ Precede(c, Event("spawn", i), Event("timeout", i))
      /\ Precede(c, Event("spawn", i), Event("result", i))
      /\ Precede(c, Event("timeout", i), Event("result", i))
  BY <1>2, <1>3, <1>4 DEF Streamed
<1> QED BY <1>1, <1>4, <1>5 DEF Streamed

\* So with the transcript.
LEMMA TranscribedMore ==
  ASSUME NEW s \in Seq(Events), NEW e \in Seq(Events), NEW t \in Seq(Messages), NEW r \in Seq(Messages),
         NEW sub, NEW i, Transcribed(s, t, sub, i), \A x \in About(i) : ~Has(e, x),
         ~Has(r, Said("assign", i)), ~Has(r, Said("result", i))
  PROVE  Transcribed(s \o e, t \o r, sub, i)
<1> PICK c : c = s \o e
  OBVIOUS
<1> PICK u : u = t \o r
  OBVIOUS
<1>1. \A x \in About(i) : (Has(c, x) <=> Has(s, x)) /\ (Single(s, x) => Single(c, x))
  BY HasJoined, SingleJoined
<1>2. \A x \in {Said("assign", i), Said("result", i)} : (Has(u, x) <=> Has(t, x)) /\ (Single(t, x) => Single(u, x))
  BY HasJoined, SingleJoined
<1>3. Degradation("assign", i) \in About(i) /\ Degradation("result", i) \in About(i)
  BY DEF About
<1>4. Precede(u, Said("assign", i), Said("result", i))
  <2>1. Precede(r, Said("assign", i), Said("result", i))
    BY DEF Has, Precede
  <2> QED BY <2>1, PrecedeJoined DEF Transcribed
<1>5. ASSUME NEW o \in {"assign", "result"}
      PROVE  /\ Accounted(s, t, o, i) => Accounted(c, u, o, i)
             /\ Unsaid(s, t, o, i) => Unsaid(c, u, o, i)
  BY <1>1, <1>2, <1>3 DEF Accounted, Unsaid
<1> QED BY <1>4, <1>5 DEF Transcribed

-----------------------------------------------------------------------------
LEMMA OneMore ==
  ASSUME NEW E, NEW e \in Seq(E), NEW a \in E, NEW x
  PROVE  /\ e \o <<a>> \in Seq(E)
         /\ Has(e \o <<a>>, x) <=> Has(e, x) \/ x = a
         /\ Single(e, x) /\ x # a => Single(e \o <<a>>, x)
         /\ ~Has(e, a) => Single(e \o <<a>>, a)
<1>0. <<a>> \in Seq(E)
  OBVIOUS
<1> PICK o \in Seq(E) : o = <<a>>
  BY <1>0
<1>1. (\A y : Has(o, y) <=> y = a) /\ Single(o, a)
  BY HasOne, SingleOne
<1>2. e \o <<a>> \in Seq(E)
  OBVIOUS
<1>3. Has(e \o <<a>>, x) <=> Has(e, x) \/ x = a
  BY <1>1, HasJoined
<1>4. Single(e, x) /\ x # a => Single(e \o <<a>>, x)
  BY <1>1, SingleJoined
<1>5. ~Has(e, a) => Single(e \o <<a>>, a)
  BY <1>1, SingleJoined
<1> QED BY <1>2, <1>3, <1>4, <1>5

\* What has been said of an invalid message.
LEMMA DegradedIs ==
  ASSUME NEW o \in Operations, NEW i \in Nat, NEW valid \in BOOLEAN, NEW e, e = Degraded(o, i, valid)
  PROVE  /\ e \in Seq(Events)
         /\ \A x : Has(e, x) <=> ~valid /\ x = Degradation(o, i)
         /\ ~valid => Single(e, Degradation(o, i))
<1>1. CASE valid
  <2>1. e = <<>>
    BY <1>1 DEF Degraded
  <2>2. e \in Seq(Events) /\ \A x : ~Has(e, x)
    BY <2>1, HasNone
  <2> QED BY <1>1, <2>2
<1>2. CASE ~valid
  <2>1. e = <<Degradation(o, i)>> /\ Degradation(o, i) \in Events
    BY <1>2, EventTypes DEF Degraded
  <2>2. e \in Seq(Events)
    BY <2>1
  <2>3. (\A x : Has(e, x) <=> x = Degradation(o, i)) /\ Single(e, Degradation(o, i))
    BY <2>1, HasOne, SingleOne
  <2> QED BY <1>2, <2>2, <2>3
<1> QED BY <1>1, <1>2

\* What is told of a start and of an end.
Starts(e, i, valid) ==
  /\ e \in Seq(Events)
  /\ \A x : Has(e, x) <=> x = Event("spawn", i) \/ (~valid /\ x = Degradation("assign", i))
  /\ Single(e, Event("spawn", i))
  /\ ~valid => Single(e, Degradation("assign", i))

Ends(e, i, outcome, valid, m) ==
  /\ e \in Seq(Events) /\ e # <<>>
  /\ \A x : Has(e, x) <=> \/ x = Event("result", i)
                          \/ outcome = "timeout" /\ x = Event("timeout", i)
                          \/ ~valid /\ x = Degradation("result", i)
                          \/ m # <<>> /\ x = Event("marker", 0)
  /\ Single(e, Event("result", i))
  /\ outcome = "timeout" => Single(e, Event("timeout", i))
  /\ ~valid => Single(e, Degradation("result", i))
  /\ Precede(e, Event("timeout", i), Event("result", i))

LEMMA StartEvents ==
  ASSUME NEW i \in Nat, NEW valid \in BOOLEAN, NEW e,
         e = Degraded("assign", i, valid) \o <<Event("spawn", i)>>
  PROVE  Starts(e, i, valid)
<1>1. "assign" \in Operations /\ Event("spawn", i) \in Events
  BY EventTypes DEF Operations, Kinds
<1>2. PICK d : d = Degraded("assign", i, valid)
  OBVIOUS
<1>3. /\ d \in Seq(Events) /\ \A x : Has(d, x) <=> ~valid /\ x = Degradation("assign", i)
      /\ ~valid => Single(d, Degradation("assign", i))
  BY <1>1, <1>2, DegradedIs
<1>4. Event("spawn", i) # Degradation("assign", i)
  BY Different
<1>5. /\ e \in Seq(Events)
      /\ \A x : Has(e, x) <=> x = Event("spawn", i) \/ (~valid /\ x = Degradation("assign", i))
      /\ Single(e, Event("spawn", i))
      /\ ~valid => Single(e, Degradation("assign", i))
  BY <1>1, <1>2, <1>3, <1>4, OneMore
<1> QED BY <1>5 DEF Starts

LEMMA EndEvents ==
  ASSUME NEW i \in Nat, NEW valid \in BOOLEAN, NEW outcome, NEW m \in {<<>>, <<Event("marker", 0)>>},
         NEW e, e = Notices(i, outcome, valid) \o <<Event("result", i)>> \o m
  PROVE  Ends(e, i, outcome, valid, m)
<1>1. "result" \in Operations /\ {Event("result", i), Event("timeout", i), Event("marker", 0)} \subseteq Events
  BY EventTypes DEF Operations, Kinds
<1>2. PICK d : d = Degraded("result", i, valid)
  OBVIOUS
<1>3. /\ d \in Seq(Events) /\ \A x : Has(d, x) <=> ~valid /\ x = Degradation("result", i)
      /\ ~valid => Single(d, Degradation("result", i))
  BY <1>1, <1>2, DegradedIs
<1>4. PICK n : n = IF outcome = "timeout" THEN <<Event("timeout", i)>> ELSE <<>>
  OBVIOUS
<1>5. /\ n \in Seq(Events) /\ \A x : Has(n, x) <=> outcome = "timeout" /\ x = Event("timeout", i)
      /\ outcome = "timeout" => Single(n, Event("timeout", i))
  <2>1. CASE outcome = "timeout"
    <3>1. n = <<Event("timeout", i)>> /\ n \in Seq(Events)
      BY <1>1, <1>4, <2>1
    <3>2. (\A x : Has(n, x) <=> x = Event("timeout", i)) /\ Single(n, Event("timeout", i))
      BY <3>1, HasOne, SingleOne
    <3> QED BY <2>1, <3>1, <3>2
  <2>2. CASE outcome # "timeout"
    <3>1. n = <<>> /\ n \in Seq(Events)
      BY <1>4, <2>2
    <3> QED BY <2>2, <3>1, HasNone
  <2> QED BY <2>1, <2>2
<1>6. PICK a : a = n \o d
  OBVIOUS
<1>7. /\ Event("timeout", i) # Degradation("result", i) /\ Event("timeout", i) # Event("result", i)
      /\ Event("result", i) # Degradation("result", i) /\ Event("marker", 0) # Event("result", i)
      /\ Event("marker", 0) # Event("timeout", i) /\ Event("marker", 0) # Degradation("result", i)
  BY Different
<1>8. /\ a \in Seq(Events)
      /\ \A x : Has(a, x) <=> (outcome = "timeout" /\ x = Event("timeout", i)) \/ (~valid /\ x = Degradation("result", i))
      /\ outcome = "timeout" => Single(a, Event("timeout", i))
      /\ ~valid => Single(a, Degradation("result", i))
  <2>1. a \in Seq(Events)
    BY <1>3, <1>5, <1>6
  <2>2. \A x : Has(a, x) <=> Has(n, x) \/ Has(d, x)
    BY <1>3, <1>5, <1>6, HasJoined
  <2>3. \A x : (Single(n, x) /\ ~Has(d, x) => Single(a, x)) /\ (Single(d, x) /\ ~Has(n, x) => Single(a, x))
    BY <1>3, <1>5, <1>6, SingleJoined
  <2> QED BY <1>3, <1>5, <1>7, <2>1, <2>2, <2>3
<1>9. PICK b : b = a \o <<Event("result", i)>>
  OBVIOUS
<1>10. /\ b \in Seq(Events)
       /\ \A x : Has(b, x) <=> Has(a, x) \/ x = Event("result", i)
       /\ \A x : Single(a, x) /\ x # Event("result", i) => Single(b, x)
       /\ Single(b, Event("result", i))
  BY <1>1, <1>7, <1>8, <1>9, OneMore
<1>11. Precede(b, Event("timeout", i), Event("result", i))
  <2>1. <<Event("result", i)>> \in Seq(Events)
    BY <1>1
  <2>2. ~Has(<<Event("result", i)>>, Event("timeout", i))
    BY <1>7, HasOne
  <2>3. Precede(<<Event("result", i)>>, Event("timeout", i), Event("result", i))
    BY <2>2, PrecedeNone
  <2>4. Precede(a, Event("timeout", i), Event("result", i))
    BY <1>7, <1>8, PrecedeNone
  <2> QED BY <1>8, <1>9, <2>1, <2>2, <2>3, <2>4, PrecedeJoined
<1>12. e = b \o m
  BY <1>2, <1>4, <1>6, <1>9 DEF Notices
<1>13. CASE m = <<>>
  <2>1. e = b
    BY <1>10, <1>12, <1>13
  <2>2. b # <<>>
    BY <1>10, HasNone, SingleHas
  <2> QED BY <1>7, <1>8, <1>10, <1>11, <1>13, <2>1, <2>2 DEF Ends
<1>14. CASE m = <<Event("marker", 0)>>
  <2>1. /\ e \in Seq(Events)
        /\ \A x : Has(e, x) <=> Has(b, x) \/ x = Event("marker", 0)
        /\ \A x : Single(b, x) /\ x # Event("marker", 0) => Single(e, x)
    <3> PICK mark : mark = Event("marker", 0)
      OBVIOUS
    <3>0. b \in Seq(Events) /\ mark \in Events
      BY <1>1, <1>10
    <3>1. PICK c : c = b \o <<mark>>
      OBVIOUS
    <3>2. \A x : Has(c, x) <=> Has(b, x) \/ x = mark
      BY <3>0, <3>1, OneMore
    <3>3. \A x : Single(b, x) /\ x # mark => Single(c, x)
      BY <3>0, <3>1, OneMore
    <3>4. c \in Seq(Events)
      BY <3>0, <3>1
    <3>5. e = c
      BY <1>12, <1>14, <3>1
    <3> QED BY <3>2, <3>3, <3>4, <3>5
  <2>2. Precede(e, Event("timeout", i), Event("result", i))
    <3>1. m \in Seq(Events) /\ ~Has(m, Event("timeout", i)) /\ Precede(m, Event("timeout", i), Event("result", i))
      BY <1>1, <1>7, <1>14, HasOne, PrecedeNone
    <3> QED BY <1>10, <1>11, <1>12, <3>1, PrecedeJoined
  <2>3. e # <<>>
    BY <2>1, HasNone
  <2>4. m # <<>>
    BY <1>14
  <2> QED BY <1>7, <1>8, <1>10, <2>1, <2>2, <2>3, <2>4 DEF Ends
<1> QED BY <1>13, <1>14

\* A sub-task is started.
LEMMA StartStreamed ==
  ASSUME NEW i \in Nat, NEW valid \in BOOLEAN, NEW e,
         e = Degraded("assign", i, valid) \o <<Event("spawn", i)>>,
         NEW s \in Seq(Events), NEW sub, sub.state = "waiting", Streamed(s, sub, i),
         NEW new, new.state = "running", new.timeout = sub.timeout
  PROVE  Streamed(s \o e, new, i)
<1> PICK c : c = s \o e
  OBVIOUS
<1>1. /\ e \in Seq(Events) /\ Single(e, Event("spawn", i))
      /\ \A x : Has(e, x) <=> x = Event("spawn", i) \/ (~valid /\ x = Degradation("assign", i))
  BY StartEvents DEF Starts
<1>2. /\ ~Has(e, Event("result", i)) /\ ~Has(e, Event("timeout", i))
  BY <1>1, Different
<1>3. ~Has(c, Event("result", i)) /\ ~Has(c, Event("timeout", i)) /\ Single(c, Event("spawn", i))
  <2>1. ~Has(s, Event("spawn", i)) /\ ~Has(s, Event("result", i)) /\ ~Has(s, Event("timeout", i))
    BY DEF Streamed
  <2>2. Single(c, Event("spawn", i))
    BY <1>1, <2>1, SingleJoined
  <2>3. ~Has(c, Event("result", i))
    BY <1>1, <1>2, <2>1, NotJoined
  <2>4. ~Has(c, Event("timeout", i))
    BY <1>1, <1>2, <2>1, NotJoined
  <2> QED BY <2>2, <2>3, <2>4
<1>4. ~ new.timeout
  BY DEF Streamed
<1>5. /\ Precede(c, Event("spawn", i), Event("timeout", i))
      /\ Precede(c, Event("spawn", i), Event("result", i))
      /\ Precede(c, Event("timeout", i), Event("result", i))
  BY <1>3, PrecedeNone
<1> QED BY <1>3, <1>4, <1>5 DEF Streamed

LEMMA StartTranscribed ==
  ASSUME NEW i \in Nat, NEW valid \in BOOLEAN, NEW e,
         e = Degraded("assign", i, valid) \o <<Event("spawn", i)>>,
         NEW s \in Seq(Events), NEW t \in Seq(Messages),
         NEW sub, sub.state = "waiting", Transcribed(s, t, sub, i),
         NEW new, new.state = "running",
         NEW u, u = IF valid THEN t \o <<Said("assign", i)>> ELSE t
  PROVE  Transcribed(s \o e, u, new, i)
<1> PICK c : c = s \o e
  OBVIOUS
<1>1. /\ e \in Seq(Events) /\ (~valid => Single(e, Degradation("assign", i)))
      /\ \A x : Has(e, x) <=> x = Event("spawn", i) \/ (~valid /\ x = Degradation("assign", i))
  BY StartEvents DEF Starts
<1>2. /\ ~Has(e, Degradation("result", i)) /\ (valid => ~Has(e, Degradation("assign", i)))
  BY <1>1, Different
<1>3. Unsaid(s, t, "assign", i) /\ Unsaid(s, t, "result", i)
  BY DEF Transcribed
<1>4. Said("assign", i) # Said("result", i) /\ Said("assign", i) \in Messages
  BY Different, EventTypes DEF Operations
<1>5. ~Has(c, Degradation("result", i))
  BY <1>1, <1>2, <1>3, NotJoined DEF Unsaid
<1>6. CASE valid
  <2>1. PICK m : m = Said("assign", i)
    OBVIOUS
  <2>2. u = t \o <<m>>
    BY <1>6, <2>1
  <2>3. Single(u, m)
    BY <1>3, <1>4, <2>1, <2>2, OneMore DEF Unsaid
  <2>4. ~Has(u, Said("result", i))
    BY <1>3, <1>4, <2>1, <2>2, OneMore DEF Unsaid
  <2>5. ~Has(c, Degradation("assign", i))
    BY <1>1, <1>2, <1>3, <1>6, NotJoined DEF Unsaid
  <2>6. Precede(u, Said("assign", i), Said("result", i))
    BY <2>4, PrecedeNone
  <2> QED BY <1>5, <2>1, <2>3, <2>4, <2>5, <2>6 DEF Transcribed, Accounted, Unsaid
<1>7. CASE ~valid
  <2>1. u = t
    BY <1>7
  <2>2. Single(c, Degradation("assign", i))
    BY <1>1, <1>3, <1>7, SingleJoined DEF Unsaid
  <2>3. Precede(u, Said("assign", i), Said("result", i))
    BY <2>1 DEF Transcribed
  <2> QED BY <1>3, <1>5, <2>1, <2>2, <2>3 DEF Transcribed, Accounted, Unsaid
<1> QED BY <1>6, <1>7

\* A sub-task ends.
LEMMA EndStreamed ==
  ASSUME NEW i \in Nat, NEW valid \in BOOLEAN, NEW outcome, NEW m \in {<<>>, <<Event("marker", 0)>>},
         NEW e, e = Notices(i, outcome, valid) \o <<Event("result", i)>> \o m,
         NEW s \in Seq(Events), NEW sub, sub.state = "running", Streamed(s, sub, i),
         NEW new, new.state = "done", new.timeout = (outcome = "timeout")
  PROVE  Streamed(s \o e, new, i)
<1> PICK c : c = s \o e
  OBVIOUS
<1>1. e \in Seq(Events) /\ Single(e, Event("result", i)) /\ Precede(e, Event("timeout", i), Event("result", i))
      /\ (outcome = "timeout" => Single(e, Event("timeout", i)))
  <2>1. Ends(e, i, outcome, valid, m)
    BY EndEvents
  <2> QED BY <2>1 DEF Ends
<1>2. \A x : Has(e, x) <=> \/ x = Event("result", i)
                           \/ outcome = "timeout" /\ x = Event("timeout", i)
                           \/ ~valid /\ x = Degradation("result", i)
                           \/ m # <<>> /\ x = Event("marker", 0)
  <2>1. Ends(e, i, outcome, valid, m)
    BY EndEvents
  <2> QED BY <2>1 DEF Ends
<1>3. ~Has(e, Event("spawn", i)) /\ (outcome # "timeout" => ~Has(e, Event("timeout", i)))
  <2>1. ~Has(e, Event("spawn", i))
    BY <1>2, Different
  <2>2. /\ Event("timeout", i) # Event("result", i) /\ Event("timeout", i) # Event("marker", 0)
        /\ Event("timeout", i) # Degradation("result", i)
    BY Different
  <2>3. outcome # "timeout" => ~Has(e, Event("timeout", i))
    BY <1>2, <2>2
  <2> QED BY <2>1, <2>3
<1>4. Single(s, Event("spawn", i)) /\ ~Has(s, Event("result", i)) /\ ~Has(s, Event("timeout", i))
  BY DEF Streamed
<1>5. Single(c, Event("spawn", i))
  BY <1>1, <1>3, <1>4, SingleJoined
<1>6. Single(c, Event("result", i))
  BY <1>1, <1>4, SingleJoined
<1>7. IF outcome = "timeout" THEN Single(c, Event("timeout", i)) ELSE ~Has(c, Event("timeout", i))
  <2>1. CASE outcome = "timeout"
    BY <1>1, <1>4, <2>1, SingleJoined
  <2>2. CASE outcome # "timeout"
    BY <1>1, <1>3, <1>4, <2>2, NotJoined
  <2> QED BY <2>1, <2>2
<1>8. Precede(c, Event("spawn", i), Event("result", i))
  <2>1. Precede(e, Event("spawn", i), Event("result", i)) /\ Precede(s, Event("spawn", i), Event("result", i))
    BY <1>3, <1>4, PrecedeNone
  <2> QED BY <1>1, <1>3, <2>1, PrecedeJoined
<1>9. Precede(c, Event("timeout", i), Event("result", i))
  <2>1. Precede(s, Event("timeout", i), Event("result", i))
    BY <1>4, PrecedeNone
  <2> QED BY <1>1, <1>4, <2>1, PrecedeJoined
<1>10. Precede(c, Event("spawn", i), Event("timeout", i))
  <2>1. Precede(e, Event("spawn", i), Event("timeout", i)) /\ Precede(s, Event("spawn", i), Event("timeout", i))
    BY <1>3, <1>4, PrecedeNone
  <2> QED BY <1>1, <1>3, <2>1, PrecedeJoined
<1> QED BY <1>5, <1>6, <1>7, <1>8, <1>9, <1>10 DEF Streamed

LEMMA EndTranscribed ==
  ASSUME NEW i \in Nat, NEW valid \in BOOLEAN, NEW outcome, NEW m \in {<<>>, <<Event("marker", 0)>>},
         NEW e, e = Notices(i, outcome, valid) \o <<Event("result", i)>> \o m,
         NEW s \in Seq(Events), NEW t \in Seq(Messages),
         NEW sub, sub.state = "running", Transcribed(s, t, sub, i),
         NEW new, new.state = "done",
         NEW u, u = IF valid THEN t \o <<Said("result", i)>> ELSE t
  PROVE  Transcribed(s \o e, u, new, i)
<1> PICK c : c = s \o e
  OBVIOUS
<1>1. e \in Seq(Events) /\ (~valid => Single(e, Degradation("result", i)))
  <2>1. Ends(e, i, outcome, valid, m)
    BY EndEvents
  <2> QED BY <2>1 DEF Ends
<1>2. \A x : Has(e, x) <=> \/ x = Event("result", i)
                           \/ outcome = "timeout" /\ x = Event("timeout", i)
                           \/ ~valid /\ x = Degradation("result", i)
                           \/ m # <<>> /\ x = Event("marker", 0)
  <2>1. Ends(e, i, outcome, valid, m)
    BY EndEvents
  <2> QED BY <2>1 DEF Ends
<1>3. ~Has(e, Degradation("assign", i)) /\ (valid => ~Has(e, Degradation("result", i)))
  <2>1. \A o \in {"assign", "result"} :
          /\ Event("timeout", i) # Degradation(o, i) /\ Event("marker", 0) # Degradation(o, i)
          /\ Event("result", i) # Degradation(o, i)
    BY Different
  <2>2. Degradation("assign", i) # Degradation("result", i)
    BY Different
  <2>3. ~Has(e, Degradation("assign", i))
    BY <1>2, <2>1, <2>2
  <2>4. valid => ~Has(e, Degradation("result", i))
    BY <1>2, <2>1
  <2> QED BY <2>3, <2>4
<1>4. Accounted(s, t, "assign", i) /\ Unsaid(s, t, "result", i)
  BY DEF Transcribed
<1>5. Said("assign", i) # Said("result", i) /\ Said("result", i) \in Messages
  BY Different, EventTypes DEF Operations
<1>6. /\ ~Has(s, Degradation("assign", i)) => ~Has(c, Degradation("assign", i))
      /\ Single(s, Degradation("assign", i)) => Single(c, Degradation("assign", i))
  <2> PICK x : x = Degradation("assign", i)
    OBVIOUS
  <2>0. e \in Seq(Events)
    BY <1>1
  <2>1. ~Has(s, x) => ~Has(c, x)
    BY <1>3, <2>0, NotJoined
  <2>2. Single(s, x) => Single(c, x)
    BY <1>1, <1>3, SingleJoined
  <2> QED BY <1>3, <2>1, <2>2
<1>7. CASE valid
  <2>1. PICK r : r = Said("result", i)
    OBVIOUS
  <2>2. u = t \o <<r>> /\ r \in Messages
    BY <1>5, <1>7, <2>1
  <2>3. Single(u, r)
    BY <1>4, <2>1, <2>2, OneMore DEF Unsaid
  <2>4. /\ Has(u, Said("assign", i)) <=> Has(t, Said("assign", i))
        /\ Single(t, Said("assign", i)) => Single(u, Said("assign", i))
    BY <1>5, <2>1, <2>2, OneMore
  <2>5. ~Has(c, Degradation("result", i))
    BY <1>1, <1>3, <1>4, <1>7, NotJoined DEF Unsaid
  <2>6. Precede(u, Said("assign", i), r)
    <3>1. <<r>> \in Seq(Messages) /\ ~Has(<<r>>, Said("assign", i)) /\ Precede(<<r>>, Said("assign", i), r)
      <4>1. <<r>> \in Seq(Messages)
        BY <2>2
      <4>2. ~Has(<<r>>, Said("assign", i))
        BY <1>5, <2>1, HasOne
      <4> QED BY <4>1, <4>2, PrecedeNone
    <3>2. Precede(t, Said("assign", i), r)
      BY <2>1 DEF Transcribed
    <3> QED BY <2>2, <3>1, <3>2, PrecedeJoined
  <2> QED BY <1>4, <1>6, <2>1, <2>3, <2>4, <2>5, <2>6 DEF Transcribed, Accounted, Unsaid
<1>8. CASE ~valid
  <2>1. u = t
    BY <1>8
  <2>2. Single(c, Degradation("result", i))
    BY <1>1, <1>4, <1>8, SingleJoined DEF Unsaid
  <2>3. Precede(u, Said("assign", i), Said("result", i))
    BY <2>1 DEF Transcribed
  <2> QED BY <1>4, <1>6, <2>1, <2>2, <2>3 DEF Transcribed, Accounted, Unsaid
<1> QED BY <1>7, <1>8

\* Others hear nothing of themselves.
LEMMA StartOthers ==
  ASSUME NEW i \in Nat, NEW j \in Nat, i # j, NEW valid \in BOOLEAN, NEW e,
         e = Degraded("assign", i, valid) \o <<Event("spawn", i)>>
  PROVE  \A x \in About(j) : ~Has(e, x)
<1>1. \A x : Has(e, x) <=> x = Event("spawn", i) \/ (~valid /\ x = Degradation("assign", i))
  BY StartEvents DEF Starts
<1>2. Event("spawn", i) \notin About(j) /\ Degradation("assign", i) \notin About(j)
  BY Different DEF About
<1> QED BY <1>1, <1>2

LEMMA EndOthers ==
  ASSUME NEW i \in Nat, NEW j \in Nat, i # j, NEW valid \in BOOLEAN, NEW outcome,
         NEW m \in {<<>>, <<Event("marker", 0)>>},
         NEW e, e = Notices(i, outcome, valid) \o <<Event("result", i)>> \o m
  PROVE  \A x \in About(j) : ~Has(e, x)
<1>1. \A x : Has(e, x) <=> \/ x = Event("result", i)
                           \/ outcome = "timeout" /\ x = Event("timeout", i)
                           \/ ~valid /\ x = Degradation("result", i)
                           \/ m # <<>> /\ x = Event("marker", 0)
  <2>1. Ends(e, i, outcome, valid, m)
    BY EndEvents
  <2> QED BY <2>1 DEF Ends
<1>2. /\ Event("result", i) \notin About(j) /\ Event("timeout", i) \notin About(j)
      /\ Degradation("result", i) \notin About(j)
  BY Different DEF About
<1>3. Event("marker", 0) \notin About(j)
  BY Different DEF About
<1> QED BY <1>1, <1>2, <1>3

-----------------------------------------------------------------------------
(* The markers in the queue. *)

MarksOf(q) == {k \in DOMAIN q : q[k].kind = "marker"}

LEMMA MarksFinite ==
  ASSUME NEW E, NEW q \in Seq(E)
  PROVE  /\ IsFiniteSet(MarksOf(q)) /\ Cardinality(MarksOf(q)) \in Nat
         /\ Cardinality(MarksOf(q)) = 0 => MarksOf(q) = {}
<1> PICK n \in Nat : n = Len(q) /\ DOMAIN q = 1..n
  OBVIOUS
<1>1. IsFiniteSet(1..n)
  <2>1. 1 \in Int /\ n \in Int
    OBVIOUS
  <2> QED BY <2>1, FS_Interval
<1>2. MarksOf(q) \in SUBSET (1..n)
  BY DEF MarksOf
<1> PICK M \in SUBSET (1..n) : M = MarksOf(q)
  BY <1>2
<1>3. IsFiniteSet(M)
  BY <1>1, FS_Subset
<1>4. Cardinality(M) \in Nat
  BY <1>3, FS_CardinalityType
<1>5. Cardinality(M) = 0 => M = {}
  BY <1>3, FS_EmptySet
<1> QED BY <1>3, <1>4, <1>5

\* Events without a marker add none.
LEMMA NoMarkMore ==
  ASSUME NEW E, NEW a \in Seq(E), NEW b \in Seq(E), MarksOf(b) = {}
  PROVE  MarksOf(a \o b) = MarksOf(a)
<1> PICK c : c = a \o b
  OBVIOUS
<1> PICK n : n = Len(a)
  OBVIOUS
<1>1. IsJoin(c, a, b, n)
  BY Joined
<1>2. ASSUME NEW k \in MarksOf(c) PROVE k \in MarksOf(a)
  <2>1. ASSUME NEW l \in DOMAIN b, k = n + l PROVE FALSE
    BY <1>1, <2>1 DEF IsJoin, MarksOf
  <2>2. k \in DOMAIN a
    BY <1>1, <2>1 DEF IsJoin, MarksOf
  <2> QED BY <1>1, <2>2 DEF IsJoin, MarksOf
<1>3. ASSUME NEW k \in MarksOf(a) PROVE k \in MarksOf(c)
  BY <1>1 DEF IsJoin, MarksOf
<1>4. MarksOf(c) = MarksOf(a)
  BY <1>2, <1>3
<1> QED BY <1>4

LEMMA MarkMore ==
  ASSUME NEW E, NEW a \in Seq(E), NEW mark \in E, mark.kind = "marker"
  PROVE  Cardinality(MarksOf(a \o <<mark>>)) = Cardinality(MarksOf(a)) + 1
<1>0. <<mark>> \in Seq(E)
  OBVIOUS
<1> PICK b \in Seq(E) : b = <<mark>>
  BY <1>0
<1> PICK c : c = a \o b
  OBVIOUS
<1> PICK n : n = Len(a)
  OBVIOUS
<1>1. IsJoin(c, a, b, n)
  BY Joined
<1>2. DOMAIN b = {1} /\ b[1].kind = "marker"
  OBVIOUS
<1>3. n + 1 \notin MarksOf(a) /\ n + 1 \in MarksOf(c)
  BY <1>1, <1>2 DEF IsJoin, MarksOf
<1>4. ASSUME NEW k \in MarksOf(c) PROVE k \in MarksOf(a) \/ k = n + 1
  BY <1>1, <1>2 DEF IsJoin, MarksOf
<1>5. ASSUME NEW k \in MarksOf(a) PROVE k \in MarksOf(c)
  BY <1>1 DEF IsJoin, MarksOf
<1>6. MarksOf(c) = MarksOf(a) \cup {n + 1}
  BY <1>3, <1>4, <1>5
<1>7. IsFiniteSet(MarksOf(a))
  BY MarksFinite
<1>8. Cardinality(MarksOf(a) \cup {n + 1}) = Cardinality(MarksOf(a)) + 1
  BY <1>3, <1>7, FS_AddElement
<1> QED BY <1>6, <1>8

\* The first of a queue is taken.
LEMMA MarksTail ==
  ASSUME NEW E, NEW q \in Seq(E), q # <<>>
  PROVE  Cardinality(MarksOf(q)) = Cardinality(MarksOf(Tail(q))) + (IF Head(q).kind = "marker" THEN 1 ELSE 0)
<1>0. Tail(q) \in Seq(E)
  OBVIOUS
<1> PICK t \in Seq(E) : t = Tail(q)
  BY <1>0
<1> PICK n \in Nat : n = Len(q) /\ n # 0
  OBVIOUS
<1>1. DOMAIN q = 1..n /\ DOMAIN t = 1..n - 1 /\ q[1] = Head(q) /\ \A k \in 1..n - 1 : t[k] = q[k + 1]
  OBVIOUS
<1> PICK S : S = MarksOf(t)
  OBVIOUS
<1> PICK T : T = MarksOf(q) \ {1}
  OBVIOUS
<1>2. IsFiniteSet(S) /\ Cardinality(S) \in Nat /\ IsFiniteSet(MarksOf(q)) /\ Cardinality(MarksOf(q)) \in Nat
  BY MarksFinite
<1>3. ASSUME NEW k \in S PROVE k \in Nat /\ k + 1 \in T
  BY <1>1 DEF MarksOf
<1>4. ASSUME NEW l \in T PROVE l \in Nat /\ l - 1 \in S /\ (l - 1) + 1 = l
  <2>1. l \in 1..n /\ l # 1 /\ q[l].kind = "marker"
    BY <1>1 DEF MarksOf
  <2>2. l - 1 \in 1..n - 1 /\ (l - 1) + 1 = l
    BY <2>1
  <2> QED BY <1>1, <2>1, <2>2 DEF MarksOf
<1>5. [k \in S |-> k + 1] \in Bijection(S, T)
  <2> PICK f : f = [k \in S |-> k + 1]
    OBVIOUS
  <2>1. f \in [S -> T]
    BY <1>3
  <2>2. \A k, l \in S : f[k] = f[l] => k = l
    BY <1>3
  <2>3. \A l \in T : \E k \in S : f[k] = l
    BY <1>4
  <2>4. f \in Bijection(S, T)
    BY <2>1, <2>2, <2>3 DEF Bijection, Injection, Surjection, IsInjective
  <2> QED BY <2>4
<1>6. Cardinality(T) = Cardinality(S)
  <2>1. ExistsBijection(S, T)
    BY <1>5 DEF ExistsBijection
  <2> QED BY <1>2, <2>1, FS_Bijection
<1>7. Cardinality(T) = IF 1 \in MarksOf(q) THEN Cardinality(MarksOf(q)) - 1 ELSE Cardinality(MarksOf(q))
  BY <1>2, FS_RemoveElement
<1>8. 1 \in MarksOf(q) <=> Head(q).kind = "marker"
  BY <1>1 DEF MarksOf
<1> QED BY <1>2, <1>6, <1>7, <1>8

-----------------------------------------------------------------------------
(* The invariant: what is true of the client's events and those in the queue,
   taken together, is true of every event that has happened. *)

UltraTypes ==
  /\ stage \in {"idle", "planning", "dispatch", "synthesis", "over", "left"} /\ parallel \in BOOLEAN
  /\ pool \in Seq(Nat) /\ subs \in Seq(SubTasks) /\ finished \in Nat
  /\ queue \in Seq(Events) /\ told \in Seq(Events)
  /\ slap # Off => slap \in Seq(Messages)

\* The events in the order in which they happened.
Stream == told \o queue
StreamInv ==
  \A i \in DOMAIN subs :
    Streamed(Stream, subs[i], i) /\ (slap # Off => Transcribed(Stream, slap, subs[i], i))

DoneSubs == {i \in DOMAIN subs : subs[i].state = "done"}
NoneRuns == \A i \in DOMAIN subs : subs[i].state # "running"
MarksInv ==
  /\ parallel => finished + Cardinality(MarksOf(queue)) = Cardinality(DoneSubs)
  /\ ~parallel => queue = <<>>
  /\ queue # <<>> /\ NoneRuns => queue[Len(queue)].kind = "marker"

StageInv ==
  /\ stage \in {"idle", "planning"} => subs = <<>> /\ queue = <<>> /\ told = <<>> /\ finished = 0
  /\ stage \in {"synthesis", "over"} => queue = <<>> /\ DoneSubs = DOMAIN subs /\ (slap # Off => trace = slap)

ToldInv == UltraTypes /\ StreamInv /\ MarksInv /\ StageInv

\* The stream only grows when something is emitted.
LEMMA Emitted ==
  ASSUME UltraTypes, ~parallel => queue = <<>>, NEW e \in Seq(Events), Emit(e)
  PROVE  /\ told' \in Seq(Events) /\ queue' \in Seq(Events) /\ Stream' = Stream \o e
         /\ Stream \in Seq(Events) /\ (~parallel => queue' = <<>>)
         /\ parallel => queue' = queue \o e
<1>1. told \in Seq(Events) /\ queue \in Seq(Events)
  BY DEF UltraTypes
<1>2. CASE parallel
  <2>1. queue' = queue \o e /\ told' = told
    BY <1>2 DEF Emit
  <2>2. told \o (queue \o e) = (told \o queue) \o e
    BY <1>1
  <2>3. queue \o e \in Seq(Events) /\ told \o queue \in Seq(Events)
    BY <1>1
  <2> QED BY <1>1, <1>2, <2>1, <2>2, <2>3 DEF Stream
<1>3. CASE ~parallel
  <2>1. queue' = queue /\ told' = told \o e /\ queue = <<>>
    BY <1>3 DEF Emit
  <2>2. told \o <<>> = told /\ (told \o e) \o <<>> = told \o e /\ told \o e \in Seq(Events)
    BY <1>1
  <2>3. Stream' = Stream \o e /\ Stream \in Seq(Events)
    BY <1>1, <2>1, <2>2 DEF Stream
  <2> QED BY <1>1, <1>3, <2>1, <2>2, <2>3
<1> QED BY <1>2, <1>3

\* What a message does to the transcript.
LEMMA RecordedIs ==
  ASSUME UltraTypes, NEW o \in Operations, NEW i \in Nat, NEW valid \in BOOLEAN,
         slap' = Recorded(Said(o, i), valid), slap' # Off
  PROVE  /\ slap # Off /\ slap \in Seq(Messages) /\ slap' \in Seq(Messages)
         /\ slap' = IF valid THEN slap \o <<Said(o, i)>> ELSE slap
<1>1. slap # Off
  BY DEF Recorded
<1>2. slap \in Seq(Messages)
  BY <1>1 DEF UltraTypes
<1>3. Said(o, i) \in Messages
  BY EventTypes
<1> PICK m \in Messages : m = Said(o, i)
  BY <1>3
<1>4. slap' = IF valid THEN Append(slap, m) ELSE slap
  BY <1>1 DEF Recorded
<1>5. Append(slap, m) = slap \o <<m>> /\ Append(slap, m) \in Seq(Messages)
  BY <1>2
<1>6. slap' \in Seq(Messages)
  BY <1>2, <1>4, <1>5
<1> QED BY <1>1, <1>2, <1>4, <1>5, <1>6

\* One sub-task changes.
LEMMA SubChanged ==
  ASSUME subs \in Seq(SubTasks), NEW i \in DOMAIN subs, NEW new \in SubTasks, NEW next, next = [subs EXCEPT ![i] = new]
  PROVE  /\ next \in Seq(SubTasks) /\ DOMAIN next = DOMAIN subs /\ next[i] = new
         /\ \A j \in DOMAIN subs : j # i => next[j] = subs[j]
OBVIOUS

LEMMA SubNat == ASSUME UltraTypes, NEW i \in DOMAIN subs PROVE i \in Nat /\ subs[i] \in SubTasks
BY DEF UltraTypes

\* The steps keep the invariant.
LEMMA StartTold ==
  ASSUME ToldInv, NEW i \in DOMAIN subs, NEW valid \in BOOLEAN, Start(i, valid)
  PROVE  ToldInv'
<1>1. UltraTypes /\ StreamInv /\ MarksInv /\ StageInv
  BY DEF ToldInv
<1>2. i \in Nat /\ subs[i] \in SubTasks /\ subs \in Seq(SubTasks)
  BY <1>1, SubNat DEF UltraTypes
<1>3. /\ Dispatching /\ subs[i].state = "waiting" /\ (parallel => pool # <<>>)
      /\ slap' = Recorded(Said("assign", i), valid)
      /\ stage' = stage /\ parallel' = parallel /\ finished' = finished /\ trace' = trace
  BY DEF Start
<1>4. PICK e : e = Degraded("assign", i, valid) \o <<Event("spawn", i)>>
  OBVIOUS
<1>5. Emit(e)
  BY <1>4 DEF Start
<1>6. e \in Seq(Events) /\ MarksOf(e) = {}
  <2>1. Starts(e, i, valid)
    BY <1>2, <1>4, StartEvents
  <2>2. Event("spawn", i).kind = "spawn" /\ Degradation("assign", i).kind = "degraded"
    BY DEF Event, Degradation
  <2>3. ASSUME NEW k \in MarksOf(e) PROVE FALSE
    <3>1. k \in DOMAIN e /\ e[k].kind = "marker" /\ Has(e, e[k])
      BY DEF MarksOf, Has
    <3> QED BY <2>1, <2>2, <3>1 DEF Starts
  <2> QED BY <2>1, <2>3 DEF Starts
<1>7. PICK worker \in Nat : worker = IF parallel THEN Head(pool) ELSE 1
  <2>1. parallel => Head(pool) \in Nat
    BY <1>1, <1>3 DEF UltraTypes
  <2> QED BY <2>1
<1>8. PICK new \in SubTasks : new = [subs[i] EXCEPT !.state = "running", !.worker = worker]
  BY <1>2 DEF SubTasks
<1>9. subs' = [subs EXCEPT ![i] = new]
  BY <1>2, <1>7, <1>8 DEF Start, SubTasks
<1>10. new.state = "running" /\ new.timeout = subs[i].timeout
  BY <1>2, <1>8 DEF SubTasks
<1>11. subs' \in Seq(SubTasks) /\ DOMAIN subs' = DOMAIN subs /\ subs'[i] = new
       /\ \A j \in DOMAIN subs : j # i => subs'[j] = subs[j]
  BY <1>2, <1>9, SubChanged
<1>12. /\ told' \in Seq(Events) /\ queue' \in Seq(Events) /\ Stream' = Stream \o e
       /\ Stream \in Seq(Events) /\ (~parallel => queue' = <<>>)
       /\ parallel => queue' = queue \o e
  <2>1. ~parallel => queue = <<>>
    BY <1>1 DEF MarksInv
  <2> QED BY <1>1, <1>5, <1>6, <2>1, Emitted
<1>13. slap' # Off => /\ slap # Off /\ slap \in Seq(Messages) /\ slap' \in Seq(Messages)
                      /\ slap' = IF valid THEN slap \o <<Said("assign", i)>> ELSE slap
  <2>1. "assign" \in Operations
    BY DEF Operations
  <2> QED BY <1>1, <1>2, <1>3, <2>1, RecordedIs
<1>14. UltraTypes'
  <2>1. pool' \in Seq(Nat)
    BY <1>1, <1>3 DEF Start, UltraTypes
  <2> QED BY <1>1, <1>3, <1>11, <1>12, <1>13, <2>1 DEF UltraTypes
<1>15. StreamInv'
  <2> SUFFICES ASSUME NEW j \in DOMAIN subs
               PROVE  Streamed(Stream \o e, subs'[j], j) /\ (slap' # Off => Transcribed(Stream \o e, slap', subs'[j], j))
    BY <1>11, <1>12 DEF StreamInv
  <2>1. Streamed(Stream, subs[j], j) /\ (slap # Off => Transcribed(Stream, slap, subs[j], j))
    BY <1>1 DEF StreamInv
  <2>2. CASE j = i
    <3>1. Streamed(Stream \o e, new, i)
      BY <1>2, <1>3, <1>4, <1>10, <1>12, <2>1, <2>2, StartStreamed
    <3>2. ASSUME slap' # Off PROVE Transcribed(Stream \o e, slap', new, i)
      BY <1>2, <1>3, <1>4, <1>10, <1>12, <1>13, <2>1, <2>2, <3>2, StartTranscribed
    <3> QED BY <1>11, <2>2, <3>1, <3>2
  <2>3. CASE j # i
    <3>1. j \in Nat /\ subs'[j] = subs[j]
      BY <1>1, <1>11, <2>3, SubNat
    <3>2. \A x \in About(j) : ~Has(e, x)
      BY <1>2, <1>4, <2>3, <3>1, StartOthers
    <3>3. Streamed(Stream \o e, subs[j], j)
      BY <1>6, <1>12, <2>1, <3>2, StreamedMore
    <3>4. ASSUME slap' # Off PROVE Transcribed(Stream \o e, slap', subs[j], j)
      <4>1. PICK r \in Seq(Messages) : /\ ~Has(r, Said("assign", j)) /\ ~Has(r, Said("result", j))
                                       /\ slap' = slap \o r
        <5>1. CASE valid
          <6>1. <<Said("assign", i)>> \in Seq(Messages)
            <7>1. Said("assign", i) \in Messages
              BY <1>2, EventTypes DEF Operations
            <7> QED BY <7>1
          <6>2. Said("assign", i) # Said("assign", j) /\ Said("assign", i) # Said("result", j)
            BY <2>3, Different
          <6>3. ~Has(<<Said("assign", i)>>, Said("assign", j)) /\ ~Has(<<Said("assign", i)>>, Said("result", j))
            BY <6>2, HasOne
          <6> QED BY <1>13, <3>4, <5>1, <6>1, <6>3
        <5>2. CASE ~valid
          <6>1. <<>> \in Seq(Messages) /\ slap' = slap \o <<>>
            BY <1>13, <3>4, <5>2
          <6> QED BY <6>1, HasNone
        <5> QED BY <5>1, <5>2
      <4> QED BY <1>6, <1>12, <1>13, <2>1, <3>2, <3>4, <4>1, TranscribedMore
    <3> QED BY <3>1, <3>3, <3>4
  <2> QED BY <2>2, <2>3
<1>16. MarksInv'
  <2>1. DoneSubs' = DoneSubs
    BY <1>3, <1>10, <1>11 DEF DoneSubs
  <2>2. parallel => MarksOf(queue') = MarksOf(queue)
    <3>1. queue \in Seq(Events)
      BY <1>1 DEF UltraTypes
    <3>2. MarksOf(queue \o e) = MarksOf(queue)
      BY <1>6, <3>1, NoMarkMore
    <3> QED BY <1>12, <3>2
  <2>3. ~NoneRuns'
    BY <1>10, <1>11 DEF NoneRuns
  <2> QED BY <1>1, <1>3, <1>12, <2>1, <2>2, <2>3 DEF MarksInv
<1>17. StageInv'
  BY <1>3 DEF StageInv, Dispatching
<1> QED BY <1>14, <1>15, <1>16, <1>17 DEF ToldInv

LEMMA NoMarksIn ==
  ASSUME NEW i \in Nat, NEW valid \in BOOLEAN, NEW outcome, NEW b,
         b = Notices(i, outcome, valid) \o <<Event("result", i)>>
  PROVE  b \in Seq(Events) /\ MarksOf(b) = {}
<1> PICK e : e = Notices(i, outcome, valid) \o <<Event("result", i)>> \o <<>>
  OBVIOUS
<1>1. Ends(e, i, outcome, valid, <<>>)
  BY EndEvents
<1>2. b \in Seq(Events)
  <2>1. Degraded("result", i, valid) \in Seq(Events)
    BY DegradedIs DEF Operations
  <2>2. Event("timeout", i) \in Events /\ Event("result", i) \in Events
    BY EventTypes DEF Kinds
  <2>3. (IF outcome = "timeout" THEN <<Event("timeout", i)>> ELSE <<>>) \in Seq(Events)
    BY <2>2
  <2>4. Notices(i, outcome, valid) \in Seq(Events)
    BY <2>1, <2>3 DEF Notices
  <2>5. <<Event("result", i)>> \in Seq(Events)
    BY <2>2
  <2> QED BY <2>4, <2>5
<1>3. e = b
  BY <1>2
<1>4. /\ Event("result", i).kind = "result" /\ Event("timeout", i).kind = "timeout"
      /\ Degradation("result", i).kind = "degraded"
  BY DEF Event, Degradation
<1>5. ASSUME NEW k \in MarksOf(b) PROVE FALSE
  <2>1. b[k].kind = "marker" /\ Has(b, b[k])
    BY DEF MarksOf, Has
  <2> QED BY <1>1, <1>3, <1>4, <2>1 DEF Ends
<1> QED BY <1>2, <1>5

LEMMA EndTold ==
  ASSUME ToldInv, NEW i \in DOMAIN subs, NEW outcome \in Outcomes, NEW valid \in BOOLEAN,
         End(i, outcome, valid)
  PROVE  ToldInv'
<1>1. UltraTypes /\ StreamInv /\ MarksInv /\ StageInv
  BY DEF ToldInv
<1>2. i \in Nat /\ subs[i] \in SubTasks /\ subs \in Seq(SubTasks)
  BY <1>1, SubNat DEF UltraTypes
<1>3. /\ Dispatching /\ subs[i].state = "running"
      /\ slap' = Recorded(Said("result", i), valid)
      /\ stage' = stage /\ parallel' = parallel /\ finished' = finished /\ trace' = trace
  BY DEF End, Ended
<1>4. PICK b : b = Notices(i, outcome, valid) \o <<Event("result", i)>>
  OBVIOUS
<1>5. PICK m \in {<<>>, <<Event("marker", 0)>>} : m = Marker /\ m = IF parallel THEN <<Event("marker", 0)>> ELSE <<>>
  BY DEF Marker
<1>6. PICK e : e = Notices(i, outcome, valid) \o <<Event("result", i)>> \o m
  OBVIOUS
<1>7. e = b \o m /\ b \in Seq(Events) /\ MarksOf(b) = {} /\ m \in Seq(Events)
  <2>1. b \in Seq(Events) /\ MarksOf(b) = {}
    BY <1>2, <1>4, NoMarksIn
  <2>2. m \in Seq(Events)
    <3>1. Event("marker", 0) \in Events
      BY EventTypes DEF Kinds
    <3>2. <<Event("marker", 0)>> \in Seq(Events) /\ <<>> \in Seq(Events)
      BY <3>1
    <3> QED BY <3>2
  <2>3. (Notices(i, outcome, valid) \o <<Event("result", i)>>) \o m = b \o m
    BY <1>4
  <2> QED BY <1>6, <2>1, <2>2, <2>3
<1>8. Ends(e, i, outcome, valid, m)
  BY <1>2, <1>6, EndEvents
<1>9. Emit(e) /\ e \in Seq(Events)
  BY <1>5, <1>6, <1>8 DEF End, Ended, Ends
<1>10. PICK new \in SubTasks : /\ new.state = "done" /\ new.timeout = (outcome = "timeout")
                               /\ subs' = [subs EXCEPT ![i] = new]
  <2> PICK late \in BOOLEAN : late = (outcome = "timeout")
    OBVIOUS
  <2> PICK result \in {"ok", "failed"} : result = IF outcome = "ok" THEN "ok" ELSE "failed"
    OBVIOUS
  <2> PICK new : new = [subs[i] EXCEPT !.state = "done", !.timeout = late, !.result = result]
    OBVIOUS
  <2>1. new \in SubTasks /\ new.state = "done" /\ new.timeout = late
    BY <1>2 DEF SubTasks
  <2>2. subs' = [subs EXCEPT ![i].state = "done", ![i].timeout = late, ![i].result = result]
    BY DEF End, Ended
  <2>3. subs' = [subs EXCEPT ![i] = new]
    BY <1>2, <2>2
  <2> QED BY <2>1, <2>3
<1>11. subs' = [subs EXCEPT ![i] = new]
  BY <1>10
<1>12. subs' \in Seq(SubTasks) /\ DOMAIN subs' = DOMAIN subs /\ subs'[i] = new
       /\ \A j \in DOMAIN subs : j # i => subs'[j] = subs[j]
  BY <1>2, <1>11, SubChanged
<1>13. /\ told' \in Seq(Events) /\ queue' \in Seq(Events) /\ Stream' = Stream \o e
       /\ Stream \in Seq(Events) /\ (~parallel => queue' = <<>>)
       /\ parallel => queue' = queue \o e
  <2>1. ~parallel => queue = <<>>
    BY <1>1 DEF MarksInv
  <2> QED BY <1>1, <1>9, <2>1, Emitted
<1>14. slap' # Off => /\ slap # Off /\ slap \in Seq(Messages) /\ slap' \in Seq(Messages)
                      /\ slap' = IF valid THEN slap \o <<Said("result", i)>> ELSE slap
  <2>1. "result" \in Operations
    BY DEF Operations
  <2> QED BY <1>1, <1>2, <1>3, <2>1, RecordedIs
<1>15. UltraTypes'
  <2>1. pool' \in Seq(Nat)
    <3>1. pool \in Seq(Nat) /\ subs[i].worker \in Nat
      BY <1>1, <1>2 DEF UltraTypes, SubTasks
    <3> QED BY <3>1 DEF End, Ended
  <2> QED BY <1>1, <1>3, <1>12, <1>13, <1>14, <2>1 DEF UltraTypes
<1>16. StreamInv'
  <2> SUFFICES ASSUME NEW j \in DOMAIN subs
               PROVE  Streamed(Stream \o e, subs'[j], j) /\ (slap' # Off => Transcribed(Stream \o e, slap', subs'[j], j))
    BY <1>12, <1>13 DEF StreamInv
  <2>1. Streamed(Stream, subs[j], j) /\ (slap # Off => Transcribed(Stream, slap, subs[j], j))
    BY <1>1 DEF StreamInv
  <2>2. CASE j = i
    <3>1. Streamed(Stream \o e, new, i)
      BY <1>2, <1>3, <1>6, <1>10, <1>13, <2>1, <2>2, EndStreamed
    <3>2. ASSUME slap' # Off PROVE Transcribed(Stream \o e, slap', new, i)
      BY <1>2, <1>3, <1>6, <1>10, <1>13, <1>14, <2>1, <2>2, <3>2, EndTranscribed
    <3> QED BY <1>12, <2>2, <3>1, <3>2
  <2>3. CASE j # i
    <3>1. j \in Nat /\ subs'[j] = subs[j]
      BY <1>1, <1>12, <2>3, SubNat
    <3>2. \A x \in About(j) : ~Has(e, x)
      BY <1>2, <1>6, <2>3, <3>1, EndOthers
    <3>3. Streamed(Stream \o e, subs[j], j)
      BY <1>9, <1>13, <2>1, <3>2, StreamedMore
    <3>4. ASSUME slap' # Off PROVE Transcribed(Stream \o e, slap', subs[j], j)
      <4>1. PICK r \in Seq(Messages) : /\ ~Has(r, Said("assign", j)) /\ ~Has(r, Said("result", j))
                                       /\ slap' = slap \o r
        <5>1. CASE valid
          <6>1. <<Said("result", i)>> \in Seq(Messages)
            <7>1. Said("result", i) \in Messages
              BY <1>2, EventTypes DEF Operations
            <7> QED BY <7>1
          <6>2. Said("result", i) # Said("assign", j) /\ Said("result", i) # Said("result", j)
            BY <2>3, Different
          <6>3. ~Has(<<Said("result", i)>>, Said("assign", j)) /\ ~Has(<<Said("result", i)>>, Said("result", j))
            BY <6>2, HasOne
          <6> QED BY <1>14, <3>4, <5>1, <6>1, <6>3
        <5>2. CASE ~valid
          <6>1. <<>> \in Seq(Messages) /\ slap' = slap \o <<>>
            BY <1>14, <3>4, <5>2
          <6> QED BY <6>1, HasNone
        <5> QED BY <5>1, <5>2
      <4> QED BY <1>9, <1>13, <1>14, <2>1, <3>2, <3>4, <4>1, TranscribedMore
    <3> QED BY <3>1, <3>3, <3>4
  <2> QED BY <2>2, <2>3
<1>17. MarksInv'
  <2>1. Cardinality(DoneSubs') = Cardinality(DoneSubs) + 1
    <3>1. DoneSubs' = DoneSubs \cup {i} /\ i \notin DoneSubs
      <4>1. i \notin DoneSubs /\ i \in DoneSubs'
        BY <1>3, <1>10, <1>12 DEF DoneSubs
      <4>2. \A j \in DOMAIN subs : j # i => (j \in DoneSubs' <=> j \in DoneSubs)
        BY <1>12 DEF DoneSubs
      <4>3. DoneSubs \subseteq DOMAIN subs /\ DoneSubs' \subseteq DOMAIN subs
        BY <1>12 DEF DoneSubs
      <4> QED BY <4>1, <4>2, <4>3
    <3>2. IsFiniteSet(DoneSubs)
      <4> PICK n \in Nat : n = Len(subs) /\ DOMAIN subs = 1..n
        BY <1>2
      <4>1. IsFiniteSet(1..n)
        <5>1. 1 \in Int /\ n \in Int
          OBVIOUS
        <5> QED BY <5>1, FS_Interval
      <4>2. DoneSubs \in SUBSET (1..n)
        BY DEF DoneSubs
      <4> QED BY <4>1, <4>2, FS_Subset
    <3> QED BY <3>1, <3>2, FS_AddElement
  <2>2. ASSUME parallel
        PROVE  /\ Cardinality(MarksOf(queue')) = Cardinality(MarksOf(queue)) + 1
               /\ queue'[Len(queue')].kind = "marker"
    <3> PICK mark \in Events : mark = Event("marker", 0) /\ mark.kind = "marker"
      <4>1. Event("marker", 0) \in Events /\ Event("marker", 0).kind = "marker"
        BY EventTypes DEF Kinds, Event
      <4> QED BY <4>1
    <3>1. queue \in Seq(Events)
      BY <1>1 DEF UltraTypes
    <3> PICK q : q = queue \o b
      OBVIOUS
    <3>2. q \in Seq(Events) /\ queue' = q \o <<mark>>
      <4>1. m = <<mark>>
        BY <1>5, <2>2
      <4>2. <<mark>> \in Seq(Events)
        OBVIOUS
      <4>3. queue \o (b \o <<mark>>) = (queue \o b) \o <<mark>>
        BY <1>7, <3>1, <4>2
      <4>4. queue \o b \in Seq(Events)
        BY <1>7, <3>1
      <4> QED BY <1>7, <1>13, <2>2, <4>1, <4>3, <4>4
    <3>3. Cardinality(MarksOf(q)) = Cardinality(MarksOf(queue))
      BY <1>7, <3>1, NoMarkMore
    <3>4. Cardinality(MarksOf(q \o <<mark>>)) = Cardinality(MarksOf(q)) + 1
      BY <3>2, MarkMore
    <3>5. (q \o <<mark>>)[Len(q \o <<mark>>)] = mark
      BY <3>2
    <3> QED BY <3>2, <3>3, <3>4, <3>5
  <2>3. Cardinality(MarksOf(queue)) \in Nat /\ Cardinality(DoneSubs) \in Nat \cup {finished + Cardinality(MarksOf(queue))}
        => (finished + Cardinality(MarksOf(queue)) = Cardinality(DoneSubs)
              => finished + (Cardinality(MarksOf(queue)) + 1) = Cardinality(DoneSubs) + 1)
    BY <1>1 DEF UltraTypes
  <2>4. Cardinality(MarksOf(queue)) \in Nat
    BY <1>1, MarksFinite DEF UltraTypes
  <2> QED BY <1>1, <1>3, <1>13, <2>1, <2>2, <2>3, <2>4 DEF MarksInv
<1>18. StageInv'
  BY <1>3 DEF StageInv, Dispatching
<1> QED BY <1>15, <1>16, <1>17, <1>18 DEF ToldInv

\* What is neither a sub-task's nor a marker.
LEMMA AboutKinds ==
  ASSUME NEW i, NEW x \in About(i)
  PROVE  /\ x.kind \in {"spawn", "result", "timeout", "degraded"}
         /\ x.kind = "degraded" => x.of \in {"assign", "result"}
<1>1. \A k \in {"spawn", "result", "timeout"} : Event(k, i).kind = k
  BY DEF Event
<1>2. \A o \in {"assign", "result"} : Degradation(o, i).kind = "degraded" /\ Degradation(o, i).of = o
  BY DEF Degradation
<1> QED BY <1>1, <1>2 DEF About

LEMMA NoMarks == MarksOf(<<>>) = {}
<1>1. DOMAIN <<>> = {}
  OBVIOUS
<1> QED BY <1>1 DEF MarksOf

LEMMA DoneFinite ==
  ASSUME subs \in Seq(SubTasks)
  PROVE  /\ IsFiniteSet(DoneSubs) /\ Cardinality(DoneSubs) \in Nat /\ Len(subs) \in Nat
         /\ Cardinality(DoneSubs) <= Len(subs)
         /\ Cardinality(DoneSubs) = Len(subs) => DoneSubs = DOMAIN subs
<1> PICK n \in Nat : n = Len(subs) /\ DOMAIN subs = 1..n
  OBVIOUS
<1>1. 1 \in Int /\ n \in Int
  OBVIOUS
<1>2. IsFiniteSet(1..n)
  BY <1>1, FS_Interval
<1>3. Cardinality(1..n) = n
  <2>1. Cardinality(1..n) = IF 1 > n THEN 0 ELSE n - 1 + 1
    BY <1>1, FS_Interval
  <2> QED BY <2>1
<1>4. DoneSubs \in SUBSET (1..n)
  BY DEF DoneSubs
<1> PICK S \in SUBSET (1..n) : S = DoneSubs
  BY <1>4
<1>5. IsFiniteSet(S)
  BY <1>2, FS_Subset
<1>6. Cardinality(S) \in Nat
  BY <1>5, FS_CardinalityType
<1>7. Cardinality(S) <= Cardinality(1..n) /\ (Cardinality(S) = Cardinality(1..n) => S = 1..n)
  BY <1>2, FS_Subset
<1> QED BY <1>3, <1>5, <1>6, <1>7

\* A marker that is taken out is no event, and an event goes to the client.
LEMMA DrainTold == ASSUME ToldInv, Drain PROVE ToldInv'
<1>1. UltraTypes /\ StreamInv /\ MarksInv /\ StageInv
  BY DEF ToldInv
<1>2. /\ stage = "dispatch" /\ queue # <<>> /\ queue' = Tail(queue) /\ stage' = stage /\ parallel' = parallel
      /\ pool' = pool /\ subs' = subs /\ slap' = slap /\ trace' = trace
  BY DEF Drain
<1>3. told \in Seq(Events) /\ queue \in Seq(Events) /\ finished \in Nat /\ queue' \in Seq(Events)
  BY <1>1, <1>2 DEF UltraTypes
<1>4. parallel
  BY <1>1, <1>2 DEF MarksInv
<1>5. Head(queue) \in Events
  BY <1>2, <1>3
<1>6. told' \in Seq(Events) /\ finished' \in Nat
  <2>1. Append(told, Head(queue)) \in Seq(Events) /\ finished + 1 \in Nat
    BY <1>3, <1>5
  <2> QED BY <1>3, <2>1 DEF Drain
<1>7. UltraTypes'
  BY <1>1, <1>2, <1>3, <1>6 DEF UltraTypes
<1>8. StreamInv'
  <2>1. CASE Head(queue).kind = "marker"
    <3>1. Stream' = told \o Tail(queue)
      BY <1>2, <2>1 DEF Drain, Stream
    <3> PICK c : c = told \o Tail(queue)
      OBVIOUS
    <3>2. ASSUME NEW i, NEW x \in About(i)
          PROVE  /\ Has(c, x) <=> Has(Stream, x)
                 /\ Single(Stream, x) => Single(c, x)
                 /\ \A y : Precede(Stream, x, y) => Precede(c, x, y)
      <4>1. x # Head(queue)
        BY <2>1, AboutKinds
      <4> QED BY <1>2, <1>3, <4>1, HeadTaken DEF Stream
    <3> SUFFICES ASSUME NEW i \in DOMAIN subs
                 PROVE  Streamed(c, subs[i], i) /\ (slap # Off => Transcribed(c, slap, subs[i], i))
      BY <1>2, <3>1 DEF StreamInv
    <3>3. Streamed(Stream, subs[i], i) /\ (slap # Off => Transcribed(Stream, slap, subs[i], i))
      BY <1>1 DEF StreamInv
    <3>4. /\ Event("spawn", i) \in About(i) /\ Event("result", i) \in About(i)
          /\ Event("timeout", i) \in About(i) /\ Degradation("assign", i) \in About(i)
          /\ Degradation("result", i) \in About(i)
      BY DEF About
    <3>5. Streamed(c, subs[i], i)
      BY <3>2, <3>3, <3>4 DEF Streamed
    <3>6. slap # Off => Transcribed(c, slap, subs[i], i)
      BY <3>2, <3>3, <3>4 DEF Transcribed, Accounted, Unsaid
    <3> QED BY <3>5, <3>6
  <2>2. CASE Head(queue).kind # "marker"
    <3>1. told' = Append(told, Head(queue))
      BY <2>2 DEF Drain
    <3>2. Append(told, Head(queue)) \o Tail(queue) = told \o queue
      BY <1>2, <1>3, HeadMoved
    <3>3. Stream' = Stream
      BY <1>2, <3>1, <3>2 DEF Stream
    <3> QED BY <1>1, <1>2, <3>3 DEF StreamInv
  <2> QED BY <2>1, <2>2
<1>9. MarksInv'
  <2>1. DoneSubs' = DoneSubs /\ NoneRuns' = NoneRuns
    BY <1>2 DEF DoneSubs, NoneRuns
  <2>2. Cardinality(MarksOf(queue)) = Cardinality(MarksOf(queue')) + (IF Head(queue).kind = "marker" THEN 1 ELSE 0)
    BY <1>2, <1>3, MarksTail
  <2>3. Cardinality(MarksOf(queue')) \in Nat
    BY <1>3, MarksFinite
  <2>4. finished' = finished + (IF Head(queue).kind = "marker" THEN 1 ELSE 0)
    BY <1>3 DEF Drain
  <2>5. finished' + Cardinality(MarksOf(queue')) = finished + Cardinality(MarksOf(queue))
    <3> PICK a \in Nat : a = Cardinality(MarksOf(queue'))
      BY <2>3
    <3>1. CASE Head(queue).kind = "marker"
      <4>1. Cardinality(MarksOf(queue)) = a + 1 /\ finished' = finished + 1
        BY <2>2, <2>4, <3>1
      <4> QED BY <1>3, <4>1
    <3>2. CASE Head(queue).kind # "marker"
      <4>1. Cardinality(MarksOf(queue)) = a + 0 /\ finished' = finished + 0
        BY <2>2, <2>4, <3>2
      <4> QED BY <1>3, <4>1
    <3> QED BY <3>1, <3>2
  <2>6. queue' # <<>> => queue'[Len(queue')] = queue[Len(queue)]
    BY <1>2, <1>3
  <2>7. finished + Cardinality(MarksOf(queue)) = Cardinality(DoneSubs)
    BY <1>1, <1>4 DEF MarksInv
  <2>8. queue' # <<>> /\ NoneRuns => queue'[Len(queue')].kind = "marker"
    BY <1>1, <1>2, <2>6 DEF MarksInv
  <2> QED BY <1>2, <1>4, <2>1, <2>5, <2>7, <2>8 DEF MarksInv
<1>10. StageInv'
  BY <1>2 DEF StageInv
<1> QED BY <1>7, <1>8, <1>9, <1>10 DEF ToldInv

\* Events and messages that are about no sub-task are added.
LEMMA StreamKept ==
  ASSUME UltraTypes, StreamInv, NEW e \in Seq(Events), \A i \in Nat : \A x \in About(i) : ~Has(e, x),
         NEW r \in Seq(Messages), \A i \in Nat : ~Has(r, Said("assign", i)) /\ ~Has(r, Said("result", i)),
         subs' = subs, Stream' = Stream \o e,
         slap' # Off => slap # Off /\ slap' = slap \o r
  PROVE  StreamInv'
<1>1. Stream \in Seq(Events)
  BY DEF UltraTypes, Stream
<1> SUFFICES ASSUME NEW i \in DOMAIN subs
             PROVE  Streamed(Stream \o e, subs[i], i) /\ (slap' # Off => Transcribed(Stream \o e, slap', subs[i], i))
  BY DEF StreamInv
<1>2. Streamed(Stream, subs[i], i) /\ (slap # Off => Transcribed(Stream, slap, subs[i], i))
  BY DEF StreamInv
<1>3. i \in Nat
  BY SubNat
<1>4. Streamed(Stream \o e, subs[i], i)
  BY <1>1, <1>2, <1>3, StreamedMore
<1>5. ASSUME slap' # Off PROVE Transcribed(Stream \o e, slap', subs[i], i)
  <2>1. slap \in Seq(Messages) /\ slap' = slap \o r
    BY <1>5 DEF UltraTypes
  <2>2. Transcribed(Stream \o e, slap \o r, subs[i], i)
    BY <1>1, <1>2, <1>3, <1>5, <2>1, TranscribedMore
  <2> QED BY <2>1, <2>2
<1> QED BY <1>4, <1>5

\* All that ran have been counted: what would be left in the queue ends with a
\* marker, and there is none.
LEMMA DecideTold == ASSUME ToldInv, NEW valid \in BOOLEAN, Decide(valid) PROVE ToldInv'
<1>1. UltraTypes /\ StreamInv /\ MarksInv /\ StageInv
  BY DEF ToldInv
<1>2. /\ stage' = "synthesis" /\ parallel' = parallel /\ pool' = pool /\ subs' = subs /\ queue' = queue
      /\ finished' = finished /\ told' = told \o Degraded("decide", 0, valid)
      /\ slap' = Recorded(Decision, valid) /\ trace' = IF slap' = Off THEN <<>> ELSE slap'
  BY DEF Decide
<1>3. told \in Seq(Events) /\ queue \in Seq(Events) /\ finished \in Nat /\ subs \in Seq(SubTasks)
  BY <1>1 DEF UltraTypes
<1>4. queue = <<>> /\ DoneSubs = DOMAIN subs
  <2>1. CASE parallel
    <3>1. finished + Cardinality(MarksOf(queue)) = Cardinality(DoneSubs) /\ finished = Len(subs)
      BY <1>1, <2>1 DEF MarksInv, Decide
    <3>2. Cardinality(MarksOf(queue)) \in Nat
      BY <1>3, MarksFinite
    <3>3. Cardinality(DoneSubs) \in Nat /\ Len(subs) \in Nat /\ Cardinality(DoneSubs) <= Len(subs)
      BY <1>3, DoneFinite
    <3>4. Cardinality(MarksOf(queue)) = 0 /\ Cardinality(DoneSubs) = Len(subs)
      BY <3>1, <3>2, <3>3
    <3>5. MarksOf(queue) = {}
      BY <1>3, <3>4, MarksFinite
    <3>6. DoneSubs = DOMAIN subs
      BY <1>3, <3>4, DoneFinite
    <3>7. NoneRuns
      BY <3>6 DEF NoneRuns, DoneSubs
    <3>8. ASSUME queue # <<>> PROVE FALSE
      <4>1. queue[Len(queue)].kind = "marker"
        BY <1>1, <3>7, <3>8 DEF MarksInv
      <4>2. Len(queue) \in DOMAIN queue
        BY <1>3, <3>8
      <4> QED BY <3>5, <4>1, <4>2 DEF MarksOf
    <3> QED BY <3>6, <3>8
  <2>2. CASE ~parallel
    BY <1>1, <2>2 DEF MarksInv, Decide, DoneSubs
  <2> QED BY <2>1, <2>2
<1> PICK d : d = Degraded("decide", 0, valid)
  OBVIOUS
<1>5. d \in Seq(Events) /\ \A i \in Nat : \A x \in About(i) : ~Has(d, x)
  <2>1. "decide" \in Operations
    BY DEF Operations
  <2>2. d \in Seq(Events) /\ \A x : Has(d, x) => x = Degradation("decide", 0)
    BY <2>1, DegradedIs
  <2>3. Degradation("decide", 0).kind = "degraded" /\ Degradation("decide", 0).of = "decide"
    BY DEF Degradation
  <2> QED BY <2>2, <2>3, AboutKinds
<1>6. told' \in Seq(Events) /\ Stream' = Stream \o d
  <2>1. told \o <<>> = told /\ (told \o d) \o <<>> = told \o d /\ told \o d \in Seq(Events)
    BY <1>3, <1>5
  <2> QED BY <1>2, <1>4, <2>1 DEF Stream
<1>7. PICK k \in Nat : k = Cardinality({i \in DOMAIN subs : subs[i].result = "ok"})
  <2> PICK n \in Nat : n = Len(subs) /\ DOMAIN subs = 1..n
    BY <1>3
  <2> PICK S \in SUBSET (1..n) : S = {i \in DOMAIN subs : subs[i].result = "ok"}
    OBVIOUS
  <2>1. 1 \in Int /\ n \in Int
    OBVIOUS
  <2>2. IsFiniteSet(1..n)
    BY <2>1, FS_Interval
  <2>3. IsFiniteSet(S)
    BY <2>2, FS_Subset
  <2>4. Cardinality(S) \in Nat
    BY <2>3, FS_CardinalityType
  <2> QED BY <2>4
<1>8. "decide" \in Operations
  BY DEF Operations
<1>9. slap' = Recorded(Said("decide", k), valid)
  BY <1>2, <1>7 DEF Decision
<1>10. slap' # Off => /\ slap # Off /\ slap \in Seq(Messages) /\ slap' \in Seq(Messages)
                      /\ slap' = IF valid THEN slap \o <<Said("decide", k)>> ELSE slap
  BY <1>1, <1>8, <1>9, RecordedIs
<1>11. PICK r \in Seq(Messages) : /\ \A i \in Nat : ~Has(r, Said("assign", i)) /\ ~Has(r, Said("result", i))
                                  /\ slap' # Off => slap # Off /\ slap' = slap \o r
  <2>1. CASE valid
    <3>1. Said("decide", k) \in Messages
      BY <1>8, EventTypes
    <3>2. <<Said("decide", k)>> \in Seq(Messages)
      BY <3>1
    <3>3. \A i \in Nat : Said("decide", k) # Said("assign", i) /\ Said("decide", k) # Said("result", i)
      BY RecordsDiffer
    <3>4. \A i \in Nat : ~Has(<<Said("decide", k)>>, Said("assign", i)) /\ ~Has(<<Said("decide", k)>>, Said("result", i))
      BY <3>3, HasOne
    <3> QED BY <1>10, <2>1, <3>2, <3>4
  <2>2. CASE ~valid
    <3>1. slap' # Off => slap' = slap \o <<>>
      BY <1>10, <2>2
    <3>2. <<>> \in Seq(Messages)
      OBVIOUS
    <3> QED BY <1>10, <3>1, <3>2, HasNone
  <2> QED BY <2>1, <2>2
<1>12. StreamInv'
  BY <1>1, <1>2, <1>5, <1>6, <1>11, StreamKept
<1>13. UltraTypes'
  BY <1>1, <1>2, <1>6, <1>10 DEF UltraTypes
<1>14. MarksInv'
  <2>1. DoneSubs' = DoneSubs
    BY <1>2 DEF DoneSubs
  <2> QED BY <1>1, <1>2, <1>4, <2>1 DEF MarksInv
<1>15. StageInv'
  <2>1. DoneSubs' = DoneSubs
    BY <1>2 DEF DoneSubs
  <2> QED BY <1>2, <1>4, <2>1 DEF StageInv
<1> QED BY <1>12, <1>13, <1>14, <1>15 DEF ToldInv

LEMMA SynthesizeTold == ASSUME ToldInv, Synthesize PROVE ToldInv'
<1>1. UltraTypes /\ StreamInv /\ MarksInv /\ StageInv
  BY DEF ToldInv
<1>2. /\ stage = "synthesis" /\ stage' = "over" /\ parallel' = parallel /\ pool' = pool /\ subs' = subs
      /\ queue' = queue /\ finished' = finished /\ slap' = slap /\ trace' = trace
  BY DEF Synthesize
<1>3. told \in Seq(Events) /\ queue = <<>> /\ DoneSubs = DOMAIN subs /\ (slap # Off => trace = slap)
  BY <1>1, <1>2 DEF UltraTypes, StageInv
<1>4. PICK x \in Events : x.kind \in {"done", "error"} /\ told' = Append(told, x)
  <2>1. PICK done \in {"done", "error"} : told' = Append(told, Event(done, 0))
    BY DEF Synthesize
  <2>2. Event(done, 0) \in Events
    BY EventTypes DEF Kinds
  <2>3. Event(done, 0).kind = done
    BY DEF Event
  <2> QED BY <2>1, <2>2, <2>3
<1>5. <<x>> \in Seq(Events) /\ told' \in Seq(Events)
  BY <1>3, <1>4
<1>6. Stream' = Stream \o <<x>>
  <2>1. told \o <<>> = told /\ (told \o <<x>>) \o <<>> = told \o <<x>> /\ Append(told, x) = told \o <<x>>
    BY <1>3
  <2> QED BY <1>2, <1>3, <1>4, <2>1 DEF Stream
<1>7. \A i \in Nat : \A y \in About(i) : ~Has(<<x>>, y)
  BY <1>4, AboutKinds, HasOne
<1>8. <<>> \in Seq(Messages) /\ \A i \in Nat : ~Has(<<>>, Said("assign", i)) /\ ~Has(<<>>, Said("result", i))
  BY HasNone
<1>9. slap' # Off => slap # Off /\ slap' = slap \o <<>>
  BY <1>1, <1>2 DEF UltraTypes
<1>10. StreamInv'
  BY <1>1, <1>2, <1>5, <1>6, <1>7, <1>8, <1>9, StreamKept
<1>11. UltraTypes'
  BY <1>1, <1>2, <1>5 DEF UltraTypes
<1>12. DoneSubs' = DoneSubs
  BY <1>2 DEF DoneSubs
<1>13. MarksInv' /\ StageInv'
  BY <1>1, <1>2, <1>3, <1>12 DEF MarksInv, StageInv
<1> QED BY <1>10, <1>11, <1>13 DEF ToldInv

LEMMA SeqOfOne == ASSUME NEW A, NEW a \in A PROVE <<a>> \in Seq(A)
OBVIOUS

LEMMA SeqOfFunction == ASSUME NEW A, NEW n \in Nat, NEW f \in [1..n -> A] PROVE f \in Seq(A)
OBVIOUS

LEMMA SeqOfNone == ASSUME NEW A PROVE <<>> \in Seq(A)
OBVIOUS

LEMMA SeqOfBoth == ASSUME NEW A, NEW s \in Seq(A), NEW t \in Seq(A) PROVE s \o t \in Seq(A)
OBVIOUS

LEMMA WorkersFinite ==
  ASSUME LoadoutTypes
  PROVE  IsFiniteSet(ready \cap Workers) /\ Cardinality(ready \cap Workers) \in Nat /\ ready \cap Workers \in SUBSET Nat
<1>1. plan.slots \in Seq(PlannedSlot)
  BY DEF LoadoutTypes, LoadoutPlan
<1> PICK n \in Nat : n = Len(plan.slots) /\ DOMAIN plan.slots = 1..n
  BY <1>1
<1> PICK S \in SUBSET (1..n) : S = ready \cap Workers
  BY DEF Workers
<1>2. 1 \in Int /\ n \in Int
  OBVIOUS
<1>3. IsFiniteSet(1..n)
  BY <1>2, FS_Interval
<1>4. IsFiniteSet(S)
  BY <1>3, FS_Subset
<1>5. Cardinality(S) \in Nat
  BY <1>4, FS_CardinalityType
<1> QED BY <1>4, <1>5

LEMMA BeginTold == ASSUME LoadoutTypes, ToldInv, Begin PROVE ToldInv'
<1>1. UltraTypes /\ StreamInv /\ MarksInv /\ StageInv
  BY DEF ToldInv
<1>2. /\ stage = "idle" /\ stage' = "planning" /\ parallel' = (pool' # <<>>) /\ slap' \in {<<>>, Off}
      /\ subs' = subs /\ queue' = queue /\ finished' = finished /\ told' = told
  BY DEF Begin
<1>3. subs = <<>> /\ queue = <<>> /\ told = <<>> /\ finished = 0
  BY <1>1, <1>2 DEF StageInv
<1>4. pool' \in Seq(Nat)
  <2> PICK n \in Nat : n = Cardinality(ready \cap Workers)
    BY WorkersFinite
  <2>1. pool' \in [1..n -> ready \cap Workers]
    BY DEF Begin, InOrder
  <2>2. ready \cap Workers \in SUBSET Nat
    BY WorkersFinite
  <2>3. pool' \in [1..n -> Nat]
    BY <2>1, <2>2
  <2> QED BY <2>3, SeqOfFunction
<1>5. parallel' \in BOOLEAN
  BY <1>2
<1>6. UltraTypes'
  <2>1. slap' # Off => slap' \in Seq(Messages)
    BY <1>2, SeqOfNone
  <2> QED BY <1>1, <1>2, <1>4, <1>5, <2>1 DEF UltraTypes
<1>7. DOMAIN subs' = {}
  BY <1>2, <1>3
<1>8. StreamInv'
  BY <1>7 DEF StreamInv
<1>9. DoneSubs' = {}
  BY <1>7 DEF DoneSubs
<1>10. Cardinality({}) = 0
  BY FS_EmptySet
<1>11. MarksInv'
  BY <1>2, <1>3, <1>9, <1>10, NoMarks DEF MarksInv
<1>12. StageInv'
  BY <1>2, <1>3 DEF StageInv
<1> QED BY <1>6, <1>8, <1>11, <1>12 DEF ToldInv

\* Nothing is there before a request.
NothingTold ==
  /\ stage = "idle" /\ parallel = FALSE /\ pool = <<>> /\ subs = <<>> /\ queue = <<>>
  /\ finished = 0 /\ told = <<>> /\ slap = <<>>

LEMMA IdleTold == NothingTold => ToldInv
<1> SUFFICES ASSUME NothingTold PROVE ToldInv
  OBVIOUS
<1> USE DEF NothingTold
<1>1. UltraTypes
  BY SeqOfNone DEF UltraTypes
<1>2. DOMAIN subs = {}
  OBVIOUS
<1>3. StreamInv
  BY <1>2 DEF StreamInv
<1>4. MarksInv
  BY DEF MarksInv
<1>5. StageInv
  BY DEF StageInv
<1> QED BY <1>1, <1>3, <1>4, <1>5 DEF ToldInv

LEMMA LeaveTold == ASSUME ToldInv, Leave PROVE ToldInv'
<1>1. UltraTypes /\ StreamInv /\ MarksInv
  BY DEF ToldInv
<1>2. /\ stage' = "left" /\ parallel' = parallel /\ pool' = pool /\ subs' = subs
      /\ queue' = queue /\ finished' = finished /\ told' = told /\ slap' = slap
  BY DEF Leave
<1>3. Stream' = Stream /\ DoneSubs' = DoneSubs /\ NoneRuns' = NoneRuns
  BY <1>2 DEF Stream, DoneSubs, NoneRuns
<1>4. UltraTypes' /\ StreamInv' /\ MarksInv' /\ StageInv'
  BY <1>1, <1>2, <1>3 DEF UltraTypes, StreamInv, MarksInv, StageInv
<1> QED BY <1>4 DEF ToldInv

LEMMA ToldKept == ASSUME ToldInv, UNCHANGED ultraVars PROVE ToldInv'
<1>1. UltraTypes /\ StreamInv /\ MarksInv /\ StageInv
  BY DEF ToldInv
<1>2. /\ stage' = stage /\ parallel' = parallel /\ pool' = pool /\ subs' = subs /\ trace' = trace
      /\ queue' = queue /\ finished' = finished /\ told' = told /\ slap' = slap
  BY DEF ultraVars
<1>3. Stream' = Stream /\ DoneSubs' = DoneSubs /\ NoneRuns' = NoneRuns
  BY <1>2 DEF Stream, DoneSubs, NoneRuns
<1>4. UltraTypes' /\ StreamInv' /\ MarksInv' /\ StageInv'
  BY <1>1, <1>2, <1>3 DEF UltraTypes, StreamInv, MarksInv, StageInv
<1> QED BY <1>4 DEF ToldInv

-----------------------------------------------------------------------------
\* What the client is told of a plan, and what is said before any sub-task.
Prelude == {Event(k, 0) : k \in {"plan", "plan fallback", "plan truncated", "sequential", "effort capped"}}
           \cup {Degradation("capability", i) : i \in Nat}
Capabilities == {Capability(w) : w \in Nat}

LEMMA SeqOfMore == ASSUME NEW A, NEW B, A \subseteq B, NEW s \in Seq(A) PROVE s \in Seq(B)
OBVIOUS

LEMMA SeqHas == ASSUME NEW A, NEW s \in Seq(A), NEW x, Has(s, x) PROVE x \in A
BY DEF Has

LEMMA PreludeIs ==
  /\ Prelude \subseteq Events /\ Capabilities \subseteq Messages
  /\ \A i \in Nat : \A x \in About(i) : x \notin Prelude
  /\ \A i \in Nat : Said("assign", i) \notin Capabilities /\ Said("result", i) \notin Capabilities
<1>1. Prelude \subseteq Events
  <2>1. ASSUME NEW k \in {"plan", "plan fallback", "plan truncated", "sequential", "effort capped"}
        PROVE  Event(k, 0) \in Events
    BY EventTypes DEF Kinds
  <2>2. ASSUME NEW i \in Nat PROVE Degradation("capability", i) \in Events
    BY EventTypes DEF Operations
  <2> QED BY <2>1, <2>2 DEF Prelude
<1>2. Capabilities \subseteq Messages
  <2>1. ASSUME NEW i \in Nat PROVE Capability(i) \in Messages
    BY EventTypes DEF Operations, Capability
  <2> QED BY <2>1 DEF Capabilities
<1>3. ASSUME NEW i \in Nat, NEW x \in About(i), x \in Prelude PROVE FALSE
  <2>1. \A k : Event(k, 0).kind = k
    BY DEF Event
  <2>2. \A j : Degradation("capability", j).kind = "degraded" /\ Degradation("capability", j).of = "capability"
    BY DEF Degradation
  <2>3. /\ x.kind \in {"spawn", "result", "timeout", "degraded"}
        /\ x.kind = "degraded" => x.of \in {"assign", "result"}
    BY AboutKinds
  <2> QED BY <1>3, <2>1, <2>2, <2>3 DEF Prelude
<1>4. \A i, j \in Nat : Said("assign", i) # Capability(j) /\ Said("result", i) # Capability(j)
  BY RecordsDiffer DEF Capability
<1> QED BY <1>1, <1>2, <1>3, <1>4 DEF Capabilities

\* What a plan says of the capability of an executor.
LEMMA PlanSays ==
  ASSUME ToldInv, NEW n \in Nat, NEW bad \in Nat, NEW high \in BOOLEAN, Plan(n, bad, high)
  PROVE  /\ told' \in Seq(Prelude) /\ (slap' # Off => slap' \in Seq(Capabilities))
         /\ \A w : Has(told', Degradation("capability", w)) <=> bad # 0 /\ w = Executors[bad]
         /\ bad # 0 => Single(told', Degradation("capability", Executors[bad]))
<1>1. pool \in Seq(Nat) /\ bad \in {0} \cup DOMAIN Executors /\ slap' = Advertised(bad)
  BY Zenon DEF ToldInv, UltraTypes, Plan
<1>2. Executors \in Seq(Nat)
  BY <1>1 DEF Executors
<1> DEFINE others == {"plan", "plan fallback", "plan truncated", "sequential", "effort capped"}
<1> DEFINE Other(e) == e \in Seq(Prelude) /\ \A w : ~Has(e, Degradation("capability", w))
<1>3. \A k \in others : Other(<<Event(k, 0)>>)
  <2> SUFFICES ASSUME NEW k \in others PROVE Other(<<Event(k, 0)>>)
    OBVIOUS
  <2>1. Event(k, 0) \in Prelude
    BY DEF Prelude
  <2>2. <<Event(k, 0)>> \in Seq(Prelude)
    BY <2>1, SeqOfOne
  <2>3. \A w : Degradation("capability", w) # Event(k, 0)
    BY RecordsDiffer
  <2> QED BY <2>2, <2>3, HasOne
<1>4. Other(<<>>)
  BY SeqOfNone, HasNone
<1> HIDE DEF Other
<1>5. PICK a : a = <<Event("plan", 0)>> /\ Other(a)
  BY <1>3
<1>6. PICK b : /\ b = IF n = 0 THEN <<Event("plan fallback", 0)>>
                      ELSE IF n > Cap THEN <<Event("plan truncated", 0)>> ELSE <<>>
               /\ Other(b)
  BY <1>3, <1>4
<1>7. PICK d : d = (IF parallel THEN <<>> ELSE <<Event("sequential", 0)>>) /\ Other(d)
  BY <1>3, <1>4
<1>8. PICK f : f = (IF Capped(high) THEN <<Event("effort capped", 0)>> ELSE <<>>) /\ Other(f)
  BY <1>3, <1>4
<1>9. PICK c : c = Degraded("capability", Executors[bad], bad = 0)
  OBVIOUS
<1>10. told' = a \o b \o c \o d \o f
  BY <1>5, <1>6, <1>7, <1>8, <1>9 DEF Plan
<1> PICK x : x = Executors[bad]
  OBVIOUS
<1> DEFINE Told(e) == /\ e \in Seq(Prelude)
                      /\ \A w : Has(e, Degradation("capability", w)) <=> bad # 0 /\ w = x
                      /\ bad # 0 => Single(e, Degradation("capability", x))
<1>11. Told(c)
  <2>1. CASE bad = 0
    <3>1. c = <<>>
      BY <1>9, <2>1 DEF Degraded
    <3> QED BY <2>1, <3>1, SeqOfNone, HasNone
  <2>2. CASE bad # 0
    <3>0. bad \in DOMAIN Executors
      BY <1>1, <2>2
    <3>1. x \in Nat
      BY <1>2, <3>0
    <3>2. Degradation("capability", x) \in Prelude
      BY <3>1 DEF Prelude
    <3>3. c = <<Degradation("capability", x)>>
      BY <1>9, <2>2 DEF Degraded
    <3>4. c \in Seq(Prelude)
      BY <3>2, <3>3, SeqOfOne
    <3>5. \A w : Degradation("capability", w) = Degradation("capability", x) <=> w = x
      BY RecordsDiffer
    <3>6. \A w : Has(c, Degradation("capability", w)) <=> w = x
      BY <3>3, <3>5, HasOne
    <3>7. Single(c, Degradation("capability", x))
      BY <3>3, SingleOne
    <3> QED BY <2>2, <3>4, <3>6, <3>7
  <2> QED BY <2>1, <2>2
<1>12. Other(a \o b)
  <2>1. a \in Seq(Prelude) /\ b \in Seq(Prelude) /\ a \o b \in Seq(Prelude)
    BY <1>5, <1>6, SeqOfBoth DEF Other
  <2>2. \A w : ~Has(a, Degradation("capability", w)) /\ ~Has(b, Degradation("capability", w))
    BY <1>5, <1>6 DEF Other
  <2>3. \A w : ~Has(a \o b, Degradation("capability", w))
    BY <2>1, <2>2, NotJoined
  <2> QED BY <2>1, <2>3 DEF Other
<1>13. ASSUME NEW e, Told(e), NEW o, Other(o) PROVE Told(e \o o) /\ Told(o \o e)
  <2>1. /\ e \in Seq(Prelude) /\ o \in Seq(Prelude)
        /\ e \o o \in Seq(Prelude) /\ o \o e \in Seq(Prelude)
    BY <1>13, SeqOfBoth DEF Other
  <2>2. ASSUME NEW w
        PROVE  /\ Has(e \o o, Degradation("capability", w)) <=> bad # 0 /\ w = x
               /\ Has(o \o e, Degradation("capability", w)) <=> bad # 0 /\ w = x
    <3>1. (Has(e, Degradation("capability", w)) <=> bad # 0 /\ w = x) /\ ~Has(o, Degradation("capability", w))
      BY <1>13 DEF Other
    <3>2. Has(e \o o, Degradation("capability", w)) <=> Has(e, Degradation("capability", w))
      BY <2>1, <3>1, HasJoined
    <3>3. Has(o \o e, Degradation("capability", w)) <=> Has(e, Degradation("capability", w))
      BY <2>1, <3>1, HasJoined
    <3> QED BY <3>1, <3>2, <3>3
  <2>3. ASSUME bad # 0
        PROVE  Single(e \o o, Degradation("capability", x)) /\ Single(o \o e, Degradation("capability", x))
    <3>1. Single(e, Degradation("capability", x)) /\ ~Has(o, Degradation("capability", x))
      BY <1>13, <2>3 DEF Other
    <3> QED BY <2>1, <3>1, SingleJoined
  <2> QED BY <2>1, <2>2, <2>3
<1> HIDE DEF Told
<1>14. Told(told')
  <2>1. Told(a \o b \o c)
    BY <1>11, <1>12, <1>13
  <2>2. Told(a \o b \o c \o d)
    BY <1>7, <1>13, <2>1
  <2> QED BY <1>8, <1>10, <1>13, <2>2
<1>15. ASSUME slap' # Off PROVE slap' \in Seq(Capabilities)
  <2>1. PICK s : s = [i \in DOMAIN Executors |-> Capability(Executors[i])]
    OBVIOUS
  <2>2. PICK k \in Nat : k = Len(Executors) /\ DOMAIN Executors = 1..k
    BY <1>2
  <2>3. \A i \in 1..k : Executors[i] \in Nat
    BY <1>2, <2>2
  <2>4. \A i \in 1..k : Capability(Executors[i]) \in Capabilities
    BY <2>3 DEF Capabilities
  <2>5. s \in Seq(Capabilities) /\ DOMAIN s = 1..k
    <3>1. s \in [1..k -> Capabilities]
      BY <2>1, <2>2, <2>4
    <3> QED BY <3>1
  <2>6. slap' = SubSeq(s, 1, bad - 1) \o SubSeq(s, bad + 1, Len(s))
    BY <1>1, <1>15, <2>1 DEF Advertised, RemoveAt
  <2>7. bad = 0 \/ bad \in 1..k
    BY <1>1, <2>2
  <2>8. SubSeq(s, 1, bad - 1) \in Seq(Capabilities)
    BY <2>5, <2>7
  <2>9. SubSeq(s, bad + 1, Len(s)) \in Seq(Capabilities)
    BY <2>5, <2>7
  <2> QED BY <2>6, <2>8, <2>9, SeqOfBoth
<1> QED BY <1>14, <1>15 DEF Told

\* A plan tells nothing of the sub-tasks it has.
LEMMA PlanTold ==
  ASSUME ToldInv, NEW n \in Nat, NEW bad \in Nat, NEW high \in BOOLEAN, Plan(n, bad, high)
  PROVE  ToldInv'
<1>1. UltraTypes /\ StreamInv /\ MarksInv /\ StageInv
  BY DEF ToldInv
<1>2. /\ stage = "planning" /\ stage' = "dispatch" /\ parallel' = parallel /\ pool' = pool
      /\ queue' = queue /\ finished' = finished /\ slap' = Advertised(bad)
      /\ subs' = [i \in 1..Min({Max({n, 1}), Cap}) |-> Waiting]
  BY DEF Plan
<1>3. queue = <<>> /\ finished = 0 /\ pool \in Seq(Nat)
  BY <1>1, <1>2 DEF StageInv, UltraTypes
<1>4. told' \in Seq(Prelude)
  BY PlanSays
<1>5. slap' # Off => slap' \in Seq(Capabilities)
  BY PlanSays
<1>6. PICK m \in Nat : subs' = [i \in 1..m |-> Waiting]
  <2>1. Cap \in Nat
    BY <1>3, UltraAssumption DEF Cap, UltraAssumption
  <2> PICK c \in Nat : c = Cap
    BY <2>1
  <2>2. Max({n, 1}) \in Nat
    BY DEF Max
  <2> PICK k \in Nat : k = Max({n, 1})
    BY <2>2
  <2>3. Min({k, c}) \in Nat
    BY DEF Min
  <2> QED BY <1>2, <2>3
<1>7. Waiting \in SubTasks /\ Waiting.state = "waiting" /\ ~Waiting.timeout
  BY DEF Waiting, SubTasks
<1>8. subs' \in Seq(SubTasks) /\ DOMAIN subs' = 1..m /\ \A i \in DOMAIN subs' : subs'[i] = Waiting
  <2>1. subs' \in [1..m -> SubTasks] /\ DOMAIN subs' = 1..m /\ \A i \in DOMAIN subs' : subs'[i] = Waiting
    BY <1>6, <1>7
  <2> QED BY <2>1
<1>9. told' \in Seq(Events) /\ (slap' # Off => slap' \in Seq(Messages))
  BY <1>4, <1>5, PreludeIs, SeqOfMore
<1>10. Stream' = told'
  <2>1. told' \o <<>> = told'
    BY <1>9
  <2> QED BY <1>2, <1>3, <2>1 DEF Stream
<1>11. UltraTypes'
  BY <1>1, <1>2, <1>8, <1>9 DEF UltraTypes
<1>12. StreamInv'
  <2> SUFFICES ASSUME NEW i \in DOMAIN subs'
               PROVE  Streamed(told', Waiting, i) /\ (slap' # Off => Transcribed(told', slap', Waiting, i))
    BY <1>8, <1>10 DEF StreamInv
  <2>1. i \in Nat
    BY <1>8
  <2>2. \A x \in About(i) : ~Has(told', x)
    BY <1>4, <2>1, PreludeIs, SeqHas
  <2>3. /\ Event("spawn", i) \in About(i) /\ Event("result", i) \in About(i)
        /\ Event("timeout", i) \in About(i) /\ Degradation("assign", i) \in About(i)
        /\ Degradation("result", i) \in About(i)
    BY DEF About
  <2>4. Streamed(told', Waiting, i)
    BY <1>7, <2>2, <2>3, PrecedeNone DEF Streamed
  <2>5. ASSUME slap' # Off PROVE Transcribed(told', slap', Waiting, i)
    <3>1. ~Has(slap', Said("assign", i)) /\ ~Has(slap', Said("result", i))
      BY <1>5, <2>1, <2>5, PreludeIs, SeqHas
    <3> QED BY <1>7, <2>2, <2>3, <3>1, PrecedeNone DEF Transcribed, Unsaid
  <2> QED BY <2>4, <2>5
<1>13. MarksInv'
  <2>1. DoneSubs' = {}
    BY <1>7, <1>8 DEF DoneSubs
  <2>2. Cardinality({}) = 0
    BY FS_EmptySet
  <2>3. queue' = <<>> /\ MarksOf(queue') = {} /\ finished' = 0
    BY <1>2, <1>3, NoMarks
  <2> QED BY <2>1, <2>2, <2>3 DEF MarksInv
<1>14. StageInv'
  BY <1>2 DEF StageInv
<1> QED BY <1>11, <1>12, <1>13, <1>14 DEF ToldInv

-----------------------------------------------------------------------------
(* What else the transcript has: the capabilities and the decision. *)

\* Slots that execute: they are free, or a sub-task has run on them.
Employed(w) ==
  \/ parallel /\ \E k \in DOMAIN pool : pool[k] = w
  \/ \E i \in DOMAIN subs : subs[i].state # "waiting" /\ subs[i].worker = w
  \/ ~parallel /\ w = 1

Undecided ==
  /\ ~Has(Stream, Degradation("decide", 0))
  /\ slap # Off => \A k \in DOMAIN slap : slap[k].operation # "decide"

Decided ==
  /\ \/ Single(Stream, Degradation("decide", 0)) /\ ~Has(slap, Decision)
     \/ ~Has(Stream, Degradation("decide", 0)) /\ Single(slap, Decision)
  /\ \A k \in DOMAIN slap : slap[k].operation = "decide" => slap[k] = Decision /\ k = Len(slap)

Advertisement ==
  slap # Off => \A w \in Nat : Employed(w) => Accounted(Stream, slap, "capability", w)

SaidInv ==
  /\ slap # Off => \A w, i \in Nat : Precede(slap, Said("capability", w), Said("assign", i))
  /\ stage \in {"dispatch", "synthesis", "over"} => Advertisement
  /\ stage \in {"idle", "planning", "dispatch"} => Undecided
  /\ stage \in {"synthesis", "over"} /\ slap # Off => Decided
  /\ stage = "planning" => \A k, l \in DOMAIN pool : pool[k] = pool[l] => k = l

\* Other events and messages leave what has been accounted for.
LEMMA AccountedMore ==
  ASSUME NEW s \in Seq(Events), NEW e \in Seq(Events), NEW t \in Seq(Messages), NEW r \in Seq(Messages),
         NEW o, NEW i, Accounted(s, t, o, i), ~Has(e, Degradation(o, i)), ~Has(r, Said(o, i))
  PROVE  Accounted(s \o e, t \o r, o, i)
<1> PICK c : c = s \o e
  OBVIOUS
<1> PICK u : u = t \o r
  OBVIOUS
<1> PICK x : x = Degradation(o, i)
  OBVIOUS
<1> PICK y : y = Said(o, i)
  OBVIOUS
<1>1. (Has(c, x) <=> Has(s, x)) /\ (Single(s, x) => Single(c, x))
  BY HasJoined, SingleJoined
<1>2. (Has(u, y) <=> Has(t, y)) /\ (Single(t, y) => Single(u, y))
  BY HasJoined, SingleJoined
<1> QED BY <1>1, <1>2 DEF Accounted

\* Messages that are joined.
LEMMA JoinedMessages ==
  ASSUME NEW t \in Seq(Messages), NEW r \in Seq(Messages), NEW k \in DOMAIN (t \o r)
  PROVE  \/ k \in DOMAIN t /\ (t \o r)[k] = t[k]
         \/ \E l \in DOMAIN r : (t \o r)[k] = r[l]
<1> PICK n \in Nat : n = Len(t) /\ DOMAIN t = 1..n
  OBVIOUS
<1> PICK m \in Nat : m = Len(r) /\ DOMAIN r = 1..m
  OBVIOUS
<1>1. DOMAIN (t \o r) = 1..n + m
  OBVIOUS
<1>2. CASE k <= n
  <2>1. k \in 1..n /\ (t \o r)[k] = t[k]
    BY <1>1, <1>2
  <2> QED BY <2>1
<1>3. CASE ~(k <= n)
  <2>1. k - n \in 1..m /\ (t \o r)[k] = r[k - n]
    BY <1>1, <1>3
  <2> QED BY <2>1
<1> QED BY <1>2, <1>3

\* A sub-task that starts or ends says nothing of capabilities and decisions.
LEMMA SaidKept ==
  ASSUME UltraTypes, SaidInv, Stream \in Seq(Events), stage \in {"dispatch", "left"}, stage' = stage,
         NEW e \in Seq(Events), NEW o \in {"assign", "result"}, NEW i \in Nat, NEW valid \in BOOLEAN,
         \A w \in Nat : ~Has(e, Degradation("capability", w)), ~Has(e, Degradation("decide", 0)),
         Stream' = Stream \o e,
         slap' # Off => /\ slap # Off /\ slap \in Seq(Messages) /\ slap' \in Seq(Messages)
                        /\ slap' = IF valid THEN slap \o <<Said(o, i)>> ELSE slap,
         \A w \in Nat : Employed(w)' => Employed(w)
  PROVE  SaidInv'
<1>1. PICK r \in Seq(Messages) : /\ r \in {<<>>, <<Said(o, i)>>}
                                 /\ slap' # Off => slap' = slap \o r
  <2>1. Said(o, i) \in Messages
    BY EventTypes DEF Operations
  <2>2. CASE valid
    <3>1. <<Said(o, i)>> \in Seq(Messages)
      BY <2>1
    <3> QED BY <2>2, <3>1
  <2>3. CASE ~valid
    <3>1. <<>> \in Seq(Messages) /\ (slap' # Off => slap' = slap \o <<>>)
      BY <2>3
    <3> QED BY <3>1
  <2> QED BY <2>2, <2>3
<1>2. \A w \in Nat : ~Has(r, Said("capability", w))
  <2>1. \A w \in Nat : Said(o, i) # Said("capability", w)
    BY RecordsDiffer
  <2> QED BY <1>1, <2>1, HasOne, HasNone
<1>3. \A k \in DOMAIN r : r[k].operation # "decide"
  <2>1. Said(o, i).operation # "decide"
    BY DEF Said
  <2>2. \A k \in DOMAIN r : Has(r, r[k])
    BY DEF Has
  <2> QED BY <1>1, <2>1, <2>2, HasOne, HasNone
<1>4. ASSUME slap' # Off, NEW w \in Nat, NEW j \in Nat
      PROVE  Precede(slap', Said("capability", w), Said("assign", j))
  <2>1. Precede(slap, Said("capability", w), Said("assign", j)) /\ slap \in Seq(Messages)
    BY <1>4 DEF SaidInv
  <2>2. Precede(r, Said("capability", w), Said("assign", j))
    BY <1>2, PrecedeNone
  <2>3. Precede(slap \o r, Said("capability", w), Said("assign", j))
    BY <1>2, <2>1, <2>2, PrecedeJoined
  <2> QED BY <1>1, <1>4, <2>3
<1>5. ASSUME stage = "dispatch", slap' # Off, NEW w \in Nat, Employed(w)'
      PROVE  Accounted(Stream', slap', "capability", w)
  <2>1. Accounted(Stream, slap, "capability", w) /\ slap \in Seq(Messages)
    BY <1>5 DEF SaidInv, Advertisement
  <2>2. Accounted(Stream \o e, slap \o r, "capability", w)
    BY <1>2, <2>1, AccountedMore
  <2> QED BY <1>1, <1>5, <2>2
<1>6. ASSUME stage = "dispatch" PROVE Undecided'
  <2>1. Undecided
    BY <1>6 DEF SaidInv
  <2>2. ~Has(Stream', Degradation("decide", 0))
    BY <2>1, NotJoined DEF Undecided
  <2>3. ASSUME slap' # Off, NEW k \in DOMAIN slap' PROVE slap'[k].operation # "decide"
    <3>1. slap \in Seq(Messages) /\ slap' = slap \o r /\ k \in DOMAIN (slap \o r)
      BY <1>1, <2>3
    <3>2. \A l \in DOMAIN slap : slap[l].operation # "decide"
      BY <2>1, <2>3 DEF Undecided
    <3> QED BY <1>3, <3>1, <3>2, JoinedMessages
  <2> QED BY <2>2, <2>3 DEF Undecided
<1>7. stage = "dispatch" => Advertisement'
  BY <1>5 DEF Advertisement
<1> QED BY <1>4, <1>6, <1>7 DEF SaidInv

LEMMA StartSaid ==
  ASSUME ToldInv, SaidInv, NEW i \in DOMAIN subs, NEW valid \in BOOLEAN, Start(i, valid)
  PROVE  SaidInv'
<1>1. UltraTypes /\ StreamInv /\ MarksInv /\ StageInv
  BY DEF ToldInv
<1>2. i \in Nat /\ subs[i] \in SubTasks /\ subs \in Seq(SubTasks) /\ pool \in Seq(Nat)
  BY <1>1, SubNat DEF UltraTypes
<1>3. /\ Dispatching /\ (parallel => pool # <<>>) /\ stage' = stage /\ parallel' = parallel
      /\ slap' = Recorded(Said("assign", i), valid)
      /\ pool' = IF parallel THEN Tail(pool) ELSE pool
  BY DEF Start
<1>4. PICK e : e = Degraded("assign", i, valid) \o <<Event("spawn", i)>>
  OBVIOUS
<1>5. Starts(e, i, valid) /\ e \in Seq(Events)
  BY <1>2, <1>4, StartEvents DEF Starts
<1>6. Emit(e)
  BY <1>4 DEF Start
<1>7. Stream' = Stream \o e /\ Stream \in Seq(Events)
  <2>1. ~parallel => queue = <<>>
    BY <1>1 DEF MarksInv
  <2> QED BY <1>1, <1>5, <1>6, <2>1, Emitted
<1>8. "assign" \in Operations
  BY DEF Operations
<1>9. slap' # Off => /\ slap # Off /\ slap \in Seq(Messages) /\ slap' \in Seq(Messages)
                     /\ slap' = IF valid THEN slap \o <<Said("assign", i)>> ELSE slap
  BY <1>1, <1>2, <1>3, <1>8, RecordedIs
<1>10. \A w : ~Has(e, Degradation("capability", w)) /\ ~Has(e, Degradation("decide", w))
  <2>1. \A o, w : Event("spawn", i) # Degradation(o, w)
    BY RecordsDiffer
  <2>2. \A w : Degradation("assign", i) # Degradation("capability", w) /\ Degradation("assign", i) # Degradation("decide", w)
    BY RecordsDiffer
  <2> QED BY <1>5, <2>1, <2>2 DEF Starts
<1>11. ASSUME NEW w \in Nat, Employed(w)' PROVE Employed(w)
  <2> DEFINE worker == IF parallel THEN Head(pool) ELSE 1
  <2>0. subs' = [subs EXCEPT ![i].state = "running", ![i].worker = worker]
    BY DEF Start
  <2>1. DOMAIN subs' = DOMAIN subs /\ \A j \in DOMAIN subs : j # i => subs'[j] = subs[j]
    BY <1>2, <2>0
  <2>2. subs'[i].worker = worker
    BY <1>2, <2>0 DEF SubTasks
  <2>3. parallel => 1 \in DOMAIN pool /\ pool[1] = Head(pool)
    BY <1>2, <1>3
  <2>4. ASSUME NEW k \in DOMAIN pool', pool'[k] = w PROVE \E l \in DOMAIN pool : pool[l] = w
    <3>1. CASE parallel
      <4>1. Tail(pool) = pool' /\ pool # <<>>
        BY <1>3, <3>1
      <4>2. k + 1 \in DOMAIN pool /\ pool[k + 1] = pool'[k]
        BY <1>2, <2>4, <4>1
      <4> QED BY <2>4, <4>2
    <3>2. CASE ~parallel
      BY <1>3, <2>4, <3>2
    <3> QED BY <3>1, <3>2
  <2>5. ASSUME NEW j \in DOMAIN subs', subs'[j].state # "waiting", subs'[j].worker = w PROVE Employed(w)
    <3>1. CASE j = i
      <4>1. w = worker
        BY <2>2, <2>5, <3>1
      <4> QED BY <2>3, <4>1 DEF Employed
    <3>2. CASE j # i
      BY <2>1, <2>5, <3>2 DEF Employed
    <3> QED BY <3>1, <3>2
  <2> QED BY <1>3, <1>11, <2>4, <2>5 DEF Employed
<1>12. stage \in {"dispatch", "left"}
  BY <1>3 DEF Dispatching
<1> QED BY <1>1, <1>2, <1>3, <1>5, <1>7, <1>9, <1>10, <1>11, <1>12, SaidKept

LEMMA EndSaid ==
  ASSUME ToldInv, SaidInv, NEW i \in DOMAIN subs, NEW outcome \in Outcomes, NEW valid \in BOOLEAN,
         End(i, outcome, valid)
  PROVE  SaidInv'
<1>1. UltraTypes /\ StreamInv /\ MarksInv /\ StageInv
  BY DEF ToldInv
<1>2. i \in Nat /\ subs[i] \in SubTasks /\ subs \in Seq(SubTasks) /\ pool \in Seq(Nat)
  BY <1>1, SubNat DEF UltraTypes
<1>3. /\ Dispatching /\ subs[i].state = "running" /\ stage' = stage /\ parallel' = parallel
      /\ slap' = Recorded(Said("result", i), valid)
      /\ pool' = IF parallel THEN Append(pool, subs[i].worker) ELSE pool
  BY DEF End, Ended
<1>4. PICK m \in {<<>>, <<Event("marker", 0)>>} : m = Marker
  BY DEF Marker
<1>5. PICK e : e = Notices(i, outcome, valid) \o <<Event("result", i)>> \o m
  OBVIOUS
<1>6. Ends(e, i, outcome, valid, m)
  BY <1>2, <1>5, EndEvents
<1>7. Emit(e) /\ e \in Seq(Events)
  BY <1>4, <1>5, <1>6 DEF End, Ended, Ends
<1>8. Stream' = Stream \o e /\ Stream \in Seq(Events)
  <2>1. ~parallel => queue = <<>>
    BY <1>1 DEF MarksInv
  <2> QED BY <1>1, <1>7, <2>1, Emitted
<1>9. "result" \in Operations
  BY DEF Operations
<1>10. slap' # Off => /\ slap # Off /\ slap \in Seq(Messages) /\ slap' \in Seq(Messages)
                      /\ slap' = IF valid THEN slap \o <<Said("result", i)>> ELSE slap
  BY <1>1, <1>2, <1>3, <1>9, RecordedIs
<1>11. \A w : ~Has(e, Degradation("capability", w)) /\ ~Has(e, Degradation("decide", w))
  <2>1. \A o, w : /\ Event("result", i) # Degradation(o, w) /\ Event("timeout", i) # Degradation(o, w)
                  /\ Event("marker", 0) # Degradation(o, w)
    BY RecordsDiffer
  <2>2. \A w : Degradation("result", i) # Degradation("capability", w) /\ Degradation("result", i) # Degradation("decide", w)
    BY RecordsDiffer
  <2> QED BY <1>6, <2>1, <2>2 DEF Ends
<1>12. ASSUME NEW w \in Nat, Employed(w)' PROVE Employed(w)
  <2>1. /\ DOMAIN subs' = DOMAIN subs /\ subs'[i].worker = subs[i].worker
        /\ \A j \in DOMAIN subs : j # i => subs'[j] = subs[j]
    BY <1>2 DEF End, Ended, SubTasks
  <2>2. ASSUME parallel, NEW k \in DOMAIN pool', pool'[k] = w PROVE Employed(w)
    <3>1. pool' = Append(pool, subs[i].worker)
      BY <1>3, <2>2
    <3>2. (k \in DOMAIN pool /\ pool[k] = w) \/ w = subs[i].worker
      BY <1>2, <2>2, <3>1
    <3> QED BY <1>3, <2>2, <3>2 DEF Employed
  <2>3. ASSUME NEW j \in DOMAIN subs', subs'[j].state # "waiting", subs'[j].worker = w PROVE Employed(w)
    BY <1>3, <2>1, <2>3 DEF Employed
  <2> QED BY <1>3, <1>12, <2>2, <2>3 DEF Employed
<1>13. stage \in {"dispatch", "left"}
  BY <1>3 DEF Dispatching
<1> QED BY <1>1, <1>2, <1>3, <1>7, <1>8, <1>10, <1>11, <1>12, <1>13, SaidKept

\* The drain loop takes nothing away but markers.
LEMMA DrainSaid == ASSUME ToldInv, SaidInv, Drain PROVE SaidInv'
<1>1. UltraTypes
  BY DEF ToldInv
<1>2. /\ stage = "dispatch" /\ queue # <<>> /\ queue' = Tail(queue) /\ stage' = stage /\ parallel' = parallel
      /\ pool' = pool /\ subs' = subs /\ slap' = slap
  BY DEF Drain
<1>3. told \in Seq(Events) /\ queue \in Seq(Events)
  BY <1>1 DEF UltraTypes
<1>4. ASSUME NEW o, NEW w
      PROVE  /\ Has(Stream', Degradation(o, w)) <=> Has(Stream, Degradation(o, w))
             /\ Single(Stream, Degradation(o, w)) => Single(Stream', Degradation(o, w))
  <2> PICK x : x = Degradation(o, w)
    OBVIOUS
  <2>1. CASE Head(queue).kind = "marker"
    <3>1. Stream' = told \o Tail(queue)
      BY <1>2, <2>1 DEF Drain, Stream
    <3>2. x.kind = "degraded"
      BY DEF Degradation
    <3>3. x # Head(queue)
      BY <2>1, <3>2
    <3> QED BY <1>2, <1>3, <3>1, <3>3, HeadTaken DEF Stream
  <2>2. CASE Head(queue).kind # "marker"
    <3>1. told' = Append(told, Head(queue))
      BY <2>2 DEF Drain
    <3>2. Append(told, Head(queue)) \o Tail(queue) = told \o queue
      BY <1>2, <1>3, HeadMoved
    <3>3. Stream' = Stream
      BY <1>2, <3>1, <3>2 DEF Stream
    <3> QED BY <3>3
  <2> QED BY <2>1, <2>2
<1>5. \A w : Employed(w)' <=> Employed(w)
  BY <1>2 DEF Employed
<1>6. Advertisement'
  <2>1. Advertisement
    BY <1>2 DEF SaidInv
  <2>2. ASSUME NEW w, Accounted(Stream, slap, "capability", w) PROVE Accounted(Stream', slap', "capability", w)
    BY <1>2, <1>4, <2>2 DEF Accounted
  <2> QED BY <1>2, <1>5, <2>1, <2>2 DEF Advertisement
<1>7. Undecided'
  <2>1. Undecided
    BY <1>2 DEF SaidInv
  <2> QED BY <1>2, <1>4, <2>1 DEF Undecided
<1> QED BY <1>2, <1>6, <1>7 DEF SaidInv

LEMMA LeaveSaid == ASSUME SaidInv, Leave PROVE SaidInv'
<1>1. stage' = "left" /\ slap' = slap
  BY DEF Leave
<1> QED BY <1>1 DEF SaidInv

LEMMA SaidUnchanged == ASSUME SaidInv, UNCHANGED ultraVars PROVE SaidInv'
<1>1. /\ stage' = stage /\ parallel' = parallel /\ pool' = pool /\ subs' = subs
      /\ queue' = queue /\ told' = told /\ slap' = slap
  BY DEF ultraVars
<1>2. Stream' = Stream /\ Decision' = Decision /\ \A w : Employed(w)' <=> Employed(w)
  BY <1>1 DEF Stream, Decision, Employed
<1>3. Advertisement' = Advertisement
  BY <1>1, <1>2 DEF Advertisement
<1>4. Undecided' = Undecided /\ (Decided => Decided')
  BY <1>1, <1>2 DEF Undecided, Decided
<1> QED BY <1>1, <1>3, <1>4 DEF SaidInv

LEMMA IdleSaid == NothingTold => SaidInv
<1> SUFFICES ASSUME NothingTold PROVE SaidInv
  OBVIOUS
<1>1. Stream = <<>> /\ slap = <<>> /\ stage = "idle" /\ DOMAIN <<>> = {}
  BY DEF NothingTold, Stream
<1>2. \A x : ~Has(<<>>, x)
  BY HasNone
<1>3. Undecided
  BY <1>1, <1>2 DEF Undecided
<1>4. \A x, y : Precede(<<>>, x, y)
  BY <1>2, PrecedeNone
<1> QED BY <1>1, <1>3, <1>4 DEF SaidInv

\* In a rising sequence of numbers each is there once.
LEMMA RisingOnce ==
  ASSUME NEW n \in Nat, NEW s \in [1..n -> Nat], \A k, l \in DOMAIN s : k < l => s[k] < s[l]
  PROVE  \A k, l \in DOMAIN s : s[k] = s[l] => k = l
<1> SUFFICES ASSUME NEW k \in 1..n, NEW l \in 1..n, s[k] = s[l] PROVE k = l
  OBVIOUS
<1> PICK a \in Nat : a = s[k]
  OBVIOUS
<1>1. k \in DOMAIN s /\ l \in DOMAIN s
  OBVIOUS
<1>2. k < l => a < a
  BY <1>1
<1>3. l < k => a < a
  BY <1>1
<1> QED BY <1>2, <1>3

\* A request begins with the ready workers, each once.
LEMMA BeginSaid == ASSUME LoadoutTypes, ToldInv, SaidInv, Begin PROVE SaidInv'
<1>1. UltraTypes /\ StageInv
  BY DEF ToldInv
<1>2. /\ stage = "idle" /\ stage' = "planning" /\ slap' \in {<<>>, Off}
      /\ queue' = queue /\ told' = told
  BY DEF Begin
<1>3. queue = <<>> /\ told = <<>>
  BY <1>1, <1>2 DEF StageInv
<1>4. Stream' = <<>> /\ DOMAIN <<>> = {}
  BY <1>2, <1>3 DEF Stream
<1>5. \A x : ~Has(<<>>, x)
  BY HasNone
<1>6. Undecided'
  BY <1>2, <1>4, <1>5 DEF Undecided
<1>7. \A x, y : Precede(<<>>, x, y)
  BY <1>5, PrecedeNone
<1>8. \A k, l \in DOMAIN pool' : pool'[k] = pool'[l] => k = l
  <2> PICK n \in Nat : n = Cardinality(ready \cap Workers)
    BY WorkersFinite
  <2>1. /\ pool' \in [1..n -> ready \cap Workers]
        /\ \A k, l \in DOMAIN pool' : k < l => pool'[k] < pool'[l]
    BY DEF Begin, InOrder
  <2>2. ready \cap Workers \in SUBSET Nat
    BY WorkersFinite
  <2>3. pool' \in [1..n -> Nat]
    BY <2>1, <2>2
  <2> QED BY <2>1, <2>3, RisingOnce
<1> QED BY <1>2, <1>6, <1>7, <1>8 DEF SaidInv

\* What is left when one element is taken out of a sequence without repetitions.
LEMMA OneTaken ==
  ASSUME NEW E, NEW s \in Seq(E), NEW n \in {0} \cup DOMAIN s, NEW u, u = RemoveAt(s, n), Distinct(s),
         NEW j \in DOMAIN s
  PROVE  (j # n => Single(u, s[j])) /\ (j = n => ~Has(u, s[j]))
<1> PICK m \in Nat : m = Len(s) /\ DOMAIN s = 1..m
  OBVIOUS
<1>1. CASE n = 0
  <2>1. u = SubSeq(s, 1, 0 - 1) \o SubSeq(s, 0 + 1, Len(s))
    BY <1>1 DEF RemoveAt
  <2>2. SubSeq(s, 1, 0 - 1) = <<>> /\ SubSeq(s, 0 + 1, Len(s)) = s /\ <<>> \o s = s
    OBVIOUS
  <2>3. u = s
    BY <2>1, <2>2
  <2> QED BY <1>1, <2>3 DEF Single, Distinct
<1>2. CASE n \in DOMAIN s
  <2>1. u \in Seq(E) /\ Len(u) = m - 1 /\ \A i \in 1..m - 1 : u[i] = IF i < n THEN s[i] ELSE s[i + 1]
    BY <1>2, RemoveAtFacts
  <2>2. DOMAIN u = 1..m - 1 /\ n \in 1..m /\ j \in 1..m
    BY <1>2, <2>1
  <2>3. ASSUME NEW i \in DOMAIN u, u[i] = s[j]
        PROVE  IF i < n THEN j = i ELSE j = i + 1
    <3>1. CASE i < n
      <4>1. i \in DOMAIN s /\ s[i] = s[j]
        BY <2>1, <2>2, <2>3, <3>1
      <4> QED BY <3>1, <4>1 DEF Distinct
    <3>2. CASE ~(i < n)
      <4>1. i + 1 \in DOMAIN s /\ s[i + 1] = s[j]
        BY <2>1, <2>2, <2>3, <3>2
      <4>2. j = i + 1
        BY <4>1 DEF Distinct
      <4> QED BY <3>2, <4>2
    <3> QED BY <3>1, <3>2
  <2>4. ASSUME j = n PROVE ~Has(u, s[j])
    <3>1. ASSUME NEW i \in DOMAIN u, u[i] = s[j] PROVE FALSE
      BY <2>2, <2>3, <2>4, <3>1
    <3> QED BY <3>1 DEF Has
  <2>5. ASSUME j # n PROVE Single(u, s[j])
    <3> PICK k \in Nat : k = IF j < n THEN j ELSE j - 1
      BY <2>2
    <3>1. k \in DOMAIN u /\ u[k] = s[j]
      BY <2>1, <2>2, <2>5
    <3>2. ASSUME NEW i \in DOMAIN u, u[i] = s[j] PROVE i = k
      BY <2>2, <2>3, <2>5, <3>2
    <3> QED BY <3>1, <3>2 DEF Single
  <2> QED BY <2>4, <2>5
<1> QED BY <1>1, <1>2

LEMMA PlanSaid ==
  ASSUME ToldInv, SaidInv, NEW n \in Nat, NEW bad \in Nat, NEW high \in BOOLEAN, Plan(n, bad, high)
  PROVE  SaidInv'
<1>1. UltraTypes /\ StageInv
  BY DEF ToldInv
<1>2. /\ stage = "planning" /\ stage' = "dispatch" /\ parallel' = parallel /\ pool' = pool
      /\ queue' = queue /\ slap' = Advertised(bad) /\ bad \in {0} \cup DOMAIN Executors
      /\ subs' = [i \in 1..Min({Max({n, 1}), Cap}) |-> Waiting]
  BY Zenon DEF Plan
<1>3. queue = <<>> /\ pool \in Seq(Nat)
  BY <1>1, <1>2 DEF StageInv, UltraTypes
<1>4. /\ told' \in Seq(Prelude) /\ (slap' # Off => slap' \in Seq(Capabilities))
      /\ \A w : Has(told', Degradation("capability", w)) <=> bad # 0 /\ w = Executors[bad]
      /\ bad # 0 => Single(told', Degradation("capability", Executors[bad]))
  BY PlanSays
<1>5. Stream' = told'
  <2>1. told' \o <<>> = told'
    BY <1>4
  <2> QED BY <1>2, <1>3, <2>1 DEF Stream
<1>6. Undecided'
  <2>1. ASSUME Has(Stream', Degradation("decide", 0)) PROVE FALSE
    <3>1. Degradation("decide", 0) \in Prelude
      BY <1>4, <1>5, <2>1, SeqHas
    <3>2. Degradation("decide", 0).kind = "degraded" /\ \A k : Event(k, 0).kind = k
      BY DEF Degradation, Event
    <3>3. \A i : Degradation("decide", 0) # Degradation("capability", i)
      BY RecordsDiffer
    <3> QED BY <3>1, <3>2, <3>3 DEF Prelude
  <2>2. ASSUME slap' # Off, NEW k \in DOMAIN slap' PROVE slap'[k].operation # "decide"
    <3>1. slap'[k] \in Capabilities
      BY <1>4, <2>2
    <3>2. \A w : Capability(w).operation = "capability"
      BY DEF Capability, Said
    <3> QED BY <3>1, <3>2 DEF Capabilities
  <2> QED BY <2>1, <2>2 DEF Undecided
<1>7. ASSUME slap' # Off, NEW w \in Nat, NEW i \in Nat
      PROVE  Precede(slap', Said("capability", w), Said("assign", i))
  <2>1. ~Has(slap', Said("assign", i))
    BY <1>4, <1>7, PreludeIs, SeqHas
  <2> QED BY <2>1, PrecedeNone
<1>8. PICK s : s = [i \in DOMAIN Executors |-> Capability(Executors[i])]
  OBVIOUS
<1>9. PICK k \in Nat : DOMAIN Executors = 1..k /\ \A i \in 1..k : Executors[i] \in Nat
  <2>1. Executors \in Seq(Nat)
    BY <1>3 DEF Executors
  <2> QED BY <2>1
<1>10. s \in Seq(Capabilities) /\ DOMAIN s = 1..k /\ \A i \in 1..k : s[i] = Capability(Executors[i])
  <2>1. \A i \in 1..k : Capability(Executors[i]) \in Capabilities
    BY <1>9 DEF Capabilities
  <2>2. s \in [1..k -> Capabilities] /\ \A i \in 1..k : s[i] = Capability(Executors[i])
    BY <1>8, <1>9, <2>1
  <2> QED BY <2>2
<1>11. \A i, j \in DOMAIN Executors : Executors[i] = Executors[j] => i = j
  <2>1. \A i, j \in DOMAIN pool : pool[i] = pool[j] => i = j
    BY <1>2 DEF SaidInv
  <2>2. DOMAIN <<1>> = {1}
    OBVIOUS
  <2> QED BY <2>1, <2>2 DEF Executors
<1>12. Distinct(s)
  <2>1. \A v, w : Capability(v) = Capability(w) => v = w
    BY RecordsDiffer DEF Capability
  <2> QED BY <1>9, <1>10, <1>11, <2>1 DEF Distinct
<1>13. ASSUME slap' # Off, NEW j \in DOMAIN Executors
       PROVE  Accounted(told', slap', "capability", Executors[j])
  <2>1. slap' = RemoveAt(s, bad)
    BY <1>2, <1>8, <1>13 DEF Advertised
  <2>2. bad \in {0} \cup DOMAIN s /\ j \in DOMAIN s
    BY <1>2, <1>9, <1>10, <1>13
  <2>3. s[j] = Said("capability", Executors[j])
    BY <1>9, <1>10, <1>13 DEF Capability
  <2>4. (j # bad => Single(slap', s[j])) /\ (j = bad => ~Has(slap', s[j]))
    BY <1>10, <1>12, <2>1, <2>2, OneTaken
  <2>5. CASE j = bad
    <3>1. bad # 0
      BY <1>9, <1>13, <2>5
    <3> QED BY <1>4, <2>3, <2>4, <2>5, <3>1 DEF Accounted
  <2>6. CASE j # bad
    <3>1. bad # 0 => Executors[j] # Executors[bad]
      BY <1>2, <1>11, <1>13, <2>6
    <3>2. ~Has(told', Degradation("capability", Executors[j]))
      BY <1>4, <3>1
    <3> QED BY <2>3, <2>4, <2>6, <3>2 DEF Accounted
  <2> QED BY <2>5, <2>6
<1>14. Advertisement'
  <2> SUFFICES ASSUME slap' # Off, NEW w \in Nat, Employed(w)' PROVE Accounted(Stream', slap', "capability", w)
    BY DEF Advertisement
  <2>1. \A i \in DOMAIN subs' : subs'[i].state = "waiting"
    BY <1>2 DEF Waiting
  <2>2. \E j \in DOMAIN Executors : Executors[j] = w
    <3>1. CASE parallel
      BY <1>2, <2>1, <3>1 DEF Employed, Executors
    <3>2. CASE ~parallel
      <4>1. w = 1
        BY <1>2, <2>1, <3>2 DEF Employed
      <4>2. 1 \in DOMAIN <<1>> /\ <<1>>[1] = 1
        OBVIOUS
      <4> QED BY <3>2, <4>1, <4>2 DEF Executors
    <3> QED BY <3>1, <3>2
  <2> QED BY <1>5, <1>13, <2>2
<1> QED BY <1>2, <1>6, <1>7, <1>14 DEF SaidInv

\* The decision is the last that is said.
LEMMA LastSaid ==
  ASSUME NEW s, s \in Seq(Messages), NEW m \in Messages, m.operation = "decide",
         \A k \in DOMAIN s : s[k].operation # "decide", NEW u, u = s \o <<m>>
  PROVE  /\ Single(u, m)
         /\ \A k \in DOMAIN u : u[k].operation = "decide" => u[k] = m /\ k = Len(u)
<1> PICK n \in Nat : n = Len(s) /\ DOMAIN s = 1..n
  OBVIOUS
<1>1. DOMAIN u = 1..n + 1 /\ Len(u) = n + 1 /\ u[n + 1] = m /\ \A k \in 1..n : u[k] = s[k]
  OBVIOUS
<1>2. ASSUME NEW k \in DOMAIN u, u[k].operation = "decide" PROVE u[k] = m /\ k = Len(u)
  <2>1. k \notin 1..n
    BY <1>1, <1>2
  <2> QED BY <1>1, <2>1
<1>3. <<m>> \in Seq(Messages)
  OBVIOUS
<1>4. ~Has(s, m)
  BY DEF Has
<1>5. Single(u, m)
  BY <1>3, <1>4, SingleOne, SingleJoined
<1> QED BY <1>2, <1>5

LEMMA DecideSaid == ASSUME ToldInv, SaidInv, NEW valid \in BOOLEAN, Decide(valid) PROVE SaidInv'
<1>1. UltraTypes /\ (stage = "dispatch" /\ stage' = "synthesis") /\ ToldInv'
  BY DecideTold DEF ToldInv, Decide
<1>2. /\ parallel' = parallel /\ pool' = pool /\ subs' = subs /\ queue' = queue
      /\ told' = told \o Degraded("decide", 0, valid) /\ slap' = Recorded(Decision, valid)
  BY DEF Decide
<1>3. queue' = <<>>
  BY <1>1 DEF ToldInv, StageInv
<1>4. PICK d : d = Degraded("decide", 0, valid)
  OBVIOUS
<1>5. /\ d \in Seq(Events) /\ (\A x : Has(d, x) <=> ~valid /\ x = Degradation("decide", 0))
      /\ ~valid => Single(d, Degradation("decide", 0))
  <2>1. "decide" \in Operations /\ 0 \in Nat
    BY DEF Operations
  <2> QED BY <1>4, <2>1, DegradedIs
<1>6. Stream' = Stream \o d /\ Stream \in Seq(Events)
  <2>1. told \in Seq(Events) /\ told \o d \in Seq(Events)
    BY <1>1, <1>5 DEF UltraTypes
  <2>2. told \o <<>> = told /\ (told \o d) \o <<>> = told \o d
    BY <2>1
  <2> QED BY <1>2, <1>3, <1>4, <2>1, <2>2 DEF Stream
<1>7. PICK k \in Nat : Decision = Said("decide", k)
  <2>1. subs \in Seq(SubTasks)
    BY <1>1 DEF UltraTypes
  <2> PICK n \in Nat : n = Len(subs) /\ DOMAIN subs = 1..n
    BY <2>1
  <2> PICK S \in SUBSET (1..n) : S = {i \in DOMAIN subs : subs[i].result = "ok"}
    OBVIOUS
  <2>2. 1 \in Int /\ n \in Int
    OBVIOUS
  <2>3. IsFiniteSet(1..n)
    BY <2>2, FS_Interval
  <2>4. IsFiniteSet(S)
    BY <2>3, FS_Subset
  <2>5. Cardinality(S) \in Nat
    BY <2>4, FS_CardinalityType
  <2> QED BY <2>5 DEF Decision
<1>8. PICK m \in Messages : m = Decision /\ m.operation = "decide" /\ \A o, i : o # "decide" => m # Said(o, i)
  <2>1. Said("decide", k) \in Messages
    BY <1>7, EventTypes DEF Operations
  <2>2. Said("decide", k).operation = "decide"
    BY DEF Said
  <2> QED BY <1>7, <2>1, <2>2, RecordsDiffer
<1>9. slap' # Off => /\ slap # Off /\ slap \in Seq(Messages) /\ slap' \in Seq(Messages)
                     /\ slap' = IF valid THEN slap \o <<m>> ELSE slap
  <2>1. "decide" \in Operations /\ slap' = Recorded(Said("decide", k), valid)
    BY <1>2, <1>7 DEF Operations
  <2> QED BY <1>1, <1>7, <1>8, <2>1, RecordedIs
<1>10. Decision' = Decision
  BY <1>2 DEF Decision
<1>11. PICK r \in Seq(Messages) : /\ r = (IF valid THEN <<m>> ELSE <<>>)
                                  /\ \A w : ~Has(r, Said("capability", w)) /\ ~Has(r, Said("assign", w))
  <2>1. <<m>> \in Seq(Messages) /\ <<>> \in Seq(Messages)
    OBVIOUS
  <2>2. \A w : ~Has(<<m>>, Said("capability", w)) /\ ~Has(<<m>>, Said("assign", w))
    BY <1>8, HasOne
  <2> QED BY <2>1, <2>2, HasNone
<1>12. slap' # Off => slap' = slap \o r
  <2>1. slap' # Off => slap \o <<>> = slap
    BY <1>9
  <2> QED BY <1>9, <1>11, <2>1
<1>13. ASSUME slap' # Off, NEW w \in Nat, NEW i \in Nat
       PROVE  Precede(slap', Said("capability", w), Said("assign", i))
  <2>1. Precede(slap, Said("capability", w), Said("assign", i)) /\ slap \in Seq(Messages)
    BY <1>9, <1>13 DEF SaidInv
  <2>2. Precede(r, Said("capability", w), Said("assign", i))
    BY <1>11, PrecedeNone
  <2>3. Precede(slap \o r, Said("capability", w), Said("assign", i))
    BY <1>11, <2>1, <2>2, PrecedeJoined
  <2> QED BY <1>12, <1>13, <2>3
<1>14. Advertisement'
  <2> SUFFICES ASSUME slap' # Off, NEW w \in Nat, Employed(w)' PROVE Accounted(Stream', slap', "capability", w)
    BY DEF Advertisement
  <2>1. Employed(w)
    BY <1>2 DEF Employed
  <2>2. Accounted(Stream, slap, "capability", w) /\ slap \in Seq(Messages)
    BY <1>1, <1>9, <2>1 DEF SaidInv, Advertisement
  <2>3. ~Has(d, Degradation("capability", w))
    BY <1>5, RecordsDiffer
  <2>4. Accounted(Stream \o d, slap \o r, "capability", w)
    BY <1>5, <1>6, <1>11, <2>2, <2>3, AccountedMore
  <2> QED BY <1>6, <1>12, <2>4
<1>15. ASSUME slap' # Off PROVE Decided'
  <2>1. ~Has(Stream, Degradation("decide", 0)) /\ \A l \in DOMAIN slap : slap[l].operation # "decide"
    BY <1>1, <1>9, <1>15 DEF SaidInv, Undecided
  <2>2. ~Has(slap, m)
    BY <1>8, <2>1 DEF Has
  <2>3. CASE valid
    <3>1. slap' = slap \o <<m>> /\ slap \in Seq(Messages)
      BY <1>9, <1>15, <2>3
    <3>2. Single(slap', m) /\ \A l \in DOMAIN slap' : slap'[l].operation = "decide" => slap'[l] = m /\ l = Len(slap')
      BY <1>8, <2>1, <3>1, LastSaid
    <3>3. ~Has(Stream', Degradation("decide", 0))
      BY <1>5, <1>6, <2>1, <2>3, NotJoined
    <3> QED BY <1>8, <1>10, <3>2, <3>3 DEF Decided
  <2>4. CASE ~valid
    <3>1. slap' = slap
      BY <1>9, <1>15, <2>4
    <3>2. Single(Stream', Degradation("decide", 0))
      BY <1>5, <1>6, <2>1, <2>4, SingleJoined
    <3> QED BY <1>8, <1>10, <2>1, <2>2, <3>1, <3>2 DEF Decided
  <2> QED BY <2>3, <2>4
<1> QED BY <1>1, <1>13, <1>14, <1>15 DEF SaidInv

LEMMA SynthesizeSaid == ASSUME ToldInv, SaidInv, Synthesize PROVE SaidInv'
<1>1. UltraTypes /\ StageInv
  BY DEF ToldInv
<1>2. /\ stage = "synthesis" /\ stage' = "over" /\ parallel' = parallel /\ pool' = pool /\ subs' = subs
      /\ queue' = queue /\ slap' = slap
  BY DEF Synthesize
<1>3. told \in Seq(Events) /\ queue = <<>> /\ (slap # Off => slap \in Seq(Messages))
  BY <1>1, <1>2 DEF UltraTypes, StageInv
<1>4. PICK x \in Events : told' = Append(told, x) /\ \A o, i : x # Degradation(o, i)
  <2>1. PICK done \in {"done", "error"} : told' = Append(told, Event(done, 0))
    BY DEF Synthesize
  <2>2. Event(done, 0) \in Events
    BY EventTypes DEF Kinds
  <2> QED BY <2>1, <2>2, RecordsDiffer
<1>5. Stream' = Stream \o <<x>> /\ Stream \in Seq(Events) /\ <<x>> \in Seq(Events)
  <2>1. <<x>> \in Seq(Events) /\ told \o <<x>> \in Seq(Events)
    BY <1>3
  <2>2. told \o <<>> = told /\ (told \o <<x>>) \o <<>> = told \o <<x>> /\ Append(told, x) = told \o <<x>>
    BY <1>3, <2>1
  <2> QED BY <1>2, <1>3, <1>4, <2>1, <2>2 DEF Stream
<1>6. \A o, i : ~Has(<<x>>, Degradation(o, i))
  BY <1>4, HasOne
<1>7. ASSUME NEW o, NEW i
      PROVE  /\ Has(Stream', Degradation(o, i)) <=> Has(Stream, Degradation(o, i))
             /\ Single(Stream, Degradation(o, i)) => Single(Stream', Degradation(o, i))
  BY <1>5, <1>6, HasJoined, SingleJoined
<1>8. Decision' = Decision /\ \A w : Employed(w)' <=> Employed(w)
  BY <1>2 DEF Decision, Employed
<1>9. Advertisement'
  <2>1. Advertisement
    BY <1>2 DEF SaidInv
  <2>2. ASSUME NEW w, Accounted(Stream, slap, "capability", w) PROVE Accounted(Stream', slap', "capability", w)
    BY <1>2, <1>7, <2>2 DEF Accounted
  <2> QED BY <1>2, <1>8, <2>1, <2>2 DEF Advertisement
<1>10. slap' # Off => Decided'
  BY <1>2, <1>7, <1>8 DEF SaidInv, Decided
<1> QED BY <1>2, <1>9, <1>10 DEF SaidInv

-----------------------------------------------------------------------------
\* Being there once is having one position, and not being there none.
LEMMA OnceIs ==
  ASSUME NEW s, NEW x, NEW S, S = {k \in DOMAIN s : s[k] = x}
  PROVE  /\ Single(s, x) => Cardinality(S) = 1
         /\ ~Has(s, x) => Cardinality(S) = 0
<1>1. ASSUME Single(s, x) PROVE Cardinality(S) = 1
  <2>1. PICK k : S = {k}
    BY <1>1 DEF Single
  <2>2. Cardinality({k}) = 1
    BY FS_Singleton
  <2> QED BY <2>1, <2>2
<1>2. ASSUME ~Has(s, x) PROVE Cardinality(S) = 0
  <2>1. S = {}
    BY <1>2 DEF Has
  <2>2. Cardinality({}) = 0
    BY FS_EmptySet
  <2> QED BY <2>1, <2>2
<1> QED BY <1>1, <1>2

LEMMA ToldIsFull == ASSUME ToldInv, SaidInv PROVE ToldInFull
<1> DEFINE at(seq, x) == {k \in DOMAIN seq : seq[k] = x}
<1> DEFINE count(seq, x) == Cardinality(at(seq, x))
<1> DEFINE precede(seq, x, y) == \A k \in at(seq, x), l \in at(seq, y) : k < l
<1> DEFINE recorded(message, notice) == count(slap, message) + count(told, notice) = 1
<1> DEFINE shown(i) ==
      /\ count(told, Event("spawn", i)) = 1 /\ count(told, Event("result", i)) = 1
      /\ count(told, Event("timeout", i)) = IF subs[i].timeout THEN 1 ELSE 0
      /\ precede(told, Event("spawn", i), Event("timeout", i))
      /\ precede(told, Event("spawn", i), Event("result", i))
      /\ precede(told, Event("timeout", i), Event("result", i))
<1> DEFINE said(i) ==
      LET w == subs[i].worker IN
      /\ recorded(Capability(w), Degradation("capability", w))
      /\ recorded(Said("assign", i), Degradation("assign", i))
      /\ recorded(Said("result", i), Degradation("result", i))
      /\ precede(slap, Capability(w), Said("assign", i))
      /\ precede(slap, Said("assign", i), Said("result", i))
<1> DEFINE last == \A k \in DOMAIN slap : slap[k].operation = "decide" => slap[k] = Decision /\ k = Len(slap)
<1> SUFFICES ASSUME stage \in {"synthesis", "over"}
             PROVE  /\ queue = <<>>
                    /\ \A i \in DOMAIN subs : shown(i)
                    /\ slap # Off => /\ trace = slap
                                     /\ recorded(Decision, Degradation("decide", 0))
                                     /\ last
                                     /\ \A i \in DOMAIN subs : said(i)
  BY DEF ToldInFull
<1>1. UltraTypes /\ StreamInv /\ queue = <<>> /\ DoneSubs = DOMAIN subs /\ (slap # Off => trace = slap)
  BY DEF ToldInv, StageInv
<1>2. Stream = told
  <2>1. told \o <<>> = told
    BY <1>1 DEF UltraTypes
  <2> QED BY <1>1, <2>1 DEF Stream
<1>3. \A s, x : (Single(s, x) => count(s, x) = 1) /\ (~Has(s, x) => count(s, x) = 0)
  BY OnceIs
<1>4. \A s, x, y : Precede(s, x, y) => precede(s, x, y)
  BY DEF Precede
<1> HIDE DEF count, precede, at
<1>5. \A o, i : Accounted(told, slap, o, i) => recorded(Said(o, i), Degradation(o, i))
  BY <1>3 DEF Accounted
<1>6. ASSUME NEW i \in DOMAIN subs
      PROVE  subs[i].state = "done" /\ Streamed(told, subs[i], i) /\ (slap # Off => Transcribed(told, slap, subs[i], i))
  BY <1>1, <1>2 DEF DoneSubs, StreamInv
<1>7. ASSUME NEW i \in DOMAIN subs PROVE shown(i)
  BY <1>3, <1>4, <1>6 DEF Streamed
<1>8. ASSUME slap # Off, NEW i \in DOMAIN subs PROVE said(i)
  <2> PICK w : w = subs[i].worker
    OBVIOUS
  <2>1. w \in Nat /\ i \in Nat
    BY <1>1, SubNat DEF SubTasks
  <2>2. Employed(w)
    BY <1>6 DEF Employed
  <2>3. Accounted(told, slap, "capability", w) /\ Precede(slap, Said("capability", w), Said("assign", i))
    BY <1>2, <1>8, <2>1, <2>2 DEF SaidInv, Advertisement
  <2>4. Accounted(told, slap, "assign", i) /\ Accounted(told, slap, "result", i)
    BY <1>6, <1>8 DEF Transcribed
  <2>5. Precede(slap, Said("assign", i), Said("result", i))
    BY <1>6, <1>8 DEF Transcribed
  <2> HIDE DEF recorded
  <2> QED BY <1>4, <1>5, <2>3, <2>4, <2>5 DEF Capability
<1>9. slap # Off => recorded(Decision, Degradation("decide", 0)) /\ last
  <2>1. slap # Off => Decided
    BY DEF SaidInv
  <2> QED BY <1>2, <1>3, <2>1 DEF Decided
<1> QED BY <1>1, <1>7, <1>8, <1>9

\* When the synthesis begins, the client that stayed has each sub-task's spawn, then
\* its timeout if there was one, and then its result. The transcript has, or else a
\* notice tells of, each capability that was used, each assign after it, each result
\* after that and the decision, which comes last and counts who made it; however
\* the sub-agents interleaved, failed and timed out.
THEOREM ClientIsTold == UltraSpec => []ToldInFull
<1>1. UltraInit => BestInv /\ ToldInv /\ SaidInv
  BY InitBest, IdleTold, IdleSaid DEF UltraInit, UltraIdle, NothingTold
<1>2. BestInv /\ ToldInv /\ SaidInv /\ [UltraNext]_requestVars => (BestInv /\ ToldInv /\ SaidInv)'
  <2> SUFFICES ASSUME BestInv, ToldInv, SaidInv, [UltraNext]_requestVars PROVE ToldInv' /\ SaidInv'
    BY NextBest
  <2>1. CASE Reboot
    <3>1. NothingTold'
      BY <2>1 DEF Reboot, NothingTold
    <3>2. NothingTold' => ToldInv' /\ SaidInv'
      BY IdleTold, IdleSaid, PTL
    <3> QED BY <3>1, <3>2
  <2>2. CASE Warm
    BY <2>2, ToldKept, SaidUnchanged DEF Warm
  <2>3. CASE Begin
    BY <2>3, BeginTold, BeginSaid DEF BestInv
  <2>4. CASE Leave
    BY <2>4, LeaveTold, LeaveSaid
  <2>5. CASE RunStep
    <3>1. ASSUME NEW n \in 0..SequentialCap + 1, NEW bad \in 0..SequentialCap, NEW high \in BOOLEAN, Plan(n, bad, high)
          PROVE  ToldInv' /\ SaidInv'
      <4>1. n \in Nat /\ bad \in Nat
        BY UltraAssumption DEF UltraAssumption
      <4> QED BY <3>1, <4>1, PlanTold, PlanSaid
    <3>2. ASSUME NEW valid \in BOOLEAN, Decide(valid) PROVE ToldInv' /\ SaidInv'
      BY <3>2, DecideTold, DecideSaid
    <3> QED BY <2>5, <3>1, <3>2, DrainTold, DrainSaid, SynthesizeTold, SynthesizeSaid DEF RunStep
  <2>6. ASSUME NEW i \in 1..SequentialCap, SubStep(i) PROVE ToldInv' /\ SaidInv'
    BY <2>6, StartTold, StartSaid, EndTold, EndSaid DEF SubStep
  <2>7. CASE UNCHANGED requestVars
    BY <2>7, ToldKept, SaidUnchanged DEF requestVars
  <2> QED BY <2>1, <2>2, <2>3, <2>4, <2>5, <2>6, <2>7 DEF UltraNext
<1>3. ToldInv /\ SaidInv => ToldInFull
  BY ToldIsFull
<1> QED BY <1>1, <1>2, <1>3, PTL DEF UltraSpec
=============================================================================

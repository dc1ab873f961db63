------------------------------ MODULE SlotGate ------------------------------
(***************************************************************************)
(* One SlotGate (llama/manager.py) and the runs that pass it: interactive  *)
(* chats, which are turned away when its queue is full, and internal runs  *)
(* (research steps, scheduled runs), which always wait. The gate is an     *)
(* asyncio.Lock and a count of the coroutines inside acquire().            *)
(***************************************************************************)
EXTENDS Integers, Sequences, SequencesExt

CONSTANTS
  Chats,     \* chats that call check_capacity before they join
  Rich,      \* those of them with stream_events: they wait with a notice
  Internal,  \* research steps and scheduled runs: no capacity check
  MaxQueue   \* SlotGate.MAX_QUEUE

Runs == Chats \cup Internal

ASSUME SlotGateAssumption ==
  /\ Rich \subseteq Chats
  /\ Chats \cap Internal = {}
  /\ MaxQueue \in Nat

VARIABLES
  pc,       \* where each run is
  locked,   \* _lock.locked()
  waiters,  \* the runs whose futures are in the lock's FIFO
  waiting   \* _waiting

vars == <<pc, locked, waiters, waiting>>

\* "admitted": past check_capacity, still preparing (or its stream not started);
\* "timed": a rich run's first second in acquire(); "notified": it gave up its
\* place and is sending the slot_queued notice; "queued": in acquire() for good.
TypeOK ==
  /\ pc \in [Runs -> {"out", "admitted", "timed", "notified", "queued", "holding"}]
  /\ locked \in BOOLEAN
  /\ waiters \in Seq(Runs)
  /\ waiting \in Nat

Init ==
  /\ pc = [r \in Runs |-> "out"]
  /\ locked = FALSE
  /\ waiters = <<>>
  /\ waiting = 0

InQueue(r) == pc[r] \in {"timed", "queued"}

-----------------------------------------------------------------------------
(* The gate. *)

\* asyncio.Lock: a newcomer gets the lock at once only past an empty queue.
Free == ~locked /\ waiters = <<>>

Take(r) ==
  /\ Free
  /\ locked' = TRUE
  /\ pc' = [pc EXCEPT ![r] = "holding"]
  /\ UNCHANGED <<waiters, waiting>>

Enqueue(r, how) ==
  /\ ~Free
  /\ waiters' = Append(waiters, r)
  /\ waiting' = waiting + 1
  /\ pc' = [pc EXCEPT ![r] = how]
  /\ UNCHANGED locked

\* acquire(), up to its await.
Acquire(r, how) == Take(r) \/ Enqueue(r, how)

\* The rest of acquire(): the lock reaches the head of the queue.
Grant(r) ==
  /\ ~locked
  /\ waiters # <<>> /\ Head(waiters) = r
  /\ locked' = TRUE
  /\ waiters' = Tail(waiters)
  /\ waiting' = waiting - 1
  /\ pc' = [pc EXCEPT ![r] = "holding"]

\* acquire() ends with CancelledError: its future leaves the queue wherever it
\* stood, and the finally clause takes it off the count.
LeaveQueue(r) ==
  /\ \E i \in DOMAIN waiters : waiters[i] = r /\ waiters' = RemoveAt(waiters, i)
  /\ waiting' = waiting - 1

\* check_capacity() refuses: 429 slot_queue_full.
Full == locked /\ waiting >= MaxQueue

-----------------------------------------------------------------------------
(* The runs. *)

\* ensure_loaded() has returned and check_capacity() passes. A refused chat
\* changes nothing.
Arrive(c) ==
  /\ pc[c] = "out"
  /\ ~Full
  /\ pc' = [pc EXCEPT ![c] = "admitted"]
  /\ UNCHANGED <<locked, waiters, waiting>>

\* The awaits between the check and the gate are over: context compression, the
\* start of the stream or of the watched task.
Join(c) ==
  /\ pc[c] = "admitted"
  /\ Acquire(c, IF c \in Rich THEN "timed" ELSE "queued")

InternalJoin(i) ==
  /\ i \in Internal
  /\ pc[i] = "out"
  /\ Acquire(i, "queued")

\* wait_for(acquire(), QUEUE_NOTICE_AFTER_S) times out: the place is forfeited
\* and the notice is sent.
Notice(c) ==
  /\ pc[c] = "timed"
  /\ LeaveQueue(c)
  /\ pc' = [pc EXCEPT ![c] = "notified"]
  /\ UNCHANGED locked

\* Mutant: the run polls the lock after its notice.
RejoinBarges(c) ==
  /\ pc[c] = "notified"
  /\ ~locked
  /\ locked' = TRUE
  /\ pc' = [pc EXCEPT ![c] = "holding"]
  /\ UNCHANGED <<waiters, waiting>>

\* Mutant: the second wait has a timeout as well.
RejoinTimed(c) ==
  /\ pc[c] = "notified"
  /\ Acquire(c, "timed")

Rejoin(c) ==
  /\ pc[c] = "notified"
  /\ Acquire(c, "queued")

\* The run ends, whatever the reason: answer, error, disconnect, cancellation.
Release(r) ==
  /\ pc[r] = "holding"
  /\ locked' = FALSE
  /\ pc' = [pc EXCEPT ![r] = "out"]
  /\ UNCHANGED <<waiters, waiting>>

\* Mutant: the count is taken down after the await, not in a finally.
AbandonUncounted(r) ==
  /\ \/ /\ InQueue(r)
        /\ \E i \in DOMAIN waiters : waiters[i] = r /\ waiters' = RemoveAt(waiters, i)
        /\ UNCHANGED waiting
     \/ pc[r] \in {"admitted", "notified"} /\ UNCHANGED <<waiters, waiting>>
  /\ pc' = [pc EXCEPT ![r] = "out"]
  /\ UNCHANGED locked

\* The client disconnects, the job is deleted or the server shuts down before
\* the run holds the slot.
Abandon(r) ==
  /\ \/ InQueue(r) /\ LeaveQueue(r)
     \/ pc[r] \in {"admitted", "notified"} /\ UNCHANGED <<waiters, waiting>>
  /\ pc' = [pc EXCEPT ![r] = "out"]
  /\ UNCHANGED locked

Next ==
  \/ \E c \in Chats : Arrive(c) \/ Join(c) \/ Notice(c) \/ Rejoin(c)
  \/ \E i \in Internal : InternalJoin(i)
  \/ \E r \in Runs : Grant(r) \/ Release(r) \/ Abandon(r)

Spec == Init /\ [][Next]_vars

\* Every completion is bounded by a timeout, so every hold ends; the event loop
\* runs a woken coroutine, and drives a stream past its notice. Nothing makes
\* anyone arrive or leave.
Fairness ==
  /\ \A r \in Runs : WF_vars(Grant(r)) /\ WF_vars(Release(r))
  /\ \A c \in Chats : WF_vars(Rejoin(c))

FairSpec == Spec /\ Fairness

-----------------------------------------------------------------------------
(* Properties. *)

\* At most one run decodes on the slot, and the lock is taken exactly while one
\* does: no cancelled waiter releases a lock it does not hold, and no ending
\* keeps it.
OneDecodes ==
  /\ \A p, q \in Runs : pc[p] = "holding" /\ pc[q] = "holding" => p = q
  /\ locked <=> \E r \in Runs : pc[r] = "holding"

\* _waiting is the number of runs in acquire(), each there once: the depth shown
\* in notices, and the figure the 429 is decided on, never drift, however waits
\* are cancelled, timed out and resumed.
CountsWaiters ==
  /\ waiting = Len(waiters)
  /\ \A i, j \in DOMAIN waiters : waiters[i] = waiters[j] => i = j
  /\ \A r \in Runs : InQueue(r) <=> \E i \in DOMAIN waiters : waiters[i] = r

\* Runs get the slot in the order in which they began their present wait.
Before(p, q) ==
  \E i, j \in DOMAIN waiters : i < j /\ waiters[i] = p /\ waiters[j] = q

NoOvertaking ==
  [][\A p, q \in Runs :
       pc[p] \in {"timed", "queued"} /\ pc'[p] = pc[p] /\ pc[q] # "holding" /\ pc'[q] = "holding"
         => Before(q, p)]_vars

\* A run that waits for the slot gets it, unless it is abandoned: a rich run
\* forfeits its place once and not for ever, and a research step is not starved
\* by the chats that keep coming.
WaitersAreServed ==
  \A r \in Runs : pc[r] \in {"timed", "notified", "queued"} ~> pc[r] \in {"holding", "out"}

\* Refuted by TLC (add it to MCSlotGate.cfg).
\* "one holder, at most MAX_QUEUE waiters, and a 429 beyond that" (manager.py):
\* chats check before they join, and other chats join in between.
QueueBounded == Len(waiters) <= MaxQueue

=============================================================================

-------------------------- MODULE ResidencyProofs --------------------------
(***************************************************************************)
(* Proofs about Residency, for every number of callers and slots, every    *)
(* keep-alive window and every restart limit.                              *)
(***************************************************************************)
EXTENDS Residency, SequenceTheorems, TLAPS

\* The Boolean variables are typed apart from the others: their part of each
\* step is first-order, the rest needs functions, sequences and arithmetic.
FlagsOK ==
  /\ jobActive \in BOOLEAN
  /\ loaded \in BOOLEAN
  /\ unloading \in BOOLEAN
  /\ interrupted \in BOOLEAN

DataOK ==
  /\ pc \in [Callers -> {"out", "external", "submitted", "queued", "warming", "using"}]
  /\ owner \in Parties \cup {Nobody}
  /\ waiters \in Seq(Parties)
  /\ reaper \in {"asleep", "queued", "stopping"}
  /\ age \in 0..KeepAlive
  /\ todo \subseteq Slots
  /\ current \in Slots \cup {Nobody}
  /\ st \in [Slots -> {"cold", "starting", "ready", "failed", "stopped"}]
  /\ backend \in [Slots -> {"none", "null", "real"}]
  /\ proc \in [Slots -> {"none", "live", "dead"}]
  /\ watcher \in [Slots -> {"none", "wait", "backoff", "health", "raised"}]
  /\ attempts \in [Slots -> 0..MaxRestarts]
  /\ orphaned \subseteq Slots
  /\ haunted \subseteq Slots

LEMMA TypeParts == TypeOK <=> FlagsOK /\ DataOK
  BY Zenon DEF TypeOK, FlagsOK, DataOK

LEMMA RemoveAtType ==
  ASSUME NEW S, NEW q \in Seq(S), NEW i \in DOMAIN q
  PROVE  RemoveAt(q, i) \in Seq(S)
  BY SubSeqProperties, ConcatProperties DEF RemoveAt

LEMMA DataInit == Init => DataOK
  BY ResidencyAssumption DEF ResidencyAssumption, Init, DataOK

LEMMA FlagsInit == Init => FlagsOK
  BY Zenon DEF Init, FlagsOK

\* ensure_loaded, whoever calls it.
LEMMA DataEnsureLoaded ==
  ASSUME DataOK, NEW c \in Callers, EnsureLoaded(c)
  PROVE  DataOK'
  <1>0. c \in Parties
    BY DEF Parties
  <1>1. CASE Resident /\ Admit(c) /\ UNCHANGED waiters
    BY <1>0, <1>1, ResidencyAssumption
    DEF ResidencyAssumption, DataOK, EnsureLoaded, Admit, slotVars, leakVars
  <1>2. CASE ~Resident /\ LockFree /\ BeginWarming(c) /\ UNCHANGED waiters
    BY <1>0, <1>2 DEF DataOK, EnsureLoaded, BeginWarming, slotVars, leakVars
  <1>3. CASE ~Resident /\ ~LockFree /\ Await(c)
    BY <1>0, <1>3 DEF DataOK, EnsureLoaded, Await, slotVars, leakVars
  <1> QED BY <1>1, <1>2, <1>3 DEF EnsureLoaded

LEMMA DataResume ==
  ASSUME DataOK, NEW c \in Callers, Resume(c)
  PROVE  DataOK'
  <1>0. c \in Parties
    BY DEF Parties
  <1>1. Tail(waiters) \in Seq(Parties)
    BY HeadTailProperties DEF DataOK, Resume, MyTurn
  <1>2. CASE Admit(c)
    BY <1>0, <1>1, <1>2, ResidencyAssumption
    DEF ResidencyAssumption, DataOK, Resume, Admit, slotVars, leakVars
  <1>3. CASE BeginWarming(c)
    BY <1>0, <1>1, <1>3 DEF DataOK, Resume, BeginWarming, slotVars, leakVars
  <1> QED BY <1>2, <1>3 DEF Resume

LEMMA DataDrain ==
  ASSUME DataOK, NEW c, Drain(c)
  PROVE  age' \in 0..KeepAlive
  BY ResidencyAssumption DEF ResidencyAssumption, DataOK, Drain

\* The chats, the imports and the research job, outside ensure_loaded.
LEMMA DataChat ==
  ASSUME DataOK, NEW c \in Chats, ChatBegin(c) \/ ExternalBegin(c) \/ ChatEnd(c)
  PROVE  DataOK'
  <1>0. c \in Callers
    BY DEF Callers
  <1>1. CASE ChatBegin(c)
    BY <1>0, <1>1, DataEnsureLoaded DEF ChatBegin
  <1>2. CASE ExternalBegin(c)
    BY <1>0, <1>2 DEF ExternalBegin, DataOK, lockVars, loadVars, slotVars, leakVars
  <1>3. CASE ChatEnd(c)
    BY <1>0, <1>3, DataDrain DEF ChatEnd, DataOK, lockVars, loadVars, slotVars, leakVars
  <1> QED BY <1>1, <1>2, <1>3

LEMMA DataImport ==
  ASSUME DataOK, NEW i \in Imports, ImportBegin(i) \/ ImportEnd(i)
  PROVE  DataOK'
  <1>0. i \in Callers
    BY DEF Callers
  <1>1. CASE ImportBegin(i)
    BY <1>0, <1>1, DataEnsureLoaded DEF ImportBegin
  <1>2. CASE ImportEnd(i)
    BY <1>0, <1>2 DEF ImportEnd, DataOK, lockVars, loadVars, slotVars, leakVars
  <1> QED BY <1>1, <1>2

LEMMA DataJob ==
  ASSUME DataOK, JobStep
  PROVE  DataOK'
  <1>0. Job \in Callers
    BY DEF Callers
  <1>1. CASE JobSubmit
    BY <1>0, <1>1 DEF JobSubmit, DataOK, lockVars, loadVars, slotVars, leakVars
  <1>2. CASE JobRun
    BY <1>0, <1>2, DataEnsureLoaded DEF JobRun
  <1>3. CASE JobFinish
    BY <1>0, <1>3 DEF JobFinish, DataOK, lockVars, loadVars, slotVars, leakVars
  <1>4. CASE JobCancel
    BY <1>0, <1>4 DEF JobCancel, DataOK, lockVars, loadVars, slotVars, leakVars
  <1>5. CASE JobUnwind
    <2>1. waiters' \in Seq(Parties)
      BY <1>5, RemoveAtType DEF JobUnwind, DataOK
    <2>2. owner' \in Parties \cup {Nobody} /\ todo' \subseteq Slots /\ current' \in Slots \cup {Nobody}
      BY <1>5 DEF JobUnwind, DataOK
    <2> QED BY <1>0, <1>5, <2>1, <2>2 DEF JobUnwind, DataOK, slotVars
  <1> QED BY <1>1, <1>2, <1>3, <1>4, <1>5 DEF JobStep

\* start_all.
LEMMA DataStart ==
  ASSUME DataOK, NEW c \in Callers, NEW s \in Slots,
         StartNull(c, s) \/ StartSpawn(c, s) \/ StartRaises(c, s)
  PROVE  DataOK'
  <1>1. ASSUME NEW k \in {"none", "null", "real"}, Register(s, k)
        PROVE  /\ backend' \in [Slots -> {"none", "null", "real"}]
               /\ watcher' \in [Slots -> {"none", "wait", "backoff", "health", "raised"}]
               /\ attempts' \in [Slots -> 0..MaxRestarts]
               /\ orphaned' \subseteq Slots
               /\ haunted' \subseteq Slots
    BY <1>1, ResidencyAssumption DEF ResidencyAssumption, Register, DataOK
  <1>2. CASE StartNull(c, s)
    BY <1>1, <1>2 DEF StartNull, DataOK, callVars, lockVars
  <1>3. CASE StartSpawn(c, s)
    BY <1>1, <1>3 DEF StartSpawn, DataOK, callVars, lockVars
  <1>4. CASE StartRaises(c, s)
    <2>1. age' \in 0..KeepAlive
      BY <1>4, DataDrain DEF StartRaises, DataOK
    <2> QED BY <1>1, <1>4, <2>1 DEF StartRaises, DataOK
  <1> QED BY <1>2, <1>3, <1>4

LEMMA DataStarted ==
  ASSUME DataOK, NEW c \in Callers, StartHealthy(c) \/ StartUnhealthy(c) \/ WarmDone(c)
  PROVE  DataOK'
  <1>1. CASE StartHealthy(c)
    BY <1>1 DEF StartHealthy, DataOK, callVars, lockVars, leakVars
  <1>2. CASE StartUnhealthy(c)
    BY <1>2 DEF StartUnhealthy, DataOK, callVars, lockVars, leakVars
  <1>3. CASE WarmDone(c)
    BY <1>3, ResidencyAssumption
    DEF ResidencyAssumption, WarmDone, DataOK, slotVars, leakVars
  <1> QED BY <1>1, <1>2, <1>3

\* Crashes and the watchers.
LEMMA DataSlot ==
  ASSUME DataOK, NEW s \in Slots, SlotStep(s)
  PROVE  DataOK'
  <1>1. CASE Crash(s)
    BY <1>1 DEF Crash, DataOK, callVars, lockVars, loadVars, leakVars
  <1>2. CASE WatchExit(s)
    <2>1. attempts' \in [Slots -> 0..MaxRestarts]
      <3>1. CASE UNCHANGED attempts
        BY <3>1 DEF DataOK
      <3>2. CASE attempts[s] < MaxRestarts /\ attempts' = [attempts EXCEPT ![s] = @ + 1]
        <4>1. attempts[s] + 1 \in 0..MaxRestarts
          BY <3>2, ResidencyAssumption DEF ResidencyAssumption, DataOK
        <4> QED BY <3>2, <4>1 DEF DataOK
      <3> QED BY <1>2, <3>1, <3>2 DEF WatchExit
    <2>2. /\ st' \in [Slots -> {"cold", "starting", "ready", "failed", "stopped"}]
          /\ watcher' \in [Slots -> {"none", "wait", "backoff", "health", "raised"}]
      BY <1>2 DEF WatchExit, DataOK
    <2> QED BY <1>2, <2>1, <2>2 DEF WatchExit, DataOK, callVars, lockVars, loadVars, leakVars
  <1>3. CASE WatchRespawn(s)
    BY <1>3 DEF WatchRespawn, DataOK, callVars, lockVars, loadVars, leakVars
  <1>4. CASE WatchHealth(s)
    BY <1>4 DEF WatchHealth, DataOK, callVars, lockVars, loadVars, leakVars
  <1>5. CASE WatchForgotten(s)
    BY <1>5 DEF WatchForgotten, DataOK, callVars, lockVars, loadVars, leakVars
  <1> QED BY <1>1, <1>2, <1>3, <1>4, <1>5 DEF SlotStep

\* The reaper.
LEMMA DataReaper ==
  ASSUME DataOK, ReaperStep
  PROVE  DataOK'
  <1>0. Reaper \in Parties
    BY DEF Parties
  <1>1. CASE ReapPass
    <2>1. waiters' \in Seq(Parties)
      <3>1. waiters \in Seq(Parties) /\ Append(waiters, Reaper) \in Seq(Parties)
        BY <1>0, AppendProperties DEF DataOK
      <3>2. waiters' = waiters \/ waiters' = Append(waiters, Reaper)
        BY <1>1 DEF ReapPass
      <3> QED BY <3>1, <3>2
    <2>3. todo' \subseteq Slots
      BY <1>1 DEF ReapPass, BeginUnload, DataOK
    <2>2. owner' \in Parties \cup {Nobody} /\ reaper' \in {"asleep", "queued", "stopping"}
      BY <1>0, <1>1 DEF ReapPass, BeginUnload, DataOK
    <2>4. UNCHANGED <<callVars, current, age, slotVars, leakVars>>
      BY <1>1 DEF ReapPass
    <2> QED BY <1>1, <2>1, <2>2, <2>3, <2>4 DEF DataOK, callVars, slotVars, leakVars
  <1>2. CASE ReapLocked
    <2>1. Tail(waiters) \in Seq(Parties)
      BY <1>2, HeadTailProperties DEF DataOK, ReapLocked, MyTurn
    <2> QED BY <1>0, <1>2, <2>1 DEF ReapLocked, BeginUnload, DataOK, callVars, slotVars, leakVars
  <1>3. ASSUME NEW s \in Slots, StopSlot(s)
        PROVE  DataOK'
    BY <1>3 DEF StopSlot, DataOK, callVars, lockVars, leakVars
  <1>4. CASE UnloadDone
    BY <1>4 DEF UnloadDone, DataOK, callVars, leakVars
  <1> QED BY <1>1, <1>2, <1>3, <1>4 DEF ReaperStep

LEMMA DataNext == DataOK /\ [Next]_vars => DataOK'
  <1> SUFFICES ASSUME DataOK, [Next]_vars PROVE DataOK'
    OBVIOUS
  <1>1. CASE \E c \in Chats : ChatBegin(c) \/ ExternalBegin(c) \/ ChatEnd(c)
    BY <1>1, DataChat
  <1>2. CASE \E i \in Imports : ImportBegin(i) \/ ImportEnd(i)
    BY <1>2, DataImport
  <1>3. CASE JobStep
    BY <1>3, DataJob
  <1>4. CASE \E c \in Callers : CallerStep(c)
    BY <1>4, DataResume, DataStart, DataStarted DEF CallerStep
  <1>5. CASE \E s \in Slots : SlotStep(s)
    BY <1>5, DataSlot
  <1>6. CASE Tick
    BY <1>6, ResidencyAssumption
    DEF ResidencyAssumption, Tick, DataOK, callVars, lockVars, loadVars, slotVars, leakVars
  <1>7. CASE ReaperStep
    BY <1>7, DataReaper
  <1>8. CASE UNCHANGED vars
    BY <1>8 DEF vars, DataOK, callVars, lockVars, loadVars, slotVars, leakVars
  <1> QED BY <1>1, <1>2, <1>3, <1>4, <1>5, <1>6, <1>7, <1>8 DEF Next

\* Every action writes the flags with TRUE, FALSE or a conjunction of truths.
LEMMA FlagsNext == FlagsOK /\ [Next]_vars => FlagsOK'
  <1> SUFFICES ASSUME FlagsOK, [Next]_vars PROVE FlagsOK'
    OBVIOUS
  <1> USE DEF FlagsOK
  <1>1. ASSUME NEW c \in Chats, ChatBegin(c) \/ ExternalBegin(c) \/ ChatEnd(c)
        PROVE  FlagsOK'
    BY <1>1, Zenon DEF ChatBegin, EnsureLoaded, ExternalBegin, ChatEnd, loadVars, leakVars
  <1>2. ASSUME NEW i \in Imports, ImportBegin(i) \/ ImportEnd(i)
        PROVE  FlagsOK'
    BY <1>2, Zenon DEF ImportBegin, EnsureLoaded, ImportEnd, loadVars, leakVars
  <1>3. CASE JobStep
    BY <1>3, Zenon
    DEF JobStep, JobSubmit, JobRun, EnsureLoaded, JobFinish, JobCancel, JobUnwind, loadVars, leakVars
  <1>4. ASSUME NEW c \in Callers, CallerStep(c)
        PROVE  FlagsOK'
    <2>1. CASE Resume(c)
      BY <2>1, Zenon DEF Resume, leakVars
    <2>2. ASSUME NEW s \in Slots, StartNull(c, s) \/ StartSpawn(c, s) \/ StartRaises(c, s)
          PROVE  FlagsOK'
      BY <2>2, Zenon DEF StartNull, StartSpawn, StartRaises, callVars
    <2>3. CASE StartHealthy(c) \/ StartUnhealthy(c) \/ WarmDone(c)
      BY <2>3, Zenon DEF StartHealthy, StartUnhealthy, WarmDone, callVars, leakVars
    <2> QED BY <1>4, <2>1, <2>2, <2>3, Zenon DEF CallerStep
  <1>5. ASSUME NEW s \in Slots, SlotStep(s)
        PROVE  FlagsOK'
    BY <1>5, Zenon
    DEF SlotStep, Crash, WatchExit, WatchRespawn, WatchHealth, WatchForgotten,
        callVars, loadVars, leakVars
  <1>6. CASE Tick
    BY <1>6, Zenon DEF Tick, callVars, loadVars, leakVars
  <1>7. CASE ReaperStep
    BY <1>7, Zenon
    DEF ReaperStep, ReapPass, ReapLocked, BeginUnload, StopSlot, UnloadDone, callVars, leakVars
  <1>8. CASE UNCHANGED vars
    BY <1>8, Zenon DEF vars, callVars, loadVars, leakVars
  <1> QED BY <1>1, <1>2, <1>3, <1>4, <1>5, <1>6, <1>7, <1>8, Zenon DEF Next

\* Every variable keeps its type, for every number of callers and slots: no
\* interleaving of warm-ups, cancellations, restarts and unloads takes the
\* controller, the queue of its lock or a slot's record out of its range, nor
\* _restart_attempts past MAX_RESTART_ATTEMPTS.
THEOREM TypeCorrect == Spec => []TypeOK
  <1>1. Init => FlagsOK /\ DataOK
    BY DataInit, FlagsInit
  <1>2. FlagsOK /\ DataOK /\ [Next]_vars => (FlagsOK /\ DataOK)'
    BY DataNext, FlagsNext
  <1> QED BY <1>1, <1>2, TypeParts, PTL DEF Spec

-----------------------------------------------------------------------------
(* The lock: who holds it, and what that says of _loaded and _unloading.   *)

LEMMA LockInit == Init => LockInv
  BY ResidencyAssumption
  DEF ResidencyAssumption, Init, LockInv, NeverUnloadMidGeneration, Served, Loading, Parties, Callers

\* A step that neither takes nor releases the lock, and admits nobody.
LEMMA LockFrame ==
  ASSUME LockInv,
         UNCHANGED <<owner, loaded, unloading, reaper>>,
         \A c \in Callers : pc'[c] = "warming" <=> pc[c] = "warming",
         Served' \subseteq Served
  PROVE  LockInv'
  <1>1. Loading' <=> Loading
    BY DEF Loading
  <1>2. Resident' <=> Resident
    BY DEF Resident
  <1> QED BY <1>1, <1>2 DEF LockInv, NeverUnloadMidGeneration

\* Admission happens on a resident loadout, and leaves it resident.
LEMMA LockAdmit ==
  ASSUME DataOK, LockInv, NEW c \in Callers, pc[c] # "warming", Resident, Admit(c),
         UNCHANGED <<loaded, unloading, reaper>>
  PROVE  LockInv'
  <1>1. \A d \in Callers : pc'[d] = "warming" <=> pc[d] = "warming"
    BY DEF Admit, DataOK
  <1>2. Loading' <=> Loading
    BY DEF Loading, Admit
  <1>3. Resident'
    BY DEF Resident
  <1> QED BY <1>1, <1>2, <1>3 DEF LockInv, NeverUnloadMidGeneration, Admit

LEMMA LockBeginWarming ==
  ASSUME DataOK, LockInv, NEW c \in Callers, owner = Nobody, ~Resident, BeginWarming(c),
         UNCHANGED <<jobActive, loaded, unloading, reaper>>
  PROVE  LockInv'
  <1>1. ~unloading /\ ~loaded
    BY ResidencyAssumption DEF ResidencyAssumption, LockInv, Resident, Parties
  <1>2. \A d \in Callers : pc'[d] = "warming" <=> owner' = d
    BY ResidencyAssumption DEF ResidencyAssumption, BeginWarming, LockInv, DataOK, Parties
  <1>3. Served' \subseteq Served
    BY DEF BeginWarming, Served, DataOK, Callers
  <1>4. owner' # Reaper /\ owner # Reaper
    BY ResidencyAssumption DEF ResidencyAssumption, BeginWarming, Parties
  <1>5. Served = {}
    BY <1>1 DEF LockInv, NeverUnloadMidGeneration, Resident
  <1> QED BY <1>1, <1>2, <1>3, <1>4, <1>5 DEF LockInv, NeverUnloadMidGeneration

LEMMA LockEnsureLoaded ==
  ASSUME DataOK, LockInv, NEW c \in Callers, pc[c] \in {"out", "submitted"},
         EnsureLoaded(c), UNCHANGED jobActive
  PROVE  LockInv'
  <1>1. CASE Resident /\ Admit(c)
    BY <1>1, LockAdmit DEF EnsureLoaded
  <1>2. CASE ~Resident /\ LockFree /\ BeginWarming(c)
    BY <1>2, LockBeginWarming DEF EnsureLoaded, LockFree
  <1>3. CASE Await(c)
    <2>1. \A d \in Callers : pc'[d] = "warming" <=> pc[d] = "warming"
      BY <1>3 DEF Await, DataOK
    <2>2. Served' \subseteq Served
      BY <1>3 DEF Await, Served, DataOK, Callers
    <2> QED BY <1>3, <2>1, <2>2, LockFrame DEF Await, EnsureLoaded
  <1> QED BY <1>1, <1>2, <1>3 DEF EnsureLoaded

LEMMA LockResume ==
  ASSUME DataOK, LockInv, NEW c \in Callers, Resume(c)
  PROVE  LockInv'
  <1>1. CASE Resident /\ Admit(c)
    BY <1>1, LockAdmit DEF Resume
  <1>2. CASE ~Resident /\ BeginWarming(c)
    BY <1>2, LockBeginWarming DEF Resume, MyTurn
  <1> QED BY <1>1, <1>2 DEF Resume

\* Work that ends or begins without the lock.
LEMMA LockChat ==
  ASSUME DataOK, LockInv, NEW c \in Chats, ChatBegin(c) \/ ExternalBegin(c) \/ ChatEnd(c)
  PROVE  LockInv'
  <1>0. c \in Callers /\ c # Job
    BY ResidencyAssumption DEF ResidencyAssumption, Callers
  <1>1. CASE ChatBegin(c)
    BY <1>0, <1>1, LockEnsureLoaded DEF ChatBegin
  <1>2. CASE ExternalBegin(c) \/ ChatEnd(c)
    <2>1. \A d \in Callers : pc'[d] = "warming" <=> pc[d] = "warming"
      BY <1>2 DEF ExternalBegin, ChatEnd, DataOK
    <2>2. Served' \subseteq Served
      BY <1>0, <1>2 DEF ExternalBegin, ChatEnd, Served, DataOK, Callers
    <2> QED BY <1>2, <2>1, <2>2, LockFrame DEF ExternalBegin, ChatEnd, lockVars, loadVars
  <1> QED BY <1>1, <1>2

LEMMA LockImport ==
  ASSUME DataOK, LockInv, NEW i \in Imports, ImportBegin(i) \/ ImportEnd(i)
  PROVE  LockInv'
  <1>0. i \in Callers
    BY DEF Callers
  <1>1. CASE ImportBegin(i)
    BY <1>0, <1>1, LockEnsureLoaded DEF ImportBegin
  <1>2. CASE ImportEnd(i)
    <2>1. \A d \in Callers : pc'[d] = "warming" <=> pc[d] = "warming"
      BY <1>2 DEF ImportEnd, DataOK
    <2>2. Served' \subseteq Served
      BY <1>2 DEF ImportEnd, Served, DataOK, Callers
    <2> QED BY <1>2, <2>1, <2>2, LockFrame DEF ImportEnd, lockVars, loadVars
  <1> QED BY <1>1, <1>2

LEMMA LockJob ==
  ASSUME DataOK, LockInv, JobStep
  PROVE  LockInv'
  <1>0. Job \in Callers /\ Job \notin Chats /\ Job # Reaper /\ Job # Nobody /\ Nobody # Reaper
    BY ResidencyAssumption DEF ResidencyAssumption, Callers, Parties
  <1>1. CASE JobRun
    BY <1>0, <1>1, LockEnsureLoaded DEF JobRun
  <1>2. CASE JobSubmit \/ JobFinish \/ JobCancel
    <2>1. \A d \in Callers : pc'[d] = "warming" <=> pc[d] = "warming"
      BY <1>2 DEF JobSubmit, JobFinish, JobCancel, DataOK
    <2>2. Served' \subseteq Served
      BY <1>0, <1>2 DEF JobSubmit, JobFinish, JobCancel, Served, DataOK, Callers
    <2> QED BY <1>2, <2>1, <2>2, LockFrame DEF JobSubmit, JobFinish, JobCancel, lockVars, loadVars
  <1>3. CASE JobUnwind
    <2>1. Served' \subseteq Served
      BY <1>0, <1>3 DEF JobUnwind, Served, DataOK, Callers
    <2>2. CASE pc[Job] = "warming"
      <3>1. owner = Job /\ owner' = Nobody /\ ~loaded /\ ~unloading /\ reaper # "stopping"
        BY <1>0, <1>3, <2>2 DEF JobUnwind, LockInv, Loading
      <3>2. \A d \in Callers : pc'[d] # "warming" /\ d # Nobody
        BY <1>0, <1>3, <3>1, ResidencyAssumption
        DEF ResidencyAssumption, Parties, JobUnwind, LockInv, DataOK
      <3>3. Served = {}
        BY <3>1 DEF LockInv, NeverUnloadMidGeneration, Resident
      <3> QED BY <1>0, <1>3, <2>1, <3>1, <3>2, <3>3 DEF JobUnwind, LockInv, NeverUnloadMidGeneration, Loading
    <2>3. CASE pc[Job] # "warming"
      <3>1. \A d \in Callers : pc'[d] = "warming" <=> pc[d] = "warming"
        BY <1>3, <2>3 DEF JobUnwind, DataOK
      <3> QED BY <1>3, <2>1, <2>3, <3>1, LockFrame DEF JobUnwind
    <2> QED BY <2>2, <2>3
  <1> QED BY <1>1, <1>2, <1>3 DEF JobStep

\* start_all and what ends it.
LEMMA LockStart ==
  ASSUME DataOK, LockInv, NEW c \in Callers, NEW s \in Slots,
         StartNull(c, s) \/ StartSpawn(c, s) \/ StartRaises(c, s)
  PROVE  LockInv'
  <1>1. CASE StartNull(c, s) \/ StartSpawn(c, s)
    <2>1. UNCHANGED <<pc, jobActive, owner, loaded, unloading, reaper>>
      BY <1>1 DEF StartNull, StartSpawn, callVars, lockVars
    <2>2. Served' \subseteq Served
      BY <2>1 DEF Served
    <2> QED BY <2>1, <2>2, LockFrame
  <1>2. CASE StartRaises(c, s)
    <2>1. owner = c /\ owner' = Nobody /\ Nobody \notin Callers /\ Reaper \notin Callers /\ Nobody # Reaper
      BY <1>2, ResidencyAssumption DEF ResidencyAssumption, StartRaises, Warming, Parties
    <2>2. ~loaded /\ ~unloading /\ reaper # "stopping"
      BY <2>1 DEF LockInv, Loading
    <2>3. \A d \in Callers : pc'[d] # "warming"
      BY <1>2, <2>1 DEF StartRaises, LockInv, DataOK
    <2>4. Served = {}
      BY <2>2 DEF LockInv, NeverUnloadMidGeneration, Resident
    <2>5. Served' \subseteq Served
      BY <1>2 DEF StartRaises, Served, DataOK, Callers
    <2> QED BY <1>2, <2>1, <2>2, <2>3, <2>4, <2>5 DEF StartRaises, LockInv, NeverUnloadMidGeneration, Loading
  <1> QED BY <1>1, <1>2

LEMMA LockStarted ==
  ASSUME DataOK, LockInv, NEW c \in Callers, StartHealthy(c) \/ StartUnhealthy(c) \/ WarmDone(c)
  PROVE  LockInv'
  <1>1. CASE StartHealthy(c) \/ StartUnhealthy(c)
    <2>1. UNCHANGED <<pc, jobActive, owner, loaded, unloading, reaper>>
      BY <1>1 DEF StartHealthy, StartUnhealthy, callVars, lockVars
    <2>2. Served' \subseteq Served
      BY <2>1 DEF Served
    <2> QED BY <2>1, <2>2, LockFrame
  <1>2. CASE WarmDone(c)
    <2>1. owner = c /\ owner' = Nobody /\ Nobody \notin Callers /\ Reaper \notin Callers /\ Nobody # Reaper
      BY <1>2, ResidencyAssumption DEF ResidencyAssumption, WarmDone, Warming, Parties
    <2>2. ~unloading /\ reaper # "stopping"
      BY <2>1 DEF LockInv
    <2>3. \A d \in Callers : pc'[d] # "warming"
      BY <1>2, <2>1 DEF WarmDone, LockInv, DataOK
    <2>4. Resident'
      BY <1>2, <2>2 DEF WarmDone, Resident
    <2> QED BY <1>2, <2>1, <2>2, <2>3, <2>4 DEF WarmDone, LockInv, NeverUnloadMidGeneration, Loading
  <1> QED BY <1>1, <1>2

\* The busy test covers everyone the loadout serves.
LEMMA IdleMeansUnserved == ~Busy => Served = {}
  BY DEF Busy, InFlight, Served

LEMMA LockBeginUnload ==
  ASSUME DataOK, LockInv, owner = Nobody, loaded, ~Busy, BeginUnload,
         UNCHANGED <<pc, jobActive, loaded>>
  PROVE  LockInv'
  <1>1. Reaper \notin Callers /\ Nobody \notin Callers
    BY ResidencyAssumption DEF ResidencyAssumption, Parties
  <1>2. Served' = {}
    BY IdleMeansUnserved DEF Served
  <1>3. unloading' /\ owner' = Reaper /\ reaper' = "stopping" /\ loaded'
    BY DEF BeginUnload
  <1>4. \A d \in Callers : pc'[d] # "warming"
    BY <1>1 DEF LockInv
  <1> QED BY <1>1, <1>2, <1>3, <1>4 DEF LockInv, NeverUnloadMidGeneration, Loading

LEMMA LockReaper ==
  ASSUME DataOK, LockInv, ReaperStep
  PROVE  LockInv'
  <1>0. Reaper \notin Callers /\ Nobody \notin Callers /\ Nobody # Reaper
    BY ResidencyAssumption DEF ResidencyAssumption, Parties
  <1>1. CASE ReapPass
    <2>1. CASE LockFree /\ BeginUnload
      BY <1>1, <2>1, LockBeginUnload DEF ReapPass, LockFree, callVars
    <2>2. CASE ~LockFree /\ reaper' = "queued" /\ UNCHANGED <<unloading, owner, todo>>
      <3>1. UNCHANGED <<pc, jobActive, owner, loaded, unloading>> /\ reaper = "asleep"
        BY <1>1, <2>2 DEF ReapPass, callVars
      <3>2. Served' = Served /\ Resident' = Resident
        BY <3>1 DEF Served, Resident
      <3> QED BY <2>2, <3>1, <3>2 DEF LockInv, NeverUnloadMidGeneration, Loading
    <2> QED BY <1>1, <2>1, <2>2 DEF ReapPass
  <1>2. CASE ReapLocked
    <2>1. CASE MayUnload /\ BeginUnload
      BY <1>2, <2>1, LockBeginUnload DEF ReapLocked, MyTurn, MayUnload, callVars
    <2>2. CASE reaper' = "asleep" /\ UNCHANGED <<unloading, owner, todo>>
      <3>1. UNCHANGED <<pc, jobActive, owner, loaded, unloading>> /\ reaper = "queued"
        BY <1>2, <2>2 DEF ReapLocked, callVars
      <3>2. Served' = Served /\ Resident' = Resident
        BY <3>1 DEF Served, Resident
      <3> QED BY <2>2, <3>1, <3>2 DEF LockInv, NeverUnloadMidGeneration, Loading
    <2> QED BY <1>2, <2>1, <2>2 DEF ReapLocked
  <1>3. ASSUME NEW s \in Slots, StopSlot(s)
        PROVE  LockInv'
    <2>1. UNCHANGED <<pc, jobActive, owner, loaded, unloading, reaper>>
      BY <1>3 DEF StopSlot, callVars, lockVars
    <2>2. Served' \subseteq Served
      BY <2>1 DEF Served
    <2> QED BY <2>1, <2>2, LockFrame
  <1>4. CASE UnloadDone
    <2>1. owner = Reaper /\ unloading /\ owner' = Nobody /\ reaper' = "asleep"
      BY <1>4 DEF UnloadDone, LockInv
    <2>2. \A d \in Callers : pc'[d] # "warming"
      BY <1>0, <1>4, <2>1 DEF UnloadDone, LockInv, callVars
    <2>3. Served = {}
      BY <2>1 DEF LockInv, NeverUnloadMidGeneration, Resident
    <2>4. Served' = {}
      BY <1>4, <2>3 DEF UnloadDone, Served, callVars
    <2> QED BY <1>0, <1>4, <2>1, <2>2, <2>4 DEF UnloadDone, LockInv, NeverUnloadMidGeneration, Loading
  <1> QED BY <1>1, <1>2, <1>3, <1>4 DEF ReaperStep

LEMMA LockNext == DataOK /\ LockInv /\ [Next]_vars => LockInv'
  <1> SUFFICES ASSUME DataOK, LockInv, [Next]_vars PROVE LockInv'
    OBVIOUS
  <1>1. CASE \E c \in Chats : ChatBegin(c) \/ ExternalBegin(c) \/ ChatEnd(c)
    BY <1>1, LockChat
  <1>2. CASE \E i \in Imports : ImportBegin(i) \/ ImportEnd(i)
    BY <1>2, LockImport
  <1>3. CASE JobStep
    BY <1>3, LockJob
  <1>4. CASE \E c \in Callers : CallerStep(c)
    BY <1>4, LockResume, LockStart, LockStarted DEF CallerStep
  <1>5. CASE ReaperStep
    BY <1>5, LockReaper
  <1>6. CASE (\E s \in Slots : SlotStep(s)) \/ Tick \/ UNCHANGED vars
    <2>1. UNCHANGED <<pc, jobActive, owner, loaded, unloading, reaper>>
      BY <1>6 DEF SlotStep, Crash, WatchExit, WatchRespawn, WatchHealth, WatchForgotten, Tick,
                  vars, callVars, lockVars, loadVars
    <2>2. Served' \subseteq Served
      BY <2>1 DEF Served
    <2> QED BY <2>1, <2>2, LockFrame
  <1> QED BY <1>1, <1>2, <1>3, <1>4, <1>5, <1>6 DEF Next

\* Whatever the number of chats, imports and slots: no chat and no live research
\* job runs on a loadout that the reaper is unloading or has unloaded, because
\* both tests of _reap_once (one before the lock, one under it) are followed by
\* no await before _unloading is set.
THEOREM NeverUnloads == Spec => []NeverUnloadMidGeneration
  <1>1. Init => DataOK /\ LockInv
    BY DataInit, LockInit
  <1>2. DataOK /\ LockInv /\ [Next]_vars => (DataOK /\ LockInv)'
    BY DataNext, LockNext
  <1>3. LockInv => NeverUnloadMidGeneration
    BY DEF LockInv
  <1> QED BY <1>1, <1>2, <1>3, PTL DEF Spec

-----------------------------------------------------------------------------
(* The slots: which llama-servers may be running in each phase.            *)

LEMMA ColdState == State = "cold" <=> ~unloading /\ ~Loading /\ ~loaded
  BY DEF State

LEMMA SlotInit == Init => SlotInv
  BY ResidencyAssumption DEF ResidencyAssumption, Init, SlotInv, StartingInv, BackendInv, QuietInv, Quiet, Loading, Parties

\* A step that changes neither phase nor backends and starts nothing on a slot
\* that was quiet.
LEMMA SlotFrame ==
  ASSUME DataOK, SlotInv,
         UNCHANGED <<loaded, unloading, owner, todo, current, backend, orphaned, haunted, interrupted>>,
         \A s \in Slots : Quiet(s) => Quiet(s)',
         \A s \in Slots : watcher'[s] \in {"backoff", "raised"} => proc'[s] # "live",
         current # Nobody => watcher'[current] = "none"
  PROVE  SlotInv'
  <1>1. (Loading' <=> Loading) /\ (unloading' <=> unloading) /\ State' = State
    BY Zenon DEF Loading, State
  <1>2. StartingInv'
    BY <1>1 DEF SlotInv, StartingInv
  <1>3. BackendInv'
    BY DEF SlotInv, BackendInv
  <1>4. ASSUME ~interrupted'
        PROVE  /\ orphaned' = {} /\ haunted' = {}
               /\ State' = "cold" => \A s \in Slots : Quiet(s)'
               /\ Loading' => \A s \in todo' \ {current'} : Quiet(s)'
               /\ unloading' => \A s \in Slots \ todo' : Quiet(s)'
    <2>1. QuietInv /\ ~interrupted
      BY <1>4 DEF SlotInv, StartingInv, BackendInv, QuietInv
    <2>2. orphaned' = {} /\ haunted' = {}
      BY <2>1 DEF QuietInv
    <2>3. State' = "cold" => \A s \in Slots : Quiet(s)'
      BY <1>1, <2>1 DEF QuietInv
    <2>4. Loading' => \A s \in todo' \ {current'} : Quiet(s)'
      BY <1>1, <2>1 DEF QuietInv, DataOK
    <2>5. ASSUME unloading', NEW s \in Slots \ todo'
          PROVE  Quiet(s)'
      <3>1. unloading /\ s \in Slots \ todo
        BY <1>1, <2>5
      <3> QED BY <2>1, <3>1 DEF QuietInv
    <2> QED BY <2>2, <2>3, <2>4, <2>5
  <1> QED BY <1>2, <1>3, <1>4 DEF SlotInv, QuietInv

LEMMA SlotUntouched ==
  ASSUME DataOK, SlotInv,
         UNCHANGED <<loaded, unloading, owner, todo, current, backend, proc, watcher,
                     orphaned, haunted, interrupted>>
  PROVE  SlotInv'
  <1>1. \A s \in Slots : Quiet(s) => Quiet(s)'
    BY DEF Quiet
  <1> QED BY <1>1, SlotFrame DEF SlotInv, StartingInv, BackendInv, QuietInv

LEMMA SlotBeginWarming ==
  ASSUME DataOK, LockInv, SlotInv, NEW c \in Callers, owner = Nobody, ~Resident, BeginWarming(c),
         UNCHANGED <<loaded, unloading, slotVars, leakVars>>
  PROVE  SlotInv'
  <1>1. ~unloading /\ ~loaded /\ ~Loading
    BY ResidencyAssumption DEF ResidencyAssumption, LockInv, Resident, Loading, Parties
  <1>2. State = "cold"
    BY <1>1, ColdState
  <1>3. Loading' /\ ~unloading' /\ current' = Nobody
    BY <1>1 DEF Loading, BeginWarming
  <1>4. State' # "cold"
    BY <1>3 DEF State
  <1>5. \A s \in Slots : Quiet(s)' <=> Quiet(s)
    BY DEF Quiet, slotVars
  <1>6. StartingInv' /\ BackendInv'
    BY <1>3, <1>5 DEF SlotInv, StartingInv, BackendInv, slotVars
  <1>7. ASSUME ~interrupted'
        PROVE  orphaned' = {} /\ haunted' = {} /\ \A s \in Slots : Quiet(s)'
    <2>1. ~interrupted
      BY <1>7, Zenon DEF leakVars
    <2> QED BY <1>2, <1>5, <2>1 DEF SlotInv, QuietInv, leakVars
  <1>8. todo' \subseteq Slots
    BY DEF BeginWarming
  <1> QED BY <1>3, <1>4, <1>6, <1>7, <1>8 DEF SlotInv, QuietInv

LEMMA SlotEnsureLoaded ==
  ASSUME DataOK, LockInv, SlotInv, NEW c \in Callers, EnsureLoaded(c)
  PROVE  SlotInv'
  <1>1. CASE Admit(c) \/ Await(c)
    BY <1>1, SlotUntouched DEF EnsureLoaded, Admit, Await, slotVars, leakVars
  <1>2. CASE ~Resident /\ LockFree /\ BeginWarming(c)
    BY <1>2, SlotBeginWarming DEF EnsureLoaded, LockFree
  <1> QED BY <1>1, <1>2 DEF EnsureLoaded

LEMMA SlotResume ==
  ASSUME DataOK, LockInv, SlotInv, NEW c \in Callers, Resume(c)
  PROVE  SlotInv'
  <1>1. CASE Admit(c)
    BY <1>1, SlotUntouched DEF Resume, Admit, slotVars, leakVars
  <1>2. CASE ~Resident /\ BeginWarming(c)
    BY <1>2, SlotBeginWarming DEF Resume, MyTurn
  <1> QED BY <1>1, <1>2 DEF Resume

LEMMA SlotJob ==
  ASSUME DataOK, LockInv, SlotInv, JobStep
  PROVE  SlotInv'
  <1>1. CASE JobSubmit \/ JobFinish \/ JobCancel
    BY <1>1, SlotUntouched DEF JobSubmit, JobFinish, JobCancel, lockVars, loadVars, slotVars, leakVars
  <1>2. CASE JobRun
    BY <1>2, SlotEnsureLoaded DEF JobRun, Callers
  <1>3. CASE JobUnwind
    <2>1. CASE pc[Job] # "warming"
      BY <1>3, <2>1, SlotUntouched DEF JobUnwind, slotVars
    <2>2. CASE pc[Job] = "warming"
      <3>1. interrupted' /\ current' = Nobody
        BY <1>3, <2>2 DEF JobUnwind
      <3>2. \A s \in Slots : Quiet(s)' <=> Quiet(s)
        BY <1>3 DEF JobUnwind, Quiet, slotVars
      <3> QED BY <1>3, <3>1, <3>2 DEF JobUnwind, SlotInv, StartingInv, BackendInv, QuietInv, slotVars
    <2> QED BY <2>1, <2>2
  <1> QED BY <1>1, <1>2, <1>3 DEF JobStep

\* Registering a backend for a slot that is still to be treated forgets nothing,
\* as long as no earlier warm-up was interrupted.
LEMMA SlotRegister ==
  ASSUME DataOK, SlotInv, NEW c \in Callers, Warming(c), NEW s \in Slots, s \in todo,
         current = Nobody, NEW k, Register(s, k)
  PROVE  /\ watcher'[s] = "none"
         /\ \A r \in Slots : r # s => backend'[r] = backend[r] /\ watcher'[r] = watcher[r]
         /\ ~interrupted => orphaned' = {} /\ haunted' = {}
  <1>1. watcher'[s] = "none" /\ \A r \in Slots : r # s => backend'[r] = backend[r] /\ watcher'[r] = watcher[r]
    BY DEF Register, DataOK
  <1>2. ASSUME ~interrupted
        PROVE  orphaned' = {} /\ haunted' = {}
    <2>1. Quiet(s) /\ orphaned = {} /\ haunted = {}
      BY <1>2, ResidencyAssumption DEF ResidencyAssumption, SlotInv, StartingInv, BackendInv, QuietInv, Loading, Warming
    <2> QED BY <2>1 DEF Register, Quiet
  <1> QED BY <1>1, <1>2

LEMMA SlotStart ==
  ASSUME DataOK, LockInv, SlotInv, NEW c \in Callers, NEW s \in Slots,
         StartNull(c, s) \/ StartSpawn(c, s) \/ StartRaises(c, s)
  PROVE  SlotInv'
  <1>0. Nobody \notin Slots /\ Loading /\ ~unloading
    BY ResidencyAssumption
    DEF ResidencyAssumption, StartNull, StartSpawn, StartRaises, Warming, Loading, LockInv
  <1>1. CASE StartNull(c, s)
    <2>1. /\ watcher'[s] = "none"
          /\ \A r \in Slots : r # s => backend'[r] = backend[r] /\ watcher'[r] = watcher[r]
          /\ ~interrupted => orphaned' = {} /\ haunted' = {}
      BY <1>1, SlotRegister DEF StartNull
    <2>2. Loading' /\ ~unloading' /\ State' # "cold"
      BY <1>0, <1>1 DEF StartNull, Loading, State, lockVars
    <2>3. Quiet(s)' /\ \A r \in Slots : r # s => Quiet(r)' = Quiet(r) /\ proc'[r] = proc[r]
      BY <1>1, <2>1 DEF StartNull, Quiet, DataOK
    <2>4. current = Nobody /\ current' = Nobody /\ todo' = todo \ {s} /\ (interrupted' <=> interrupted)
      BY <1>1 DEF StartNull
    <2>5. StartingInv'
      BY <2>4 DEF StartingInv
    <2>6. BackendInv'
      BY <2>1, <2>3 DEF SlotInv, BackendInv
    <2>7. QuietInv'
      BY <1>0, <2>1, <2>2, <2>3, <2>4 DEF SlotInv, QuietInv, DataOK
    <2> QED BY <2>5, <2>6, <2>7 DEF SlotInv
  <1>2. CASE StartSpawn(c, s)
    <2>1. /\ watcher'[s] = "none"
          /\ \A r \in Slots : r # s => backend'[r] = backend[r] /\ watcher'[r] = watcher[r]
          /\ ~interrupted => orphaned' = {} /\ haunted' = {}
      BY <1>2, SlotRegister DEF StartSpawn
    <2>2. Loading' /\ ~unloading' /\ State' # "cold"
      BY <1>0, <1>2 DEF StartSpawn, Loading, State, lockVars
    <2>3. backend'[s] = "real" /\ \A r \in Slots : r # s => Quiet(r)' = Quiet(r) /\ proc'[r] = proc[r]
      BY <1>2, <2>1 DEF StartSpawn, Register, Quiet, DataOK
    <2>4. current = Nobody /\ current' = s /\ s \in todo /\ todo' = todo /\ (interrupted' <=> interrupted)
      BY <1>2 DEF StartSpawn
    <2>5. StartingInv'
      BY <2>1, <2>2, <2>4 DEF StartingInv
    <2>6. BackendInv'
      BY <2>1, <2>3 DEF SlotInv, BackendInv
    <2>7. QuietInv'
      BY <1>0, <2>1, <2>2, <2>3, <2>4 DEF SlotInv, QuietInv, DataOK
    <2> QED BY <2>5, <2>6, <2>7 DEF SlotInv
  <1>3. CASE StartRaises(c, s)
    <2>1. /\ watcher'[s] = "none"
          /\ \A r \in Slots : r # s => backend'[r] = backend[r] /\ watcher'[r] = watcher[r]
      BY <1>3, SlotRegister DEF StartRaises
    <2>2. interrupted' /\ current' = Nobody
      BY <1>3 DEF StartRaises
    <2>3. Quiet(s)' /\ \A r \in Slots : r # s => Quiet(r)' = Quiet(r) /\ proc'[r] = proc[r]
      BY <1>3, <2>1 DEF StartRaises, Quiet, DataOK
    <2> QED BY <2>1, <2>2, <2>3 DEF SlotInv, StartingInv, BackendInv, QuietInv
  <1> QED BY <1>1, <1>2, <1>3

LEMMA SlotStarted ==
  ASSUME DataOK, LockInv, SlotInv, NEW c \in Callers, StartHealthy(c) \/ StartUnhealthy(c) \/ WarmDone(c)
  PROVE  SlotInv'
  <1>0. Loading /\ ~unloading
    BY ResidencyAssumption
    DEF ResidencyAssumption, StartHealthy, StartUnhealthy, WarmDone, Warming, Loading, LockInv
  <1>1. CASE StartHealthy(c)
    <2>1. Loading' /\ ~unloading' /\ State' # "cold" /\ current' = Nobody
      BY <1>0, <1>1 DEF StartHealthy, Loading, State, lockVars
    <2>2. current \in Slots /\ backend[current] = "real"
      BY <1>1 DEF StartHealthy, SlotInv, StartingInv, BackendInv, QuietInv, Quiet, DataOK
    <2>3. \A r \in Slots : r # current => Quiet(r)' = Quiet(r) /\ watcher'[r] = watcher[r]
      BY <1>1 DEF StartHealthy, Quiet, DataOK
    <2>4. watcher'[current] = "wait"
      BY <1>1, <2>2 DEF StartHealthy, DataOK
    <2>5. /\ current # Nobody /\ todo' = todo \ {current} /\ backend' = backend
          /\ orphaned' = orphaned /\ haunted' = haunted /\ (interrupted' <=> interrupted)
      BY <1>1 DEF StartHealthy, leakVars
    <2>6. StartingInv'
      BY <2>1 DEF StartingInv
    <2>7. \A r \in Slots : proc'[r] = proc[r]
      BY <1>1 DEF StartHealthy
    <2>8. BackendInv'
      BY <2>2, <2>3, <2>4, <2>5, <2>7 DEF SlotInv, BackendInv
    <2>9. QuietInv'
      BY <1>0, <2>1, <2>3, <2>5 DEF SlotInv, QuietInv, DataOK
    <2> QED BY <2>6, <2>8, <2>9 DEF SlotInv
  <1>2. CASE StartUnhealthy(c)
    <2>1. Loading' /\ ~unloading' /\ State' # "cold" /\ current' = Nobody
      BY <1>0, <1>2 DEF StartUnhealthy, Loading, State, lockVars
    <2>2. PICK s \in Slots : s = current /\ watcher[s] = "none"
      BY <1>2 DEF StartUnhealthy, SlotInv, StartingInv, DataOK
    <2>3. \A r \in Slots : r # s => Quiet(r)' = Quiet(r) /\ proc'[r] = proc[r]
      BY <1>2, <2>2 DEF StartUnhealthy, Quiet, DataOK
    <2>4. proc'[s] = "dead" /\ Quiet(s)'
      BY <1>2, <2>2 DEF StartUnhealthy, Quiet, DataOK
    <2>5. /\ todo' = todo \ {s} /\ backend' = backend /\ watcher' = watcher
          /\ orphaned' = orphaned /\ haunted' = haunted /\ (interrupted' <=> interrupted)
      BY <1>2, <2>2 DEF StartUnhealthy, leakVars
    <2>6. StartingInv'
      BY <2>1 DEF StartingInv
    <2>7. BackendInv'
      BY <2>3, <2>4, <2>5 DEF SlotInv, BackendInv
    <2>8. QuietInv'
      BY <1>0, <2>1, <2>2, <2>3, <2>5 DEF SlotInv, QuietInv, DataOK
    <2> QED BY <2>6, <2>7, <2>8 DEF SlotInv
  <1>3. CASE WarmDone(c)
    <2>1. ~Loading' /\ ~unloading' /\ loaded'
      BY <1>0, <1>3, ResidencyAssumption DEF ResidencyAssumption, WarmDone, Loading, Parties
    <2>2. State' # "cold" /\ current = Nobody
      BY <1>3, <2>1 DEF WarmDone, State, SlotInv, StartingInv, BackendInv, QuietInv
    <2>3. \A r \in Slots : Quiet(r)' <=> Quiet(r)
      BY <1>3 DEF WarmDone, Quiet, slotVars
    <2> QED BY <1>3, <2>1, <2>2, <2>3 DEF WarmDone, SlotInv, StartingInv, BackendInv, QuietInv, slotVars, leakVars
  <1> QED BY <1>1, <1>2, <1>3

\* A crash silences; a watcher acts only on a slot that was not quiet.
LEMMA SlotWatch ==
  ASSUME DataOK, SlotInv, NEW s \in Slots, SlotStep(s)
  PROVE  SlotInv'
  <1>1. CASE Crash(s)
    <2>1. \A r \in Slots : Quiet(r) => Quiet(r)'
      BY <1>1 DEF Crash, Quiet, DataOK
    <2>2. \A r \in Slots : proc'[r] = "live" => proc[r] = "live"
      BY <1>1 DEF Crash, DataOK
    <2> QED BY <1>1, <2>1, <2>2, SlotFrame DEF Crash, SlotInv, StartingInv, BackendInv, QuietInv, loadVars, lockVars, leakVars
  <1>2. CASE WatchExit(s) \/ WatchRespawn(s) \/ WatchHealth(s)
    <2>1. ~Quiet(s) /\ watcher[s] # "none" /\ UNCHANGED <<loadVars, lockVars, backend, leakVars>>
      BY <1>2 DEF WatchExit, WatchRespawn, WatchHealth, Quiet
    <2>2. \A r \in Slots : r # s => watcher'[r] = watcher[r] /\ proc'[r] = proc[r]
      BY <1>2 DEF WatchExit, WatchRespawn, WatchHealth, DataOK
    <2>3. watcher'[s] \in {"backoff", "raised"} => proc'[s] # "live"
      <3>1. CASE WatchRespawn(s)
        BY <2>1, <3>1 DEF WatchRespawn, SlotInv, BackendInv, DataOK
      <3>2. CASE WatchExit(s) \/ WatchHealth(s)
        BY <3>2 DEF WatchExit, WatchHealth, DataOK
      <3> QED BY <1>2, <3>1, <3>2
    <2>4. \A r \in Slots : Quiet(r) => Quiet(r)'
      BY <2>1, <2>2 DEF Quiet
    <2>5. current # Nobody => watcher'[current] = "none"
      BY <2>1, <2>2 DEF SlotInv, StartingInv, BackendInv, QuietInv, DataOK
    <2> QED BY <2>1, <2>2, <2>3, <2>4, <2>5, SlotFrame DEF SlotInv, StartingInv, BackendInv, QuietInv, loadVars, lockVars, leakVars
  <1>3. CASE WatchForgotten(s)
    BY <1>3, SlotUntouched DEF WatchForgotten, loadVars, lockVars, leakVars
  <1> QED BY <1>1, <1>2, <1>3 DEF SlotStep

LEMMA SlotBeginUnload ==
  ASSUME DataOK, LockInv, SlotInv, owner = Nobody, loaded, BeginUnload,
         UNCHANGED <<loaded, current, slotVars, leakVars>>
  PROVE  SlotInv'
  <1>1. ~Loading /\ ~Loading'
    BY ResidencyAssumption DEF ResidencyAssumption, Loading, BeginUnload, Parties
  <1>2. unloading' /\ State' # "cold"
    BY DEF BeginUnload, State
  <1>3. \A s \in Slots : Quiet(s)' <=> Quiet(s)
    BY DEF Quiet, slotVars
  <1>4. \A s \in Slots \ todo' : Quiet(s)
    BY DEF BeginUnload, SlotInv, StartingInv, BackendInv, QuietInv
  <1> QED BY <1>1, <1>2, <1>3, <1>4 DEF SlotInv, StartingInv, BackendInv, QuietInv, slotVars, leakVars

LEMMA SlotReaper ==
  ASSUME DataOK, LockInv, SlotInv, ReaperStep
  PROVE  SlotInv'
  <1>1. CASE ReapPass
    <2>1. CASE LockFree /\ BeginUnload
      BY <1>1, <2>1, SlotBeginUnload DEF ReapPass, LockFree
    <2>2. CASE UNCHANGED <<unloading, owner, todo>>
      BY <1>1, <2>2, SlotUntouched DEF ReapPass, slotVars, leakVars
    <2> QED BY <1>1, <2>1, <2>2 DEF ReapPass
  <1>2. CASE ReapLocked
    <2>1. CASE MayUnload /\ BeginUnload
      BY <1>2, <2>1, SlotBeginUnload DEF ReapLocked, MyTurn, MayUnload
    <2>2. CASE UNCHANGED <<unloading, owner, todo>>
      BY <1>2, <2>2, SlotUntouched DEF ReapLocked, slotVars, leakVars
    <2> QED BY <1>2, <2>1, <2>2 DEF ReapLocked
  <1>3. ASSUME NEW s \in Slots, StopSlot(s)
        PROVE  SlotInv'
    <2>1. ~Loading /\ ~Loading' /\ unloading /\ unloading'
      BY <1>3, ResidencyAssumption
      DEF ResidencyAssumption, StopSlot, LockInv, Loading, Parties, lockVars
    <2>2. current = Nobody /\ State' # "cold"
      BY <2>1 DEF SlotInv, StartingInv, BackendInv, QuietInv, State
    <2>3. \A r \in Slots : r # s => watcher'[r] = watcher[r] /\ proc'[r] = proc[r]
      BY <1>3 DEF StopSlot, DataOK
    <2>4. Quiet(s)'
      BY <1>3 DEF StopSlot, SlotInv, StartingInv, BackendInv, QuietInv, Quiet, DataOK
    <2>5. \A r \in Slots : Quiet(r) => Quiet(r)'
      BY <2>3, <2>4 DEF Quiet
    <2> QED BY <1>3, <2>1, <2>2, <2>3, <2>4, <2>5 DEF StopSlot, SlotInv, StartingInv, BackendInv, QuietInv, Quiet, leakVars
  <1>4. CASE UnloadDone
    <2>1. ~Loading /\ ~Loading' /\ unloading /\ ~unloading'
      BY <1>4, ResidencyAssumption
      DEF ResidencyAssumption, UnloadDone, LockInv, Loading, Parties
    <2>2. current = Nobody
      BY <2>1 DEF SlotInv, StartingInv, BackendInv, QuietInv
    <2>3. \A r \in Slots : Quiet(r)' <=> Quiet(r)
      BY <1>4 DEF UnloadDone, Quiet
    <2> QED BY <1>4, <2>1, <2>2, <2>3 DEF UnloadDone, SlotInv, StartingInv, BackendInv, QuietInv, leakVars
  <1> QED BY <1>1, <1>2, <1>3, <1>4 DEF ReaperStep

LEMMA SlotNext == DataOK /\ LockInv /\ SlotInv /\ [Next]_vars => SlotInv'
  <1> SUFFICES ASSUME DataOK, LockInv, SlotInv, [Next]_vars PROVE SlotInv'
    OBVIOUS
  <1>1. ASSUME NEW c \in Chats, ChatBegin(c) \/ ExternalBegin(c) \/ ChatEnd(c)
        PROVE  SlotInv'
    <2>1. CASE ChatBegin(c)
      BY <2>1, SlotEnsureLoaded DEF ChatBegin, Callers
    <2>2. CASE ExternalBegin(c) \/ ChatEnd(c)
      BY <2>2, SlotUntouched DEF ExternalBegin, ChatEnd, loadVars, lockVars, slotVars, leakVars
    <2> QED BY <1>1, <2>1, <2>2
  <1>2. ASSUME NEW i \in Imports, ImportBegin(i) \/ ImportEnd(i)
        PROVE  SlotInv'
    <2>1. CASE ImportBegin(i)
      BY <2>1, SlotEnsureLoaded DEF ImportBegin, Callers
    <2>2. CASE ImportEnd(i)
      BY <2>2, SlotUntouched DEF ImportEnd, loadVars, lockVars, slotVars, leakVars
    <2> QED BY <1>2, <2>1, <2>2
  <1>3. CASE JobStep
    BY <1>3, SlotJob
  <1>4. CASE \E c \in Callers : CallerStep(c)
    BY <1>4, SlotResume, SlotStart, SlotStarted DEF CallerStep
  <1>5. CASE \E s \in Slots : SlotStep(s)
    BY <1>5, SlotWatch
  <1>6. CASE ReaperStep
    BY <1>6, SlotReaper
  <1>7. CASE Tick \/ UNCHANGED vars
    BY <1>7, SlotUntouched DEF Tick, vars, loadVars, lockVars, slotVars, leakVars
  <1> QED BY <1>1, <1>2, <1>3, <1>4, <1>5, <1>6, <1>7 DEF Next

\* Unless a warm-up was interrupted, a controller that reports "cold" has no live
\* llama-server and no watcher that could bring one back, and no process was ever
\* dropped from _slots: every unload stops every slot it finds, whatever crashed,
\* restarted or failed in the meantime.
THEOREM NothingLeaks == Spec => []VramAccounted
  <1>1. Init => DataOK /\ LockInv /\ SlotInv
    BY DataInit, LockInit, SlotInit
  <1>2. DataOK /\ LockInv /\ SlotInv /\ [Next]_vars => (DataOK /\ LockInv /\ SlotInv)'
    BY DataNext, LockNext, SlotNext
  <1>3. SlotInv => VramAccounted
    BY DEF SlotInv, StartingInv, BackendInv, QuietInv, VramAccounted, Quiet
  <1> QED BY <1>1, <1>2, <1>3, PTL DEF Spec

-----------------------------------------------------------------------------
(* Residency implements ResidencyStates: each step is one of the abstract  *)
(* protocol's, seen through the reported state and the callers served.     *)

LEMMA StateWords ==
  /\ unloading => State = "idle_unloading"
  /\ ~unloading /\ Loading => State = "loading"
  /\ ~unloading /\ ~Loading /\ loaded => State = "ready"
  /\ ~unloading /\ ~Loading /\ ~loaded => State = "cold"
  BY DEF State

LEMMA AbstractInit == Init => Abstract!Init
  BY ResidencyAssumption
  DEF ResidencyAssumption, Init, Abstract!Init, State, Served, Loading, Parties, Callers

LEMMA AbstractStutter ==
  ASSUME UNCHANGED <<owner, loaded, unloading>>, Served' = Served
  PROVE  UNCHANGED Abstract!vars
  <1>1. State' = State
    BY DEF State, Loading
  <1> QED BY <1>1 DEF Abstract!vars

LEMMA AbstractAdmit ==
  ASSUME DataOK, LockInv, NEW c \in Callers, Resident, Admit(c), c = Job => jobActive,
         UNCHANGED <<jobActive, loaded, unloading>>
  PROVE  [Abstract!Next]_(Abstract!vars)
  <1>1. ~Loading /\ ~Loading' /\ loaded /\ ~unloading /\ loaded' /\ ~unloading'
    BY DEF LockInv, Resident, Loading, Admit
  <1>2. State = "ready" /\ State' = "ready"
    BY <1>1 DEF State
  <1>3. CASE c \in Chats \cup {Job}
    <2>1. Served' = Served \cup {c}
      BY <1>3, ResidencyAssumption DEF ResidencyAssumption, Admit, Served, DataOK, Callers
    <2> QED BY <1>2, <1>3, <2>1 DEF Abstract!Next, Abstract!Enter
  <1>4. CASE c \notin Chats \cup {Job}
    <2>1. Served' = Served
      BY <1>4 DEF Admit, Served, DataOK, Callers
    <2> QED BY <1>2, <2>1 DEF Abstract!vars
  <1> QED BY <1>3, <1>4

LEMMA AbstractWarm ==
  ASSUME DataOK, LockInv, NEW c \in Callers, owner = Nobody, ~Resident, BeginWarming(c),
         UNCHANGED <<jobActive, loaded, unloading>>
  PROVE  Abstract!Warm
  <1>1. ~unloading /\ ~loaded /\ ~Loading /\ ~unloading' /\ Loading'
    BY ResidencyAssumption
    DEF ResidencyAssumption, LockInv, Resident, Loading, Parties, BeginWarming
  <1>2. State = "cold" /\ State' = "loading"
    BY <1>1 DEF State
  <1>3. Served = {}
    BY <1>1 DEF LockInv, NeverUnloadMidGeneration, Resident
  <1>4. Served' \subseteq Served
    BY DEF BeginWarming, Served, DataOK, Callers
  <1> QED BY <1>2, <1>3, <1>4 DEF Abstract!Warm

LEMMA AbstractEnsureLoaded ==
  ASSUME DataOK, LockInv, NEW c \in Callers, pc[c] \in {"out", "submitted"}, EnsureLoaded(c),
         c = Job => jobActive, UNCHANGED jobActive
  PROVE  [Abstract!Next]_(Abstract!vars)
  <1>1. CASE Resident /\ Admit(c)
    BY <1>1, AbstractAdmit DEF EnsureLoaded
  <1>2. CASE ~Resident /\ LockFree /\ BeginWarming(c)
    BY <1>2, AbstractWarm DEF EnsureLoaded, LockFree, Abstract!Next
  <1>3. CASE Await(c)
    <2>1. Served' = Served
      BY <1>3 DEF Await, Served, DataOK, Callers
    <2> QED BY <1>3, <2>1, AbstractStutter DEF EnsureLoaded, Await
  <1> QED BY <1>1, <1>2, <1>3 DEF EnsureLoaded

\* A served caller leaves, on a loadout that is ready before and after.
LEMMA AbstractLeave ==
  ASSUME UNCHANGED <<owner, loaded, unloading>>, NEW c, c \in Served, Served' = Served \ {c}
  PROVE  Abstract!Leave
  <1>1. State' = State
    BY DEF State, Loading
  <1> QED BY <1>1 DEF Abstract!Leave

LEMMA AbstractCallers ==
  ASSUME DataOK, LockInv,
         \/ \E c \in Chats : ChatBegin(c) \/ ExternalBegin(c) \/ ChatEnd(c)
         \/ \E i \in Imports : ImportBegin(i) \/ ImportEnd(i)
  PROVE  [Abstract!Next]_(Abstract!vars)
  <1>1. ASSUME NEW c \in Chats, ChatBegin(c) \/ ExternalBegin(c) \/ ChatEnd(c)
        PROVE  [Abstract!Next]_(Abstract!vars)
    <2>0. c \in Callers /\ c # Job
      BY ResidencyAssumption DEF ResidencyAssumption, Callers
    <2>1. CASE ChatBegin(c)
      BY <2>0, <2>1, AbstractEnsureLoaded DEF ChatBegin
    <2>2. CASE ExternalBegin(c)
      <3>1. Served' = Served
        BY <2>0, <2>2 DEF ExternalBegin, Served, DataOK, Callers
      <3> QED BY <2>2, <3>1, AbstractStutter DEF ExternalBegin, lockVars, loadVars
    <2>3. CASE ChatEnd(c) /\ pc[c] = "using"
      <3>1. c \in Served /\ Served' = Served \ {c}
        BY <2>0, <2>3 DEF ChatEnd, Served, DataOK, Callers
      <3> QED BY <2>3, <3>1, AbstractLeave DEF ChatEnd, lockVars, loadVars, Abstract!Next
    <2>4. CASE ChatEnd(c) /\ pc[c] = "external"
      <3>1. Served' = Served
        BY <2>0, <2>4 DEF ChatEnd, Served, DataOK, Callers
      <3> QED BY <2>4, <3>1, AbstractStutter DEF ChatEnd, lockVars, loadVars
    <2> QED BY <1>1, <2>1, <2>2, <2>3, <2>4 DEF ChatEnd
  <1>2. ASSUME NEW i \in Imports, ImportBegin(i) \/ ImportEnd(i)
        PROVE  [Abstract!Next]_(Abstract!vars)
    <2>0. i \in Callers /\ i # Job /\ i \notin Chats
      BY ResidencyAssumption DEF ResidencyAssumption, Callers
    <2>1. CASE ImportBegin(i)
      BY <2>0, <2>1, AbstractEnsureLoaded DEF ImportBegin
    <2>2. CASE ImportEnd(i)
      <3>1. Served' = Served
        BY <2>0, <2>2 DEF ImportEnd, Served, DataOK, Callers
      <3> QED BY <2>2, <3>1, AbstractStutter DEF ImportEnd, lockVars, loadVars
    <2> QED BY <1>2, <2>1, <2>2
  <1> QED BY <1>1, <1>2

LEMMA AbstractJob ==
  ASSUME DataOK, LockInv, JobInv, JobStep
  PROVE  [Abstract!Next]_(Abstract!vars)
  <1>0. Job \in Callers /\ Job \notin Chats /\ Job # Nobody /\ Nobody \notin Callers
    BY ResidencyAssumption DEF ResidencyAssumption, Callers, Parties
  <1>1. CASE JobSubmit
    <2>1. Served' = Served
      BY <1>0, <1>1 DEF JobSubmit, Served, DataOK, Callers
    <2> QED BY <1>1, <2>1, AbstractStutter DEF JobSubmit, lockVars, loadVars
  <1>2. CASE JobRun
    BY <1>0, <1>2, AbstractEnsureLoaded DEF JobRun, JobInv
  <1>3. CASE JobFinish
    <2>1. Job \in Served /\ Served' = Served \ {Job}
      BY <1>0, <1>3 DEF JobFinish, Served, DataOK, Callers
    <2> QED BY <1>3, <2>1, AbstractLeave DEF JobFinish, lockVars, loadVars, Abstract!Next
  <1>4. CASE JobCancel
    <2>1. CASE pc[Job] = "using"
      <3>1. Job \in Served /\ Served' = Served \ {Job}
        BY <1>0, <1>4, <2>1 DEF JobCancel, Served, DataOK, Callers
      <3> QED BY <1>4, <3>1, AbstractLeave DEF JobCancel, lockVars, loadVars, Abstract!Next
    <2>2. CASE pc[Job] # "using"
      <3>1. Served' = Served
        BY <1>0, <1>4, <2>2 DEF JobCancel, Served, DataOK, Callers
      <3> QED BY <1>4, <3>1, AbstractStutter DEF JobCancel, lockVars, loadVars
    <2> QED BY <2>1, <2>2
  <1>5. CASE JobUnwind
    <2>1. Served' = Served
      BY <1>0, <1>5 DEF JobUnwind, Served, DataOK, Callers
    <2>2. CASE pc[Job] = "warming"
      <3>1. Loading /\ ~Loading' /\ ~unloading /\ ~unloading' /\ ~loaded /\ ~loaded'
        BY <1>0, <1>5, <2>2, ResidencyAssumption
        DEF ResidencyAssumption, JobUnwind, LockInv, Loading
      <3>2. State = "loading" /\ State' = "cold"
        BY <3>1 DEF State
      <3> QED BY <2>1, <3>2 DEF Abstract!WarmFails, Abstract!Next
    <2>3. CASE pc[Job] # "warming"
      BY <1>5, <2>1, <2>3, AbstractStutter DEF JobUnwind
    <2> QED BY <2>2, <2>3
  <1> QED BY <1>1, <1>2, <1>3, <1>4, <1>5 DEF JobStep

LEMMA AbstractWarming ==
  ASSUME DataOK, LockInv, NEW c \in Callers, CallerStep(c)
  PROVE  [Abstract!Next]_(Abstract!vars)
  <1>1. CASE Resume(c)
    <2>1. CASE Resident /\ Admit(c)
      BY <1>1, <2>1, AbstractAdmit DEF Resume
    <2>2. CASE ~Resident /\ BeginWarming(c)
      BY <1>1, <2>2, AbstractWarm DEF Resume, MyTurn, Abstract!Next
    <2> QED BY <1>1, <2>1, <2>2 DEF Resume
  <1>2. CASE StartHealthy(c) \/ StartUnhealthy(c) \/ \E s \in Slots : StartNull(c, s) \/ StartSpawn(c, s)
    <2>1. UNCHANGED <<pc, jobActive, owner, loaded, unloading>>
      BY <1>2 DEF StartHealthy, StartUnhealthy, StartNull, StartSpawn, callVars, lockVars
    <2>2. Served' = Served
      BY <2>1 DEF Served
    <2> QED BY <2>1, <2>2, AbstractStutter
  <1>3. ASSUME NEW s \in Slots, StartRaises(c, s)
        PROVE  [Abstract!Next]_(Abstract!vars)
    <2>1. Loading /\ ~Loading' /\ ~unloading /\ ~unloading' /\ ~loaded /\ ~loaded'
      BY <1>3, ResidencyAssumption
      DEF ResidencyAssumption, StartRaises, Warming, LockInv, Loading, Parties
    <2>2. State = "loading" /\ State' = "cold"
      BY <2>1 DEF State
    <2>3. Served = {}
      BY <2>1 DEF LockInv, NeverUnloadMidGeneration, Resident
    <2>4. Served' \subseteq Served
      BY <1>3 DEF StartRaises, Served, DataOK, Callers
    <2> QED BY <2>2, <2>3, <2>4 DEF Abstract!WarmFails, Abstract!Next
  <1>4. CASE WarmDone(c)
    <2>1. Loading /\ ~Loading' /\ ~unloading /\ ~unloading' /\ loaded'
      BY <1>4, ResidencyAssumption
      DEF ResidencyAssumption, WarmDone, Warming, LockInv, Loading, Parties
    <2>2. State = "loading" /\ State' = "ready"
      BY <2>1 DEF State
    <2>3. Served = {}
      BY <2>1 DEF LockInv, NeverUnloadMidGeneration, Resident
    <2>4. Served' \in SUBSET (Chats \cup {Job})
      BY DEF Served
    <2>5. Served' = Served \cup Served'
      BY <2>3
    <2> QED BY <2>2, <2>4, <2>5 DEF Abstract!WarmDone, Abstract!Next
  <1> QED BY <1>1, <1>2, <1>3, <1>4 DEF CallerStep

LEMMA AbstractReaper ==
  ASSUME DataOK, LockInv, ReaperStep
  PROVE  [Abstract!Next]_(Abstract!vars)
  <1>0. Reaper \notin Callers /\ Nobody \notin Callers /\ Nobody # Reaper
    BY ResidencyAssumption DEF ResidencyAssumption, Parties
  <1>1. ASSUME owner = Nobody, loaded, ~Busy, BeginUnload, UNCHANGED <<pc, jobActive, loaded>>
        PROVE  Abstract!Unload
    <2>1. ~Loading /\ ~unloading /\ unloading'
      BY <1>0, <1>1 DEF Loading, LockInv, BeginUnload
    <2>2. State = "ready" /\ State' = "idle_unloading"
      BY <1>1, <2>1 DEF State
    <2>3. Served = {} /\ Served' = Served
      BY <1>1, IdleMeansUnserved DEF Served
    <2> QED BY <2>2, <2>3 DEF Abstract!Unload
  <1>2. CASE (ReapPass /\ LockFree /\ BeginUnload) \/ (ReapLocked /\ MayUnload /\ BeginUnload)
    BY <1>1, <1>2 DEF ReapPass, ReapLocked, LockFree, MyTurn, MayUnload, callVars, Abstract!Next
  <1>3. CASE (ReapPass \/ ReapLocked) /\ UNCHANGED <<unloading, owner, todo>>
    <2>1. UNCHANGED <<pc, jobActive, owner, loaded, unloading>>
      BY <1>3 DEF ReapPass, ReapLocked, callVars
    <2> QED BY <2>1, AbstractStutter DEF Served
  <1>4. ASSUME NEW s \in Slots, StopSlot(s)
        PROVE  [Abstract!Next]_(Abstract!vars)
    <2>1. UNCHANGED <<pc, jobActive, owner, loaded, unloading>>
      BY <1>4 DEF StopSlot, callVars, lockVars
    <2> QED BY <2>1, AbstractStutter DEF Served
  <1>5. CASE UnloadDone
    <2>1. unloading /\ ~unloading' /\ ~Loading' /\ ~loaded'
      BY <1>0, <1>5 DEF UnloadDone, LockInv, Loading
    <2>2. State = "idle_unloading" /\ State' = "cold"
      BY <2>1 DEF State
    <2>3. Served' = Served
      BY <1>5 DEF UnloadDone, Served, callVars
    <2> QED BY <2>2, <2>3 DEF Abstract!UnloadDone, Abstract!Next
  <1> QED BY <1>2, <1>3, <1>4, <1>5 DEF ReaperStep, ReapPass, ReapLocked

\* Only JobSubmit takes the job to "submitted"; whoever ends it moves it on.
LEMMA JobNext == DataOK /\ JobInv /\ [Next]_vars => JobInv'
  <1> SUFFICES ASSUME DataOK, JobInv, [Next]_vars PROVE JobInv'
    OBVIOUS
  <1> USE DEF JobInv, DataOK
  <1>0. Job \in Callers /\ Job \notin Chats /\ Job \notin Imports
    BY ResidencyAssumption DEF ResidencyAssumption, Callers
  <1>2. ASSUME NEW c \in Chats \cup Imports,
               ChatBegin(c) \/ ExternalBegin(c) \/ ChatEnd(c) \/ ImportBegin(c) \/ ImportEnd(c)
        PROVE  pc'[Job] = pc[Job] /\ jobActive' = jobActive
    BY <1>0, <1>2
    DEF ChatBegin, ExternalBegin, ChatEnd, ImportBegin, ImportEnd, EnsureLoaded, Admit,
        BeginWarming, Await
  <1>3. CASE JobStep
    BY <1>0, <1>3
    DEF JobStep, JobSubmit, JobRun, JobFinish, JobCancel, JobUnwind, EnsureLoaded, Admit,
        BeginWarming, Await
  <1>4. ASSUME NEW c \in Callers, CallerStep(c)
        PROVE  JobInv'
    <2>1. CASE Resume(c)
      BY <1>0, <2>1 DEF Resume, Admit, BeginWarming
    <2>2. CASE StartHealthy(c) \/ StartUnhealthy(c) \/ \E s \in Slots : StartNull(c, s) \/ StartSpawn(c, s)
      BY <2>2 DEF StartHealthy, StartUnhealthy, StartNull, StartSpawn, callVars
    <2>3. ASSUME NEW s \in Slots, StartRaises(c, s)
          PROVE  JobInv'
      BY <1>0, <2>3 DEF StartRaises
    <2>4. CASE WarmDone(c)
      BY <1>0, <2>4 DEF WarmDone
    <2> QED BY <1>4, <2>1, <2>2, <2>3, <2>4 DEF CallerStep
  <1>5. CASE (\E s \in Slots : SlotStep(s)) \/ Tick \/ ReaperStep \/ UNCHANGED vars
    BY <1>5
    DEF SlotStep, Crash, WatchExit, WatchRespawn, WatchHealth, WatchForgotten, Tick, ReaperStep,
        ReapPass, ReapLocked, StopSlot, UnloadDone, vars, callVars
  <1> QED BY <1>2, <1>3, <1>4, <1>5 DEF Next

LEMMA AbstractNext ==
  DataOK /\ LockInv /\ JobInv /\ [Next]_vars => [Abstract!Next]_(Abstract!vars)
  <1> SUFFICES ASSUME DataOK, LockInv, JobInv, [Next]_vars
               PROVE  [Abstract!Next]_(Abstract!vars)
    OBVIOUS
  <1>1. CASE JobStep
    BY <1>1, AbstractJob
  <1>2. CASE \E c \in Callers : CallerStep(c)
    BY <1>2, AbstractWarming
  <1>3. CASE ReaperStep
    BY <1>3, AbstractReaper
  <1>4. CASE (\E s \in Slots : SlotStep(s)) \/ Tick \/ UNCHANGED vars
    <2>1. UNCHANGED <<pc, jobActive, owner, loaded, unloading>>
      BY <1>4
      DEF SlotStep, Crash, WatchExit, WatchRespawn, WatchHealth, WatchForgotten, Tick,
          vars, callVars, lockVars, loadVars
    <2> QED BY <2>1, AbstractStutter DEF Served
  <1> QED BY <1>1, <1>2, <1>3, <1>4, AbstractCallers DEF Next

\* The detailed controller implements the four-state protocol: it loads only when
\* cold, admits chats and jobs only when ready, unloads only when nobody is served,
\* and a warm-up that fails or is cancelled falls back to cold.
THEOREM Refinement == Spec => AbstractSpec
  <1>1. Init => DataOK /\ LockInv /\ JobInv
    BY DataInit, LockInit, ResidencyAssumption
    DEF ResidencyAssumption, Init, JobInv, Callers
  <1>2. DataOK /\ LockInv /\ JobInv /\ [Next]_vars => (DataOK /\ LockInv /\ JobInv)'
    BY DataNext, LockNext, JobNext
  <1>3. Init => Abstract!Init
    BY AbstractInit
  <1>4. DataOK /\ LockInv /\ JobInv /\ [Next]_vars => [Abstract!Next]_(Abstract!vars)
    BY AbstractNext
  <1> QED BY <1>1, <1>2, <1>3, <1>4, PTL DEF Spec, AbstractSpec, Abstract!Spec

-----------------------------------------------------------------------------
(* The reported slot states, and the idle timer.                           *)

\* No step writes another slot's state, and only a watcher that goes on waiting
\* for its process writes "ready".
LEMMA ReadyNext == DataOK /\ SlotInv /\ ReadyIsWatched /\ [Next]_vars => ReadyIsWatched'
  <1> SUFFICES ASSUME DataOK, SlotInv, ReadyIsWatched, [Next]_vars PROVE ReadyIsWatched'
    OBVIOUS
  <1> USE DEF ReadyIsWatched, DataOK
  <1>1. CASE UNCHANGED <<st, backend, watcher, haunted>>
    BY <1>1
  <1>2. ASSUME NEW c \in Callers, CallerStep(c)
        PROVE  ReadyIsWatched'
    <2>1. CASE Resume(c) \/ WarmDone(c)
      BY <1>1, <2>1 DEF Resume, WarmDone, slotVars, leakVars
    <2>2. ASSUME NEW s \in Slots, StartNull(c, s) \/ StartSpawn(c, s) \/ StartRaises(c, s)
          PROVE  ReadyIsWatched'
      <3>1. st'[s] # "ready" /\ \A r \in Slots : r # s => st'[r] = st[r]
        BY <2>2 DEF StartNull, StartSpawn, StartRaises
      <3>2. /\ haunted \subseteq haunted'
            /\ \A r \in Slots : r # s => backend'[r] = backend[r] /\ watcher'[r] = watcher[r]
        BY <2>2 DEF StartNull, StartSpawn, StartRaises, Register
      <3> QED BY <3>1, <3>2
    <2>3. CASE StartHealthy(c)
      <3>1. current \in Slots /\ backend[current] = "real"
        BY <2>3 DEF StartHealthy, SlotInv, BackendInv, Quiet
      <3> QED BY <2>3, <3>1 DEF StartHealthy, leakVars
    <2>4. CASE StartUnhealthy(c)
      BY <2>4 DEF StartUnhealthy, leakVars
    <2> QED BY <1>2, <2>1, <2>2, <2>3, <2>4 DEF CallerStep
  <1>3. ASSUME NEW s \in Slots, SlotStep(s)
        PROVE  ReadyIsWatched'
    <2>1. CASE Crash(s)
      BY <1>1, <2>1 DEF Crash, leakVars
    <2>2. CASE WatchExit(s)
      BY <2>2 DEF WatchExit, leakVars
    <2>3. CASE WatchRespawn(s)
      BY <2>3 DEF WatchRespawn, leakVars
    <2>4. CASE WatchHealth(s)
      <3>1. backend[s] = "real"
        BY <2>4 DEF WatchHealth, SlotInv, BackendInv, Quiet
      <3> QED BY <2>4, <3>1 DEF WatchHealth, leakVars
    <2>5. CASE WatchForgotten(s)
      BY <2>5 DEF WatchForgotten, leakVars
    <2> QED BY <1>3, <2>1, <2>2, <2>3, <2>4, <2>5 DEF SlotStep
  <1>4. CASE ReaperStep
    <2>1. CASE ReapPass \/ ReapLocked
      BY <1>1, <2>1 DEF ReapPass, ReapLocked, slotVars, leakVars
    <2>2. ASSUME NEW s \in Slots, StopSlot(s)
          PROVE  ReadyIsWatched'
      BY <2>2 DEF StopSlot, leakVars
    <2>3. CASE UnloadDone
      BY <2>3 DEF UnloadDone, leakVars
    <2> QED BY <1>4, <2>1, <2>2, <2>3 DEF ReaperStep
  <1>5. CASE \/ \E c \in Chats : ChatBegin(c) \/ ExternalBegin(c) \/ ChatEnd(c)
             \/ \E i \in Imports : ImportBegin(i) \/ ImportEnd(i)
             \/ JobStep \/ Tick \/ UNCHANGED vars
    <2>1. UNCHANGED <<slotVars, haunted>>
      BY <1>5
      DEF ChatBegin, ExternalBegin, ChatEnd, ImportBegin, ImportEnd, EnsureLoaded, JobStep,
          JobSubmit, JobRun, JobFinish, JobCancel, JobUnwind, Tick, vars, leakVars
    <2> QED BY <1>1, <2>1 DEF slotVars
  <1> QED BY <1>2, <1>3, <1>4, <1>5 DEF Next

\* A slot that reads "ready" is supervised: the watcher of the backend held by
\* _slots, or of one it forgot, is there to notice the end of the process.
THEOREM ReadySupervised == Spec => []ReadyIsWatched
  <1>1. Init => DataOK /\ LockInv /\ SlotInv /\ ReadyIsWatched
    BY DataInit, LockInit, SlotInit DEF Init, ReadyIsWatched
  <1>2. DataOK /\ LockInv /\ SlotInv /\ ReadyIsWatched /\ [Next]_vars
          => (DataOK /\ LockInv /\ SlotInv /\ ReadyIsWatched)'
    BY DataNext, LockNext, SlotNext, ReadyNext
  <1> QED BY <1>1, <1>2, PTL DEF Spec

\* Every step that takes the last chat out of flight resets the idle timer.
LEMMA DrainStep ==
  DataOK /\ [Next]_vars => (InFlight # {} /\ InFlight' = {} => age' = 0)
  <1> SUFFICES ASSUME DataOK, [Next]_vars, InFlight # {}, InFlight' = {}
               PROVE  age' = 0
    OBVIOUS
  <1> USE DEF DataOK, InFlight
  <1>0. PICK d \in Chats : pc[d] # "out" /\ pc'[d] = "out" /\ d \in Callers
    BY DEF Callers
  <1>1. ASSUME NEW c \in Chats, ChatBegin(c) \/ ExternalBegin(c) \/ ChatEnd(c)
        PROVE  age' = 0
    <2>0. c \in Callers
      BY DEF Callers
    <2>1. pc'[c] = "out" => ChatEnd(c)
      BY <1>1, <2>0 DEF ChatBegin, EnsureLoaded, Admit, BeginWarming, Await, ExternalBegin
    <2>2. ChatEnd(c)
      BY <2>1
    <2>3. \A x \in Chats : x # c => pc[x] = "out"
      BY <2>0, <2>2 DEF ChatEnd, Callers
    <2> QED BY <2>2, <2>3 DEF ChatEnd, Drain
  <1>2. ASSUME NEW c \in Callers, CallerStep(c)
        PROVE  age' = 0
    <2>1. CASE \E s \in Slots : StartRaises(c, s)
      <3>1. c = d
        BY <1>0, <2>1 DEF StartRaises
      <3>2. \A x \in Chats : x # c => pc[x] = "out"
        BY <2>1, <3>1 DEF StartRaises, Callers
      <3> QED BY <1>0, <2>1, <3>1, <3>2 DEF StartRaises, Drain
    <2>2. CASE Resume(c) \/ WarmDone(c)
      BY <1>0, <2>2 DEF Resume, Admit, BeginWarming, WarmDone
    <2>3. CASE StartHealthy(c) \/ StartUnhealthy(c) \/ \E s \in Slots : StartNull(c, s) \/ StartSpawn(c, s)
      BY <1>0, <2>3 DEF StartHealthy, StartUnhealthy, StartNull, StartSpawn, callVars
    <2> QED BY <1>2, <2>1, <2>2, <2>3 DEF CallerStep
  <1>3. ASSUME NEW i \in Imports, ImportBegin(i) \/ ImportEnd(i)
        PROVE  pc'[d] = pc[d]
    BY <1>0, <1>3, ResidencyAssumption
    DEF ResidencyAssumption, ImportBegin, ImportEnd, EnsureLoaded, Admit, BeginWarming, Await
  <1>4. CASE JobStep
    BY <1>0, <1>4, ResidencyAssumption
    DEF ResidencyAssumption, JobStep, JobSubmit, JobRun, JobFinish, JobCancel, JobUnwind,
        EnsureLoaded, Admit, BeginWarming, Await
  <1>5. CASE (\E s \in Slots : SlotStep(s)) \/ Tick \/ ReaperStep \/ UNCHANGED vars
    BY <1>0, <1>5
    DEF SlotStep, Crash, WatchExit, WatchRespawn, WatchHealth, WatchForgotten, Tick, ReaperStep,
        ReapPass, ReapLocked, StopSlot, UnloadDone, vars, callVars
  <1> QED BY <1>0, <1>1, <1>2, <1>3, <1>4, <1>5 DEF Next

\* Whatever ends the last in-flight chat (an answer, an error, a warm-up that
\* raises), the keep-alive window starts over at that very step.
THEOREM DrainRestarts == Spec => DrainRestartsTimer
  <1>1. Init => DataOK
    BY DataInit
  <1>2. DataOK /\ [Next]_vars => DataOK'
    BY DataNext
  <1>3. DataOK /\ [Next]_vars => [InFlight # {} /\ InFlight' = {} => age' = 0]_vars
    BY DrainStep
  <1> QED BY <1>1, <1>2, <1>3, PTL DEF Spec, DrainRestartsTimer

=============================================================================

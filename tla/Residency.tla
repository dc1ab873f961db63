----------------------------- MODULE Residency -----------------------------
(***************************************************************************)
(* Lazy residency of the llama-server loadout: LoadController, the part of *)
(* LlamaManager and RealBackend that starts, watches and stops the slots,  *)
(* and the two sources of "busy" (ActivityTracker and the research job).   *)
(*                                                                         *)
(* The server is one asyncio event loop, so an action here is the code     *)
(* between two awaits; everything between two awaits of one coroutine may  *)
(* interleave with the other coroutines.                                   *)
(***************************************************************************)
EXTENDS Naturals, Sequences, SequencesExt

CONSTANTS
  Chats,        \* chat and scheduled runs: counted by ActivityTracker
  Imports,      \* callers of ensure_loaded that nothing counts as busy
  Job,          \* the research job (JobManager admits one at a time)
  Reaper,       \* the idle-reaper task
  Nobody,       \* "the lock is free"
  Slots,        \* the planned slots
  KeepAlive,    \* the keep-alive window in clock ticks
  MaxRestarts   \* MAX_RESTART_ATTEMPTS of a crashed llama-server

Callers == Chats \cup Imports \cup {Job}
Parties == Callers \cup {Reaper}

ASSUME ResidencyAssumption ==
  /\ KeepAlive \in Nat \ {0}
  /\ MaxRestarts \in Nat
  /\ Chats \cap Imports = {}
  /\ Job \notin Chats \cup Imports
  /\ Reaper \notin Callers
  /\ Nobody \notin Parties \cup Slots

VARIABLES
  pc,          \* where each caller is with respect to ensure_loaded
  jobActive,   \* the job's row is queued or running (jobs.active)
  loaded,      \* LoadController._loaded
  unloading,   \* LoadController._unloading
  owner,       \* who holds LoadController._lock
  waiters,     \* the FIFO of parties awaiting it
  reaper,      \* the reaper task: asleep, waiting for the lock, stopping slots
  age,         \* clock() - _last_activity, saturating at KeepAlive
  todo,        \* slots the current start_all / shutdown has still to treat
  current,     \* the slot whose start() is waiting for /health, or Nobody
  st,          \* PlannedSlot.state, what GET /v1/system shows
  backend,     \* what LlamaManager._slots holds for the slot
  proc,        \* that backend's llama-server process
  watcher,     \* that backend's _watch task
  attempts,    \* that backend's _restart_attempts
  orphaned,    \* slots with a live process no backend refers to any more
  haunted,     \* slots whose state a forgotten backend's _watch still writes
  interrupted  \* history: a warm-up has been interrupted

callVars == <<pc, jobActive>>
lockVars == <<owner, waiters, reaper>>
loadVars == <<loaded, unloading, todo, current>>
slotVars == <<st, backend, proc, watcher, attempts>>
leakVars == <<orphaned, haunted, interrupted>>
vars == <<callVars, lockVars, loadVars, age, slotVars, leakVars>>

TypeOK ==
  /\ pc \in [Callers -> {"out", "external", "submitted", "queued", "warming", "using"}]
  /\ jobActive \in BOOLEAN
  /\ loaded \in BOOLEAN
  /\ unloading \in BOOLEAN
  /\ owner \in Parties \cup {Nobody}
  /\ waiters \in Seq(Parties)
  /\ reaper \in {"asleep", "queued", "stopping"}
  /\ age \in 0..KeepAlive
  /\ todo \subseteq Slots
  /\ current \in Slots \cup {Nobody}
  /\ st \in [Slots -> {"cold", "starting", "ready", "failed", "stopped"}]
  /\ backend \in [Slots -> {"none", "null", "real"}]
  /\ proc \in [Slots -> {"none", "live", "dead"}]
  /\ watcher \in [Slots -> {"none", "wait", "backoff", "health", "raised"}]
  /\ attempts \in [Slots -> 0..MaxRestarts]
  /\ orphaned \subseteq Slots
  /\ haunted \subseteq Slots
  /\ interrupted \in BOOLEAN

Init ==
  /\ pc = [c \in Callers |-> "out"]
  /\ jobActive = FALSE
  /\ loaded = FALSE
  /\ unloading = FALSE
  /\ owner = Nobody
  /\ waiters = <<>>
  /\ reaper = "asleep"
  /\ age = 0
  /\ todo = {}
  /\ current = Nobody
  /\ st = [s \in Slots |-> "cold"]
  /\ backend = [s \in Slots |-> "none"]
  /\ proc = [s \in Slots |-> "none"]
  /\ watcher = [s \in Slots |-> "none"]
  /\ attempts = [s \in Slots |-> 0]
  /\ orphaned = {}
  /\ haunted = {}
  /\ interrupted = FALSE

-----------------------------------------------------------------------------
(* What the code reads. *)

\* ActivityTracker: chat runs between begin() and end(), streams included.
InFlight == {c \in Chats : pc[c] # "out"}

\* Mutant: the busy test forgets the research job.
BusyChatsOnly == InFlight # {}

\* The is_busy the controller is given: an in-flight chat or an active job.
Busy == InFlight # {} \/ jobActive

\* The controller's _loading flag: set exactly while a caller holds the lock
\* across start_all().
Loading == owner \in Callers

\* LoadController.state, the four words of GET /v1/system.
State ==
  CASE unloading -> "idle_unloading"
    [] ~unloading /\ Loading -> "loading"
    [] ~unloading /\ ~Loading /\ loaded -> "ready"
    [] OTHER -> "cold"

\* Mutant: the fast path looks at _loaded alone.
ResidentIfLoaded == loaded

\* The condition ensure_loaded tests, before the lock and under it.
Resident == loaded /\ ~unloading

\* asyncio.Lock lets a newcomer in only past an empty queue; a released lock
\* goes to the head of the queue.
LockFree == owner = Nobody /\ waiters = <<>>
MyTurn(p) == owner = Nobody /\ waiters # <<>> /\ Head(waiters) = p

-----------------------------------------------------------------------------
(* ensure_loaded(): the fast path, the lock, and the re-check under it. *)

\* touch() and return: the caller goes on to route to a slot and generate.
Admit(c) ==
  /\ pc' = [pc EXCEPT ![c] = "using"]
  /\ age' = 0
  /\ UNCHANGED <<owner, todo, current>>

\* The lock is taken and the loadout is not resident: start_all() begins.
BeginWarming(c) ==
  /\ pc' = [pc EXCEPT ![c] = "warming"]
  /\ owner' = c
  /\ todo' = Slots
  /\ current' = Nobody
  /\ UNCHANGED age

Await(c) ==
  /\ pc' = [pc EXCEPT ![c] = "queued"]
  /\ waiters' = Append(waiters, c)
  /\ UNCHANGED <<owner, age, todo, current>>

EnsureLoaded(c) ==
  /\ \/ Resident /\ Admit(c) /\ UNCHANGED waiters
     \/ ~Resident /\ LockFree /\ BeginWarming(c) /\ UNCHANGED waiters
     \/ ~Resident /\ ~LockFree /\ Await(c)
  /\ UNCHANGED <<loaded, unloading, reaper, slotVars, leakVars>>

\* Mutant: no second look at _loaded once the lock is held.
ResumeBlindly(c) ==
  /\ pc[c] = "queued"
  /\ MyTurn(c)
  /\ c = Job => jobActive
  /\ waiters' = Tail(waiters)
  /\ BeginWarming(c)
  /\ UNCHANGED <<jobActive, loaded, unloading, reaper, slotVars, leakVars>>

\* The lock reaches a waiting caller, which checks again before warming. A
\* cancelled job's task sees the cancellation instead (JobUnwind).
Resume(c) ==
  /\ pc[c] = "queued"
  /\ MyTurn(c)
  /\ c = Job => jobActive
  /\ waiters' = Tail(waiters)
  /\ \/ Resident /\ Admit(c)
     \/ ~Resident /\ BeginWarming(c)
  /\ UNCHANGED <<jobActive, loaded, unloading, reaper, slotVars, leakVars>>

-----------------------------------------------------------------------------
(* Callers. *)

ChatBegin(c) ==
  /\ pc[c] = "out"
  /\ EnsureLoaded(c)
  /\ UNCHANGED jobActive

\* A chat for an external provider counts as activity and needs no slot.
ExternalBegin(c) ==
  /\ pc[c] = "out"
  /\ pc' = [pc EXCEPT ![c] = "external"]
  /\ UNCHANGED <<jobActive, lockVars, loadVars, age, slotVars, leakVars>>

\* activity.end(): the idle callbacks run when the count reaches zero, and
\* one of them is load.touch.
Drain(c) == age' = IF InFlight = {c} THEN 0 ELSE age

ChatEnd(c) ==
  /\ pc[c] \in {"using", "external"}
  /\ pc' = [pc EXCEPT ![c] = "out"]
  /\ Drain(c)
  /\ UNCHANGED <<jobActive, lockVars, loadVars, slotVars, leakVars>>

ImportBegin(i) ==
  /\ pc[i] = "out"
  /\ EnsureLoaded(i)
  /\ UNCHANGED jobActive

ImportEnd(i) ==
  /\ pc[i] = "using"
  /\ pc' = [pc EXCEPT ![i] = "out"]
  /\ UNCHANGED <<jobActive, lockVars, loadVars, age, slotVars, leakVars>>

JobSubmit ==
  /\ pc[Job] = "out"
  /\ jobActive' = TRUE
  /\ pc' = [pc EXCEPT ![Job] = "submitted"]
  /\ UNCHANGED <<lockVars, loadVars, age, slotVars, leakVars>>

\* run_job() warms the loadout before it needs the orchestrator.
JobRun ==
  /\ pc[Job] = "submitted"
  /\ EnsureLoaded(Job)
  /\ UNCHANGED jobActive

\* Done or failed. Nothing touches the idle timer here.
JobFinish ==
  /\ pc[Job] = "using"
  /\ jobActive
  /\ pc' = [pc EXCEPT ![Job] = "out"]
  /\ jobActive' = FALSE
  /\ UNCHANGED <<lockVars, loadVars, age, slotVars, leakVars>>

\* DELETE /v1/research/jobs: the row turns terminal first, and the task is
\* cancelled after it. A task that never started just disappears.
JobCancel ==
  /\ jobActive
  /\ jobActive' = FALSE
  /\ pc' = [pc EXCEPT ![Job] = IF @ = "submitted" THEN "out" ELSE @]
  /\ UNCHANGED <<lockVars, loadVars, age, slotVars, leakVars>>

\* Mutant: the lock is acquired and released by hand, without a finally.
JobUnwindKeepsLock ==
  /\ ~jobActive
  /\ pc[Job] \in {"queued", "warming", "using"}
  /\ pc' = [pc EXCEPT ![Job] = "out"]
  /\ UNCHANGED <<jobActive, lockVars, loadVars, age, slotVars, leakVars>>

\* The cancelled task unwinds: out of the queue, out of a warm-up (whose
\* finally clauses release the lock and leave _loaded FALSE), or out of a
\* step.
JobUnwind ==
  /\ ~jobActive
  /\ pc[Job] \in {"queued", "warming", "using"}
  /\ pc' = [pc EXCEPT ![Job] = "out"]
  /\ \/ /\ pc[Job] = "queued"
        /\ \E i \in DOMAIN waiters :
             waiters[i] = Job /\ waiters' = RemoveAt(waiters, i)
        /\ UNCHANGED <<owner, todo, current, interrupted>>
     \/ /\ pc[Job] = "warming"
        /\ owner' = Nobody
        /\ todo' = {}
        /\ current' = Nobody
        /\ interrupted' = TRUE
        /\ UNCHANGED waiters
     \/ /\ pc[Job] = "using"
        /\ UNCHANGED <<owner, waiters, todo, current, interrupted>>
  /\ UNCHANGED <<jobActive, reaper, loaded, unloading, age, slotVars, orphaned, haunted>>

-----------------------------------------------------------------------------
(* start_all(): the warming caller treats the planned slots one at a time; *)
(* the order of the plan is immaterial here.                               *)

\* A cancelled job makes no further progress: its next step is JobUnwind.
Warming(c) ==
  /\ owner = c
  /\ pc[c] = "warming"
  /\ c = Job => jobActive

\* _slots[slot_id] = LlamaSlot(...): whatever backend was registered before is
\* forgotten, its process and its watcher with it.
Register(s, kind) ==
  /\ backend' = [backend EXCEPT ![s] = kind]
  /\ orphaned' = IF proc[s] = "live" THEN orphaned \cup {s} ELSE orphaned
  /\ haunted' = IF watcher[s] \notin {"none", "raised"} THEN haunted \cup {s} ELSE haunted
  /\ watcher' = [watcher EXCEPT ![s] = "none"]
  /\ attempts' = [attempts EXCEPT ![s] = 0]

\* _make_backend raises: no binary or no weights. The slot is shown as failed.
StartNull(c, s) ==
  /\ Warming(c) /\ current = Nobody /\ s \in todo
  /\ Register(s, "null")
  /\ st' = [st EXCEPT ![s] = "failed"]
  /\ proc' = [proc EXCEPT ![s] = "none"]
  /\ todo' = todo \ {s}
  /\ UNCHANGED <<callVars, lockVars, loaded, unloading, current, age, interrupted>>

StartSpawn(c, s) ==
  /\ Warming(c) /\ current = Nobody /\ s \in todo
  /\ Register(s, "real")
  /\ st' = [st EXCEPT ![s] = "starting"]
  /\ proc' = [proc EXCEPT ![s] = "live"]
  /\ current' = s
  /\ UNCHANGED <<callVars, lockVars, loaded, unloading, todo, age, interrupted>>

\* create_subprocess_exec raises: the exception leaves start_all and
\* ensure_loaded, and the caller fails. Slots started before this one keep
\* their processes.
StartRaises(c, s) ==
  /\ Warming(c) /\ current = Nobody /\ s \in todo
  /\ Register(s, "real")
  /\ st' = [st EXCEPT ![s] = "starting"]
  /\ proc' = [proc EXCEPT ![s] = "none"]
  /\ pc' = [pc EXCEPT ![c] = "out"]
  /\ jobActive' = (jobActive /\ c # Job)
  /\ IF c \in Chats THEN Drain(c) ELSE UNCHANGED age
  /\ owner' = Nobody
  /\ todo' = {}
  /\ interrupted' = TRUE
  /\ UNCHANGED <<waiters, reaper, loaded, unloading, current>>

StartHealthy(c) ==
  /\ Warming(c) /\ current # Nobody /\ proc[current] = "live"
  /\ st' = [st EXCEPT ![current] = "ready"]
  /\ watcher' = [watcher EXCEPT ![current] = "wait"]
  /\ todo' = todo \ {current}
  /\ current' = Nobody
  /\ UNCHANGED <<callVars, lockVars, loaded, unloading, age, backend, proc, attempts, leakVars>>

\* HEALTH_TIMEOUT_S passed, or the process died during startup: _kill().
StartUnhealthy(c) ==
  /\ Warming(c) /\ current # Nobody
  /\ st' = [st EXCEPT ![current] = "failed"]
  /\ proc' = [proc EXCEPT ![current] = "dead"]
  /\ todo' = todo \ {current}
  /\ current' = Nobody
  /\ UNCHANGED <<callVars, lockVars, loaded, unloading, age, backend, watcher, attempts, leakVars>>

\* start_all returned, whatever the slots' fate: resident, touched, admitted.
WarmDone(c) ==
  /\ Warming(c) /\ todo = {}
  /\ loaded' = TRUE
  /\ owner' = Nobody
  /\ pc' = [pc EXCEPT ![c] = "using"]
  /\ age' = 0
  /\ UNCHANGED <<jobActive, waiters, reaper, unloading, todo, current, slotVars, leakVars>>

-----------------------------------------------------------------------------
(* RealBackend._watch(): restart on crash, with a bounded number of tries. *)

\* llama-server exits by itself.
Crash(s) ==
  /\ proc[s] = "live"
  /\ proc' = [proc EXCEPT ![s] = "dead"]
  /\ UNCHANGED <<callVars, lockVars, loadVars, age, st, backend, watcher, attempts, leakVars>>

\* process.wait() returned: back off and retry, or give up.
WatchExit(s) ==
  /\ watcher[s] = "wait" /\ proc[s] = "dead"
  /\ \/ /\ attempts[s] >= MaxRestarts
        /\ st' = [st EXCEPT ![s] = "failed"]
        /\ watcher' = [watcher EXCEPT ![s] = "none"]
        /\ UNCHANGED attempts
     \/ /\ attempts[s] < MaxRestarts
        /\ attempts' = [attempts EXCEPT ![s] = @ + 1]
        /\ st' = [st EXCEPT ![s] = "starting"]
        /\ watcher' = [watcher EXCEPT ![s] = "backoff"]
  /\ UNCHANGED <<callVars, lockVars, loadVars, age, backend, proc, leakVars>>

\* The respawn may raise, which ends the watcher task with the slot still
\* "starting".
WatchRespawn(s) ==
  /\ watcher[s] = "backoff"
  /\ \/ /\ proc' = [proc EXCEPT ![s] = "live"]
        /\ watcher' = [watcher EXCEPT ![s] = "health"]
     \/ /\ watcher' = [watcher EXCEPT ![s] = "raised"]
        /\ UNCHANGED proc
  /\ UNCHANGED <<callVars, lockVars, loadVars, age, st, backend, attempts, leakVars>>

\* Mutant: the watcher returns after one successful restart.
WatchHealthOnce(s) ==
  /\ watcher[s] = "health" /\ proc[s] = "live"
  /\ st' = [st EXCEPT ![s] = "ready"]
  /\ watcher' = [watcher EXCEPT ![s] = "none"]
  /\ UNCHANGED <<callVars, lockVars, loadVars, age, backend, proc, attempts, leakVars>>

WatchHealth(s) ==
  /\ watcher[s] = "health"
  /\ \/ /\ proc[s] = "live"
        /\ st' = [st EXCEPT ![s] = "ready"]
        /\ watcher' = [watcher EXCEPT ![s] = "wait"]
        /\ UNCHANGED proc
     \/ /\ proc' = [proc EXCEPT ![s] = "dead"]
        /\ st' = [st EXCEPT ![s] = "failed"]
        /\ watcher' = [watcher EXCEPT ![s] = "none"]
  /\ UNCHANGED <<callVars, lockVars, loadVars, age, backend, attempts, leakVars>>

\* A forgotten backend's watcher keeps restarting its own process and writes
\* the PlannedSlot it shares with the backend that replaced it.
WatchForgotten(s) ==
  /\ s \in haunted
  /\ \E v \in {"starting", "ready", "failed"} : st' = [st EXCEPT ![s] = v]
  /\ UNCHANGED <<callVars, lockVars, loadVars, age, backend, proc, watcher, attempts, leakVars>>

-----------------------------------------------------------------------------
(* The idle reaper. *)

Tick ==
  /\ age < KeepAlive
  /\ age' = age + 1
  /\ UNCHANGED <<callVars, lockVars, loadVars, slotVars, leakVars>>

\* The re-check under the lock.
MayUnload == loaded /\ ~Busy /\ age >= KeepAlive

BeginUnload ==
  /\ unloading' = TRUE
  /\ owner' = Reaper
  /\ reaper' = "stopping"
  /\ todo' = {s \in Slots : backend[s] # "none"}

\* The pre-check, made without the lock. Asking for a free lock gets it at
\* once, and nothing has changed since the pre-check; otherwise the reaper
\* joins the queue.
ReapPass ==
  /\ reaper = "asleep"
  /\ loaded /\ ~Loading /\ ~unloading /\ ~Busy /\ age >= KeepAlive
  /\ \/ LockFree /\ BeginUnload /\ UNCHANGED waiters
     \/ /\ ~LockFree
        /\ waiters' = Append(waiters, Reaper)
        /\ reaper' = "queued"
        /\ UNCHANGED <<unloading, owner, todo>>
  /\ UNCHANGED <<callVars, loaded, current, age, slotVars, leakVars>>

\* Mutant: a pass that finds the loadout in use again ends the reaper task.
ReapLockedDies ==
  /\ reaper = "queued"
  /\ MyTurn(Reaper)
  /\ waiters' = Tail(waiters)
  /\ \/ MayUnload /\ BeginUnload
     \/ ~MayUnload /\ UNCHANGED <<reaper, unloading, owner, todo>>
  /\ UNCHANGED <<callVars, loaded, current, age, slotVars, leakVars>>

ReapLocked ==
  /\ reaper = "queued"
  /\ MyTurn(Reaper)
  /\ waiters' = Tail(waiters)
  /\ \/ MayUnload /\ BeginUnload
     \/ /\ ~MayUnload
        /\ reaper' = "asleep"
        /\ UNCHANGED <<unloading, owner, todo>>
  /\ UNCHANGED <<callVars, loaded, current, age, slotVars, leakVars>>

\* backend.stop(): the watcher is cancelled, the process terminated, the state
\* overwritten. A watcher that had raised makes stop() raise before it gets to
\* that (gather swallows it); a placeholder backend stops nothing.
StopSlot(s) ==
  /\ reaper = "stopping" /\ s \in todo
  /\ todo' = todo \ {s}
  /\ IF backend[s] = "real" /\ watcher[s] # "raised"
       THEN /\ proc' = [proc EXCEPT ![s] = IF @ = "live" THEN "dead" ELSE @]
            /\ watcher' = [watcher EXCEPT ![s] = "none"]
            /\ st' = [st EXCEPT ![s] = "stopped"]
       ELSE UNCHANGED <<proc, watcher, st>>
  /\ UNCHANGED <<callVars, lockVars, loaded, unloading, current, age, backend, attempts, leakVars>>

\* shutdown() returned: _loaded is cleared and _mark_cold() resets every slot
\* that does not read "failed".
UnloadDone ==
  /\ reaper = "stopping" /\ todo = {}
  /\ loaded' = FALSE
  /\ unloading' = FALSE
  /\ owner' = Nobody
  /\ reaper' = "asleep"
  /\ st' = [s \in Slots |-> IF st[s] = "failed" THEN "failed" ELSE "cold"]
  /\ UNCHANGED <<callVars, waiters, todo, current, age, backend, proc, watcher, attempts, leakVars>>

-----------------------------------------------------------------------------
CallerStep(c) ==
  \/ Resume(c)
  \/ \E s \in Slots : StartNull(c, s) \/ StartSpawn(c, s) \/ StartRaises(c, s)
  \/ StartHealthy(c)
  \/ StartUnhealthy(c)
  \/ WarmDone(c)

JobStep == JobSubmit \/ JobRun \/ JobFinish \/ JobCancel \/ JobUnwind

SlotStep(s) ==
  \/ Crash(s)
  \/ WatchExit(s)
  \/ WatchRespawn(s)
  \/ WatchHealth(s)
  \/ WatchForgotten(s)

ReaperStep ==
  \/ ReapPass
  \/ ReapLocked
  \/ \E s \in Slots : StopSlot(s)
  \/ UnloadDone

Next ==
  \/ \E c \in Chats : ChatBegin(c) \/ ExternalBegin(c) \/ ChatEnd(c)
  \/ \E i \in Imports : ImportBegin(i) \/ ImportEnd(i)
  \/ JobStep
  \/ \E c \in Callers : CallerStep(c)
  \/ \E s \in Slots : SlotStep(s)
  \/ Tick
  \/ ReaperStep

Spec == Init /\ [][Next]_vars

\* Every await of the lifecycle code ends: starting a slot is bounded by
\* HEALTH_TIMEOUT_S, stopping one by SHUTDOWN_GRACE_S, a backoff by 30 s; the
\* lock is FIFO; the reaper wakes every REAPER_INTERVAL_S. Nothing makes a
\* generation end, a client call, or a process crash.
Fairness ==
  /\ \A c \in Callers : WF_vars(CallerStep(c))
  /\ WF_vars(JobUnwind)
  /\ \A s \in Slots : WF_vars(WatchExit(s) \/ WatchRespawn(s) \/ WatchHealth(s))
  /\ WF_vars(Tick)
  /\ WF_vars(ReaperStep)

FairSpec == Spec /\ Fairness

-----------------------------------------------------------------------------
(* Properties. *)

\* The callers the busy test protects and that are past ensure_loaded(): the
\* models they were admitted to must stay.
Served == {c \in Chats : pc[c] = "using"} \cup {j \in {Job} : pc[j] = "using" /\ jobActive}

\* No chat and no live research job ever runs on a loadout that is unloaded or
\* being unloaded ("NEVER mid-generation", load_controller.py), whatever the
\* interleaving of the two checks of _reap_once with requests and with the end
\* of a warm-up.
NeverUnloadMidGeneration == Served # {} => Resident

\* As long as no warm-up is interrupted, the controller accounts for every
\* llama-server: none is forgotten by a second start_all, and once it reports
\* "cold" no process is alive and no watcher is left that could respawn one.
VramAccounted ==
  ~interrupted =>
    /\ orphaned = {}
    /\ haunted = {}
    /\ State = "cold" =>
         \A s \in Slots : proc[s] # "live" /\ watcher[s] \in {"none", "raised"}

\* A slot reads "ready" only while the watcher of the backend that _slots holds
\* (or of one it forgot) is on its process: no ready slot is unsupervised.
ReadyIsWatched ==
  \A s \in Slots :
    st[s] = "ready" => s \in haunted \/ (backend[s] = "real" /\ watcher[s] = "wait")

\* The keep-alive timer restarts on the step that ends the last in-flight chat,
\* so it counts from when the work ended (the idle callback in app.py).
DrainRestartsTimer ==
  [][InFlight # {} /\ InFlight' = {} => age' = 0]_vars

\* Every call of ensure_loaded() ends, in admission or in an error, however the
\* warm-ups, failures, cancellations and unloads around it interleave.
EnsureLoadedReturns ==
  \A c \in Chats \cup Imports :
    pc[c] \in {"queued", "warming"} ~> pc[c] \in {"using", "out"}

\* A server left alone unloads: with no caller and no job from some time on, the
\* controller ends up cold for good (and then VramAccounted says what is free).
IdleLoadoutReleased ==
  <>[](~jobActive /\ \A c \in Callers : pc[c] = "out") => <>[](State = "cold")

\* Refuted by TLC (add it to MCResidencyLive.cfg). When the last piece of work
\* ends the keep-alive window lies ahead: the timer "measures idle time from
\* when work ENDED" (app.py). A research job is work to the busy test, and its
\* end restarts nothing.
WorkEndLeavesTheWindow ==
  [][Served # {} /\ ~Busy' => age' < KeepAlive]_vars

\* Refuted by TLC (add it to MCResidency.cfg). "cold" = nothing resident
\* (load_controller.py): no llama-server is alive. A cancelled start leaves one.
ColdMeansNothingResident ==
  State = "cold" => \A s \in Slots : proc[s] # "live"

\* The four states the controller reports are the whole of the protocol its
\* users rely on.
Abstract ==
  INSTANCE ResidencyStates WITH
    Users <- Chats \cup {Job},
    phase <- State,
    users <- Served

AbstractSpec == Abstract!Spec

-----------------------------------------------------------------------------
(* The strengthening behind the safety properties (ResidencyProofs). *)

\* Who holds the lock, in the words of each party.
LockInv ==
  /\ \A c \in Callers : pc[c] = "warming" <=> owner = c
  /\ unloading <=> owner = Reaper
  /\ reaper = "stopping" <=> owner = Reaper
  /\ Loading => ~loaded
  /\ unloading => loaded
  /\ NeverUnloadMidGeneration

\* A job whose task has yet to start was not cancelled.
JobInv == pc[Job] = "submitted" => jobActive

\* Nothing of the registered backend runs or will run again.
Quiet(s) == proc[s] # "live" /\ watcher[s] \in {"none", "raised"}

\* Only a slot that is being treated is started, and no watcher is on it yet.
StartingInv ==
  current # Nobody => Loading /\ current \in todo /\ watcher[current] = "none"

\* Only a real backend has a process or a watcher, and a watcher between two
\* processes, or one that raised there, has none alive.
BackendInv ==
  \A s \in Slots :
    /\ backend[s] # "real" => Quiet(s)
    /\ watcher[s] \in {"backoff", "raised"} => proc[s] # "live"

\* Which slots are quiet in each phase.
QuietInv ==
  ~interrupted =>
    /\ orphaned = {}
    /\ haunted = {}
    /\ State = "cold" => \A s \in Slots : Quiet(s)
    /\ Loading => \A s \in todo \ {current} : Quiet(s)
    /\ unloading => \A s \in Slots \ todo : Quiet(s)

SlotInv == StartingInv /\ BackendInv /\ QuietInv

=============================================================================

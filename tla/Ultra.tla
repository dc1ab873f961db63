------------------------------- MODULE Ultra -------------------------------
(***************************************************************************)
(* One Ultra request (modes/ultra.py) on the loadout that was planned: the *)
(* decomposition, the sub-agents on the ready workers or one by one on the *)
(* orchestrator, their time budgets, the SLAP transcript, the synthesis,   *)
(* and a client that may leave. The sub-agents' own loops are AgentLoop's. *)
(***************************************************************************)
EXTENDS Loadout, SequencesExt

CONSTANTS
  UltraOn,       \* the machines and settings with which a request is made
  MaxInvalid,    \* bound on the SLAP messages that fail their schema
  SequentialCap, \* SEQUENTIAL_MAX_SUBTASKS
  Off            \* not a transcript

ASSUME UltraAssumption ==
  /\ UltraOn \subseteq Machines \X Settings
  /\ MaxInvalid \in Nat /\ SequentialCap \in Nat \ {0}

VARIABLES
  stage,    \* "idle", "planning", "dispatch", "synthesis", "over", "left"
  parallel, \* the sub-agents run on workers
  pool,     \* free workers, first in first out
  subs,     \* the sub-tasks of the plan
  queue,    \* events and done markers on their way to the drain loop
  finished, \* markers the drain loop has counted
  told,     \* stream_events the client has
  slap,     \* slap_messages; Off: SLAP is disabled
  trace,    \* what trace_store has of the session
  invalid   \* SLAP messages that failed so far

ultraVars == <<stage, parallel, pool, subs, queue, finished, told, slap, trace, invalid>>
requestVars == <<loadoutVars, ultraVars>>

Event(kind, i) == [kind |-> kind, of |-> "", agent |-> i]
Degradation(operation, i) == [kind |-> "degraded", of |-> operation, agent |-> i]
Said(operation, i) == [operation |-> operation, task |-> i]
Waiting == [state |-> "waiting", worker |-> 0, result |-> "none", timeout |-> FALSE]

UltraIdle ==
  /\ stage = "idle" /\ parallel = FALSE
  /\ pool = <<>> /\ subs = <<>> /\ queue = <<>> /\ finished = 0 /\ told = <<>>
  /\ slap = <<>> /\ trace = <<>> /\ invalid = 0

\* The members of a finite set of numbers in their order.
InOrder(S) ==
  {s \in [1..Cardinality(S) -> S] : \A i, j \in DOMAIN s : i < j => s[i] < s[j]}

\* A request is accepted: the ready worker slots are its pool.
Begin ==
  /\ stage = "idle" /\ <<machine, settings>> \in UltraOn
  /\ started = Len(plan.slots) /\ 1 \in ready
  /\ stage' = "planning"
  /\ pool' \in InOrder(ready \cap Workers)
  /\ parallel' = (pool' # <<>>)
  /\ slap' \in {<<>>, Off}
  /\ UNCHANGED <<loadoutVars, subs, queue, finished, told, trace, invalid>>
-----------------------------------------------------------------------------
(* _record_slap: a valid message joins the transcript; for an invalid one there
   is a notice; without SLAP there is neither. *)

MayBe(valid) == valid \/ (slap # Off /\ invalid < MaxInvalid)
Recorded(message, valid) == IF slap = Off \/ ~valid THEN slap ELSE Append(slap, message)
Degraded(operation, i, valid) == IF valid THEN <<>> ELSE <<Degradation(operation, i)>>
Counted(valid) == invalid' = IF valid THEN invalid ELSE invalid + 1

\* Events of parallel sub-agents go through the queue.
Emit(events) ==
  IF parallel THEN queue' = queue \o events /\ UNCHANGED told
  ELSE told' = told \o events /\ UNCHANGED queue
-----------------------------------------------------------------------------
Cap == IF parallel THEN Len(pool) ELSE SequentialCap

\* worker_effort: one slot for all caps a high effort of the request.
Capped(high) == high /\ ~parallel

\* The executors advertise what they are; the message of one, or none, fails.
Executors == IF parallel THEN pool ELSE <<1>>
Capability(w) == Said("capability", w)
Advertised(bad) ==
  IF slap = Off THEN Off
  ELSE RemoveAt([i \in DOMAIN Executors |-> Capability(Executors[i])], bad)

\* _plan: as many sub-tasks as the model's plan has, up to the cap; a plan that
\* three attempts did not produce, or an empty one, makes the task the only one.
Plan(n, bad, high) ==
  /\ stage = "planning" /\ bad \in {0} \cup DOMAIN Executors /\ MayBe(bad = 0)
  /\ stage' = "dispatch"
  /\ subs' = [i \in 1..Min({Max({n, 1}), Cap}) |-> Waiting]
  /\ told' = <<Event("plan", 0)>>
       \o (IF n = 0 THEN <<Event("plan fallback", 0)>>
           ELSE IF n > Cap THEN <<Event("plan truncated", 0)>> ELSE <<>>)
       \o Degraded("capability", Executors[bad], bad = 0)
       \o (IF parallel THEN <<>> ELSE <<Event("sequential", 0)>>)
       \o (IF Capped(high) THEN <<Event("effort capped", 0)>> ELSE <<>>)
  /\ slap' = Advertised(bad)
  /\ Counted(bad = 0)
  /\ UNCHANGED <<loadoutVars, parallel, pool, queue, finished, trace>>

\* Tasks that the client left behind go on; a sequential run ends with it.
Dispatching == stage = "dispatch" \/ (stage = "left" /\ parallel)

\* A sub-task is assigned and its agent spawned. Workers are as many as
\* sub-tasks, so the tasks, which begin in order, do not wait for one.
Start(i, valid) ==
  /\ Dispatching /\ subs[i].state = "waiting" /\ MayBe(valid)
  /\ \A j \in 1..i - 1 : subs[j].state \in (IF parallel THEN {"running", "done"} ELSE {"done"})
  /\ parallel => pool # <<>>
  /\ subs' = [subs EXCEPT ![i].state = "running", ![i].worker = IF parallel THEN Head(pool) ELSE 1]
  /\ pool' = IF parallel THEN Tail(pool) ELSE pool
  /\ slap' = Recorded(Said("assign", i), valid)
  /\ Counted(valid)
  /\ Emit(Degraded("assign", i, valid) \o <<Event("spawn", i)>>)
  /\ UNCHANGED <<loadoutVars, stage, parallel, finished, trace>>

\* How a sub-task may end: with the worker's report, after an error or a crash,
\* or cancelled at its time budget.
Outcomes == {"ok", "failed", "timeout"}

Ended(i, outcome, valid, events) ==
  /\ Dispatching /\ subs[i].state = "running" /\ MayBe(valid)
  /\ subs' = [subs EXCEPT ![i].state = "done", ![i].timeout = (outcome = "timeout"),
                          ![i].result = IF outcome = "ok" THEN "ok" ELSE "failed"]
  /\ pool' = IF parallel THEN Append(pool, subs[i].worker) ELSE pool
  /\ slap' = Recorded(Said("result", i), valid)
  /\ Counted(valid)
  /\ Emit(events)
  /\ UNCHANGED <<loadoutVars, stage, parallel, finished, trace>>

Notices(i, outcome, valid) ==
  (IF outcome = "timeout" THEN <<Event("timeout", i)>> ELSE <<>>) \o Degraded("result", i, valid)

Marker == IF parallel THEN <<Event("marker", 0)>> ELSE <<>>

\* Mutant: the marker is put before the events it stands for.
EndMarkerFirst(i, outcome, valid) ==
  Ended(i, outcome, valid, Marker \o Notices(i, outcome, valid) \o <<Event("result", i)>>)

\* Mutant: an exception other than a timeout is not caught.
EndUncaught(i, outcome, valid) ==
  IF outcome = "failed" THEN Ended(i, outcome, TRUE, <<>>)
  ELSE Ended(i, outcome, valid, Notices(i, outcome, valid) \o <<Event("result", i)>> \o Marker)

End(i, outcome, valid) ==
  Ended(i, outcome, valid, Notices(i, outcome, valid) \o <<Event("result", i)>> \o Marker)

\* The drain loop yields an event, or counts a marker.
Drain ==
  /\ stage = "dispatch" /\ queue # <<>> /\ finished < Len(subs)
  /\ queue' = Tail(queue)
  /\ IF Head(queue).kind = "marker" THEN finished' = finished + 1 /\ UNCHANGED told
     ELSE told' = Append(told, Head(queue)) /\ UNCHANGED finished
  /\ UNCHANGED <<loadoutVars, stage, parallel, pool, subs, slap, trace, invalid>>

\* How many of the sub-agents made it.
Decision == Said("decide", Cardinality({i \in DOMAIN subs : subs[i].result = "ok"}))

\* The decision is recorded, and the transcript goes to the store.
Decide(valid) ==
  /\ stage = "dispatch" /\ MayBe(valid)
  /\ IF parallel THEN finished = Len(subs) ELSE \A i \in DOMAIN subs : subs[i].state = "done"
  /\ stage' = "synthesis"
  /\ slap' = Recorded(Decision, valid)
  /\ trace' = IF slap' = Off THEN <<>> ELSE slap'
  /\ Counted(valid)
  /\ told' = told \o Degraded("decide", 0, valid)
  /\ UNCHANGED <<loadoutVars, parallel, pool, subs, queue, finished>>

\* The answer in one voice, or an error of the backend.
Synthesize ==
  /\ stage = "synthesis"
  /\ stage' = "over"
  /\ \E done \in {"done", "error"} : told' = Append(told, Event(done, 0))
  /\ UNCHANGED <<loadoutVars, parallel, pool, subs, queue, finished, slap, trace, invalid>>

Leave ==
  /\ stage \in {"planning", "dispatch", "synthesis"}
  /\ stage' = "left"
  /\ UNCHANGED <<loadoutVars, parallel, pool, subs, queue, finished, told, slap, trace, invalid>>

\* The process ends and boots again; the transcripts are gone with it.
Reboot ==
  /\ Boot
  /\ stage' = "idle" /\ parallel' = FALSE /\ invalid' = 0 /\ finished' = 0
  /\ pool' = <<>> /\ subs' = <<>> /\ queue' = <<>> /\ told' = <<>>
  /\ slap' = <<>> /\ trace' = <<>>

UltraInit == LoadoutInit /\ UltraIdle

Warm == stage = "idle" /\ Launch /\ UNCHANGED ultraVars

RunStep ==
  \/ Drain \/ Synthesize
  \/ \E n \in 0..SequentialCap + 1, bad \in 0..SequentialCap, high \in BOOLEAN : Plan(n, bad, high)
  \/ \E valid \in BOOLEAN : Decide(valid)

SubStep(i) ==
  /\ i \in DOMAIN subs
  /\ \E valid \in BOOLEAN : Start(i, valid) \/ \E o \in Outcomes : End(i, o, valid)

UltraNext ==
  \/ Reboot \/ Warm \/ Begin \/ Leave \/ RunStep
  \/ \E i \in 1..SequentialCap : SubStep(i)

\* Completions have a timeout, sub-agents a time budget, and the client reads its
\* stream or is found to be gone.
UltraSpec ==
  UltraInit /\ [][UltraNext]_requestVars /\ WF_requestVars(RunStep) /\ \A i \in 1..SequentialCap : WF_requestVars(SubStep(i))
-----------------------------------------------------------------------------
\* When the synthesis begins, the client that stayed has for each sub-task one
\* spawn and after it one result, with one notice between them if it timed out, and
\* nothing of them is still in the queue. The transcript, if there is one, is in
\* the store; of the capability of each worker that was used, each assign, each
\* result and the decision it has exactly one or else the client has a notice that
\* it failed: a capability before the assigns of its worker, an assign before its
\* result, and the decision last, with the number of sub-tasks that made it.
\* However the sub-agents interleave, fail and time out.
ToldInFull ==
  LET at(seq, x) == {k \in DOMAIN seq : seq[k] = x}
      count(seq, x) == Cardinality(at(seq, x))
      precede(seq, x, y) == \A k \in at(seq, x), l \in at(seq, y) : k < l
      recorded(message, notice) == count(slap, message) + count(told, notice) = 1
  IN stage \in {"synthesis", "over"} =>
       /\ queue = <<>>
       /\ \A i \in DOMAIN subs :
            /\ count(told, Event("spawn", i)) = 1 /\ count(told, Event("result", i)) = 1
            /\ count(told, Event("timeout", i)) = IF subs[i].timeout THEN 1 ELSE 0
            /\ precede(told, Event("spawn", i), Event("timeout", i))
            /\ precede(told, Event("spawn", i), Event("result", i))
            /\ precede(told, Event("timeout", i), Event("result", i))
       /\ slap # Off =>
            /\ trace = slap
            /\ recorded(Decision, Degradation("decide", 0))
            /\ \A k \in DOMAIN slap : slap[k].operation = "decide" => slap[k] = Decision /\ k = Len(slap)
            /\ \A i \in DOMAIN subs :
                 LET w == subs[i].worker IN
                 /\ recorded(Capability(w), Degradation("capability", w))
                 /\ recorded(Said("assign", i), Degradation("assign", i))
                 /\ recorded(Said("result", i), Degradation("result", i))
                 /\ precede(slap, Capability(w), Said("assign", i))
                 /\ precede(slap, Said("assign", i), Said("result", i))

\* A run whose client stays ends, and every sub-agent ends, whether a client is
\* still there or not, as long as the process lives.
UltraEnds ==
  /\ stage = "planning" ~> stage \in {"over", "left", "idle"}
  /\ \A i \in 1..SequentialCap :
       (i \in DOMAIN subs /\ subs[i].state = "running" /\ parallel)
         ~> (i \notin DOMAIN subs \/ subs[i].state = "done")

=============================================================================

----------------------------- MODULE Scheduler -----------------------------
(***************************************************************************)
(* Scheduled runs: the rows of the schedules table, which survive the      *)
(* process; the Scheduler's tick loop and the run tasks it keeps in        *)
(* _running, which do not; and the requests of /v1/schedules, of which     *)
(* PATCH reads the row, awaits its body and then writes the row.           *)
(***************************************************************************)
EXTENDS Cadence, FiniteSets

CONSTANTS
  Schedules,  \* schedule ids
  Sessions,   \* session ids that the runs of one schedule draw from
  Editors,    \* PATCH requests that may be in flight at once
  Cadences,   \* the cadences clients ask for
  None        \* no session, no cadence, no request, a field not in the patch

ASSUME SchedulerAssumption ==
  /\ Cadences \subseteq Daily \cup Weekly \cup Interval
  /\ None \notin Sessions
  /\ None \notin Cadences
  /\ None \notin {"on", "off"}
  /\ None \notin [of : Schedules, seen : Cadences]

VARIABLES
  clock,    \* what the server's wall clock shows
  row,      \* "new" before the INSERT, "on" or "off" (enabled), "deleted"
  cadence,  \* the row's cadence columns
  due,      \* next_run_at - now; 0 once it has passed
  drift,    \* history: how far the wall clock was set since due was computed
  stale,    \* history: a PATCH computed due from the cadence it had read, which
            \* another PATCH had replaced by then
  run,      \* the run tasks
  table,    \* _running
  patch     \* the PATCH requests awaiting their body

rowVars == <<row, cadence, due, drift, stale>>
runVars == <<run, table>>
vars == <<clock, rowVars, runVars, patch>>

\* "launched": the task is created but not entered; "over": it is done and its
\* callback, which takes it out of _running, is still to run.
TypeOK ==
  /\ clock \in Clock
  /\ row \in [Schedules -> {"new", "on", "off", "deleted"}]
  /\ cadence \in [Schedules -> Cadences \cup {None}]
  /\ due \in [Schedules -> 0..(Week + Longest)]
  /\ drift \in [Schedules -> -1..1]
  /\ stale \in [Schedules -> BOOLEAN]
  /\ run \in [Schedules -> [Sessions -> {"none", "launched", "running", "over"}]]
  /\ table \in [Schedules -> Sessions \cup {None}]
  /\ patch \in [Editors -> [of : Schedules, seen : Cadences] \cup {None}]

Init ==
  /\ clock = 0
  /\ row = [s \in Schedules |-> "new"]
  /\ cadence = [s \in Schedules |-> None]
  /\ due = [s \in Schedules |-> 0]
  /\ drift = [s \in Schedules |-> 0]
  /\ stale = [s \in Schedules |-> FALSE]
  /\ run = [s \in Schedules |-> [n \in Sessions |-> "none"]]
  /\ table = [s \in Schedules |-> None]
  /\ patch = [e \in Editors |-> None]

Exists(s) == row[s] \in {"on", "off"}
Live(s, n) == run[s][n] \in {"launched", "running"}

-----------------------------------------------------------------------------
(* Time. *)

\* next_run_at = compute_next_run(c, now), for the schedule s; old: c was replaced.
Plan(s, c, old) ==
  /\ due' = [due EXCEPT ![s] = NextRun(c, clock)]
  /\ drift' = [drift EXCEPT ![s] = 0]
  /\ stale' = [stale EXCEPT ![s] = old]

Pass ==
  /\ clock' = (clock + 1) % Week
  /\ due' = [s \in Schedules |-> IF due[s] > 0 THEN due[s] - 1 ELSE 0]
  /\ UNCHANGED <<row, cadence, drift, stale, runVars, patch>>

\* Daylight saving time begins or ends. The stored timestamps stay; drift
\* bounds how many changes one of them outlives.
SetClock(by) ==
  /\ clock' = (clock + Week + by) % Week
  /\ drift' = [s \in Schedules |-> IF due[s] > 0 THEN drift[s] + by ELSE 0]
  /\ \A s \in Schedules : drift'[s] \in -1..1
  /\ UNCHANGED <<row, cadence, due, stale, runVars, patch>>

-----------------------------------------------------------------------------
(* Firing. *)

Due(s) == row[s] = "on" /\ due[s] = 0 /\ table[s] = None

\* uuid4: a session id no live task has.
Unused(s) == {n \in Sessions : run[s][n] = "none"}
NewSession(s) == CHOOSE n \in Unused(s) : TRUE

\* _launch, for each schedule of a set.
Launch(S) ==
  /\ \A s \in S : Unused(s) # {}
  /\ run' = [s \in Schedules |->
       IF s \in S THEN [run[s] EXCEPT ![NewSession(s)] = "launched"] ELSE run[s]]
  /\ table' = [s \in Schedules |-> IF s \in S THEN NewSession(s) ELSE table[s]]

\* Mutant: next_run_at moves on when a run is launched.
TickAdvances ==
  /\ \E s \in Schedules : Due(s)
  /\ Launch({s \in Schedules : Due(s)})
  /\ due' = [s \in Schedules |-> IF Due(s) THEN NextRun(cadence[s], clock) ELSE due[s]]
  /\ drift' = [s \in Schedules |-> IF Due(s) THEN 0 ELSE drift[s]]
  /\ UNCHANGED <<clock, row, cadence, stale, patch>>

\* tick(): one pass over the table.
Tick ==
  /\ \E s \in Schedules : Due(s)
  /\ Launch({s \in Schedules : Due(s)})
  /\ UNCHANGED <<clock, rowVars, patch>>

\* Mutant: run_now does not look for a run in flight.
RunNowBeside(s) ==
  /\ Exists(s)
  /\ Launch({s})
  /\ UNCHANGED <<clock, rowVars, patch>>

\* POST .../run: a disabled schedule may be run too.
RunNow(s) ==
  /\ Exists(s)
  /\ table[s] = None
  /\ Launch({s})
  /\ UNCHANGED <<clock, rowVars, patch>>

\* _execute, up to its await: a schedule deleted meanwhile is not run.
Execute(s, n) ==
  /\ run[s][n] = "launched"
  /\ run' = [run EXCEPT ![s][n] = IF Exists(s) THEN "running" ELSE "over"]
  /\ UNCHANGED <<clock, rowVars, table, patch>>

\* The rest of _execute, whether the run succeeded or failed.
Finish(s, n) ==
  /\ run[s][n] = "running"
  /\ run' = [run EXCEPT ![s][n] = "over"]
  /\ \/ Exists(s) /\ Plan(s, cadence[s], FALSE)
     \/ ~Exists(s) /\ UNCHANGED <<due, drift, stale>>
  /\ UNCHANGED <<clock, row, cadence, table, patch>>

\* Mutant: the callback is never added.
ForgetNever(s, n) ==
  /\ run[s][n] = "over"
  /\ run' = [run EXCEPT ![s][n] = "none"]
  /\ UNCHANGED <<clock, rowVars, table, patch>>

\* The done callback: it pops whatever _running has for the schedule.
Forget(s, n) ==
  /\ run[s][n] = "over"
  /\ run' = [run EXCEPT ![s][n] = "none"]
  /\ table' = [table EXCEPT ![s] = None]
  /\ UNCHANGED <<clock, rowVars, patch>>

-----------------------------------------------------------------------------
(* Requests. *)

Create(s, c, enabled) ==
  /\ row[s] = "new"
  /\ row' = [row EXCEPT ![s] = enabled]
  /\ cadence' = [cadence EXCEPT ![s] = c]
  /\ Plan(s, c, FALSE)
  /\ UNCHANGED <<clock, runVars, patch>>

\* PATCH: the row is read, and the body awaited.
PatchRead(e, s) ==
  /\ patch[e] = None
  /\ Exists(s)
  /\ patch' = [patch EXCEPT ![e] = [of |-> s, seen |-> cadence[s]]]
  /\ UNCHANGED <<clock, rowVars, runVars>>

\* Mutant: next_run_at is recomputed for a re-enabled schedule only.
AmendStale(s, seen, c, enabled) ==
  /\ row' = IF enabled = None THEN row ELSE [row EXCEPT ![s] = enabled]
  /\ cadence' = IF c = None THEN cadence ELSE [cadence EXCEPT ![s] = c]
  /\ IF enabled = "on"
       THEN Plan(s, IF c = None THEN seen ELSE c, c = None /\ seen # cadence[s])
       ELSE UNCHANGED <<due, drift, stale>>

\* The fields of the patch reach the row; a new cadence, or enabling, plans anew
\* from the cadence the patch or else the row as it was read.
Amend(s, seen, c, enabled) ==
  /\ row' = IF enabled = None THEN row ELSE [row EXCEPT ![s] = enabled]
  /\ cadence' = IF c = None THEN cadence ELSE [cadence EXCEPT ![s] = c]
  /\ IF c # None \/ enabled = "on"
       THEN Plan(s, IF c = None THEN seen ELSE c, c = None /\ seen # cadence[s])
       ELSE UNCHANGED <<due, drift, stale>>

\* The body is there, the row may have gone: the UPDATE then finds nothing.
PatchWrite(e) ==
  /\ patch[e] # None
  /\ patch' = [patch EXCEPT ![e] = None]
  /\ LET s == patch[e].of IN
       \/ /\ Exists(s)
          /\ \E c \in Cadences \cup {None}, enabled \in {"on", "off", None} :
               Amend(s, patch[e].seen, c, enabled)
       \/ ~Exists(s) /\ UNCHANGED rowVars
  /\ UNCHANGED <<clock, runVars>>

Delete(s) ==
  /\ Exists(s)
  /\ row' = [row EXCEPT ![s] = "deleted"]
  /\ UNCHANGED <<clock, cadence, due, drift, stale, runVars, patch>>

\* The process shuts down (its runs are cancelled and record nothing) or dies,
\* and the next one boots.
Restart ==
  /\ run' = [s \in Schedules |-> [n \in Sessions |-> "none"]]
  /\ table' = [s \in Schedules |-> None]
  /\ patch' = [e \in Editors |-> None]
  /\ UNCHANGED <<clock, rowVars>>

-----------------------------------------------------------------------------
Next ==
  \/ Pass
  \/ \E by \in {-1, 1} : SetClock(by)
  \/ Tick
  \/ \E s \in Schedules :
       \/ RunNow(s)
       \/ \E n \in Sessions : Execute(s, n) \/ Finish(s, n) \/ Forget(s, n)
       \/ \E c \in Cadences, enabled \in {"on", "off"} : Create(s, c, enabled)
       \/ Delete(s)
       \/ \E e \in Editors : PatchRead(e, s)
  \/ \E e \in Editors : PatchWrite(e)
  \/ Restart

Spec == Init /\ [][Next]_vars

\* The loop ticks every CHECK_INTERVAL_S; a run ends, as every completion is
\* under a timeout; the event loop runs what is ready. Execute is strongly fair
\* because a launched task runs in the next turn of the event loop: the process
\* does not die in every one of those turns.
Fairness ==
  /\ WF_vars(Pass)
  /\ WF_vars(Tick)
  /\ \A s \in Schedules, n \in Sessions :
       SF_vars(Execute(s, n)) /\ WF_vars(Finish(s, n)) /\ WF_vars(Forget(s, n))

FairSpec == Spec /\ Fairness

-----------------------------------------------------------------------------
(* Properties. *)

\* "A schedule with a run already in flight is SKIPPED (never overlapped)": the
\* tick loop, run-now, a delete and the late callbacks leave one live run per
\* schedule at most, and _running never loses one.
NeverOverlap ==
  \A s \in Schedules : \A m, n \in Sessions : Live(s, m) /\ Live(s, n) => m = n

\* The stored fire time is one of the row's present cadence, on the clock as it
\* was when it was computed, whichever of create, PATCH and the end of a run
\* wrote it, and in whatever order; with one exception: a PATCH that re-enables
\* while another one changes the cadence plans by the cadence it had read
\* (routers: patch_schedule), until a run ends or a PATCH plans anew.
PlanFitsCadence ==
  \A s \in Schedules :
    Exists(s) /\ due[s] > 0 /\ ~stale[s] =>
      Falls(cadence[s], (clock + due[s] - drift[s] + Week) % Week)

\* compute_next_run returns the first moment strictly ahead that falls on the
\* cadence.
FirstFall ==
  \A c \in Daily \cup Weekly \cup Interval :
    /\ NextRun(c, clock) > 0
    /\ Falls(c, (clock + NextRun(c, clock)) % Week)
    /\ c.kind # "interval" =>
         \A sooner \in 1..(NextRun(c, clock) - 1) : ~Falls(c, (clock + sooner) % Week)

\* A due schedule stays due until a run of it has ended (well or badly) or a
\* PATCH plans anew: a launch, a shutdown or a crash never uses it up.
DueUntilRun ==
  [][\A s \in Schedules : row[s] = "on" /\ due[s] = 0 /\ due'[s] # 0 =>
       \/ \E n \in Sessions : run[s][n] = "running" /\ run'[s][n] = "over"
       \/ \E e \in Editors : patch[e] # None /\ patch'[e] = None]_vars

\* An enabled schedule that is no longer edited runs again and again, through
\* failures, restarts and changes of the clock.
KeepsRunning ==
  \A s \in Schedules :
    <>[](row[s] = "on" /\ \A e \in Editors : patch[e] = None)
      => []<>(\E n \in Sessions : run[s][n] = "running")

\* Refuted by TLC (add it to MCScheduler.cfg).
\* "07:30" means 07:30 on this machine (schedules/store.py): a fire time falls on
\* the cadence on the clock as it is now.
FallsOnTheWallClock ==
  \A s \in Schedules :
    Exists(s) /\ due[s] > 0 => Falls(cadence[s], (clock + due[s]) % Week)

-----------------------------------------------------------------------------
(* The strengthening behind the safety properties (SchedulerProofs). *)

\* A row that was inserted has a cadence.
RowInv == \A s \in Schedules : row[s] # "new" => cadence[s] \in Cadences

\* _running knows every task of a schedule that is not gone.
TableInv ==
  \A s \in Schedules, n \in Sessions : run[s][n] # "none" => table[s] = n

=============================================================================

-------------------------------- MODULE Jobs --------------------------------
(***************************************************************************)
(* Deep-research jobs (research/jobs.py, research/router.py): the row each *)
(* has in SQLite, which survives the process; the asyncio task that runs   *)
(* it, which does not; the report on disk; and the server-sent event       *)
(* streams that follow a job. DELETE, the pipeline's own end, a shutdown   *)
(* and a crash race for the row's terminal state.                          *)
(***************************************************************************)
EXTENDS Naturals, Sequences

CONSTANTS
  Jobs,      \* job ids
  Clients,   \* readers of GET /v1/jobs/{id}/events
  NoJob,
  Steps      \* how many times a pipeline reports progress

ASSUME JobsAssumption == NoJob \notin Jobs /\ Steps \in Nat

VARIABLES
  row,       \* state column; "absent" before the INSERT
  step,      \* stage and percent columns, 0 for a null stage
  task,      \* the task in _tasks
  report,    \* jobs with a report file
  closing,   \* the lifespan is shutting down
  at,        \* where each stream is
  follows,   \* the job it follows
  events     \* its queue in _watchers

jobVars == <<row, step, task, report, closing>>
streamVars == <<at, follows, events>>
vars == <<row, step, task, report, closing, at, follows, events>>

Terminal == {"completed", "failed", "cancelled"}
Active == {"queued", "running"}

\* "ready": created, not yet entered; "doomed": cancelled in that state, so that
\* its body never runs; "unwinding": cancelled at one of its awaits.
TypeOK ==
  /\ row \in [Jobs -> Active \cup Terminal \cup {"absent"}]
  /\ step \in [Jobs -> 0..Steps]
  /\ task \in [Jobs -> {"none", "ready", "doomed", "running", "unwinding"}]
  /\ report \in SUBSET Jobs
  /\ closing \in BOOLEAN
  /\ at \in [Clients -> {"out", "snapshot", "live"}]
  /\ follows \in [Clients -> Jobs \cup {NoJob}]
  /\ events \in [Clients -> Seq({"running", "progress"} \cup Terminal)]

Init ==
  /\ row = [j \in Jobs |-> "absent"]
  /\ step = [j \in Jobs |-> 0]
  /\ task = [j \in Jobs |-> "none"]
  /\ report = {}
  /\ closing = FALSE
  /\ at = [c \in Clients |-> "out"]
  /\ follows = [c \in Clients |-> NoJob]
  /\ events = [c \in Clients |-> <<>>]

JobActive == \E j \in Jobs : row[j] \in Active
Unfinished(j) == task[j] # "none"

-----------------------------------------------------------------------------
(* What the handlers share. *)

Notify(j, event) ==
  /\ events' = [c \in Clients |->
       IF at[c] = "live" /\ follows[c] = j THEN Append(events[c], event) ELSE events[c]]
  /\ UNCHANGED <<at, follows>>

\* Mutant: only a completion is notified.
SettleQuietly(j, state) ==
  \/ /\ row[j] \in Terminal
     /\ UNCHANGED <<row, step, streamVars>>
  \/ /\ row[j] \notin Terminal
     /\ row' = [row EXCEPT ![j] = state]
     /\ step' = IF state = "completed" THEN [step EXCEPT ![j] = 0] ELSE step
     /\ IF state = "completed" THEN Notify(j, state) ELSE UNCHANGED streamVars

\* _set_terminal: the first caller wins.
Settle(j, state) ==
  \/ /\ row[j] \in Terminal
     /\ UNCHANGED <<row, step, streamVars>>
  \/ /\ row[j] \notin Terminal
     /\ row' = [row EXCEPT ![j] = state]
     /\ step' = IF state = "completed" THEN [step EXCEPT ![j] = 0] ELSE step
     /\ Notify(j, state)

\* task.cancel().
Cancelled(t) ==
  CASE t = "ready" -> "doomed"
    [] t = "running" -> "unwinding"
    [] OTHER -> t

-----------------------------------------------------------------------------
(* The job. *)

\* Mutant: only the rows are checked.
SubmitBesideUnwind(j) ==
  /\ ~closing
  /\ row[j] = "absent"
  /\ ~JobActive
  /\ row' = [row EXCEPT ![j] = "queued"]
  /\ task' = [task EXCEPT ![j] = "ready"]
  /\ UNCHANGED <<step, report, closing, streamVars>>

Submit(j) ==
  /\ ~closing
  /\ row[j] = "absent"
  /\ ~JobActive
  /\ \A k \in Jobs : ~Unfinished(k)
  /\ row' = [row EXCEPT ![j] = "queued"]
  /\ task' = [task EXCEPT ![j] = "ready"]
  /\ UNCHANGED <<step, report, closing, streamVars>>

Start(j) ==
  /\ task[j] = "ready"
  /\ task' = [task EXCEPT ![j] = "running"]
  /\ row' = [row EXCEPT ![j] = "running"]
  /\ Notify(j, "running")
  /\ UNCHANGED <<step, report, closing>>

\* Mutant: a cancelled pipeline keeps reporting.
ProgressWhileUnwinding(j) ==
  /\ task[j] \in {"running", "unwinding"}
  /\ step[j] < Steps
  /\ step' = [step EXCEPT ![j] = @ + 1]
  /\ Notify(j, "progress")
  /\ UNCHANGED <<row, task, report, closing>>

Progress(j) ==
  /\ task[j] = "running"
  /\ step[j] < Steps
  /\ step' = [step EXCEPT ![j] = @ + 1]
  /\ Notify(j, "progress")
  /\ UNCHANGED <<row, task, report, closing>>

Complete(j) ==
  /\ task[j] = "running"
  /\ report' = report \cup {j}
  /\ Settle(j, "completed")
  /\ task' = [task EXCEPT ![j] = "none"]
  /\ UNCHANGED closing

Fail(j) ==
  /\ task[j] = "running"
  /\ Settle(j, "failed")
  /\ task' = [task EXCEPT ![j] = "none"]
  /\ UNCHANGED <<report, closing>>

\* DELETE: the row first, then the task. The handler goes on to wait for the
\* unwind, for a bounded time; nothing depends on how that ends.
Delete(j) ==
  /\ ~closing
  /\ row[j] \in Active
  /\ Settle(j, "cancelled")
  /\ task' = [task EXCEPT ![j] = Cancelled(@)]
  /\ UNCHANGED <<report, closing>>

\* The cancelled pipeline ends, by CancelledError or by an error on the way out.
Unwind(j) ==
  /\ task[j] = "unwinding"
  /\ \E state \in {"cancelled", "failed"} : Settle(j, state)
  /\ task' = [task EXCEPT ![j] = "none"]
  /\ UNCHANGED <<report, closing>>

Vanish(j) ==
  /\ task[j] = "doomed"
  /\ task' = [task EXCEPT ![j] = "none"]
  /\ UNCHANGED <<row, step, report, closing, streamVars>>

-----------------------------------------------------------------------------
(* The streams. *)

\* The row is read before the snapshot is sent and the queue joins _watchers
\* after it: the sends between the two are awaits.
Open(c, j) ==
  /\ ~closing
  /\ at[c] = "out"
  /\ row[j] \in Active
  /\ at' = [at EXCEPT ![c] = "snapshot"]
  /\ follows' = [follows EXCEPT ![c] = j]
  /\ UNCHANGED <<events, jobVars>>

Subscribe(c) ==
  /\ at[c] = "snapshot"
  /\ at' = [at EXCEPT ![c] = "live"]
  /\ UNCHANGED <<follows, events, jobVars>>

Close(c) ==
  /\ at' = [at EXCEPT ![c] = "out"]
  /\ follows' = [follows EXCEPT ![c] = NoJob]
  /\ events' = [events EXCEPT ![c] = <<>>]

Deliver(c) ==
  /\ at[c] = "live"
  /\ events[c] # <<>>
  /\ \/ Head(events[c]) \in Terminal /\ Close(c)
     \/ /\ Head(events[c]) \notin Terminal
        /\ events' = [events EXCEPT ![c] = Tail(@)]
        /\ UNCHANGED <<at, follows>>
  /\ UNCHANGED jobVars

Leave(c) ==
  /\ at[c] # "out"
  /\ Close(c)
  /\ UNCHANGED jobVars

-----------------------------------------------------------------------------
(* The process. *)

\* The server has closed its connections when the lifespan ends.
Hangup ==
  /\ at' = [c \in Clients |-> "out"]
  /\ follows' = [c \in Clients |-> NoJob]
  /\ events' = [c \in Clients |-> <<>>]

Shutdown ==
  /\ ~closing
  /\ closing' = TRUE
  /\ task' = [j \in Jobs |-> Cancelled(task[j])]
  /\ Hangup
  /\ UNCHANGED <<row, step, report>>

\* startup(): what a dead process left queued or running has failed.
Boot ==
  /\ row' = [j \in Jobs |-> IF row[j] \in Active THEN "failed" ELSE row[j]]
  /\ task' = [j \in Jobs |-> "none"]
  /\ closing' = FALSE
  /\ Hangup
  /\ UNCHANGED step

\* The process ends, at any moment or after a shutdown, and the next one boots.
Restart == Boot /\ UNCHANGED report

\* Mutant: the row is updated before the report is written.
CrashBeforeReport(j) ==
  /\ task[j] = "running"
  /\ row' = [row EXCEPT ![j] = "completed"]
  /\ task' = [k \in Jobs |-> "none"]
  /\ closing' = FALSE
  /\ Hangup
  /\ UNCHANGED <<step, report>>

\* It ends between the report and the row's last update.
CrashAfterReport(j) ==
  /\ task[j] = "running"
  /\ report' = report \cup {j}
  /\ Boot

-----------------------------------------------------------------------------
Next ==
  \/ \E j \in Jobs :
       \/ Submit(j) \/ Start(j) \/ Progress(j) \/ Complete(j) \/ Fail(j)
       \/ Delete(j) \/ Unwind(j) \/ Vanish(j) \/ CrashAfterReport(j)
  \/ \E c \in Clients :
       \/ \E j \in Jobs : Open(c, j)
       \/ Subscribe(c) \/ Deliver(c) \/ Leave(c)
  \/ Shutdown \/ Restart

Spec == Init /\ [][Next]_vars

\* The event loop runs what is ready and sends what is queued; each completion of
\* the pipeline, and each page it fetches, is under a timeout, so it ends. Nobody
\* has to submit, delete, leave or stop the process.
Fairness ==
  /\ \A j \in Jobs :
       /\ WF_vars(Start(j)) /\ WF_vars(Vanish(j)) /\ WF_vars(Unwind(j))
       /\ WF_vars(Complete(j) \/ Fail(j))
  /\ \A c \in Clients : WF_vars(Subscribe(c)) /\ WF_vars(Deliver(c))

FairSpec == Spec /\ Fairness

-----------------------------------------------------------------------------
(* Properties. *)

\* One job at a time: whatever DELETEs time out, at most one pipeline drives the
\* orchestrator, and no row is queued or running beside it (submit's two checks).
OneJobAtATime ==
  \A i, j \in Jobs :
    (row[i] \in Active \/ Unfinished(i)) /\ (row[j] \in Active \/ Unfinished(j)) => i = j

\* "a job that already finished keeps its truthful terminal state": no later
\* cancel, unwinding task, shutdown or restart rewrites a finished row.
TerminalIsFinal ==
  [][\A j \in Jobs : row[j] \in Terminal => row'[j] = row[j] /\ step'[j] = step[j]]_vars

\* A completed job has its report, through every crash, and a cancelled one none.
ReportsMatchRows ==
  \A j \in Jobs :
    /\ row[j] = "completed" => j \in report
    /\ row[j] = "cancelled" => j \notin report

\* On a subscribed stream the terminal state is the last event queued, and it is
\* the row's: nothing a cancelled pipeline still does shows after it.
NothingAfterTheEnd ==
  \A c \in Clients : \A i \in DOMAIN events[c] :
    events[c][i] \in Terminal => i = Len(events[c]) /\ row[follows[c]] = events[c][i]

\* A stream that subscribed while its job was active closes (_set_terminal's
\* notification reaches it, behind what is queued).
FollowedToTheEnd ==
  \A c \in Clients :
    at[c] = "live" /\ (\E j \in Jobs : follows[c] = j /\ row[j] \in Active) ~> at[c] = "out"

\* Refuted by TLC (add it to MCDeferredApply.cfg).
\* "the stream closes after a terminal state" (docs/research.md:38), for a stream
\* opened on an active job, whenever the job ends.
StreamCloses == \A c \in Clients : at[c] # "out" ~> at[c] = "out"

=============================================================================

------------------------- MODULE DeferredApplyProofs -------------------------
(***************************************************************************)
(* Theorems about the research jobs, for every set of jobs and of clients, *)
(* and about the settings that are deferred while one of them runs, for    *)
(* every set of keys and values.                                           *)
(***************************************************************************)
EXTENDS DeferredApply, SequenceTheorems, TLAPS

(***************************************************************************)
(* The jobs by themselves: Spec of Jobs.                                   *)
(***************************************************************************)

\* A task that may still act agrees with its row, and a report belongs to a row
\* that is done with.
Owned ==
  \A j \in Jobs :
    /\ task[j] = "ready" => row[j] = "queued"
    /\ task[j] = "running" => row[j] = "running"
    /\ j \in report => row[j] \in Terminal

\* Only a subscribed stream has a queue.
Unqueued == \A c \in Clients : at[c] # "live" => events[c] = <<>>

EventsMatchRows ==
  \A c \in Clients : \A i \in DOMAIN events[c] :
    events[c][i] \in Terminal =>
      follows[c] \in Jobs /\ i = Len(events[c]) /\ row[follows[c]] = events[c][i]

-----------------------------------------------------------------------------
(* Types. *)

EventKinds == {"running", "progress"} \cup Terminal

LEMMA NotifyType ==
  ASSUME TypeOK, NEW j \in Jobs, NEW e \in EventKinds, Notify(j, e)
  PROVE  /\ events' \in [Clients -> Seq(EventKinds)]
         /\ at' = at
         /\ follows' = follows
<1>1. ASSUME NEW c \in Clients PROVE Append(events[c], e) \in Seq(EventKinds)
  BY AppendProperties DEF TypeOK, EventKinds
<1>2. ASSUME NEW c \in Clients PROVE events[c] \in Seq(EventKinds)
  BY DEF TypeOK, EventKinds
<1> QED BY <1>1, <1>2 DEF Notify

LEMMA SettleType ==
  ASSUME TypeOK, NEW j \in Jobs, NEW s \in Terminal, Settle(j, s)
  PROVE  /\ row' \in [Jobs -> Active \cup Terminal \cup {"absent"}]
         /\ step' \in [Jobs -> 0..Steps]
         /\ at' = at
         /\ follows' = follows
         /\ events' \in [Clients -> Seq(EventKinds)]
<1>1. CASE row[j] \in Terminal
  BY <1>1 DEF Settle, TypeOK, EventKinds, streamVars
<1>2. CASE row[j] \notin Terminal
  <2>1. Notify(j, s) BY <1>2 DEF Settle
  <2>2. s \in EventKinds BY DEF EventKinds
  <2>3. /\ row' \in [Jobs -> Active \cup Terminal \cup {"absent"}]
        /\ step' \in [Jobs -> 0..Steps]
    <3>1. row' = [row EXCEPT ![j] = s] /\ step' \in {step, [step EXCEPT ![j] = 0]}
      BY <1>2 DEF Settle
    <3>2. 0 \in 0..Steps BY JobsAssumption DEF JobsAssumption
    <3> QED BY <3>1, <3>2 DEF TypeOK
  <2> QED BY <2>1, <2>2, <2>3, NotifyType
<1> QED BY <1>1, <1>2

LEMMA BootType == TypeOK /\ Boot /\ report' \in SUBSET Jobs => TypeOK'
<1> SUFFICES ASSUME TypeOK, Boot, report' \in SUBSET Jobs PROVE TypeOK'
  OBVIOUS
<1>1. row' \in [Jobs -> Active \cup Terminal \cup {"absent"}]
  BY DEF Boot, TypeOK, Terminal
<1>2. task' \in [Jobs -> {"none", "ready", "doomed", "running", "unwinding"}]
  BY DEF Boot
<1>3. step' \in [Jobs -> 0..Steps] /\ report' \in SUBSET Jobs
  BY DEF Boot, TypeOK
<1>4. closing' \in BOOLEAN
  BY DEF Boot
<1>5. /\ at' \in [Clients -> {"out", "snapshot", "live"}]
      /\ follows' \in [Clients -> Jobs \cup {NoJob}]
      /\ events' \in [Clients -> Seq({"running", "progress"} \cup Terminal)]
  BY DEF Boot, Hangup
<1> QED BY <1>1, <1>2, <1>3, <1>4, <1>5 DEF TypeOK

LEMMA TypeStep == TypeOK /\ [Next]_vars => TypeOK'
<1> SUFFICES ASSUME TypeOK, [Next]_vars PROVE TypeOK'
  OBVIOUS
<1> USE DEF EventKinds
<1>1. ASSUME NEW j \in Jobs, Submit(j) PROVE TypeOK'
  BY <1>1 DEF Submit, TypeOK, streamVars, Active
<1>2. ASSUME NEW j \in Jobs, Start(j) PROVE TypeOK'
  BY <1>2, NotifyType DEF Start, TypeOK, Active
<1>3. ASSUME NEW j \in Jobs, Progress(j) PROVE TypeOK'
  <2>1. step' \in [Jobs -> 0..Steps]
    BY <1>3, JobsAssumption DEF Progress, TypeOK, JobsAssumption
  <2> QED BY <1>3, <2>1, NotifyType DEF Progress, TypeOK
<1>4. ASSUME NEW j \in Jobs, Complete(j) PROVE TypeOK'
  BY <1>4, SettleType DEF Complete, TypeOK, Terminal
<1>5. ASSUME NEW j \in Jobs, Fail(j) PROVE TypeOK'
  BY <1>5, SettleType DEF Fail, TypeOK, Terminal
<1>6. ASSUME NEW j \in Jobs, Delete(j) PROVE TypeOK'
  <2>1. task' \in [Jobs -> {"none", "ready", "doomed", "running", "unwinding"}]
    BY <1>6 DEF Delete, TypeOK, Cancelled
  <2> QED BY <1>6, <2>1, SettleType DEF Delete, TypeOK, Terminal
<1>7. ASSUME NEW j \in Jobs, Unwind(j) PROVE TypeOK'
  <2>1. PICK s \in {"cancelled", "failed"} : Settle(j, s) BY <1>7 DEF Unwind
  <2> QED BY <1>7, <2>1, SettleType DEF Unwind, TypeOK, Terminal
<1>8. ASSUME NEW j \in Jobs, Vanish(j) PROVE TypeOK'
  BY <1>8 DEF Vanish, TypeOK, streamVars
<1>9. ASSUME NEW j \in Jobs, CrashAfterReport(j) PROVE TypeOK'
  BY <1>9, BootType DEF CrashAfterReport, TypeOK
<1>10. ASSUME NEW c \in Clients, NEW j \in Jobs, Open(c, j) PROVE TypeOK'
  BY <1>10 DEF Open, TypeOK, jobVars
<1>11. ASSUME NEW c \in Clients, Subscribe(c) PROVE TypeOK'
  BY <1>11 DEF Subscribe, TypeOK, jobVars
<1>12. ASSUME NEW c \in Clients, Close(c), UNCHANGED jobVars PROVE TypeOK'
  BY <1>12 DEF Close, TypeOK, jobVars
<1>13. ASSUME NEW c \in Clients, Deliver(c) PROVE TypeOK'
  <2>1. CASE Close(c) BY <1>12, <1>13, <2>1 DEF Deliver
  <2>2. CASE events' = [events EXCEPT ![c] = Tail(@)] /\ UNCHANGED <<at, follows>>
    <3>1. Tail(events[c]) \in Seq(EventKinds)
      BY <1>13, HeadTailProperties DEF Deliver, TypeOK
    <3> QED BY <1>13, <2>2, <3>1 DEF Deliver, TypeOK, jobVars
  <2> QED BY <1>13, <2>1, <2>2 DEF Deliver
<1>14. ASSUME NEW c \in Clients, Leave(c) PROVE TypeOK'
  BY <1>12, <1>14 DEF Leave
<1>15. CASE Shutdown
  BY <1>15 DEF Shutdown, Hangup, TypeOK, Cancelled
<1>16. CASE Restart
  BY <1>16, BootType DEF Restart, TypeOK
<1>17. CASE UNCHANGED vars
  BY <1>17 DEF TypeOK, vars
<1> QED
  BY <1>1, <1>2, <1>3, <1>4, <1>5, <1>6, <1>7, <1>8, <1>9, <1>10, <1>11, <1>13, <1>14,
     <1>15, <1>16, <1>17 DEF Next

LEMMA TypeInit == Init => TypeOK
<1>1. 0 \in 0..Steps BY JobsAssumption DEF JobsAssumption
<1> SUFFICES ASSUME Init PROVE TypeOK
  OBVIOUS
<1>2. closing \in BOOLEAN BY DEF Init
<1>3. /\ row \in [Jobs -> Active \cup Terminal \cup {"absent"}]
      /\ step \in [Jobs -> 0..Steps]
      /\ task \in [Jobs -> {"none", "ready", "doomed", "running", "unwinding"}]
      /\ report \in SUBSET Jobs
  BY <1>1 DEF Init
<1>4. /\ at \in [Clients -> {"out", "snapshot", "live"}]
      /\ follows \in [Clients -> Jobs \cup {NoJob}]
      /\ events \in [Clients -> Seq({"running", "progress"} \cup Terminal)]
  BY DEF Init
<1> QED BY <1>2, <1>3, <1>4 DEF TypeOK

\* Every variable of the jobs and the streams keeps its type (jobs.py).
THEOREM TypeCorrect == Spec => []TypeOK
  BY TypeInit, TypeStep, PTL DEF Spec

-----------------------------------------------------------------------------
(* The rows. *)

LEMMA OwnedInit == Init => Owned
  BY DEF Init, Owned

LEMMA OwnedStep == TypeOK /\ Owned /\ [Next]_vars => Owned'
<1> SUFFICES ASSUME TypeOK, Owned, [Next]_vars PROVE Owned'
  OBVIOUS
<1> USE DEF Owned, Terminal, Active
<1>1. ASSUME NEW j \in Jobs, Submit(j) PROVE Owned'
  BY <1>1 DEF Submit, TypeOK
<1>2. ASSUME NEW j \in Jobs, Start(j) PROVE Owned'
  BY <1>2 DEF Start, TypeOK
<1>3. ASSUME NEW j \in Jobs, Progress(j) PROVE Owned'
  BY <1>3 DEF Progress
<1>4. ASSUME NEW j \in Jobs, Complete(j) PROVE Owned'
  BY <1>4 DEF Complete, Settle, TypeOK
<1>5. ASSUME NEW j \in Jobs, Fail(j) PROVE Owned'
  BY <1>5 DEF Fail, Settle, TypeOK
<1>6. ASSUME NEW j \in Jobs, Delete(j) PROVE Owned'
  BY <1>6 DEF Delete, Settle, TypeOK, Cancelled
<1>7. ASSUME NEW j \in Jobs, Unwind(j) PROVE Owned'
  BY <1>7 DEF Unwind, Settle, TypeOK
<1>8. ASSUME NEW j \in Jobs, Vanish(j) PROVE Owned'
  BY <1>8 DEF Vanish, TypeOK
<1>9. ASSUME NEW j \in Jobs, CrashAfterReport(j) PROVE Owned'
  BY <1>9 DEF CrashAfterReport, Boot, TypeOK
<1>10. CASE UNCHANGED jobVars
  BY <1>10 DEF jobVars
<1>11. CASE Shutdown
  BY <1>11 DEF Shutdown, TypeOK, Cancelled
<1>12. CASE Restart
  BY <1>12 DEF Restart, Boot, TypeOK
<1> QED
  BY <1>1, <1>2, <1>3, <1>4, <1>5, <1>6, <1>7, <1>8, <1>9, <1>10, <1>11, <1>12
  DEF Next, Open, Subscribe, Deliver, Leave, vars, jobVars

LEMMA OneJobStep == TypeOK /\ Owned /\ OneJobAtATime /\ [Next]_vars => OneJobAtATime'
<1> SUFFICES ASSUME TypeOK, Owned, OneJobAtATime, [Next]_vars PROVE OneJobAtATime'
  OBVIOUS
<1> DEFINE Busy(j) == row[j] \in Active \/ Unfinished(j)
<1>1. ASSUME NEW j \in Jobs, Submit(j) PROVE OneJobAtATime'
  BY <1>1 DEF Submit, OneJobAtATime, TypeOK, JobActive, Unfinished
<1>2. SUFFICES ASSUME \A k \in Jobs : Busy(k)' => Busy(k) PROVE OneJobAtATime'
  <2> SUFFICES ASSUME ~ \A k \in Jobs : Busy(k)' => Busy(k) PROVE OneJobAtATime'
    BY <1>2
  <2> USE DEF Unfinished, Active, Terminal
  <2>2. ASSUME NEW j \in Jobs, Start(j) \/ Progress(j) PROVE FALSE
    BY <2>2 DEF Start, Progress, TypeOK
  <2>4. ASSUME NEW j \in Jobs, Complete(j) \/ Fail(j) PROVE FALSE
    BY <2>4 DEF Complete, Fail, Settle, TypeOK
  <2>6. ASSUME NEW j \in Jobs, Delete(j) PROVE FALSE
    BY <2>6 DEF Delete, Settle, TypeOK, Cancelled
  <2>7. ASSUME NEW j \in Jobs, Unwind(j) PROVE FALSE
    BY <2>7 DEF Unwind, Settle, TypeOK
  <2>8. ASSUME NEW j \in Jobs, Vanish(j) PROVE FALSE
    BY <2>8 DEF Vanish, TypeOK
  <2>9. ASSUME Boot PROVE FALSE
    BY <2>9 DEF Boot, TypeOK
  <2>10. ASSUME UNCHANGED jobVars PROVE FALSE
    BY <2>10 DEF jobVars
  <2>11. ASSUME Shutdown PROVE FALSE
    BY <2>11 DEF Shutdown, TypeOK, Cancelled
  <2> QED
    BY <1>1, <2>2, <2>4, <2>6, <2>7, <2>8, <2>9, <2>10, <2>11
    DEF Next, Open, Subscribe, Deliver, Leave, CrashAfterReport, Restart, vars, jobVars
<1> QED BY <1>2 DEF OneJobAtATime

\* At most one research job is active or unwinding (JobManager.submit), however
\* cancels time out and processes die.
THEOREM OneJob == Spec => []OneJobAtATime
<1>1. Init => OneJobAtATime
  BY DEF Init, OneJobAtATime, Active, Unfinished
<1> QED BY <1>1, TypeInit, TypeStep, OwnedInit, OwnedStep, OneJobStep, PTL DEF Spec

LEMMA FinalStep ==
  TypeOK /\ Owned /\ [Next]_vars =>
    \A k \in Jobs : row[k] \in Terminal => row'[k] = row[k] /\ step'[k] = step[k]
<1> SUFFICES ASSUME TypeOK, Owned, [Next]_vars, NEW k \in Jobs, row[k] \in Terminal
             PROVE  row'[k] = row[k] /\ step'[k] = step[k]
  OBVIOUS
<1> USE DEF Owned, Terminal, Active
<1>1. ASSUME NEW j \in Jobs, NEW s, Settle(j, s) PROVE row'[k] = row[k] /\ step'[k] = step[k]
  BY <1>1 DEF Settle, TypeOK
<1>2. CASE UNCHANGED <<row, step>>
  BY <1>2
<1>3. ASSUME NEW j \in Jobs, Submit(j) \/ Start(j) \/ Progress(j)
      PROVE  row'[k] = row[k] /\ step'[k] = step[k]
  BY <1>3 DEF Submit, Start, Progress, TypeOK
<1>4. CASE Boot
  BY <1>4 DEF Boot, TypeOK
<1> QED
  BY <1>1, <1>2, <1>3, <1>4
  DEF Next, Complete, Fail, Delete, Unwind, Vanish, CrashAfterReport, Restart, Shutdown,
      Open, Subscribe, Deliver, Leave, vars, jobVars

\* A finished job keeps its terminal state and progress for ever (_set_terminal).
THEOREM Final == Spec => TerminalIsFinal
<1>1. TypeOK /\ Owned /\ [Next]_vars =>
        [\A j \in Jobs : row[j] \in Terminal => row'[j] = row[j] /\ step'[j] = step[j]]_vars
  BY FinalStep
<1> QED BY <1>1, TypeInit, TypeStep, OwnedInit, OwnedStep, PTL DEF Spec, TerminalIsFinal

LEMMA ReportsStep == TypeOK /\ Owned /\ ReportsMatchRows /\ [Next]_vars => ReportsMatchRows'
<1> SUFFICES ASSUME TypeOK, Owned, ReportsMatchRows, [Next]_vars PROVE ReportsMatchRows'
  OBVIOUS
<1> USE DEF Owned, Terminal, Active, ReportsMatchRows
<1>1. ASSUME NEW j \in Jobs, NEW s \in {"failed", "cancelled"}, Settle(j, s), report' = report
      PROVE  ReportsMatchRows'
  BY <1>1 DEF Settle, TypeOK
<1>2. ASSUME NEW j \in Jobs, Complete(j) PROVE ReportsMatchRows'
  BY <1>2 DEF Complete, Settle, TypeOK
<1>3. ASSUME NEW j \in Jobs, Submit(j) \/ Start(j) PROVE ReportsMatchRows'
  BY <1>3 DEF Submit, Start, TypeOK
<1>4. ASSUME NEW j \in Jobs, CrashAfterReport(j) PROVE ReportsMatchRows'
  BY <1>4 DEF CrashAfterReport, Boot, TypeOK
<1>5. CASE Restart
  BY <1>5 DEF Restart, Boot, TypeOK
<1>6. CASE UNCHANGED <<row, report>>
  BY <1>6
<1> QED
  BY <1>1, <1>2, <1>3, <1>4, <1>5, <1>6
  DEF Next, Progress, Fail, Delete, Unwind, Vanish, Shutdown,
      Open, Subscribe, Deliver, Leave, vars, jobVars

\* A completed row has its report and a cancelled one has none, across crashes.
THEOREM Reports == Spec => []ReportsMatchRows
<1>1. Init => ReportsMatchRows
  BY DEF Init, ReportsMatchRows
<1> QED BY <1>1, TypeInit, TypeStep, OwnedInit, OwnedStep, ReportsStep, PTL DEF Spec

-----------------------------------------------------------------------------
(* The streams. *)

StreamInv == Unqueued /\ EventsMatchRows

\* Appending to the queues of a job that has not ended keeps them right, whatever
\* its row becomes, as long as a terminal event is the row's new state.
LEMMA NotifyStep ==
  ASSUME TypeOK, StreamInv,
         NEW j \in Jobs, NEW e \in EventKinds, Notify(j, e),
         row[j] \notin Terminal,
         e \in Terminal => row'[j] = e,
         \A k \in Jobs : k # j => row'[k] = row[k]
  PROVE  StreamInv'
<1>1. ASSUME NEW c \in Clients, at'[c] # "live" PROVE events'[c] = <<>>
  BY <1>1 DEF Notify, StreamInv, Unqueued
<1>2. ASSUME NEW c \in Clients, NEW i \in DOMAIN events'[c], events'[c][i] \in Terminal
      PROVE  follows'[c] \in Jobs /\ i = Len(events'[c]) /\ row'[follows'[c]] = events'[c][i]
  <2>1. events[c] \in Seq(EventKinds) BY DEF TypeOK, EventKinds
  <2>2. CASE at[c] = "live" /\ follows[c] = j
    <3>1. events'[c] = Append(events[c], e) BY <2>2 DEF Notify
    <3>2. /\ Len(events'[c]) = Len(events[c]) + 1
          /\ events'[c][Len(events[c]) + 1] = e
          /\ \A n \in 1..Len(events[c]) : events'[c][n] = events[c][n]
          /\ DOMAIN events'[c] = 1..Len(events[c]) + 1
          /\ DOMAIN events[c] = 1..Len(events[c])
          /\ Len(events[c]) \in Nat
      BY <2>1, <3>1, AppendProperties, LenProperties
    <3>3. CASE i = Len(events[c]) + 1
      BY <2>2, <3>2, <3>3, <1>2 DEF Notify
    <3>4. CASE i \in 1..Len(events[c])
      BY <2>2, <3>2, <3>4, <1>2 DEF StreamInv, EventsMatchRows
    <3> QED BY <3>2, <3>3, <3>4
  <2>3. CASE ~(at[c] = "live" /\ follows[c] = j)
    <3>1. events'[c] = events[c] /\ follows' = follows BY <2>3 DEF Notify
    <3>2. CASE at[c] = "live"
      BY <2>3, <3>1, <3>2, <1>2 DEF StreamInv, EventsMatchRows
    <3>3. CASE at[c] # "live"
      BY <3>1, <3>3, <1>2 DEF StreamInv, Unqueued
    <3> QED BY <3>2, <3>3
  <2> QED BY <2>2, <2>3
<1> QED BY <1>1, <1>2 DEF StreamInv, Unqueued, EventsMatchRows

LEMMA SettleStep ==
  ASSUME TypeOK, StreamInv, NEW j \in Jobs, NEW s \in Terminal, Settle(j, s)
  PROVE  StreamInv'
<1>1. CASE row[j] \in Terminal
  BY <1>1 DEF Settle, streamVars, StreamInv, Unqueued, EventsMatchRows
<1>2. CASE row[j] \notin Terminal
  <2>1. /\ Notify(j, s)
        /\ row'[j] = s
        /\ \A k \in Jobs : k # j => row'[k] = row[k]
        /\ s \in EventKinds
    BY <1>2 DEF Settle, TypeOK, EventKinds
  <2> QED BY <1>2, <2>1, NotifyStep
<1> QED BY <1>1, <1>2

LEMMA StreamInvStep == TypeOK /\ Owned /\ StreamInv /\ [Next]_vars => StreamInv'
<1> SUFFICES ASSUME TypeOK, Owned, StreamInv, [Next]_vars PROVE StreamInv'
  OBVIOUS
<1> USE DEF EventKinds
<1>1. ASSUME NEW j \in Jobs, Submit(j) PROVE StreamInv'
  BY <1>1 DEF Submit, streamVars, StreamInv, Unqueued, EventsMatchRows, TypeOK, Terminal
<1>2. ASSUME NEW j \in Jobs, Start(j) PROVE StreamInv'
  <2>1. row[j] \notin Terminal /\ "running" \notin Terminal
    BY <1>2 DEF Start, Owned, Terminal
  <2>2. \A k \in Jobs : k # j => row'[k] = row[k]
    BY <1>2 DEF Start, TypeOK
  <2> QED BY <1>2, <2>1, <2>2, NotifyStep DEF Start
<1>3. ASSUME NEW j \in Jobs, Progress(j) PROVE StreamInv'
  <2>1. row[j] \notin Terminal /\ "progress" \notin Terminal
    BY <1>3 DEF Progress, Owned, Terminal
  <2> QED BY <1>3, <2>1, NotifyStep DEF Progress
<1>4. ASSUME NEW j \in Jobs, Complete(j) \/ Fail(j) \/ Delete(j) \/ Unwind(j) PROVE StreamInv'
  <2>1. PICK s \in Terminal : Settle(j, s)
    BY <1>4 DEF Complete, Fail, Delete, Unwind, Terminal
  <2> QED BY <2>1, SettleStep
<1>5. CASE UNCHANGED <<row, streamVars>>
  BY <1>5 DEF streamVars, StreamInv, Unqueued, EventsMatchRows
<1>6. CASE Hangup
  BY <1>6 DEF Hangup, StreamInv, Unqueued, EventsMatchRows
<1>7. ASSUME NEW c \in Clients, NEW j \in Jobs, Open(c, j) PROVE StreamInv'
  BY <1>7 DEF Open, jobVars, StreamInv, Unqueued, EventsMatchRows, TypeOK
<1>8. ASSUME NEW c \in Clients, Subscribe(c) PROVE StreamInv'
  BY <1>8 DEF Subscribe, jobVars, StreamInv, Unqueued, EventsMatchRows, TypeOK
<1>9. ASSUME NEW c \in Clients, Close(c), UNCHANGED jobVars PROVE StreamInv'
  BY <1>9 DEF Close, jobVars, StreamInv, Unqueued, EventsMatchRows, TypeOK
<1>10. ASSUME NEW c \in Clients, Deliver(c) PROVE StreamInv'
  <2>1. CASE Close(c) BY <1>9, <1>10, <2>1 DEF Deliver
  <2>2. CASE events' = [events EXCEPT ![c] = Tail(@)] /\ UNCHANGED <<at, follows>>
    <3>1. events[c] \in Seq(EventKinds) /\ events[c] # <<>>
      BY <1>10 DEF Deliver, TypeOK
    <3>2. /\ Len(Tail(events[c])) = Len(events[c]) - 1
          /\ DOMAIN Tail(events[c]) = 1..Len(events[c]) - 1
          /\ DOMAIN events[c] = 1..Len(events[c])
          /\ Len(events[c]) \in Nat
          /\ \A n \in 1..Len(events[c]) - 1 : Tail(events[c])[n] = events[c][n + 1]
      BY <3>1, HeadTailProperties, LenProperties
    <3>3. ASSUME NEW d \in Clients, NEW i \in DOMAIN events'[d], events'[d][i] \in Terminal
          PROVE  follows'[d] \in Jobs /\ i = Len(events'[d]) /\ row'[follows'[d]] = events'[d][i]
      <4>1. CASE d = c
        <5>1. events'[c] = Tail(events[c]) BY <2>2 DEF TypeOK
        <5>2. i \in 1..Len(events[c]) - 1 BY <3>2, <3>3, <4>1, <5>1
        <5>3. i + 1 \in DOMAIN events[c] /\ events'[c][i] = events[c][i + 1]
          BY <3>2, <5>1, <5>2
        <5>4. follows[c] \in Jobs /\ i + 1 = Len(events[c]) /\ row[follows[c]] = events[c][i + 1]
          BY <3>3, <4>1, <5>3 DEF StreamInv, EventsMatchRows
        <5>5. i = Len(events'[c]) BY <3>2, <5>1, <5>2, <5>4
        <5>6. follows' = follows /\ row' = row BY <1>10, <2>2 DEF Deliver, jobVars
        <5> QED BY <4>1, <5>3, <5>4, <5>5, <5>6
      <4>2. CASE d # c
        BY <1>10, <2>2, <3>3, <4>2 DEF Deliver, jobVars, TypeOK, StreamInv, EventsMatchRows
      <4> QED BY <4>1, <4>2
    <3>4. ASSUME NEW d \in Clients, at'[d] # "live" PROVE events'[d] = <<>>
      BY <1>10, <2>2, <3>1, <3>4 DEF StreamInv, Unqueued, Deliver, TypeOK
    <3> QED BY <3>3, <3>4 DEF StreamInv, Unqueued, EventsMatchRows
  <2> QED BY <1>10, <2>1, <2>2 DEF Deliver
<1> QED
  BY <1>1, <1>2, <1>3, <1>4, <1>5, <1>6, <1>7, <1>8, <1>9, <1>10
  DEF Next, Vanish, CrashAfterReport, Restart, Boot, Shutdown, Leave, vars, jobVars, streamVars

\* In a subscriber's queue the row's terminal state comes last (_set_terminal and
\* _notify; a cancelled pipeline reports nothing more).
THEOREM EndComesLast == Spec => []NothingAfterTheEnd
<1>1. Init => StreamInv
  BY DEF Init, StreamInv, Unqueued, EventsMatchRows
<1>2. StreamInv => NothingAfterTheEnd
  BY DEF StreamInv, EventsMatchRows, NothingAfterTheEnd
<1> QED BY <1>1, <1>2, TypeInit, TypeStep, OwnedInit, OwnedStep, StreamInvStep, PTL DEF Spec

-----------------------------------------------------------------------------
(***************************************************************************)
(* The deferred settings: AppSpec, in which the jobs take their steps.     *)
(***************************************************************************)

\* An apply is only pending for a stage, and only while something runs.
PendingInv == applyPending => staged # NotStaged /\ ~IsIdle

\* The files hold what memory holds, nulls left out; a process that died inside
\* apply() leaves a stage whose every entry is already in force.
FilesInv ==
  /\ configFile = Written(settings)
  /\ ~dying => stagedFile = IF staged = NotStaged THEN NotStaged ELSE Written(staged)
  /\ dying => /\ staged = NotStaged
              /\ stagedFile \in Patches
              /\ stagedFile = Written(stagedFile)
              /\ \A k \in DOMAIN stagedFile : stagedFile[k] = settings[k]

-----------------------------------------------------------------------------
(* The jobs in the composition. *)

LEMMA AppStepIsJobStep == [AppNext]_appVars => [Next]_vars
<1> SUFFICES ASSUME [AppNext]_appVars PROVE [Next]_vars
  OBVIOUS
<1>1. CASE UNCHANGED vars
  BY <1>1
<1>2. ASSUME NEW j \in Jobs,
             SubmitJob(j) \/ JobStep(j) \/ PipelineEnds(j) \/ DeleteJob(j) \/ RebootAfterReport(j)
      PROVE  Next
  BY <1>2 DEF SubmitJob, JobStep, PipelineEnds, DeleteJob, RebootAfterReport, Next
<1>3. ASSUME NEW c \in Clients, OpenOrLeave(c) \/ StreamStep(c) PROVE Next
  BY <1>3 DEF OpenOrLeave, StreamStep, Next
<1>4. CASE BeginShutdown \/ Reboot
  BY <1>4 DEF BeginShutdown, Reboot, Next
<1> QED
  BY <1>1, <1>2, <1>3, <1>4
  DEF AppNext, Running, appVars, PatchSettings, DirectWrite, PostApply, BeginChat, EndChat

LEMMA AppInitIsInit == AppInit => Init
  BY DEF AppInit

\* The application runs its jobs as jobs.py specifies them: every theorem about
\* Spec holds of AppSpec.
THEOREM JobsInside == AppSpec => Spec
  BY AppInitIsInit, AppStepIsJobStep, PTL DEF AppSpec, Spec

\* One job at a time, truthful terminal states and reports in the application.
THEOREM JobPromises == AppSpec => []OneJobAtATime /\ TerminalIsFinal /\ []ReportsMatchRows
  BY JobsInside, OneJob, Final, Reports

-----------------------------------------------------------------------------
(* Patches. *)

LEMMA PatchFacts ==
  ASSUME NEW p
  PROVE  p \in Patches <=> DOMAIN p \in SUBSET Keys /\ p \in [DOMAIN p -> Values]
<1>1. ASSUME p \in Patches PROVE DOMAIN p \in SUBSET Keys /\ p \in [DOMAIN p -> Values]
  <2>1. PICK S \in SUBSET Keys : p \in [S -> Values]
    BY <1>1 DEF Patches
  <2> QED BY <2>1
<1>2. ASSUME DOMAIN p \in SUBSET Keys, p \in [DOMAIN p -> Values] PROVE p \in Patches
  BY <1>2 DEF Patches
<1> QED BY <1>1, <1>2

LEMMA WrittenType == ASSUME NEW p \in Patches PROVE Written(p) \in Patches
<1>1. DOMAIN p \in SUBSET Keys /\ p \in [DOMAIN p -> Values]
  BY PatchFacts
<1>2. DOMAIN Written(p) \in SUBSET Keys /\ Written(p) \in [DOMAIN Written(p) -> Values]
  BY <1>1 DEF Written
<1> QED BY <1>2, PatchFacts

LEMMA MergeType ==
  ASSUME NEW p \in Patches, NEW q \in Patches
  PROVE  Merge(p, q) \in Patches
<1>1. /\ DOMAIN p \in SUBSET Keys /\ p \in [DOMAIN p -> Values]
      /\ DOMAIN q \in SUBSET Keys /\ q \in [DOMAIN q -> Values]
  BY PatchFacts
<1>2. DOMAIN Merge(p, q) \in SUBSET Keys /\ Merge(p, q) \in [DOMAIN Merge(p, q) -> Values]
  BY <1>1 DEF Merge
<1> QED BY <1>2, PatchFacts

LEMMA MergeSettings ==
  ASSUME NEW s \in [Keys -> Values], NEW q \in Patches
  PROVE  /\ Merge(s, q) \in [Keys -> Values]
         /\ \A k \in Keys : Merge(s, q)[k] = IF k \in DOMAIN q THEN q[k] ELSE s[k]
<1>1. DOMAIN q \in SUBSET Keys /\ q \in [DOMAIN q -> Values]
  BY PatchFacts
<1> QED BY <1>1 DEF Merge

LEMMA SettingsPatch == [Keys -> Values] \subseteq Patches
  BY DEF Patches

\* Loading what was written gives the settings back: only nulls are left out, and
\* a missing key reads as null.
LEMMA ValidatedWritten ==
  ASSUME NEW s \in [Keys -> Values]
  PROVE  Validated(Written(s)) = s
  BY DEF Validated, Written

LEMMA PreviewType == AppTypeOK => Preview \in [Keys -> Values]
  BY MergeSettings DEF AppTypeOK, Preview

-----------------------------------------------------------------------------
(* Types. *)

ConfigTypes ==
  /\ settings \in [Keys -> Values]
  /\ staged \in Patches \cup {NotStaged}
  /\ configFile \in Patches
  /\ stagedFile \in Patches \cup {NotStaged}
  /\ dying \in BOOLEAN

LEMMA CommitType == ConfigTypes /\ Commit => ConfigTypes'
<1> SUFFICES ASSUME ConfigTypes, Commit PROVE ConfigTypes'
  OBVIOUS
<1>1. CASE staged = NotStaged
  BY <1>1 DEF Commit, configVars, ConfigTypes
<1>2. CASE staged # NotStaged
  <2>1. Preview \in [Keys -> Values]
    BY <1>2, MergeSettings DEF Preview, ConfigTypes
  <2>2. Written(Preview) \in Patches
    BY <2>1, WrittenType, SettingsPatch
  <2>3. dying' \in BOOLEAN BY <1>2 DEF Commit
  <2>4. /\ settings' \in [Keys -> Values]
        /\ configFile' \in Patches
        /\ staged' \in Patches \cup {NotStaged}
    BY <1>2, <2>1, <2>2 DEF Commit
  <2>5. stagedFile' \in {stagedFile, NotStaged}
    BY <1>2 DEF Commit
  <2> QED BY <2>3, <2>4, <2>5 DEF ConfigTypes
<1> QED BY <1>1, <1>2

LEMMA MaybeCommitType ==
  ConfigTypes /\ applyPending \in BOOLEAN /\ MaybeCommit
    => ConfigTypes' /\ applyPending' \in BOOLEAN
<1> SUFFICES ASSUME ConfigTypes, applyPending \in BOOLEAN, MaybeCommit
             PROVE  ConfigTypes' /\ applyPending' \in BOOLEAN
  OBVIOUS
<1>1. CASE Commit /\ applyPending' = FALSE
  BY <1>1, CommitType
<1>2. CASE UNCHANGED settingsVars
  BY <1>2 DEF settingsVars, configVars, ConfigTypes
<1> QED BY <1>1, <1>2 DEF MaybeCommit

LEMMA StageType ==
  ConfigTypes => \A k \in Keys, v \in Values : Stage(k, v) => ConfigTypes'
<1> SUFFICES ASSUME ConfigTypes, NEW k \in Keys, NEW v \in Values, Stage(k, v) PROVE ConfigTypes'
  OBVIOUS
<1> DEFINE old == IF staged = NotStaged THEN [q \in {} |-> v] ELSE staged
<1> DEFINE new == [q \in {k} |-> v]
<1>1. old \in Patches
  <2>1. [q \in {} |-> v] \in Patches
    BY PatchFacts
  <2> QED BY <2>1 DEF ConfigTypes
<1>2. new \in Patches
  BY PatchFacts
<1>3. Merge(old, new) \in Patches
  BY <1>1, <1>2, MergeType
<1>4. staged' = Merge(old, new) /\ stagedFile' = Written(Merge(old, new))
  BY DEF Stage
<1>5. staged' \in Patches /\ stagedFile' \in Patches
  BY <1>3, <1>4, WrittenType
<1> QED BY <1>5 DEF Stage, ConfigTypes

AppFlags == applyPending \in BOOLEAN /\ chats \in 0..MaxChats

LEMMA AppTypeParts == AppTypeOK <=> TypeOK /\ ConfigTypes /\ AppFlags
  BY DEF AppTypeOK, ConfigTypes, AppFlags

LEMMA AppTypeInit == AppInit => AppTypeOK
<1> SUFFICES ASSUME AppInit PROVE AppTypeOK
  OBVIOUS
<1>1. TypeOK BY TypeInit DEF AppInit
<1>2. [k \in {} |-> Unset] \in Patches BY PatchFacts
<1>3. settings \in [Keys -> Values] BY SettingsAssumption DEF SettingsAssumption, AppInit
<1>4. dying \in BOOLEAN /\ applyPending \in BOOLEAN BY DEF AppInit
<1>5. chats \in 0..MaxChats BY SettingsAssumption DEF SettingsAssumption, AppInit
<1> QED BY <1>1, <1>2, <1>3, <1>4, <1>5 DEF AppTypeOK, AppInit

LEMMA AppTypeStep == AppTypeOK /\ [AppNext]_appVars => AppTypeOK'
<1> SUFFICES ASSUME AppTypeOK, [AppNext]_appVars PROVE ConfigTypes' /\ AppFlags'
  <2>1. AppTypeOK /\ [AppNext]_appVars => TypeOK'
    BY AppStepIsJobStep, TypeStep, AppTypeParts
  <2> QED BY <2>1 DEF AppTypeOK, ConfigTypes, AppFlags
<1>0. ConfigTypes /\ AppFlags BY AppTypeParts
<1>m. MaxChats \in Nat BY SettingsAssumption DEF SettingsAssumption
<1>1. ASSUME NEW k \in Keys, NEW v \in Values, PatchSettings(k, v) PROVE ConfigTypes' /\ AppFlags'
  <2>1. ConfigTypes' BY <1>0, <1>1, StageType DEF PatchSettings
  <2>2. AppFlags' BY <1>0, <1>1 DEF PatchSettings, AppFlags
  <2> QED BY <2>1, <2>2
<1>2. ASSUME NEW k \in Keys, NEW v \in Values, DirectWrite(k, v) PROVE ConfigTypes' /\ AppFlags'
  <2>1. settings' \in [Keys -> Values] BY <1>0, <1>2 DEF DirectWrite, ConfigTypes
  <2>2. configFile' \in Patches BY <1>2, <2>1, WrittenType, SettingsPatch DEF DirectWrite
  <2>3. ConfigTypes' BY <1>0, <1>2, <2>1, <2>2 DEF DirectWrite, ConfigTypes
  <2>4. AppFlags' BY <1>0, <1>2 DEF DirectWrite, AppFlags
  <2> QED BY <2>3, <2>4
<1>3. CASE PostApply
  <2>1. CASE applyPending' = TRUE /\ UNCHANGED configVars
    BY <1>0, <1>3, <2>1 DEF PostApply, ConfigTypes, AppFlags, configVars
  <2>2. CASE applyPending' = FALSE /\ Commit
    BY <1>0, <1>3, <2>2, CommitType DEF PostApply, AppFlags
  <2> QED BY <1>3, <2>1, <2>2 DEF PostApply
<1>4. CASE UNCHANGED settingsVars /\ chats' \in 0..MaxChats
  BY <1>0, <1>4 DEF settingsVars, configVars, ConfigTypes, AppFlags
<1>5. CASE MaybeCommit /\ chats' \in 0..MaxChats
  BY <1>0, <1>5, MaybeCommitType DEF AppFlags
<1>6. CASE BeginChat
  <2>1. chats' \in 0..MaxChats BY <1>0, <1>m, <1>6 DEF BeginChat, AppFlags
  <2> QED BY <1>4, <1>6, <2>1 DEF BeginChat
<1>7. CASE EndChat
  <2>1. chats' \in 0..MaxChats BY <1>0, <1>m, <1>7 DEF EndChat, AppFlags
  <2> QED BY <1>4, <1>5, <1>7, <2>1 DEF EndChat
<1>8. ASSUME NEW j \in Jobs, SubmitJob(j) \/ JobStep(j) PROVE ConfigTypes' /\ AppFlags'
  BY <1>0, <1>4, <1>8 DEF SubmitJob, JobStep, AppFlags
<1>9. ASSUME NEW j \in Jobs, PipelineEnds(j) \/ DeleteJob(j) PROVE ConfigTypes' /\ AppFlags'
  BY <1>0, <1>4, <1>5, <1>9 DEF PipelineEnds, DeleteJob, OnTerminal, AppFlags
<1>10. ASSUME NEW c \in Clients, OpenOrLeave(c) \/ StreamStep(c) PROVE ConfigTypes' /\ AppFlags'
  BY <1>0, <1>4, <1>10 DEF OpenOrLeave, StreamStep, AppFlags
<1>11. CASE BeginShutdown
  BY <1>m, <1>4, <1>5, <1>11 DEF BeginShutdown
<1>12. CASE Load
  <2>1. settings' \in [Keys -> Values]
    <3>1. ASSUME NEW k \in Keys, k \in DOMAIN configFile PROVE configFile[k] \in Values
      BY <1>0, <3>1, PatchFacts DEF ConfigTypes
    <3> QED BY <1>12, <3>1, SettingsAssumption DEF Load, Validated, SettingsAssumption
  <2>2. dying' \in BOOLEAN /\ applyPending' \in BOOLEAN BY <1>12 DEF Load
  <2>3. chats' \in 0..MaxChats BY <1>12, <1>m DEF Load
  <2> QED BY <1>0, <1>12, <2>1, <2>2, <2>3 DEF Load, ConfigTypes, AppFlags
<1>13. CASE UNCHANGED appVars
  BY <1>0, <1>13 DEF appVars, configVars, ConfigTypes, AppFlags
<1> QED
  BY <1>1, <1>2, <1>3, <1>6, <1>7, <1>8, <1>9, <1>10, <1>11, <1>12, <1>13
  DEF AppNext, Running, RebootAfterReport, Reboot

\* Settings, patches and files keep their types (config.py, app.py).
THEOREM AppTypeCorrect == AppSpec => []AppTypeOK
  BY AppTypeInit, AppTypeStep, PTL DEF AppSpec

-----------------------------------------------------------------------------
(* The deferred apply. *)

\* The row of a job that settles was not active, or no longer is.
LEMMA SettleIdles ==
  ASSUME TypeOK, NEW j \in Jobs, NEW s \in Terminal, Settle(j, s),
         ~(row[j] \in Active /\ row'[j] \in Terminal)
  PROVE  JobActive => JobActive'
<1>1. CASE row[j] \in Terminal
  BY <1>1 DEF Settle, JobActive
<1>2. CASE row[j] \notin Terminal
  <2>1. row' = [row EXCEPT ![j] = s] BY <1>2 DEF Settle
  <2>2. row[j] \notin Active BY <2>1 DEF TypeOK
  <2> QED BY <2>1, <2>2 DEF TypeOK, JobActive
<1> QED BY <1>1, <1>2

LEMMA PendingStep == AppTypeOK /\ PendingInv /\ [AppNext]_appVars => PendingInv'
<1> SUFFICES ASSUME AppTypeOK, PendingInv, [AppNext]_appVars PROVE PendingInv'
  OBVIOUS
<1>0. TypeOK /\ ConfigTypes /\ AppFlags BY AppTypeParts
<1>1. ASSUME NEW k \in Keys, NEW v \in Values, PatchSettings(k, v) PROVE PendingInv'
  <2>1. staged' \in Patches \cup {NotStaged} /\ staged' # NotStaged
    <3> DEFINE patch == Merge(IF staged = NotStaged THEN [q \in {} |-> v] ELSE staged, [q \in {k} |-> v])
    <3>1. [q \in {} |-> v] \in Patches /\ [q \in {k} |-> v] \in Patches BY PatchFacts
    <3>2. patch \in Patches BY <1>0, <3>1, MergeType DEF ConfigTypes
    <3>3. staged' = patch BY <1>1 DEF PatchSettings, Stage
    <3> QED BY <3>2, <3>3, SettingsAssumption DEF SettingsAssumption
  <2>2. applyPending' = applyPending /\ (IsIdle' <=> IsIdle)
    BY <1>1 DEF PatchSettings, vars, IsIdle, JobActive
  <2> QED BY <2>1, <2>2 DEF PendingInv
<1>2. ASSUME NEW k \in Keys, NEW v \in Values, DirectWrite(k, v) PROVE PendingInv'
  BY <1>2 DEF DirectWrite, vars, PendingInv, IsIdle, JobActive
<1>3. CASE PostApply
  <2>1. CASE staged # NotStaged /\ ~IsIdle /\ UNCHANGED configVars
    BY <1>3, <2>1 DEF PostApply, configVars, vars, PendingInv, IsIdle, JobActive
  <2>2. CASE applyPending' = FALSE
    BY <2>2 DEF PendingInv
  <2> QED BY <1>3, <2>1, <2>2 DEF PostApply
<1>4. CASE MaybeCommit
  BY <1>4 DEF MaybeCommit, settingsVars, configVars, PendingInv
<1>5. CASE UNCHANGED settingsVars /\ (IsIdle' => IsIdle)
  BY <1>5 DEF settingsVars, configVars, PendingInv
<1>6. CASE BeginChat
  <2>1. ~IsIdle' BY <1>0, <1>6 DEF BeginChat, AppFlags, IsIdle
  <2> QED BY <1>5, <1>6, <2>1 DEF BeginChat
<1>7. CASE EndChat
  <2>1. CASE chats' # 0
    BY <1>5, <1>7, <2>1 DEF EndChat, IsIdle
  <2> QED BY <1>4, <1>7, <2>1 DEF EndChat
<1>8. ASSUME NEW j \in Jobs, SubmitJob(j) PROVE PendingInv'
  <2>1. row'[j] \in Active BY <1>0, <1>8 DEF SubmitJob, Submit, TypeOK, Active
  <2> QED BY <1>5, <1>8, <2>1 DEF SubmitJob, IsIdle, JobActive
<1>9. ASSUME NEW j \in Jobs, JobStep(j) PROVE PendingInv'
  <2>1. CASE Start(j)
    <3>1. row'[j] \in Active BY <1>0, <2>1 DEF Start, TypeOK, Active
    <3> QED BY <1>5, <1>9, <3>1 DEF JobStep, IsIdle, JobActive
  <2>2. CASE row' = row
    BY <1>5, <1>9, <2>2 DEF JobStep, IsIdle, JobActive
  <2> QED BY <1>9, <2>1, <2>2 DEF JobStep, Progress, Vanish
<1>10. ASSUME NEW j \in Jobs, PipelineEnds(j) \/ DeleteJob(j) PROVE PendingInv'
  <2>1. OnTerminal(j) BY <1>10 DEF PipelineEnds, DeleteJob
  <2>2. PICK s \in Terminal : Settle(j, s)
    BY <1>10 DEF PipelineEnds, DeleteJob, Complete, Fail, Unwind, Delete, Terminal
  <2>3. CASE row[j] \in Active /\ row'[j] \in Terminal
    BY <1>4, <2>1, <2>3 DEF OnTerminal
  <2>4. CASE ~(row[j] \in Active /\ row'[j] \in Terminal)
    <3>1. JobActive => JobActive' BY <1>0, <2>2, <2>4, SettleIdles
    <3> QED BY <1>5, <2>1, <2>4, <3>1 DEF OnTerminal, IsIdle
  <2> QED BY <2>3, <2>4
<1>11. ASSUME NEW c \in Clients, OpenOrLeave(c) \/ StreamStep(c) PROVE PendingInv'
  <2>1. row' = row
    BY <1>11 DEF OpenOrLeave, StreamStep, Leave, Open, Subscribe, Deliver, jobVars
  <2> QED BY <1>5, <1>11, <2>1 DEF OpenOrLeave, StreamStep, IsIdle, JobActive
<1>12. CASE BeginShutdown
  <2>1. CASE chats > 0
    BY <1>4, <1>12, <2>1 DEF BeginShutdown
  <2>2. CASE ~(chats > 0)
    <3>1. chats = 0 BY <1>0, <2>2, SettingsAssumption DEF AppFlags, SettingsAssumption
    <3> QED BY <1>5, <1>12, <2>2, <3>1 DEF BeginShutdown, Shutdown, IsIdle, JobActive
  <2> QED BY <2>1, <2>2
<1>13. CASE Load
  BY <1>13 DEF Load, PendingInv
<1>14. CASE UNCHANGED appVars
  BY <1>14 DEF appVars, configVars, vars, PendingInv, IsIdle, JobActive
<1> QED
  BY <1>1, <1>2, <1>3, <1>6, <1>7, <1>8, <1>9, <1>10, <1>11, <1>12, <1>13, <1>14
  DEF AppNext, Running, RebootAfterReport, Reboot

\* A pending apply is committed by the time the system is idle (the idle callback
\* of ActivityTracker.end and the jobs' terminal listener, app.py).
THEOREM NeverForgotten == AppSpec => []NoForgottenApply
<1>1. AppInit => PendingInv
  BY DEF AppInit, PendingInv
<1>2. PendingInv => NoForgottenApply
  BY DEF PendingInv, NoForgottenApply
<1> QED BY <1>1, <1>2, AppTypeInit, AppTypeStep, PendingStep, PTL DEF AppSpec

-----------------------------------------------------------------------------
(* The two files. *)

\* All the ways in which a step touches the configuration.
LEMMA ConfigStep ==
  ASSUME [AppNext]_appVars
  PROVE  \/ ~dying /\ \E k \in Keys, v \in Values : PatchSettings(k, v) \/ DirectWrite(k, v)
         \/ ~dying /\ Commit /\ (staged # NotStaged => IsIdle')
         \/ UNCHANGED configVars
         \/ Load
<1> DEFINE Goal ==
      \/ ~dying /\ \E k \in Keys, v \in Values : PatchSettings(k, v) \/ DirectWrite(k, v)
      \/ ~dying /\ Commit /\ (staged # NotStaged => IsIdle')
      \/ UNCHANGED configVars
      \/ Load
<1>1. CASE UNCHANGED settingsVars
  BY <1>1 DEF settingsVars
<1>2. CASE ~dying /\ MaybeCommit
  BY <1>1, <1>2 DEF MaybeCommit
<1>3. CASE ~dying /\ PostApply
  BY <1>3 DEF PostApply, IsIdle, JobActive, vars
<1>4. ASSUME NEW j \in Jobs, ~dying,
             SubmitJob(j) \/ JobStep(j) \/ PipelineEnds(j) \/ DeleteJob(j)
      PROVE  Goal
  BY <1>1, <1>2, <1>4 DEF SubmitJob, JobStep, PipelineEnds, DeleteJob, OnTerminal
<1>5. ASSUME NEW c \in Clients, OpenOrLeave(c) \/ StreamStep(c) PROVE Goal
  BY <1>1, <1>5 DEF OpenOrLeave, StreamStep
<1>6. CASE ~dying /\ (BeginChat \/ EndChat \/ BeginShutdown)
  BY <1>1, <1>2, <1>6 DEF BeginChat, EndChat, BeginShutdown
<1>7. CASE UNCHANGED appVars
  BY <1>7 DEF appVars
<1> QED
  BY <1>3, <1>4, <1>5, <1>6, <1>7 DEF AppNext, Running, Reboot, RebootAfterReport

LEMMA WrittenTwice == ASSUME NEW p \in Patches PROVE Written(Written(p)) = Written(p)
  BY DEF Written

LEMMA FilesStep == AppTypeOK /\ FilesInv /\ [AppNext]_appVars => FilesInv'
<1> SUFFICES ASSUME AppTypeOK, FilesInv, [AppNext]_appVars PROVE FilesInv'
  OBVIOUS
<1>0. ConfigTypes BY AppTypeParts
<1>1. ASSUME ~dying, NEW k \in Keys, NEW v \in Values, PatchSettings(k, v) PROVE FilesInv'
  <2> DEFINE patch == Merge(IF staged = NotStaged THEN [q \in {} |-> v] ELSE staged, [q \in {k} |-> v])
  <2>1. [q \in {} |-> v] \in Patches /\ [q \in {k} |-> v] \in Patches BY PatchFacts
  <2>2. patch \in Patches BY <1>0, <2>1, MergeType DEF ConfigTypes
  <2>3. /\ staged' = patch /\ stagedFile' = Written(patch)
        /\ UNCHANGED <<settings, configFile, dying>>
    BY <1>1 DEF PatchSettings, Stage
  <2>4. patch # NotStaged BY <2>2, SettingsAssumption DEF SettingsAssumption
  <2>5. ~dying' /\ configFile' = Written(settings)' BY <1>1, <2>3 DEF FilesInv, Written
  <2>6. Written(staged)' = Written(patch) BY <2>3 DEF Written
  <2> QED BY <2>3, <2>4, <2>5, <2>6 DEF FilesInv
<1>2. ASSUME ~dying, NEW k \in Keys, NEW v \in Values, DirectWrite(k, v) PROVE FilesInv'
  <2>1. ~dying' /\ configFile' = Written(settings)' BY <1>2 DEF DirectWrite, Written
  <2>2. staged' = staged /\ stagedFile' = stagedFile BY <1>2 DEF DirectWrite
  <2>3. Written(staged)' = Written(staged) BY <2>2 DEF Written
  <2> QED BY <1>2, <2>1, <2>2, <2>3 DEF FilesInv
<1>3. CASE UNCHANGED configVars
  BY <1>3 DEF configVars, FilesInv, Written
<1>4. CASE ~dying /\ Commit
  <2>1. CASE staged = NotStaged BY <1>3, <1>4, <2>1 DEF Commit
  <2>2. CASE staged # NotStaged
    <3>1. /\ settings' = Preview /\ configFile' = Written(Preview)
          /\ staged' = NotStaged
          /\ stagedFile' = IF dying' THEN stagedFile ELSE NotStaged
      BY <1>4, <2>2 DEF Commit
    <3>2. configFile' = Written(settings)' BY <3>1 DEF Written
    <3>3. CASE ~dying'
      BY <3>1, <3>2, <3>3 DEF FilesInv
    <3>4. CASE dying'
      <4>1. staged \in Patches BY <1>0, <2>2 DEF ConfigTypes
      <4>2. stagedFile = Written(staged) BY <1>4, <2>2 DEF FilesInv
      <4>3. stagedFile' = stagedFile BY <3>1, <3>4
      <4>4. stagedFile' \in Patches BY <4>1, <4>2, <4>3, WrittenType
      <4>5. stagedFile' = Written(stagedFile)'
        BY <4>1, <4>2, <4>3, WrittenTwice DEF Written
      <4>6. ASSUME NEW k \in DOMAIN stagedFile PROVE stagedFile[k] = Preview[k]
        <5>1. k \in DOMAIN staged /\ stagedFile[k] = staged[k] BY <4>2, <4>6 DEF Written
        <5>2. DOMAIN staged \in SUBSET Keys BY <4>1, PatchFacts
        <5> QED BY <1>0, <2>2, <4>1, <5>1, <5>2, MergeSettings DEF ConfigTypes, Preview
      <4> QED BY <3>1, <3>2, <3>4, <4>3, <4>4, <4>5, <4>6 DEF FilesInv
    <3> QED BY <3>3, <3>4
  <2> QED BY <2>1, <2>2
<1>5. CASE Load
  <2>1. settings' = settings
    BY <1>0, <1>5, ValidatedWritten DEF Load, FilesInv, ConfigTypes
  <2>2. configFile' = Written(settings)'
    <3>1. configFile' = Written(settings) BY <1>5 DEF Load, FilesInv
    <3>2. Written(settings)' = Written(settings) BY <2>1 DEF Written
    <3> QED BY <3>1, <3>2
  <2>3. stagedFile = NotStaged \/ stagedFile = Written(stagedFile)
    BY <1>0, WrittenTwice DEF FilesInv, ConfigTypes
  <2>4. ~dying' /\ staged' = stagedFile /\ stagedFile' = stagedFile BY <1>5 DEF Load
  <2>5. Written(staged)' = Written(stagedFile) BY <2>4 DEF Written
  <2> QED BY <2>2, <2>3, <2>4, <2>5 DEF FilesInv
<1> QED BY <1>1, <1>2, <1>3, <1>4, <1>5, ConfigStep

LEMMA FilesInit == AppInit => FilesInv
<1> SUFFICES ASSUME AppInit PROVE FilesInv
  OBVIOUS
<1>1. Written(settings) = [k \in {} |-> Unset]
  BY DEF AppInit, Written
<1> QED BY <1>1 DEF AppInit, FilesInv

LEMMA LoadKeepsSettings == AppTypeOK /\ FilesInv /\ Load => settings' = settings
  BY ValidatedWritten, AppTypeParts DEF Load, FilesInv, ConfigTypes

LEMMA MidRunStep ==
  AppTypeOK /\ FilesInv /\ [AppNext]_appVars =>
    \A k \in Keys : settings'[k] # settings[k] =>
      IsIdle' \/ (\E v \in Values : DirectWrite(k, v))
<1> SUFFICES ASSUME AppTypeOK, FilesInv, [AppNext]_appVars, NEW k \in Keys,
                    settings'[k] # settings[k]
             PROVE  IsIdle' \/ (\E v \in Values : DirectWrite(k, v))
  OBVIOUS
<1>1. ASSUME NEW q \in Keys, NEW v \in Values, PatchSettings(q, v) PROVE FALSE
  BY <1>1 DEF PatchSettings, Stage
<1>2. ASSUME NEW q \in Keys, NEW v \in Values, DirectWrite(q, v)
      PROVE  \E w \in Values : DirectWrite(k, w)
  <2>1. q = k BY <1>2 DEF DirectWrite, AppTypeOK
  <2> QED BY <1>2, <2>1
<1>3. CASE Commit /\ (staged # NotStaged => IsIdle')
  BY <1>3 DEF Commit, configVars
<1>4. CASE UNCHANGED configVars
  BY <1>4 DEF configVars
<1>5. CASE Load
  BY <1>5, LoadKeepsSettings
<1> QED BY <1>1, <1>2, <1>3, <1>4, <1>5, ConfigStep

\* The live settings never change under a chat or an active job, apart from the
\* pairing and link writes (post_apply and maybe_commit_staged).
THEOREM MidRunNever == AppSpec => NeverMidRun
<1>1. AppTypeOK /\ FilesInv /\ [AppNext]_appVars =>
        [\A k \in Keys : settings'[k] # settings[k] =>
           IsIdle' \/ (\E v \in Values : DirectWrite(k, v))]_appVars
  BY MidRunStep
<1> QED BY <1>1, AppTypeInit, AppTypeStep, FilesInit, FilesStep, PTL DEF AppSpec, NeverMidRun

LEMMA PreviewStep ==
  AppTypeOK /\ FilesInv /\ [AppNext]_appVars =>
    \A k \in Keys : Preview'[k] # Preview[k] =>
      \/ Preview[k] = Unset
      \/ \E v \in Values : PatchSettings(k, v) \/ DirectWrite(k, v)
<1> SUFFICES ASSUME AppTypeOK, FilesInv, [AppNext]_appVars, NEW k \in Keys,
                    Preview'[k] # Preview[k], Preview[k] # Unset
             PROVE  \E v \in Values : PatchSettings(k, v) \/ DirectWrite(k, v)
  OBVIOUS
<1>0. ConfigTypes BY AppTypeParts
<1>t. ConfigTypes' BY AppTypeStep, AppTypeParts DEF AppTypeOK, ConfigTypes
<1>a. ASSUME staged \in Patches PROVE Preview[k] = IF k \in DOMAIN staged THEN staged[k] ELSE settings[k]
  BY <1>0, <1>a, MergeSettings, SettingsAssumption DEF Preview, ConfigTypes, SettingsAssumption
<1>b. ASSUME staged' \in Patches PROVE Preview'[k] = IF k \in DOMAIN staged' THEN staged'[k] ELSE settings'[k]
  <2>1. staged' # NotStaged BY <1>b, SettingsAssumption DEF SettingsAssumption
  <2>2. Preview' = Merge(settings, staged)' BY <2>1 DEF Preview
  <2>3. DOMAIN staged' \in SUBSET Keys BY <1>b, PatchFacts
  <2>4. settings' \in [Keys -> Values] BY <1>t DEF ConfigTypes
  <2> QED BY <2>2, <2>3, <2>4 DEF Merge
<1>1. ASSUME NEW q \in Keys, NEW v \in Values, PatchSettings(q, v)
      PROVE  \E w \in Values : PatchSettings(k, w)
  <2> DEFINE old == IF staged = NotStaged THEN [r \in {} |-> v] ELSE staged
  <2>1. staged' = Merge(old, [r \in {q} |-> v]) /\ settings' = settings
    BY <1>1 DEF PatchSettings, Stage
  <2>2. DOMAIN staged' = DOMAIN old \cup {q} BY <2>1 DEF Merge
  <2>3. CASE q = k BY <1>1, <2>3
  <2>4. CASE q # k
    <3>1. k \in DOMAIN staged' <=> k \in DOMAIN old BY <2>2, <2>4
    <3>2. k \in DOMAIN old => staged'[k] = old[k] BY <2>1, <2>4 DEF Merge
    <3>3. Preview[k] = IF k \in DOMAIN old THEN old[k] ELSE settings[k]
      BY <1>0, <1>a DEF ConfigTypes, Preview
    <3>4. staged' \in Patches
      <4>1. staged' # NotStaged
        <5>1. [r \in {} |-> v] \in Patches /\ [r \in {q} |-> v] \in Patches BY PatchFacts
        <5> QED BY <1>0, <2>1, <5>1, MergeType, SettingsAssumption DEF ConfigTypes, SettingsAssumption
      <4> QED BY <1>t, <4>1 DEF ConfigTypes
    <3> QED BY <1>b, <2>1, <3>1, <3>2, <3>3, <3>4
  <2> QED BY <2>3, <2>4
<1>2. ASSUME NEW q \in Keys, NEW v \in Values, DirectWrite(q, v)
      PROVE  \E w \in Values : DirectWrite(k, w)
  <2>1. staged' = staged /\ settings' = [settings EXCEPT ![q] = v] BY <1>2 DEF DirectWrite
  <2>2. CASE q = k BY <1>2, <2>2
  <2>3. CASE q # k
    <3>1. settings'[k] = settings[k] BY <1>0, <2>1, <2>3 DEF ConfigTypes
    <3>2. CASE staged = NotStaged BY <2>1, <3>1, <3>2 DEF Preview
    <3>3. CASE staged \in Patches BY <1>a, <1>b, <2>1, <3>1, <3>3
    <3> QED BY <1>0, <3>2, <3>3 DEF ConfigTypes
  <2> QED BY <2>2, <2>3
<1>3. CASE UNCHANGED configVars
  BY <1>3 DEF configVars, Preview, Merge
<1>4. CASE Commit
  <2>1. CASE staged = NotStaged BY <1>3, <1>4, <2>1 DEF Commit
  <2>2. CASE staged # NotStaged
    <3>1. settings' = Preview /\ staged' = NotStaged BY <1>4, <2>2 DEF Commit
    <3>2. Preview' = settings' BY <3>1 DEF Preview
    <3> QED BY <3>1, <3>2
  <2> QED BY <2>1, <2>2
<1>5. CASE Load
  <2>1. settings' = settings BY <1>5, LoadKeepsSettings
  <2>2. staged' = stagedFile BY <1>5 DEF Load
  <2>3. CASE dying
    <3>1. Preview[k] = settings[k] BY <2>3 DEF FilesInv, Preview
    <3>2. staged' \in Patches BY <2>2, <2>3 DEF FilesInv
    <3>3. k \in DOMAIN staged' => staged'[k] = settings[k] BY <2>2, <2>3 DEF FilesInv
    <3> QED BY <1>b, <2>1, <3>1, <3>2, <3>3
  <2>4. CASE ~dying /\ staged = NotStaged
    BY <2>1, <2>2, <2>4 DEF FilesInv, Preview
  <2>5. CASE ~dying /\ staged # NotStaged
    <3>1. staged \in Patches BY <1>0, <2>5 DEF ConfigTypes
    <3>2. staged' = Written(staged) BY <2>2, <2>5 DEF FilesInv
    <3>3. staged' \in Patches BY <3>1, <3>2, WrittenType
    <3>4. k \in DOMAIN staged => k \in DOMAIN staged' /\ staged'[k] = staged[k]
      BY <1>a, <3>1, <3>2 DEF Written
    <3>5. k \notin DOMAIN staged => k \notin DOMAIN staged' BY <3>2 DEF Written
    <3> QED BY <1>a, <1>b, <2>1, <3>1, <3>3, <3>4, <3>5
  <2> QED BY <2>3, <2>4, <2>5
<1> QED BY <1>1, <1>2, <1>3, <1>4, <1>5, ConfigStep

\* What GET /v1/settings shows as staged is neither lost nor changed by an apply, a
\* deferred commit, a crash between the two files or a restart, except for a
\* staged null (ConfigManager.stage, apply and load).
THEOREM PreviewNeverLost == AppSpec => PreviewKept
<1>1. AppTypeOK /\ FilesInv /\ [AppNext]_appVars =>
        [\A k \in Keys : Preview'[k] # Preview[k] =>
           \/ Preview[k] = Unset
           \/ \E v \in Values : PatchSettings(k, v) \/ DirectWrite(k, v)]_appVars
  BY PreviewStep
<1> QED BY <1>1, AppTypeInit, AppTypeStep, FilesInit, FilesStep, PTL DEF AppSpec, PreviewKept

=============================================================================

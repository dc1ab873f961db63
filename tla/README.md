# suiban: a TLA+ model of the server's coordination logic

suiban is a local inference server: one asyncio process that plans a set of
llama-server subprocesses ("slots"), warms them on demand, runs chats, research
jobs and scheduled prompts on them, and keeps settings, jobs, schedules and a
memory archive on disk. Its hard part is not the text it moves but the
coordination: many coroutines on one event loop, subprocesses that crash,
cancellations at any await, and state that outlives the process.

This directory holds TLA+ modules translated from the code in `src/suiban`, the
TLC instances that check them, and TLAPS proofs. Paths below are relative to the
repository root.

- [1. The system](#1-the-system): components, state, operations, hazards
- [2. The modules](#2-the-modules): what models what
- [3. The checks](#3-the-checks): runs, bounds, fairness
- [4. The proofs](#4-the-proofs): theorems and inductive invariants
- [5. Findings](#5-findings)
- [6. What is not modelled](#6-what-is-not-modelled)
- [7. Plan](#7-plan)

## 1. The system

### 1.1 How the parts interact

```
 clients --HTTP--> routers/chat, routers/system, routers/settings_router,
                   research/router, schedules/router, routers/import_router, ...
                       |
     ActivityTracker <-+-> AppState.maybe_commit_staged -> ConfigManager (two TOML files)
      (busy count)     |        ^                       -> McpManager.resync, provider refresh
                       |        | terminal listener
                       |     JobManager (SQLite rows + tasks + event queues)
                       |        |            Scheduler (SQLite rows + tasks)
                       v        v              |
                  LoadController.ensure_loaded <+     idle reaper
                       |
                  LlamaManager.start_all / shutdown --> RealBackend --> llama-server
                       |
                  SlotGate (one per slot) --> agent loop, ultra mode, research steps
```

Everything runs on one event loop, so code between two awaits is atomic, and
everything between two awaits of one coroutine may interleave with all others.
The only other actors are the llama-server processes, MCP servers and the
WhatsApp bridge (subprocesses), and the file system, which survives a crash.

### 1.2 Components

| Component | Keeps | Operations | What is hard | What makes it correct |
|---|---|---|---|---|
| Model residency (`llama/load_controller.py`) | `_loaded`, `_loading`, `_unloading`, an `asyncio.Lock`, `_last_activity` | `ensure_loaded`, `touch`, `_reap_once`, `state` | checks made without the lock, cancelled or raising warm-ups, unloads against arrivals | no unload under work; "cold" means no process; every warm-up ends; an idle server unloads |
| llama-server slots (`llama/manager.py`, `llama/backend.py`) | `_slots`, per backend the process, `_watch` task, restart count | `start_all`, `shutdown`, `start`, `_watch`, `stop` | crash and restart against stop and against the next start | each process accounted for, a ready slot supervised, restarts bounded |
| Slot gate (`SlotGate` in `llama/manager.py`) | lock, waiter count | `check_capacity`, `acquire`, `release` | cancellation and timeout anywhere in the queue | mutual exclusion, exact count, FIFO, no starvation, bounded queue |
| Chat endpoint (`routers/chat.py`) | nothing of its own; holds a count, a gate | one handler with seven ways to run and record a turn, streaming or not | every exit path gives back what it took; clients resend their history; system messages are folded, summed up and cut in turn | as for the gate and the activity count; a transcript holds each message once; nothing is dropped untold |
| Activity and idle apply (`app.py`, `routers/system.py`) | busy count, `apply_pending` | `begin`, `end`, `post_apply`, `maybe_commit_staged`, job listener | two ways of becoming idle | a deferred apply is committed once, at idle, and never forgotten |
| Settings (`config.py`) | live settings, staged patch, `config.toml`, `staged.toml` | `stage`, `apply`, `load`, direct writes | crash between two files, lists that replace wholesale | a staged value is not lost and not applied early |
| Research jobs (`research/jobs.py`, `research/router.py`) | rows, tasks, report files, event queues | submit, execute, progress, cancel, stream, shutdown, orphan recovery | DELETE, completion, shutdown and crash race for one row | one job at a time, terminal states final and told last, reports match rows |
| Research pipeline (`research/engine.py`, `research/wiring.py`) | a local state per job | stages in order, gate per step | cancellation at any stage | progress monotone, a report only at the end |
| Schedules (`schedules/*.py`) | rows, `_running` | tick, run now, execute, create, patch, delete | edits and restarts during a run; wall-clock arithmetic | no overlap, nothing due is lost, the plan fits the cadence |
| MCP servers (`mcp/*.py`) | connection per server, pending calls by id | start, resync, call, crash handling | overlapping resyncs, late and malformed answers, a stop that raises | one client per configured server, answers reach their caller |
| Agent loop and tools (`agent/`, `tools/`) | transcript, repair budget, confirmation tokens, undo journal | one completion per round, one result per tool call | repair against iteration ceiling, tokens that outlive what they approved, several runs and the shell in one workdir, crashes between journal and file | each call answered once and in order, recent edits can be undone, nothing applied whose string was not shown |
| Ultra mode (`modes/ultra.py`, `slap/`) | plan, worker pool, queue of events and done markers, transcript | decompose, dispatch, synthesize | sub-agents crash or time out, clients leave | every sub-task ends with one outcome, which the client is told; the run ends |
| Loadout planner (`sched/*.py`, `kv.py`, `effort.py`) | measured buffers (`budget.json`) | plan at boot, measure at launch | rungs and tiers, a measurement made under another plan | the plan fits the budget and no better rung would |
| Memory (`memory/*.py`) | SQLite rows, Markdown files and their mirror rows, projects | archive, titling, reflection, skills, edits, deletes | background generation against edits and deletes | mirrors match files, references lead somewhere, a title stays |
| Gateways (`gateways/*.py`) | pairing, history window, bridge process | poll, pair, relay, supervise | a bounded history that fails and evicts | the window stays a conversation |
| Providers (`providers/registry.py`) | the last polled lists | refresh, resolve | overlapping refreshes, failing polls | known lists survive, disabled ones go |
| Search, installer, CLI, benchmarks | settings and I/O | see `PROJECT.json` | | |

`PROJECT.json` lists every component with its files and its status, and under
`hazards` each hard-to-test point with its line and the properties that watch it.

## 2. The modules

| Module | Models | Notes |
|---|---|---|
| `ResidencyStates` | what residency promises: `cold`, `loading`, `ready`, `idle_unloading` and who uses the models | abstract specification |
| `Residency` | `LoadController`, `start_all`, `shutdown`, `RealBackend`, the two sources of "busy" | implements `ResidencyStates` through `Abstract` |
| `SlotGate` | one `SlotGate` and the chats and internal runs at it | |
| `Jobs` | `JobManager`, `/v1/jobs` and its event streams | |
| `DeferredApply` | `ConfigManager`, `ActivityTracker`, `AppState` | EXTENDS `Jobs` and composes with it |
| `Cadence` | `validate_cadence`, `compute_next_run` | pure functions |
| `Scheduler` | `ScheduleStore`, `Scheduler`, `/v1/schedules` | EXTENDS `Cadence` |
| `McpClient` | `mcp/client.py`: one JSON-RPC connection | |
| `Mcp` | `McpManager`, and what a commit and the lifespan do with it | sees of a client what the manager sees: set, alive, its process; shares no name with `McpClient`, so that one module proves about both |
| `Memory` | state files, their mirror rows, archive notes | |
| `Projects` | projects, their documents, the sessions filed under them | EXTENDS `Memory` |
| `Archive` | turns of every path, transcripts, titles, reflection, skills, clients, the relay's window | EXTENDS `Projects` and composes with both |
| `Workspace` | the workdir of a session: `fs_write`, `fs_undo`, shell, tokens, journal | |
| `AgentLoop` | the loops that share a workdir | EXTENDS `Workspace` |
| `Loadout` | KV types, VRAM budget, planner, measured buffers, reboots | |
| `Ultra` | one Ultra request on what was planned, with its SLAP transcript | EXTENDS `Loadout` |
| `Prompt` | injection, folding, compression and the guard of a chat request | |
| `Research` | the stages of a research job | |
| `Providers` | the external providers' registry | |
| `Requests` | the three above; they share no state, and a behaviour has one of them | composition for TLC |
| `MC*` | the instances that TLC checks | |
| `*Proofs` | theorems about the module they extend | |

An action is the code between two awaits of one handler or task, with every
state change it makes. Names follow the source: `EnsureLoaded`, `ReapLocked`
(the part of `_reap_once` under the lock), `Settle` (`_set_terminal`), `Launch`
(`_launch`), `Commit` (`ConfigManager.apply`). Definitions marked "Mutant:" are
wrong on purpose: each is a plausible bug in the definition it stands next to,
named in `PROJECT.json`, and makes one property fail.

### 2.1 Residency

A caller (`pc`) is `out`, then admitted at once (`using`), waiting for the lock
(`queued`) or the one that warms (`warming`). `owner` and `waiters` are the
`asyncio.Lock`, which lets a newcomer in only past an empty queue. `Chats` are
counted by the `ActivityTracker`, the research `Job` by its row, and `Imports`
(the import route's compression) by nobody. `start_all` treats the slots of
`todo` one by one: a slot becomes a placeholder (`StartNull`: no binary or
weights), is spawned and waits for `/health` (`StartSpawn`, then `StartHealthy`
or `StartUnhealthy`), or its spawn raises, which aborts the warm-up
(`StartRaises`). `Register` is the assignment to `_slots`, where a previous
backend is forgotten with the process (`orphaned`) and the watcher (`haunted`)
it may still have. `_watch` is `WatchExit`, `WatchRespawn`, `WatchHealth`, one
per await. The reaper's pass is `ReapPass` (the check without the lock and, when
the lock is free, the unload at once) and `ReapLocked` (the second check).
`age` is the time since `_last_activity`, saturating at the window.
`interrupted` is a history variable: a warm-up was cancelled or raised.

### 2.2 SlotGate

A chat is checked (`Arrive`), then prepares and joins (`Join`); a chat with
`stream_events` waits `QUEUE_NOTICE_AFTER_S` (`timed`), gives its place up, sends
its notice (`Notice`) and queues again (`Rejoin`). Internal runs skip the check.
`Abandon` is a disconnect, a DELETE or a shutdown wherever the run waits.

### 2.3 Jobs and DeferredApply

A job has a row (survives), a task (does not) and a report file (survives).
`Delete` writes the row and then cancels the task, which unwinds later
(`Unwind`) or, when it had not been entered, never runs (`doomed`, `Vanish`).
`CrashAfterReport` is a crash between the report and the row's last update;
`Restart` any other end of the process, followed by `recover_orphans`. A stream reads the
row (`Open`), sends its snapshot, and only then registers its queue
(`Subscribe`).

`DeferredApply` adds the settings in memory and their two files. `Commit` is
`ConfigManager.apply`; its nondeterministic `dying` is a crash between writing
`config.toml` and unlinking `staged.toml`. The end of the last chat and a job's
terminal state both run `MaybeCommit`.

### 2.4 Cadence and Scheduler

The clock is a point of the week, `due` the distance to `next_run_at` (what a
stored UTC timestamp amounts to). `SetClock` is a change of the UTC offset; the
history variable `drift` records how far the wall clock was moved since a fire
time was computed, and `stale` that a PATCH computed it from a cadence which another PATCH had
replaced by then. A run task is `launched`, `running`, `over` (its done
callback pending); `table` is `_running`. `PatchRead` and `PatchWrite` are the two
halves of `patch_schedule`, apart because it awaits the body in between.

### 2.5 McpClient and Mcp

In `McpClient` a caller of `_request` is (`where`) `out`, `waiting` on its future, or
`woken`. `process` is the server's, `isDead` the client's `_dead`. `pending` is `_pending`, `mine` a history variable: the count of the
request, against which the id is compared. The server writes replies to what it
has read, in any order, late or twice (`Answer`); `Read` is one turn of the
reader with `_dispatch`; `ReadFails` its end. An error that is neither empty nor an
object makes `_dispatch` raise after it took the future out (`ReadRaises`): the reader
is `crashed`, the server is not marked dead, the caller is `Lost`. `stop` is two actions around its
wait for the process; a call that stops a server it found dead may be cancelled
there (`StopAbandoned`), and behind a crashed reader it raises at once (`StopRaises`).

In `Mcp` an object is a `_ServerState` with the one client it ever starts:
`held` says `state.client` is set, `proc` and `dead` make up `alive`. `Main` is the
lifespan, the other tasks are resyncs, of either origin: `Apply` (which polls the
providers before its resync reads the settings) or `DeferredCommit` (which
passes the settings of that moment). A task walks its first loop (`visit`, `Sweep`,
`SweepStopped`) and then its second (`fill`, `Fill`, `Started`, `StartFails`).
A server whose client gives up on it while it lives is `Deafen`; one whose reader
raised (`Jam`) is `jammed`, and whoever stops it raises: a resync
(`SweepCannotStop`, `StartRaises`), a call (`CallCannotStop`), the boot or the
shutdown (`StartRaises`, `ShutdownRaises`), after which the lifespan has `failed`.
Three history variables name what the code promises nothing about, and the findings say
what goes wrong: `crossed`, two of these operations were in flight
together; `mute`, the objects whose client gave up under a resync or whose reader raised while they
started; `raised`, the last resync could not stop a server.

### 2.6 Memory, Projects and Archive

Nothing in `Memory` awaits, so each request is one step: `WriteState`,
`WriteNote` (`create_entry`), the edits and deletes of the two HTTP surfaces,
`Remirror` (boot). `file` survives a crash; a `mirror` row has a title, a content
and a source session. `retitled` is a history variable: since the boot an entry was given
another title, after which its file is not found by it any more. `Projects` has the foreign
key of documents and the bare column of sessions; ids are given once.

In `Archive` a turn is begun by a client that resends what it holds (`held`; for a
Telegram chat the relay's `deque`), or by the scheduler. `Finish` ends a turn whose path
records before it answers; `Answer` and `RecordAnswered` are the two halves of those
that answer first (an OpenAI stream may be closed in between, and is then not recorded); `Leave` and `Cancel` a client that goes and the run that is
cancelled for it. `Recording` is `_record_exchange` with what it schedules: it
may lose rows to a locked database, mark skills verified, start a titling and
count towards a reflection. `TitleBegin` and `TitleEnd` are apart because the model
generates in between; `Reflect` writes memory. `Crash` may keep any prefix of
the rows of the turn being recorded, each being its own commit. History
variables: `mixed` (sessions whose turns overlapped), `rivals` (titlings at work when
a title was set), `proven` (skill texts a successful run had injected), `crossed`
(projects deleted under a turn that named them).

A run of the model has a budget of events (`left`), chosen in the initial state.

### 2.7 Workspace and AgentLoop

`journal` is the directory of numbered entries, `tokens` what a run's denials issued,
each bound to a string (`Signature`): a write's path and content, an undo's number, or a command as
it is. The three tools share one dict, so a command whose text is the
signature of a write (`Spells`) matches its token and the other way round. `fs_write`
writes its entry, then the file, then prunes the journal; either write may fail or the
process die in between, which leaves `Torn` content. A command changes any
file, also into bytes that are not text (`Raw`); the journal then keeps what
reading makes of it (`Lossy`). The journal lies in the workdir, so a command may also
remove, damage or rewrite an entry; entries that a command adds are left out.
History variables: `edits`, the journaled edits in order, `closed` when undone, never applied or
touched by a command; and `unshown`: a gated operation was applied whose string no denial had
shown.

In `AgentLoop` a completion with calls is `Call`, any that ends the run (or a client that
leaves) is `End`; a call is answered by `Run`, which does what the tool does, or by `Malformed`: rejected
against the repair budget, or abandoned because that ran out. The last answer of the last round
adds the message of the ceiling (`Reply`). Only the shell and the web tools
await within a call, so a call is one step.

### 2.8 Loadout and Ultra

`Loadout` computes a plan from the machine and the settings as the planner does:
margins, the ladder of rungs, notices. A launch measures how the use of the GPUs
grew and stores the buffers, which the next boot plans with.

In `Ultra` a sub-task is waiting, running or finished; `queue` is the `asyncio.Queue`
of events and done markers, which the drain loop counts. `told` is what the client
has received, `slap` the transcript of the run and `trace` what the trace store has of it.

### 2.9 Prompt, Research, Providers

`Prompt` takes a request through the stages of the handler: `Inject` (project, memory,
skills, identity, each put in front), `Merge`, `Compress`, the rungs of `Guard`,
and the messages of the loop. A message knows which of the client's messages it stands for (`of`), so
that nothing can be lost unnoticed; sizes are the program's own estimates.

`Research` is the pipeline: a plan with repairs or its fallback, searches, pages,
cross-check, report. `coverage` is the line in the prompt of the report that says how many sources
could be read; `report` is whether there is one and whether the code put the degrade note
before it. What the model writes is not modelled. `brought` is a history variable: what each search gave.

In `Providers` a refresh polls one provider after the other and replaces the registry at its end.
`known`, `answers` and `overlapped` are history variables: the last list of each
provider since it was enabled, whose last poll succeeded, and whether two refreshes were
in flight together.

### 2.10 Assumptions

- An asyncio coroutine is not interrupted between awaits, and an `asyncio.Lock`
  is FIFO: this is how CPython's library behaves, and the actions rest on it.
- A write of one file, and a statement on SQLite, is atomic with respect to a
  crash. `write_text` (`config.py:557`) does not guarantee that; it is listed as a
  hazard without a property.
- A freshly spawned process is alive; it may crash at any time after.
- Ids of sessions, projects and documents are never given twice (`uuid4`, `secrets`).
- Sizes in `Prompt` neglect what joins two messages, and in `Loadout` they are chosen so
  that no KV size has to be rounded.

## 3. The checks

| Run | Shows |
|---|---|
| `residency` | in every interleaving of a chat, an import, the research job and the reaper over two slots: no unload under work (`NeverUnloadMidGeneration`), no process forgotten or left alive behind "cold" (`VramAccounted`), and the controller implements `ResidencyStates` (`AbstractSpec`) |
| `residency_live` | one slot with crash restarts: no unsupervised ready slot (`ReadyIsWatched`), every `ensure_loaded` returns (`EnsureLoadedReturns`), an abandoned server unloads (`IdleLoadoutReleased`) |
| `slotgate` | five runs at a gate: `CountsWaiters`, `NoOvertaking`, `WaitersAreServed` |
| `deferred_apply` | jobs: `OneJobAtATime`, `ReportsMatchRows`, `NothingAfterTheEnd`, `FollowedToTheEnd`; settings: `NoForgottenApply`, `NeverMidRun`, `PreviewKept` |
| `scheduler` | `NeverOverlap`, `PlanFitsCadence`, `FirstFall`, `DueUntilRun`, `KeepsRunning` |
| `mcp_client` | one MCP connection: everyone gets the answer to its own request (`OwnAnswer`), a death or a stop wakes whoever waits without a timeout, unless a malformed error had ended the reader (`DeathWakesCallers`) |
| `mcp` | no server process escapes the table but in the three cases the property names (`ServersAreOwned`), the connected servers are those of the settings (`ConnectedAsConfigured`), no start, resync or shutdown hangs on a server (`LifecycleEnds`) |
| `archive` | each message at most once and in order (`InOrderOnce`); a title is replaced only by a titling that was already at work (`OnlyRivalsRetitle`); memories, documents and sessions refer to what exists (`ReferencesExist`); the relay's window stays a conversation (`WindowAlternates`); state files and their rows agree (`MirrorsMatch`) |
| `agent` | every call is answered, in order, before the model is asked again (`AnsweredInOrder`); the last edits can be undone (`EditsRecoverable`); a run that confirms applies nothing whose string it did not show (`ApprovedAsShown`) |
| `ultra` | plans fit the machine and none better would (`BestFit`); the client is told of every sub-task, and the transcript has each capability, assign, result and the decision or the client the notice of what it lacks (`ToldInFull`); runs end (`UltraEnds`) |
| `requests` | a prepared request lost nothing untold and fits where it can (`PreparedInFull`); what is put before a report and told its writer is true (`ReportIsHonest`); the registry has what is enabled, with the last known lists (`RegistryIsCurrent`) |
| `prompt_template` | finding: a system message ends up where the chat template refuses one (`TemplateAccepts`) |

### 3.1 Bounds

- `residency`: two slots, so that a warm-up has a slot behind it and one ahead
  when it is interrupted, and so that one slot can fail while the other is up;
  one caller of each kind, since callers of a kind are interchangeable and the
  second and third member of the lock's queue are the other kinds; `KeepAlive = 1`
  (expired or not is all the code asks) and no restarts. `residency_live` gives up
  the second slot for a longer window and for restarts.
- `slotgate`: two chats with notices, a plain chat and two internal runs over a queue of
  two: the queue can be under, at and over its limit, and a run that gives up
  its place has others ahead of and behind it.
- `deferred_apply`: two jobs (a terminal one and its successor, which is what
  "one at a time" is about), one stream, one progress report, two keys of which
  one can be staged while the other is applied, a value and its absence, and at
  most `MaxChats = 2` chats, so that an end is or is not the last.
- `scheduler`: a week of three days of three units, a daily, a weekly and an
  interval cadence, two session ids, and two PATCH requests that may overlap, each
  of which may change the cadence the other has read. One schedule: schedules share the
  clock and the loop and nothing else, two of them with two editors have 3.4 million states, and
  the theorems are for any number. `drift` is
  bounded by one clock change in either direction per stored fire time.
- `mcp_client`: two callers, so that a reply can reach the wrong one; three
  requests, so that one of them asks again after a timeout; two unread replies, so that
  they can be out of order or double; two stoppers, which may overlap. Any reply may be the
  malformed one. 18 thousand states.
- `mcp`: one server name with two commands (a commit can keep, change, remove or
  add it), two resyncs, a call, and two objects: the one in the table and the one
  that replaces it, or an old one a call still holds. Once operations `crossed`, or while a process runs that
  nobody owns, no further commit or call begins (`Calm`): what is in flight runs out, until a reboot.
  `LifecycleEnds` excuses an operation that finds both objects taken in such
  a state, which the code, with objects without end, would not. The configuration has a VIEW,
  `Reachable`, which leaves out what an object still holds that nothing refers to any more: no guard and
  no property reads it before `StartOne` overwrites all of it, so states that differ in it alone
  have the same behaviours. 0.4 million states.
- `archive`: two sessions, one of them a Telegram chat with a window of two; a counter
  that tracks one session; two projects and one document, so that a document can lose
  its project while another one is there. Eight budgets (`Scenarios`), each for one
  kind of trouble with up to four turns: transcripts under disconnects, dropped rows, deletes and
  crashes; the paths nobody else has; three titlings of one session; reflections; edits
  of memory around a turn; a skill rewritten under two turns; projects that
  come and go around two turns. One budget with everything has too many states
  for a check that is run often, and the properties relate few kinds of events at a time.
  2.1 million states.
- `agent`: two runs, one that confirms (code mode, two rounds) and one that does not (a
  sub-agent), one file, three commands, of which one is harmless and one spells the signature of a write; a
  journal of two and three edits, so that it is pruned and its
  numbers are reused; completions of up to two calls, so that one can use up the repair budget
  and leave another; two tokens a run, so that a token is there for another operation than the one asked
  for. 5.3 million states.
- `ultra`: thirteen machines at and around each tier and rung, from none to two GPUs, and six
  settings; two boots, so that the second is planned with what the first measured. Requests are made
  where two workers, one and none fit, with up to two sub-tasks in sequence and one SLAP message
  that fails its schema. 0.2 million states.
- `requests`: a context of 4000 tokens and messages of 200 or 700, up to seven, so that each rung of
  the guard is reached and is or is not enough; three URLs for two queries and two sources, so that
  sources are double and cut to the limit; two providers, two refreshes, two commits. 1.1 million
  states.

### 3.2 Fairness

- `Residency`: weak fairness of every await that the code bounds: start-up by
  `HEALTH_TIMEOUT_S`, stop by `SHUTDOWN_GRACE_S`, restarts by their backoff, the
  reaper by its interval. A generation need not end and no client need call.
- `SlotGate`: a granted lock is taken, a holder releases (each completion is under a
  timeout), and a stream moves past its notice, since its client reads or
  disconnects.
- `Jobs`, `DeferredApply`: the event loop runs ready tasks and sends queued events; a
  pipeline ends; a process that died in `apply` is booted again.
- `Scheduler`: time passes, the loop ticks, runs end, callbacks run. `Execute` is strongly
  fair: a restart can disable it, but a launched task is entered in the next turn of
  the event loop, and the process does not die in each of those turns.
- `McpClient`: the reader, woken callers and `stop` run on the event loop. Timeouts are
  not fair: nobody should need one to learn of a death.
- `Mcp`: tasks run on; a handshake ends by its request timeout, a call by its own, a
  stop by its grace or by raising. A server need never answer, exit or jam.
- `Ultra`: the run and each sub-agent go on: a completion has a timeout, a sub-agent its
  time budget, and a client reads or is found gone. Workers need not become ready.

Deadlock is checked in every passing run but `archive`, `agent`, `ultra` and `requests`: there
requests end, and the bounds on events run out.

## 4. The proofs

All theorems hold for every value of the constants that the named assumptions
allow: any number of chats, slots, jobs, schedules, streams, keys, runs, files and sessions,
any budgets, and any length of the week.

| Module | Theorem | Establishes |
|---|---|---|
| `ResidencyProofs` | `TypeCorrect` | `TypeOK`, with the restart bound |
| | `NeverUnloads` | `NeverUnloadMidGeneration` |
| | `NothingLeaks` | `VramAccounted` |
| | `Refinement` | `AbstractSpec` |
| | `ReadySupervised` | `ReadyIsWatched` |
| | `DrainRestarts` | `DrainRestartsTimer` |
| `SlotProofs` | `TypeCorrect`, `MutualExclusion`, `CountAccurate`, `FirstComeFirstServed` | `TypeOK`, `OneDecodes`, `CountsWaiters`, `NoOvertaking` of `SlotGate` |
| | `LoadoutsFit`, `ClientIsTold` | `BestFit` of `Loadout`, `ToldInFull` of `Ultra` |
| `DeferredApplyProofs` | `TypeCorrect`, `OneJob`, `Final`, `Reports`, `EndComesLast` | the job properties |
| | `JobsInside`, `JobPromises` | the application implements `Jobs`, so the job theorems hold in it |
| | `AppTypeCorrect`, `NeverForgotten`, `MidRunNever`, `PreviewNeverLost` | the settings properties |
| `SchedulerProofs` | `TypeCorrect`, `FirstFallAlways`, `OneRun`, `NothingDueIsLost`, `PlansFit` | the schedule properties, for any number of schedules and of PATCHes in flight |
| `McpProofs` | `ClientTypeCorrect`, `AnswersTheirOwn`, `NoneLeftPending` | `ClientTypeOK`, `OwnAnswer`, `PendingIsAwaited` |
| | `McpTypeCorrect`, `NoneIsOrphaned`, `TableFollowsSettings` | `TypeOK`, `ServersAreOwned`, `ConnectedAsConfigured` |
| `RequestsProofs` | `RegistrySettles`, `ReportsAreHonest`, `PromptsAreWhole` | `RegistryIsCurrent`, `ReportIsHonest`, `PreparedInFull` |
| `AgentLoopProofs` | `LoopTypeCorrect`, `EveryCallAnswered`, `ShownFirst`, `Recoverable` | `LoopTypeOK`, `AnsweredInOrder`, `ApprovedAsShown`, `EditsRecoverable` |
| `ArchiveProofs` | `RecallSeesTheFiles`, `ReferencesHold`, `TitlesSettle` | `MirrorsMatch`, `ReferencesExist`, `OnlyRivalsRetitle` |
| | `TranscriptsKeepOrder`, `WindowsAlternate` | `InOrderOnce`, `WindowAlternates` |

Why the properties need more than themselves:

- **Residency.** `NeverUnloadMidGeneration` says nothing of who holds the lock.
  `LockInv` ties `owner` to the phase of each party: a warming caller holds the
  lock, the reaper holds it exactly while `_unloading` is set, `_loaded` is false
  during a warm-up and true during an unload. `JobInv` says a job not yet started
  was not cancelled, so that it is counted as busy before it is served. For
  `VramAccounted`, `SlotInv` follows each slot through a warm-up
  (`todo` untreated slots are quiet) and through an unload (slots no longer in
  `todo` are quiet), and `BackendInv` says a watcher between two processes, or
  one that raised, has none alive: without it a `stop` that raises would leak.
  `Refinement` uses the same invariants.
- **SlotGate.** Exclusion and the count are inductive together with the statement
  that the queue holds exactly the waiting runs, once each. `NoOvertaking` follows
  from it: a grant goes to the head, and a newcomer enters only past an empty queue.
- **Loadout.** What a plan promises is `IsBest`. `Total` is a fold of the library over a set: its
  recursive function is `IsSum`, and `SumsExist` and `SumsAgree` show that there is one and that
  it does not matter of which set a set is taken to be a part, `AnyFirst` that any member may come
  first. There is no induction over sets: a statement that failed would fail for a
  least number of members (`Least`). `LadderFalls` says that while nothing is measured each rung of the
  ladder is at most as large as the one before, so that the first that fits is the largest; it
  is false as soon as something is measured, hence the antecedent in `BestFit`. `BestInv` is
  inductive because only a boot plans and only the first measurement ends that antecedent.
- **Ultra.** `ToldInv` is about all that has happened, `Stream`: what the client has and then what is
  still queued. `Streamed` and `Transcribed` say what there is of a sub-task in each of its
  states, and that its spawn and its timeout come before its result; `MarksInv` that the
  markers counted and those in the queue are as many as the finished sub-tasks, and that once
  none runs the queue ends with a marker. So a drain loop that has counted all of them has emptied
  the queue, and what the client has is all there is. An end whose marker came first would break it.
  `SaidInv` is the same for SLAP: of each capability and of the decision too there is exactly one message
  or one notice, every assign comes after the capability of its worker, and the decision is said
  when `subs` does not change any more, so that its count is right and it is the last.
- **Jobs.** `Owned` says that a task which may still act agrees with its row
  (a ready task has a queued row, a running one a running row) and that a report
  belongs to a finished row; `TerminalIsFinal` and `ReportsMatchRows` follow from
  it step by step. `NothingAfterTheEnd` rests on `StreamInv`: only a subscribed
  stream has a queue, and the terminal event in it is the last and the row's.
- **DeferredApply.** Every step is a step of `Jobs` or a stutter (`JobsInside`).
  `NoForgottenApply` rests on `PendingInv` (a pending apply has a stage and a busy
  system) and `PreviewKept` on `FilesInv` (the files say what memory says, nulls
  left out; in the crash window of `Commit` the leftover stage is already in force).
- **Scheduler.** `OneRun` rests on `TableInv`: `_running` knows each task until
  its callback ran. `PlansFit` follows each writer of `next_run_at`: what it planned fits the cadence it
  had, which is the row's unless it is marked `stale`; and rests on week arithmetic: `%` and `div` by the
  day and by the week, a wound-up moment falling on the same time of day.
- **McpClient.** `OwnAnswer` needs both ends: `ServerInv` says every reply on the way
  pairs an id with the request that had it, `Matched` that an id is one caller's,
  that it is the count of its request, and that ids above the counter are free.
  `NoneLeftPending` has that a `crashed` reader reads no second reply, so that one caller at most is
  `Lost`.
- **Mcp.** Once two lifecycle operations `crossed` only types are claimed. Until then
  `McpInv` is `Orderly`: `Alone` says which one operation may be in flight in each phase, `Locals`
  who has an object in hand, `Filed` that the table files an object under its own name. `ResyncInv`,
  `BootInv` and `CloseInv` say how far the operation in flight has brought the table: every name
  outside the names still to visit is as its target wants it (`Treated`), and `Aims` that this
  target is the settings in force, or another resync is about to follow. `Treated` must speak of dead
  connections too, or a call that reconnects between two awaits would seem to undo it.
- **Providers.** `RegistryIsCurrent` is about moments when nothing is in flight; `RegistryInv` is
  about the refresh that leads there. What it has found is what the registry has to show of the
  providers it polled; of those it has yet to poll the old registry still shows the last list.
  Both fail once a second refresh replaces the registry underneath, hence `overlapped`.
- **Research.** `ResearchInv` follows the pipeline by stage: while the searches run the sources are
  exactly what was found, once each (`SourcesInv`), afterwards a first part of it as long as the
  limit allows, or the plan's own addresses if nothing was found (`SelectedInv`); each source fetched has
  its note (`NotesInv`), and the last percentage told is that of the stage (`ToldInv`);
  the coverage counts the notes once they are complete. The merge of the
  results is a fold of the library, whose function `FoldExists` constructs.
- **Prompt.** `PromptInv` says by stage what the turns are and what has the rest: first the request is
  whole, behind whatever was injected; merged, it is one system message that has all of the
  client's, and the turns (`Merging`); compressed, it is system messages and the turns but for
  the first `folded`, which are in a summary (`Folding`). There no message begins like an
  injection any more, so the guard's first rung changes nothing (`NothingInjected`) and its cut of turns
  is the least that fits or all that may go (`Guarding`). The limit is about a sum: `SumIsLast`
  makes it the last of the partial sums, which `SumsExist` constructs, as `Merged`'s fold is. `AtIs` says
  what a selection of messages is, and `TurnsAre` and `DroppedAre` what it is of system messages and
  turns after them.
- **AgentLoop.** `LoopInv` says that the messages so far are rounds of a call message and its results
  in order, and that the last round is answered up to the call under way. `TokenInv` ties a token
  to what was shown: without it a token used twice would approve what `unshown` counts. A token is known
  by its string alone, and `KnownBySignature` says which operations have the same one.
  `EditsRecoverable` needs `JournalInv`: numbers ascend with the edits that are not
  closed, the next number is above all of them, and pruning takes the smallest; `EntryGoes` that an entry
  can go, or be rewritten by a command, only with its edit closed. What is left in the
  journal is then the newest, whatever failed or died in between.
- **Archive.** `MemoryInv` says that until an entry is retitled a row exists exactly for each file,
  under its name; `ActorInv` that turns, titlings and reflections are about sessions. `SourceInv`
  is inductive because `DeleteSession` clears the citations and every write asks for the session
  in the same step. `ProjectInv` adds what a request under way may name: a project there is, or
  one whose deletion found it under way and so is in `crossed`. `TitlesSettle` follows from
  a titling's being `generating` only for a session that had no title when it began.

  `TurnInv` says that turns begin in their order and that the request of one under way is a
  conversation that ends with the turn's own message. `HeldInv` and `RowsInv` are about the two
  places where conversations are kept: what a client or the relay holds alternates and is older
  than any turn to come, what is archived rises in `Position` and has nothing of a turn that is not
  recorded yet. A truncated transcript is a selection of rows: `KeptAt` finds the row that the i-th
  one kept was by the least element of a set of numbers (`Least`, from the library's well-founded
  minimum), which does without an induction over the transcript.

So every invariant and every action property of the passing runs is stated by a theorem, for any
values of the constants that the named assumptions allow. Only the liveness properties are
TLC's alone: temporal reasoning under fairness and ENABLED is outside what the backends prove.

## 5. Findings

Each is an entry of `findings` in `PROJECT.json`, with the line and the text it
disagrees with. One has a run with a counterexample, `prompt_template`. Nine more can be
reproduced by adding a definition that the modules keep for it to a configuration, where TLC finds it violated:

| Add | to | Finding |
|---|---|---|
| PROPERTY `WorkEndLeavesTheWindow` | `MCResidencyLive.cfg` | the keep-alive timer is not restarted when a research job ends |
| INVARIANT `ColdMeansNothingResident` | `MCResidency.cfg` | an interrupted warm-up leaves llama-servers running behind "cold" |
| INVARIANT `QueueBounded` | `MCSlotGate.cfg` | the waiter limit is checked before awaits that precede the wait |
| PROPERTY `StreamCloses` | `MCDeferredApply.cfg` | a stream that reads its row before, and subscribes after, the job's end stays open |
| INVARIANT `FallsOnTheWallClock` | `MCScheduler.cfg` | a fire time computed before a DST change is off the wall clock after it |
| PROPERTY `EveryDeathWakes` | `MCMcpClient.cfg` | an error that is no object ends the reader: its caller, and later ones, are not told of the server's death |
| INVARIANT `NoOrphan` | `MCMcp.cfg` | a server that falls silent under a single resync, or whose reader raised, is replaced and runs on |
| INVARIANT `NeverRaises` | `MCMcp.cfg` | stopping a server whose reader raised makes a resync, the boot or the shutdown raise |
| INVARIANT `VerifiedWasUsed` | `MCArchive.cfg` | a skill rewritten under a run is verified by it |

Others are why a property excuses something, and fail as soon as the excuse is taken out:
overlapping resyncs and a resync that crosses the shutdown (`crossed` in `Mcp`), silent and jammed servers (`mute`,
`raised`, the phase `failed`), a PATCH that plans from a replaced cadence (`stale`), staged nulls
(`PreviewKept`), overlapping titlings (`rivals`), a title edited by hand (`retitled`), a turn that
outlives its project (`crossed` in `Archive`), a client that resends what failed (`held`), undo numbers that are reused
and tokens of the three tools in one dict (`ApprovedAsShown` goes by the string that is compared), commands that
touch the journal and files that are not UTF-8 (`EditsRecoverable`), a HEAD that is not text (`UltraEnds`), overlapping refreshes (`overlapped`). The rest were met
while translating: assertions that fail when a DELETE comes during the await of a PATCH, a stopped
call that reads `.alive` of nothing, a commit while a cancelled job still unwinds, states and stages that outlive their meaning, and what the
docs say of the guard, the planner and the report that the code does not do.

## 6. What is not modelled

- Text and data: prompts, HTML extraction, SSE framing, diffs, ranking and the search index,
  GGUF metadata, validation of request bodies, the parsers of exports and of SKILL.md files, the path
  jail. No property here depends on them.
- Pure I/O: search adapters, the installer, the CLI and the benchmarks; the mock server; the status
  and model listings, which are projections of modelled state.
- Gateways but for the relay's window: pairing and its rate limit are straight-line code within one step;
  the WhatsApp link is a stub around an external bridge.
- Within modelled parts: the "stay hot" setting and a change of `keep_alive` at run
  time; `LoadController.stop` at shutdown; a torn write of a settings file; names and
  descriptions of projects; compaction of a state file past its cap; eviction of old
  sessions from the SLAP trace store; the 16-page bound of an MCP tool list.
- Titling, reflection and compression generate outside the busy count; `Imports`
  stand for them in `Residency`, and no property promises them anything.
- The paths of a request are not composed with the gate in one run: `Archive` lets turns of
  one session overlap where the gate would serialise those of a slot, which only
  adds behaviours.

## 7. Plan

1. An abstract specification of the MCP manager: a set of connected servers that follows the
   settings.
2. Pairing and its rate limit, if they come to span several steps.

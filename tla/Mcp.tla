-------------------------------- MODULE Mcp --------------------------------
(***************************************************************************)
(* The MCP servers of the process (mcp/manager.py): started with the       *)
(* lifespan, brought in line with the settings after each commit (resync), *)
(* called by chats, stopped at the end. A commit at POST /v1/system/apply  *)
(* awaits the provider refresh and its resync; a deferred one schedules a  *)
(* resync task. Nothing serialises the resyncs.                            *)
(*                                                                         *)
(* McpClient has the inside of a connection. Here each _ServerState object *)
(* is one with the client it starts, since it starts one at most. A reader *)
(* that ended with an exception ("jammed") leaves its client alive; stop() *)
(* then raises, which none of its callers expects.                         *)
(***************************************************************************)
EXTENDS FiniteSets, Naturals

CONSTANTS
  Servers,   \* server names
  Commands,  \* a command with its arguments
  Off,       \* the settings have no such server, or have it disabled
  Resyncs,   \* resyncs that may be in flight together
  Main,      \* the lifespan: start() and shutdown()
  Calls,     \* tool calls of the chats
  Objects,   \* _ServerState objects, reused once nothing refers to them
  None

Tasks == Resyncs \cup {Main}
Targets == [Servers -> Commands \cup {Off}]

ASSUME McpAssumption ==
  /\ IsFiniteSet(Servers)
  /\ Off \notin Commands
  /\ Main \notin Resyncs
  /\ None \notin Objects \cup Servers

VARIABLES
  phase,    \* of the lifespan
  wanted,   \* combined_mcp_servers(settings)
  table,    \* _servers
  srv,      \* an object's settings.name
  cmd,      \* its settings.command and args
  held,     \* its client is set
  dead,     \* that client's _dead
  proc,     \* that client's subprocess
  jammed,   \* its reader ended with an exception
  pc,       \* where each task is
  target,   \* the servers argument of a resync
  visit,    \* names its first loop, or shutdown(), has still to treat
  fill,     \* names its second loop has still to treat
  at,       \* the name it is at while it awaits
  cur,      \* the object it stops or starts
  size,     \* len(_servers) when shutdown() began to iterate
  call,     \* where each call is
  on,       \* its object
  crossed,  \* history: two lifecycle operations were in flight together
  mute,     \* history: objects whose reader gave up under a resync, or raised
            \* while they started
  raised    \* history: the last resync could not stop a server and raised

objVars == <<srv, cmd, held, dead, proc, jammed>>
taskVars == <<pc, target, visit, fill, at, cur, size>>
callVars == <<call, on>>
history == <<crossed, mute, raised>>
vars == <<phase, wanted, table, objVars, taskVars, callVars, history>>

TypeOK ==
  /\ phase \in {"booting", "serving", "closing", "closed", "failed"}
  /\ wanted \in Targets
  /\ table \in [Servers -> Objects \cup {None}]
  /\ srv \in [Objects -> Servers \cup {None}]
  /\ cmd \in [Objects -> Commands \cup {Off}]
  /\ held \in [Objects -> BOOLEAN]
  /\ dead \in [Objects -> BOOLEAN]
  /\ proc \in [Objects -> {"none", "running", "exited"}]
  /\ jammed \in [Objects -> BOOLEAN]
  /\ pc \in [Tasks -> {"out", "refreshing", "scheduled", "looping", "stopping", "starting"}]
  /\ target \in [Tasks -> Targets]
  /\ visit \in [Tasks -> SUBSET Servers]
  /\ fill \in [Tasks -> SUBSET Servers]
  /\ at \in [Tasks -> Servers \cup {None}]
  /\ cur \in [Tasks -> Objects \cup {None}]
  /\ size \in 0..Cardinality(Servers)
  /\ call \in [Calls -> {"out", "waiting", "cleaning"}]
  /\ on \in [Calls -> Objects \cup {None}]
  /\ crossed \in BOOLEAN
  /\ mute \in SUBSET Objects
  /\ raised \in BOOLEAN

Names == {s \in Servers : table[s] # None}
Enabled(w) == {s \in Servers : w[s] # Off}

\* A process that has just booted, with these servers in its settings: start()
\* is about to connect the enabled ones. (The disabled ones have an object that
\* is never started; the table leaves them out.)
Booted(w) ==
  /\ phase = "booting"
  /\ wanted = w
  /\ table = [s \in Servers |-> None]
  /\ srv = [o \in Objects |-> None]
  /\ cmd = [o \in Objects |-> Off]
  /\ held = [o \in Objects |-> FALSE]
  /\ dead = [o \in Objects |-> FALSE]
  /\ proc = [o \in Objects |-> "none"]
  /\ jammed = [o \in Objects |-> FALSE]
  /\ pc = [t \in Tasks |-> IF t = Main THEN "looping" ELSE "out"]
  /\ target = [t \in Tasks |-> IF t = Main THEN w ELSE [s \in Servers |-> Off]]
  /\ visit = [t \in Tasks |-> {}]
  /\ fill = [t \in Tasks |-> IF t = Main THEN Enabled(w) ELSE {}]
  /\ at = [t \in Tasks |-> None]
  /\ cur = [t \in Tasks |-> None]
  /\ size = 0
  /\ call = [k \in Calls |-> "out"]
  /\ on = [k \in Calls |-> None]
  /\ crossed = FALSE
  /\ mute = {}
  /\ raised = FALSE

Init == \E w \in Targets : Booted(w)

\* McpClient.alive.
Alive(o) == proc[o] = "running" /\ ~dead[o]

\* The table leads to it, or a task that is starting it has it in hand.
Owned(o) ==
  /\ srv[o] # None /\ table[srv[o]] = o
  /\ held[o] \/ \E t \in Tasks : cur[t] = o

\* Bound: once operations crossed, or while an orphan runs, no commit and no call
\* begins; what is in flight runs out.
Calm == ~crossed /\ \A o \in Objects : proc[o] = "running" => Owned(o)

InFlight(t) == pc[t] \notin {"out", "refreshing"}
Working(t) == pc[t] \in {"looping", "stopping", "starting"}
OthersInFlight(t) == \E u \in Tasks \ {t} : InFlight(u)

\* A task that is done forgets its locals.
Leave(t) ==
  /\ pc' = [pc EXCEPT ![t] = "out"]
  /\ target' = [target EXCEPT ![t] = [s \in Servers |-> Off]]
  /\ visit' = [visit EXCEPT ![t] = {}]
  /\ fill' = [fill EXCEPT ![t] = {}]
  /\ at' = [at EXCEPT ![t] = None]
  /\ cur' = [cur EXCEPT ![t] = None]
  /\ UNCHANGED size

-----------------------------------------------------------------------------
(* Commits. *)

\* POST /v1/system/apply: the new settings are in force, the providers are
\* polled, and the resync that follows reads the settings as they are by then.
Apply(t) ==
  /\ Calm
  /\ phase = "serving" /\ pc[t] = "out"
  /\ \E w \in Targets : wanted' = w
  /\ pc' = [pc EXCEPT ![t] = "refreshing"]
  /\ UNCHANGED <<phase, table, objVars, target, visit, fill, at, cur, size, callVars, history>>

\* resync(), up to its loops.
BeginResync(t, w) ==
  /\ pc' = [pc EXCEPT ![t] = "looping"]
  /\ target' = [target EXCEPT ![t] = w]
  /\ visit' = [visit EXCEPT ![t] = Names]
  /\ fill' = [fill EXCEPT ![t] = Enabled(w)]
  /\ UNCHANGED <<at, cur, size>>

Refreshed(t) ==
  /\ pc[t] = "refreshing"
  /\ BeginResync(t, wanted)
  /\ crossed' = (crossed \/ OthersInFlight(t) \/ phase # "serving")
  /\ UNCHANGED <<phase, wanted, table, objVars, callVars, mute, raised>>

\* maybe_commit_staged() with resync_soon(): the task is created with the new
\* settings. The end of a job may do this while the lifespan ends.
DeferredCommit(t) ==
  /\ Calm
  /\ phase \notin {"booting", "failed"} /\ pc[t] = "out"
  /\ \E w \in Targets : wanted' = w /\ target' = [target EXCEPT ![t] = w]
  /\ pc' = [pc EXCEPT ![t] = "scheduled"]
  /\ crossed' = (crossed \/ OthersInFlight(t) \/ phase # "serving")
  /\ UNCHANGED <<phase, table, objVars, visit, fill, at, cur, size, callVars, mute, raised>>

Scheduled(t) ==
  /\ pc[t] = "scheduled"
  /\ BeginResync(t, target[t])
  /\ UNCHANGED <<phase, wanted, table, objVars, callVars, history>>

-----------------------------------------------------------------------------
(* resync(), loop by loop: an action is one turn of a loop, or what follows  *)
(* an await in it. (Turns without an await run on in the code; apart, they   *)
(* let others in between them as an await of a further server would.)        *)

\* Mutant: the name alone is compared.
UnchangedName(t, s, o) == target[t][s] # Off

\* The wanted command is the one that runs.
Unchanged(t, s, o) == target[t][s] = cmd[o]

Drop(t, s) == table' = IF target[t][s] = Off THEN [table EXCEPT ![s] = None] ELSE table

\* Its client is to be stopped, and its reader raised.
CannotStop(t, s) ==
  LET o == table[s] IN held[o] /\ jammed[o] /\ ~(Unchanged(t, s, o) /\ Alive(o))

Sweep(t, s) ==
  /\ t \in Resyncs /\ pc[t] = "looping" /\ s \in visit[t]
  /\ table[s] # None /\ ~CannotStop(t, s)
  /\ visit' = [visit EXCEPT ![t] = @ \ {s}]
  /\ LET o == table[s] IN
       \/ /\ Unchanged(t, s, o) /\ held[o] /\ Alive(o)
          /\ UNCHANGED <<table, dead, pc, at, cur>>
       \/ /\ ~(Unchanged(t, s, o) /\ Alive(o)) /\ held[o]
          /\ dead' = [dead EXCEPT ![o] = TRUE]
          /\ pc' = [pc EXCEPT ![t] = "stopping"]
          /\ at' = [at EXCEPT ![t] = s]
          /\ cur' = [cur EXCEPT ![t] = o]
          /\ UNCHANGED table
       \/ /\ ~held[o]
          /\ Drop(t, s)
          /\ UNCHANGED <<dead, pc, at, cur>>
  /\ UNCHANGED <<phase, wanted, srv, cmd, held, proc, jammed, target, fill, size, callVars, history>>

\* client.stop() raises out of resync().
SweepCannotStop(t, s) ==
  /\ t \in Resyncs /\ pc[t] = "looping" /\ s \in visit[t]
  /\ table[s] # None /\ CannotStop(t, s)
  /\ dead' = [dead EXCEPT ![table[s]] = TRUE]
  /\ Leave(t)
  /\ raised' = TRUE
  /\ UNCHANGED <<phase, wanted, table, srv, cmd, held, proc, jammed, callVars, crossed, mute>>

\* self._servers[name] raises: another resync deleted the name.
SweepRaises(t, s) ==
  /\ t \in Resyncs /\ pc[t] = "looping" /\ s \in visit[t]
  /\ table[s] = None
  /\ Leave(t)
  /\ UNCHANGED <<phase, wanted, table, objVars, callVars, history>>

\* client.stop() is over.
Stopped(o) ==
  /\ proc' = [proc EXCEPT ![o] = "exited"]
  /\ held' = [held EXCEPT ![o] = FALSE]
  /\ UNCHANGED <<srv, cmd, dead, jammed>>

SweepStopped(t) ==
  /\ t \in Resyncs /\ pc[t] = "stopping"
  /\ Stopped(cur[t])
  /\ Drop(t, at[t])
  /\ IF target[t][at[t]] = Off /\ table[at[t]] = None
       THEN Leave(t)
       ELSE /\ pc' = [pc EXCEPT ![t] = "looping"]
            /\ at' = [at EXCEPT ![t] = None]
            /\ cur' = [cur EXCEPT ![t] = None]
            /\ UNCHANGED <<target, visit, fill, size>>
  /\ UNCHANGED <<phase, wanted, callVars, history>>

\* Objects that nothing refers to.
Free ==
  {o \in Objects :
     /\ proc[o] # "running"
     /\ \A s \in Servers : table[s] # o
     /\ \A t \in Tasks : cur[t] # o
     /\ \A k \in Calls : on[k] # o}

NewObject == CHOOSE o \in Free : TRUE

\* A new object takes the name, and its client is spawned.
StartOne(t, s) ==
  /\ Free # {}
  /\ table' = [table EXCEPT ![s] = NewObject]
  /\ srv' = [srv EXCEPT ![NewObject] = s]
  /\ cmd' = [cmd EXCEPT ![NewObject] = target[t][s]]
  /\ held' = [held EXCEPT ![NewObject] = FALSE]
  /\ dead' = [dead EXCEPT ![NewObject] = FALSE]
  /\ proc' = [proc EXCEPT ![NewObject] = "running"]
  /\ jammed' = [jammed EXCEPT ![NewObject] = FALSE]
  /\ mute' = mute \ {NewObject}
  /\ pc' = [pc EXCEPT ![t] = "starting"]
  /\ cur' = [cur EXCEPT ![t] = NewObject]

\* Mutant: the second loop starts whatever is wanted.
FillAgain(t, s) ==
  /\ pc[t] = "looping" /\ visit[t] = {} /\ s \in fill[t]
  /\ fill' = [fill EXCEPT ![t] = @ \ {s}]
  /\ StartOne(t, s)
  /\ UNCHANGED <<phase, wanted, target, visit, at, size, callVars, crossed, raised>>

\* start(), or the second loop of resync().
Fill(t, s) ==
  /\ pc[t] = "looping" /\ visit[t] = {} /\ s \in fill[t]
  /\ fill' = [fill EXCEPT ![t] = @ \ {s}]
  /\ IF table[s] # None /\ held[table[s]] /\ Alive(table[s])
       THEN UNCHANGED <<table, objVars, pc, cur, mute>>
       ELSE StartOne(t, s)
  /\ UNCHANGED <<phase, wanted, target, visit, at, size, callVars, crossed, raised>>

\* The handshake and tools/list succeeded.
Started(t) ==
  /\ pc[t] = "starting" /\ ~jammed[cur[t]]
  /\ held' = [held EXCEPT ![cur[t]] = TRUE]
  /\ pc' = [pc EXCEPT ![t] = "looping"]
  /\ cur' = [cur EXCEPT ![t] = None]
  /\ UNCHANGED <<phase, wanted, table, srv, cmd, dead, proc, jammed, target, visit, fill, at, size, callVars, history>>

\* Mutant: the handshake has no timeout.
StartFailsLate(t) ==
  /\ pc[t] = "starting"
  /\ proc[cur[t]] = "exited" /\ ~jammed[cur[t]]
  /\ dead' = [dead EXCEPT ![cur[t]] = TRUE]
  /\ pc' = [pc EXCEPT ![t] = "looping"]
  /\ cur' = [cur EXCEPT ![t] = None]
  /\ UNCHANGED <<phase, wanted, table, srv, cmd, held, proc, jammed, target, visit, fill, at, size, callVars, history>>

\* It could not be spawned, died, timed out or spoke no MCP: it is stopped, and
\* its state stays without a client.
StartFails(t) ==
  /\ pc[t] = "starting" /\ ~jammed[cur[t]]
  /\ dead' = [dead EXCEPT ![cur[t]] = TRUE]
  /\ proc' = [proc EXCEPT ![cur[t]] = "exited"]
  /\ pc' = [pc EXCEPT ![t] = "looping"]
  /\ cur' = [cur EXCEPT ![t] = None]
  /\ UNCHANGED <<phase, wanted, table, srv, cmd, held, jammed, target, visit, fill, at, size, callVars, history>>

\* Its request timed out behind a reader that raised, and so does stop(): out of
\* resync(), or out of start() and the lifespan.
StartRaises(t) ==
  /\ pc[t] = "starting" /\ jammed[cur[t]]
  /\ dead' = [dead EXCEPT ![cur[t]] = TRUE]
  /\ Leave(t)
  /\ phase' = IF t = Main THEN "failed" ELSE phase
  /\ raised' = TRUE
  /\ UNCHANGED <<wanted, table, srv, cmd, held, proc, jammed, callVars, crossed, mute>>

\* The loops are over. When start() is, the server begins to serve.
Done(t) ==
  /\ pc[t] = "looping" /\ visit[t] = {} /\ fill[t] = {}
  /\ phase # "closing" \/ t # Main
  /\ Leave(t)
  /\ phase' = IF t = Main THEN "serving" ELSE phase
  /\ raised' = FALSE
  /\ UNCHANGED <<wanted, table, objVars, callVars, crossed, mute>>

-----------------------------------------------------------------------------
(* Servers and calls. *)

\* The process exits.
Crash(o) ==
  /\ proc[o] = "running"
  /\ proc' = [proc EXCEPT ![o] = "exited"]
  /\ UNCHANGED <<phase, wanted, table, srv, cmd, held, dead, jammed, taskVars, callVars, history>>

\* Its reader gives up on a process that lives: stdout closed or a line too long.
Deafen(o) ==
  /\ Alive(o) /\ held[o] /\ ~jammed[o]
  /\ dead' = [dead EXCEPT ![o] = TRUE]
  /\ mute' = IF \E t \in Resyncs : Working(t) THEN mute \cup {o} ELSE mute
  /\ UNCHANGED <<phase, wanted, table, srv, cmd, held, proc, jammed, taskVars, callVars, crossed, raised>>

\* It answers a request with an error that is no object, and the reader raises.
Jam(o) ==
  /\ Alive(o) /\ ~jammed[o]
  /\ \/ /\ \E k \in Calls : call[k] = "waiting" /\ on[k] = o
        /\ UNCHANGED mute
     \/ /\ \E t \in Tasks : pc[t] = "starting" /\ cur[t] = o
        /\ mute' = mute \cup {o}
  /\ jammed' = [jammed EXCEPT ![o] = TRUE]
  /\ UNCHANGED <<phase, wanted, table, srv, cmd, held, dead, proc, taskVars, callVars, crossed, raised>>

\* A call to a server that is not connected returns at once.
Call(k, s) ==
  /\ Calm
  /\ phase = "serving" /\ call[k] = "out"
  /\ table[s] # None /\ held[table[s]] /\ Alive(table[s])
  /\ call' = [call EXCEPT ![k] = "waiting"]
  /\ on' = [on EXCEPT ![k] = table[s]]
  /\ UNCHANGED <<phase, wanted, table, objVars, taskVars, history>>

EndCall(k) ==
  /\ call' = [call EXCEPT ![k] = "out"]
  /\ on' = [on EXCEPT ![k] = None]

\* A result; an error of a server that lives; an error once somebody else has
\* cleared the client (an AttributeError, which the tool registry catches); or
\* the run is cancelled.
CallReturns(k) ==
  /\ call[k] = "waiting"
  /\ EndCall(k)
  /\ UNCHANGED <<phase, wanted, table, objVars, taskVars, history>>

\* An error, and the server is dead: the call stops it.
CallFindsItDead(k) ==
  /\ call[k] = "waiting"
  /\ held[on[k]] /\ ~Alive(on[k]) /\ ~jammed[on[k]]
  /\ dead' = [dead EXCEPT ![on[k]] = TRUE]
  /\ call' = [call EXCEPT ![k] = "cleaning"]
  /\ UNCHANGED <<phase, wanted, table, srv, cmd, held, proc, jammed, taskVars, on, history>>

\* stop() raises out of the call (the tool registry catches it); the dead client stays.
CallCannotStop(k) ==
  /\ call[k] = "waiting"
  /\ held[on[k]] /\ ~Alive(on[k]) /\ jammed[on[k]]
  /\ dead' = [dead EXCEPT ![on[k]] = TRUE]
  /\ EndCall(k)
  /\ UNCHANGED <<phase, wanted, table, srv, cmd, held, proc, jammed, taskVars, history>>

CallCleans(k) ==
  /\ call[k] = "cleaning"
  /\ Stopped(on[k])
  /\ EndCall(k)
  /\ UNCHANGED <<phase, wanted, table, taskVars, history>>

\* The run is cancelled while its call stops the server.
CallAbandoned(k) ==
  /\ call[k] = "cleaning"
  /\ EndCall(k)
  /\ UNCHANGED <<phase, wanted, table, objVars, taskVars, history>>

-----------------------------------------------------------------------------
(* The end of the process. *)

\* The requests are over when the lifespan ends; resync tasks are not.
BeginShutdown ==
  /\ phase = "serving"
  /\ \A t \in Resyncs : pc[t] # "refreshing"
  /\ phase' = "closing"
  /\ pc' = [pc EXCEPT ![Main] = "looping"]
  /\ visit' = [visit EXCEPT ![Main] = Names]
  /\ size' = Cardinality(Names)
  /\ call' = [k \in Calls |-> "out"]
  /\ on' = [k \in Calls |-> None]
  /\ crossed' = (crossed \/ OthersInFlight(Main))
  /\ UNCHANGED <<wanted, table, objVars, target, fill, at, cur, mute, raised>>

\* Its client is there, and its reader raised.
Unstoppable(s) == table[s] # None /\ held[table[s]] /\ jammed[table[s]]

Shutdown(s) ==
  /\ phase = "closing" /\ pc[Main] = "looping" /\ s \in visit[Main]
  /\ Cardinality(Names) = size /\ ~Unstoppable(s)
  /\ visit' = [visit EXCEPT ![Main] = @ \ {s}]
  /\ IF table[s] # None /\ held[table[s]]
       THEN /\ dead' = [dead EXCEPT ![table[s]] = TRUE]
            /\ pc' = [pc EXCEPT ![Main] = "stopping"]
            /\ cur' = [cur EXCEPT ![Main] = table[s]]
       ELSE UNCHANGED <<dead, pc, cur>>
  /\ UNCHANGED <<phase, wanted, table, srv, cmd, held, proc, jammed, target, fill, at, size, callVars, history>>

\* stop() raises out of shutdown() and of the lifespan: what the lifespan would
\* have ended after the MCP servers, and the servers not yet treated, are left.
ShutdownRaises(s) ==
  /\ phase = "closing" /\ pc[Main] = "looping" /\ s \in visit[Main]
  /\ Cardinality(Names) = size /\ Unstoppable(s)
  /\ dead' = [dead EXCEPT ![table[s]] = TRUE]
  /\ Leave(Main)
  /\ phase' = "failed"
  /\ UNCHANGED <<wanted, table, srv, cmd, held, proc, jammed, callVars, history>>

ShutdownStopped ==
  /\ phase = "closing" /\ pc[Main] = "stopping"
  /\ Stopped(cur[Main])
  /\ pc' = [pc EXCEPT ![Main] = "looping"]
  /\ cur' = [cur EXCEPT ![Main] = None]
  /\ UNCHANGED <<phase, wanted, table, target, visit, fill, at, size, callVars, history>>

\* All names are treated, or a resync changed the size of the dictionary during
\* the iteration, which raises.
ShutdownOver ==
  /\ phase = "closing" /\ pc[Main] = "looping"
  /\ visit[Main] = {} \/ Cardinality(Names) # size
  /\ Leave(Main)
  /\ phase' = "closed"
  /\ UNCHANGED <<wanted, table, objVars, callVars, history>>

\* The process ends, in order or not, and the next one boots.
Reboot ==
  /\ phase' = "booting"
  /\ wanted' = wanted
  /\ table' = [s \in Servers |-> None]
  /\ srv' = [o \in Objects |-> None]
  /\ cmd' = [o \in Objects |-> Off]
  /\ held' = [o \in Objects |-> FALSE]
  /\ dead' = [o \in Objects |-> FALSE]
  /\ proc' = [o \in Objects |-> "none"]
  /\ jammed' = [o \in Objects |-> FALSE]
  /\ pc' = [t \in Tasks |-> IF t = Main THEN "looping" ELSE "out"]
  /\ target' = [t \in Tasks |-> IF t = Main THEN wanted ELSE [s \in Servers |-> Off]]
  /\ visit' = [t \in Tasks |-> {}]
  /\ fill' = [t \in Tasks |-> IF t = Main THEN Enabled(wanted) ELSE {}]
  /\ at' = [t \in Tasks |-> None]
  /\ cur' = [t \in Tasks |-> None]
  /\ size' = 0
  /\ call' = [k \in Calls |-> "out"]
  /\ on' = [k \in Calls |-> None]
  /\ crossed' = FALSE
  /\ mute' = {}
  /\ raised' = FALSE

-----------------------------------------------------------------------------
LoopStep(t) ==
  \/ Scheduled(t) \/ Refreshed(t)
  \/ \E s \in Servers : Sweep(t, s) \/ SweepCannotStop(t, s) \/ SweepRaises(t, s) \/ Fill(t, s)
  \/ SweepStopped(t)
  \/ Done(t)

ShutdownStep == ShutdownStopped \/ ShutdownOver \/ \E s \in Servers : Shutdown(s) \/ ShutdownRaises(s)

Next ==
  \/ \E t \in Resyncs : Apply(t) \/ DeferredCommit(t)
  \/ \E t \in Tasks : LoopStep(t) \/ Started(t) \/ StartFails(t) \/ StartRaises(t)
  \/ \E o \in Objects : Crash(o) \/ Deafen(o) \/ Jam(o)
  \/ \E k \in Calls :
       \/ \E s \in Servers : Call(k, s)
       \/ CallReturns(k) \/ CallFindsItDead(k) \/ CallCannotStop(k) \/ CallCleans(k) \/ CallAbandoned(k)
  \/ BeginShutdown \/ ShutdownStep
  \/ Reboot

Spec == Init /\ [][Next]_vars

\* The event loop runs the tasks; the poll of the providers, the stop of a
\* process and the requests of a handshake have timeouts, as calls do. A server
\* need not answer.
Fairness ==
  /\ \A t \in Tasks : WF_vars(LoopStep(t)) /\ WF_vars(StartFails(t) \/ StartRaises(t))
  /\ \A k \in Calls : WF_vars(CallReturns(k)) /\ WF_vars(CallCleans(k))
  /\ WF_vars(ShutdownStep)

FairSpec == Spec /\ Fairness

-----------------------------------------------------------------------------
(* Properties. *)

\* "Owns every configured MCP server for the process lifetime" (manager.py): every
\* MCP server process is one the table leads to, or one that is being started for
\* the table, through crashes, failed starts and cancelled calls; and a shutdown
\* that ends leaves none. Three cases are excused, each a process nobody stops: two
\* resyncs, or a resync and the shutdown, crossed; the server fell silent under a
\* resync, whose second loop replaces a dead client without stopping it; or its
\* reader raised while it started (a shutdown that raises ends as "failed").
ServersAreOwned ==
  ~crossed =>
    /\ \A o \in Objects \ mute : proc[o] = "running" => Owned(o)
    /\ phase = "closed" => \A o \in Objects \ mute : proc[o] # "running"

\* Refuted by TLC (add it to MCMcp.cfg): the same without the excuse of a server
\* that fell silent or whose reader raised.
NoOrphan == ~crossed => \A o \in Objects : proc[o] = "running" => Owned(o)

\* Refuted by TLC: "Failures stay notices, never raises" (resync, manager.py), and
\* "the app never crashes over a server".
NeverRaises == ~raised /\ phase # "failed"

\* Once a commit's resync is over the connected servers run the commands of the
\* settings, no other server is left in the table and none is missing; unless
\* resyncs crossed, or the last one raised because it could not stop a server.
ConnectedAsConfigured ==
  ~crossed /\ ~raised /\ phase = "serving" /\ (\A t \in Tasks : pc[t] = "out") =>
    \A s \in Servers :
      /\ wanted[s] = Off <=> table[s] = None
      /\ table[s] # None /\ held[table[s]] => cmd[table[s]] = wanted[s]

\* A commit's response and the boot wait for servers that may never answer: in a
\* process that lives on, every start, resync and shutdown ends, if only by raising.
\* (The last disjunct is the bound on Objects: orphans took them all.)
LifecycleEnds ==
  <>[][~Reboot]_vars =>
    \A t \in Tasks : pc[t] # "out" ~> pc[t] = "out" \/ (~Calm /\ Free = {})

=============================================================================

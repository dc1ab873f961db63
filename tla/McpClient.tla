----------------------------- MODULE McpClient -----------------------------
(***************************************************************************)
(* The JSON-RPC client of one MCP server (mcp/client.py): requests that    *)
(* wait for the reply with their id, the reader task that hands replies    *)
(* out, timeouts, the server's death and stop(). The handshake, the pages  *)
(* of tools/list and the tool calls are all requests; a caller makes one   *)
(* at a time. A reply whose "error" is no object ends the reader with an   *)
(* AttributeError, which nobody handles.                                   *)
(***************************************************************************)
EXTENDS Naturals, Sequences

CONSTANTS
  Callers,      \* coroutines that make requests
  Stoppers,     \* coroutines that call stop()
  MaxRequests,  \* bound on _next_id
  MaxUnread,    \* bound on the replies in the stdout pipe
  Nobody          \* no caller, no request, no reply

ASSUME McpClientAssumption ==
  /\ MaxRequests \in Nat /\ MaxUnread \in Nat
  /\ Nobody \notin Callers \cup Nat

Ids == 1..MaxRequests
NoReply == [id |-> Nobody, to |-> Nobody]

VARIABLES
  process,  \* the subprocess
  isDead,   \* _dead
  reader,   \* the task of _read_stdout; "crashed": it ended with an exception
  nextId,   \* _next_id, which is also the number of requests ever made
  pending,  \* _pending: the caller whose future an id has
  where,    \* where each caller is in _request
  myId,     \* the id of its request
  mine,     \* history: which request, counted from the first, that is
  reply,    \* what its future was settled with
  asked,    \* the requests the server has read, as the ids and counts they had
  stdout,   \* replies the server has written and the reader has not read
  stop      \* where each stopper is; "cleaning": it found the server dead

serverVars == <<asked, stdout>>
callerVars == <<where, myId, mine, reply>>
clientVars == <<process, isDead, reader, nextId, pending, callerVars, serverVars, stop>>

Request == [id : Ids, to : Ids]

\* "woken": the future is settled and the caller is yet to resume.
ClientTypeOK ==
  /\ process \in {"running", "exited"}
  /\ isDead \in BOOLEAN
  /\ reader \in {"reading", "done", "crashed"}
  /\ nextId \in 0..MaxRequests
  /\ pending \in [Ids -> Callers \cup {Nobody}]
  /\ where \in [Callers -> {"out", "waiting", "woken"}]
  /\ myId \in [Callers -> Ids \cup {Nobody}]
  /\ mine \in [Callers -> Ids \cup {Nobody}]
  /\ reply \in [Callers -> Request \cup {NoReply}]
  /\ asked \in SUBSET Request
  /\ stdout \in Seq(Request)
  /\ stop \in [Stoppers -> {"out", "stopping", "cleaning"}]

\* The process was just spawned.
ClientInit ==
  /\ process = "running"
  /\ isDead = FALSE
  /\ reader = "reading"
  /\ nextId = 0
  /\ pending = [i \in Ids |-> Nobody]
  /\ where = [c \in Callers |-> "out"]
  /\ myId = [c \in Callers |-> Nobody]
  /\ mine = [c \in Callers |-> Nobody]
  /\ reply = [c \in Callers |-> NoReply]
  /\ asked = {}
  /\ stdout = <<>>
  /\ stop = [s \in Stoppers |-> "out"]

IsAlive == process = "running" /\ ~isDead

-----------------------------------------------------------------------------
(* What the handlers share. *)

\* Mutant: the smallest id that is not pending.
FreshIdReused == CHOOSE i \in Ids : pending[i] = Nobody /\ \A j \in Ids : pending[j] = Nobody => i <= j

\* self._next_id += 1.
FreshId == nextId + 1

\* _fail_pending: every pending future gets an error.
FailPending ==
  /\ pending' = [i \in Ids |-> Nobody]
  /\ where' = [c \in Callers |-> IF \E i \in Ids : pending[i] = c THEN "woken" ELSE where[c]]
  /\ UNCHANGED <<myId, mine, reply>>

\* _mark_dead, which does nothing the second time.
MarkDead ==
  /\ isDead' = TRUE
  /\ IF isDead THEN UNCHANGED <<pending, callerVars>> ELSE FailPending

\* The end of _request, its finally clause included.
Return(c) ==
  /\ pending' = [i \in Ids |-> IF i = myId[c] THEN Nobody ELSE pending[i]]
  /\ where' = [where EXCEPT ![c] = "out"]
  /\ myId' = [myId EXCEPT ![c] = Nobody]
  /\ mine' = [mine EXCEPT ![c] = Nobody]
  /\ reply' = [reply EXCEPT ![c] = NoReply]

-----------------------------------------------------------------------------
(* Requests. *)

\* The future is registered and the line is written; if the process has exited
\* unnoticed, the line is lost.
Ask(c) ==
  /\ where[c] = "out" /\ ~isDead
  /\ nextId < MaxRequests
  /\ nextId' = nextId + 1
  /\ pending' = [pending EXCEPT ![FreshId] = c]
  /\ where' = [where EXCEPT ![c] = "waiting"]
  /\ myId' = [myId EXCEPT ![c] = FreshId]
  /\ mine' = [mine EXCEPT ![c] = nextId + 1]
  /\ asked' = IF process = "running" THEN asked \cup {[id |-> FreshId, to |-> nextId + 1]} ELSE asked
  /\ UNCHANGED <<process, isDead, reader, reply, stdout, stop>>

\* _send raises: the client is known not to be alive. The future is discarded at once.
AskInVain(c) ==
  /\ where[c] = "out" /\ ~IsAlive
  /\ nextId < MaxRequests
  /\ nextId' = nextId + 1
  /\ UNCHANGED <<process, isDead, reader, pending, callerVars, serverVars, stop>>

\* _send raises: the pipe is broken, and the exit was not noticed yet. The
\* caller's own future is failed with the others and discarded.
AskBroken(c) ==
  /\ where[c] = "out" /\ process = "exited" /\ ~isDead
  /\ nextId < MaxRequests
  /\ nextId' = nextId + 1
  /\ MarkDead
  /\ UNCHANGED <<process, reader, serverVars, stop>>

\* wait_for times out or the caller is cancelled, possibly as its future is
\* settled.
Timeout(c) ==
  /\ where[c] \in {"waiting", "woken"}
  /\ Return(c)
  /\ UNCHANGED <<process, isDead, reader, nextId, serverVars, stop>>

\* The caller resumes with the result or the error.
Resume(c) ==
  /\ where[c] = "woken"
  /\ Return(c)
  /\ UNCHANGED <<process, isDead, reader, nextId, serverVars, stop>>

-----------------------------------------------------------------------------
(* The server and the reader. *)

\* The server answers what it was asked, in any order, late, twice or never.
Answer(r) ==
  /\ process = "running" /\ r \in asked
  /\ Len(stdout) < MaxUnread
  /\ stdout' = Append(stdout, r)
  /\ UNCHANGED <<process, isDead, reader, nextId, pending, callerVars, asked, stop>>

Exit ==
  /\ process = "running"
  /\ process' = "exited"
  /\ UNCHANGED <<isDead, reader, nextId, pending, callerVars, serverVars, stop>>

\* _dispatch, of a result or a well-formed error: a reply whose id nobody waits
\* for is dropped.
Read ==
  /\ reader = "reading" /\ stdout # <<>>
  /\ stdout' = Tail(stdout)
  /\ LET r == Head(stdout)
         c == pending[r.id]
     IN \/ c = Nobody /\ UNCHANGED <<pending, where, reply>>
        \/ /\ c # Nobody
           /\ pending' = [pending EXCEPT ![r.id] = Nobody]
           /\ where' = [where EXCEPT ![c] = "woken"]
           /\ reply' = [reply EXCEPT ![c] = r]
  /\ UNCHANGED <<process, isDead, reader, nextId, myId, mine, asked, stop>>

\* End of file, behind everything the server wrote; or a line beyond
\* _MAX_LINE_BYTES or a read error, at any time.
ReadFails ==
  /\ reader = "reading"
  /\ reader' = "done"
  /\ MarkDead
  /\ UNCHANGED <<process, nextId, serverVars, stop>>

\* _dispatch raises: an error that is neither empty nor an object has no get. Its
\* future is popped by then, and nothing marks the server dead.
ReadRaises ==
  /\ reader = "reading" /\ stdout # <<>>
  /\ stdout' = Tail(stdout)
  /\ pending[Head(stdout).id] # Nobody
  /\ pending' = [pending EXCEPT ![Head(stdout).id] = Nobody]
  /\ reader' = "crashed"
  /\ UNCHANGED <<process, isDead, nextId, callerVars, asked, stop>>

EndOfFile == process = "exited" /\ stdout = <<>> /\ ReadFails

-----------------------------------------------------------------------------
(* stop(): called by a resync, by a call that found the server dead, by a    *)
(* start that failed, by the shutdown; possibly by several of them.          *)

StopBegin(s) ==
  /\ stop[s] = "out" /\ reader # "crashed"
  /\ isDead' = TRUE
  /\ reader' = "done"
  /\ stop' = [stop EXCEPT ![s] = IF IsAlive THEN "stopping" ELSE "cleaning"]
  /\ UNCHANGED <<process, nextId, pending, callerVars, serverVars>>

\* Awaiting the reader raises what ended it: the process is not terminated, and
\* nobody is told.
StopRaises(s) ==
  /\ stop[s] = "out" /\ reader = "crashed"
  /\ isDead' = TRUE
  /\ UNCHANGED <<process, reader, nextId, pending, callerVars, serverVars, stop>>

\* Mutant: nobody tells the callers.
StopEndSilent(s) ==
  /\ stop[s] # "out"
  /\ process' = "exited"
  /\ stop' = [stop EXCEPT ![s] = "out"]
  /\ UNCHANGED <<isDead, reader, nextId, pending, callerVars, serverVars>>

\* The process was terminated, or killed after its grace.
StopEnd(s) ==
  /\ stop[s] # "out"
  /\ process' = "exited"
  /\ FailPending
  /\ stop' = [stop EXCEPT ![s] = "out"]
  /\ UNCHANGED <<isDead, reader, nextId, serverVars>>

\* A call that cleans up after a dead server is cancelled while it awaits the
\* end of the process.
StopAbandoned(s) ==
  /\ stop[s] = "cleaning" /\ process = "running"
  /\ stop' = [stop EXCEPT ![s] = "out"]
  /\ UNCHANGED <<process, isDead, reader, nextId, pending, callerVars, serverVars>>

-----------------------------------------------------------------------------
ClientNext ==
  \/ \E c \in Callers : Ask(c) \/ AskInVain(c) \/ AskBroken(c) \/ Timeout(c) \/ Resume(c)
  \/ \E r \in asked : Answer(r)
  \/ Exit \/ Read \/ ReadRaises \/ ReadFails
  \/ \E s \in Stoppers : StopBegin(s) \/ StopRaises(s) \/ StopEnd(s) \/ StopAbandoned(s)

ClientSpec == ClientInit /\ [][ClientNext]_clientVars

\* The event loop runs the reader, the woken callers and stop(), whose wait for
\* the process is bounded. Timeouts are left out: nobody should need one to
\* learn of the server's death.
ClientFairness ==
  /\ WF_clientVars(Read) /\ WF_clientVars(EndOfFile)
  /\ \A c \in Callers : WF_clientVars(Resume(c))
  /\ \A s \in Stoppers : WF_clientVars(StopEnd(s))

ClientFairSpec == ClientSpec /\ ClientFairness

-----------------------------------------------------------------------------
(* Properties. *)

\* A caller resumes with the answer to its own request, whatever replies come
\* late, twice or out of order, and however often it or others timed out
\* before ("later calls with fresh ids are unaffected", client.py).
OwnAnswer ==
  \A c \in Callers : reply[c] # NoReply => reply[c].to = mine[c]

\* Its future was popped and not settled: the timeout alone ends its wait.
Lost(c) == where[c] = "waiting" /\ pending[myId[c]] = Nobody

\* Every future in _pending is one its caller waits on: no timeout, cancellation,
\* death or stop leaves one behind. And every caller that waits has its future
\* there, but for the one whose malformed error ended the reader.
PendingIsAwaited ==
  /\ \A i \in Ids, c \in Callers : pending[i] = c => where[c] = "waiting" /\ myId[c] = i
  /\ \A c \in Callers : Lost(c) => reader = "crashed" /\ \A d \in Callers : Lost(d) => d = c

\* Whoever waits on a server that dies or is stopped learns of it without its
\* timeout, unless an exception ended the reader, the only one who would tell
\* (_dispatch on an error that is no object): then callers wait for their timeouts.
DeathWakesCallers ==
  \A c \in Callers :
    where[c] = "waiting" /\ ~IsAlive ~> where[c] # "waiting" \/ reader = "crashed"

\* Refuted by TLC (add it to MCMcpClient.cfg): "A dead/hung server turns into
\* McpError on the pending call" (client.py), whatever the server sent before.
EveryDeathWakes ==
  \A c \in Callers : where[c] = "waiting" /\ ~IsAlive ~> where[c] # "waiting"

=============================================================================

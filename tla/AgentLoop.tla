----------------------------- MODULE AgentLoop -----------------------------
(***************************************************************************)
(* The ReAct loop (agent/loop.py) of runs that share a workdir: rounds of  *)
(* one completion and its tool calls, the repair budget, the iteration     *)
(* ceiling with its tool-free answer, aborts, runs whose client left. Only *)
(* the shell and the web tools await, and what a command does to the       *)
(* workdir it does at one moment: a call is one step. Usage and the        *)
(* counters of malformed calls are reporting and left out.                 *)
(***************************************************************************)
EXTENDS Workspace

CONSTANTS
  Mode,          \* of each run: "chat", "code" or "worker" (an Ultra sub-agent)
  Orchestrated,  \* runs on the orchestrator's slot
  MaxIterations, \* the rounds that each run's effort allows
  MaxCalls       \* bound on the calls of one completion

MaxRepairs == 2  \* MAX_REPAIR_ATTEMPTS

ASSUME AgentAssumption ==
  /\ Mode \in [Runs -> {"chat", "code", "worker"}]
  /\ Orchestrated \subseteq Runs
  /\ MaxIterations \in [Runs -> Nat \ {0}] /\ MaxCalls \in Nat \ {0}

VARIABLES
  pc,      \* "new", "asking", "calling", "ended"
  round,   \* completions that called tools
  calls,   \* how many calls the last completion made
  next,    \* the call under way
  repairs, \* what is left of the repair budget
  convo    \* the messages a run has added to its request

loopVars == <<pc, round, calls, next, repairs, convo>>
vars == <<workspaceVars, loopVars>>

\* The assistant message with n calls, the tool message that answers the i-th
\* of them, the system message after the ceiling.
Calls(n) == [role |-> "assistant", n |-> n, verdict |-> "none"]
Result(i, verdict) == [role |-> "tool", n |-> i, verdict |-> verdict]
Ceiling == [role |-> "system", n |-> 0, verdict |-> "none"]

Message == [role : {"assistant", "tool", "system"}, n : Nat,
            verdict : {"none", "ran", "rejected", "abandoned"}]

LoopTypeOK ==
  /\ pc \in [Runs -> {"new", "asking", "calling", "ended"}]
  /\ round \in [Runs -> Nat] /\ calls \in [Runs -> Nat] /\ next \in [Runs -> Nat]
  /\ repairs \in [Runs -> 0..MaxRepairs]
  /\ convo \in [Runs -> Seq(Message)]

\* build_registry and build_worker_registry; the reading tools stand together.
Toolset(r) ==
  {"read"}
    \cup (IF Mode[r] = "chat" THEN {} ELSE {"fs_write", "shell"})
    \cup (IF Mode[r] = "code" THEN {"fs_undo", "plan"} ELSE {})
    \cup (IF Mode[r] # "worker" /\ r \in Orchestrated THEN {"memory_write"} ELSE {})

Init ==
  /\ WorkspaceInit
  /\ pc = [r \in Runs |-> "new"]
  /\ round = [r \in Runs |-> 0]
  /\ calls = [r \in Runs |-> 0]
  /\ next = [r \in Runs |-> 0]
  /\ repairs = [r \in Runs |-> MaxRepairs]
  /\ convo = [r \in Runs |-> <<>>]

Begin(r) ==
  /\ pc[r] = "new"
  /\ pc' = [pc EXCEPT ![r] = "asking"]
  /\ UNCHANGED <<workspaceVars, round, calls, next, repairs, convo>>

\* A completion without calls, an error of the backend or a malformed completion
\* ends the run; past the ceiling any completion does. The client may also leave.
End(r) ==
  /\ pc[r] \in {"asking", "calling"}
  /\ pc' = [pc EXCEPT ![r] = "ended"]
  /\ UNCHANGED <<workspaceVars, round, calls, next, repairs, convo>>

\* A completion with n calls.
Call(r, n) ==
  /\ pc[r] = "asking" /\ round[r] < MaxIterations[r]
  /\ pc' = [pc EXCEPT ![r] = "calling"]
  /\ round' = [round EXCEPT ![r] = @ + 1]
  /\ calls' = [calls EXCEPT ![r] = n]
  /\ next' = [next EXCEPT ![r] = 1]
  /\ convo' = [convo EXCEPT ![r] = Append(@, Calls(n))]
  /\ UNCHANGED <<workspaceVars, repairs>>

\* _append_tool_message. After the last call the model is asked again: without
\* tools once the ceiling is reached.
Reply(r, verdict) ==
  LET said == Append(convo[r], Result(next[r], verdict))
      last == next[r] = calls[r]
  IN /\ convo' = [convo EXCEPT ![r] = IF last /\ round[r] = MaxIterations[r]
                                      THEN Append(said, Ceiling) ELSE said]
     /\ next' = [next EXCEPT ![r] = @ + 1]
     /\ pc' = [pc EXCEPT ![r] = IF last THEN "asking" ELSE @]
     /\ UNCHANGED <<round, calls>>

\* A valid call of a tool of the run: it runs, is denied, fails or times out.
Run(r) ==
  /\ pc[r] = "calling"
  /\ \E k \in 0..MaxTokens :
       \/ "fs_write" \in Toolset(r) /\ \E p \in Paths, c \in Text : FsWrite(r, p, c, k)
       \/ "fs_undo" \in Toolset(r) /\ \E n \in {0} \cup Numbers : FsUndo(r, n, k)
       \/ "shell" \in Toolset(r) /\ \E x \in Commands : Shell(r, x, k)
       \/ Refused(r, k, Toolset(r))
       \/ k = 0 /\ UNCHANGED workspaceVars
  /\ Reply(r, "ran")
  /\ UNCHANGED repairs

\* Mutant: the abandoned call is skipped without a message.
MalformedSkipped(r) ==
  /\ pc[r] = "calling"
  /\ UNCHANGED workspaceVars
  /\ IF repairs[r] > 0
     THEN Reply(r, "rejected") /\ repairs' = [repairs EXCEPT ![r] = @ - 1]
     ELSE /\ next' = [next EXCEPT ![r] = @ + 1]
          /\ pc' = [pc EXCEPT ![r] = IF next[r] = calls[r] THEN "asking" ELSE @]
          /\ UNCHANGED <<round, calls, convo, repairs>>

\* A call with invalid arguments or of no tool of the run: repairs are asked for
\* while the run's budget lasts.
Malformed(r) ==
  /\ pc[r] = "calling"
  /\ UNCHANGED workspaceVars
  /\ IF repairs[r] > 0
     THEN Reply(r, "rejected") /\ repairs' = [repairs EXCEPT ![r] = @ - 1]
     ELSE Reply(r, "abandoned") /\ UNCHANGED repairs

\* The process dies: between two steps, or in a write or an undo that had passed
\* its gate.
Crash ==
  /\ \E r \in Runs : pc[r] \in {"asking", "calling"}
  /\ \/ UNCHANGED <<file, journal, edits>>
     \/ \E r \in Runs, p \in Paths :
          pc[r] = "calling" /\ "fs_write" \in Toolset(r) /\ DieWriting(p)
     \/ \E r \in Runs, n \in Numbers :
          pc[r] = "calling" /\ "fs_undo" \in Toolset(r) /\ DieUndoing(n)
  /\ pc' = [r \in Runs |-> IF pc[r] = "new" THEN "new" ELSE "ended"]
  /\ UNCHANGED <<tokens, unshown, round, calls, next, repairs, convo>>

Step(r) ==
  \/ Begin(r) \/ End(r) \/ Run(r) \/ Malformed(r)
  \/ \E n \in 1..MaxCalls : Call(r, n)

Next == (\E r \in Runs : Step(r)) \/ Crash

Spec == Init /\ [][Next]_vars
-----------------------------------------------------------------------------
\* Whenever the model is asked again, each call of each completion has exactly
\* one tool message, right after it and in order, whether it ran, was denied,
\* rejected or abandoned, and the run has asked for at most MaxRepairs repairs
\* ("the budget is per RUN", agent/loop.py:270): a chat template refuses a
\* conversation with an orphan.
AnsweredInOrder ==
  \A r \in Runs : pc[r] = "asking" =>
    LET asked == {i \in DOMAIN convo[r] : convo[r][i].role = "assistant"}
        results == {i \in DOMAIN convo[r] : convo[r][i].role = "tool"}
    IN /\ results = UNION {i + 1..i + convo[r][i].n : i \in asked}
       /\ \A i \in asked : \A j \in 1..convo[r][i].n : convo[r][i + j].n = j
       /\ Cardinality({i \in results : convo[r][i].verdict = "rejected"}) <= MaxRepairs

-----------------------------------------------------------------------------
(* The strengthening behind AnsweredInOrder (AgentLoopProofs). *)

Asked(s) == {i \in DOMAIN s : s[i].role = "assistant"}
Results(s) == {i \in DOMAIN s : s[i].role = "tool"}
Rejected(s) == {i \in Results(s) : s[i].verdict = "rejected"}

\* Each tool message belongs to one completion and stands in its place; only the
\* completion at a may lack some of its own.
Ordered(s, a) ==
  /\ \A j \in DOMAIN s : j \in Results(s) <=> \E i \in Asked(s) : i < j /\ j <= i + s[i].n
  /\ \A i \in Asked(s) : \A j \in 1..s[i].n : i + j <= Len(s) => s[i + j].n = j
  /\ \A i \in Asked(s) : i # a => i + s[i].n <= Len(s)

\* The completion whose calls are being answered.
Current(r) == Len(convo[r]) + 1 - next[r]

RunInv(r) ==
  /\ pc[r] = "new" => convo[r] = <<>>
  /\ pc[r] = "asking" => Ordered(convo[r], 0)
  /\ pc[r] = "calling" =>
       /\ next[r] \in 1..calls[r]
       /\ Current(r) \in Asked(convo[r]) /\ convo[r][Current(r)].n = calls[r]
       /\ Ordered(convo[r], Current(r))
  /\ pc[r] # "ended" => Cardinality(Rejected(convo[r])) + repairs[r] = MaxRepairs

LoopInv == \A r \in Runs : RunInv(r)

=============================================================================

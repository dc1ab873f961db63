---------------------------- MODULE MCAgentLoop ----------------------------
(* The instance of AgentLoop that TLC checks: a run in code mode that asks for
   confirmation, and an Ultra sub-agent that does not, in one workdir. One of the
   destructive commands spells the signature of a write. *)
EXTENDS AgentLoop, TLC

CONSTANTS r1, r2, p1, c1, rm, ls, twin

Modes == r1 :> "code" @@ r2 :> "worker"
Spelled == rm :> None @@ ls :> None @@ twin :> <<p1, c1>>
Iterations == r1 :> 2 @@ r2 :> 1
=============================================================================

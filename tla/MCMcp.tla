------------------------------- MODULE MCMcp -------------------------------
(* The instance of Mcp that TLC checks. *)
EXTENDS Mcp

\* What an object that nothing refers to still holds (it was garbage-collected)
\* does not tell states apart: no guard and no property reads it.
Kept(o) == <<srv[o], cmd[o], held[o], dead[o], proc[o], jammed[o], o \in mute>>
Reachable ==
  <<phase, wanted, table, [o \in Objects |-> IF o \in Free THEN <<>> ELSE Kept(o)],
    taskVars, callVars, crossed, raised>>

=============================================================================

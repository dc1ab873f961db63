-------------------------- MODULE ResidencyStates --------------------------
(***************************************************************************)
(* What model residency promises, seen through the four states the         *)
(* LoadController reports: the loadout is warmed before anyone uses it, at *)
(* most one warm-up or unload runs at a time, and an unload begins only    *)
(* when nobody uses the models and completes before the next warm-up.      *)
(***************************************************************************)
CONSTANT Users

VARIABLES
  phase,   \* "cold", "loading", "ready" or "idle_unloading"
  users    \* those that run on the resident models

vars == <<phase, users>>

Init == phase = "cold" /\ users = {}

Warm ==
  /\ phase = "cold"
  /\ phase' = "loading"
  /\ users' = users

\* A warm-up that raises, or whose caller is cancelled.
WarmFails ==
  /\ phase = "loading"
  /\ phase' = "cold"
  /\ users' = users

\* The caller that warmed is admitted in the same step when it is a user.
WarmDone ==
  /\ phase = "loading"
  /\ phase' = "ready"
  /\ \E new \in SUBSET Users : users' = users \cup new

Enter ==
  /\ phase = "ready"
  /\ \E u \in Users : users' = users \cup {u}
  /\ phase' = phase

Leave ==
  /\ \E u \in users : users' = users \ {u}
  /\ phase' = phase

Unload ==
  /\ phase = "ready" /\ users = {}
  /\ phase' = "idle_unloading"
  /\ users' = users

UnloadDone ==
  /\ phase = "idle_unloading"
  /\ phase' = "cold"
  /\ users' = users

Next == Warm \/ WarmFails \/ WarmDone \/ Enter \/ Leave \/ Unload \/ UnloadDone

Spec == Init /\ [][Next]_vars

=============================================================================

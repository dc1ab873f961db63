------------------------------ MODULE Requests ------------------------------
(***************************************************************************)
(* What a request finds and becomes: a chat completion (Prompt), a         *)
(* research job (Research), the external providers a model may be resolved *)
(* to (Providers). They share the slots, which SlotGate and Residency      *)
(* have, and nothing of what is modelled here: a behaviour has one of them.*)
(***************************************************************************)
EXTENDS Prompt, Research, Providers

vars == <<promptVars, researchVars, providersVars>>

Init == (PromptInit \/ PromptIdle) /\ ResearchIdle /\ ProvidersIdle

Next ==
  \/ PromptStep /\ UNCHANGED <<researchVars, providersVars>>
  \/ /\ stage = "idle" /\ phase = "down" /\ commits = 0
     /\ ResearchStep
     /\ UNCHANGED <<promptVars, providersVars>>
  \/ /\ stage = "idle" /\ step = "idle"
     /\ ProvidersStep
     /\ UNCHANGED <<promptVars, researchVars>>

Spec == Init /\ [][Next]_vars

=============================================================================

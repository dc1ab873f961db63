---------------------------- MODULE MCSlotGate ----------------------------
(* The instance of SlotGate that TLC checks. *)
EXTENDS SlotGate

=============================================================================

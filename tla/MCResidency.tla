---------------------------- MODULE MCResidency ----------------------------
(* The instance of Residency that TLC checks. *)
EXTENDS Residency

=============================================================================

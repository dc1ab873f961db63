--------------------------- MODULE MCDeferredApply ---------------------------
(* The instance of DeferredApply that TLC checks. *)
EXTENDS DeferredApply

=============================================================================

----------------------------- MODULE MCRequests -----------------------------
(* The instance of Requests that TLC checks. *)
EXTENDS Requests

\* Nothing, or blocks of which the last may or may not fit.
MCHits == {<<>>, <<150, 150, 150>>}

=============================================================================

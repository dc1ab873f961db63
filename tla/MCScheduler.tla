---------------------------- MODULE MCScheduler ----------------------------
(* The instances of Scheduler that TLC checks. *)
EXTENDS Scheduler

OneOfEach ==
  {[kind |-> "daily", time |-> 0], [kind |-> "weekly", time |-> 1, weekday |-> 1],
   [kind |-> "interval", every |-> 2]}

=============================================================================

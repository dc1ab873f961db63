------------------------------ MODULE MCUltra ------------------------------
(* The instance of Ultra and Loadout that TLC checks. *)
EXTENDS Ultra

GiB(n) == n * 1024
Machine(gpus, ram, cuda) == [gpus |-> gpus, ram |-> GiB(ram), cuda |-> cuda]

\* None, one and two GPUs, at and around the tiers and rungs.
MCMachines ==
  {Machine(<<GiB(n)>>, 32, TRUE) : n \in {6, 8, 9, 10, 14, 16, 23, 24}}
    \cup {Machine(<<>>, ram, TRUE) : ram \in {8, 32}}
    \cup {Machine(<<GiB(8), GiB(8)>>, 32, TRUE), Machine(<<GiB(5)>>, 8, TRUE),
          Machine(<<GiB(12)>>, 32, FALSE)}

\* Where requests are made nothing is measured: that would only multiply the states.
MCDeltas ==
  [m \in MCMachines |-> IF m.gpus \in {<<>>, <<GiB(9)>>, <<GiB(24)>>} THEN {} ELSE {9000}]

MCSettings ==
  [family : Families, workers : {1, 2}, worker_ctx : {16}, orchestrator_ctx : {32},
   dspark : {FALSE}, preset : {"recommended"}, turboquant : {TRUE}]
    \cup [family : {"1bit"}, workers : {2}, worker_ctx : {16}, orchestrator_ctx : {2},
          dspark : {FALSE}, preset : {"recommended"}, turboquant : {FALSE}]
    \cup [family : {"ternary"}, workers : {0}, worker_ctx : {64}, orchestrator_ctx : {300},
          dspark : {TRUE}, preset : {"aggressive"}, turboquant : {TRUE}]

\* Requests are made where two workers, one and none fit.
MCUltraOn ==
  {Machine(gpus, 32, TRUE) : gpus \in {<<GiB(24)>>, <<GiB(9)>>, <<>>}}
    \X {[family |-> "ternary", workers |-> 2, worker_ctx |-> 16, orchestrator_ctx |-> 32,
          dspark |-> FALSE, preset |-> "recommended", turboquant |-> TRUE]}
=============================================================================

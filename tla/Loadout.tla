------------------------------- MODULE Loadout -------------------------------
(***************************************************************************)
(* What runs on the machine: the VRAM budget (sched/budget.py), the        *)
(* KV-cache types (kv.py), the planner (sched/planner.py), and how a       *)
(* launch's measured buffers change the plan of the next boot              *)
(* (llama/manager.py). Sizes are in MiB, contexts in units of 1024 tokens, *)
(* even numbers of them: then no KV size has to be rounded.                *)
(***************************************************************************)
EXTENDS Integers, Sequences, FiniteSets, FiniteSetsExt

CONSTANTS
  Machines,   \* the hardware: [gpus : VRAM of each, ram, cuda : BOOLEAN]
  Settings,   \* [family, workers, worker_ctx, orchestrator_ctx, dspark, preset, turboquant]
  Deltas,     \* of each machine, by how much the use of a GPU may grow while a slot starts
  MaxBoots,   \* bound on boots
  Analytic    \* no measurement

ASSUME LoadoutAssumption ==
  /\ Deltas \in [Machines -> SUBSET Nat] /\ MaxBoots \in Nat /\ Analytic \notin Nat
  /\ \A m \in Machines : m.gpus \in Seq(Nat) /\ m.ram \in Nat
  /\ \A s \in Settings :
       /\ s.family \in {"ternary", "1bit"} /\ s.workers \in 0..2
       /\ {s.worker_ctx, s.orchestrator_ctx} \subseteq {2 * n : n \in 1..200}
       /\ s.preset \in {"recommended", "aggressive", "off"}

VARIABLES
  machine,   \* where it runs
  settings,  \* of this boot
  measured,  \* budget.json: the buffers of each model and family
  plan,      \* app.state.loadout
  started,   \* how many slots start_all has started in this boot
  ready,     \* those of them that got healthy
  boots      \* boots so far

loadoutVars == <<machine, settings, measured, plan, started, ready, boots>>

Models == {"27b", "8b", "4b", "1.7b"}
Families == {"ternary", "1bit"}
-----------------------------------------------------------------------------
(* The budget. *)

Weights(m, f) ==
  CASE m = "27b"  -> IF f = "ternary" THEN 6830 ELSE 3625
    [] m = "8b"   -> IF f = "ternary" THEN 2079 ELSE 1106
    [] m = "4b"   -> IF f = "ternary" THEN 1024 ELSE 543
    [] m = "1.7b" -> IF f = "ternary" THEN 440 ELSE 236

BufferPrior(m) == IF m = "27b" THEN 1229 ELSE 614
Mmproj == 645
Dspark == 1843
MaxCtx(m) == CASE m = "27b" -> 256 [] m = "8b" -> 64 [] OTHER -> 32

\* resolve_kv_state: K is q8_0 whatever is configured, as flash attention is
\* taken to be there; V by preset if TurboQuant is on and its kernels are in the
\* binary. In sixteenths of a byte for an element of K and one of V.
KvSixteenths(s, kernels) ==
  17 + (IF ~s.turboquant \/ s.preset = "off" \/ ~kernels THEN 17
        ELSE IF s.preset = "recommended" THEN 9 ELSE 7)

\* kv_gib in MiB: a token has 16384 elements of each kind in the 27B, more or
\* fewer in the others.
Kv(m, ctx, kv) == (kv * ctx * (CASE m = "27b" -> 4 [] m = "1.7b" -> 7 [] OTHER -> 9)) \div 4

Buffers(m, f) == IF measured[<<m, f>>] = Analytic THEN BufferPrior(m) ELSE measured[<<m, f>>]

\* BudgetProvider.slot_cost
Cost(m, f, ctx, kv) == Weights(m, f) + Kv(m, ctx, kv) + Buffers(m, f)
-----------------------------------------------------------------------------
(* The planner. A slot without a GPU has gpu 0; buffers is their part of its size. *)

Slot(role, m, f, gpu, mb) ==
  [role |-> role, model |-> m, family |-> f, gpu |-> gpu, mb |-> mb, buffers |-> Buffers(m, f)]

Margin(vram) == Max({1536, (vram * 8) \div 100})

\* The sum of the values of a function.
Total(mbs) == FoldSet(LAMBDA i, acc : mbs[i] + acc, 0, DOMAIN mbs)

WorkerLadder == << <<"8b", "8b">>, <<"8b", "4b">>, <<"4b", "4b">>, <<"8b">>, <<"4b">>, <<"1.7b">>,
                   <<>> >>

\* _plan_cpu: one orchestrator, whatever it needs.
CpuPlan(s, kv, notices) ==
  LET m == IF machine.ram >= 16 * 1024 THEN "27b" ELSE "8b"
      ctx == Min({s.orchestrator_ctx, MaxCtx(m)})
      mb == Cost(m, s.family, ctx, kv) + (IF m = "27b" THEN Mmproj ELSE 0)
  IN [slots |-> <<Slot("orchestrator", m, s.family, 0, mb)>>, kv |-> kv,
      notices |-> notices \cup {"cpu_only"} \cup (IF m = "8b" THEN {"no_27b_resident"} ELSE {})]

\* The contexts tried for the orchestrator, and the last resort.
CtxLadder(s) == {c \in {Min({s.orchestrator_ctx, MaxCtx("27b")}), 16, 8} : c <= s.orchestrator_ctx}
LastCtx == 8

\* Mutant: the workers may take what the orchestrator and the utility model have.
WorkerPoolShared(mandatory, tight) ==
  IF Len(machine.gpus) > 1 THEN machine.gpus[2] - Margin(machine.gpus[2])
  ELSE IF tight THEN 0 ELSE machine.gpus[1] - Margin(machine.gpus[1])

\* What the workers may take: the second GPU, or what is left of the first.
WorkerPool(mandatory, tight) ==
  IF Len(machine.gpus) > 1 THEN machine.gpus[2] - Margin(machine.gpus[2])
  ELSE IF tight THEN 0 ELSE machine.gpus[1] - Margin(machine.gpus[1]) - mandatory

\* The rungs that are tried.
Rungs(s) == {i \in DOMAIN WorkerLadder : Len(WorkerLadder[i]) <= s.workers}
RungCtx(s, m) == Min({s.worker_ctx, MaxCtx("1.7b"), MaxCtx(m)})
RungMbs(s, f, kv, rung) == [i \in DOMAIN rung |-> Cost(rung[i], f, RungCtx(s, rung[i]), kv)]

\* plan_loadout on a GPU that can hold the orchestrator at context ctx.
GpuPlan(s, f, kv, utility, utilityMb, ctx, orchestratorMb, notices) ==
  LET tight == "vram_tight" \in notices
      pool == WorkerPool(orchestratorMb + utilityMb, tight)
      fitting == {i \in Rungs(s) : Total(RungMbs(s, f, kv, WorkerLadder[i])) <= pool}
      rung == IF fitting = {} THEN <<>> ELSE WorkerLadder[Min(fitting)]
      mbs == RungMbs(s, f, kv, rung)
      gpu == IF Len(machine.gpus) > 1 THEN 2 ELSE 1
  IN [slots |-> <<Slot("orchestrator", "27b", f, 1, orchestratorMb),
                  Slot("utility", utility, f, 1, utilityMb)>>
                \o [i \in DOMAIN rung |-> Slot("worker", rung[i], f, gpu, mbs[i])],
      kv |-> kv,
      notices |-> notices
        \cup (IF ctx < s.orchestrator_ctx THEN {"orchestrator_ctx_reduced"} ELSE {})
        \cup (IF rung = <<>> THEN {"ultra_sequential"}
              ELSE IF Min(fitting) > Min(Rungs(s)) THEN {"workers_degraded"} ELSE {})]

\* plan_loadout
Planned(s, kv) ==
  IF machine.gpus = <<>> THEN CpuPlan(s, kv, {})
  ELSE IF machine.gpus[1] < 6 * 1024 THEN CpuPlan(s, kv, {"gpu_too_small"})
  ELSE LET vram == machine.gpus[1]
           avail == vram - Margin(vram)
           degraded == vram < 14 * 1024 /\ s.family = "ternary"
           f == IF degraded THEN "1bit" ELSE s.family
           utility == IF vram < 10 * 1024 THEN "1.7b" ELSE "4b"
           utilityMb == Cost(utility, f, 8, kv)
           mb(ctx) == Cost("27b", f, ctx, kv) + Mmproj
                        + (IF s.dspark /\ machine.cuda THEN Dspark ELSE 0)
           fits == {c \in CtxLadder(s) : mb(c) + utilityMb <= avail}
           notices == (IF degraded THEN {"family_degraded"} ELSE {})
                        \cup (IF s.dspark /\ ~machine.cuda THEN {"dspark_unavailable"} ELSE {})
       IN IF fits # {}
          THEN GpuPlan(s, f, kv, utility, utilityMb, Max(fits), mb(Max(fits)), notices)
          ELSE IF mb(LastCtx) + utilityMb <= vram
          THEN GpuPlan(s, f, kv, utility, utilityMb, LastCtx, mb(LastCtx), notices \cup {"vram_tight"})
          ELSE CpuPlan(s, kv, {"loadout_overflow"})

\* A boot: the settings on disk, the binary's kernels, the measurements so far.
Boot ==
  /\ boots < MaxBoots
  /\ boots' = boots + 1
  /\ settings' \in Settings
  /\ \E kernels \in BOOLEAN :
       LET kv == KvSixteenths(settings', kernels)
       IN plan' = [Planned(settings', kv) EXCEPT !.notices =
                     @ \cup (IF settings'.turboquant /\ settings'.preset # "off" /\ ~kernels
                             THEN {"turboquant_prebuilt_fallback"} ELSE {})]
  /\ started' = 0
  /\ ready' = {}
  /\ UNCHANGED <<machine, measured>>

LoadoutInit ==
  /\ machine \in Machines
  /\ settings = CHOOSE s \in Settings : TRUE
  /\ measured = [mf \in Models \X Families |-> Analytic]
  /\ plan = [slots |-> <<>>, kv |-> 0, notices |-> {}]
  /\ started = 0
  /\ ready = {}
  /\ boots = 0

\* record_measured, of what is left of a growth without the exact parts of a slot.
Remembered(slot, delta) ==
  [measured EXCEPT ![<<slot.model, slot.family>>] = Max({64, delta - (slot.mb - slot.buffers)})]

\* start_all starts the next slot. Once it is healthy, what the use of its GPU grew
\* by in the meantime, less its exact parts, is its buffers; unless that is too
\* little. A slot that fails measures nothing.
Launch ==
  /\ started < Len(plan.slots)
  /\ started' = started + 1
  /\ LET slot == plan.slots[started']
     IN \/ /\ ready' = ready \cup {started'}
           /\ \E delta \in Deltas[machine] \cup {0} :
                measured' = IF slot.gpu = 0 \/ delta < (Weights(slot.model, slot.family) * 8) \div 10
                            THEN measured
                            ELSE Remembered(slot, delta)
        \/ UNCHANGED <<ready, measured>>
  /\ UNCHANGED <<machine, settings, plan, boots>>

LoadoutNext == Boot \/ Launch
-----------------------------------------------------------------------------
SizeOf(is) == Total([i \in is |-> plan.slots[i].mb])
OnGpu(gpu) == {i \in DOMAIN plan.slots : plan.slots[i].gpu = gpu}
Workers == {i \in DOMAIN plan.slots : plan.slots[i].role = "worker"}

\* A plan leaves the safety margin free on each GPU, or just fits the first and
\* says so; and its workers are the largest that fit, for any machine, settings
\* and KV types. The ladder is by size ("to keep the ladder monotone",
\* sched/planner.py:46) only while nothing is measured.
BestFit ==
  plan.slots # <<>> /\ "cpu_only" \notin plan.notices =>
    /\ \A gpu \in DOMAIN machine.gpus :
         OnGpu(gpu) # {} =>
           SizeOf(OnGpu(gpu)) <= machine.gpus[gpu]
             - (IF "vram_tight" \in plan.notices /\ gpu = 1 THEN 0 ELSE Margin(machine.gpus[gpu]))
    /\ (\A mf \in DOMAIN measured : measured[mf] = Analytic) =>
         LET pool == WorkerPool(SizeOf(DOMAIN plan.slots \ Workers), "vram_tight" \in plan.notices)
             sizes == {Total(RungMbs(settings, plan.slots[1].family, plan.kv, WorkerLadder[i])) :
                         i \in Rungs(settings)}
         IN \A mb \in sizes : mb <= pool => mb <= SizeOf(Workers)

=============================================================================

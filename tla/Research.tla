------------------------------ MODULE Research ------------------------------
(***************************************************************************)
(* The pipeline of a deep-research job (research/engine.py) as the server  *)
(* wires it (research/wiring.py): a plan, web searches, the pages, a       *)
(* cross-check, the report. Jobs has what surrounds it, SlotGate the gate  *)
(* each completion goes through. Texts are left out: of the report there is*)
(* the note the code puts before it, and what its writer is told of the    *)
(* sources; what the model makes of that is its own.                       *)
(***************************************************************************)
EXTENDS Integers, Sequences, FiniteSets, SequencesExt

CONSTANTS
  Urls,        \* of sources
  MaxSources,  \* MAX_SOURCES
  MaxQueries,  \* MAX_SEARCH_QUERIES
  PerQuery,    \* RESULTS_PER_QUERY
  MaxRepair    \* MAX_REPAIR_ATTEMPTS of a structured completion

ASSUME ResearchAssumption ==
  /\ IsFiniteSet(Urls)
  /\ {MaxSources, MaxQueries} \subseteq Nat \ {0} /\ {PerQuery, MaxRepair} \subseteq Nat

VARIABLES
  step,     \* "idle", "plan", "search", "gather", "crosscheck", "write", "completed", "failed"
  tried,    \* plans that did not match the schema
  plan,     \* sub-questions and source URLs
  asked,    \* searches made
  brought,  \* history: what each search that succeeded brought
  picked,   \* the URLs of the searches, or what is planned instead
  degraded, \* the searches came to nothing
  notes,    \* pages read or not, in the order of the sources
  told,     \* percentages the job's progress went through
  coverage, \* the line on the sources in the prompt of the report: read, of how many
  report    \* "none", "plain" or "noted": the degrade note is before its text

researchVars == <<step, tried, plan, asked, brought, picked, degraded, notes, told, coverage, report>>

SeqsUpTo(S, n) == UNION {[1..k -> S] : k \in 0..n}
NoPlan == [questions |-> 0, urls |-> <<>>]
NoCoverage == [retrieved |-> 0, of |-> 0]

\* Progress is told when it changes.
Tell(percent) == told' = IF told # <<>> /\ Last(told) = percent THEN told ELSE Append(told, percent)
TellTwo(first, second) == told' = (IF Last(told) = first THEN told ELSE Append(told, first)) \o <<second>>

ResearchIdle ==
  /\ step = "idle" /\ tried = 0 /\ plan = NoPlan /\ asked = 0 /\ brought = <<>>
  /\ picked = <<>> /\ degraded = FALSE /\ notes = <<>> /\ told = <<>>
  /\ coverage = NoCoverage /\ report = "none"

\* The job runs once the loadout is warm; without an orchestrator it fails.
StartResearch ==
  /\ step = "idle"
  /\ \/ step' = "failed" /\ UNCHANGED told
     \/ step' = "plan" /\ Tell(2)
  /\ UNCHANGED <<tried, plan, asked, brought, picked, degraded, notes, coverage, report>>
-----------------------------------------------------------------------------
(* The plan. *)

\* A bare question and no source, or the sub-questions and the first URLs of a plan.
BarePlan == [questions |-> 1, urls |-> <<>>]
Plans == [questions : 1..(MaxQueries + 1), urls : SeqsUpTo(Urls, MaxSources)]
PlanEnds == step' = "search" /\ told' = told \o <<10>>

\* A structured completion: an instance of the schema, or another try with the error
\* told back while there are repairs left. A backend that fails leaves the bare plan.
PlanStep ==
  /\ step = "plan"
  /\ \/ /\ plan' \in Plans
        /\ UNCHANGED tried
        /\ PlanEnds
     \/ /\ tried' = tried + 1
        /\ IF tried < MaxRepair THEN UNCHANGED <<step, plan, told>> ELSE plan' = BarePlan /\ PlanEnds
  /\ UNCHANGED <<asked, brought, picked, degraded, notes, coverage, report>>
-----------------------------------------------------------------------------
(* The sources. *)

Queries == IF plan.questions < MaxQueries THEN plan.questions ELSE MaxQueries

\* Mutant: the same page may be a source twice.
MergedAll(urls, results) == urls \o results

\* Each URL once, in the order it came.
Merged(urls, results) ==
  FoldLeft(LAMBDA acc, u : IF u \in ToSet(acc) THEN acc ELSE Append(acc, u), urls, results)

\* One search; one that fails is one that brings nothing.
Search ==
  /\ step = "search" /\ asked < Queries
  /\ asked' = asked + 1
  /\ \/ UNCHANGED <<picked, brought>>
     \/ \E results \in SeqsUpTo(Urls, PerQuery) :
          picked' = Merged(picked, results) /\ brought' = Append(brought, results)
  /\ Tell(10)
  /\ UNCHANGED <<step, tried, plan, degraded, notes, coverage, report>>

\* The planned URLs stand in for searches that brought nothing.
SelectSources ==
  /\ step = "search" /\ asked = Queries
  /\ step' = "gather"
  /\ degraded' = (picked = <<>>)
  /\ picked' = IF picked = <<>> THEN plan.urls
               ELSE IF Len(picked) > MaxSources THEN SubSeq(picked, 1, MaxSources) ELSE picked
  /\ UNCHANGED <<tried, plan, asked, brought, notes, told, coverage, report>>

\* round(): half to even.
Rounded(n, d) ==
  LET q == n \div d
      twice == 2 * (n % d)
  IN IF twice < d \/ (twice = d /\ q % 2 = 0) THEN q ELSE q + 1

\* A page by tier 1, by tier 2 if there is one, or a note that it is unavailable.
Page(u) == [url : {u}, ok : BOOLEAN]

Fetch ==
  /\ step = "gather" /\ Len(notes) < Len(picked)
  /\ \E page \in Page(picked[Len(notes) + 1]) : notes' = Append(notes, page)
  /\ Tell(10 + Rounded(45 * Len(notes), Len(picked)))
  /\ UNCHANGED <<step, tried, plan, asked, brought, picked, degraded, coverage, report>>

Gathered ==
  /\ step = "gather" /\ Len(notes) = Len(picked)
  /\ step' = "crosscheck"
  /\ TellTwo(55, 60)
  /\ UNCHANGED <<tried, plan, asked, brought, picked, degraded, notes, coverage, report>>
-----------------------------------------------------------------------------
(* The report. *)

\* The analysis may be empty; a backend that fails fails the job.
CrossCheck ==
  /\ step = "crosscheck"
  /\ \/ step' = "write" /\ told' = told \o <<80, 85>>
     \/ step' = "failed" /\ UNCHANGED told
  /\ UNCHANGED <<tried, plan, asked, brought, picked, degraded, notes, coverage, report>>

\* The prompt has the coverage; the text is the model's, and may have it or not. An
\* empty text or a backend that fails fails the job. The note is put before the text.
WriteReport ==
  /\ step = "write"
  /\ coverage' = [retrieved |-> Cardinality({i \in DOMAIN notes : notes[i].ok}), of |-> Len(notes)]
  /\ \/ step' = "completed" /\ Tell(100) /\ report' = IF degraded THEN "noted" ELSE "plain"
     \/ step' = "failed" /\ UNCHANGED <<told, report>>
  /\ UNCHANGED <<tried, plan, asked, brought, picked, degraded, notes>>

ResearchStep ==
  StartResearch \/ PlanStep \/ Search \/ SelectSources \/ Fetch \/ Gathered \/ CrossCheck \/ WriteReport
-----------------------------------------------------------------------------
\* What the code puts into a report or tells its writer is honest, whichever plan,
\* searches and pages failed: the note is there exactly when no search brought a
\* source; otherwise the sources are pages that searches brought, none twice, and as
\* many as were brought up to the limit; the writer was told how many of them could
\* be read. Whether the text repeats that is the model's. The percentages the client
\* saw only rise and end at 100 ("a note at the top of the report says so honestly",
\* docs/research.md:82; "monotone", tests/test_research.py:115).
ReportIsHonest ==
  LET found == UNION {ToSet(brought[i]) : i \in DOMAIN brought}
      sources == [i \in DOMAIN notes |-> notes[i].url]
  IN /\ \A i, j \in DOMAIN told : i < j => told[i] < told[j]
     /\ step = "completed" =>
          /\ Last(told) = 100
          /\ report = "noted" <=> found = {}
          /\ IF found = {} THEN sources = plan.urls
             ELSE /\ ToSet(sources) \subseteq found
                  /\ Cardinality(ToSet(sources)) = Len(sources)
                  /\ Len(sources) = Min({MaxSources, Cardinality(found)})
          /\ coverage = [retrieved |-> Cardinality({i \in DOMAIN sources : notes[i].ok}), of |-> Len(sources)]

=============================================================================

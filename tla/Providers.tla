------------------------------ MODULE Providers ------------------------------
(***************************************************************************)
(* The external providers (providers/registry.py): polled for their models *)
(* at boot, in POST /v1/system/apply and in a task of its own after a      *)
(* deferred commit. A refresh polls one provider after the other and       *)
(* replaces the registry at its end; nothing keeps refreshes apart.        *)
(***************************************************************************)
EXTENDS Naturals, FiniteSets

CONSTANTS
  Providers,   \* names of providers
  Endpoints,   \* base URLs, each with its key
  Disabled,    \* the settings have no such provider, or have it disabled
  Models,      \* what a provider may list
  Refreshes,   \* refreshes that may be in flight together
  MaxCommits,  \* bound on commits and reboots
  NoProvider   \* no entry in the registry

ASSUME ProvidersAssumption ==
  /\ IsFiniteSet(Providers)
  /\ Disabled \notin Endpoints
  /\ NoProvider \notin [endpoint : Endpoints, models : SUBSET Models, reachable : BOOLEAN]
  /\ MaxCommits \in Nat

Configurations == [Providers -> Endpoints \cup {Disabled}]

VARIABLES
  phase,      \* "down", "booting", "serving"
  configured, \* the providers of the settings in force
  states,     \* _states
  refresh,    \* each refresh
  known,      \* history: the last list of each provider since it was enabled
  answers,    \* history: the providers whose last poll succeeded
  overlapped, \* history: two refreshes were in flight together since the boot
  commits     \* commits and reboots so far

providersVars == <<phase, configured, states, refresh, known, answers, overlapped, commits>>

Out == [at |-> "out"]
Empty == [p \in Providers |-> NoProvider]
Enabled(c) == {p \in Providers : c[p] # Disabled}
InFlight == {r \in Refreshes : refresh[r].at # "out"}

ProvidersIdle ==
  /\ phase = "down"
  /\ configured = [p \in Providers |-> Disabled]
  /\ states = Empty
  /\ refresh = [r \in Refreshes |-> Out]
  /\ known = [p \in Providers |-> {}]
  /\ answers = {} /\ overlapped = FALSE /\ commits = 0
-----------------------------------------------------------------------------
(* One refresh. *)

\* ProviderState
State(endpoint, models, reachable) ==
  [endpoint |-> endpoint, models |-> models, reachable |-> reachable]

\* Mutant: an unreachable provider loses its models.
PolledAnew(endpoint, previous, listed) ==
  IF listed.ok THEN State(endpoint, listed.models, TRUE) ELSE State(endpoint, {}, FALSE)

\* An answer replaces the list; a failure leaves the one known when the poll began,
\* also under a new endpoint.
Polled(endpoint, previous, listed) ==
  IF listed.ok THEN State(endpoint, listed.models, TRUE)
  ELSE State(endpoint, IF previous = NoProvider THEN {} ELSE previous.models, FALSE)

\* The next poll of refresh r, or its end. The settings may list the providers in
\* any order.
GoOn(r, target, todo, found) ==
  \/ /\ todo = {}
     /\ states' = found
     /\ refresh' = [refresh EXCEPT ![r] = Out]
  \/ /\ \E p \in todo :
          refresh' = [refresh EXCEPT ![r] =
            [at |-> "polling", target |-> target, todo |-> todo \ {p}, provider |-> p,
             previous |-> states[p], found |-> found]]
     /\ UNCHANGED states

\* refresh(), up to its first poll.
Begin(r, target) == GoOn(r, target, Enabled(target), Empty)

\* A list, or a timeout, an error status, an answer that is no list.
Listings == [ok : {TRUE}, models : SUBSET Models] \cup {[ok |-> FALSE, models |-> {}]}

PollEnds(r, listed) ==
  /\ refresh[r].at = "polling"
  /\ LET me == refresh[r]
         p == me.provider
     IN /\ GoOn(r, me.target, me.todo,
                [me.found EXCEPT ![p] = Polled(me.target[p], me.previous, listed)])
        /\ known' = IF listed.ok THEN [known EXCEPT ![p] = listed.models] ELSE known
        /\ answers' = IF listed.ok THEN answers \cup {p} ELSE answers \ {p}
        /\ phase' = IF InFlight' = {} THEN "serving" ELSE phase
  /\ UNCHANGED <<configured, overlapped, commits>>
-----------------------------------------------------------------------------
(* What makes the server poll. *)

\* The lifespan polls before it serves.
Boot(target) ==
  /\ phase = "down"
  /\ \E r \in Refreshes : Begin(r, target)
  /\ phase' = IF InFlight' = {} THEN "serving" ELSE "booting"
  /\ configured' = target
  /\ UNCHANGED <<known, answers, overlapped, commits>>

\* A commit: whoever is no longer enabled is forgotten.
Committed(target) ==
  /\ phase = "serving" /\ commits < MaxCommits
  /\ commits' = commits + 1
  /\ configured' = target
  /\ known' = [p \in Providers |-> IF target[p] = Disabled THEN {} ELSE known[p]]
  /\ answers' = answers \cap Enabled(target)
  /\ overlapped' = (overlapped \/ InFlight # {})
  /\ UNCHANGED phase

\* POST /v1/system/apply polls before it answers ...
Apply(r, target) ==
  /\ refresh[r].at = "out"
  /\ Committed(target)
  /\ Begin(r, target)

\* ... and maybe_commit_staged leaves it to a task, with the providers of now.
DeferredCommit(r, target) ==
  /\ refresh[r].at = "out"
  /\ Committed(target)
  /\ refresh' = [refresh EXCEPT ![r] = [at |-> "scheduled", target |-> target]]
  /\ UNCHANGED states

RunScheduled(r) ==
  /\ refresh[r].at = "scheduled"
  /\ Begin(r, refresh[r].target)
  /\ UNCHANGED <<phase, configured, known, answers, overlapped, commits>>

\* The process ends and boots again with its settings and an empty registry.
Reboot ==
  /\ phase # "down" /\ commits < MaxCommits
  /\ commits' = commits + 1
  /\ phase' = "down"
  /\ states' = Empty
  /\ refresh' = [r \in Refreshes |-> Out]
  /\ known' = [p \in Providers |-> {}]
  /\ answers' = {} /\ overlapped' = FALSE
  /\ UNCHANGED configured

ProvidersStep ==
  \/ \E target \in Configurations : (commits > 0 => target = configured) /\ Boot(target)
  \/ \E r \in Refreshes :
       \/ \E target \in Configurations : Apply(r, target) \/ DeferredCommit(r, target)
       \/ \E listed \in Listings : PollEnds(r, listed)
       \/ RunScheduled(r)
  \/ Reboot
-----------------------------------------------------------------------------
(* What the registry shows. *)

\* model_entries: the external part of GET /v1/models.
Entries ==
  UNION {{[provider |-> p, model |-> m, resident |-> states[p].reachable] : m \in states[p].models}
           : p \in {q \in Providers : states[q] # NoProvider}}

\* notices
Unreachable == {p \in Providers : states[p] # NoProvider /\ ~states[p].reachable}

\* resolve: where a chat for this model is sent; otherwise it is a 404. A model of an
\* unreachable provider is routed as well.
Resolves(p, m) == states[p] # NoProvider /\ m \in states[p].models
RoutedTo(p) == states[p].endpoint
-----------------------------------------------------------------------------
\* Once its refreshes are over the registry is that of the settings in force: every
\* enabled provider and no other, with the last list it gave since it was enabled
\* ("keeps the last known list", docs/architecture.md:344), a notice for those whose
\* last poll failed, and chats for a listed model go to the endpoint in force. Through
\* deferred commits, failures and reboots; not once two refreshes overlapped, of which
\* the one that ends last wins.
RegistryIsCurrent ==
  phase = "serving" /\ InFlight = {} /\ ~overlapped =>
    /\ Entries = UNION {{[provider |-> p, model |-> m, resident |-> p \in answers] : m \in known[p]}
                          : p \in Enabled(configured)}
    /\ Unreachable = Enabled(configured) \ answers
    /\ \A p \in Providers, m \in Models :
         Resolves(p, m) => p \in Enabled(configured) /\ RoutedTo(p) = configured[p]

=============================================================================

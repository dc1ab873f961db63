--------------------------- MODULE RequestsProofs ---------------------------
(***************************************************************************)
(* Proofs about what requests find and become, for any providers, models,  *)
(* endpoints and number of refreshes in flight.                            *)
(***************************************************************************)
EXTENDS Requests, FiniteSetTheorems, SequenceTheorems, WellFoundedInduction, TLAPS

-----------------------------------------------------------------------------
(***************************************************************************)
(* The registry. The theorem is about the moments when nothing is in       *)
(* flight; the invariant is about the refresh that leads there. Between    *)
(* commits a refresh is alone, so what it found so far is what the         *)
(* registry has to show, and what it has yet to poll the registry still    *)
(* shows as it was last heard.                                             *)
(***************************************************************************)
Registered == [endpoint : Endpoints, models : SUBSET Models, reachable : BOOLEAN]
Registry == [Providers -> Registered \cup {NoProvider}]

Scheduled == [at : {"scheduled"}, target : Configurations]
Polling ==
  {x \in [at : {"polling"}, target : Configurations, todo : SUBSET Providers,
          provider : Providers, previous : Registered \cup {NoProvider}, found : Registry] :
     x.todo \cup {x.provider} \subseteq Enabled(x.target)}

ProvidersTypes ==
  /\ phase \in {"down", "booting", "serving"}
  /\ configured \in Configurations
  /\ states \in Registry
  /\ refresh \in [Refreshes -> {Out} \cup Scheduled \cup Polling]
  /\ known \in [Providers -> SUBSET Models]
  /\ answers \in SUBSET Providers
  /\ overlapped \in BOOLEAN
  /\ commits \in Nat

\* The list an entry of the registry stands for.
ListOf(x) == IF x = NoProvider THEN {} ELSE x.models

\* What the registry has to show of a provider.
Shown(p) ==
  IF configured[p] = Disabled THEN NoProvider ELSE State(configured[p], known[p], p \in answers)

\* Nothing outlives the process.
DownInv ==
  phase = "down" =>
    /\ states = Empty /\ InFlight = {} /\ answers = {} /\ ~overlapped
    /\ \A p \in Providers : known[p] = {}

\* One refresh at a time.
AloneInv == ~overlapped => \A r, q \in InFlight : r = q

ForgottenInv ==
  ~overlapped =>
    \A p \in Providers : configured[p] = Disabled => known[p] = {} /\ p \notin answers

\* With no refresh in flight the registry is current.
SettledInv ==
  ~overlapped /\ InFlight = {} /\ phase # "down" => \A p \in Providers : states[p] = Shown(p)

\* A refresh that is yet to begin finds the last lists in the registry.
ScheduledInv(r) ==
  refresh[r].at = "scheduled" =>
    /\ refresh[r].target = configured
    /\ \A p \in Enabled(configured) : ListOf(states[p]) = known[p]

\* One that polls has found what it is to show, and finds the last lists of the others.
PollingInv(r) ==
  refresh[r].at = "polling" =>
    LET me == refresh[r] IN
      /\ me.target = configured
      /\ me.todo \subseteq Enabled(configured)
      /\ me.provider \in Enabled(configured) \ me.todo
      /\ me.previous = states[me.provider]
      /\ \A p \in me.todo \cup {me.provider} : ListOf(states[p]) = known[p]
      /\ \A p \in Providers \ (me.todo \cup {me.provider}) : me.found[p] = Shown(p)

RegistryInv ==
  /\ ProvidersTypes
  /\ DownInv /\ AloneInv /\ ForgottenInv /\ SettledInv
  /\ ~overlapped => \A r \in Refreshes : ScheduledInv(r) /\ PollingInv(r)

-----------------------------------------------------------------------------
(* What a refresh is at, by its place. *)

LEMMA Places ==
  ASSUME ProvidersTypes, NEW r \in Refreshes
  PROVE  /\ refresh[r].at = "out" <=> refresh[r] = Out
         /\ refresh[r].at = "scheduled" => refresh[r] \in Scheduled
         /\ refresh[r].at = "polling" => refresh[r] \in Polling
         /\ refresh[r].at \in {"out", "scheduled", "polling"}
BY DEF ProvidersTypes, Out, Scheduled, Polling

LEMMA Listed ==
  ASSUME NEW listed \in Listings
  PROVE  listed.ok => listed.models \in SUBSET Models
<1>1. CASE listed \in [ok : {TRUE}, models : SUBSET Models]
  BY <1>1
<1>2. CASE listed = [ok |-> FALSE, models |-> {}]
  BY <1>2
<1> QED BY <1>1, <1>2 DEF Listings

LEMMA PolledType ==
  ASSUME NEW e \in Endpoints, NEW previous \in Registered \cup {NoProvider}, NEW listed \in Listings
  PROVE  Polled(e, previous, listed) \in Registered
<1>1. CASE listed.ok
  BY <1>1, Listed DEF Polled, State, Registered
<1>2. CASE ~listed.ok
  BY <1>2 DEF Polled, State, Registered
<1> QED BY <1>1, <1>2

\* The next poll of a refresh, or its end, keeps the types.
LEMMA GoOnTypes ==
  ASSUME ProvidersTypes, NEW r \in Refreshes, NEW t \in Configurations,
         NEW todo \in SUBSET Enabled(t), NEW found \in Registry, GoOn(r, t, todo, found)
  PROVE  states' \in Registry /\ refresh' \in [Refreshes -> {Out} \cup Scheduled \cup Polling]
<1>1. CASE todo = {} /\ states' = found /\ refresh' = [refresh EXCEPT ![r] = Out]
  BY <1>1 DEF ProvidersTypes
<1>2. ASSUME NEW p \in todo, UNCHANGED states,
             refresh' = [refresh EXCEPT ![r] =
               [at |-> "polling", target |-> t, todo |-> todo \ {p}, provider |-> p,
                previous |-> states[p], found |-> found]]
      PROVE  states' \in Registry /\ refresh' \in [Refreshes -> {Out} \cup Scheduled \cup Polling]
  <2>1. states[p] \in Registered \cup {NoProvider}
    BY DEF ProvidersTypes, Registry, Enabled
  <2>2. [at |-> "polling", target |-> t, todo |-> todo \ {p}, provider |-> p,
         previous |-> states[p], found |-> found] \in Polling
    BY <2>1 DEF Polling, Enabled
  <2> QED BY <1>2, <2>2 DEF ProvidersTypes
<1> QED BY <1>1, <1>2 DEF GoOn

LEMMA EmptyType == Empty \in Registry
BY DEF Empty, Registry

-----------------------------------------------------------------------------
(* The types of the registry. *)

LEMMA TypesInit == ProvidersIdle => ProvidersTypes /\ DownInv
<1> SUFFICES ASSUME ProvidersIdle PROVE ProvidersTypes /\ DownInv
  OBVIOUS
<1>1. \A r \in Refreshes : refresh[r] = Out
  BY DEF ProvidersIdle
<1>2. InFlight = {}
  BY <1>1 DEF InFlight, Out
<1>3. ProvidersTypes
  BY EmptyType DEF ProvidersIdle, ProvidersTypes, Configurations
<1> QED BY <1>2, <1>3 DEF ProvidersIdle, DownInv

LEMMA CommittedTypes ==
  ASSUME ProvidersTypes, NEW t \in Configurations, Committed(t)
  PROVE  /\ phase' \in {"down", "booting", "serving"}
         /\ configured' \in Configurations
         /\ known' \in [Providers -> SUBSET Models]
         /\ answers' \in SUBSET Providers
         /\ overlapped' \in BOOLEAN
         /\ commits' \in Nat
<1>1. known' \in [Providers -> SUBSET Models]
  BY DEF Committed, ProvidersTypes
<1>2. overlapped' \in BOOLEAN
  BY ZenonT(20) DEF Committed, ProvidersTypes
<1> QED BY <1>1, <1>2 DEF Committed, ProvidersTypes, Enabled

LEMMA TypesStep == ProvidersTypes /\ [ProvidersStep]_providersVars => ProvidersTypes'
<1> SUFFICES ASSUME ProvidersTypes, [ProvidersStep]_providersVars PROVE ProvidersTypes'
  OBVIOUS
<1>1. ASSUME NEW t \in Configurations, Boot(t) PROVE ProvidersTypes'
  <2>1. PICK r \in Refreshes : Begin(r, t)
    BY <1>1 DEF Boot
  <2>2. states' \in Registry /\ refresh' \in [Refreshes -> {Out} \cup Scheduled \cup Polling]
    BY <2>1, GoOnTypes, EmptyType DEF Begin, Enabled
  <2> QED BY <1>1, <2>2 DEF Boot, ProvidersTypes
<1>2. ASSUME NEW t \in Configurations, NEW r \in Refreshes, Apply(r, t) PROVE ProvidersTypes'
  <2>1. states' \in Registry /\ refresh' \in [Refreshes -> {Out} \cup Scheduled \cup Polling]
    BY <1>2, GoOnTypes, EmptyType DEF Apply, Begin, Enabled
  <2>2. Committed(t)
    BY <1>2 DEF Apply
  <2> QED BY <2>1, <2>2, CommittedTypes DEF ProvidersTypes
<1>3. ASSUME NEW t \in Configurations, NEW r \in Refreshes, DeferredCommit(r, t)
      PROVE  ProvidersTypes'
  <2>1. [at |-> "scheduled", target |-> t] \in Scheduled
    BY DEF Scheduled
  <2>2. refresh' \in [Refreshes -> {Out} \cup Scheduled \cup Polling] /\ states' = states
    BY <1>3, <2>1 DEF DeferredCommit, ProvidersTypes
  <2>3. Committed(t)
    BY <1>3 DEF DeferredCommit
  <2> QED BY <2>2, <2>3, CommittedTypes DEF ProvidersTypes
<1>4. ASSUME NEW r \in Refreshes, NEW listed \in Listings, PollEnds(r, listed)
      PROVE  ProvidersTypes'
  <2> DEFINE me == refresh[r]
             found == [me.found EXCEPT ![me.provider] =
                         Polled(me.target[me.provider], me.previous, listed)]
  <2>1. me \in Polling
    BY <1>4, Places DEF PollEnds
  <2>2. /\ me.target \in Configurations /\ me.todo \in SUBSET Enabled(me.target)
        /\ me.provider \in Providers /\ me.target[me.provider] \in Endpoints
        /\ me.previous \in Registered \cup {NoProvider} /\ me.found \in Registry
    BY <2>1 DEF Polling, Enabled, Configurations
  <2>3. Polled(me.target[me.provider], me.previous, listed) \in Registered
    BY <2>2, PolledType
  <2>4. found \in Registry
    BY <2>2, <2>3 DEF Registry
  <2>5. GoOn(r, me.target, me.todo, found)
    BY <1>4 DEF PollEnds
  <2>6. states' \in Registry /\ refresh' \in [Refreshes -> {Out} \cup Scheduled \cup Polling]
    BY <2>2, <2>4, <2>5, GoOnTypes
  <2>7. known' \in [Providers -> SUBSET Models]
    BY <1>4, Listed DEF PollEnds, ProvidersTypes
  <2>8. answers' \in SUBSET Providers
    BY <1>4, <2>2 DEF PollEnds, ProvidersTypes
  <2> QED BY <1>4, <2>6, <2>7, <2>8 DEF PollEnds, ProvidersTypes
<1>5. ASSUME NEW r \in Refreshes, RunScheduled(r) PROVE ProvidersTypes'
  <2>1. refresh[r] \in Scheduled
    BY <1>5, Places DEF RunScheduled
  <2>2. states' \in Registry /\ refresh' \in [Refreshes -> {Out} \cup Scheduled \cup Polling]
    BY <1>5, <2>1, GoOnTypes, EmptyType DEF RunScheduled, Begin, Enabled, Scheduled
  <2> QED BY <1>5, <2>2 DEF RunScheduled, ProvidersTypes
<1>6. CASE Reboot
  <2>1. states' \in Registry
    BY <1>6, EmptyType DEF Reboot
  <2>2. refresh' \in [Refreshes -> {Out} \cup Scheduled \cup Polling]
    BY <1>6 DEF Reboot
  <2>3. known' \in [Providers -> SUBSET Models]
    BY <1>6 DEF Reboot
  <2>4. commits' \in Nat /\ configured' \in Configurations /\ answers' \in SUBSET Providers
    BY <1>6 DEF Reboot, ProvidersTypes
  <2>5. phase' \in {"down", "booting", "serving"} /\ overlapped' \in BOOLEAN
    BY <1>6 DEF Reboot
  <2> QED BY <2>1, <2>2, <2>3, <2>4, <2>5 DEF ProvidersTypes
<1>7. CASE UNCHANGED providersVars
  BY <1>7 DEF providersVars, ProvidersTypes
<1> QED BY <1>1, <1>2, <1>3, <1>4, <1>5, <1>6, <1>7 DEF ProvidersStep

-----------------------------------------------------------------------------
(* A refresh that is alone. *)

\* What it has found, and what it has yet to poll, as it goes on.
LEMMA GoesOn ==
  ASSUME ProvidersTypes, ProvidersTypes', NEW r \in Refreshes,
         NEW todo \in SUBSET Enabled(configured'), NEW found \in Registry,
         GoOn(r, configured', todo, found),
         \A q \in Refreshes \ {r} : refresh[q] = Out,
         \A p \in todo : ListOf(states[p]) = known'[p],
         \A p \in Providers \ todo : found[p] = Shown(p)'
  PROVE  /\ AloneInv' /\ SettledInv'
         /\ \A q \in Refreshes : ScheduledInv(q)' /\ PollingInv(q)'
<1>1. \A q \in Refreshes \ {r} : refresh'[q] = Out
  BY DEF GoOn, ProvidersTypes
<1>2. AloneInv'
  BY <1>1 DEF AloneInv, InFlight, Out
<1>3. ASSUME NEW q \in Refreshes \ {r} PROVE ScheduledInv(q)' /\ PollingInv(q)'
  BY <1>1, <1>3 DEF ScheduledInv, PollingInv, Out
<1>4. CASE todo = {} /\ states' = found /\ refresh' = [refresh EXCEPT ![r] = Out]
  <2>1. refresh'[r] = Out
    BY <1>4 DEF ProvidersTypes
  <2>2. ScheduledInv(r)' /\ PollingInv(r)'
    BY <2>1 DEF ScheduledInv, PollingInv, Out
  <2>3. \A p \in Providers : states'[p] = Shown(p)'
    BY <1>4
  <2>4. SettledInv'
    BY <2>3 DEF SettledInv
  <2> QED BY <1>2, <1>3, <2>2, <2>4
<1>5. ASSUME NEW p \in todo, UNCHANGED states,
             refresh' = [refresh EXCEPT ![r] =
               [at |-> "polling", target |-> configured', todo |-> todo \ {p}, provider |-> p,
                previous |-> states[p], found |-> found]]
      PROVE  SettledInv' /\ ScheduledInv(r)' /\ PollingInv(r)'
  <2>1. refresh'[r] = [at |-> "polling", target |-> configured', todo |-> todo \ {p},
                       provider |-> p, previous |-> states[p], found |-> found]
    BY <1>5 DEF ProvidersTypes
  <2>2. r \in InFlight'
    BY <2>1 DEF InFlight
  <2>3. SettledInv'
    BY <2>2 DEF SettledInv
  <2>4. ScheduledInv(r)'
    BY <2>1 DEF ScheduledInv
  <2>5. todo \ {p} \subseteq Enabled(configured)' /\ p \in Enabled(configured)' \ (todo \ {p})
    BY DEF Enabled
  <2>6. (todo \ {p}) \cup {p} = todo
    OBVIOUS
  <2>7. PollingInv(r)'
    BY <1>5, <2>1, <2>5, <2>6 DEF PollingInv
  <2> QED BY <2>3, <2>4, <2>7
<1> QED BY <1>2, <1>3, <1>4, <1>5 DEF GoOn

\* As it begins, the registry has a list of each provider to poll: its last one.
LEMMA Begins ==
  ASSUME ProvidersTypes, ProvidersTypes', NEW r \in Refreshes, Begin(r, configured'),
         \A q \in Refreshes \ {r} : refresh[q] = Out,
         \A p \in Enabled(configured') : ListOf(states[p]) = known'[p]
  PROVE  /\ AloneInv' /\ SettledInv'
         /\ \A q \in Refreshes : ScheduledInv(q)' /\ PollingInv(q)'
<1>1. \A p \in Providers \ Enabled(configured') : Empty[p] = Shown(p)'
  BY DEF Empty, Shown, Enabled
<1>2. GoOn(r, configured', Enabled(configured'), Empty)
  BY DEF Begin
<1>3. Enabled(configured') \in SUBSET Enabled(configured')
  OBVIOUS
<1> HIDE DEF Empty
<1> QED BY <1>1, <1>2, <1>3, EmptyType, GoesOn

\* A registered entry is no NoProvider.
LEMMA EntryIsNo ==
  ASSUME NEW x \in Registered
  PROVE  x # NoProvider
BY ProvidersAssumption DEF ProvidersAssumption, Registered

\* The list of what is shown is the last list.
LEMMA ShownList ==
  ASSUME ProvidersTypes, ForgottenInv, ~overlapped, NEW p \in Providers
  PROVE  ListOf(Shown(p)) = known[p]
<1>1. CASE configured[p] = Disabled
  BY <1>1 DEF ForgottenInv, ListOf, Shown
<1>2. CASE configured[p] # Disabled
  <2>1. State(configured[p], known[p], p \in answers) \in Registered
    BY <1>2 DEF State, Registered, ProvidersTypes, Configurations
  <2> QED BY <1>2, <2>1, EntryIsNo DEF ListOf, Shown, State
<1> QED BY <1>1, <1>2

-----------------------------------------------------------------------------
(* The steps of the registry. *)

LEMMA NoneInFlight ==
  ASSUME ProvidersTypes, InFlight = {}
  PROVE  \A q \in Refreshes : refresh[q] = Out
BY Places DEF InFlight

\* After a commit that found no refresh in flight the registry has the last lists.
LEMMA CommitKeepsLists ==
  ASSUME RegistryInv, NEW t \in Configurations, Committed(t), ~overlapped'
  PROVE  /\ ~overlapped /\ InFlight = {}
         /\ \A p \in Enabled(t) : ListOf(states[p]) = known'[p]
         /\ ForgottenInv'
<1>1. ~overlapped /\ InFlight = {}
  BY DEF Committed
<1>2. ASSUME NEW p \in Enabled(t) PROVE ListOf(states[p]) = known'[p]
  <2>1. states[p] = Shown(p) /\ p \in Providers
    BY <1>1 DEF RegistryInv, SettledInv, Committed, Enabled
  <2>2. ListOf(states[p]) = known[p]
    BY <1>1, <2>1, ShownList DEF RegistryInv
  <2> QED BY <2>1, <2>2 DEF Committed, Enabled
<1>3. ForgottenInv'
  BY DEF ForgottenInv, Committed, Enabled
<1> QED BY <1>1, <1>2, <1>3

\* A poll that ends when its refresh is alone.
LEMMA PollKeeps ==
  ASSUME RegistryInv, ProvidersTypes', NEW r \in Refreshes, NEW listed \in Listings,
         PollEnds(r, listed), ~overlapped
  PROVE  /\ AloneInv' /\ SettledInv' /\ ForgottenInv'
         /\ \A q \in Refreshes : ScheduledInv(q)' /\ PollingInv(q)'
<1> DEFINE me == refresh[r]
           polled == Polled(me.target[me.provider], me.previous, listed)
           found == [me.found EXCEPT ![me.provider] = polled]
<1>1. ProvidersTypes /\ PollingInv(r) /\ me.at = "polling" /\ ForgottenInv /\ configured' = configured
  BY DEF RegistryInv, PollEnds
<1>2. /\ me.target = configured /\ me.todo \in SUBSET Enabled(configured)
      /\ me.provider \in Enabled(configured) \ me.todo
      /\ me.previous = states[me.provider]
      /\ \A p \in me.todo \cup {me.provider} : ListOf(states[p]) = known[p]
      /\ \A p \in Providers \ (me.todo \cup {me.provider}) : me.found[p] = Shown(p)
  BY <1>1 DEF PollingInv
<1>3. me.found \in Registry /\ me.previous \in Registered \cup {NoProvider}
  BY <1>1, Places DEF Polling
<1>4. me.provider \in Providers /\ configured[me.provider] \in Endpoints
  BY <1>1, <1>2 DEF Enabled, ProvidersTypes, Configurations
<1>5. polled \in Registered
  BY <1>2, <1>3, <1>4, PolledType
<1>6. found \in Registry
  BY <1>3, <1>4, <1>5 DEF Registry
<1>7. GoOn(r, configured', me.todo, found)
  BY <1>1, <1>2 DEF PollEnds
<1>8. \A q \in Refreshes \ {r} : refresh[q] = Out
  BY <1>1, Places DEF RegistryInv, AloneInv, InFlight
<1>9. \A p \in Providers \ {me.provider} : known'[p] = known[p] /\ (p \in answers' <=> p \in answers)
  BY <1>1, <1>4 DEF PollEnds, ProvidersTypes
<1>10. \A p \in me.todo : ListOf(states[p]) = known'[p]
  BY <1>2, <1>9 DEF Enabled
<1>b. PICK x \in Providers : x = me.provider
  BY <1>4
<1>11. polled = Shown(x)'
  <2>0. configured'[x] # Disabled
    BY <1>b, <1>1, <1>4, ProvidersAssumption DEF ProvidersAssumption
  <2>1. CASE listed.ok
    <3>1. known'[x] = listed.models /\ x \in answers'
      BY <1>b, <1>1, <1>4, <2>1 DEF PollEnds, ProvidersTypes
    <3>2. (x \in answers') = TRUE
      BY <3>1
    <3>3. polled = State(configured'[x], known'[x], TRUE)
      BY <1>b, <1>1, <1>2, <2>1, <3>1 DEF Polled
    <3> HIDE DEF polled
    <3> QED BY <2>0, <3>2, <3>3 DEF Shown
  <2>2. CASE ~listed.ok
    <3>1. known' = known /\ x \notin answers'
      BY <1>b, <2>2 DEF PollEnds
    <3>2. (x \in answers') = FALSE
      BY <3>1
    <3>3. polled = State(configured'[x], known'[x], FALSE)
      BY <1>b, <1>1, <1>2, <2>2, <3>1 DEF Polled, ListOf
    <3> HIDE DEF polled
    <3> QED BY <2>0, <3>2, <3>3 DEF Shown
  <2> QED BY <2>1, <2>2
<1>12. ASSUME NEW p \in Providers \ me.todo PROVE found[p] = Shown(p)'
  <2>1. CASE p = me.provider
    <3>1. found[p] = polled
      BY <1>3, <2>1 DEF Registry
    <3>2. p = x
      BY <1>b, <2>1
    <3> HIDE DEF found, polled
    <3> QED BY <1>11, <3>1, <3>2
  <2>2. CASE p # me.provider
    <3>1. found[p] = me.found[p]
      BY <1>3, <2>2 DEF Registry
    <3>2. Shown(p)' = Shown(p)
      BY <1>1, <1>9, <2>2 DEF Shown, State
    <3> QED BY <1>2, <2>2, <3>1, <3>2
  <2> QED BY <2>1, <2>2
<1>13. ForgottenInv'
  BY <1>1, <1>2, <1>9 DEF ForgottenInv, PollEnds, Enabled
<1> HIDE DEF found
<1> QED BY <1>1, <1>2, <1>6, <1>7, <1>8, <1>10, <1>12, <1>13, GoesOn

LEMMA RegistryInvInit == ProvidersIdle => RegistryInv
<1> SUFFICES ASSUME ProvidersIdle PROVE RegistryInv
  OBVIOUS
<1>1. ProvidersTypes /\ DownInv
  BY TypesInit
<1>2. \A r \in Refreshes : refresh[r] = Out /\ refresh[r].at = "out"
  BY DEF ProvidersIdle, Out
<1>3. AloneInv /\ ForgottenInv /\ SettledInv
  BY <1>2 DEF ProvidersIdle, AloneInv, ForgottenInv, SettledInv, InFlight
<1>4. \A r \in Refreshes : ScheduledInv(r) /\ PollingInv(r)
  BY <1>2 DEF ScheduledInv, PollingInv
<1> QED BY <1>1, <1>3, <1>4 DEF RegistryInv

LEMMA RegistryInvStep == RegistryInv /\ [ProvidersStep]_providersVars => RegistryInv'
<1> SUFFICES ASSUME RegistryInv, [ProvidersStep]_providersVars PROVE RegistryInv'
  OBVIOUS
<1>0. ProvidersTypes /\ ProvidersTypes'
  BY TypesStep DEF RegistryInv
<1> DEFINE Rest == /\ AloneInv' /\ SettledInv' /\ ForgottenInv'
                   /\ \A q \in Refreshes : ScheduledInv(q)' /\ PollingInv(q)'
<1>a. ASSUME DownInv', ~overlapped' => Rest PROVE RegistryInv'
  BY <1>0, <1>a DEF RegistryInv, AloneInv, SettledInv, ForgottenInv
<1>1. ASSUME NEW t \in Configurations, Boot(t) PROVE RegistryInv'
  <2>1. PICK r \in Refreshes : Begin(r, t)
    BY <1>1 DEF Boot
  <2>2. /\ states = Empty /\ InFlight = {} /\ answers = {} /\ ~overlapped
        /\ \A p \in Providers : known[p] = {}
    BY <1>1 DEF Boot, RegistryInv, DownInv
  <2>3. /\ configured' = t /\ known' = known /\ answers' = answers /\ overlapped' = overlapped
        /\ phase' # "down"
    BY <1>1 DEF Boot
  <2>4. \A p \in Enabled(t) : ListOf(states[p]) = known'[p]
    BY <2>2, <2>3 DEF Empty, ListOf, Enabled
  <2>5. \A q \in Refreshes \ {r} : refresh[q] = Out
    BY <1>0, <2>2, NoneInFlight
  <2>6. ForgottenInv'
    BY <2>2, <2>3 DEF ForgottenInv
  <2>7. Rest
    BY <1>0, <2>1, <2>3, <2>4, <2>5, <2>6, Begins
  <2>8. DownInv'
    BY <2>3 DEF DownInv
  <2> QED BY <1>a, <2>7, <2>8
<1>2. ASSUME NEW t \in Configurations, NEW r \in Refreshes, Apply(r, t) PROVE RegistryInv'
  <2>1. Committed(t) /\ Begin(r, configured') /\ configured' = t /\ phase' # "down"
    BY <1>2 DEF Apply, Committed
  <2>2. DownInv'
    BY <2>1 DEF DownInv
  <2>3. ASSUME ~overlapped' PROVE Rest
    <3>1. /\ InFlight = {} /\ ForgottenInv'
          /\ \A p \in Enabled(t) : ListOf(states[p]) = known'[p]
      BY <2>1, <2>3, CommitKeepsLists
    <3>2. \A q \in Refreshes \ {r} : refresh[q] = Out
      BY <1>0, <3>1, NoneInFlight
    <3> QED BY <1>0, <2>1, <3>1, <3>2, Begins
  <2> QED BY <1>a, <2>2, <2>3
<1>3. ASSUME NEW t \in Configurations, NEW r \in Refreshes, DeferredCommit(r, t)
      PROVE  RegistryInv'
  <2>1. /\ Committed(t) /\ configured' = t /\ phase' # "down" /\ states' = states
        /\ refresh' = [refresh EXCEPT ![r] = [at |-> "scheduled", target |-> t]]
    BY <1>3 DEF DeferredCommit, Committed
  <2>2. DownInv'
    BY <2>1 DEF DownInv
  <2>3. ASSUME ~overlapped' PROVE Rest
    <3>1. /\ InFlight = {} /\ ForgottenInv'
          /\ \A p \in Enabled(t) : ListOf(states[p]) = known'[p]
      BY <2>1, <2>3, CommitKeepsLists
    <3>2. refresh'[r] = [at |-> "scheduled", target |-> t]
      BY <1>0, <2>1 DEF ProvidersTypes
    <3>3. \A q \in Refreshes \ {r} : refresh'[q] = Out
      BY <1>0, <2>1, <3>1, NoneInFlight DEF ProvidersTypes
    <3>4. AloneInv'
      BY <3>3 DEF AloneInv, InFlight, Out
    <3>5. r \in InFlight'
      BY <3>2 DEF InFlight
    <3>6. SettledInv'
      BY <3>5 DEF SettledInv
    <3>7. ScheduledInv(r)' /\ PollingInv(r)'
      BY <2>1, <3>1, <3>2 DEF ScheduledInv, PollingInv
    <3>8. \A q \in Refreshes \ {r} : ScheduledInv(q)' /\ PollingInv(q)'
      BY <3>3 DEF ScheduledInv, PollingInv, Out
    <3> QED BY <3>1, <3>4, <3>6, <3>7, <3>8
  <2> QED BY <1>a, <2>2, <2>3
<1>4. ASSUME NEW r \in Refreshes, NEW listed \in Listings, PollEnds(r, listed)
      PROVE  RegistryInv'
  <2>1. r \in InFlight
    BY <1>4 DEF PollEnds, InFlight
  <2>2. phase # "down"
    BY <2>1 DEF RegistryInv, DownInv
  <2>3. phase' # "down" /\ overlapped' = overlapped
    BY <1>4, <2>2 DEF PollEnds
  <2>4. DownInv'
    BY <2>3 DEF DownInv
  <2>5. ~overlapped' => Rest
    BY <1>0, <1>4, <2>3, PollKeeps
  <2> QED BY <1>a, <2>4, <2>5
<1>5. ASSUME NEW r \in Refreshes, RunScheduled(r) PROVE RegistryInv'
  <2>1. r \in InFlight /\ refresh[r].at = "scheduled"
    BY <1>5 DEF RunScheduled, InFlight
  <2>2. /\ phase' = phase /\ overlapped' = overlapped /\ configured' = configured
        /\ known' = known /\ answers' = answers
    BY <1>5 DEF RunScheduled
  <2>3. DownInv'
    BY <2>1, <2>2 DEF RegistryInv, DownInv
  <2>4. ASSUME ~overlapped' PROVE Rest
    <3>1. /\ refresh[r].target = configured
          /\ \A p \in Enabled(configured) : ListOf(states[p]) = known[p]
      BY <2>1, <2>2, <2>4 DEF RegistryInv, ScheduledInv
    <3>2. \A q \in Refreshes \ {r} : refresh[q] = Out
      BY <1>0, <2>1, <2>2, <2>4, Places DEF RegistryInv, AloneInv, InFlight
    <3>3. Begin(r, configured')
      BY <1>5, <2>2, <3>1 DEF RunScheduled
    <3>4. ForgottenInv'
      BY <2>2, <2>4 DEF RegistryInv, ForgottenInv
    <3> QED BY <1>0, <2>2, <3>1, <3>2, <3>3, <3>4, Begins
  <2> QED BY <1>a, <2>3, <2>4
<1>6. CASE Reboot
  <2>1. \A q \in Refreshes : refresh'[q] = Out
    BY <1>6 DEF Reboot
  <2>2. InFlight' = {}
    BY <2>1 DEF InFlight, Out
  <2>3. DownInv'
    BY <1>6, <2>2 DEF Reboot, DownInv
  <2>4. AloneInv' /\ SettledInv' /\ ForgottenInv'
    BY <1>6, <2>2 DEF Reboot, AloneInv, SettledInv, ForgottenInv
  <2>5. \A q \in Refreshes : ScheduledInv(q)' /\ PollingInv(q)'
    BY <2>1 DEF ScheduledInv, PollingInv, Out
  <2> QED BY <1>a, <2>3, <2>4, <2>5
<1>7. CASE UNCHANGED providersVars
  BY <1>7 DEF providersVars, RegistryInv, ProvidersTypes, DownInv, AloneInv, ForgottenInv,
              SettledInv, ScheduledInv, PollingInv, InFlight, Shown
<1> QED BY <1>1, <1>2, <1>3, <1>4, <1>5, <1>6, <1>7 DEF ProvidersStep

-----------------------------------------------------------------------------
\* What the registry shows once it is settled.
LEMMA SettledIsCurrent == RegistryInv => RegistryIsCurrent
<1> SUFFICES ASSUME RegistryInv, phase = "serving", InFlight = {}, ~overlapped
             PROVE  RegistryIsCurrent
  BY DEF RegistryIsCurrent
<1>1. \A p \in Providers : states[p] = Shown(p)
  BY DEF RegistryInv, SettledInv
<1>2. ASSUME NEW p \in Providers, configured[p] # Disabled
      PROVE  /\ states[p] # NoProvider
             /\ states[p].endpoint = configured[p] /\ states[p].models = known[p]
             /\ states[p].reachable = (p \in answers)
  <2>1. states[p] = State(configured[p], known[p], p \in answers)
    BY <1>1, <1>2 DEF Shown
  <2>2. State(configured[p], known[p], p \in answers) \in Registered
    BY <1>2 DEF State, Registered, RegistryInv, ProvidersTypes, Configurations
  <2> QED BY <2>1, <2>2, EntryIsNo DEF State
<1>3. \A p \in Providers : states[p] # NoProvider <=> p \in Enabled(configured)
  BY <1>1, <1>2 DEF Shown, Enabled
<1>4. {q \in Providers : states[q] # NoProvider} = Enabled(configured)
  BY <1>3 DEF Enabled
<1>5. \A p \in Enabled(configured) :
        {[provider |-> p, model |-> m, resident |-> states[p].reachable] : m \in states[p].models}
          = {[provider |-> p, model |-> m, resident |-> p \in answers] : m \in known[p]}
  BY <1>2 DEF Enabled
<1>6. Entries = UNION {{[provider |-> p, model |-> m, resident |-> p \in answers] : m \in known[p]}
                         : p \in Enabled(configured)}
  <2>1. {{[provider |-> p, model |-> m, resident |-> states[p].reachable] : m \in states[p].models}
           : p \in {q \in Providers : states[q] # NoProvider}}
        = {{[provider |-> p, model |-> m, resident |-> p \in answers] : m \in known[p]}
             : p \in Enabled(configured)}
    BY <1>4, <1>5
  <2> QED BY <2>1 DEF Entries
<1>7. Unreachable = Enabled(configured) \ answers
  BY <1>2, <1>3 DEF Unreachable, Enabled
<1>8. ASSUME NEW p \in Providers, NEW m \in Models, Resolves(p, m)
      PROVE  p \in Enabled(configured) /\ RoutedTo(p) = configured[p]
  BY <1>2, <1>3, <1>8 DEF Resolves, RoutedTo, Enabled
<1> QED BY <1>6, <1>7, <1>8 DEF RegistryIsCurrent

\* Once its refreshes are over the registry is that of the settings in force, for any
\* providers, endpoints, models and number of refreshes, through deferred commits,
\* failed polls and reboots.
THEOREM RegistrySettles == Spec => []RegistryIsCurrent
<1>1. Init => RegistryInv
  BY RegistryInvInit DEF Init
<1>2. RegistryInv /\ [Next]_vars => RegistryInv'
  <2> SUFFICES ASSUME RegistryInv, [Next]_vars PROVE RegistryInv'
    OBVIOUS
  <2>1. [ProvidersStep]_providersVars
    BY DEF Next, vars
  <2> QED BY <2>1, RegistryInvStep
<1> QED BY <1>1, <1>2, SettledIsCurrent, PTL DEF Spec

-----------------------------------------------------------------------------
(***************************************************************************)
(* Research. Which sources there are depends on a fold over the results of *)
(* a search (Merged); the library gives it as a function chosen for its    *)
(* recursion, so the first thing to show is that there is such a function. *)
(***************************************************************************)
\* Any set of natural numbers has a least one.
LEMMA Least ==
  ASSUME NEW S \in SUBSET Nat, S # {}
  PROVE  \E m \in S : \A k \in S : m <= k
  <1> DEFINE R == {p \in Nat \X Nat : p[1] < p[2]}
  <1>1. IsWellFoundedOn(R, Nat)
    BY NatLessThanWellFounded DEF OpToRel
  <1> HIDE DEF R
  <1>2. PICK x \in S : \A y \in S : ~ (<<y, x>> \in R)
    BY <1>1, WFMin
  <1>3. ASSUME NEW y \in S PROVE x <= y
    <2>1. <<y, x>> \in R <=> y < x
      BY DEF R
    <2> QED BY <1>2, <2>1
  <1> QED BY <1>3

\* One URL more.
With(acc, u) == IF u \in ToSet(acc) THEN acc ELSE Append(acc, u)

\* g folds the results of n positions, as Merged does.
Folds(g, urls, results, n) ==
  g = [s \in SUBSET (1..n) |->
         IF s = {} THEN urls ELSE With(g[s \ {Max(s)}], results[Max(s)])]

\* The library's fold is a function of this kind, if there is one.
LEMMA MergedIsFold ==
  ASSUME NEW urls, NEW results, NEW n, DOMAIN results = 1..n
  PROVE  Merged(urls, results) = (CHOOSE g : Folds(g, urls, results, n))[1..n]
BY DEF Merged, FoldLeft, MapThenFoldSet, Folds, With

LEMMA TopIs ==
  ASSUME NEW n \in Nat, NEW s \in SUBSET (1..n), n \in s
  PROVE  Max(s) = n
  <1>1. \A y \in s : n >= y
    OBVIOUS
  <1>2. \A x \in s : (\A y \in s : x >= y) => x = n
    OBVIOUS
  <1> QED BY <1>1, <1>2 DEF Max

\* One for n positions makes one for n + 1, so that there is one for any number.
LEMMA FoldGrows ==
  ASSUME NEW urls, NEW results, NEW n \in Nat, NEW g, Folds(g, urls, results, n)
  PROVE  \E h : Folds(h, urls, results, n + 1)
<1> PICK m \in Nat : m = n + 1
  OBVIOUS
<1> DEFINE h == [s \in SUBSET (1..m) |->
                   IF m \in s THEN With(g[s \ {m}], results[m]) ELSE g[s]]
<1>1. ASSUME NEW s \in SUBSET (1..m)
      PROVE  h[s] = IF s = {} THEN urls ELSE With(h[s \ {Max(s)}], results[Max(s)])
  <2>1. CASE m \in s
    <3>1. Max(s) = m
      BY <2>1, TopIs
    <3>2. s \ {m} \in SUBSET (1..m) /\ m \notin s \ {m}
      OBVIOUS
    <3>3. h[s \ {m}] = g[s \ {m}]
      BY <3>2
    <3> QED BY <2>1, <3>1, <3>3
  <2>2. CASE m \notin s
    <3>1. s \in SUBSET (1..n)
      BY <2>2
    <3>2. s \ {Max(s)} \in SUBSET (1..n) /\ m \notin s \ {Max(s)} /\ s \ {Max(s)} \in SUBSET (1..m)
      BY <2>2, <3>1
    <3>3. h[s] = g[s] /\ h[s \ {Max(s)}] = g[s \ {Max(s)}]
      BY <2>2, <3>2
    <3>4. g[s] = IF s = {} THEN urls ELSE With(g[s \ {Max(s)}], results[Max(s)])
      BY <3>1 DEF Folds
    <3> QED BY <3>3, <3>4
  <2> QED BY <2>1, <2>2
<1>2. h = [s \in SUBSET (1..m) |-> h[s]]
  OBVIOUS
<1> HIDE DEF h
<1>3. Folds(h, urls, results, m)
  BY <1>1, <1>2 DEF Folds
<1> QED BY <1>3

LEMMA FoldExists ==
  ASSUME NEW urls, NEW results, NEW n \in Nat
  PROVE  \E g : Folds(g, urls, results, n)
<1> DEFINE S == {k \in 0..n : ~ \E g : Folds(g, urls, results, k)}
<1>1. n \in 0..n
  OBVIOUS
<1>2. SUFFICES ASSUME S # {} PROVE FALSE
  <2>1. S = {} => \E g : Folds(g, urls, results, n)
    BY <1>1, Zenon
  <2> QED BY <2>1
<1>3. PICK m \in S : \A k \in S : m <= k
  <2>1. S \in SUBSET Nat
    OBVIOUS
  <2> HIDE DEF S
  <2> QED BY <1>2, <2>1, Least
<1>4. CASE m = 0
  <2>1. Folds([s \in SUBSET (1..0) |-> urls], urls, results, 0)
    <3>1. \A s \in SUBSET (1..0) : s = {}
      OBVIOUS
    <3> QED BY <3>1 DEF Folds
  <2> QED BY <1>4, <2>1
<1>5. CASE m # 0
  <2>1. PICK k \in 0..n : m = k + 1 /\ k \notin S
    BY <1>3, <1>5
  <2>2. PICK g : Folds(g, urls, results, k)
    BY <2>1
  <2>3. \E h : Folds(h, urls, results, m)
    BY <2>1, <2>2, FoldGrows
  <2> QED BY <2>3
<1> QED BY <1>4, <1>5

\* No URL twice.
Distinct(s) == \A i, j \in 1..Len(s) : s[i] = s[j] => i = j

LEMMA WithAdds ==
  ASSUME NEW acc \in Seq(Urls), NEW u \in Urls, Distinct(acc)
  PROVE  /\ With(acc, u) \in Seq(Urls) /\ Distinct(With(acc, u))
         /\ ToSet(With(acc, u)) = ToSet(acc) \cup {u}
<1>1. CASE u \in ToSet(acc)
  BY <1>1 DEF With
<1>2. CASE u \notin ToSet(acc)
  <2>0. Append(acc, u) \in Seq(Urls)
    OBVIOUS
  <2> PICK b \in Seq(Urls) : b = Append(acc, u)
    BY <2>0, Zenon
  <2>1. Len(b) = Len(acc) + 1 /\ b[Len(acc) + 1] = u /\ \A i \in 1..Len(acc) : b[i] = acc[i]
    OBVIOUS
  <2>2. \A i \in 1..Len(acc) : acc[i] # u
    BY <1>2 DEF ToSet
  <2>3. Distinct(b)
    BY <2>1, <2>2 DEF Distinct
  <2>4. ToSet(b) = ToSet(acc) \cup {u}
    <3>1. DOMAIN b = 1..(Len(acc) + 1) /\ DOMAIN acc = 1..Len(acc) /\ Len(acc) \in Nat
      BY <2>1
    <3> QED BY <2>1, <3>1 DEF ToSet
  <2> QED BY <1>2, <2>3, <2>4 DEF With
<1> QED BY <1>1, <1>2

\* Merging keeps each URL once and loses none.
LEMMA MergedAdds ==
  ASSUME NEW urls \in Seq(Urls), NEW results \in Seq(Urls), Distinct(urls)
  PROVE  /\ Merged(urls, results) \in Seq(Urls) /\ Distinct(Merged(urls, results))
         /\ ToSet(Merged(urls, results)) = ToSet(urls) \cup ToSet(results)
<1> PICK n \in Nat : n = Len(results) /\ DOMAIN results = 1..n
  OBVIOUS
<1> PICK g : Folds(g, urls, results, n) /\ Merged(urls, results) = g[1..n]
  <2>1. \E g : Folds(g, urls, results, n)
    BY FoldExists
  <2>2. Folds(CHOOSE g : Folds(g, urls, results, n), urls, results, n)
    BY <2>1
  <2> QED BY <2>2, MergedIsFold
<1> DEFINE Good(k) == /\ g[1..k] \in Seq(Urls) /\ Distinct(g[1..k])
                      /\ ToSet(g[1..k]) = ToSet(urls) \cup {results[i] : i \in 1..k}
           S == {k \in 0..n : ~Good(k)}
<1>1. Good(0)
  <2>1. 1..0 = {} /\ g[{}] = urls
    BY DEF Folds
  <2> QED BY <2>1
<1>2. ASSUME NEW k \in 0..n, k # 0, Good(k - 1) PROVE Good(k)
  <2>1. 1..k \in SUBSET (1..n) /\ k \in 1..k /\ 1..k # {} /\ (1..k) \ {k} = 1..(k - 1)
    BY <1>2
  <2>2. Max(1..k) = k
    BY <2>1, TopIs
  <2>3. g[1..k] = With(g[1..(k - 1)], results[k])
    BY <2>1, <2>2 DEF Folds
  <2>4. results[k] \in Urls
    BY <1>2
  <2>5. {results[i] : i \in 1..k} = {results[i] : i \in 1..(k - 1)} \cup {results[k]}
    <3>1. \A i \in 1..k : i \in 1..(k - 1) \/ i = k
      BY <1>2
    <3>2. \A i \in 1..(k - 1) : i \in 1..k
      BY <1>2
    <3> QED BY <2>1, <3>1, <3>2
  <2>6. PICK acc \in Seq(Urls) : acc = g[1..(k - 1)]
    BY <1>2
  <2>7. Distinct(acc) /\ ToSet(acc) = ToSet(urls) \cup {results[i] : i \in 1..(k - 1)}
    BY <1>2, <2>6
  <2>8. PICK u \in Urls : u = results[k]
    BY <2>4
  <2>9. With(acc, u) \in Seq(Urls) /\ Distinct(With(acc, u))
        /\ ToSet(With(acc, u)) = ToSet(acc) \cup {u}
    BY <2>7, WithAdds
  <2>10. g[1..k] = With(acc, u)
    BY <2>3, <2>6, <2>8
  <2> HIDE DEF S
  <2> QED BY <2>5, <2>7, <2>8, <2>9, <2>10
<1> HIDE DEF Good
<1>3. S = {}
  <2> SUFFICES ASSUME S # {} PROVE FALSE
    OBVIOUS
  <2>1. PICK m \in S : \A k \in S : m <= k
    <3>1. S \in SUBSET Nat
      OBVIOUS
    <3> HIDE DEF S
    <3> QED BY <3>1, Least
  <2>2. m # 0
    BY <1>1
  <2>3. m \in 0..n /\ ~Good(m)
    BY <2>1
  <2>4. PICK j \in 0..n : j = m - 1 /\ j \notin S
    BY <2>1, <2>2
  <2>5. Good(m - 1)
    BY <2>4
  <2> HIDE DEF S
  <2> QED BY <1>2, <2>2, <2>3, <2>5
<1>4. Good(n)
  BY <1>3
<1>5. ToSet(results) = {results[i] : i \in 1..n}
  BY DEF ToSet
<1>6. ToSet(g[1..n]) = ToSet(urls) \cup {results[i] : i \in 1..n}
  BY <1>4 DEF Good
<1> QED BY <1>4, <1>5, <1>6 DEF Good

\* A sequence without repetitions is as long as its set is large.
LEMMA DistinctCounts ==
  ASSUME NEW s \in Seq(Urls), Distinct(s)
  PROVE  IsFiniteSet(ToSet(s)) /\ Cardinality(ToSet(s)) = Len(s)
<1>1. s \in Bijection(1..Len(s), ToSet(s))
  BY DEF Distinct, ToSet, Bijection, Injection, Surjection, IsInjective
<1>2. IsFiniteSet(1..Len(s)) /\ Cardinality(1..Len(s)) = Len(s)
  <2> PICK n \in Nat : n = Len(s)
    OBVIOUS
  <2>1. 1 \in Int /\ n \in Int
    OBVIOUS
  <2>2. IsFiniteSet(1..n) /\ Cardinality(1..n) = IF 1 > n THEN 0 ELSE n - 1 + 1
    BY <2>1, FS_Interval
  <2> QED BY <2>2
<1>3. ExistsBijection(1..Len(s), ToSet(s))
  BY <1>1 DEF ExistsBijection
<1> QED BY <1>2, <1>3, FS_Bijection

-----------------------------------------------------------------------------
(* The invariant: what is selected, noted and told at each step of the pipeline. *)

\* What the searches brought.
Found == UNION {ToSet(brought[i]) : i \in DOMAIN brought}
Note == [url : Urls, ok : BOOLEAN]

ResearchTypes ==
  /\ step \in {"idle", "plan", "search", "gather", "crosscheck", "write", "completed", "failed"}
  /\ plan \in [questions : Nat, urls : Seq(Urls)]
  /\ brought \in Seq(Seq(Urls)) /\ picked \in Seq(Urls) /\ degraded \in BOOLEAN
  /\ notes \in Seq(Note) /\ told \in Seq(Nat)

\* What the sources are once they are selected.
SelectedInv ==
  /\ degraded <=> Found = {}
  /\ Found = {} => picked = plan.urls
  /\ Found # {} =>
       /\ Distinct(picked) /\ ToSet(picked) \subseteq Found
       /\ Len(picked) = Min({MaxSources, Cardinality(Found)})

\* Until then they are what was found so far.
SourcesInv ==
  /\ step \in {"idle", "plan"} => picked = <<>> /\ brought = <<>>
  /\ step = "search" => Distinct(picked) /\ ToSet(picked) = Found
  /\ step \in {"gather", "crosscheck", "write", "completed"} => SelectedInv

\* There is a note for each source fetched so far.
NotesInv ==
  /\ step \in {"idle", "plan", "search"} => notes = <<>>
  /\ step = "gather" => Len(notes) <= Len(picked)
  /\ step \in {"crosscheck", "write", "completed"} => Len(notes) = Len(picked)
  /\ step # "failed" => \A i \in 1..Len(notes) : i <= Len(picked) /\ notes[i].url = picked[i]

\* The progress rises, and its last value is that of the step, or lies where the
\* number of notes has brought it.
Rises(s) == \A i, j \in 1..Len(s) : i < j => s[i] < s[j]

Gathering(n, d) == IF n = 0 THEN 10 ELSE 10 + Rounded(45 * (n - 1), d)
ToldInv ==
  /\ Rises(told)
  /\ step = "idle" => told = <<>>
  /\ step \notin {"idle", "failed"} =>
       /\ told # <<>>
       /\ Last(told) = CASE step = "plan" -> 2
                         [] step = "search" -> 10
                         [] step = "gather" -> Gathering(Len(notes), Len(picked))
                         [] step = "crosscheck" -> 60
                         [] step = "write" -> 85
                         [] step = "completed" -> 100

ReportInv ==
  step = "completed" =>
    /\ coverage = [retrieved |-> Cardinality({i \in DOMAIN notes : notes[i].ok}), of |-> Len(notes)]
    /\ report = IF degraded THEN "noted" ELSE "plain"

ResearchInv == ResearchTypes /\ SourcesInv /\ NotesInv /\ ToldInv /\ ReportInv

\* Every natural number is a multiple of the divisor and a remainder.
LEMMA Divided ==
  ASSUME NEW n \in Nat, NEW d \in Nat \ {0}
  PROVE  /\ n \div d \in Nat /\ n % d \in 0..(d - 1)
         /\ n = d * (n \div d) + (n % d)
OBVIOUS

LEMMA RoundedInt == ASSUME NEW n \in Nat, NEW d \in Nat \ {0} PROVE Rounded(n, d) \in Nat
BY Divided DEF Rounded

LEMMA RoundedRises ==
  ASSUME NEW m \in Nat, NEW n \in Nat, NEW d \in Nat \ {0}, m <= n
  PROVE  Rounded(m, d) <= Rounded(n, d)
<1>1. PICK p \in Nat, a \in 0..(d - 1) : p = m \div d /\ a = m % d /\ m = d * p + a
  BY Divided
<1>2. PICK q \in Nat, b \in 0..(d - 1) : q = n \div d /\ b = n % d /\ n = d * q + b
  BY Divided
<1>3. p <= q
  <2>1. SUFFICES ASSUME p >= q + 1 PROVE FALSE
    OBVIOUS
  <2>2. PICK k \in Nat : p = q + 1 + k
    <3>1. p - q - 1 \in Nat /\ p = q + 1 + (p - q - 1)
      BY <2>1
    <3> QED BY <3>1
  <2>3. d * p = d * q + d + d * k /\ d * k >= 0
    BY <2>2
  <2> QED BY <1>1, <1>2, <2>3
<1>4. CASE p = q
  <2>1. a <= b
    BY <1>1, <1>2, <1>4
  <2>2. Rounded(m, d) = IF 2 * a < d \/ (2 * a = d /\ q % 2 = 0) THEN q ELSE q + 1
    BY <1>1, <1>4 DEF Rounded
  <2>3. Rounded(n, d) = IF 2 * b < d \/ (2 * b = d /\ q % 2 = 0) THEN q ELSE q + 1
    BY <1>2 DEF Rounded
  <2> QED BY <2>1, <2>2, <2>3
<1>5. CASE p < q
  <2>1. Rounded(m, d) <= p + 1
    BY <1>1 DEF Rounded
  <2>2. q <= Rounded(n, d)
    BY <1>2 DEF Rounded
  <2> QED BY <1>5, <2>1, <2>2, RoundedInt
<1> QED BY <1>3, <1>4, <1>5

LEMMA RoundedWhole == ASSUME NEW d \in Nat \ {0} PROVE Rounded(45 * d, d) = 45
<1>1. PICK p \in Nat, a \in 0..(d - 1) : p = (45 * d) \div d /\ a = (45 * d) % d /\ 45 * d = d * p + a
  BY Divided
<1>2. p = 45 /\ a = 0
  <2>1. CASE p < 45
    <3>1. PICK k \in Nat : 45 = p + 1 + k
      <4>1. 45 - p - 1 \in Nat /\ 45 = p + 1 + (45 - p - 1)
        BY <2>1
      <4> QED BY <4>1
    <3>2. 45 * d = d * p + d + d * k /\ d * k >= 0
      BY <3>1
    <3> QED BY <1>1, <3>2
  <2>2. CASE p > 45
    <3>1. PICK k \in Nat : p = 46 + k
      <4>1. p - 46 \in Nat /\ p = 46 + (p - 46)
        BY <2>2
      <4> QED BY <4>1
    <3>2. d * p = 46 * d + d * k /\ d * k >= 0
      BY <3>1
    <3> QED BY <1>1, <3>2
  <2>3. CASE p = 45
    BY <1>1, <2>3
  <2> QED BY <2>1, <2>2, <2>3
<1> QED BY <1>1, <1>2 DEF Rounded

\* What the progress may be while sources are fetched.
LEMMA GatheringBounds ==
  ASSUME NEW n \in Nat, NEW d \in Nat, n <= d
  PROVE  Gathering(n, d) \in 10..55
<1>1. CASE n = 0
  BY <1>1 DEF Gathering
<1>2. CASE n # 0
  <2>1. d \in Nat \ {0} /\ 45 * (n - 1) \in Nat /\ 45 * (n - 1) <= 45 * d /\ 45 * d \in Nat
    BY <1>2
  <2>2. Rounded(45 * (n - 1), d) \in Nat /\ Rounded(45 * (n - 1), d) <= 45
    BY <2>1, RoundedInt, RoundedRises, RoundedWhole
  <2> QED BY <1>2, <2>2 DEF Gathering
<1> QED BY <1>1, <1>2

LEMMA GatheringRises ==
  ASSUME NEW n \in Nat, NEW d \in Nat, n < d
  PROVE  Gathering(n, d) <= Gathering(n + 1, d)
<1>1. d \in Nat \ {0} /\ n + 1 - 1 = n /\ 45 * n \in Nat
  OBVIOUS
<1>2. Gathering(n + 1, d) = 10 + Rounded(45 * n, d) /\ Rounded(45 * n, d) \in Nat
  BY <1>1, RoundedInt DEF Gathering
<1>3. CASE n = 0
  BY <1>2, <1>3 DEF Gathering
<1>4. CASE n # 0
  <2>1. 45 * (n - 1) \in Nat /\ 45 * (n - 1) <= 45 * n
    BY <1>4
  <2>2. Rounded(45 * (n - 1), d) <= Rounded(45 * n, d) /\ Rounded(45 * (n - 1), d) \in Nat
    BY <1>1, <2>1, RoundedRises, RoundedInt
  <2> QED BY <1>2, <1>4, <2>2 DEF Gathering
<1> QED BY <1>3, <1>4

\* A percentage that is higher than all before it, or the last again.
LEMMA RisesOn ==
  ASSUME NEW s \in Seq(Nat), Rises(s), NEW x \in Nat, s = <<>> \/ Last(s) < x
  PROVE  Append(s, x) \in Seq(Nat) /\ Rises(Append(s, x)) /\ Append(s, x) # <<>> /\ Last(Append(s, x)) = x
<1>0. Append(s, x) \in Seq(Nat)
  OBVIOUS
<1> PICK b \in Seq(Nat) : b = Append(s, x)
  BY <1>0, Zenon
<1>1. Len(b) = Len(s) + 1 /\ b[Len(s) + 1] = x /\ \A i \in 1..Len(s) : b[i] = s[i]
  OBVIOUS
<1>2. \A i \in 1..Len(s) : s[i] \in Nat /\ s[i] < x
  <2>1. CASE s = <<>>
    BY <2>1
  <2>2. CASE s # <<>>
    <3>1. Len(s) \in 1..Len(s) /\ s[Len(s)] < x /\ s[Len(s)] \in Nat
      BY <2>2 DEF Last
    <3> QED BY <3>1 DEF Rises
  <2> QED BY <2>1, <2>2
<1>3. ASSUME NEW i \in 1..Len(b), NEW j \in 1..Len(b), i < j PROVE b[i] < b[j]
  <2>1. i \in 1..Len(s) /\ (j \in 1..Len(s) \/ j = Len(s) + 1)
    BY <1>1, <1>3
  <2>2. CASE j \in 1..Len(s)
    <3>1. s[i] < s[j]
      BY <1>3, <2>1, <2>2 DEF Rises
    <3> QED BY <1>1, <2>1, <2>2, <3>1
  <2>3. CASE j = Len(s) + 1
    BY <1>1, <1>2, <2>1, <2>3
  <2> QED BY <2>1, <2>2, <2>3
<1>4. b # <<>> /\ Last(b) = x
  BY <1>1 DEF Last
<1> QED BY <1>3, <1>4 DEF Rises

LEMMA Telling ==
  ASSUME NEW x \in Nat, told \in Seq(Nat), Rises(told), told = <<>> \/ Last(told) <= x, Tell(x)
  PROVE  told' \in Seq(Nat) /\ Rises(told') /\ told' # <<>> /\ Last(told') = x
<1>1. CASE told # <<>> /\ Last(told) = x
  BY <1>1 DEF Tell
<1>2. CASE ~ (told # <<>> /\ Last(told) = x)
  <2>1. told # <<>> => Last(told) \in Nat
    BY DEF Last
  <2>2. told = <<>> \/ Last(told) < x
    BY <1>2, <2>1
  <2>3. told' = Append(told, x)
    BY <1>2 DEF Tell
  <2> QED BY <2>2, <2>3, RisesOn
<1> QED BY <1>1, <1>2

LEMMA TellingOne ==
  ASSUME NEW x \in Nat, told \in Seq(Nat), Rises(told), told = <<>> \/ Last(told) < x,
         told' = told \o <<x>>
  PROVE  told' \in Seq(Nat) /\ Rises(told') /\ told' # <<>> /\ Last(told') = x
<1>1. told' = Append(told, x)
  OBVIOUS
<1> QED BY <1>1, RisesOn

LEMMA TwoMore ==
  ASSUME NEW s \in Seq(Nat), Rises(s), NEW x \in Nat, NEW y \in Nat, x < y, s = <<>> \/ Last(s) < x
  PROVE  s \o <<x, y>> \in Seq(Nat) /\ Rises(s \o <<x, y>>) /\ s \o <<x, y>> # <<>>
         /\ Last(s \o <<x, y>>) = y
<1>0. Append(s, x) \in Seq(Nat)
  OBVIOUS
<1>1. PICK b \in Seq(Nat) : b = Append(s, x)
  BY <1>0, Zenon
<1>2. Rises(b) /\ b # <<>> /\ Last(b) = x
  BY <1>1, RisesOn
<1>3. s \o <<x, y>> = Append(b, y)
  BY <1>1
<1> QED BY <1>2, <1>3, RisesOn

LEMMA MinOfTwo ==
  ASSUME NEW a \in Nat, NEW b \in Nat
  PROVE  Min({a, b}) = IF a <= b THEN a ELSE b
<1> PICK m \in {a, b} : m = IF a <= b THEN a ELSE b
  OBVIOUS
<1>1. \A y \in {a, b} : m <= y
  OBVIOUS
<1>2. \A x \in {a, b} : (\A y \in {a, b} : x <= y) => x = m
  BY <1>1
<1> QED BY <1>1, <1>2 DEF Min

\* The first sources of those that were found.
LEMMA FirstOnes ==
  ASSUME NEW s \in Seq(Urls), NEW n \in Nat, n <= Len(s), Distinct(s)
  PROVE  /\ SubSeq(s, 1, n) \in Seq(Urls) /\ Distinct(SubSeq(s, 1, n)) /\ Len(SubSeq(s, 1, n)) = n
         /\ ToSet(SubSeq(s, 1, n)) \subseteq ToSet(s)
<1>1. SubSeq(s, 1, n) \in Seq(Urls) /\ Len(SubSeq(s, 1, n)) = n
      /\ \A i \in 1..n : SubSeq(s, 1, n)[i] = s[i]
  OBVIOUS
<1> PICK b \in Seq(Urls) : b = SubSeq(s, 1, n)
  BY <1>1, Zenon
<1>2. Len(b) = n /\ \A i \in 1..n : b[i] = s[i]
  BY <1>1
<1>3. Distinct(b)
  BY <1>2 DEF Distinct
<1>4. ToSet(b) \subseteq ToSet(s)
  BY <1>2 DEF ToSet
<1> QED BY <1>2, <1>3, <1>4

LEMMA EmptyIsEmpty ==
  ASSUME NEW s \in Seq(Urls)
  PROVE  s = <<>> <=> ToSet(s) = {}
<1>1. CASE s = <<>>
  BY <1>1 DEF ToSet
<1>2. CASE s # <<>>
  <2>1. 1 \in DOMAIN s
    BY <1>2
  <2> QED BY <1>2, <2>1 DEF ToSet
<1> QED BY <1>1, <1>2

LEMMA SeqsUpToAre == ASSUME NEW S, NEW n \in Nat PROVE SeqsUpTo(S, n) \subseteq Seq(S)
<1> SUFFICES ASSUME NEW s \in SeqsUpTo(S, n) PROVE s \in Seq(S)
  OBVIOUS
<1>1. PICK k \in 0..n : s \in [1..k -> S]
  BY DEF SeqsUpTo
<1>2. k \in Nat
  OBVIOUS
<1> QED BY <1>1, <1>2

\* What one more search brings.
LEMMA FoundGrows ==
  ASSUME NEW results \in Seq(Urls), brought \in Seq(Seq(Urls)), brought' = Append(brought, results)
  PROVE  brought' \in Seq(Seq(Urls)) /\ Found' = Found \cup ToSet(results)
<1>1. brought' \in Seq(Seq(Urls)) /\ Len(brought') = Len(brought) + 1
      /\ brought'[Len(brought) + 1] = results /\ \A i \in 1..Len(brought) : brought'[i] = brought[i]
  OBVIOUS
<1>2. PICK n \in Nat : n = Len(brought) /\ DOMAIN brought = 1..n /\ DOMAIN brought' = 1..(n + 1)
  BY <1>1
<1>3. Found' = UNION {ToSet(brought'[i]) : i \in 1..(n + 1)}
  BY <1>2 DEF Found
<1>4. Found = UNION {ToSet(brought[i]) : i \in 1..n}
  BY <1>2 DEF Found
<1>5. \A i \in 1..n : i \in 1..(n + 1) /\ ToSet(brought'[i]) = ToSet(brought[i])
  BY <1>1, <1>2
<1>6. n + 1 \in 1..(n + 1) /\ ToSet(brought'[n + 1]) = ToSet(results)
  BY <1>1, <1>2
<1>7. \A i \in 1..(n + 1) : i \in 1..n \/ i = n + 1
  OBVIOUS
<1>8. Found' \subseteq Found \cup ToSet(results)
  BY <1>3, <1>4, <1>5, <1>6, <1>7
<1>9. Found \cup ToSet(results) \subseteq Found'
  BY <1>3, <1>4, <1>5, <1>6
<1> QED BY <1>1, <1>8, <1>9

-----------------------------------------------------------------------------
(* The steps of the pipeline. *)

LEMMA ResearchInit == ResearchIdle => ResearchInv
<1> SUFFICES ASSUME ResearchIdle PROVE ResearchInv
  OBVIOUS
<1> USE DEF ResearchIdle
<1>1. ResearchTypes
  <2>1. \A S : <<>> \in Seq(S)
    OBVIOUS
  <2>2. plan \in [questions : Nat, urls : Seq(Urls)]
    BY <2>1 DEF NoPlan
  <2> QED BY <2>1, <2>2 DEF ResearchTypes
<1>2. SourcesInv /\ NotesInv /\ ReportInv
  BY DEF SourcesInv, NotesInv, ReportInv
<1>3. ToldInv
  BY DEF ToldInv, Rises
<1> QED BY <1>1, <1>2, <1>3 DEF ResearchInv

LEMMA FoundStays == brought' = brought => Found' = Found
BY DEF Found

LEMMA PlanEnding ==
  ASSUME told \in Seq(Nat), Rises(told), told # <<>>, Last(told) = 2, PlanEnds
  PROVE  step' = "search" /\ told' \in Seq(Nat) /\ Rises(told') /\ told' # <<>> /\ Last(told') = 10
<1>1. told' = told \o <<10>> /\ step' = "search"
  BY DEF PlanEnds
<1>2. 10 \in Nat /\ Last(told) < 10
  OBVIOUS
<1> QED BY <1>1, <1>2, TellingOne

LEMMA StartKeeps == ResearchInv /\ StartResearch => ResearchInv'
<1> SUFFICES ASSUME ResearchInv, StartResearch PROVE ResearchInv'
  OBVIOUS
<1>1. step = "idle" /\ UNCHANGED <<tried, plan, asked, brought, picked, degraded, notes, coverage, report>>
  BY DEF StartResearch
<1>2. told = <<>> /\ picked = <<>> /\ brought = <<>> /\ notes = <<>>
  BY <1>1 DEF ResearchInv, ToldInv, SourcesInv, NotesInv
<1>3. CASE step' = "failed" /\ UNCHANGED told
  <2>1. ResearchTypes'
    BY <1>1, <1>3 DEF ResearchInv, ResearchTypes
  <2>2. SourcesInv' /\ NotesInv' /\ ReportInv' /\ ToldInv'
    BY <1>1, <1>2, <1>3 DEF SourcesInv, NotesInv, ReportInv, ToldInv, Rises
  <2> QED BY <2>1, <2>2 DEF ResearchInv
<1>4. CASE step' = "plan" /\ Tell(2)
  <2>1. told' \in Seq(Nat) /\ Rises(told') /\ told' # <<>> /\ Last(told') = 2
    BY <1>2, <1>4, Telling DEF ResearchInv, ResearchTypes, ToldInv
  <2>2. ResearchTypes'
    BY <1>1, <1>4, <2>1 DEF ResearchInv, ResearchTypes
  <2>3. SourcesInv' /\ NotesInv' /\ ReportInv'
    BY <1>1, <1>2, <1>4 DEF SourcesInv, NotesInv, ReportInv
  <2>4. ToldInv'
    BY <1>4, <2>1 DEF ToldInv
  <2> QED BY <2>2, <2>3, <2>4 DEF ResearchInv
<1> QED BY <1>3, <1>4 DEF StartResearch

LEMMA PlanKeeps == ResearchInv /\ PlanStep => ResearchInv'
<1> SUFFICES ASSUME ResearchInv, PlanStep PROVE ResearchInv'
  OBVIOUS
<1>1. step = "plan" /\ UNCHANGED <<asked, brought, picked, degraded, notes, coverage, report>>
  BY DEF PlanStep
<1>2. picked = <<>> /\ brought = <<>> /\ notes = <<>> /\ told \in Seq(Nat) /\ Rises(told) /\ told # <<>>
      /\ Last(told) = 2
  BY <1>1 DEF ResearchInv, ResearchTypes, ToldInv, SourcesInv, NotesInv
<1>3. Found = {}
  BY <1>2 DEF Found
<1>4. ASSUME plan' \in [questions : Nat, urls : Seq(Urls)], PlanEnds PROVE ResearchInv'
  <2>1. step' = "search" /\ told' \in Seq(Nat) /\ Rises(told') /\ told' # <<>> /\ Last(told') = 10
    BY <1>2, <1>4, PlanEnding
  <2>2. ResearchTypes'
    BY <1>1, <1>4, <2>1 DEF ResearchInv, ResearchTypes
  <2>3. SourcesInv'
    BY <1>1, <1>2, <1>3, <2>1, FoundStays DEF SourcesInv, Distinct, ToSet
  <2>4. NotesInv' /\ ReportInv'
    BY <1>1, <1>2, <2>1 DEF NotesInv, ReportInv
  <2>5. ToldInv'
    BY <2>1 DEF ToldInv
  <2> QED BY <2>2, <2>3, <2>4, <2>5 DEF ResearchInv
<1>5. CASE plan' \in Plans /\ UNCHANGED tried /\ PlanEnds
  <2>1. MaxSources \in Nat /\ MaxQueries \in Nat
    BY ResearchAssumption DEF ResearchAssumption
  <2>2. plan' \in [questions : Nat, urls : Seq(Urls)]
    BY <1>5, <2>1, SeqsUpToAre DEF Plans
  <2> QED BY <1>4, <1>5, <2>2
<1>6. CASE plan' = BarePlan /\ PlanEnds
  <2>1. plan' \in [questions : Nat, urls : Seq(Urls)]
    BY <1>6 DEF BarePlan
  <2> QED BY <1>4, <1>6, <2>1
<1>7. CASE UNCHANGED <<step, plan, told>>
  BY <1>1, <1>7, FoundStays
     DEF ResearchInv, ResearchTypes, SourcesInv, SelectedInv, NotesInv, ToldInv, ReportInv, Rises, Distinct, ToSet
<1> QED BY <1>5, <1>6, <1>7 DEF PlanStep

LEMMA SearchKeeps == ResearchInv /\ Search => ResearchInv'
<1> SUFFICES ASSUME ResearchInv, Search PROVE ResearchInv'
  OBVIOUS
<1>1. step = "search" /\ UNCHANGED <<step, tried, plan, degraded, notes, coverage, report>> /\ Tell(10)
  BY DEF Search
<1>2. picked \in Seq(Urls) /\ Distinct(picked) /\ ToSet(picked) = Found /\ notes = <<>>
      /\ told \in Seq(Nat) /\ Rises(told) /\ told # <<>> /\ Last(told) = 10
      /\ brought \in Seq(Seq(Urls))
  BY <1>1 DEF ResearchInv, ResearchTypes, ToldInv, SourcesInv, NotesInv
<1>3. told' \in Seq(Nat) /\ Rises(told') /\ told' # <<>> /\ Last(told') = 10
  <2>1. 10 \in Nat /\ Last(told) <= 10
    BY <1>2
  <2> QED BY <1>1, <1>2, <2>1, Telling
<1>4. picked' \in Seq(Urls) /\ brought' \in Seq(Seq(Urls)) /\ Distinct(picked') /\ ToSet(picked') = Found'
  <2>1. CASE UNCHANGED <<picked, brought>>
    BY <1>2, <2>1, FoundStays
  <2>2. ASSUME NEW results \in SeqsUpTo(Urls, PerQuery),
               picked' = Merged(picked, results), brought' = Append(brought, results)
        PROVE  picked' \in Seq(Urls) /\ brought' \in Seq(Seq(Urls)) /\ Distinct(picked')
               /\ ToSet(picked') = Found'
    <3>1. results \in Seq(Urls)
      BY SeqsUpToAre, ResearchAssumption DEF ResearchAssumption
    <3>2. brought' \in Seq(Seq(Urls)) /\ Found' = Found \cup ToSet(results)
      BY <1>2, <2>2, <3>1, FoundGrows
    <3>3. Merged(picked, results) \in Seq(Urls) /\ Distinct(Merged(picked, results))
          /\ ToSet(Merged(picked, results)) = ToSet(picked) \cup ToSet(results)
      BY <1>2, <3>1, MergedAdds
    <3> QED BY <1>2, <2>2, <3>2, <3>3
  <2> QED BY <2>1, <2>2 DEF Search
<1>5. ResearchTypes'
  BY <1>1, <1>3, <1>4 DEF ResearchInv, ResearchTypes
<1>6. SourcesInv'
  BY <1>1, <1>4 DEF SourcesInv
<1>7. NotesInv' /\ ReportInv'
  BY <1>1, <1>2 DEF NotesInv, ReportInv
<1>8. ToldInv'
  BY <1>1, <1>3 DEF ToldInv
<1> QED BY <1>5, <1>6, <1>7, <1>8 DEF ResearchInv

LEMMA SelectKeeps == ResearchInv /\ SelectSources => ResearchInv'
<1> SUFFICES ASSUME ResearchInv, SelectSources PROVE ResearchInv'
  OBVIOUS
<1>1. step = "search" /\ step' = "gather" /\ UNCHANGED <<tried, plan, asked, brought, notes, told, coverage, report>>
      /\ degraded' = (picked = <<>>)
  BY DEF SelectSources
<1>2. picked \in Seq(Urls) /\ Distinct(picked) /\ ToSet(picked) = Found /\ notes = <<>>
      /\ told \in Seq(Nat) /\ Rises(told) /\ told # <<>> /\ Last(told) = 10 /\ plan.urls \in Seq(Urls)
  BY <1>1 DEF ResearchInv, ResearchTypes, ToldInv, SourcesInv, NotesInv
<1>3. Found' = Found /\ (picked = <<>> <=> Found = {})
  BY <1>1, <1>2, FoundStays, EmptyIsEmpty
<1>4. degraded' \in BOOLEAN /\ (degraded' <=> Found' = {})
  BY <1>1, <1>3
<1>5. CASE picked = <<>>
  <2>1. picked' = plan.urls /\ plan' = plan
    BY <1>1, <1>5 DEF SelectSources
  <2>2. picked' \in Seq(Urls) /\ SelectedInv'
    BY <1>2, <1>3, <1>4, <1>5, <2>1 DEF SelectedInv
  <2> QED BY <1>1, <1>2, <1>4, <2>2
       DEF ResearchInv, ResearchTypes, SourcesInv, NotesInv, ToldInv, ReportInv, Gathering
<1>6. CASE picked # <<>>
  <2>1. MaxSources \in Nat
    BY ResearchAssumption DEF ResearchAssumption
  <2>2. Cardinality(Found) = Len(picked) /\ Len(picked) \in Nat
    BY <1>2, DistinctCounts
  <2>3. Min({MaxSources, Cardinality(Found)}) = IF MaxSources <= Len(picked) THEN MaxSources ELSE Len(picked)
    BY <2>1, <2>2, MinOfTwo
  <2>4. picked' = IF Len(picked) > MaxSources THEN SubSeq(picked, 1, MaxSources) ELSE picked
    BY <1>6 DEF SelectSources
  <2>5. picked' \in Seq(Urls) /\ Distinct(picked') /\ ToSet(picked') \subseteq Found
        /\ Len(picked') = Min({MaxSources, Cardinality(Found)})
    <3>1. CASE Len(picked) > MaxSources
      BY <1>2, <2>1, <2>2, <2>3, <2>4, <3>1, FirstOnes
    <3>2. CASE ~ (Len(picked) > MaxSources)
      BY <1>2, <2>1, <2>2, <2>3, <2>4, <3>2
    <3> QED BY <3>1, <3>2
  <2>6. SelectedInv'
    BY <1>3, <1>4, <1>6, <2>5 DEF SelectedInv
  <2> QED BY <1>1, <1>2, <1>4, <2>5, <2>6
       DEF ResearchInv, ResearchTypes, SourcesInv, NotesInv, ToldInv, ReportInv, Gathering
<1> QED BY <1>5, <1>6

LEMMA FetchKeeps == ResearchInv /\ Fetch => ResearchInv'
<1> SUFFICES ASSUME ResearchInv, Fetch PROVE ResearchInv'
  OBVIOUS
<1>1. step = "gather" /\ Len(notes) < Len(picked)
      /\ UNCHANGED <<step, tried, plan, asked, brought, picked, degraded, coverage, report>>
  BY DEF Fetch
<1>2. picked \in Seq(Urls) /\ notes \in Seq(Note) /\ told \in Seq(Nat) /\ Rises(told) /\ told # <<>>
      /\ Last(told) = Gathering(Len(notes), Len(picked))
      /\ \A i \in 1..Len(notes) : i <= Len(picked) /\ notes[i].url = picked[i]
  BY <1>1 DEF ResearchInv, ResearchTypes, ToldInv, NotesInv
<1>3. PICK n \in Nat, d \in Nat \ {0} : n = Len(notes) /\ d = Len(picked) /\ n < d
  BY <1>1, <1>2
<1>4. PICK page \in Note : page.url = picked[n + 1] /\ notes' = Append(notes, page)
  <2>1. PICK page \in Page(picked[n + 1]) : notes' = Append(notes, page)
    BY <1>3 DEF Fetch
  <2>2. picked[n + 1] \in Urls
    BY <1>2, <1>3
  <2>3. page \in Note /\ page.url = picked[n + 1]
    BY <2>1, <2>2 DEF Page, Note
  <2> QED BY <2>1, <2>3
<1>5. notes' \in Seq(Note) /\ Len(notes') = n + 1 /\ notes'[n + 1] = page
      /\ \A i \in 1..n : notes'[i] = notes[i]
  BY <1>2, <1>3, <1>4
<1>6. told' \in Seq(Nat) /\ Rises(told') /\ told' # <<>> /\ Last(told') = Gathering(n + 1, d)
  <2>1. Gathering(n + 1, d) \in Nat /\ Gathering(n, d) <= Gathering(n + 1, d)
    <3>1. n + 1 \in Nat /\ n + 1 <= d /\ d \in Nat /\ n < d
      BY <1>3
    <3>2. Gathering(n + 1, d) \in 10..55
      BY <3>1, GatheringBounds
    <3>3. Gathering(n, d) <= Gathering(n + 1, d)
      BY <3>1, GatheringRises
    <3> QED BY <3>2, <3>3
  <2>2. Gathering(n + 1, d) = 10 + Rounded(45 * n, d)
    BY DEF Gathering
  <2>3. Tell(10 + Rounded(45 * n, d))
    BY <1>3 DEF Fetch
  <2>4. Tell(Gathering(n + 1, d)) /\ Last(told) <= Gathering(n + 1, d)
    BY <1>2, <1>3, <2>1, <2>2, <2>3
  <2> QED BY <1>2, <2>1, <2>4, Telling
<1>7. ResearchTypes'
  BY <1>1, <1>5, <1>6 DEF ResearchInv, ResearchTypes
<1>8. SourcesInv'
  BY <1>1, FoundStays DEF ResearchInv, SourcesInv, SelectedInv
<1>9. NotesInv'
  <2>1. ASSUME NEW i \in 1..(n + 1) PROVE i <= d /\ notes'[i].url = picked[i]
    BY <1>2, <1>3, <1>4, <1>5
  <2>2. step' = "gather" /\ picked' = picked
    BY <1>1
  <2> QED BY <1>3, <1>5, <2>1, <2>2 DEF NotesInv
<1>10. ReportInv'
  BY <1>1 DEF ReportInv
<1>11. ToldInv'
  BY <1>1, <1>3, <1>5, <1>6 DEF ToldInv
<1> QED BY <1>7, <1>8, <1>9, <1>10, <1>11 DEF ResearchInv

LEMMA GatheredKeeps == ResearchInv /\ Gathered => ResearchInv'
<1> SUFFICES ASSUME ResearchInv, Gathered PROVE ResearchInv'
  OBVIOUS
<1>1. step = "gather" /\ Len(notes) = Len(picked) /\ step' = "crosscheck" /\ TellTwo(55, 60)
      /\ UNCHANGED <<tried, plan, asked, brought, picked, degraded, notes, coverage, report>>
  BY DEF Gathered
<1>2. picked \in Seq(Urls) /\ notes \in Seq(Note) /\ told \in Seq(Nat) /\ Rises(told) /\ told # <<>>
      /\ Last(told) = Gathering(Len(notes), Len(picked))
  BY <1>1 DEF ResearchInv, ResearchTypes, ToldInv
<1>3. Last(told) \in 10..55
  <2>1. Len(notes) \in Nat /\ Len(picked) \in Nat /\ Len(notes) <= Len(picked)
    BY <1>1, <1>2
  <2> QED BY <1>2, <2>1, GatheringBounds
<1>4. told' \in Seq(Nat) /\ Rises(told') /\ told' # <<>> /\ Last(told') = 60
  <2>1. CASE Last(told) = 55
    <3>1. told' = told \o <<60>>
      BY <1>1, <2>1 DEF TellTwo
    <3>2. 60 \in Nat /\ Last(told) < 60
      BY <2>1
    <3> QED BY <1>2, <3>1, <3>2, TellingOne
  <2>2. CASE Last(told) # 55
    <3>1. told' = Append(told, 55) \o <<60>>
      BY <1>1, <2>2 DEF TellTwo
    <3>2. told' = told \o <<55, 60>>
      BY <1>2, <3>1
    <3>3. Last(told) < 55 /\ 55 \in Nat /\ 60 \in Nat /\ 55 < 60
      BY <1>3, <2>2
    <3> QED BY <1>2, <3>2, <3>3, TwoMore
  <2> QED BY <2>1, <2>2
<1>5. ResearchTypes'
  BY <1>1, <1>4 DEF ResearchInv, ResearchTypes
<1>6. SourcesInv'
  BY <1>1, FoundStays DEF ResearchInv, SourcesInv, SelectedInv
<1>7. NotesInv' /\ ReportInv'
  BY <1>1 DEF ResearchInv, NotesInv, ReportInv
<1>8. ToldInv'
  BY <1>1, <1>4 DEF ToldInv
<1> QED BY <1>5, <1>6, <1>7, <1>8 DEF ResearchInv

LEMMA CrossCheckKeeps == ResearchInv /\ CrossCheck => ResearchInv'
<1> SUFFICES ASSUME ResearchInv, CrossCheck PROVE ResearchInv'
  OBVIOUS
<1>1. step = "crosscheck" /\ UNCHANGED <<tried, plan, asked, brought, picked, degraded, notes, coverage, report>>
  BY DEF CrossCheck
<1>2. told \in Seq(Nat) /\ Rises(told) /\ told # <<>> /\ Last(told) = 60
  BY <1>1 DEF ResearchInv, ResearchTypes, ToldInv
<1>3. SourcesInv' /\ NotesInv' /\ ReportInv'
  BY <1>1, FoundStays DEF ResearchInv, SourcesInv, SelectedInv, NotesInv, ReportInv, CrossCheck
<1>4. CASE step' = "write" /\ told' = told \o <<80, 85>>
  <2>1. told' \in Seq(Nat) /\ Rises(told') /\ told' # <<>> /\ Last(told') = 85
    <3>1. 80 \in Nat /\ 85 \in Nat /\ 80 < 85 /\ Last(told) < 80
      BY <1>2
    <3> QED BY <1>2, <1>4, <3>1, TwoMore
  <2>2. ResearchTypes' /\ ToldInv'
    BY <1>1, <1>4, <2>1 DEF ResearchInv, ResearchTypes, ToldInv
  <2> QED BY <1>3, <2>2 DEF ResearchInv
<1>5. CASE step' = "failed" /\ UNCHANGED told
  <2>1. ResearchTypes' /\ ToldInv'
    BY <1>1, <1>2, <1>5 DEF ResearchInv, ResearchTypes, ToldInv, Rises
  <2> QED BY <1>3, <2>1 DEF ResearchInv
<1> QED BY <1>4, <1>5 DEF CrossCheck

LEMMA WriteKeeps == ResearchInv /\ WriteReport => ResearchInv'
<1> SUFFICES ASSUME ResearchInv, WriteReport PROVE ResearchInv'
  OBVIOUS
<1>1. step = "write" /\ UNCHANGED <<tried, plan, asked, brought, picked, degraded, notes>>
      /\ step' \in {"completed", "failed"}
  BY DEF WriteReport
<1>2. told \in Seq(Nat) /\ Rises(told) /\ told # <<>> /\ Last(told) = 85
  BY <1>1 DEF ResearchInv, ResearchTypes, ToldInv
<1>3. SourcesInv' /\ NotesInv'
  BY <1>1, FoundStays DEF ResearchInv, SourcesInv, SelectedInv, NotesInv
<1>4. CASE step' = "completed"
  <2>1. /\ Tell(100) /\ report' = IF degraded THEN "noted" ELSE "plain"
        /\ coverage' = [retrieved |-> Cardinality({i \in DOMAIN notes : notes[i].ok}), of |-> Len(notes)]
    BY <1>4 DEF WriteReport
  <2>2. told' \in Seq(Nat) /\ Rises(told') /\ told' # <<>> /\ Last(told') = 100
    <3>1. 100 \in Nat /\ Last(told) <= 100
      BY <1>2
    <3> QED BY <1>2, <2>1, <3>1, Telling
  <2>3. ResearchTypes' /\ ToldInv'
    BY <1>1, <1>4, <2>2 DEF ResearchInv, ResearchTypes, ToldInv
  <2>4. ReportInv'
    BY <1>1, <2>1 DEF ReportInv
  <2> QED BY <1>3, <2>3, <2>4 DEF ResearchInv
<1>5. CASE step' = "failed"
  <2>1. told' = told
    BY <1>5 DEF WriteReport
  <2>2. ResearchTypes' /\ ToldInv' /\ ReportInv'
    BY <1>1, <1>2, <1>5, <2>1 DEF ResearchInv, ResearchTypes, ToldInv, Rises, ReportInv
  <2> QED BY <1>3, <2>2 DEF ResearchInv
<1> QED BY <1>1, <1>4, <1>5

LEMMA ResearchStays == ResearchInv /\ UNCHANGED researchVars => ResearchInv'
<1> SUFFICES ASSUME ResearchInv, UNCHANGED researchVars PROVE ResearchInv'
  OBVIOUS
<1> USE DEF researchVars
<1>1. ResearchTypes' /\ NotesInv' /\ ReportInv'
  BY DEF ResearchInv, ResearchTypes, NotesInv, ReportInv
<1>2. SourcesInv'
  BY FoundStays DEF ResearchInv, SourcesInv, SelectedInv
<1>3. ToldInv'
  BY DEF ResearchInv, ToldInv, Rises
<1> QED BY <1>1, <1>2, <1>3 DEF ResearchInv

LEMMA CompletedIsHonest == ResearchInv => ReportIsHonest
<1> SUFFICES ASSUME ResearchInv PROVE ReportIsHonest
  OBVIOUS
<1> DEFINE sources == [i \in DOMAIN notes |-> notes[i].url]
<1>1. \A i, j \in DOMAIN told : i < j => told[i] < told[j]
  <2>1. DOMAIN told = 1..Len(told)
    BY DEF ResearchInv, ResearchTypes
  <2> QED BY <2>1 DEF ResearchInv, ToldInv, Rises
<1>2. ASSUME step = "completed"
      PROVE  /\ Last(told) = 100
             /\ report = "noted" <=> Found = {}
             /\ IF Found = {} THEN sources = plan.urls
                ELSE /\ ToSet(sources) \subseteq Found
                     /\ Cardinality(ToSet(sources)) = Len(sources)
                     /\ Len(sources) = Min({MaxSources, Cardinality(Found)})
             /\ coverage = [retrieved |-> Cardinality({i \in DOMAIN sources : notes[i].ok}), of |-> Len(sources)]
  <2>1. picked \in Seq(Urls) /\ notes \in Seq(Note) /\ Last(told) = 100 /\ SelectedInv /\ ReportInv
        /\ Len(notes) = Len(picked) /\ \A i \in 1..Len(notes) : notes[i].url = picked[i]
    BY <1>2 DEF ResearchInv, ResearchTypes, ToldInv, SourcesInv, NotesInv
  <2>2. sources = picked
    <3>1. DOMAIN notes = DOMAIN picked /\ DOMAIN picked = 1..Len(notes) /\ picked = [i \in DOMAIN picked |-> picked[i]]
      BY <2>1
    <3> QED BY <2>1, <3>1
  <2> HIDE DEF sources
  <2>3. /\ report = IF degraded THEN "noted" ELSE "plain"
        /\ coverage = [retrieved |-> Cardinality({i \in DOMAIN notes : notes[i].ok}), of |-> Len(notes)]
    BY <1>2, <2>1 DEF ReportInv
  <2>4. DOMAIN sources = DOMAIN notes /\ Len(sources) = Len(notes)
    BY <2>1, <2>2
  <2>6. Found # {} => Cardinality(ToSet(picked)) = Len(picked)
    BY <2>1, DistinctCounts DEF SelectedInv
  <2>7. report = "noted" <=> Found = {}
    BY <2>1, <2>3 DEF SelectedInv
  <2>8. IF Found = {} THEN sources = plan.urls
        ELSE /\ ToSet(sources) \subseteq Found
             /\ Cardinality(ToSet(sources)) = Len(sources)
             /\ Len(sources) = Min({MaxSources, Cardinality(Found)})
    BY <2>1, <2>2, <2>6 DEF SelectedInv
  <2>9. coverage = [retrieved |-> Cardinality({i \in DOMAIN sources : notes[i].ok}), of |-> Len(sources)]
    BY <2>3, <2>4
  <2> QED BY <2>1, <2>7, <2>8, <2>9
<1> HIDE DEF sources
<1> QED BY <1>1, <1>2 DEF ReportIsHonest, Found, sources

\* A report's sources are told of honestly, for any plans, limits and failures: the note
\* is there exactly when no search brought a source, the sources are what was found,
\* each once and as many as the limit allows, the writer was told how many of them
\* could be read, and the progress the client saw only rose.
THEOREM ReportsAreHonest == Spec => []ReportIsHonest
<1>1. Init => ResearchInv
  BY ResearchInit DEF Init
<1>2. ResearchInv /\ [Next]_vars => ResearchInv'
  <2> SUFFICES ASSUME ResearchInv, [Next]_vars PROVE ResearchInv'
    OBVIOUS
  <2>1. ResearchStep \/ UNCHANGED researchVars
    BY DEF Next, vars
  <2>2. CASE ResearchStep
    BY <2>2, StartKeeps, PlanKeeps, SearchKeeps, SelectKeeps, FetchKeeps, GatheredKeeps,
       CrossCheckKeeps, WriteKeeps DEF ResearchStep
  <2>3. CASE UNCHANGED researchVars
    BY <2>3, ResearchStays
  <2> QED BY <2>1, <2>2, <2>3
<1> QED BY <1>1, <1>2, CompletedIsHonest, PTL DEF Spec

-----------------------------------------------------------------------------
(***************************************************************************)
(* Prompts. The limit is about a sum of sizes, a fold again (Sum): what    *)
(* the proof needs of it is that it is the last of the sums of the first   *)
(* ones, and that the sum of two sequences is the sum of the sums.         *)
(***************************************************************************)
\* g sums up the sizes at n places, as Sum does.
Sums(g, sizes, n) ==
  g = [s \in SUBSET (1..n) |-> IF s = {} THEN 0 ELSE g[s \ {Max(s)}] + sizes[Max(s)]]

LEMMA SumIsFold ==
  ASSUME NEW sizes, NEW n, DOMAIN sizes = 1..n
  PROVE  Sum(sizes) = (CHOOSE g : Sums(g, sizes, n))[1..n]
BY DEF Sum, FoldLeft, MapThenFoldSet, Sums

LEMMA SumsGrow ==
  ASSUME NEW sizes, NEW n \in Nat, NEW g, Sums(g, sizes, n)
  PROVE  \E h : Sums(h, sizes, n + 1)
<1> PICK m \in Nat : m = n + 1
  OBVIOUS
<1> DEFINE h == [s \in SUBSET (1..m) |->
                   IF m \in s THEN g[s \ {m}] + sizes[m] ELSE g[s]]
<1>1. ASSUME NEW s \in SUBSET (1..m)
      PROVE  h[s] = IF s = {} THEN 0 ELSE h[s \ {Max(s)}] + sizes[Max(s)]
  <2>1. CASE m \in s
    <3>1. Max(s) = m
      BY <2>1, TopIs
    <3>2. s \ {m} \in SUBSET (1..m) /\ m \notin s \ {m}
      OBVIOUS
    <3>3. h[s \ {m}] = g[s \ {m}]
      BY <3>2
    <3> QED BY <2>1, <3>1, <3>3
  <2>2. CASE m \notin s
    <3>1. s \in SUBSET (1..n)
      BY <2>2
    <3>2. s \ {Max(s)} \in SUBSET (1..n) /\ m \notin s \ {Max(s)} /\ s \ {Max(s)} \in SUBSET (1..m)
      BY <2>2, <3>1
    <3>3. h[s] = g[s] /\ h[s \ {Max(s)}] = g[s \ {Max(s)}]
      BY <2>2, <3>2
    <3>4. g[s] = IF s = {} THEN 0 ELSE g[s \ {Max(s)}] + sizes[Max(s)]
      BY <3>1 DEF Sums
    <3> QED BY <3>3, <3>4
  <2> QED BY <2>1, <2>2
<1>2. h = [s \in SUBSET (1..m) |-> h[s]]
  OBVIOUS
<1> HIDE DEF h
<1>3. Sums(h, sizes, m)
  BY <1>1, <1>2 DEF Sums
<1> QED BY <1>3

LEMMA SumsExist ==
  ASSUME NEW sizes, NEW n \in Nat
  PROVE  \E g : Sums(g, sizes, n)
<1> DEFINE S == {k \in 0..n : ~ \E g : Sums(g, sizes, k)}
<1>1. n \in 0..n
  OBVIOUS
<1>2. SUFFICES ASSUME S # {} PROVE FALSE
  <2>1. S = {} => \E g : Sums(g, sizes, n)
    BY <1>1, Zenon
  <2> QED BY <2>1
<1>3. PICK m \in S : \A k \in S : m <= k
  <2>1. S \in SUBSET Nat
    OBVIOUS
  <2> HIDE DEF S
  <2> QED BY <1>2, <2>1, Least
<1>4. CASE m = 0
  <2>1. Sums([s \in SUBSET (1..0) |-> 0], sizes, 0)
    <3>1. \A s \in SUBSET (1..0) : s = {}
      OBVIOUS
    <3> QED BY <3>1 DEF Sums
  <2> QED BY <1>4, <2>1
<1>5. CASE m # 0
  <2>1. PICK k \in 0..n : m = k + 1 /\ k \notin S
    BY <1>3, <1>5
  <2>2. PICK g : Sums(g, sizes, k)
    BY <2>1
  <2>3. \E h : Sums(h, sizes, m)
    BY <2>1, <2>2, SumsGrow
  <2> QED BY <2>3
<1> QED BY <1>4, <1>5

\* t is the sums of the first ones.
Partial(t, sizes) ==
  /\ t \in [0..Len(sizes) -> Int] /\ t[0] = 0
  /\ \A k \in 1..Len(sizes) : t[k] = t[k - 1] + sizes[k]

\* What holds at first and goes on holding holds of all numbers up to n.
LEMMA UpTo ==
  ASSUME NEW n \in Nat, NEW Good \in SUBSET (0..n), 0 \in Good,
         \A k \in 1..n : k - 1 \in Good => k \in Good
  PROVE  Good = 0..n
<1> DEFINE S == (0..n) \ Good
<1>1. S \in SUBSET Nat
  OBVIOUS
<1>2. ASSUME S # {} PROVE FALSE
  <2>1. PICK m \in S : \A k \in S : m <= k
    BY <1>1, <1>2, Least
  <2>2. m \in 1..n /\ m - 1 \in 0..n /\ m - 1 \notin S
    BY <2>1
  <2> QED BY <2>1, <2>2
<1> QED BY <1>2

LEMMA SumIsLast ==
  ASSUME NEW sizes \in Seq(Int)
  PROVE  \E t : Partial(t, sizes) /\ Sum(sizes) = t[Len(sizes)]
<1> PICK n \in Nat : n = Len(sizes) /\ DOMAIN sizes = 1..n
  OBVIOUS
<1>1. PICK g : Sums(g, sizes, n) /\ Sum(sizes) = g[1..n]
  <2>1. \E g : Sums(g, sizes, n)
    BY SumsExist
  <2>2. Sums(CHOOSE g : Sums(g, sizes, n), sizes, n)
    BY <2>1
  <2> QED BY <2>2, SumIsFold
<1> DEFINE t == [k \in 0..n |-> g[1..k]]
<1>2. g[1..0] = 0
  <2>1. 1..0 = {} /\ {} \in SUBSET (1..n)
    OBVIOUS
  <2> QED BY <1>1, <2>1 DEF Sums
<1>3. ASSUME NEW k \in 1..n PROVE g[1..k] = g[1..(k - 1)] + sizes[k]
  <2>1. 1..k \in SUBSET (1..n) /\ k \in 1..k /\ (1..k) \ {k} = 1..(k - 1) /\ k \in Nat
    OBVIOUS
  <2>2. Max(1..k) = k
    BY <2>1, TopIs
  <2> QED BY <1>1, <2>1, <2>2 DEF Sums
<1> DEFINE Good == {k \in 0..n : g[1..k] \in Int}
<1>4. Good = 0..n
  <2>1. 0 \in Good
    BY <1>2
  <2>2. ASSUME NEW k \in 1..n, k - 1 \in Good PROVE k \in Good
    <3>1. sizes[k] \in Int
      OBVIOUS
    <3> QED BY <1>3, <2>2, <3>1
  <2>3. Good \in SUBSET (0..n)
    OBVIOUS
  <2> HIDE DEF Good
  <2> QED BY <2>1, <2>2, <2>3, UpTo
<1>5. \A k \in 0..n : t[k] = g[1..k] /\ g[1..k] \in Int
  BY <1>4
<1>6. t \in [0..n -> Int]
  BY <1>5
<1>7. t[0] = 0 /\ t[n] = Sum(sizes)
  BY <1>1, <1>2
<1>8. \A k \in 1..n : t[k] = t[k - 1] + sizes[k]
  BY <1>3, <1>5
<1> HIDE DEF t
<1> QED BY <1>6, <1>7, <1>8 DEF Partial

LEMMA SumOfNat ==
  ASSUME NEW sizes \in Seq(Nat)
  PROVE  Sum(sizes) \in Nat
<1>1. sizes \in Seq(Int)
  OBVIOUS
<1>2. PICK t : Partial(t, sizes) /\ Sum(sizes) = t[Len(sizes)]
  BY <1>1, SumIsLast
<1> PICK n \in Nat : n = Len(sizes)
  OBVIOUS
<1> DEFINE Good == {k \in 0..n : t[k] \in Nat}
<1>3. 0 \in Good /\ Good \in SUBSET (0..n)
  BY <1>2 DEF Partial
<1>4. ASSUME NEW k \in 1..n, k - 1 \in Good PROVE k \in Good
  <2>1. sizes[k] \in Nat /\ t[k] = t[k - 1] + sizes[k] /\ t[k - 1] \in Nat
    BY <1>2, <1>4 DEF Partial
  <2> QED BY <2>1
<1>5. n \in Good
  <2> HIDE DEF Good
  <2>1. Good = 0..n
    BY <1>3, <1>4, UpTo
  <2> QED BY <2>1
<1> QED BY <1>2, <1>5

LEMMA SumOfTwo ==
  ASSUME NEW a \in Seq(Int), NEW b \in Seq(Int)
  PROVE  Sum(a \o b) \in Int /\ Sum(a) \in Int /\ Sum(b) \in Int /\ Sum(a \o b) = Sum(a) + Sum(b)
<1>1. PICK m \in Nat, n \in Nat : m = Len(a) /\ n = Len(b)
  OBVIOUS
<1>0. a \o b \in Seq(Int)
  OBVIOUS
<1>2. PICK c \in Seq(Int) : c = a \o b
  BY <1>0, Zenon
<1>3. Len(c) = m + n /\ (\A k \in 1..m : c[k] = a[k]) /\ (\A k \in 1..n : c[m + k] = b[k])
  BY <1>1, <1>2
<1>4. PICK t : Partial(t, a) /\ Sum(a) = t[m]
  BY <1>1, SumIsLast
<1>5. PICK u : Partial(u, b) /\ Sum(b) = u[n]
  BY <1>1, SumIsLast
<1>6. PICK v : Partial(v, c) /\ Sum(c) = v[m + n]
  BY <1>3, SumIsLast
<1>a. t \in [0..m -> Int] /\ t[0] = 0 /\ \A k \in 1..m : t[k] = t[k - 1] + a[k]
  BY <1>1, <1>4 DEF Partial
<1>b. u \in [0..n -> Int] /\ u[0] = 0 /\ \A k \in 1..n : u[k] = u[k - 1] + b[k]
  BY <1>1, <1>5 DEF Partial
<1>c. v \in [0..(m + n) -> Int] /\ v[0] = 0 /\ \A k \in 1..(m + n) : v[k] = v[k - 1] + c[k]
  BY <1>3, <1>6 DEF Partial
<1>7. v[m] = t[m]
  <2> DEFINE Good == {k \in 0..m : v[k] = t[k]}
  <2>1. 0 \in Good /\ Good \in SUBSET (0..m)
    BY <1>a, <1>c
  <2>2. ASSUME NEW k \in 1..m, k - 1 \in Good PROVE k \in Good
    <3>1. k \in 1..(m + n) /\ c[k] = a[k] /\ v[k - 1] = t[k - 1]
      BY <1>3, <2>2
    <3> QED BY <1>a, <1>c, <3>1
  <2>3. m \in 0..m
    OBVIOUS
  <2>4. m \in Good
    <3> HIDE DEF Good
    <3> QED BY <2>1, <2>2, <2>3, UpTo
  <2> QED BY <2>4
<1>8. v[m + n] = t[m] + u[n]
  <2> DEFINE Good == {k \in 0..n : v[m + k] = t[m] + u[k]}
  <2>1. 0 \in Good /\ Good \in SUBSET (0..n)
    BY <1>7, <1>a, <1>b
  <2>2. ASSUME NEW k \in 1..n, k - 1 \in Good PROVE k \in Good
    <3>1. m + k \in 1..(m + n) /\ c[m + k] = b[k] /\ m + (k - 1) = m + k - 1
      BY <1>3
    <3>2. v[m + k - 1] = t[m] + u[k - 1]
      BY <2>2, <3>1
    <3>3. v[m + k] = v[m + k - 1] + c[m + k]
      BY <1>c, <3>1
    <3>4. k \in 1..Len(b)
      BY <1>1
    <3>5. b[k] \in Int
      BY <3>4
    <3>6. k - 1 \in 0..n /\ m \in 0..m
      OBVIOUS
    <3>7. u[k - 1] \in Int /\ t[m] \in Int
      BY <1>a, <1>b, <3>6
    <3>8. u[k] = u[k - 1] + b[k]
      BY <1>b
    <3>9. v[m + k] = t[m] + u[k]
      BY <3>1, <3>2, <3>3, <3>5, <3>7, <3>8
    <3> QED BY <3>9
  <2>3. n \in 0..n
    OBVIOUS
  <2>4. n \in Good
    <3> HIDE DEF Good
    <3> QED BY <2>1, <2>2, <2>3, UpTo
  <2> QED BY <2>4
<1>9. t[m] \in Int /\ u[n] \in Int
  BY <1>a, <1>b
<1> QED BY <1>2, <1>4, <1>5, <1>6, <1>8, <1>9

-----------------------------------------------------------------------------
(* What a request is made of. *)

Msgs ==
  [role : {"system", "user", "assistant", "tool"},
   begins : {"client", "identity", "skill", "memory", "project", "mode", "summary",
             "call", "result", "ceiling"},
   of : SUBSET Nat, size : Nat, blocks : Seq(Nat)]
SystemMsgs == {m \in Msgs : IsSystem(m)}
TurnMsgs == {m \in Msgs : IsTurn(m)}

LEMMA Counted ==
  ASSUME NEW a \in Int, NEW b \in Int, a <= b + 1
  PROVE  IsFiniteSet(a..b) /\ Cardinality(a..b) = b - a + 1
<1>1. IsFiniteSet(a..b) /\ Cardinality(a..b) = IF a > b THEN 0 ELSE b - a + 1
  BY FS_Interval
<1> QED BY <1>1

\* The places are those of h, which ascends.
Lists(h, n, places) ==
  /\ h \in [1..n -> places] /\ \A i \in places : \E k \in 1..n : h[k] = i
  /\ \A k, l \in 1..n : k < l => h[k] < h[l]

LEMMA PlacesListed ==
  ASSUME NEW n \in Nat, NEW places \in SUBSET Nat, NEW h, Lists(h, n, places), NEW k \in 1..n
  PROVE  h[k] \in places /\ h[k] \in Nat
<1>1. h \in [1..n -> places]
  BY DEF Lists
<1>2. h[k] \in places
  BY <1>1
<1> QED BY <1>2

Reached(h, k, T) == T = {h[l] : l \in 1..k}

LEMMA CountTo ==
  ASSUME NEW n \in Nat, NEW places \in SUBSET Nat, NEW h, Lists(h, n, places), NEW k \in 0..n,
         NEW T, Reached(h, k, T)
  PROVE  Cardinality(T) = k
<1> DEFINE f == [l \in 1..k |-> h[l]]
<1>0. \A l \in 1..k : l \in 1..n
  OBVIOUS
<1>1. f \in Bijection(1..k, T)
  <2>1. \A l \in 1..k : l \in 1..n /\ h[l] \in Nat
    BY <1>0, PlacesListed
  <2>2. \A i, j \in 1..k : f[i] = f[j] => i = j
    <3>1. \A i, j \in 1..k : i < j => h[i] < h[j]
      BY <2>1 DEF Lists
    <3> QED BY <2>1, <3>1
  <2>3. \A x \in T : \E l \in 1..k : f[l] = x
    BY DEF Reached
  <2>4. f \in [1..k -> T]
    BY DEF Reached
  <2> HIDE DEF f
  <2> QED BY <2>2, <2>3, <2>4 DEF Bijection, Injection, Surjection, IsInjective
<1>2. IsFiniteSet(1..k) /\ Cardinality(1..k) = k
  <2>1. 1 \in Int /\ k \in Int /\ 1 <= k + 1 /\ k - 1 + 1 = k
    OBVIOUS
  <2> QED BY <2>1, Counted
<1>3. ExistsBijection(1..k, T)
  BY <1>1 DEF ExistsBijection
<1> QED BY <1>2, <1>3, FS_Bijection

\* What is at the places is what is at theirs.
LEMMA AtIs ==
  ASSUME NEW ms, NEW n \in Nat, NEW places \in SUBSET Nat, NEW h, Lists(h, n, places),
         NEW s \in Seq(Msgs), Len(s) = n, \A k \in 1..n : s[k] = ms[h[k]]
  PROVE  At(ms, places) = s
<1>1. Cardinality(places) = n
  <2>1. Reached(h, n, places)
    <3>1. \A l \in 1..n : h[l] \in places
      BY PlacesListed
    <3>2. \A i \in places : \E l \in 1..n : h[l] = i
      BY DEF Lists
    <3> QED BY <3>1, <3>2 DEF Reached
  <2>2. n \in 0..n
    OBVIOUS
  <2> QED BY <2>1, <2>2, CountTo
<1>2. ASSUME NEW k \in 1..n PROVE Cardinality({j \in places : j <= h[k]}) = k
  <2>1. \A l \in 1..n : h[l] <= h[k] <=> l <= k
    <3>0. \A l \in 1..n : l \in Int
      OBVIOUS
    <3>1. \A l \in 1..n : h[l] \in Nat
      BY PlacesListed
    <3>2. \A l \in 1..n : (l < k => h[l] < h[k]) /\ (k < l => h[k] < h[l])
      BY DEF Lists
    <3> QED BY <3>0, <3>1, <3>2
  <2>2. Reached(h, k, {j \in places : j <= h[k]})
    <3>1. ASSUME NEW j \in places, j <= h[k] PROVE j \in {h[l] : l \in 1..k}
      <4>1. PICK l \in 1..n : h[l] = j
        BY DEF Lists
      <4>2. l \in 1..k
        BY <2>1, <3>1, <4>1
      <4> QED BY <4>1, <4>2
    <3>2. ASSUME NEW l \in 1..k PROVE h[l] \in places /\ h[l] <= h[k]
      <4>1. l \in 1..n /\ l <= k
        OBVIOUS
      <4> QED BY <2>1, <4>1, PlacesListed
    <3> QED BY <3>1, <3>2 DEF Reached
  <2>3. k \in 0..n
    OBVIOUS
  <2> QED BY <2>2, <2>3, CountTo
<1> DEFINE kth(k) == CHOOSE i \in places : Cardinality({j \in places : j <= i}) = k
<1>3. ASSUME NEW k \in 1..n PROVE kth(k) = h[k]
  <2>1. h[k] \in places
    BY PlacesListed
  <2>2. ASSUME NEW i \in places, Cardinality({j \in places : j <= i}) = k PROVE i = h[k]
    <3>1. PICK l \in 1..n : i = h[l]
      BY DEF Lists
    <3>2. Cardinality({j \in places : j <= i}) = l
      BY <1>2, <3>1
    <3> QED BY <2>2, <3>1, <3>2
  <2> QED BY <1>2, <2>1, <2>2
<1>4. At(ms, places) = [k \in 1..n |-> ms[kth(k)]]
  BY <1>1 DEF At
<1> HIDE DEF kth
<1>5. s = [k \in 1..n |-> s[k]]
  OBVIOUS
<1> QED BY <1>3, <1>4, <1>5

LEMMA InTwo ==
  ASSUME NEW f \in Seq(SystemMsgs), NEW t \in Seq(TurnMsgs)
  PROVE  /\ f \o t \in Seq(Msgs) /\ Len(f \o t) = Len(f) + Len(t)
         /\ \A i \in 1..Len(f) : (f \o t)[i] = f[i] /\ IsSystem((f \o t)[i])
         /\ \A k \in 1..Len(t) : (f \o t)[Len(f) + k] = t[k] /\ IsTurn((f \o t)[Len(f) + k])
<1>1. f \in Seq(Msgs) /\ t \in Seq(Msgs)
  BY DEF SystemMsgs, TurnMsgs
<1>2. \A i \in 1..Len(f) : f[i] \in SystemMsgs
  OBVIOUS
<1>3. \A k \in 1..Len(t) : t[k] \in TurnMsgs
  OBVIOUS
<1>4. \A i \in 1..Len(f) : IsSystem(f[i])
  BY <1>2 DEF SystemMsgs
<1>5. \A k \in 1..Len(t) : IsTurn(t[k])
  BY <1>3 DEF TurnMsgs
<1>6. \A i \in 1..Len(f) : (f \o t)[i] = f[i]
  OBVIOUS
<1>7. \A k \in 1..Len(t) : (f \o t)[Len(f) + k] = t[k]
  OBVIOUS
<1>8. f \o t \in Seq(Msgs) /\ Len(f \o t) = Len(f) + Len(t)
  BY <1>1
<1> QED BY <1>4, <1>5, <1>6, <1>7, <1>8

Halved(f, t, p, q, ms) ==
  /\ p = Len(f) /\ q = Len(t) /\ ms = f \o t
  /\ Len(ms) = p + q /\ DOMAIN ms = 1..(p + q)
  /\ \A i \in 1..p : ms[i] = f[i] /\ IsSystem(ms[i])
  /\ \A k \in 1..q : ms[p + k] = t[k] /\ IsTurn(ms[p + k])

LEMMA Halves ==
  ASSUME NEW f \in Seq(SystemMsgs), NEW t \in Seq(TurnMsgs)
  PROVE  \E p \in Nat, q \in Nat, ms \in Seq(Msgs) : Halved(f, t, p, q, ms)
<1>1. PICK p \in Nat, q \in Nat : p = Len(f) /\ q = Len(t)
  OBVIOUS
<1>0. f \o t \in Seq(Msgs)
  BY InTwo
<1>2. PICK ms \in Seq(Msgs) : ms = f \o t
  BY <1>0, Zenon
<1>4. /\ Len(f \o t) = Len(f) + Len(t)
      /\ \A i \in 1..Len(f) : (f \o t)[i] = f[i] /\ IsSystem((f \o t)[i])
      /\ \A k \in 1..Len(t) : (f \o t)[Len(f) + k] = t[k] /\ IsTurn((f \o t)[Len(f) + k])
  BY InTwo, Zenon
<1>5. DOMAIN ms = 1..Len(ms)
  OBVIOUS
<1>6. Len(ms) = p + q /\ DOMAIN ms = 1..(p + q)
  BY <1>1, <1>2, <1>4, <1>5, Zenon
<1>7. \A i \in 1..p : ms[i] = f[i] /\ IsSystem(ms[i])
  BY <1>1, <1>2, <1>4, Zenon
<1>8. \A k \in 1..q : ms[p + k] = t[k] /\ IsTurn(ms[p + k])
  BY <1>1, <1>2, <1>4, Zenon
<1>9. Halved(f, t, p, q, ms)
  BY <1>1, <1>2, <1>6, <1>7, <1>8 DEF Halved
<1> QED BY <1>9

\* The turns are what follows the system messages.
LEMMA TurnsAre ==
  ASSUME NEW f \in Seq(SystemMsgs), NEW t \in Seq(TurnMsgs)
  PROVE  Turns(f \o t) = t /\ Systems(f \o t) = f
<1>0. PICK p \in Nat, n \in Nat, ms \in Seq(Msgs) : Halved(f, t, p, n, ms)
  BY Halves, Zenon
<1>1. p = Len(f) /\ n = Len(t)
  BY <1>0 DEF Halved
<1>2. ms = f \o t
  BY <1>0 DEF Halved
<1>3. /\ DOMAIN ms = 1..(p + n)
      /\ \A i \in 1..p : ms[i] = f[i] /\ IsSystem(ms[i])
      /\ \A k \in 1..n : ms[p + k] = t[k] /\ IsTurn(ms[p + k])
  BY <1>0 DEF Halved
<1>4. {i \in DOMAIN ms : IsTurn(ms[i])} = (p + 1)..(p + n)
  <2>1. \A i \in 1..p : ~IsTurn(ms[i])
    BY <1>3 DEF IsTurn, IsSystem
  <2>2. \A i \in (p + 1)..(p + n) : i - p \in 1..n /\ p + (i - p) = i /\ i \in 1..(p + n)
    OBVIOUS
  <2>3. \A i \in (p + 1)..(p + n) : IsTurn(ms[i])
    BY <1>3, <2>2
  <2>4. \A i \in 1..(p + n) : i \in 1..p \/ i \in (p + 1)..(p + n)
    OBVIOUS
  <2> QED BY <1>3, <2>1, <2>2, <2>3, <2>4
<1>5. {i \in DOMAIN ms : IsSystem(ms[i])} = 1..p
  <2>1. \A i \in 1..(p + n) : IsSystem(ms[i]) <=> ~IsTurn(ms[i])
    BY DEF IsTurn, IsSystem
  <2>2. \A i \in 1..(p + n) : i \in 1..p <=> i \notin (p + 1)..(p + n)
    OBVIOUS
  <2> QED BY <1>3, <1>4, <2>1, <2>2
<1>6. Turns(ms) = t
  <2> DEFINE h == [k \in 1..n |-> p + k]
  <2>1. Lists(h, n, (p + 1)..(p + n)) /\ (p + 1)..(p + n) \in SUBSET Nat
    <3>1. \A i \in (p + 1)..(p + n) : i - p \in 1..n /\ p + (i - p) = i
      OBVIOUS
    <3>2. \A i \in (p + 1)..(p + n) : \E k \in 1..n : h[k] = i
      BY <3>1
    <3>3. h \in [1..n -> (p + 1)..(p + n)]
      OBVIOUS
    <3>4. \A k, l \in 1..n : k < l => h[k] < h[l]
      OBVIOUS
    <3> HIDE DEF h
    <3> QED BY <3>2, <3>3, <3>4 DEF Lists
  <2>2. \A k \in 1..n : ms[h[k]] = t[k]
    BY <1>3
  <2>3. t \in Seq(Msgs) /\ Len(t) = n
    BY <1>1 DEF TurnMsgs
  <2> HIDE DEF h
  <2>4. At(ms, (p + 1)..(p + n)) = t
    BY <2>1, <2>2, <2>3, AtIs
  <2> QED BY <1>4, <2>4 DEF Turns
<1>7. Systems(ms) = f
  <2> DEFINE h == [k \in 1..p |-> k]
  <2>1. Lists(h, p, 1..p) /\ 1..p \in SUBSET Nat
    BY DEF Lists
  <2>2. \A k \in 1..p : ms[h[k]] = f[k]
    BY <1>3
  <2>3. f \in Seq(Msgs) /\ Len(f) = p
    BY <1>1 DEF SystemMsgs
  <2> HIDE DEF h
  <2>4. At(ms, 1..p) = f
    BY <2>1, <2>2, <2>3, AtIs
  <2> QED BY <1>5, <2>4 DEF Systems
<1> QED BY <1>2, <1>6, <1>7

\* Without the first n of them.
LEMMA DroppedAre ==
  ASSUME NEW f \in Seq(SystemMsgs), NEW t \in Seq(TurnMsgs), NEW n \in 0..Len(t)
  PROVE  DropTurns(f \o t, n) = f \o SubSeq(t, n + 1, Len(t))
<1>0. PICK p \in Nat, q \in Nat, ms \in Seq(Msgs) : Halved(f, t, p, q, ms)
  BY Halves, Zenon
<1>1. p = Len(f) /\ q = Len(t)
  BY <1>0 DEF Halved
<1>2. ms = f \o t
  BY <1>0 DEF Halved
<1>3. /\ DOMAIN ms = 1..(p + q)
      /\ \A i \in 1..p : ms[i] = f[i] /\ IsSystem(ms[i])
      /\ \A k \in 1..q : ms[p + k] = t[k] /\ IsTurn(ms[p + k])
  BY <1>0 DEF Halved
<1>n. n \in Nat /\ n <= q
  BY <1>1
<1>4. \A i \in 1..p : ~IsTurn(ms[i])
  BY <1>3 DEF IsTurn, IsSystem
<1>5. ASSUME NEW i \in (p + 1)..(p + q)
      PROVE  IsTurn(ms[i]) /\ ms[i] = t[i - p] /\ Cardinality({j \in 1..i : IsTurn(ms[j])}) = i - p
  <2>1. i - p \in 1..q /\ p + (i - p) = i /\ i \in Nat
    OBVIOUS
  <2>2. {j \in 1..i : IsTurn(ms[j])} = (p + 1)..i
    <3>1. \A j \in (p + 1)..i : j - p \in 1..q /\ p + (j - p) = j /\ j \in 1..i
      OBVIOUS
    <3>2. \A j \in (p + 1)..i : IsTurn(ms[j])
      BY <1>3, <3>1
    <3>3. \A j \in 1..i : j \in 1..p \/ j \in (p + 1)..i
      OBVIOUS
    <3> QED BY <1>4, <3>1, <3>2, <3>3
  <2>3. p + 1 \in Int /\ i \in Int /\ p + 1 <= i + 1 /\ i - (p + 1) + 1 = i - p
    OBVIOUS
  <2>4. Cardinality((p + 1)..i) = i - p
    BY <2>3, Counted
  <2> QED BY <1>3, <2>1, <2>2, <2>4
<1> DEFINE places == {i \in DOMAIN ms : IsTurn(ms[i]) => Cardinality({j \in 1..i : IsTurn(ms[j])}) > n}
<1>6. places = (1..p) \cup ((p + n + 1)..(p + q))
  <2>1. \A i \in 1..(p + q) : i \in 1..p \/ i \in (p + 1)..(p + q)
    OBVIOUS
  <2>2. \A i \in 1..p : i \in places
    BY <1>3, <1>4
  <2>3. ASSUME NEW i \in (p + 1)..(p + q) PROVE i \in places <=> i - p > n
    <3>1. i \in DOMAIN ms
      BY <1>3
    <3> QED BY <1>5, <3>1
  <2>4. \A i \in (p + 1)..(p + q) : i - p > n <=> i \in (p + n + 1)..(p + q)
    BY <1>n
  <2>5. \A i \in (p + n + 1)..(p + q) : i \in (p + 1)..(p + q)
    BY <1>n
  <2>6. \A i \in places : i \in 1..(p + q)
    BY <1>3
  <2> HIDE DEF places
  <2> QED BY <2>1, <2>2, <2>3, <2>4, <2>5, <2>6
<1> DEFINE P == (1..p) \cup ((p + n + 1)..(p + q))
           h == [k \in 1..(p + q - n) |-> IF k <= p THEN k ELSE k + n]
<1>7. Lists(h, p + q - n, P) /\ P \in SUBSET Nat /\ p + q - n \in Nat
  <2>1. p + q - n \in Nat
    BY <1>n
  <2>2. h \in [1..(p + q - n) -> P]
    BY <1>n
  <2>3. \A k, l \in 1..(p + q - n) : k < l => h[k] < h[l]
    BY <1>n
  <2>4. ASSUME NEW i \in P PROVE \E k \in 1..(p + q - n) : h[k] = i
    <3>1. CASE i \in 1..p
      <4>1. i \in 1..(p + q - n) /\ i <= p
        BY <1>n, <3>1
      <4> QED BY <4>1
    <3>2. CASE i \in (p + n + 1)..(p + q)
      <4>1. i - n \in 1..(p + q - n) /\ ~ (i - n <= p) /\ (i - n) + n = i
        BY <1>n, <3>2
      <4>2. h[i - n] = i
        BY <4>1
      <4> QED BY <4>1, <4>2
    <3> QED BY <3>1, <3>2
  <2>5. P \in SUBSET Nat
    BY <1>n
  <2> HIDE DEF h, P
  <2> QED BY <2>1, <2>2, <2>3, <2>4, <2>5 DEF Lists
<1>8. SubSeq(t, n + 1, Len(t)) \in Seq(TurnMsgs) /\ Len(SubSeq(t, n + 1, Len(t))) = q - n
      /\ \A k \in 1..(q - n) : SubSeq(t, n + 1, Len(t))[k] = t[k + n]
  BY <1>1, <1>n
<1>9. PICK rest \in Seq(TurnMsgs) : rest = SubSeq(t, n + 1, Len(t))
  BY <1>8, Zenon
<1>10. Len(rest) = q - n /\ \A k \in 1..(q - n) : rest[k] = t[k + n]
  BY <1>8, <1>9
<1>11. \A k \in 1..(p + q - n) : ms[h[k]] = IF k <= p THEN f[k] ELSE rest[k - p]
  <2>1. ASSUME NEW k \in 1..(p + q - n), k <= p PROVE ms[h[k]] = f[k]
    BY <1>3, <2>1
  <2>2. ASSUME NEW k \in 1..(p + q - n), ~ (k <= p) PROVE ms[h[k]] = rest[k - p]
    <3>1. k - p \in 1..(q - n) /\ k - p + n \in 1..q /\ p + (k - p + n) = k + n
      BY <1>n, <2>2
    <3>2. ms[k + n] = t[k - p + n]
      BY <1>3, <3>1
    <3>3. rest[k - p] = t[k - p + n]
      BY <1>10, <3>1
    <3> QED BY <2>2, <3>2, <3>3
  <2> QED BY <2>1, <2>2
<1>12. PICK c \in Seq(Msgs) : c = f \o rest
  <2>1. f \o rest \in Seq(Msgs)
    BY InTwo
  <2> QED BY <2>1, Zenon
<1>13. Len(c) = p + q - n /\ \A k \in 1..(p + q - n) : c[k] = ms[h[k]]
  <2>1. PICK r \in Nat : r = q - n
    BY <1>n
  <2>2. Len(c) = p + r /\ (\A k \in 1..p : c[k] = f[k]) /\ (\A k \in 1..r : c[p + k] = rest[k])
    BY <1>1, <1>10, <1>12, <2>1
  <2>3. ASSUME NEW k \in 1..(p + q - n) PROVE c[k] = ms[h[k]]
    <3>1. CASE k <= p
      BY <1>11, <2>2, <3>1
    <3>2. CASE ~ (k <= p)
      <4>1. k - p \in 1..r /\ p + (k - p) = k
        BY <2>1, <3>2
      <4> QED BY <1>11, <2>2, <3>2, <4>1
    <3> QED BY <3>1, <3>2
  <2> QED BY <1>n, <2>1, <2>2, <2>3
<1> HIDE DEF h, P
<1>14. At(ms, P) = f \o rest
  <2>1. PICK m \in Nat : m = p + q - n
    BY <1>7
  <2>2. Lists(h, m, P) /\ P \in SUBSET Nat /\ Len(c) = m /\ \A k \in 1..m : c[k] = ms[h[k]]
    BY <1>7, <1>13, <2>1
  <2>3. At(ms, P) = c
    BY <2>2, AtIs
  <2> QED BY <1>12, <2>3
<1>15. DropTurns(ms, n) = At(ms, places)
  BY DEF DropTurns
<1> HIDE DEF places
<1>16. DropTurns(ms, n) = f \o rest
  BY <1>6, <1>14, <1>15 DEF P
<1> QED BY <1>2, <1>9, <1>16

-----------------------------------------------------------------------------
(* Tokens. *)

LEMMA SizesAre ==
  ASSUME NEW ms \in Seq(Msgs)
  PROVE  /\ [i \in DOMAIN ms |-> ms[i].size] \in Seq(Nat)
         /\ Len([i \in DOMAIN ms |-> ms[i].size]) = Len(ms)
<1>1. PICK n \in Nat : n = Len(ms) /\ DOMAIN ms = 1..n
  OBVIOUS
<1>2. \A i \in 1..n : ms[i] \in Msgs
  BY <1>1
<1>3. \A i \in 1..n : ms[i].size \in Nat
  BY <1>2 DEF Msgs
<1> QED BY <1>1, <1>3

LEMMA TokensType ==
  ASSUME NEW ms \in Seq(Msgs)
  PROVE  Tokens(ms) \in Nat
BY SizesAre, SumOfNat DEF Tokens

LEMMA TokensOfTwo ==
  ASSUME NEW a \in Seq(Msgs), NEW b \in Seq(Msgs)
  PROVE  Tokens(a \o b) = Tokens(a) + Tokens(b)
<1>0. a \o b \in Seq(Msgs)
  OBVIOUS
<1>1. PICK c \in Seq(Msgs) : c = a \o b
  BY <1>0, Zenon
<1>2. PICK x \in Seq(Nat) : x = [i \in DOMAIN a |-> a[i].size] /\ Len(x) = Len(a)
  BY SizesAre
<1>3. PICK y \in Seq(Nat) : y = [i \in DOMAIN b |-> b[i].size] /\ Len(y) = Len(b)
  BY SizesAre
<1>4. PICK z \in Seq(Nat) : z = [i \in DOMAIN c |-> c[i].size] /\ Len(z) = Len(c)
  BY SizesAre
<1>5. PICK m \in Nat, n \in Nat : m = Len(a) /\ n = Len(b)
  OBVIOUS
<1>6. Len(c) = m + n /\ (\A i \in 1..m : c[i] = a[i]) /\ (\A i \in 1..n : c[m + i] = b[i])
  BY <1>1, <1>5
<1>w. x \o y \in Seq(Nat)
  OBVIOUS
<1>7. PICK w \in Seq(Nat) : w = x \o y
  BY <1>w, Zenon
<1>a. Len(x \o y) = Len(x) + Len(y) /\ (\A i \in 1..Len(x) : (x \o y)[i] = x[i])
      /\ (\A i \in 1..Len(y) : (x \o y)[Len(x) + i] = y[i])
  OBVIOUS
<1>b. Len(x) = m /\ Len(y) = n
  BY <1>2, <1>3, <1>5
<1>8. Len(w) = m + n /\ (\A i \in 1..m : w[i] = x[i]) /\ (\A i \in 1..n : w[m + i] = y[i])
  BY <1>7, <1>a, <1>b, Zenon
<1>9. \A i \in 1..m : x[i] = a[i].size
  BY <1>2, <1>5
<1>10. \A i \in 1..n : y[i] = b[i].size
  BY <1>3, <1>5
<1>11. \A i \in 1..(m + n) : z[i] = c[i].size
  BY <1>4, <1>6
<1>12. ASSUME NEW i \in 1..(m + n) PROVE z[i] = w[i]
  <2>1. CASE i \in 1..m
    BY <1>6, <1>8, <1>9, <1>11, <2>1
  <2>2. CASE i \notin 1..m
    <3>1. PICK j \in 1..n : m + j = i
      <4>1. i - m \in 1..n /\ m + (i - m) = i
        BY <2>2
      <4> QED BY <4>1
    <3>2. c[i] = b[j] /\ w[i] = y[j]
      BY <1>6, <1>8, <3>1
    <3> QED BY <1>10, <1>11, <3>2
  <2> QED BY <2>1, <2>2
<1>13. z = w
  BY <1>4, <1>6, <1>8, <1>12
<1>14. x \in Seq(Int) /\ y \in Seq(Int)
  OBVIOUS
<1>15. Sum(x \o y) = Sum(x) + Sum(y)
  BY <1>14, SumOfTwo
<1>16. Tokens(a) = Sum(x) /\ Tokens(b) = Sum(y) /\ Tokens(c) = Sum(z)
  BY <1>2, <1>3, <1>4 DEF Tokens
<1> QED BY <1>1, <1>7, <1>13, <1>15, <1>16

LEMMA TokensOfOne ==
  ASSUME NEW ms \in Seq(Msgs), Len(ms) = 1
  PROVE  Tokens(ms) = ms[1].size
<1>1. PICK x \in Seq(Nat) : x = [i \in DOMAIN ms |-> ms[i].size] /\ Len(x) = 1
  BY SizesAre
<1>2. x[1] = ms[1].size
  BY <1>1
<1>3. x \in Seq(Int)
  OBVIOUS
<1>4. PICK t : Partial(t, x) /\ Sum(x) = t[1]
  BY <1>1, <1>3, SumIsLast
<1>5. 1 \in 1..1 /\ 1 - 1 = 0 /\ x[1] \in Int
  BY <1>1
<1>6. t[0] = 0 /\ t[1] = t[0] + x[1]
  BY <1>1, <1>4, <1>5 DEF Partial
<1> QED BY <1>1, <1>2, <1>4, <1>5, <1>6 DEF Tokens

\* The first n and the others.
LEMMA TokensOfParts ==
  ASSUME NEW t \in Seq(Msgs), NEW n \in 0..Len(t)
  PROVE  Tokens(t) = Tokens(SubSeq(t, 1, n)) + Tokens(SubSeq(t, n + 1, Len(t)))
<1>1. SubSeq(t, 1, n) \in Seq(Msgs) /\ SubSeq(t, n + 1, Len(t)) \in Seq(Msgs)
  OBVIOUS
<1>2. SubSeq(t, 1, n) \o SubSeq(t, n + 1, Len(t)) = t
  <2>1. 1 \in 1..(Len(t) + 1) /\ n \in (1 - 1)..Len(t) /\ Len(t) \in n..Len(t)
    OBVIOUS
  <2>2. SubSeq(t, 1, n) \o SubSeq(t, n + 1, Len(t)) = SubSeq(t, 1, Len(t))
    BY <2>1, ConcatAdjacentSubSeq
  <2> QED BY <2>2, SubSeqFull
<1> QED BY <1>1, <1>2, TokensOfTwo

\* One turn more.
LEMMA TokensOfNext ==
  ASSUME NEW t \in Seq(Msgs), NEW n \in 1..Len(t)
  PROVE  Tokens(SubSeq(t, 1, n)) = Tokens(SubSeq(t, 1, n - 1)) + t[n].size
<1>1. SubSeq(t, 1, n) \in Seq(Msgs) /\ Len(SubSeq(t, 1, n)) = n
      /\ \A i \in 1..n : SubSeq(t, 1, n)[i] = t[i]
  OBVIOUS
<1>2. PICK a \in Seq(Msgs) : a = SubSeq(t, 1, n)
  BY <1>1, Zenon
<1>3. Len(a) = n /\ \A i \in 1..n : a[i] = t[i]
  BY <1>1, <1>2
<1>4. n - 1 \in 0..Len(a) /\ n - 1 + 1 = n
  BY <1>3
<1>5. SubSeq(a, 1, n - 1) = SubSeq(t, 1, n - 1)
  <2>1. /\ SubSeq(a, 1, n - 1) = [i \in 1..(n - 1) |-> a[i]]
        /\ SubSeq(t, 1, n - 1) = [i \in 1..(n - 1) |-> t[i]]
    BY <1>3
  <2>2. \A i \in 1..(n - 1) : a[i] = t[i]
    BY <1>3
  <2> QED BY <2>1, <2>2
<1>6. SubSeq(a, n, n) \in Seq(Msgs) /\ Len(SubSeq(a, n, n)) = 1 /\ SubSeq(a, n, n)[1] = t[n]
  BY <1>3
<1>7. Tokens(SubSeq(a, n, n)) = t[n].size
  BY <1>6, TokensOfOne
<1>8. Tokens(a) = Tokens(SubSeq(a, 1, n - 1)) + Tokens(SubSeq(a, n - 1 + 1, Len(a)))
  BY <1>4, TokensOfParts
<1> QED BY <1>2, <1>3, <1>4, <1>5, <1>7, <1>8

-----------------------------------------------------------------------------
(* The numbers of the program. *)

LEMMA KeepIs == Keep \in Nat \ {0}
BY PromptAssumption DEF Keep

LEMMA LimitIs == Limit \in Nat
<1>1. Ctx * 9 \in Nat /\ 10 \in Nat \ {0}
  BY PromptAssumption
<1> QED BY <1>1, Divided DEF Limit

LEMMA MinIs ==
  ASSUME NEW S \in SUBSET Nat, S # {}
  PROVE  Min(S) \in S /\ \A k \in S : Min(S) <= k
<1>1. \E m \in S : \A k \in S : m <= k
  BY Least
<1> QED BY <1>1 DEF Min

LEMMA MaxIs ==
  ASSUME NEW n \in Nat, NEW S \in SUBSET (0..n), S # {}
  PROVE  Max(S) \in S /\ \A k \in S : Max(S) >= k
<1> DEFINE R == {n - x : x \in S}
<1>1. R \in SUBSET Nat /\ R # {}
  <2>1. \A x \in S : n - x \in Nat
    OBVIOUS
  <2>2. PICK x \in S : TRUE
    OBVIOUS
  <2> QED BY <2>1, <2>2
<1> HIDE DEF R
<1>2. PICK m \in R : \A k \in R : m <= k
  BY <1>1, Least
<1>3. PICK x \in S : m = n - x
  BY DEF R
<1>4. \A k \in S : x >= k
  <2>1. ASSUME NEW k \in S PROVE x >= k
    <3>1. n - k \in R
      BY DEF R
    <3>2. n - x <= n - k /\ x \in Nat /\ k \in Nat
      BY <1>2, <1>3, <3>1
    <3> QED BY <3>2
  <2> QED BY <2>1
<1> QED BY <1>4 DEF Max

LEMMA AtLeastNone ==
  ASSUME NEW x \in Int
  PROVE  Max({0, x}) = IF x >= 0 THEN x ELSE 0
<1> PICK m \in {0, x} : m = IF x >= 0 THEN x ELSE 0
  OBVIOUS
<1>1. \A y \in {0, x} : m >= y
  OBVIOUS
<1>2. \A z \in {0, x} : (\A y \in {0, x} : z >= y) => z = m
  BY <1>1
<1> QED BY <1>1, <1>2 DEF Max

LEMMA LesserOf ==
  ASSUME NEW a \in Nat, NEW b \in Nat
  PROVE  Min({a, b}) \in Nat /\ Min({a, b}) <= a /\ Min({a, b}) <= b /\ Min({a, b}) \in {a, b}
<1>1. {a, b} \in SUBSET Nat /\ {a, b} # {}
  OBVIOUS
<1>2. Min({a, b}) \in {a, b} /\ \A k \in {a, b} : Min({a, b}) <= k
  BY <1>1, MinIs
<1> QED BY <1>2

-----------------------------------------------------------------------------
(* What is injected. *)

LEMMA Ours ==
  ASSUME NEW begins \in {"identity", "skill", "memory", "project", "mode", "summary", "client"},
         NEW of \in SUBSET Nat, NEW size \in Nat, NEW blocks \in Seq(Nat)
  PROVE  Message("system", begins, of, size, blocks) \in SystemMsgs
BY DEF Message, SystemMsgs, Msgs, IsSystem

LEMMA OneOf ==
  ASSUME NEW m \in SystemMsgs
  PROVE  /\ <<m>> \in Seq(SystemMsgs) /\ Len(<<m>>) = 1 /\ <<m>>[1] = m
OBVIOUS

LEMMA BlocksAre ==
  ASSUME NEW hits \in Seq(Nat), NEW budget \in Nat
  PROVE  Blocks(hits, budget) \in Seq(Nat)
<1> DEFINE cut == [i \in DOMAIN hits |-> IF i = 1 /\ hits[1] > budget THEN budget ELSE hits[i]]
           fitting == {n \in DOMAIN hits : n = 1 \/ Sum(SubSeq(cut, 1, n)) <= budget}
           k == IF fitting = {} THEN 0 ELSE Max(fitting)
<1>1. PICK n \in Nat : n = Len(hits) /\ DOMAIN hits = 1..n
  OBVIOUS
<1>2. cut \in Seq(Nat) /\ Len(cut) = n
  <2>1. \A i \in 1..n : hits[i] \in Nat
    BY <1>1
  <2> QED BY <1>1, <2>1
<1> HIDE DEF cut
<1>3. fitting \in SUBSET (0..n) /\ fitting \in SUBSET (1..n)
  BY <1>1
<1> HIDE DEF fitting
<1>4. k \in 0..n
  <2>1. CASE fitting = {}
    BY <2>1
  <2>2. CASE fitting # {}
    <3>1. Max(fitting) \in fitting
      BY <1>3, <2>2, MaxIs
    <3> QED BY <1>3, <2>2, <3>1
  <2> QED BY <2>1, <2>2
<1>5. Blocks(hits, budget) = SubSeq(cut, 1, k)
  BY DEF Blocks, cut, fitting
<1> HIDE DEF k
<1>6. SubSeq(cut, 1, k) \in Seq(Nat)
  BY <1>2, <1>4
<1> QED BY <1>5, <1>6

LEMMA InjectedIs ==
  ASSUME NEW kind \in {"skill", "memory", "project"}, NEW hits \in Seq(Nat), NEW percent \in Nat
  PROVE  Injected(kind, hits, percent) \in Seq(SystemMsgs)
<1>1. PICK budget \in Nat : budget = (Ctx * percent) \div 100
  <2>1. Ctx * percent \in Nat /\ 100 \in Nat \ {0}
    BY PromptAssumption
  <2>2. (Ctx * percent) \div 100 \in Nat
    BY <2>1, Divided
  <2> QED BY <2>2
<1>2. PICK blocks \in Seq(Nat) : blocks = Blocks(hits, budget)
  BY BlocksAre
<1>3. Sum(blocks) \in Nat
  BY SumOfNat
<1>4. {} \in SUBSET Nat
  OBVIOUS
<1>5. System(kind, blocks, Sum(blocks)) \in SystemMsgs
  BY <1>3, <1>4, Ours DEF System
<1>6. <<System(kind, blocks, Sum(blocks))>> \in Seq(SystemMsgs)
  BY <1>5, OneOf
<1>7. <<>> \in Seq(SystemMsgs)
  OBVIOUS
<1>8. Injected(kind, hits, percent) = IF hits = <<>> THEN <<>> ELSE <<System(kind, blocks, Sum(blocks))>>
  BY <1>1, <1>2 DEF Injected
<1> QED BY <1>6, <1>7, <1>8

LEMMA ContextsAre ==
  ASSUME NEW project \in Hits, NEW memory \in Hits, NEW skills \in Hits,
         NEW identity \in {0} \cup Sizes
  PROVE  IdentityContext(identity) \o SkillContext(skills) \o MemoryContext(memory)
           \o ProjectContext(project) \in Seq(SystemMsgs)
<1>1. project \in Seq(Nat) /\ memory \in Seq(Nat) /\ skills \in Seq(Nat)
  BY PromptAssumption
<1>2. IdentityContext(identity) \in Seq(SystemMsgs)
  <2>1. identity \in Nat /\ {} \in SUBSET Nat /\ <<>> \in Seq(Nat)
    BY PromptAssumption
  <2>2. System("identity", <<>>, identity) \in SystemMsgs
    BY <2>1, Ours DEF System
  <2>3. <<System("identity", <<>>, identity)>> \in Seq(SystemMsgs) /\ <<>> \in Seq(SystemMsgs)
    BY <2>2, OneOf
  <2> QED BY <2>3 DEF IdentityContext
<1>3. SkillContext(skills) \in Seq(SystemMsgs)
  <2>1. Min({2, Len(skills)}) \in 0..Len(skills)
    <3>1. 2 \in Nat /\ Len(skills) \in Nat
      BY <1>1
    <3>2. Min({2, Len(skills)}) \in Nat /\ Min({2, Len(skills)}) <= Len(skills)
      BY <3>1, LesserOf
    <3> QED BY <3>1, <3>2
  <2>2. PICK n \in 0..Len(skills) : n = Min({2, Len(skills)})
    BY <2>1
  <2>3. SubSeq(skills, 1, n) \in Seq(Nat)
    BY <1>1
  <2>4. SkillHits(skills) \in Seq(Nat)
    BY <2>2, <2>3 DEF SkillHits
  <2>5. Injected("skill", SkillHits(skills), 8) \in Seq(SystemMsgs) /\ <<>> \in Seq(SystemMsgs)
    BY <2>4, InjectedIs
  <2> QED BY <2>5 DEF SkillContext
<1>4. MemoryContext(memory) \in Seq(SystemMsgs)
  BY <1>1, InjectedIs DEF MemoryContext
<1>5. ProjectContext(project) \in Seq(SystemMsgs)
  BY <1>1, InjectedIs DEF ProjectContext
<1>6. \A a, b \in Seq(SystemMsgs) : a \o b \in Seq(SystemMsgs)
  OBVIOUS
<1> QED BY <1>2, <1>3, <1>4, <1>5, <1>6

-----------------------------------------------------------------------------
(* The client's request. *)

Sent == Turns(request)

\* A system message at the head, or none, and turns.
Parts(f, t) ==
  /\ request = f \o t /\ Len(f) <= 1 /\ \A i \in 1..Len(f) : f[i].of = {i}

LEMMA RequestIs ==
  ASSUME request \in Requests
  PROVE  \E f \in Seq(SystemMsgs), t \in Seq(TurnMsgs) : Parts(f, t)
<1>0. PICK sizes \in UNION {[1..n -> Sizes] : n \in 1..MaxHistory}, led \in BOOLEAN :
        request = Conversation(sizes, led)
  BY DEF Requests
<1>n. PICK n \in 1..MaxHistory : sizes \in [1..n -> Sizes]
  OBVIOUS
<1>1. /\ DOMAIN request = 1..n
      /\ \A i \in 1..n :
           request[i] = Message(IF led /\ i = 1 THEN "system"
                                ELSE IF i % 2 = 1 THEN "user" ELSE "assistant",
                                "client", {i}, sizes[i], <<>>)
  <2>1. DOMAIN sizes = 1..n
    BY <1>n
  <2> QED BY <1>0, <2>1 DEF Conversation
<1>2. n \in Nat \ {0}
  BY PromptAssumption
<1>4. ASSUME NEW i \in 1..n
      PROVE  /\ request[i] \in Msgs /\ request[i].of = {i}
             /\ IsSystem(request[i]) <=> (led /\ i = 1)
  <2>0. sizes[i] \in Sizes
    BY <1>n
  <2>a. sizes[i] \in Nat
    BY <2>0, PromptAssumption
  <2>b. i \in Nat
    BY <1>2
  <2>1. sizes[i] \in Nat /\ {i} \in SUBSET Nat /\ <<>> \in Seq(Nat)
    BY <2>a, <2>b
  <2>2. PICK role \in {"system", "user", "assistant"} :
          /\ request[i] = Message(role, "client", {i}, sizes[i], <<>>)
          /\ role = "system" <=> (led /\ i = 1)
    <3>1. CASE led /\ i = 1
      BY <1>1, <3>1
    <3>2. CASE ~ (led /\ i = 1)
      BY <1>1, <3>2
    <3> QED BY <3>1, <3>2
  <2> QED BY <2>1, <2>2 DEF Message, Msgs, IsSystem
<1>5. request \in Seq(Msgs) /\ Len(request) = n
  <2>1. request = [i \in 1..n |-> request[i]]
    BY <1>0, <1>1 DEF Conversation
  <2>2. \A i \in 1..n : request[i] \in Msgs
    BY <1>4
  <2> QED BY <1>2, <2>1, <2>2
<1>6. CASE led
  <2>1. request[1] \in SystemMsgs /\ request[1].of = {1}
    BY <1>2, <1>4, <1>6 DEF SystemMsgs
  <2>2. PICK f \in Seq(SystemMsgs) : f = <<request[1]>> /\ Len(f) = 1 /\ f[1] = request[1]
    BY <2>1, OneOf
  <2>3. \A i \in 2..n : request[i] \in TurnMsgs
    BY <1>2, <1>4 DEF TurnMsgs, IsTurn, IsSystem
  <2>4. PICK t \in Seq(TurnMsgs) : Len(t) = n - 1 /\ \A i \in 1..(n - 1) : t[i] = request[i + 1]
    <3> DEFINE u == [i \in 1..(n - 1) |-> request[i + 1]]
    <3>1. \A i \in 1..(n - 1) : i + 1 \in 2..n
      BY <1>2
    <3>2. n - 1 \in Nat
      BY <1>2
    <3>3. u \in Seq(TurnMsgs) /\ Len(u) = n - 1
      BY <2>3, <3>1, <3>2
    <3> QED BY <3>3
  <2>5. PICK r \in Nat : r = n - 1 /\ n = 1 + r
    BY <1>2
  <2>6. PICK c \in Seq(Msgs) : c = f \o t
    BY InTwo
  <2>7. Len(c) = n /\ c[1] = request[1] /\ \A k \in 1..r : c[1 + k] = request[k + 1]
    <3>1. /\ Len(f \o t) = Len(f) + Len(t) /\ \A i \in 1..Len(f) : (f \o t)[i] = f[i]
          /\ \A k \in 1..Len(t) : (f \o t)[Len(f) + k] = t[k]
      BY InTwo
    <3> QED BY <2>2, <2>4, <2>5, <2>6, <3>1
  <2>8. \A i \in 1..n : c[i] = request[i]
    <3>1. ASSUME NEW i \in 1..n, i # 1 PROVE c[i] = request[i]
      <4>1. i - 1 \in 1..r /\ 1 + (i - 1) = i /\ (i - 1) + 1 = i
        BY <2>5, <3>1
      <4> QED BY <2>7, <4>1
    <3> QED BY <2>7, <3>1
  <2>9. c = request
    BY <1>5, <2>7, <2>8
  <2>10. Parts(f, t)
    BY <2>1, <2>2, <2>6, <2>9 DEF Parts
  <2> QED BY <2>10
<1>7. CASE ~led
  <2>1. \A i \in 1..n : request[i] \in TurnMsgs
    BY <1>4, <1>7 DEF TurnMsgs, IsTurn, IsSystem
  <2>2. request \in Seq(TurnMsgs)
    BY <1>5, <2>1
  <2>3. Parts(<<>>, request) /\ <<>> \in Seq(SystemMsgs)
    BY <1>5 DEF Parts
  <2> QED BY <2>2, <2>3
<1> QED BY <1>6, <1>7

LEMMA PartsAre ==
  ASSUME NEW f \in Seq(SystemMsgs), NEW t \in Seq(TurnMsgs), Parts(f, t)
  PROVE  /\ Sent = t /\ \A i \in 1..Len(f) : i \in f[i].of
         /\ {i \in DOMAIN request : IsSystem(request[i])} \subseteq 1..Len(f)
<1>1. Sent = t
  BY TurnsAre DEF Parts, Sent
<1>2. \A i \in 1..Len(f) : i \in f[i].of
  BY DEF Parts
<1>3. PICK p \in Nat, q \in Nat, ms \in Seq(Msgs) : Halved(f, t, p, q, ms)
  BY Halves, Zenon
<1>4. ms = request /\ p = Len(f)
  BY <1>3 DEF Halved, Parts
<1>5. ASSUME NEW i \in DOMAIN request, IsSystem(request[i]) PROVE i \in 1..Len(f)
  <2>1. i \in 1..(p + q)
    BY <1>3, <1>4 DEF Halved
  <2>2. CASE i \in 1..p
    BY <1>4, <2>2
  <2>3. CASE i \notin 1..p
    <3>1. i - p \in 1..q /\ p + (i - p) = i
      BY <2>1, <2>3
    <3>2. IsTurn(ms[p + (i - p)])
      BY <1>3, <3>1 DEF Halved
    <3>3. IsTurn(request[i])
      BY <1>4, <3>1, <3>2
    <3> QED BY <1>5, <3>3 DEF IsTurn, IsSystem
  <2> QED BY <2>2, <2>3
<1> QED BY <1>1, <1>2, <1>5

-----------------------------------------------------------------------------
(* The invariant: what the turns are at each stage, and what has the rest. *)

SystemPlaces == {i \in DOMAIN request : IsSystem(request[i])}

\* The one system message of a merged prompt.
Heads(m) == m \in SystemMsgs /\ m.begins = "mode" /\ SystemPlaces \subseteq m.of

\* After f the turns but for the first folded ones, which are in a summary.
FoldedInto(f) ==
  /\ folded \in 0..Len(Sent)
  /\ messages = f \o SubSeq(Sent, folded + 1, Len(Sent))
  /\ folded # 0 => Len(Sent) - folded = Keep
  /\ \A i \in 1..Len(f) : f[i].begins \in {"mode", "summary"}
  /\ \E i \in 1..Len(f) : SystemPlaces \subseteq f[i].of
  /\ folded # 0 => \E j \in 1..Len(f) :
                      IsSummary(f[j]) /\ \A i \in 1..folded : Sent[i].of \subseteq f[j].of

PromptInv ==
  /\ path \in {"agentic", "passthrough", "external"}
  /\ stage # "idle" => request \in Requests
  /\ stage = "arrived" => messages = request /\ folded = 0
  /\ stage = "injected" => folded = 0 /\ \E f \in Seq(SystemMsgs) : messages = f \o request
  /\ stage = "merged" /\ path = "agentic" =>
       folded = 0 /\ \E m \in SystemMsgs : Heads(m) /\ messages = <<m>> \o Sent
  /\ stage = "compressed" /\ path = "agentic" => \E f \in Seq(SystemMsgs) : FoldedInto(f)
  /\ PreparedInFull

LEMMA SentType == request \in Requests => Sent \in Seq(TurnMsgs)
BY RequestIs, PartsAre

Joined(a, b) == a \o b

LEMMA Regrouped ==
  ASSUME NEW a \in Seq(Msgs), NEW b \in Seq(Msgs), NEW c \in Seq(Msgs)
  PROVE  Joined(a, b) \in Seq(Msgs) /\ Joined(a, Joined(b, c)) = Joined(Joined(a, b), c)
BY DEF Joined

LEMMA RegroupedTwice ==
  ASSUME NEW a \in Seq(Msgs), NEW b \in Seq(Msgs), NEW c \in Seq(Msgs), NEW d \in Seq(Msgs)
  PROVE  Joined(a, Joined(b, Joined(c, d))) = Joined(Joined(a, Joined(b, c)), d)
BY Regrouped

\* Whatever was put in front of the request, the system messages become one.
LEMMA Merging ==
  ASSUME request \in Requests, NEW g \in Seq(SystemMsgs), messages = g \o request
  PROVE  \E m \in SystemMsgs :
           Heads(m) /\ Coalesced(<<System("mode", <<>>, ModePrompt)>> \o messages) = <<m>> \o Sent
<1>1. PICK f \in Seq(SystemMsgs), t \in Seq(TurnMsgs) : Parts(f, t)
  BY RequestIs
<1>2. Sent = t /\ (\A i \in 1..Len(f) : i \in f[i].of) /\ SystemPlaces \subseteq 1..Len(f)
  BY <1>1, PartsAre DEF SystemPlaces
<1>3. PICK mode \in SystemMsgs : mode = System("mode", <<>>, ModePrompt) /\ mode.begins = "mode"
  <2>1. ModePrompt \in Nat /\ {} \in SUBSET Nat /\ <<>> \in Seq(Nat)
    BY PromptAssumption
  <2>2. System("mode", <<>>, ModePrompt) \in SystemMsgs
    BY <2>1, Ours DEF System
  <2>3. System("mode", <<>>, ModePrompt).begins = "mode"
    BY DEF System, Message
  <2> QED BY <2>2, <2>3
<1>4. PICK h \in Seq(SystemMsgs) : h = <<mode>> /\ Len(h) = 1 /\ h[1] = mode
  BY OneOf
<1>5. g \o f \in Seq(SystemMsgs) /\ h \o (g \o f) \in Seq(SystemMsgs)
  OBVIOUS
<1>6. PICK s \in Seq(SystemMsgs) : s = h \o (g \o f)
  BY <1>5, Zenon
<1>7. h \o messages = s \o t
  <2>1. h \in Seq(Msgs) /\ g \in Seq(Msgs) /\ f \in Seq(Msgs) /\ t \in Seq(Msgs) /\ g \o f \in Seq(Msgs)
    BY DEF SystemMsgs, TurnMsgs
  <2>2. h \o (g \o (f \o t)) = (h \o (g \o f)) \o t
    <3>1. Joined(h, Joined(g, Joined(f, t))) = Joined(Joined(h, Joined(g, f)), t)
      BY <2>1, RegroupedTwice
    <3> QED BY <3>1 DEF Joined
  <2>3. request = f \o t
    BY <1>1 DEF Parts
  <2> QED BY <1>6, <2>2, <2>3
<1>8. /\ Len(s) = 1 + Len(g) + Len(f) /\ s[1] = mode
      /\ \A i \in 1..Len(f) : s[1 + Len(g) + i] = f[i]
  <2>1. PICK b \in Seq(SystemMsgs) : b = g \o f
    BY <1>5, Zenon
  <2>2. Len(b) = Len(g) + Len(f) /\ \A i \in 1..Len(f) : b[Len(g) + i] = f[i]
    BY <2>1
  <2>3. Len(s) = 1 + Len(b) /\ s[1] = mode /\ \A i \in 1..Len(b) : s[1 + i] = b[i]
    BY <1>4, <1>6, <2>1
  <2>4. \A i \in 1..Len(f) : Len(g) + i \in 1..Len(b) /\ 1 + (Len(g) + i) = 1 + Len(g) + i
    BY <2>2
  <2> QED BY <2>2, <2>3, <2>4
<1>9. PICK ms \in Seq(Msgs) : ms = s \o t
  BY InTwo
<1>10. Systems(ms) = s /\ Turns(ms) = t
  BY <1>9, TurnsAre
<1>11. ms # <<>> /\ IsSystem(ms[1])
  <2>1. /\ Len(s \o t) = Len(s) + Len(t)
        /\ \A i \in 1..Len(s) : (s \o t)[i] = s[i] /\ IsSystem((s \o t)[i])
    BY InTwo
  <2>2. 1 \in 1..Len(s)
    BY <1>8
  <2> QED BY <1>9, <2>1, <2>2
<1>12. CASE Len(s) = 1
  <2>1. Coalesced(ms) = ms
    BY <1>10, <1>11, <1>12 DEF Coalesced
  <2>2. Len(f) = 0
    BY <1>8, <1>12
  <2>3. Heads(mode)
    BY <1>2, <1>3, <2>2 DEF Heads
  <2>4. s = h
    <3>1. s = [i \in 1..1 |-> s[i]] /\ h = [i \in 1..1 |-> h[i]]
      BY <1>4, <1>12
    <3>2. \A i \in 1..1 : s[i] = h[i]
      BY <1>4, <1>8
    <3> QED BY <3>1, <3>2
  <2> QED BY <1>2, <1>3, <1>4, <1>7, <1>9, <2>1, <2>3, <2>4
<1>13. CASE Len(s) # 1
  <2> DEFINE of == UNION {s[i].of : i \in DOMAIN s}
             m == Message("system", s[1].begins, of, Tokens(s), <<>>)
  <2>1. Coalesced(ms) = <<m>> \o t
    BY <1>10, <1>11, <1>13 DEF Coalesced
  <2>2. \A i \in 1..Len(s) : s[i].of \in SUBSET Nat
    <3>1. \A i \in 1..Len(s) : s[i] \in SystemMsgs
      OBVIOUS
    <3> QED BY <3>1 DEF SystemMsgs, Msgs
  <2>3. of \in SUBSET Nat
    BY <2>2
  <2>4. Tokens(s) \in Nat
    <3>1. s \in Seq(Msgs)
      BY DEF SystemMsgs
    <3> QED BY <3>1, TokensType
  <2>5. SystemPlaces \subseteq of
    <3>1. ASSUME NEW i \in SystemPlaces PROVE i \in of
      <4>1. i \in 1..Len(f) /\ i \in f[i].of
        BY <1>2
      <4>2. 1 + Len(g) + i \in DOMAIN s /\ s[1 + Len(g) + i] = f[i]
        BY <1>8, <4>1
      <4> QED BY <4>1, <4>2
    <3> QED BY <3>1
  <2> HIDE DEF of
  <2>6. m \in SystemMsgs
    <3>1. s[1].begins = "mode" /\ <<>> \in Seq(Nat)
      BY <1>3, <1>8
    <3> QED BY <2>3, <2>4, <3>1, Ours
  <2>7. m.begins = "mode" /\ m.of = of
    BY <1>3, <1>8 DEF Message
  <2> HIDE DEF m
  <2>8. Heads(m)
    BY <2>5, <2>6, <2>7 DEF Heads
  <2> QED BY <1>2, <1>3, <1>4, <1>7, <1>9, <2>1, <2>6, <2>8
<1> QED BY <1>12, <1>13

-----------------------------------------------------------------------------
(* Compression and the guard. *)

LEMMA Splitting ==
  ASSUME NEW m \in SystemMsgs, m.begins = "mode", NEW t \in Seq(TurnMsgs), NEW ms, ms = <<m>> \o t
  PROVE  HeadOf(ms) = <<m>> /\ BodyOf(ms) = t
<1>1. PICK f \in Seq(SystemMsgs) : f = <<m>> /\ Len(f) = 1 /\ f[1] = m
  BY OneOf
<1>2. PICK p \in Nat, n \in Nat, c \in Seq(Msgs) : Halved(f, t, p, n, c)
  BY Halves, Zenon
<1>3. /\ p = 1 /\ n = Len(t) /\ c = ms /\ Len(c) = 1 + n /\ c[1] = m /\ IsSystem(c[1])
      /\ \A k \in 1..n : c[1 + k] = t[k] /\ IsTurn(c[1 + k])
  BY <1>1, <1>2 DEF Halved
<1> DEFINE ends == {i \in 0..Len(c) : \A j \in 1..i : IsSystem(c[j]) /\ ~IsSummary(c[j])}
<1>4. ends = {0, 1}
  <2>1. 0 \in ends
    BY <1>3
  <2>2. 1 \in ends
    <3>1. ~IsSummary(c[1])
      BY <1>3 DEF IsSummary
    <3>2. \A j \in 1..1 : j = 1
      OBVIOUS
    <3>3. 1 \in 0..Len(c)
      BY <1>3
    <3> QED BY <1>3, <3>1, <3>2, <3>3
  <2>3. ASSUME NEW i \in ends PROVE i \in {0, 1}
    <3>1. SUFFICES ASSUME i \notin {0, 1} PROVE FALSE
      OBVIOUS
    <3>2. 2 \in 1..i /\ 1 \in 1..n /\ 1 + 1 = 2
      BY <1>3, <3>1
    <3>3. IsSystem(c[2])
      BY <3>2
    <3>4. IsTurn(c[2])
      BY <1>3, <3>2
    <3> QED BY <3>3, <3>4 DEF IsTurn, IsSystem
  <2> HIDE DEF ends
  <2> QED BY <2>1, <2>2, <2>3
<1>5. Max(ends) = 1
  <2>1. Max({0, 1}) = 1
    BY AtLeastNone
  <2> QED BY <1>4, <2>1
<1>6. HeadOf(c) = SubSeq(c, 1, 1)
  BY <1>5 DEF HeadOf
<1> HIDE DEF ends
<1>7. SubSeq(c, 1, 1) = f
  <2>1. SubSeq(c, 1, 1) = [k \in 1..1 |-> c[k]] /\ f = [k \in 1..1 |-> f[k]]
    BY <1>1, <1>3
  <2>2. \A k \in 1..1 : c[k] = f[k]
    BY <1>1, <1>3
  <2> QED BY <2>1, <2>2
<1>8. BodyOf(c) = SubSeq(c, 2, Len(c))
  BY <1>1, <1>6, <1>7 DEF BodyOf
<1>9. SubSeq(c, 2, Len(c)) = t
  <2>1. SubSeq(c, 2, Len(c)) \in Seq(Msgs) /\ Len(SubSeq(c, 2, Len(c))) = n
        /\ \A k \in 1..n : SubSeq(c, 2, Len(c))[k] = c[1 + k]
    BY <1>3
  <2>2. PICK b \in Seq(Msgs) : b = SubSeq(c, 2, Len(c))
    BY <2>1, Zenon
  <2>3. Len(b) = n /\ \A k \in 1..n : b[k] = t[k]
    BY <1>3, <2>1, <2>2
  <2>4. b = [k \in 1..n |-> b[k]] /\ t = [k \in 1..n |-> t[k]]
    BY <1>3, <2>3
  <2>5. b = t
    BY <2>3, <2>4
  <2> QED BY <2>2, <2>5
<1> QED BY <1>1, <1>3, <1>6, <1>7, <1>8, <1>9

\* What may be folded are the turns but the last Keep.
LEMMA Folding ==
  ASSUME NEW m \in SystemMsgs, m.begins = "mode", NEW t \in Seq(TurnMsgs), NEW ms, ms = <<m>> \o t,
         Len(MiddleOf(ms)) >= 2
  PROVE  \E k \in 2..Len(t) :
           /\ Len(t) - k = Keep /\ Len(MiddleOf(ms)) = k
           /\ MiddleOf(ms) = SubSeq(t, 1, k) /\ TailOf(ms) = SubSeq(t, k + 1, Len(t))
<1>1. BodyOf(ms) = t
  BY Splitting
<1>2. PICK n \in Nat : n = Len(t)
  OBVIOUS
<1>3. n - Keep \in Int /\ Keep \in Nat
  BY KeepIs
<1>4. PICK k \in 0..n : k = Max({0, n - Keep}) /\ (k > 0 => n - k = Keep)
  BY <1>3, AtLeastNone
<1>5. MiddleOf(ms) = SubSeq(t, 1, k)
  BY <1>1, <1>2, <1>4 DEF MiddleOf
<1>6. Len(SubSeq(t, 1, k)) = k
  BY <1>2
<1>7. Len(MiddleOf(ms)) = k
  BY <1>5, <1>6
<1>8. TailOf(ms) = SubSeq(t, k + 1, Len(t))
  BY <1>1, <1>7 DEF TailOf
<1>9. k \in 2..Len(t) /\ Len(t) - k = Keep
  BY <1>2, <1>4, <1>7
<1> QED BY <1>5, <1>7, <1>8, <1>9

LEMMA NothingInjected ==
  ASSUME NEW f \in Seq(SystemMsgs), NEW t \in Seq(TurnMsgs), NEW ms, ms = f \o t,
         \A i \in 1..Len(f) : f[i].begins \in {"mode", "summary"}
  PROVE  TrimOrder(ms) = ms
<1>1. PICK p \in Nat, n \in Nat, c \in Seq(Msgs) : Halved(f, t, p, n, c)
  BY Halves, Zenon
<1>2. /\ p = Len(f) /\ c = ms /\ DOMAIN c = 1..(p + n) /\ \A i \in 1..p : c[i] = f[i]
      /\ \A k \in 1..n : IsTurn(c[p + k])
  BY <1>1 DEF Halved
<1>3. ASSUME NEW i \in DOMAIN c, IsSystem(c[i]) PROVE c[i].begins \in {"mode", "summary"}
  <2>1. CASE i \in 1..p
    BY <1>2, <2>1
  <2>2. CASE i \notin 1..p
    <3>1. i - p \in 1..n /\ p + (i - p) = i
      BY <1>2, <2>2
    <3>2. IsTurn(c[p + (i - p)])
      BY <1>2, <3>1
    <3>3. IsTurn(c[i])
      BY <3>1, <3>2
    <3> QED BY <1>3, <3>3 DEF IsTurn, IsSystem
  <2> QED BY <2>1, <2>2
<1>4. InjectedAs(c, "memory") = {} /\ InjectedAs(c, "skill") = {} /\ InjectedAs(c, "project") = {}
  BY <1>3 DEF InjectedAs
<1>5. ASSUME NEW kind, InjectedAs(c, kind) = {} PROVE TrimBlocks(c, kind) = c
  BY <1>5 DEF TrimBlocks
<1>6. TrimBlocks(c, "memory") = c /\ TrimBlocks(c, "skill") = c /\ TrimBlocks(c, "project") = c
  BY <1>4, <1>5
<1> QED BY <1>2, <1>6 DEF TrimOrder

\* The guard drops no turn that fits and none of the last Keep, and ends over the limit
\* only if no other is left.
LEMMA Guarding ==
  ASSUME NEW f \in Seq(SystemMsgs), NEW u \in Seq(TurnMsgs)
  PROVE  \E c \in 0..Len(u) :
           /\ Cut(f \o u) = c /\ DropTurns(f \o u, c) = f \o SubSeq(u, c + 1, Len(u))
           /\ c # 0 => Len(u) - c >= Keep
           /\ Tokens(f \o SubSeq(u, c + 1, Len(u))) > Limit => Len(u) - c <= Keep
           /\ c # 0 => Tokens(f \o SubSeq(u, c + 1, Len(u))) + u[c].size > Limit
<1>1. PICK ms \in Seq(Msgs) : ms = f \o u
  BY InTwo
<1>2. Turns(ms) = u
  BY <1>1, TurnsAre
<1>3. PICK n \in Nat : n = Len(u)
  OBVIOUS
<1>4. n - Keep \in Int /\ Keep \in Nat
  BY KeepIs
<1>5. PICK d \in 0..n : d = Max({0, n - Keep}) /\ (d # 0 => n - d = Keep) /\ n - d <= Keep
  BY <1>4, AtLeastNone
<1> DEFINE C == {k \in 0..d : k = d \/ Tokens(ms) - Tokens(SubSeq(u, 1, k)) <= Limit}
<1>6. C \in SUBSET Nat /\ C # {} /\ Cut(ms) = Min(C)
  <2>1. d \in C /\ C \in SUBSET Nat
    OBVIOUS
  <2>2. Cut(ms) = Min(C)
    BY <1>2, <1>3, <1>5 DEF Cut
  <2> QED BY <2>1, <2>2
<1>7. PICK c \in C : Cut(ms) = c /\ \A k \in C : c <= k
  <2> HIDE DEF C
  <2> QED BY <1>6, MinIs
<1>8. c \in 0..d /\ c \in 0..n /\ c \in Nat
  OBVIOUS
<1>9. PICK w \in Seq(TurnMsgs) : w = SubSeq(u, c + 1, Len(u))
  <2>1. SubSeq(u, c + 1, Len(u)) \in Seq(TurnMsgs)
    BY <1>3, <1>8
  <2> QED BY <2>1, Zenon
<1>10. DropTurns(ms, c) = f \o w
  BY <1>1, <1>3, <1>8, <1>9, DroppedAre
<1>11. f \in Seq(Msgs) /\ u \in Seq(Msgs) /\ w \in Seq(Msgs)
  BY DEF SystemMsgs, TurnMsgs
<1>12. \A k \in 0..n : SubSeq(u, 1, k) \in Seq(Msgs) /\ Tokens(SubSeq(u, 1, k)) \in Nat
  <2>1. ASSUME NEW k \in 0..n PROVE SubSeq(u, 1, k) \in Seq(Msgs)
    BY <1>3, <1>11
  <2> QED BY <2>1, TokensType
<1>13. Tokens(f \o w) = Tokens(ms) - Tokens(SubSeq(u, 1, c))
  <2>1. Tokens(ms) = Tokens(f) + Tokens(u) /\ Tokens(f \o w) = Tokens(f) + Tokens(w)
    BY <1>1, <1>11, TokensOfTwo
  <2>2. Tokens(u) = Tokens(SubSeq(u, 1, c)) + Tokens(w)
    BY <1>3, <1>8, <1>9, <1>11, TokensOfParts
  <2>3. Tokens(f) \in Nat /\ Tokens(u) \in Nat /\ Tokens(w) \in Nat
    BY <1>11, TokensType
  <2>4. Tokens(SubSeq(u, 1, c)) \in Nat
    BY <1>8, <1>12
  <2> QED BY <2>1, <2>2, <2>3, <2>4
<1>14. Tokens(f \o w) > Limit => n - c <= Keep
  <2>1. c = d \/ Tokens(ms) - Tokens(SubSeq(u, 1, c)) <= Limit
    OBVIOUS
  <2>2. Tokens(f \o w) \in Nat /\ Limit \in Nat
    <3>1. f \o w \in Seq(Msgs)
      BY InTwo
    <3> QED BY <3>1, TokensType, LimitIs
  <2> HIDE DEF C
  <2> QED BY <1>5, <1>13, <2>1, <2>2
<1>15. ASSUME c # 0 PROVE n - c >= Keep /\ Tokens(f \o w) + u[c].size > Limit
  <2>1. d # 0 /\ n - c >= Keep
    BY <1>4, <1>5, <1>8, <1>15
  <2>2. c - 1 \in 0..d /\ c - 1 # d /\ c - 1 \notin C /\ c - 1 \in 0..n
    BY <1>7, <1>8, <1>15
  <2>3. ~ (Tokens(ms) - Tokens(SubSeq(u, 1, c - 1)) <= Limit)
    BY <2>2
  <2>4. Tokens(SubSeq(u, 1, c)) = Tokens(SubSeq(u, 1, c - 1)) + u[c].size
    <3>1. c \in 1..Len(u)
      BY <1>3, <1>8, <1>15
    <3> QED BY <1>11, <3>1, TokensOfNext
  <2>5. u[c].size \in Nat
    <3>1. u[c] \in Msgs
      BY <1>3, <1>8, <1>11, <1>15
    <3> QED BY <3>1 DEF Msgs
  <2>6. /\ Tokens(SubSeq(u, 1, c - 1)) \in Nat /\ Tokens(SubSeq(u, 1, c)) \in Nat
        /\ Tokens(ms) \in Nat /\ Limit \in Nat
    BY <1>8, <1>12, <2>2, TokensType, LimitIs
  <2>8. Tokens(f \o w) \in Nat
    <3>1. f \o w \in Seq(Msgs)
      BY InTwo
    <3> QED BY <3>1, TokensType
  <2> HIDE DEF C
  <2>9. Tokens(f \o w) + u[c].size > Limit
    <3>1. PICK left \in Nat, total \in Nat, prefix \in Nat, before \in Nat, size \in Nat, limit \in Nat :
            /\ left = Tokens(f \o w) /\ total = Tokens(ms) /\ prefix = Tokens(SubSeq(u, 1, c))
            /\ before = Tokens(SubSeq(u, 1, c - 1)) /\ size = u[c].size /\ limit = Limit
      BY <2>5, <2>6, <2>8
    <3>2. left = total - prefix /\ prefix = before + size /\ ~ (total - before <= limit)
      BY <1>13, <2>3, <2>4, <3>1
    <3>3. left + size > limit
      BY <3>2
    <3> QED BY <3>1, <3>3
  <2> QED BY <2>1, <2>9
<1>16. c \in 0..Len(u)
  BY <1>3, <1>8
<1> HIDE DEF C
<1> QED BY <1>1, <1>3, <1>7, <1>9, <1>10, <1>14, <1>15, <1>16

-----------------------------------------------------------------------------
(* The steps. *)

LEMMA PromptInvInit == PromptInit \/ PromptIdle => PromptInv
BY DEF PromptInit, PromptIdle, PromptInv, PreparedInFull

LEMMA InjectKeeps ==
  ASSUME PromptInv, NEW project \in Hits, NEW memory \in Hits, NEW skills \in Hits,
         NEW identity \in {0} \cup Sizes, Inject(project, memory, skills, identity)
  PROVE  PromptInv'
<1>1. stage = "arrived" /\ stage' = "injected" /\ request' = request /\ path' = path /\ folded' = folded
  BY DEF Inject
<1>2. request \in Requests /\ messages = request /\ folded = 0
  BY <1>1 DEF PromptInv
<1>3. PICK f \in Seq(SystemMsgs) :
        f = IdentityContext(identity) \o SkillContext(skills) \o MemoryContext(memory)
              \o ProjectContext(project)
  BY ContextsAre
<1>4. messages' = f \o request
  BY <1>2, <1>3 DEF Inject
<1> QED BY <1>1, <1>2, <1>4 DEF PromptInv, PreparedInFull

LEMMA MergeKeeps == PromptInv /\ Merge => PromptInv'
<1> SUFFICES ASSUME PromptInv, Merge PROVE PromptInv'
  OBVIOUS
<1>1. stage = "injected" /\ request' = request /\ path' = path /\ folded' = folded
  BY DEF Merge
<1>2. request \in Requests /\ folded = 0
  BY <1>1 DEF PromptInv
<1>3. PICK g \in Seq(SystemMsgs) : messages = g \o request
  BY <1>1 DEF PromptInv
<1>4. CASE path = "agentic"
  <2>1. stage' = "merged" /\ messages' = Coalesced(<<System("mode", <<>>, ModePrompt)>> \o messages)
    BY <1>4 DEF Merge
  <2>2. PICK m \in SystemMsgs : Heads(m) /\ messages' = <<m>> \o Sent
    BY <1>2, <1>3, <2>1, Merging
  <2>3. Sent' = Sent /\ SystemPlaces' = SystemPlaces
    BY <1>1 DEF Sent, SystemPlaces
  <2>4. Heads(m)'
    BY <2>2, <2>3 DEF Heads
  <2> QED BY <1>1, <1>2, <2>1, <2>2, <2>3, <2>4 DEF PromptInv, PreparedInFull
<1>5. CASE path # "agentic"
  <2>1. stage' \in {"ready", "merged"}
    BY <1>5 DEF Merge, PromptInv
  <2> QED BY <1>1, <1>2, <1>5, <2>1 DEF PromptInv, PreparedInFull
<1> QED BY <1>4, <1>5

LEMMA CompressKeeps == PromptInv /\ Compress => PromptInv'
<1> SUFFICES ASSUME PromptInv, Compress PROVE PromptInv'
  OBVIOUS
<1>1. stage = "merged" /\ stage' = "compressed" /\ request' = request /\ path' = path
  BY DEF Compress
<1>2. request \in Requests
  BY <1>1 DEF PromptInv
<1>3. CASE path # "agentic"
  BY <1>1, <1>2, <1>3 DEF PromptInv, PreparedInFull
<1>4. CASE path = "agentic"
  <2>1. folded = 0
    BY <1>1, <1>4 DEF PromptInv
  <2>2. PICK m \in SystemMsgs : Heads(m) /\ messages = <<m>> \o Sent
    BY <1>1, <1>4 DEF PromptInv
  <2>3. PICK t \in Seq(TurnMsgs) : t = Sent
    BY <1>2, SentType, Zenon
  <2>4. Sent' = t /\ SystemPlaces' = SystemPlaces
    BY <1>1, <2>3 DEF Sent, SystemPlaces
  <2>5. m.begins = "mode" /\ SystemPlaces \subseteq m.of
    BY <2>2 DEF Heads
  <2>6. SUFFICES \E f \in Seq(SystemMsgs) : FoldedInto(f)'
    BY <1>1, <1>2 DEF PromptInv, PreparedInFull
  <2>7. CASE UNCHANGED <<messages, folded>>
    <3>1. PICK f \in Seq(SystemMsgs) : f = <<m>> /\ Len(f) = 1 /\ f[1] = m
      BY OneOf
    <3>2. SubSeq(t, 1, Len(t)) = t /\ 0 \in 0..Len(t)
      BY SubSeqFull
    <3>3. messages' = f \o SubSeq(t, 0 + 1, Len(t)) /\ folded' = 0
      BY <2>1, <2>2, <2>3, <2>7, <3>1, <3>2
    <3>4. 1 \in 1..Len(f) /\ \A i \in 1..Len(f) : i = 1
      BY <3>1
    <3>5. FoldedInto(f)'
      BY <2>4, <2>5, <3>1, <3>2, <3>3, <3>4 DEF FoldedInto
    <3> QED BY <3>5
  <2>8. CASE ~ UNCHANGED <<messages, folded>>
    <3> DEFINE middle == MiddleOf(messages)
               of == UNION {middle[i].of : i \in DOMAIN middle}
    <3>1. PICK size \in Sizes :
            /\ messages' = HeadOf(messages) \o <<Message("system", "summary", of, size, <<>>)>>
                             \o TailOf(messages)
            /\ folded' = Len(middle)
      BY <2>8 DEF Compress
    <3>2. Len(middle) >= 2
      BY <2>8 DEF Compress, Compressible
    <3>3. HeadOf(messages) = <<m>>
      BY <2>2, <2>3, <2>5, Splitting
    <3>4. PICK k \in 2..Len(t) :
            /\ Len(t) - k = Keep /\ Len(middle) = k
            /\ middle = SubSeq(t, 1, k) /\ TailOf(messages) = SubSeq(t, k + 1, Len(t))
      <4>1. messages = <<m>> \o t
        BY <2>2, <2>3
      <4> QED BY <2>5, <3>2, <4>1, Folding, Zenon
    <3>5. \A i \in 1..k : middle[i] = t[i] /\ t[i] \in TurnMsgs
      BY <3>4
    <3>6. DOMAIN middle = 1..k
      BY <3>4
    <3>7. of \in SUBSET Nat /\ \A i \in 1..k : t[i].of \subseteq of
      <4>1. \A i \in 1..k : t[i].of \in SUBSET Nat
        BY <3>5 DEF TurnMsgs, Msgs
      <4> QED BY <3>5, <3>6, <4>1
    <3> HIDE DEF of
    <3>8. PICK s \in SystemMsgs : s = Message("system", "summary", of, size, <<>>)
      <4>1. size \in Nat /\ <<>> \in Seq(Nat)
        BY PromptAssumption
      <4>2. Message("system", "summary", of, size, <<>>) \in SystemMsgs
        BY <3>7, <4>1, Ours
      <4> QED BY <4>2
    <3>9. IsSummary(s) /\ s.begins = "summary" /\ s.of = of
      BY <3>8 DEF IsSummary, IsSystem, Message
    <3>10. PICK f \in Seq(SystemMsgs) : f = <<m>> \o <<s>> /\ Len(f) = 2 /\ f[1] = m /\ f[2] = s
      <4>1. <<m, s>> \in Seq(SystemMsgs) /\ <<m, s>> = <<m>> \o <<s>>
        OBVIOUS
      <4> QED BY <4>1
    <3>11. messages' = f \o SubSeq(t, k + 1, Len(t)) /\ folded' = k
      BY <3>1, <3>3, <3>4, <3>8, <3>10
    <3>12. k \in 0..Len(t) /\ 1 \in 1..Len(f) /\ 2 \in 1..Len(f) /\ \A i \in 1..Len(f) : i \in {1, 2}
      BY <3>10
    <3> HIDE DEF middle
    <3>13. \A i \in 1..Len(f) : f[i].begins \in {"mode", "summary"}
      BY <2>5, <3>9, <3>10, <3>12
    <3>14. \E i \in 1..Len(f) : SystemPlaces \subseteq f[i].of
      BY <2>5, <3>10, <3>12
    <3>15. \E j \in 1..Len(f) : IsSummary(f[j]) /\ \A i \in 1..k : t[i].of \subseteq f[j].of
      BY <3>7, <3>9, <3>10, <3>12
    <3>16. k \in 0..Len(t) /\ Len(t) - k = Keep
      BY <3>4, <3>12
    <3>17. FoldedInto(f)'
      BY <2>4, <3>11, <3>13, <3>14, <3>15, <3>16 DEF FoldedInto
    <3> QED BY <3>17
  <2> QED BY <2>7, <2>8
<1> QED BY <1>3, <1>4

LEMMA GuardKeeps == PromptInv /\ Guard => PromptInv'
<1> SUFFICES ASSUME PromptInv, Guard PROVE PromptInv'
  OBVIOUS
<1>1. stage = "compressed" /\ stage' = "ready" /\ request' = request /\ path' = path /\ folded' = folded
  BY DEF Guard
<1>2. request \in Requests
  BY <1>1 DEF PromptInv
<1>3. CASE path # "agentic"
  BY <1>1, <1>2, <1>3 DEF PromptInv, PreparedInFull
<1>4. CASE path = "agentic"
  <2>1. PICK f \in Seq(SystemMsgs) : FoldedInto(f)
    BY <1>1, <1>4 DEF PromptInv
  <2>2. PICK t \in Seq(TurnMsgs) : t = Sent
    BY <1>2, SentType, Zenon
  <2>3. PICK n \in Nat : n = Len(t)
    OBVIOUS
  <2>4. /\ folded \in 0..n /\ messages = f \o SubSeq(t, folded + 1, Len(t))
        /\ folded # 0 => n - folded = Keep
        /\ \A i \in 1..Len(f) : f[i].begins \in {"mode", "summary"}
    BY <2>1, <2>2, <2>3 DEF FoldedInto
  <2>5. PICK u \in Seq(TurnMsgs) : u = SubSeq(t, folded + 1, Len(t))
    <3>1. SubSeq(t, folded + 1, Len(t)) \in Seq(TurnMsgs)
      BY <2>3, <2>4
    <3> QED BY <3>1, Zenon
  <2>6. Len(u) = n - folded /\ \A i \in 1..(n - folded) : u[i] = t[folded + i]
    BY <2>3, <2>4, <2>5
  <2>7. TrimOrder(messages) = messages
    BY <2>4, <2>5, NothingInjected
  <2>8. PICK c \in 0..Len(u) :
          /\ Cut(f \o u) = c /\ DropTurns(f \o u, c) = f \o SubSeq(u, c + 1, Len(u))
          /\ c # 0 => Len(u) - c >= Keep
          /\ Tokens(f \o SubSeq(u, c + 1, Len(u))) > Limit => Len(u) - c <= Keep
          /\ c # 0 => Tokens(f \o SubSeq(u, c + 1, Len(u))) + u[c].size > Limit
    BY Guarding
  <2>9. messages' = f \o SubSeq(u, c + 1, Len(u)) /\ trimmed' = c
    BY <2>4, <2>5, <2>7, <2>8 DEF Guard
  <2>10. PICK w \in Seq(TurnMsgs) : w = SubSeq(u, c + 1, Len(u))
    <3>1. SubSeq(u, c + 1, Len(u)) \in Seq(TurnMsgs)
      OBVIOUS
    <3> QED BY <3>1, Zenon
  <2>11. c \in Nat /\ folded \in Nat /\ c <= n - folded
    BY <2>4, <2>6, <2>8
  <2>12. Len(w) = n - (folded + c) /\ \A i \in 1..Len(w) : w[i] = t[folded + c + i]
    <3>1. Len(w) = Len(u) - c /\ \A i \in 1..Len(w) : w[i] = u[c + i]
      BY <2>10, <2>11
    <3>2. PICK m \in Nat : m = n - (folded + c) /\ m = Len(w)
      BY <2>6, <2>11, <3>1
    <3>3. ASSUME NEW i \in 1..m PROVE w[i] = t[folded + c + i]
      <4>1. w[i] = u[c + i]
        BY <3>1, <3>2
      <4>2. c + i \in 1..(n - folded) /\ folded + (c + i) = folded + c + i
        BY <2>11, <3>2
      <4>3. u[c + i] = t[folded + (c + i)]
        BY <2>6, <4>2
      <4> QED BY <4>1, <4>2, <4>3
    <3> QED BY <3>2, <3>3
  <2>13. Turns(messages') = w
    BY <2>9, <2>10, TurnsAre
  <2>14. Turns(request') = t /\ Turns(messages)' = w
    BY <1>1, <2>2, <2>13 DEF Sent
  <2>15. Len(t) - Len(w) = folded + c
    BY <2>3, <2>11, <2>12
  <2>16. w = SubSeq(t, folded + c + 1, Len(t))
    <3>1. PICK k \in 0..n : k = folded + c
      BY <2>11
    <3>2. /\ SubSeq(t, k + 1, Len(t)) \in Seq(TurnMsgs) /\ Len(SubSeq(t, k + 1, Len(t))) = n - k
          /\ \A i \in 1..(n - k) : SubSeq(t, k + 1, Len(t))[i] = t[k + i]
      BY <2>3
    <3>3. PICK v \in Seq(TurnMsgs) : v = SubSeq(t, k + 1, Len(t))
      BY <3>2, Zenon
    <3>4. Len(v) = Len(w) /\ \A i \in 1..Len(w) : v[i] = w[i]
      BY <2>12, <3>1, <3>2, <3>3
    <3>5. v = w
      <4>1. /\ v = [i \in 1..Len(v) |-> v[i]] /\ w = [i \in 1..Len(w) |-> w[i]]
        OBVIOUS
      <4> QED BY <3>4, <4>1
    <3> QED BY <3>1, <3>3, <3>5
  <2>17. Len(w) >= Min({Keep, Len(t)})
    <3>1. Keep \in Nat
      BY KeepIs
    <3>2. Min({Keep, n}) \in Nat /\ Min({Keep, n}) <= Keep /\ Min({Keep, n}) <= n
      BY <3>1, LesserOf
    <3>3. CASE folded = 0 /\ c = 0
      BY <2>3, <2>12, <3>2, <3>3
    <3>4. CASE c # 0
      BY <2>3, <2>6, <2>8, <2>11, <2>12, <3>1, <3>2, <3>4
    <3>5. CASE folded # 0 /\ c = 0
      BY <2>3, <2>4, <2>11, <2>12, <3>1, <3>2, <3>5
    <3> QED BY <3>3, <3>4, <3>5
  <2>18. /\ DOMAIN messages' = 1..(Len(f) + Len(w))
         /\ \A i \in 1..Len(f) : i \in DOMAIN messages' /\ messages'[i] = f[i]
    <3>1. /\ f \o w \in Seq(Msgs) /\ Len(f \o w) = Len(f) + Len(w)
          /\ \A i \in 1..Len(f) : (f \o w)[i] = f[i]
      BY InTwo
    <3>2. PICK ms \in Seq(Msgs) : ms = f \o w
      BY <3>1, Zenon
    <3>3. DOMAIN ms = 1..(Len(f) + Len(w)) /\ \A i \in 1..Len(f) : i \in DOMAIN ms /\ ms[i] = f[i]
      BY <3>1, <3>2
    <3> QED BY <2>9, <2>10, <3>2, <3>3
  <2>19. {i \in DOMAIN request' : IsSystem(request'[i])}
           \subseteq UNION {messages'[i].of : i \in DOMAIN messages'}
    <3>1. PICK i \in 1..Len(f) : SystemPlaces \subseteq f[i].of
      BY <2>1 DEF FoldedInto
    <3>2. i \in DOMAIN messages' /\ SystemPlaces \subseteq messages'[i].of
      BY <2>18, <3>1
    <3> QED BY <1>1, <3>2 DEF SystemPlaces
  <2> DEFINE inSummary ==
        UNION {messages'[i].of : i \in {j \in DOMAIN messages' : IsSummary(messages'[j])}}
  <2>20. folded # 0 => \A i \in 1..folded : t[i].of \subseteq inSummary
    <3> SUFFICES ASSUME folded # 0 PROVE \A i \in 1..folded : t[i].of \subseteq inSummary
      OBVIOUS
    <3>1. PICK j \in 1..Len(f) : IsSummary(f[j]) /\ \A i \in 1..folded : t[i].of \subseteq f[j].of
      BY <2>1, <2>2 DEF FoldedInto
    <3>2. j \in DOMAIN messages' /\ messages'[j] = f[j] /\ IsSummary(messages'[j])
      BY <2>18, <3>1
    <3> QED BY <3>1, <3>2
  <2>21. Tokens(messages') > Limit => Len(w) <= Keep
    BY <2>6, <2>8, <2>9, <2>11, <2>12
  <2>22. c # 0 => Tokens(messages') + t[folded + c].size > Limit
    <3>1. c # 0 => u[c] = t[folded + c]
      BY <2>6, <2>11
    <3> QED BY <2>8, <2>9, <3>1
  <2> HIDE DEF inSummary
  <2>23. PreparedInFull'
    <3>1. Turns(messages') = SubSeq(Turns(request'), Len(Turns(request')) - Len(Turns(messages')) + 1,
                                    Len(Turns(request')))
      BY <2>13, <2>14, <2>15, <2>16
    <3>2. Len(Turns(request')) - Len(Turns(messages')) = folded' + trimmed'
      BY <1>1, <2>9, <2>13, <2>14, <2>15
    <3>3. folded' > 0 => \A i \in 1..folded' : Turns(request')[i].of \subseteq inSummary
      BY <1>1, <2>11, <2>14, <2>20
    <3>4. Tokens(messages') > Limit => Len(Turns(messages')) <= Keep
      BY <2>13, <2>21
    <3>5. trimmed' > 0 => Tokens(messages') + Turns(request')[folded' + trimmed'].size > Limit
      BY <1>1, <2>9, <2>11, <2>14, <2>22
    <3>6. Len(Turns(messages')) >= Min({Keep, Len(Turns(request'))})
      BY <2>13, <2>14, <2>17
    <3> QED BY <2>19, <3>1, <3>2, <3>3, <3>4, <3>5, <3>6 DEF PreparedInFull, inSummary
  <2> QED BY <1>1, <1>2, <2>23 DEF PromptInv
<1> QED BY <1>3, <1>4

LEMMA PromptInvStep == PromptInv /\ [PromptStep]_promptVars => PromptInv'
<1> SUFFICES ASSUME PromptInv, [PromptStep]_promptVars PROVE PromptInv'
  OBVIOUS
<1>1. CASE \E project, memory, skills \in Hits, identity \in {0} \cup Sizes :
             Inject(project, memory, skills, identity)
  BY <1>1, InjectKeeps
<1>2. CASE Refuse
  BY <1>2 DEF Refuse, PromptInv, PreparedInFull
<1>3. CASE Merge
  BY <1>3, MergeKeeps
<1>4. CASE Compress
  BY <1>4, CompressKeeps
<1>5. CASE Guard
  BY <1>5, GuardKeeps
<1>6. CASE Round
  <2>1. stage \in {"ready", "looping"} /\ stage' = "looping" /\ request' = request /\ path' = path
    BY <1>6 DEF Round
  <2> QED BY <2>1 DEF PromptInv, PreparedInFull
<1>7. CASE Answer
  <2>1. stage \in {"ready", "looping"} /\ stage' = "answered" /\ request' = request /\ path' = path
    BY <1>7 DEF Answer
  <2> QED BY <2>1 DEF PromptInv, PreparedInFull
<1>8. CASE UNCHANGED promptVars
  <2>1. PreparedInFull'
    BY <1>8 DEF promptVars, PromptInv, PreparedInFull
  <2> QED BY <1>8, <2>1 DEF promptVars, PromptInv, FoldedInto, Heads, Sent, SystemPlaces
<1> QED BY <1>1, <1>2, <1>3, <1>4, <1>5, <1>6, <1>7, <1>8 DEF PromptStep

\* What an agentic run starts with has the last turns, tells of those it has not, keeps
\* what the client's system message said and is over the limit only if no turn may go
\* (_prepare_loop, compress, enforce_context_budget), for any context, sizes of messages,
\* findings, length of the conversation and summaries.
THEOREM PromptsAreWhole == Spec => []PreparedInFull
<1>1. Init => PromptInv
  BY PromptInvInit DEF Init
<1>2. PromptInv /\ [Next]_vars => PromptInv'
  <2> SUFFICES ASSUME PromptInv, [Next]_vars PROVE PromptInv'
    OBVIOUS
  <2>1. [PromptStep]_promptVars
    BY DEF Next, vars
  <2> QED BY <2>1, PromptInvStep
<1>3. PromptInv => PreparedInFull
  BY DEF PromptInv
<1> QED BY <1>1, <1>2, <1>3, PTL DEF Spec

=============================================================================

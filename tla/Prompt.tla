------------------------------- MODULE Prompt -------------------------------
(***************************************************************************)
(* What a chat request becomes before and while a model works on it: the   *)
(* injected context (routers/chat.py), the system messages folded into     *)
(* one, the compression of old turns (memory/compression.py), the overflow *)
(* guard (memory/injection.py), and the messages the agent loop adds.      *)
(* Sizes are the program's estimates, in tokens; what joins two messages   *)
(* and what a header adds is neglected.                                    *)
(***************************************************************************)
EXTENDS Integers, Sequences, FiniteSets, SequencesExt

CONSTANTS
  Ctx,        \* context of the slot
  Sizes,      \* of a message
  Hits,       \* what a search finds: sequences of sizes, best first
  ModePrompt, \* size of the system prompt of the mode
  MaxHistory, \* bound on the client's messages
  MaxRounds   \* rounds of tool calls: effort's ceiling

ASSUME PromptAssumption ==
  /\ Ctx \in Nat /\ Sizes \subseteq Nat \ {0} /\ Hits \subseteq Seq(Nat \ {0}) /\ <<>> \in Hits
  /\ {ModePrompt, MaxHistory, MaxRounds} \subseteq Nat

VARIABLES
  request,  \* what the client sent, as it stays
  path,     \* "agentic"; "passthrough": the client has its tools; "external": a provider
  stage,    \* "idle", "arrived", "injected", "merged", "compressed", "ready", "looping", "answered", "refused"
  messages, \* what it has become
  folded,   \* messages the compression event tells of
  trimmed,  \* messages the context_trimmed notice tells of
  rounds    \* completions that called tools

promptVars == <<request, path, stage, messages, folded, trimmed, rounds>>

\* begins: what the content begins with; of: the client's messages that are in it or
\* that it stands for; blocks: sizes of its delimited blocks.
Message(role, begins, of, size, blocks) ==
  [role |-> role, begins |-> begins, of |-> of, size |-> size, blocks |-> blocks]

\* A system message the server adds.
System(kind, blocks, size) == Message("system", kind, {}, size, blocks)

Sum(sizes) == FoldLeft(LAMBDA acc, x : acc + x, 0, sizes)
Tokens(ms) == Sum([i \in DOMAIN ms |-> ms[i].size])
IsSystem(m) == m.role = "system"
IsTurn(m) == m.role # "system"

\* The messages at some places, in their order.
At(ms, places) ==
  [k \in 1..Cardinality(places) |->
     ms[CHOOSE i \in places : Cardinality({j \in places : j <= i}) = k]]
Systems(ms) == At(ms, {i \in DOMAIN ms : IsSystem(ms[i])})
Turns(ms) == At(ms, {i \in DOMAIN ms : IsTurn(ms[i])})
-----------------------------------------------------------------------------
(* Injection: each kind is put in front of what is there. *)

\* The first block is cut to the budget; others follow while they fit.
Blocks(hits, budget) ==
  LET cut == [i \in DOMAIN hits |-> IF i = 1 /\ hits[1] > budget THEN budget ELSE hits[i]]
      fitting == {n \in DOMAIN hits : n = 1 \/ Sum(SubSeq(cut, 1, n)) <= budget}
  IN SubSeq(cut, 1, IF fitting = {} THEN 0 ELSE Max(fitting))

\* Nothing is injected where nothing was found.
Injected(kind, hits, percent) ==
  LET blocks == Blocks(hits, (Ctx * percent) \div 100)
  IN IF hits = <<>> THEN <<>> ELSE <<System(kind, blocks, Sum(blocks))>>

\* No such model, or a slot without vision or not ready: nothing is made of the
\* request.
Refuse ==
  /\ stage = "arrived"
  /\ stage' = "refused"
  /\ UNCHANGED <<request, path, messages, folded, trimmed, rounds>>

IdentityContext(size) == IF size = 0 THEN <<>> ELSE <<System("identity", <<>>, size)>>
MemoryContext(hits) == Injected("memory", hits, 5)
ProjectContext(hits) == Injected("project", hits, 10)

\* Two skills at the most, the verified first.
SkillHits(hits) == SubSeq(hits, 1, Min({2, Len(hits)}))
SkillContext(hits) == IF path # "agentic" THEN <<>> ELSE Injected("skill", SkillHits(hits), 8)

Inject(project, memory, skills, identity) ==
  /\ stage = "arrived"
  /\ stage' = "injected"
  /\ messages' = IdentityContext(identity) \o SkillContext(skills) \o MemoryContext(memory)
                   \o ProjectContext(project) \o messages
  /\ UNCHANGED <<request, path, folded, trimmed, rounds>>

\* coalesce_system_messages
Coalesced(ms) ==
  LET systems == Systems(ms)
      leading == IF ms # <<>> /\ IsSystem(ms[1]) THEN 1 ELSE 0
  IN IF Len(systems) = leading THEN ms
     ELSE <<Message("system", systems[1].begins, UNION {systems[i].of : i \in DOMAIN systems},
                    Tokens(systems), <<>>)>>
            \o Turns(ms)

\* What a provider gets, and the slot of a pass-through request.
External(ms) == ms
PassedThrough(ms) == Coalesced(ms)

\* An agentic run has its mode's prompt in front.
Merge ==
  /\ stage = "injected"
  /\ CASE path = "external" -> stage' = "ready" /\ messages' = External(messages)
       [] path = "passthrough" -> stage' = "ready" /\ messages' = PassedThrough(messages)
       [] path = "agentic" ->
            /\ stage' = "merged"
            /\ messages' = Coalesced(<<System("mode", <<>>, ModePrompt)>> \o messages)
  /\ UNCHANGED <<request, path, folded, trimmed, rounds>>
-----------------------------------------------------------------------------
(* Compression. *)

\* keep_recent_messages
Keep == IF Ctx >= 32768 THEN 8 ELSE IF Ctx >= 16384 THEN 6 ELSE 4

IsSummary(m) == IsSystem(m) /\ m.begins = "summary"

\* _split: the leading system messages but a summary; what may be folded; the tail.
HeadOf(ms) ==
  LET ends == {i \in 0..Len(ms) : \A j \in 1..i : IsSystem(ms[j]) /\ ~IsSummary(ms[j])}
  IN SubSeq(ms, 1, Max(ends))
BodyOf(ms) == SubSeq(ms, Len(HeadOf(ms)) + 1, Len(ms))
MiddleOf(ms) == SubSeq(BodyOf(ms), 1, Max({0, Len(BodyOf(ms)) - Keep}))
TailOf(ms) == SubSeq(BodyOf(ms), Len(MiddleOf(ms)) + 1, Len(BodyOf(ms)))

Compressible(ms) == Tokens(ms) * 10 >= Ctx * 7 /\ Len(MiddleOf(ms)) >= 2

\* Nothing to do, no utility slot, switched off, or a summarizer that failed; or the
\* middle replaced by a summary of any size.
Compress ==
  /\ stage = "merged"
  /\ stage' = "compressed"
  /\ \/ UNCHANGED <<messages, folded>>
     \/ /\ Compressible(messages)
        /\ LET middle == MiddleOf(messages)
               of == UNION {middle[i].of : i \in DOMAIN middle}
           IN \E size \in Sizes :
                /\ messages' = HeadOf(messages) \o <<Message("system", "summary", of, size, <<>>)>>
                                 \o TailOf(messages)
                /\ folded' = Len(middle)
  /\ UNCHANGED <<request, path, trimmed, rounds>>
-----------------------------------------------------------------------------
(* The overflow guard. *)

Limit == (Ctx * 9) \div 10

\* _injected_header: by what the content begins with.
InjectedAs(ms, kind) == {i \in DOMAIN ms : IsSystem(ms[i]) /\ ms[i].begins = kind}

\* The last blocks of an injection go until the limit is met; with the last of them
\* the message.
BlocksPopped(ms, i) ==
  LET left(n) == Sum(SubSeq(ms[i].blocks, 1, n))
      enough == {n \in DOMAIN ms[i].blocks : Tokens(ms) - ms[i].size + left(n) <= Limit}
  IN IF enough = {} THEN RemoveAt(ms, i)
     ELSE [ms EXCEPT ![i].blocks = SubSeq(@, 1, Max(enough)), ![i].size = left(Max(enough))]

TrimBlocks(ms, kind) ==
  IF InjectedAs(ms, kind) = {} \/ Tokens(ms) <= Limit THEN ms
  ELSE BlocksPopped(ms, Min(InjectedAs(ms, kind)))

\* The least important injection first.
TrimOrder(ms) == TrimBlocks(TrimBlocks(TrimBlocks(ms, "memory"), "skill"), "project")

\* Mutant: once over the limit, all that may be dropped is dropped.
CutAll(ms) == IF Tokens(ms) <= Limit THEN 0 ELSE Max({0, Len(Turns(ms)) - Keep})

\* How many of the oldest turns go: while the limit is not met, and but the last Keep.
Cut(ms) ==
  LET turns == Turns(ms)
      droppable == Max({0, Len(turns) - Keep})
  IN Min({n \in 0..droppable : n = droppable \/ Tokens(ms) - Tokens(SubSeq(turns, 1, n)) <= Limit})

DropTurns(ms, n) ==
  At(ms, {i \in DOMAIN ms : IsTurn(ms[i]) => Cardinality({j \in 1..i : IsTurn(ms[j])}) > n})

\* enforce_context_budget
Guard ==
  /\ stage = "compressed"
  /\ stage' = "ready"
  /\ LET left == TrimOrder(messages)
         cut == Cut(left)
     IN messages' = DropTurns(left, cut) /\ trimmed' = cut
  /\ UNCHANGED <<request, path, folded, rounds>>
-----------------------------------------------------------------------------
(* The run: what each completion gets is what was prepared and what was added. *)

\* A completion with a call, and the tool's result.
Round ==
  /\ stage \in {"ready", "looping"} /\ path = "agentic" /\ rounds < MaxRounds
  /\ stage' = "looping"
  /\ rounds' = rounds + 1
  /\ \E size \in Sizes :
       messages' = messages \o <<Message("assistant", "call", {}, size, <<>>),
                                 Message("tool", "result", {}, size, <<>>)>>
                     \o (IF rounds' = MaxRounds THEN <<System("ceiling", <<>>, 0)>> ELSE <<>>)
  /\ UNCHANGED <<request, path, folded, trimmed>>

Answer ==
  /\ stage \in {"ready", "looping"}
  /\ stage' = "answered"
  /\ UNCHANGED <<request, path, messages, folded, trimmed, rounds>>

\* A conversation, after a system message of the client's or none.
Conversation(sizes, led) ==
  [i \in DOMAIN sizes |->
     Message(IF led /\ i = 1 THEN "system" ELSE IF i % 2 = 1 THEN "user" ELSE "assistant",
             "client", {i}, sizes[i], <<>>)]
Requests ==
  {Conversation(sizes, led) : sizes \in UNION {[1..n -> Sizes] : n \in 1..MaxHistory}, led \in BOOLEAN}

PromptInit ==
  /\ request \in Requests
  /\ path \in {"agentic", "passthrough", "external"}
  /\ stage = "arrived"
  /\ messages = request
  /\ folded = 0 /\ trimmed = 0 /\ rounds = 0

PromptIdle ==
  /\ request = <<>> /\ path = "agentic" /\ stage = "idle" /\ messages = <<>>
  /\ folded = 0 /\ trimmed = 0 /\ rounds = 0

PromptStep ==
  \/ \E project, memory, skills \in Hits, identity \in {0} \cup Sizes :
       Inject(project, memory, skills, identity)
  \/ Refuse \/ Merge \/ Compress \/ Guard \/ Round \/ Answer
-----------------------------------------------------------------------------
\* What an agentic run starts with: of the client's turns the last Keep, verbatim; the
\* older ones verbatim and in order too, but for those in the summary the client is
\* told of and those the guard dropped and told of; everything the client's system
\* message said. It is over the limit only if nothing droppable is left, and no turn
\* was dropped without need. Whatever was injected, however large the history is, and
\* whether the summarizer works ("llama-server is never handed an over-context request
\* silently", docs/memory.md:273).
PreparedInFull ==
  stage = "ready" /\ path = "agentic" =>
    LET turns == Turns(messages)
        sent == Turns(request)
        missing == Len(sent) - Len(turns)
        inSummary == UNION {messages[i].of : i \in {j \in DOMAIN messages : IsSummary(messages[j])}}
    IN /\ turns = SubSeq(sent, missing + 1, Len(sent))
       /\ Len(turns) >= Min({Keep, Len(sent)})
       /\ missing = folded + trimmed
       /\ {i \in DOMAIN request : IsSystem(request[i])}
            \subseteq UNION {messages[i].of : i \in DOMAIN messages}
       /\ folded > 0 => \A i \in 1..folded : sent[i].of \subseteq inSummary
       /\ Tokens(messages) > Limit => Len(turns) <= Keep
       /\ trimmed > 0 => Tokens(messages) + sent[missing].size > Limit

\* Whatever reaches the slot has its system message first and no other ("a second
\* system message or a system message after a user turn 400s", routers/chat.py:354).
TemplateAccepts ==
  stage \in {"ready", "looping"} /\ path # "external" =>
    \A i \in DOMAIN messages : IsSystem(messages[i]) => i = 1

=============================================================================

------------------------------ MODULE Archive ------------------------------
(***************************************************************************)
(* The session archive and what follows an exchange: clients that resend   *)
(* their history, the Telegram relay's window, the seven ways a turn runs  *)
(* and is recorded (routers/chat.py), background titling and reflection,   *)
(* the verification of skills, deletes and crashes. A message is its role  *)
(* and its turn. Turns of one session may overlap: the slot gate, which    *)
(* serialises only those of one slot, is left out.                         *)
(***************************************************************************)
EXTENDS Projects, Sequences, SequencesExt

CONSTANTS
  Chats,       \* the sessions that are Telegram chats
  MaxTurns,    \* bound on turns
  Window,      \* the relay's HISTORY_LIMIT
  Skills,      \* skill names
  MaxEditions, \* bound on the texts ever written to skills
  MaxTracked,  \* MAX_TRACKED_SESSIONS of the reflection counter
  Budgets      \* for each run of the model, how many of which event it may have

ASSUME ArchiveAssumption ==
  /\ Chats \subseteq Sessions /\ None \notin Nat
  /\ MaxTurns \in Nat /\ Window \in Nat \ {0} /\ MaxEditions \in Nat /\ MaxTracked \in Nat
  /\ \A b \in Budgets : /\ b.paths \subseteq {"json", "tools", "rich", "openai", "proxy",
                                               "external", "external_stream", "internal"}
                        /\ {b.turns, b.leaves, b.drops, b.deletes, b.edits, b.skills, b.crashes,
                             b.titles, b.counts, b.projects}
                             \subseteq Nat

Turns == 1..MaxTurns
Message == [role : {"user", "tool", "assistant"}, turn : Turns]

VARIABLES
  session,   \* the titles of the sessions there are: Untitled or the titler's turn
  rows,      \* messages of each session, in the order of their ids
  skill,     \* each skill's text and its verified flag
  edition,   \* texts written so far
  turn,      \* each request
  titler,    \* the titling task a turn scheduled
  reflector, \* the session its reflection task is about
  counts,    \* _EXCHANGE_COUNTS, oldest first
  held,      \* the history each client resends; for a chat, the relay's deque
  left,      \* what remains of the budget
  mixed,     \* history: sessions two of whose turns overlapped
  rivals,    \* history: the titlers that were at work when the title was set
  proven     \* history: texts of skills that a successful run had injected

archiveVars == <<session, rows, skill, edition, turn, titler, reflector, counts,
                 held, left, mixed, rivals, proven>>
vars == <<memoryVars, projectVars, archiveVars>>

Untitled == 0
Titled(s) == session[s] \notin {None, Untitled}

\* The paths that run the agent loop, and those the orchestrator answers.
Agentic == {"json", "rich", "openai", "internal"}
Local == Agentic \cup {"tools", "proxy"}
\* Runs that end with their client: their generator or task is cancelled.
Watched == Local \ {"internal"}
\* Streams whose last chunk the client has before the exchange is recorded.
AnsweredFirst == {"openai", "external_stream"}

Unused == [pc |-> "unused", session |-> None, project |-> None, path |-> None, request |-> <<>>,
            injected |-> {}, outcome |-> None, client |-> "none"]

ArchiveInit ==
  /\ MemoryInit /\ ProjectsInit
  /\ session = [s \in Sessions |-> None]
  /\ rows = [s \in Sessions |-> <<>>]
  /\ skill = [k \in Skills |-> [text |-> 0, verified |-> FALSE]]
  /\ edition = 0
  /\ turn = [t \in Turns |-> Unused]
  /\ titler = [t \in Turns |-> None]
  /\ reflector = [t \in Turns |-> None]
  /\ counts = <<>>
  /\ held = [s \in Sessions |-> <<>>]
  /\ left \in Budgets
  /\ mixed = {}
  /\ rivals = [s \in Sessions |-> {}]
  /\ proven = {}

Spend(what) == left[what] > 0 /\ left' = [left EXCEPT ![what] = @ - 1]
-----------------------------------------------------------------------------
(* The clients. *)

\* deque(maxlen): a full window loses its oldest message.
Push(s, h, m) == IF s \in Chats /\ Len(h) = Window THEN Append(Tail(h), m) ELSE Append(h, m)

\* Mutant: the relay leaves the message of the failed turn in its window.
ForgottenNot(s, h) == h

\* A client that got no answer forgets the turn: the relay pops its last
\* message; the other clients have not added theirs.
Forgotten(s, h) == IF s \in Chats THEN Front(h) ELSE h

Answered(t) == [role |-> "assistant", turn |-> t]
Asked(t) == [role |-> "user", turn |-> t]

Waiting(s) == {t \in Turns : turn[t].session = s /\ turn[t].client = "waiting"}
Unrecorded(s) == {t \in Turns : turn[t].session = s /\ turn[t].pc \in {"running", "answered"}}

\* A request is accepted: its project is there, the matching skills injected.
\* A client waits for its answer before it asks again, or gives up. A scheduled
\* run has no client and sends its prompt alone.
Begin(t, s, path, p) ==
  /\ turn[t].pc = "unused" /\ \A u \in Turns : u < t => turn[u].pc # "unused"
  /\ path \in left.paths
  /\ s \in Chats => path = "json" /\ p = None
  /\ p \in Nameable
  /\ path # "internal" => Waiting(s) = {}
  /\ Spend("turns")
  /\ LET sent == IF path = "internal" THEN <<Asked(t)>> ELSE Push(s, held[s], Asked(t))
     IN /\ turn' = [turn EXCEPT ![t] =
             [pc |-> "running", session |-> s, project |-> p, path |-> path, request |-> sent,
              outcome |-> None,
              injected |-> IF path \in Agentic
                           THEN {<<k, skill[k].text>> : k \in {x \in Skills : skill[x].text # 0}}
                           ELSE {},
              client |-> IF path = "internal" THEN "none" ELSE "waiting"]]
        /\ held' = IF s \in Chats THEN [held EXCEPT ![s] = sent] ELSE held
  /\ mixed' = IF Unrecorded(s) = {} THEN mixed ELSE mixed \cup {s}
  /\ UNCHANGED <<memoryVars, projectVars, session, rows, skill, edition, titler, reflector,
                 counts, rivals, proven>>
-----------------------------------------------------------------------------
(* Recording. *)

\* Mutant: the request's last assistant message is taken for a new one.
NewMessagesFromLast(s, request) ==
  IF rows[s] = <<>> THEN request
  ELSE LET last == SelectLastInSeq(request, LAMBDA m : m.role = "assistant")
       IN SubSeq(request, IF last = 0 THEN 1 ELSE last, Len(request))

\* _new_request_messages: everything on a fresh session, otherwise what follows
\* the last assistant message of the request.
NewMessages(s, request) ==
  IF rows[s] = <<>> THEN request
  ELSE SubSeq(request, SelectLastInSeq(request, LAMBDA m : m.role = "assistant") + 1,
              Len(request))

\* What a run leaves to record: tool results and, unless it is empty, its text.
Output(t, outcome) ==
  (IF turn[t].path \in Agentic /\ outcome # "empty" THEN <<[role |-> "tool", turn |-> t]>>
   ELSE <<>>) \o (IF outcome = "stop" THEN <<Answered(t)>> ELSE <<>>)

\* ensure_session: a new row has no title.
Ensured(s) == IF session[s] = None THEN Untitled ELSE session[s]

\* add_message drops a row whose write finds the database locked for too long.
Archived(t, outcome, dropped) ==
  LET new == NewMessages(turn[t].session, turn[t].request) \o Output(t, outcome)
  IN rows[turn[t].session] \o
       [i \in 1..(Len(new) - Cardinality(dropped)) |->
          new[CHOOSE j \in 1..Len(new) \ dropped : Cardinality((1..j) \ dropped) = i]]

\* _mark_skills_verified: the names injected, whatever their text is by now.
Verified(t, outcome) ==
  [k \in Skills |->
     [skill[k] EXCEPT !.verified =
        @ \/ (outcome # "error" /\ skill[k].text # 0 /\ \E x \in turn[t].injected : x[1] = k)]]

\* should_reflect: counts the exchange; a session past the bound is forgotten,
\* the least recently counted first.
Count(s) ==
  LET at == SelectInSeq(counts, LAMBDA c : c.session = s)
  IN IF at = 0 THEN 1 ELSE counts[at].count + 1
Counted(s) ==
  LET all == Append(SelectSeq(counts, LAMBDA c : c.session # s),
                    [session |-> s, count |-> Count(s)])
  IN IF Len(all) > MaxTracked THEN Tail(all) ELSE all

\* _record_exchange and what is scheduled after it. ready: a utility slot is;
\* writer: the turn ran on the orchestrator, in chat or code mode.
Record(t, outcome, dropped, ready, writer) ==
  LET s == turn[t].session IN
  /\ rows' = [rows EXCEPT ![s] = Archived(t, outcome, dropped)]
  /\ session' = [session EXCEPT ![s] = Ensured(s)]
  /\ left' = [left EXCEPT !.drops = @ - Cardinality(dropped),
                          !.titles = @ - (IF ready THEN 1 ELSE 0),
                          !.counts = @ - (IF writer THEN 1 ELSE 0)]
  /\ skill' = IF turn[t].path \in Agentic THEN Verified(t, outcome) ELSE skill
  /\ proven' = IF outcome = "error" THEN proven ELSE proven \cup turn[t].injected
  /\ titler' = [titler EXCEPT ![t] = IF ready THEN [session |-> s, at |-> "scheduled"] ELSE None]
  /\ IF writer
     THEN /\ counts' = Counted(s)
          /\ reflector' = [reflector EXCEPT ![t] = IF Count(s) % 3 = 1 THEN s ELSE None]
     ELSE UNCHANGED <<counts, reflector>>
  /\ Bind(s, turn[t].project)
  /\ UNCHANGED <<memoryVars, edition, mixed, rivals>>

\* Which of the exchange's rows the budget lets be dropped, and the rest.
Recording(t, outcome) ==
  \E n \in 0..left.drops, ready \in BOOLEAN, writer \in BOOLEAN :
    /\ ready => left.titles > 0
    /\ writer => left.counts > 0 /\ turn[t].path \in Local
    /\ \E dropped \in SUBSET (1..Len(NewMessages(turn[t].session, turn[t].request)
                                    \o Output(t, outcome))) :
      Cardinality(dropped) = n /\ Record(t, outcome, dropped, ready, writer)

Untouched == <<memoryVars, projectVars, session, rows, skill, edition, titler, reflector,
                 counts, left, mixed, rivals, proven>>

\* What the client that still waits makes of the end of its turn. An error of a
\* plain OpenAI stream ends it like any other ("stop").
Told(t, outcome) ==
  LET s == turn[t].session IN
  IF turn[t].client # "waiting" THEN held' = held
  ELSE held' = [held EXCEPT ![s] =
         IF outcome = "error" /\ turn[t].path \notin AnsweredFirst THEN Forgotten(s, @)
         ELSE IF s \in Chats THEN Push(s, @, Answered(t))
         ELSE Append(turn[t].request, Answered(t))]

Over(t) == turn' = [turn EXCEPT ![t] = [Unused EXCEPT !.pc = "over"]]

\* Paths that record before they answer. A failed json, tools or external turn
\* raises instead; a rich stream and a scheduled run record their failure too.
Finish(t, outcome) ==
  /\ turn[t].pc = "running" /\ turn[t].path \notin AnsweredFirst
  /\ Told(t, outcome)
  /\ Over(t)
  /\ IF turn[t].path \in {"proxy"} \cup (IF outcome = "error" THEN {"json", "tools", "external"} ELSE {})
     THEN UNCHANGED Untouched
     ELSE Recording(t, outcome)

\* The other streams: the client has its answer (a raw external stream that
\* breaks is a client that leaves) ...
Answer(t, outcome) ==
  /\ turn[t].pc = "running" /\ turn[t].path \in AnsweredFirst
  /\ outcome = "error" => turn[t].path = "openai"
  /\ Told(t, outcome)
  /\ turn' = [turn EXCEPT ![t].pc = "answered", ![t].outcome = outcome, ![t].client = "none"]
  /\ UNCHANGED Untouched

\* ... and then the exchange is recorded, unless an OpenAI stream is closed first.
RecordAnswered(t) ==
  /\ turn[t].pc = "answered"
  /\ \/ Recording(t, turn[t].outcome)
     \/ turn[t].path = "openai" /\ UNCHANGED Untouched
  /\ Over(t)
  /\ UNCHANGED held

\* The client disconnects or times out and goes on without this turn.
Leave(t) ==
  /\ turn[t].client = "waiting"
  /\ Spend("leaves")
  /\ turn' = [turn EXCEPT ![t].client = "gone"]
  /\ held' = [held EXCEPT ![turn[t].session] = Forgotten(turn[t].session, @)]
  /\ UNCHANGED <<memoryVars, projectVars, session, rows, skill, edition, titler, reflector,
                 counts, mixed, rivals, proven>>

\* The watcher or the server then cancels the run, if it has not ended; the raw
\* external stream records what it has in its finally.
Cancel(t) ==
  /\ turn[t].pc = "running" /\ turn[t].client = "gone"
  /\ \/ turn[t].path \in Watched /\ UNCHANGED Untouched
     \/ /\ turn[t].path = "external_stream"
        /\ \E o \in {"stop", "empty"} : Recording(t, o)
  /\ Over(t)
  /\ UNCHANGED held
-----------------------------------------------------------------------------
(* What goes on in the background. *)

At(s, where) == {t \in Turns : titler[t] # None /\ titler[t].session = s /\ titler[t].at = where}

\* Mutant: a titled session is titled again.
TitleBeginAlways(t) ==
  /\ titler[t] # None /\ titler[t].at = "scheduled"
  /\ LET s == titler[t].session
     IN titler' = [titler EXCEPT ![t] =
          IF session[s] # None /\ rows[s] # <<>>
          THEN [session |-> s, at |-> "generating"] ELSE None]
  /\ UNCHANGED <<memoryVars, projectVars, session, rows, skill, edition, turn, reflector, counts,
                 held, left, mixed, rivals, proven>>

\* maybe_title_session: only an untitled session with messages is titled.
TitleBegin(t) ==
  /\ titler[t] # None /\ titler[t].at = "scheduled"
  /\ LET s == titler[t].session
     IN titler' = [titler EXCEPT ![t] =
          IF session[s] = Untitled /\ rows[s] # <<>>
          THEN [session |-> s, at |-> "generating"] ELSE None]
  /\ UNCHANGED <<memoryVars, projectVars, session, rows, skill, edition, turn, reflector, counts,
                 held, left, mixed, rivals, proven>>

\* The model's answer becomes the title of whatever session has the id now; a
\* failure or an empty answer sets none.
TitleEnd(t, good) ==
  /\ titler[t] # None /\ titler[t].at = "generating"
  /\ LET s == titler[t].session IN
     /\ titler' = [titler EXCEPT ![t] = None]
     /\ IF good /\ session[s] # None
        THEN /\ session' = [session EXCEPT ![s] = t]
             /\ rivals' = [rivals EXCEPT ![s] = At(s, "generating") \ {t}]
        ELSE UNCHANGED <<session, rivals>>
  /\ UNCHANGED <<memoryVars, projectVars, rows, skill, edition, turn, reflector, counts, held,
                 left, mixed, proven>>

\* reflect_once: the model writes a memory, citing the session if it is still
\* archived, or answers "none".
Source(s) == IF session[s] = None THEN None ELSE s

ModelWrites(s) ==
  \/ \E k \in Notes : WriteNote(k, Source(s))
  \/ \E n \in Names, c \in Contents : WriteState(n, c, Source(s))

Reflect(t) ==
  /\ reflector[t] # None
  /\ reflector' = [reflector EXCEPT ![t] = None]
  /\ \/ ModelWrites(reflector[t]) /\ Spend("edits")
     \/ UNCHANGED <<memoryVars, left>>
  /\ UNCHANGED <<projectVars, session, rows, skill, edition, turn, titler, counts, held, mixed, rivals,
                 proven>>

\* A run on the orchestrator calls memory_write ...
RunWrites(t) ==
  /\ turn[t].pc = "running" /\ turn[t].path \in Agentic
  /\ Spend("edits")
  /\ ModelWrites(turn[t].session)
  /\ UNCHANGED <<projectVars, session, rows, skill, edition, turn, titler, reflector, counts,
                 held, mixed, rivals, proven>>

\* ... and skill_save, skill_improve or a person's PUT writes a skill: the new
\* text starts unverified.
PutSkill(k) ==
  /\ edition < MaxEditions
  /\ edition' = edition + 1
  /\ skill' = [skill EXCEPT ![k] = [text |-> edition', verified |-> FALSE]]
  /\ Spend("skills")
  /\ UNCHANGED <<memoryVars, projectVars, session, rows, turn, titler, reflector, counts, held,
                 mixed, rivals, proven>>

DeleteSkill(k) ==
  /\ skill[k].text # 0
  /\ skill' = [skill EXCEPT ![k] = [text |-> 0, verified |-> FALSE]]
  /\ Spend("skills")
  /\ UNCHANGED <<memoryVars, projectVars, session, rows, edition, turn, titler, reflector, counts,
                 held, mixed, rivals, proven>>
-----------------------------------------------------------------------------
(* Deletes, edits, the end of the process. *)

DeleteSession(s) ==
  /\ session[s] # None
  /\ Spend("deletes")
  /\ session' = [session EXCEPT ![s] = None]
  /\ rows' = [rows EXCEPT ![s] = <<>>]
  /\ Uncite(s)
  /\ Unbind(s)
  /\ rivals' = [rivals EXCEPT ![s] = {}]
  /\ UNCHANGED <<skill, edition, turn, titler, reflector, counts, held, mixed, proven>>

\* The turns that named a project are not asked when it is deleted.
EditProjects ==
  /\ Spend("projects")
  /\ \/ \E p \in ProjectIds :
          \/ AddProject(p)
          \/ DeleteProject(p, \E t \in Turns : turn[t].project = p)
          \/ \E d \in Docs : AddDoc(d, p)
     \/ \E d \in Docs : DeleteDoc(d)
  /\ UNCHANGED <<memoryVars, session, rows, skill, edition, turn, titler, reflector, counts,
                 held, mixed, rivals, proven>>

Edit ==
  /\ Spend("edits")
  /\ MemoryRequest
  /\ UNCHANGED <<projectVars, session, rows, skill, edition, turn, titler, reflector, counts, held,
                 mixed, rivals, proven>>

\* The process dies and starts again: tasks, the counter and the relay's
\* windows are gone, clients that waited got no answer, the files are mirrored
\* anew. kept: the rows a turn that was being recorded had committed; each
\* add_message commits its own.
Crash ==
  /\ Spend("crashes")
  /\ \/ UNCHANGED <<rows, session, projectVars>>
     \/ \E t \in Turns, o \in {"stop", "error", "empty"} :
          /\ turn[t].pc = "running" \/ (turn[t].pc = "answered" /\ turn[t].outcome = o)
          /\ LET s == turn[t].session
                 all == Archived(t, o, {})
             IN \E kept \in Len(rows[s])..Len(all) :
                  /\ rows' = [rows EXCEPT ![s] = SubSeq(all, 1, kept)]
                  /\ session' = [session EXCEPT ![s] = Ensured(s)]
                  /\ Bind(s, turn[t].project)
  /\ turn' = [t \in Turns |-> IF turn[t].pc = "unused" THEN turn[t]
                              ELSE [Unused EXCEPT !.pc = "over"]]
  /\ titler' = [t \in Turns |-> None]
  /\ reflector' = [t \in Turns |-> None]
  /\ counts' = <<>>
  /\ held' = [s \in Sessions |-> IF s \in Chats THEN <<>> ELSE held[s]]
  /\ Remirror
  /\ UNCHANGED <<skill, edition, mixed, rivals, proven>>

TurnStep(t) ==
  \/ \E s \in Sessions, path \in left.paths, p \in Nameable : Begin(t, s, path, p)
  \/ \E o \in {"stop", "error", "empty"} : Finish(t, o) \/ Answer(t, o)
  \/ RecordAnswered(t) \/ Leave(t) \/ Cancel(t) \/ RunWrites(t)

Background(t) == TitleBegin(t) \/ (\E good \in BOOLEAN : TitleEnd(t, good)) \/ Reflect(t)

People ==
  \/ \E s \in Sessions : DeleteSession(s)
  \/ \E k \in Skills : PutSkill(k) \/ DeleteSkill(k)
  \/ Edit \/ EditProjects

Next == (\E t \in Turns : TurnStep(t) \/ Background(t)) \/ People \/ Crash

Spec == ArchiveInit /\ [][Next]_vars
-----------------------------------------------------------------------------
\* A transcript holds each message at most once and in the order of the
\* conversation, whatever was deleted, dropped, cancelled, evicted from the
\* relay's window or cut off by a crash ("earlier messages are already
\* recorded", routers/chat.py:650). It is about sessions whose turns did not
\* overlap, and clients that forget a turn that failed.
Position(m) == 3 * m.turn + (CASE m.role = "user" -> 0 [] m.role = "tool" -> 1
                               [] m.role = "assistant" -> 2)
InOrderOnce ==
  \A s \in Sessions \ mixed :
    \A i, j \in 1..Len(rows[s]) : i < j => Position(rows[s][i]) < Position(rows[s][j])

\* Once a session has a title, only a titling task that was already at work when
\* it was set can replace it: no exchange after it starts another.
OnlyRivalsRetitle ==
  \A s \in Sessions : Titled(s) => At(s, "generating") \subseteq rivals[s]

\* Every memory cites an archived session or none: not one that was deleted
\* before, between or after the exchange, the reflection and its write. Every
\* document and session is of a project there is or of none ("member sessions
\* survive with project_id cleared", docs/api.md:334), whatever was deleted in
\* between; but recording a turn that outlived its project binds the session to
\* the deleted one.
ReferencesExist ==
  LET cited == {note[k] : k \in noted}
                 \cup {mirror[n].source : n \in {x \in Names : mirror[x] # None}}
  IN /\ \A s \in cited \ {None} : session[s] # None
     /\ \A d \in Docs : doc[d] \in Nameable
     /\ \A s \in Sessions : member[s] \in Nameable \cup crossed

\* The relay's window is a conversation: user and assistant messages alternate,
\* it ends with the assistant's whenever no turn is under way, and it never
\* outgrows its limit, through evictions, failures and restarts.
WindowAlternates ==
  \A s \in Chats :
    /\ Len(held[s]) <= Window
    /\ \A i \in 1..Len(held[s]) - 1 : held[s][i].role # held[s][i + 1].role
    /\ held[s] # <<>> => (Last(held[s]).role = "user" <=> Waiting(s) # {})

\* Refuted by TLC (add it to MCArchive.cfg): the run verifies what it finds.
\* skills.put: "new or changed instructions are unproven until a run that used
\* them completes successfully".
VerifiedWasUsed ==
  \A k \in Skills : skill[k].verified => <<k, skill[k].text>> \in proven

=============================================================================

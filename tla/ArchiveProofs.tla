--------------------------- MODULE ArchiveProofs ---------------------------
(* Proofs about Archive and the memory under it. *)
EXTENDS Archive, Integers, FiniteSetTheorems, SequenceTheorems, WellFoundedInduction, TLAPS

-----------------------------------------------------------------------------
(* Who acts on what. *)

Titling == [session : Sessions, at : {"scheduled", "generating"}]

\* Requests under way, titlers and reflectors are about sessions.
ActorInv ==
  /\ session \in [Sessions -> {None, Untitled} \cup Turns]
  /\ titler \in [Turns -> Titling \cup {None}]
  /\ reflector \in [Turns -> Sessions \cup {None}]
  /\ DOMAIN turn = Turns
  /\ \A t \in Turns : turn[t].pc \in {"running", "answered"} => turn[t].session \in Sessions
  /\ rivals \in [Sessions -> SUBSET Turns]

\* What recording an exchange does to the actors and to memory.
LEMMA Recorded ==
  ASSUME ActorInv, NEW t \in Turns, turn[t].session \in Sessions, NEW o, Recording(t, o)
  PROVE  /\ UNCHANGED memoryVars /\ rivals' = rivals
         /\ session' = [session EXCEPT ![turn[t].session] = Ensured(turn[t].session)]
         /\ reflector' \in [Turns -> Sessions \cup {None}]
         /\ \E x \in {None, [session |-> turn[t].session, at |-> "scheduled"]} :
              titler' = [titler EXCEPT ![t] = x]
  <1> DEFINE s == turn[t].session
  <1>0. PICK n \in 0..left.drops, ready \in BOOLEAN, writer \in BOOLEAN :
          \E dropped \in SUBSET (1..Len(NewMessages(turn[t].session, turn[t].request)
                                        \o Output(t, o))) :
            Cardinality(dropped) = n /\ Record(t, o, dropped, ready, writer)
    BY Zenon DEF Recording
  <1>1. PICK dropped : Record(t, o, dropped, ready, writer)
    BY <1>0
  <1>2. /\ UNCHANGED memoryVars /\ rivals' = rivals
        /\ session' = [session EXCEPT ![s] = Ensured(s)]
        /\ titler' = [titler EXCEPT ![t] = IF ready THEN [session |-> s, at |-> "scheduled"] ELSE None]
    BY <1>1 DEF Record
  <1>3. reflector' \in [Turns -> Sessions \cup {None}]
    <2>1. \/ reflector' = reflector
          \/ \E x \in {s, None} : reflector' = [reflector EXCEPT ![t] = x]
      BY <1>1 DEF Record
    <2> QED BY <2>1 DEF ActorInv
  <1> QED BY <1>2, <1>3

LEMMA RecordedTypes ==
  ASSUME ActorInv, NEW t \in Turns, turn[t].session \in Sessions, NEW o, Recording(t, o), Over(t)
  PROVE  ActorInv'
  <1> DEFINE s == turn[t].session
  <1>1. /\ rivals' = rivals /\ session' = [session EXCEPT ![s] = Ensured(s)]
        /\ reflector' \in [Turns -> Sessions \cup {None}]
        /\ \E x \in {None, [session |-> s, at |-> "scheduled"]} : titler' = [titler EXCEPT ![t] = x]
    BY Recorded
  <1>2. session' \in [Sessions -> {None, Untitled} \cup Turns]
    BY <1>1 DEF ActorInv, Ensured
  <1>3. titler' \in [Turns -> Titling \cup {None}]
    BY <1>1 DEF ActorInv, Titling
  <1>4. turn' = [turn EXCEPT ![t] = [Unused EXCEPT !.pc = "over"]]
    BY DEF Over
  <1>5. [Unused EXCEPT !.pc = "over"].pc = "over"
    BY DEF Unused
  <1>6. DOMAIN turn' = Turns /\ \A u \in Turns : turn'[u].pc \in {"running", "answered"} => turn'[u].session \in Sessions
    BY <1>4, <1>5 DEF ActorInv
  <1> QED BY <1>1, <1>2, <1>3, <1>6 DEF ActorInv

LEMMA ActorsStay == ActorInv /\ [Next]_vars => ActorInv'
  <1> SUFFICES ASSUME ActorInv, [Next]_vars PROVE ActorInv'
    OBVIOUS
  <1>1. CASE UNCHANGED vars
    BY <1>1 DEF vars, archiveVars, ActorInv
  <1>2. ASSUME NEW t \in Turns, NEW s \in Sessions, NEW path \in left.paths,
             NEW p \in Nameable, Begin(t, s, path, p)
        PROVE  ActorInv'
    <2>1. UNCHANGED <<session, titler, reflector, rivals>>
      BY <1>2 DEF Begin
    <2>2. DOMAIN turn' = DOMAIN turn /\ turn'[t].session = s /\ \A u \in Turns \ {t} : turn'[u] = turn[u]
      BY <1>2 DEF Begin, ActorInv
    <2> QED BY <2>1, <2>2 DEF ActorInv
  <1>3. ASSUME NEW t \in Turns, NEW o, Finish(t, o) PROVE ActorInv'
    <2>1. turn[t].session \in Sessions /\ Over(t)
      BY <1>3 DEF Finish, ActorInv
    <2>2. CASE Recording(t, o)
      BY <2>1, <2>2, RecordedTypes
    <2>3. CASE UNCHANGED Untouched
      <3>1. UNCHANGED <<session, titler, reflector, rivals>>
        BY <2>3 DEF Untouched
      <3>2. turn' = [turn EXCEPT ![t] = [Unused EXCEPT !.pc = "over"]]
        BY <2>1 DEF Over
      <3> QED BY <3>1, <3>2 DEF ActorInv, Unused
    <2> QED BY <1>3, <2>2, <2>3 DEF Finish
  <1>4. ASSUME NEW t \in Turns, NEW o, Answer(t, o) PROVE ActorInv'
    <2>1. UNCHANGED <<session, titler, reflector, rivals>>
      BY <1>4 DEF Answer, Untouched
    <2>2. /\ DOMAIN turn' = DOMAIN turn /\ turn[t].pc = "running"
          /\ \A u \in Turns : turn'[u].session = turn[u].session /\ (u # t => turn'[u] = turn[u])
      BY <1>4 DEF Answer, ActorInv
    <2> QED BY <2>1, <2>2 DEF ActorInv
  <1>5. ASSUME NEW t \in Turns, RecordAnswered(t) PROVE ActorInv'
    <2>1. turn[t].session \in Sessions /\ Over(t)
      BY <1>5 DEF RecordAnswered, ActorInv
    <2>2. CASE Recording(t, turn[t].outcome)
      BY <2>1, <2>2, RecordedTypes
    <2>3. CASE UNCHANGED Untouched
      <3>1. UNCHANGED <<session, titler, reflector, rivals>>
        BY <2>3 DEF Untouched
      <3>2. turn' = [turn EXCEPT ![t] = [Unused EXCEPT !.pc = "over"]]
        BY <2>1 DEF Over
      <3> QED BY <3>1, <3>2 DEF ActorInv, Unused
    <2> QED BY <1>5, <2>2, <2>3 DEF RecordAnswered
  <1>6. ASSUME NEW t \in Turns, Leave(t) PROVE ActorInv'
    <2>1. UNCHANGED <<session, titler, reflector, rivals>>
      BY <1>6 DEF Leave
    <2>2. /\ DOMAIN turn' = DOMAIN turn
          /\ \A u \in Turns : turn'[u].session = turn[u].session /\ turn'[u].pc = turn[u].pc
      BY <1>6 DEF Leave, ActorInv
    <2> QED BY <2>1, <2>2 DEF ActorInv
  <1>7. ASSUME NEW t \in Turns, Cancel(t) PROVE ActorInv'
    <2>1. turn[t].session \in Sessions /\ Over(t)
      BY <1>7 DEF Cancel, ActorInv
    <2>2. CASE \E o \in {"stop", "empty"} : Recording(t, o)
      BY <2>1, <2>2, RecordedTypes
    <2>3. CASE UNCHANGED Untouched
      <3>1. UNCHANGED <<session, titler, reflector, rivals>>
        BY <2>3 DEF Untouched
      <3>2. turn' = [turn EXCEPT ![t] = [Unused EXCEPT !.pc = "over"]]
        BY <2>1 DEF Over
      <3> QED BY <3>1, <3>2 DEF ActorInv, Unused
    <2> QED BY <1>7, <2>2, <2>3 DEF Cancel
  <1>8. ASSUME NEW t \in Turns, RunWrites(t) PROVE ActorInv'
    BY <1>8 DEF RunWrites, ActorInv
  <1>9. ASSUME NEW t \in Turns, TitleBegin(t) PROVE ActorInv'
    BY <1>9 DEF TitleBegin, ActorInv, Titling
  <1>10. ASSUME NEW t \in Turns, NEW good \in BOOLEAN, TitleEnd(t, good) PROVE ActorInv'
    <2>1. titler' \in [Turns -> Titling \cup {None}] /\ UNCHANGED <<turn, reflector>>
      BY <1>10 DEF TitleEnd, ActorInv
    <2>2. \A s : At(s, "generating") \subseteq Turns
      BY DEF At
    <2>3. session' \in [Sessions -> {None, Untitled} \cup Turns] /\ rivals' \in [Sessions -> SUBSET Turns]
      BY <1>10, <2>2 DEF TitleEnd, ActorInv
    <2> QED BY <2>1, <2>3 DEF ActorInv
  <1>11. ASSUME NEW t \in Turns, Reflect(t) PROVE ActorInv'
    BY <1>11 DEF Reflect, ActorInv
  <1>12. ASSUME NEW s \in Sessions, DeleteSession(s) PROVE ActorInv'
    BY <1>12 DEF DeleteSession, ActorInv
  <1>13. ASSUME NEW k \in Skills, PutSkill(k) \/ DeleteSkill(k) PROVE ActorInv'
    BY <1>13 DEF PutSkill, DeleteSkill, ActorInv
  <1>14. CASE Edit
    BY <1>14 DEF Edit, ActorInv
  <1>16. CASE EditProjects
    BY <1>16 DEF EditProjects, ActorInv
  <1>15. CASE Crash
    <2>1. /\ titler' \in [Turns -> Titling \cup {None}] /\ reflector' \in [Turns -> Sessions \cup {None}]
          /\ rivals' = rivals
      BY <1>15 DEF Crash
    <2>2. session' \in [Sessions -> {None, Untitled} \cup Turns]
      <3>1. session' = session \/ \E s : session' = [session EXCEPT ![s] = Ensured(s)]
        BY <1>15 DEF Crash
      <3> QED BY <3>1 DEF ActorInv, Ensured
    <2>3. DOMAIN turn' = Turns /\ \A t \in Turns : turn'[t].pc \notin {"running", "answered"}
      <3>1. turn' = [t \in Turns |-> IF turn[t].pc = "unused" THEN turn[t]
                                     ELSE [Unused EXCEPT !.pc = "over"]]
        BY <1>15 DEF Crash
      <3> QED BY <3>1 DEF Unused
    <2> QED BY <2>1, <2>2, <2>3 DEF ActorInv
  <1> QED
    BY <1>1, <1>2, <1>3, <1>4, <1>5, <1>6, <1>7, <1>8, <1>9, <1>10, <1>11, <1>12, <1>13, <1>14, <1>15,
       <1>16 DEF Next, TurnStep, Background, People

LEMMA ActorsBegin == ArchiveInit => ActorInv
  BY DEF ArchiveInit, ActorInv, Unused

-----------------------------------------------------------------------------
(* Memory. *)

\* What a step of the archive does to memory.
MemoryMove ==
  \/ UNCHANGED memoryVars \/ MemoryRequest \/ Remirror
  \/ \E s \in Sessions : ModelWrites(s) \/ Uncite(s)

\* A step makes one move; a session is gone after it only if it was deleted.
LEMMA MemorySteps ==
  ActorInv /\ [Next]_vars =>
    /\ MemoryMove
    /\ \/ \E s \in Sessions : DeleteSession(s)
       \/ \A s \in Sessions : session[s] # None => session'[s] # None
  <1> SUFFICES ASSUME ActorInv, [Next]_vars
               PROVE  /\ MemoryMove
                      /\ \/ \E s \in Sessions : DeleteSession(s)
                         \/ \A s \in Sessions : session[s] # None => session'[s] # None
    OBVIOUS
  <1> DEFINE Stays == \A s \in Sessions : session[s] # None => session'[s] # None
  <1>1. CASE UNCHANGED vars
    BY <1>1 DEF vars, archiveVars, MemoryMove
  <1>2. ASSUME NEW t \in Turns, NEW o, Recording(t, o), turn[t].session \in Sessions
        PROVE  UNCHANGED memoryVars /\ Stays
    <2>1. UNCHANGED memoryVars /\ session' = [session EXCEPT ![turn[t].session] = Ensured(turn[t].session)]
      BY <1>2, Recorded
    <2>2. None # Untitled
      BY ArchiveAssumption DEF ArchiveAssumption, Untitled
    <2> QED BY <2>1, <2>2 DEF Ensured, ActorInv
  <1>3. ASSUME NEW t \in Turns, TurnStep(t) PROVE MemoryMove /\ Stays
    <2>1. CASE \E s \in Sessions, path \in left.paths, p \in Nameable : Begin(t, s, path, p)
      BY <2>1 DEF Begin, MemoryMove
    <2>2. ASSUME NEW o, Finish(t, o) PROVE MemoryMove /\ Stays
      <3>1. UNCHANGED Untouched \/ Recording(t, o)
        BY <2>2 DEF Finish
      <3>2. turn[t].session \in Sessions
        BY <2>2 DEF Finish, ActorInv
      <3> QED BY <3>1, <3>2, <1>2 DEF Untouched, MemoryMove
    <2>3. ASSUME NEW o, Answer(t, o) PROVE MemoryMove /\ Stays
      BY <2>3 DEF Answer, Untouched, MemoryMove
    <2>4. CASE RecordAnswered(t)
      <3>1. UNCHANGED Untouched \/ Recording(t, turn[t].outcome)
        BY <2>4 DEF RecordAnswered
      <3>2. turn[t].session \in Sessions
        BY <2>4 DEF RecordAnswered, ActorInv
      <3> QED BY <3>1, <3>2, <1>2 DEF Untouched, MemoryMove
    <2>5. CASE Leave(t)
      BY <2>5 DEF Leave, MemoryMove
    <2>6. CASE Cancel(t)
      <3>1. UNCHANGED Untouched \/ \E o : Recording(t, o)
        BY <2>6 DEF Cancel
      <3>2. turn[t].session \in Sessions
        BY <2>6 DEF Cancel, ActorInv
      <3> QED BY <3>1, <3>2, <1>2 DEF Untouched, MemoryMove
    <2>7. CASE RunWrites(t)
      BY <2>7 DEF RunWrites, MemoryMove, ActorInv
    <2> QED BY <1>3, <2>1, <2>2, <2>3, <2>4, <2>5, <2>6, <2>7 DEF TurnStep
  <1>4. ASSUME NEW t \in Turns, Background(t) PROVE MemoryMove /\ Stays
    <2>1. CASE TitleBegin(t)
      BY <2>1 DEF TitleBegin, MemoryMove
    <2>2. ASSUME NEW good \in BOOLEAN, TitleEnd(t, good) PROVE MemoryMove /\ Stays
      <3>1. UNCHANGED memoryVars /\ (session' = session \/ \E s : session' = [session EXCEPT ![s] = t])
        BY <2>2 DEF TitleEnd
      <3>2. None # t
        BY ArchiveAssumption DEF ArchiveAssumption, Turns
      <3> QED BY <3>1, <3>2 DEF MemoryMove, ActorInv
    <2>3. CASE Reflect(t)
      <3>1. reflector[t] \in Sessions
        BY <2>3 DEF Reflect, ActorInv
      <3> QED BY <2>3, <3>1 DEF Reflect, MemoryMove
    <2> QED BY <1>4, <2>1, <2>2, <2>3 DEF Background
  <1>5. ASSUME NEW s \in Sessions, DeleteSession(s) PROVE MemoryMove
    BY <1>5 DEF DeleteSession, MemoryMove
  <1>6. ASSUME NEW k \in Skills, PutSkill(k) \/ DeleteSkill(k) PROVE MemoryMove /\ Stays
    BY <1>6 DEF PutSkill, DeleteSkill, MemoryMove
  <1>7. CASE Edit
    BY <1>7 DEF Edit, MemoryMove
  <1>9. CASE EditProjects
    BY <1>9 DEF EditProjects, MemoryMove
  <1>8. CASE Crash
    <2>1. Remirror /\ (session' = session \/ \E s : session' = [session EXCEPT ![s] = Ensured(s)])
      BY <1>8 DEF Crash
    <2>2. None # Untitled
      BY ArchiveAssumption DEF ArchiveAssumption, Untitled
    <2> QED BY <2>1, <2>2 DEF MemoryMove, Ensured, ActorInv
  <1> QED BY <1>1, <1>3, <1>4, <1>5, <1>6, <1>7, <1>8, <1>9 DEF Next, People

\* Until a title is edited, the row of each file is named after it.
MemoryInv ==
  /\ MemoryTypeOK
  /\ ~retitled =>
       \A n \in Names : IF file[n] = None THEN mirror[n] = None
                        ELSE /\ mirror[n] # None /\ mirror[n].content = file[n]
                             /\ mirror[n].title = n

\* The mirror that is read from the files is of the files.
LEMMA MirroredMatches ==
  ASSUME NEW files \in [Names -> Contents \cup {None}]
  PROVE  /\ Mirrored(files) \in [Names -> Row \cup {None}]
         /\ \A n \in Names : IF files[n] = None THEN Mirrored(files)[n] = None
                             ELSE /\ Mirrored(files)[n] # None
                                  /\ Mirrored(files)[n].content = files[n]
                                  /\ Mirrored(files)[n].title = n
  <1>1. \A n \in Names : files[n] # None =>
          [title |-> n, content |-> files[n], source |-> None] \in Row
    BY DEF Row
  <1> QED BY <1>1, MemoryAssumption DEF Mirrored, MemoryAssumption

LEMMA MemoryKept ==
  ASSUME MemoryInv, MemoryMove
  PROVE  MemoryInv'
  <1> DEFINE Match(n) == IF file[n] = None THEN mirror[n] = None
                         ELSE mirror[n] # None /\ mirror[n].content = file[n] /\ mirror[n].title = n
  <1>0. /\ MemoryTypeOK /\ (~retitled => \A n \in Names : Match(n))
        /\ \A r \in Row : r # None
    BY MemoryAssumption DEF MemoryInv, MemoryAssumption
  <1>r. \A t \in Names, c \in Contents, s \in Sessions \cup {None} :
          [title |-> t, content |-> c, source |-> s] \in Row
    BY DEF Row
  <1>s. \A n \in Names : mirror[n] # None =>
          /\ mirror[n] \in Row /\ mirror[n].title \in Names
          /\ mirror[n] = [title |-> mirror[n].title, content |-> mirror[n].content, source |-> mirror[n].source]
    BY <1>0 DEF MemoryTypeOK, Row
  <1>1. CASE UNCHANGED memoryVars
    BY <1>1, <1>0 DEF memoryVars, MemoryInv, MemoryTypeOK
  <1>2. ASSUME NEW n \in Names, NEW c \in Contents, NEW s \in Sessions \cup {None}, WriteState(n, c, s)
        PROVE  MemoryInv'
    <2>1. MemoryTypeOK'
      BY <1>0, <1>2, <1>r DEF WriteState, MemoryTypeOK
    <2>2. ASSUME ~retitled', NEW m \in Names PROVE Match(m)'
      BY <1>0, <1>2, <1>r, <2>2, MemoryAssumption DEF WriteState, MemoryTypeOK, MemoryAssumption
    <2> QED BY <2>1, <2>2 DEF MemoryInv
  <1>3. ASSUME NEW k \in Notes, NEW s \in Sessions \cup {None}, WriteNote(k, s) PROVE MemoryInv'
    BY <1>0, <1>3 DEF WriteNote, MemoryTypeOK, MemoryInv
  <1>4. ASSUME NEW n \in Names, NEW c \in Contents, UpdateStateFile(n, c) PROVE MemoryInv'
    <2>1. file' \in [Names -> Contents \cup {None}] /\ mirror' = Mirrored(file')
          /\ UNCHANGED <<note, noted, retitled>>
      BY <1>0, <1>4 DEF UpdateStateFile, MemoryTypeOK
    <2>2. \A files \in [Names -> Contents \cup {None}] : mirror' = Mirrored(files) =>
             /\ mirror' \in [Names -> Row \cup {None}]
             /\ \A m \in Names : IF files[m] = None THEN mirror'[m] = None
                  ELSE mirror'[m] # None /\ mirror'[m].content = files[m] /\ mirror'[m].title = m
      BY MirroredMatches
    <2> QED BY <1>0, <2>1, <2>2 DEF MemoryInv, MemoryTypeOK
  <1>5. ASSUME NEW n \in Names, DeleteStateFile(n) PROVE MemoryInv'
    BY <1>0, <1>5 DEF DeleteStateFile, MemoryTypeOK, MemoryInv
  <1>6. ASSUME NEW n \in Names, DeleteEntry(n) PROVE MemoryInv'
    <2>1. mirror[n].title \in Names /\ (~retitled => mirror[n].title = n)
      BY <1>0, <1>6, <1>s DEF DeleteEntry
    <2> QED BY <1>0, <1>6, <2>1 DEF DeleteEntry, MemoryTypeOK, MemoryInv
  <1>7. ASSUME NEW n \in Names, NEW t \in Names \cup {None}, NEW c \in Contents \cup {None},
               UpdateEntry(n, t, c)
        PROVE  MemoryInv'
    <2> DEFINE row == [title |-> IF t = None THEN mirror[n].title ELSE t,
                       content |-> IF c = None THEN mirror[n].content ELSE c,
                       source |-> mirror[n].source]
    <2>1. mirror[n] \in Row /\ mirror[n].title \in Names /\ mirror[n].content \in Contents
          /\ mirror[n].source \in Sessions \cup {None} /\ mirror[n] # None
      BY <1>7, <1>s DEF UpdateEntry, Row
    <2>2. mirror' = [mirror EXCEPT ![n] = row]
      <3>1. DOMAIN mirror' = DOMAIN mirror /\ \A m \in DOMAIN mirror \ {n} : mirror'[m] = mirror[m]
        BY <1>7 DEF UpdateEntry
      <3>2. mirror'[n] = [mirror[n] EXCEPT !.title = row.title, !.content = row.content]
        BY <1>0, <1>7, <2>1 DEF UpdateEntry, MemoryTypeOK, Row
      <3>3. mirror'[n] = row
        BY <2>1, <3>2 DEF Row
      <3>4. mirror' = [m \in DOMAIN mirror' |-> mirror'[m]] /\ DOMAIN mirror = Names
        BY <1>0, <1>7 DEF UpdateEntry, MemoryTypeOK
      <3> QED BY <1>0, <3>1, <3>3, <3>4 DEF MemoryTypeOK
    <2>3. row \in Row
      BY <2>1 DEF Row
    <2>4. MemoryTypeOK'
      <3>1. mirror' \in [Names -> Row \cup {None}]
        BY <1>0, <2>2, <2>3 DEF MemoryTypeOK
      <3>2. file' \in [Names -> Contents \cup {None}]
        BY <1>0, <1>7, <2>1 DEF UpdateEntry, MemoryTypeOK
      <3>3. retitled' \in BOOLEAN /\ UNCHANGED <<note, noted>>
        BY <1>7 DEF UpdateEntry
      <3> QED BY <1>0, <3>1, <3>2, <3>3 DEF MemoryTypeOK
    <2>5. ASSUME ~retitled', NEW m \in Names PROVE Match(m)'
      <3>1. ~retitled /\ t \in {None, mirror[n].title}
        BY <1>7, <2>5 DEF UpdateEntry
      <3>2. Match(m) /\ Match(n)
        BY <1>0, <3>1
      <3>3. mirror[n].title = n /\ file[n] # None /\ file[n] = mirror[n].content
        BY <3>2, <2>1
      <3>4. row.title = n /\ row.content = (IF c = None THEN file[n] ELSE c)
        BY <3>1, <3>3, MemoryAssumption DEF MemoryAssumption
      <3>5. file' = IF c = None THEN file ELSE [file EXCEPT ![n] = c]
        BY <1>7, <3>3 DEF UpdateEntry
      <3>6. CASE m = n
        BY <1>0, <2>2, <2>3, <3>3, <3>4, <3>5, <3>6 DEF MemoryTypeOK
      <3>7. CASE m # n
        BY <1>0, <2>2, <3>2, <3>5, <3>7 DEF MemoryTypeOK
      <3> QED BY <3>6, <3>7
    <2> QED BY <2>4, <2>5 DEF MemoryInv
  <1>8. ASSUME NEW k \in Notes, DeleteNote(k) PROVE MemoryInv'
    BY <1>0, <1>8 DEF DeleteNote, MemoryTypeOK, MemoryInv
  <1>9. ASSUME NEW s \in Sessions, Uncite(s) PROVE MemoryInv'
    <2>1. \A n \in Names : /\ mirror[n] = None => mirror'[n] = None
                           /\ mirror[n] # None => /\ mirror'[n] \in Row
                                                  /\ mirror'[n].title = mirror[n].title
                                                  /\ mirror'[n].content = mirror[n].content
      BY <1>0, <1>9, <1>s DEF Uncite, Row
    <2>2. mirror' \in [Names -> Row \cup {None}] /\ note' \in [Notes -> Sessions \cup {None}]
      <3>1. DOMAIN mirror' = Names /\ mirror' = [n \in Names |-> mirror'[n]]
        BY <1>9 DEF Uncite
      <3> QED BY <1>0, <1>9, <2>1, <3>1 DEF Uncite, MemoryTypeOK
    <2>3. UNCHANGED <<file, noted, retitled>>
      BY <1>9 DEF Uncite
    <2> QED BY <1>0, <2>1, <2>2, <2>3 DEF MemoryInv, MemoryTypeOK
  <1>10. CASE Remirror
    <2>1. file' = file /\ mirror' = Mirrored(file) /\ retitled' = FALSE /\ UNCHANGED <<note, noted>>
      BY <1>10 DEF Remirror
    <2> QED BY <1>0, <2>1, MirroredMatches DEF MemoryInv, MemoryTypeOK
  <1>11. CASE MemoryRequest
    BY <1>11, <1>2, <1>3, <1>4, <1>5, <1>6, <1>7, <1>8 DEF MemoryRequest
  <1>12. ASSUME NEW s \in Sessions, ModelWrites(s) PROVE MemoryInv'
    <2>1. Source(s) \in Sessions \cup {None}
      BY DEF Source
    <2> QED BY <1>12, <1>2, <1>3, <2>1 DEF ModelWrites
  <1> QED BY <1>1, <1>9, <1>10, <1>11, <1>12 DEF MemoryMove

LEMMA MemoryBegins == MemoryInit => MemoryInv
  <1> SUFFICES ASSUME MemoryInit PROVE MemoryInv
    OBVIOUS
  <1>1. file \in [Names -> Contents \cup {None}] /\ mirror = Mirrored(file)
    BY DEF MemoryInit
  <1> QED BY <1>1, MirroredMatches DEF MemoryInit, MemoryInv, MemoryTypeOK

\* Recall sees the state files as they are, until a row's title is edited,
\* whatever people, tools, reflections, deletes and restarts did.
THEOREM RecallSeesTheFiles == Spec => []MirrorsMatch
  <1>1. ArchiveInit => ActorInv /\ MemoryInv
    BY ActorsBegin, MemoryBegins DEF ArchiveInit
  <1>2. (ActorInv /\ MemoryInv) /\ [Next]_vars => (ActorInv /\ MemoryInv)'
    BY ActorsStay, MemorySteps, MemoryKept
  <1>3. MemoryInv => MirrorsMatch
    BY DEF MemoryInv, MirrorsMatch
  <1> QED BY <1>1, <1>2, <1>3, PTL DEF Spec

-----------------------------------------------------------------------------
(* Sources. *)

Cites(s) == \/ \E k \in noted : note[k] = s
            \/ \E n \in Names : mirror[n] # None /\ mirror[n].source = s

SourceInv == \A s \in Sessions : Cites(s) => session[s] # None

LEMMA SourcesAreCited ==
  MemoryTypeOK /\ SourceInv =>
    LET cited == {note[k] : k \in noted}
                   \cup {mirror[n].source : n \in {x \in Names : mirror[x] # None}}
    IN \A s \in cited \ {None} : session[s] # None
  <1> SUFFICES ASSUME MemoryTypeOK, SourceInv,
                      NEW s \in {note[k] : k \in noted}
                                  \cup {mirror[n].source : n \in {x \in Names : mirror[x] # None}},
                      s # None
               PROVE  session[s] # None
    OBVIOUS
  <1>1. Cites(s)
    BY DEF Cites
  <1>2. s \in Sessions
    BY DEF MemoryTypeOK, Row
  <1> QED BY <1>1, <1>2 DEF SourceInv

\* A memory that cites a session after a step did before, unless the step is a
\* write about a session that is there; deleting the session ends its citations.
LEMMA Citing ==
  ASSUME MemoryInv, ActorInv, MemoryMove, NEW s \in Sessions, Cites(s)'
  PROVE  Cites(s) \/ session[s] # None
  <1>0. MemoryTypeOK /\ s # None /\ \A r \in Row : r # None
    BY MemoryAssumption DEF MemoryInv, MemoryAssumption
  <1>1. ASSUME NEW n \in Names, NEW c \in Contents, NEW u, u # s, WriteState(n, c, u) PROVE Cites(s)
    <2>1. \A m \in Names : mirror'[m] # None /\ mirror'[m].source = s => mirror'[m] = mirror[m]
      BY <1>0, <1>1 DEF WriteState, MemoryTypeOK
    <2> QED BY <1>1, <2>1 DEF WriteState, Cites
  <1>2. ASSUME NEW k \in Notes, NEW u, u # s, WriteNote(k, u) PROVE Cites(s)
    BY <1>0, <1>2 DEF WriteNote, Cites, MemoryTypeOK
  <1>3. ASSUME NEW files, mirror' = Mirrored(files), UNCHANGED <<note, noted>> PROVE Cites(s)
    <2>1. \A m \in Names : mirror'[m] # None => mirror'[m].source # s
      BY <1>0, <1>3 DEF Mirrored
    <2> QED BY <1>3, <2>1 DEF Cites
  <1>4. CASE MemoryRequest
    <2>1. ASSUME NEW n \in Names, DeleteStateFile(n) \/ DeleteEntry(n) PROVE Cites(s)
      BY <1>0, <2>1 DEF DeleteStateFile, DeleteEntry, Cites, MemoryTypeOK
    <2>2. ASSUME NEW n \in Names, NEW t, NEW c, UpdateEntry(n, t, c) PROVE Cites(s)
      <3>1. mirror[n] \in Row /\ DOMAIN mirror = Names /\ mirror[n] # None
        BY <1>0, <2>2 DEF UpdateEntry, MemoryTypeOK
      <3>2. mirror'[n].source = mirror[n].source
        BY <2>2, <3>1 DEF UpdateEntry, Row
      <3>3. \A m \in Names \ {n} : mirror'[m] = mirror[m]
        BY <2>2, <3>1 DEF UpdateEntry
      <3> QED BY <2>2, <3>1, <3>2, <3>3 DEF UpdateEntry, Cites
    <2>3. ASSUME NEW k \in Notes, DeleteNote(k) PROVE Cites(s)
      BY <1>0, <2>3 DEF DeleteNote, Cites, MemoryTypeOK
    <2>4. ASSUME NEW n \in Names, NEW c \in Contents, UpdateStateFile(n, c) PROVE Cites(s)
      BY <1>3, <2>4 DEF UpdateStateFile
    <2> QED BY <1>0, <1>1, <1>2, <1>4, <2>1, <2>2, <2>3, <2>4 DEF MemoryRequest
  <1>5. ASSUME NEW u \in Sessions, Uncite(u) PROVE Cites(s)
    <2>1. \A k \in noted : note'[k] = s => note[k] = s
      BY <1>0, <1>5 DEF Uncite, MemoryTypeOK
    <2>2. \A m \in Names : mirror'[m] # None /\ mirror'[m].source = s => mirror[m] # None /\ mirror[m].source = s
      BY <1>0, <1>5 DEF Uncite, MemoryTypeOK, Row
    <2> QED BY <1>5, <2>1, <2>2 DEF Uncite, Cites
  <1>6. ASSUME NEW u \in Sessions, ModelWrites(u) PROVE Cites(s) \/ session[s] # None
    <2>1. CASE Source(u) = s
      BY <2>1, <1>0 DEF Source
    <2>2. CASE Source(u) # s
      BY <1>1, <1>2, <1>6, <2>2 DEF ModelWrites
    <2> QED BY <2>1, <2>2
  <1>7. CASE UNCHANGED memoryVars
    BY <1>7 DEF memoryVars, Cites
  <1>8. CASE Remirror
    BY <1>3, <1>8 DEF Remirror
  <1> QED BY <1>4, <1>5, <1>6, <1>7, <1>8 DEF MemoryMove

LEMMA SourcesStay ==
  ASSUME ActorInv, MemoryInv, SourceInv, [Next]_vars
  PROVE  SourceInv'
  <1> SUFFICES ASSUME NEW s \in Sessions, Cites(s)' PROVE session'[s] # None
    BY DEF SourceInv
  <1>1. session[s] # None
    BY Citing, MemorySteps DEF SourceInv
  <1>2. ASSUME NEW u \in Sessions, DeleteSession(u) PROVE s # u /\ session'[s] = session[s]
    <2>1. Uncite(u) /\ session' = [session EXCEPT ![u] = None]
      BY <1>2 DEF DeleteSession
    <2>2. u # None /\ MemoryTypeOK /\ \A r \in Row : r # None
      BY MemoryAssumption DEF MemoryInv, MemoryAssumption
    <2>3. s # u
      <3>1. SUFFICES ASSUME s = u PROVE FALSE
        OBVIOUS
      <3>2. \A k \in noted : note'[k] # u
        BY <2>1, <2>2 DEF Uncite, MemoryTypeOK
      <3>3. \A m \in Names : mirror'[m] # None => mirror'[m].source # u
        BY <2>1, <2>2 DEF Uncite, MemoryTypeOK, Row
      <3> QED BY <2>1, <3>1, <3>2, <3>3 DEF Cites, Uncite
    <2> QED BY <2>1, <2>3 DEF ActorInv
  <1> QED BY <1>1, <1>2, MemorySteps

-----------------------------------------------------------------------------
(* Projects. *)

\* What a turn names is there, or was deleted under it.
ProjectInv ==
  /\ DOMAIN member = Sessions /\ DOMAIN doc = Docs
  /\ \A d \in Docs : doc[d] \in Nameable
  /\ \A s \in Sessions : member[s] \in Nameable \cup crossed
  /\ \A t \in Turns : turn[t].project \in Nameable \cup crossed

\* A step that leaves the projects alone, in which turns go on or end.
LEMMA ProjectsQuiet ==
  ASSUME ProjectInv, UNCHANGED projectVars,
         \A t \in Turns : turn'[t].project \in {turn[t].project, None}
  PROVE  ProjectInv'
  BY DEF ProjectInv, projectVars, Nameable

LEMMA OverProjects ==
  ASSUME ActorInv, NEW t \in Turns, Over(t)
  PROVE  \A u \in Turns : turn'[u].project \in {turn[u].project, None}
  BY DEF Over, Unused, ActorInv

LEMMA BoundProjects ==
  ASSUME ProjectInv, NEW s \in Sessions, NEW t \in Turns, Bind(s, turn[t].project),
         \A u \in Turns : turn'[u].project \in {turn[u].project, None}
  PROVE  ProjectInv'
  <1>1. UNCHANGED <<projects, gone, doc, filed, crossed>> /\ DOMAIN member' = Sessions
    BY DEF Bind, ProjectInv
  <1>2. \A r \in Sessions : member'[r] \in {member[r], turn[t].project}
    BY DEF Bind, ProjectInv
  <1> QED BY <1>1, <1>2 DEF ProjectInv, Nameable

LEMMA RecordedProjects ==
  ASSUME ActorInv, ProjectInv, NEW t \in Turns, turn[t].session \in Sessions, NEW o,
         Recording(t, o), Over(t)
  PROVE  ProjectInv'
  <1>1. Bind(turn[t].session, turn[t].project)
    BY Zenon DEF Recording, Record
  <1> QED BY <1>1, OverProjects, BoundProjects

LEMMA ProjectsStay ==
  ASSUME ActorInv, ProjectInv, [Next]_vars
  PROVE  ProjectInv'
  <1>1. ASSUME UNCHANGED <<projectVars, turn>> PROVE ProjectInv'
    BY <1>1, ProjectsQuiet
  <1>2. ASSUME NEW t \in Turns, TurnStep(t) PROVE ProjectInv'
    <2>1. ASSUME NEW s \in Sessions, NEW path \in left.paths, NEW p \in Nameable, Begin(t, s, path, p)
          PROVE  ProjectInv'
      <3>1. turn'[t].project = p /\ \A u \in Turns \ {t} : turn'[u] = turn[u]
        BY <2>1 DEF Begin, ActorInv
      <3>2. UNCHANGED <<projects, gone, doc, filed, member, crossed>>
        BY <2>1 DEF Begin, projectVars
      <3> QED BY <3>1, <3>2 DEF ProjectInv, Nameable
    <2>2. ASSUME NEW o, Finish(t, o) PROVE ProjectInv'
      <3>1. /\ turn[t].session \in Sessions /\ Over(t)
            /\ UNCHANGED projectVars \/ Recording(t, o)
        BY <2>2 DEF Finish, Untouched, ActorInv
      <3> QED BY <3>1, OverProjects, ProjectsQuiet, RecordedProjects
    <2>3. ASSUME NEW o, Answer(t, o) PROVE ProjectInv'
      <3>1. UNCHANGED projectVars /\ \A u \in Turns : turn'[u].project = turn[u].project
        BY <2>3 DEF Answer, Untouched, ActorInv
      <3> QED BY <3>1, ProjectsQuiet
    <2>4. CASE RecordAnswered(t)
      <3>1. /\ turn[t].session \in Sessions /\ Over(t)
            /\ UNCHANGED projectVars \/ Recording(t, turn[t].outcome)
        BY <2>4 DEF RecordAnswered, Untouched, ActorInv
      <3> QED BY <3>1, OverProjects, ProjectsQuiet, RecordedProjects
    <2>5. CASE Leave(t)
      <3>1. UNCHANGED projectVars /\ \A u \in Turns : turn'[u].project = turn[u].project
        BY <2>5 DEF Leave, ActorInv
      <3> QED BY <3>1, ProjectsQuiet
    <2>6. CASE Cancel(t)
      <3>1. /\ turn[t].session \in Sessions /\ Over(t)
            /\ UNCHANGED projectVars \/ \E o \in {"stop", "empty"} : Recording(t, o)
        BY <2>6 DEF Cancel, Untouched, ActorInv
      <3> QED BY <3>1, OverProjects, ProjectsQuiet, RecordedProjects
    <2>7. CASE RunWrites(t)
      BY <1>1, <2>7 DEF RunWrites
    <2> QED BY <1>2, <2>1, <2>2, <2>3, <2>4, <2>5, <2>6, <2>7 DEF TurnStep
  <1>3. ASSUME NEW t \in Turns, Background(t) PROVE ProjectInv'
    BY <1>1, <1>3 DEF Background, TitleBegin, TitleEnd, Reflect
  <1>4. ASSUME NEW s \in Sessions, DeleteSession(s) PROVE ProjectInv'
    <2>1. UNCHANGED <<projects, gone, doc, filed, crossed, turn>> /\ member' = [member EXCEPT ![s] = None]
      BY <1>4 DEF DeleteSession, Unbind
    <2> QED BY <2>1 DEF ProjectInv, Nameable
  <1>5. CASE EditProjects
    <2>1. turn' = turn
      BY <1>5 DEF EditProjects
    <2>2. ASSUME NEW p, AddProject(p) PROVE ProjectInv'
      BY <2>1, <2>2 DEF AddProject, ProjectInv, Nameable
    <2>3. ASSUME NEW p, DeleteProject(p, \E t \in Turns : turn[t].project = p) PROVE ProjectInv'
      <3>1. /\ projects' = projects \ {p}
            /\ doc' = [d \in Docs |-> IF doc[d] = p THEN None ELSE doc[d]]
            /\ member' = [s \in Sessions |-> IF member[s] = p THEN None ELSE member[s]]
            /\ crossed \subseteq crossed'
            /\ (\E t \in Turns : turn[t].project = p) => p \in crossed'
        BY <2>3 DEF DeleteProject
      <3>2. \A t \in Turns : turn'[t].project \in Nameable' \cup crossed'
        BY <2>1, <3>1 DEF ProjectInv, Nameable
      <3> QED BY <3>1, <3>2 DEF ProjectInv, Nameable
    <2>4. ASSUME NEW d, NEW p, AddDoc(d, p) PROVE ProjectInv'
      BY <2>1, <2>4 DEF AddDoc, ProjectInv, Nameable
    <2>5. ASSUME NEW d, DeleteDoc(d) PROVE ProjectInv'
      BY <2>1, <2>5 DEF DeleteDoc, ProjectInv, Nameable
    <2> QED BY <1>5, <2>2, <2>3, <2>4, <2>5 DEF EditProjects
  <1>6. CASE Crash
    <2>1. \A u \in Turns : turn'[u].project \in {turn[u].project, None}
      <3>1. turn' = [t \in Turns |-> IF turn[t].pc = "unused" THEN turn[t]
                                     ELSE [Unused EXCEPT !.pc = "over"]]
        BY <1>6 DEF Crash
      <3> QED BY <3>1 DEF Unused
    <2>2. \/ UNCHANGED projectVars
          \/ \E t \in Turns : /\ turn[t].session \in Sessions
                               /\ Bind(turn[t].session, turn[t].project)
      BY <1>6 DEF Crash, ActorInv
    <2> QED BY <2>1, <2>2, ProjectsQuiet, BoundProjects
  <1>7. ASSUME NEW k \in Skills, PutSkill(k) \/ DeleteSkill(k) PROVE ProjectInv'
    BY <1>1, <1>7 DEF PutSkill, DeleteSkill
  <1>8. CASE Edit
    BY <1>1, <1>8 DEF Edit
  <1>9. CASE UNCHANGED vars
    BY <1>1, <1>9 DEF vars, archiveVars
  <1> QED BY <1>2, <1>3, <1>4, <1>5, <1>6, <1>7, <1>8, <1>9 DEF Next, People

\* No memory cites a session that is not archived, and no document or session is
\* of a project that is gone unless a turn carried it over, however writes,
\* deletes, reflections, turns and crashes interleave.
THEOREM ReferencesHold == Spec => []ReferencesExist
  <1>1. ArchiveInit => ActorInv /\ MemoryInv /\ SourceInv /\ ProjectInv
    <2>1. ASSUME ArchiveInit PROVE SourceInv
      <3>1. noted = {} /\ \A n \in Names : mirror[n] = None
        BY <2>1 DEF ArchiveInit, MemoryInit, Mirrored
      <3> QED BY <3>1 DEF SourceInv, Cites
    <2>2. ASSUME ArchiveInit PROVE ProjectInv
      BY <2>2 DEF ArchiveInit, ProjectsInit, ProjectInv, Nameable, Unused
    <2> QED BY <2>1, <2>2, ActorsBegin, MemoryBegins DEF ArchiveInit
  <1>2. (ActorInv /\ MemoryInv /\ SourceInv /\ ProjectInv) /\ [Next]_vars =>
          (ActorInv /\ MemoryInv /\ SourceInv /\ ProjectInv)'
    BY ActorsStay, MemorySteps, MemoryKept, SourcesStay, ProjectsStay
  <1>3. MemoryInv /\ SourceInv /\ ProjectInv => ReferencesExist
    BY SourcesAreCited DEF MemoryInv, ProjectInv, ReferencesExist
  <1> QED BY <1>1, <1>2, <1>3, PTL DEF Spec

-----------------------------------------------------------------------------
(* Titles. *)

\* A step that gives no session a title and starts no titler of a titled one.
LEMMA TitlesQuiet ==
  ASSUME OnlyRivalsRetitle, ActorInv, rivals' = rivals,
         \A s \in Sessions : Titled(s)' => Titled(s),
         \A s \in Sessions : Titled(s) => At(s, "generating")' \subseteq At(s, "generating")
  PROVE  OnlyRivalsRetitle'
  BY DEF OnlyRivalsRetitle

LEMMA RivalsStay ==
  ASSUME OnlyRivalsRetitle, ActorInv, [Next]_vars
  PROVE  OnlyRivalsRetitle'
  <1>0. None # Untitled
    BY ArchiveAssumption DEF ArchiveAssumption, Untitled
  <1>1. ASSUME UNCHANGED <<session, titler, rivals>> PROVE OnlyRivalsRetitle'
    BY <1>1 DEF OnlyRivalsRetitle, Titled, At
  <1>2. ASSUME NEW t \in Turns, NEW o, Recording(t, o), turn[t].session \in Sessions
        PROVE  OnlyRivalsRetitle'
    <2> DEFINE r == turn[t].session
    <2>1. PICK x \in {None, [session |-> r, at |-> "scheduled"]} :
            /\ titler' = [titler EXCEPT ![t] = x] /\ rivals' = rivals
            /\ session' = [session EXCEPT ![r] = Ensured(r)]
      BY <1>2, Recorded
    <2>2. \A s \in Sessions : Titled(s)' => Titled(s)
      BY <1>0, <2>1 DEF Titled, Ensured, ActorInv
    <2>3. \A s : At(s, "generating")' \subseteq At(s, "generating")
      BY <2>1 DEF At, ActorInv
    <2> QED BY <2>1, <2>2, <2>3, TitlesQuiet
  <1>3. ASSUME NEW t \in Turns, TurnStep(t) PROVE OnlyRivalsRetitle'
    <2>1. CASE \E s \in Sessions, path \in left.paths, p \in Nameable : Begin(t, s, path, p)
      BY <1>1, <2>1 DEF Begin
    <2>2. ASSUME NEW o, Finish(t, o) PROVE OnlyRivalsRetitle'
      BY <1>1, <1>2, <2>2 DEF Finish, Untouched, ActorInv
    <2>3. ASSUME NEW o, Answer(t, o) PROVE OnlyRivalsRetitle'
      BY <1>1, <2>3 DEF Answer, Untouched
    <2>4. CASE RecordAnswered(t)
      BY <1>1, <1>2, <2>4 DEF RecordAnswered, Untouched, ActorInv
    <2>5. CASE Leave(t)
      BY <1>1, <2>5 DEF Leave
    <2>6. CASE Cancel(t)
      BY <1>1, <1>2, <2>6 DEF Cancel, Untouched, ActorInv
    <2>7. CASE RunWrites(t)
      BY <1>1, <2>7 DEF RunWrites
    <2> QED BY <1>3, <2>1, <2>2, <2>3, <2>4, <2>5, <2>6, <2>7 DEF TurnStep
  <1>4. ASSUME NEW t \in Turns, TitleBegin(t) PROVE OnlyRivalsRetitle'
    <2>1. PICK x \in {None, [session |-> titler[t].session, at |-> "generating"]} :
            /\ titler' = [titler EXCEPT ![t] = x]
            /\ x # None => session[titler[t].session] = Untitled
      BY <1>4 DEF TitleBegin
    <2>2. UNCHANGED <<session, rivals>>
      BY <1>4 DEF TitleBegin
    <2>3. \A s \in Sessions : Titled(s) => At(s, "generating")' \subseteq At(s, "generating")
      BY <2>1 DEF At, Titled, ActorInv
    <2> QED BY <2>2, <2>3, TitlesQuiet DEF Titled
  <1>5. ASSUME NEW t \in Turns, NEW good \in BOOLEAN, TitleEnd(t, good) PROVE OnlyRivalsRetitle'
    <2> DEFINE r == titler[t].session
    <2>1. titler' = [titler EXCEPT ![t] = None]
      BY <1>5 DEF TitleEnd
    <2>2. \A s : At(s, "generating")' \subseteq At(s, "generating") \ {t}
      BY <2>1 DEF At, ActorInv
    <2>3. CASE UNCHANGED <<session, rivals>>
      BY <2>2, <2>3, TitlesQuiet DEF Titled
    <2>4. CASE /\ session' = [session EXCEPT ![r] = t]
               /\ rivals' = [rivals EXCEPT ![r] = At(r, "generating") \ {t}]
      <3>1. \A s \in Sessions \ {r} : session'[s] = session[s] /\ rivals'[s] = rivals[s]
        BY <2>4 DEF ActorInv
      <3>2. r \in Sessions => rivals'[r] = At(r, "generating") \ {t}
        BY <2>4 DEF ActorInv
      <3> QED BY <2>2, <3>1, <3>2 DEF OnlyRivalsRetitle, Titled
    <2> QED BY <1>5, <2>3, <2>4 DEF TitleEnd
  <1>6. ASSUME NEW t \in Turns, Reflect(t) PROVE OnlyRivalsRetitle'
    BY <1>1, <1>6 DEF Reflect
  <1>7. ASSUME NEW u \in Sessions, DeleteSession(u) PROVE OnlyRivalsRetitle'
    <2>1. /\ session' = [session EXCEPT ![u] = None] /\ rivals' = [rivals EXCEPT ![u] = {}]
          /\ titler' = titler
      BY <1>7 DEF DeleteSession
    <2>2. session'[u] = None /\ \A s \in Sessions \ {u} : session'[s] = session[s] /\ rivals'[s] = rivals[s]
      BY <2>1 DEF ActorInv
    <2> QED BY <2>1, <2>2 DEF OnlyRivalsRetitle, Titled, At
  <1>8. CASE Crash
    <2>1. titler' = [t \in Turns |-> None]
      BY <1>8 DEF Crash
    <2>2. \A s : At(s, "generating")' = {}
      BY <2>1 DEF At
    <2> QED BY <2>2 DEF OnlyRivalsRetitle
  <1>9. CASE UNCHANGED vars
    BY <1>1, <1>9 DEF vars, archiveVars
  <1>10. ASSUME NEW k \in Skills, PutSkill(k) \/ DeleteSkill(k) PROVE OnlyRivalsRetitle'
    BY <1>1, <1>10 DEF PutSkill, DeleteSkill
  <1>11. CASE Edit
    BY <1>1, <1>11 DEF Edit
  <1>12. CASE EditProjects
    BY <1>1, <1>12 DEF EditProjects
  <1> QED
    BY <1>3, <1>4, <1>5, <1>6, <1>7, <1>8, <1>9, <1>10, <1>11, <1>12 DEF Next, Background, People

\* A title is only ever replaced by a titling that was at work when it was set.
THEOREM TitlesSettle == Spec => []OnlyRivalsRetitle
  <1>1. ArchiveInit => ActorInv /\ OnlyRivalsRetitle
    <2>1. ASSUME ArchiveInit PROVE OnlyRivalsRetitle
      <3>1. \A s \in Sessions : session[s] = None
        BY <2>1 DEF ArchiveInit
      <3> QED BY <3>1 DEF OnlyRivalsRetitle, Titled
    <2> QED BY <2>1, ActorsBegin
  <1>2. (ActorInv /\ OnlyRivalsRetitle) /\ [Next]_vars => (ActorInv /\ OnlyRivalsRetitle)'
    BY ActorsStay, RivalsStay
  <1> QED BY <1>1, <1>2, PTL DEF Spec

-----------------------------------------------------------------------------
(* Rows that a write drops. *)

LEMMA Least ==
  ASSUME NEW S \in SUBSET Nat, S # {}
  PROVE  \E m \in S : \A k \in S : m <= k
  <1> DEFINE R == {p \in Nat \X Nat : p[1] < p[2]}
  <1>1. IsWellFoundedOn(R, Nat)
    BY NatLessThanWellFounded DEF OpToRel
  <1> HIDE DEF R
  <1>2. PICK x \in S : \A y \in S : ~ (<<y, x>> \in R)
    BY <1>1, WFMin
  <1>3. ASSUME NEW y \in S PROVE x <= y
    <2>1. <<y, x>> \in R <=> y < x
      BY DEF R
    <2> QED BY <1>2, <2>1
  <1> QED BY <1>3

\* How many of the first j rows are not dropped.
Kept(dropped, j) == Cardinality((1..j) \ dropped)

LEMMA KeptCounts ==
  ASSUME NEW n \in Nat, NEW dropped \in SUBSET (1..n)
  PROVE  /\ \A j \in 0..n : Kept(dropped, j) \in Nat
         /\ Kept(dropped, 0) = 0
         /\ Kept(dropped, n) = n - Cardinality(dropped)
         /\ \A j \in 0..n - 1 : Kept(dropped, j + 1) =
              IF j + 1 \in dropped THEN Kept(dropped, j) ELSE Kept(dropped, j) + 1
         /\ \A j, k \in 0..n : j <= k => Kept(dropped, j) <= Kept(dropped, k)
         /\ Cardinality(dropped) \in 0..n
  <1>1. ASSUME NEW j \in Nat PROVE IsFiniteSet(1..j) /\ IsFiniteSet((1..j) \ dropped) /\ Cardinality(1..j) = j
    <2>1. 1 \in Int /\ j \in Int
      OBVIOUS
    <2>2. IsFiniteSet(1..j) /\ Cardinality(1..j) = IF 1 > j THEN 0 ELSE j - 1 + 1
      BY <2>1, FS_Interval
    <2>3. IsFiniteSet((1..j) \ dropped)
      BY <2>2, FS_Difference
    <2> QED BY <2>2, <2>3
  <1>2. \A j \in 0..n : Kept(dropped, j) \in Nat
    BY <1>1, FS_CardinalityType DEF Kept
  <1>3. Kept(dropped, 0) = 0
    <2>1. (1..0) \ dropped = {}
      OBVIOUS
    <2> QED BY <2>1, FS_EmptySet DEF Kept
  <1>4. Cardinality(1..n) = n /\ IsFiniteSet(dropped) /\ Cardinality(dropped) \in Nat
    <2>1. IsFiniteSet(dropped)
      BY <1>1, FS_Subset
    <2> QED BY <1>1, <2>1, FS_CardinalityType
  <1>5. Kept(dropped, n) = n - Cardinality(dropped)
    <2>1. (1..n) \cap dropped = dropped
      OBVIOUS
    <2>2. Cardinality((1..n) \ dropped) = Cardinality(1..n) - Cardinality((1..n) \cap dropped)
      BY <1>1, FS_Difference
    <2>3. Cardinality((1..n) \ dropped) = n - Cardinality(dropped)
      BY <1>4, <2>1, <2>2
    <2> QED BY <2>3 DEF Kept
  <1>6. ASSUME NEW j \in 0..n - 1
        PROVE  Kept(dropped, j + 1) = IF j + 1 \in dropped THEN Kept(dropped, j) ELSE Kept(dropped, j) + 1
    <2>1. 1..j + 1 = (1..j) \cup {j + 1}
      OBVIOUS
    <2>2. CASE j + 1 \in dropped
      <3>1. (1..j + 1) \ dropped = (1..j) \ dropped
        BY <2>1, <2>2
      <3>2. Kept(dropped, j + 1) = Kept(dropped, j)
        BY <3>1, Zenon DEF Kept
      <3> QED BY <2>2, <3>2
    <2>3. CASE j + 1 \notin dropped
      <3>1. (1..j + 1) \ dropped = ((1..j) \ dropped) \cup {j + 1} /\ j + 1 \notin (1..j) \ dropped
        BY <2>1, <2>3
      <3>2. Cardinality(((1..j) \ dropped) \cup {j + 1}) = Cardinality((1..j) \ dropped) + 1
        <4>1. IsFiniteSet((1..j) \ dropped)
          BY <1>1
        <4>2. j + 1 \notin (1..j) \ dropped
          BY <3>1
        <4> HIDE <1>1, <3>1
        <4> QED BY <4>1, <4>2, FS_AddElement
      <3>3. Kept(dropped, j + 1) = Kept(dropped, j) + 1
        BY <3>1, <3>2, Zenon DEF Kept
      <3> QED BY <2>3, <3>3
    <2> QED BY <2>2, <2>3
  <1>7. ASSUME NEW j \in 0..n, NEW k \in 0..n, j <= k PROVE Kept(dropped, j) <= Kept(dropped, k)
    <2>1. (1..j) \ dropped \in SUBSET ((1..k) \ dropped)
      BY <1>7
    <2> QED BY <1>1, <2>1, FS_Subset DEF Kept
  <1>8. Cardinality(dropped) \in 0..n
    BY <1>2, <1>4, <1>5
  <1> QED BY <1>2, <1>3, <1>5, <1>6, <1>7, <1>8

\* The i-th row that is kept: there is one, and it is the only one.
LEMMA KeptAt ==
  ASSUME NEW n \in Nat, NEW dropped \in SUBSET (1..n), NEW i \in 1..n - Cardinality(dropped)
  PROVE  \E j \in (1..n) \ dropped : Kept(dropped, j) = i
  <1> DEFINE S == {j \in 0..n : Kept(dropped, j) >= i}
  <1>1. n \in S
    <2>1. Kept(dropped, n) = n - Cardinality(dropped) /\ Cardinality(dropped) \in 0..n
      BY KeptCounts
    <2> QED BY <2>1
  <1>2. PICK j \in S : \A k \in S : j <= k
    <2>1. S \in SUBSET Nat /\ S # {}
      BY <1>1
    <2> HIDE DEF S
    <2> QED BY <2>1, Least
  <1>3. j # 0 /\ j - 1 \in 0..n - 1 /\ j - 1 \notin S
    BY <1>2, KeptCounts
  <1>4. Kept(dropped, j - 1) < i /\ Kept(dropped, j - 1) \in Nat /\ Kept(dropped, j) \in Nat
    BY <1>3, KeptCounts
  <1>5. Kept(dropped, j) = IF j \in dropped THEN Kept(dropped, j - 1) ELSE Kept(dropped, j - 1) + 1
    <2>1. PICK k \in 0..n - 1 : k = j - 1
      BY <1>3
    <2>2. Kept(dropped, k + 1) = IF k + 1 \in dropped THEN Kept(dropped, k) ELSE Kept(dropped, k) + 1
      BY KeptCounts
    <2> QED BY <2>1, <2>2
  <1>6. Kept(dropped, j) = i /\ j \notin dropped
    BY <1>2, <1>4, <1>5
  <1> QED BY <1>3, <1>6

-----------------------------------------------------------------------------
(* Transcripts, requests and windows. *)

Rising(h) == \A i, j \in 1..Len(h) : i < j => Position(h[i]) < Position(h[j])
Closed(h) == h # <<>> => Last(h).role = "assistant"
Until(h, t) == \A i \in 1..Len(h) : h[i].turn <= t
Before(h, t) == \A i \in 1..Len(h) : h[i].turn < t

\* What a client holds of a conversation.
Dialogue(s, h) ==
  /\ h \in Seq(Message)
  /\ Rising(h)
  /\ s \in Chats =>
       /\ Len(h) <= Window
       /\ \A i \in 1..Len(h) - 1 : h[i].role # h[i + 1].role

\* The request of a turn: an answered conversation and its question.
Asks(s, h, t) ==
  /\ Dialogue(s, h) /\ h # <<>> /\ Last(h) = Asked(t)
  /\ Closed(Front(h)) /\ Until(h, t)

LEMMA Positions ==
  /\ \A m \in Message : Position(m) \in Nat /\ 3 * m.turn <= Position(m) /\ Position(m) <= 3 * m.turn + 2
  /\ \A m, n \in Message : m.turn < n.turn => Position(m) < Position(n)
  <1>0. Turns \subseteq Nat
    BY ArchiveAssumption DEF ArchiveAssumption, Turns
  <1>1. ASSUME NEW m \in Message
        PROVE  m.turn \in Nat /\ Position(m) \in Nat /\ 3 * m.turn <= Position(m) /\ Position(m) <= 3 * m.turn + 2
    <2>1. m.turn \in Nat /\ m.role \in {"user", "tool", "assistant"}
      BY <1>0 DEF Message
    <2>2. CASE m.role = "user"
      BY <2>1, <2>2 DEF Position
    <2>3. CASE m.role = "tool"
      BY <2>1, <2>3 DEF Position
    <2>4. CASE m.role = "assistant"
      BY <2>1, <2>4 DEF Position
    <2> QED BY <2>1, <2>2, <2>3, <2>4
  <1>2. ASSUME NEW m \in Message, NEW n \in Message, m.turn < n.turn PROVE Position(m) < Position(n)
    BY <1>1, <1>2
  <1> QED BY <1>1, <1>2

LEMMA MessageTypes ==
  ASSUME NEW t \in Turns
  PROVE  /\ Asked(t) \in Message /\ Answered(t) \in Message
         /\ [role |-> "tool", turn |-> t] \in Message
         /\ Position(Asked(t)) = 3 * t /\ Position(Answered(t)) = 3 * t + 2
         /\ Position([role |-> "tool", turn |-> t]) = 3 * t + 1
         /\ t \in Nat
  BY ArchiveAssumption DEF ArchiveAssumption, Turns, Asked, Answered, Message, Position

\* Two rising sequences, one before the other.
LEMMA RisingConcat ==
  ASSUME NEW a \in Seq(Message), NEW b \in Seq(Message), Rising(a), Rising(b),
         \A i \in 1..Len(a), j \in 1..Len(b) : Position(a[i]) < Position(b[j])
  PROVE  a \o b \in Seq(Message) /\ Rising(a \o b)
  <1> DEFINE c == a \o b
  <1>1. /\ c \in Seq(Message) /\ Len(c) = Len(a) + Len(b)
        /\ Len(a) \in Nat /\ Len(b) \in Nat
        /\ \A i \in 1..Len(c) : c[i] = IF i <= Len(a) THEN a[i] ELSE b[i - Len(a)]
    BY ConcatProperties
  <1>2. ASSUME NEW i \in 1..Len(c), NEW j \in 1..Len(c), i < j PROVE Position(c[i]) < Position(c[j])
    <2>1. CASE j <= Len(a)
      BY <1>1, <1>2, <2>1 DEF Rising
    <2>2. CASE i > Len(a)
      BY <1>1, <1>2, <2>2 DEF Rising
    <2>3. CASE i <= Len(a) /\ j > Len(a)
      BY <1>1, <1>2, <2>3
    <2> QED BY <1>1, <2>1, <2>2, <2>3
  <1> QED BY <1>1, <1>2 DEF Rising

\* Part of a rising sequence.
LEMMA RisingPart ==
  ASSUME NEW h \in Seq(Message), Rising(h), NEW a \in 1..Len(h) + 1, NEW b \in 0..Len(h)
  PROVE  /\ SubSeq(h, a, b) \in Seq(Message) /\ Rising(SubSeq(h, a, b))
         /\ \A i \in 1..Len(SubSeq(h, a, b)) : \E j \in 1..Len(h) : SubSeq(h, a, b)[i] = h[j]
  <1> DEFINE g == SubSeq(h, a, b)
  <1>1. /\ Len(g) = IF a <= b THEN b - a + 1 ELSE 0
        /\ g \in Seq(Message)
        /\ \A i \in 1..Len(g) : g[i] = h[a + i - 1]
    BY SubSeqProperties
  <1>2. \A i \in 1..Len(g) : a + i - 1 \in 1..Len(h)
    BY <1>1
  <1>3. ASSUME NEW i \in 1..Len(g), NEW j \in 1..Len(g), i < j PROVE Position(g[i]) < Position(g[j])
    BY <1>1, <1>2, <1>3 DEF Rising
  <1> HIDE DEF g
  <1>4. Rising(g)
    BY <1>3 DEF Rising
  <1> QED BY <1>1, <1>2, <1>4 DEF g

LEMMA FunctionIsSeq ==
  ASSUME NEW n \in Nat, NEW S, NEW f \in [1..n -> S]
  PROVE  f \in Seq(S) /\ Len(f) = n
  <1>1. f \in Seq(S)
    BY SeqDef
  <1>2. DOMAIN f = 1..n /\ DOMAIN f = 1..Len(f) /\ Len(f) \in Nat
    BY <1>1, LenProperties
  <1> QED BY <1>1, <1>2

\* The rows of h that are written.
Written(h, dropped) ==
  [i \in 1..(Len(h) - Cardinality(dropped)) |->
     h[CHOOSE j \in 1..Len(h) \ dropped : Cardinality((1..j) \ dropped) = i]]

\* Rows that are dropped leave the others in their order.
LEMMA KeptRows ==
  ASSUME NEW h \in Seq(Message), Rising(h), NEW dropped \in SUBSET (1..Len(h)),
         NEW c, c = Written(h, dropped)
  PROVE  /\ c \in Seq(Message) /\ Rising(c)
         /\ \A i \in 1..Len(c) : \E j \in 1..Len(h) : c[i] = h[j]
  <1> DEFINE n == Len(h)
             k == n - Cardinality(dropped)
             at(i) == CHOOSE j \in 1..n \ dropped : Cardinality((1..j) \ dropped) = i
  <1>1. n \in Nat /\ k \in 0..n
    BY KeptCounts
  <1>2. ASSUME NEW i \in 1..k PROVE at(i) \in 1..n /\ Kept(dropped, at(i)) = i
    <2>1. \E j \in (1..n) \ dropped : Cardinality((1..j) \ dropped) = i
      <3>1. \E j \in (1..n) \ dropped : Kept(dropped, j) = i
        BY <1>1, KeptAt
      <3> QED BY <3>1, Zenon DEF Kept
    <2>2. at(i) \in (1..n) \ dropped /\ Cardinality((1..at(i)) \ dropped) = i
      BY <2>1, Zenon
    <2> QED BY <2>2, Zenon DEF Kept
  <1>3. c = [i \in 1..k |-> h[at(i)]]
    BY DEF Written
  <1> HIDE DEF at
  <1>4. \A i \in 1..k : h[at(i)] \in Message
    BY <1>2
  <1>5. c \in Seq(Message) /\ Len(c) = k /\ \A i \in 1..k : c[i] = h[at(i)]
    <2>1. c \in [1..k -> Message]
      BY <1>3, <1>4
    <2> HIDE DEF k, n
    <2>2. c \in Seq(Message) /\ Len(c) = k
      <3>1. k \in Nat
        BY <1>1
      <3> HIDE <1>1
      <3> QED BY <3>1, <2>1, FunctionIsSeq
    <2> QED BY <1>3, <2>2
  <1>6. ASSUME NEW i \in 1..k, NEW j \in 1..k, i < j PROVE at(i) < at(j)
    <2>1. SUFFICES ASSUME at(j) <= at(i) PROVE FALSE
      BY <1>2
    <2>2. Kept(dropped, at(j)) <= Kept(dropped, at(i))
      BY <1>1, <1>2, <2>1, KeptCounts
    <2> QED BY <1>2, <1>6, <2>2
  <1>7. ASSUME NEW i \in 1..k, NEW j \in 1..k, i < j PROVE Position(c[i]) < Position(c[j])
    BY <1>2, <1>5, <1>6, <1>7 DEF Rising
  <1> QED BY <1>2, <1>5, <1>7 DEF Rising

-----------------------------------------------------------------------------
(* What a client does with its window. *)

LEMMA AppendRises ==
  ASSUME NEW h \in Seq(Message), Rising(h), NEW m \in Message,
         \A i \in 1..Len(h) : Position(h[i]) < Position(m)
  PROVE  /\ Append(h, m) \in Seq(Message) /\ Rising(Append(h, m))
         /\ Last(Append(h, m)) = m /\ Front(Append(h, m)) = h /\ Append(h, m) # <<>>
         /\ Len(Append(h, m)) = Len(h) + 1
         /\ \A i \in 1..Len(h) + 1 : Append(h, m)[i] = IF i <= Len(h) THEN h[i] ELSE m
  <1> DEFINE g == Append(h, m)
  <1>1. /\ g \in Seq(Message) /\ Len(g) = Len(h) + 1 /\ Len(h) \in Nat
        /\ \A i \in 1..Len(h) + 1 : g[i] = IF i <= Len(h) THEN h[i] ELSE m
    BY AppendProperties
  <1>2. ASSUME NEW i \in 1..Len(g), NEW j \in 1..Len(g), i < j PROVE Position(g[i]) < Position(g[j])
    BY <1>1, <1>2 DEF Rising
  <1>3. Front(g) = h
    <2>1. Len(g) - 1 = Len(h)
      BY <1>1
    <2>2. SubSeq(g, 1, Len(h)) = h
      BY <1>1
    <2> QED BY <2>1, <2>2 DEF Front
  <1>4. Rising(g)
    BY <1>2 DEF Rising
  <1>5. Last(g) = m /\ g # <<>>
    <2>1. Len(g) = Len(h) + 1 /\ g[Len(h) + 1] = m /\ Len(h) \in Nat
      BY <1>1
    <2> HIDE DEF g
    <2> QED BY <2>1 DEF Last
  <1> HIDE DEF g
  <1>6. /\ g \in Seq(Message) /\ Rising(g) /\ Last(g) = m /\ Front(g) = h /\ g # <<>>
        /\ Len(g) = Len(h) + 1
        /\ \A i \in 1..Len(h) + 1 : g[i] = IF i <= Len(h) THEN h[i] ELSE m
    BY <1>1, <1>3, <1>4, <1>5
  <1> QED BY <1>6 DEF g

\* The window before a message is pushed: less its oldest one if it is full.
Room(s, h) == IF s \in Chats /\ Len(h) = Window THEN Tail(h) ELSE h

LEMMA RoomIsDialogue ==
  ASSUME NEW s \in Sessions, NEW h, Dialogue(s, h)
  PROVE  /\ Dialogue(s, Room(s, h))
         /\ s \in Chats => Len(Room(s, h)) + 1 <= Window
         /\ Room(s, h) # <<>> => h # <<>> /\ Last(Room(s, h)) = Last(h)
         /\ \A i \in 1..Len(Room(s, h)) : \E j \in 1..Len(h) : Room(s, h)[i] = h[j]
  <1>1. CASE ~(s \in Chats /\ Len(h) = Window)
    <2>1. Room(s, h) = h
      BY <1>1 DEF Room
    <2>2. Len(h) \in Nat /\ Window \in Nat
      BY ArchiveAssumption DEF ArchiveAssumption, Dialogue
    <2> QED BY <1>1, <2>1, <2>2 DEF Dialogue
  <1>2. CASE s \in Chats /\ Len(h) = Window
    <2> DEFINE g == Tail(h)
    <2>1. h # <<>> /\ h \in Seq(Message) /\ Window \in Nat
      BY <1>2, ArchiveAssumption DEF ArchiveAssumption, Dialogue
    <2>2. /\ g \in Seq(Message) /\ Len(g) = Len(h) - 1 /\ Len(h) \in Nat \ {0}
          /\ \A i \in 1..Len(g) : g[i] = h[i + 1] /\ i + 1 \in 1..Len(h)
      BY <2>1, HeadTailProperties
    <2>3. Rising(g)
      <3>1. ASSUME NEW i \in 1..Len(g), NEW j \in 1..Len(g), i < j PROVE Position(g[i]) < Position(g[j])
        BY <2>2, <3>1 DEF Dialogue, Rising
      <3> QED BY <3>1 DEF Rising
    <2>4. \A i \in 1..Len(g) - 1 : g[i].role # g[i + 1].role
      BY <1>2, <2>2 DEF Dialogue
    <2>5. g # <<>> => Last(g) = Last(h)
      BY <2>2 DEF Last
    <2>6. Room(s, h) = g
      BY <1>2 DEF Room
    <2> HIDE DEF g
    <2>7. Len(g) + 1 <= Window
      BY <1>2, <2>1, <2>2
    <2>8. Dialogue(s, g)
      BY <2>1, <2>2, <2>3, <2>4, <2>7 DEF Dialogue
    <2> QED BY <2>1, <2>2, <2>5, <2>6, <2>7, <2>8
  <1> QED BY <1>1, <1>2

LEMMA PushIsAppend == \A s, h, m : Push(s, h, m) = Append(Room(s, h), m)
  BY DEF Push, Room

\* A question to a conversation that was answered.
LEMMA PushAsks ==
  ASSUME NEW s \in Sessions, NEW h, Dialogue(s, h), Closed(h), NEW t \in Turns, Before(h, t)
  PROVE  Asks(s, Push(s, h, Asked(t)), t)
  <1> DEFINE r == Room(s, h)
             g == Append(r, Asked(t))
  <1>1. /\ Dialogue(s, r) /\ Closed(r) /\ Before(r, t) /\ r \in Seq(Message) /\ Rising(r)
        /\ s \in Chats => Len(r) + 1 <= Window
    <2>1. /\ Dialogue(s, r)
          /\ s \in Chats => Len(r) + 1 <= Window
          /\ r # <<>> => h # <<>> /\ Last(r) = Last(h)
          /\ \A i \in 1..Len(r) : \E j \in 1..Len(h) : r[i] = h[j]
      BY RoomIsDialogue
    <2> HIDE DEF r
    <2>2. Closed(r) /\ Before(r, t)
      BY <2>1 DEF Closed, Before
    <2> QED BY <2>1, <2>2 DEF Dialogue
  <1>2. Asked(t) \in Message /\ Asked(t).turn = t /\ Asked(t).role = "user" /\ t \in Nat
    BY MessageTypes DEF Asked
  <1> HIDE DEF r
  <1>3. \A i \in 1..Len(r) : Position(r[i]) < Position(Asked(t))
    BY <1>1, <1>2, Positions DEF Before
  <1>4. /\ g \in Seq(Message) /\ Rising(g) /\ Last(g) = Asked(t) /\ Front(g) = r /\ g # <<>>
        /\ Len(g) = Len(r) + 1 /\ Len(r) \in Nat
        /\ \A i \in 1..Len(r) + 1 : g[i] = IF i <= Len(r) THEN r[i] ELSE Asked(t)
    BY <1>1, <1>2, <1>3, AppendRises
  <1> HIDE DEF g
  <1>5. Until(g, t)
    <2>1. ASSUME NEW i \in 1..Len(g) PROVE g[i].turn <= t
      <3>1. CASE i <= Len(r)
        <4>1. r[i].turn < t /\ r[i] \in Message
          BY <1>1, <1>4, <3>1 DEF Before
        <4>2. r[i].turn \in Nat
          BY <4>1, ArchiveAssumption DEF Message, Turns, ArchiveAssumption
        <4> QED BY <1>2, <1>4, <3>1, <4>1, <4>2
      <3>2. CASE i > Len(r)
        BY <1>2, <1>4, <3>2
      <3> QED BY <1>4, <3>1, <3>2
    <2> QED BY <2>1 DEF Until
  <1>6. ASSUME s \in Chats, NEW i \in 1..Len(g) - 1 PROVE g[i].role # g[i + 1].role
    <2>1. CASE i < Len(r)
      BY <1>1, <1>4, <1>6, <2>1 DEF Dialogue
    <2>2. CASE i = Len(r)
      <3>1. r[i].role = "assistant"
        BY <1>1, <1>6, <1>4, <2>2 DEF Closed, Last
      <3> QED BY <1>2, <1>4, <2>2, <3>1
    <2> QED BY <1>4, <2>1, <2>2
  <1>7. Asks(s, g, t)
    BY <1>1, <1>4, <1>5, <1>6 DEF Asks, Dialogue
  <1> QED BY <1>7, PushIsAppend DEF g, r

\* An answer to a question.
LEMMA AnswerCloses ==
  ASSUME NEW s \in Sessions, NEW t \in Turns, NEW h \in Seq(Message), Rising(h), Until(h, t),
         h # <<>> => Last(h) = Asked(t)
  PROVE  LET g == Append(h, Answered(t))
         IN  g \in Seq(Message) /\ Rising(g) /\ Closed(g) /\ Until(g, t)
  <1> DEFINE g == Append(h, Answered(t))
  <1>1. Answered(t) \in Message /\ Answered(t).turn = t /\ Answered(t).role = "assistant" /\ t \in Nat
    BY MessageTypes DEF Answered
  <1>2. Len(h) \in Nat /\ \A i \in 1..Len(h) : h[i] \in Message
    OBVIOUS
  <1>3. ASSUME NEW i \in 1..Len(h) PROVE Position(h[i]) < Position(Answered(t))
    <2>1. Position(Answered(t)) = 3 * t + 2 /\ Position(Asked(t)) = 3 * t
      BY MessageTypes
    <2>2. h # <<>> /\ h[Len(h)] = Asked(t)
      BY <1>3 DEF Last
    <2>3. CASE i = Len(h)
      BY <1>1, <2>1, <2>2, <2>3
    <2>4. CASE i < Len(h)
      <3>1. Position(h[i]) < Position(h[Len(h)]) /\ Position(h[i]) \in Nat
        BY <1>2, <2>4, Positions DEF Rising
      <3> QED BY <1>1, <2>1, <2>2, <3>1
    <2> QED BY <1>2, <2>3, <2>4
  <1>4. /\ g \in Seq(Message) /\ Rising(g) /\ Last(g) = Answered(t) /\ g # <<>>
        /\ Len(g) = Len(h) + 1
        /\ \A i \in 1..Len(h) + 1 : g[i] = IF i <= Len(h) THEN h[i] ELSE Answered(t)
    BY <1>1, <1>3, AppendRises
  <1> HIDE DEF g
  <1>5. Until(g, t)
    BY <1>1, <1>2, <1>4 DEF Until
  <1>6. Closed(g)
    BY <1>1, <1>4 DEF Closed
  <1> QED BY <1>4, <1>5, <1>6 DEF g

LEMMA AppendAnswers ==
  ASSUME NEW s \in Sessions, s \notin Chats, NEW t \in Turns, NEW h, Asks(s, h, t)
  PROVE  LET g == Append(h, Answered(t)) IN Dialogue(s, g) /\ Closed(g) /\ Until(g, t)
  BY AnswerCloses DEF Asks, Dialogue

LEMMA PushAnswers ==
  ASSUME NEW s \in Sessions, s \in Chats, NEW t \in Turns, NEW h, Asks(s, h, t)
  PROVE  LET g == Push(s, h, Answered(t)) IN Dialogue(s, g) /\ Closed(g) /\ Until(g, t)
  <1> DEFINE r == Room(s, h)
             g == Append(r, Answered(t))
  <1>1. /\ Dialogue(s, r) /\ r \in Seq(Message) /\ Rising(r) /\ Until(r, t)
        /\ r # <<>> => Last(r) = Asked(t)
        /\ Len(r) + 1 <= Window /\ Len(r) \in Nat
    <2>1. Dialogue(s, h) /\ h # <<>> /\ Last(h) = Asked(t) /\ Until(h, t)
      BY DEF Asks
    <2>2. /\ Dialogue(s, r) /\ Len(r) + 1 <= Window
          /\ r # <<>> => Last(r) = Last(h)
          /\ \A i \in 1..Len(r) : \E j \in 1..Len(h) : r[i] = h[j]
      BY <2>1, RoomIsDialogue
    <2> HIDE DEF r
    <2>3. Until(r, t)
      BY <2>1, <2>2 DEF Until
    <2> QED BY <2>1, <2>2, <2>3 DEF Dialogue
  <1> HIDE DEF r
  <1>2. g \in Seq(Message) /\ Rising(g) /\ Closed(g) /\ Until(g, t)
    BY <1>1, AnswerCloses
  <1>3. Len(g) = Len(r) + 1 /\ \A i \in 1..Len(g) : g[i] = IF i <= Len(r) THEN r[i] ELSE Answered(t)
    BY <1>1, MessageTypes, AppendProperties
  <1> HIDE DEF g
  <1>4. ASSUME NEW i \in 1..Len(g) - 1 PROVE g[i].role # g[i + 1].role
    <2>1. CASE i < Len(r)
      BY <1>1, <1>3, <2>1 DEF Dialogue
    <2>2. CASE i = Len(r)
      <3>1. r[i].role = "user"
        BY <1>1, <2>2 DEF Last, Asked
      <3>2. g[i] = r[i] /\ g[i + 1] = Answered(t)
        BY <1>1, <1>3, <2>2
      <3> QED BY <3>1, <3>2 DEF Answered
    <2> QED BY <1>1, <1>3, <2>1, <2>2
  <1>5. Dialogue(s, g)
    BY <1>1, <1>2, <1>3, <1>4 DEF Dialogue
  <1> QED BY <1>2, <1>5, PushIsAppend DEF g, r

LEMMA FrontIs ==
  ASSUME NEW h \in Seq(Message), Len(h) # 0
  PROVE  /\ Front(h) \in Seq(Message) /\ Len(Front(h)) = Len(h) - 1
         /\ \A i \in 1..Len(h) - 1 : Front(h)[i] = h[i]
  <1>1. PICK n \in Nat : n = Len(h) - 1
    OBVIOUS
  <1>2. n \in Int /\ 1 \in Int /\ \A i \in 1..n : h[i] \in Message
    BY <1>1
  <1>3. /\ SubSeq(h, 1, n) \in Seq(Message) /\ Len(SubSeq(h, 1, n)) = IF 1 <= n THEN n - 1 + 1 ELSE 0
        /\ \A i \in 1..n - 1 + 1 : SubSeq(h, 1, n)[i] = h[1 + i - 1]
    BY <1>2, SubSeqProperties
  <1> DEFINE g == SubSeq(h, 1, n)
  <1> HIDE DEF g
  <1>4. g \in Seq(Message) /\ Len(g) = n /\ \A i \in 1..n : g[i] = h[i]
    BY <1>1, <1>3 DEF g
  <1> QED BY <1>1, <1>4 DEF Front, g

\* A question that is forgotten.
LEMMA FrontCloses ==
  ASSUME NEW s \in Sessions, NEW t \in Turns, NEW h, Asks(s, h, t)
  PROVE  Dialogue(s, Front(h)) /\ Closed(Front(h)) /\ Until(Front(h), t)
  <1> DEFINE g == Front(h)
  <1>1. h \in Seq(Message) /\ Rising(h) /\ Until(h, t) /\ Closed(g) /\ Len(h) \in Nat \ {0}
    BY DEF Asks, Dialogue
  <1>2. /\ g \in Seq(Message) /\ Len(g) = Len(h) - 1
        /\ \A i \in 1..Len(g) : g[i] = h[i]
    BY <1>1, FrontIs
  <1> HIDE DEF g
  <1>3. Rising(g) /\ Until(g, t)
    BY <1>1, <1>2 DEF Rising, Until
  <1>4. s \in Chats => Len(g) <= Window /\ \A i \in 1..Len(g) - 1 : g[i].role # g[i + 1].role
    <2>1. s \in Chats => Len(h) <= Window /\ \A i \in 1..Len(h) - 1 : h[i].role # h[i + 1].role
      BY DEF Asks, Dialogue
    <2>2. Window \in Nat
      BY ArchiveAssumption DEF ArchiveAssumption
    <2> QED BY <1>1, <1>2, <2>1, <2>2
  <1> QED BY <1>1, <1>2, <1>3, <1>4 DEF Dialogue, g

-----------------------------------------------------------------------------
(* What is recorded. *)

LEMMA LastAssistant ==
  ASSUME NEW s, NEW t \in Turns, NEW r, Asks(s, r, t)
  PROVE  SelectLastInSeq(r, LAMBDA m : m.role = "assistant") = Len(r) - 1
  <1> DEFINE I == {i \in 1..Len(r) : r[i].role = "assistant"}
             n == Len(r) - 1
  <1>1. r \in Seq(Message) /\ r # <<>> /\ Len(r) \in Nat \ {0} /\ r[Len(r)].role = "user"
    BY DEF Asks, Dialogue, Last, Asked
  <1>2. n \in Nat /\ I \subseteq 0..n
    BY <1>1
  <1>3. n > 0 => n \in I
    <2>1. SUFFICES ASSUME n > 0 PROVE r[n].role = "assistant"
      BY <1>1
    <2>2. Len(Front(r)) = n /\ Front(r)[n] = r[n] /\ Front(r) # <<>>
      BY <1>1, <2>1, FrontIs
    <2> QED BY <2>2 DEF Asks, Closed, Last
  <1> HIDE DEF n, I
  <1>4. CASE n > 0
    <2>1. \A x \in I : (\A y \in I : x >= y) => x = n
      BY <1>2, <1>3, <1>4
    <2>2. n \in I /\ \A y \in I : n >= y
      BY <1>2, <1>3, <1>4
    <2>3. (CHOOSE x \in I : \A y \in I : x >= y) = n
      BY <2>1, <2>2
    <2> QED BY <2>2, <2>3 DEF SelectLastInSeq, Max, I, n
  <1>5. CASE n = 0
    <2>1. I = {}
      <3>1. Len(r) = 1
        BY <1>1, <1>5 DEF n
      <3> QED BY <1>1, <3>1 DEF I
    <2> QED BY <1>5, <2>1 DEF SelectLastInSeq, I, n
  <1> QED BY <1>2, <1>4, <1>5

LEMMA NewAre ==
  ASSUME NEW s, NEW t \in Turns, NEW r, Asks(s, r, t)
  PROVE  NewMessages(s, r) = IF rows[s] = <<>> THEN r ELSE <<Asked(t)>>
  <1> DEFINE g == SubSeq(r, Len(r), Len(r))
  <1>1. r \in Seq(Message) /\ Len(r) \in Nat \ {0} /\ r[Len(r)] = Asked(t)
    BY DEF Asks, Dialogue, Last
  <1>2. g = <<Asked(t)>>
    <2>1. PICK n \in Nat : n = Len(r)
      BY <1>1
    <2>2. n \in Int /\ \A i \in n..n : r[i] \in Message
      BY <1>1, <2>1
    <2>3. /\ SubSeq(r, n, n) \in Seq(Message) /\ Len(SubSeq(r, n, n)) = IF n <= n THEN n - n + 1 ELSE 0
          /\ \A i \in 1..n - n + 1 : SubSeq(r, n, n)[i] = r[n + i - 1]
      BY <2>2, SubSeqProperties
    <2>4. g = SubSeq(r, n, n)
      BY <2>1
    <2> HIDE DEF g
    <2>5. g \in Seq(Message) /\ Len(g) = 1 /\ g[1] = Asked(t)
      BY <1>1, <2>1, <2>3, <2>4
    <2> QED BY <2>5
  <1>3. Len(r) - 1 + 1 = Len(r)
    BY <1>1
  <1> QED BY <1>2, <1>3, LastAssistant DEF NewMessages

\* What a turn adds to the transcript.
LEMMA NewRises ==
  ASSUME NEW s \in Sessions, NEW t \in Turns, NEW o, Asks(s, turn[t].request, t)
  PROVE  LET new == NewMessages(s, turn[t].request) \o Output(t, o)
         IN  /\ new \in Seq(Message) /\ Rising(new) /\ Until(new, t)
             /\ rows[s] # <<>> => \A i \in 1..Len(new) : new[i].turn = t
  <1> DEFINE a == NewMessages(s, turn[t].request)
             tool == [role |-> "tool", turn |-> t]
             x == IF turn[t].path \in Agentic /\ o # "empty" THEN <<tool>> ELSE <<>>
             y == IF o = "stop" THEN <<Answered(t)>> ELSE <<>>
             b == x \o y
  <1>0. /\ Asked(t) \in Message /\ Answered(t) \in Message /\ tool \in Message
        /\ Position(Asked(t)) = 3 * t /\ Position(Answered(t)) = 3 * t + 2
        /\ Position(tool) = 3 * t + 1 /\ t \in Nat
        /\ Asked(t).turn = t /\ Answered(t).turn = t /\ tool.turn = t
    BY MessageTypes DEF Asked, Answered
  <1> HIDE DEF tool
  <1>1. /\ a \in Seq(Message) /\ Rising(a) /\ Until(a, t)
        /\ \A i \in 1..Len(a) : Position(a[i]) <= 3 * t
        /\ rows[s] # <<>> => \A i \in 1..Len(a) : a[i].turn = t
    <2>1. CASE rows[s] = <<>>
      <3>1. a = turn[t].request
        BY <2>1, NewAre
      <3> HIDE DEF a
      <3>2. /\ a \in Seq(Message) /\ Rising(a) /\ Until(a, t) /\ Len(a) \in Nat \ {0}
            /\ a[Len(a)] = Asked(t)
        BY <3>1 DEF Asks, Dialogue, Last
      <3>3. ASSUME NEW i \in 1..Len(a) PROVE Position(a[i]) <= 3 * t
        <4>1. CASE i = Len(a)
          BY <1>0, <3>2, <4>1
        <4>2. CASE i < Len(a)
          <5>1. Position(a[i]) < Position(a[Len(a)]) /\ Position(a[i]) \in Nat
            BY <3>2, <4>2, Positions DEF Rising
          <5> QED BY <1>0, <3>2, <5>1
        <4> QED BY <3>2, <4>1, <4>2
      <3> QED BY <2>1, <3>2, <3>3
    <2>2. CASE rows[s] # <<>>
      <3>1. a = <<Asked(t)>>
        BY <2>2, NewAre
      <3> HIDE DEF a
      <3>2. a \in Seq(Message) /\ Len(a) = 1 /\ a[1] = Asked(t)
        BY <1>0, <3>1
      <3> QED BY <1>0, <3>2 DEF Rising, Until
    <2> QED BY <2>1, <2>2
  <1> HIDE DEF a
  <1>2. /\ b \in Seq(Message) /\ Rising(b)
        /\ \A i \in 1..Len(b) : b[i] \in {tool, Answered(t)}
    <2>1. /\ x \in Seq(Message) /\ Rising(x) /\ \A i \in 1..Len(x) : x[i] = tool
          /\ y \in Seq(Message) /\ Rising(y) /\ \A i \in 1..Len(y) : y[i] = Answered(t)
      BY <1>0 DEF Rising
    <2> HIDE DEF x, y
    <2>2. \A i \in 1..Len(x), j \in 1..Len(y) : Position(x[i]) < Position(y[j])
      BY <1>0, <2>1
    <2>3. b \in Seq(Message) /\ Rising(b)
      BY <2>1, <2>2, RisingConcat
    <2>4. \A i \in 1..Len(b) : b[i] \in {tool, Answered(t)}
      BY <2>1, ConcatProperties
    <2> QED BY <2>3, <2>4
  <1>3. b = Output(t, o)
    BY DEF Output, tool
  <1> HIDE DEF b
  <1>4. /\ \A i \in 1..Len(a), j \in 1..Len(b) : Position(a[i]) < Position(b[j])
        /\ \A j \in 1..Len(b) : b[j].turn = t
    <2>1. \A i \in 1..Len(a) : Position(a[i]) \in Nat
      BY <1>1, Positions
    <2> QED BY <1>0, <1>1, <1>2, <2>1
  <1> DEFINE new == a \o b
  <1>5. new \in Seq(Message) /\ Rising(new)
    BY <1>1, <1>2, <1>4, RisingConcat
  <1>6. \A i \in 1..Len(new) : new[i] = IF i <= Len(a) THEN a[i] ELSE b[i - Len(a)]
    BY <1>1, <1>2, ConcatProperties
  <1>7. Len(new) = Len(a) + Len(b) /\ Len(a) \in Nat /\ Len(b) \in Nat
    BY <1>1, <1>2, ConcatProperties
  <1> HIDE DEF new
  <1>8. ASSUME NEW i \in 1..Len(new)
        PROVE  new[i].turn <= t /\ (rows[s] # <<>> => new[i].turn = t)
    <2>1. CASE i <= Len(a)
      BY <1>1, <1>6, <1>7, <2>1 DEF Until
    <2>2. CASE i > Len(a)
      <3>1. i - Len(a) \in 1..Len(b) /\ new[i] = b[i - Len(a)]
        BY <1>6, <1>7, <2>2
      <3> QED BY <1>0, <1>4, <3>1
    <2> QED BY <1>7, <2>1, <2>2
  <1>9. Until(new, t)
    BY <1>8 DEF Until
  <1> QED BY <1>3, <1>5, <1>8, <1>9 DEF new, a

\* The transcript after it.
LEMMA ArchivedRises ==
  ASSUME NEW s \in Sessions, NEW t \in Turns, s = turn[t].session, NEW o,
         Asks(s, turn[t].request, t), rows[s] \in Seq(Message), Rising(rows[s]), Before(rows[s], t),
         NEW dropped,
         dropped \in SUBSET (1..Len(NewMessages(s, turn[t].request) \o Output(t, o)))
  PROVE  LET all == Archived(t, o, dropped)
         IN  all \in Seq(Message) /\ Rising(all) /\ Until(all, t)
  <1> DEFINE new == NewMessages(s, turn[t].request) \o Output(t, o)
             c == Written(new, dropped)
             all == rows[s] \o c
  <1>1. /\ new \in Seq(Message) /\ Rising(new) /\ Until(new, t)
        /\ rows[s] # <<>> => \A i \in 1..Len(new) : new[i].turn = t
    BY NewRises
  <1>2. Archived(t, o, dropped) = all
    BY DEF Archived, Written
  <1>3. dropped \in SUBSET (1..Len(new))
    OBVIOUS
  <1> HIDE DEF new
  <1>4. /\ c \in Seq(Message) /\ Rising(c)
        /\ \A i \in 1..Len(c) : \E j \in 1..Len(new) : c[i] = new[j]
    BY <1>1, <1>3, KeptRows
  <1> HIDE DEF c
  <1>5. t \in Nat /\ \A m \in Message : m.turn \in Nat
    BY ArchiveAssumption DEF ArchiveAssumption, Turns, Message
  <1>6. ASSUME NEW i \in 1..Len(rows[s]), NEW j \in 1..Len(c) PROVE Position(rows[s][i]) < Position(c[j])
    <2>1. rows[s] # <<>> /\ rows[s][i] \in Message /\ rows[s][i].turn < t
      BY <1>6 DEF Before
    <2>2. c[j] \in Message /\ c[j].turn = t
      BY <1>1, <1>4, <2>1
    <2> QED BY <2>1, <2>2, Positions
  <1>7. all \in Seq(Message) /\ Rising(all)
    BY <1>4, <1>6, RisingConcat
  <1>8. /\ Len(all) = Len(rows[s]) + Len(c) /\ Len(rows[s]) \in Nat /\ Len(c) \in Nat
        /\ \A i \in 1..Len(all) : all[i] = IF i <= Len(rows[s]) THEN rows[s][i] ELSE c[i - Len(rows[s])]
    BY <1>4, ConcatProperties
  <1> HIDE DEF all
  <1>9. \A j \in 1..Len(c) : c[j].turn <= t
    BY <1>1, <1>4 DEF Until
  <1>10. \A j \in 1..Len(rows[s]) : rows[s][j].turn <= t
    BY <1>5 DEF Before
  <1>11. Until(all, t)
    BY <1>8, <1>9, <1>10 DEF Until
  <1> QED BY <1>2, <1>7, <1>11

-----------------------------------------------------------------------------
(* The turns and their clients. *)

TurnInv ==
  /\ \A t, u \in Turns : t < u /\ turn[u].pc # "unused" => turn[t].pc # "unused"
  /\ \A t \in Turns : turn[t].pc # "running" => turn[t].client = "none"
  /\ \A t \in Turns : turn[t].pc \in {"running", "answered"} =>
       Asks(turn[t].session, turn[t].request, t)

\* A client that does not wait holds an answered conversation, older than any turn to come;
\* the window of a chat that waits is its request.
HeldInv ==
  /\ DOMAIN held = Sessions
  /\ \A s \in Sessions : \A t, u \in Waiting(s) : t = u
  /\ \A s \in Sessions :
       /\ Dialogue(s, held[s])
       /\ \A t \in Turns : turn[t].pc = "unused" => Before(held[s], t)
       /\ s \notin Chats \/ Waiting(s) = {} => Closed(held[s])
       /\ s \in Chats => \A t \in Waiting(s) : held[s] = turn[t].request

\* Nothing of a turn under way or to come is archived yet.
RowsInv ==
  /\ DOMAIN rows = Sessions
  /\ \A s \in Sessions \ mixed :
       /\ \A t, u \in Unrecorded(s) : t = u
       /\ rows[s] \in Seq(Message) /\ Rising(rows[s])
       /\ \A t \in Turns : turn[t].pc = "unused" \/ t \in Unrecorded(s) => Before(rows[s], t)

LEMMA TurnsAreNat == \A t \in Turns : t \in Nat
  BY ArchiveAssumption DEF ArchiveAssumption, Turns

LEMMA UntilBefore ==
  ASSUME NEW h \in Seq(Message), NEW t \in Turns, NEW u \in Turns, t < u, Until(h, t)
  PROVE  Before(h, u)
  <1>1. \A m \in Message : m.turn \in Nat
    BY TurnsAreNat DEF Message
  <1>2. t \in Nat /\ u \in Nat
    BY TurnsAreNat
  <1> QED BY <1>1, <1>2 DEF Until, Before

\* A turn that is unused comes after any that is not.
LEMMA UnusedAreLater ==
  ASSUME TurnInv, NEW t \in Turns, NEW u \in Turns, turn[t].pc # "unused", turn[u].pc = "unused"
  PROVE  t < u
  <1>1. t \in Nat /\ u \in Nat
    BY TurnsAreNat
  <1>2. ~(u < t) /\ u # t
    BY DEF TurnInv
  <1> QED BY <1>1, <1>2

\* The turn begins, and nothing else happens to turns.
LEMMA BeginKeeps ==
  ASSUME ActorInv, TurnInv, HeldInv, NEW t \in Turns, NEW s \in Sessions, NEW path \in left.paths,
         NEW p \in Nameable, Begin(t, s, path, p)
  PROVE  TurnInv' /\ HeldInv'
  <1> DEFINE sent == IF path = "internal" THEN <<Asked(t)>> ELSE Push(s, held[s], Asked(t))
  <1>1. /\ turn[t].pc = "unused" /\ \A u \in Turns : u < t => turn[u].pc # "unused"
        /\ s \in Chats => path = "json"
        /\ path # "internal" => Waiting(s) = {}
        /\ turn'[t].pc = "running" /\ turn'[t].session = s /\ turn'[t].request = sent
        /\ turn'[t].client = IF path = "internal" THEN "none" ELSE "waiting"
        /\ \A u \in Turns \ {t} : turn'[u] = turn[u]
        /\ held' = IF s \in Chats THEN [held EXCEPT ![s] = sent] ELSE held
    BY DEF Begin, ActorInv
  <1>2. Asks(s, sent, t)
    <2>1. CASE path = "internal"
      <3>1. s \notin Chats
        BY <1>1, <2>1
      <3>2. Asked(t) \in Message /\ t \in Nat /\ Asked(t).turn = t
        BY MessageTypes DEF Asked
      <3> DEFINE h == <<Asked(t)>>
      <3>3. h \in Seq(Message) /\ Len(h) = 1 /\ h[1] = Asked(t)
        BY <3>2
      <3> HIDE DEF h
      <3>4. Front(h) = <<>>
        <4>1. Front(h) \in Seq(Message) /\ Len(Front(h)) = 0
          BY <3>3, FrontIs
        <4> DEFINE f == Front(h)
        <4> HIDE DEF f
        <4>2. f = <<>>
          BY <4>1 DEF f
        <4> QED BY <4>2 DEF f
      <3>5. Rising(h) /\ Until(h, t)
        <4>1. 1..Len(h) = {1} /\ h[1].turn <= t
          BY <3>2, <3>3
        <4> QED BY <4>1 DEF Rising, Until
      <3>6. Dialogue(s, h)
        BY <3>1, <3>3, <3>5 DEF Dialogue
      <3>7. h # <<>> /\ Last(h) = Asked(t) /\ Closed(Front(h))
        BY <3>3, <3>4 DEF Last, Closed
      <3>8. Asks(s, h, t)
        BY <3>5, <3>6, <3>7 DEF Asks
      <3> QED BY <2>1, <3>8 DEF h
    <2>2. CASE path # "internal"
      <3>1. Dialogue(s, held[s]) /\ Closed(held[s]) /\ Before(held[s], t)
        BY <1>1, <2>2 DEF HeldInv
      <3> QED BY <2>2, <3>1, PushAsks
    <2> QED BY <2>1, <2>2
  <1> HIDE DEF sent
  <1>3. \A u \in Turns : turn'[u].pc = "unused" => u # t /\ turn[u].pc = "unused" /\ t < u
    <2>1. ASSUME NEW u \in Turns, turn'[u].pc = "unused" PROVE u # t /\ turn[u].pc = "unused" /\ t < u
      <3>1. u # t /\ turn[u].pc = "unused"
        BY <1>1, <2>1
      <3>2. ~(u < t)
        BY <1>1, <3>1
      <3> QED BY <3>1, <3>2, TurnsAreNat
    <2> QED BY <2>1
  <1>4. TurnInv'
    <2>1. ASSUME NEW v \in Turns, NEW u \in Turns, v < u, turn'[u].pc # "unused"
          PROVE  turn'[v].pc # "unused"
      <3>1. CASE u = t
        BY <1>1, <2>1, <3>1, TurnsAreNat
      <3>2. CASE u # t
        BY <1>1, <2>1, <3>2 DEF TurnInv
      <3> QED BY <3>1, <3>2
    <2>2. \A u \in Turns : turn'[u].pc # "running" => turn'[u].client = "none"
      BY <1>1 DEF TurnInv
    <2>3. \A u \in Turns : turn'[u].pc \in {"running", "answered"} =>
            Asks(turn'[u].session, turn'[u].request, u)
      BY <1>1, <1>2 DEF TurnInv
    <2> QED BY <2>1, <2>2, <2>3 DEF TurnInv, Asks, Dialogue
  <1>5. \A r \in Sessions : Waiting(r)' = IF r = s /\ path # "internal" THEN {t} ELSE Waiting(r)
    <2>1. \A r \in Sessions : t \notin Waiting(r)
      BY <1>1 DEF Waiting, TurnInv
    <2> QED BY <1>1, <2>1 DEF Waiting
  <1>6. \A r \in Sessions : held'[r] = IF r = s /\ s \in Chats THEN sent ELSE held[r]
    BY <1>1 DEF HeldInv
  <1>7. ASSUME NEW r \in Sessions
        PROVE  /\ Dialogue(r, held'[r])
               /\ \A u \in Turns : turn'[u].pc = "unused" => Before(held'[r], u)
               /\ r \notin Chats \/ Waiting(r)' = {} => Closed(held'[r])
               /\ r \in Chats => \A u \in Waiting(r)' : held'[r] = turn'[u].request
    <2>1. CASE r = s /\ s \in Chats
      <3>1. held'[r] = sent /\ Waiting(r)' = {t} /\ path # "internal"
        BY <1>1, <1>5, <1>6, <2>1
      <3>2. sent \in Seq(Message) /\ Until(sent, t) /\ Dialogue(r, sent)
        BY <1>2, <2>1 DEF Asks, Dialogue
      <3>3. \A u \in Turns : turn'[u].pc = "unused" => Before(sent, u)
        BY <1>3, <3>2, UntilBefore
      <3> QED BY <1>1, <2>1, <3>1, <3>2, <3>3
    <2>2. CASE ~(r = s /\ s \in Chats)
      <3>1. held'[r] = held[r]
        BY <1>6, <2>2
      <3>2. r \in Chats => r # s /\ Waiting(r)' = Waiting(r) /\ t \notin Waiting(r)
        BY <1>1, <1>5, <2>2 DEF Waiting, TurnInv
      <3>3. r \in Chats => \A u \in Waiting(r)' : held'[r] = turn'[u].request
        BY <1>1, <3>1, <3>2 DEF HeldInv, Waiting
      <3> QED BY <1>3, <3>1, <3>2, <3>3 DEF HeldInv
    <2> QED BY <2>1, <2>2
  <1>8. \A r \in Sessions : \A u, v \in Waiting(r)' : u = v
    BY <1>5 DEF HeldInv
  <1>9. DOMAIN held' = Sessions
    BY <1>1 DEF HeldInv
  <1> QED BY <1>4, <1>7, <1>8, <1>9 DEF HeldInv, Dialogue, Before, Closed

\* The client that waits is told how its turn ended.
LEMMA ToldKeeps ==
  ASSUME ActorInv, TurnInv, HeldInv, NEW t \in Turns, NEW o, turn[t].pc = "running", Told(t, o),
         \A u \in Turns \ {t} : turn'[u] = turn[u],
         turn'[t].client = "none",
         \/ turn'[t].pc = "over"
         \/ /\ turn'[t].pc = "answered" /\ turn'[t].session = turn[t].session
            /\ turn'[t].request = turn[t].request
  PROVE  TurnInv' /\ HeldInv'
  <1>0. PICK s \in Sessions : s = turn[t].session
    BY DEF ActorInv
  <1> DEFINE told == IF o = "error" /\ turn[t].path \notin AnsweredFirst THEN Forgotten(s, held[s])
                     ELSE IF s \in Chats THEN Push(s, held[s], Answered(t))
                     ELSE Append(turn[t].request, Answered(t))
  <1>1. /\ held' = IF turn[t].client # "waiting" THEN held ELSE [held EXCEPT ![s] = told]
        /\ Asks(s, turn[t].request, t)
    BY <1>0 DEF Told, TurnInv
  <1>2. turn[t].client = "waiting" => t \in Waiting(s) /\ Waiting(s)' = {}
    <2>1. SUFFICES ASSUME turn[t].client = "waiting" PROVE t \in Waiting(s) /\ Waiting(s)' = {}
      OBVIOUS
    <2>2. t \in Waiting(s)
      BY <1>0, <2>1 DEF Waiting
    <2>3. Waiting(s)' \subseteq Waiting(s) \ {t}
      BY DEF Waiting
    <2> QED BY <2>2, <2>3 DEF HeldInv
  <1>3. \A r \in Sessions : Waiting(r)' \subseteq Waiting(r) /\ \A u \in Waiting(r)' : turn'[u] = turn[u]
    BY DEF Waiting
  <1>4. TurnInv'
    <2>1. ASSUME NEW v \in Turns, NEW u \in Turns, v < u, turn'[u].pc # "unused"
          PROVE  turn'[v].pc # "unused"
      BY <2>1 DEF TurnInv
    <2>2. \A u \in Turns : turn'[u].pc # "running" => turn'[u].client = "none"
      BY DEF TurnInv
    <2>3. \A u \in Turns : turn'[u].pc \in {"running", "answered"} =>
            Asks(turn'[u].session, turn'[u].request, u)
      BY DEF TurnInv
    <2> QED BY <2>1, <2>2, <2>3 DEF TurnInv, Asks, Dialogue
  <1>5. \A h \in Seq(Message) : Until(h, t) => \A u \in Turns : turn[u].pc = "unused" => Before(h, u)
    BY UnusedAreLater, UntilBefore
  <1>6. ASSUME turn[t].client = "waiting"
        PROVE  /\ Dialogue(s, told) /\ Closed(told)
               /\ \A u \in Turns : turn[u].pc = "unused" => Before(told, u)
    <2>1. s \in Chats => held[s] = turn[t].request
      BY <1>2, <1>6 DEF HeldInv
    <2>2. CASE s \notin Chats /\ told = held[s]
      BY <2>2 DEF HeldInv
    <2>3. CASE Dialogue(s, told) /\ Closed(told) /\ Until(told, t)
      BY <1>5, <2>3 DEF Dialogue
    <2>4. CASE o = "error" /\ turn[t].path \notin AnsweredFirst
      BY <1>1, <2>1, <2>2, <2>3, <2>4, FrontCloses DEF Forgotten
    <2>5. CASE ~(o = "error" /\ turn[t].path \notin AnsweredFirst) /\ s \in Chats
      <3>1. told = Push(s, turn[t].request, Answered(t))
        BY <2>1, <2>5
      <3> HIDE DEF told
      <3> QED BY <1>1, <2>3, <2>5, <3>1, PushAnswers
    <2>6. CASE ~(o = "error" /\ turn[t].path \notin AnsweredFirst) /\ s \notin Chats
      <3>1. told = Append(turn[t].request, Answered(t))
        BY <2>6
      <3> HIDE DEF told
      <3> QED BY <1>1, <2>3, <2>6, <3>1, AppendAnswers
    <2> QED BY <2>4, <2>5, <2>6
  <1> HIDE DEF told
  <1>7. \A u \in Turns : turn'[u].pc = "unused" => turn[u].pc = "unused"
    OBVIOUS
  <1>8. ASSUME NEW r \in Sessions
        PROVE  /\ Dialogue(r, held'[r])
               /\ \A u \in Turns : turn'[u].pc = "unused" => Before(held'[r], u)
               /\ r \notin Chats \/ Waiting(r)' = {} => Closed(held'[r])
               /\ r \in Chats => \A u \in Waiting(r)' : held'[r] = turn'[u].request
    <2>1. CASE r = s /\ turn[t].client = "waiting"
      <3>1. held'[r] = told
        BY <1>1, <2>1 DEF HeldInv
      <3> QED BY <1>2, <1>6, <1>7, <2>1, <3>1
    <2>2. CASE ~(r = s /\ turn[t].client = "waiting")
      <3>1. held'[r] = held[r]
        BY <1>1, <2>2 DEF HeldInv
      <3>2. Waiting(r)' = Waiting(r)
        BY <1>0, <2>2 DEF Waiting
      <3> QED BY <1>3, <1>7, <3>1, <3>2 DEF HeldInv
    <2> QED BY <2>1, <2>2
  <1>9. \A r \in Sessions : \A u, v \in Waiting(r)' : u = v
    BY <1>3 DEF HeldInv
  <1>10. DOMAIN held' = Sessions
    BY <1>1 DEF HeldInv
  <1> QED BY <1>4, <1>8, <1>9, <1>10 DEF HeldInv, Dialogue, Before, Closed

\* A turn whose client does not wait for it is over.
LEMMA OverKeeps ==
  ASSUME ActorInv, TurnInv, HeldInv, NEW t \in Turns, turn[t].client # "waiting",
         turn[t].pc # "unused", Over(t), held' = held
  PROVE  TurnInv' /\ HeldInv'
  <1>1. turn'[t].pc = "over" /\ turn'[t].client = "none" /\ \A u \in Turns \ {t} : turn'[u] = turn[u]
    BY DEF Over, Unused, ActorInv
  <1>2. \A r \in Sessions : Waiting(r)' = Waiting(r) /\ \A u \in Waiting(r) : turn'[u] = turn[u]
    BY <1>1 DEF Waiting
  <1>3. TurnInv'
    <2>1. \A v, u \in Turns : v < u /\ turn'[u].pc # "unused" => turn'[v].pc # "unused"
      BY <1>1 DEF TurnInv
    <2>2. \A u \in Turns : turn'[u].pc # "running" => turn'[u].client = "none"
      BY <1>1 DEF TurnInv
    <2>3. \A u \in Turns : turn'[u].pc \in {"running", "answered"} =>
            Asks(turn'[u].session, turn'[u].request, u)
      BY <1>1 DEF TurnInv
    <2> QED BY <2>1, <2>2, <2>3 DEF TurnInv, Asks, Dialogue
  <1>4. \A u \in Turns : turn'[u].pc = "unused" => turn[u].pc = "unused"
    BY <1>1
  <1> QED BY <1>2, <1>3, <1>4 DEF HeldInv, Dialogue, Before, Closed

\* A client leaves.
LEMMA LeaveKeeps ==
  ASSUME ActorInv, TurnInv, HeldInv, NEW t \in Turns, Leave(t)
  PROVE  TurnInv' /\ HeldInv'
  <1>0. turn[t].pc = "running" /\ turn[t].client = "waiting"
    BY DEF Leave, TurnInv
  <1>1. PICK s \in Sessions : s = turn[t].session
    BY <1>0 DEF ActorInv
  <1>2. /\ held' = [held EXCEPT ![s] = Forgotten(s, held[s])]
        /\ turn'[t].pc = "running" /\ turn'[t].client = "gone"
        /\ \A u \in Turns \ {t} : turn'[u] = turn[u]
        /\ \A u \in Turns : /\ turn'[u].pc = turn[u].pc /\ turn'[u].session = turn[u].session
                            /\ turn'[u].request = turn[u].request
    <2>1. turn' = [turn EXCEPT ![t].client = "gone"] /\ DOMAIN turn = Turns
      BY DEF Leave, ActorInv
    <2>2. turn'[t] = [turn[t] EXCEPT !.client = "gone"] /\ \A u \in Turns \ {t} : turn'[u] = turn[u]
      BY <2>1
    <2>3. \A u \in Turns : /\ turn'[u].pc = turn[u].pc /\ turn'[u].session = turn[u].session
                           /\ turn'[u].request = turn[u].request
      <3>1. turn'[t].pc = turn[t].pc /\ turn'[t].session = turn[t].session /\ turn'[t].request = turn[t].request
        BY <2>2
      <3> QED BY <2>2, <3>1
    <2>4. turn'[t].client = "gone"
      BY <1>0, <2>2
    <2>5. held' = [held EXCEPT ![s] = Forgotten(s, held[s])]
      BY <1>1 DEF Leave
    <2> QED BY <1>0, <2>2, <2>3, <2>4, <2>5
  <1>3. t \in Waiting(s) /\ Waiting(s)' = {}
    <2>1. t \in Waiting(s) /\ Waiting(s)' \subseteq Waiting(s) \ {t}
      BY <1>0, <1>1, <1>2 DEF Waiting
    <2> QED BY <2>1 DEF HeldInv
  <1>4. \A r \in Sessions \ {s} : Waiting(r)' = Waiting(r)
    BY <1>1, <1>2 DEF Waiting
  <1>5. TurnInv'
    BY <1>0, <1>2 DEF TurnInv, Asks, Dialogue
  <1>6. \A h \in Seq(Message) : Until(h, t) => \A u \in Turns : turn[u].pc = "unused" => Before(h, u)
    BY <1>0, UnusedAreLater, UntilBefore
  <1> DEFINE g == Forgotten(s, held[s])
  <1>7. /\ Dialogue(s, g) /\ Closed(g)
        /\ \A u \in Turns : turn[u].pc = "unused" => Before(g, u)
    <2>1. CASE s \in Chats
      <3>1. held[s] = turn[t].request /\ Asks(s, turn[t].request, t)
        BY <1>0, <1>1, <1>3, <2>1 DEF HeldInv, TurnInv
      <3>2. Dialogue(s, g) /\ Closed(g) /\ Until(g, t)
        BY <2>1, <3>1, FrontCloses DEF Forgotten
      <3> QED BY <1>6, <3>2 DEF Dialogue
    <2>2. CASE s \notin Chats
      BY <2>2 DEF Forgotten, HeldInv
    <2> QED BY <2>1, <2>2
  <1> HIDE DEF g
  <1>8. ASSUME NEW r \in Sessions
        PROVE  /\ Dialogue(r, held'[r])
               /\ \A u \in Turns : turn'[u].pc = "unused" => Before(held'[r], u)
               /\ r \notin Chats \/ Waiting(r)' = {} => Closed(held'[r])
               /\ r \in Chats => \A u \in Waiting(r)' : held'[r] = turn'[u].request
    <2>1. CASE r = s
      <3>1. held'[r] = g
        BY <1>2, <2>1 DEF HeldInv, g
      <3> QED BY <1>2, <1>3, <1>7, <2>1, <3>1
    <2>2. CASE r # s
      <3>1. held'[r] = held[r] /\ Waiting(r)' = Waiting(r)
        BY <1>2, <1>4, <2>2 DEF HeldInv
      <3> QED BY <1>2, <3>1 DEF HeldInv, Waiting
    <2> QED BY <2>1, <2>2
  <1>9. \A r \in Sessions : \A u, v \in Waiting(r)' : u = v
    BY <1>3, <1>4 DEF HeldInv
  <1>10. DOMAIN held' = Sessions
    BY <1>2 DEF HeldInv
  <1> QED BY <1>5, <1>8, <1>9, <1>10 DEF HeldInv, Dialogue, Before, Closed

\* The process dies: no turn is left, and no window.
LEMMA CrashKeeps ==
  ASSUME ActorInv, TurnInv, HeldInv, Crash
  PROVE  TurnInv' /\ HeldInv'
  <1>1. /\ turn' = [t \in Turns |-> IF turn[t].pc = "unused" THEN turn[t]
                                    ELSE [Unused EXCEPT !.pc = "over"]]
        /\ held' = [s \in Sessions |-> IF s \in Chats THEN <<>> ELSE held[s]]
    BY DEF Crash
  <1>2. \A t \in Turns : IF turn[t].pc = "unused" THEN turn'[t] = turn[t]
                         ELSE turn'[t].pc = "over" /\ turn'[t].client = "none"
    BY <1>1 DEF Unused
  <1>3. \A t \in Turns : /\ turn'[t].pc \in {"unused", "over"} /\ turn'[t].client = "none"
                         /\ turn'[t].pc = "unused" <=> turn[t].pc = "unused"
    BY <1>2 DEF TurnInv
  <1>4. \A s : Waiting(s)' = {}
    BY <1>3 DEF Waiting
  <1>5. TurnInv'
    BY <1>3 DEF TurnInv
  <1>6. /\ \A s : Dialogue(s, <<>>)
        /\ Closed(<<>>) /\ \A t : Before(<<>>, t)
    BY ArchiveAssumption DEF ArchiveAssumption, Dialogue, Rising, Closed, Before
  <1>7. \A s \in Sessions : /\ Dialogue(s, held'[s]) /\ Closed(held'[s])
                            /\ \A t \in Turns : turn'[t].pc = "unused" => Before(held'[s], t)
    BY <1>1, <1>3, <1>6 DEF HeldInv
  <1> QED BY <1>1, <1>4, <1>5, <1>7 DEF HeldInv, Dialogue, Closed, Before

LEMMA ConversationsStay ==
  ASSUME ActorInv, TurnInv, HeldInv, [Next]_vars
  PROVE  TurnInv' /\ HeldInv'
  <1>1. ASSUME UNCHANGED <<turn, held>> PROVE TurnInv' /\ HeldInv'
    <2>1. TurnInv'
      BY <1>1 DEF TurnInv, Asks, Dialogue
    <2>2. HeldInv'
      BY <1>1 DEF HeldInv, Waiting, Dialogue, Before, Closed
    <2> QED BY <2>1, <2>2
  <1>2. ASSUME NEW t \in Turns, TurnStep(t) PROVE TurnInv' /\ HeldInv'
    <2>1. ASSUME NEW s \in Sessions, NEW path \in left.paths, NEW p \in Nameable, Begin(t, s, path, p)
          PROVE  TurnInv' /\ HeldInv'
      BY <2>1, BeginKeeps
    <2>2. ASSUME NEW o, Finish(t, o) PROVE TurnInv' /\ HeldInv'
      <3>1. /\ turn[t].pc = "running" /\ Told(t, o)
            /\ turn'[t].pc = "over" /\ turn'[t].client = "none"
            /\ \A u \in Turns \ {t} : turn'[u] = turn[u]
        BY <2>2 DEF Finish, Over, Unused, ActorInv
      <3> QED BY <3>1, ToldKeeps
    <2>3. ASSUME NEW o, Answer(t, o) PROVE TurnInv' /\ HeldInv'
      <3>1. turn[t].pc = "running" /\ Told(t, o)
        BY <2>3 DEF Answer
      <3>2. /\ turn' = [turn EXCEPT ![t].pc = "answered", ![t].outcome = o, ![t].client = "none"]
            /\ DOMAIN turn = Turns
        BY <2>3 DEF Answer, ActorInv
      <3>3. /\ turn'[t] = [turn[t] EXCEPT !.pc = "answered", !.outcome = o, !.client = "none"]
            /\ \A u \in Turns \ {t} : turn'[u] = turn[u]
        BY <3>2
      <3>4. turn'[t].session = turn[t].session /\ turn'[t].request = turn[t].request
        BY <3>3
      <3>5. turn'[t].pc = "answered" /\ turn'[t].client = "none"
        BY <2>3 DEF Answer, ActorInv, TurnInv
      <3> QED BY <3>1, <3>3, <3>4, <3>5, ToldKeeps
    <2>4. CASE RecordAnswered(t)
      BY <2>4, OverKeeps DEF RecordAnswered, TurnInv
    <2>5. CASE Leave(t)
      BY <2>5, LeaveKeeps
    <2>6. CASE Cancel(t)
      BY <2>6, OverKeeps DEF Cancel
    <2>7. CASE RunWrites(t)
      BY <1>1, <2>7 DEF RunWrites
    <2> QED BY <1>2, <2>1, <2>2, <2>3, <2>4, <2>5, <2>6, <2>7 DEF TurnStep
  <1>3. ASSUME NEW t \in Turns, Background(t) PROVE TurnInv' /\ HeldInv'
    BY <1>1, <1>3 DEF Background, TitleBegin, TitleEnd, Reflect
  <1>4. CASE People
    BY <1>1, <1>4 DEF People, DeleteSession, PutSkill, DeleteSkill, Edit, EditProjects
  <1>5. CASE UNCHANGED vars
    BY <1>1, <1>5 DEF vars, archiveVars
  <1> QED BY <1>2, <1>3, <1>4, <1>5, CrashKeeps DEF Next

LEMMA ConversationsBegin == ArchiveInit => TurnInv /\ HeldInv /\ RowsInv
  <1> SUFFICES ASSUME ArchiveInit PROVE TurnInv /\ HeldInv /\ RowsInv
    OBVIOUS
  <1>1. /\ \A t \in Turns : turn[t].pc = "unused" /\ turn[t].client = "none"
        /\ held = [s \in Sessions |-> <<>>] /\ rows = [s \in Sessions |-> <<>>]
    BY DEF ArchiveInit, Unused
  <1>2. /\ \A s : Dialogue(s, <<>>)
        /\ Closed(<<>>) /\ \A t : Before(<<>>, t)
        /\ <<>> \in Seq(Message) /\ Rising(<<>>)
    BY ArchiveAssumption DEF ArchiveAssumption, Dialogue, Rising, Closed, Before
  <1>3. \A s : Waiting(s) = {} /\ Unrecorded(s) = {}
    BY <1>1 DEF Waiting, Unrecorded
  <1> QED BY <1>1, <1>2, <1>3 DEF TurnInv, HeldInv, RowsInv

-----------------------------------------------------------------------------
(* The transcripts. *)

\* A step that records nothing and begins no turn.
LEMMA RowsQuiet ==
  ASSUME RowsInv, UNCHANGED <<rows, mixed>>,
         \A t \in Turns : turn'[t].pc = "unused" => turn[t].pc = "unused",
         \A s \in Sessions : Unrecorded(s)' \subseteq Unrecorded(s)
  PROVE  RowsInv'
  BY DEF RowsInv, Before

LEMMA OverIsRecorded ==
  ASSUME ActorInv, NEW t \in Turns, Over(t), turn[t].pc # "unused"
  PROVE  /\ \A u \in Turns : turn'[u].pc = "unused" => turn[u].pc = "unused"
         /\ \A s \in Sessions : Unrecorded(s)' = Unrecorded(s) \ {t}
  <1>1. turn'[t].pc = "over" /\ \A u \in Turns \ {t} : turn'[u] = turn[u]
    BY DEF Over, Unused, ActorInv
  <1> QED BY <1>1 DEF Unrecorded

LEMMA RowsRecorded ==
  ASSUME ActorInv, TurnInv, RowsInv, NEW t \in Turns, turn[t].pc \in {"running", "answered"},
         NEW o, Recording(t, o), Over(t)
  PROVE  RowsInv'
  <1>1. PICK s \in Sessions : s = turn[t].session
    BY DEF ActorInv
  <1>2. PICK dropped :
          /\ dropped \in SUBSET (1..Len(NewMessages(s, turn[t].request) \o Output(t, o)))
          /\ rows' = [rows EXCEPT ![s] = Archived(t, o, dropped)] /\ mixed' = mixed
    <2>1. PICK n \in 0..left.drops, ready \in BOOLEAN, writer \in BOOLEAN :
            \E dropped \in SUBSET (1..Len(NewMessages(turn[t].session, turn[t].request)
                                          \o Output(t, o))) :
              Cardinality(dropped) = n /\ Record(t, o, dropped, ready, writer)
      BY Zenon DEF Recording
    <2>2. PICK dropped \in SUBSET (1..Len(NewMessages(turn[t].session, turn[t].request)
                                          \o Output(t, o))) :
              Record(t, o, dropped, ready, writer)
      BY <2>1
    <2> QED BY <1>1, <2>2 DEF Record
  <1> DEFINE all == Archived(t, o, dropped)
  <1>3. /\ \A u \in Turns : turn'[u].pc = "unused" => turn[u].pc = "unused"
        /\ \A r \in Sessions : Unrecorded(r)' = Unrecorded(r) \ {t}
        /\ t \in Unrecorded(s)
    BY <1>1, OverIsRecorded DEF Unrecorded
  <1>4. s \notin mixed => all \in Seq(Message) /\ Rising(all) /\ Until(all, t)
    <2>1. Asks(s, turn[t].request, t)
      BY <1>1 DEF TurnInv
    <2>2. s \notin mixed => rows[s] \in Seq(Message) /\ Rising(rows[s]) /\ Before(rows[s], t)
      BY <1>3 DEF RowsInv
    <2> QED BY <1>1, <1>2, <2>1, <2>2, ArchivedRises
  <1> HIDE DEF all
  <1>5. \A h \in Seq(Message) : Until(h, t) => \A u \in Turns : turn[u].pc = "unused" => Before(h, u)
    BY UnusedAreLater, UntilBefore
  <1>6. ASSUME NEW r \in Sessions \ mixed'
        PROVE  /\ \A u, v \in Unrecorded(r)' : u = v
               /\ rows'[r] \in Seq(Message) /\ Rising(rows'[r])
               /\ \A u \in Turns : turn'[u].pc = "unused" \/ u \in Unrecorded(r)' => Before(rows'[r], u)
    <2>1. r \in Sessions \ mixed
      BY <1>2
    <2>2. CASE r = s
      <3>1. rows'[r] = all /\ Unrecorded(r)' = {}
        BY <1>2, <1>3, <2>1, <2>2 DEF RowsInv, all
      <3> QED BY <1>3, <1>4, <1>5, <2>1, <2>2, <3>1
    <2>3. CASE r # s
      <3>1. rows'[r] = rows[r]
        BY <1>2, <2>3 DEF RowsInv
      <3> QED BY <1>3, <2>1, <3>1 DEF RowsInv
    <2> QED BY <2>2, <2>3
  <1>7. DOMAIN rows' = Sessions
    BY <1>2 DEF RowsInv
  <1> QED BY <1>6, <1>7 DEF RowsInv, Before, Rising

LEMMA RowsBegin ==
  ASSUME ActorInv, TurnInv, RowsInv, NEW t \in Turns, NEW s \in Sessions, NEW path \in left.paths,
         NEW p \in Nameable, Begin(t, s, path, p)
  PROVE  RowsInv'
  <1>1. /\ turn[t].pc = "unused" /\ rows' = rows
        /\ turn'[t].pc = "running" /\ turn'[t].session = s
        /\ \A u \in Turns \ {t} : turn'[u] = turn[u]
        /\ mixed' = IF Unrecorded(s) = {} THEN mixed ELSE mixed \cup {s}
    BY DEF Begin, ActorInv
  <1>2. \A r \in Sessions : Unrecorded(r)' = IF r = s THEN Unrecorded(r) \cup {t} ELSE Unrecorded(r)
    BY <1>1 DEF Unrecorded
  <1>3. ASSUME NEW r \in Sessions \ mixed'
        PROVE  /\ \A u, v \in Unrecorded(r)' : u = v
               /\ rows[r] \in Seq(Message) /\ Rising(rows[r])
               /\ \A u \in Turns : turn'[u].pc = "unused" \/ u \in Unrecorded(r)' => Before(rows[r], u)
    <2>1. r \in Sessions \ mixed /\ (r = s => Unrecorded(r) = {})
      BY <1>1
    <2>2. \A u, v \in Unrecorded(r)' : u = v
      BY <1>2, <2>1 DEF RowsInv
    <2>3. \A u \in Turns : turn'[u].pc = "unused" \/ u \in Unrecorded(r)' =>
            turn[u].pc = "unused" \/ u \in Unrecorded(r)
      BY <1>1, <1>2
    <2> QED BY <2>1, <2>2, <2>3 DEF RowsInv
  <1> QED BY <1>1, <1>3 DEF RowsInv, Before, Rising

LEMMA RowsCrash ==
  ASSUME ActorInv, TurnInv, RowsInv, Crash
  PROVE  RowsInv'
  <1>1. turn' = [t \in Turns |-> IF turn[t].pc = "unused" THEN turn[t]
                                 ELSE [Unused EXCEPT !.pc = "over"]]
    BY DEF Crash
  <1>2. \A t \in Turns : turn'[t].pc = "unused" => turn[t].pc = "unused"
    BY <1>1 DEF Unused
  <1>3. \A s \in Sessions : Unrecorded(s)' = {}
    BY <1>1 DEF Unrecorded, Unused
  <1>4. CASE rows' = rows
    BY <1>2, <1>3, <1>4, RowsQuiet DEF Crash
  <1>5. ASSUME NEW t \in Turns, NEW o, turn[t].pc \in {"running", "answered"},
               NEW kept \in Len(rows[turn[t].session])..Len(Archived(t, o, {})),
               rows' = [rows EXCEPT ![turn[t].session] = SubSeq(Archived(t, o, {}), 1, kept)]
        PROVE  RowsInv'
    <2>1. PICK s \in Sessions : s = turn[t].session
      BY <1>5 DEF ActorInv
    <2> DEFINE all == Archived(t, o, {})
               cut == SubSeq(all, 1, kept)
    <2>2. mixed' = mixed
      BY DEF Crash
    <2>3. s \notin mixed => all \in Seq(Message) /\ Rising(all) /\ Until(all, t)
      <3>1. Asks(s, turn[t].request, t) /\ t \in Unrecorded(s)
        BY <1>5, <2>1 DEF TurnInv, Unrecorded
      <3>2. s \notin mixed => rows[s] \in Seq(Message) /\ Rising(rows[s]) /\ Before(rows[s], t)
        BY <3>1 DEF RowsInv
      <3>3. {} \in SUBSET (1..Len(NewMessages(s, turn[t].request) \o Output(t, o)))
        OBVIOUS
      <3> QED BY <2>1, <3>1, <3>2, <3>3, ArchivedRises
    <2> HIDE DEF all
    <2>4. s \notin mixed => cut \in Seq(Message) /\ Rising(cut) /\ Until(cut, t)
      <3>1. SUFFICES ASSUME s \notin mixed PROVE cut \in Seq(Message) /\ Rising(cut) /\ Until(cut, t)
        OBVIOUS
      <3>2. rows[s] \in Seq(Message)
        BY <3>1 DEF RowsInv
      <3>3. kept \in 0..Len(all) /\ 1 \in 1..Len(all) + 1
        BY <1>5, <2>1, <2>3, <3>1, <3>2 DEF all
      <3>4. /\ cut \in Seq(Message) /\ Rising(cut)
            /\ \A i \in 1..Len(cut) : \E j \in 1..Len(all) : cut[i] = all[j]
        BY <2>3, <3>1, <3>3, RisingPart
      <3> QED BY <2>3, <3>1, <3>4 DEF Until
    <2>5. \A h \in Seq(Message) : Until(h, t) => \A u \in Turns : turn[u].pc = "unused" => Before(h, u)
      BY <1>5, UnusedAreLater, UntilBefore
    <2>6. rows' = [rows EXCEPT ![s] = cut]
      BY <1>5, <2>1 DEF all
    <2> HIDE DEF cut
    <2>7. ASSUME NEW r \in Sessions \ mixed'
          PROVE  /\ rows'[r] \in Seq(Message) /\ Rising(rows'[r])
                 /\ \A u \in Turns : turn'[u].pc = "unused" => Before(rows'[r], u)
      <3>1. CASE r = s
        <4>1. rows'[r] = cut
          BY <2>6, <3>1 DEF RowsInv
        <4> QED BY <1>2, <2>2, <2>4, <2>5, <3>1, <4>1
      <3>2. CASE r # s
        <4>1. rows'[r] = rows[r]
          BY <2>6, <3>2 DEF RowsInv
        <4> QED BY <1>2, <2>2, <4>1 DEF RowsInv
      <3> QED BY <3>1, <3>2
    <2>8. DOMAIN rows' = Sessions
      BY <2>6 DEF RowsInv
    <2> QED BY <1>3, <2>7, <2>8 DEF RowsInv, Before, Rising
  <1>6. \/ rows' = rows
        \/ \E t \in Turns, o \in {"stop", "error", "empty"} :
             /\ turn[t].pc \in {"running", "answered"}
             /\ \E kept \in Len(rows[turn[t].session])..Len(Archived(t, o, {})) :
                  rows' = [rows EXCEPT ![turn[t].session] = SubSeq(Archived(t, o, {}), 1, kept)]
    BY DEF Crash
  <1> QED BY <1>4, <1>5, <1>6

LEMMA RowsStay ==
  ASSUME ActorInv, TurnInv, RowsInv, [Next]_vars
  PROVE  RowsInv'
  <1>1. ASSUME UNCHANGED <<turn, rows, mixed>> PROVE RowsInv'
    BY <1>1, RowsQuiet DEF Unrecorded
  <1>2. ASSUME NEW t \in Turns, turn[t].pc # "unused", UNCHANGED <<rows, mixed>>, Over(t) PROVE RowsInv'
    BY <1>2, OverIsRecorded, RowsQuiet
  <1>3. ASSUME NEW t \in Turns, TurnStep(t) PROVE RowsInv'
    <2>1. ASSUME NEW s \in Sessions, NEW path \in left.paths, NEW p \in Nameable, Begin(t, s, path, p)
          PROVE  RowsInv'
      BY <2>1, RowsBegin
    <2>2. ASSUME NEW o, Finish(t, o) PROVE RowsInv'
      <3>1. turn[t].pc = "running" /\ Over(t) /\ (UNCHANGED <<rows, mixed>> \/ Recording(t, o))
        BY <2>2 DEF Finish, Untouched
      <3> QED BY <3>1, <1>2, RowsRecorded
    <2>3. ASSUME NEW o, Answer(t, o) PROVE RowsInv'
      <3>1. /\ turn[t].pc = "running" /\ UNCHANGED <<rows, mixed>>
            /\ turn' = [turn EXCEPT ![t].pc = "answered", ![t].outcome = o, ![t].client = "none"]
            /\ DOMAIN turn = Turns
        BY <2>3 DEF Answer, Untouched, ActorInv
      <3>2. /\ turn'[t] = [turn[t] EXCEPT !.pc = "answered", !.outcome = o, !.client = "none"]
            /\ \A u \in Turns \ {t} : turn'[u] = turn[u]
        BY <3>1
      <3>3. turn'[t].session = turn[t].session /\ turn'[t].pc # "unused"
        BY <3>1, <3>2
      <3>4. \A s \in Sessions : Unrecorded(s)' \subseteq Unrecorded(s)
        BY <3>1, <3>2, <3>3 DEF Unrecorded
      <3> QED BY <3>1, <3>2, <3>3, <3>4, RowsQuiet
    <2>4. CASE RecordAnswered(t)
      <3>1. /\ turn[t].pc = "answered" /\ Over(t)
            /\ UNCHANGED <<rows, mixed>> \/ Recording(t, turn[t].outcome)
        BY <2>4 DEF RecordAnswered, Untouched
      <3> QED BY <3>1, <1>2, RowsRecorded
    <2>5. CASE Leave(t)
      <3>1. /\ UNCHANGED <<rows, mixed>>
            /\ turn' = [turn EXCEPT ![t].client = "gone"] /\ DOMAIN turn = Turns
        BY <2>5 DEF Leave, ActorInv
      <3>2. turn'[t] = [turn[t] EXCEPT !.client = "gone"] /\ \A u \in Turns \ {t} : turn'[u] = turn[u]
        BY <3>1
      <3>3. turn'[t].session = turn[t].session /\ turn'[t].pc = turn[t].pc
        BY <3>2
      <3>4. \A s \in Sessions : Unrecorded(s)' \subseteq Unrecorded(s)
        BY <3>2, <3>3 DEF Unrecorded
      <3> QED BY <3>1, <3>2, <3>3, <3>4, RowsQuiet
    <2>6. CASE Cancel(t)
      <3>1. /\ turn[t].pc = "running" /\ Over(t)
            /\ UNCHANGED <<rows, mixed>> \/ \E o \in {"stop", "empty"} : Recording(t, o)
        BY <2>6 DEF Cancel, Untouched
      <3> QED BY <3>1, <1>2, RowsRecorded
    <2>7. CASE RunWrites(t)
      BY <1>1, <2>7 DEF RunWrites
    <2> QED BY <1>3, <2>1, <2>2, <2>3, <2>4, <2>5, <2>6, <2>7 DEF TurnStep
  <1>4. ASSUME NEW t \in Turns, Background(t) PROVE RowsInv'
    BY <1>1, <1>4 DEF Background, TitleBegin, TitleEnd, Reflect
  <1>5. ASSUME NEW s \in Sessions, DeleteSession(s) PROVE RowsInv'
    <2>1. rows' = [rows EXCEPT ![s] = <<>>] /\ UNCHANGED <<turn, mixed>>
      BY <1>5 DEF DeleteSession
    <2>2. <<>> \in Seq(Message) /\ Rising(<<>>) /\ \A t : Before(<<>>, t)
      BY DEF Rising, Before
    <2>3. ASSUME NEW r \in Sessions \ mixed'
          PROVE  /\ \A u, v \in Unrecorded(r)' : u = v
                 /\ rows'[r] \in Seq(Message) /\ Rising(rows'[r])
                 /\ \A u \in Turns : turn'[u].pc = "unused" \/ u \in Unrecorded(r)' => Before(rows'[r], u)
      <3>1. Unrecorded(r)' = Unrecorded(r) /\ r \in Sessions \ mixed
        BY <2>1 DEF Unrecorded
      <3>2. rows'[r] = IF r = s THEN <<>> ELSE rows[r]
        BY <2>1 DEF RowsInv
      <3> QED BY <2>1, <2>2, <3>1, <3>2 DEF RowsInv
    <2> QED BY <2>1, <2>3 DEF RowsInv, Before, Rising
  <1>6. ASSUME NEW k \in Skills, PutSkill(k) \/ DeleteSkill(k) PROVE RowsInv'
    BY <1>1, <1>6 DEF PutSkill, DeleteSkill
  <1>7. CASE Edit \/ EditProjects
    BY <1>1, <1>7 DEF Edit, EditProjects
  <1>8. CASE UNCHANGED vars
    BY <1>1, <1>8 DEF vars, archiveVars
  <1> QED BY <1>3, <1>4, <1>5, <1>6, <1>7, <1>8, RowsCrash DEF Next, People

LEMMA ConversationsHold == Spec => [](ActorInv /\ TurnInv /\ HeldInv /\ RowsInv)
  <1>1. ArchiveInit => ActorInv /\ TurnInv /\ HeldInv /\ RowsInv
    BY ActorsBegin, ConversationsBegin
  <1>2. (ActorInv /\ TurnInv /\ HeldInv /\ RowsInv) /\ [Next]_vars => (ActorInv /\ TurnInv /\ HeldInv /\ RowsInv)'
    BY ActorsStay, ConversationsStay, RowsStay
  <1> QED BY <1>1, <1>2, PTL DEF Spec

\* The transcript of a session whose turns did not overlap holds each message at most
\* once and in the order of the conversation, for any number of sessions and turns and
\* any window, whatever was deleted, dropped, cancelled, evicted or cut off.
THEOREM TranscriptsKeepOrder == Spec => []InOrderOnce
  <1>1. RowsInv => InOrderOnce
    BY DEF RowsInv, InOrderOnce, Rising
  <1> QED BY <1>1, ConversationsHold, PTL

\* The relay's window alternates between user and assistant, is answered whenever no
\* turn of the chat is under way, and stays within its limit, whatever the limit.
THEOREM WindowsAlternate == Spec => []WindowAlternates
  <1>1. TurnInv /\ HeldInv /\ ActorInv => WindowAlternates
    <2> SUFFICES ASSUME TurnInv, HeldInv, ActorInv, NEW s \in Chats
                 PROVE  /\ Len(held[s]) <= Window
                        /\ \A i \in 1..Len(held[s]) - 1 : held[s][i].role # held[s][i + 1].role
                        /\ held[s] # <<>> => (Last(held[s]).role = "user" <=> Waiting(s) # {})
      BY DEF WindowAlternates
    <2>1. s \in Sessions
      BY ArchiveAssumption DEF ArchiveAssumption
    <2>2. /\ Len(held[s]) <= Window
          /\ \A i \in 1..Len(held[s]) - 1 : held[s][i].role # held[s][i + 1].role
      BY <2>1 DEF HeldInv, Dialogue
    <2>3. CASE Waiting(s) = {}
      BY <2>1, <2>2, <2>3 DEF HeldInv, Closed
    <2>4. ASSUME NEW t \in Waiting(s) PROVE Last(held[s]).role = "user"
      <3>1. t \in Turns /\ turn[t].session = s /\ turn[t].pc = "running" /\ held[s] = turn[t].request
        BY <2>1 DEF Waiting, TurnInv, HeldInv
      <3>2. Asks(s, held[s], t)
        BY <3>1 DEF TurnInv
      <3>3. Last(held[s]) = Asked(t)
        BY <3>2 DEF Asks
      <3> QED BY <3>3 DEF Asked
    <2> QED BY <2>2, <2>3, <2>4
  <1> QED BY <1>1, ConversationsHold, PTL

=============================================================================

------------------------------- MODULE Memory -------------------------------
(***************************************************************************)
(* What a model or a person can put into long-term memory: the bounded     *)
(* state files on disk with their mirror rows in SQLite, and the archive   *)
(* notes (memory/service.py, memory/state_files.py, memory/store.py).      *)
(* Everything runs on one event loop and nothing here awaits, so each      *)
(* request is one step. The search index follows the rows by triggers;     *)
(* identity files are mirrored like state files and never renamed.         *)
(***************************************************************************)
EXTENDS Naturals, FiniteSets

CONSTANTS
  Names,      \* state files, by the stem of their name
  Contents,   \* texts that fit the byte cap of a file
  Notes,      \* archive notes that may ever be written
  Sessions,   \* chat sessions a memory may cite as its source
  None        \* no file, no row, no session

\* A mirror row.
Row == [title : Names, content : Contents, source : Sessions \cup {None}]

ASSUME MemoryAssumption ==
  None \notin Names \cup Contents \cup Sessions \cup Notes /\ None \notin Row

VARIABLES
  file,       \* state/<name>.md
  mirror,     \* the row with the mirror id of a name
  note,       \* archive entries: the session one came from, or None
  noted,      \* the archive entries there are
  retitled    \* history: a mirror row was given another title since the boot

memoryVars == <<file, mirror, note, noted, retitled>>

MemoryTypeOK ==
  /\ file \in [Names -> Contents \cup {None}]
  /\ mirror \in [Names -> Row \cup {None}]
  /\ note \in [Notes -> Sessions \cup {None}]
  /\ noted \in SUBSET Notes
  /\ retitled \in BOOLEAN

\* remirror_files: the rows of the state layer are dropped and read again from
\* the files, which forgets the sources.
Mirrored(files) ==
  [n \in Names |-> IF files[n] = None THEN None
                   ELSE [title |-> n, content |-> files[n], source |-> None]]

MemoryInit ==
  /\ file = [n \in Names |-> None]
  /\ mirror = Mirrored(file)
  /\ note = [k \in Notes |-> None]
  /\ noted = {}
  /\ retitled = FALSE

\* create_entry of the state layer: the file is overwritten, the row replaced.
WriteState(n, c, source) ==
  /\ file' = [file EXCEPT ![n] = c]
  /\ mirror' = [mirror EXCEPT ![n] = [title |-> n, content |-> c, source |-> source]]
  /\ UNCHANGED <<note, noted, retitled>>

\* create_entry of the archive layer.
WriteNote(k, source) ==
  /\ k \notin noted
  /\ noted' = noted \cup {k}
  /\ note' = [note EXCEPT ![k] = source]
  /\ UNCHANGED <<file, mirror, retitled>>

\* PUT /v1/memory/state/{name}: only an existing file; all rows are read again.
\* Rows whose title was edited get their file's name back.
UpdateStateFile(n, c) ==
  /\ file[n] # None
  /\ file' = [file EXCEPT ![n] = c]
  /\ mirror' = Mirrored(file')
  /\ UNCHANGED <<note, noted, retitled>>

\* Mutant: the file goes and its mirror row stays.
DeleteStateFileOnly(n) ==
  /\ file[n] # None
  /\ file' = [file EXCEPT ![n] = None]
  /\ UNCHANGED <<mirror, note, noted, retitled>>

\* DELETE /v1/memory/state/{name}.
DeleteStateFile(n) ==
  /\ file[n] # None
  /\ file' = [file EXCEPT ![n] = None]
  /\ mirror' = [mirror EXCEPT ![n] = None]
  /\ UNCHANGED <<note, noted, retitled>>

\* PUT /v1/memory/{id} of a state entry. New content goes to the file that the
\* row's title names, which after an edit of the title is not the row's own.
UpdateEntry(n, title, content) ==
  /\ mirror[n] # None
  /\ file' = IF content = None THEN file ELSE [file EXCEPT ![mirror[n].title] = content]
  /\ mirror' = [mirror EXCEPT ![n].title = IF title = None THEN @ ELSE title,
                              ![n].content = IF content = None THEN @ ELSE content]
  /\ retitled' = (retitled \/ title \notin {None, mirror[n].title})
  /\ UNCHANGED <<note, noted>>

\* DELETE /v1/memory/{id} of a state entry: the file that the title names goes.
DeleteEntry(n) ==
  /\ mirror[n] # None
  /\ file' = [file EXCEPT ![mirror[n].title] = None]
  /\ mirror' = [mirror EXCEPT ![n] = None]
  /\ UNCHANGED <<note, noted, retitled>>

\* DELETE /v1/memory/{id} of an archive entry.
DeleteNote(k) ==
  /\ k \in noted
  /\ noted' = noted \ {k}
  /\ note' = [note EXCEPT ![k] = None]
  /\ UNCHANGED <<file, mirror, retitled>>

\* Mutant: only the notes forget it.
UnciteNotesOnly(s) ==
  /\ note' = [k \in Notes |-> IF note[k] = s THEN None ELSE note[k]]
  /\ UNCHANGED <<mirror, file, noted, retitled>>

\* delete_session: whatever cites the session as its source no longer does.
Uncite(s) ==
  /\ note' = [k \in Notes |-> IF note[k] = s THEN None ELSE note[k]]
  /\ mirror' = [n \in Names |-> IF mirror[n] # None /\ mirror[n].source = s
                                THEN [mirror[n] EXCEPT !.source = None] ELSE mirror[n]]
  /\ UNCHANGED <<file, noted, retitled>>

\* MemoryService.startup, on any files a stopped server left.
Remirror ==
  /\ mirror' = Mirrored(file)
  /\ retitled' = FALSE
  /\ UNCHANGED <<file, note, noted>>

\* The requests a person makes of memory.
MemoryRequest ==
  \/ \E n \in Names, c \in Contents : WriteState(n, c, None) \/ UpdateStateFile(n, c)
  \/ \E n \in Names : DeleteStateFile(n) \/ DeleteEntry(n)
  \/ \E n \in Names, t \in Names \cup {None}, c \in Contents \cup {None} : UpdateEntry(n, t, c)
  \/ \E k \in Notes : WriteNote(k, None) \/ DeleteNote(k)
-----------------------------------------------------------------------------
\* After any sequence of writes, edits and deletes by people, tools and
\* reflections, recall sees the state files as they are: a row for each file,
\* with its text, and none without (memory/service.py: "the DB row is a
\* mirror"). Not once a row's title has been edited: the entry surface then
\* writes and deletes the file of that title.
MirrorsMatch ==
  ~retitled =>
    \A n \in Names : IF file[n] = None THEN mirror[n] = None
                     ELSE mirror[n] # None /\ mirror[n].content = file[n]

=============================================================================

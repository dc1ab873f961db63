------------------------------ MODULE Projects ------------------------------
(***************************************************************************)
(* Projects (memory/store.py, routers/projects_router.py): they group      *)
(* sessions and carry documents. A document refers to its project by a     *)
(* foreign key, a session by a bare column. Names and descriptions are     *)
(* data and left out, and with them PATCH.                                 *)
(***************************************************************************)
EXTENDS Memory

CONSTANTS
  ProjectIds, \* ids that projects may get; one is given once
  Docs        \* documents, likewise

ASSUME ProjectAssumption == None \notin ProjectIds

VARIABLES
  projects, \* those there are
  gone,     \* ids of deleted ones
  doc,      \* project_docs: the project of each document there is
  filed,    \* ids given to documents
  member,   \* sessions.project_id
  crossed   \* history: projects deleted while a turn that named them was under way

projectVars == <<projects, gone, doc, filed, member, crossed>>

ProjectsInit ==
  /\ projects = {} /\ gone = {} /\ filed = {} /\ crossed = {}
  /\ doc = [d \in Docs |-> None]
  /\ member = [s \in Sessions |-> None]

AddProject(p) ==
  /\ p \notin projects \cup gone
  /\ projects' = projects \cup {p}
  /\ UNCHANGED <<gone, doc, filed, member, crossed>>

\* Mutant: members keep the id.
DeleteProjectOnly(p, inUse) ==
  /\ p \in projects
  /\ projects' = projects \ {p}
  /\ gone' = gone \cup {p}
  /\ doc' = [d \in Docs |-> IF doc[d] = p THEN None ELSE doc[d]]
  /\ crossed' = IF inUse THEN crossed \cup {p} ELSE crossed
  /\ UNCHANGED <<filed, member>>

\* delete_project: its members have no project, its documents cascade.
\* inUse: turns that named it are under way; they are not asked.
DeleteProject(p, inUse) ==
  /\ p \in projects
  /\ projects' = projects \ {p}
  /\ gone' = gone \cup {p}
  /\ doc' = [d \in Docs |-> IF doc[d] = p THEN None ELSE doc[d]]
  /\ member' = [s \in Sessions |-> IF member[s] = p THEN None ELSE member[s]]
  /\ crossed' = IF inUse THEN crossed \cup {p} ELSE crossed
  /\ UNCHANGED filed

\* POST .../docs awaits its body after it looked the project up: the foreign key
\* refuses the document of one that was deleted meanwhile.
AddDoc(d, p) ==
  /\ d \notin filed /\ p \in projects
  /\ doc' = [doc EXCEPT ![d] = p]
  /\ filed' = filed \cup {d}
  /\ UNCHANGED <<projects, gone, member, crossed>>

DeleteDoc(d) ==
  /\ doc[d] # None
  /\ doc' = [doc EXCEPT ![d] = None]
  /\ UNCHANGED <<projects, gone, filed, member, crossed>>

\* _require_project: what a request may name.
Nameable == projects \cup {None}

\* ensure_session: a project, if the request named one, is bound as it is; no
\* foreign key looks at it.
Bind(s, p) ==
  /\ member' = IF p = None THEN member ELSE [member EXCEPT ![s] = p]
  /\ UNCHANGED <<projects, gone, doc, filed, crossed>>

\* The session's row goes.
Unbind(s) ==
  /\ member' = [member EXCEPT ![s] = None]
  /\ UNCHANGED <<projects, gone, doc, filed, crossed>>

=============================================================================

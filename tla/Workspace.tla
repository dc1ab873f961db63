------------------------------ MODULE Workspace ------------------------------
(***************************************************************************)
(* The session's workdir as the tools of agent runs change it: fs_write    *)
(* with its undo journal, fs_undo, the shell, and the confirmation tokens  *)
(* that gate all three (tools/fs.py, tools/shell.py). Runs may share a     *)
(* workdir; each has tokens of its own. Paths are resolved and inside the  *)
(* jail; what is outside is refused before anything happens. The journal   *)
(* lies in the workdir: fs_write refuses to write there, a command may do  *)
(* to it what it likes.                                                    *)
(***************************************************************************)
EXTENDS Naturals, Sequences, FiniteSets, FiniteSetsExt

CONSTANTS
  Runs,         \* agent runs over one workdir
  AutoConfirm,  \* the runs that skip the gate
  Paths,        \* files
  Text,         \* contents a tool may write
  Raw,          \* a content that is not UTF-8: only a command leaves one
  Lossy,        \* what reading Raw as text makes of it
  Torn,         \* what a write leaves that fails or dies half way, cut between characters
  Commands,     \* shell commands
  Destructive,  \* those that match a destructive pattern
  Spells,       \* of each command: the write whose signature is its text, or None
  MaxUndo,      \* MAX_UNDO_ENTRIES
  MaxEdits,     \* bound on journaled edits
  MaxTokens,    \* bound on the tokens of a run
  None          \* no file, no entry

Numbers == 1..MaxEdits + 1
Content == Text \cup {Raw, Lossy, Torn}
Entry == [path : Paths, prior : (Content \ {Raw}) \cup {None}]

ASSUME WorkspaceAssumption ==
  /\ AutoConfirm \subseteq Runs /\ Destructive \subseteq Commands
  /\ Spells \in [Commands -> (Paths \X Text) \cup {None}]
  /\ \A x, y \in Commands : Spells[x] = Spells[y] => x = y \/ Spells[x] = None
  /\ MaxUndo \in Nat \ {0} /\ MaxEdits \in Nat /\ MaxTokens \in Nat
  /\ Cardinality({Raw, Lossy, Torn, None}) = 4
  /\ Text \cap {Raw, Lossy, Torn, None} = {}
  /\ {None, Torn} \cap Entry = {} /\ None # Torn

VARIABLES
  file,     \* the workdir
  journal,  \* .suiban-undo/<number>.json
  tokens,   \* ctx.confirm_tokens of each run, in the order of issue; popped: not live
  edits,    \* history: the edits journaled; closed: undone, never applied, or its
            \* entry was touched by a command
  unshown   \* history: a gated operation was applied that no denial had shown

workspaceVars == <<file, journal, tokens, edits, unshown>>

\* What a token approves: a write of this content, the undo of this number, or
\* this command. edit: the edit that had the number when it was shown.
Write(p, c) == [kind |-> "fs_write", on |-> <<p, c>>, edit |-> 0]
Undo(n, i) == [kind |-> "fs_undo", on |-> n, edit |-> i]
Command(x) == [kind |-> "shell", on |-> x, edit |-> 0]

Operation ==
  {Write(p, c) : p \in Paths, c \in Text} \cup {Undo(n, i) : n \in Numbers, i \in 0..MaxEdits}
    \cup {Command(x) : x \in Commands}

WorkspaceTypeOK ==
  /\ file \in [Paths -> Content \cup {None}]
  /\ journal \in [Numbers -> Entry \cup {Torn, None}]
  /\ tokens \in [Runs -> Seq([op : Operation, live : BOOLEAN, used : BOOLEAN])]
  /\ edits \in Seq([number : Numbers, path : Paths, before : Content \cup {None}, closed : BOOLEAN])
  /\ Len(edits) <= MaxEdits
  /\ unshown \in BOOLEAN

WorkspaceInit ==
  /\ file \in [Paths -> {None, Raw}]
  /\ journal = [n \in Numbers |-> None]
  /\ tokens = [r \in Runs |-> <<>>]
  /\ edits = <<>>
  /\ unshown = FALSE

\* bytes.decode(errors="replace")
Decoded(c) == IF c = Raw THEN Lossy ELSE c
-----------------------------------------------------------------------------
(* The confirm gate, the same in the three tools. *)

\* _write_signature, _undo_signature, and the command itself: one string. The
\* signature of an undo has the number, not the edit.
Signature(op) ==
  IF op.kind = "shell" /\ Spells[op.on] # None THEN <<"fs_write", Spells[op.on]>>
  ELSE <<op.kind, op.on>>

\* The string kept under the token is that of the operation: the three tools
\* share ctx.confirm_tokens, and no kind is kept.
Matches(token, op) == token.live /\ Signature(token.op) = Signature(op)

Confirmed(r, k, op) == k \in DOMAIN tokens[r] /\ Matches(tokens[r][k], op)

\* Mutant: a token is looked up and stays.
PoppedNot(r, k) == tokens[r]

\* pop(token, None): a token is gone whether or not it matched.
Popped(r, k) == IF k \in DOMAIN tokens[r] THEN [tokens[r] EXCEPT ![k].live = FALSE] ELSE tokens[r]

\* Refused, with a new token; nothing else happens.
Denied(r, k, op) ==
  /\ r \notin AutoConfirm /\ ~Confirmed(r, k, op)
  /\ Len(tokens[r]) < MaxTokens
  /\ tokens' = [tokens EXCEPT ![r] = Append(Popped(r, k), [op |-> op, live |-> TRUE, used |-> FALSE])]
  /\ UNCHANGED <<file, journal, edits, unshown>>

\* Shown by the denial that issued this token, which nothing has used; or known
\* by the string that was: the undo of an edit that took over the number of the
\* one shown, or a command and a write where one's text is the other's signature.
Shown(r, k, op) ==
  /\ k \in DOMAIN tokens[r] /\ ~tokens[r][k].used
  /\ LET op0 == tokens[r][k].op IN
     \/ op0 = op
     \/ {op0.kind, op.kind} = {"fs_undo"} /\ op0.on = op.on
     \/ {op0.kind, op.kind} = {"shell", "fs_write"} /\ Signature(op0) = Signature(op)

\* Let through: by auto_confirm or by the token.
Passed(r, k, op) ==
  /\ r \in AutoConfirm \/ Confirmed(r, k, op)
  /\ unshown' = (unshown \/ (r \notin AutoConfirm /\ ~Shown(r, k, op)))
  /\ tokens' = IF r \in AutoConfirm \/ k \notin DOMAIN tokens[r] THEN tokens
               ELSE [tokens EXCEPT ![r] = [Popped(r, k) EXCEPT ![k].used = TRUE]]
-----------------------------------------------------------------------------
(* The undo journal. *)

\* Files <number>.json, whatever is in them.
Existing == {n \in Numbers : journal[n] # None}
Readable == {n \in Existing : journal[n] # Torn}

\* Mutant: numbered by how many there are.
NextNumberCounted == Cardinality(Existing) + 1

NextNumber == IF Existing = {} THEN 1 ELSE Max(Existing) + 1

\* record_undo_entry: the entry, then the oldest go. torn: the process died as
\* it was written.
Journaled(p, torn) ==
  LET n == NextNumber
      stale == {m \in Existing : Cardinality({x \in Existing : x >= m}) >= MaxUndo}
  IN [m \in Numbers |->
        IF m = n THEN (IF torn THEN Torn ELSE [path |-> p, prior |-> Decoded(file[p])])
        ELSE IF m \in stale /\ ~torn THEN None ELSE journal[m]]

\* Torn entries have nothing to undo: their edits were not applied.
Edited(p, torn) ==
  edits' = Append(edits, [number |-> NextNumber, path |-> p, before |-> file[p], closed |-> torn])
-----------------------------------------------------------------------------
(* The tools. Nothing in fs_write and fs_undo awaits: each is one step. *)

\* fs_write applied: first the journal, then the file. An OSError in the entry
\* (torn) ends it there; one in the file leaves the old content or part of the new.
FsWrite(r, p, c, k) ==
  /\ Len(edits) < MaxEdits
  /\ Passed(r, k, Write(p, c))
  /\ \E torn \in BOOLEAN :
       /\ journal' = Journaled(p, torn)
       /\ Edited(p, torn)
       /\ IF torn THEN file' = file
          ELSE \E left \in {c, file[p], Torn} : file' = [file EXCEPT ![p] = left]

\* The entry fs_undo takes: the one asked for, the last one without an index.
Wanted(n) == IF n = 0 THEN (IF Readable = {} THEN 0 ELSE Max(Readable)) ELSE n

\* The edit whose entry has this number.
EditOf(n) == LET is == {i \in DOMAIN edits : edits[i].number = n}
             IN IF is = {} THEN 0 ELSE Max(is)

\* The edit whose entry this is cannot be taken back any more.
Closed(n) ==
  edits' = IF EditOf(n) = 0 THEN edits ELSE [edits EXCEPT ![EditOf(n)].closed = TRUE]

\* fs_undo applied: the entry's content is put back and the entry consumed. A
\* failed restore keeps the entry.
FsUndo(r, index, k) ==
  LET n == Wanted(index) IN
  /\ n \in Readable
  /\ Passed(r, k, Undo(n, EditOf(n)))
  /\ LET e == journal[n] IN
     \/ /\ file' = [file EXCEPT ![e.path] = e.prior]
        /\ journal' = [journal EXCEPT ![n] = None]
        /\ Closed(n)
     \/ /\ e.prior # None
        /\ \E left \in {file[e.path], Torn} : file' = [file EXCEPT ![e.path] = left]
        /\ UNCHANGED <<journal, edits>>

\* A command does what it does, before its timeout kills it or it ends, to a file
\* or to an entry of the journal: it removes, damages or rewrites it. Several such
\* things are several commands; entries that a command adds are left out.
ShellEffect ==
  \/ UNCHANGED <<file, journal, edits>>
  \/ /\ \E p \in Paths, c \in {None, Raw} : file' = [file EXCEPT ![p] = c]
     /\ UNCHANGED <<journal, edits>>
  \/ /\ \E n \in Existing, left \in Entry \cup {Torn, None} :
          journal' = [journal EXCEPT ![n] = left] /\ Closed(n)
     /\ file' = file

Shell(r, x, k) ==
  /\ IF x \in Destructive THEN Passed(r, k, Command(x)) ELSE UNCHANGED <<tokens, unshown>>
  /\ ShellEffect

\* The calls that the gate refuses.
Refused(r, k, toolset) ==
  \/ "fs_write" \in toolset /\ \E p \in Paths, c \in Text : Denied(r, k, Write(p, c))
  \/ "fs_undo" \in toolset /\ \E n \in Readable : Denied(r, k, Undo(n, EditOf(n)))
  \/ "shell" \in toolset /\ \E x \in Destructive : Denied(r, k, Command(x))

\* The process dies in fs_write: in the entry, or in the file.
DieWriting(p) ==
  /\ Len(edits) < MaxEdits
  /\ \E torn \in BOOLEAN :
       /\ journal' = Journaled(p, torn)
       /\ file' = IF torn THEN file ELSE [file EXCEPT ![p] = Torn]
       /\ Edited(p, torn)

\* The process dies in fs_undo: in the file, or before the entry is consumed.
DieUndoing(n) ==
  /\ n \in Readable
  /\ \E left \in {journal[n].prior, Torn} : file' = [file EXCEPT ![journal[n].path] = left]
  /\ UNCHANGED <<journal, edits>>
-----------------------------------------------------------------------------
\* The last MaxUndo edits can be taken back, newest first: an edit that nobody
\* undid, and whose entry no command touched, has its entry, with exactly what the
\* file held before it, even when the write failed or the process died in it
\* ("even a crash mid-write leaves the prior content recoverable",
\* tools/fs.py:147); and a later edit has a higher number, so fs_undo without an
\* index takes the most recent one. Of a file that was not UTF-8 the entry has
\* only what its decoding leaves (tools/fs.py:252).
EditsRecoverable ==
  LET recent == {i \in DOMAIN edits : ~edits[i].closed /\ Len(edits) - i < MaxUndo} IN
  /\ \A i \in recent :
       /\ journal[edits[i].number] \in Entry
       /\ journal[edits[i].number].path = edits[i].path
       /\ journal[edits[i].number].prior =
            IF edits[i].before = Raw THEN Lossy ELSE edits[i].before
  /\ \A i, j \in recent : i < j => edits[i].number < edits[j].number

\* Without auto_confirm an operation is applied only after a denial that showed
\* it, and each denial lets at most one through (tools/fs.py:125: "bound to the
\* EXACT operation it approves (single use)"), whatever other operations, runs
\* and failures came between. An operation is known by the string its tool
\* compares: the undo of an edit that was given the number of the one shown counts
\* as shown, and so does a command for the write whose signature it spells, and
\* the write for the command.
ApprovedAsShown == ~unshown

-----------------------------------------------------------------------------
(* The strengthening behind them (AgentLoopProofs). *)

\* A token that has approved something is gone.
TokenInv ==
  \A r \in Runs : \A k \in DOMAIN tokens[r] : tokens[r][k].live => ~tokens[r][k].used

\* The number of the i-th edit is below those of all later edits.
Ascends(i) == \A j \in DOMAIN edits : i < j => edits[i].number < edits[j].number

\* An entry belongs to the edit that got its number last, and while it is there
\* later edits get higher numbers. No number outgrows the count of edits.
JournalInv ==
  /\ \A n \in Existing : \E i \in DOMAIN edits : edits[i].number = n /\ Ascends(i)
  /\ \A i \in DOMAIN edits : edits[i].number <= i
  /\ \A i \in DOMAIN edits : ~edits[i].closed /\ Len(edits) - i < MaxUndo =>
       /\ journal[edits[i].number] = [path |-> edits[i].path, prior |-> Decoded(edits[i].before)]
       /\ Ascends(i)

=============================================================================

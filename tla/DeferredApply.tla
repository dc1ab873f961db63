---------------------------- MODULE DeferredApply ----------------------------
(***************************************************************************)
(* Settings: PATCH stages, POST /v1/system/apply commits, and an apply that*)
(* finds the system busy is left to the next idle moment. Composes the     *)
(* ConfigManager (config.py: the live settings, the staged patch and a     *)
(* file for each), the ActivityTracker and the AppState (app.py) with the  *)
(* research jobs, whose terminal states are the other way to become idle.  *)
(***************************************************************************)
EXTENDS Jobs

CONSTANTS
  Keys,      \* settings, as deep_merge addresses them
  Values,    \* their values
  Unset,     \* None, the value a key has when its file does not mention it
  NotStaged, \* no staged patch, or no staged.toml
  MaxChats   \* bound on the chats at work

Patches == UNION {[S -> Values] : S \in SUBSET Keys}

ASSUME SettingsAssumption ==
  /\ Unset \in Values
  /\ NotStaged \notin Patches
  /\ MaxChats \in Nat

VARIABLES
  settings,     \* _settings
  staged,       \* _staged
  configFile,   \* config.toml
  stagedFile,   \* staged.toml
  applyPending, \* AppState.apply_pending
  chats,        \* ActivityTracker._count
  dying         \* the process died inside apply(), between its two files

configVars == <<settings, staged, configFile, stagedFile, dying>>
settingsVars == <<configVars, applyPending>>
appVars == <<vars, configVars, applyPending, chats>>

AppTypeOK ==
  /\ TypeOK
  /\ settings \in [Keys -> Values]
  /\ staged \in Patches \cup {NotStaged}
  /\ configFile \in Patches
  /\ stagedFile \in Patches \cup {NotStaged}
  /\ applyPending \in BOOLEAN
  /\ chats \in 0..MaxChats
  /\ dying \in BOOLEAN

\* First run: the packaged defaults are written out.
AppInit ==
  /\ Init
  /\ settings = [k \in Keys |-> Unset]
  /\ staged = NotStaged
  /\ configFile = [k \in {} |-> Unset]
  /\ stagedFile = NotStaged
  /\ applyPending = FALSE
  /\ chats = 0
  /\ dying = FALSE

-----------------------------------------------------------------------------
(* ConfigManager. *)

\* deep_merge.
Merge(base, patch) ==
  [k \in DOMAIN base \cup DOMAIN patch |-> IF k \in DOMAIN patch THEN patch[k] ELSE base[k]]

\* _strip_nones: TOML has no null.
Written(patch) == [k \in {q \in DOMAIN patch : patch[q] # Unset} |-> patch[k]]

\* Settings.model_validate of a file.
Validated(file) == [k \in Keys |-> IF k \in DOMAIN file THEN file[k] ELSE Unset]

\* staged_settings(), and what GET /v1/settings shows will be in force.
Preview == IF staged = NotStaged THEN settings ELSE Merge(settings, staged)

\* stage().
Stage(k, v) ==
  LET patch == Merge(IF staged = NotStaged THEN [q \in {} |-> v] ELSE staged, [q \in {k} |-> v])
  IN /\ staged' = patch
     /\ stagedFile' = Written(patch)
     /\ UNCHANGED <<settings, configFile, dying>>

\* Mutant: the stage is cleared first.
CommitUnlinksFirst ==
  \/ /\ staged = NotStaged
     /\ UNCHANGED configVars
  \/ /\ staged # NotStaged
     /\ settings' = Preview
     /\ staged' = NotStaged
     /\ stagedFile' = NotStaged
     /\ dying' \in BOOLEAN
     /\ configFile' = IF dying' THEN configFile ELSE Written(Preview)

\* ConfigManager.apply(): config.toml is written before staged.toml is unlinked.
Commit ==
  \/ /\ staged = NotStaged
     /\ UNCHANGED configVars
  \/ /\ staged # NotStaged
     /\ settings' = Preview
     /\ configFile' = Written(Preview)
     /\ staged' = NotStaged
     /\ dying' \in BOOLEAN
     /\ stagedFile' = IF dying' THEN stagedFile ELSE NotStaged

-----------------------------------------------------------------------------
(* AppState. *)

IsIdle == chats = 0 /\ ~JobActive

\* Mutant: only chats count as activity.
MaybeCommitBesideJobs ==
  IF applyPending /\ chats' = 0 /\ staged # NotStaged
    THEN Commit /\ applyPending' = FALSE
    ELSE UNCHANGED settingsVars

\* maybe_commit_staged(), called once the count or the row is updated.
MaybeCommit ==
  IF applyPending /\ IsIdle' /\ staged # NotStaged
    THEN Commit /\ applyPending' = FALSE
    ELSE UNCHANGED settingsVars

PatchSettings(k, v) ==
  /\ ~closing
  /\ Stage(k, v)
  /\ UNCHANGED <<vars, applyPending, chats>>

\* Telegram pairing and the WhatsApp link are written past the stage.
DirectWrite(k, v) ==
  /\ ~closing
  /\ settings[k] # v
  /\ settings' = [settings EXCEPT ![k] = v]
  /\ configFile' = Written(settings')
  /\ UNCHANGED <<vars, staged, stagedFile, applyPending, chats, dying>>

PostApply ==
  /\ ~closing
  /\ \/ /\ staged # NotStaged /\ ~IsIdle
        /\ applyPending' = TRUE
        /\ UNCHANGED configVars
     \/ /\ staged = NotStaged \/ IsIdle
        /\ applyPending' = FALSE
        /\ Commit
  /\ UNCHANGED <<vars, chats>>

\* activity.begin() and end().
BeginChat ==
  /\ ~closing
  /\ chats < MaxChats
  /\ chats' = chats + 1
  /\ UNCHANGED <<vars, settingsVars>>

EndChat ==
  /\ chats > 0
  /\ chats' = chats - 1
  /\ UNCHANGED vars
  /\ IF chats' = 0 THEN MaybeCommit ELSE UNCHANGED settingsVars

\* The steps of a job; the listener on its terminal state is a MaybeCommit.
SubmitJob(j) == Submit(j) /\ UNCHANGED <<settingsVars, chats>>

JobStep(j) ==
  /\ Start(j) \/ Progress(j) \/ Vanish(j)
  /\ UNCHANGED <<settingsVars, chats>>

\* Mutant: nothing listens for the end of a job.
OnTerminalDeaf(j) == UNCHANGED <<settingsVars, chats>>

OnTerminal(j) ==
  /\ UNCHANGED chats
  /\ IF row[j] \in Active /\ row'[j] \in Terminal THEN MaybeCommit ELSE UNCHANGED settingsVars

PipelineEnds(j) == (Complete(j) \/ Fail(j) \/ Unwind(j)) /\ OnTerminal(j)

DeleteJob(j) == Delete(j) /\ OnTerminal(j)

OpenOrLeave(c) ==
  /\ Leave(c) \/ \E j \in Jobs : Open(c, j)
  /\ UNCHANGED <<settingsVars, chats>>

StreamStep(c) ==
  /\ Subscribe(c) \/ Deliver(c)
  /\ UNCHANGED <<settingsVars, chats>>

\* Requests have ended when the lifespan closes.
BeginShutdown ==
  /\ Shutdown
  /\ chats' = 0
  /\ IF chats > 0 THEN MaybeCommit ELSE UNCHANGED settingsVars

-----------------------------------------------------------------------------
(* The process ends and boots again: load(). *)

Load ==
  /\ settings' = Validated(configFile)
  /\ staged' = stagedFile
  /\ applyPending' = FALSE
  /\ chats' = 0
  /\ dying' = FALSE
  /\ UNCHANGED <<configFile, stagedFile>>

Reboot == Restart /\ Load

RebootAfterReport(j) == CrashAfterReport(j) /\ Load

-----------------------------------------------------------------------------
Running ==
  \/ \E k \in Keys, v \in Values : PatchSettings(k, v) \/ DirectWrite(k, v)
  \/ PostApply \/ BeginChat \/ EndChat
  \/ \E j \in Jobs :
       SubmitJob(j) \/ JobStep(j) \/ PipelineEnds(j) \/ DeleteJob(j) \/ RebootAfterReport(j)
  \/ \E c \in Clients : OpenOrLeave(c) \/ StreamStep(c)
  \/ BeginShutdown

AppNext == (~dying /\ Running) \/ Reboot

AppSpec == AppInit /\ [][AppNext]_appVars

\* As in Jobs. A process that died in apply() has also closed its sockets, which
\* here happens at its reboot.
AppFairness ==
  /\ \A j \in Jobs : WF_appVars(~dying /\ JobStep(j)) /\ WF_appVars(~dying /\ PipelineEnds(j))
  /\ \A c \in Clients : WF_appVars(~dying /\ StreamStep(c))
  /\ WF_appVars(dying /\ Reboot)

AppFairSpec == AppSpec /\ AppFairness

-----------------------------------------------------------------------------
(* Properties. *)

\* A deferred apply is never forgotten: when nothing runs any more it has been
\* committed, whichever of the last chat's end and the job's end came last.
NoForgottenApply == ~(applyPending /\ staged # NotStaged /\ IsIdle)

\* "Takes effect at the next idle moment, never mid-run" (docs/api.md): the live
\* settings only move past the stage or when no chat and no active row is left.
NeverMidRun ==
  [][\A k \in Keys : settings'[k] # settings[k] =>
       IsIdle' \/ (\E v \in Values : DirectWrite(k, v))]_appVars

\* What the user was shown as about to be in force stays so: an apply, a deferred
\* commit, a crash between the two files and a restart only move it from the stage
\* to the settings. (A staged null is the exception: it is not written down.)
PreviewKept ==
  [][\A k \in Keys : Preview'[k] # Preview[k] =>
       \/ Preview[k] = Unset
       \/ \E v \in Values : PatchSettings(k, v) \/ DirectWrite(k, v)]_appVars

=============================================================================

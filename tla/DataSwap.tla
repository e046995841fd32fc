------------------------------ MODULE DataSwap ------------------------------
(***************************************************************************)
(* Replacing the whole data set by a backup (maintenance/restore.rs) and   *)
(* removing it (maintenance/clear_all.rs).  Both prepare an intent in the  *)
(* running application, under the exclusive permit of the gate, close the  *)
(* gate, and do the swap when the application starts again, before the     *)
(* database is opened (lib.rs): first a pending clear, then a pending      *)
(* restore.  The process may be killed between any two operations on the   *)
(* file system or the vault.                                               *)
(*                                                                         *)
(* A data set is known by a number; a unit at a place is the number of the *)
(* data set it belongs to.  Units are moved and removed in any order: the  *)
(* order of the code is one of them.  A start that meets an error ends the *)
(* process, as a kill does, so only errors in the running application are  *)
(* actions of their own.  Links, identities, hashes and limits only refuse *)
(* and are left out, as is what a disk forgets at a power failure.         *)
(***************************************************************************)
EXTENDS Naturals, FiniteSets

CONSTANTS
  Database,    \* library.sqlite3
  Required,    \* library.sqlite3, books, cache, logs
  Optional,    \* the files SQLite keeps beside the database
  Keys,        \* credentials the user may store in the vault
  MaxSets,     \* data sets made besides the first
  MaxFaults,   \* operations of the running application that fail
  MaxCrashes   \* times the process is killed

ASSUME BoundAssumption == MaxSets \in Nat /\ MaxFaults \in Nat /\ MaxCrashes \in Nat
ASSUME UnitAssumption == Database \in Required /\ Required \intersect Optional = {}

Units == Required \union Optional
Absent == MaxSets + 1
Sets == 0 .. Absent

VARIABLES
  place,     \* place[p][u]: the data set whose unit u is at p
  stage,     \* the directory a restore stages in: absent, part or whole
  rolled,    \* whether rollback/<operation> exists
  control,   \* the two directories below maintenance: absent, part or whole
  intent,    \* the one intent file below each of them
  targets,   \* the credentials the intent of a clear names
  vault,     \* the credentials that are stored
  app,       \* the process: up, starting or down
  shut,      \* whether the gate is closed for good
  at,        \* the next operation of the restore, the clear or the start
  todo,      \* the credentials the loop has still to delete
  failed,    \* whether it has met an error
  current,   \* the data set the application has opened last
  made,      \* the number of the data set made last
  cleared,   \* the data sets and credentials that a clear has reported gone
  faults, crashes

dirs == <<stage, rolled>>
process == <<app, shut, at>>
loop == <<todo, failed, targets, vault>>
history == <<current, made, cleared>>
bounds == <<faults, crashes>>
vars == <<place, dirs, control, intent, process, loop, history, bounds>>

Spots == {"root", "staged", "rollback", "trash"}
Shapes == {"absent", "part", "whole"}
RestorePhase == {"prepared", "old-staged", "new-installed", "finalizing"}
ClearPhase == {"credentials-pending", "ready", "local-staged"}

Nothing == [u \in Units |-> Absent]
Has(p, u) == place[p][u] # Absent
Empty(p) == place[p] = Nothing
Move(u, from, to) == place' = [place EXCEPT ![from][u] = Absent, ![to][u] = place[from][u]]
Remove(u, p) == place' = [place EXCEPT ![p][u] = Absent]

RestorePending == intent["restore"] \in RestorePhase
ClearPending == intent["clear"] \in ClearPhase

Init ==
  /\ place = [p \in Spots |-> [u \in Units |-> IF p = "root" /\ u \in Required THEN 0 ELSE Absent]]
  /\ stage = "absent"
  /\ rolled = FALSE
  /\ control = [c \in {"restore", "clear"} |-> "absent"]
  /\ intent = [c \in {"restore", "clear"} |-> "none"]
  /\ targets = {}
  /\ vault = {}
  /\ app = "up"
  /\ shut = FALSE
  /\ at = "idle"
  /\ todo = {}
  /\ failed = FALSE
  /\ current = 0
  /\ made = 0
  /\ cleared = [sets |-> {}, keys |-> {}]
  /\ faults = 0
  /\ crashes = 0

Goto(l) == at' = l /\ UNCHANGED <<app, shut>>
Step(l) == at = l /\ app # "down"

\* An error at startup ends the process; the next start begins again.
Refuse ==
  /\ app' = "down"
  /\ at' = "idle"
  /\ shut' = FALSE

SetIntent(c, phase) == intent' = [intent EXCEPT ![c] = phase]
SetControl(c, shape) == control' = [control EXCEPT ![c] = shape]

-----------------------------------------------------------------------------
(* The running application                                                   *)

\* A normal operation stores a credential (commands/credentials.rs).
SaveCredential(k) ==
  /\ app = "up"
  /\ at = "idle"
  /\ ~shut
  /\ k \notin vault
  /\ vault' = vault \union {k}
  /\ cleared' = [cleared EXCEPT !.keys = @ \ {k}]
  /\ UNCHANGED <<place, dirs, control, intent, process, todo, failed, targets, current, made, bounds>>

\* open_or_create makes one directory after the other.
OpenOrCreate(c, from, to) ==
  /\ app = "up"
  /\ at = from
  /\ ~shut
  /\ IF control[c] = "absent"
     THEN SetControl(c, "part") /\ Goto(from)
     ELSE SetControl(c, "whole") /\ Goto(to)
  /\ UNCHANGED <<place, dirs, intent, loop, history, bounds>>

Begin(l) ==
  /\ app = "up"
  /\ at = "idle"
  /\ ~shut
  /\ made < MaxSets
  /\ Goto(l)
  /\ UNCHANGED <<place, dirs, control, intent, loop, history, bounds>>

BeginRestore == Begin("restore-open")
BeginClear == Begin("clear-open")

\* require_no_pending_or_conflicting_intent: any directory that a clear has
\* left below clear-all/intents is a conflict.  Then create_stage.
CreateStage ==
  /\ Step("restore-check")
  /\ IF intent["restore"] = "none" /\ control["clear"] = "absent" /\ stage = "absent" /\ ~rolled
     THEN stage' = "part" /\ Goto("restore-copy")
     ELSE UNCHANGED stage /\ Goto("idle")
  /\ UNCHANGED <<place, rolled, control, intent, loop, history, bounds>>

\* The archive is copied, checked and extracted, and the staged data checked.
StageData ==
  /\ Step("restore-copy")
  /\ made' = made + 1
  /\ place' = [place EXCEPT !["staged"] = [u \in Units |-> IF u \in Required THEN made + 1 ELSE Absent]]
  /\ stage' = "whole"
  /\ Goto("restore-write")
  /\ UNCHANGED <<rolled, control, intent, loop, current, cleared, bounds>>

\* Any of this may find the archive wrong, or the disk full.
StageFails ==
  /\ Step("restore-copy")
  /\ Goto("restore-undo")
  /\ UNCHANGED <<place, dirs, control, intent, loop, history, bounds>>

\* write_prepared_intent and write_credentials_pending: the file is written
\* under a temporary name and renamed.
WriteIntent(c, from, to) ==
  /\ Step(from)
  /\ SetIntent(c, "temp")
  /\ Goto(to)
  /\ UNCHANGED <<place, dirs, control, loop, history, bounds>>

WriteRestoreIntent == WriteIntent("restore", "restore-write", "restore-name")
WriteClearIntent == WriteIntent("clear", "clear-write", "clear-name")

\* The gate is closed for good, so that nothing is written to the old data.
NameRestoreIntent ==
  /\ Step("restore-name")
  /\ SetIntent("restore", "prepared")
  /\ shut' = TRUE
  /\ at' = "idle"
  /\ UNCHANGED <<place, dirs, control, app, loop, history, bounds>>

\* The rename, or the flush of the directory after it, fails.
NameRestoreFails ==
  /\ Step("restore-name")
  /\ faults < MaxFaults
  /\ faults' = faults + 1
  /\ \/ UNCHANGED intent
     \/ SetIntent("restore", "prepared")
  /\ Goto("restore-undo")
  /\ UNCHANGED <<place, dirs, control, loop, history, crashes>>

\* stage_restore undoes what no intent names.  has_intent reports a temporary
\* file as a conflict, and then the stage stays.
UndoStage ==
  /\ Step("restore-undo")
  /\ IF intent["restore"] = "none"
     THEN /\ stage' = "absent"
          /\ place' = [place EXCEPT !["staged"] = Nothing]
     ELSE UNCHANGED <<stage, place>>
  /\ Goto("idle")
  /\ UNCHANGED <<rolled, control, intent, loop, history, bounds>>

\* clear_all_data: an intent that is there is continued with its own targets,
\* otherwise the targets are the profiles, the remote references and all keys
\* the vault lists.
CollectTargets ==
  /\ Step("clear-check")
  /\ IF intent["restore"] # "none" \/ intent["clear"] = "temp"
     THEN Goto("idle") /\ UNCHANGED <<todo, failed, targets>>
     ELSE /\ failed' = FALSE
          /\ IF ClearPending
             THEN targets' = targets /\ Goto("credentials")
             ELSE targets' = vault /\ Goto("clear-write")
          /\ todo' = targets'
  /\ UNCHANGED <<place, dirs, control, intent, vault, history, bounds>>

\* The vault cannot be listed: no intent, but the directories stay.
CollectFails ==
  /\ Step("clear-check")
  /\ ~ClearPending
  /\ faults < MaxFaults
  /\ faults' = faults + 1
  /\ Goto("idle")
  /\ UNCHANGED <<place, dirs, control, intent, loop, history, crashes>>

NameClearIntent ==
  /\ Step("clear-name")
  /\ SetIntent("clear", "credentials-pending")
  /\ Goto("credentials")
  /\ UNCHANGED <<place, dirs, control, loop, history, bounds>>

-----------------------------------------------------------------------------
(* delete_credentials, in the running application and at startup             *)

DeleteCredential(k) ==
  /\ Step("credentials")
  /\ k \in todo
  /\ todo' = todo \ {k}
  /\ vault' = vault \ {k}
  /\ UNCHANGED <<place, dirs, control, intent, process, failed, targets, history, bounds>>

\* The loop goes on after an error.
DeleteFails(k) ==
  /\ Step("credentials")
  /\ k \in todo
  /\ faults < MaxFaults
  /\ faults' = faults + 1
  /\ todo' = todo \ {k}
  /\ failed' = TRUE
  /\ UNCHANGED <<place, dirs, control, intent, process, targets, vault, history, crashes>>

\* Not complete: the running application goes on, a start is refused.
CredentialCleanupRequired ==
  /\ Step("credentials")
  /\ todo = {}
  /\ failed
  /\ IF app = "up" THEN Goto("idle") ELSE Refuse
  /\ UNCHANGED <<place, dirs, control, intent, loop, history, bounds>>

\* Mutant of CredentialsCleared: the errors of the loop are forgotten.
ClearedAnyway ==
  /\ Step("credentials")
  /\ todo = {}
  /\ SetIntent("clear", "ready")
  /\ cleared' = [sets |-> cleared.sets \union {current}, keys |-> cleared.keys \union targets]
  /\ IF app = "up"
     THEN shut' = TRUE /\ at' = "idle" /\ UNCHANGED app
     ELSE Goto("clear-move")
  /\ UNCHANGED <<place, dirs, control, loop, current, made, bounds>>

CredentialsCleared ==
  /\ Step("credentials")
  /\ todo = {}
  /\ ~failed
  /\ SetIntent("clear", "ready")
  /\ cleared' = [sets |-> cleared.sets \union {current}, keys |-> cleared.keys \union targets]
  /\ IF app = "up"
     THEN shut' = TRUE /\ at' = "idle" /\ UNCHANGED app
     ELSE Goto("clear-move")
  /\ UNCHANGED <<place, dirs, control, loop, current, made, bounds>>

-----------------------------------------------------------------------------
(* The start: recover_pending_clear                                          *)

Start ==
  /\ app = "down"
  /\ app' = "starting"
  /\ at' = "clear"
  /\ UNCHANGED <<place, dirs, control, intent, shut, loop, history, bounds>>

\* A control without a file is removed, whatever of it there is.
RecoverClear ==
  /\ Step("clear")
  /\ IF intent["clear"] = "none"
     THEN IF control["clear"] = "absent" THEN Goto("restore") ELSE Goto("clear-rmdir")
     ELSE IF intent["clear"] = "temp" \/ intent["restore"] # "none" THEN Refuse
     ELSE CASE intent["clear"] = "credentials-pending" -> Goto("credentials")
            [] intent["clear"] = "ready" -> Goto("clear-move")
            [] OTHER -> Goto("clear-remove")
  /\ todo' = targets
  /\ failed' = FALSE
  /\ UNCHANGED <<place, dirs, control, intent, targets, vault, history, bounds>>

\* stage_local_data
TrashUnit(u) ==
  /\ Step("clear-move")
  /\ Has("root", u)
  /\ ~Has("trash", u)
  /\ Move(u, "root", "trash")
  /\ UNCHANGED <<dirs, control, intent, process, loop, history, bounds>>

\* After the units the control of restores, with what a failed restore left;
\* then validate_cleared_root and the transition.
LocalStaged ==
  /\ Step("clear-move")
  /\ Empty("root")
  /\ \A u \in Required : Has("trash", u)
  /\ IF control["restore"] # "absent"
     THEN SetControl("restore", "absent") /\ stage' = "absent" /\ Goto("clear-move")
          /\ place' = [place EXCEPT !["staged"] = Nothing] /\ UNCHANGED intent
     ELSE SetIntent("clear", "local-staged") /\ Goto("clear-remove") /\ UNCHANGED <<control, stage, place>>
  /\ UNCHANGED <<rolled, loop, history, bounds>>

RemoveTrash(u) ==
  /\ Step("clear-remove")
  /\ Empty("root")
  /\ Has("trash", u)
  /\ Remove(u, "trash")
  /\ UNCHANGED <<dirs, control, intent, process, loop, history, bounds>>

RemoveClearIntent ==
  /\ Step("clear-remove")
  /\ Empty("trash")
  /\ Empty("root")
  /\ SetIntent("clear", "none")
  /\ targets' = {}
  /\ Goto("clear-rmdir")
  /\ UNCHANGED <<place, dirs, control, todo, failed, vault, history, bounds>>

-----------------------------------------------------------------------------
(* The start: recover_pending_restore                                        *)

\* Mutant of RecoverRestore: a restore that has moved the old data is taken
\* for done.
RecoverPreparedOnly ==
  /\ Step("restore")
  /\ IF control["restore"] = "absent" \/ intent["restore"] \in {"old-staged", "new-installed"} THEN Goto("open")
     ELSE IF control["restore"] = "part" \/ control["clear"] # "absent" \/ intent["restore"] = "temp" THEN Refuse
     ELSE IF intent["restore"] = "none"
     THEN IF stage = "absent" /\ ~rolled THEN Goto("restore-rmdir") ELSE Refuse
     ELSE IF intent["restore"] = "finalizing" THEN Goto("restore-final")
     ELSE IF stage = "whole" THEN Goto("restore-rollback") ELSE Refuse
  /\ UNCHANGED <<place, dirs, control, intent, loop, history, bounds>>

\* open_existing wants every directory of the control.
RecoverRestore ==
  /\ Step("restore")
  /\ IF control["restore"] = "absent" THEN Goto("open")
     ELSE IF control["restore"] = "part" \/ control["clear"] # "absent" \/ intent["restore"] = "temp" THEN Refuse
     ELSE IF intent["restore"] = "none"
     THEN IF stage = "absent" /\ ~rolled THEN Goto("restore-rmdir") ELSE Refuse
     ELSE IF intent["restore"] = "finalizing" THEN Goto("restore-final")
     ELSE IF stage # "whole" THEN Refuse
     ELSE CASE intent["restore"] = "prepared" -> Goto("restore-rollback")
            [] intent["restore"] = "old-staged" -> Goto("restore-install")
            [] OTHER -> Goto("restore-installed")
  /\ UNCHANGED <<place, dirs, control, intent, loop, history, bounds>>

\* stage_old_state, after validate_materialized_dataset
CreateRollback ==
  /\ Step("restore-rollback")
  /\ \A u \in Required : Has("staged", u)
  /\ rolled' = TRUE
  /\ Goto("restore-old")
  /\ UNCHANGED <<place, stage, control, intent, loop, history, bounds>>

StageOld(u) ==
  /\ Step("restore-old")
  /\ Has("root", u)
  /\ ~Has("rollback", u)
  /\ Move(u, "root", "rollback")
  /\ UNCHANGED <<dirs, control, intent, process, loop, history, bounds>>

\* Mutant of OldStaged: the companions of the database may stay.
OldStagedRequired ==
  /\ Step("restore-old")
  /\ \A u \in Required : Has("rollback", u)
  /\ SetIntent("restore", "old-staged")
  /\ Goto("restore-install")
  /\ UNCHANGED <<place, dirs, control, loop, history, bounds>>

OldStaged ==
  /\ Step("restore-old")
  /\ Empty("root")
  /\ \A u \in Required : Has("rollback", u)
  /\ SetIntent("restore", "old-staged")
  /\ Goto("restore-install")
  /\ UNCHANGED <<place, dirs, control, loop, history, bounds>>

\* validate_split_new_state and install_new_state: a required unit is either
\* still staged or already at its place.
InstallNew(u) ==
  /\ Step("restore-install")
  /\ u \in Required
  /\ Has("staged", u)
  /\ ~Has("root", u)
  /\ Move(u, "staged", "root")
  /\ UNCHANGED <<dirs, control, intent, process, loop, history, bounds>>

NewInstalled ==
  /\ Step("restore-install")
  /\ \A u \in Required : Has("root", u) /\ ~Has("staged", u)
  /\ \A u \in Optional : ~Has("root", u)
  /\ SetIntent("restore", "new-installed")
  /\ Goto("restore-installed")
  /\ UNCHANGED <<place, dirs, control, loop, history, bounds>>

\* validate_installed_dataset
Finalizing ==
  /\ Step("restore-installed")
  /\ \A u \in Required : Has("root", u)
  /\ \A u \in Optional : ~Has("root", u)
  /\ SetIntent("restore", "finalizing")
  /\ Goto("restore-final")
  /\ UNCHANGED <<place, dirs, control, loop, history, bounds>>

RemoveRollback(u) ==
  /\ Step("restore-final")
  /\ Has("rollback", u)
  /\ Remove(u, "rollback")
  /\ UNCHANGED <<dirs, control, intent, process, loop, history, bounds>>

RemoveRollbackRoot ==
  /\ Step("restore-final")
  /\ Empty("rollback")
  /\ rolled' = FALSE
  /\ Goto("restore-unstage")
  /\ UNCHANGED <<place, stage, control, intent, loop, history, bounds>>

\* The archive and the empty data set directory are removed one by one.
RemoveStage ==
  /\ Step("restore-unstage")
  /\ IF stage = "whole"
     THEN stage' = "part" /\ Goto("restore-unstage")
     ELSE stage' = "absent" /\ Goto("restore-forget")
  /\ UNCHANGED <<place, rolled, control, intent, loop, history, bounds>>

RemoveRestoreIntent ==
  /\ Step("restore-forget")
  /\ SetIntent("restore", "none")
  /\ Goto("restore-rmdir")
  /\ UNCHANGED <<place, dirs, control, loop, history, bounds>>

\* cleanup_empty_clear_control and remove_empty_restore_control remove their
\* directories one by one.
RemoveControl(c, from, to) ==
  /\ Step(from)
  /\ IF control[c] = "whole"
     THEN SetControl(c, "part") /\ Goto(from)
     ELSE SetControl(c, "absent") /\ Goto(to)
  /\ UNCHANGED <<place, dirs, intent, loop, history, bounds>>

RemoveClearControl == RemoveControl("clear", "clear-rmdir", "restore")
RemoveRestoreControl == RemoveControl("restore", "restore-rmdir", "open")

\* The directories and the database are made where they are missing, and the
\* database is opened, with some of its companions.
OpenData ==
  /\ Step("open")
  /\ LET missing == {u \in Required : ~Has("root", u)}
         opened == IF Database \in missing THEN made + 1 ELSE place["root"][Database]
     IN  /\ made' = IF missing = {} THEN made ELSE made + 1
         /\ current' = opened
         /\ \E more \in SUBSET Optional :
              place' = [place EXCEPT !["root"] =
                [u \in Units |-> IF Has("root", u) THEN @[u]
                                 ELSE IF u \in missing THEN made + 1
                                 ELSE IF u \in more THEN opened ELSE Absent]]
  /\ app' = "up"
  /\ at' = "idle"
  /\ UNCHANGED <<dirs, control, intent, shut, loop, cleared, bounds>>

\* The application is closed, or restarted by the user (restart_application).
Quit ==
  /\ app = "up"
  /\ at = "idle"
  /\ Refuse
  /\ UNCHANGED <<place, dirs, control, intent, loop, history, bounds>>

Kill ==
  /\ app # "down"
  /\ at # "idle"
  /\ crashes < MaxCrashes
  /\ crashes' = crashes + 1
  /\ Refuse
  /\ UNCHANGED <<place, dirs, control, intent, loop, history, faults>>

-----------------------------------------------------------------------------
CreateControl ==
  \/ OpenOrCreate("restore", "restore-open", "restore-check")
  \/ OpenOrCreate("clear", "clear-open", "clear-check")

StageRestore ==
  \/ CreateStage
  \/ StageData
  \/ StageFails
  \/ WriteRestoreIntent
  \/ NameRestoreIntent
  \/ NameRestoreFails
  \/ UndoStage

ClearAllData ==
  \/ CollectTargets
  \/ CollectFails
  \/ WriteClearIntent
  \/ NameClearIntent

DeleteCredentials ==
  \/ \E k \in Keys : DeleteCredential(k) \/ DeleteFails(k)
  \/ CredentialCleanupRequired
  \/ CredentialsCleared

RecoverPendingClear ==
  \/ RecoverClear
  \/ \E u \in Units : TrashUnit(u) \/ RemoveTrash(u)
  \/ LocalStaged
  \/ RemoveClearIntent
  \/ RemoveClearControl

RecoverPendingRestore ==
  \/ RecoverRestore
  \/ CreateRollback
  \/ \E u \in Units : StageOld(u) \/ InstallNew(u) \/ RemoveRollback(u)
  \/ OldStaged
  \/ NewInstalled
  \/ Finalizing
  \/ RemoveRollbackRoot
  \/ RemoveStage
  \/ RemoveRestoreIntent
  \/ RemoveRestoreControl

Startup == Start \/ RecoverPendingClear \/ RecoverPendingRestore \/ OpenData

Next ==
  \/ \E k \in Keys : SaveCredential(k)
  \/ BeginRestore
  \/ BeginClear
  \/ CreateControl
  \/ StageRestore
  \/ ClearAllData
  \/ DeleteCredentials
  \/ Startup
  \/ Quit
  \/ Kill

Spec == Init /\ [][Next]_vars

\* A start that has begun runs on, and a user starts an application that has
\* gone; nobody has to begin an operation or to close the application.
Fairness == WF_vars(CreateControl \/ StageRestore \/ ClearAllData \/ DeleteCredentials \/ Startup)
FairSpec == Spec /\ Fairness

-----------------------------------------------------------------------------
(* Properties                                                                *)

Steps == {"idle", "restore-open", "restore-check", "restore-copy", "restore-write", "restore-name",
          "restore-undo", "clear-open", "clear-check", "clear-write", "clear-name", "credentials",
          "clear", "clear-move", "clear-remove", "clear-rmdir", "restore", "restore-rollback",
          "restore-old", "restore-install", "restore-installed", "restore-final", "restore-unstage",
          "restore-forget", "restore-rmdir", "open"}

TypeOK ==
  /\ place \in [Spots -> [Units -> Sets]]
  /\ stage \in Shapes /\ rolled \in BOOLEAN
  /\ control \in [{"restore", "clear"} -> Shapes]
  /\ intent \in [{"restore", "clear"} -> RestorePhase \union ClearPhase \union {"none", "temp"}]
  /\ intent["restore"] \in RestorePhase \union {"none", "temp"}
  /\ intent["clear"] \in ClearPhase \union {"none", "temp"}
  /\ targets \subseteq Keys /\ vault \subseteq Keys /\ todo \subseteq Keys
  /\ app \in {"up", "starting", "down"}
  /\ shut \in BOOLEAN /\ failed \in BOOLEAN
  /\ at \in Steps
  /\ current \in 0 .. MaxSets /\ made \in 0 .. MaxSets
  /\ cleared \in [sets : SUBSET (0 .. MaxSets), keys : SUBSET Keys]
  /\ faults \in 0 .. MaxFaults /\ crashes \in 0 .. MaxCrashes

\* The application only ever runs on one data set: the units at their places, the
\* companions of the database among them, all belong to the set that was opened.
RunsOnOneSet ==
  app = "up" => \A u \in Units : place["root"][u] \in IF u \in Required THEN {current} ELSE {current, Absent}

\* Until the new data set is installed the old one is complete, split between
\* its place and the rollback directory, and from the intent on the new one is
\* complete, split between the staging directory and its place.
BothSetsAreWhole ==
  RestorePending =>
    /\ intent["restore"] \in {"prepared", "old-staged"} =>
         \A u \in Required : current \in {place["root"][u], place["rollback"][u]}
    /\ \E n \in Sets \ {current, Absent} : \A u \in Required : n \in {place["root"][u], place["staged"][u]}

\* A pending clear and a pending restore are never there together: each start would
\* refuse both.
OneIntent == intent["restore"] # "none" => intent["clear"] = "none"

\* However often a swap is killed and resumed, the library is one data set when it
\* is used, and neither the old nor the new one is torn or missing before.
OneDataSet == RunsOnOneSet /\ BothSetsAreWhole /\ OneIntent

\* What a clear has reported as gone never comes back: no unit of a cleared
\* data set is anywhere once the application runs again, and no credential of
\* it is in the vault.
ClearedStaysGone ==
  /\ cleared.keys \intersect vault = {}
  /\ app = "up" /\ ~shut => \A p \in Spots, u \in Units : place[p][u] \notin cleared.sets

\* Once an intent is named and the application is started again and again, the
\* swap comes to its end, whenever it is killed and whatever the vault refuses.
PendingSwapEnds ==
  app = "down" /\ (RestorePending \/ ClearPending) ~> ~RestorePending /\ ~ClearPending

\* "Startup journal recovery is bounded and idempotent"
\* (docs/testing/destructive-boundaries.md:13): an application that is started
\* runs in the end.
StartEndsUp == app = "down" ~> app = "up"

=============================================================================

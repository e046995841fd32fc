---------------------------- MODULE BookDeletion ----------------------------
(***************************************************************************)
(* The deletion of one book (maintenance/delete_book.rs) with its journal  *)
(* (maintenance/journal.rs) and transaction (db/books.rs), killed or       *)
(* refused by the file system between any two operations, and its recovery *)
(* in the process and at startup.  Beside it, as far as they touch the     *)
(* same files and rows: imports and page renders.                          *)
(*                                                                         *)
(* A tree of files is absent, whole, or a part of what it was.  A rename   *)
(* is atomic, the removal of a tree is not.  An operation that has         *)
(* returned survives the process; what the disk itself forgets at a power  *)
(* failure is not modelled.  At most one page of a book has files in the   *)
(* scratch directory.  Identities, hashes, links and the limits on the     *)
(* number of files are left out: they only refuse.                         *)
(***************************************************************************)
EXTENDS Naturals

CONSTANTS
  Books, None,
  MaxFaults,   \* file or database operations that fail
  MaxCrashes   \* times the process is killed

Kinds == {"book", "scratch"}

ASSUME BoundAssumption == MaxFaults \in Nat /\ MaxCrashes \in Nat
ASSUME NoneAssumption == None \notin Books /\ \A S \in SUBSET Kinds : S # None

VARIABLES
  status,   \* books.import_status; "busy" stands for the four of an import
  source,   \* the tree at its place: books/<id>, cache/indexing-pages/<page>
  trash,    \* the tree in the journal's trash directory
  root,     \* books whose journal has its trash directory
  intent,   \* the sources the durable intent names, or None
  marker,   \* books whose journal has its commit marker
  temp,     \* temporary files of journals
  app,      \* the process: up, starting or down
  at,       \* the next operation of the deletion or of the recovery
  mode,     \* which of the calls of recover_pending_deletions it is
  book,     \* the book that is deleted, or whose journal is recovered
  todo,     \* the entries the current loop has still to do
  faults, crashes,
  meddled   \* books imported again while an unfinished journal names them

journal == <<root, intent, marker, temp>>
files == <<source, trash>>
bounds == <<faults, crashes>>
vars == <<status, files, journal, app, at, mode, book, todo, bounds, meddled>>

Trees == {"absent", "whole", "part"}
Statuses == {"none", "busy", "ready", "failed"}

Places == {"idle", "collect", "write", "name", "root", "stage", "verify", "commit", "mark", "markname",
           "erase", "unroot", "unmark", "unname", "open", "list", "apply", "runroot", "runmark", "rununame", "sweep"}

Init ==
  /\ status \in [Books -> {"ready", "failed"}]
  /\ source \in [Books -> [Kinds -> {"absent", "whole"}]]
  /\ \A b \in Books : status[b] = "ready" => source[b]["book"] = "whole"
  /\ trash = [b \in Books |-> [k \in Kinds |-> "absent"]]
  /\ root = {}
  /\ intent = [b \in Books |-> None]
  /\ marker = {}
  /\ temp = {}
  /\ app = "up"
  /\ at = "idle"
  /\ mode = "none"
  /\ book = None
  /\ todo = {}
  /\ faults = 0
  /\ crashes = 0
  /\ meddled = {}

Goto(l) == at' = l
Pending == {b \in Books : intent[b] # None}
Names(b, k) == b \in Pending /\ k \in intent[b]
Present(b) == {k \in Kinds : source[b][k] # "absent"}

\* The journal lists the book's directory first, then the pages.
First(k) == k \in todo /\ (k = "scratch" => "book" \notin todo)

\* The executing deletion has left place l; its caller waits meanwhile.
Step(l) == at = l /\ app # "down"

-----------------------------------------------------------------------------
(* delete_with_fault: the exclusive permit, and recovery before the deletion *)

\* An import holds a normal permit from its first call to its end.
Begin(b) ==
  /\ app = "up"
  /\ at = "idle"
  /\ \A c \in Books : status[c] # "busy"
  /\ book' = b
  /\ mode' = "before"
  /\ Goto("open")
  /\ UNCHANGED <<status, files, journal, app, todo, bounds, meddled>>

\* load_delete_plan, require_terminal_plan and collect_delete_targets.
Collect ==
  /\ Step("collect")
  /\ IF status[book] \in {"ready", "failed"}
     THEN Goto("write") /\ todo' = Present(book) /\ UNCHANGED mode
     ELSE Goto("open") /\ mode' = "after" /\ UNCHANGED todo
  /\ UNCHANGED <<status, files, journal, app, book, bounds, meddled>>

-----------------------------------------------------------------------------
(* The journal: a file is written under a temporary name, then renamed       *)

WriteIntent ==
  /\ Step("write")
  /\ temp' = temp \union {"intent"}
  /\ Goto("name")
  /\ UNCHANGED <<status, files, root, intent, marker, app, mode, book, todo, bounds, meddled>>

NameIntent ==
  /\ Step("name")
  /\ temp' = temp \ {"intent"}
  /\ intent' = [intent EXCEPT ![book] = todo]
  /\ Goto("root")
  /\ UNCHANGED <<status, files, root, marker, app, mode, book, todo, bounds, meddled>>

CreateRoot ==
  /\ Step("root")
  /\ root' = root \union {book}
  /\ Goto("stage")
  /\ UNCHANGED <<status, files, intent, marker, temp, app, mode, book, todo, bounds, meddled>>

-----------------------------------------------------------------------------
(* Staging, the transaction, and the removal of what was staged              *)

Move(b, k, from, to) ==
  /\ from' = [from EXCEPT ![b][k] = "absent"]
  /\ to' = [to EXCEPT ![b][k] = from[b][k]]

Stage(k) ==
  /\ Step("stage")
  /\ First(k)
  /\ Move(book, k, source, trash)
  /\ todo' = todo \ {k}
  /\ UNCHANGED <<status, journal, app, at, mode, book, bounds, meddled>>

StagedAll ==
  /\ Step("stage")
  /\ todo = {}
  /\ Goto("verify")
  /\ UNCHANGED <<status, files, journal, app, mode, book, todo, bounds, meddled>>

Verify ==
  /\ Step("verify")
  /\ Goto("commit")
  /\ UNCHANGED <<status, files, journal, app, mode, book, todo, bounds, meddled>>

\* Mutant of CompleteDelete: the marker is written first, the rows go at the end.
MarkBeforeDelete ==
  /\ Step("commit")
  /\ Goto("mark")
  /\ UNCHANGED <<status, files, journal, app, mode, book, todo, bounds, meddled>>

CompleteDelete ==
  /\ Step("commit")
  /\ status' = [status EXCEPT ![book] = "none"]
  /\ Goto("mark")
  /\ UNCHANGED <<files, journal, app, mode, book, todo, bounds, meddled>>

WriteMarker ==
  /\ Step("mark")
  /\ temp' = temp \union {"marker"}
  /\ Goto("markname")
  /\ UNCHANGED <<status, files, root, intent, marker, app, mode, book, todo, bounds, meddled>>

NameMarker ==
  /\ Step("markname")
  /\ temp' = temp \ {"marker"}
  /\ marker' = marker \union {book}
  /\ todo' = intent[book]
  /\ Goto("erase")
  /\ UNCHANGED <<status, files, root, intent, app, mode, book, bounds, meddled>>

\* remove_tree_node: a file or a directory at a time.
Remove(b, k, place) ==
  place' = [place EXCEPT ![b][k] = "absent"]

Erase(k) ==
  /\ Step("erase")
  /\ First(k)
  /\ Remove(book, k, trash)
  /\ todo' = todo \ {k}
  /\ UNCHANGED <<status, source, journal, app, at, mode, book, bounds, meddled>>

ErasedAll ==
  /\ Step("erase")
  /\ todo = {}
  /\ Goto("unroot")
  /\ UNCHANGED <<status, files, journal, app, mode, book, todo, bounds, meddled>>

RootIsEmpty(b) == \A k \in Kinds : trash[b][k] = "absent"

RemoveRoot ==
  /\ Step("unroot")
  /\ RootIsEmpty(book)
  /\ root' = root \ {book}
  /\ Goto("unmark")
  /\ UNCHANGED <<status, files, intent, marker, temp, app, mode, book, todo, bounds, meddled>>

\* remove_journal_files: the marker first, for a marker without an intent is
\* an invalid directory.
RemoveMarker ==
  /\ Step("unmark")
  /\ marker' = marker \ {book}
  /\ Goto("unname")
  /\ UNCHANGED <<status, files, root, intent, temp, app, mode, book, todo, bounds, meddled>>

Done == at' = "idle" /\ mode' = "none" /\ book' = None

RemoveIntent ==
  /\ Step("unname")
  /\ intent' = [intent EXCEPT ![book] = None]
  /\ Done
  /\ UNCHANGED <<status, files, root, marker, temp, app, todo, bounds, meddled>>

-----------------------------------------------------------------------------
(* recover_pending_deletions                                                 *)

Open ==
  /\ Step("open")
  /\ temp' = {}
  /\ Goto("list")
  /\ UNCHANGED <<status, files, root, intent, marker, app, mode, book, todo, bounds, meddled>>

\* What preflight_recovery_journal accepts, entry by entry.
EntryAccepted(b, k) ==
  IF status[b] = "none"
  THEN source[b][k] = "absent" \/ trash[b][k] = "absent"
  ELSE (source[b][k] = "absent") # (trash[b][k] = "absent")

PlanAccepted(b) ==
  /\ status[b] \in {"none", "ready", "failed"}
  /\ \A k \in intent[b] : EntryAccepted(b, k)

ListAccepted == marker \subseteq Pending

Preflight == ListAccepted /\ \A b \in Pending : PlanAccepted(b)

\* How each of the calls of the recovery ends when it succeeds and when not.
\* The startup goes on to recover_interrupted_imports.
AfterRecovery ==
  CASE mode = "before" -> Goto("collect") /\ mode' = "execute" /\ UNCHANGED <<app, book, status, source>>
    [] mode = "after" -> Done /\ UNCHANGED <<app, status, source>>
    [] mode = "startup" ->
         /\ Done
         /\ app' = "up"
         /\ status' = [b \in Books |-> IF status[b] = "busy" THEN "failed" ELSE status[b]]
         /\ \/ UNCHANGED source
            \/ source' = [b \in Books |-> IF status[b] = "busy" THEN [source[b] EXCEPT !["book"] = "absent"] ELSE source[b]]

Refused ==
  CASE mode = "execute" -> Goto("open") /\ mode' = "after" /\ UNCHANGED <<app, book>>
    [] mode \in {"before", "after"} -> Done /\ UNCHANGED app
    [] mode = "startup" -> Done /\ app' = "down"

List ==
  /\ Step("list")
  /\ \/ /\ Preflight
        /\ Goto("apply")
        /\ UNCHANGED <<app, mode, book>>
     \/ /\ ~Preflight
        /\ Refused
  /\ todo' = {}
  /\ UNCHANGED <<status, files, journal, bounds, meddled>>

\* The journals one after the other, the entries of a journal in their order.
Recovering == IF Pending = {} THEN None ELSE CHOOSE b \in Pending : TRUE
Unrecovered(b) ==
  {k \in intent[b] : \/ trash[b][k] # "absent"
                     \/ status[b] = "none" /\ source[b][k] # "absent"}
NextEntry(b, k) == k \in Unrecovered(b) /\ (k = "scratch" => "book" \notin Unrecovered(b))

\* Mutant of ApplyEntry: the trash is removed whether or not the book is there.
ApplyDeleting(k) ==
  /\ Step("apply")
  /\ Recovering # None
  /\ LET b == Recovering IN
       /\ NextEntry(b, k)
       /\ IF trash[b][k] # "absent"
          THEN Remove(b, k, trash) /\ UNCHANGED source
          ELSE Remove(b, k, source) /\ UNCHANGED trash
  /\ UNCHANGED <<status, journal, app, at, mode, book, todo, bounds, meddled>>

ApplyEntry(k) ==
  /\ Step("apply")
  /\ Recovering # None
  /\ LET b == Recovering IN
       /\ NextEntry(b, k)
       /\ \/ /\ status[b] # "none"
             /\ Move(b, k, trash, source)
          \/ /\ status[b] = "none"
             /\ trash[b][k] = "absent"
             /\ Remove(b, k, source)
             /\ UNCHANGED trash
          \/ /\ status[b] = "none"
             /\ trash[b][k] # "absent"
             /\ Remove(b, k, trash)
             /\ UNCHANGED source
  /\ UNCHANGED <<status, journal, app, at, mode, book, todo, bounds, meddled>>

RecoverRoot ==
  /\ Step("apply")
  /\ Recovering # None
  /\ Unrecovered(Recovering) = {}
  /\ RootIsEmpty(Recovering)
  /\ root' = root \ {Recovering}
  /\ Goto("runmark")
  /\ UNCHANGED <<status, files, intent, marker, temp, app, mode, book, todo, bounds, meddled>>

\* Mutant of RecoverMarker: the intent goes and the marker stays.
RecoverKeepsMarker ==
  /\ Step("runmark")
  /\ Goto("rununame")
  /\ UNCHANGED <<status, files, journal, app, mode, book, todo, bounds, meddled>>

RecoverMarker ==
  /\ Step("runmark")
  /\ marker' = marker \ {Recovering}
  /\ Goto("rununame")
  /\ UNCHANGED <<status, files, root, intent, temp, app, mode, book, todo, bounds, meddled>>

RecoverIntent ==
  /\ Step("rununame")
  /\ intent' = [intent EXCEPT ![Recovering] = None]
  /\ meddled' = meddled \ {Recovering}
  /\ Goto("apply")
  /\ UNCHANGED <<status, files, root, marker, temp, app, mode, book, todo, bounds>>

\* cleanup_empty_orphan_trash refuses a trash directory that is not empty.
Sweep ==
  /\ Step("apply")
  /\ Pending = {}
  /\ IF \A b \in root : RootIsEmpty(b)
     THEN root' = {} /\ AfterRecovery
     ELSE Refused /\ UNCHANGED <<root, status, source>>
  /\ UNCHANGED <<trash, intent, marker, temp, todo, bounds, meddled>>

-----------------------------------------------------------------------------
(* Faults, crashes and the next start                                        *)

\* An operation fails.  A removal may have removed a part of its tree.  A
\* stage that finds another tree after its rename moves it back, which is as
\* if it had failed before.
Torn(tree) == IF tree = "absent" THEN "absent" ELSE "part"

Tear(b, k) ==
  \/ at = "erase" /\ First(k) /\ trash' = [trash EXCEPT ![b][k] = Torn(@)] /\ UNCHANGED source
  \/ /\ at = "apply"
     /\ NextEntry(b, k)
     /\ status[b] = "none"
     /\ IF trash[b][k] # "absent"
        THEN trash' = [trash EXCEPT ![b][k] = Torn(@)] /\ UNCHANGED source
        ELSE source' = [source EXCEPT ![b][k] = Torn(@)] /\ UNCHANGED trash

Tears ==
  \/ UNCHANGED files
  \/ \E k \in Kinds : at = "erase" /\ Tear(book, k)
  \/ \E k \in Kinds : at = "apply" /\ Recovering # None /\ Tear(Recovering, k)

Fail ==
  /\ app # "down"
  /\ at # "idle"
  /\ faults < MaxFaults
  /\ faults' = faults + 1
  /\ Tears
  /\ Refused
  /\ UNCHANGED <<status, journal, todo, crashes, meddled>>

Crash ==
  /\ app # "down"
  /\ crashes < MaxCrashes
  /\ crashes' = crashes + 1
  /\ Tears
  /\ app' = "down"
  /\ Done
  /\ UNCHANGED <<status, journal, todo, faults, meddled>>

\* The user starts the application; lib.rs recovers deletions before imports.
Start ==
  /\ app = "down"
  /\ app' = "starting"
  /\ mode' = "startup"
  /\ Goto("open")
  /\ UNCHANGED <<status, files, journal, book, todo, bounds, meddled>>

-----------------------------------------------------------------------------
(* Imports and page renders while no deletion runs                           *)

Free == app = "up" /\ at = "idle"

\* retry_import, of the owned source or with a replacement.
RetryImport(b) ==
  /\ Free
  /\ status[b] = "failed"
  /\ status' = [status EXCEPT ![b] = "busy"]
  /\ \/ source[b]["book"] = "whole" /\ UNCHANGED source
     \/ source' = [source EXCEPT ![b]["book"] = "absent"]
  /\ meddled' = IF intent[b] = None THEN meddled ELSE meddled \union {b}
  /\ UNCHANGED <<trash, journal, app, at, mode, book, todo, bounds>>

\* The import copies its source, and ends in one of its two ways.
CopySource(b) ==
  /\ Free
  /\ status[b] = "busy"
  /\ source[b]["book"] # "whole"
  /\ source' = [source EXCEPT ![b]["book"] = IF @ = "absent" THEN "part" ELSE "whole"]
  /\ UNCHANGED <<status, trash, journal, app, at, mode, book, todo, bounds, meddled>>

EndImport(b) ==
  /\ Free
  /\ status[b] = "busy"
  /\ \/ source[b]["book"] = "whole" /\ status' = [status EXCEPT ![b] = "ready"] /\ UNCHANGED source
     \/ status' = [status EXCEPT ![b] = "failed"] /\ UNCHANGED source
     \/ /\ status' = [status EXCEPT ![b] = "failed"]
        /\ source' = [source EXCEPT ![b]["book"] = "absent"]
  /\ UNCHANGED <<trash, journal, app, at, mode, book, todo, bounds, meddled>>

\* The page the run renders into the scratch directory.
RenderPage(b) ==
  /\ Free
  /\ status[b] = "ready"
  /\ source[b]["book"] = "whole"
  /\ source[b]["scratch"] = "absent"
  /\ source' = [source EXCEPT ![b]["scratch"] = "whole"]
  /\ meddled' = IF Names(b, "scratch") THEN meddled \union {b} ELSE meddled
  /\ UNCHANGED <<status, trash, journal, app, at, mode, book, todo, bounds>>

-----------------------------------------------------------------------------
Execution ==
  \/ Collect \/ WriteIntent \/ NameIntent \/ CreateRoot \/ StagedAll \/ Verify \/ CompleteDelete
  \/ WriteMarker \/ NameMarker \/ ErasedAll \/ RemoveRoot \/ RemoveMarker \/ RemoveIntent
  \/ \E k \in Kinds : Stage(k) \/ Erase(k)

Recovery ==
  \/ Open \/ List \/ RecoverRoot \/ RecoverMarker \/ RecoverIntent \/ Sweep
  \/ \E k \in Kinds : ApplyEntry(k)

Next ==
  \/ Execution \/ Recovery \/ Fail \/ Crash \/ Start
  \/ \E b \in Books : Begin(b) \/ RetryImport(b) \/ CopySource(b) \/ EndImport(b) \/ RenderPage(b)

Spec == Init /\ [][Next]_vars

FairSpec == Spec /\ WF_vars(Execution \/ Recovery) /\ WF_vars(Start)

-----------------------------------------------------------------------------
(* Properties                                                                *)

\* The variables have their types; a journal's trash directory and its marker
\* lie beside its intent, and a marker says that the rows are gone.
TypeOK ==
  /\ status \in [Books -> Statuses]
  /\ source \in [Books -> [Kinds -> Trees]]
  /\ trash \in [Books -> [Kinds -> Trees]]
  /\ root \subseteq Pending
  /\ intent \in [Books -> {None} \union SUBSET Kinds]
  /\ marker \subseteq {b \in Pending : status[b] = "none"}
  /\ temp \subseteq {"intent", "marker"}
  /\ app \in {"up", "starting", "down"}
  /\ at \in Places
  /\ book \in Books \union {None}
  /\ todo \subseteq Kinds

\* Whatever fails and whenever the process is killed, the files of a book
\* that is in the library are all there, at their place or in the trash of a
\* journal that will bring them back.
NothingIsLost ==
  \A b \in Books : status[b] = "ready" =>
    \/ source[b]["book"] = "whole"
    \/ trash[b]["book"] = "whole" /\ intent[b] # None

\* Once no journal is left, a deleted book has left no file behind, and
\* every book that is not deleted has its files back.
OldOrGone ==
  at = "idle" /\ Pending = {} =>
    \A b \in Books :
      /\ \A k \in Kinds : trash[b][k] = "absent"
      /\ status[b] = "none" => \A k \in Kinds : source[b][k] = "absent"
      /\ status[b] = "ready" => source[b]["book"] = "whole"

\* A start finishes every interrupted deletion, once the faults are over,
\* unless the book was imported or rendered again beside its journal.
StartRecovers == app = "down" ~> (app = "up" /\ Pending = {}) \/ meddled # {}

\* The startup is never refused by a state the application itself has made.
RecoveryIsPossible == app = "down" => Preflight
=============================================================================

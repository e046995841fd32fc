--------------------------- MODULE BackupArchive ---------------------------
(***************************************************************************)
(* A .tlbackup file: create_backup of maintenance/archive.rs, from the     *)
(* snapshot of the database to the publication of the file, and the first  *)
(* half of a restore in maintenance/restore.rs, from the copy of the file  *)
(* to the checks that decide whether the restore is scheduled.             *)
(*                                                                         *)
(* Both hold the maintenance permit, so the library is at rest meanwhile;  *)
(* the disk may damage what is written, other programs may change the      *)
(* textbooks' files and the file at the destination, and the process may   *)
(* be killed between any two steps.  A version stands for what a           *)
(* StableEntry witnesses (identity, length, time, links).  The byte format,*)
(* the limits, paths and reparse points are left out, and so are tables    *)
(* other than books.  The move is Windows' MoveFileExW without the replace *)
(* flag.  The swap a scheduled restore leads to is in DataSwap.            *)
(***************************************************************************)
EXTENDS Naturals

CONSTANTS
  Books,
  Docx,        \* the books whose parser writes derived/document.html
  None, Foreign,
  MaxChanges,  \* bound: changes by other programs
  MaxFaults    \* bound: damaged writes

ASSUME DocxAssumption == Docx \subseteq Books
ASSUME BoundAssumption == MaxChanges \in Nat /\ MaxFaults \in Nat

VARIABLES
  row,      \* the books table at rest
  file,     \* books/<id>
  version,  \* of a book's files, as a StableEntry sees them
  target,   \* the file at the user's destination
  tversion,
  temp,     \* .textbooklens-backup-<uuid>.tmp
  op,       \* where the maintenance operation is
  rows,     \* the sanitized snapshot
  witness,  \* the versions collected
  left,     \* files not yet in the archive
  seen,     \* the version of the archive to restore
  staged, dataset,
  taken,    \* the libraries of the archives this program published
  changes, faults

vars == <<row, file, version, target, tversion, temp, op, rows, witness, left,
          seen, staged, dataset, taken, changes, faults>>

(* "failed" rows have lost their source, "kept" ones have it.              *)
Rows == {"none", "failed", "kept", "ready"}
Stored(r) == r \in {"kept", "ready"}
\* Parsing a DOCX file writes the derived text; the other parsers do not.
HasDerived(b, r) == r = "ready" /\ b \in Docx

Absent == [original |-> "none", derived |-> FALSE, extra |-> FALSE]
FilesOf(b, r) == [original |-> IF Stored(r) THEN "whole" ELSE "none",
                  derived |-> HasDerived(b, r), extra |-> FALSE]

Archives == [rows : [Books -> Rows], originals : SUBSET Books, derived : SUBSET Books,
             sealed : BOOLEAN, damaged : BOOLEAN]

ASSUME NoneAssumption == None \notin Archives

Library(r) == [rows |-> r, originals |-> {b \in Books : Stored(r[b])},
               derived |-> {b \in Books : HasDerived(b, r[b])}]
Payload(a) == [rows |-> a.rows, originals |-> a.originals, derived |-> a.derived]

BackupSteps == {"begun", "snapshot", "collected", "writing", "sealed", "verified"}
RestoreSteps == {"copying", "staged", "extracted", "validated"}

Init ==
  /\ row = [b \in Books |-> "none"]
  /\ file = [b \in Books |-> Absent]
  /\ version = [b \in Books |-> 0]
  /\ target = None
  /\ tversion = 0
  /\ temp = None
  /\ op = "idle"
  /\ rows = [b \in Books |-> "none"]
  /\ witness = [b \in Books |-> 0]
  /\ left = {}
  /\ seen = 0
  /\ staged = None
  /\ dataset = None
  /\ taken = {}
  /\ changes = 0
  /\ faults = 0

Shelf == <<row, file, version>>
Place == <<target, tversion>>
Backup == <<temp, rows, witness, left>>
Staging == <<seen, staged, dataset>>
Bounds == <<changes, faults>>

---------------------------------------------------------------------------
(* The rest of the program, and other programs                             *)

\* Imports and deletions, as they leave a book; they need the gate.
LibraryChanges(b, r) ==
  /\ op = "idle"
  /\ row[b] # r
  /\ row' = [row EXCEPT ![b] = r]
  /\ file' = [file EXCEPT ![b] = FilesOf(b, r)]
  /\ version' = [version EXCEPT ![b] = 0]
  /\ UNCHANGED <<Place, op, Backup, Staging, taken, Bounds>>

Change ==
  /\ changes < MaxChanges
  /\ changes' = changes + 1

OriginalIsEdited(b) ==
  /\ Change
  /\ file[b].original = "whole"
  /\ file' = [file EXCEPT ![b].original = "changed"]
  /\ version' = [version EXCEPT ![b] = @ + 1]
  /\ UNCHANGED <<row, Place, op, Backup, Staging, taken, faults>>

FileIsAdded(b) ==
  /\ Change
  /\ ~file[b].extra
  /\ file' = [file EXCEPT ![b].extra = TRUE]
  /\ UNCHANGED <<row, version, Place, op, Backup, Staging, taken, faults>>

TargetIsTouched(t) ==
  /\ Change
  /\ target # t
  /\ target' = t
  /\ tversion' = tversion + 1
  /\ UNCHANGED <<Shelf, op, Backup, Staging, taken, faults>>

---------------------------------------------------------------------------
(* create_backup                                                           *)

\* Dropping a TemporaryArchive removes its file.
BackupFails == temp' = None /\ op' = "idle" /\ UNCHANGED <<rows, witness, left, Place, taken>>

\* A destination that exists is refused at once.
BeginBackup ==
  /\ op = "idle"
  /\ target = None
  /\ op' = "begun"
  /\ UNCHANGED <<Shelf, Place, Backup, Staging, taken, Bounds>>

\* The copy in memory loses the rows of remote resources, and is checked.
TakeSnapshot ==
  /\ op = "begun"
  /\ rows' = row
  /\ op' = "snapshot"
  /\ UNCHANGED <<Shelf, Place, temp, witness, left, Staging, taken, Bounds>>

Expected(b) ==
  IF Stored(rows[b]) THEN file[b].original # "none" /\ ~file[b].extra ELSE file[b] = Absent

CollectSources ==
  /\ op = "snapshot"
  /\ IF \A b \in Books : Expected(b)
     THEN /\ op' = "collected"
          /\ witness' = version
          /\ left' = {b \in Books : Stored(rows[b])}
          /\ UNCHANGED <<temp, rows, Place, taken>>
     ELSE BackupFails
  /\ UNCHANGED <<Shelf, Staging, Bounds>>

CreateTemporary ==
  /\ op = "collected"
  /\ IF target = None
     THEN /\ temp' = [rows |-> rows, originals |-> {}, derived |-> {}, sealed |-> FALSE, damaged |-> FALSE]
          /\ op' = "writing"
          /\ UNCHANGED <<rows, witness, left, Place, taken>>
     ELSE BackupFails
  /\ UNCHANGED <<Shelf, Staging, Bounds>>

With(S, b, holds) == IF holds THEN S \union {b} ELSE S

\* Mutant: the derived directory is not walked.
WrittenOriginal(b) == [temp EXCEPT !.originals = With(@, b, file[b].original = "whole")]

Written(b) ==
  [temp EXCEPT !.originals = With(@, b, file[b].original = "whole"), !.derived = With(@, b, file[b].derived)]


\* A file that is not the one collected, or not the one the row has the hash
\* of, ends the backup.
SourceWitnessed(b) == version[b] = witness[b]   \* mutant: the hash is not compared

SourceIsStable(b) == version[b] = witness[b] /\ file[b].original = "whole"

WriteEntry(b) ==
  /\ op = "writing"
  /\ b \in left
  /\ IF SourceIsStable(b)
     THEN /\ \/ temp' = Written(b) /\ UNCHANGED faults
             \/ /\ faults < MaxFaults
                /\ faults' = faults + 1
                /\ temp' = [Written(b) EXCEPT !.damaged = TRUE]
          /\ left' = left \ {b}
          /\ UNCHANGED <<op, rows, witness, Place, taken>>
     ELSE BackupFails /\ UNCHANGED faults
  /\ UNCHANGED <<Shelf, Staging, changes>>

\* The directories are looked at again before the manifest and the footer.
Seal ==
  /\ op = "writing"
  /\ left = {}
  /\ IF \E b \in Books : file[b].extra
     THEN BackupFails
     ELSE /\ temp' = [temp EXCEPT !.sealed = TRUE]
          /\ op' = "sealed"
          /\ UNCHANGED <<rows, witness, left, Place, taken>>
  /\ UNCHANGED <<Shelf, Staging, Bounds>>

\* A header, a footer and a manifest whose entries fill the file; and every
\* entry has its hash.
WellFormed(a) == a \notin {None, Foreign} /\ a.sealed
Valid(a) == WellFormed(a) /\ ~a.damaged

VerifyArchive ==
  /\ op = "sealed"
  /\ IF Valid(temp)
     THEN op' = "verified" /\ UNCHANGED <<Backup, Place, taken>>
     ELSE BackupFails
  /\ UNCHANGED <<Shelf, Staging, Bounds>>

\* Mutant: the file is moved over whatever is at the destination.
PublishAndReplace ==
  /\ op = "verified"
  /\ target' = temp
  /\ tversion' = tversion + 1
  /\ taken' = taken \union {Payload(temp)}
  /\ temp' = None
  /\ op' = "idle"
  /\ UNCHANGED <<Shelf, rows, witness, left, Staging, Bounds>>

\* The move fails when a file has come to the destination meanwhile.
PublishNoReplace ==
  /\ op = "verified"
  /\ IF target = None
     THEN /\ target' = temp
          /\ tversion' = tversion + 1
          /\ taken' = taken \union {Payload(temp)}
          /\ temp' = None
          /\ op' = "idle"
          /\ UNCHANGED <<rows, witness, left>>
     ELSE BackupFails
  /\ UNCHANGED <<Shelf, Staging, Bounds>>

---------------------------------------------------------------------------
(* stage_restore, up to the intent                                         *)

RestoreFails == op' = "idle" /\ staged' = None /\ dataset' = None

BeginRestore ==
  /\ op = "idle"
  /\ target # None
  /\ staged = None
  /\ seen' = tversion
  /\ op' = "copying"
  /\ UNCHANGED <<Shelf, Place, Backup, staged, dataset, taken, Bounds>>

\* copy_archive_into_staging, with the verification of the copy.
CopyArchive ==
  /\ op = "copying"
  /\ IF seen = tversion /\ Valid(target)
     THEN staged' = target /\ op' = "staged" /\ UNCHANGED dataset
     ELSE RestoreFails
  /\ UNCHANGED <<Shelf, Place, Backup, seen, taken, Bounds>>

ExtractArchive ==
  /\ op = "staged"
  /\ op' = "extracted"
  /\ \/ dataset' = Payload(staged) /\ UNCHANGED faults
     \/ /\ faults < MaxFaults
        /\ faults' = faults + 1
        /\ \E b \in staged.originals : dataset' = [Payload(staged) EXCEPT !.originals = @ \ {b}]
  /\ UNCHANGED <<Shelf, Place, Backup, seen, staged, taken, changes>>

\* Every file is read again and has the size and the hash of its entry.
Materialized == dataset = Payload(staged)

ValidateDataset ==
  /\ op = "extracted"
  /\ IF Materialized
     THEN op' = "validated" /\ UNCHANGED <<staged, dataset>>
     ELSE RestoreFails
  /\ UNCHANGED <<Shelf, Place, Backup, seen, taken, Bounds>>

\* validate_archive_ownership asks for the derived text of every ready book.
Owned(d) == \A b \in Books :
  /\ Stored(d.rows[b]) <=> b \in d.originals
  /\ b \in d.derived => Stored(d.rows[b])
  /\ d.rows[b] = "ready" => b \in d.derived

PreflightDataset ==
  /\ op = "validated"
  /\ IF Owned(dataset)
     THEN op' = "scheduled"
     ELSE op' = "refused"
  /\ UNCHANGED <<Shelf, Place, Backup, Staging, taken, Bounds>>

\* remove_uncommitted_stage, and the error goes to the window.
DiscardStage ==
  /\ op = "refused"
  /\ RestoreFails
  /\ UNCHANGED <<Shelf, Place, Backup, seen, taken, Bounds>>

\* The gate is shut; the next start installs the data set (DataSwap).
InstallDataset ==
  /\ op = "scheduled"
  /\ row' = dataset.rows
  /\ file' = [b \in Books |-> [original |-> IF b \in dataset.originals THEN "whole" ELSE "none",
                               derived |-> b \in dataset.derived, extra |-> FALSE]]
  /\ version' = [b \in Books |-> 0]
  /\ RestoreFails
  /\ UNCHANGED <<Place, Backup, seen, taken, Bounds>>

\* A stray temporary file has a name of its own and stands in nobody's way;
\* a kill that leaves an unscheduled stage is in DataSwap.
Kill ==
  /\ op \in BackupSteps
  /\ op' = "idle"
  /\ temp' = None
  /\ UNCHANGED <<Shelf, Place, rows, witness, left, Staging, taken, Bounds>>

Next ==
  \/ \E b \in Books : \E r \in Rows : LibraryChanges(b, r)
  \/ \E b \in Books : OriginalIsEdited(b) \/ FileIsAdded(b)
  \/ \E t \in {None, Foreign} : TargetIsTouched(t)
  \/ BeginBackup \/ TakeSnapshot \/ CollectSources \/ CreateTemporary \/ \E b \in Books : WriteEntry(b)
  \/ Seal \/ VerifyArchive \/ PublishNoReplace
  \/ BeginRestore \/ CopyArchive \/ ExtractArchive \/ ValidateDataset \/ PreflightDataset
  \/ DiscardStage \/ InstallDataset
  \/ Kill

Spec == Init /\ [][Next]_vars

---------------------------------------------------------------------------
(* Properties                                                              *)

\* The variables have their types; a temporary archive is there while it is
\* written and checked, and a stage while a restore is prepared.
TypeOK ==
  /\ row \in [Books -> Rows]
  /\ file \in [Books -> [original : {"none", "whole", "changed"}, derived : BOOLEAN, extra : BOOLEAN]]
  /\ version \in [Books -> Nat]
  /\ target \in Archives \union {None, Foreign}
  /\ tversion \in Nat
  /\ temp \in Archives \union {None}
  /\ op \in {"idle", "scheduled", "refused"} \union BackupSteps \union RestoreSteps
  /\ rows \in [Books -> Rows]
  /\ witness \in [Books -> Nat]
  /\ left \subseteq Books
  /\ seen \in Nat
  /\ staged \in Archives \union {None}
  /\ temp # None <=> op \in {"writing", "sealed", "verified"}
  /\ staged # None <=> op \in {"staged", "extracted", "validated", "scheduled", "refused"}
  /\ changes \in 0..MaxChanges
  /\ faults \in 0..MaxFaults

\* What create_backup publishes is complete and undamaged, and it is one
\* library: the rows of the snapshot with exactly the files they own.
PublishedIsOneLibrary ==
  target \in {None, Foreign} \/ (Valid(target) /\ Payload(target) = Library(target.rows))

\* A backup never takes the place of a file that came to the destination
\* after the user's choice was checked.
NothingIsReplaced == [][target # None /\ target' # target => target' \in {None, Foreign}]_vars

\* An archive this program published, and nobody changed, can be restored.
BackupsCanBeRestored == op = "refused" => dataset \notin taken

\* The checks of a restore undo no backup for any other reason than a book
\* without derived text that is ready.
OnlyOtherFormatsAreRefused ==
  op = "refused" /\ dataset \in taken => \E b \in Books \ Docx : dataset.rows[b] = "ready"
===========================================================================

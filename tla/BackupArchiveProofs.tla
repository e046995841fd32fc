------------------------ MODULE BackupArchiveProofs ------------------------
(***************************************************************************)
(* What is proved about BackupArchive for any number of books, changes and *)
(* damaged writes: its types, that what is published is one library, that  *)
(* nothing is replaced by it, and the only reason for which a restore      *)
(* refuses it.                                                             *)
(*                                                                         *)
(* The argument: the rows are at rest from the snapshot on, so that the    *)
(* files that are collected are those the rows say (FilesAreSound,         *)
(* SnapshotIsCurrent); what the archive lacks of them are the books that   *)
(* are left to write (ArchiveIsPartial), and none is left when it is       *)
(* sealed.  What is staged came from a file that was verified.             *)
(***************************************************************************)
EXTENDS BackupArchive, TLAPS

(* Files have the rows they belong to: nobody but the program adds the     *)
(* original or the derived text of a book, or takes it away.               *)
FilesAreSound ==
  \A b \in Books :
    /\ file[b].original = "none" <=> ~Stored(row[b])
    /\ file[b].derived <=> HasDerived(b, row[b])

SnapshotIsCurrent == op \in BackupSteps \ {"begun"} => rows = row

(* The temporary archive lacks the books that are left, and nothing else.  *)
ArchiveIsPartial ==
  op \in {"writing", "sealed", "verified"} =>
    /\ temp.rows = rows
    /\ \A b \in left : Stored(rows[b])
    /\ temp.originals = {b \in Books : Stored(rows[b])} \ left
    /\ temp.derived = {b \in Books : HasDerived(b, rows[b])} \ left
    /\ op # "writing" => left = {} /\ temp.sealed
    /\ op = "verified" => ~temp.damaged

LeftIsStored == op \in {"collected"} => left = {b \in Books : Stored(rows[b])}

StagedIsOneLibrary == staged # None => Payload(staged) = Library(staged.rows)

DatasetIsStaged ==
  op \in {"validated", "scheduled", "refused"} => dataset = Payload(staged)

(* A restore is refused for a book that has no derived text by its format. *)
RefusedForItsFormat ==
  op = "refused" => \E b \in Books \ Docx : dataset.rows[b] = "ready"

Inv ==
  /\ TypeOK
  /\ FilesAreSound
  /\ SnapshotIsCurrent
  /\ LeftIsStored
  /\ ArchiveIsPartial
  /\ PublishedIsOneLibrary
  /\ StagedIsOneLibrary
  /\ DatasetIsStaged
  /\ RefusedForItsFormat

-----------------------------------------------------------------------------
(* Records. *)
Tree == [original : {"none", "whole", "changed"}, derived : BOOLEAN, extra : BOOLEAN]

LEMMA TreeMade ==
  ASSUME NEW O, NEW D, NEW E, NEW o \in O, NEW d \in D, NEW e \in E
  PROVE  [original |-> o, derived |-> d, extra |-> e] \in [original : O, derived : D, extra : E]
BY Zenon

LEMMA TreeParts ==
  ASSUME NEW O, NEW D, NEW E, NEW t \in [original : O, derived : D, extra : E]
  PROVE  /\ t.original \in O /\ t.derived \in D /\ t.extra \in E
         /\ DOMAIN t = {"original", "derived", "extra"}
<1>1. DOMAIN t = {"original", "derived", "extra"}
  BY Zenon
<1>2. t.original \in O
  BY Zenon
<1>3. t.derived \in D
  BY Zenon
<1>4. t.extra \in E
  BY Zenon
<1> QED
  BY <1>1, <1>2, <1>3, <1>4

LEMMA TreeEdited ==
  ASSUME NEW O, NEW D, NEW E, NEW t \in [original : O, derived : D, extra : E], NEW x \in O
  PROVE  /\ [t EXCEPT !.original = x] \in [original : O, derived : D, extra : E]
         /\ [t EXCEPT !.original = x].original = x
         /\ [t EXCEPT !.original = x].derived = t.derived
         /\ [t EXCEPT !.original = x].extra = t.extra
<1>1. [t EXCEPT !.original = x] \in [original : O, derived : D, extra : E]
  BY SMT
<1>2. [t EXCEPT !.original = x].original = x
  BY TreeParts, SMT
<1>3. [t EXCEPT !.original = x].derived = t.derived
  BY TreeParts, Zenon
<1>4. [t EXCEPT !.original = x].extra = t.extra
  BY TreeParts, Zenon
<1> QED
  BY <1>1, <1>2, <1>3, <1>4

LEMMA TreeMarked ==
  ASSUME NEW O, NEW D, NEW E, NEW t \in [original : O, derived : D, extra : E], NEW x \in E,
         NEW u, u = [t EXCEPT !.extra = x]
  PROVE  /\ u \in [original : O, derived : D, extra : E]
         /\ u.original = t.original
         /\ u.derived = t.derived
<1>1. u \in [original : O, derived : D, extra : E]
  BY SMT
<1>2. u.original = t.original
  BY TreeParts, Zenon
<1>3. u.derived = t.derived
  BY TreeParts, Zenon
<1> QED
  BY <1>1, <1>2, <1>3

LEMMA ArchiveMade ==
  ASSUME NEW R, NEW O, NEW D, NEW B, NEW r \in R, NEW o \in O, NEW d \in D, NEW s \in B, NEW x \in B
  PROVE  [rows |-> r, originals |-> o, derived |-> d, sealed |-> s, damaged |-> x] \in [rows : R, originals : O, derived : D, sealed : B, damaged : B]
BY Zenon

LEMMA ArchiveParts ==
  ASSUME NEW R, NEW O, NEW D, NEW B, NEW a \in [rows : R, originals : O, derived : D, sealed : B, damaged : B]
  PROVE  /\ a.rows \in R /\ a.originals \in O /\ a.derived \in D /\ a.sealed \in B /\ a.damaged \in B
         /\ DOMAIN a = {"rows", "originals", "derived", "sealed", "damaged"}
<1>1. DOMAIN a = {"rows", "originals", "derived", "sealed", "damaged"}
  BY Zenon
<1>2. a.rows \in R
  BY Zenon
<1>3. a.originals \in O
  BY Zenon
<1>4. a.derived \in D
  BY Zenon
<1>5. a.sealed \in B
  BY Zenon
<1>6. a.damaged \in B
  BY Zenon
<1> QED
  BY <1>1, <1>2, <1>3, <1>4, <1>5, <1>6

LEMMA ArchiveExtended ==
  ASSUME NEW R, NEW O, NEW D, NEW B, NEW a \in [rows : R, originals : O, derived : D, sealed : B, damaged : B], NEW x \in O, NEW y \in D,
         NEW c, c = [a EXCEPT !.originals = x, !.derived = y]
  PROVE  /\ c \in [rows : R, originals : O, derived : D, sealed : B, damaged : B]
         /\ c.originals = x /\ c.derived = y
         /\ c.rows = a.rows /\ c.sealed = a.sealed /\ c.damaged = a.damaged
<1> DEFINE d == [a EXCEPT !.originals = x]
<1>1. c \in [rows : R, originals : O, derived : D, sealed : B, damaged : B]
  <2>1. d \in [rows : R, originals : O, derived : D, sealed : B, damaged : B]
    BY SMT
  <2> HIDE DEF d
  <2>2. [d EXCEPT !.derived = y] \in [rows : R, originals : O, derived : D, sealed : B, damaged : B]
    BY <2>1, SMT
  <2>3. c = [d EXCEPT !.derived = y]
    BY ArchiveParts, SMT DEF d
  <2> QED
    BY <2>2, <2>3, Zenon
<1>2. c.originals = x
  BY ArchiveParts, SMT
<1>3. c.derived = y
  BY ArchiveParts, SMT
<1>4. c.rows = a.rows
  BY ArchiveParts, SMT
<1>5. c.sealed = a.sealed
  BY ArchiveParts, SMT
<1>6. c.damaged = a.damaged
  BY ArchiveParts, SMT
<1> QED
  BY <1>1, <1>2, <1>3, <1>4, <1>5, <1>6

LEMMA ArchiveSealed ==
  ASSUME NEW R, NEW O, NEW D, NEW B, NEW a \in [rows : R, originals : O, derived : D, sealed : B, damaged : B], NEW x \in B,
         NEW c, c = [a EXCEPT !.sealed = x]
  PROVE  /\ c \in [rows : R, originals : O, derived : D, sealed : B, damaged : B]
         /\ c.sealed = x
         /\ c.rows = a.rows /\ c.originals = a.originals /\ c.derived = a.derived /\ c.damaged = a.damaged
<1>1. c \in [rows : R, originals : O, derived : D, sealed : B, damaged : B]
  BY SMT
<1>2. c.sealed = x
  BY ArchiveParts, SMT
<1>3. c.rows = a.rows
  BY ArchiveParts, Zenon
<1>4. c.originals = a.originals
  BY ArchiveParts, Zenon
<1>5. c.derived = a.derived
  BY ArchiveParts, Zenon
<1>6. c.damaged = a.damaged
  BY ArchiveParts, Zenon
<1> QED
  BY <1>1, <1>2, <1>3, <1>4, <1>5, <1>6

LEMMA ArchiveDamaged ==
  ASSUME NEW R, NEW O, NEW D, NEW B, NEW a \in [rows : R, originals : O, derived : D, sealed : B, damaged : B], NEW x \in B,
         NEW c, c = [a EXCEPT !.damaged = x]
  PROVE  /\ c \in [rows : R, originals : O, derived : D, sealed : B, damaged : B]
         /\ c.damaged = x
         /\ c.rows = a.rows /\ c.originals = a.originals /\ c.derived = a.derived /\ c.sealed = a.sealed
<1>1. c \in [rows : R, originals : O, derived : D, sealed : B, damaged : B]
  BY SMT
<1>2. c.damaged = x
  BY ArchiveParts, SMT
<1>3. c.rows = a.rows
  BY ArchiveParts, Zenon
<1>4. c.originals = a.originals
  BY ArchiveParts, Zenon
<1>5. c.derived = a.derived
  BY ArchiveParts, Zenon
<1>6. c.sealed = a.sealed
  BY ArchiveParts, Zenon
<1> QED
  BY <1>1, <1>2, <1>3, <1>4, <1>5, <1>6

LEMMA LibraryParts ==
  ASSUME NEW r
  PROVE  /\ Library(r).rows = r
         /\ Library(r).originals = {b \in Books : Stored(r[b])}
         /\ Library(r).derived = {b \in Books : HasDerived(b, r[b])}
BY Zenon DEF Library

LEMMA FilesOfIsTree ==
  ASSUME NEW b, NEW r
  PROVE  /\ FilesOf(b, r) \in Tree
         /\ FilesOf(b, r).original = "none" <=> ~Stored(r)
         /\ FilesOf(b, r).derived <=> HasDerived(b, r)
<1> DEFINE o == IF Stored(r) THEN "whole" ELSE "none"
<1>1. o \in {"none", "whole", "changed"} /\ HasDerived(b, r) \in BOOLEAN /\ FALSE \in BOOLEAN
  BY Zenon DEF HasDerived
<1>2. FilesOf(b, r) \in Tree
  BY <1>1, TreeMade, Zenon DEF FilesOf, Tree
<1>3. FilesOf(b, r).original = o
  BY Zenon DEF FilesOf
<1>4. FilesOf(b, r).derived = HasDerived(b, r)
  BY Zenon DEF FilesOf
<1> QED
  BY <1>2, <1>3, <1>4, Zenon

-----------------------------------------------------------------------------
(* One step. *)
LEMMA InvHoldsInitially == Init => Inv
<1> SUFFICES ASSUME Init PROVE Inv
  OBVIOUS
<1>1. Absent \in Tree /\ Absent.original = "none" /\ Absent.derived = FALSE
  BY TreeMade, Zenon DEF Absent, Tree
<1>2. TypeOK
  BY <1>1, BoundAssumption, SMT DEF Init, TypeOK, Tree, Rows, BackupSteps, RestoreSteps
<1>3. FilesAreSound
  <2> SUFFICES ASSUME NEW b \in Books
               PROVE  /\ file[b].original = "none" <=> ~Stored(row[b])
                      /\ file[b].derived <=> HasDerived(b, row[b])
    BY DEF FilesAreSound
  <2>1. file[b] = Absent /\ row[b] = "none"
    BY SMT DEF Init
  <2>2. ~Stored("none") /\ ~HasDerived(b, "none")
    BY SMT DEF Stored, HasDerived
  <2> QED
    BY <1>1, <2>1, <2>2, Zenon
<1> QED
  BY <1>2, <1>3, SMT DEF Init, Inv, SnapshotIsCurrent, LeftIsStored, ArchiveIsPartial,
     PublishedIsOneLibrary, StagedIsOneLibrary, DatasetIsStaged, RefusedForItsFormat, BackupSteps

LEMMA WriteTypes ==
  ASSUME TypeOK, op = "writing", NEW b \in Books
  PROVE  /\ Written(b) \in Archives
         /\ Written(b).rows = temp.rows
         /\ Written(b).originals = With(temp.originals, b, file[b].original = "whole")
         /\ Written(b).derived = With(temp.derived, b, file[b].derived)
         /\ Written(b).sealed = temp.sealed
         /\ Written(b).damaged = temp.damaged
<1> DEFINE o == With(temp.originals, b, file[b].original = "whole")
           d == With(temp.derived, b, file[b].derived)
<1>1. temp \in Archives
  BY SMT DEF TypeOK
<1>2. temp.originals \subseteq Books /\ temp.derived \subseteq Books
  BY <1>1, ArchiveParts, Zenon DEF Archives
<1>3. o \in SUBSET Books /\ d \in SUBSET Books
  BY <1>2, SMT DEF With
<1>4. Written(b) = [temp EXCEPT !.originals = o, !.derived = d]
  BY <1>1, ArchiveParts, SMT DEF Written, Archives
<1> HIDE DEF o, d
<1>5. /\ Written(b) \in Archives
      /\ Written(b).originals = o
      /\ Written(b).derived = d
      /\ Written(b).rows = temp.rows /\ Written(b).sealed = temp.sealed /\ Written(b).damaged = temp.damaged
  BY <1>1, <1>3, <1>4, ArchiveExtended, ZenonT(60) DEF Archives
<1> QED
  BY <1>5, Zenon DEF o, d

LEMMA TypeInvariance == Inv /\ [Next]_vars => TypeOK'
<1> SUFFICES ASSUME Inv, [Next]_vars
             PROVE  TypeOK'
  OBVIOUS
<1> USE DEF BackupSteps, RestoreSteps
<1>0. TypeOK
  BY DEF Inv
<1>1. ASSUME NEW b \in Books, NEW r \in Rows, LibraryChanges(b, r)
      PROVE  TypeOK'
  <2>1. file' \in [Books -> Tree]
    BY <1>0, <1>1, FilesOfIsTree, SMT DEF TypeOK, LibraryChanges, Tree
  <2> QED
    BY <1>0, <1>1, <2>1, SMT DEF TypeOK, LibraryChanges, Place, Backup, Staging, Bounds, Tree
<1>2. ASSUME NEW b \in Books, OriginalIsEdited(b)
      PROVE  TypeOK'
  <2>1. [file[b] EXCEPT !.original = "changed"] \in Tree
    BY <1>0, TreeEdited, SMT DEF TypeOK, Tree
  <2>2. file' \in [Books -> Tree]
    BY <1>0, <1>2, <2>1, SMT DEF TypeOK, OriginalIsEdited, Tree
  <2> QED
    BY <1>0, <1>2, <2>2, BoundAssumption, SMT DEF TypeOK, OriginalIsEdited, Change, Place, Backup, Staging, Tree
<1>3. ASSUME NEW b \in Books, FileIsAdded(b)
      PROVE  TypeOK'
  <2>0. file[b] \in Tree
    BY <1>0, SMT DEF TypeOK, Tree
  <2>1. [file[b] EXCEPT !.extra = TRUE] \in Tree
    BY <2>0, TreeMarked, Zenon DEF Tree
  <2>2. file' \in [Books -> Tree]
    BY <1>0, <1>3, <2>1, SMT DEF TypeOK, FileIsAdded, Tree
  <2> QED
    BY <1>0, <1>3, <2>2, BoundAssumption, SMT DEF TypeOK, FileIsAdded, Change, Place, Backup, Staging, Tree
<1>4. ASSUME NEW t \in {None, Foreign}, TargetIsTouched(t)
      PROVE  TypeOK'
  BY <1>0, <1>4, BoundAssumption, SMT DEF TypeOK, TargetIsTouched, Change, Shelf, Backup, Staging
<1>5. CASE BeginBackup
  BY <1>0, <1>5, SMT DEF TypeOK, BeginBackup, Shelf, Place, Backup, Staging, Bounds
<1>6. CASE TakeSnapshot
  BY <1>0, <1>6, SMT DEF TypeOK, TakeSnapshot, Shelf, Place, Backup, Staging, Bounds
<1>7. CASE CollectSources
  BY <1>0, <1>7, SMT DEF TypeOK, CollectSources, BackupFails, Shelf, Place, Backup, Staging, Bounds
<1>8. CASE CreateTemporary
  <2>1. CASE target = None
    <3> DEFINE a == [rows |-> rows, originals |-> {}, derived |-> {}, sealed |-> FALSE, damaged |-> FALSE]
    <3>1. a \in Archives
      BY <1>0, ArchiveMade, SMT DEF TypeOK, Archives
    <3>2. temp' = a
      BY <1>8, <2>1, Zenon DEF CreateTemporary
    <3> HIDE DEF a
    <3>3. a # None
      BY <3>1, NoneAssumption
    <3> QED
      BY <1>0, <1>8, <2>1, <3>1, <3>2, <3>3, SMT
         DEF TypeOK, CreateTemporary, Shelf, Place, Backup, Staging, Bounds
  <2>2. CASE target # None
    BY <1>0, <1>8, <2>2, SMT DEF TypeOK, CreateTemporary, BackupFails, Shelf, Place, Backup, Staging, Bounds
  <2> QED
    BY <2>1, <2>2
<1>9. ASSUME NEW b \in Books, WriteEntry(b)
      PROVE  TypeOK'
  <2>1. CASE SourceIsStable(b)
    <3>0. op = "writing"
      BY <1>9 DEF WriteEntry
    <3>1. Written(b) \in Archives
      BY <1>0, <3>0, WriteTypes
    <3>2. [Written(b) EXCEPT !.damaged = TRUE] \in Archives
      BY <3>1, ArchiveDamaged, Zenon DEF Archives
    <3>3. temp' \in Archives
      <4>1. temp' = Written(b) \/ temp' = [Written(b) EXCEPT !.damaged = TRUE]
        BY <1>9, <2>1, Zenon DEF WriteEntry
      <4> QED
        BY <3>1, <3>2, <4>1, Zenon
    <3>4. faults' \in 0..MaxFaults
      BY <1>0, <1>9, <2>1, BoundAssumption, SMT DEF WriteEntry, TypeOK
    <3>5. UNCHANGED <<row, file, version, target, tversion, op, rows, witness, seen, staged, dataset, changes>>
          /\ left' \subseteq Books
      BY <1>0, <1>9, <2>1, SMT DEF WriteEntry, TypeOK, Shelf, Place, Staging
    <3> QED
      BY <1>0, <3>0, <3>3, <3>4, <3>5, NoneAssumption, SMT DEF TypeOK
  <2>2. CASE ~SourceIsStable(b)
    BY <1>0, <1>9, <2>2, SMT DEF TypeOK, WriteEntry, BackupFails, Shelf, Place, Backup, Staging
  <2> QED
    BY <2>1, <2>2
<1>10. CASE Seal
  <2>1. CASE \E b \in Books : file[b].extra
    BY <1>0, <1>10, <2>1, SMT DEF TypeOK, Seal, BackupFails, Shelf, Place, Backup, Staging, Bounds
  <2>2. CASE ~\E b \in Books : file[b].extra
    <3>1. op = "writing" /\ temp' = [temp EXCEPT !.sealed = TRUE]
      BY <1>10, <2>2 DEF Seal
    <3>2. temp \in Archives
      BY <1>0, <3>1, SMT DEF TypeOK
    <3>3. temp' \in Archives
      BY <3>1, <3>2, ArchiveSealed, Zenon DEF Archives
    <3> QED
      BY <1>0, <1>10, <2>2, <3>3, NoneAssumption, SMT
         DEF TypeOK, Seal, Shelf, Place, Backup, Staging, Bounds
  <2> QED
    BY <2>1, <2>2
<1>11. CASE VerifyArchive
  BY <1>0, <1>11, SMT DEF TypeOK, VerifyArchive, BackupFails, Shelf, Place, Backup, Staging, Bounds
<1>12. CASE PublishNoReplace
  BY <1>0, <1>12, SMT DEF TypeOK, PublishNoReplace, BackupFails, Shelf, Place, Backup, Staging, Bounds
<1>13. CASE BeginRestore
  BY <1>0, <1>13, SMT DEF TypeOK, BeginRestore, Shelf, Place, Backup, Staging, Bounds
<1>14. CASE CopyArchive
  BY <1>0, <1>14, SMT DEF TypeOK, CopyArchive, Valid, WellFormed, RestoreFails, Shelf, Place, Backup, Staging, Bounds
<1>15. CASE ExtractArchive
  BY <1>0, <1>15, BoundAssumption, SMT DEF TypeOK, ExtractArchive, Shelf, Place, Backup, Staging, Bounds
<1>16. CASE ValidateDataset
  BY <1>0, <1>16, SMT DEF TypeOK, ValidateDataset, RestoreFails, Shelf, Place, Backup, Staging, Bounds
<1>17. CASE PreflightDataset
  BY <1>0, <1>17, SMT DEF TypeOK, PreflightDataset, Shelf, Place, Backup, Staging, Bounds
<1>18. CASE DiscardStage
  BY <1>0, <1>18, SMT DEF TypeOK, DiscardStage, RestoreFails, Shelf, Place, Backup, Staging, Bounds
<1>19. CASE InstallDataset
  <2>1. op = "scheduled" /\ staged # None /\ dataset = Payload(staged)
    BY <1>0, <1>19, SMT DEF InstallDataset, TypeOK, Inv, DatasetIsStaged
  <2>2. dataset.rows \in [Books -> Rows]
    BY <1>0, <2>1, ArchiveParts, SMT DEF TypeOK, Archives, Payload
  <2>3. \A b \in Books : [original |-> IF b \in dataset.originals THEN "whole" ELSE "none",
                          derived |-> b \in dataset.derived, extra |-> FALSE] \in Tree
    BY TreeMade, SMT DEF Tree
  <2>4. file' \in [Books -> Tree]
    BY <1>19, <2>3, SMT DEF InstallDataset
  <2> QED
    BY <1>0, <1>19, <2>2, <2>4, SMT DEF TypeOK, InstallDataset, RestoreFails, Place, Backup, Bounds, Tree
<1>20. CASE Kill
  BY <1>0, <1>20, SMT DEF TypeOK, Kill, Shelf, Place, Backup, Staging, Bounds
<1>21. CASE UNCHANGED vars
  BY <1>0, <1>21, SMT DEF TypeOK, vars
<1> QED
  BY <1>1, <1>2, <1>3, <1>4, <1>5, <1>6, <1>7, <1>8, <1>9, <1>10, <1>11, <1>12, <1>13, <1>14, <1>15,
     <1>16, <1>17, <1>18, <1>19, <1>20, <1>21, Zenon DEF Next

(* Who changes the books, and who only reads them.                         *)
Reads ==
  \/ \E t \in {None, Foreign} : TargetIsTouched(t)
  \/ BeginBackup \/ TakeSnapshot \/ CollectSources \/ CreateTemporary \/ \E b \in Books : WriteEntry(b)
  \/ Seal \/ VerifyArchive \/ PublishNoReplace
  \/ BeginRestore \/ CopyArchive \/ ExtractArchive \/ ValidateDataset \/ PreflightDataset
  \/ DiscardStage
  \/ Kill
  \/ UNCHANGED vars

LEMMA ReadersLeaveTheShelf == Reads => UNCHANGED <<row, file>>
BY SMT DEF Reads, TargetIsTouched, BeginBackup, TakeSnapshot, CollectSources, CreateTemporary, WriteEntry,
   Seal, VerifyArchive, PublishNoReplace, BeginRestore, CopyArchive, ExtractArchive, ValidateDataset,
   PreflightDataset, DiscardStage, Kill, vars, Shelf

LEMMA FilesInvariance == Inv /\ [Next]_vars => FilesAreSound'
<1> SUFFICES ASSUME Inv, [Next]_vars, NEW c \in Books
             PROVE  /\ file'[c].original = "none" <=> ~Stored(row'[c])
                    /\ file'[c].derived <=> HasDerived(c, row'[c])
  BY DEF FilesAreSound
<1>0. TypeOK /\ /\ file[c].original = "none" <=> ~Stored(row[c])
                /\ file[c].derived <=> HasDerived(c, row[c])
  BY DEF Inv, FilesAreSound
<1>1. ASSUME NEW b \in Books, NEW r \in Rows, LibraryChanges(b, r)
      PROVE  /\ file'[c].original = "none" <=> ~Stored(row'[c])
             /\ file'[c].derived <=> HasDerived(c, row'[c])
  <2>1. CASE c = b
    <3>1. file'[c] = FilesOf(c, r) /\ row'[c] = r
      BY <1>0, <1>1, <2>1, SMT DEF LibraryChanges, TypeOK
    <3> QED
      BY <3>1, FilesOfIsTree, Zenon
  <2>2. CASE c # b
    <3>1. file'[c] = file[c] /\ row'[c] = row[c]
      BY <1>0, <1>1, <2>2, SMT DEF LibraryChanges, TypeOK
    <3> QED
      BY <1>0, <3>1, Zenon
  <2> QED
    BY <2>1, <2>2
<1>2. ASSUME NEW b \in Books, OriginalIsEdited(b)
      PROVE  /\ file'[c].original = "none" <=> ~Stored(row'[c])
             /\ file'[c].derived <=> HasDerived(c, row'[c])
  <2>1. row' = row
    BY <1>2 DEF OriginalIsEdited
  <2>2. file[c] \in Tree
    BY <1>0, SMT DEF TypeOK, Tree
  <2>3. CASE c = b
    <3>1. file[c].original = "whole" /\ file'[c] = [file[c] EXCEPT !.original = "changed"]
      BY <1>0, <1>2, <2>3, SMT DEF OriginalIsEdited, TypeOK
    <3>2. file'[c].original = "changed" /\ file'[c].derived = file[c].derived
      BY <2>2, <3>1, TreeEdited, SMT DEF Tree
    <3>3. file'[c].original # "none" /\ Stored(row[c])
      BY <1>0, <3>1, <3>2, SMT
    <3> QED
      BY <1>0, <2>1, <3>2, <3>3, Zenon
  <2>4. CASE c # b
    <3>1. file'[c] = file[c]
      BY <1>0, <1>2, <2>4, SMT DEF OriginalIsEdited, TypeOK
    <3> QED
      BY <1>0, <2>1, <3>1, Zenon
  <2> QED
    BY <2>3, <2>4
<1>3. ASSUME NEW b \in Books, FileIsAdded(b)
      PROVE  /\ file'[c].original = "none" <=> ~Stored(row'[c])
             /\ file'[c].derived <=> HasDerived(c, row'[c])
  <2>1. row' = row
    BY <1>3 DEF FileIsAdded
  <2>2. file[c] \in Tree
    BY <1>0, SMT DEF TypeOK, Tree
  <2>3. CASE c = b
    <3>1. file'[c] = [file[c] EXCEPT !.extra = TRUE]
      BY <1>0, <1>3, <2>3, SMT DEF FileIsAdded, TypeOK
    <3>2. file'[c].original = file[c].original /\ file'[c].derived = file[c].derived
      BY <2>2, <3>1, TreeMarked, Zenon DEF Tree
    <3> QED
      BY <1>0, <2>1, <3>2, Zenon
  <2>4. CASE c # b
    <3>1. file'[c] = file[c]
      BY <1>0, <1>3, <2>4, SMT DEF FileIsAdded, TypeOK
    <3> QED
      BY <1>0, <2>1, <3>1, Zenon
  <2> QED
    BY <2>3, <2>4
<1>4. CASE InstallDataset
  <2>1. op = "scheduled" /\ staged # None
    BY <1>0, <1>4, SMT DEF InstallDataset, TypeOK
  <2>2. dataset = Payload(staged) /\ Payload(staged) = Library(staged.rows)
    BY <2>1, SMT DEF Inv, DatasetIsStaged, StagedIsOneLibrary
  <2>3. /\ dataset.rows = staged.rows
        /\ dataset.originals = {b \in Books : Stored(staged.rows[b])}
        /\ dataset.derived = {b \in Books : HasDerived(b, staged.rows[b])}
    BY <2>2, LibraryParts, Zenon
  <2>4. row'[c] = staged.rows[c]
    BY <1>4, <2>3, Zenon DEF InstallDataset
  <2>5. /\ file'[c].original = (IF c \in dataset.originals THEN "whole" ELSE "none")
        /\ file'[c].derived = (c \in dataset.derived)
    BY <1>4, Zenon DEF InstallDataset
  <2>6. c \in dataset.originals <=> Stored(row'[c])
    BY <2>3, <2>4, Zenon
  <2>7. c \in dataset.derived <=> HasDerived(c, row'[c])
    BY <2>3, <2>4, Zenon
  <2>8. file'[c].original = "none" <=> ~Stored(row'[c])
    BY <2>5, <2>6, SMT
  <2> QED
    BY <2>5, <2>7, <2>8, Zenon
<1>5. CASE Reads
  BY <1>0, <1>5, ReadersLeaveTheShelf, Zenon
<1> QED
  BY <1>1, <1>2, <1>3, <1>4, <1>5, Zenon DEF Next, Reads

LEMMA SnapshotInvariance == Inv /\ [Next]_vars => SnapshotIsCurrent' /\ LeftIsStored'
<1> SUFFICES ASSUME Inv, [Next]_vars
             PROVE  SnapshotIsCurrent' /\ LeftIsStored'
  OBVIOUS
<1> USE DEF BackupSteps, RestoreSteps, SnapshotIsCurrent, LeftIsStored
<1>0. SnapshotIsCurrent /\ LeftIsStored
  BY DEF Inv
<1>1. ASSUME NEW b \in Books, NEW r \in Rows, LibraryChanges(b, r)
      PROVE  SnapshotIsCurrent' /\ LeftIsStored'
  BY <1>1, SMT DEF LibraryChanges
<1>2. ASSUME NEW b \in Books, OriginalIsEdited(b) \/ FileIsAdded(b)
      PROVE  SnapshotIsCurrent' /\ LeftIsStored'
  BY <1>0, <1>2, SMT DEF OriginalIsEdited, FileIsAdded, Backup
<1>3. ASSUME NEW t \in {None, Foreign}, TargetIsTouched(t)
      PROVE  SnapshotIsCurrent' /\ LeftIsStored'
  BY <1>0, <1>3, SMT DEF TargetIsTouched, Shelf, Backup
<1>4. CASE BeginBackup \/ TakeSnapshot
  BY <1>4, SMT DEF BeginBackup, TakeSnapshot, Shelf
<1>5. CASE CollectSources
  BY <1>0, <1>5, SMT DEF CollectSources, BackupFails, Shelf
<1>6. CASE CreateTemporary \/ Seal \/ VerifyArchive \/ PublishNoReplace
  BY <1>0, <1>6, SMT DEF CreateTemporary, Seal, VerifyArchive, PublishNoReplace, BackupFails, Shelf, Backup
<1>7. ASSUME NEW b \in Books, WriteEntry(b)
      PROVE  SnapshotIsCurrent' /\ LeftIsStored'
  BY <1>0, <1>7, SMT DEF WriteEntry, BackupFails, Shelf
<1>8. CASE BeginRestore \/ CopyArchive \/ ExtractArchive \/ ValidateDataset \/ PreflightDataset \/ DiscardStage
  BY <1>8, SMT DEF BeginRestore, CopyArchive, ExtractArchive, ValidateDataset, PreflightDataset, DiscardStage,
     RestoreFails
<1>9. CASE InstallDataset \/ Kill
  BY <1>9, SMT DEF InstallDataset, Kill, RestoreFails
<1>10. CASE UNCHANGED vars
  BY <1>0, <1>10, SMT DEF vars
<1> QED
  BY <1>1, <1>2, <1>3, <1>4, <1>5, <1>6, <1>7, <1>8, <1>9, <1>10, Zenon DEF Next

LEMMA PartialInvariance == Inv /\ [Next]_vars => ArchiveIsPartial'
<1> SUFFICES ASSUME Inv, [Next]_vars
             PROVE  ArchiveIsPartial'
  OBVIOUS
<1> USE DEF BackupSteps, RestoreSteps
<1>0. TypeOK /\ FilesAreSound /\ SnapshotIsCurrent /\ LeftIsStored /\ ArchiveIsPartial
  BY DEF Inv
<1>1. ASSUME NEW b \in Books, NEW r \in Rows, LibraryChanges(b, r)
      PROVE  ArchiveIsPartial'
  BY <1>1, SMT DEF LibraryChanges, ArchiveIsPartial
<1>2. ASSUME NEW b \in Books, OriginalIsEdited(b) \/ FileIsAdded(b)
      PROVE  ArchiveIsPartial'
  <2>1. UNCHANGED <<op, temp, rows, left>>
    BY <1>2, SMT DEF OriginalIsEdited, FileIsAdded, Backup
  <2> QED
    BY <1>0, <2>1, Zenon DEF ArchiveIsPartial
<1>3. ASSUME NEW t \in {None, Foreign}, TargetIsTouched(t)
      PROVE  ArchiveIsPartial'
  <2>1. UNCHANGED <<op, temp, rows, left>>
    BY <1>3, SMT DEF TargetIsTouched, Backup
  <2> QED
    BY <1>0, <2>1, Zenon DEF ArchiveIsPartial
<1>4. CASE BeginBackup \/ TakeSnapshot
  BY <1>4, SMT DEF BeginBackup, TakeSnapshot, ArchiveIsPartial
<1>5. CASE CollectSources
  BY <1>5, SMT DEF CollectSources, BackupFails, ArchiveIsPartial
<1>6. CASE CreateTemporary
  <2>1. CASE target = None
    <3> DEFINE a == [rows |-> rows, originals |-> {}, derived |-> {}, sealed |-> FALSE, damaged |-> FALSE]
    <3>1. a.rows = rows /\ a.originals = {} /\ a.derived = {}
      BY Zenon
    <3>2. temp' = a /\ op' = "writing" /\ rows' = rows /\ left' = left
      BY <1>6, <2>1, Zenon DEF CreateTemporary
    <3> HIDE DEF a
    <3>3. left = {b \in Books : Stored(rows[b])}
      BY <1>0, <1>6, SMT DEF CreateTemporary, LeftIsStored
    <3>4. \A b \in Books : HasDerived(b, rows[b]) => Stored(rows[b])
      BY SMT DEF HasDerived, Stored
    <3>5. {b \in Books : Stored(rows[b])} \ left = {} /\ {b \in Books : HasDerived(b, rows[b])} \ left = {}
      BY <3>3, <3>4, Zenon
    <3>6. \A b \in left : Stored(rows[b])
      BY <3>3, Zenon
    <3> QED
      BY <3>1, <3>2, <3>5, <3>6, SMT DEF ArchiveIsPartial
  <2>2. CASE target # None
    BY <1>6, <2>2, SMT DEF CreateTemporary, BackupFails, ArchiveIsPartial
  <2> QED
    BY <2>1, <2>2
<1>7. ASSUME NEW b \in Books, WriteEntry(b)
      PROVE  ArchiveIsPartial'
  <2>1. CASE SourceIsStable(b)
    <3>1. /\ op = "writing" /\ op' = "writing" /\ rows' = rows
          /\ b \in left /\ left' = left \ {b}
      BY <1>7, <2>1, Zenon DEF WriteEntry
    <3>2. /\ temp.rows = rows
          /\ \A c \in left : Stored(rows[c])
          /\ temp.originals = {c \in Books : Stored(rows[c])} \ left
          /\ temp.derived = {c \in Books : HasDerived(c, rows[c])} \ left
      BY <1>0, <3>1, SMT DEF ArchiveIsPartial
    <3>3. rows = row
      BY <1>0, <3>1, SMT DEF SnapshotIsCurrent
    <3>4. file[b].derived <=> HasDerived(b, rows[b])
      BY <1>0, <3>3, Zenon DEF FilesAreSound
    <3>5. file[b].original = "whole"
      BY <2>1 DEF SourceIsStable
    <3>6. /\ Written(b) \in Archives
          /\ Written(b).rows = temp.rows
          /\ Written(b).originals = With(temp.originals, b, file[b].original = "whole")
          /\ Written(b).derived = With(temp.derived, b, file[b].derived)
      BY <1>0, <3>1, WriteTypes, Zenon
    <3>7. With(temp.originals, b, file[b].original = "whole") = {c \in Books : Stored(rows[c])} \ left'
      BY <3>1, <3>2, <3>5, SMT DEF With
    <3>8. With(temp.derived, b, file[b].derived) = {c \in Books : HasDerived(c, rows[c])} \ left'
      <4>1. CASE HasDerived(b, rows[b])
        <5>1. With(temp.derived, b, file[b].derived) = temp.derived \union {b}
          BY <3>4, <4>1, Zenon DEF With
        <5> QED
          BY <3>1, <3>2, <4>1, <5>1, Zenon
      <4>2. CASE ~HasDerived(b, rows[b])
        <5>1. With(temp.derived, b, file[b].derived) = temp.derived
          BY <3>4, <4>2, Zenon DEF With
        <5> QED
          BY <3>1, <3>2, <4>2, <5>1, Zenon
      <4> QED
        BY <4>1, <4>2
    <3>9. temp' = Written(b) \/ temp' = [Written(b) EXCEPT !.damaged = TRUE]
      BY <1>7, <2>1, Zenon DEF WriteEntry
    <3>10. /\ temp'.rows = Written(b).rows /\ temp'.originals = Written(b).originals
           /\ temp'.derived = Written(b).derived
      BY <3>6, <3>9, ArchiveDamaged, Zenon DEF Archives
    <3>11. \A c \in left' : Stored(rows[c])
      BY <3>1, <3>2, Zenon
    <3>12. /\ temp'.rows = rows'
           /\ \A c \in left' : Stored(rows'[c])
           /\ temp'.originals = {c \in Books : Stored(rows'[c])} \ left'
           /\ temp'.derived = {c \in Books : HasDerived(c, rows'[c])} \ left'
      BY <3>1, <3>2, <3>6, <3>7, <3>8, <3>10, <3>11, Zenon
    <3> QED
      BY <3>1, <3>12, SMT DEF ArchiveIsPartial
  <2>2. CASE ~SourceIsStable(b)
    BY <1>7, <2>2, SMT DEF WriteEntry, BackupFails, ArchiveIsPartial
  <2> QED
    BY <2>1, <2>2
<1>8. CASE Seal
  <2>1. CASE \E b \in Books : file[b].extra
    BY <1>8, <2>1, SMT DEF Seal, BackupFails, ArchiveIsPartial
  <2>2. CASE ~\E b \in Books : file[b].extra
    <3>1. /\ op = "writing" /\ op' = "sealed" /\ rows' = rows /\ left = {} /\ left' = left
          /\ temp' = [temp EXCEPT !.sealed = TRUE]
      BY <1>8, <2>2, Zenon DEF Seal
    <3>2. temp \in Archives
      BY <1>0, <3>1, SMT DEF TypeOK
    <3>3. /\ temp'.sealed = TRUE
          /\ temp'.rows = temp.rows /\ temp'.originals = temp.originals /\ temp'.derived = temp.derived
      BY <3>1, <3>2, ArchiveSealed, Zenon DEF Archives
    <3>4. /\ temp.rows = rows
          /\ \A b \in left : Stored(rows[b])
          /\ temp.originals = {b \in Books : Stored(rows[b])} \ left
          /\ temp.derived = {b \in Books : HasDerived(b, rows[b])} \ left
      BY <1>0, <3>1, SMT DEF ArchiveIsPartial
    <3>5. /\ temp'.rows = rows'
          /\ \A b \in left' : Stored(rows'[b])
          /\ temp'.originals = {b \in Books : Stored(rows'[b])} \ left'
          /\ temp'.derived = {b \in Books : HasDerived(b, rows'[b])} \ left'
          /\ left' = {} /\ temp'.sealed
      BY <3>1, <3>3, <3>4, Zenon
    <3> QED
      BY <3>1, <3>5, SMT DEF ArchiveIsPartial
  <2> QED
    BY <2>1, <2>2
<1>9. CASE VerifyArchive
  BY <1>0, <1>9, SMT DEF VerifyArchive, Valid, BackupFails, Backup, ArchiveIsPartial
<1>10. CASE PublishNoReplace
  BY <1>10, SMT DEF PublishNoReplace, BackupFails, ArchiveIsPartial
<1>11. CASE BeginRestore \/ CopyArchive \/ ExtractArchive \/ ValidateDataset \/ PreflightDataset \/ DiscardStage
  BY <1>11, SMT DEF BeginRestore, CopyArchive, ExtractArchive, ValidateDataset, PreflightDataset, DiscardStage,
     RestoreFails, ArchiveIsPartial
<1>12. CASE InstallDataset \/ Kill
  BY <1>12, SMT DEF InstallDataset, Kill, RestoreFails, ArchiveIsPartial
<1>13. CASE UNCHANGED vars
  <2>1. UNCHANGED <<op, temp, rows, left>>
    BY <1>13 DEF vars
  <2> QED
    BY <1>0, <2>1, Zenon DEF ArchiveIsPartial
<1> QED
  BY <1>1, <1>2, <1>3, <1>4, <1>5, <1>6, <1>7, <1>8, <1>9, <1>10, <1>11, <1>12, <1>13, Zenon DEF Next

(* What is verified is one library. *)
LEMMA VerifiedIsOneLibrary ==
  ASSUME Inv, op = "verified"
  PROVE  /\ temp # None
         /\ temp.sealed /\ ~temp.damaged
         /\ Payload(temp) = Library(temp.rows)
<1>1. temp # None
  BY SMT DEF Inv, TypeOK
<1>2. /\ temp.rows = rows
      /\ temp.originals = {b \in Books : Stored(rows[b])} \ left
      /\ temp.derived = {b \in Books : HasDerived(b, rows[b])} \ left
      /\ left = {} /\ temp.sealed /\ ~temp.damaged
  BY SMT DEF Inv, ArchiveIsPartial
<1>3. /\ temp.originals = {b \in Books : Stored(temp.rows[b])}
      /\ temp.derived = {b \in Books : HasDerived(b, temp.rows[b])}
  BY <1>2, Zenon
<1>4. Payload(temp) = Library(temp.rows)
  BY <1>3, Zenon DEF Payload, Library
<1> QED
  BY <1>1, <1>2, <1>4, Zenon

LEMMA OnlyPublicationsMoveFiles ==
  ASSUME [Next]_vars
  PROVE  target' = target \/ (\E t \in {None, Foreign} : TargetIsTouched(t)) \/ PublishNoReplace
BY SMT DEF Next, vars, LibraryChanges, OriginalIsEdited, FileIsAdded, BeginBackup, TakeSnapshot,
   CollectSources, CreateTemporary, WriteEntry, Seal, VerifyArchive, BackupFails, BeginRestore, CopyArchive,
   ExtractArchive, ValidateDataset, PreflightDataset, DiscardStage, InstallDataset, Kill, Place

LEMMA PublishedInvariance == Inv /\ [Next]_vars => PublishedIsOneLibrary'
<1> SUFFICES ASSUME Inv, [Next]_vars
             PROVE  PublishedIsOneLibrary'
  OBVIOUS
<1>0. PublishedIsOneLibrary
  BY DEF Inv
<1>1. CASE target' = target
  BY <1>0, <1>1, Zenon DEF PublishedIsOneLibrary, Valid, WellFormed
<1>2. ASSUME NEW t \in {None, Foreign}, TargetIsTouched(t)
      PROVE  PublishedIsOneLibrary'
  BY <1>2, SMT DEF TargetIsTouched, PublishedIsOneLibrary
<1>3. CASE PublishNoReplace /\ target' # target
  <2>1. op = "verified" /\ target' = temp
    BY <1>3, SMT DEF PublishNoReplace, BackupFails, Place
  <2>2. temp # None /\ temp.sealed /\ ~temp.damaged /\ Payload(temp) = Library(temp.rows)
    BY <2>1, VerifiedIsOneLibrary
  <2> QED
    BY <2>1, <2>2, Zenon DEF PublishedIsOneLibrary, Valid, WellFormed
<1>4. target' = target \/ (\E t \in {None, Foreign} : TargetIsTouched(t)) \/ PublishNoReplace
  BY OnlyPublicationsMoveFiles
<1> QED
  BY <1>1, <1>2, <1>3, <1>4

LEMMA StagedInvariance == Inv /\ [Next]_vars => StagedIsOneLibrary'
<1> SUFFICES ASSUME Inv, [Next]_vars
             PROVE  StagedIsOneLibrary'
  OBVIOUS
<1>0. StagedIsOneLibrary /\ PublishedIsOneLibrary
  BY DEF Inv
<1>1. CASE staged' = staged \/ staged' = None
  BY <1>0, <1>1, Zenon DEF StagedIsOneLibrary
<1>2. CASE CopyArchive /\ staged' # None
  <2>1. Valid(target) /\ staged' = target
    BY <1>2, SMT DEF CopyArchive, RestoreFails
  <2>2. Payload(target) = Library(target.rows)
    BY <1>0, <2>1, Zenon DEF PublishedIsOneLibrary, Valid, WellFormed
  <2> QED
    BY <2>1, <2>2, Zenon DEF StagedIsOneLibrary
<1>3. staged' = staged \/ staged' = None \/ CopyArchive
  BY SMT DEF Next, vars, LibraryChanges, OriginalIsEdited, FileIsAdded, TargetIsTouched, BeginBackup,
     TakeSnapshot, CollectSources, CreateTemporary, WriteEntry, Seal, VerifyArchive, PublishNoReplace,
     BeginRestore, ExtractArchive, ValidateDataset, PreflightDataset, DiscardStage, InstallDataset, Kill,
     RestoreFails, Staging
<1> QED
  BY <1>1, <1>2, <1>3

(* Only a ready book without derived text is not Owned. *)
LEMMA LibrariesAreOwned ==
  ASSUME NEW r, \A b \in Books \ Docx : r[b] # "ready"
  PROVE  Owned(Library(r))
<1> SUFFICES ASSUME NEW b \in Books
             PROVE  /\ Stored(Library(r).rows[b]) <=> b \in Library(r).originals
                    /\ b \in Library(r).derived => Stored(Library(r).rows[b])
                    /\ Library(r).rows[b] = "ready" => b \in Library(r).derived
  BY Zenon DEF Owned
<1>1. Library(r).rows[b] = r[b]
  BY LibraryParts, Zenon
<1>2. b \in Library(r).originals <=> Stored(r[b])
  BY LibraryParts, Zenon
<1>3. b \in Library(r).derived <=> HasDerived(b, r[b])
  BY LibraryParts, Zenon
<1>4. /\ HasDerived(b, r[b]) => Stored(r[b])
      /\ r[b] = "ready" => HasDerived(b, r[b])
  BY SMT DEF HasDerived, Stored
<1> QED
  BY <1>1, <1>2, <1>3, <1>4, Zenon

LEMMA DatasetInvariance == Inv /\ [Next]_vars => DatasetIsStaged' /\ RefusedForItsFormat'
<1> SUFFICES ASSUME Inv, [Next]_vars
             PROVE  DatasetIsStaged' /\ RefusedForItsFormat'
  OBVIOUS
<1> USE DEF BackupSteps, RestoreSteps
<1>0. TypeOK /\ StagedIsOneLibrary /\ DatasetIsStaged /\ RefusedForItsFormat
  BY DEF Inv
<1>1. CASE UNCHANGED <<op, staged, dataset>>
  BY <1>0, <1>1, Zenon DEF DatasetIsStaged, RefusedForItsFormat
<1>2. CASE op' \notin {"validated", "scheduled", "refused"}
  BY <1>2, SMT DEF DatasetIsStaged, RefusedForItsFormat
<1>3. CASE ValidateDataset
  BY <1>3, SMT DEF ValidateDataset, Materialized, RestoreFails, DatasetIsStaged, RefusedForItsFormat
<1>4. CASE PreflightDataset
  <2>1. op = "validated" /\ UNCHANGED <<staged, dataset>> /\ op' \in {"scheduled", "refused"}
    BY <1>4, SMT DEF PreflightDataset, Staging
  <2>2. dataset = Payload(staged) /\ staged # None
    BY <1>0, <2>1, SMT DEF DatasetIsStaged, TypeOK
  <2>3. dataset = Library(staged.rows)
    BY <1>0, <2>2, Zenon DEF StagedIsOneLibrary
  <2>4. ASSUME op' = "refused"
        PROVE  \E b \in Books \ Docx : dataset.rows[b] = "ready"
    <3>1. ~Owned(dataset)
      BY <1>4, <2>4, SMT DEF PreflightDataset
    <3>2. \E b \in Books \ Docx : staged.rows[b] = "ready"
      BY <2>3, <3>1, LibrariesAreOwned, Zenon
    <3>3. dataset.rows = staged.rows
      BY <2>3, LibraryParts, Zenon
    <3> QED
      BY <3>2, <3>3, Zenon
  <2> QED
    BY <2>1, <2>2, <2>4, Zenon DEF DatasetIsStaged, RefusedForItsFormat
<1>5. \/ UNCHANGED <<op, staged, dataset>>
      \/ op' \notin {"validated", "scheduled", "refused"}
      \/ ValidateDataset \/ PreflightDataset
  BY SMT DEF Next, vars, LibraryChanges, OriginalIsEdited, FileIsAdded, TargetIsTouched, BeginBackup,
     TakeSnapshot, CollectSources, CreateTemporary, WriteEntry, Seal, VerifyArchive, PublishNoReplace,
     BackupFails, BeginRestore, CopyArchive, ExtractArchive, DiscardStage, InstallDataset, Kill,
     RestoreFails, Staging
<1> QED
  BY <1>1, <1>2, <1>3, <1>4, <1>5, Zenon

LEMMA InvIsInductive == Inv /\ [Next]_vars => Inv'
BY TypeInvariance, FilesInvariance, SnapshotInvariance, PartialInvariance, PublishedInvariance,
   StagedInvariance, DatasetInvariance, Zenon DEF Inv

-----------------------------------------------------------------------------
(* The specification. *)
THEOREM InvIsInvariant == Spec => []Inv
<1>1. Init => Inv
  BY InvHoldsInitially
<1>2. Inv /\ [Next]_vars => Inv'
  BY InvIsInductive
<1> QED
  BY <1>1, <1>2, PTL DEF Spec

(* The variables keep their types; there is a temporary archive exactly    *)
(* while it is written and checked, and a stage while a restore uses it.   *)
THEOREM TypeCorrect == Spec => []TypeOK
<1>1. Inv => TypeOK
  BY DEF Inv
<1> QED
  BY <1>1, InvIsInvariant, PTL

(* create_backup publishes the rows of one moment with exactly the files   *)
(* they own, sealed and undamaged, whatever the disk and other programs do. *)
THEOREM BackupsAreComplete == Spec => []PublishedIsOneLibrary
<1>1. Inv => PublishedIsOneLibrary
  BY DEF Inv
<1> QED
  BY <1>1, InvIsInvariant, PTL

(* A restore refuses a backup of this program only for a ready book whose  *)
(* parser writes no derived text.                                          *)
THEOREM RefusalsHaveOneReason == Spec => []OnlyOtherFormatsAreRefused
<1>1. Inv => OnlyOtherFormatsAreRefused
  BY DEF Inv, RefusedForItsFormat, OnlyOtherFormatsAreRefused
<1> QED
  BY <1>1, InvIsInvariant, PTL

(* No step of a backup replaces a file that is at the destination.         *)
THEOREM DestinationsAreKept == Spec => NothingIsReplaced
<1>1. [Next]_vars => [target # None /\ target' # target => target' \in {None, Foreign}]_vars
  <2> SUFFICES ASSUME [Next]_vars, target # None, target' # target
               PROVE  target' \in {None, Foreign}
    OBVIOUS
  <2>1. (\E t \in {None, Foreign} : TargetIsTouched(t)) \/ PublishNoReplace
    BY OnlyPublicationsMoveFiles
  <2>2. ~PublishNoReplace
    BY SMT DEF PublishNoReplace, BackupFails, Place
  <2> QED
    BY <2>1, <2>2, SMT DEF TargetIsTouched
<1> QED
  BY <1>1, PTL DEF Spec, NothingIsReplaced
=============================================================================

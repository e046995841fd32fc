---------------------------- MODULE BookImport ----------------------------
(***************************************************************************)
(* The import of a textbook: the calls of documents/import.rs and          *)
(* commands/documents.rs, the rows of db/books.rs and db/documents.rs and  *)
(* the files of documents/storage.rs and documents/derived.rs they work    *)
(* on, and the recovery at startup.                                        *)
(*                                                                         *)
(* Every await is a step boundary: a flow (one import or retry of the      *)
(* window's ImportCoordinator) and a user's cancellation interleave        *)
(* between the statements and the file operations of a call.  A file is    *)
(* the flow that wrote it, so that a rename may move another flow's file;  *)
(* its content is that flow's source, whole once the flow has copied it.   *)
(* All books are DOCX, the format with a derived document.html.  Titles,   *)
(* progress events, locators and the shape of sections are left out.       *)
(***************************************************************************)
EXTENDS Naturals, FiniteSets

CONSTANTS Books, Flows, Users, Sources, None, MaxRestarts

(* None stands for no book, no flow and no source; a user is no flow.      *)
ASSUME ImportAssumption ==
  /\ None \notin Books \union Flows \union Sources
  /\ Flows \cap Users = {}
  /\ MaxRestarts \in Nat

VARIABLES
  row,        \* books and sections: import_status, sha256, whether it has text
  dir,        \* books/<id>: the partial file, the original and the derived html
  active,     \* ImportCancellationRegistry: the owner of a book's attempt
  cancelled,  \* attempts whose cancellation token is set
  pc, book, source, written,
  aborted,    \* flows whose AbortController is aborted
  running,    \* activeImports of the window's coordinator, by flow
  restarts,
  cut         \* books a cancellation of which was cut off by a restart

importVars == <<row, dir, active, cancelled, pc, book, source, written, aborted, running, restarts, cut>>

Procs == Flows \union Users

Statuses == {"queued", "copying", "parsing", "indexing", "ready", "failed"}

NoRow == [status |-> "none", hash |-> None, text |-> FALSE]
NoFiles == [partial |-> None, original |-> None, html |-> FALSE]

(* Where a call of the window is: between calls the flow holds no stack.   *)
Waiting == {"idle", "created", "read", "parse", "write", "append", "final", "report", "abort", "done"}

BeforeBook == {"inserted", "registered", "prepare", "replace", "copy", "copying", "rename",
               "copyfailed", "markfailed", "claim", "duplicate", "checked", "reset"}

ImportInit ==
  /\ row = [b \in Books |-> NoRow]
  /\ dir = [b \in Books |-> NoFiles]
  /\ active = [b \in Books |-> None]
  /\ cancelled = {}
  /\ pc = [p \in Procs |-> "idle"]
  /\ book = [p \in Procs |-> None]
  /\ source = [f \in Flows |-> None]
  /\ written = [f \in Flows |-> FALSE]
  /\ aborted = {}
  /\ running = {}
  /\ restarts = 0
  /\ cut = {}

GoTo(p, l) == pc' = [pc EXCEPT ![p] = l]
At(p, l) == pc[p] = l
Status(b) == row[b].status
Owns(f) == active[book[f]] = f
Take(f) == active' = [active EXCEPT ![book[f]] = IF @ = f THEN None ELSE @]
Register(f) ==
  /\ active' = [active EXCEPT ![book[f]] = f]
  /\ cancelled' = cancelled \ {f}
RemoveBookDirectory(b) == dir' = [dir EXCEPT ![b] = NoFiles]
ClearDerived(b) == dir' = [dir EXCEPT ![b].html = FALSE]
SetStatus(b, s) == row' = [row EXCEPT ![b].status = s]

\* Both of mark_failed and mark_failed_and_clear with a cleared source.
FailedWithoutSource == [status |-> "failed", hash |-> None, text |-> FALSE]
FailedWithSource(b) == [row[b] EXCEPT !.status = "failed", !.text = FALSE]
\* The transactions begin_parse and append_parsed_sections.
Reparsed(b) == [row[b] EXCEPT !.status = "parsing", !.text = FALSE]
Appended(b) == [row[b] EXCEPT !.text = TRUE]
Fail(b, new) == row' = [row EXCEPT ![b] = IF Status(b) = "none" THEN @ ELSE new]

Files == <<dir, written, source>>
Window == <<aborted, running, restarts, cut>>

---------------------------------------------------------------------------
(* begin_import, and retry_import with a replacement                       *)

BeginImport(f, b, s) ==
  /\ At(f, "idle")
  /\ Status(b) = "none"
  /\ \A g \in Flows : book[g] # b
  /\ row' = [row EXCEPT ![b] = [NoRow EXCEPT !.status = "queued"]]
  /\ book' = [book EXCEPT ![f] = b]
  /\ source' = [source EXCEPT ![f] = s]
  /\ GoTo(f, "inserted")
  /\ UNCHANGED <<dir, active, cancelled, written, Window>>

RegisterImport(f) ==
  /\ At(f, "inserted")
  /\ Register(f)
  /\ GoTo(f, "registered")
  /\ UNCHANGED <<row, Files, book, Window>>

StartCopying(f) ==
  /\ At(f, "registered")
  /\ IF Status(book[f]) = "queued"
     THEN SetStatus(book[f], "copying") /\ GoTo(f, "copy") /\ UNCHANGED active
     ELSE Take(f) /\ GoTo(f, "markfailed") /\ UNCHANGED row
  /\ UNCHANGED <<Files, book, cancelled, Window>>

BeginReplacement(f, b, s) ==
  /\ At(f, "idle")
  /\ Status(b) = "failed"
  /\ book' = [book EXCEPT ![f] = b]
  /\ source' = [source EXCEPT ![f] = s]
  /\ GoTo(f, "prepare")
  /\ UNCHANGED <<row, dir, active, cancelled, written, Window>>

PrepareReplacement(f) ==
  /\ At(f, "prepare")
  /\ IF Status(book[f]) = "failed"
     THEN /\ row' = [row EXCEPT ![book[f]].status = "copying", ![book[f]].hash = None]
          /\ GoTo(f, "replace")
     ELSE GoTo(f, "done") /\ UNCHANGED row
  /\ UNCHANGED <<Files, book, active, cancelled, Window>>

RegisterReplacement(f) ==
  /\ At(f, "replace")
  /\ RemoveBookDirectory(book[f])
  /\ Register(f)
  /\ GoTo(f, "copy")
  /\ UNCHANGED <<row, book, source, written, Window>>

---------------------------------------------------------------------------
(* copy_source, on its own thread                                          *)

CopyOpen(f) ==
  /\ At(f, "copy")
  /\ IF f \in cancelled \/ dir[book[f]].partial # None
     THEN GoTo(f, "copyfailed") /\ UNCHANGED dir
     ELSE dir' = [dir EXCEPT ![book[f]].partial = f] /\ GoTo(f, "copying")
  /\ UNCHANGED <<row, book, active, cancelled, written, source, Window>>

CopyWrite(f) ==
  /\ At(f, "copying")
  /\ IF f \in cancelled
     THEN GoTo(f, "copyfailed") /\ UNCHANGED written
     ELSE written' = [written EXCEPT ![f] = TRUE] /\ GoTo(f, "rename")
  /\ UNCHANGED <<row, dir, book, active, cancelled, source, Window>>

\* rename moves whatever lies at the partial path, and replaces the original.
CopyRename(f) ==
  /\ At(f, "rename")
  /\ LET b == book[f] IN
       IF dir[b].partial = None
       THEN GoTo(f, "copyfailed") /\ UNCHANGED dir
       ELSE /\ dir' = [dir EXCEPT ![b].original = dir[b].partial, ![b].partial = None]
            /\ GoTo(f, "claim")
  /\ UNCHANGED <<row, book, active, cancelled, written, source, Window>>

CopyFailed(f) ==
  /\ At(f, "copyfailed")
  /\ IF Owns(f)
     THEN Take(f) /\ RemoveBookDirectory(book[f]) /\ GoTo(f, "markfailed")
     ELSE GoTo(f, "failed") /\ UNCHANGED <<active, dir>>
  /\ UNCHANGED <<row, book, cancelled, written, source, Window>>

MarkFailed(f) ==
  /\ At(f, "markfailed")
  /\ Fail(book[f], FailedWithoutSource)
  /\ GoTo(f, "failed")
  /\ UNCHANGED <<Files, book, active, cancelled, Window>>

\* The window is told of the error; the flow never reached a book.
BeginFailed(f) ==
  /\ At(f, "failed")
  /\ GoTo(f, "done")
  /\ UNCHANGED <<row, Files, book, active, cancelled, Window>>

Duplicate(b, h) == \E c \in Books \ {b} : row[c].hash = h

ClaimHash(f) ==
  /\ At(f, "claim")
  /\ LET b == book[f]
         h == source[f] IN
       \/ /\ Status(b) # "copying"
          /\ GoTo(f, "copyfailed")
          /\ UNCHANGED <<row, active>>
       \/ /\ Status(b) = "copying"
          /\ Duplicate(b, h)
          /\ row' = [row EXCEPT ![b] = NoRow]
          /\ Take(f)
          /\ GoTo(f, "duplicate")
       \/ /\ Status(b) = "copying"
          /\ ~Duplicate(b, h)
          /\ row' = [row EXCEPT ![b].status = "parsing", ![b].hash = h]
          /\ GoTo(f, "created")
          /\ UNCHANGED active
  /\ UNCHANGED <<Files, book, cancelled, Window>>

RemoveDuplicate(f) ==
  /\ At(f, "duplicate")
  /\ RemoveBookDirectory(book[f])
  /\ GoTo(f, "done")
  /\ UNCHANGED <<row, book, active, cancelled, written, source, Window>>

---------------------------------------------------------------------------
(* retry_import of the owned source                                        *)

Intact(b, h) == /\ dir[b].original # None
                /\ written[dir[b].original]
                /\ source[dir[b].original] = h

BeginRetry(f, b) ==
  /\ At(f, "idle")
  /\ Status(b) = "failed"
  /\ row[b].hash # None
  /\ Intact(b, row[b].hash)
  /\ book' = [book EXCEPT ![f] = b]
  /\ GoTo(f, "checked")
  /\ UNCHANGED <<row, Files, active, cancelled, Window>>

RegisterRetry(f) ==
  /\ At(f, "checked")
  /\ ClearDerived(book[f])
  /\ Register(f)
  /\ GoTo(f, "reset")
  /\ UNCHANGED <<row, book, source, written, Window>>

ResetForRetry(f) ==
  /\ At(f, "reset")
  /\ LET b == book[f] IN
       IF Status(b) = "failed" /\ row[b].hash # None
       THEN SetStatus(b, "parsing") /\ GoTo(f, "created") /\ UNCHANGED active
       ELSE Take(f) /\ GoTo(f, "failed") /\ UNCHANGED row
  /\ UNCHANGED <<Files, book, cancelled, Window>>

---------------------------------------------------------------------------
(* The window's flow once it has a book: read, parse, write, append        *)

\* The window shows no book yet: cancelPending aborts every call that has
\* not returned one.  It makes no call of its own.
Pending == {f \in Flows : pc[f] \in BeforeBook}

CancelPending ==
  /\ Pending \ aborted # {}
  /\ aborted' = aborted \union Pending
  /\ UNCHANGED <<row, Files, active, cancelled, pc, book, running, restarts, cut>>

RunsInWindow(b) == \E g \in running : book[g] = b /\ pc[g] # "done"

\* runCreatedImport refuses a book that another flow of the window runs.
RunCreatedImport(f) ==
  /\ At(f, "created")
  /\ \/ f \in aborted /\ GoTo(f, "abort") /\ UNCHANGED running
     \/ /\ f \notin aborted
        /\ RunsInWindow(book[f])
        /\ GoTo(f, "done")
        /\ UNCHANGED running
     \/ /\ f \notin aborted
        /\ ~RunsInWindow(book[f])
        /\ running' = running \union {f}
        /\ GoTo(f, "read")
  /\ UNCHANGED <<row, Files, book, active, cancelled, aborted, restarts, cut>>

NoticeAbort(f) ==
  /\ pc[f] \in {"read", "parse", "write", "append", "final"}
  /\ f \in aborted
  /\ GoTo(f, "abort")
  /\ UNCHANGED <<row, Files, active, cancelled, book, Window>>

Runs(f, l) == At(f, l) /\ f \notin aborted

ReadBookSource(f) ==
  /\ Runs(f, "read")
  /\ LET b == book[f] IN
       IF Status(b) \in {"parsing", "ready"} /\ row[b].hash # None /\ Intact(b, row[b].hash)
       THEN GoTo(f, "parse") ELSE GoTo(f, "report")
  /\ UNCHANGED <<row, Files, book, active, cancelled, Window>>

Cancelled(b) == active[b] \in cancelled
Lease(b) == active[b] # None
MayGoOn(b) == Lease(b) /\ ~Cancelled(b)

\* begin_parse registers an attempt when the book has none, and keeps it
\* only when the transaction succeeds.
BeginParse(f) ==
  /\ Runs(f, "parse")
  /\ LET b == book[f] IN
       \/ /\ Cancelled(b)
          /\ GoTo(f, "abort")
          /\ UNCHANGED <<row, active, cancelled>>
       \/ /\ ~Cancelled(b)
          /\ Status(b) \in {"parsing", "ready"}
          /\ row' = [row EXCEPT ![b] = Reparsed(b)]
          /\ IF Lease(b) THEN UNCHANGED <<active, cancelled>> ELSE Register(f)
          /\ GoTo(f, "write")
       \/ /\ ~Cancelled(b)
          /\ Status(b) \notin {"parsing", "ready"}
          /\ GoTo(f, "report")
          /\ UNCHANGED <<row, active, cancelled>>
  /\ UNCHANGED <<Files, book, Window>>

\* write_derived_text up to the rename, and the checks after it.
WriteDerived(f) ==
  /\ Runs(f, "write")
  /\ LET b == book[f] IN
       IF MayGoOn(b) /\ Status(b) = "parsing" /\ dir[b].original # None /\ ~dir[b].html
       THEN dir' = [dir EXCEPT ![b].html = TRUE] /\ GoTo(f, "wrote")
       ELSE /\ GoTo(f, IF Cancelled(b) THEN "abort" ELSE "report")
            /\ UNCHANGED dir
  /\ UNCHANGED <<row, book, active, cancelled, source, written, Window>>

RecheckDerived(f) ==
  /\ At(f, "wrote")
  /\ LET b == book[f] IN
       \/ /\ ~MayGoOn(b)
          /\ GoTo(f, "abort")
          /\ UNCHANGED dir
       \/ /\ MayGoOn(b)
          /\ Status(b) = "parsing"
          /\ GoTo(f, "append")
          /\ UNCHANGED dir
       \/ /\ MayGoOn(b)
          /\ Status(b) # "parsing"
          /\ \/ RemoveBookDirectory(b)
             \/ ClearDerived(b)
          /\ GoTo(f, "report")
  /\ UNCHANGED <<row, book, active, cancelled, source, written, Window>>

AppendSections(f) ==
  /\ Runs(f, "append")
  /\ LET b == book[f] IN
       IF MayGoOn(b) /\ Status(b) = "parsing" /\ dir[b].html
       THEN row' = [row EXCEPT ![b] = Appended(b)] /\ GoTo(f, "final")
       ELSE /\ GoTo(f, IF Cancelled(b) THEN "abort" ELSE "report")
            /\ UNCHANGED row
  /\ UNCHANGED <<Files, book, active, cancelled, Window>>

\* A batch the database refuses fails the book, cancels the attempt and
\* takes it, and clears the derived directory.
AppendRefused(f) ==
  /\ Runs(f, "append")
  /\ LET b == book[f] IN
       /\ MayGoOn(b)
       /\ Status(b) = "parsing"
       /\ row' = [row EXCEPT ![b] = FailedWithSource(b)]
       /\ cancelled' = cancelled \union {active[b]}
       /\ active' = [active EXCEPT ![b] = None]
       /\ ClearDerived(b)
  /\ GoTo(f, "report")
  /\ UNCHANGED <<book, source, written, Window>>

---------------------------------------------------------------------------
(* finalize_import                                                         *)

FinalizeBegin(f) ==
  /\ Runs(f, "final")
  /\ LET b == book[f] IN
       IF MayGoOn(b) /\ Status(b) = "parsing" /\ dir[b].html
       THEN GoTo(f, "beginindexing")
       ELSE GoTo(f, IF Cancelled(b) THEN "abort" ELSE "report")
  /\ UNCHANGED <<row, Files, book, active, cancelled, Window>>

BeginIndexing(f) ==
  /\ At(f, "beginindexing")
  /\ IF Status(book[f]) = "parsing"
     THEN SetStatus(book[f], "indexing") /\ GoTo(f, "index")
     ELSE GoTo(f, "report") /\ UNCHANGED row
  /\ UNCHANGED <<Files, book, active, cancelled, Window>>

\* The last look at the token comes before the commit, not with it.
FinalizeCheck(f) ==
  /\ At(f, "index")
  /\ GoTo(f, IF f \in cancelled THEN "compensate" ELSE "commit")
  /\ UNCHANGED <<row, Files, book, active, cancelled, Window>>

\* Mutant: the commit does not look at the status.
CommitAnyStatus(b) == Status(b) # "none"

CommitIsValid(b) == Status(b) = "indexing" /\ row[b].text

FinalizeCommit(f) ==
  /\ At(f, "commit")
  /\ LET b == book[f] IN
       IF CommitIsValid(b)
       THEN SetStatus(b, "ready") /\ GoTo(f, "committed")
       ELSE /\ IF Status(b) = "indexing" THEN Fail(b, FailedWithSource(b)) ELSE UNCHANGED row
            /\ GoTo(f, IF f \in cancelled THEN "compensate" ELSE "report")
  /\ UNCHANGED <<Files, book, active, cancelled, Window>>

FinalizeTake(f) ==
  /\ At(f, "committed")
  /\ \/ /\ Owns(f)
        /\ f \in cancelled
        /\ Take(f)
        /\ RemoveBookDirectory(book[f])
        /\ GoTo(f, "undo")
     \/ /\ Owns(f)
        /\ f \notin cancelled
        /\ Take(f)
        /\ GoTo(f, IF f \in aborted THEN "abort" ELSE "done")
        /\ UNCHANGED dir
     \/ /\ ~Owns(f)
        /\ GoTo(f, IF f \in cancelled THEN "abort" ELSE "report")
        /\ UNCHANGED <<active, dir>>
  /\ UNCHANGED <<row, book, cancelled, source, written, Window>>

Compensate(f) ==
  /\ At(f, "compensate")
  /\ IF Owns(f)
     THEN Take(f) /\ RemoveBookDirectory(book[f]) /\ GoTo(f, "undo")
     ELSE GoTo(f, "abort") /\ UNCHANGED <<active, dir>>
  /\ UNCHANGED <<row, book, cancelled, source, written, Window>>

\* Mutant: finalize_import reports the cancellation and leaves the row.
UndoFilesOnly(f) ==
  /\ At(f, "undo")
  /\ GoTo(f, "abort")
  /\ UNCHANGED <<row, Files, book, active, cancelled, Window>>

UndoFinalize(f) ==
  /\ At(f, "undo")
  /\ Fail(book[f], FailedWithoutSource)
  /\ GoTo(f, "abort")
  /\ UNCHANGED <<Files, book, active, cancelled, Window>>

---------------------------------------------------------------------------
(* mark_import_failed, for an error while parsing or indexing              *)

ReportBegin(f) ==
  /\ At(f, "report")
  /\ LET b == book[f] IN
       /\ cancelled' = IF Lease(b) THEN cancelled \union {active[b]} ELSE cancelled
       /\ active' = [active EXCEPT ![b] = None]
       /\ ClearDerived(b)
       \* clear_derived_directory fails without the book's directory
       /\ GoTo(f, IF dir[b] = NoFiles THEN "done" ELSE "reporting")
  /\ UNCHANGED <<row, book, source, written, Window>>

ReportFailure(f) ==
  /\ At(f, "reporting")
  /\ Fail(book[f], FailedWithSource(book[f]))
  /\ GoTo(f, "done")
  /\ UNCHANGED <<Files, book, active, cancelled, Window>>

---------------------------------------------------------------------------
(* cancel_import, by the flow itself or by the user                        *)

CancelBegin(p, b) ==
  /\ \/ p \in Flows /\ At(p, "abort") /\ b = book[p] /\ UNCHANGED aborted
     \/ /\ p \in Users
        /\ At(p, "idle")
        /\ RunsInWindow(b)
        /\ aborted' = aborted \union {f \in running : book[f] = b}
  /\ cancelled' = IF Lease(b) THEN cancelled \union {active[b]} ELSE cancelled
  /\ book' = [book EXCEPT ![p] = b]
  /\ GoTo(p, "cancel")
  /\ UNCHANGED <<row, Files, active, running, restarts, cut>>

CancelRead(p) ==
  /\ At(p, "cancel")
  /\ LET s == Status(book[p]) IN
       GoTo(p, CASE s \in {"queued", "copying"} -> "cancelcopy"
                 [] s \in {"parsing", "indexing"} -> "cancelparse"
                 [] OTHER -> "done")
  /\ UNCHANGED <<row, Files, book, active, cancelled, Window>>

CancelRemove(p) ==
  /\ pc[p] \in {"cancelcopy", "cancelparse"}
  /\ RemoveBookDirectory(book[p])
  /\ GoTo(p, IF At(p, "cancelcopy") THEN "cancelcopied" ELSE "cancelparsed")
  /\ UNCHANGED <<row, book, active, cancelled, source, written, Window>>

\* remove_if_owner takes the attempt whose token this call has set.
CancelTakes(p) ==
  active' = [active EXCEPT ![book[p]] =
               IF At(p, "cancelparsed") /\ @ \in cancelled THEN None ELSE @]

CancelMark(p) ==
  /\ pc[p] \in {"cancelcopied", "cancelparsed"}
  /\ Fail(book[p], FailedWithoutSource)
  /\ CancelTakes(p)
  /\ GoTo(p, "done")
  /\ UNCHANGED <<Files, book, cancelled, Window>>

---------------------------------------------------------------------------
(* The process ends, and recover_interrupted_imports runs before any call  *)

Recovered(b) ==
  CASE Status(b) \in {"queued", "copying"} -> [row[b] EXCEPT !.status = "failed", !.hash = None]
    [] Status(b) \in {"parsing", "indexing"} -> [row[b] EXCEPT !.status = "failed"]
    [] OTHER -> row[b]

RecoveredFiles(b) ==
  IF Status(b) \in {"none", "queued", "copying"} THEN NoFiles
  ELSE [dir[b] EXCEPT !.partial = None]

Calling(p) == pc[p] \notin Waiting

Restart ==
  /\ restarts < MaxRestarts
  /\ restarts' = restarts + 1
  /\ row' = [b \in Books |-> Recovered(b)]
  /\ dir' = [b \in Books |-> RecoveredFiles(b)]
  /\ active' = [b \in Books |-> None]
  /\ cut' = cut \union {b \in Books : active[b] \in cancelled \/
                          \E p \in Procs : book[p] = b /\ pc[p] \in {"cancelcopied", "cancelparsed", "undo"}}
  /\ pc' = [p \in Procs |-> IF pc[p] = "idle" THEN "idle" ELSE "done"]
  /\ UNCHANGED <<cancelled, book, source, written, aborted, running>>

FlowStep(f) ==
  \/ RegisterImport(f) \/ StartCopying(f) \/ PrepareReplacement(f) \/ RegisterReplacement(f)
  \/ CopyOpen(f) \/ CopyWrite(f) \/ CopyRename(f) \/ CopyFailed(f) \/ MarkFailed(f) \/ BeginFailed(f)
  \/ ClaimHash(f) \/ RemoveDuplicate(f)
  \/ RegisterRetry(f) \/ ResetForRetry(f)
  \/ RunCreatedImport(f) \/ NoticeAbort(f) \/ ReadBookSource(f) \/ BeginParse(f) \/ WriteDerived(f) \/ RecheckDerived(f)
  \/ AppendSections(f) \/ AppendRefused(f)
  \/ FinalizeBegin(f) \/ BeginIndexing(f) \/ FinalizeCheck(f) \/ FinalizeCommit(f) \/ FinalizeTake(f)
  \/ Compensate(f) \/ UndoFinalize(f) \/ ReportBegin(f) \/ ReportFailure(f)

CancelStep(p) == CancelRead(p) \/ CancelRemove(p) \/ CancelMark(p)

ImportNext ==
  \/ \E f \in Flows, b \in Books : BeginRetry(f, b) \/ \E s \in Sources : BeginImport(f, b, s) \/ BeginReplacement(f, b, s)
  \/ \E f \in Flows : FlowStep(f)
  \/ CancelPending
  \/ \E p \in Procs : CancelStep(p) \/ \E b \in Books : CancelBegin(p, b)
  \/ Restart

ImportSpec == ImportInit /\ [][ImportNext]_importVars

FairImportSpec ==
  ImportSpec /\ \A p \in Procs :
    WF_importVars(CancelStep(p) \/ (p \in Flows /\ (FlowStep(p) \/ CancelBegin(p, book[p]))))

---------------------------------------------------------------------------
(* Properties                                                              *)

\* The variables have their types, and a row has a hash from the moment its
\* source is claimed, and not before.
ImportTypeOK ==
  /\ row \in [Books -> [status : Statuses \union {"none"}, hash : Sources \union {None}, text : BOOLEAN]]
  /\ dir \in [Books -> [partial : Flows \union {None}, original : Flows \union {None}, html : BOOLEAN]]
  /\ \A b \in Books :
       /\ Status(b) \in {"none", "queued", "copying"} => row[b].hash = None
       /\ Status(b) \in {"parsing", "indexing", "ready"} => row[b].hash # None
  /\ active \in [Books -> Flows \union {None}]
  /\ cancelled \subseteq Flows
  /\ book \in [Procs -> Books \union {None}]
  /\ written \in [Flows -> BOOLEAN]
  /\ restarts \in 0..MaxRestarts

\* No call is under way on the book.
Quiet(b) == \A p \in Procs : book[p] = b => pc[p] \in Waiting

\* A ready book that no call is working on has the whole file its hash was
\* taken of, its derived text and its sections.
ReadyBookIsWhole ==
  \A b \in Books : Status(b) = "ready" /\ Quiet(b) /\ b \notin cut =>
    Intact(b, row[b].hash) /\ row[b].text /\ dir[b].html

\* Where a flow opens an attempt, and where it works on it in the window.
OpeningSteps == {"inserted", "registered", "prepare", "replace", "copy", "copying", "rename", "copyfailed",
                 "claim", "duplicate", "checked", "reset", "created"}
WindowSteps == {"read", "parse", "write", "wrote", "append", "final", "beginindexing", "index", "commit",
                "committed", "compensate"}

AtWork(f) == pc[f] \in OpeningSteps \union WindowSteps

\* No retry overlaps: while a flow that has found its book failed has not yet
\* taken the book over, no other flow is at work on that book.
RetriesComeAlone ==
  \A f, g \in Flows : f # g /\ book[f] = book[g] /\ pc[f] \in {"checked", "prepare"} => ~AtWork(g)

Ended(b) == \A p \in Procs : book[p] = b => pc[p] = "done"

\* When every call on a book has ended, no attempt is left to hold a permit.
EndedFlowsLetGo == \A b \in Books : Ended(b) => active[b] = None

\* A book that was committed under a cancelled attempt does not stay in the
\* library: finalize_import or cancel_import takes it back, or a restart cut
\* the cancellation off.
CancelledCommitIsUndone ==
  \A f \in Flows :
    At(f, "committed") /\ f \in cancelled
      ~> book[f] # None /\ (Status(book[f]) # "ready" \/ book[f] \in cut)
===========================================================================

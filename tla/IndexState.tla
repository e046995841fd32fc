------------------------------- MODULE IndexState -------------------------------
(***************************************************************************)
(* src-tauri/src/indexing/state.rs, commit.rs and recovery.rs: the rows of  *)
(* index_runs and index_pages, and the statements that change them.  Every  *)
(* statement is a compare-and-set on the page's status and attempt id (or   *)
(* on the run's status), so each operator below is one atomic step of the   *)
(* command that executes it, enabled exactly when one row is affected.      *)
(*                                                                          *)
(* An attempt id is a fresh UUID; only "is it the same one" matters, so the *)
(* attempts of a page are numbered.  A page of reliable text ("not_required")*)
(* never changes again and is left out.  "validating" exists only inside    *)
(* the commit transaction and is not visible to any other statement.        *)
(***************************************************************************)
EXTENDS Naturals, FiniteSets

CONSTANTS
    Run,            \* indexing runs
    Page,           \* pages of those runs
    RunOf,          \* the run each page belongs to
    MaxAttempt      \* bound: attempts per page

ASSUME RunAssumption == RunOf \in [Page -> Run] /\ IsFiniteSet(Page)
ASSUME AttemptAssumption == MaxAttempt \in Nat \ {0}

VARIABLES
    runStatus,      \* index_runs.status, "absent" before create_run
    pageStatus,     \* index_pages.status
    attempt         \* index_pages.attempt_id

db == <<runStatus, pageStatus, attempt>>

RunStatus == {"absent", "running", "paused", "cancelling", "cancelled", "completed"}
PageStatus == {"absent", "queued", "rendering", "sending", "parsing",
               "indexed", "needs_review", "failed", "cancelled"}

Attempt == 1..MaxAttempt

\* The statuses finalize_run_if_terminal counts, and those a command is working on.
Working == {"rendering", "sending", "parsing"}
Unfinished == Working \cup {"queued"}
Committed == {"indexed", "needs_review"}

PagesOf(r) == {p \in Page : RunOf[p] = r}

Live(r) == runStatus[r] \in {"running", "paused"}
Terminal(r) == runStatus[r] \in {"cancelled", "completed"}

StateInit ==
    /\ runStatus = [r \in Run |-> "absent"]
    /\ pageStatus = [p \in Page |-> "absent"]
    /\ attempt = [p \in Page |-> 1]

\* The WHERE clause of every page statement.
Owns(p, a, s) == pageStatus[p] = s /\ attempt[p] = a

SetPage(p, s) ==
    /\ pageStatus' = [pageStatus EXCEPT ![p] = s]
    /\ UNCHANGED <<runStatus, attempt>>

SetRun(r, s) ==
    /\ runStatus' = [runStatus EXCEPT ![r] = s]
    /\ UNCHANGED <<pageStatus, attempt>>

-----------------------------------------------------------------------------
\* create_index_run and one queue() per page of the binding.
InsertRun(r) ==
    /\ runStatus[r] = "absent"
    /\ runStatus' = [runStatus EXCEPT ![r] = "running"]
    /\ pageStatus' = [p \in Page |-> IF RunOf[p] = r THEN "queued" ELSE pageStatus[p]]
    /\ UNCHANGED attempt

ClaimRender(p, a) ==
    /\ Owns(p, a, "queued")
    /\ runStatus[RunOf[p]] = "running"
    /\ SetPage(p, "rendering")

\* mark_rendered followed by claim_send, which requires the hash it stores.
ClaimSend(p, a) == Owns(p, a, "rendering") /\ SetPage(p, "sending")

MarkReceived(p, a) == Owns(p, a, "sending") /\ SetPage(p, "parsing")

Fail(p, a, s) == Owns(p, a, s) /\ SetPage(p, "failed")

Cancel(p, a, s) == Owns(p, a, s) /\ SetPage(p, "cancelled")

\* Mutant of Commit: the run's status is not checked.
CommitUnguarded(p, a) ==
    Owns(p, a, "parsing") /\ \E s \in Committed : SetPage(p, s)

\* commit_validated_page, without its cancellation checks.
Commit(p, a) ==
    /\ Owns(p, a, "parsing")
    /\ Live(RunOf[p])
    /\ \E s \in Committed : SetPage(p, s)

Retry(p, a, s) ==
    /\ Owns(p, a, s)
    /\ a < MaxAttempt
    /\ pageStatus' = [pageStatus EXCEPT ![p] = "queued"]
    /\ attempt' = [attempt EXCEPT ![p] = a + 1]
    /\ UNCHANGED runStatus

Pause(r) == runStatus[r] = "running" /\ SetRun(r, "paused")

Resume(r) == runStatus[r] = "paused" /\ SetRun(r, "running")

\* Mutant of RequestCancel: it also takes the pages that are at the provider.
CancelTakesSentPages(r, expected) ==
    /\ runStatus[r] = expected
    /\ runStatus' = [runStatus EXCEPT ![r] = "cancelling"]
    /\ pageStatus' = [p \in Page |->
                        IF RunOf[p] = r /\ pageStatus[p] \in {"queued", "sending"} THEN "cancelled"
                        ELSE pageStatus[p]]
    /\ UNCHANGED attempt

\* state::cancel_run: one transaction.
RequestCancel(r, expected) ==
    /\ runStatus[r] = expected
    /\ runStatus' = [runStatus EXCEPT ![r] = "cancelling"]
    /\ pageStatus' = [p \in Page |->
                        IF RunOf[p] = r /\ pageStatus[p] = "queued" THEN "cancelled"
                        ELSE pageStatus[p]]
    /\ UNCHANGED attempt

\* Mutant of AllFinished: a page that is being rendered is overlooked.
NoneQueuedOrSent(r) == \A p \in PagesOf(r) : pageStatus[p] \notin {"queued", "sending", "parsing"}

AllFinished(r) == \A p \in PagesOf(r) : pageStatus[p] \notin Unfinished

FinalStatus(s) == IF s = "cancelling" THEN "cancelled" ELSE "completed"

\* finalize_run_if_terminal.
Finalize(r, expected) ==
    /\ expected \in {"running", "paused", "cancelling"}
    /\ runStatus[r] = expected
    /\ AllFinished(r)
    /\ SetRun(r, FinalStatus(expected))

\* recover_interrupted_pages at startup, before any command is accepted.  A page
\* that was rendering is queued again; a later one is queued again if its scratch
\* render survived and is fresh, and is a retryable failure otherwise.
RecoverPages ==
    \E requeue \in SUBSET {p \in Page : pageStatus[p] \in {"sending", "parsing"}} :
        LET again(p) == pageStatus[p] = "rendering" \/ p \in requeue
        IN  /\ \A p \in Page : again(p) => attempt[p] < MaxAttempt
            /\ pageStatus' = [p \in Page |->
                                IF again(p) THEN "queued"
                                ELSE IF pageStatus[p] \in Working THEN "failed"
                                ELSE pageStatus[p]]
            /\ attempt' = [p \in Page |-> IF again(p) THEN attempt[p] + 1 ELSE attempt[p]]
            /\ UNCHANGED runStatus

StateTypeOK ==
    /\ runStatus \in [Run -> RunStatus]
    /\ pageStatus \in [Page -> PageStatus]
    /\ attempt \in [Page -> Attempt]
=============================================================================

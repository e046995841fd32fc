---------------------------- MODULE IndexCoordinator ----------------------------
(***************************************************************************)
(* src-tauri/src/indexing/coordinator.rs: the commands that drive page      *)
(* indexing, and the registry in memory they share.  The commands run       *)
(* concurrently: between two database statements of one, any statement of   *)
(* another may run, and a cancellation may fire.                            *)
(*                                                                          *)
(* A task is one call of a command.  It takes one step per statement whose  *)
(* outcome another command can influence: a read that is checked again by   *)
(* the compare-and-set right behind it belongs to the same step, and so does *)
(* the registry update that follows it.  Locations (`at`):                  *)
(*   clSelect clPage clRegister clReturn   claim_render_batch               *)
(*   rpWrite                               report_render_failure            *)
(*   sbCancelling sbCheck sbSlot sbPage sbSend sbSent sbRecheck sbProvider  *)
(*   sbAnswer sbAccept sbReceive sbBarrier sbInvalid sbCommit sbFinish      *)
(*   sbFinal                               submit_with_executor             *)
(*   interrupted cancelled failed finalCancel   its ways out                *)
(*   cnWrite                               cancel_run                       *)
(*   auRenew auNew                         authorize_run                    *)
(*   rtWrite                               retry_page                       *)
(*                                                                          *)
(* Abstracted: operation tokens, the capacity limits of the registry, the   *)
(* bytes of renders and scratch files, and provider answers beyond "valid". *)
(***************************************************************************)
EXTENDS IndexState, FiniteSetsExt

CONSTANTS
    Task,           \* concurrent command calls
    BatchPages,     \* MAX_COORDINATOR_BATCH_PAGES
    MaxActive,      \* MAX_ACTIVE_RENDER_OR_SEND_PAGES
    ProviderSlots,  \* permits of the provider semaphore
    Restarts,       \* whether the application may be killed and restarted
    FrontendLoss    \* whether the renderer may lose claims it was given

ASSUME LimitAssumption ==
    BatchPages \in Nat \ {0} /\ MaxActive \in Nat \ {0} /\ ProviderSlots \in Nat \ {0}

VARIABLES
    authorized,     \* authorized_runs: "no", "yes", or "stale" once the binding no
                    \* longer matches the book, the profile or the consents
    permit,         \* maintenance_permits holds the run's permit
    claim,          \* active_claims: the attempt registered for a page, 0 if none
    signalled,      \* attempts whose CancellationToken has been cancelled
    offered,        \* claims returned to the renderer in the frontend and not used yet
    exclusive,      \* a maintenance operation owns the gate
    at,             \* location of a task
    run,            \* the run it works on, whose permit it leases while not idle
    todo,           \* pages its current loop has still to visit
    acting,         \* the pages it carries through the pipeline (`active`)
    mine,           \* the attempt of each page as the task knows it, 0 if none
    seen,           \* the status it read and will act upon
    slot,           \* it holds a provider slot
    room            \* how many more pages it may claim

registry == <<authorized, permit, claim, signalled>>
locals == <<at, run, todo, acting, mine, seen, slot, room>>
vars == <<db, registry, offered, exclusive, locals>>

Location == {"idle", "clSelect", "clPage", "clRegister", "clReturn", "rpWrite",
             "sbCancelling", "sbCheck", "sbSlot", "sbPage", "sbSend", "sbSent",
             "sbRecheck", "sbProvider", "sbAnswer", "sbAccept", "sbReceive",
             "sbBarrier", "sbInvalid", "sbCommit", "sbFinish", "sbFinal",
             "interrupted", "cancelled", "failed", "finalCancel",
             "cnWrite", "auRenew", "auNew", "rtWrite"}

NoAttempt == [p \in Page |-> 0]

Init ==
    /\ StateInit
    /\ authorized = [r \in Run |-> "no"]
    /\ permit = [r \in Run |-> FALSE]
    /\ claim = NoAttempt
    /\ signalled = {}
    /\ offered = {}
    /\ exclusive = FALSE
    /\ at = [t \in Task |-> "idle"]
    /\ todo = [t \in Task |-> {}]
    /\ acting = [t \in Task |-> {}]
    /\ mine = [t \in Task |-> NoAttempt]
    /\ seen = [t \in Task |-> "absent"]
    /\ slot = [t \in Task |-> FALSE]
    /\ room = [t \in Task |-> 0]
    /\ run \in [Task -> Run]

-----------------------------------------------------------------------------
(* Tasks and the registry.                                                  *)

Goto(t, l) == at' = [at EXCEPT ![t] = l]

\* The call returns: its leases, its slot and its locals are dropped.
Return(t) ==
    /\ Goto(t, "idle")
    /\ todo' = [todo EXCEPT ![t] = {}]
    /\ acting' = [acting EXCEPT ![t] = {}]
    /\ mine' = [mine EXCEPT ![t] = NoAttempt]
    /\ seen' = [seen EXCEPT ![t] = "absent"]
    /\ slot' = [slot EXCEPT ![t] = FALSE]
    /\ room' = [room EXCEPT ![t] = 0]
    /\ UNCHANGED run

\* A step that moves the task and starts the loop at its new location over S.
Start(t, l, S) ==
    /\ Goto(t, l)
    /\ todo' = [todo EXCEPT ![t] = S]
    /\ UNCHANGED <<run, acting, mine, seen, slot, room>>

\* The loop at t's location has dealt with p: it goes on, or continues at `exit`
\* with the pages S.
Visited(t, p, exit, S) ==
    /\ Goto(t, IF todo[t] = {p} THEN exit ELSE at[t])
    /\ todo' = [todo EXCEPT ![t] = IF @ = {p} THEN S ELSE @ \ {p}]
    /\ UNCHANGED <<run, acting, mine, seen, slot, room>>

\* The same, and the task carries p no further.
Dropped(t, p, exit, S) ==
    /\ Goto(t, IF todo[t] = {p} THEN exit ELSE at[t])
    /\ todo' = [todo EXCEPT ![t] = IF @ = {p} THEN S ELSE @ \ {p}]
    /\ acting' = [acting EXCEPT ![t] = @ \ {p}]
    /\ UNCHANGED <<run, mine, seen, slot, room>>

\* Mutant of CanLease: a command that needs no lease.
LeaseNotNeeded(r) == r \in Run

\* The command has the lease of its run: the run's permit, or one of its own,
\* refused only while maintenance owns the gate.
CanLease(r) == permit[r] \/ ~exclusive

Registered(t, p) == claim[p] # 0 /\ claim[p] = mine[t][p]

Signalled(t, p) == <<p, mine[t][p]>> \in signalled

Interrupted(t, S) == \E p \in S : Signalled(t, p)

OwnsAll(t, S, s) == \A p \in S : Owns(p, mine[t][p], s)

FinishClaims(t, S) ==
    claim' = [p \in Page |-> IF p \in S /\ claim[p] = mine[t][p] THEN 0 ELSE claim[p]]

\* recheck_authorization: the binding is there, it is current and the run is live ...
Authorized(r) == authorized[r] = "yes" /\ Live(r)

\* ... and one that is not is revoked.
Revoke(r) == authorized' = [authorized EXCEPT ![r] = "no"]
RevokeIfOutdated(r) == IF Authorized(r) THEN UNCHANGED authorized ELSE Revoke(r)

\* finish_run.
FinishRun(r) ==
    /\ Revoke(r)
    /\ permit' = [permit EXCEPT ![r] = FALSE]
    /\ UNCHANGED <<claim, signalled>>

\* Page statements whose error the caller ignores.
TryFail(p, a, s) == Fail(p, a, s) \/ (~Owns(p, a, s) /\ UNCHANGED db)
TryCancel(p, a, s) == Cancel(p, a, s) \/ (~Owns(p, a, s) /\ UNCHANGED db)

-----------------------------------------------------------------------------
(* Runs: create_run, pause_run, resume_run, authorize_run, cancel_run.      *)

CreateRun(r) ==
    /\ ~exclusive
    /\ InsertRun(r)
    /\ authorized' = [authorized EXCEPT ![r] = "yes"]
    /\ permit' = [permit EXCEPT ![r] = TRUE]
    /\ UNCHANGED <<claim, signalled, offered, exclusive, locals>>

PauseRun(r) ==
    /\ CanLease(r)
    /\ Pause(r)
    /\ UNCHANGED <<registry, offered, exclusive, locals>>

ResumeRun(r) ==
    /\ permit[r]
    /\ Resume(r)
    /\ UNCHANGED <<registry, offered, exclusive, locals>>

\* authorize_run up to the registry: it matches the run against a new binding.
AuthorizeBegin(t, r) ==
    /\ at[t] = "idle"
    /\ CanLease(r)
    /\ Live(r)
    /\ Goto(t, IF permit[r] THEN "auRenew" ELSE "auNew")
    /\ run' = [run EXCEPT ![t] = r]
    /\ UNCHANGED <<db, registry, offered, exclusive, todo, acting, mine, seen, slot, room>>

\* IndexOperationRegistry::authorize, with the permit acquired for a run that had none.
AuthorizeInsert(t) ==
    /\ \/ /\ at[t] = "auNew"
          /\ permit' = [permit EXCEPT ![run[t]] = TRUE]
          /\ authorized' = [authorized EXCEPT ![run[t]] = "yes"]
       \/ /\ at[t] = "auRenew"
          /\ UNCHANGED permit
          /\ authorized' = [authorized EXCEPT ![run[t]] = IF permit[run[t]] THEN "yes" ELSE @]
    /\ Return(t)
    /\ UNCHANGED <<db, claim, signalled, offered, exclusive>>

\* The claims cancel_claims cancels.
ClaimsOf(r) == {<<p, claim[p]>> : p \in {q \in PagesOf(r) : claim[q] # 0}}

\* cancel_run up to its transaction: it reads the status and cancels the token of
\* every claim registered for the run.
CancelBegin(t, r) ==
    /\ at[t] = "idle"
    /\ CanLease(r)
    /\ Live(r)
    /\ signalled' = signalled \cup ClaimsOf(r)
    /\ Goto(t, "cnWrite")
    /\ run' = [run EXCEPT ![t] = r]
    /\ seen' = [seen EXCEPT ![t] = runStatus[r]]
    /\ UNCHANGED <<db, authorized, permit, claim, offered, exclusive, todo, acting,
                   mine, slot, room>>

\* state::cancel_run, and revoke_run if the run is cancelled by this or another call.
CancelWrite(t) ==
    LET r == run[t] IN
    /\ at[t] = "cnWrite"
    /\ \/ /\ RequestCancel(r, seen[t])
          /\ Revoke(r)
          /\ Start(t, "finalCancel", {})
       \/ /\ runStatus[r] # seen[t]
          /\ runStatus[r] \in {"cancelling", "cancelled"}
          /\ UNCHANGED db
          /\ Revoke(r)
          /\ Start(t, "finalCancel", {})
       \/ /\ runStatus[r] # seen[t]
          /\ runStatus[r] \notin {"cancelling", "cancelled"}
          /\ UNCHANGED <<db, authorized>>
          /\ Return(t)
    /\ UNCHANGED <<permit, claim, signalled, offered, exclusive>>

\* Mutant of FinalizeCancel: the run is forgotten although pages are still under way.
FinalizeCancelAnyway(t) ==
    LET r == run[t] IN
    /\ at[t] = "finalCancel"
    /\ Finalize(r, "cancelling") \/ (~AllFinished(r) /\ UNCHANGED db)
    /\ FinishRun(r)
    /\ Return(t)
    /\ UNCHANGED <<offered, exclusive>>

\* finalize_cancel_if_possible, the last statement of the calls that use it.
FinalizeCancel(t) ==
    LET r == run[t] IN
    /\ at[t] = "finalCancel"
    /\ \/ Finalize(r, "cancelling") /\ FinishRun(r)
       \/ /\ runStatus[r] # "cancelling" \/ ~AllFinished(r)
          /\ UNCHANGED <<db, registry>>
    /\ Return(t)
    /\ UNCHANGED <<offered, exclusive>>

-----------------------------------------------------------------------------
(* claim_render_batch, and the renderer in the frontend.                    *)

InFlight == {p \in Page : pageStatus[p] \in {"rendering", "sending"}}

Queue(r) == {p \in PagesOf(r) : pageStatus[p] = "queued"}

\* It counts the pages in flight and rechecks an authorized run ...
ClaimBegin(t, r) ==
    /\ at[t] = "idle"
    /\ permit[r]
    /\ Authorized(r)
    /\ Cardinality(InFlight) < MaxActive
    /\ room' = [room EXCEPT ![t] = MaxActive - Cardinality(InFlight)]
    /\ Goto(t, "clSelect")
    /\ run' = [run EXCEPT ![t] = r]
    /\ UNCHANGED <<db, registry, offered, exclusive, todo, acting, mine, seen, slot>>

\* ... and selects as many queued pages as fit (which of them is left open).
ClaimSelect(t) ==
    LET queue == Queue(run[t]) IN
    /\ at[t] = "clSelect"
    /\ \/ /\ queue = {}
          /\ Return(t)
       \/ /\ queue # {}
          /\ \E S \in SUBSET queue :
                /\ Cardinality(S) = Min({BatchPages, room[t], Cardinality(queue)})
                /\ todo' = [todo EXCEPT ![t] = S]
                /\ mine' = [mine EXCEPT ![t] = [p \in Page |-> IF p \in S THEN attempt[p] ELSE 0]]
          /\ Goto(t, "clPage")
          /\ room' = [room EXCEPT ![t] = 0]
          /\ UNCHANGED <<run, acting, seen, slot>>
    /\ UNCHANGED <<db, registry, offered, exclusive>>

\* The claimed page stays in todo, and in acting, until it is registered.
ClaimPage(t) ==
    /\ at[t] = "clPage"
    /\ \E p \in todo[t] :
          \/ /\ ClaimRender(p, mine[t][p])
             /\ acting' = [acting EXCEPT ![t] = @ \cup {p}]
             /\ Goto(t, "clRegister")
             /\ UNCHANGED <<run, todo, mine, seen, slot, room>>
          \/ /\ ~Owns(p, mine[t][p], "queued") \/ runStatus[run[t]] # "running"
             /\ UNCHANGED db
             /\ Visited(t, p, "clReturn", {})
    /\ UNCHANGED <<registry, offered, exclusive>>

\* register_claim, refused if the page has a claim of another attempt.
RegisterClaim(t) ==
    /\ at[t] = "clRegister"
    /\ \E p \in todo[t] \cap acting[t] :
          /\ Goto(t, IF todo[t] = {p} THEN "clReturn" ELSE "clPage")
          /\ todo' = [todo EXCEPT ![t] = @ \ {p}]
          /\ \/ /\ claim[p] = 0
                /\ claim' = [claim EXCEPT ![p] = mine[t][p]]
                /\ UNCHANGED <<db, acting>>
             \/ /\ claim[p] # 0
                /\ TryFail(p, mine[t][p], "rendering")
                /\ acting' = [acting EXCEPT ![t] = @ \ {p}]
                /\ UNCHANGED claim
    /\ UNCHANGED <<authorized, permit, signalled, offered, exclusive, run, mine, seen, slot, room>>

\* The batch reaches the frontend, or the frontend has stopped waiting for it.
ClaimReturn(t) ==
    /\ at[t] = "clReturn"
    /\ \/ offered' = offered \cup {<<p, mine[t][p]>> : p \in acting[t]}
       \/ FrontendLoss /\ UNCHANGED offered
    /\ Return(t)
    /\ UNCHANGED <<db, registry, exclusive>>

\* The renderer drops a claim: a report that failed, or the coordinator was stopped.
DropOffer ==
    /\ FrontendLoss
    /\ \E c \in offered : offered' = offered \ {c}
    /\ UNCHANGED <<db, registry, exclusive, locals>>

\* claim_render_batch and read_claimed_source recheck every run they touch.
RecheckRun(r) ==
    /\ permit[r]
    /\ authorized[r] # "no"
    /\ ~Authorized(r)
    /\ Revoke(r)
    /\ UNCHANGED <<db, permit, claim, signalled, offered, exclusive, locals>>

-----------------------------------------------------------------------------
(* report_render_failure.                                                   *)

ReportBegin(t, c) ==
    LET p == c[1] IN
    /\ at[t] = "idle"
    /\ offered' = offered \ {c}
    /\ \/ /\ claim[p] = c[2] /\ permit[RunOf[p]] /\ Owns(p, c[2], "rendering")
          /\ Goto(t, "rpWrite")
          /\ run' = [run EXCEPT ![t] = RunOf[p]]
          /\ todo' = [todo EXCEPT ![t] = {p}]
          /\ mine' = [mine EXCEPT ![t][p] = c[2]]
          /\ seen' = [seen EXCEPT ![t] = IF runStatus[RunOf[p]] = "cancelling" /\ c \in signalled
                                         THEN "cancelling" ELSE "running"]
          /\ UNCHANGED <<acting, slot, room>>
       \/ /\ ~(claim[p] = c[2] /\ permit[RunOf[p]] /\ Owns(p, c[2], "rendering"))
          /\ UNCHANGED locals
    /\ UNCHANGED <<db, registry, exclusive>>

ReportWrite(t) ==
    /\ at[t] = "rpWrite"
    /\ \E p \in todo[t] :
          \/ /\ seen[t] = "cancelling"
             /\ Cancel(p, mine[t][p], "rendering")
             /\ FinishClaims(t, {p})
             /\ Start(t, "finalCancel", {})
          \/ /\ seen[t] # "cancelling"
             /\ Fail(p, mine[t][p], "rendering")
             /\ FinishClaims(t, {p})
             /\ Return(t)
          \/ /\ ~Owns(p, mine[t][p], "rendering")
             /\ UNCHANGED <<db, claim>>
             /\ Return(t)
    /\ UNCHANGED <<authorized, permit, signalled, offered, exclusive>>

-----------------------------------------------------------------------------
(* submit_rendered_batch: before the provider.                              *)

\* A batch of one run, as the frontend claimed it; its run must still have a permit.
SubmitBegin(t, r, B) ==
    LET pages == {c[1] : c \in B} IN
    /\ at[t] = "idle"
    /\ B # {}
    /\ Cardinality(B) <= BatchPages
    /\ Cardinality(pages) = Cardinality(B)
    /\ pages \subseteq PagesOf(r)
    /\ offered' = offered \ B
    /\ \/ /\ permit[r]
          /\ Goto(t, IF runStatus[r] = "cancelling" THEN "sbCancelling" ELSE "sbCheck")
          /\ run' = [run EXCEPT ![t] = r]
          /\ todo' = [todo EXCEPT ![t] = pages]
          /\ mine' = [mine EXCEPT ![t] = [p \in Page |->
                        IF p \in pages THEN CHOOSE a \in 0..MaxAttempt : <<p, a>> \in B ELSE 0]]
          /\ UNCHANGED <<acting, seen, slot, room>>
       \/ /\ ~permit[r]
          /\ UNCHANGED locals
    /\ UNCHANGED <<db, registry, exclusive>>

\* The run was being cancelled when the batch arrived.
SubmitCancelling(t) ==
    /\ at[t] = "sbCancelling"
    /\ \E p \in todo[t] :
          \/ /\ Registered(t, p) /\ Signalled(t, p)
             /\ Cancel(p, mine[t][p], "rendering")
             /\ FinishClaims(t, {p})
             /\ Visited(t, p, "finalCancel", {})
          \/ /\ ~(Registered(t, p) /\ Signalled(t, p) /\ Owns(p, mine[t][p], "rendering"))
             /\ UNCHANGED <<db, claim>>
             /\ Return(t)
    /\ UNCHANGED <<authorized, permit, signalled, offered, exclusive>>

\* Mutant of SubmitCheck: a batch that lost its authorization is given up as it stands.
SubmitCheckForgetsPages(t) ==
    /\ at[t] = "sbCheck"
    /\ RevokeIfOutdated(run[t])
    /\ \/ Authorized(run[t]) /\ Start(t, "sbSlot", todo[t])
       \/ ~Authorized(run[t]) /\ Return(t)
    /\ UNCHANGED <<db, permit, claim, signalled, offered, exclusive>>

\* assert_owned_rendering_submissions and the first recheck_authorization.
SubmitCheck(t) ==
    LET owned == \A p \in todo[t] : Owns(p, mine[t][p], "rendering") /\ Registered(t, p) IN
    /\ at[t] = "sbCheck"
    /\ \/ /\ ~owned
          /\ UNCHANGED authorized
          /\ Return(t)
       \/ /\ owned
          /\ RevokeIfOutdated(run[t])
          /\ Start(t, IF Authorized(run[t]) THEN "sbSlot" ELSE "interrupted", todo[t])
    /\ UNCHANGED <<db, permit, claim, signalled, offered, exclusive>>

\* select! between the cancellation, a provider slot and its timeout.
SubmitSlot(t) ==
    /\ at[t] = "sbSlot"
    /\ \/ /\ \A p \in todo[t] : Registered(t, p)
          /\ Cardinality({u \in Task : slot[u]}) < ProviderSlots
          /\ slot' = [slot EXCEPT ![t] = TRUE]
          /\ Goto(t, "sbPage")
          /\ UNCHANGED <<run, todo, acting, mine, seen, room>>
       \/ Start(t, "interrupted", todo[t])
       \/ /\ \E p \in todo[t] : ~Registered(t, p)
          /\ Return(t)
    /\ UNCHANGED <<db, registry, offered, exclusive>>

\* One page of the staging loop: its render is invalid, its claim was cancelled, it is
\* no longer ours (the call fails as it stands), or its scratch file is written.
StagePage(t) ==
    /\ at[t] = "sbPage"
    /\ \E p \in todo[t] \ acting[t] :
          \/ /\ Fail(p, mine[t][p], "rendering")
             /\ FinishClaims(t, {p})
             /\ Visited(t, p, "sbSent", {})
          \/ /\ Registered(t, p) /\ Signalled(t, p)
             /\ Cancel(p, mine[t][p], "rendering")
             /\ FinishClaims(t, {p})
             /\ Visited(t, p, "sbSent", {})
          \/ /\ ~Registered(t, p) \/ ~Owns(p, mine[t][p], "rendering")
             /\ UNCHANGED <<db, claim>>
             /\ Return(t)
          \/ /\ Registered(t, p) /\ ~Signalled(t, p) /\ Owns(p, mine[t][p], "rendering")
             /\ acting' = [acting EXCEPT ![t] = @ \cup {p}]
             /\ Goto(t, "sbSend")
             /\ UNCHANGED <<db, claim, run, todo, mine, seen, slot, room>>
    /\ UNCHANGED <<authorized, permit, signalled, offered, exclusive>>

\* The staged page is sent unless it was cancelled meanwhile.
SendPage(t) ==
    /\ at[t] = "sbSend"
    /\ \E p \in todo[t] \cap acting[t] :
          LET next == IF todo[t] = {p} THEN "sbSent" ELSE "sbPage" IN
          \/ /\ Signalled(t, p)
             /\ TryCancel(p, mine[t][p], "rendering")
             /\ FinishClaims(t, {p})
             /\ acting' = [acting EXCEPT ![t] = @ \ {p}]
             /\ Goto(t, next)
             /\ todo' = [todo EXCEPT ![t] = @ \ {p}]
             /\ UNCHANGED <<run, mine, seen, slot, room>>
          \/ /\ ~Signalled(t, p)
             /\ ClaimSend(p, mine[t][p])
             /\ UNCHANGED claim
             /\ Start(t, next, todo[t] \ {p})
          \/ /\ ~Signalled(t, p)
             /\ ~Owns(p, mine[t][p], "rendering")
             /\ UNCHANGED <<db, claim>>
             /\ Return(t)
    /\ UNCHANGED <<authorized, permit, signalled, offered, exclusive>>

\* Nothing left to send: the call returns.  A cancelled page ends the whole batch.
SubmitSent(t) ==
    /\ at[t] = "sbSent"
    /\ \/ /\ acting[t] = {}
          /\ Return(t)
       \/ /\ Interrupted(t, acting[t])
          /\ Start(t, "cancelled", acting[t])
       \/ /\ acting[t] # {}
          /\ ~Interrupted(t, acting[t])
          /\ Start(t, "sbRecheck", {})
    /\ UNCHANGED <<db, registry, offered, exclusive>>

\* recheck_authorization and the ownership of every page, before and after the provider.
SubmitRecheck(t) ==
    LET ok == Authorized(run[t]) /\ OwnsAll(t, acting[t], "sending") IN
    /\ at[t] \in {"sbRecheck", "sbAccept"}
    /\ RevokeIfOutdated(run[t])
    /\ \/ /\ ok
          /\ IF at[t] = "sbRecheck" THEN Start(t, "sbProvider", {})
             ELSE Start(t, "sbReceive", acting[t])
       \/ /\ ~ok \/ at[t] = "sbAccept"      \* the answer does not match the request
          /\ Start(t, "failed", acting[t])
    /\ UNCHANGED <<db, permit, claim, signalled, offered, exclusive>>

-----------------------------------------------------------------------------
(* submit_rendered_batch: the provider and what follows.                    *)

\* The provider answers, fails or times out, or gives up because of the cancellation.
Analyze(t) ==
    /\ at[t] = "sbProvider"
    /\ \/ Start(t, "sbAnswer", {})
       \/ Start(t, "failed", acting[t])
       \/ Interrupted(t, acting[t]) /\ Start(t, "cancelled", acting[t])
    /\ UNCHANGED <<db, registry, offered, exclusive>>

Answered(t) ==
    /\ at[t] = "sbAnswer"
    /\ IF Interrupted(t, acting[t])
       THEN Start(t, "cancelled", acting[t])
       ELSE Start(t, "sbAccept", {})
    /\ UNCHANGED <<db, registry, offered, exclusive>>

ReceivePage(t) ==
    /\ at[t] = "sbReceive"
    /\ \E p \in todo[t] :
          \/ /\ Signalled(t, p)
             /\ TryCancel(p, mine[t][p], "sending")
             /\ Visited(t, p, "sbBarrier", acting[t])
          \/ /\ ~Signalled(t, p)
             /\ MarkReceived(p, mine[t][p])
             /\ Visited(t, p, "sbBarrier", acting[t])
          \/ /\ ~Signalled(t, p)
             /\ ~Owns(p, mine[t][p], "sending")
             /\ UNCHANGED db
             /\ Return(t)
    /\ UNCHANGED <<registry, offered, exclusive>>

\* The cancellation barrier between receipt and validation; validate_batch follows.
Barrier(t) ==
    /\ at[t] = "sbBarrier"
    /\ \E p \in todo[t], exit \in {"sbCommit", "sbInvalid"} :
          \/ /\ attempt[p] = mine[t][p] \/ ~Signalled(t, p)
             /\ \/ Signalled(t, p) /\ Cancel(p, mine[t][p], "parsing")
                \/ ~(Signalled(t, p) /\ Owns(p, mine[t][p], "parsing")) /\ UNCHANGED db
             /\ Visited(t, p, exit, acting[t])
          \/ /\ attempt[p] # mine[t][p] /\ Signalled(t, p)
             /\ UNCHANGED db
             /\ Return(t)
    /\ UNCHANGED <<registry, offered, exclusive>>

\* The whole answer is invalid.
RejectPage(t) ==
    /\ at[t] = "sbInvalid"
    /\ \E p \in todo[t] :
          \/ /\ attempt[p] = mine[t][p]
             /\ TryFail(p, mine[t][p], "parsing")
             /\ Visited(t, p, "sbFinish", {})
          \/ /\ attempt[p] # mine[t][p]
             /\ UNCHANGED db
             /\ Return(t)
    /\ UNCHANGED <<registry, offered, exclusive>>

\* One page of the answer: cancelled before or now, invalid, committed, or lost.
CommitPage(t) ==
    /\ at[t] = "sbCommit"
    /\ \E p \in todo[t] :
          \/ /\ \/ Owns(p, mine[t][p], "cancelled") /\ UNCHANGED db
                \/ Signalled(t, p) /\ Cancel(p, mine[t][p], "parsing")
                \/ ~Signalled(t, p) /\ Fail(p, mine[t][p], "parsing")
                \/ ~Signalled(t, p) /\ Commit(p, mine[t][p])
             /\ Visited(t, p, "sbFinish", {})
          \/ /\ ~Owns(p, mine[t][p], "cancelled")
             /\ ~Owns(p, mine[t][p], "parsing")
             /\ UNCHANGED db
             /\ Return(t)
    /\ UNCHANGED <<registry, offered, exclusive>>

\* finish_received_claims, and finalize_terminal_run reads the run's status.
FinishReceived(t) ==
    /\ at[t] = "sbFinish"
    /\ FinishClaims(t, acting[t])
    /\ seen' = [seen EXCEPT ![t] = runStatus[run[t]]]
    /\ Goto(t, "sbFinal")
    /\ UNCHANGED <<db, authorized, permit, signalled, offered, exclusive,
                   run, todo, acting, mine, slot, room>>

FinalizeTerminal(t) ==
    LET r == run[t] IN
    /\ at[t] = "sbFinal"
    /\ \/ Finalize(r, seen[t]) /\ FinishRun(r)
       \/ /\ \/ seen[t] \notin {"running", "paused", "cancelling"}
             \/ runStatus[r] # seen[t]
             \/ ~AllFinished(r)
          /\ UNCHANGED <<db, registry>>
    /\ Return(t)
    /\ UNCHANGED <<offered, exclusive>>

-----------------------------------------------------------------------------
(* submit_rendered_batch: its early ends.                                   *)

\* finish_interrupted_rendering_batch.
FinishInterrupted(t) ==
    /\ at[t] = "interrupted"
    /\ \E p \in todo[t] :
          LET cancelling == Signalled(t, p) \/ runStatus[run[t]] = "cancelling" IN
          \/ /\ Registered(t, p)
             /\ \/ cancelling /\ Cancel(p, mine[t][p], "rendering")
                \/ ~cancelling /\ Fail(p, mine[t][p], "rendering")
             /\ FinishClaims(t, {p})
             /\ Visited(t, p, "finalCancel", {})
          \/ /\ ~(Registered(t, p) /\ Owns(p, mine[t][p], "rendering"))
             /\ UNCHANGED <<db, claim>>
             /\ Return(t)
    /\ UNCHANGED <<authorized, permit, signalled, offered, exclusive>>

\* finish_cancelled_batch.
FinishCancelled(t) ==
    /\ at[t] = "cancelled"
    /\ \E p \in todo[t] :
          /\ TryCancel(p, mine[t][p], "sending")
          /\ FinishClaims(t, {p})
          /\ Dropped(t, p, "finalCancel", {})
    /\ UNCHANGED <<authorized, permit, signalled, offered, exclusive>>

\* Mutant of FinishFailed: only one page of the batch is failed.
FinishFailedOnce(t) ==
    /\ at[t] = "failed"
    /\ \E p \in todo[t] : TryFail(p, mine[t][p], "sending") /\ FinishClaims(t, {p})
    /\ Return(t)
    /\ UNCHANGED <<authorized, permit, signalled, offered, exclusive>>

\* fail_active_batch, which ends the call.
FinishFailed(t) ==
    /\ at[t] = "failed"
    /\ \E p \in todo[t] :
          /\ TryFail(p, mine[t][p], "sending")
          /\ FinishClaims(t, {p})
          /\ \/ /\ todo[t] = {p}
                /\ Return(t)
             \/ /\ todo[t] # {p}
                /\ Dropped(t, p, "idle", {})
    /\ UNCHANGED <<authorized, permit, signalled, offered, exclusive>>

-----------------------------------------------------------------------------
(* retry_page: the page and the permit are read first, then the row changes. *)

RetryBegin(t, p) ==
    /\ at[t] = "idle"
    /\ permit[RunOf[p]]
    /\ pageStatus[p] \in {"failed", "needs_review"}
    /\ Goto(t, "rtWrite")
    /\ run' = [run EXCEPT ![t] = RunOf[p]]
    /\ todo' = [todo EXCEPT ![t] = {p}]
    /\ mine' = [mine EXCEPT ![t][p] = attempt[p]]
    /\ seen' = [seen EXCEPT ![t] = pageStatus[p]]
    /\ UNCHANGED <<db, registry, offered, exclusive, acting, slot, room>>

RetryWrite(t) ==
    /\ at[t] = "rtWrite"
    /\ \E p \in todo[t] :
          \/ Retry(p, mine[t][p], seen[t]) /\ FinishClaims(t, {p})
          \/ /\ ~Owns(p, mine[t][p], seen[t]) \/ mine[t][p] = MaxAttempt
             /\ UNCHANGED <<db, claim>>
    /\ Return(t)
    /\ UNCHANGED <<authorized, permit, signalled, offered, exclusive>>

-----------------------------------------------------------------------------
(* The rest of the application.                                             *)

\* The source file, the provider profile or a consent changes under a binding.
BindingChanges(r) ==
    /\ authorized[r] = "yes"
    /\ authorized' = [authorized EXCEPT ![r] = "stale"]
    /\ UNCHANGED <<db, permit, claim, signalled, offered, exclusive, locals>>

\* Backup, restore, deletion and clear-all take the gate exclusively (MaintenanceGate).
EnterMaintenance ==
    /\ ~exclusive
    /\ \A r \in Run : ~permit[r]
    /\ \A t \in Task : at[t] = "idle"
    /\ exclusive' = TRUE
    /\ UNCHANGED <<db, registry, offered, locals>>

LeaveMaintenance ==
    /\ exclusive
    /\ exclusive' = FALSE
    /\ UNCHANGED <<db, registry, offered, locals>>

\* The process dies at any point; startup recovers the pages before any command runs.
Restart ==
    /\ Restarts
    /\ RecoverPages
    /\ authorized' = [r \in Run |-> "no"]
    /\ permit' = [r \in Run |-> FALSE]
    /\ claim' = NoAttempt
    /\ signalled' = {}
    /\ offered' = {}
    /\ exclusive' = FALSE
    /\ at' = [t \in Task |-> "idle"]
    /\ todo' = [t \in Task |-> {}]
    /\ acting' = [t \in Task |-> {}]
    /\ mine' = [t \in Task |-> NoAttempt]
    /\ seen' = [t \in Task |-> "absent"]
    /\ slot' = [t \in Task |-> FALSE]
    /\ room' = [t \in Task |-> 0]
    /\ UNCHANGED run

-----------------------------------------------------------------------------
\* What a call does once it has begun.
Proceed(t) ==
    \/ ClaimSelect(t) \/ ClaimPage(t) \/ RegisterClaim(t) \/ ClaimReturn(t)
    \/ ReportWrite(t)
    \/ SubmitCancelling(t) \/ SubmitCheck(t) \/ SubmitSlot(t) \/ StagePage(t)
    \/ SendPage(t) \/ SubmitSent(t) \/ SubmitRecheck(t)
    \/ Analyze(t) \/ Answered(t) \/ ReceivePage(t) \/ Barrier(t) \/ RejectPage(t)
    \/ CommitPage(t) \/ FinishReceived(t) \/ FinalizeTerminal(t)
    \/ FinishInterrupted(t) \/ FinishCancelled(t) \/ FinishFailed(t)
    \/ CancelWrite(t) \/ FinalizeCancel(t) \/ AuthorizeInsert(t) \/ RetryWrite(t)

\* What the frontend does with the claims it holds.
UseOffers(t) ==
    \/ \E c \in offered : ReportBegin(t, c)
    \/ \E B \in SUBSET offered, r \in Run : SubmitBegin(t, r, B)

\* What the user asks for.
Request(t) ==
    \/ \E r \in Run : AuthorizeBegin(t, r) \/ CancelBegin(t, r) \/ ClaimBegin(t, r)
    \/ \E p \in Page : RetryBegin(t, p)

Next ==
    \/ \E t \in Task : Proceed(t) \/ UseOffers(t) \/ Request(t)
    \/ \E r \in Run : CreateRun(r) \/ PauseRun(r) \/ ResumeRun(r) \/ RecheckRun(r)
                        \/ BindingChanges(r)
    \/ DropOffer
    \/ EnterMaintenance \/ LeaveMaintenance
    \/ Restart

Spec == Init /\ [][Next]_vars

\* The runtime polls every call to its end (provider calls and slots have timeouts),
\* and the renderer answers every claim it holds.  Users owe nothing.
FairSpec ==
    /\ Spec
    /\ \A t \in Task : WF_vars(Proceed(t))
    /\ SF_vars(\E t \in Task : UseOffers(t))

-----------------------------------------------------------------------------
(* Properties.                                                              *)

RegistryTypeOK ==
    /\ authorized \in [Run -> {"no", "yes", "stale"}]
    /\ permit \in [Run -> BOOLEAN]
    /\ claim \in [Page -> 0..MaxAttempt]
    /\ signalled \subseteq Page \X Attempt
    /\ offered \subseteq Page \X (0..MaxAttempt)
    /\ exclusive \in BOOLEAN

LocalsTypeOK ==
    /\ at \in [Task -> Location]
    /\ run \in [Task -> Run]
    /\ todo \in [Task -> SUBSET Page]
    /\ acting \in [Task -> SUBSET Page]
    /\ mine \in [Task -> [Page -> 0..MaxAttempt]]
    /\ seen \in [Task -> RunStatus \cup PageStatus]
    /\ slot \in [Task -> BOOLEAN]
    /\ room \in [Task -> 0..MaxActive]

\* The variables hold values of their kinds.
TypeOK == StateTypeOK /\ RegistryTypeOK /\ LocalsTypeOK

\* A page that is being worked on belongs to a run that holds its maintenance permit,
\* so no backup, restore or deletion can start under it: finish_run never drops the
\* permit while a page of the run is in flight, in whatever order calls finish.
ActivePagesCovered ==
    \A p \in Page : pageStatus[p] \in Working => permit[RunOf[p]]

\* While maintenance owns the gate no indexing command changes a run or a page:
\* every command that writes takes a lease first and keeps it until it returns.
MaintenanceExcludesIndexing == [][exclusive => UNCHANGED db]_vars

AtProvider == {"sbRecheck", "sbProvider", "sbAnswer", "sbAccept"}

\* Nobody takes a page away from the call whose request is at the provider, so a paid
\* answer is lost only by a decision of that call; a cancellation or a retry that
\* changed the row would discard it silently.
OwnerKeepsPages ==
    \A t \in Task : at[t] \in AtProvider => OwnsAll(t, acting[t], "sending")

\* A completed or cancelled run has no page under way, whatever commands were racing
\* with its last one (a retry may leave it a queued page, which is never claimed).
TerminalRunHasNoWorkingPage ==
    \A p \in Page : Terminal(RunOf[p]) => pageStatus[p] \notin Working

\* A page that can be claimed has no claim registered: register_claim would refuse it
\* and the page would fail each time it is retried.
QueuedPagesHaveNoClaim ==
    \A p \in Page : pageStatus[p] = "queued" => claim[p] = 0

\* The rows agree with what the calls and the claim registry believe they own,
\* whatever cancellations, retries and other batches do in between.
OwnershipIsKept == OwnerKeepsPages /\ QueuedPagesHaveNoClaim

\* A page that was sent to the provider is settled in the end, whichever way out the
\* submission takes, so that its run can finish and release its permit.
SentPagesSettle ==
    \A p \in Page : pageStatus[p] \in {"sending", "parsing"}
                     ~> pageStatus[p] \notin {"sending", "parsing"}

\* A claimed page of a live run is settled in the end if the renderer answers its claims:
\* every way out of a submission fails or cancels the pages it does not send.
ClaimsSettle ==
    \A p \in Page : pageStatus[p] = "rendering" /\ Live(RunOf[p])
                     ~> pageStatus[p] # "rendering" \/ ~Live(RunOf[p])

-----------------------------------------------------------------------------
(* What the tests and the documents say and the code does not keep: see the  *)
(* findings in README.md.                                                    *)

\* "assert_eq!(run_status, "cancelled")" (coordinator_test.rs:708): a cancellation that
\* was accepted ends with the run cancelled.
CancelReachesTerminal ==
    \A r \in Run : runStatus[r] = "cancelling" ~> runStatus[r] = "cancelled"

\* "retry one failed page without repeating successful pages" (docs/index-quality.md:7):
\* a failed page of a run that nobody cancelled can be retried, at once (the run has its
\* permit) or after the run is authorized again (it is live).
FailedPageCanBeRetried ==
    \A p \in Page : pageStatus[p] = "failed" /\ runStatus[RunOf[p]] \notin {"cancelling", "cancelled"}
                     => permit[RunOf[p]] \/ Live(RunOf[p])

\* "index_run_holds_maintenance_permit_until_cancelled_terminal_state" and its final
\* MaintenanceAvailable (coordinator_test.rs:193-229): a run that has ended holds no
\* permit, unless a call is still about to drop it.
EndedRunReleasesPermit ==
    \A r \in Run : Terminal(r) /\ (\A t \in Task : at[t] = "idle") => ~permit[r]

-----------------------------------------------------------------------------
\* Indexing keeps the ledger of attempts, see IndexLedger.
PhaseOf(r) == IF Terminal(r) THEN "closed" ELSE IF runStatus[r] = "cancelling" THEN "closing"
              ELSE "open"

EntryOf(p, a) ==
    IF a < attempt[p] THEN "over"
    ELSE IF a > attempt[p] \/ pageStatus[p] \in {"absent", "queued"} THEN "unused"
    ELSE CASE pageStatus[p] = "rendering" -> "claimed"
           [] pageStatus[p] \in {"sending", "parsing"} -> "sent"
           [] pageStatus[p] \in Committed -> "kept"
           [] OTHER -> "discarded"

Ledger == INSTANCE IndexLedger WITH
    phase <- [r \in Run |-> PhaseOf(r)],
    ledger <- [p \in Page |-> [a \in Attempt |-> EntryOf(p, a)]]
ImplementsLedger == Ledger!LedgerSpec
=============================================================================

-------------------------- MODULE IndexCoordinatorProofs --------------------------
(***************************************************************************)
(* Safety of IndexCoordinator, for any number of runs, pages and calls, and *)
(* that it implements the ledger of attempts (IndexLedger).                 *)
(*                                                                          *)
(* Beside the types, three things are kept together (Inv):                  *)
(*   RowsAreSound: a page at work has its run's permit, an ended run has    *)
(*     none, and maintenance is alone.  finish_run drops a permit only in   *)
(*     the step that finds no page unfinished and ends the run; a page is   *)
(*     claimed only in a running run, by a call that saw the permit and     *)
(*     still finds it or finds its run ended: CallsFollowTheirRun.          *)
(*   AttemptsAreSound: an attempt of a page is in the hands of a call only  *)
(*     once it has begun (HeldIsBegun), so a page that is queued, whose     *)
(*     attempt has not begun, is nobody's, and the claim of it that comes   *)
(*     next is of the claiming call alone until it is registered            *)
(*     (RegistrationIsOwn); the compare-and-set of claim_send lets one call *)
(*     send an attempt, and no other statement takes a page that is at the  *)
(*     provider from it (SentIsOwn).                                        *)
(*                                                                          *)
(* A step is seen twice: as what it does to rows (RowsMay) and runs         *)
(* (RunsMay), and as what it does to the call that takes it (StepOf).  The  *)
(* ledger follows from the first two alone.                                 *)
(*                                                                          *)
(* The last part is about PageContents, what the pages that are committed   *)
(* hold: a correction is active only over the value it was made for and a   *)
(* search finds what the user decided, because the search rows are those    *)
(* that the blocks and the corrections ask for after every transaction      *)
(* (ChunksAreDue); and an editor replaces only a text it shows, because a   *)
(* revision that the window has read is not reused while it may be sent     *)
(* (EditorIsSound).                                                         *)
(***************************************************************************)
EXTENDS IndexCoordinator, PageContents, FiniteSetTheorems, TLAPS

-----------------------------------------------------------------------------
(* Types.                                                                   *)

\* Returning resets the locals to values of their types.
LEMMA ReturnType ==
    ASSUME LocalsTypeOK, NEW t \in Task, Return(t) PROVE LocalsTypeOK'
<1>1. NoAttempt \in [Page -> 0..MaxAttempt] /\ 0 \in 0..MaxActive
    BY AttemptAssumption, LimitAssumption, SMT DEF NoAttempt
<1>2. "idle" \in Location /\ "absent" \in RunStatus \cup PageStatus
    BY DEF Location, RunStatus
<1> QED
    BY <1>1, <1>2, SMT DEF LocalsTypeOK, Return, Goto

\* So does moving on with a new loop.
LEMMA StartType ==
    ASSUME LocalsTypeOK, NEW t \in Task, NEW l \in Location, NEW S \in SUBSET Page, Start(t, l, S)
    PROVE LocalsTypeOK'
BY SMT DEF LocalsTypeOK, Start, Goto

\* So does one turn of a loop.
LEMMA VisitedType ==
    ASSUME LocalsTypeOK, NEW t \in Task, NEW p \in Page, NEW l \in Location, NEW S \in SUBSET Page,
           Visited(t, p, l, S) \/ Dropped(t, p, l, S)
    PROVE LocalsTypeOK'
<1>1. (IF todo[t] = {p} THEN l ELSE at[t]) \in Location
      /\ (IF todo[t] = {p} THEN S ELSE todo[t] \ {p}) \in SUBSET Page
      /\ acting[t] \ {p} \in SUBSET Page
    BY SMT DEF LocalsTypeOK
<1>2. PICK m \in Location : at' = [at EXCEPT ![t] = m]
    BY <1>1, Zenon DEF Visited, Dropped, Goto
<1>3. todo' \in [Task -> SUBSET Page]
    BY <1>1, SMT DEF LocalsTypeOK, Visited, Dropped
<1>4. acting' \in [Task -> SUBSET Page]
    BY <1>1, SMT DEF LocalsTypeOK, Visited, Dropped
<1> QED
    BY <1>2, <1>3, <1>4, SMT DEF LocalsTypeOK, Visited, Dropped

\* What most steps do to the locals of the task that takes them.
LocalStep(t) ==
    \/ Return(t)
    \/ \E l \in Location, S \in SUBSET Page : Start(t, l, S)
    \/ \E p \in Page, l \in Location, S \in SUBSET Page : Visited(t, p, l, S) \/ Dropped(t, p, l, S)

\* So does any of the three.
LEMMA LocalStepType ==
    ASSUME LocalsTypeOK, NEW t \in Task, LocalStep(t) PROVE LocalsTypeOK'
BY ReturnType, StartType, VisitedType, Zenon DEF LocalStep

\* Locals that do not change keep their types.
LEMMA LocalsUnchanged == ASSUME LocalsTypeOK, UNCHANGED locals PROVE LocalsTypeOK'
BY DEF LocalsTypeOK, locals

\* So does a registry that does not change.
LEMMA RegistryUnchanged ==
    ASSUME RegistryTypeOK, UNCHANGED <<registry, offered, exclusive>> PROVE RegistryTypeOK'
BY DEF RegistryTypeOK, registry

\* Setting the status of a page keeps the types of the rows.
LEMMA SetPageType ==
    ASSUME StateTypeOK, NEW p \in Page, NEW s \in PageStatus, SetPage(p, s) PROVE StateTypeOK'
BY SMT DEF StateTypeOK, SetPage

\* Setting the status of a run keeps the types of the rows.
LEMMA SetRunType ==
    ASSUME StateTypeOK, NEW r \in Run, NEW s \in RunStatus, SetRun(r, s) PROVE StateTypeOK'
BY SMT DEF StateTypeOK, SetRun

\* So do rows that do not change.
LEMMA DbUnchanged == ASSUME StateTypeOK, UNCHANGED db PROVE StateTypeOK'
BY DEF StateTypeOK, db

\* Every statement on one page.
LEMMA PageStatements ==
    ASSUME StateTypeOK, NEW p \in Page, NEW a, NEW s,
           \/ ClaimRender(p, a) \/ ClaimSend(p, a) \/ MarkReceived(p, a) \/ Commit(p, a)
           \/ Fail(p, a, s) \/ Cancel(p, a, s) \/ TryFail(p, a, s) \/ TryCancel(p, a, s)
           \/ Retry(p, a, s)
    PROVE  StateTypeOK'
<1>1. CASE Retry(p, a, s)
    BY <1>1, AttemptAssumption, SMT DEF Retry, Owns, StateTypeOK, PageStatus, Attempt
<1>2. CASE UNCHANGED db
    BY <1>2 DEF db, StateTypeOK
<1>3. CASE \E u \in PageStatus : SetPage(p, u)
    BY <1>3, SetPageType
<1> QED
    BY <1>1, <1>2, <1>3, SMT DEF ClaimRender, ClaimSend, MarkReceived, Commit, Fail, Cancel, TryFail,
        TryCancel,
        PageStatus, Committed

\* Every statement on a run.
LEMMA RunStatements ==
    ASSUME StateTypeOK, NEW r \in Run, NEW s,
           \/ InsertRun(r) \/ Pause(r) \/ Resume(r) \/ RequestCancel(r, s) \/ Finalize(r, s)
    PROVE  StateTypeOK'
<1>1. CASE InsertRun(r) \/ RequestCancel(r, s)
    BY <1>1, SMT DEF InsertRun, RequestCancel, StateTypeOK, PageStatus, RunStatus
<1>2. CASE \E u \in RunStatus : SetRun(r, u)
    BY <1>2, SetRunType
<1> QED
    BY <1>1, <1>2, SMT DEF Pause, Resume, Finalize, FinalStatus, RunStatus

\* finish_claim leaves claims.
LEMMA FinishClaimsType ==
    ASSUME RegistryTypeOK, NEW t \in Task, NEW S, FinishClaims(t, S)
    PROVE  claim' \in [Page -> 0..MaxAttempt]
BY AttemptAssumption, SMT DEF RegistryTypeOK, FinishClaims

\* finish_run leaves a registry.
LEMMA FinishRunType ==
    ASSUME RegistryTypeOK, NEW r \in Run, FinishRun(r), UNCHANGED <<offered, exclusive>>
    PROVE  RegistryTypeOK'
BY SMT DEF RegistryTypeOK, FinishRun, Revoke

\* ClaimSelect keeps the types.
LEMMA ClaimSelectType == ASSUME TypeOK, NEW t \in Task, ClaimSelect(t) PROVE TypeOK'
<1> USE DEF TypeOK
<1>1. run[t] \in Run /\ todo[t] \subseteq Page /\ acting[t] \subseteq Page
    BY DEF LocalsTypeOK
<1>2. StateTypeOK'
    BY <1>1, PageStatements, RunStatements, DbUnchanged, SMT DEF ClaimSelect
<1>3. RegistryTypeOK'
    BY <1>1, FinishClaimsType, FinishRunType, SMT DEF ClaimSelect, RegistryTypeOK, registry, Revoke,
        RevokeIfOutdated
<1>4. LocalsTypeOK'
    <2>1. CASE Queue(run[t]) = {}
        BY <2>1, LocalStepType, SMT DEF ClaimSelect, LocalStep
    <2>2. CASE Queue(run[t]) # {}
        <3>1. PICK S \in SUBSET Queue(run[t]) :
                 /\ todo' = [todo EXCEPT ![t] = S]
                 /\ mine' = [mine EXCEPT ![t] = [p \in Page |-> IF p \in S THEN attempt[p] ELSE 0]]
            BY <2>2 DEF ClaimSelect
        <3>2. /\ S \in SUBSET Page
              /\ [p \in Page |-> IF p \in S THEN attempt[p] ELSE 0] \in [Page -> 0..MaxAttempt]
            BY AttemptAssumption, SMT DEF Queue, PagesOf, StateTypeOK, Attempt
        <3> QED
            BY <2>2, <3>1, <3>2, LimitAssumption, SMTT(30) DEF ClaimSelect, Goto, Location, LocalsTypeOK
    <2> QED BY <2>1, <2>2
<1> QED BY <1>2, <1>3, <1>4

\* ClaimPage keeps the types.
LEMMA ClaimPageType == ASSUME TypeOK, NEW t \in Task, ClaimPage(t) PROVE TypeOK'
<1> USE DEF TypeOK
<1>1. run[t] \in Run /\ todo[t] \subseteq Page /\ acting[t] \subseteq Page
    BY DEF LocalsTypeOK
<1>2. StateTypeOK'
    BY <1>1, PageStatements, RunStatements, DbUnchanged, SMT DEF ClaimPage
<1>3. RegistryTypeOK'
    BY <1>1, FinishClaimsType, FinishRunType, SMT DEF ClaimPage, RegistryTypeOK, registry, Revoke,
        RevokeIfOutdated
<1>4. LocalsTypeOK'
    <2>1. CASE LocalStep(t)
        BY <2>1, LocalStepType
    <2>2. CASE /\ \E p \in todo[t] : acting' = [acting EXCEPT ![t] = @ \cup {p}]
               /\ Goto(t, "clRegister")
               /\ UNCHANGED <<run, todo, mine, seen, slot, room>>
        BY <1>1, <2>2, SMT DEF LocalsTypeOK, Goto, Location
    <2> QED BY <1>1, <2>1, <2>2, SMT DEF ClaimPage, LocalStep, Location
<1> QED BY <1>2, <1>3, <1>4

\* RegisterClaim keeps the types.
LEMMA RegisterClaimType == ASSUME TypeOK, NEW t \in Task, RegisterClaim(t) PROVE TypeOK'
<1> USE DEF TypeOK
<1>1. run[t] \in Run /\ todo[t] \subseteq Page /\ acting[t] \subseteq Page
    BY DEF LocalsTypeOK
<1>2. StateTypeOK'
    BY <1>1, PageStatements, RunStatements, DbUnchanged, SMT DEF RegisterClaim
<1>3. RegistryTypeOK'
    <2>1. UNCHANGED claim \/ \E p \in Page : claim' = [claim EXCEPT ![p] = mine[t][p]]
        BY <1>1 DEF RegisterClaim
    <2>2. \A p \in Page : mine[t][p] \in 0..MaxAttempt
        BY DEF LocalsTypeOK
    <2>3. claim' \in [Page -> 0..MaxAttempt]
        BY <2>1, <2>2 DEF RegistryTypeOK
    <2> QED BY <2>3 DEF RegisterClaim, RegistryTypeOK
<1>4. LocalsTypeOK'
    <2>1. PICK p \in todo[t] \cap acting[t] :
             /\ Goto(t, IF todo[t] = {p} THEN "clReturn" ELSE "clPage")
             /\ todo' = [todo EXCEPT ![t] = @ \ {p}]
             /\ UNCHANGED acting \/ acting' = [acting EXCEPT ![t] = @ \ {p}]
             /\ UNCHANGED <<run, mine, seen, slot, room>>
        BY DEF RegisterClaim
    <2> QED BY <1>1, <2>1, SMT DEF LocalsTypeOK, Goto, Location
<1> QED BY <1>2, <1>3, <1>4

\* ClaimReturn keeps the types.
LEMMA ClaimReturnType == ASSUME TypeOK, NEW t \in Task, ClaimReturn(t) PROVE TypeOK'
<1> USE DEF TypeOK
<1>1. run[t] \in Run /\ todo[t] \subseteq Page /\ acting[t] \subseteq Page
    BY DEF LocalsTypeOK
<1>2. StateTypeOK'
    BY <1>1, PageStatements, RunStatements, DbUnchanged, SMT DEF ClaimReturn
<1>3. RegistryTypeOK'
    <2>1. \A p \in acting[t] : <<p, mine[t][p]>> \in Page \X (0..MaxAttempt)
        BY <1>1, SMT DEF LocalsTypeOK
    <2> QED BY <2>1, SMT DEF ClaimReturn, RegistryTypeOK, registry
<1>4. LocalsTypeOK'
    BY LocalStepType, <1>1, SMT DEF ClaimReturn, LocalStep, Location
<1> QED BY <1>2, <1>3, <1>4

\* ReportWrite keeps the types.
LEMMA ReportWriteType == ASSUME TypeOK, NEW t \in Task, ReportWrite(t) PROVE TypeOK'
<1> USE DEF TypeOK
<1>1. run[t] \in Run /\ todo[t] \subseteq Page /\ acting[t] \subseteq Page
    BY DEF LocalsTypeOK
<1>2. StateTypeOK'
    BY <1>1, PageStatements, RunStatements, DbUnchanged, SMT DEF ReportWrite
<1>3. RegistryTypeOK'
    BY <1>1, FinishClaimsType, FinishRunType, SMT DEF ReportWrite, RegistryTypeOK, registry, Revoke,
        RevokeIfOutdated
<1>4. LocalsTypeOK'
    BY LocalStepType, <1>1, SMT DEF ReportWrite, LocalStep, Location
<1> QED BY <1>2, <1>3, <1>4

\* SubmitCancelling keeps the types.
LEMMA SubmitCancellingType == ASSUME TypeOK, NEW t \in Task, SubmitCancelling(t) PROVE TypeOK'
<1> USE DEF TypeOK
<1>1. run[t] \in Run /\ todo[t] \subseteq Page /\ acting[t] \subseteq Page
    BY DEF LocalsTypeOK
<1>2. StateTypeOK'
    BY <1>1, PageStatements, RunStatements, DbUnchanged, SMT DEF SubmitCancelling
<1>3. RegistryTypeOK'
    BY <1>1, FinishClaimsType, FinishRunType, SMT DEF SubmitCancelling, RegistryTypeOK, registry,
        Revoke, RevokeIfOutdated
<1>4. LocalsTypeOK'
    BY LocalStepType, <1>1, SMT DEF SubmitCancelling, LocalStep, Location
<1> QED BY <1>2, <1>3, <1>4

\* SubmitCheck keeps the types.
LEMMA SubmitCheckType == ASSUME TypeOK, NEW t \in Task, SubmitCheck(t) PROVE TypeOK'
<1> USE DEF TypeOK
<1>1. run[t] \in Run /\ todo[t] \subseteq Page /\ acting[t] \subseteq Page
    BY DEF LocalsTypeOK
<1>2. StateTypeOK'
    BY <1>1, PageStatements, RunStatements, DbUnchanged, SMT DEF SubmitCheck
<1>3. RegistryTypeOK'
    BY <1>1, FinishClaimsType, FinishRunType, SMT DEF SubmitCheck, RegistryTypeOK, registry, Revoke,
        RevokeIfOutdated
<1>4. LocalsTypeOK'
    BY LocalStepType, <1>1, SMT DEF SubmitCheck, LocalStep, Location
<1> QED BY <1>2, <1>3, <1>4

\* SubmitSlot keeps the types.
LEMMA SubmitSlotType == ASSUME TypeOK, NEW t \in Task, SubmitSlot(t) PROVE TypeOK'
<1> USE DEF TypeOK
<1>1. run[t] \in Run /\ todo[t] \subseteq Page /\ acting[t] \subseteq Page
    BY DEF LocalsTypeOK
<1>2. StateTypeOK'
    BY <1>1, PageStatements, RunStatements, DbUnchanged, SMT DEF SubmitSlot
<1>3. RegistryTypeOK'
    BY <1>1, FinishClaimsType, FinishRunType, SMT DEF SubmitSlot, RegistryTypeOK, registry, Revoke,
        RevokeIfOutdated
<1>4. LocalsTypeOK'
    <2>1. CASE LocalStep(t)
        BY <2>1, LocalStepType
    <2>2. CASE /\ slot' = [slot EXCEPT ![t] = TRUE]
               /\ Goto(t, "sbPage")
               /\ UNCHANGED <<run, todo, acting, mine, seen, room>>
        BY <2>2, SMT DEF LocalsTypeOK, Goto, Location
    <2> QED BY <1>1, <2>1, <2>2, SMT DEF SubmitSlot, LocalStep, Location
<1> QED BY <1>2, <1>3, <1>4

\* StagePage keeps the types.
LEMMA StagePageType == ASSUME TypeOK, NEW t \in Task, StagePage(t) PROVE TypeOK'
<1> USE DEF TypeOK
<1>1. run[t] \in Run /\ todo[t] \subseteq Page /\ acting[t] \subseteq Page
    BY DEF LocalsTypeOK
<1>2. StateTypeOK'
    BY <1>1, PageStatements, RunStatements, DbUnchanged, SMT DEF StagePage
<1>3. RegistryTypeOK'
    BY <1>1, FinishClaimsType, FinishRunType, SMT DEF StagePage, RegistryTypeOK, registry, Revoke,
        RevokeIfOutdated
<1>4. LocalsTypeOK'
    <2>1. CASE LocalStep(t)
        BY <2>1, LocalStepType
    <2>2. CASE /\ \E p \in todo[t] : acting' = [acting EXCEPT ![t] = @ \cup {p}]
               /\ Goto(t, "sbSend")
               /\ UNCHANGED <<run, todo, mine, seen, slot, room>>
        BY <1>1, <2>2, SMT DEF LocalsTypeOK, Goto, Location
    <2> QED BY <1>1, <2>1, <2>2, SMT DEF StagePage, LocalStep, Location
<1> QED BY <1>2, <1>3, <1>4

\* SendPage keeps the types.
LEMMA SendPageType == ASSUME TypeOK, NEW t \in Task, SendPage(t) PROVE TypeOK'
<1> USE DEF TypeOK
<1>1. run[t] \in Run /\ todo[t] \subseteq Page /\ acting[t] \subseteq Page
    BY DEF LocalsTypeOK
<1>2. StateTypeOK'
    BY <1>1, PageStatements, RunStatements, DbUnchanged, SMT DEF SendPage
<1>3. RegistryTypeOK'
    BY <1>1, FinishClaimsType, FinishRunType, SMT DEF SendPage, RegistryTypeOK, registry, Revoke,
        RevokeIfOutdated
<1>4. LocalsTypeOK'
    <2>1. CASE LocalStep(t)
        BY <2>1, LocalStepType
    <2>2. CASE /\ \E p \in todo[t] : /\ acting' = [acting EXCEPT ![t] = @ \ {p}]
                                     /\ todo' = [todo EXCEPT ![t] = @ \ {p}]
                                     /\ Goto(t, IF todo[t] = {p} THEN "sbSent" ELSE "sbPage")
               /\ UNCHANGED <<run, mine, seen, slot, room>>
        BY <1>1, <2>2, SMT DEF LocalsTypeOK, Goto, Location
    <2> QED BY <1>1, <2>1, <2>2, SMT DEF SendPage, LocalStep, Location
<1> QED BY <1>2, <1>3, <1>4

\* SubmitSent keeps the types.
LEMMA SubmitSentType == ASSUME TypeOK, NEW t \in Task, SubmitSent(t) PROVE TypeOK'
<1> USE DEF TypeOK
<1>1. run[t] \in Run /\ todo[t] \subseteq Page /\ acting[t] \subseteq Page
    BY DEF LocalsTypeOK
<1>2. StateTypeOK'
    BY <1>1, PageStatements, RunStatements, DbUnchanged, SMT DEF SubmitSent
<1>3. RegistryTypeOK'
    BY <1>1, FinishClaimsType, FinishRunType, SMT DEF SubmitSent, RegistryTypeOK, registry, Revoke,
        RevokeIfOutdated
<1>4. LocalsTypeOK'
    BY LocalStepType, <1>1, SMT DEF SubmitSent, LocalStep, Location
<1> QED BY <1>2, <1>3, <1>4

\* SubmitRecheck keeps the types.
LEMMA SubmitRecheckType == ASSUME TypeOK, NEW t \in Task, SubmitRecheck(t) PROVE TypeOK'
<1> USE DEF TypeOK
<1>1. run[t] \in Run /\ todo[t] \subseteq Page /\ acting[t] \subseteq Page
    BY DEF LocalsTypeOK
<1>2. StateTypeOK'
    BY <1>1, PageStatements, RunStatements, DbUnchanged, SMT DEF SubmitRecheck
<1>3. RegistryTypeOK'
    BY <1>1, FinishClaimsType, FinishRunType, SMT DEF SubmitRecheck, RegistryTypeOK, registry, Revoke,
        RevokeIfOutdated
<1>4. LocalsTypeOK'
    BY LocalStepType, <1>1, SMT DEF SubmitRecheck, LocalStep, Location
<1> QED BY <1>2, <1>3, <1>4

\* Analyze keeps the types.
LEMMA AnalyzeType == ASSUME TypeOK, NEW t \in Task, Analyze(t) PROVE TypeOK'
<1> USE DEF TypeOK
<1>1. run[t] \in Run /\ todo[t] \subseteq Page /\ acting[t] \subseteq Page
    BY DEF LocalsTypeOK
<1>2. StateTypeOK'
    BY <1>1, PageStatements, RunStatements, DbUnchanged, SMT DEF Analyze
<1>3. RegistryTypeOK'
    BY <1>1, FinishClaimsType, FinishRunType, SMT DEF Analyze, RegistryTypeOK, registry, Revoke,
        RevokeIfOutdated
<1>4. LocalsTypeOK'
    BY LocalStepType, <1>1, SMT DEF Analyze, LocalStep, Location
<1> QED BY <1>2, <1>3, <1>4

\* Answered keeps the types.
LEMMA AnsweredType == ASSUME TypeOK, NEW t \in Task, Answered(t) PROVE TypeOK'
<1> USE DEF TypeOK
<1>1. run[t] \in Run /\ todo[t] \subseteq Page /\ acting[t] \subseteq Page
    BY DEF LocalsTypeOK
<1>2. StateTypeOK'
    BY <1>1, PageStatements, RunStatements, DbUnchanged, SMT DEF Answered
<1>3. RegistryTypeOK'
    BY <1>1, FinishClaimsType, FinishRunType, SMT DEF Answered, RegistryTypeOK, registry, Revoke,
        RevokeIfOutdated
<1>4. LocalsTypeOK'
    BY LocalStepType, <1>1, SMT DEF Answered, LocalStep, Location
<1> QED BY <1>2, <1>3, <1>4

\* ReceivePage keeps the types.
LEMMA ReceivePageType == ASSUME TypeOK, NEW t \in Task, ReceivePage(t) PROVE TypeOK'
<1> USE DEF TypeOK
<1>1. run[t] \in Run /\ todo[t] \subseteq Page /\ acting[t] \subseteq Page
    BY DEF LocalsTypeOK
<1>2. StateTypeOK'
    BY <1>1, PageStatements, RunStatements, DbUnchanged, SMT DEF ReceivePage
<1>3. RegistryTypeOK'
    BY <1>1, FinishClaimsType, FinishRunType, SMT DEF ReceivePage, RegistryTypeOK, registry, Revoke,
        RevokeIfOutdated
<1>4. LocalsTypeOK'
    BY LocalStepType, <1>1, SMT DEF ReceivePage, LocalStep, Location
<1> QED BY <1>2, <1>3, <1>4

\* Barrier keeps the types.
LEMMA BarrierType == ASSUME TypeOK, NEW t \in Task, Barrier(t) PROVE TypeOK'
<1> USE DEF TypeOK
<1>1. run[t] \in Run /\ todo[t] \subseteq Page /\ acting[t] \subseteq Page
    BY DEF LocalsTypeOK
<1>2. StateTypeOK'
    BY <1>1, PageStatements, RunStatements, DbUnchanged, SMT DEF Barrier
<1>3. RegistryTypeOK'
    BY <1>1, FinishClaimsType, FinishRunType, SMT DEF Barrier, RegistryTypeOK, registry, Revoke,
        RevokeIfOutdated
<1>4. LocalsTypeOK'
    BY LocalStepType, <1>1, SMT DEF Barrier, LocalStep, Location
<1> QED BY <1>2, <1>3, <1>4

\* RejectPage keeps the types.
LEMMA RejectPageType == ASSUME TypeOK, NEW t \in Task, RejectPage(t) PROVE TypeOK'
<1> USE DEF TypeOK
<1>1. run[t] \in Run /\ todo[t] \subseteq Page /\ acting[t] \subseteq Page
    BY DEF LocalsTypeOK
<1>2. StateTypeOK'
    BY <1>1, PageStatements, RunStatements, DbUnchanged, SMT DEF RejectPage
<1>3. RegistryTypeOK'
    BY <1>1, FinishClaimsType, FinishRunType, SMT DEF RejectPage, RegistryTypeOK, registry, Revoke,
        RevokeIfOutdated
<1>4. LocalsTypeOK'
    BY LocalStepType, <1>1, SMT DEF RejectPage, LocalStep, Location
<1> QED BY <1>2, <1>3, <1>4

\* CommitPage keeps the types.
LEMMA CommitPageType == ASSUME TypeOK, NEW t \in Task, CommitPage(t) PROVE TypeOK'
<1> USE DEF TypeOK
<1>1. run[t] \in Run /\ todo[t] \subseteq Page /\ acting[t] \subseteq Page
    BY DEF LocalsTypeOK
<1>2. StateTypeOK'
    BY <1>1, PageStatements, RunStatements, DbUnchanged, SMT DEF CommitPage
<1>3. RegistryTypeOK'
    BY <1>1, FinishClaimsType, FinishRunType, SMT DEF CommitPage, RegistryTypeOK, registry, Revoke,
        RevokeIfOutdated
<1>4. LocalsTypeOK'
    BY LocalStepType, <1>1, SMT DEF CommitPage, LocalStep, Location
<1> QED BY <1>2, <1>3, <1>4

\* FinishReceived keeps the types.
LEMMA FinishReceivedType == ASSUME TypeOK, NEW t \in Task, FinishReceived(t) PROVE TypeOK'
<1> USE DEF TypeOK
<1>1. run[t] \in Run /\ todo[t] \subseteq Page /\ acting[t] \subseteq Page
    BY DEF LocalsTypeOK
<1>2. StateTypeOK'
    BY <1>1, PageStatements, RunStatements, DbUnchanged, SMT DEF FinishReceived
<1>3. RegistryTypeOK'
    BY <1>1, FinishClaimsType, FinishRunType, SMT DEF FinishReceived, RegistryTypeOK, registry, Revoke,
        RevokeIfOutdated
<1>4. LocalsTypeOK'
    BY <1>1, SMT DEF FinishReceived, LocalsTypeOK, StateTypeOK, Goto, Location
<1> QED BY <1>2, <1>3, <1>4

\* FinalizeTerminal keeps the types.
LEMMA FinalizeTerminalType == ASSUME TypeOK, NEW t \in Task, FinalizeTerminal(t) PROVE TypeOK'
<1> USE DEF TypeOK
<1>1. run[t] \in Run /\ todo[t] \subseteq Page /\ acting[t] \subseteq Page
    BY DEF LocalsTypeOK
<1>2. StateTypeOK'
    BY <1>1, PageStatements, RunStatements, DbUnchanged, SMT DEF FinalizeTerminal
<1>3. RegistryTypeOK'
    BY <1>1, FinishClaimsType, FinishRunType, SMT DEF FinalizeTerminal, RegistryTypeOK, registry,
        Revoke, RevokeIfOutdated
<1>4. LocalsTypeOK'
    BY LocalStepType, <1>1, SMT DEF FinalizeTerminal, LocalStep, Location
<1> QED BY <1>2, <1>3, <1>4

\* FinishInterrupted keeps the types.
LEMMA FinishInterruptedType == ASSUME TypeOK, NEW t \in Task, FinishInterrupted(t) PROVE TypeOK'
<1> USE DEF TypeOK
<1>1. run[t] \in Run /\ todo[t] \subseteq Page /\ acting[t] \subseteq Page
    BY DEF LocalsTypeOK
<1>2. StateTypeOK'
    BY <1>1, PageStatements, RunStatements, DbUnchanged, SMT DEF FinishInterrupted
<1>3. RegistryTypeOK'
    BY <1>1, FinishClaimsType, FinishRunType, SMT DEF FinishInterrupted, RegistryTypeOK, registry,
        Revoke, RevokeIfOutdated
<1>4. LocalsTypeOK'
    BY LocalStepType, <1>1, SMT DEF FinishInterrupted, LocalStep, Location
<1> QED BY <1>2, <1>3, <1>4

\* FinishCancelled keeps the types.
LEMMA FinishCancelledType == ASSUME TypeOK, NEW t \in Task, FinishCancelled(t) PROVE TypeOK'
<1> USE DEF TypeOK
<1>1. run[t] \in Run /\ todo[t] \subseteq Page /\ acting[t] \subseteq Page
    BY DEF LocalsTypeOK
<1>2. StateTypeOK'
    BY <1>1, PageStatements, RunStatements, DbUnchanged, SMT DEF FinishCancelled
<1>3. RegistryTypeOK'
    BY <1>1, FinishClaimsType, FinishRunType, SMT DEF FinishCancelled, RegistryTypeOK, registry,
        Revoke, RevokeIfOutdated
<1>4. LocalsTypeOK'
    BY LocalStepType, <1>1, SMT DEF FinishCancelled, LocalStep, Location
<1> QED BY <1>2, <1>3, <1>4

\* FinishFailed keeps the types.
LEMMA FinishFailedType == ASSUME TypeOK, NEW t \in Task, FinishFailed(t) PROVE TypeOK'
<1> USE DEF TypeOK
<1>1. run[t] \in Run /\ todo[t] \subseteq Page /\ acting[t] \subseteq Page
    BY DEF LocalsTypeOK
<1>2. StateTypeOK'
    BY <1>1, PageStatements, RunStatements, DbUnchanged, SMT DEF FinishFailed
<1>3. RegistryTypeOK'
    BY <1>1, FinishClaimsType, FinishRunType, SMT DEF FinishFailed, RegistryTypeOK, registry, Revoke,
        RevokeIfOutdated
<1>4. LocalsTypeOK'
    BY LocalStepType, <1>1, SMT DEF FinishFailed, LocalStep, Location
<1> QED BY <1>2, <1>3, <1>4

\* CancelWrite keeps the types.
LEMMA CancelWriteType == ASSUME TypeOK, NEW t \in Task, CancelWrite(t) PROVE TypeOK'
<1> USE DEF TypeOK
<1>1. run[t] \in Run /\ todo[t] \subseteq Page /\ acting[t] \subseteq Page
    BY DEF LocalsTypeOK
<1>2. StateTypeOK'
    BY <1>1, PageStatements, RunStatements, DbUnchanged, SMT DEF CancelWrite
<1>3. RegistryTypeOK'
    BY <1>1, FinishClaimsType, FinishRunType, SMT DEF CancelWrite, RegistryTypeOK, registry, Revoke,
        RevokeIfOutdated
<1>4. LocalsTypeOK'
    BY LocalStepType, <1>1, SMT DEF CancelWrite, LocalStep, Location
<1> QED BY <1>2, <1>3, <1>4

\* FinalizeCancel keeps the types.
LEMMA FinalizeCancelType == ASSUME TypeOK, NEW t \in Task, FinalizeCancel(t) PROVE TypeOK'
<1> USE DEF TypeOK
<1>1. run[t] \in Run /\ todo[t] \subseteq Page /\ acting[t] \subseteq Page
    BY DEF LocalsTypeOK
<1>2. StateTypeOK'
    BY <1>1, PageStatements, RunStatements, DbUnchanged, SMT DEF FinalizeCancel
<1>3. RegistryTypeOK'
    BY <1>1, FinishClaimsType, FinishRunType, SMT DEF FinalizeCancel, RegistryTypeOK, registry, Revoke,
        RevokeIfOutdated
<1>4. LocalsTypeOK'
    BY LocalStepType, <1>1, SMT DEF FinalizeCancel, LocalStep, Location
<1> QED BY <1>2, <1>3, <1>4

\* AuthorizeInsert keeps the types.
LEMMA AuthorizeInsertType == ASSUME TypeOK, NEW t \in Task, AuthorizeInsert(t) PROVE TypeOK'
<1> USE DEF TypeOK
<1>1. run[t] \in Run /\ todo[t] \subseteq Page /\ acting[t] \subseteq Page
    BY DEF LocalsTypeOK
<1>2. StateTypeOK'
    BY <1>1, PageStatements, RunStatements, DbUnchanged, SMT DEF AuthorizeInsert
<1>3. RegistryTypeOK'
    <2>1. permit' = permit \/ permit' = [permit EXCEPT ![run[t]] = TRUE]
        BY Zenon DEF AuthorizeInsert
    <2>2. PICK u \in {"yes", authorized[run[t]]} : authorized' = [authorized EXCEPT ![run[t]] = u]
        BY Zenon DEF AuthorizeInsert
    <2>3. permit' \in [Run -> BOOLEAN]
        <3>1. permit \in [Run -> BOOLEAN]
            BY DEF RegistryTypeOK
        <3> QED BY <1>1, <2>1, <3>1
    <2>4. authorized' \in [Run -> {"no", "yes", "stale"}]
        BY <1>1, <2>2, SMT DEF RegistryTypeOK
    <2> QED BY <2>3, <2>4 DEF AuthorizeInsert, RegistryTypeOK
<1>4. LocalsTypeOK'
    BY LocalStepType, <1>1, SMT DEF AuthorizeInsert, LocalStep, Location
<1> QED BY <1>2, <1>3, <1>4

\* RetryWrite keeps the types.
LEMMA RetryWriteType == ASSUME TypeOK, NEW t \in Task, RetryWrite(t) PROVE TypeOK'
<1> USE DEF TypeOK
<1>1. run[t] \in Run /\ todo[t] \subseteq Page /\ acting[t] \subseteq Page
    BY DEF LocalsTypeOK
<1>2. StateTypeOK'
    BY <1>1, PageStatements, RunStatements, DbUnchanged, SMT DEF RetryWrite
<1>3. RegistryTypeOK'
    BY <1>1, FinishClaimsType, FinishRunType, SMT DEF RetryWrite, RegistryTypeOK, registry, Revoke,
        RevokeIfOutdated
<1>4. LocalsTypeOK'
    BY LocalStepType, <1>1, SMT DEF RetryWrite, LocalStep, Location
<1> QED BY <1>2, <1>3, <1>4

\* CreateRun keeps the types.
LEMMA CreateRunType == ASSUME TypeOK, NEW r \in Run, CreateRun(r) PROVE TypeOK'
<1>1. StateTypeOK'
    BY RunStatements DEF TypeOK, CreateRun
<1>2. RegistryTypeOK'
    BY SMT DEF TypeOK, RegistryTypeOK, CreateRun
<1>3. LocalsTypeOK'
    BY LocalsUnchanged DEF TypeOK, CreateRun
<1> QED BY <1>1, <1>2, <1>3 DEF TypeOK

\* pause_run and resume_run keep the types.
LEMMA PauseResumeType == ASSUME TypeOK, NEW r \in Run, PauseRun(r) \/ ResumeRun(r) PROVE TypeOK'
<1>1. StateTypeOK'
    BY RunStatements DEF TypeOK, PauseRun, ResumeRun
<1>2. RegistryTypeOK'
    BY RegistryUnchanged DEF TypeOK, PauseRun, ResumeRun
<1>3. LocalsTypeOK'
    BY LocalsUnchanged DEF TypeOK, PauseRun, ResumeRun
<1> QED BY <1>1, <1>2, <1>3 DEF TypeOK

\* Rechecking a run and an outdated binding keep the types.
LEMMA RunRegistryType ==
    ASSUME TypeOK, NEW r \in Run, RecheckRun(r) \/ BindingChanges(r) PROVE TypeOK'
<1>1. StateTypeOK'
    BY DbUnchanged DEF TypeOK, RecheckRun, BindingChanges
<1>2. RegistryTypeOK'
    BY SMT DEF TypeOK, RegistryTypeOK, RecheckRun, BindingChanges, Revoke
<1>3. LocalsTypeOK'
    BY LocalsUnchanged DEF TypeOK, RecheckRun, BindingChanges
<1> QED BY <1>1, <1>2, <1>3 DEF TypeOK

\* AuthorizeBegin keeps the types.
LEMMA AuthorizeBeginType ==
    ASSUME TypeOK, NEW t \in Task, NEW r \in Run, AuthorizeBegin(t, r) PROVE TypeOK'
BY DbUnchanged, SMT DEF TypeOK, AuthorizeBegin, RegistryTypeOK, LocalsTypeOK, registry, Goto, Location

\* CancelBegin keeps the types.
LEMMA CancelBeginType ==
    ASSUME TypeOK, NEW t \in Task, NEW r \in Run, CancelBegin(t, r) PROVE TypeOK'
<1>1. ClaimsOf(r) \subseteq Page \X Attempt
    BY AttemptAssumption, SMT DEF ClaimsOf, PagesOf, Attempt, TypeOK, RegistryTypeOK
<1>2. LocalsTypeOK'
    BY SMT DEF TypeOK, CancelBegin, StateTypeOK, LocalsTypeOK, Goto, Location
<1> QED
    BY <1>1, <1>2, DbUnchanged, SMT DEF TypeOK, CancelBegin, RegistryTypeOK

\* ClaimBegin keeps the types.
LEMMA ClaimBeginType ==
    ASSUME TypeOK, NEW t \in Task, NEW r \in Run, ClaimBegin(t, r) PROVE TypeOK'
<1>1. Cardinality(InFlight) \in Nat
    BY RunAssumption, FS_Subset, FS_CardinalityType DEF InFlight
<1>2. MaxActive - Cardinality(InFlight) \in 0..MaxActive
    BY <1>1, LimitAssumption, SMT DEF ClaimBegin
<1> QED
    BY <1>2, DbUnchanged, SMT DEF TypeOK, ClaimBegin, RegistryTypeOK, LocalsTypeOK, registry, Goto,
        Location

\* RetryBegin keeps the types.
LEMMA RetryBeginType ==
    ASSUME TypeOK, NEW t \in Task, NEW p \in Page, RetryBegin(t, p) PROVE TypeOK'
<1>1. RunOf[p] \in Run /\ attempt[p] \in 0..MaxAttempt /\ pageStatus[p] \in PageStatus
    BY RunAssumption, AttemptAssumption, SMT DEF TypeOK, StateTypeOK, Attempt
<1>2. mine' \in [Task -> [Page -> 0..MaxAttempt]]
    BY <1>1, SMT DEF TypeOK, LocalsTypeOK, RetryBegin
<1> QED
    BY <1>1, <1>2, DbUnchanged, SMT DEF TypeOK, RetryBegin, RegistryTypeOK, LocalsTypeOK, registry,
        Goto, Location

\* ReportBegin keeps the types.
LEMMA ReportBeginType ==
    ASSUME TypeOK, NEW t \in Task, NEW c \in offered, ReportBegin(t, c) PROVE TypeOK'
<1>1. c[1] \in Page /\ c[2] \in 0..MaxAttempt /\ RunOf[c[1]] \in Run
    BY RunAssumption, SMT DEF TypeOK, RegistryTypeOK
<1>2. StateTypeOK'
    BY DbUnchanged DEF TypeOK, ReportBegin
<1>3. RegistryTypeOK'
    BY SMT DEF TypeOK, RegistryTypeOK, ReportBegin, registry
<1>4. LocalsTypeOK'
    <2>1. CASE UNCHANGED locals
        BY <2>1, LocalsUnchanged DEF TypeOK
    <2>2. CASE ~UNCHANGED locals
        <3> DEFINE p == c[1]
                   status == IF runStatus[RunOf[p]] = "cancelling" /\ c \in signalled
                             THEN "cancelling" ELSE "running"
        <3>1. /\ at' = [at EXCEPT ![t] = "rpWrite"]
              /\ run' = [run EXCEPT ![t] = RunOf[p]]
              /\ todo' = [todo EXCEPT ![t] = {p}]
              /\ mine' = [mine EXCEPT ![t][p] = c[2]]
              /\ seen' = [seen EXCEPT ![t] = status]
              /\ UNCHANGED <<acting, slot, room>>
            BY <2>2 DEF ReportBegin, Goto, locals
        <3>2. status \in RunStatus
            BY DEF RunStatus
        <3>3. mine' \in [Task -> [Page -> 0..MaxAttempt]]
            BY <1>1, <3>1, SMT DEF TypeOK, LocalsTypeOK
        <3> HIDE DEF status
        <3> QED
            BY <1>1, <3>1, <3>2, <3>3, SMT DEF TypeOK, LocalsTypeOK, Location
    <2> QED BY <2>1, <2>2
<1> QED BY <1>2, <1>3, <1>4 DEF TypeOK

\* SubmitBegin keeps the types.
LEMMA SubmitBeginType ==
    ASSUME TypeOK, NEW t \in Task, NEW r \in Run, NEW B \in SUBSET offered, SubmitBegin(t, r, B)
    PROVE  TypeOK'
<1>0. SUFFICES LocalsTypeOK'
    BY DbUnchanged, SMT DEF TypeOK, SubmitBegin, RegistryTypeOK, registry
<1>1. CASE UNCHANGED locals
    BY <1>1, SMT DEF TypeOK, LocalsTypeOK, locals
<1>2. CASE ~UNCHANGED locals
    <2> DEFINE pages == {c[1] : c \in B}
               carried == [p \in Page |->
                             IF p \in pages THEN CHOOSE a \in 0..MaxAttempt : <<p, a>> \in B ELSE 0]
    <2>1. pages \in SUBSET Page
        BY SMT DEF TypeOK, RegistryTypeOK
    <2>2. carried \in [Page -> 0..MaxAttempt]
        <3>1. \A p \in pages : \E a \in 0..MaxAttempt : <<p, a>> \in B
            BY SMT DEF TypeOK, RegistryTypeOK
        <3>2. \A p \in pages : (CHOOSE a \in 0..MaxAttempt : <<p, a>> \in B) \in 0..MaxAttempt
            BY <3>1
        <3> DEFINE chosen(p) == CHOOSE a \in 0..MaxAttempt : <<p, a>> \in B
        <3> HIDE DEF pages, chosen
        <3>3. [p \in Page |-> IF p \in pages THEN chosen(p) ELSE 0] \in [Page -> 0..MaxAttempt]
            <4>1. \A p \in pages : chosen(p) \in 0..MaxAttempt
                BY <3>2 DEF chosen
            <4> QED BY <4>1, AttemptAssumption, SMT
        <3> QED
            BY <3>3 DEF chosen
    <2>3. /\ at' = [at EXCEPT ![t] = IF runStatus[r] = "cancelling" THEN "sbCancelling" ELSE "sbCheck"]
          /\ run' = [run EXCEPT ![t] = r]
          /\ todo' = [todo EXCEPT ![t] = pages]
          /\ mine' = [mine EXCEPT ![t] = carried]
          /\ UNCHANGED <<acting, seen, slot, room>>
        BY <1>2 DEF SubmitBegin, Goto
    <2> HIDE DEF pages, carried
    <2> QED
        BY <2>1, <2>2, <2>3, SMT DEF TypeOK, LocalsTypeOK, Location
<1> QED
    BY <1>1, <1>2

\* The rest of the application keeps the types.
LEMMA ApplicationType ==
    ASSUME TypeOK, DropOffer \/ EnterMaintenance \/ LeaveMaintenance PROVE TypeOK'
<1>1. StateTypeOK'
    BY DbUnchanged DEF TypeOK, DropOffer, EnterMaintenance, LeaveMaintenance
<1>2. RegistryTypeOK'
    <2>1. offered' \subseteq offered /\ exclusive' \in BOOLEAN /\ UNCHANGED registry
        BY DEF TypeOK, RegistryTypeOK, DropOffer, EnterMaintenance, LeaveMaintenance
    <2> QED BY <2>1, SMT DEF TypeOK, RegistryTypeOK, registry
<1>3. LocalsTypeOK'
    BY LocalsUnchanged DEF TypeOK, DropOffer, EnterMaintenance, LeaveMaintenance
<1> QED BY <1>1, <1>2, <1>3 DEF TypeOK

\* A restart keeps the types.
LEMMA RestartType == ASSUME TypeOK, Restart PROVE TypeOK'
<1>1. StateTypeOK'
    BY AttemptAssumption, SMT DEF TypeOK, Restart, RecoverPages, StateTypeOK, PageStatus, Attempt
<1>2. NoAttempt \in [Page -> 0..MaxAttempt] /\ 0 \in 0..MaxActive
    BY AttemptAssumption, LimitAssumption, SMT DEF NoAttempt
<1>3. RegistryTypeOK'
    <2>1. permit' \in [Run -> BOOLEAN] /\ authorized' \in [Run -> {"no", "yes", "stale"}]
        BY SMT DEF Restart
    <2> QED BY <1>2, <2>1 DEF Restart, RegistryTypeOK
<1>4. "idle" \in Location /\ "absent" \in RunStatus
    BY DEF Location, RunStatus
<1>5. LocalsTypeOK'
    BY <1>2, <1>4, SMT DEF TypeOK, Restart, LocalsTypeOK
<1> QED BY <1>1, <1>3, <1>5 DEF TypeOK

\* The initial states are well typed.
LEMMA TypeInitially == Init => TypeOK
<1> SUFFICES ASSUME Init PROVE TypeOK
    OBVIOUS
<1>1. StateTypeOK
    BY AttemptAssumption, SMT DEF Init, StateInit, StateTypeOK, RunStatus, PageStatus, Attempt
<1>2. NoAttempt \in [Page -> 0..MaxAttempt] /\ 0 \in 0..MaxActive
    BY AttemptAssumption, LimitAssumption, SMT DEF NoAttempt
<1>3. RegistryTypeOK
    <2>1. permit \in [Run -> BOOLEAN] /\ authorized \in [Run -> {"no", "yes", "stale"}]
        BY SMT DEF Init
    <2> QED BY <1>2, <2>1 DEF Init, RegistryTypeOK
<1>4. "idle" \in Location /\ "absent" \in RunStatus
    BY DEF Location, RunStatus
<1>5. LocalsTypeOK
    BY <1>2, <1>4, SMT DEF Init, LocalsTypeOK
<1> QED BY <1>1, <1>3, <1>5 DEF TypeOK

\* Every step keeps the types.
LEMMA TypeStep == ASSUME TypeOK, [Next]_vars PROVE TypeOK'
<1>1. ASSUME NEW t \in Task, Proceed(t) PROVE TypeOK'
    BY <1>1, ClaimSelectType, ClaimPageType, RegisterClaimType, ClaimReturnType, ReportWriteType,
        SubmitCancellingType, SubmitCheckType, SubmitSlotType, StagePageType, SendPageType,
        SubmitSentType, SubmitRecheckType, AnalyzeType, AnsweredType, ReceivePageType, BarrierType,
        RejectPageType, CommitPageType, FinishReceivedType, FinalizeTerminalType,
        FinishInterruptedType, FinishCancelledType, FinishFailedType, CancelWriteType,
        FinalizeCancelType, AuthorizeInsertType, RetryWriteType DEF Proceed
<1>2. ASSUME NEW t \in Task, UseOffers(t) PROVE TypeOK'
    BY <1>2, ReportBeginType, SubmitBeginType DEF UseOffers
<1>3. ASSUME NEW t \in Task, Request(t) PROVE TypeOK'
    BY <1>3, AuthorizeBeginType, CancelBeginType, ClaimBeginType, RetryBeginType DEF Request
<1>4. ASSUME NEW r \in Run,
             CreateRun(r) \/ PauseRun(r) \/ ResumeRun(r) \/ RecheckRun(r) \/ BindingChanges(r)
      PROVE  TypeOK'
    BY <1>4, CreateRunType, PauseResumeType, RunRegistryType
<1>5. CASE UNCHANGED vars
    BY <1>5, DbUnchanged, RegistryUnchanged, LocalsUnchanged DEF TypeOK, vars
<1> QED
    BY <1>1, <1>2, <1>3, <1>4, <1>5, ApplicationType, RestartType DEF Next

\* Type correctness: every variable of the commands and of the registry keeps its type,
\* for any number of runs, pages and concurrent calls.
THEOREM TypeCorrect == Spec => []TypeOK
BY TypeInitially, TypeStep, PTL DEF Spec
-----------------------------------------------------------------------------
(* The invariant.                                                           *)

ClaimLocation == {"clSelect", "clPage", "clRegister"}

\* What a call relies on about its run: one that is claiming pages works for a run that
\* has its permit or has ended, and on pages of that run; one that is about to cancel its
\* run read that it was live; one that is about to retry a page read that it was settled.
FollowsItsRun(t) ==
    /\ at[t] \in ClaimLocation => permit[run[t]] \/ Terminal(run[t])
    /\ at[t] \in {"clPage", "clRegister"} => todo[t] \subseteq PagesOf(run[t])
    /\ at[t] = "cnWrite" => seen[t] \in {"running", "paused"}
    /\ at[t] = "rtWrite" => seen[t] \in {"failed", "needs_review"}

CallsFollowTheirRun == \A t \in Task : FollowsItsRun(t)

\* A run that was not created has no pages.
AbsentRunsAreEmpty ==
    \A p \in Page : runStatus[RunOf[p]] = "absent" => pageStatus[p] = "absent"

\* Maintenance runs while no command does and no run has a permit.
MaintenanceAlone ==
    exclusive => (\A r \in Run : ~permit[r]) /\ (\A t \in Task : at[t] = "idle")

BeforeSending == {"sbCancelling", "sbCheck", "sbSlot", "interrupted"}
WhileSending == {"sbPage", "sbSend"}
UntilAnswer == WhileSending \cup {"sbSent"} \cup AtProvider
AtReceipt == {"sbReceive", "sbBarrier", "sbInvalid", "sbCommit", "cancelled", "failed"}
AfterSending == {"sbSent"} \cup AtProvider \cup AtReceipt \cup {"sbFinish", "sbFinal"}

\* The call t holds the attempt mine[t][p] of page p: it claimed it or got it from the frontend.
Holds(t, p) ==
    \/ at[t] \in {"clPage", "clRegister", "clReturn"} /\ p \in acting[t]
    \/ at[t] \in {"rpWrite"} \cup BeforeSending \cup WhileSending /\ p \in todo[t]
    \/ at[t] \in WhileSending \cup AfterSending /\ p \in acting[t]

\* It has claimed p and not registered the claim yet.
Registering(t, p) == at[t] \in {"clPage", "clRegister"} /\ p \in todo[t] \cap acting[t]

\* It has marked p as sent.
Sent(t, p) ==
    /\ p \in acting[t]
    /\ at[t] \in AfterSending \/ (at[t] \in WhileSending /\ p \notin todo[t])

\* Attempt a of page p has been claimed, and has gone beyond its render.
Begun(p, a) == a < attempt[p] \/ (a = attempt[p] /\ pageStatus[p] \notin {"absent", "queued"})
Past(p, a) ==
    a < attempt[p] \/ (a = attempt[p] /\ pageStatus[p] \notin {"absent", "queued", "rendering"})

\* The shape of a call's loops.
CallIsSound(t) ==
    /\ at[t] \in {"idle", "clSelect", "sbCheck", "sbSlot"} => acting[t] = {}
    /\ at[t] \in AtReceipt => todo[t] \subseteq acting[t]
    /\ at[t] = "sbSent" => todo[t] = {}

CallsAreSound == \A t \in Task : CallIsSound(t)

\* Only attempts that have begun are in the hands of a call or of the frontend.
HeldIsBegun ==
    /\ \A t \in Task, p \in Page : Holds(t, p) => Begun(p, mine[t][p])
    /\ \A c \in offered : Begun(c[1], c[2])

\* A registered claim is one of the page's current attempt, which has begun.
RegisteredIsCurrent ==
    \A p \in Page : claim[p] # 0 => claim[p] = attempt[p] /\ Begun(p, claim[p])

\* A call that has yet to register its claim is the only holder of the attempt.
RegistrationIsOwn ==
    \A t \in Task, p \in Page : Registering(t, p) =>
        /\ Owns(p, mine[t][p], "rendering")
        /\ claim[p] = 0
        /\ <<p, mine[t][p]>> \notin offered
        /\ \A u \in Task \ {t} : Holds(u, p) => mine[u][p] # mine[t][p]

\* An attempt is sent by one call, which finds it as it left it until the answer comes.
SentIsOwn ==
    \A t \in Task, p \in Page : Sent(t, p) =>
        /\ Past(p, mine[t][p])
        /\ at[t] \in UntilAnswer => Owns(p, mine[t][p], "sending")
        /\ \A u \in Task \ {t} : Sent(u, p) => mine[u][p] # mine[t][p]

\* The rows, the permits and the gate.
RowsAreSound ==
    /\ ActivePagesCovered
    /\ TerminalRunHasNoWorkingPage
    /\ AbsentRunsAreEmpty
    /\ MaintenanceAlone

\* The attempts and the calls that hold them.
AttemptsAreSound ==
    /\ CallsAreSound
    /\ HeldIsBegun
    /\ RegisteredIsCurrent
    /\ RegistrationIsOwn
    /\ SentIsOwn

Inv == TypeOK /\ RowsAreSound /\ CallsFollowTheirRun /\ AttemptsAreSound

-----------------------------------------------------------------------------
(* What a step does to the rows of pages.                                   *)

\* How the status s of a page of run r may change to u within an attempt: it is queued by
\* the step that creates the run, claimed while the run is running, kept while it is live.
StatusMay(r, s, u) ==
    \/ s = "absent" /\ u = "queued" /\ runStatus'[r] = "running"
    \/ s = "queued" /\ u = "rendering" /\ runStatus[r] = "running"
    \/ s = "queued" /\ u = "cancelled"
    \/ s = "rendering" /\ u = "sending"
    \/ s = "sending" /\ u = "parsing"
    \/ s = "parsing" /\ u \in Committed /\ Live(r)
    \/ s \in Working /\ u \in {"failed", "cancelled"}

\* How the row of a page may change: within its attempt, or to the next one once the page
\* is settled (retry_page) or lost (recovery at startup).
RowStays(p) == pageStatus'[p] = pageStatus[p] /\ attempt'[p] = attempt[p]
RowMay(p) ==
    \/ attempt'[p] = attempt[p] /\ StatusMay(RunOf[p], pageStatus[p], pageStatus'[p])
    \/ /\ pageStatus[p] \in Working \cup {"failed", "needs_review"}
       /\ attempt'[p] = attempt[p] + 1
       /\ pageStatus'[p] = "queued"

RowsMay ==
    \A p \in Page :
        RowStays(p) \/ /\ RowMay(p)
                       /\ pageStatus'[p] = "rendering" => permit[RunOf[p]] \/ Terminal(RunOf[p])

\* A step of the call t changes the row of a page that is being rendered or is at the
\* provider only if the call holds the page's attempt.
Entitled(t, p) ==
    \/ RowStays(p)
    \/ /\ pageStatus[p] = "rendering" => Holds(t, p) /\ mine[t][p] = attempt[p]
       /\ pageStatus[p] = "sending" => /\ at[t] \in AtReceipt
                                       /\ p \in acting[t]
                                       /\ mine[t][p] = attempt[p]

\* What a step of the call t does to the rows.
RowsBy(t) == RowsMay /\ \A p \in Page : Entitled(t, p)

\* The statements on a page the call holds, each refused unless the row is as expected.
LEMMA HeldPageMoves ==
    ASSUME StateTypeOK, NEW t \in Task, NEW p \in Page, NEW s \in Working,
           s = "rendering" => Holds(t, p),
           s = "sending" => at[t] \in AtReceipt /\ p \in acting[t],
           \/ Fail(p, mine[t][p], s) \/ Cancel(p, mine[t][p], s)
           \/ TryFail(p, mine[t][p], s) \/ TryCancel(p, mine[t][p], s)
    PROVE  RowsBy(t)
<1>1. CASE UNCHANGED db
    BY <1>1 DEF RowsBy, RowsMay, Entitled, RowStays, db
<1>2. CASE Owns(p, mine[t][p], s) /\ \E u \in {"failed", "cancelled"} : SetPage(p, u)
    <2>1. PICK u \in {"failed", "cancelled"} : SetPage(p, u)
        BY <1>2
    <2>2. \A q \in Page \ {p} : RowStays(q)
        BY <2>1 DEF SetPage, StateTypeOK, RowStays
    <2>3. RowMay(p) /\ pageStatus'[p] # "rendering" /\ Entitled(t, p)
        BY <1>2, <2>1 DEF SetPage, StateTypeOK, Owns, RowMay, StatusMay, Entitled, Working
    <2> QED BY <2>2, <2>3 DEF RowsBy, RowsMay, Entitled
<1> QED BY <1>1, <1>2 DEF Fail, Cancel, TryFail, TryCancel

\* The other statements of a submission.
LEMMA SentPageMoves ==
    ASSUME StateTypeOK, NEW t \in Task, NEW p \in Page,
           \/ ClaimSend(p, mine[t][p]) /\ Holds(t, p)
           \/ MarkReceived(p, mine[t][p]) /\ at[t] \in AtReceipt /\ p \in acting[t]
           \/ Commit(p, mine[t][p])
    PROVE  RowsBy(t)
<1>1. PICK u \in PageStatus : SetPage(p, u)
    BY DEF ClaimSend, MarkReceived, Commit, PageStatus, Committed
<1>2. \A q \in Page \ {p} : RowStays(q)
    BY <1>1 DEF SetPage, StateTypeOK, RowStays
<1>3. RowMay(p) /\ pageStatus'[p] # "rendering" /\ Entitled(t, p)
    BY DEF ClaimSend, MarkReceived, Commit, SetPage, StateTypeOK, Owns, RowMay, StatusMay, Entitled,
        Committed
<1> QED BY <1>2, <1>3 DEF RowsBy, RowsMay, Entitled

\* A step that leaves the rows alone.
LEMMA NoRowMoves == ASSUME NEW t \in Task, UNCHANGED db PROVE RowsBy(t)
BY DEF RowsBy, RowsMay, Entitled, RowStays, db

\* What each step of a call does to the rows of pages.
LEMMA CallRows ==
    ASSUME TypeOK, CallsFollowTheirRun, CallsAreSound, NEW t \in Task, Proceed(t)
    PROVE  RowsBy(t)
<1>0. todo[t] \subseteq Page /\ CallIsSound(t) /\ StateTypeOK
    BY DEF TypeOK, LocalsTypeOK, CallsAreSound
<1>1. CASE ClaimSelect(t) \/ ClaimReturn(t) \/ SubmitCheck(t) \/ SubmitSlot(t) \/ SubmitSent(t)
               \/ SubmitRecheck(t) \/ Analyze(t) \/ Answered(t) \/ FinishReceived(t)
               \/ AuthorizeInsert(t)
    BY <1>1, NoRowMoves DEF ClaimSelect, ClaimReturn, SubmitCheck, SubmitSlot, SubmitSent,
        SubmitRecheck, Analyze, Answered, FinishReceived, AuthorizeInsert
<1>2. CASE RegisterClaim(t)
    BY <1>0, <1>2, HeldPageMoves, NoRowMoves, SMT DEF RegisterClaim, Working, Holds
<1>3. CASE ReportWrite(t)
    BY <1>0, <1>3, HeldPageMoves, NoRowMoves, SMT DEF ReportWrite, Working, Holds
<1>4. CASE SubmitCancelling(t)
    BY <1>0, <1>4, HeldPageMoves, NoRowMoves, SMT DEF SubmitCancelling, Working, Holds, BeforeSending
<1>5. CASE StagePage(t)
    BY <1>0, <1>5, HeldPageMoves, NoRowMoves, SMT DEF StagePage, Working, Holds, WhileSending
<1>6. CASE SendPage(t)
    BY <1>0, <1>6, HeldPageMoves, SentPageMoves, NoRowMoves, SMT DEF SendPage, Working, Holds,
        WhileSending
<1>7. CASE ReceivePage(t)
    BY <1>0, <1>7, HeldPageMoves, SentPageMoves, NoRowMoves, SMT DEF ReceivePage, Working, AtReceipt,
        CallIsSound
<1>8. CASE Barrier(t)
    BY <1>0, <1>8, HeldPageMoves, NoRowMoves, SMT DEF Barrier, Working
<1>9. CASE RejectPage(t)
    BY <1>0, <1>9, HeldPageMoves, NoRowMoves, SMT DEF RejectPage, Working
<1>10. CASE CommitPage(t)
    BY <1>0, <1>10, HeldPageMoves, SentPageMoves, NoRowMoves, SMT DEF CommitPage, Working
<1>11. CASE FinishInterrupted(t)
    BY <1>0, <1>11, HeldPageMoves, NoRowMoves, SMT DEF FinishInterrupted, Working, Holds, BeforeSending
<1>12. CASE FinishCancelled(t)
    BY <1>0, <1>12, HeldPageMoves, NoRowMoves, SMT DEF FinishCancelled, Working, AtReceipt, CallIsSound
<1>13. CASE FinishFailed(t)
    BY <1>0, <1>13, HeldPageMoves, NoRowMoves, SMT DEF FinishFailed, Working, AtReceipt, CallIsSound
<1>14. CASE ClaimPage(t)
    <2>1. ASSUME NEW p \in todo[t], ClaimRender(p, mine[t][p]) PROVE RowsBy(t)
        <3>1. \A q \in Page \ {p} : RowStays(q)
            BY <2>1 DEF ClaimRender, SetPage, TypeOK, StateTypeOK, RowStays
        <3>2. RowMay(p) /\ Entitled(t, p)
            BY <1>0, <2>1 DEF ClaimRender, SetPage, StateTypeOK, Owns, RowMay, StatusMay, Entitled
        <3>3. permit[RunOf[p]] \/ Terminal(RunOf[p])
            BY <1>14 DEF ClaimPage, CallsFollowTheirRun, FollowsItsRun, ClaimLocation, PagesOf
        <3> QED BY <3>1, <3>2, <3>3 DEF RowsBy, RowsMay, Entitled
    <2> QED BY <1>14, <2>1, NoRowMoves DEF ClaimPage
<1>15. CASE CancelWrite(t)
    <2>1. ASSUME RequestCancel(run[t], seen[t]) PROVE RowsBy(t)
        BY <2>1 DEF RequestCancel, TypeOK, StateTypeOK, RowsBy, RowsMay, RowStays, RowMay, StatusMay,
            Entitled
    <2> QED BY <1>15, <2>1, NoRowMoves DEF CancelWrite
<1>16. CASE FinalizeTerminal(t) \/ FinalizeCancel(t)
    BY <1>16 DEF FinalizeTerminal, FinalizeCancel, Finalize, SetRun, RowsBy, RowsMay, Entitled,
        RowStays, db
<1>17. CASE RetryWrite(t)
    <2>1. ASSUME NEW p \in todo[t], Retry(p, mine[t][p], seen[t]) PROVE RowsBy(t)
        <3>1. \A q \in Page \ {p} : RowStays(q)
            BY <2>1 DEF Retry, TypeOK, StateTypeOK, RowStays
        <3>2. pageStatus[p] \in {"failed", "needs_review"} /\ mine[t][p] = attempt[p]
            BY <1>17, <2>1 DEF Retry, Owns, RetryWrite, CallsFollowTheirRun, FollowsItsRun
        <3>3. RowMay(p) /\ pageStatus'[p] # "rendering" /\ Entitled(t, p)
            BY <1>0, <2>1, <3>2 DEF Retry, StateTypeOK, RowMay, Entitled
        <3> QED BY <3>1, <3>3 DEF RowsBy, RowsMay, Entitled
    <2> QED BY <1>17, <2>1, NoRowMoves DEF RetryWrite
<1> QED
    BY <1>1, <1>2, <1>3, <1>4, <1>5, <1>6, <1>7, <1>8, <1>9, <1>10, <1>11, <1>12, <1>13, <1>14, <1>15,
        <1>16, <1>17 DEF Proceed

-----------------------------------------------------------------------------
(* What a step does to runs and permits.                                    *)

RunMay(r) ==
    \/ runStatus'[r] = runStatus[r]
    \/ runStatus[r] \in {"absent", "paused"} /\ runStatus'[r] = "running"
    \/ runStatus[r] = "running" /\ runStatus'[r] = "paused"
    \/ Live(r) /\ runStatus'[r] = "cancelling"
    \/ runStatus[r] \in {"running", "paused", "cancelling"} /\ AllFinished(r) /\ Terminal(r)'

\* A permit is dropped by the step that finds no page unfinished and ends the run.
RunsMay ==
    \A r \in Run : /\ RunMay(r)
                   /\ permit[r] /\ ~permit'[r] => AllFinished(r) /\ Terminal(r)'

\* Steps that leave the runs alone and drop no permit.
LEMMA NoRunMoves ==
    ASSUME UNCHANGED runStatus, \A r \in Run : permit[r] => permit'[r] PROVE RunsMay
BY DEF RunsMay, RunMay

\* The status of one run is set, and no permit dropped.
LEMMA OneRunMoves ==
    ASSUME StateTypeOK, NEW r \in Run, NEW u,
           runStatus' = [runStatus EXCEPT ![r] = u], \A q \in Run : permit[q] => permit'[q],
           \/ runStatus[r] \in {"absent", "paused"} /\ u = "running"
           \/ runStatus[r] = "running" /\ u = "paused"
           \/ Live(r) /\ u = "cancelling"
    PROVE  RunsMay
<1>1. \A q \in Run \ {r} : runStatus'[q] = runStatus[q]
    BY DEF StateTypeOK
<1>2. RunMay(r)
    BY DEF StateTypeOK, RunMay
<1> QED BY <1>1, <1>2 DEF RunsMay, RunMay

\* finalize_run_if_terminal and finish_run.
LEMMA FinalizeMoves ==
    ASSUME TypeOK, NEW r \in Run, NEW s, Finalize(r, s), FinishRun(r) PROVE RunsMay
<1>1. /\ runStatus' = [runStatus EXCEPT ![r] = FinalStatus(s)]
      /\ FinalStatus(s) \in {"cancelled", "completed"}
      /\ permit' = [permit EXCEPT ![r] = FALSE]
    BY SMT DEF Finalize, SetRun, FinishRun, FinalStatus
<1>2. \A q \in Run \ {r} : permit'[q] = permit[q] /\ runStatus'[q] = runStatus[q]
    BY <1>1 DEF TypeOK, StateTypeOK, RegistryTypeOK
<1>3. AllFinished(r) /\ Terminal(r)' /\ runStatus[r] \in {"running", "paused", "cancelling"}
    BY <1>1 DEF Finalize, TypeOK, StateTypeOK, Terminal
<1> QED BY <1>2, <1>3 DEF RunsMay, RunMay

\* What each step of a call does to runs and permits.
LEMMA CallRuns ==
    ASSUME TypeOK, CallsFollowTheirRun, NEW t \in Task, Proceed(t) PROVE RunsMay
<1>1. run[t] \in Run /\ StateTypeOK
    BY DEF TypeOK, LocalsTypeOK
<1>2. CASE FinalizeTerminal(t) \/ FinalizeCancel(t)
    <2>1. CASE UNCHANGED <<db, registry>>
        BY <2>1, NoRunMoves DEF db, registry
    <2>2. ASSUME NEW s, Finalize(run[t], s), FinishRun(run[t]) PROVE RunsMay
        BY <1>1, <2>2, FinalizeMoves
    <2> QED BY <1>2, <2>1, <2>2 DEF FinalizeTerminal, FinalizeCancel
<1>3. CASE CancelWrite(t)
    <2>1. CASE UNCHANGED db
        BY <1>3, <2>1, NoRunMoves DEF CancelWrite, db
    <2>2. CASE RequestCancel(run[t], seen[t])
        BY <1>1, <1>3, <2>2, OneRunMoves DEF CancelWrite, RequestCancel, CallsFollowTheirRun,
            FollowsItsRun, Live
    <2> QED BY <1>3, <2>1, <2>2 DEF CancelWrite
<1>4. CASE AuthorizeInsert(t)
    <2>1. permit' = permit \/ permit' = [permit EXCEPT ![run[t]] = TRUE]
        BY <1>4, Zenon DEF AuthorizeInsert
    <2>2. \A r \in Run : permit[r] => permit'[r]
        BY <2>1 DEF TypeOK, RegistryTypeOK
    <2> QED BY <1>4, <2>2, NoRunMoves DEF AuthorizeInsert, db
<1>5. UNCHANGED <<runStatus, permit>> => RunsMay
    BY NoRunMoves
<1>6. CASE ClaimSelect(t) \/ ClaimPage(t) \/ RegisterClaim(t) \/ ClaimReturn(t) \/ ReportWrite(t)
    BY <1>5, <1>6 DEF ClaimSelect, ClaimPage, RegisterClaim, ClaimReturn, ReportWrite,
        ClaimRender, Fail, TryFail, Cancel, SetPage, registry, db
<1>7. CASE SubmitCancelling(t) \/ SubmitCheck(t) \/ SubmitSlot(t) \/ StagePage(t) \/ SendPage(t)
    BY <1>5, <1>7 DEF SubmitCancelling, SubmitCheck, SubmitSlot, StagePage, SendPage,
        ClaimSend, Fail, Cancel, TryCancel, SetPage, registry, db
<1>8. CASE SubmitSent(t) \/ SubmitRecheck(t) \/ Analyze(t) \/ Answered(t) \/ ReceivePage(t)
    BY <1>5, <1>8 DEF SubmitSent, SubmitRecheck, Analyze, Answered, ReceivePage,
        MarkReceived, Cancel, TryCancel, SetPage, registry, db
<1>9. CASE Barrier(t) \/ RejectPage(t) \/ CommitPage(t) \/ FinishReceived(t)
    BY <1>5, <1>9 DEF Barrier, RejectPage, CommitPage, FinishReceived,
        Commit, Fail, TryFail, Cancel, SetPage, registry, db
<1>10. CASE FinishInterrupted(t) \/ FinishCancelled(t) \/ FinishFailed(t) \/ RetryWrite(t)
    BY <1>5, <1>10 DEF FinishInterrupted, FinishCancelled, FinishFailed, RetryWrite,
        Retry, Fail, TryFail, Cancel, TryCancel, SetPage, registry, db
<1> QED BY <1>2, <1>3, <1>4, <1>6, <1>7, <1>8, <1>9, <1>10 DEF Proceed

\* Steps that are not steps of a call that has begun: only create_run changes a page, and
\* recovery at startup.
LEMMA OtherRows ==
    ASSUME TypeOK, AbsentRunsAreEmpty, Next, ~Restart, \A t \in Task : ~Proceed(t)
    PROVE  RowsMay /\ RunsMay /\ \A p \in Page : RowStays(p) \/ pageStatus[p] = "absent"
<1>1. CASE UNCHANGED <<db, permit>>
    BY <1>1, NoRunMoves DEF RowsMay, RowStays, db
<1>2. ASSUME NEW r \in Run, CreateRun(r)
      PROVE  RowsMay /\ RunsMay /\ \A p \in Page : RowStays(p) \/ pageStatus[p] = "absent"
    <2>1. \A p \in Page :
             RowStays(p) \/ (pageStatus[p] = "absent" /\ RowMay(p) /\ pageStatus'[p] = "queued")
        BY <1>2, RunAssumption DEF CreateRun, InsertRun, TypeOK, StateTypeOK, AbsentRunsAreEmpty,
            RowStays,
            RowMay, StatusMay
    <2>2. RunsMay
        <3>1. \A q \in Run : permit[q] => permit'[q]
            BY <1>2 DEF CreateRun, TypeOK, RegistryTypeOK
        <3> QED BY <1>2, <3>1, OneRunMoves DEF CreateRun, InsertRun, TypeOK
    <2> QED BY <2>1, <2>2 DEF RowsMay
<1>3. ASSUME NEW r \in Run, PauseRun(r) \/ ResumeRun(r)
      PROVE  RowsMay /\ RunsMay /\ \A p \in Page : RowStays(p)
    <2>1. UNCHANGED <<pageStatus, attempt, permit>>
        BY <1>3 DEF PauseRun, ResumeRun, Pause, Resume, SetRun, registry
    <2>2. RunsMay
        BY <1>3, <2>1, OneRunMoves DEF PauseRun, ResumeRun, Pause, Resume, SetRun, TypeOK
    <2> QED BY <2>1, <2>2 DEF RowsMay, RowStays
<1>4. ASSUME NEW t \in Task, UseOffers(t) \/ Request(t) PROVE UNCHANGED <<db, permit>>
    BY <1>4 DEF UseOffers, Request, ReportBegin, SubmitBegin, AuthorizeBegin, CancelBegin, ClaimBegin,
        RetryBegin, registry
<1>5. ASSUME NEW r \in Run, RecheckRun(r) \/ BindingChanges(r) PROVE UNCHANGED <<db, permit>>
    BY <1>5 DEF RecheckRun, BindingChanges
<1>6. CASE DropOffer \/ EnterMaintenance \/ LeaveMaintenance
    BY <1>1, <1>6 DEF DropOffer, EnterMaintenance, LeaveMaintenance, registry
<1> QED BY <1>1, <1>2, <1>3, <1>4, <1>5, <1>6 DEF Next

\* Killing the process and recovering the pages.
LEMMA RestartRows ==
    ASSUME TypeOK, Restart
    PROVE  /\ RowsMay
           /\ UNCHANGED runStatus
           /\ \A p \in Page : pageStatus'[p] \notin Working
BY DEF Restart, RecoverPages, TypeOK, StateTypeOK, RowsMay, RowStays, RowMay, StatusMay, Working

\* So every step moves rows, runs and permits in these ways.
LEMMA StepMoves ==
    ASSUME Inv, Next PROVE RowsMay /\ (\A r \in Run : RunMay(r)) /\ (Restart \/ RunsMay)
<1>1. TypeOK /\ AbsentRunsAreEmpty /\ CallsFollowTheirRun /\ CallsAreSound
    BY DEF Inv, RowsAreSound, AttemptsAreSound
<1>2. CASE Restart
    BY <1>1, <1>2, RestartRows DEF RunMay
<1>3. CASE ~Restart
    <2>1. ASSUME NEW t \in Task, Proceed(t) PROVE RowsMay /\ RunsMay
        BY <1>1, <2>1, CallRows, CallRuns DEF RowsBy
    <2>2. RowsMay /\ RunsMay
        BY <1>1, <1>3, <2>1, OtherRows
    <2> QED BY <2>2 DEF RunsMay
<1> QED BY <1>2, <1>3

-----------------------------------------------------------------------------
(* The invariants about rows, permits and the gate.                         *)

\* An ended run stays ended.
LEMMA EndedStaysEnded == ASSUME NEW r \in Run, RunMay(r), Terminal(r) PROVE Terminal(r)'
BY DEF RunMay, Terminal, Live

\* The moves preserve what relates pages to their runs and permits.
LEMMA MovesKeepRows ==
    ASSUME TypeOK', ActivePagesCovered, TerminalRunHasNoWorkingPage, AbsentRunsAreEmpty, RowsMay, RunsMay
    PROVE  ActivePagesCovered' /\ TerminalRunHasNoWorkingPage' /\ AbsentRunsAreEmpty'
<1> SUFFICES ASSUME NEW p \in Page
             PROVE  /\ pageStatus'[p] \in Working => permit'[RunOf[p]] /\ ~Terminal(RunOf[p])'
                    /\ runStatus'[RunOf[p]] = "absent" => pageStatus'[p] = "absent"
    BY DEF ActivePagesCovered, TerminalRunHasNoWorkingPage, AbsentRunsAreEmpty
<1>1. RunOf[p] \in Run /\ p \in PagesOf(RunOf[p]) /\ RunMay(RunOf[p])
    BY RunAssumption DEF PagesOf, RunsMay
<1>2. ASSUME pageStatus'[p] \in Working PROVE permit'[RunOf[p]] /\ ~Terminal(RunOf[p])'
    <2>1. /\ pageStatus[p] \in Unfinished
          /\ permit[RunOf[p]] /\ ~Terminal(RunOf[p])
        BY <1>2 DEF RowsMay, RowStays, RowMay, StatusMay, Working, Unfinished, Committed, Live,
            Terminal,
            ActivePagesCovered, TerminalRunHasNoWorkingPage
    <2>2. ~AllFinished(RunOf[p])
        BY <1>1, <2>1 DEF AllFinished
    <2> QED BY <1>1, <2>1, <2>2 DEF RunsMay, RunMay, Terminal
<1>3. ASSUME runStatus'[RunOf[p]] = "absent" PROVE pageStatus'[p] = "absent"
    <2>1. runStatus[RunOf[p]] = "absent"
        BY <1>1, <1>3 DEF RunMay, Terminal
    <2>2. pageStatus[p] = "absent"
        BY <2>1 DEF AbsentRunsAreEmpty
    <2> QED BY <1>3, <2>2 DEF RowsMay, RowStays, RowMay, StatusMay, Working
<1> QED BY <1>2, <1>3

-----------------------------------------------------------------------------
(* The ledger of attempts.                                                  *)

\* What a row may do, said of the entries of its attempts.
LEMMA EntriesMay ==
    ASSUME TypeOK, TypeOK', RowsMay, NEW p \in Page, NEW a \in Attempt
    PROVE  Ledger!May(PhaseOf(RunOf[p]), EntryOf(p, a), EntryOf(p, a)')
<1>1. /\ attempt[p] \in Nat /\ attempt'[p] \in Nat /\ a \in Nat
      /\ pageStatus[p] \in PageStatus /\ pageStatus'[p] \in PageStatus
    BY AttemptAssumption DEF TypeOK, StateTypeOK, Attempt
<1>2. CASE RowStays(p)
    BY <1>2 DEF RowStays, EntryOf, Ledger!May
<1>3. CASE attempt'[p] = attempt[p] /\ StatusMay(RunOf[p], pageStatus[p], pageStatus'[p])
    <2>1. CASE a # attempt[p]
        BY <1>1, <1>3, <2>1 DEF EntryOf, Ledger!May
    <2>2. CASE a = attempt[p]
        <3>1. runStatus[RunOf[p]] \in {"running", "paused"} => PhaseOf(RunOf[p]) = "open"
            BY DEF PhaseOf, Terminal
        <3> QED
            BY <1>1, <1>3, <2>2, <3>1 DEF EntryOf, Ledger!May, StatusMay, Working, Committed, Live
    <2> QED BY <2>1, <2>2
<1>4. CASE /\ pageStatus[p] \in Working \cup {"failed", "needs_review"}
           /\ attempt'[p] = attempt[p] + 1
           /\ pageStatus'[p] = "queued"
    <2>1. CASE a < attempt[p]
        <3>1. EntryOf(p, a) = "over" /\ EntryOf(p, a)' = "over"
            BY <1>1, <1>4, <2>1 DEF EntryOf
        <3> QED BY <3>1 DEF Ledger!May
    <2>2. CASE a = attempt[p]
        <3>1. EntryOf(p, a) # "unused"
            BY <1>1, <1>4, <2>2 DEF EntryOf, Working, Committed
        <3>2. EntryOf(p, a)' = "over"
            BY <1>1, <1>4, <2>2 DEF EntryOf
        <3> QED BY <3>1, <3>2 DEF Ledger!May
    <2>3. CASE a > attempt[p]
        <3>1. EntryOf(p, a) = "unused" /\ EntryOf(p, a)' = "unused"
            BY <1>1, <1>4, <2>3 DEF EntryOf
        <3> QED BY <3>1 DEF Ledger!May
    <2> QED BY <1>1, <2>1, <2>2, <2>3
<1> QED BY <1>2, <1>3, <1>4 DEF RowsMay, RowMay

\* What a run may do, said of its phase.
LEMMA PhasesMay ==
    ASSUME TypeOK, NEW r \in Run, RunMay(r), PhaseOf(r)' # PhaseOf(r)
    PROVE  /\ <<PhaseOf(r), PhaseOf(r)'>> \in Ledger!PhaseMoves
           /\ PhaseOf(r)' = "closed" =>
                \A p \in Page, a \in Attempt : RunOf[p] = r => EntryOf(p, a) \notin Ledger!UnderWay
<1>1. \/ Live(r) /\ runStatus'[r] = "cancelling"
      \/ runStatus[r] \in {"running", "paused", "cancelling"} /\ AllFinished(r) /\ Terminal(r)'
    BY DEF RunMay, PhaseOf, Terminal
<1>2. <<PhaseOf(r), PhaseOf(r)'>> \in Ledger!PhaseMoves
    BY <1>1 DEF PhaseOf, Terminal, Live, Ledger!PhaseMoves
<1>3. ASSUME AllFinished(r), NEW p \in Page, NEW a \in Attempt, RunOf[p] = r
      PROVE  EntryOf(p, a) \notin Ledger!UnderWay
    <2>1. pageStatus[p] \notin Unfinished
        BY <1>3 DEF AllFinished, PagesOf
    <2> QED BY <2>1 DEF EntryOf, Ledger!UnderWay, Unfinished, Working, Committed
<1> QED BY <1>1, <1>2, <1>3 DEF PhaseOf, Terminal

\* Every step is recorded, or changes nothing the ledger shows.
LEMMA LedgerStep ==
    ASSUME TypeOK, TypeOK', RowsMay, \A r \in Run : RunMay(r) PROVE Ledger!Record
<1>1. \A p \in Page, a \in Attempt :
         Ledger!May(PhaseOf(RunOf[p]), EntryOf(p, a), EntryOf(p, a)')
    BY EntriesMay
<1>2. \A r \in Run : PhaseOf(r)' # PhaseOf(r) =>
         /\ <<PhaseOf(r), PhaseOf(r)'>> \in Ledger!PhaseMoves
         /\ PhaseOf(r)' = "closed" =>
              \A p \in Page, a \in Attempt : RunOf[p] = r => EntryOf(p, a) \notin Ledger!UnderWay
    BY PhasesMay
<1> QED BY <1>1, <1>2, RunAssumption DEF Ledger!Record, Ledger!Idle

\* The runs start open and no attempt has been made.
LEMMA LedgerInitially == Init => Ledger!LedgerInit
<1> SUFFICES ASSUME Init PROVE Ledger!LedgerInit
    OBVIOUS
<1>1. \A r \in Run : PhaseOf(r) = "open"
    BY DEF Init, StateInit, PhaseOf, Terminal
<1>2. \A p \in Page, a \in Attempt : EntryOf(p, a) = "unused"
    <2> SUFFICES ASSUME NEW p \in Page, NEW a \in Attempt PROVE EntryOf(p, a) = "unused"
        OBVIOUS
    <2>1. attempt[p] = 1 /\ pageStatus[p] = "absent" /\ a \in Nat /\ a >= 1
        BY AttemptAssumption DEF Init, StateInit, Attempt
    <2> QED BY <2>1 DEF EntryOf
<1> QED BY <1>1, <1>2 DEF Ledger!LedgerInit

-----------------------------------------------------------------------------
(* What a step does to the attempts and to the calls that hold them.        *)

\* The calls other than t stay as they are.
OthersStay(t) ==
    \A u \in Task \ {t} :
        /\ at'[u] = at[u] /\ run'[u] = run[u] /\ seen'[u] = seen[u]
        /\ todo'[u] = todo[u] /\ acting'[u] = acting[u] /\ mine'[u] = mine[u]

\* How a call comes to hold an attempt of p: it held it, the frontend gave it, or it claims it.
Obtains(t, p) ==
    \/ Holds(t, p) /\ mine'[t][p] = mine[t][p]
    \/ <<p, mine'[t][p]>> \in offered
    \/ pageStatus[p] = "queued" /\ Owns(p, mine[t][p], "rendering")' /\ attempt'[p] = attempt[p]

\* How it comes to have a claim to register.
Registers(t, p) ==
    /\ claim'[p] = claim[p]
    /\ \/ Registering(t, p) /\ mine'[t][p] = mine[t][p] /\ RowStays(p)
       \/ pageStatus[p] = "queued" /\ Owns(p, mine[t][p], "rendering")' /\ attempt'[p] = attempt[p]

\* How it comes to have p sent.
Sends(t, p) ==
    /\ mine'[t][p] = mine[t][p]
    /\ \/ Sent(t, p) /\ (at'[t] \in UntilAnswer => at[t] \in UntilAnswer)
       \/ Owns(p, mine[t][p], "rendering") /\ Owns(p, mine[t][p], "sending")'

\* What the registry and the frontend come to know: nothing but what the call t holds.
ClaimMay(t, p) ==
    /\ claim'[p] \in {0, claim[p]} \/ (Registering(t, p) /\ claim'[p] = mine[t][p] /\ RowStays(p))
    /\ attempt'[p] # attempt[p] => claim'[p] = 0
OffersMay(t) ==
    \A c \in offered' :
        c \in offered \/ (at'[t] = "idle" /\ Holds(t, c[1]) /\ c[2] = mine[t][c[1]])

\* The step of a call, seen from the attempts.
CallMay(t) ==
    /\ CallIsSound(t)'
    /\ \A p \in Page : /\ Holds(t, p)' => Obtains(t, p)
                       /\ Registering(t, p)' => Registers(t, p)
                       /\ Sent(t, p)' => Sends(t, p)

\* What a step of a call that neither claims nor sends does to its locals.
CarriesOn(t) ==
    /\ OthersStay(t)
    /\ at'[t] \notin ClaimLocation \cup {"cnWrite", "rtWrite"}
    /\ CallIsSound(t)'
    /\ \A p \in Page : /\ Holds(t, p)' => Holds(t, p) /\ mine'[t][p] = mine[t][p]
                       /\ Sent(t, p)' => /\ Sent(t, p) /\ mine'[t][p] = mine[t][p]
                                         /\ at'[t] \in UntilAnswer => at[t] \in UntilAnswer

\* The steps that do.
LEMMA CallCarriesOn ==
    ASSUME LocalsTypeOK, NEW t \in Task, CallIsSound(t),
           \/ ClaimReturn(t) \/ ReportWrite(t) \/ SubmitCancelling(t) \/ SubmitCheck(t) \/ SubmitSlot(t)
           \/ StagePage(t) \/ SubmitSent(t) \/ SubmitRecheck(t) \/ Analyze(t) \/ Answered(t)
           \/ ReceivePage(t) \/ Barrier(t) \/ RejectPage(t) \/ CommitPage(t) \/ FinishReceived(t)
           \/ FinalizeTerminal(t) \/ FinishInterrupted(t) \/ FinishCancelled(t) \/ FinishFailed(t)
           \/ CancelWrite(t)
           \/ FinalizeCancel(t) \/ AuthorizeInsert(t) \/ RetryWrite(t)
    PROVE  CarriesOn(t)
<1> USE DEF LocalsTypeOK, CarriesOn, OthersStay, ClaimLocation, CallIsSound, Holds, Sent, BeforeSending,
        WhileSending, UntilAnswer, AtReceipt, AfterSending, AtProvider
<1>1. CASE ClaimReturn(t)
    BY <1>1, SMT DEF ClaimReturn, Return, Goto
<1>2. CASE ReportWrite(t)
    BY <1>2, SMT DEF ReportWrite, Return, Start, Goto
<1>3. CASE SubmitCancelling(t)
    BY <1>3, SMT DEF SubmitCancelling, Return, Visited, Goto
<1>4. CASE SubmitCheck(t)
    BY <1>4, SMT DEF SubmitCheck, Return, Start, Goto
<1>5. CASE SubmitSlot(t)
    BY <1>5, SMT DEF SubmitSlot, Return, Start, Goto
<1>6. CASE StagePage(t)
    BY <1>6, SMT DEF StagePage, Return, Visited, Goto
<1>7. CASE SubmitSent(t)
    BY <1>7, SMT DEF SubmitSent, Return, Start, Goto
<1>8. CASE SubmitRecheck(t)
    BY <1>8, SMT DEF SubmitRecheck, Start, Goto
<1>9. CASE Analyze(t)
    BY <1>9, SMT DEF Analyze, Start, Goto
<1>10. CASE Answered(t)
    BY <1>10, SMT DEF Answered, Start, Goto
<1>11. CASE ReceivePage(t)
    BY <1>11, SMT DEF ReceivePage, Return, Visited, Goto
<1>12. CASE Barrier(t)
    BY <1>12, SMT DEF Barrier, Return, Visited, Goto
<1>13. CASE RejectPage(t)
    BY <1>13, SMT DEF RejectPage, Return, Visited, Goto
<1>14. CASE CommitPage(t)
    BY <1>14, SMT DEF CommitPage, Return, Visited, Goto
<1>15. CASE FinishReceived(t)
    BY <1>15, SMT DEF FinishReceived, Goto
<1>16. CASE FinalizeTerminal(t)
    BY <1>16, SMT DEF FinalizeTerminal, Return, Goto
<1>17. CASE FinishInterrupted(t)
    BY <1>17, SMT DEF FinishInterrupted, Return, Visited, Goto
<1>18. CASE FinishCancelled(t)
    BY <1>18, SMT DEF FinishCancelled, Dropped, Goto
<1>19. CASE FinishFailed(t)
    BY <1>19, SMT DEF FinishFailed, Return, Dropped, Goto
<1>20. CASE CancelWrite(t)
    BY <1>20, SMT DEF CancelWrite, Return, Start, Goto
<1>21. CASE FinalizeCancel(t)
    BY <1>21, SMT DEF FinalizeCancel, Return, Goto
<1>22. CASE AuthorizeInsert(t)
    BY <1>22, SMT DEF AuthorizeInsert, Return, Goto
<1>23. CASE RetryWrite(t)
    BY <1>23, SMT DEF RetryWrite, Return, Goto
<1> QED
    BY <1>1, <1>2, <1>3, <1>4, <1>5, <1>6, <1>7, <1>8, <1>9, <1>10, <1>11, <1>12, <1>13, <1>14, <1>15,
        <1>16, <1>17, <1>18, <1>19, <1>20, <1>21, <1>22, <1>23

\* claim_render_batch selects its batch.
LEMMA ClaimSelectCall ==
    ASSUME TypeOK, NEW t \in Task, CallIsSound(t), FollowsItsRun(t), ClaimSelect(t)
    PROVE  OthersStay(t) /\ CallMay(t) /\ FollowsItsRun(t)'
<1>1. OthersStay(t) /\ run'[t] = run[t] /\ acting'[t] = {} /\ at'[t] \in {"idle", "clPage"}
    BY SMT DEF ClaimSelect, Return, Goto, TypeOK, LocalsTypeOK, OthersStay, CallIsSound
<1>2. CallMay(t)
    BY <1>1 DEF CallMay, CallIsSound, Holds, Registering, Sent, AtReceipt, BeforeSending, WhileSending,
        AfterSending, AtProvider
<1>3. at'[t] = "clPage" => todo'[t] \subseteq PagesOf(run[t])
    <2>1. CASE Queue(run[t]) = {}
        BY <2>1 DEF ClaimSelect, Goto, Return, TypeOK, LocalsTypeOK
    <2>2. CASE Queue(run[t]) # {}
        <3>1. PICK S \in SUBSET Queue(run[t]) : todo' = [todo EXCEPT ![t] = S]
            BY <2>2 DEF ClaimSelect
        <3> QED BY <3>1 DEF TypeOK, LocalsTypeOK, Queue
    <2> QED BY <2>1, <2>2
<1>4. UNCHANGED <<runStatus, permit>> /\ at[t] \in ClaimLocation
    BY DEF ClaimSelect, registry, db, ClaimLocation
<1> QED BY <1>1, <1>2, <1>3, <1>4 DEF FollowsItsRun, ClaimLocation, PagesOf, Terminal

\* It claims a page, or skips it.
LEMMA ClaimPageCall ==
    ASSUME TypeOK, NEW t \in Task, FollowsItsRun(t), ClaimPage(t)
    PROVE  OthersStay(t) /\ CallMay(t) /\ FollowsItsRun(t)'
<1>1. UNCHANGED <<runStatus, permit, claim>> /\ at[t] = "clPage"
    BY SMT DEF ClaimPage, registry, db, ClaimRender, SetPage
<1>2. /\ OthersStay(t) /\ run'[t] = run[t] /\ mine'[t] = mine[t]
      /\ at'[t] \in {"clPage", "clRegister", "clReturn"}
      /\ at'[t] # "clReturn" => todo'[t] \subseteq todo[t]
    BY SMT DEF ClaimPage, Visited, Goto, TypeOK, LocalsTypeOK, OthersStay
<1>3. FollowsItsRun(t)'
    BY <1>1, <1>2 DEF FollowsItsRun, ClaimLocation, PagesOf, Terminal
<1>4. CASE UNCHANGED db /\ UNCHANGED acting
    <2>1. \A p \in Page : RowStays(p)
        BY <1>4 DEF RowStays, db
    <2> QED BY <1>1, <1>2, <1>3, <1>4, <2>1 DEF CallMay, CallIsSound, Holds, Registering, Sent,
        AtReceipt,
            BeforeSending, WhileSending, AfterSending, AtProvider, Obtains, Registers
<1>5. ASSUME NEW q \in todo[t], ClaimRender(q, mine[t][q]), UNCHANGED todo,
             acting' = [acting EXCEPT ![t] = @ \cup {q}]
      PROVE  CallMay(t)
    <2>1. q \in Page /\ acting'[t] = acting[t] \cup {q} /\ todo'[t] = todo[t]
        BY <1>5 DEF TypeOK, LocalsTypeOK
    <2>2. /\ pageStatus[q] = "queued" /\ Owns(q, mine[t][q], "rendering")' /\ attempt'[q] = attempt[q]
          /\ \A p \in Page \ {q} : RowStays(p)
        BY <1>2, <1>5, <2>1 DEF ClaimRender, SetPage, Owns, TypeOK, StateTypeOK, RowStays
    <2> QED BY <1>1, <1>2, <2>1, <2>2 DEF CallMay, CallIsSound, Holds, Registering, Sent, AtReceipt,
            BeforeSending, WhileSending, AfterSending, AtProvider, Obtains, Registers
<1> QED BY <1>2, <1>3, <1>4, <1>5 DEF ClaimPage, Visited

\* It registers a claim.
LEMMA RegisterClaimCall ==
    ASSUME TypeOK, NEW t \in Task, FollowsItsRun(t), RegisterClaim(t)
    PROVE  OthersStay(t) /\ CallMay(t) /\ FollowsItsRun(t)'
<1>1. UNCHANGED <<runStatus, permit, mine>> /\ at[t] = "clRegister"
    BY SMT DEF RegisterClaim, db, TryFail, Fail, SetPage
<1>2. /\ OthersStay(t) /\ run'[t] = run[t]
      /\ at'[t] \in {"clPage", "clReturn"}
    BY SMT DEF RegisterClaim, Goto, TypeOK, LocalsTypeOK, OthersStay
<1>3. PICK q \in todo[t] \cap acting[t] :
         /\ todo' = [todo EXCEPT ![t] = @ \ {q}]
         /\ \A p \in Page \ {q} : claim'[p] = claim[p] /\ RowStays(p)
         /\ acting'[t] \subseteq acting[t]
    <2>1. PICK q \in todo[t] \cap acting[t] :
             /\ todo' = [todo EXCEPT ![t] = @ \ {q}]
             /\ claim' = [claim EXCEPT ![q] = mine[t][q]] \/ UNCHANGED claim
             /\ UNCHANGED db \/ TryFail(q, mine[t][q], "rendering")
             /\ UNCHANGED acting \/ acting' = [acting EXCEPT ![t] = @ \ {q}]
        BY DEF RegisterClaim
    <2>2. \A p \in Page \ {q} : claim'[p] = claim[p]
        BY <2>1 DEF TypeOK, RegistryTypeOK
    <2>3. \A p \in Page \ {q} : RowStays(p)
        BY <2>1 DEF TypeOK, StateTypeOK, RowStays, db, TryFail, Fail, SetPage
    <2>4. acting'[t] \subseteq acting[t]
        BY <2>1 DEF TypeOK, LocalsTypeOK
    <2> QED BY <2>1, <2>2, <2>3, <2>4
<1>4. todo'[t] = todo[t] \ {q}
    BY <1>3 DEF TypeOK, LocalsTypeOK
<1>5. FollowsItsRun(t)'
    BY <1>1, <1>2, <1>4 DEF FollowsItsRun, ClaimLocation, PagesOf, Terminal
<1>6. CallMay(t)
    BY <1>1, <1>2, <1>3, <1>4 DEF CallMay, CallIsSound, Holds, Registering, Sent, AtReceipt,
        BeforeSending, WhileSending, AfterSending, AtProvider, Obtains, Registers
<1> QED BY <1>2, <1>5, <1>6

\* A submission sends a page, or drops it.
LEMMA SendPageCall ==
    ASSUME TypeOK, NEW t \in Task, SendPage(t)
    PROVE  OthersStay(t) /\ CallMay(t) /\ FollowsItsRun(t)'
<1>1. at[t] = "sbSend" /\ at'[t] \in {"sbPage", "sbSent", "idle"} /\ OthersStay(t)
    BY SMT DEF SendPage, Return, Start, Goto, TypeOK, LocalsTypeOK, OthersStay
<1>2. FollowsItsRun(t)'
    BY <1>1 DEF FollowsItsRun, ClaimLocation
<1>3. ASSUME Return(t) PROVE CallMay(t)
    <2>1. at'[t] = "idle" /\ acting'[t] = {}
        BY <1>3 DEF Return, Goto, TypeOK, LocalsTypeOK
    <2> QED BY <2>1 DEF CallMay, CallIsSound, Holds, Registering, Sent, AtReceipt, BeforeSending,
            WhileSending, AfterSending, AtProvider
<1>4. ASSUME ~Return(t) PROVE CallMay(t)
    <2>1. PICK q \in todo[t] \cap acting[t] :
             /\ todo' = [todo EXCEPT ![t] = @ \ {q}]
             /\ at' = [at EXCEPT ![t] = IF todo[t] = {q} THEN "sbSent" ELSE "sbPage"]
             /\ UNCHANGED mine
             /\ \/ acting' = [acting EXCEPT ![t] = @ \ {q}]
                \/ UNCHANGED acting /\ ClaimSend(q, mine[t][q])
        BY <1>4, SMT DEF SendPage, Start, Goto
    <2>2. /\ todo'[t] = todo[t] \ {q} /\ mine'[t] = mine[t] /\ q \in Page
          /\ at'[t] = IF todo[t] = {q} THEN "sbSent" ELSE "sbPage"
          /\ \/ acting'[t] = acting[t] \ {q}
             \/ /\ acting'[t] = acting[t]
                /\ Owns(q, mine[t][q], "rendering") /\ Owns(q, mine[t][q], "sending")'
        BY <2>1 DEF TypeOK, StateTypeOK, LocalsTypeOK, ClaimSend, SetPage, Owns
    <2>3. /\ CallIsSound(t)'
          /\ \A p \in Page : /\ Holds(t, p)' => Holds(t, p)
                             /\ ~Registering(t, p)'
        BY <1>1, <1>4, <2>2 DEF CallIsSound, Holds, Registering, AtReceipt, BeforeSending, WhileSending,
            AfterSending, AtProvider
    <2>4. \A p \in Page : Sent(t, p)' => Sends(t, p)
        BY <1>1, <2>2 DEF Sent, WhileSending, UntilAnswer, AfterSending, AtReceipt, AtProvider, Sends
    <2> QED BY <2>2, <2>3, <2>4 DEF CallMay, Obtains
<1> QED BY <1>1, <1>2, <1>3, <1>4

\* Beginning a call: it holds nothing but what the frontend hands to it.
LEMMA BeginCall ==
    ASSUME TypeOK, NEW t \in Task, CallIsSound(t), UseOffers(t) \/ Request(t)
    PROVE  OthersStay(t) /\ CallMay(t) /\ FollowsItsRun(t)'
<1>1. ASSUME UNCHANGED locals, at[t] = "idle" PROVE OthersStay(t) /\ CallMay(t) /\ FollowsItsRun(t)'
    BY <1>1 DEF locals, OthersStay, CallMay, CallIsSound, FollowsItsRun, Holds, Registering, Sent,
        ClaimLocation, AtReceipt, BeforeSending, WhileSending, AfterSending, AtProvider
<1>2. ASSUME NEW r \in Run, AuthorizeBegin(t, r) \/ CancelBegin(t, r) \/ ClaimBegin(t, r)
      PROVE  OthersStay(t) /\ CallMay(t) /\ FollowsItsRun(t)'
    <2>1. /\ OthersStay(t) /\ acting'[t] = {} /\ run'[t] = r
          /\ at'[t] \in {"auRenew", "auNew", "cnWrite", "clSelect"}
          /\ at'[t] = "cnWrite" => seen'[t] \in {"running", "paused"}
          /\ at'[t] = "clSelect" => permit[r] /\ UNCHANGED permit
        BY <1>2, SMT DEF AuthorizeBegin, CancelBegin, ClaimBegin, Goto, Live, registry, TypeOK,
            LocalsTypeOK, OthersStay, CallIsSound
    <2> QED BY <2>1 DEF CallMay, CallIsSound, FollowsItsRun, Holds, Registering, Sent,
            ClaimLocation, AtReceipt, BeforeSending, WhileSending, AfterSending, AtProvider
<1>3. ASSUME NEW p \in Page, RetryBegin(t, p) PROVE OthersStay(t) /\ CallMay(t) /\ FollowsItsRun(t)'
    <2>1. /\ OthersStay(t) /\ at'[t] = "rtWrite"
          /\ seen'[t] \in {"failed", "needs_review"}
        BY <1>3, SMT DEF RetryBegin, Goto, TypeOK, LocalsTypeOK, OthersStay
    <2> QED BY <2>1 DEF CallMay, CallIsSound, FollowsItsRun, Holds, Registering, Sent,
            ClaimLocation, AtReceipt, BeforeSending, WhileSending, AfterSending, AtProvider
<1>4. ASSUME NEW c \in offered, ReportBegin(t, c)
      PROVE  OthersStay(t) /\ CallMay(t) /\ FollowsItsRun(t)'
    <2>1. CASE UNCHANGED locals
        BY <1>1, <1>4, <2>1 DEF ReportBegin
    <2>2. CASE ~UNCHANGED locals
        <3>1. c[1] \in Page /\ c = <<c[1], c[2]>>
            BY DEF TypeOK, RegistryTypeOK
        <3>2. /\ OthersStay(t) /\ acting'[t] = {} /\ at'[t] = "rpWrite"
              /\ todo'[t] = {c[1]} /\ mine'[t][c[1]] = c[2]
            BY <1>4, <2>2, <3>1, SMT DEF ReportBegin, Goto, TypeOK, LocalsTypeOK, OthersStay,
                CallIsSound
        <3> QED BY <3>1, <3>2 DEF CallMay, CallIsSound, FollowsItsRun, Holds, Registering, Sent,
            Obtains,
                ClaimLocation, AtReceipt, BeforeSending, WhileSending, AfterSending, AtProvider
    <2> QED BY <2>1, <2>2
<1>5. ASSUME NEW B \in SUBSET offered, NEW r \in Run, SubmitBegin(t, r, B)
      PROVE  OthersStay(t) /\ CallMay(t) /\ FollowsItsRun(t)'
    <2>1. CASE UNCHANGED locals
        BY <1>1, <1>5, <2>1 DEF SubmitBegin
    <2>2. CASE ~UNCHANGED locals
        <3> DEFINE pages == {c[1] : c \in B}
                   handed(p) == CHOOSE a \in 0..MaxAttempt : <<p, a>> \in B
        <3>1. ASSUME NEW p \in pages PROVE <<p, handed(p)>> \in offered
            <4>1. PICK c \in B : c[1] = p
                OBVIOUS
            <4>2. c[2] \in 0..MaxAttempt /\ <<p, c[2]>> \in B
                BY <4>1 DEF TypeOK, RegistryTypeOK
            <4>3. <<p, handed(p)>> \in B
                BY <4>2
            <4> QED BY <4>3
        <3>2. /\ at' = [at EXCEPT ![t] = IF runStatus[r] = "cancelling" THEN "sbCancelling" ELSE "sbCheck"]
              /\ run' = [run EXCEPT ![t] = r]
              /\ todo' = [todo EXCEPT ![t] = pages]
              /\ mine' = [mine EXCEPT ![t] = [p \in Page |-> IF p \in pages THEN handed(p) ELSE 0]]
              /\ UNCHANGED <<acting, seen>>
              /\ at[t] = "idle"
            BY <1>5, <2>2 DEF SubmitBegin, Goto
        <3> HIDE DEF pages, handed
        <3>3. /\ OthersStay(t) /\ acting'[t] = {} /\ at'[t] \in {"sbCancelling", "sbCheck"}
              /\ todo'[t] = pages
              /\ mine'[t] = [p \in Page |-> IF p \in pages THEN handed(p) ELSE 0]
            BY <3>2 DEF TypeOK, LocalsTypeOK, OthersStay, CallIsSound
        <3>4. \A p \in Page : p \in todo'[t] => <<p, mine'[t][p]>> \in offered
            BY <3>1, <3>3
        <3> QED BY <3>3, <3>4 DEF CallMay, CallIsSound, FollowsItsRun, Holds, Registering, Sent,
            Obtains,
                ClaimLocation, AtReceipt, BeforeSending, WhileSending, AfterSending, AtProvider
    <2> QED BY <2>1, <2>2
<1> QED BY <1>2, <1>3, <1>4, <1>5 DEF UseOffers, Request

\* Finishing claims only removes them.
LEMMA FinishedClaims ==
    ASSUME NEW t \in Task, NEW S, FinishClaims(t, S), NEW p \in Page PROVE claim'[p] \in {0, claim[p]}
BY DEF FinishClaims

\* What the steps of a call do to the registered claims, when its rows change as they may.
LEMMA CallClaims ==
    ASSUME TypeOK, RegisteredIsCurrent, CallsFollowTheirRun, NEW t \in Task, Proceed(t), NEW p \in Page
    PROVE  ClaimMay(t, p)
<1>1. CASE RegisterClaim(t)
    <2>1. attempt' = attempt
        BY <1>1, SMT DEF RegisterClaim, TryFail, Fail, SetPage, db
    <2>2. PICK q \in todo[t] \cap acting[t] :
             \/ claim' = [claim EXCEPT ![q] = mine[t][q]] /\ UNCHANGED db
             \/ UNCHANGED claim
        BY <1>1 DEF RegisterClaim
    <2>3. claim'[p] = claim[p] \/ (p = q /\ claim'[p] = mine[t][p] /\ RowStays(p))
        BY <2>2 DEF TypeOK, RegistryTypeOK, RowStays, db
    <2> QED BY <1>1, <2>1, <2>2, <2>3 DEF ClaimMay, Registering, RegisterClaim
<1>2. CASE RetryWrite(t)
    <2>1. CASE UNCHANGED <<db, claim>>
        BY <2>1 DEF ClaimMay, db
    <2>2. ASSUME NEW q \in todo[t], Retry(q, mine[t][q], seen[t]), FinishClaims(t, {q})
          PROVE  ClaimMay(t, p)
        <3>1. attempt' = [attempt EXCEPT ![q] = mine[t][q] + 1] /\ attempt[q] = mine[t][q]
            BY <2>2 DEF Retry, Owns
        <3>2. CASE p = q
            BY <2>2, <3>1, <3>2 DEF FinishClaims, RegisteredIsCurrent, ClaimMay
        <3>3. CASE p # q
            BY <2>2, <3>1, <3>3, FinishedClaims DEF ClaimMay, TypeOK, StateTypeOK
        <3> QED BY <3>2, <3>3
    <2> QED BY <1>2, <2>1, <2>2 DEF RetryWrite
<1>3. ASSUME claim'[p] \in {0, claim[p]}, attempt' = attempt PROVE ClaimMay(t, p)
    BY <1>3 DEF ClaimMay
<1>4. CASE ClaimSelect(t) \/ ClaimPage(t) \/ ClaimReturn(t) \/ ReportWrite(t) \/ SubmitCancelling(t)
    BY <1>3, <1>4, FinishedClaims DEF ClaimSelect, ClaimPage, ClaimReturn, ReportWrite,
        SubmitCancelling,
        ClaimRender, Fail, Cancel, SetPage, registry, db
<1>5. CASE SubmitCheck(t) \/ SubmitSlot(t) \/ StagePage(t) \/ SendPage(t) \/ SubmitSent(t)
    BY <1>3, <1>5, FinishedClaims DEF SubmitCheck, SubmitSlot, StagePage, SendPage, SubmitSent,
        ClaimSend, Fail, Cancel, TryCancel, SetPage, registry, db
<1>6. CASE SubmitRecheck(t) \/ Analyze(t) \/ Answered(t) \/ ReceivePage(t) \/ Barrier(t)
    BY <1>3, <1>6 DEF SubmitRecheck, Analyze, Answered, ReceivePage, Barrier,
        MarkReceived, Cancel, TryCancel, SetPage, registry, db
<1>7. CASE RejectPage(t) \/ CommitPage(t) \/ FinishReceived(t) \/ FinalizeTerminal(t)
           \/ FinalizeCancel(t)
    BY <1>3, <1>7, FinishedClaims DEF RejectPage, CommitPage, FinishReceived, FinalizeTerminal,
        FinalizeCancel, FinishRun, Finalize, SetRun, Commit, Fail, TryFail, Cancel, SetPage, registry,
        db
<1>8. CASE FinishInterrupted(t) \/ FinishCancelled(t) \/ FinishFailed(t) \/ CancelWrite(t)
           \/ AuthorizeInsert(t)
    BY <1>3, <1>8, FinishedClaims DEF FinishInterrupted, FinishCancelled, FinishFailed, CancelWrite,
        AuthorizeInsert, RequestCancel, Fail, TryFail, Cancel, TryCancel, SetPage, db
<1> QED BY <1>1, <1>2, <1>4, <1>5, <1>6, <1>7, <1>8 DEF Proceed

\* Nothing is offered to the frontend but what a claim returns.
LEMMA CallOffers == ASSUME LocalsTypeOK, NEW t \in Task, Proceed(t) PROVE OffersMay(t)
<1>1. CASE ClaimReturn(t)
    <2>1. \A p \in acting[t] : Holds(t, p)
        BY <1>1 DEF ClaimReturn, Holds
    <2>2. at'[t] = "idle"
        BY <1>1 DEF ClaimReturn, Return, Goto, LocalsTypeOK
    <2> QED BY <1>1, <2>1, <2>2 DEF ClaimReturn, OffersMay
<1>2. CASE UNCHANGED offered
    BY <1>2 DEF OffersMay
<1>3. CASE ClaimSelect(t) \/ ClaimPage(t) \/ RegisterClaim(t) \/ ReportWrite(t) \/ SubmitCancelling(t)
           \/ SubmitCheck(t) \/ SubmitSlot(t) \/ StagePage(t) \/ SendPage(t)
    BY <1>2, <1>3 DEF ClaimSelect, ClaimPage, RegisterClaim, ReportWrite, SubmitCancelling, SubmitCheck,
        SubmitSlot, StagePage, SendPage
<1>4. CASE SubmitSent(t) \/ SubmitRecheck(t) \/ Analyze(t) \/ Answered(t) \/ ReceivePage(t)
           \/ Barrier(t) \/ RejectPage(t) \/ CommitPage(t) \/ FinishReceived(t)
    BY <1>2, <1>4 DEF SubmitSent, SubmitRecheck, Analyze, Answered, ReceivePage, Barrier, RejectPage,
        CommitPage, FinishReceived
<1>5. CASE FinalizeTerminal(t) \/ FinishInterrupted(t) \/ FinishCancelled(t) \/ FinishFailed(t)
           \/ CancelWrite(t) \/ FinalizeCancel(t) \/ AuthorizeInsert(t) \/ RetryWrite(t)
    BY <1>2, <1>5 DEF FinalizeTerminal, FinishInterrupted, FinishCancelled, FinishFailed, CancelWrite,
        FinalizeCancel, AuthorizeInsert, RetryWrite
<1> QED BY <1>1, <1>3, <1>4, <1>5 DEF Proceed

-----------------------------------------------------------------------------
(* The invariants about attempts.                                           *)

\* An attempt that has begun, or gone beyond its render, stays so.
LEMMA AttemptsProceed ==
    ASSUME TypeOK, TypeOK', RowsMay, NEW p \in Page, NEW a \in Nat
    PROVE  /\ Begun(p, a) => Begun(p, a)'
           /\ Past(p, a) => Past(p, a)'
<1>1. attempt[p] \in Nat /\ attempt'[p] \in Nat
    BY AttemptAssumption DEF TypeOK, StateTypeOK, Attempt
<1>2. CASE RowStays(p)
    BY <1>2 DEF RowStays, Begun, Past
<1>3. CASE attempt'[p] = attempt[p] /\ StatusMay(RunOf[p], pageStatus[p], pageStatus'[p])
    BY <1>1, <1>3 DEF StatusMay, Working, Committed, Begun, Past
<1>4. CASE attempt'[p] = attempt[p] + 1
    BY <1>1, <1>4 DEF Begun, Past
<1> QED BY <1>2, <1>3, <1>4 DEF RowsMay, RowMay

\* A step of the call t, seen from the attempts; any t, when the step is nobody's.
StepOf(t) ==
    /\ RowsMay
    /\ OthersStay(t)
    /\ t \in Task => CallMay(t)
    /\ \A p \in Page : /\ RowStays(p) \/ pageStatus[p] = "absent" \/ (t \in Task /\ Entitled(t, p))
                       /\ (t \in Task /\ ClaimMay(t, p)) \/ UNCHANGED <<claim, attempt>>
    /\ (t \in Task /\ OffersMay(t)) \/ offered' \subseteq offered

\* The attempts in the hands of calls and of the frontend stay begun.
LEMMA HeldPreserved ==
    ASSUME TypeOK, TypeOK', HeldIsBegun, NEW t, StepOf(t) PROVE HeldIsBegun'
<1>1. ASSUME NEW u \in Task, NEW p \in Page, Holds(u, p)' PROVE Begun(p, mine[u][p])'
    <2>1. mine[u][p] \in Nat
        BY AttemptAssumption DEF TypeOK, LocalsTypeOK
    <2>2. CASE Holds(u, p) /\ mine'[u][p] = mine[u][p]
        BY <2>1, <2>2, AttemptsProceed DEF StepOf, HeldIsBegun, Begun
    <2>3. CASE u # t
        BY <1>1, <2>2, <2>3 DEF StepOf, OthersStay, Holds
    <2>4. CASE u = t
        <3>1. CASE <<p, mine'[u][p]>> \in offered
            <4>1. Begun(p, mine'[u][p]) /\ mine'[u][p] \in Nat
                BY <3>1, AttemptAssumption DEF HeldIsBegun, TypeOK, LocalsTypeOK
            <4> QED BY <4>1, AttemptsProceed DEF StepOf, Begun
        <3>2. CASE Owns(p, mine[u][p], "rendering")'
            BY <3>2 DEF Owns, Begun
        <3> QED BY <1>1, <2>2, <2>4, <3>1, <3>2 DEF StepOf, CallMay, Obtains
    <2> QED BY <2>3, <2>4
<1>2. ASSUME NEW c \in offered' PROVE Begun(c[1], c[2])'
    <2>1. c[1] \in Page /\ c[2] \in Nat
        BY AttemptAssumption DEF TypeOK, RegistryTypeOK
    <2>2. Begun(c[1], c[2])
        BY <1>2, <2>1 DEF StepOf, OffersMay, HeldIsBegun
    <2> QED BY <2>1, <2>2, AttemptsProceed DEF StepOf, Begun
<1> QED BY <1>1, <1>2 DEF HeldIsBegun

\* The registered claims stay those of the current attempts.
LEMMA RegisteredPreserved ==
    ASSUME TypeOK, TypeOK', RegisteredIsCurrent, RegistrationIsOwn, NEW t, StepOf(t)
    PROVE  RegisteredIsCurrent'
<1> SUFFICES ASSUME NEW p \in Page, claim'[p] # 0
             PROVE  claim'[p] = attempt'[p] /\ Begun(p, claim[p])'
    BY DEF RegisteredIsCurrent
<1>1. attempt'[p] = attempt[p]
    BY DEF StepOf, ClaimMay
<1>2. CASE claim'[p] = claim[p]
    <2>1. claim[p] = attempt[p] /\ Begun(p, claim[p]) /\ claim[p] \in Nat
        BY <1>2, AttemptAssumption DEF RegisteredIsCurrent, TypeOK, RegistryTypeOK
    <2> QED BY <1>1, <1>2, <2>1, AttemptsProceed DEF StepOf, Begun
<1>3. CASE t \in Task /\ Registering(t, p) /\ claim'[p] = mine[t][p] /\ RowStays(p)
    BY <1>3 DEF RegistrationIsOwn, Owns, RowStays, Begun
<1> QED BY <1>2, <1>3 DEF StepOf, ClaimMay

\* What a call has still to register stays its own.
LEMMA RegistrationPreserved ==
    ASSUME TypeOK, HeldIsBegun, RegisteredIsCurrent, RegistrationIsOwn, NEW t, StepOf(t)
    PROVE  RegistrationIsOwn'
<1> SUFFICES ASSUME NEW u \in Task, NEW p \in Page, Registering(u, p)'
             PROVE  /\ Owns(p, mine[u][p], "rendering")'
                    /\ claim'[p] = 0
                    /\ <<p, mine'[u][p]>> \notin offered'
                    /\ \A v \in Task \ {u} : Holds(v, p)' => mine'[v][p] # mine'[u][p]
    BY DEF RegistrationIsOwn
<1>1. CASE u # t
    <2>1. Registering(u, p) /\ mine'[u] = mine[u]
        BY <1>1 DEF StepOf, OthersStay, Registering
    <2>2. /\ Owns(p, mine[u][p], "rendering") /\ claim[p] = 0 /\ <<p, mine[u][p]>> \notin offered
          /\ \A v \in Task \ {u} : Holds(v, p) => mine[v][p] # mine[u][p]
        BY <2>1 DEF RegistrationIsOwn
    <2>3. t \in Task => ~(Holds(t, p) /\ mine[t][p] = mine[u][p])
        BY <1>1, <2>2
    <2>4. RowStays(p)
        BY <2>2, <2>3 DEF StepOf, Entitled, Owns
    <2>5. claim'[p] = 0
        <3>1. t \in Task => ~Registering(t, p)
            BY <2>2, <2>3 DEF RegistrationIsOwn, Owns, Registering, Holds
        <3> QED BY <2>2, <3>1 DEF StepOf, ClaimMay
    <2>6. <<p, mine[u][p]>> \notin offered'
        BY <2>2, <2>3 DEF StepOf, OffersMay
    <2>7. ASSUME NEW v \in Task \ {u}, Holds(v, p)' PROVE mine'[v][p] # mine[u][p]
        <3>1. CASE v # t
            BY <2>2, <2>7, <3>1 DEF StepOf, OthersStay, Holds
        <3>2. CASE v = t
            <4>1. Obtains(t, p)
                BY <2>7, <3>2 DEF StepOf, CallMay
            <4> QED BY <2>2, <2>3, <3>2, <4>1 DEF Obtains, Owns
        <3> QED BY <3>1, <3>2
    <2> QED BY <2>1, <2>2, <2>4, <2>5, <2>6, <2>7 DEF Owns, RowStays
<1>2. CASE u = t
    <2>1. Registers(t, p) /\ at'[t] # "idle" /\ OthersStay(t)
        BY <1>2 DEF StepOf, CallMay, Registering
    <2>2. <<p, mine'[u][p]>> \in offered' => <<p, mine'[u][p]>> \in offered
        BY <2>1 DEF StepOf, OffersMay
    <2>3. CASE Registering(t, p) /\ mine'[t][p] = mine[t][p] /\ RowStays(p)
        <3>1. /\ Owns(p, mine[u][p], "rendering") /\ claim[p] = 0 /\ <<p, mine[u][p]>> \notin offered
              /\ \A v \in Task \ {u} : Holds(v, p) => mine[v][p] # mine[u][p]
            BY <1>2, <2>3 DEF RegistrationIsOwn
        <3> QED BY <1>2, <2>1, <2>2, <2>3, <3>1 DEF Owns, RowStays, Registers, OthersStay, Holds
    <2>4. CASE pageStatus[p] = "queued" /\ Owns(p, mine[t][p], "rendering")' /\ attempt'[p] = attempt[p]
        <3>1. mine'[u][p] = attempt[p]
            BY <1>2, <2>4 DEF Owns
        <3>2. ~Begun(p, attempt[p])
            BY <2>4, AttemptAssumption DEF Begun, TypeOK, StateTypeOK, Attempt
        <3>3. claim'[p] = 0
            BY <2>1, <3>2 DEF RegisteredIsCurrent, Registers
        <3>4. <<p, mine'[u][p]>> \notin offered'
            BY <2>2, <3>1, <3>2 DEF HeldIsBegun
        <3>5. \A v \in Task \ {u} : Holds(v, p)' => mine'[v][p] # mine'[u][p]
            BY <1>2, <2>1, <3>1, <3>2 DEF HeldIsBegun, OthersStay, Holds
        <3> QED BY <1>2, <2>4, <3>3, <3>4, <3>5
    <2> QED BY <2>1, <2>3, <2>4 DEF Registers
<1> QED BY <1>1, <1>2

\* What a call has sent stays its own.
LEMMA SentPreserved ==
    ASSUME TypeOK, TypeOK', SentIsOwn, NEW t, StepOf(t) PROVE SentIsOwn'
<1>0. \A u \in Task, p \in Page : mine[u][p] \in Nat /\ attempt[p] \in Nat
    BY AttemptAssumption DEF TypeOK, StateTypeOK, LocalsTypeOK, Attempt
<1>1. ASSUME NEW p \in Page, t \in Task, Owns(p, mine[t][p], "rendering"), NEW u \in Task, Sent(u, p)
      PROVE  mine[u][p] # mine[t][p]
    BY <1>0, <1>1 DEF SentIsOwn, Past, Owns
<1> SUFFICES ASSUME NEW u \in Task, NEW p \in Page, Sent(u, p)'
             PROVE  /\ Past(p, mine[u][p])'
                    /\ at'[u] \in UntilAnswer => Owns(p, mine[u][p], "sending")'
                    /\ \A v \in Task \ {u} : Sent(v, p)' => mine'[v][p] # mine'[u][p]
    BY DEF SentIsOwn
<1>2. CASE u # t
    <2>1. Sent(u, p) /\ mine'[u] = mine[u] /\ at'[u] = at[u]
        BY <1>2 DEF StepOf, OthersStay, Sent
    <2>2. /\ Past(p, mine[u][p])
          /\ at[u] \in UntilAnswer => Owns(p, mine[u][p], "sending")
          /\ \A v \in Task \ {u} : Sent(v, p) => mine[v][p] # mine[u][p]
        BY <2>1 DEF SentIsOwn
    <2>3. Past(p, mine[u][p])'
        BY <1>0, <2>1, <2>2, AttemptsProceed DEF StepOf, Past
    <2>4. ASSUME at[u] \in UntilAnswer PROVE Owns(p, mine[u][p], "sending")'
        <3>1. Owns(p, mine[u][p], "sending")
            BY <2>2, <2>4
        <3>2. t \in Task => ~(at[t] \in AtReceipt /\ p \in acting[t] /\ mine[t][p] = mine[u][p])
            BY <1>2, <2>2 DEF Sent, AfterSending
        <3>3. RowStays(p)
            BY <3>1, <3>2 DEF StepOf, Entitled, Owns
        <3> QED BY <2>1, <3>1, <3>3 DEF Owns, RowStays
    <2>5. ASSUME NEW v \in Task \ {u}, Sent(v, p)' PROVE mine'[v][p] # mine[u][p]
        <3>1. CASE v # t
            BY <2>2, <2>5, <3>1 DEF StepOf, OthersStay, Sent
        <3>2. CASE v = t
            <4>1. Sends(t, p)
                BY <2>5, <3>2 DEF StepOf, CallMay
            <4> QED BY <1>1, <2>1, <2>2, <3>2, <4>1 DEF Sends
        <3> QED BY <3>1, <3>2
    <2> QED BY <2>1, <2>3, <2>4, <2>5
<1>3. CASE u = t
    <2>1. Sends(t, p) /\ mine'[t][p] = mine[t][p] /\ OthersStay(t)
        BY <1>3 DEF StepOf, CallMay, Sends
    <2>2. \A v \in Task \ {u} : Sent(v, p)' => Sent(v, p) /\ mine'[v][p] = mine[v][p]
        BY <1>3, <2>1 DEF OthersStay, Sent
    <2>3. CASE Sent(t, p) /\ (at'[t] \in UntilAnswer => at[t] \in UntilAnswer)
        <3>1. /\ Past(p, mine[u][p])
              /\ at[u] \in UntilAnswer => Owns(p, mine[u][p], "sending")
              /\ \A v \in Task \ {u} : Sent(v, p) => mine[v][p] # mine[u][p]
            BY <1>3, <2>3 DEF SentIsOwn
        <3>2. Past(p, mine[u][p])'
            BY <1>0, <1>3, <2>1, <3>1, AttemptsProceed DEF StepOf, Past
        <3>3. ASSUME at'[u] \in UntilAnswer PROVE Owns(p, mine[u][p], "sending")'
            <4>1. Owns(p, mine[u][p], "sending") /\ at[u] \in UntilAnswer
                BY <1>3, <2>3, <3>1, <3>3
            <4>2. at[u] \notin AtReceipt
                BY <4>1 DEF UntilAnswer, WhileSending, AtProvider, AtReceipt
            <4>3. RowStays(p)
                BY <1>3, <4>1, <4>2 DEF StepOf, Entitled, Owns
            <4> QED BY <1>3, <2>1, <4>1, <4>3 DEF Owns, RowStays
        <3> QED BY <1>3, <2>1, <2>2, <3>1, <3>2, <3>3
    <2>4. CASE Owns(p, mine[t][p], "rendering") /\ Owns(p, mine[t][p], "sending")'
        <3>1. Past(p, mine[u][p])'
            BY <1>3, <2>4 DEF Owns, Past
        <3> QED BY <1>1, <1>3, <2>1, <2>2, <2>4, <3>1
    <2> QED BY <2>1, <2>3, <2>4 DEF Sends
<1> QED BY <1>2, <1>3

\* So each step keeps what is known about attempts and calls.
LEMMA AttemptsPreserved ==
    ASSUME TypeOK, TypeOK', AttemptsAreSound, NEW t, StepOf(t) PROVE AttemptsAreSound'
<1>1. CallsAreSound'
    BY DEF AttemptsAreSound, CallsAreSound, CallIsSound, StepOf, OthersStay, CallMay
<1> QED
    BY <1>1, HeldPreserved, RegisteredPreserved, RegistrationPreserved,
        SentPreserved DEF AttemptsAreSound

-----------------------------------------------------------------------------
(* Steps of calls, and the other steps.                                     *)

\* What the steps of a call have in common.
LEMMA CallSteps ==
    ASSUME Inv, TypeOK', NEW t \in Task, Proceed(t) \/ UseOffers(t) \/ Request(t)
    PROVE  StepOf(t) /\ FollowsItsRun(t)'
<1>0. /\ TypeOK /\ LocalsTypeOK /\ CallsAreSound /\ CallIsSound(t) /\ RegisteredIsCurrent
      /\ CallsFollowTheirRun /\ FollowsItsRun(t)
    BY DEF Inv, TypeOK, AttemptsAreSound, CallsAreSound, CallsFollowTheirRun
<1>1. CASE Proceed(t)
    <2>1. RowsBy(t) /\ OffersMay(t) /\ \A p \in Page : ClaimMay(t, p)
        BY <1>0, <1>1, CallRows, CallOffers, CallClaims
    <2>2. OthersStay(t) /\ CallMay(t) /\ FollowsItsRun(t)'
        <3>1. CASE ClaimSelect(t) \/ ClaimPage(t) \/ RegisterClaim(t) \/ SendPage(t)
            BY <1>0, <3>1, ClaimSelectCall, ClaimPageCall, RegisterClaimCall, SendPageCall
        <3>2. CASE CarriesOn(t)
            <4>1. \A p \in Page : ~Registering(t, p)'
                BY <3>2 DEF CarriesOn, Registering, ClaimLocation
            <4>2. \A p \in Page : Sent(t, p)' => Sends(t, p)
                BY <3>2 DEF CarriesOn, Sends
            <4> QED
                BY <3>2, <4>1, <4>2 DEF CarriesOn, CallMay, Obtains, FollowsItsRun, ClaimLocation
        <3> QED BY <1>0, <1>1, <3>1, <3>2, CallCarriesOn DEF Proceed
    <2> QED BY <2>1, <2>2 DEF StepOf, RowsBy
<1>2. CASE UseOffers(t) \/ Request(t)
    <2>1. UNCHANGED <<db, claim>> /\ offered' \subseteq offered
        BY <1>2 DEF UseOffers, Request, ReportBegin, SubmitBegin, AuthorizeBegin, CancelBegin,
            ClaimBegin,
            RetryBegin, registry
    <2>2. \A p \in Page : RowStays(p)
        BY <2>1 DEF RowStays, db
    <2> QED BY <1>0, <1>2, <2>1, <2>2, BeginCall DEF StepOf, RowsMay, db
<1> QED BY <1>1, <1>2

\* A step that is not a step of a call leaves the calls as they are.
LEMMA OtherSteps ==
    ASSUME Inv, Next, ~Restart, \A u \in Task : ~(Proceed(u) \/ UseOffers(u) \/ Request(u)), NEW t
    PROVE  StepOf(t) /\ (t \in Task => FollowsItsRun(t)')
<1>0. /\ TypeOK /\ AbsentRunsAreEmpty /\ CallsAreSound /\ RegistrationIsOwn /\ CallsFollowTheirRun
      /\ RowsMay /\ RunsMay
    BY StepMoves DEF Inv, RowsAreSound, AttemptsAreSound
<1>1. UNCHANGED <<locals, claim, attempt>> /\ offered' \subseteq offered
    <2>1. ASSUME NEW r \in Run,
                 CreateRun(r) \/ PauseRun(r) \/ ResumeRun(r) \/ RecheckRun(r) \/ BindingChanges(r)
          PROVE  UNCHANGED <<locals, claim, attempt, offered>>
        BY <2>1 DEF CreateRun, PauseRun, ResumeRun, RecheckRun, BindingChanges, InsertRun, Pause,
            Resume,
            SetRun, registry, db
    <2>2. CASE DropOffer \/ EnterMaintenance \/ LeaveMaintenance
        BY <2>2 DEF DropOffer, EnterMaintenance, LeaveMaintenance, registry, db
    <2> QED BY <2>1, <2>2 DEF Next
<1>2. \A p \in Page : RowStays(p) \/ pageStatus[p] = "absent"
    BY <1>0, OtherRows
<1>3. ASSUME t \in Task PROVE CallMay(t) /\ FollowsItsRun(t)'
    <2>1. CallIsSound(t) /\ FollowsItsRun(t)
        BY <1>0, <1>3 DEF CallsAreSound, CallsFollowTheirRun
    <2>2. CallIsSound(t)'
        BY <1>1, <2>1 DEF CallIsSound, locals
    <2>3. \A p \in Page : /\ Holds(t, p)' => Obtains(t, p)
                          /\ Sent(t, p)' => Sends(t, p)
        BY <1>1 DEF Holds, Obtains, Sent, Sends, locals
    <2>4. ASSUME NEW p \in Page, Registering(t, p)' PROVE Registers(t, p)
        <3>1. Registering(t, p) /\ mine'[t][p] = mine[t][p]
            BY <1>1, <2>4 DEF Registering, locals
        <3>2. RowStays(p)
            BY <1>0, <1>2, <1>3, <3>1 DEF RegistrationIsOwn, Owns
        <3> QED BY <1>1, <3>1, <3>2 DEF Registers
    <2>5. FollowsItsRun(t)'
        <3>1. run[t] \in Run
            BY <1>0, <1>3 DEF TypeOK, LocalsTypeOK
        <3>2. permit[run[t]] \/ Terminal(run[t]) => permit'[run[t]] \/ Terminal(run[t])'
            <4>1. Terminal(run[t]) => runStatus'[run[t]] \in {"cancelled", "completed"}
                BY <1>0, <3>1 DEF RunsMay, RunMay, Terminal, Live
            <4>2. permit[run[t]] => permit'[run[t]] \/ runStatus'[run[t]] \in {"cancelled", "completed"}
                BY <1>0, <3>1 DEF RunsMay, Terminal
            <4> QED BY <1>1, <4>1, <4>2 DEF Terminal, locals
        <3> QED BY <1>1, <2>1, <3>2 DEF FollowsItsRun, PagesOf, locals
    <2> QED BY <2>2, <2>3, <2>4, <2>5 DEF CallMay
<1> QED BY <1>0, <1>1, <1>2, <1>3 DEF StepOf, OthersStay, locals

\* The other calls find their runs as they rely on.
LEMMA FollowingPreserved ==
    ASSUME TypeOK, CallsFollowTheirRun, RunsMay, NEW t, OthersStay(t), t \in Task => FollowsItsRun(t)'
    PROVE  CallsFollowTheirRun'
<1> SUFFICES ASSUME NEW u \in Task \ {t} PROVE FollowsItsRun(u)'
    BY DEF CallsFollowTheirRun
<1>1. /\ at'[u] = at[u] /\ run'[u] = run[u] /\ todo'[u] = todo[u] /\ seen'[u] = seen[u]
      /\ FollowsItsRun(u) /\ run[u] \in Run
    BY DEF OthersStay, CallsFollowTheirRun, TypeOK, LocalsTypeOK
<1>2. permit[run[u]] => permit'[run[u]] \/ Terminal(run[u])'
    BY <1>1 DEF RunsMay, Terminal
<1>3. Terminal(run[u]) => Terminal(run[u])'
    BY <1>1 DEF RunsMay, RunMay, Terminal, Live
<1> QED BY <1>1, <1>2, <1>3 DEF FollowsItsRun, PagesOf

-----------------------------------------------------------------------------
(* Maintenance.                                                             *)

\* A call that has begun is somewhere, and leaves the gate alone.
LEMMA CallsAreBusy == ASSUME NEW t \in Task, Proceed(t) PROVE at[t] # "idle" /\ UNCHANGED exclusive
<1>1. CASE ClaimSelect(t) \/ ClaimPage(t) \/ RegisterClaim(t) \/ ClaimReturn(t) \/ ReportWrite(t)
           \/ SubmitCancelling(t) \/ SubmitCheck(t) \/ SubmitSlot(t) \/ StagePage(t)
    BY <1>1 DEF ClaimSelect, ClaimPage, RegisterClaim, ClaimReturn, ReportWrite, SubmitCancelling,
        SubmitCheck, SubmitSlot, StagePage
<1>2. CASE SendPage(t) \/ SubmitSent(t) \/ SubmitRecheck(t) \/ Analyze(t) \/ Answered(t)
           \/ ReceivePage(t) \/ Barrier(t) \/ RejectPage(t) \/ CommitPage(t)
    BY <1>2 DEF SendPage, SubmitSent, SubmitRecheck, Analyze, Answered, ReceivePage, Barrier,
        RejectPage,
        CommitPage
<1>3. CASE FinishReceived(t) \/ FinalizeTerminal(t) \/ FinishInterrupted(t) \/ FinishCancelled(t)
           \/ FinishFailed(t) \/ CancelWrite(t) \/ FinalizeCancel(t)
           \/ AuthorizeInsert(t) \/ RetryWrite(t)
    BY <1>3 DEF FinishReceived, FinalizeTerminal, FinishInterrupted, FinishCancelled, FinishFailed,
        CancelWrite, FinalizeCancel, AuthorizeInsert, RetryWrite
<1> QED BY <1>1, <1>2, <1>3 DEF Proceed

\* While maintenance is alone no command begins, and the rows stay as they are.
LEMMA NothingUnderMaintenance ==
    ASSUME TypeOK, ActivePagesCovered, MaintenanceAlone, exclusive, Next
    PROVE  UNCHANGED db /\ (Restart \/ UNCHANGED <<permit, at>>)
<1>1. (\A r \in Run : ~permit[r]) /\ (\A t \in Task : at[t] = "idle")
    BY DEF MaintenanceAlone
<1>2. ASSUME NEW t \in Task, Proceed(t) PROVE FALSE
    BY <1>1, <1>2, CallsAreBusy
<1>3. ASSUME NEW t \in Task, UseOffers(t) PROVE UNCHANGED <<db, permit, at>>
    <2>1. ASSUME NEW c \in offered, ReportBegin(t, c) PROVE UNCHANGED <<db, permit, at>>
        <3>1. RunOf[c[1]] \in Run
            BY RunAssumption DEF TypeOK, RegistryTypeOK
        <3> QED BY <1>1, <2>1, <3>1 DEF ReportBegin, registry, locals
    <2>2. ASSUME NEW B \in SUBSET offered, NEW r \in Run, SubmitBegin(t, r, B)
          PROVE  UNCHANGED <<db, permit, at>>
        BY <1>1, <2>2 DEF SubmitBegin, registry, locals
    <2> QED BY <1>3, <2>1, <2>2 DEF UseOffers
<1>4. ASSUME NEW t \in Task, Request(t) PROVE FALSE
    <2>1. ASSUME NEW r \in Run, AuthorizeBegin(t, r) \/ CancelBegin(t, r) \/ ClaimBegin(t, r)
          PROVE  FALSE
        BY <1>1, <2>1 DEF AuthorizeBegin, CancelBegin, ClaimBegin, CanLease
    <2>2. ASSUME NEW p \in Page, RetryBegin(t, p) PROVE FALSE
        BY <1>1, <2>2, RunAssumption DEF RetryBegin
    <2> QED BY <1>4, <2>1, <2>2 DEF Request
<1>5. ASSUME NEW r \in Run,
             CreateRun(r) \/ PauseRun(r) \/ ResumeRun(r) \/ RecheckRun(r) \/ BindingChanges(r)
      PROVE  UNCHANGED <<db, permit, at>>
    BY <1>1, <1>5 DEF CreateRun, PauseRun, ResumeRun, RecheckRun, BindingChanges, CanLease, locals
<1>6. CASE DropOffer \/ EnterMaintenance \/ LeaveMaintenance
    BY <1>6 DEF DropOffer, EnterMaintenance, LeaveMaintenance, registry, locals
<1>7. CASE Restart
    <2>1. \A p \in Page : pageStatus[p] \notin Working
        BY <1>1, RunAssumption DEF ActivePagesCovered
    <2>2. UNCHANGED <<pageStatus, attempt, runStatus>>
        BY <1>7, <2>1 DEF Restart, RecoverPages, Working, TypeOK, StateTypeOK
    <2> QED BY <1>7, <2>2 DEF db
<1> QED
    BY <1>2, <1>3, <1>4, <1>5, <1>6, <1>7 DEF Next, db

\* Only EnterMaintenance takes the gate.
LEMMA MaintenancePreserved ==
    ASSUME TypeOK, ActivePagesCovered, MaintenanceAlone, Next PROVE MaintenanceAlone'
<1>1. CASE exclusive
    <2>1. CASE Restart
        BY <2>1 DEF Restart, MaintenanceAlone
    <2>2. CASE UNCHANGED <<permit, at>>
        BY <1>1, <2>2 DEF MaintenanceAlone
    <2> QED BY <1>1, <2>1, <2>2, NothingUnderMaintenance
<1>2. CASE ~exclusive
    <2>1. CASE EnterMaintenance
        BY <2>1 DEF EnterMaintenance, MaintenanceAlone, registry, locals
    <2>2. ASSUME NEW t \in Task, Proceed(t) PROVE UNCHANGED exclusive
        BY <2>2, CallsAreBusy
    <2>3. ASSUME NEW t \in Task, UseOffers(t) \/ Request(t) PROVE UNCHANGED exclusive
        BY <2>3 DEF UseOffers, Request, ReportBegin, SubmitBegin, AuthorizeBegin, CancelBegin,
            ClaimBegin, RetryBegin
    <2>4. ASSUME NEW r \in Run,
                 CreateRun(r) \/ PauseRun(r) \/ ResumeRun(r) \/ RecheckRun(r) \/ BindingChanges(r)
          PROVE  UNCHANGED exclusive
        BY <2>4 DEF CreateRun, PauseRun, ResumeRun, RecheckRun, BindingChanges
    <2>5. CASE DropOffer \/ LeaveMaintenance \/ Restart
        BY <1>2, <2>5 DEF DropOffer, LeaveMaintenance, Restart, MaintenanceAlone
    <2> QED BY <1>2, <2>1, <2>2, <2>3, <2>4, <2>5 DEF Next, MaintenanceAlone
<1> QED BY <1>1, <1>2

-----------------------------------------------------------------------------
(* The invariant is kept.                                                   *)

\* Every step keeps it.
LEMMA InvStep == ASSUME Inv, [Next]_vars PROVE Inv'
<1>0. /\ TypeOK /\ TypeOK' /\ RowsAreSound /\ CallsFollowTheirRun /\ AttemptsAreSound
      /\ ActivePagesCovered /\ TerminalRunHasNoWorkingPage /\ AbsentRunsAreEmpty /\ MaintenanceAlone
    BY TypeStep DEF Inv, RowsAreSound
<1>1. CASE Restart
    <2>1. RowsAreSound'
        <3>1. ActivePagesCovered' /\ TerminalRunHasNoWorkingPage'
            BY <1>0, <1>1, RestartRows DEF ActivePagesCovered, TerminalRunHasNoWorkingPage
        <3>2. AbsentRunsAreEmpty'
            BY <1>0, <1>1, RestartRows DEF AbsentRunsAreEmpty, RowsMay, RowStays, RowMay, StatusMay,
                Working
        <3> QED BY <1>1, <3>1, <3>2 DEF RowsAreSound, Restart, MaintenanceAlone
    <2>2. \A t \in Task : at'[t] = "idle" /\ acting'[t] = {} /\ todo'[t] = {}
        BY <1>1 DEF Restart
    <2>3. CallsFollowTheirRun'
        BY <2>2 DEF CallsFollowTheirRun, FollowsItsRun, ClaimLocation
    <2>4. AttemptsAreSound'
        <3>1. offered' = {} /\ \A p \in Page : claim'[p] = 0
            BY <1>1 DEF Restart, NoAttempt
        <3>2. \A t \in Task, p \in Page : ~Holds(t, p)' /\ ~Registering(t, p)' /\ ~Sent(t, p)'
            BY <2>2 DEF Holds, Registering, Sent
        <3> QED
            BY <2>2, <3>1, <3>2 DEF AttemptsAreSound, CallsAreSound, CallIsSound, HeldIsBegun,
                RegisteredIsCurrent, RegistrationIsOwn, SentIsOwn, AtReceipt
    <2> QED BY <1>0, <2>1, <2>3, <2>4 DEF Inv
<1>2. CASE Next /\ ~Restart
    <2>1. PICK t : StepOf(t) /\ (t \in Task => FollowsItsRun(t)')
        BY <1>0, <1>2, CallSteps, OtherSteps
    <2>2. RowsMay /\ RunsMay
        BY <1>2, StepMoves
    <2>3. RowsAreSound'
        BY <1>0, <1>2, <2>2, MovesKeepRows, MaintenancePreserved DEF RowsAreSound
    <2>4. CallsFollowTheirRun'
        BY <1>0, <2>1, <2>2, FollowingPreserved DEF StepOf
    <2>5. AttemptsAreSound'
        BY <1>0, <2>1, AttemptsPreserved
    <2> QED BY <1>0, <2>3, <2>4, <2>5 DEF Inv
<1>3. CASE UNCHANGED vars
    <2>1. RowsAreSound'
        BY <1>0, <1>3 DEF RowsAreSound, ActivePagesCovered, TerminalRunHasNoWorkingPage,
            AbsentRunsAreEmpty,
            MaintenanceAlone, Terminal, vars, db, registry, locals
    <2>2. CallsFollowTheirRun'
        BY <1>0, <1>3 DEF CallsFollowTheirRun, FollowsItsRun, Terminal, vars, db, registry, locals
    <2>3. StepOf(0)
        BY <1>0, <1>3 DEF StepOf, RowsMay, RowStays, OthersStay, CallMay, CallsAreSound, CallIsSound,
            Obtains,
            Registers, Sends, Holds, Registering, Sent, AttemptsAreSound, vars, db, registry, locals
    <2>4. AttemptsAreSound'
        BY <1>0, <2>3, AttemptsPreserved
    <2> QED BY <1>0, <2>1, <2>2, <2>4 DEF Inv
<1> QED BY <1>1, <1>2, <1>3

\* The initial states satisfy it.
LEMMA InvInitially == Init => Inv
<1> SUFFICES ASSUME Init PROVE Inv
    OBVIOUS
<1>1. TypeOK
    BY TypeInitially
<1>2. RowsAreSound
    BY DEF Init, StateInit, RowsAreSound, ActivePagesCovered, TerminalRunHasNoWorkingPage,
        AbsentRunsAreEmpty,
        MaintenanceAlone, Working
<1>3. \A t \in Task : at[t] = "idle" /\ acting[t] = {}
    BY DEF Init
<1>4. CallsFollowTheirRun
    BY <1>3 DEF CallsFollowTheirRun, FollowsItsRun, ClaimLocation
<1>5. \A t \in Task, p \in Page : ~Holds(t, p) /\ ~Registering(t, p) /\ ~Sent(t, p)
    BY <1>3 DEF Holds, Registering, Sent, BeforeSending, WhileSending
<1>6. AttemptsAreSound
    BY <1>3, <1>5 DEF Init, NoAttempt, AttemptsAreSound, CallsAreSound, CallIsSound, HeldIsBegun,
        RegisteredIsCurrent, RegistrationIsOwn, SentIsOwn, AtReceipt
<1> QED BY <1>1, <1>2, <1>4, <1>6 DEF Inv

\* So every reachable state does.
LEMMA InvAlways == Spec => []Inv
BY InvInitially, InvStep, PTL DEF Spec

-----------------------------------------------------------------------------
(* The theorems.                                                            *)

\* A page being rendered, sent or parsed always belongs to a run that holds its
\* maintenance permit: no order of commands lets finish_run drop the permit too early.
THEOREM PermitCoversWork == Spec => []ActivePagesCovered
<1>1. Inv => ActivePagesCovered
    BY DEF Inv, RowsAreSound
<1> QED BY <1>1, InvAlways, PTL

\* A completed or cancelled run has no page under way.
THEOREM EndedRunsAreQuiet == Spec => []TerminalRunHasNoWorkingPage
<1>1. Inv => TerminalRunHasNoWorkingPage
    BY DEF Inv, RowsAreSound
<1> QED BY <1>1, InvAlways, PTL

\* While maintenance owns the gate, no indexing command changes a run or a page.
THEOREM MaintenanceIsExclusive == Spec => MaintenanceExcludesIndexing
<1>1. Inv /\ [Next]_vars => [exclusive => UNCHANGED db]_vars
    BY NothingUnderMaintenance DEF Inv, RowsAreSound, vars, db
<1> QED BY <1>1, InvAlways, PTL DEF Spec, MaintenanceExcludesIndexing

\* The rows are those the calls and the registry of claims believe they own: a page whose
\* request is at the provider stays with the call that sent it, and a queued page has no
\* claim that would make register_claim refuse it.
THEOREM PagesStayOwned == Spec => []OwnershipIsKept
<1>1. ASSUME Inv PROVE OwnerKeepsPages
    <2> SUFFICES ASSUME NEW t \in Task, at[t] \in AtProvider, NEW p \in acting[t]
                 PROVE  Owns(p, mine[t][p], "sending")
        BY DEF OwnerKeepsPages, OwnsAll
    <2>1. p \in Page
        BY <1>1 DEF Inv, TypeOK, LocalsTypeOK
    <2>2. Sent(t, p) /\ at[t] \in UntilAnswer
        BY DEF Sent, AfterSending, UntilAnswer
    <2> QED BY <1>1, <2>1, <2>2 DEF Inv, AttemptsAreSound, SentIsOwn
<1>2. ASSUME Inv PROVE QueuedPagesHaveNoClaim
    BY <1>2, AttemptAssumption DEF Inv, TypeOK, StateTypeOK, Attempt, AttemptsAreSound,
        RegisteredIsCurrent,
        Begun, QueuedPagesHaveNoClaim
<1>3. Inv => OwnershipIsKept
    BY <1>1, <1>2 DEF OwnershipIsKept
<1> QED BY <1>3, InvAlways, PTL

\* Indexing implements the ledger of attempts: no attempt goes to the provider twice, an
\* answer is kept only in an open run, and a closed run starts nothing.
THEOREM LedgerIsKept == Spec => ImplementsLedger
<1> DEFINE shown == <<[r \in Run |-> PhaseOf(r)], [p \in Page |-> [a \in Attempt |-> EntryOf(p, a)]]>>
<1>1. ASSUME Inv, [Next]_vars PROVE [Ledger!Record]_shown
    <2>1. CASE Next
        <3>1. TypeOK /\ TypeOK' /\ RowsMay /\ \A r \in Run : RunMay(r)
            BY <1>1, <2>1, TypeStep, StepMoves DEF Inv
        <3> QED BY <3>1, LedgerStep
    <2>2. CASE UNCHANGED vars
        <3>1. /\ \A r \in Run : PhaseOf(r)' = PhaseOf(r)
              /\ \A p \in Page, a \in Attempt : EntryOf(p, a)' = EntryOf(p, a)
            BY <2>2 DEF vars, db, PhaseOf, EntryOf, Terminal
        <3> QED BY <3>1
    <2> QED BY <1>1, <2>1, <2>2
<1>2. Inv /\ [Next]_vars => [Ledger!Record]_shown
    BY <1>1
<1> QED BY <1>2, LedgerInitially, InvAlways, PTL DEF Spec, ImplementsLedger, Ledger!LedgerSpec

-----------------------------------------------------------------------------
(***************************************************************************)
(* PageContents: what the commit of a page does to its blocks, the         *)
(* corrections and the search rows.                                        *)
(***************************************************************************)

\* The target is recognized on the page as it is now.
Here(t) ==
    /\ blocks[t[1]] # None /\ blocks[t[1]].version = page.version
    /\ blocks[t[1]].value[t[2]] # None

\* The search rows of a target.
ChunksOf(t) == {c \in chunks : c.block = t[1] /\ c.slot = t[2]}

\* The search rows are those of this version, and of a target exactly those that its value
\* and its correction ask for: the commit rewrites all of them, a command those of its target.
ChunksAreDue ==
    /\ \A c \in chunks : c.version = page.version
    /\ \A t \in Targets :
          ChunksOf(t) = IF Here(t)
                        THEN Overlay(t, blocks[t[1]].value[t[2]], corrections[t], page.version)
                        ELSE {}

\* A block that was kept only for its correction is of an earlier version, so a new commit
\* does not make it current.
BlocksArePast == \A b \in Blocks : blocks[b] # None => blocks[b].version <= page.version

\* The inductive invariant of PageContents.
ContentInv == ContentTypeOK /\ BlocksArePast /\ ActiveOverItsOriginal /\ ChunksAreDue

-----------------------------------------------------------------------------
\* A target is a block and a kind, and nothing else.
LEMMA PairsAreTargets ==
    /\ \A t \in Targets : t[1] \in Blocks /\ t[2] \in Kinds /\ t[2] \in Slots
    /\ \A t, u \in Targets : t[1] = u[1] /\ t[2] = u[2] => t = u
BY DEF Targets, Slots

\* insert_correctable_search_value writes rows of its target and of its version.
LEMMA OverlayIsOfItsTarget ==
    ASSUME NEW t, NEW value, NEW correction, NEW version,
           NEW c \in Overlay(t, value, correction, version)
    PROVE  c.block = t[1] /\ c.slot = t[2] /\ c.version = version
BY DEF Overlay, Chunk

\* ... and rows of the table.
LEMMA OverlayIsTyped ==
    ASSUME NEW t \in Targets, NEW value \in Values, NEW version \in Nat,
           NEW correction, correction = None \/ correction.text \in Texts
    PROVE  Overlay(t, value, correction, version) \subseteq
             [block : Blocks, slot : Slots,
              source : {"ai_transcribed", "ai_description", "user_corrected"},
              text : Values \cup Texts, version : Nat]
BY PairsAreTargets DEF Overlay, Chunk

\* An empty page is as it should be.
LEMMA ContentHoldsInitially ==
    ASSUME ContentInit
    PROVE  ContentInv
<1>1. ContentTypeOK
  BY DEF ContentInit, ContentTypeOK, AtRest, HeldCorrections
<1>2. BlocksArePast /\ ActiveOverItsOriginal
  BY PairsAreTargets DEF ContentInit, BlocksArePast, ActiveOverItsOriginal
<1>3. ChunksAreDue
  BY PairsAreTargets DEF ContentInit, ChunksAreDue, ChunksOf, Here
<1> QED
  BY <1>1, <1>2, <1>3 DEF ContentInv

\* What is recognized of a target is a value of the recognition.
LEMMA RecognizedIsTyped ==
    ASSUME NEW r \in Recognitions, NEW t \in Targets,
           Recognized(r, t) # None
    PROVE  t[1] \in DOMAIN r /\ Recognized(r, t) = r[t[1]][t[2]]
             /\ r[t[1]][t[2]] \in Values
BY PairsAreTargets, NoneAssumption, RecognitionAssumption DEF Recognized

\* reconcile_existing_corrections keeps the text and its original and counts the revision;
\* a correction stays active only over its original.
LEMMA ReconciledIsTyped ==
    ASSUME NEW r, NEW t, NEW n \in Nat, corrections[t] \in Correction
    PROVE  LET d == Reconciled(r, t, n) IN
           /\ d \in Correction
           /\ d.text = corrections[t].text /\ d.original = corrections[t].original
           /\ d.revision = corrections[t].revision + 1
           /\ d.state = "active" => StillAgrees(r, t)
           /\ t[1] \in DOMAIN r => d.version = n
<1>1. PICK s \in {"active", "conflict"} : s = IF StillAgrees(r, t) THEN "active" ELSE "conflict"
  OBVIOUS
<1>2. PICK v \in Nat : v = IF t[1] \in DOMAIN r THEN n ELSE corrections[t].version
  BY DEF Correction
<1>3. PICK k \in Nat : k = corrections[t].revision + 1
  BY DEF Correction
<1>4. Reconciled(r, t, n) =
        [corrections[t] EXCEPT !.state = s, !.version = v, !.revision = k]
  BY <1>1, <1>2, <1>3, Zenon DEF Reconciled
<1> QED
  BY <1>1, <1>2, <1>3, <1>4 DEF Correction

\* A commit writes rows of the tables.
LEMMA CommitKeepsTypes ==
    ASSUME ContentInv, NEW r \in Recognitions, NEW status \in Searchable,
           CommitContent(r, status)
    PROVE  ContentTypeOK'
<1>1. page' \in [status : {"working", "failed", "indexed", "needs_review"}, version : Nat]
  BY DEF CommitContent, ContentInv, ContentTypeOK, Searchable
<1>2. blocks' \in [Blocks -> Block \cup {None}]
  BY NoneAssumption, RecognitionAssumption DEF CommitContent, ContentInv, ContentTypeOK, Block
<1>3. corrections' \in HeldCorrections
  <2> SUFFICES ASSUME NEW t \in Targets, corrections[t] # None
               PROVE  Reconciled(r, t, page.version + 1) \in Correction
    BY DEF CommitContent, HeldCorrections
  <2>1. corrections[t] \in Correction /\ page.version + 1 \in Nat
    BY DEF ContentInv, ContentTypeOK, HeldCorrections
  <2> QED
    BY <2>1, ReconciledIsTyped
<1>4. chunks' \subseteq [block : Blocks, slot : Slots,
                         source : {"ai_transcribed", "ai_description", "user_corrected"},
                         text : Values \cup Texts, version : Nat]
  <2> DEFINE n == page.version + 1
  <2>1. n \in Nat /\ chunks' = SearchRows(r, corrections', n)
    BY DEF CommitContent, ContentInv, ContentTypeOK
  <2>2. ASSUME NEW t \in Targets, Recognized(r, t) # None
        PROVE  Overlay(t, Recognized(r, t), corrections'[t], n) \subseteq
             [block : Blocks, slot : Slots,
              source : {"ai_transcribed", "ai_description", "user_corrected"},
              text : Values \cup Texts, version : Nat]
    <3>1. Recognized(r, t) \in Values
      BY <2>2, RecognizedIsTyped
    <3>2. corrections'[t] = None \/ corrections'[t].text \in Texts
      BY <1>3 DEF Correction, HeldCorrections
    <3> QED
      BY <3>1, <3>2, <2>1, OverlayIsTyped
  <2>3. ASSUME NEW p \in (DOMAIN r) \X (Slots \ Kinds), r[p[1]][p[2]] # None
        PROVE  Uncorrectable(p[1], p[2], r[p[1]][p[2]], n) \in
             [block : Blocks, slot : Slots,
              source : {"ai_transcribed", "ai_description", "user_corrected"},
              text : Values \cup Texts, version : Nat]
    <3>1. p[1] \in Blocks /\ p[2] \in Slots /\ r[p[1]][p[2]] \in Values
      BY <2>3, NoneAssumption, RecognitionAssumption
    <3> QED
      BY <2>1, <3>1 DEF Uncorrectable, Chunk
  <2>4. \A c \in chunks' :
          \/ \E t \in {u \in Targets : Recognized(r, u) # None} :
                c \in Overlay(t, Recognized(r, t), corrections'[t], n)
          \/ \E p \in {q \in (DOMAIN r) \X (Slots \ Kinds) : r[q[1]][q[2]] # None} :
                c = Uncorrectable(p[1], p[2], r[p[1]][p[2]], n)
    BY <2>1, Zenon DEF SearchRows
  <2> HIDE DEF n
  <2> QED
    BY <2>2, <2>3, <2>4
<1>5. UNCHANGED <<load, view>>
  BY DEF CommitContent
<1> QED
  BY <1>1, <1>2, <1>3, <1>4, <1>5 DEF ContentTypeOK, ContentInv

\* A commit leaves active only what stands over the value it has just written.
LEMMA CommitKeepsPast ==
    ASSUME ContentInv, NEW r \in Recognitions, NEW status \in Searchable,
           CommitContent(r, status)
    PROVE  BlocksArePast' /\ ActiveOverItsOriginal'
<1> DEFINE n == page.version + 1
<1>1. page.version \in Nat /\ n \in Nat /\ page'.version = n
  BY DEF CommitContent, ContentInv, ContentTypeOK
<1>2. ASSUME NEW b \in DOMAIN r
      PROVE  blocks'[b] # None /\ blocks'[b].version = n /\ blocks'[b].value = r[b]
  <2>1. blocks'[b] = [version |-> n, value |-> r[b]]
    BY <1>1, NoneAssumption, RecognitionAssumption DEF CommitContent
  <2> QED
    BY <2>1, <1>1, NoneAssumption, RecognitionAssumption DEF Block
<1>3. \A b \in Blocks : b \in DOMAIN r \/ blocks'[b] = blocks[b] \/ blocks'[b] = None
  BY DEF CommitContent
<1>4. BlocksArePast'
  <2> SUFFICES ASSUME NEW b \in Blocks, blocks'[b] # None
               PROVE  blocks'[b].version <= page'.version
    BY DEF BlocksArePast
  <2>1. CASE b \in DOMAIN r
    <3>1. blocks'[b].version = n
      BY <2>1, <1>2
    <3> QED
      BY <3>1, <1>1
  <2>2. CASE blocks'[b] = blocks[b]
    <3>1. blocks[b] \in Block /\ blocks[b].version <= page.version
      BY <2>2 DEF ContentInv, BlocksArePast, ContentTypeOK
    <3> QED
      BY <2>2, <3>1, <1>1 DEF Block
  <2> QED
    BY <1>3, <2>1, <2>2
<1>5. ActiveOverItsOriginal'
  <2> SUFFICES ASSUME NEW t \in Targets, corrections'[t] # None, corrections'[t].state = "active"
               PROVE  /\ blocks'[t[1]] # None
                      /\ blocks'[t[1]].version = page'.version
                      /\ corrections'[t].version = page'.version
                      /\ blocks'[t[1]].value[t[2]] = corrections'[t].original
    BY DEF ActiveOverItsOriginal
  <2>1. corrections[t] # None /\ corrections'[t] = Reconciled(r, t, n)
    BY DEF CommitContent
  <2>2. corrections[t] \in Correction
    BY <2>1 DEF ContentInv, ContentTypeOK, HeldCorrections
  <2>3. StillAgrees(r, t)
    BY <1>1, <2>1, <2>2, ReconciledIsTyped
  <2>4. t[1] \in DOMAIN r /\ r[t[1]][t[2]] = corrections[t].original
    BY <2>3 DEF StillAgrees, Recognized
  <2>5. corrections'[t].version = n /\ corrections'[t].original = corrections[t].original
    BY <1>1, <2>1, <2>2, <2>4, ReconciledIsTyped
  <2>6. blocks'[t[1]] # None /\ blocks'[t[1]].version = n /\ blocks'[t[1]].value = r[t[1]]
    BY <1>2, <2>4
  <2> QED
    BY <1>1, <2>4, <2>5, <2>6
<1> QED
  BY <1>4, <1>5

\* A commit leaves the search rows its blocks and reconciled corrections ask for.
LEMMA CommitKeepsChunks ==
    ASSUME ContentInv, NEW r \in Recognitions, NEW status \in Searchable,
           CommitContent(r, status)
    PROVE  ChunksAreDue'
<1> DEFINE n == page.version + 1
           New(t) == Overlay(t, Recognized(r, t), corrections'[t], n)
<1>1. page.version \in Nat /\ page'.version = n /\ chunks' = SearchRows(r, corrections', n)
  BY DEF CommitContent, ContentInv, ContentTypeOK
<1>2. ASSUME NEW c \in chunks'
      PROVE  /\ c.version = n
             /\ \/ \E t \in Targets : Recognized(r, t) # None /\ c \in New(t)
                \/ c.slot \notin Kinds
  <2>1. CASE \E t \in Targets : Recognized(r, t) # None /\ c \in New(t)
    BY <2>1, OverlayIsOfItsTarget
  <2>2. CASE \E p \in (DOMAIN r) \X (Slots \ Kinds) :
               c = Uncorrectable(p[1], p[2], r[p[1]][p[2]], n)
    BY <2>2 DEF Uncorrectable, Chunk
  <2>3. \/ \E t \in {u \in Targets : Recognized(r, u) # None} : c \in New(t)
        \/ \E p \in {q \in (DOMAIN r) \X (Slots \ Kinds) : r[q[1]][q[2]] # None} :
              c = Uncorrectable(p[1], p[2], r[p[1]][p[2]], n)
    BY <1>1, <1>2, Zenon DEF SearchRows
  <2> QED
    BY <2>1, <2>2, <2>3
<1>3. \A t \in Targets : Recognized(r, t) # None => New(t) \subseteq chunks'
  BY <1>1 DEF SearchRows
<1>4. ASSUME NEW t \in Targets
      PROVE  ChunksOf(t)' = IF Recognized(r, t) # None THEN New(t) ELSE {}
  <2>1. ASSUME NEW c \in ChunksOf(t)'
        PROVE  Recognized(r, t) # None /\ c \in New(t)
    <3>1. c \in chunks' /\ c.block = t[1] /\ c.slot = t[2]
      BY DEF ChunksOf
    <3>2. PICK u \in Targets : Recognized(r, u) # None /\ c \in New(u)
      BY <3>1, <1>2, PairsAreTargets
    <3>3. u = t
      BY <3>1, <3>2, OverlayIsOfItsTarget, PairsAreTargets
    <3> QED
      BY <3>2, <3>3
  <2>2. ASSUME Recognized(r, t) # None, NEW c \in New(t)
        PROVE  c \in ChunksOf(t)'
    BY <2>2, <1>3, OverlayIsOfItsTarget DEF ChunksOf
  <2> QED
    BY <2>1, <2>2
<1>5. ASSUME NEW t \in Targets
      PROVE  /\ Here(t)' <=> Recognized(r, t) # None
             /\ Here(t)' => blocks'[t[1]].value[t[2]] = Recognized(r, t)
  <2>1. CASE t[1] \in DOMAIN r
    <3>1. blocks'[t[1]] = [version |-> n, value |-> r[t[1]]] /\ blocks'[t[1]] # None
      BY <2>1, <1>1, NoneAssumption, RecognitionAssumption DEF CommitContent, Block
    <3> QED
      BY <2>1, <3>1, <1>1 DEF Here, Recognized
  <2>2. CASE t[1] \notin DOMAIN r
    <3>1. blocks'[t[1]] = blocks[t[1]] \/ blocks'[t[1]] = None
      BY <2>2, PairsAreTargets DEF CommitContent
    <3>2. blocks[t[1]] # None => blocks[t[1]] \in Block /\ blocks[t[1]].version <= page.version
      BY PairsAreTargets DEF ContentInv, BlocksArePast, ContentTypeOK
    <3>3. ~Here(t)'
      BY <3>1, <3>2, <1>1 DEF Here, Block
    <3> QED
      BY <2>2, <3>3 DEF Recognized
  <2> QED
    BY <2>1, <2>2
<1> QED
  BY <1>1, <1>2, <1>4, <1>5 DEF ChunksAreDue

\* A command writes one correction over the current value, or removes it, and replaces the
\* search rows of its target.
LEMMA PutKeeps ==
    ASSUME ContentInv, NEW t \in Targets, Current(t),
           NEW c \in Correction \cup {None},
           c # None => /\ c.version = page.version
                       /\ c.original = blocks[t[1]].value[t[2]],
           Put(t, c)
    PROVE  ContentInv'
<1> DEFINE value == blocks[t[1]].value[t[2]]
           New == Overlay(t, value, c, page.version)
<1>1. /\ Here(t) /\ value \in Values /\ page.version \in Nat
      /\ UNCHANGED <<page, blocks, load, view>>
  BY PairsAreTargets DEF Current, Put, Here, ContentInv, ContentTypeOK,
      Block
<1>2. /\ corrections' \in HeldCorrections /\ corrections'[t] = c
      /\ \A u \in Targets : u # t => corrections'[u] = corrections[u]
  BY DEF Put, ContentInv, ContentTypeOK, HeldCorrections
<1>3. chunks' = {d \in chunks : ~(d.block = t[1] /\ d.slot = t[2])} \cup New
  BY DEF Put, Refreshed
<1>4. c = None \/ c.text \in Texts
  BY DEF Correction
<1>5. ContentTypeOK'
  <2>1. New \subseteq [block : Blocks, slot : Slots,
                      source : {"ai_transcribed", "ai_description", "user_corrected"},
                      text : Values \cup Texts, version : Nat]
    BY <1>1, <1>4, OverlayIsTyped
  <2> HIDE DEF New
  <2> QED
    BY <1>1, <1>2, <1>3, <2>1 DEF ContentInv, ContentTypeOK
<1>6. BlocksArePast'
  BY <1>1 DEF ContentInv, BlocksArePast
<1>7. ActiveOverItsOriginal'
  <2> SUFFICES ASSUME NEW u \in Targets, corrections'[u] # None, corrections'[u].state = "active"
               PROVE  /\ blocks[u[1]] # None
                      /\ blocks[u[1]].version = page.version
                      /\ corrections'[u].version = page.version
                      /\ blocks[u[1]].value[u[2]] = corrections'[u].original
    BY <1>1 DEF ActiveOverItsOriginal
  <2>1. CASE u = t
    BY <2>1, <1>1, <1>2 DEF Here
  <2>2. CASE u # t
    BY <2>2, <1>2 DEF ContentInv, ActiveOverItsOriginal
  <2> QED
    BY <2>1, <2>2
<1>8. ChunksAreDue'
  <2>1. \A d \in New : d.block = t[1] /\ d.slot = t[2] /\ d.version = page.version
    BY OverlayIsOfItsTarget
  <2> HIDE DEF New
  <2>2. ChunksOf(t)' = New
    BY <1>3, <2>1 DEF ChunksOf
  <2>3. \A u \in Targets : u # t => ChunksOf(u)' = ChunksOf(u)
    BY <1>3, <2>1, PairsAreTargets DEF ChunksOf
  <2>4. \A d \in chunks' : d.version = page.version
    BY <1>3, <2>1 DEF ContentInv, ChunksAreDue
  <2>5. \A u \in Targets :
           ChunksOf(u)' = IF Here(u)
                          THEN Overlay(u, blocks[u[1]].value[u[2]], corrections'[u], page.version)
                          ELSE {}
    <3> SUFFICES ASSUME NEW u \in Targets
                 PROVE  ChunksOf(u)' = IF Here(u)
                          THEN Overlay(u, blocks[u[1]].value[u[2]], corrections'[u], page.version)
                          ELSE {}
      OBVIOUS
    <3>1. CASE u = t
      BY <3>1, <2>2, <1>1, <1>2 DEF New
    <3>2. CASE u # t
      BY <3>2, <2>3, <1>2 DEF ContentInv, ChunksAreDue
    <3> QED
      BY <3>1, <3>2
  <2> QED
    BY <1>1, <2>4, <2>5 DEF ChunksAreDue, Here
<1> QED
  BY <1>5, <1>6, <1>7, <1>8 DEF ContentInv

\* Each command of the editor is such a write, of a target that is current, and it creates a
\* correction where the editor shows none or counts the revision that the editor shows.
LEMMA CommandIsPut ==
    ASSUME ContentInv, NEW t \in Targets, Command(t)
    PROVE  /\ Selected(t) /\ Current(t)
           /\ \E c \in Correction \cup {None} :
                /\ c # None => /\ c.version = page.version
                              /\ c.original = blocks[t[1]].value[t[2]]
                /\ Put(t, c)
                /\ \/ /\ view.corrections[t] = None /\ corrections[t] = None
                   \/ /\ SameRevision(t)
                      /\ c # None => c.revision = corrections[t].revision + 1
<1>1. ASSUME Current(t)
      PROVE  blocks[t[1]].value[t[2]] \in Values /\ page.version \in Nat
  BY <1>1, PairsAreTargets DEF Current, ContentInv, ContentTypeOK, Block
<1>2. ASSUME NEW text \in Texts, Create(t, text)
      PROVE  Current(t) /\
             [state |-> "active", original |-> blocks[t[1]].value[t[2]],
              text |-> text, version |-> page.version, revision |-> 1] \in Correction
  BY <1>1, <1>2 DEF Create, Correction
<1>3. corrections[t] # None => corrections[t] \in Correction
  BY DEF ContentInv, ContentTypeOK, HeldCorrections
<1>4. CASE \E text \in Texts : Create(t, text)
  <2>1. PICK text \in Texts : Create(t, text)
    BY <1>4
  <2> DEFINE c == [state |-> "active", original |-> blocks[t[1]].value[t[2]],
                   text |-> text, version |-> page.version, revision |-> 1]
  <2>2. c \in Correction /\ Current(t)
    BY <2>1, <1>2
  <2>3. Put(t, c) /\ Selected(t) /\ view.corrections[t] = None /\ corrections[t] = None
    BY <2>1 DEF Create
  <2>4. c.version = page.version /\ c.original = blocks[t[1]].value[t[2]]
    OBVIOUS
  <2> HIDE DEF c
  <2> QED
    BY <2>2, <2>3, <2>4
<1>5. CASE \E text \in Texts : Edit(t, text)
  <2>1. PICK text \in Texts : Edit(t, text)
    BY <1>5
  <2> DEFINE c == [corrections[t] EXCEPT !.text = text, !.version = page.version, !.revision = @ + 1]
  <2>2. Put(t, c) /\ Selected(t) /\ Current(t) /\ SameRevision(t)
    BY <2>1, Zenon DEF Edit
  <2>3. corrections[t] \in Correction /\ corrections[t].original = blocks[t[1]].value[t[2]]
    BY <2>1, <2>2, <1>3 DEF Edit, SameRevision, Current
  <2>4. /\ c \in Correction /\ c.version = page.version
        /\ c.original = blocks[t[1]].value[t[2]] /\ c.revision = corrections[t].revision + 1
    <3>1. PICK k \in Nat : k = corrections[t].revision + 1
      BY <2>3 DEF Correction
    <3>2. c = [corrections[t] EXCEPT !.text = text, !.version = page.version, !.revision = k]
      BY <3>1, Zenon
    <3>3. page.version \in Nat
      BY <1>1, <2>2
    <3> HIDE DEF c
    <3> QED
      BY <2>3, <3>1, <3>2, <3>3 DEF Correction
  <2> HIDE DEF c
  <2> QED
    BY <2>2, <2>4
<1>6. CASE \E text \in Texts : Keep(t, text)
  <2>1. PICK text \in Texts : Keep(t, text)
    BY <1>6
  <2> DEFINE c == [corrections[t] EXCEPT
                     !.state = "active", !.original = ShownValue(t), !.text = text,
                     !.version = page.version, !.revision = @ + 1]
  <2>2. Put(t, c) /\ Selected(t) /\ Current(t) /\ SameRevision(t)
    BY <2>1, Zenon DEF Keep
  <2>3. corrections[t] \in Correction /\ ShownValue(t) = blocks[t[1]].value[t[2]]
    BY <2>2, <1>3 DEF SameRevision, Current
  <2>4. /\ c \in Correction /\ c.version = page.version
        /\ c.original = blocks[t[1]].value[t[2]] /\ c.revision = corrections[t].revision + 1
    <3>1. PICK k \in Nat : k = corrections[t].revision + 1
      BY <2>3 DEF Correction
    <3>2. PICK value \in Values : value = ShownValue(t)
      BY <1>1, <2>2, <2>3
    <3>3. c = [corrections[t] EXCEPT !.state = "active", !.original = value,
                                     !.text = text, !.version = page.version, !.revision = k]
      BY <3>1, <3>2, Zenon
    <3>4. page.version \in Nat
      BY <1>1, <2>2
    <3> HIDE DEF c
    <3> QED
      BY <2>3, <3>1, <3>2, <3>3, <3>4 DEF Correction
  <2> HIDE DEF c
  <2> QED
    BY <2>2, <2>4
<1>7. CASE Discard(t)
  BY <1>7 DEF Discard
<1> QED
  BY <1>4, <1>5, <1>6, <1>7 DEF Command
\* What leaves the tables of the contents alone keeps the invariant.
LEMMA QuietStep ==
    ASSUME ContentInv, UNCHANGED <<blocks, corrections, chunks>>,
           page' \in [status : {"working", "failed", "indexed", "needs_review"}, version : Nat],
           page'.version = page.version, ContentTypeOK'
    PROVE  ContentInv'
BY DEF ContentInv, BlocksArePast, ChunksAreDue, ChunksOf, Here, ActiveOverItsOriginal

\* The reads of the window change only what the window holds.
LEMMA WindowKeeps ==
    ASSUME ContentInv, NEW l \in Loads,
           ReadPage(l) \/ ReadBlocks(l) \/ ReadCorrections(l) \/ Show(l)
    PROVE  ContentInv'
<1>1. /\ load[l] \in [pc : {"idle", "page", "blocks", "read", "gone"}, version : Nat,
                        blocks : HeldBlocks \cup {<<>>},
                        corrections : HeldCorrections \cup {<<>>}]
      /\ load[l].version \in Nat /\ load[l].blocks \in HeldBlocks \cup {<<>>}
      /\ load[l].corrections \in HeldCorrections \cup {<<>>}
      /\ page.version \in Nat
  BY DEF ContentInv, ContentTypeOK
<1>2. /\ UNCHANGED <<page, blocks, corrections, chunks>>
      /\ page' \in [status : {"working", "failed", "indexed", "needs_review"}, version : Nat]
  BY DEF ReadPage, ReadBlocks, ReadCorrections, Show,
     ContentInv, ContentTypeOK
<1>3. load' \in [Loads -> [pc : {"idle", "page", "blocks", "read", "gone"}, version : Nat,
                           blocks : HeldBlocks \cup {<<>>},
                           corrections : HeldCorrections \cup {<<>>}]]
  <2>1. CASE ReadPage(l)
    BY <1>1, <2>1 DEF ReadPage, ContentInv, ContentTypeOK
  <2>2. CASE ReadBlocks(l)
    <3> DEFINE current == {b \in Blocks : blocks[b] # None /\ blocks[b].version = load[l].version}
               held == [b \in current |-> blocks[b].value]
    <3>1. \A b \in current : blocks[b].value \in [Slots -> Values \cup {None}]
      BY DEF ContentInv, ContentTypeOK, Block
    <3>2. held \in HeldBlocks
      <4>1. held \in [current -> [Slots -> Values \cup {None}]]
        BY <3>1
      <4>2. current \in SUBSET Blocks
        OBVIOUS
      <4> HIDE DEF current, held
      <4> QED
        BY <4>1, <4>2 DEF HeldBlocks
    <3>3. load' = [load EXCEPT ![l].pc = "blocks", ![l].blocks = held]
      BY <2>2 DEF ReadBlocks
    <3> HIDE DEF held
    <3> QED
      BY <1>1, <3>2, <3>3 DEF ContentInv, ContentTypeOK
  <2>3. CASE ReadCorrections(l)
    BY <1>1, <2>3 DEF ReadCorrections, ContentInv, ContentTypeOK
  <2>4. CASE Show(l)
    BY <1>1, <2>4 DEF Show, AtRest, ContentInv, ContentTypeOK
  <2> QED
    BY <2>1, <2>2, <2>3, <2>4
<1>4. view' \in [version : Nat, blocks : HeldBlocks \cup {<<>>},
                 corrections : HeldCorrections \cup {<<>>}] \cup {None}
  BY <1>1 DEF ReadPage, ReadBlocks, ReadCorrections, Show,
     ContentInv, ContentTypeOK
<1>5. ContentTypeOK'
  BY <1>2, <1>3, <1>4 DEF ContentInv, ContentTypeOK
<1> QED
  BY <1>2, <1>5, QuietStep

\* Every step keeps the invariant.
LEMMA ContentStep ==
    ASSUME ContentInv, [ContentNext]_contentVars
    PROVE  ContentInv'
<1>1. ASSUME NEW r \in Recognitions, NEW status \in Searchable, CommitContent(r, status)
      PROVE  ContentInv'
  BY <1>1, CommitKeepsTypes, CommitKeepsPast, CommitKeepsChunks DEF ContentInv
<1>2. CASE FailPage \/ RetryPage
  <2>1. /\ page' \in [status : {"working", "failed", "indexed", "needs_review"}, version : Nat]
        /\ page'.version = page.version /\ UNCHANGED <<blocks, corrections, chunks, load, view>>
    BY <1>2 DEF FailPage, RetryPage, ContentInv, ContentTypeOK
  <2>2. ContentTypeOK'
    BY <2>1 DEF ContentInv, ContentTypeOK
  <2> QED
    BY <2>1, <2>2, QuietStep
<1>3. ASSUME NEW t \in Targets, Command(t)
      PROVE  ContentInv'
  BY <1>3, CommandIsPut, PutKeeps
<1>4. CASE UNCHANGED contentVars
  BY <1>4 DEF contentVars, ContentInv, BlocksArePast, ChunksAreDue, ChunksOf, Here, ContentTypeOK,
     ActiveOverItsOriginal
<1> QED
  BY <1>1, <1>2, <1>3, <1>4, WindowKeeps DEF ContentNext

\* The tables of a page keep their types, and the search rows are always those that the blocks
\* and the corrections ask for (commit.rs, corrections.rs).
THEOREM ContentIsSound == ContentSpec => []ContentInv
<1>1. ContentInit => ContentInv
  BY ContentHoldsInitially
<1>2. ContentInv /\ [ContentNext]_contentVars => ContentInv'
  BY ContentStep
<1> QED
  BY <1>1, <1>2, PTL DEF ContentSpec

\* A correction is active only over the value that the provider recognizes today, for any
\* blocks, recognitions and number of windows that decide on what they read earlier.
THEOREM CorrectionsFit == ContentSpec => []ActiveOverItsOriginal
<1>1. ContentInv => ActiveOverItsOriginal
  BY DEF ContentInv
<1> QED
  BY <1>1, ContentIsSound, PTL

\* Where there are exactly the rows that are due, the filter of search_fts lets through the
\* user's text, nothing under a conflict, and the provider's value otherwise.
LEMMA SearchIsRight ==
    ASSUME ContentInv
    PROVE  SearchFollowsTheUser
<1> SUFFICES ASSUME NEW t \in Targets, page.status \in Searchable
             PROVE  LET c == corrections[t]
                        alone == \A k \in Kinds \ {t[2]} : corrections[<<t[1], k>>] = None
                        here == blocks[t[1]] # None /\ blocks[t[1]].version = page.version
                        due == IF ~here \/ blocks[t[1]].value[t[2]] = None THEN {}
                               ELSE IF c = None THEN {blocks[t[1]].value[t[2]]}
                               ELSE IF c.state = "active" THEN {c.text} ELSE {}
                    IN  Hits(t) \subseteq due /\ (alone => Hits(t) = due)
  BY Zenon DEF SearchFollowsTheUser
<1> DEFINE value == blocks[t[1]].value[t[2]]
           typed == Chunk(t[1], t[2], "user_corrected", corrections[t].text, page.version)
           read == Chunk(t[1], t[2], "ai_transcribed", value, page.version)
           alone == \A k \in Kinds \ {t[2]} : corrections[<<t[1], k>>] = None
<1>1. Hits(t) = {c.text : c \in {d \in ChunksOf(t) : d \in Found}}
  BY DEF Hits, ChunksOf, Found
<1>2. t = <<t[1], t[2]>> /\ t[1] \in Blocks /\ t[2] \in Kinds
  BY DEF Targets
<1>3. ChunksOf(t) = IF Here(t) THEN Overlay(t, value, corrections[t], page.version) ELSE {}
  BY DEF ContentInv, ChunksAreDue
<1>4. CASE ~Here(t)
  BY <1>1, <1>3, <1>4 DEF Here
<1>5. CASE Here(t) /\ corrections[t] = None
  <2>1. ChunksOf(t) = {read}
    BY <1>3, <1>5 DEF Overlay
  <2>2. /\ read.text = value /\ read.version = page.version /\ read.source = "ai_transcribed"
        /\ read.block = t[1] /\ read.slot = t[2]
    BY DEF Chunk
  <2>3. ASSUME alone
        PROVE  read \in Found
    <3>1. \A k \in Kinds : corrections[<<t[1], k>>] = None
      BY <1>2, <1>5, <2>3
    <3>2. "text" \in Kinds /\ read \in chunks
      BY <2>1 DEF Kinds, ChunksOf
    <3> HIDE DEF read
    <3> QED
      BY <2>2, <3>1, <3>2 DEF Found
  <2> HIDE DEF read
  <2> QED
    BY <1>1, <1>5, <2>1, <2>2, <2>3 DEF Here
<1>6. CASE Here(t) /\ corrections[t] # None /\ corrections[t].state = "active"
  <2>1. ChunksOf(t) = {typed}
    BY <1>3, <1>6 DEF Overlay
  <2>2. /\ typed.text = corrections[t].text /\ typed.version = page.version
        /\ typed.source = "user_corrected" /\ typed.block = t[1] /\ typed.slot = t[2]
    BY DEF Chunk
  <2>3. ASSUME alone
        PROVE  typed \in Found
    <3>1. \A k \in Kinds : corrections[<<t[1], k>>] # None =>
                                    corrections[<<t[1], k>>].state = "active"
      BY <1>2, <1>6, <2>3
    <3>2. corrections[t].version = page.version /\ typed \in chunks
      BY <1>6, <2>1 DEF ContentInv, ActiveOverItsOriginal, ChunksOf
    <3> HIDE DEF typed
    <3> QED
      BY <1>2, <1>6, <2>2, <3>1, <3>2 DEF Found
  <2> HIDE DEF typed
  <2> QED
    BY <1>1, <1>6, <2>1, <2>2, <2>3 DEF Here
<1>7. CASE Here(t) /\ corrections[t] # None /\ corrections[t].state # "active"
  <2>1. ChunksOf(t) = {}
    BY <1>3, <1>7 DEF Overlay
  <2> QED
    BY <1>1, <1>7, <2>1 DEF Here
<1> QED
  BY <1>4, <1>5, <1>6, <1>7

\* A search of a settled page follows the user's decisions, whatever races with them.
THEOREM SearchFollows == ContentSpec => []SearchFollowsTheUser
<1>1. ContentInv => SearchFollowsTheUser
  BY SearchIsRight
<1> QED
  BY <1>1, ContentIsSound, PTL

-----------------------------------------------------------------------------
\* The reads of the window do not overlap.  They are seconds apart (IndexQualityPage.tsx) and
\* nothing makes the next one wait: if two do overlap, a correction that is discarded and
\* written anew between them begins again at revision 1 and is taken for the first.
OneLoad == \A l, m \in Loads : l = m

\* A copy of the corrections that was read before: a correction that is still there has a
\* revision not below the copy's, and with the same revision it has the same text.
Sound(k) ==
    /\ k \in HeldCorrections
    /\ \A t \in Targets : k[t] # None /\ corrections[t] # None =>
          /\ k[t].revision <= corrections[t].revision
          /\ k[t].revision = corrections[t].revision => k[t].text = corrections[t].text

\* The window's copies are such; and a correction the window has read and the editor does not
\* show yet cannot have been discarded meanwhile, because it takes the editor to do so.
EditorIsSound ==
    /\ view # None => Sound(view.corrections)
    /\ \A l \in Loads : load[l].pc = "read" => Sound(load[l].corrections)
    /\ \A l \in Loads, t \in Targets :
          /\ load[l].pc = "read" /\ view # None
          /\ view.corrections[t] = None /\ load[l].corrections[t] # None
          => corrections[t] # None

\* The window has read nothing yet.
LEMMA EditorInit ==
    ASSUME ContentInit
    PROVE  EditorIsSound
BY DEF ContentInit, EditorIsSound, AtRest

\* A copy stays sound when a correction is revised, and when one is created that the copy
\* does not have.
LEMMA OverwrittenStaysSound ==
    ASSUME ContentInv, NEW k, Sound(k), corrections' \in HeldCorrections,
           \A t \in Targets : corrections'[t] # None =>
              \/ corrections'[t] = corrections[t]
              \/ corrections[t] # None /\ corrections'[t].revision = corrections[t].revision + 1
              \/ k[t] = None
    PROVE  Sound(k)'
<1> SUFFICES ASSUME NEW t \in Targets, k[t] # None, corrections'[t] # None
             PROVE  /\ k[t].revision <= corrections'[t].revision
                    /\ k[t].revision = corrections'[t].revision => k[t].text = corrections'[t].text
  BY DEF Sound
<1>1. k[t] \in Correction
  BY DEF Sound, HeldCorrections
<1>2. CASE corrections'[t] = corrections[t]
  BY <1>2 DEF Sound
<1>3. CASE corrections[t] # None /\ corrections'[t].revision = corrections[t].revision + 1
  <2>1. corrections[t] \in Correction
    BY <1>3 DEF ContentInv, ContentTypeOK, HeldCorrections
  <2>2. k[t].revision \in Nat /\ corrections[t].revision \in Nat
    BY <1>1, <2>1 DEF Correction
  <2>3. k[t].revision <= corrections[t].revision
    BY <1>3 DEF Sound
  <2> QED
    BY <1>3, <2>2, <2>3
<1> QED
  BY <1>2, <1>3

\* A commit drops no correction, changes no text and counts every revision.
LEMMA CommitKeepsEditor ==
    ASSUME ContentInv, ContentInv', EditorIsSound,
           NEW r \in Recognitions, NEW status \in Searchable, CommitContent(r, status)
    PROVE  /\ EditorIsSound'
           /\ \A t \in Targets : corrections[t] # None =>
                 corrections'[t] # None /\ corrections'[t].text = corrections[t].text
<1>1. ASSUME NEW t \in Targets, corrections[t] # None
      PROVE  /\ corrections'[t] # None /\ corrections'[t].text = corrections[t].text
             /\ corrections'[t].revision = corrections[t].revision + 1
  <2>1. page.version + 1 \in Nat /\ corrections[t] \in Correction
    BY <1>1 DEF ContentInv, ContentTypeOK, HeldCorrections
  <2>2. corrections'[t] = Reconciled(r, t, page.version + 1)
    BY <1>1 DEF CommitContent
  <2>3. corrections'[t] \in Correction
    BY <2>1, <2>2, ReconciledIsTyped
  <2>4. corrections'[t].text = corrections[t].text /\ corrections'[t].revision = corrections[t].revision + 1
    BY <2>1, <2>2, ReconciledIsTyped
  <2> QED
    BY <2>3, <2>4, NoneAssumption, RecognitionAssumption
<1>2. \A t \in Targets : corrections'[t] # None => corrections[t] # None
  BY DEF CommitContent
<1>3. UNCHANGED <<load, view>> /\ corrections' \in HeldCorrections
  BY DEF CommitContent, ContentInv, ContentTypeOK
<1>4. ASSUME NEW k, Sound(k)
      PROVE  Sound(k)'
  BY <1>1, <1>2, <1>3, <1>4, OverwrittenStaysSound
<1>5. EditorIsSound'
  <2>1. view' # None => Sound(view.corrections)'
    BY <1>3, <1>4 DEF EditorIsSound
  <2>2. \A l \in Loads : load'[l].pc = "read" => Sound(load[l].corrections)'
    BY <1>3, <1>4 DEF EditorIsSound
  <2>3. \A l \in Loads, t \in Targets :
          /\ load[l].pc = "read" /\ view # None
          /\ view.corrections[t] = None /\ load[l].corrections[t] # None
          => corrections'[t] # None
    BY <1>1 DEF EditorIsSound
  <2> QED
    BY <1>3, <2>1, <2>2, <2>3 DEF EditorIsSound, Sound
<1> QED
  BY <1>1, <1>5

\* A command revises what the editor shows, or creates what no copy has.
LEMMA CommandKeepsEditor ==
    ASSUME ContentInv, ContentInv', EditorIsSound,
           NEW t \in Targets, Command(t)
    PROVE  EditorIsSound'
<1>1. PICK c \in Correction \cup {None} :
        /\ Put(t, c)
        /\ \/ view.corrections[t] = None /\ corrections[t] = None
           \/ /\ SameRevision(t)
              /\ c # None => c.revision = corrections[t].revision + 1
  BY CommandIsPut
<1>2. view # None /\ UNCHANGED <<load, view>> /\ corrections' \in HeldCorrections
  BY <1>1, CommandIsPut DEF Selected, Put, ContentInv, ContentTypeOK
<1>3. /\ corrections'[t] = c
      /\ \A u \in Targets : u # t => corrections'[u] = corrections[u]
  BY <1>1 DEF Put, ContentInv, ContentTypeOK, HeldCorrections
<1>4. ASSUME NEW k, Sound(k), view.corrections[t] = None /\ corrections[t] = None => k[t] = None
      PROVE  Sound(k)'
  <2>1. \A u \in Targets : corrections'[u] # None =>
              \/ corrections'[u] = corrections[u]
              \/ corrections[u] # None /\ corrections'[u].revision = corrections[u].revision + 1
              \/ k[u] = None
    BY <1>1, <1>3, <1>4 DEF SameRevision
  <2> QED
    BY <1>2, <1>4, <2>1, OverwrittenStaysSound
<1>5. Sound(view.corrections)'
  BY <1>2, <1>4 DEF EditorIsSound
<1>6. ASSUME NEW l \in Loads, load[l].pc = "read"
      PROVE  Sound(load[l].corrections)'
  BY <1>2, <1>4, <1>6 DEF EditorIsSound
<1>7. ASSUME NEW l \in Loads, NEW u \in Targets, load[l].pc = "read",
             view.corrections[u] = None, load[l].corrections[u] # None
      PROVE  corrections'[u] # None
  <2>1. corrections[u] # None
    BY <1>2, <1>7 DEF EditorIsSound
  <2> QED
    BY <1>1, <1>3, <1>7, <2>1 DEF SameRevision
<1> QED
  BY <1>2, <1>5, <1>6, <1>7 DEF EditorIsSound, Sound

\* A read is a copy of now, and the editor shows what was read.
LEMMA WindowKeepsEditor ==
    ASSUME OneLoad, ContentInv, EditorIsSound, NEW l \in Loads,
           ReadPage(l) \/ ReadBlocks(l) \/ ReadCorrections(l) \/ Show(l)
    PROVE  EditorIsSound'
<1>1. /\ UNCHANGED corrections /\ \A m \in Loads : m = l /\ l \in DOMAIN load
      /\ load[l] \in [pc : {"idle", "page", "blocks", "read", "gone"}, version : Nat,
                      blocks : HeldBlocks \cup {<<>>},
                      corrections : HeldCorrections \cup {<<>>}]
  BY DEF OneLoad, ReadPage, ReadBlocks, ReadCorrections, Show,
     ContentInv, ContentTypeOK
<1>2. CASE ReadPage(l) \/ ReadBlocks(l)
  <2>1. ASSUME ReadPage(l)
        PROVE  load'[l].pc # "read" /\ UNCHANGED view
    <3>1. load'[l].pc \in {"page", "gone"}
      <4>1. CASE page.status \in Reviewable
        <5>1. load' = [load EXCEPT ![l] = [load[l] EXCEPT !.pc = "page", !.version = page.version]]
          BY <2>1, <4>1 DEF ReadPage
        <5> QED
          BY <1>1, <5>1
      <4>2. CASE page.status \notin Reviewable
        <5>1. load' = [load EXCEPT ![l] = [load[l] EXCEPT !.pc = "gone"]]
          BY <2>1, <4>2 DEF ReadPage
        <5> QED
          BY <1>1, <5>1
      <4> QED
        BY <4>1, <4>2
    <3> QED
      BY <2>1, <3>1 DEF ReadPage
  <2>2. ASSUME ReadBlocks(l)
        PROVE  load'[l].pc # "read" /\ UNCHANGED view
    BY <1>1, <2>2 DEF ReadBlocks
  <2>3. load'[l].pc # "read" /\ UNCHANGED view
    BY <1>2, <2>1, <2>2
  <2> QED
    BY <1>1, <2>3 DEF EditorIsSound, Sound
<1>3. CASE ReadCorrections(l)
  <2>1. load'[l].corrections = corrections /\ UNCHANGED view
    BY <1>1, <1>3 DEF ReadCorrections
  <2>2. Sound(corrections)
    BY DEF Sound, ContentInv, ContentTypeOK, HeldCorrections, Correction
  <2> QED
    BY <1>1, <2>1, <2>2 DEF EditorIsSound, Sound
<1>4. CASE Show(l)
  <2>1. load'[l].pc = "idle"
    BY <1>1, <1>4 DEF Show, AtRest
  <2>2. view' # None => load[l].pc = "read" /\ view'.corrections = load[l].corrections
    BY <1>4 DEF Show, Loading
  <2> QED
    BY <1>1, <2>1, <2>2 DEF EditorIsSound, Sound
<1> QED
  BY <1>2, <1>3, <1>4

\* Every step keeps the copies sound.
LEMMA EditorStep ==
    ASSUME OneLoad, ContentInv, ContentInv', EditorIsSound,
           [ContentNext]_contentVars
    PROVE  EditorIsSound'
<1>1. CASE FailPage \/ RetryPage \/ UNCHANGED contentVars
  <2>1. UNCHANGED <<corrections, load, view>>
    BY <1>1 DEF FailPage, RetryPage, contentVars
  <2> QED
    BY <2>1 DEF EditorIsSound, Sound
<1> QED
  BY <1>1, CommitKeepsEditor, CommandKeepsEditor, WindowKeepsEditor DEF ContentNext

\* With one read at a time, the window never mistakes one correction for another.
THEOREM EditorsAreSound ==
    ASSUME OneLoad
    PROVE  ContentSpec => []EditorIsSound
<1>1. ContentInit => EditorIsSound
  BY EditorInit
<1>2. ContentInv /\ ContentInv' /\ EditorIsSound /\ [ContentNext]_contentVars => EditorIsSound'
  BY EditorStep
<1> QED
  BY <1>1, <1>2, ContentIsSound, PTL DEF ContentSpec

\* A text the user typed is replaced or dropped only by an editor that shows it and the value
\* it is laid over, as long as the window's reads of the page do not overlap.
THEOREM ShownIsReplaced ==
    ASSUME OneLoad
    PROVE  ContentSpec => OnlyShownTextIsReplaced
<1> DEFINE Shown ==
      \A t \in Targets :
        LET old == corrections[t]
            new == corrections'[t]
        IN  old # None /\ (new = None \/ new.text # old.text) =>
              /\ Selected(t)
              /\ view.corrections[t] # None
              /\ view.corrections[t].text = old.text
              /\ blocks[t[1]] # None
              /\ ShownValue(t) = blocks[t[1]].value[t[2]]
<1>1. ASSUME ContentInv, ContentInv', EditorIsSound, ContentNext
      PROVE  Shown
  <2>1. CASE \E r \in Recognitions, status \in Searchable : CommitContent(r, status)
    BY <1>1, <2>1, CommitKeepsEditor
  <2>2. ASSUME NEW u \in Targets, Command(u)
        PROVE  Shown
    <3>1. PICK c \in Correction \cup {None} :
        /\ Put(u, c)
        /\ \/ view.corrections[u] = None /\ corrections[u] = None
           \/ SameRevision(u)
      BY <1>1, <2>2, CommandIsPut
    <3>2. \A t \in Targets : t # u => corrections'[t] = corrections[t]
      BY <1>1, <3>1 DEF Put, ContentInv, ContentTypeOK, HeldCorrections
    <3>3. Selected(u) /\ Current(u)
      BY <1>1, <2>2, CommandIsPut
    <3>4. corrections[u] # None =>
            view.corrections[u] # None /\ view.corrections[u].text = corrections[u].text
      BY <1>1, <3>1, <3>3 DEF Selected, SameRevision, EditorIsSound, Sound
    <3> QED
      BY <3>2, <3>3, <3>4 DEF Current
  <2>3. CASE UNCHANGED corrections
    BY <2>3
  <2> QED
    BY <1>1, <2>1, <2>2, <2>3 DEF ContentNext, FailPage, RetryPage,
        ReadPage,
       ReadBlocks, ReadCorrections, Show
<1>2. ContentInv /\ ContentInv' /\ EditorIsSound /\ [ContentNext]_contentVars => [Shown]_contentVars
  BY <1>1
<1> QED
  BY <1>2, ContentIsSound, EditorsAreSound, PTL DEF ContentSpec, OnlyShownTextIsReplaced
=============================================================================

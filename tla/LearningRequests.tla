---------------------------- MODULE LearningRequests ----------------------------
(***************************************************************************)
(* src-tauri/src/learning: the request registry (registry.rs), the          *)
(* orchestrator that runs one task per request (orchestrator.rs) and the    *)
(* transactions that keep an answer or delete a conversation                *)
(* (db/conversations.rs).  RegistryState is behind a mutex, so each call of *)
(* the registry is one action; a transaction is held from its first write   *)
(* to its commit, and SQLite lets one writer in at a time.                  *)
(*                                                                          *)
(* A request's location in the code is `at`:                                *)
(*   idle        not started                                                *)
(*   prepared    permit held, history read, provider not loaded or registry *)
(*               not yet called                                             *)
(*   registered  in the registry; a book question loads its provider here   *)
(*   streaming   run_stream consumes the provider's events                  *)
(*   storing     begin_commit returned true, no transaction yet             *)
(*   writing     the transaction has written its rows                       *)
(*   sealed      authorize_commit returned Ok, COMMIT not yet executed      *)
(*   stored      committed, registry.complete not yet called                *)
(*   failing     the transaction is rolled back, registry.fail not yet      *)
(*               called                                                     *)
(*   over        the task has returned or never was                         *)
(***************************************************************************)
EXTENDS Integers, Sequences, SequencesExt, FiniteSets

CONSTANTS
    Request,        \* calls of start_learning_request and its siblings
    Conversation,   \* conversations stored before the first of them
    Fresh,          \* the target of a question that opens a conversation
    MaxActive,      \* MAX_ACTIVE_REQUESTS
    MaxRetained     \* MAX_RETAINED_TERMINAL_REQUESTS

ASSUME RequestAssumption == IsFiniteSet(Request)
ASSUME FreshAssumption == Fresh \notin Conversation
ASSUME BoundAssumption == MaxActive \in Nat \ {0} /\ MaxRetained \in Nat \ {0}

VARIABLES
    status,     \* RegistryEntry.status, "absent" when there is no entry
    commit,     \* commit_started and commit_irrevocable
    permit,     \* RegistryEntry.maintenance_permit is Some
    claims,     \* active_conversations, as a set of <<conversation, request>>
    retired,    \* the terminal entries by terminal_at, oldest first
    deletion,   \* where the deletion of each conversation is
    at,         \* where the task of each request is
    target,     \* LearningPersistenceTarget
    expected,   \* the follow-ups its history had (expected_next_ordinal)
    exists,     \* the conversations rows
    answers,    \* the messages rows: the follow-ups of each conversation
    opened,     \* the conversations that fresh questions stored
    exclusive,  \* maintenance owns the gate
    down        \* AppState is being dropped

registry == <<status, commit, permit, claims, retired>>
database == <<exists, answers, opened>>
vars == <<registry, deletion, at, target, expected, database, exclusive, down>>

Terminal == {"completed", "failed", "cancelled"}
Status == {"absent", "preparing", "streaming"} \cup Terminal
Live(r) == status[r] \in {"preparing", "streaming"}

Location == {"idle", "prepared", "registered", "streaming", "storing", "writing",
             "sealed", "stored", "failing", "over"}

Deletion == {"none", "guarded", "deleting", "dropping"}

Init ==
    /\ status = [r \in Request |-> "absent"]
    /\ commit = [r \in Request |-> "none"]
    /\ permit = [r \in Request |-> FALSE]
    /\ claims = {}
    /\ retired = <<>>
    /\ deletion = [c \in Conversation |-> "none"]
    /\ at = [r \in Request |-> "idle"]
    /\ target = [r \in Request |-> Fresh]
    /\ expected = [r \in Request |-> 0]
    /\ exists = Conversation
    /\ answers = [c \in Conversation |-> <<>>]
    /\ opened = {}
    /\ exclusive = FALSE
    /\ down = FALSE

Goto(r, l) == at' = [at EXCEPT ![r] = l]

\* Mutant of Holds: the task has no lease of its own.
EntryHolds(r) == at[r] = "prepared" \/ permit[r]

\* The call or the task of r holds a NormalOperationPermit.
Holds(r) == at[r] \notin {"idle", "over"} \/ permit[r]

\* SQLite's write lock.
Writing(r) == at[r] \in {"writing", "sealed"}
DatabaseFree ==
    /\ \A r \in Request : ~Writing(r)
    /\ \A c \in Conversation : deletion[c] # "deleting"

Kept(r) == r \in opened \/ \E c \in Conversation : r \in ToSet(answers[c])

-----------------------------------------------------------------------------
(* Parts of the registry.                                                   *)

\* gc_locked after a time in which the n oldest terminal entries expired.
Without(n) == [r \in Request |->
    IF r \in ToSet(SubSeq(retired, 1, n)) THEN "absent" ELSE status[r]]

Collect(n) ==
    /\ n \in 0..Len(retired)
    /\ status' = Without(n)
    /\ retired' = SubSeq(retired, n + 1, Len(retired))

\* release_conversation
Release(r) == claims' = {cr \in claims : cr[2] # r}

\* terminal, release_conversation and trim_terminal_entries of a live entry.
End(r, s) ==
    LET ended == Append(retired, r)
        trim  == Len(ended) > MaxRetained
    IN  /\ status' = [x \in Request |->
                IF x = r THEN s
                ELSE IF trim /\ x = Head(ended) THEN "absent" ELSE status[x]]
        /\ retired' = IF trim THEN Tail(ended) ELSE ended
        /\ permit' = [permit EXCEPT ![r] = FALSE]
        /\ Release(r)
        /\ UNCHANGED commit

\* fail: nothing happens to an entry that is gone or terminal.  The task
\* returns, and its guard drops the entry's permit.
FailAndReturn(r) ==
    /\ Goto(r, "over")
    /\ IF Live(r) THEN End(r, "failed") ELSE UNCHANGED registry

-----------------------------------------------------------------------------
(* Starting a request.                                                      *)

\* A start command: try_acquire_normal, then the history of the target.
Prepare(r, c) ==
    /\ at[r] = "idle"
    /\ ~exclusive
    /\ ~down
    /\ c \in exists \cup {Fresh}
    /\ Goto(r, "prepared")
    /\ target' = [target EXCEPT ![r] = c]
    /\ expected' = [expected EXCEPT ![r] = IF c = Fresh THEN 0 ELSE Len(answers[c])]
    /\ UNCHANGED <<registry, deletion, database, exclusive, down>>

\* The provider cannot be loaded or its profile has changed; the call returns
\* its error and drops the permit.
GiveUp(r) ==
    /\ at[r] = "prepared"
    /\ Goto(r, "over")
    /\ UNCHANGED <<registry, deletion, target, expected, database, exclusive, down>>

Full == Cardinality({r \in Request : Live(r)}) >= MaxActive

Conflict(c) ==
    \/ \E r \in Request : <<c, r>> \in claims
    \/ c \in Conversation /\ deletion[c] # "none"

\* create_at, refused when the registry is full or the conversation is busy.
Create(r, n) ==
    /\ at[r] = "prepared"
    /\ n \in 0..Len(retired)
    /\ retired' = SubSeq(retired, n + 1, Len(retired))
    /\ IF Full \/ (target[r] # Fresh /\ Conflict(target[r]))
       THEN /\ Goto(r, "over")
            /\ status' = Without(n)
            /\ UNCHANGED <<permit, claims>>
       ELSE /\ Goto(r, "registered")
            /\ status' = [Without(n) EXCEPT ![r] = "preparing"]
            /\ permit' = [permit EXCEPT ![r] = TRUE]
            /\ claims' = IF target[r] = Fresh THEN claims
                         ELSE claims \cup {<<target[r], r>>}
    /\ UNCHANGED <<commit, deletion, target, expected, database, exclusive, down>>

\* start_registered_loaded: operation_permit finds the entry's permit.
Spawn(r) ==
    /\ at[r] = "registered"
    /\ permit[r]
    /\ Goto(r, "streaming")
    /\ UNCHANGED <<registry, deletion, target, expected, database, exclusive, down>>

\* The provider of a book question cannot be loaded, or the spawner refuses.
StartFails(r) ==
    /\ at[r] = "registered"
    /\ FailAndReturn(r)
    /\ UNCHANGED <<deletion, target, expected, database, exclusive, down>>

-----------------------------------------------------------------------------
(* The task of a request.                                                   *)

\* append_text of a delta that fits.
AppendText(r) ==
    /\ at[r] = "streaming"
    /\ status[r] = "preparing"
    /\ status' = [status EXCEPT ![r] = "streaming"]
    /\ UNCHANGED <<commit, permit, claims, retired, deletion, at, target, expected,
                   database, exclusive, down>>

\* The stream fails, ends early, overflows, is blank, or its token is
\* cancelled.  After a cancellation or a shutdown there is nothing to fail.
StreamFails(r) ==
    /\ at[r] = "streaming"
    /\ FailAndReturn(r)
    /\ UNCHANGED <<deletion, target, expected, database, exclusive, down>>

\* The provider's Completed event: begin_commit accepts a streaming entry.
BeginCommit(r) ==
    /\ at[r] = "streaming"
    /\ status[r] = "streaming"
    /\ commit' = [commit EXCEPT ![r] = "started"]
    /\ Goto(r, "storing")
    /\ UNCHANGED <<status, permit, claims, retired, deletion, target, expected,
                   database, exclusive, down>>

\* Mutant of Accepts: a follow-up does not compare its ordinal.
AcceptsAnyOrdinal(r) == target[r] = Fresh \/ target[r] \in exists

\* What a transaction finds before it writes.
Accepts(r) ==
    \/ target[r] = Fresh
    \/ target[r] \in exists /\ expected[r] = Len(answers[target[r]])

\* The persist_*_authorized transaction up to its last row.
Write(r) ==
    /\ at[r] = "storing"
    /\ DatabaseFree
    /\ Accepts(r)
    /\ Goto(r, "writing")
    /\ UNCHANGED <<registry, deletion, target, expected, database, exclusive, down>>

\* Mutant of StoreFails: a failed COMMIT is taken for a success.
StoreFailsUnnoticed(r) ==
    /\ at[r] \in {"storing", "writing", "sealed"}
    /\ Goto(r, IF at[r] = "sealed" THEN "stored" ELSE "failing")
    /\ UNCHANGED <<registry, deletion, target, expected, database, exclusive, down>>

\* An error before, in or at the end of the transaction rolls it back.
StoreFails(r) ==
    /\ at[r] \in {"storing", "writing", "sealed"}
    /\ Goto(r, "failing")
    /\ UNCHANGED <<registry, deletion, target, expected, database, exclusive, down>>

\* Mutant of Authorize: a refusal leaves the transaction open.
AuthorizeLive(r) ==
    /\ at[r] = "writing"
    /\ Live(r)
    /\ Goto(r, "sealed")
    /\ commit' = [commit EXCEPT ![r] = "irrevocable"]
    /\ UNCHANGED <<status, permit, claims, retired, deletion, target, expected,
                   database, exclusive, down>>

\* authorize_database_commit, refused once the entry is terminal or gone.
Authorize(r) ==
    /\ at[r] = "writing"
    /\ IF Live(r)
       THEN Goto(r, "sealed") /\ commit' = [commit EXCEPT ![r] = "irrevocable"]
       ELSE Goto(r, "failing") /\ UNCHANGED commit
    /\ UNCHANGED <<status, permit, claims, retired, deletion, target, expected,
                   database, exclusive, down>>

\* transaction.commit
CommitAnswer(r) ==
    /\ at[r] = "sealed"
    /\ Goto(r, "stored")
    /\ IF target[r] = Fresh
       THEN opened' = opened \cup {r} /\ UNCHANGED answers
       ELSE /\ answers' = [answers EXCEPT ![target[r]] = Append(@, r)]
            /\ UNCHANGED opened
    /\ UNCHANGED <<registry, deletion, target, expected, exists, exclusive, down>>

\* complete; after a shutdown there is no entry and the error is dropped.
Complete(r) ==
    /\ at[r] = "stored"
    /\ Goto(r, "over")
    /\ IF Live(r) THEN End(r, "completed") ELSE UNCHANGED registry
    /\ UNCHANGED <<deletion, target, expected, database, exclusive, down>>

FailStored(r) ==
    /\ at[r] = "failing"
    /\ FailAndReturn(r)
    /\ UNCHANGED <<deletion, target, expected, database, exclusive, down>>

-----------------------------------------------------------------------------
(* The user stops a request, reads its state, or deletes a conversation.    *)

\* Mutant of Revocable: a stop is accepted after the authorization.
AlwaysRevocable(r) == Live(r)

Revocable(r) == Live(r) /\ commit[r] # "irrevocable"

\* cancel: the window knows the request once its start has returned.
Cancel(r) ==
    /\ at[r] \notin {"idle", "prepared", "registered"}
    /\ Revocable(r)
    /\ End(r, "cancelled")
    /\ UNCHANGED <<deletion, at, target, expected, database, exclusive, down>>

\* subscribe and snapshot collect what has expired.
Look(n) ==
    /\ Collect(n)
    /\ UNCHANGED <<commit, permit, claims, deletion, at, target, expected, database,
                   exclusive, down>>

\* delete_learning_conversation: begin_conversation_deletion.
BeginDeletion(c, n) ==
    /\ deletion[c] = "none"
    /\ ~down
    /\ Collect(n)
    /\ ~Conflict(c)
    /\ deletion' = [deletion EXCEPT ![c] = "guarded"]
    /\ UNCHANGED <<commit, permit, claims, at, target, expected, database, exclusive,
                   down>>

\* The deleting transaction takes the write lock and finds the conversation.
LockForDeletion(c) ==
    /\ deletion[c] = "guarded"
    /\ DatabaseFree
    /\ c \in exists
    /\ deletion' = [deletion EXCEPT ![c] = "deleting"]
    /\ UNCHANGED <<registry, at, target, expected, database, exclusive, down>>

DeletionFails(c) ==
    /\ deletion[c] \in {"guarded", "deleting"}
    /\ deletion' = [deletion EXCEPT ![c] = "dropping"]
    /\ UNCHANGED <<registry, at, target, expected, database, exclusive, down>>

\* The messages go with the conversation (ON DELETE CASCADE).
CommitDeletion(c) ==
    /\ deletion[c] = "deleting"
    /\ exists' = exists \ {c}
    /\ answers' = [answers EXCEPT ![c] = <<>>]
    /\ deletion' = [deletion EXCEPT ![c] = "dropping"]
    /\ UNCHANGED <<registry, at, target, expected, opened, exclusive, down>>

\* The ConversationDeletionGuard is dropped when the command returns.
DropGuard(c) ==
    /\ deletion[c] = "dropping"
    /\ deletion' = [deletion EXCEPT ![c] = "none"]
    /\ UNCHANGED <<registry, at, target, expected, database, exclusive, down>>

-----------------------------------------------------------------------------
(* Maintenance, shutdown and restart.                                       *)

\* The gate gives maintenance its permit when no normal permit is out.
EnterMaintenance ==
    /\ ~exclusive
    /\ ~down
    /\ \A r \in Request : ~Holds(r)
    /\ exclusive' = TRUE
    /\ UNCHANGED <<registry, deletion, at, target, expected, database, down>>

LeaveMaintenance ==
    /\ exclusive
    /\ exclusive' = FALSE
    /\ UNCHANGED <<registry, deletion, at, target, expected, database, down>>

EmptyRegistry ==
    /\ status' = [r \in Request |-> "absent"]
    /\ permit' = [r \in Request |-> FALSE]
    /\ claims' = {}
    /\ retired' = <<>>

\* AppState::drop, once no command borrows the state any more: shutdown empties
\* the registry.  The tasks of requests do not borrow it and still run.
Shutdown ==
    /\ ~down
    /\ ~exclusive
    /\ \A r \in Request : at[r] \notin {"prepared", "registered"}
    /\ \A c \in Conversation : deletion[c] = "none"
    /\ down' = TRUE
    /\ EmptyRegistry
    /\ UNCHANGED <<commit, deletion, at, target, expected, database, exclusive>>

\* The process ends, in order or not, and starts again: only committed rows stay.
Restart ==
    /\ EmptyRegistry
    /\ down' = FALSE
    /\ exclusive' = FALSE
    /\ at' = [r \in Request |-> IF at[r] = "idle" THEN "idle" ELSE "over"]
    /\ deletion' = [c \in Conversation |-> "none"]
    /\ UNCHANGED <<commit, target, expected, database>>

-----------------------------------------------------------------------------
\* What the task of r does next by itself; a transaction that cannot get the
\* write lock is refused by SQLite's busy timeout.
Begin(r) == GiveUp(r) \/ \E n \in 0..MaxRetained : Create(r, n)
Start(r) == Spawn(r) \/ StartFails(r)
Stream(r) == StreamFails(r) \/ BeginCommit(r)
Settle(r) ==
    \/ Write(r) \/ (at[r] = "storing" /\ StoreFails(r))
    \/ Authorize(r) \/ CommitAnswer(r) \/ Complete(r) \/ FailStored(r)

DeletionStep(c) ==
    LockForDeletion(c) \/ DeletionFails(c) \/ CommitDeletion(c) \/ DropGuard(c)

Next ==
    \/ \E r \in Request :
        \/ \E c \in Conversation \cup {Fresh} : Prepare(r, c)
        \/ Begin(r) \/ Start(r) \/ AppendText(r) \/ Stream(r)
        \/ StoreFails(r) \/ Settle(r) \/ Cancel(r)
    \/ \E c \in Conversation : DeletionStep(c)
    \/ \E c \in Conversation, n \in 0..MaxRetained : BeginDeletion(c, n)
    \/ \E n \in 1..MaxRetained : Look(n)
    \/ EnterMaintenance \/ LeaveMaintenance \/ Shutdown \/ Restart

Spec == Init /\ [][Next]_vars

\* The runtime polls every task, and every call of a provider has a timeout.
FairSpec ==
    /\ Spec
    /\ \A r \in Request :
        WF_vars(Begin(r)) /\ WF_vars(Start(r)) /\ WF_vars(Stream(r)) /\ WF_vars(Settle(r))

-----------------------------------------------------------------------------
(* Properties.                                                              *)

TypeOK ==
    /\ status \in [Request -> Status]
    /\ commit \in [Request -> {"none", "started", "irrevocable"}]
    /\ permit \in [Request -> BOOLEAN]
    /\ claims \subseteq Conversation \X Request
    /\ retired \in Seq(Request) /\ Len(retired) <= MaxRetained
    /\ deletion \in [Conversation -> Deletion]
    /\ at \in [Request -> Location]
    /\ target \in [Request -> Conversation \cup {Fresh}]
    /\ expected \in [Request -> Nat]
    /\ exists \subseteq Conversation
    /\ answers \in [Conversation -> Seq(Request)]
    /\ opened \subseteq Request
    /\ exclusive \in BOOLEAN
    /\ down \in BOOLEAN

\* A request that the window shows as completed has its answer in the
\* database, unless its conversation has been deleted since.
CompletedIsKept ==
    \A r \in Request : status[r] = "completed" =>
        Kept(r) \/ (target[r] # Fresh /\ target[r] \notin exists)

\* Once a request is shown as failed or cancelled, its answer is never stored,
\* not even by a transaction that was already writing, and not after the
\* entry has been collected, or after a shutdown or a restart.
StoppedIsNeverKept ==
    \A r \in Request :
        [](status[r] \in {"failed", "cancelled"} => [](~Kept(r)))

\* A conversation has at most one request under way, the one its claim names;
\* a claim never outlives its request.
ClaimsAreLive ==
    /\ \A cr \in claims : Live(cr[2]) /\ target[cr[2]] = cr[1]
    /\ \A r, s \in Request :
        Live(r) /\ Live(s) /\ target[r] = target[s] /\ target[r] # Fresh => r = s

\* A conversation that is being deleted has no request under way.
DeletionIsAlone ==
    \A r \in Request : Live(r) /\ target[r] # Fresh => deletion[target[r]] = "none"

\* Every stored follow-up was asked about exactly the turns that precede it,
\* and nothing is stored in a deleted conversation.
AnswersFollowTheirHistory ==
    \A c \in Conversation :
        /\ \A i \in DOMAIN answers[c] : expected[answers[c][i]] = i - 1
        /\ c \notin exists => answers[c] = <<>>

\* Backup, restore and deletion never run beside the task of a request,
\* cancelled ones that have not noticed it included.
MaintenanceIsAlone ==
    exclusive => \A r \in Request : at[r] \in {"idle", "over"}

\* A request that is over leaves nothing behind: no permit that would keep
\* maintenance waiting and no claim that would keep its conversation busy.
OverHoldsNothing ==
    \A r \in Request : at[r] = "over" =>
        ~permit[r] /\ ~Live(r) /\ \A cr \in claims : cr[2] # r

\* Claims, permits, guards and tasks are let go of together and in time, on every way
\* out of a request: neither maintenance nor a conversation is blocked by one that is
\* over, nor let in beside one that is not.
HoldingsAreSound == ClaimsAreLive /\ DeletionIsAlone /\ MaintenanceIsAlone /\ OverHoldsNothing

\* Every request that has been started ends.
RequestsEnd == \A r \in Request : at[r] = "prepared" ~> at[r] = "over"
=============================================================================

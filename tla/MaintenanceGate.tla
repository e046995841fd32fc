---------------------------- MODULE MaintenanceGate ----------------------------
(***************************************************************************)
(* src-tauri/src/maintenance/gate.rs: the reader/writer gate every command  *)
(* that touches the library passes.  A normal operation takes a counted     *)
(* permit of its kind; backup, restore, deletion and clear-all need the     *)
(* gate for themselves.  GateState is behind a mutex, so each critical      *)
(* section is one action; `changed.notify_waiters()` runs after the mutex   *)
(* is released and is an action of its own.                                 *)
(*                                                                          *)
(* A task is one asynchronous caller.  Its location in the code is `at`:    *)
(*   idle     not inside the gate                                           *)
(*   nCheck   acquire_normal: Notified created, mutex not yet taken         *)
(*   nPoll    acquire_normal: must wait, the future is not yet awaited      *)
(*   nWait    acquire_normal: suspended in notified.await                   *)
(*   normal   holds a NormalOperationPermit                                 *)
(*   mNotify  acquire_maintenance: ticket queued, waiters not yet notified  *)
(*   mCheck   acquire_maintenance: Notified created, mutex not yet taken    *)
(*   mPoll    acquire_maintenance: must wait, the future is not yet awaited *)
(*   mWait    acquire_maintenance: suspended in notified.await              *)
(*   mDrop    acquire_maintenance is over unclaimed, QueuedMaintenance is   *)
(*            about to be dropped                                           *)
(*   owner    holds the ExclusiveMaintenancePermit                          *)
(*   notify   released or dropped something, waiters not yet notified       *)
(***************************************************************************)
EXTENDS Integers, Sequences, SequencesExt, FiniteSets

CONSTANTS
    Task,       \* asynchronous callers
    Kind,       \* ActiveOperationKind::ALL
    MaxCount,   \* largest value of a counter and of their total (u32::MAX)
    MaxTicket   \* largest value of next_ticket (u64::MAX)

ASSUME TaskAssumption == IsFiniteSet(Task)
ASSUME KindAssumption == IsFiniteSet(Kind) /\ Kind # {}
ASSUME BoundAssumption == MaxCount \in Nat \ {0} /\ MaxTicket \in Nat

VARIABLES
    active,         \* GateState.active
    waiting,        \* GateState.waiting_maintenance
    nextTicket,     \* GateState.next_ticket
    exclusive,      \* GateState.exclusive
    shuttingDown,   \* GateState.shutting_down
    notifyShutdown, \* shutdown() has set the flag and not yet notified
    at,             \* where each task is
    kind,           \* the kind a task asked a normal permit for
    ticket,         \* QueuedMaintenance.ticket
    woken           \* the task's Notified future has been completed

gate == <<active, waiting, nextTicket, exclusive, shuttingDown>>
vars == <<gate, notifyShutdown, at, kind, ticket, woken>>

Location == {"idle", "nCheck", "nPoll", "nWait", "normal", "mNotify", "mCheck",
             "mPoll", "mWait", "mDrop", "owner", "notify"}

Queued == {"mNotify", "mCheck", "mPoll", "mWait", "mDrop"}

GateInit ==
    /\ active = [k \in Kind |-> 0]
    /\ waiting = <<>>
    /\ nextTicket = 0
    /\ exclusive = FALSE
    /\ shuttingDown = FALSE

Init ==
    /\ GateInit
    /\ notifyShutdown = FALSE
    /\ at = [t \in Task |-> "idle"]
    /\ kind \in [Task -> Kind]
    /\ ticket = [t \in Task |-> 0]
    /\ woken = [t \in Task |-> FALSE]

Goto(t, l) == at' = [at EXCEPT ![t] = l]

\* active_total: the sum of the counters.
ActiveTotal ==
    Cardinality({ki \in Kind \X (1..MaxCount) : ki[2] <= active[ki[1]]})

TotalOverflows == ActiveTotal > MaxCount

\* Mutant of Without: the ticket stays in the queue.
Unchanged(queue, tk) == queue

\* The VecDeque without one ticket (retain).
Without(queue, tk) ==
    IF \E i \in 1..Len(queue) : queue[i] = tk
    THEN RemoveAt(queue, CHOOSE i \in 1..Len(queue) : queue[i] = tk)
    ELSE queue

\* Mutant of HasNotified: a future not awaited yet misses the notification.
IsSuspended(t) == at[t] \in {"nWait", "mWait"}

\* notify_waiters completes every Notified future that exists at that moment,
\* including those created and not yet awaited.
HasNotified(t) == at[t] \in {"nCheck", "nPoll", "nWait", "mCheck", "mPoll", "mWait"}

NotifyWaiters == woken' = [t \in Task |-> woken[t] \/ HasNotified(t)]

-----------------------------------------------------------------------------
(* Normal operations.                                                       *)

\* Mutant of OpenToNormal: the owner is ignored.
NobodyWaits == waiting = <<>>

OpenToNormal == ~exclusive /\ waiting = <<>>

IncrementActive(t) ==
    /\ active[kind[t]] < MaxCount
    /\ active' = [active EXCEPT ![kind[t]] = @ + 1]

\* try_acquire_normal; a refusal (busy, shutting down, overflow) changes nothing.
TryAcquireNormal(t, k) ==
    /\ at[t] = "idle"
    /\ ~shuttingDown
    /\ OpenToNormal
    /\ active[k] < MaxCount
    /\ active' = [active EXCEPT ![k] = @ + 1]
    /\ kind' = [kind EXCEPT ![t] = k]
    /\ Goto(t, "normal")
    /\ UNCHANGED <<waiting, nextTicket, exclusive, shuttingDown, notifyShutdown,
                   ticket, woken>>

\* acquire_normal creates its first Notified future.
BeginNormal(t, k) ==
    /\ at[t] = "idle"
    /\ kind' = [kind EXCEPT ![t] = k]
    /\ woken' = [woken EXCEPT ![t] = FALSE]
    /\ Goto(t, "nCheck")
    /\ UNCHANGED <<gate, notifyShutdown, ticket>>

NormalGranted(t) ==
    /\ ~shuttingDown
    /\ OpenToNormal
    /\ IncrementActive(t)
    /\ Goto(t, "normal")

NormalRefused(t) ==
    /\ shuttingDown \/ (OpenToNormal /\ active[kind[t]] = MaxCount)
    /\ Goto(t, "idle")
    /\ UNCHANGED active

NormalMustWait(t) ==
    /\ ~shuttingDown
    /\ ~OpenToNormal
    /\ Goto(t, "nPoll")
    /\ UNCHANGED active

\* The locked section of acquire_normal's loop.
CheckNormal(t) ==
    /\ at[t] = "nCheck"
    /\ NormalGranted(t) \/ NormalRefused(t) \/ NormalMustWait(t)
    /\ UNCHANGED <<waiting, nextTicket, exclusive, shuttingDown, notifyShutdown,
                   kind, ticket, woken>>

\* The mutex is released; the future is awaited and the task suspended.
AwaitNormal(t) ==
    /\ at[t] = "nPoll"
    /\ Goto(t, "nWait")
    /\ UNCHANGED <<gate, notifyShutdown, kind, ticket, woken>>

\* The awaited future completes and the loop creates a new one.
WakeNormal(t) ==
    /\ at[t] = "nWait"
    /\ woken[t]
    /\ woken' = [woken EXCEPT ![t] = FALSE]
    /\ Goto(t, "nCheck")
    /\ UNCHANGED <<gate, notifyShutdown, kind, ticket>>

\* The caller drops the suspended future.
AbandonNormal(t) ==
    /\ at[t] = "nWait"
    /\ Goto(t, "idle")
    /\ UNCHANGED <<gate, notifyShutdown, kind, ticket, woken>>

\* NormalOperationPermit::release, from Drop or called directly.
ReleaseNormal(t) ==
    /\ at[t] = "normal"
    /\ active' = [active EXCEPT ![kind[t]] = IF @ > 0 THEN @ - 1 ELSE @]
    /\ Goto(t, "notify")
    /\ UNCHANGED <<waiting, nextTicket, exclusive, shuttingDown, notifyShutdown,
                   kind, ticket, woken>>

-----------------------------------------------------------------------------
(* Exclusive maintenance.                                                   *)

\* Mutant of AtFront: anyone in the queue may go.
InQueue(t) == \E i \in 1..Len(waiting) : waiting[i] = ticket[t]

AtFront(t) == waiting # <<>> /\ Head(waiting) = ticket[t]

\* Mutant of TryAcquireMaintenance: active operations are not counted.
TryAcquireAnyway(t) ==
    /\ at[t] = "idle"
    /\ ~shuttingDown
    /\ ~exclusive
    /\ waiting = <<>>
    /\ exclusive' = TRUE
    /\ Goto(t, "owner")
    /\ UNCHANGED <<active, waiting, nextTicket, shuttingDown, notifyShutdown,
                   kind, ticket, woken>>

\* try_acquire_maintenance.
TryAcquireMaintenance(t) ==
    /\ at[t] = "idle"
    /\ ~shuttingDown
    /\ ~exclusive
    /\ waiting = <<>>
    /\ ActiveTotal = 0
    /\ exclusive' = TRUE
    /\ Goto(t, "owner")
    /\ UNCHANGED <<active, waiting, nextTicket, shuttingDown, notifyShutdown,
                   kind, ticket, woken>>

\* QueuedMaintenance::register up to the unlock.
Register(t) ==
    /\ at[t] = "idle"
    /\ ~shuttingDown
    /\ nextTicket < MaxTicket
    /\ ticket' = [ticket EXCEPT ![t] = nextTicket]
    /\ nextTicket' = nextTicket + 1
    /\ waiting' = Append(waiting, nextTicket)
    /\ Goto(t, "mNotify")
    /\ UNCHANGED <<active, exclusive, shuttingDown, notifyShutdown, kind, woken>>

\* register notifies, then the loop creates its first Notified future.
NotifyRegistered(t) ==
    /\ at[t] = "mNotify"
    /\ woken' = [u \in Task |-> u # t /\ (woken[u] \/ HasNotified(u))]
    /\ Goto(t, "mCheck")
    /\ UNCHANGED <<gate, notifyShutdown, kind, ticket>>

MaintenanceGranted(t) ==
    /\ ~shuttingDown
    /\ ~exclusive
    /\ ActiveTotal = 0
    /\ AtFront(t)
    /\ waiting' = Tail(waiting)
    /\ exclusive' = TRUE
    /\ Goto(t, "owner")

MaintenanceRefused(t) ==
    /\ shuttingDown \/ (~exclusive /\ TotalOverflows)
    /\ Goto(t, "mDrop")
    /\ UNCHANGED <<waiting, exclusive>>

MaintenanceMustWait(t) ==
    /\ ~shuttingDown
    /\ \/ exclusive
       \/ ActiveTotal \in 1..MaxCount
       \/ ActiveTotal = 0 /\ ~AtFront(t)
    /\ Goto(t, "mPoll")
    /\ UNCHANGED <<waiting, exclusive>>

\* The locked section of acquire_maintenance's loop.
CheckMaintenance(t) ==
    /\ at[t] = "mCheck"
    /\ MaintenanceGranted(t) \/ MaintenanceRefused(t) \/ MaintenanceMustWait(t)
    /\ UNCHANGED <<active, nextTicket, shuttingDown, notifyShutdown, kind, ticket,
                   woken>>

AwaitMaintenance(t) ==
    /\ at[t] = "mPoll"
    /\ Goto(t, "mWait")
    /\ UNCHANGED <<gate, notifyShutdown, kind, ticket, woken>>

WakeMaintenance(t) ==
    /\ at[t] = "mWait"
    /\ woken[t]
    /\ woken' = [woken EXCEPT ![t] = FALSE]
    /\ Goto(t, "mCheck")
    /\ UNCHANGED <<gate, notifyShutdown, kind, ticket>>

\* The caller drops the suspended future, and with it the QueuedMaintenance.
AbandonMaintenance(t) ==
    /\ at[t] = "mWait"
    /\ Goto(t, "mDrop")
    /\ UNCHANGED <<gate, notifyShutdown, kind, ticket, woken>>

\* Drop of an unclaimed QueuedMaintenance, up to the unlock.
DropQueued(t) ==
    /\ at[t] = "mDrop"
    /\ waiting' = Without(waiting, ticket[t])
    /\ Goto(t, "notify")
    /\ UNCHANGED <<active, nextTicket, exclusive, shuttingDown, notifyShutdown,
                   kind, ticket, woken>>

\* ExclusiveMaintenancePermit::release.
ReleaseMaintenance(t) ==
    /\ at[t] = "owner"
    /\ exclusive' = FALSE
    /\ Goto(t, "notify")
    /\ UNCHANGED <<active, waiting, nextTicket, shuttingDown, notifyShutdown,
                   kind, ticket, woken>>

-----------------------------------------------------------------------------
(* Notification and shutdown.                                               *)

\* notify_waiters after a release or a drop; the task has left the gate.
NotifyReleased(t) ==
    /\ at[t] = "notify"
    /\ NotifyWaiters
    /\ Goto(t, "idle")
    /\ UNCHANGED <<gate, notifyShutdown, kind, ticket>>

\* shutdown, up to the unlock: AppState is dropped, or a restore or a clear-all is staged
\* and waits for a restart, still with its permit.  It may be called again.
Shutdown ==
    /\ shuttingDown' = TRUE
    /\ notifyShutdown' = TRUE
    /\ UNCHANGED <<active, waiting, nextTicket, exclusive, at, kind, ticket, woken>>

\* Mutant of NotifyOfShutdown: nobody is told.
ShutdownSilently ==
    /\ notifyShutdown
    /\ notifyShutdown' = FALSE
    /\ UNCHANGED <<gate, at, kind, ticket, woken>>

NotifyOfShutdown ==
    /\ notifyShutdown
    /\ notifyShutdown' = FALSE
    /\ NotifyWaiters
    /\ UNCHANGED <<gate, at, kind, ticket>>

-----------------------------------------------------------------------------
Release(t) == ReleaseNormal(t) \/ ReleaseMaintenance(t)

\* The steps a task takes by itself once it has entered the gate.
Proceed(t) ==
    \/ CheckNormal(t) \/ AwaitNormal(t) \/ WakeNormal(t)
    \/ NotifyRegistered(t)
    \/ CheckMaintenance(t) \/ AwaitMaintenance(t) \/ WakeMaintenance(t)
    \/ DropQueued(t) \/ NotifyReleased(t)

\* The steps its caller chooses.
Enter(t) ==
    \/ \E k \in Kind : TryAcquireNormal(t, k) \/ BeginNormal(t, k)
    \/ TryAcquireMaintenance(t)
    \/ Register(t)

Abandon(t) == AbandonNormal(t) \/ AbandonMaintenance(t)

Next ==
    \/ \E t \in Task : Enter(t) \/ Proceed(t) \/ Abandon(t) \/ Release(t)
    \/ Shutdown
    \/ NotifyOfShutdown

Spec == Init /\ [][Next]_vars

\* The runtime polls every task that can run.  Nothing obliges a caller to enter, to
\* give up or, in general, to release what it holds.
FairSpec ==
    /\ Spec
    /\ \A t \in Task : WF_vars(Proceed(t))
    /\ WF_vars(NotifyOfShutdown)

\* A permit is dropped when the command that holds it returns.
HoldersRelease == \A t \in Task : WF_vars(Release(t))

-----------------------------------------------------------------------------
(* Properties.                                                              *)

TypeOK ==
    /\ active \in [Kind -> 0..MaxCount]
    /\ waiting \in Seq(0..MaxTicket)
    /\ nextTicket \in 0..MaxTicket
    /\ exclusive \in BOOLEAN
    /\ shuttingDown \in BOOLEAN
    /\ notifyShutdown \in BOOLEAN
    /\ at \in [Task -> Location]
    /\ kind \in [Task -> Kind]
    /\ ticket \in [Task -> 0..MaxTicket]
    /\ woken \in [Task -> BOOLEAN]

Holders(k) == {t \in Task : at[t] = "normal" /\ kind[t] = k}
Sharers == {t \in Task : at[t] = "normal"}
Owners == {t \in Task : at[t] = "owner"}
QueuedTasks == {t \in Task : at[t] \in Queued}

\* While a restore, a deletion, a backup or a clear-all owns the library, no other
\* task holds a permit of any kind.
MutualExclusion ==
    \A t \in Owners : Sharers = {} /\ Owners = {t}

\* Each counter is exactly the number of live permits of its kind, and the flag is
\* set exactly while a maintenance permit is alive: a leaked or doubled release
\* would lock maintenance out for ever, or let it in too early.
CountersMatchPermits ==
    /\ \A k \in Kind : active[k] = Cardinality(Holders(k))
    /\ exclusive <=> Owners # {}

\* The queue holds the tickets of the live waiters and nothing else, in the order
\* they were drawn: an orphaned ticket would refuse every later normal operation.
QueueMatchesWaiters ==
    /\ Range(waiting) = {ticket[t] : t \in QueuedTasks}
    /\ Len(waiting) = Cardinality(QueuedTasks)
    /\ \A i, j \in 1..Len(waiting) : i < j => waiting[i] < waiting[j]
    /\ \A i \in 1..Len(waiting) : waiting[i] < nextTicket

\* The state under the mutex is exactly what the tasks hold and wait for: a leaked or
\* doubled release, or an orphaned ticket, would lock the gate for ever.
GateIsAccurate == TypeOK /\ CountersMatchPermits /\ QueueMatchesWaiters

\* The exclusive permit is granted to the longest waiting task, never past it.
GrantsInOrder ==
    [][\A t \in Task :
         at[t] # "owner" /\ at'[t] = "owner" =>
            \A u \in QueuedTasks \ {t} : at[t] \in Queued /\ ticket[t] < ticket[u]]_vars

\* A normal permit is never granted while a maintenance task is queued (late
\* readers do not starve it) nor after shutdown has begun.
NoLateReader ==
    [][\A t \in Task :
         at[t] # "normal" /\ at'[t] = "normal" => QueuedTasks = {} /\ ~shuttingDown]_vars

\* The gate is fair whichever woken task takes the mutex first: nobody overtakes an
\* older maintenance task, neither another one nor a late reader.
QueueIsFair == GrantsInOrder /\ NoLateReader

\* If every holder releases its permit in the end, every queued maintenance task gets
\* the gate, gives up or is refused: no wake-up is lost between the check under the
\* mutex and the await.
MaintenanceServed ==
    HoldersRelease => \A t \in Task : at[t] \in Queued ~> at[t] \notin Queued

\* Once shutdown has begun, every waiter leaves the gate, even if no holder ever
\* releases its permit: the notification of shutdown itself has to wake it.
ShutdownReleasesWaiters ==
    \A t \in Task :
        shuttingDown /\ at[t] \in Queued \cup {"nCheck", "nPoll", "nWait"} ~> at[t] \in {"idle", "notify"}

\* The gate implements the abstract shared/exclusive access.
Access == INSTANCE ExclusiveAccess WITH sharers <- Sharers, owners <- Owners
ImplementsAccess == Access!AccessSpec
=============================================================================

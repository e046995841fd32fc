-------------------------- MODULE MaintenanceGateProofs --------------------------
(***************************************************************************)
(* Theorems about MaintenanceGate for any finite sets of tasks and kinds    *)
(* and any bounds.                                                          *)
(***************************************************************************)
EXTENDS MaintenanceGate, FiniteSetTheorems, SequenceTheorems, TLAPS

\* Removing an element keeps a sequence over its set.
LEMMA WithoutType ==
    ASSUME NEW S, NEW q \in Seq(S), NEW tk
    PROVE  Without(q, tk) \in Seq(S)
<1>1. CASE \E i \in 1..Len(q) : q[i] = tk
  <2> DEFINE i == CHOOSE j \in 1..Len(q) : q[j] = tk
  <2>1. i \in 1..Len(q)
    BY <1>1
  <2> HIDE DEF i
  <2>2. SubSeq(q, 1, i - 1) \in Seq(S) /\ SubSeq(q, i + 1, Len(q)) \in Seq(S)
    <3>1. Len(q) \in Nat
      BY LenProperties
    <3>2. \A j \in 1..(i - 1) : q[j] \in S
      BY <2>1, <3>1, ElementOfSeq
    <3>3. \A j \in (i + 1)..Len(q) : q[j] \in S
      BY <2>1, <3>1, ElementOfSeq
    <3> QED
      BY <2>1, <3>1, <3>2, <3>3, SubSeqProperties
  <2>3. RemoveAt(q, i) \in Seq(S)
    BY <2>2, ConcatProperties DEF RemoveAt
  <2> QED
    BY <1>1, <2>3 DEF Without, i
<1>2. CASE ~ \E i \in 1..Len(q) : q[i] = tk
  BY <1>2 DEF Without
<1> QED
  BY <1>1, <1>2

\* Every variable keeps its type: in particular no counter leaves 0..MaxCount and
\* the queue holds only tickets that can be drawn (GateState).
THEOREM TypeCorrect == Spec => []TypeOK
<1>1. Init => TypeOK
  <2> SUFFICES ASSUME Init
               PROVE  TypeOK
    OBVIOUS
  <2>1. active \in [Kind -> 0..MaxCount]
    BY BoundAssumption DEF Init, GateInit
  <2>2. /\ nextTicket \in 0..MaxTicket
        /\ ticket \in [Task -> 0..MaxTicket]
        /\ at \in [Task -> Location]
    BY BoundAssumption DEF Init, GateInit, Location
  <2> QED
    BY <2>1, <2>2, EmptySeq DEF Init, GateInit, TypeOK
<1>2. TypeOK /\ [Next]_vars => TypeOK'
  <2> SUFFICES ASSUME TypeOK, [Next]_vars
               PROVE  TypeOK'
    OBVIOUS
  <2> USE BoundAssumption DEF TypeOK, gate, Goto, Location
  <2>1. ASSUME NEW t \in Task, NEW k \in Kind, TryAcquireNormal(t, k)
        PROVE  TypeOK'
    BY <2>1 DEF TryAcquireNormal
  <2>2. ASSUME NEW t \in Task, NEW k \in Kind, BeginNormal(t, k)
        PROVE  TypeOK'
    BY <2>2 DEF BeginNormal
  <2>3. ASSUME NEW t \in Task, CheckNormal(t)
        PROVE  TypeOK'
    <3>1. CASE NormalGranted(t)
      <4>1. active' \in [Kind -> 0..MaxCount]
        BY <3>1 DEF NormalGranted, IncrementActive
      <4> QED
        BY <2>3, <3>1, <4>1 DEF CheckNormal, NormalGranted
    <3>2. CASE NormalRefused(t) \/ NormalMustWait(t)
      BY <2>3, <3>2 DEF CheckNormal, NormalRefused, NormalMustWait
    <3> QED
      BY <2>3, <3>1, <3>2 DEF CheckNormal
  <2>4. ASSUME NEW t \in Task, AwaitNormal(t) \/ AwaitMaintenance(t) \/ WakeNormal(t) \/ WakeMaintenance(t)
        PROVE  TypeOK'
    BY <2>4 DEF AwaitNormal, AwaitMaintenance, WakeNormal, WakeMaintenance
  <2>5. ASSUME NEW t \in Task, Abandon(t)
        PROVE  TypeOK'
    BY <2>5 DEF Abandon, AbandonNormal, AbandonMaintenance
  <2>6. ASSUME NEW t \in Task, ReleaseNormal(t)
        PROVE  TypeOK'
    BY <2>6 DEF ReleaseNormal
  <2>7. ASSUME NEW t \in Task, TryAcquireMaintenance(t) \/ ReleaseMaintenance(t)
        PROVE  TypeOK'
    BY <2>7 DEF TryAcquireMaintenance, ReleaseMaintenance
  <2>8. ASSUME NEW t \in Task, Register(t)
        PROVE  TypeOK'
    BY <2>8, AppendProperties DEF Register
  <2>9. ASSUME NEW t \in Task, NotifyRegistered(t) \/ NotifyReleased(t)
        PROVE  TypeOK'
    BY <2>9 DEF NotifyRegistered, NotifyReleased, NotifyWaiters, HasNotified
  <2>10. ASSUME NEW t \in Task, CheckMaintenance(t)
         PROVE  TypeOK'
    <3>1. waiting' \in Seq(0..MaxTicket)
      <4>1. CASE MaintenanceGranted(t)
        <5>1. waiting # <<>> /\ waiting' = Tail(waiting)
          BY <4>1 DEF MaintenanceGranted, AtFront
        <5> QED
          BY <5>1, HeadTailProperties
      <4> QED
        BY <2>10, <4>1 DEF CheckMaintenance, MaintenanceRefused, MaintenanceMustWait
    <3> QED
      BY <2>10, <3>1 DEF CheckMaintenance, MaintenanceGranted, MaintenanceRefused,
                         MaintenanceMustWait
  <2>11. ASSUME NEW t \in Task, DropQueued(t)
         PROVE  TypeOK'
    BY <2>11, WithoutType DEF DropQueued
  <2>12. CASE Shutdown \/ NotifyOfShutdown
    BY <2>12 DEF Shutdown, NotifyOfShutdown, NotifyWaiters, HasNotified
  <2>13. CASE UNCHANGED vars
    BY <2>13 DEF vars
  <2> QED
    BY <2>1, <2>2, <2>3, <2>4, <2>5, <2>6, <2>7, <2>8, <2>9, <2>10, <2>11, <2>12,
       <2>13 DEF Next, Enter, Proceed, Release
<1> QED
  BY <1>1, <1>2, PTL DEF Spec

-----------------------------------------------------------------------------
(* Permits, counters and exclusion.                                         *)

\* The permits of a kind can be counted.
LEMMA HoldersFinite ==
    ASSUME NEW k \in Kind
    PROVE  IsFiniteSet(Holders(k)) /\ Cardinality(Holders(k)) \in Nat
BY TaskAssumption, FS_Subset, FS_CardinalityType DEF Holders

\* The total of the counters is zero only if each of them is (active_total).
LEMMA ZeroTotal ==
    ASSUME TypeOK, ActiveTotal = 0, NEW k \in Kind
    PROVE  active[k] = 0
<1> DEFINE Pairs == {ki \in Kind \X (1..MaxCount) : ki[2] <= active[ki[1]]}
<1>1. IsFiniteSet(Pairs)
  <2>1. IsFiniteSet(Kind \X (1..MaxCount))
    <3>1. IsFiniteSet(1..MaxCount)
      BY BoundAssumption, FS_Interval
    <3> QED
      BY <3>1, KindAssumption, FS_Product
  <2> QED
    BY <2>1, FS_Subset
<1>2. Pairs = {}
  BY <1>1, FS_EmptySet DEF ActiveTotal
<1>3. <<k, active[k]>> \in Pairs \/ active[k] = 0
  BY BoundAssumption DEF TypeOK
<1> QED
  BY <1>2, <1>3

\* With every counter at zero no task holds a normal permit.
LEMMA NoSharers ==
    ASSUME TypeOK, CountersMatchPermits, \A k \in Kind : active[k] = 0
    PROVE  Sharers = {}
<1> SUFFICES ASSUME NEW t \in Task, at[t] = "normal"
             PROVE  FALSE
  BY DEF Sharers
<1>1. kind[t] \in Kind
  BY DEF TypeOK
<1>2. Cardinality(Holders(kind[t])) = 0
  BY <1>1 DEF CountersMatchPermits
<1>3. Holders(kind[t]) = {}
  BY <1>1, <1>2, HoldersFinite, FS_EmptySet
<1> QED
  BY <1>3 DEF Holders

AccessInv == CountersMatchPermits /\ MutualExclusion

\* A task outside both permit locations that takes a permit of kind k.
TakesNormal(t, k) ==
    /\ at[t] \in {"idle", "nCheck"}
    /\ ~exclusive
    /\ at' = [at EXCEPT ![t] = "normal"]
    /\ kind' = [kind EXCEPT ![t] = k]
    /\ active' = [active EXCEPT ![k] = @ + 1]
    /\ exclusive' = exclusive

TakesExclusive(t) ==
    /\ at[t] \in {"idle", "mCheck"}
    /\ ~exclusive
    /\ ActiveTotal = 0
    /\ at' = [at EXCEPT ![t] = "owner"]
    /\ exclusive' = TRUE
    /\ UNCHANGED <<active, kind>>

\* Neither permit changes hands.
KeepsPermits ==
    /\ UNCHANGED <<active, exclusive>>
    /\ \A u \in Task : /\ at'[u] = "normal" <=> at[u] = "normal"
                       /\ at'[u] = "owner" <=> at[u] = "owner"
                       /\ at[u] = "normal" => kind'[u] = kind[u]

\* Every step of the gate takes a permit, gives one back or leaves them alone.
LEMMA StepKinds ==
    ASSUME TypeOK, [Next]_vars
    PROVE  \/ \E t \in Task, k \in Kind : TakesNormal(t, k)
           \/ \E t \in Task : TakesExclusive(t) \/ Release(t)
           \/ KeepsPermits
<1> USE DEF TypeOK, gate, Goto
<1>1. ASSUME NEW t \in Task, NEW k \in Kind, TryAcquireNormal(t, k)
      PROVE  TakesNormal(t, k)
  BY <1>1 DEF TryAcquireNormal, TakesNormal, OpenToNormal
<1>2. ASSUME NEW t \in Task, NEW k \in Kind, BeginNormal(t, k)
      PROVE  KeepsPermits
  BY <1>2 DEF BeginNormal, KeepsPermits
<1>3. ASSUME NEW t \in Task, CheckNormal(t)
      PROVE  KeepsPermits \/ TakesNormal(t, kind[t])
  <2>1. CASE NormalGranted(t)
    BY <1>3, <2>1 DEF CheckNormal, NormalGranted, IncrementActive, OpenToNormal,
                      TakesNormal
  <2>2. CASE NormalRefused(t) \/ NormalMustWait(t)
    BY <1>3, <2>2 DEF CheckNormal, NormalRefused, NormalMustWait, KeepsPermits
  <2> QED
    BY <1>3, <2>1, <2>2 DEF CheckNormal
<1>4. ASSUME NEW t \in Task, CheckMaintenance(t)
      PROVE  KeepsPermits \/ TakesExclusive(t)
  <2>1. CASE MaintenanceGranted(t)
    BY <1>4, <2>1 DEF CheckMaintenance, MaintenanceGranted, TakesExclusive
  <2>2. CASE MaintenanceRefused(t) \/ MaintenanceMustWait(t)
    BY <1>4, <2>2 DEF CheckMaintenance, MaintenanceRefused, MaintenanceMustWait,
                      KeepsPermits
  <2> QED
    BY <1>4, <2>1, <2>2 DEF CheckMaintenance
<1>5. ASSUME NEW t \in Task, AwaitNormal(t) \/ AwaitMaintenance(t) \/ WakeNormal(t) \/ WakeMaintenance(t) \/ Abandon(t)
      PROVE  KeepsPermits
  BY <1>5 DEF AwaitNormal, AwaitMaintenance, WakeNormal, WakeMaintenance, Abandon, AbandonNormal,
              AbandonMaintenance, KeepsPermits
<1>6. ASSUME NEW t \in Task, TryAcquireMaintenance(t)
      PROVE  TakesExclusive(t)
  BY <1>6 DEF TryAcquireMaintenance, TakesExclusive
<1>7. ASSUME NEW t \in Task,
             Register(t) \/ NotifyRegistered(t) \/ DropQueued(t) \/ NotifyReleased(t)
      PROVE  KeepsPermits
  BY <1>7 DEF Register, NotifyRegistered, DropQueued, NotifyReleased, KeepsPermits
<1>8. CASE Shutdown \/ NotifyOfShutdown \/ UNCHANGED vars
  BY <1>8 DEF Shutdown, NotifyOfShutdown, vars, KeepsPermits
<1>9. ASSUME NEW t \in Task, CheckNormal(t)
      PROVE  KeepsPermits \/ \E k \in Kind : TakesNormal(t, k)
  BY <1>3, <1>9
<1> QED
  BY <1>1, <1>2, <1>4, <1>5, <1>6, <1>7, <1>8, <1>9 DEF Next, Enter, Proceed

\* Every step keeps counters, flag and permits in agreement.
LEMMA AccessStep ==
    ASSUME TypeOK, AccessInv, [Next]_vars
    PROVE  AccessInv'
<1> USE DEF AccessInv, TypeOK
<1>1. ASSUME NEW t \in Task, NEW k \in Kind, TakesNormal(t, k)
      PROVE  AccessInv'
  <2>1. Owners = {} /\ Owners' = {}
    BY <1>1 DEF TakesNormal, CountersMatchPermits, Owners
  <2>2. ASSUME NEW j \in Kind
        PROVE  active'[j] = Cardinality(Holders(j)')
    <3>1. CASE j = k
      <4>1. Holders(k)' = Holders(k) \cup {t} /\ t \notin Holders(k)
        BY <1>1 DEF TakesNormal, Holders
      <4>2. Cardinality(Holders(k)') = Cardinality(Holders(k)) + 1
        BY <4>1, HoldersFinite, FS_AddElement
      <4> QED
        BY <1>1, <3>1, <4>2 DEF TakesNormal, CountersMatchPermits
    <3>2. CASE j # k
      <4>1. Holders(j)' = Holders(j)
        BY <1>1, <3>2 DEF TakesNormal, Holders
      <4> QED
        BY <1>1, <3>2, <4>1 DEF TakesNormal, CountersMatchPermits
    <3> QED
      BY <3>1, <3>2
  <2> QED
    BY <1>1, <2>1, <2>2 DEF TakesNormal, CountersMatchPermits, MutualExclusion
<1>2. ASSUME NEW t \in Task, TakesExclusive(t)
      PROVE  AccessInv'
  <2>1. Sharers = {} /\ Sharers' = {}
    <3>1. Sharers = {}
      BY <1>2, ZeroTotal, NoSharers DEF TakesExclusive
    <3> QED
      BY <1>2, <3>1 DEF TakesExclusive, Sharers
  <2>2. Owners = {} /\ Owners' = {t}
    BY <1>2 DEF TakesExclusive, CountersMatchPermits, Owners
  <2>3. \A j \in Kind : Holders(j)' = Holders(j)
    BY <1>2, <2>1 DEF TakesExclusive, Holders, Sharers
  <2> QED
    BY <1>2, <2>1, <2>2, <2>3
       DEF TakesExclusive, CountersMatchPermits, MutualExclusion
<1>3. ASSUME NEW t \in Task, ReleaseNormal(t)
      PROVE  AccessInv'
  <2>1. Owners' = Owners /\ Sharers' \subseteq Sharers
    BY <1>3 DEF ReleaseNormal, Goto, Owners, Sharers
  <2>2. ASSUME NEW j \in Kind
        PROVE  active'[j] = Cardinality(Holders(j)')
    <3>1. CASE j = kind[t]
      <4>1. Holders(j)' = Holders(j) \ {t} /\ t \in Holders(j)
        BY <1>3, <3>1 DEF ReleaseNormal, Goto, Holders
      <4>2. Cardinality(Holders(j)') = Cardinality(Holders(j)) - 1
        BY <4>1, HoldersFinite, FS_RemoveElement
      <4>3. Cardinality(Holders(j)) > 0
        BY <4>1, HoldersFinite, FS_EmptySet
      <4> QED
        BY <1>3, <3>1, <4>2, <4>3 DEF ReleaseNormal, CountersMatchPermits
    <3>2. CASE j # kind[t]
      <4>1. Holders(j)' = Holders(j)
        BY <1>3, <3>2 DEF ReleaseNormal, Goto, Holders
      <4> QED
        BY <1>3, <3>2, <4>1 DEF ReleaseNormal, CountersMatchPermits
    <3> QED
      BY <3>1, <3>2
  <2> QED
    BY <1>3, <2>1, <2>2 DEF ReleaseNormal, CountersMatchPermits, MutualExclusion
<1>4. ASSUME NEW t \in Task, ReleaseMaintenance(t)
      PROVE  AccessInv'
  <2>1. Owners = {t} /\ Sharers = {}
    BY <1>4 DEF ReleaseMaintenance, MutualExclusion, Owners
  <2>2. Owners' = {}
    BY <1>4, <2>1 DEF ReleaseMaintenance, Goto, Owners
  <2>3. \A j \in Kind : Holders(j)' = Holders(j)
    BY <1>4 DEF ReleaseMaintenance, Goto, Holders
  <2> QED
    BY <1>4, <2>2, <2>3 DEF ReleaseMaintenance, CountersMatchPermits, MutualExclusion
<1>5. CASE KeepsPermits
  <2>1. Sharers' = Sharers /\ Owners' = Owners
    BY <1>5 DEF KeepsPermits, Sharers, Owners
  <2>2. \A j \in Kind : Holders(j)' = Holders(j)
    BY <1>5 DEF KeepsPermits, Holders
  <2> QED
    BY <1>5, <2>1, <2>2 DEF KeepsPermits, CountersMatchPermits, MutualExclusion
<1> QED
  BY <1>1, <1>2, <1>3, <1>4, <1>5, StepKinds DEF Release

\* They agree initially.
LEMMA AccessInitially ==
    ASSUME Init
    PROVE  AccessInv
<1>1. Sharers = {} /\ Owners = {} /\ \A k \in Kind : Holders(k) = {}
  BY DEF Init, Sharers, Owners, Holders
<1> QED
  BY <1>1, FS_EmptySet
     DEF Init, GateInit, AccessInv, CountersMatchPermits, MutualExclusion

\* Exclusive access excludes every other permit, and the counters are exactly the
\* live permits, in every reachable state of the gate.
THEOREM Exclusion == Spec => [](MutualExclusion /\ CountersMatchPermits)
<1>1. Init => AccessInv
  BY AccessInitially
<1>2. TypeOK /\ AccessInv /\ [Next]_vars => AccessInv'
  BY AccessStep
<1>3. AccessInv => MutualExclusion /\ CountersMatchPermits
  BY DEF AccessInv
<1> QED
  BY <1>1, <1>2, <1>3, TypeCorrect, PTL DEF Spec

\* Every step of the gate is a step of the abstract shared/exclusive access.
LEMMA AccessSimulation ==
    ASSUME TypeOK, AccessInv, [Next]_vars
    PROVE  [Access!AccessNext]_(Access!access)
<1> USE DEF AccessInv, TypeOK
<1>1. ASSUME NEW t \in Task, NEW k \in Kind, TakesNormal(t, k)
      PROVE  Access!AccessNext
  <2>1. /\ Owners = {} /\ Owners' = {}
        /\ t \notin Sharers
        /\ Sharers' = Sharers \cup {t}
    BY <1>1 DEF TakesNormal, CountersMatchPermits, Owners, Sharers
  <2> QED
    BY <2>1 DEF Access!AccessNext, Access!Share
<1>2. ASSUME NEW t \in Task, TakesExclusive(t)
      PROVE  Access!AccessNext
  <2>1. Sharers = {} /\ Owners = {}
    BY <1>2, ZeroTotal, NoSharers DEF TakesExclusive, CountersMatchPermits
  <2>2. Owners' = {t} /\ Sharers' = {}
    BY <1>2, <2>1 DEF TakesExclusive, Owners, Sharers
  <2> QED
    BY <2>1, <2>2 DEF Access!AccessNext, Access!Own
<1>3. ASSUME NEW t \in Task, Release(t)
      PROVE  Access!AccessNext
  <2>1. /\ t \in Sharers \cup Owners
        /\ Sharers' = Sharers \ {t}
        /\ Owners' = Owners \ {t}
    BY <1>3 DEF Release, ReleaseNormal, ReleaseMaintenance, Goto, Owners, Sharers
  <2> QED
    BY <2>1 DEF Access!AccessNext, Access!Leave
<1>4. CASE KeepsPermits
  BY <1>4 DEF KeepsPermits, Sharers, Owners, Access!access
<1> QED
  BY <1>1, <1>2, <1>3, <1>4, StepKinds

\* The gate implements ExclusiveAccess: its permits are an instance of shared and
\* exclusive access for every set of tasks, kinds and bounds.
THEOREM Implementation == Spec => ImplementsAccess
<1>1. Init => Access!AccessInit
  BY DEF Init, Access!AccessInit, Sharers, Owners
<1>2. TypeOK /\ AccessInv /\ [Next]_vars => [Access!AccessNext]_(Access!access)
  BY AccessSimulation
<1>3. MutualExclusion /\ CountersMatchPermits => AccessInv
  BY DEF AccessInv
<1> QED
  BY <1>1, <1>2, <1>3, TypeCorrect, Exclusion, PTL
     DEF Spec, ImplementsAccess, Access!AccessSpec

-----------------------------------------------------------------------------
(* The queue.                                                               *)

\* What the code keeps of the queue in every step.  Tickets are never drawn twice, so
\* a ticket names its task, and the queue is a list of the queued tasks.
QueueInv ==
    /\ \A t \in QueuedTasks : \E i \in 1..Len(waiting) : waiting[i] = ticket[t]
    /\ \A i \in 1..Len(waiting) : \E t \in QueuedTasks : waiting[i] = ticket[t]
    /\ \A t, u \in QueuedTasks : ticket[t] = ticket[u] => t = u
    /\ \A i, j \in 1..Len(waiting) : i < j => waiting[i] < waiting[j]
    /\ \A i \in 1..Len(waiting) : waiting[i] < nextTicket

\* A ticket that is in the queue once is taken out, and the rest keeps its order.
LEMMA WithoutElements ==
    ASSUME NEW S, NEW q \in Seq(S), NEW k \in 1..Len(q),
           \A i \in 1..Len(q) : q[i] = q[k] => i = k
    PROVE  /\ Len(Without(q, q[k])) = Len(q) - 1
           /\ \A i \in 1..(Len(q) - 1) : Without(q, q[k])[i] = IF i < k THEN q[i] ELSE q[i + 1]
<1> DEFINE i == CHOOSE j \in 1..Len(q) : q[j] = q[k]
           before == SubSeq(q, 1, k - 1)
           after == SubSeq(q, k + 1, Len(q))
<1>1. i = k
  OBVIOUS
<1>2. Len(q) \in Nat
  BY LenProperties
<1>3. /\ before \in Seq(S) /\ Len(before) = k - 1
      /\ \A j \in 1..(k - 1) : before[j] = q[j]
  <2>1. \A j \in 1..(k - 1) : q[j] \in S
    BY <1>2, ElementOfSeq
  <2> QED
    BY <1>2, <2>1, SubSeqProperties
<1>4. /\ after \in Seq(S) /\ Len(after) = Len(q) - k
      /\ \A j \in 1..(Len(q) - k) : after[j] = q[k + j]
  <2>1. \A j \in (k + 1)..Len(q) : q[j] \in S
    BY <1>2, ElementOfSeq
  <2> QED
    BY <1>2, <2>1, SubSeqProperties
<1>5. Without(q, q[k]) = before \o after
  BY <1>1 DEF Without, RemoveAt
<1> HIDE DEF i, before, after
<1>6. /\ Len(before \o after) = Len(q) - 1
      /\ \A j \in 1..(Len(q) - 1) :
           (before \o after)[j] = IF j < k THEN before[j] ELSE after[j - (k - 1)]
  <2>1. before \in Seq(S) /\ after \in Seq(S) /\ Len(before) = k - 1 /\ Len(after) = Len(q) - k
    BY <1>3, <1>4
  <2>2. /\ Len(before \o after) = Len(before) + Len(after)
        /\ \A j \in 1..(Len(before) + Len(after)) :
             (before \o after)[j] = IF j <= Len(before) THEN before[j] ELSE after[j - Len(before)]
    BY <2>1, ConcatProperties
  <2> QED
    BY <1>2, <2>1, <2>2
<1>7. ASSUME NEW j \in 1..(Len(q) - 1)
      PROVE  (before \o after)[j] = IF j < k THEN q[j] ELSE q[j + 1]
  <2>1. CASE j < k
    BY <1>2, <1>3, <1>6, <1>7, <2>1
  <2>2. CASE ~(j < k)
    <3>1. j - (k - 1) \in 1..(Len(q) - k) /\ k + (j - (k - 1)) = j + 1
      BY <1>2, <2>2
    <3> QED
      BY <1>4, <1>6, <2>2, <3>1
  <2> QED
    BY <2>1, <2>2
<1> QED
  BY <1>5, <1>6, <1>7

\* A step that leaves the queue alone.
KeepsQueue ==
    /\ UNCHANGED <<waiting, nextTicket, ticket>>
    /\ \A u \in Task : at'[u] \in Queued <=> at[u] \in Queued

\* A step in which a queued task leaves the queue: its ticket goes, the others move up.
LeavesQueue(t, k) ==
    /\ waiting[k] = ticket[t]
    /\ Len(waiting') = Len(waiting) - 1
    /\ \A i \in 1..(Len(waiting) - 1) : waiting'[i] = IF i < k THEN waiting[i] ELSE waiting[i + 1]
    /\ at[t] \in Queued
    /\ at'[t] \notin Queued
    /\ \A u \in Task : u # t => at'[u] = at[u]
    /\ UNCHANGED <<nextTicket, ticket>>

\* The granted task is the first of the queue.
LEMMA GrantLeaves ==
    ASSUME TypeOK, NEW t \in Task, CheckMaintenance(t), MaintenanceGranted(t)
    PROVE  1 \in 1..Len(waiting) /\ LeavesQueue(t, 1)
<1>1. waiting # <<>> /\ waiting' = Tail(waiting) /\ waiting \in Seq(0..MaxTicket)
  BY DEF MaintenanceGranted, AtFront, TypeOK
<1>2. /\ Len(waiting') = Len(waiting) - 1
      /\ \A i \in 1..(Len(waiting) - 1) : waiting'[i] = waiting[i + 1]
      /\ Head(waiting) = waiting[1]
      /\ Len(waiting) \in Nat \ {0}
  BY <1>1, HeadTailProperties, LenProperties, EmptySeq
<1>3. at' = [at EXCEPT ![t] = "owner"] /\ at[t] = "mCheck" /\ waiting[1] = ticket[t]
  BY <1>2 DEF CheckMaintenance, MaintenanceGranted, AtFront, Goto
<1> QED
  BY <1>2, <1>3 DEF LeavesQueue, Queued, TypeOK, CheckMaintenance

\* A dropped registration takes its own ticket with it.
LEMMA DropLeaves ==
    ASSUME TypeOK, QueueInv, NEW t \in Task, DropQueued(t)
    PROVE  \E k \in 1..Len(waiting) : LeavesQueue(t, k)
<1>1. t \in QueuedTasks /\ waiting \in Seq(0..MaxTicket)
  BY DEF DropQueued, QueuedTasks, Queued, TypeOK
<1>2. PICK k \in 1..Len(waiting) : waiting[k] = ticket[t]
  BY <1>1 DEF QueueInv
<1>3. \A i \in 1..Len(waiting) : waiting[i] \in 0..MaxTicket
  BY <1>1, ElementOfSeq
<1>4. \A i \in 1..Len(waiting) : waiting[i] = waiting[k] => i = k
  <2>1. Len(waiting) \in Nat
    BY <1>1, LenProperties
  <2> QED
    BY <1>3, <2>1, BoundAssumption DEF QueueInv
<1>5. waiting' = Without(waiting, waiting[k])
  BY <1>2 DEF DropQueued
<1>6. /\ Len(waiting') = Len(waiting) - 1
      /\ \A i \in 1..(Len(waiting) - 1) : waiting'[i] = IF i < k THEN waiting[i] ELSE waiting[i + 1]
  BY <1>1, <1>4, <1>5, WithoutElements
<1> QED
  BY <1>2, <1>6 DEF LeavesQueue, DropQueued, Goto, Queued, TypeOK

\* The queue stays a list of the queued tasks when one of them leaves.
LEMMA QueueWithoutOne ==
    ASSUME TypeOK, QueueInv, NEW t \in Task, NEW k \in 1..Len(waiting), LeavesQueue(t, k)
    PROVE  QueueInv'
<1>1. Len(waiting) \in Nat /\ Len(waiting') = Len(waiting) - 1
  BY LenProperties DEF TypeOK, LeavesQueue
<1>2. \A i \in 1..Len(waiting) : waiting[i] \in 0..MaxTicket
  BY ElementOfSeq DEF TypeOK
<1>3. \A u \in Task : u \in QueuedTasks' <=> u \in QueuedTasks /\ u # t
  BY DEF LeavesQueue, QueuedTasks, TypeOK
<1>4. t \in QueuedTasks /\ ticket' = ticket /\ nextTicket' = nextTicket
  BY DEF LeavesQueue, QueuedTasks
<1> DEFINE old(i) == IF i < k THEN i ELSE i + 1
<1>5. \A i \in 1..Len(waiting') : old(i) \in 1..Len(waiting) /\ old(i) # k /\ waiting'[i] = waiting[old(i)]
  BY <1>1 DEF LeavesQueue
<1>6. \A i, j \in 1..Len(waiting') : i < j => old(i) < old(j)
  BY <1>1
<1>7. \A i \in 1..Len(waiting) : i # k => \E j \in 1..Len(waiting') : old(j) = i
  <2> SUFFICES ASSUME NEW i \in 1..Len(waiting), i # k
               PROVE  \E j \in 1..Len(waiting') : old(j) = i
    OBVIOUS
  <2>1. CASE i < k
    <3>1. i \in 1..Len(waiting') /\ old(i) = i
      BY <1>1, <2>1
    <3> QED
      BY <3>1
  <2>2. CASE ~(i < k)
    <3>1. i - 1 \in 1..Len(waiting') /\ old(i - 1) = i
      BY <1>1, <2>2
    <3> QED
      BY <3>1
  <2> QED
    BY <2>1, <2>2
<1> HIDE DEF old
<1>8. \A u \in QueuedTasks' : \E i \in 1..Len(waiting') : waiting'[i] = ticket'[u]
  <2> SUFFICES ASSUME NEW u \in QueuedTasks'
               PROVE  \E i \in 1..Len(waiting') : waiting'[i] = ticket[u]
    BY <1>4
  <2>1. u \in QueuedTasks /\ u # t
    BY <1>3 DEF QueuedTasks
  <2>2. PICK i \in 1..Len(waiting) : waiting[i] = ticket[u]
    BY <2>1 DEF QueueInv
  <2>3. i # k
    BY <1>4, <2>1, <2>2 DEF QueueInv, LeavesQueue
  <2> QED
    BY <1>5, <1>7, <2>2, <2>3
<1>9. \A i \in 1..Len(waiting') : \E u \in QueuedTasks' : waiting'[i] = ticket'[u]
  <2> SUFFICES ASSUME NEW i \in 1..Len(waiting')
               PROVE  \E u \in QueuedTasks' : waiting'[i] = ticket[u]
    BY <1>4
  <2>1. PICK u \in QueuedTasks : waiting[old(i)] = ticket[u]
    BY <1>5 DEF QueueInv
  <2>2. u # t
    <3>1. old(i) \in 1..Len(waiting) /\ old(i) # k
      BY <1>5
    <3>2. waiting[old(i)] < waiting[k] \/ waiting[k] < waiting[old(i)]
      <4>1. old(i) < k \/ k < old(i)
        BY <1>1, <3>1
      <4> QED
        BY <3>1, <4>1 DEF QueueInv
    <3>3. waiting[old(i)] \in Nat /\ waiting[k] \in Nat
      BY <1>2, <3>1, BoundAssumption
    <3> QED
      BY <2>1, <3>2, <3>3 DEF LeavesQueue
  <2> QED
    BY <1>3, <1>5, <2>1, <2>2 DEF QueuedTasks
<1>10. \A u, v \in QueuedTasks' : ticket'[u] = ticket'[v] => u = v
  BY <1>3, <1>4 DEF QueueInv, QueuedTasks
<1>11. \A i, j \in 1..Len(waiting') : i < j => waiting'[i] < waiting'[j]
  BY <1>5, <1>6 DEF QueueInv
<1>12. \A i \in 1..Len(waiting') : waiting'[i] < nextTicket'
  BY <1>4, <1>5 DEF QueueInv
<1> QED
  BY <1>8, <1>9, <1>10, <1>11, <1>12 DEF QueueInv

\* A new registration draws a ticket above all others and queues behind them.
LEMMA QueueWithOneMore ==
    ASSUME TypeOK, QueueInv, NEW t \in Task, Register(t)
    PROVE  QueueInv'
<1> DEFINE n == Len(waiting)
<1>1. n \in Nat /\ nextTicket \in Nat /\ \A i \in 1..n : waiting[i] \in Nat
  BY LenProperties, ElementOfSeq, BoundAssumption DEF TypeOK
<1>2. /\ Len(waiting') = n + 1
      /\ waiting'[n + 1] = nextTicket
      /\ \A i \in 1..n : waiting'[i] = waiting[i]
  <2>1. waiting \in Seq(0..MaxTicket) /\ nextTicket \in 0..MaxTicket /\ waiting' = Append(waiting, nextTicket)
    BY DEF Register, TypeOK
  <2> QED
    BY <2>1, AppendProperties
<1>3. /\ t \notin QueuedTasks
      /\ QueuedTasks' = QueuedTasks \union {t}
      /\ ticket'[t] = nextTicket
      /\ \A u \in QueuedTasks : ticket'[u] = ticket[u]
      /\ nextTicket' = nextTicket + 1
  BY DEF Register, Goto, QueuedTasks, Queued, TypeOK
<1>4. \A u \in QueuedTasks : ticket[u] \in Nat /\ ticket[u] < nextTicket
  BY <1>1 DEF QueueInv
<1> HIDE DEF n
<1>5. \A u \in QueuedTasks' : \E i \in 1..Len(waiting') : waiting'[i] = ticket'[u]
  <2>1. ASSUME NEW u \in QueuedTasks
        PROVE  \E i \in 1..Len(waiting') : waiting'[i] = ticket'[u]
    <3>1. PICK i \in 1..n : waiting[i] = ticket[u]
      BY <2>1 DEF QueueInv, n
    <3> QED
      BY <1>1, <1>2, <1>3, <3>1
  <2>2. n + 1 \in 1..Len(waiting')
    BY <1>1, <1>2
  <2> QED
    BY <1>2, <1>3, <2>1, <2>2
<1>6. ASSUME NEW i \in 1..Len(waiting')
      PROVE  \E u \in QueuedTasks' : waiting'[i] = ticket'[u]
  <2>1. CASE i \in 1..n
    <3>1. PICK u \in QueuedTasks : waiting[i] = ticket[u]
      BY <2>1 DEF QueueInv, n
    <3> QED
      BY <1>2, <1>3, <2>1, <3>1
  <2>2. CASE i = n + 1
    BY <1>2, <1>3, <2>2
  <2> QED
    BY <1>1, <1>2, <2>1, <2>2
<1>7. \A u, v \in QueuedTasks' : ticket'[u] = ticket'[v] => u = v
  BY <1>1, <1>3, <1>4 DEF QueueInv
<1>8. \A i, j \in 1..Len(waiting') : i < j => waiting'[i] < waiting'[j]
  BY <1>1, <1>2 DEF QueueInv, n
<1>9. \A i \in 1..Len(waiting') : waiting'[i] < nextTicket'
  BY <1>1, <1>2, <1>3 DEF QueueInv, n
<1> QED
  BY <1>5, <1>6, <1>7, <1>8, <1>9 DEF QueueInv

\* Every step registers, leaves the queue or leaves it alone.
LEMMA QueueKinds ==
    ASSUME TypeOK, QueueInv, [Next]_vars
    PROVE  \/ \E t \in Task : Register(t)
           \/ \E t \in Task, k \in 1..Len(waiting) : LeavesQueue(t, k)
           \/ KeepsQueue
<1> USE DEF TypeOK, gate, Goto, Queued
<1>1. ASSUME NEW t \in Task, NEW k \in Kind, TryAcquireNormal(t, k) \/ BeginNormal(t, k)
      PROVE  KeepsQueue
  BY <1>1 DEF TryAcquireNormal, BeginNormal, KeepsQueue
<1>2. ASSUME NEW t \in Task, CheckNormal(t)
      PROVE  KeepsQueue
  BY <1>2 DEF CheckNormal, NormalGranted, NormalRefused, NormalMustWait, KeepsQueue
<1>3. ASSUME NEW t \in Task, CheckMaintenance(t)
      PROVE  KeepsQueue \/ \E k \in 1..Len(waiting) : LeavesQueue(t, k)
  <2>1. CASE MaintenanceGranted(t)
    BY <1>3, <2>1, GrantLeaves
  <2>2. CASE MaintenanceRefused(t) \/ MaintenanceMustWait(t)
    BY <1>3, <2>2 DEF CheckMaintenance, MaintenanceRefused, MaintenanceMustWait, KeepsQueue
  <2> QED
    BY <1>3, <2>1, <2>2 DEF CheckMaintenance
<1>4. ASSUME NEW t \in Task,
             \/ AwaitNormal(t) \/ WakeNormal(t) \/ AwaitMaintenance(t) \/ WakeMaintenance(t)
             \/ Abandon(t) \/ NotifyRegistered(t)
      PROVE  KeepsQueue
  BY <1>4 DEF AwaitNormal, WakeNormal, AwaitMaintenance, WakeMaintenance, Abandon, AbandonNormal,
              AbandonMaintenance, NotifyRegistered, KeepsQueue
<1>5. ASSUME NEW t \in Task, NotifyReleased(t) \/ Release(t) \/ TryAcquireMaintenance(t)
      PROVE  KeepsQueue
  BY <1>5 DEF NotifyReleased, Release, ReleaseNormal, ReleaseMaintenance, TryAcquireMaintenance, KeepsQueue
<1>6. CASE Shutdown \/ NotifyOfShutdown \/ UNCHANGED vars
  BY <1>6 DEF Shutdown, NotifyOfShutdown, vars, KeepsQueue
<1> QED
  BY <1>1, <1>2, <1>3, <1>4, <1>5, <1>6, DropLeaves DEF Next, Enter, Proceed

\* Every step keeps queue and queued tasks in agreement.
LEMMA QueueStep ==
    ASSUME TypeOK, QueueInv, [Next]_vars
    PROVE  QueueInv'
<1>1. CASE KeepsQueue
  <2>1. QueuedTasks' = QueuedTasks
    BY <1>1 DEF KeepsQueue, QueuedTasks
  <2> QED
    BY <1>1, <2>1 DEF KeepsQueue, QueueInv
<1> QED
  BY <1>1, QueueWithOneMore, QueueWithoutOne, QueueKinds

\* A list of the queued tasks has as many entries as there are queued tasks.
LEMMA QueueLength ==
    ASSUME TypeOK, QueueInv
    PROVE  Len(waiting) = Cardinality(QueuedTasks)
<1> DEFINE Holder == [i \in 1..Len(waiting) |-> CHOOSE t \in QueuedTasks : waiting[i] = ticket[t]]
<1>1. Len(waiting) \in Nat /\ \A i \in 1..Len(waiting) : waiting[i] \in Nat
  BY LenProperties, ElementOfSeq, BoundAssumption DEF TypeOK
<1>2. \A i \in 1..Len(waiting) : Holder[i] \in QueuedTasks /\ waiting[i] = ticket[Holder[i]]
  BY DEF QueueInv
<1>3. Holder \in [1..Len(waiting) -> QueuedTasks]
  BY <1>2
<1> HIDE DEF Holder
<1>4. \A i, j \in 1..Len(waiting) : Holder[i] = Holder[j] => i = j
  BY <1>1, <1>2 DEF QueueInv
<1>5. \A t \in QueuedTasks : \E i \in 1..Len(waiting) : Holder[i] = t
  BY <1>2 DEF QueueInv
<1>6. Holder \in Bijection(1..Len(waiting), QueuedTasks)
  BY <1>3, <1>4, <1>5 DEF Bijection, Injection, Surjection, IsInjective
<1> QED
  BY <1>1, <1>6, FS_CountingElements DEF ExistsBijection

\* The queue is what GateIsAccurate says of it.
LEMMA QueueIsAccurate ==
    ASSUME TypeOK, QueueInv
    PROVE  QueueMatchesWaiters
<1>1. DOMAIN waiting = 1..Len(waiting)
  BY LenProperties DEF TypeOK
<1>2. Range(waiting) = {ticket[t] : t \in QueuedTasks}
  <2>1. \A n \in Range(waiting) : n \in {ticket[t] : t \in QueuedTasks}
    BY <1>1 DEF QueueInv, Range
  <2>2. \A t \in QueuedTasks : ticket[t] \in Range(waiting)
    BY <1>1 DEF QueueInv, Range
  <2> QED
    BY <2>1, <2>2
<1> QED
  BY <1>2, QueueLength DEF QueueInv, QueueMatchesWaiters

\* Nobody is queued initially.
LEMMA QueueInitially ==
    ASSUME Init
    PROVE  QueueInv
<1>1. Len(waiting) = 0 /\ QueuedTasks = {}
  BY EmptySeq DEF Init, GateInit, QueuedTasks, Queued
<1> QED
  BY <1>1 DEF QueueInv

\* In every reachable state the queue holds exactly the tickets of the tasks that wait
\* for the exclusive permit, in the order in which they were drawn.
THEOREM Queueing == Spec => []QueueInv
<1>1. Init => QueueInv
  BY QueueInitially
<1>2. TypeOK /\ QueueInv /\ [Next]_vars => QueueInv'
  BY QueueStep
<1> QED
  BY <1>1, <1>2, TypeCorrect, PTL DEF Spec

\* The state under the mutex is exactly what the tasks hold and wait for: no counter,
\* flag or ticket outlives the task it stands for, whatever is abandoned, refused or
\* released in whatever order.
THEOREM Accuracy == Spec => []GateIsAccurate
<1>1. TypeOK /\ QueueInv /\ CountersMatchPermits => GateIsAccurate
  BY QueueIsAccurate DEF GateIsAccurate
<1> QED
  BY <1>1, TypeCorrect, Queueing, Exclusion, PTL

\* An empty queue means that nobody is queued.
LEMMA NobodyQueued ==
    ASSUME QueueInv, waiting = <<>>
    PROVE  QueuedTasks = {}
<1>1. Len(waiting) = 0
  BY EmptySeq
<1> QED
  BY <1>1 DEF QueueInv

\* Only an unqueued task of an empty queue or the head of the queue gets the permit.
LEMMA OrderStep ==
    ASSUME TypeOK, QueueInv, [Next]_vars, NEW t \in Task, at[t] # "owner", at'[t] = "owner",
           NEW u \in QueuedTasks \ {t}
    PROVE  at[t] \in Queued /\ ticket[t] < ticket[u]
<1>1. CASE TryAcquireMaintenance(t)
  BY <1>1, NobodyQueued DEF TryAcquireMaintenance
<1>2. CASE CheckMaintenance(t) /\ MaintenanceGranted(t)
  <2>1. 1 \in 1..Len(waiting) /\ waiting[1] = ticket[t] /\ at[t] \in Queued
    BY <1>2, GrantLeaves DEF LeavesQueue
  <2>2. PICK i \in 1..Len(waiting) : waiting[i] = ticket[u]
    BY DEF QueueInv
  <2>3. i # 1
    BY <2>1, <2>2 DEF QueueInv, QueuedTasks
  <2>4. Len(waiting) \in Nat
    BY LenProperties DEF TypeOK
  <2>5. waiting[1] < waiting[i]
    BY <2>1, <2>3, <2>4 DEF QueueInv
  <2> QED
    BY <2>1, <2>2, <2>5
<1>3. TryAcquireMaintenance(t) \/ (CheckMaintenance(t) /\ MaintenanceGranted(t))
  <2> USE DEF TypeOK, gate, Goto
  <2>1. ASSUME NEW v \in Task, NEW k \in Kind, TryAcquireNormal(v, k) \/ BeginNormal(v, k)
        PROVE  FALSE
    BY <2>1 DEF TryAcquireNormal, BeginNormal
  <2>2. ASSUME NEW v \in Task, CheckNormal(v)
        PROVE  FALSE
    BY <2>2 DEF CheckNormal, NormalGranted, NormalRefused, NormalMustWait
  <2>3. ASSUME NEW v \in Task, CheckMaintenance(v)
        PROVE  v = t /\ MaintenanceGranted(v)
    BY <2>3 DEF CheckMaintenance, MaintenanceGranted, MaintenanceRefused, MaintenanceMustWait
  <2>4. ASSUME NEW v \in Task,
               \/ AwaitNormal(v) \/ WakeNormal(v) \/ AwaitMaintenance(v) \/ WakeMaintenance(v)
               \/ Abandon(v) \/ NotifyRegistered(v) \/ Register(v)
        PROVE  FALSE
    BY <2>4 DEF AwaitNormal, WakeNormal, AwaitMaintenance, WakeMaintenance, Abandon, AbandonNormal,
                AbandonMaintenance, NotifyRegistered, Register
  <2>5. ASSUME NEW v \in Task, NotifyReleased(v) \/ Release(v) \/ DropQueued(v)
        PROVE  FALSE
    BY <2>5 DEF NotifyReleased, Release, ReleaseNormal, ReleaseMaintenance, DropQueued
  <2>6. ASSUME NEW v \in Task, TryAcquireMaintenance(v)
        PROVE  v = t
    BY <2>6 DEF TryAcquireMaintenance
  <2>7. ~(Shutdown \/ NotifyOfShutdown \/ UNCHANGED vars)
    BY DEF Shutdown, NotifyOfShutdown, vars
  <2> QED
    BY <2>1, <2>2, <2>3, <2>4, <2>5, <2>6, <2>7 DEF Next, Enter, Proceed
<1> QED
  BY <1>1, <1>2, <1>3

\* A normal permit is taken only with an empty queue and before shutdown.
LEMMA ReaderStep ==
    ASSUME TypeOK, QueueInv, [Next]_vars, NEW t \in Task, at[t] # "normal", at'[t] = "normal"
    PROVE  QueuedTasks = {} /\ ~shuttingDown
<1> USE DEF TypeOK, gate, Goto
<1>1. ASSUME NEW v \in Task, NEW k \in Kind, TryAcquireNormal(v, k)
      PROVE  waiting = <<>> /\ ~shuttingDown
  BY <1>1 DEF TryAcquireNormal, OpenToNormal
<1>2. ASSUME NEW v \in Task, NEW k \in Kind, BeginNormal(v, k)
      PROVE  FALSE
  BY <1>2 DEF BeginNormal
<1>3. ASSUME NEW v \in Task, CheckNormal(v)
      PROVE  waiting = <<>> /\ ~shuttingDown
  BY <1>3 DEF CheckNormal, NormalGranted, NormalRefused, NormalMustWait, OpenToNormal
<1>4. ASSUME NEW v \in Task, CheckMaintenance(v)
      PROVE  FALSE
  BY <1>4 DEF CheckMaintenance, MaintenanceGranted, MaintenanceRefused, MaintenanceMustWait
<1>5. ASSUME NEW v \in Task,
             \/ AwaitNormal(v) \/ WakeNormal(v) \/ AwaitMaintenance(v) \/ WakeMaintenance(v)
             \/ Abandon(v) \/ NotifyRegistered(v) \/ Register(v)
      PROVE  FALSE
  BY <1>5 DEF AwaitNormal, WakeNormal, AwaitMaintenance, WakeMaintenance, Abandon, AbandonNormal,
              AbandonMaintenance, NotifyRegistered, Register
<1>6. ASSUME NEW v \in Task,
             NotifyReleased(v) \/ Release(v) \/ DropQueued(v) \/ TryAcquireMaintenance(v)
      PROVE  FALSE
  BY <1>6 DEF NotifyReleased, Release, ReleaseNormal, ReleaseMaintenance, DropQueued,
              TryAcquireMaintenance
<1>7. ~(Shutdown \/ NotifyOfShutdown \/ UNCHANGED vars)
  BY DEF Shutdown, NotifyOfShutdown, vars
<1>8. waiting = <<>> /\ ~shuttingDown
  BY <1>1, <1>2, <1>3, <1>4, <1>5, <1>6, <1>7 DEF Next, Enter, Proceed
<1> QED
  BY <1>8, NobodyQueued

\* The gate is fair for any number of tasks: the exclusive permit goes to the task that
\* has waited longest, and no reader is let in past a queued task or after shutdown.
THEOREM Fairness == Spec => QueueIsFair
<1> DEFINE Ordered ==
             \A t \in Task : at[t] # "owner" /\ at'[t] = "owner" =>
                \A u \in QueuedTasks \ {t} : at[t] \in Queued /\ ticket[t] < ticket[u]
           Unread ==
             \A t \in Task : at[t] # "normal" /\ at'[t] = "normal" => QueuedTasks = {} /\ ~shuttingDown
<1>1. TypeOK /\ QueueInv /\ [Next]_vars => Ordered
  BY OrderStep
<1>2. TypeOK /\ QueueInv /\ [Next]_vars => Unread
  BY ReaderStep
<1>3. TypeOK /\ QueueInv /\ [Next]_vars => [Ordered]_vars
  BY <1>1
<1>4. TypeOK /\ QueueInv /\ [Next]_vars => [Unread]_vars
  BY <1>2
<1> QED
  BY <1>3, <1>4, TypeCorrect, Queueing, PTL DEF Spec, QueueIsFair, GrantsInOrder, NoLateReader
=============================================================================

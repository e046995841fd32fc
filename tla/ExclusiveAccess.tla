---------------------------- MODULE ExclusiveAccess ----------------------------
(***************************************************************************)
(* What the maintenance gate promises its callers, without queues, counters *)
(* or wake-ups: any number of tasks may share normal access, or one task    *)
(* may own the application exclusively, and never both.                     *)
(***************************************************************************)
CONSTANT Task

VARIABLES
    sharers,    \* tasks that hold a NormalOperationPermit
    owners      \* tasks that hold the ExclusiveMaintenancePermit

access == <<sharers, owners>>

AccessInit == sharers = {} /\ owners = {}

Share(t) ==
    /\ owners = {}
    /\ t \notin sharers
    /\ sharers' = sharers \cup {t}
    /\ UNCHANGED owners

Own(t) ==
    /\ sharers = {}
    /\ owners = {}
    /\ owners' = {t}
    /\ UNCHANGED sharers

Leave(t) ==
    /\ t \in sharers \cup owners
    /\ sharers' = sharers \ {t}
    /\ owners' = owners \ {t}

AccessNext == \E t \in Task : Share(t) \/ Own(t) \/ Leave(t)

AccessSpec == AccessInit /\ [][AccessNext]_access
=============================================================================

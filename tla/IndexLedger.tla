------------------------------- MODULE IndexLedger -------------------------------
(***************************************************************************)
(* What page indexing promises about the attempts it makes, whatever the    *)
(* commands interleave and whenever the process dies: an attempt only moves *)
(* forward, so its page goes to the provider at most once; an answer is     *)
(* kept only while the run is open; and a run is closed only when nothing   *)
(* of it is under way, after which nothing of it is started again.          *)
(***************************************************************************)
CONSTANTS Run, Page, RunOf, Attempt

VARIABLES
    phase,      \* of a run: "open", "closing" or "closed"
    ledger      \* of each attempt of a page: "unused", "claimed", "sent", "kept",
                \* "discarded", or "over" once a later attempt has begun

UnderWay == {"claimed", "sent"}

\* How the entry e may change to f in a run that is in phase s.
May(s, e, f) ==
    \/ f = e
    \/ f = "over" /\ e # "unused"
    \/ f = "discarded" /\ e \in {"unused", "claimed", "sent"}
    \/ f = "sent" /\ e = "claimed"
    \/ s = "open" /\ f = "claimed" /\ e = "unused"
    \/ s = "open" /\ f = "kept" /\ e = "sent"

PhaseMoves == {<<"open", "closing">>, <<"open", "closed">>, <<"closing", "closed">>}

Idle(r) == \A p \in Page, a \in Attempt : RunOf[p] = r => ledger[p][a] \notin UnderWay

LedgerInit ==
    /\ phase = [r \in Run |-> "open"]
    /\ ledger = [p \in Page |-> [a \in Attempt |-> "unused"]]

Record ==
    /\ \A p \in Page, a \in Attempt :
          May(phase[RunOf[p]], ledger[p][a], ledger'[p][a])
    /\ \A r \in Run :
          phase'[r] # phase[r] =>
             /\ <<phase[r], phase'[r]>> \in PhaseMoves
             /\ phase'[r] = "closed" => Idle(r)

LedgerSpec == LedgerInit /\ [][Record]_<<phase, ledger>>
=============================================================================

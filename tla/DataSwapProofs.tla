--------------------------- MODULE DataSwapProofs ---------------------------
(***************************************************************************)
(* What is proved about the library's stored data: that a replacement or   *)
(* an erasure of all of it is never seen half done (DataSwap), and that a  *)
(* book the library calls ready is whole (BookImport, in the second part). *)
(*                                                                         *)
(* About DataSwap, for any data sets, units, credentials, failures and     *)
(* kills: its types, that a swap never tears or loses a data set           *)
(* (OneDataSet), and that what a clear-all has reported gone never comes   *)
(* back (ClearedStaysGone).                                                *)
(*                                                                         *)
(* The argument: the next operation and the phase of the one intent that   *)
(* is there say together where every unit is.  While nothing is pending    *)
(* the library is whole at its place.  From "prepared" to "old-staged" the *)
(* old set is split between its place and the rollback directory and the   *)
(* new one is staged; up to "new-installed" the new one is split between   *)
(* the staging directory and its place (RestoreIsSound).  From "ready" on  *)
(* the cleared set is split between its place and the trash, and what is   *)
(* left of it is only in the trash (ClearIsSound).  A kill forgets the     *)
(* next operation and keeps the intent, and every part is about the intent *)
(* alone wherever the process may be gone, so each of them survives it.    *)
(***************************************************************************)
EXTENDS DataSwap, BookImport, TLAPS

(* Nothing is at a place; one whole data set is there, with any of its     *)
(* optional units; it is there without them.                               *)
Bare(p) == \A u \in Units : place[p][u] = Absent
Whole(p, n) == (\A u \in Required : place[p][u] = n) /\ \A u \in Optional : place[p][u] \in {n, Absent}
Only(p, n) == (\A u \in Required : place[p][u] = n) /\ \A u \in Optional : place[p][u] = Absent
(* A unit of a data set is at one of two places, and the whole set is      *)
(* spread over the two.                                                    *)
Half(u, p, q, n) == \/ place[p][u] = n /\ place[q][u] = Absent
                    \/ place[p][u] = Absent /\ place[q][u] = n
Split(p, q, n) ==
  /\ \A u \in Required : Half(u, p, q, n)
  /\ \A u \in Optional : Half(u, p, q, n) \/ (place[p][u] = Absent /\ place[q][u] = Absent)

(* A clear-all has got past its credentials.                               *)
Removing == intent["clear"] \in {"ready", "local-staged"}

(* The operations of the running application, and those of a start.        *)
RunningSteps == {"restore-open", "restore-check", "restore-copy", "restore-write", "restore-name",
                 "restore-undo", "clear-open", "clear-check", "clear-write", "clear-name"}
StartSteps == {"clear", "clear-move", "clear-remove", "clear-rmdir", "restore", "restore-rollback",
               "restore-old", "restore-install", "restore-installed", "restore-final", "restore-unstage",
               "restore-forget", "restore-rmdir", "open"}

(* Which operation may come next in which process, and what the intents,   *)
(* the directories of the controls and the gate say meanwhile.             *)
ProcessIsSound ==
  /\ app = "up" => at \in RunningSteps \union {"idle", "credentials"}
  /\ app = "starting" => at \in StartSteps \union {"credentials"}
  /\ app = "down" => at = "idle"
  /\ \A c \in {"restore", "clear"} : intent[c] # "none" => control[c] = "whole"
  /\ stage # "absent" => control["restore"] = "whole" /\ intent["clear"] = "none"
  /\ OneIntent
  /\ app = "up" => /\ intent["restore"] \in {"none", "temp", "prepared"}
                   /\ intent["clear"] # "local-staged"
                   /\ intent["clear"] = "ready" => shut
                   /\ intent["restore"] = "none" /\ stage # "absent" =>
                        at \in {"restore-copy", "restore-write", "restore-undo"}
  /\ at = "restore-check" => control["restore"] = "whole"
  /\ at = "clear-check" => control["clear"] = "whole"
  /\ at \in {"restore-copy", "restore-write", "restore-name", "restore-undo"} =>
       control["restore"] = "whole" /\ control["clear"] = "absent"
  /\ at \in {"restore-copy", "restore-write"} => intent["restore"] = "none"
  /\ at = "restore-copy" => stage = "part"
  /\ at \in {"restore-write", "restore-name"} => stage = "whole"
  /\ at = "restore-name" => intent["restore"] = "temp"
  /\ at \in {"clear-write", "clear-name"} =>
       intent["restore"] = "none" /\ control["clear"] = "whole" /\ stage = "absent"
  /\ at = "clear-write" => intent["clear"] = "none"
  /\ at = "clear-name" => intent["clear"] = "temp"
  /\ at \in RunningSteps => ~shut /\ ~Removing
  /\ at = "credentials" => intent["clear"] = "credentials-pending" /\ ~shut
  /\ app # "up" => ~shut
  /\ at = "clear-move" => intent["clear"] = "ready"
  /\ at = "clear-remove" => intent["clear"] = "local-staged"
  /\ at \in StartSteps \ {"clear", "clear-move", "clear-remove"} => intent["clear"] = "none"
  /\ at \in {"restore-rollback", "restore-old"} => intent["restore"] = "prepared"
  /\ at = "restore-old" => rolled
  /\ at = "restore-install" => intent["restore"] = "old-staged"
  /\ at = "restore-installed" => intent["restore"] = "new-installed"
  /\ at \in {"restore-final", "restore-unstage", "restore-forget"} => intent["restore"] = "finalizing"
  /\ at \in {"restore-unstage", "restore-forget"} => ~rolled
  /\ at = "restore-forget" => stage = "absent"
  /\ at \in {"restore-rmdir", "open"} => intent["restore"] = "none" /\ stage = "absent"

(* The number of the next data set is one of the model.                    *)
RoomIsKept ==
  /\ current <= made
  /\ at \in {"restore-open", "restore-check", "restore-copy", "clear-open", "clear-check", "clear-write", "clear-name"}
       \/ ClearPending => made < MaxSets

(* While no swap is pending the library is whole at its place, and one     *)
(* that is staged and not named yet is a newer one; or a clear-all has     *)
(* removed the library and the next start makes one.                       *)
LibraryIsSound ==
  /\ ~RestorePending => ~rolled /\ Bare("rollback")
  /\ ~Removing => Bare("trash")
  /\ ~RestorePending /\ ~Removing =>
       /\ IF app = "up" \/ ClearPending THEN Whole("root", current)
          ELSE \/ \E n \in 0 .. made : Whole("root", n)
               \/ Bare("root") /\ made < MaxSets /\ stage = "absent"
       /\ Bare("staged") \/ (stage = "whole" /\ Only("staged", made) /\ current < made)
  /\ at \in {"restore-write", "restore-name"} => Only("staged", made) /\ current < made
  /\ at = "restore-copy" => Bare("staged")

(* Where the old data set and the new one are in each phase of a restore.  *)
RestoreIsSound ==
  /\ RestorePending => current < made
  /\ intent["restore"] \in {"prepared", "old-staged", "new-installed"} => stage = "whole"
  /\ intent["restore"] = "prepared" =>
       /\ Only("staged", made)
       /\ Split("root", "rollback", current)
       /\ app = "up" \/ ~rolled => Bare("rollback")
  /\ intent["restore"] = "old-staged" =>
       /\ \A u \in Required : place["rollback"][u] = current /\ Half(u, "staged", "root", made)
       /\ \A u \in Optional : place["root"][u] = Absent /\ place["staged"][u] = Absent
  /\ at \in {"restore-unstage", "restore-forget"} => Bare("rollback")
  /\ intent["restore"] \in {"new-installed", "finalizing"} => Only("root", made) /\ Bare("staged")

(* Where the cleared data set is in each phase of a clear-all.             *)
ClearIsSound ==
  /\ Removing => stage = "absent" /\ Bare("staged")
  /\ intent["clear"] = "ready" => Split("root", "trash", current) /\ (app = "up" => Bare("trash"))
  /\ intent["clear"] = "local-staged" => Bare("root")

(* What was reported gone is nowhere once the clear-all is over, and the   *)
(* loop over the credentials has passed only those it deleted, or has met  *)
(* an error.                                                               *)
GoneIsGone ==
  /\ cleared.sets \subseteq 0 .. made
  /\ cleared.keys \intersect vault = {}
  /\ ~Removing => \A p \in Spots, u \in Units : place[p][u] \notin cleared.sets
  /\ at \in {"clear-write", "clear-name"} => todo = targets
  /\ at = "credentials" => failed \/ vault \intersect targets \subseteq todo

(* All of it, which no step leaves.                                        *)
Inv == TypeOK /\ ProcessIsSound /\ RoomIsKept /\ LibraryIsSound /\ RestoreIsSound /\ ClearIsSound /\ GoneIsGone

-----------------------------------------------------------------------------
(* A place that is empty as a function has none of the units.              *)
LEMMA EmptyIsBare ==
  ASSUME TypeOK
  PROVE  \A p \in Spots : Empty(p) <=> Bare(p)
BY DEF TypeOK, Empty, Bare, Nothing

(* A move takes one unit from one place to another and nothing else.       *)
LEMMA Moved ==
  ASSUME TypeOK, NEW u \in Units, NEW p \in Spots, NEW q \in Spots, p # q, Move(u, p, q)
  PROVE  /\ place' \in [Spots -> [Units -> Sets]]
         /\ place'[p][u] = Absent /\ place'[q][u] = place[p][u]
         /\ \A r \in Spots, v \in Units : v # u \/ r \notin {p, q} => place'[r][v] = place[r][v]
<1>1. Absent \in Sets
  BY BoundAssumption DEF Absent, Sets
<1>2. PICK n \in Sets : n = place[p][u]
  BY DEF TypeOK
<1>3. place' = [place EXCEPT ![p][u] = Absent, ![q][u] = n]
  BY <1>2 DEF Move
<1> QED
  BY <1>1, <1>2, <1>3 DEF TypeOK

(* A removal takes one unit away and nothing else.                         *)
LEMMA Removed ==
  ASSUME TypeOK, NEW u \in Units, NEW p \in Spots, Remove(u, p)
  PROVE  /\ place' \in [Spots -> [Units -> Sets]]
         /\ place'[p][u] = Absent
         /\ \A r \in Spots, v \in Units : v # u \/ r # p => place'[r][v] = place[r][v]
<1>1. Absent \in Sets
  BY BoundAssumption DEF Absent, Sets
<1> QED
  BY <1>1 DEF TypeOK, Remove

(* Data that is whole at one place is split between it and an empty one.   *)
LEMMA WholeIsSplit ==
  ASSUME NEW p, NEW q, NEW n, Bare(q)
  PROVE  Whole(p, n) <=> Split(p, q, n)
BY UnitAssumption DEF Whole, Split, Half, Bare, Units

(* At first the library is whole at its place and nothing is pending.      *)
LEMMA Initially == Init => Inv
<1> SUFFICES ASSUME Init PROVE Inv
  OBVIOUS
<1>1. TypeOK
  <2>1. 0 \in Sets /\ Absent \in Sets
    BY BoundAssumption DEF Absent, Sets
  <2>2. place \in [Spots -> [Units -> Sets]]
    BY <2>1 DEF Init
  <2>3. cleared \in [sets : SUBSET (0 .. MaxSets), keys : SUBSET Keys]
    BY Zenon DEF Init
  <2>4. /\ intent \in [{"restore", "clear"} -> RestorePhase \union ClearPhase \union {"none", "temp"}]
        /\ intent["restore"] = "none" /\ intent["clear"] = "none"
    BY DEF Init
  <2>5. at \in Steps /\ control \in [{"restore", "clear"} -> Shapes] /\ stage \in Shapes
    BY DEF Init, Steps, Shapes
  <2>6. current \in 0 .. MaxSets /\ made \in 0 .. MaxSets /\ faults \in 0 .. MaxFaults /\ crashes \in 0 .. MaxCrashes
    BY BoundAssumption DEF Init
  <2> QED
    BY <2>2, <2>3, <2>4, <2>5, <2>6 DEF Init, TypeOK
<1>2. ProcessIsSound
  BY DEF Init, ProcessIsSound, OneIntent, Removing, RunningSteps, StartSteps, RestorePhase, ClearPhase
<1>3. RoomIsKept
  BY DEF Init, RoomIsKept, ClearPending, ClearPhase
<1>4. LibraryIsSound
  BY BoundAssumption, UnitAssumption DEF Init, LibraryIsSound, RestorePending, ClearPending,
      RestorePhase, ClearPhase, Removing, Bare, Whole, Only, Spots, Units, Absent
<1>5. RestoreIsSound
  BY DEF Init, RestoreIsSound, RestorePending, RestorePhase
<1>6. ClearIsSound
  BY DEF Init, ClearIsSound, Removing
<1>7. GoneIsGone
  BY DEF Init, GoneIsGone
<1> QED
  BY <1>1, <1>2, <1>3, <1>4, <1>5, <1>6, <1>7 DEF Inv

(* A credential that is stored is not one that is reported gone, and none  *)
(* is stored while the loop over the credentials runs.                     *)
LEMMA SaveCredentialInv ==
  ASSUME NEW k \in Keys, Inv, SaveCredential(k)
  PROVE  Inv'
<1>1. TypeOK'
  BY DEF Inv, TypeOK, SaveCredential, Shapes, Steps, Sets, dirs, process, bounds
<1>2. ProcessIsSound'
  BY DEF Inv, ProcessIsSound, SaveCredential, OneIntent, RunningSteps, dirs, process
<1>3. RoomIsKept'
  BY DEF Inv, RoomIsKept, SaveCredential, ClearPending, process
<1>4. LibraryIsSound'
  BY DEF Inv, LibraryIsSound, SaveCredential, Bare, Whole, Only, RestorePending, Removing, dirs, process
<1>5. RestoreIsSound'
  BY DEF Inv, ProcessIsSound, LibraryIsSound, RestoreIsSound, SaveCredential, Bare, Only, Split, Half,
      RestorePending, RestorePhase, dirs
<1>6. ClearIsSound'
  BY DEF Inv, ProcessIsSound, ClearIsSound, SaveCredential, Bare, Split, Removing
<1>7. GoneIsGone'
  BY DEF Inv, GoneIsGone, SaveCredential, Removing, process
<1> QED
  BY <1>1, <1>2, <1>3, <1>4, <1>5, <1>6, <1>7 DEF Inv

(* A restore begins: nothing but the next operation changes.               *)
LEMMA BeginRestoreInv ==
  ASSUME Inv, BeginRestore
  PROVE  Inv'
<1>1. TypeOK'
  BY DEF Inv, TypeOK, BeginRestore, Begin, Goto, Shapes, Steps, Sets, dirs, loop, history, bounds
<1>2. ProcessIsSound'
  BY DEF Inv, ProcessIsSound, BeginRestore, Begin, Goto, OneIntent, RunningSteps, StartSteps, Removing,
      dirs
<1>3. RoomIsKept'
  BY DEF Inv, RoomIsKept, BeginRestore, Begin, history
<1>4. LibraryIsSound'
  BY DEF Inv, LibraryIsSound, BeginRestore, Begin, Goto, Bare, Whole, Only, RestorePending, Removing,
      dirs, history
<1>5. RestoreIsSound'
  BY DEF Inv, RestoreIsSound, BeginRestore, Begin, Goto, Bare, Only, Split, Half, RestorePending, dirs,
      history
<1>6. ClearIsSound'
  BY DEF Inv, ProcessIsSound, ClearIsSound, BeginRestore, Begin, Goto, Bare, Split, Removing
<1>7. GoneIsGone'
  BY DEF Inv, GoneIsGone, BeginRestore, Begin, Goto, Removing, loop, history
<1> QED
  BY <1>1, <1>2, <1>3, <1>4, <1>5, <1>6, <1>7 DEF Inv

(* A clear-all begins: nothing but the next operation changes.             *)
LEMMA BeginClearInv ==
  ASSUME Inv, BeginClear
  PROVE  Inv'
<1>1. TypeOK'
  BY DEF Inv, TypeOK, BeginClear, Begin, Goto, Shapes, Steps, Sets, dirs, loop, history, bounds
<1>2. ProcessIsSound'
  BY DEF Inv, ProcessIsSound, BeginClear, Begin, Goto, OneIntent, RunningSteps, StartSteps, Removing,
      dirs
<1>3. RoomIsKept'
  BY DEF Inv, RoomIsKept, BeginClear, Begin, history
<1>4. LibraryIsSound'
  BY DEF Inv, LibraryIsSound, BeginClear, Begin, Goto, Bare, Whole, Only, RestorePending, Removing,
      dirs, history
<1>5. RestoreIsSound'
  BY DEF Inv, RestoreIsSound, BeginClear, Begin, Goto, Bare, Only, Split, Half, RestorePending, dirs,
      history
<1>6. ClearIsSound'
  BY DEF Inv, ProcessIsSound, ClearIsSound, BeginClear, Begin, Goto, Bare, Split, Removing
<1>7. GoneIsGone'
  BY DEF Inv, GoneIsGone, BeginClear, Begin, Goto, Removing, loop, history
<1> QED
  BY <1>1, <1>2, <1>3, <1>4, <1>5, <1>6, <1>7 DEF Inv

(* The directories of the control of restores are made one by one.         *)
LEMMA OpenRestoreInv ==
  ASSUME Inv, OpenOrCreate("restore", "restore-open", "restore-check")
  PROVE  Inv'
<1>1. TypeOK'
  BY DEF Inv, TypeOK, OpenOrCreate, SetControl, Goto, Shapes, Steps, Sets, Spots, dirs, loop, history,
      bounds
<1>2. ProcessIsSound'
  BY DEF Inv, TypeOK, ProcessIsSound, OpenOrCreate, SetControl, Goto, OneIntent, RunningSteps,
      StartSteps, Removing, dirs
<1>3. RoomIsKept'
  BY DEF Inv, RoomIsKept, OpenOrCreate, SetControl, history
<1>4. LibraryIsSound'
  BY DEF Inv, ProcessIsSound, LibraryIsSound, OpenOrCreate, SetControl, Goto, Bare, Whole, Only,
      RestorePending, dirs, history
<1>5. RestoreIsSound'
  BY DEF Inv, RestoreIsSound, OpenOrCreate, SetControl, Goto, Bare, Only, Split, Half, RestorePending,
      dirs, history
<1>6. ClearIsSound'
  BY DEF Inv, ProcessIsSound, ClearIsSound, OpenOrCreate, SetControl, Goto, Bare, Split, Removing
<1>7. GoneIsGone'
  BY DEF Inv, ProcessIsSound, GoneIsGone, OpenOrCreate, SetControl, Goto, loop, history
<1> QED
  BY <1>1, <1>2, <1>3, <1>4, <1>5, <1>6, <1>7 DEF Inv

(* The directories of the control of clear-alls are made one by one.       *)
LEMMA OpenClearInv ==
  ASSUME Inv, OpenOrCreate("clear", "clear-open", "clear-check")
  PROVE  Inv'
<1>1. TypeOK'
  BY DEF Inv, TypeOK, OpenOrCreate, SetControl, Goto, Shapes, Steps, Sets, Spots, dirs, loop, history,
      bounds
<1>2. ProcessIsSound'
  BY DEF Inv, TypeOK, ProcessIsSound, OpenOrCreate, SetControl, Goto, OneIntent, RunningSteps,
      StartSteps, Removing, dirs
<1>3. RoomIsKept'
  BY DEF Inv, RoomIsKept, OpenOrCreate, SetControl, history
<1>4. LibraryIsSound'
  BY DEF Inv, ProcessIsSound, LibraryIsSound, OpenOrCreate, SetControl, Goto, Bare, Whole, Only,
      RestorePending, dirs, history
<1>5. RestoreIsSound'
  BY DEF Inv, RestoreIsSound, OpenOrCreate, SetControl, Goto, Bare, Only, Split, Half, RestorePending,
      dirs, history
<1>6. ClearIsSound'
  BY DEF Inv, ProcessIsSound, ClearIsSound, OpenOrCreate, SetControl, Goto, Bare, Split, Removing
<1>7. GoneIsGone'
  BY DEF Inv, ProcessIsSound, GoneIsGone, OpenOrCreate, SetControl, Goto, loop, history
<1> QED
  BY <1>1, <1>2, <1>3, <1>4, <1>5, <1>6, <1>7 DEF Inv

(* A stage is made only where no intent and no stage is, so it is empty.   *)
LEMMA CreateStageInv ==
  ASSUME Inv, CreateStage
  PROVE  Inv'
<1>1. TypeOK'
  BY DEF Inv, TypeOK, CreateStage, Step, Goto, Shapes, Steps, Sets, loop, history, bounds
<1>2. ProcessIsSound'
  BY DEF Inv, ProcessIsSound, CreateStage, Step, Goto, OneIntent, RunningSteps, StartSteps, Removing
<1>3. RoomIsKept'
  BY DEF Inv, RoomIsKept, CreateStage, Step, history
<1>4. LibraryIsSound'
  <2>1. app = "up" /\ UNCHANGED <<place, rolled, intent, current, made, app>>
    BY DEF CreateStage, Step, Inv, TypeOK, ProcessIsSound, StartSteps, Goto, history
  <2>2. intent["restore"] = "none" /\ stage = "absent" => Bare("staged")
    BY DEF Inv, LibraryIsSound, ProcessIsSound, OneIntent, CreateStage, Step, RestorePending,
        RestorePhase, Removing, RunningSteps
  <2>3. \A p, n : /\ Bare(p)' <=> Bare(p)
                  /\ Whole(p, n)' <=> Whole(p, n)
                  /\ Only(p, n)' <=> Only(p, n)
    BY <2>1 DEF Bare, Whole, Only
  <2>4. at = "restore-check" /\ \/ intent["restore"] = "none" /\ stage = "absent" /\ stage' = "part" /\ at' = "restore-copy"
                                \/ stage' = stage /\ at' = "idle"
    BY DEF CreateStage, Step, Goto
  <2> QED
    BY <2>1, <2>2, <2>3, <2>4 DEF Inv, LibraryIsSound, RestorePending, Removing, ClearPending
<1>5. RestoreIsSound'
  BY DEF Inv, RestoreIsSound, CreateStage, Step, Goto, Bare, Only, Split, Half, RestorePending, history
<1>6. ClearIsSound'
  BY DEF Inv, TypeOK, ProcessIsSound, ClearIsSound, CreateStage, Step, Goto, Bare, Split, Removing
<1>7. GoneIsGone'
  BY DEF Inv, GoneIsGone, CreateStage, Step, Goto, Removing, loop, history
<1> QED
  BY <1>1, <1>2, <1>3, <1>4, <1>5, <1>6, <1>7 DEF Inv

(* The staged data set is a new one, whole in an empty stage.              *)
LEMMA StageDataInv ==
  ASSUME Inv, StageData
  PROVE  Inv'
<1>1. TypeOK'
  BY BoundAssumption DEF Inv, TypeOK, RoomIsKept, StageData, Step, Goto, Shapes, Steps, Sets, Absent,
      Spots, loop, bounds
<1>2. ProcessIsSound'
  BY DEF Inv, ProcessIsSound, StageData, Step, Goto, OneIntent, RunningSteps, StartSteps, Removing
<1>3. RoomIsKept'
  BY DEF Inv, TypeOK, ProcessIsSound, RoomIsKept, StageData, Step, Goto, ClearPending, ClearPhase
<1>4. LibraryIsSound'
  BY UnitAssumption DEF Inv, TypeOK, ProcessIsSound, RoomIsKept, LibraryIsSound, ClearIsSound,
      StageData, Step, Goto, Bare, Whole, Only, RestorePending, ClearPending, Units, Spots
<1>5. RestoreIsSound'
  BY DEF Inv, TypeOK, ProcessIsSound, RoomIsKept, RestoreIsSound, StageData, Step, Goto, Bare, Only,
      Split
<1>6. ClearIsSound'
  BY DEF Inv, ProcessIsSound, ClearIsSound, StageData, Step, Goto, Bare, Split, Removing
<1>7. GoneIsGone'
  BY BoundAssumption DEF Inv, TypeOK, ProcessIsSound, ClearIsSound, GoneIsGone, StageData, Step, Goto,
      Absent, loop
<1> QED
  BY <1>1, <1>2, <1>3, <1>4, <1>5, <1>6, <1>7 DEF Inv

(* A restore that fails while it stages has no intent yet.                 *)
LEMMA StageFailsInv ==
  ASSUME Inv, StageFails
  PROVE  Inv'
<1>1. TypeOK'
  BY DEF Inv, TypeOK, StageFails, Step, Goto, Shapes, Steps, Sets, dirs, loop, history, bounds
<1>2. ProcessIsSound'
  BY DEF Inv, ProcessIsSound, StageFails, Step, Goto, OneIntent, RunningSteps, StartSteps, Removing
<1>3. RoomIsKept'
  BY DEF Inv, RoomIsKept, StageFails, Step, history
<1>4. LibraryIsSound'
  BY DEF Inv, ProcessIsSound, LibraryIsSound, ClearIsSound, StageFails, Step, Goto, Bare, Whole,
      RestorePending, ClearPending, dirs, history
<1>5. RestoreIsSound'
  BY DEF Inv, ProcessIsSound, RestoreIsSound, StageFails, Step, Goto, Bare, Only, Split,
      RestorePending, RestorePhase
<1>6. ClearIsSound'
  BY DEF Inv, ProcessIsSound, ClearIsSound, StageFails, Step, Goto, Bare, Split, Removing
<1>7. GoneIsGone'
  BY DEF Inv, ProcessIsSound, ClearIsSound, GoneIsGone, StageFails, Step, Goto, loop, history
<1> QED
  BY <1>1, <1>2, <1>3, <1>4, <1>5, <1>6, <1>7 DEF Inv

(* A temporary file names nothing.                                         *)
LEMMA WriteRestoreIntentInv ==
  ASSUME Inv, WriteRestoreIntent
  PROVE  Inv'
<1>1. TypeOK'
  BY DEF Inv, TypeOK, WriteRestoreIntent, WriteIntent, SetIntent, Step, Goto, Shapes, Steps, Sets,
      dirs, loop, history, bounds
<1>2. ProcessIsSound'
  BY DEF Inv, TypeOK, ProcessIsSound, WriteRestoreIntent, WriteIntent, SetIntent, Step, Goto,
      OneIntent, RunningSteps, StartSteps, Removing, dirs
<1>3. RoomIsKept'
  BY DEF Inv, RoomIsKept, WriteRestoreIntent, WriteIntent, SetIntent, Step, Goto, ClearPending, history
<1>4. LibraryIsSound'
  BY DEF Inv, ProcessIsSound, LibraryIsSound, ClearIsSound, WriteRestoreIntent, WriteIntent, SetIntent,
      Step, Goto, Bare, Whole, Only, RestorePending, ClearPending, RestorePhase, dirs, history
<1>5. RestoreIsSound'
  BY DEF Inv, TypeOK, RestoreIsSound, WriteRestoreIntent, WriteIntent, SetIntent, Step, Goto, Bare,
      Only, Split, RestorePending, RestorePhase
<1>6. ClearIsSound'
  BY DEF Inv, ProcessIsSound, ClearIsSound, WriteRestoreIntent, WriteIntent, SetIntent, Step, Goto,
      Bare, Split, Removing
<1>7. GoneIsGone'
  BY DEF Inv, ProcessIsSound, ClearIsSound, GoneIsGone, WriteRestoreIntent, WriteIntent, SetIntent,
      Step, Goto, loop, history
<1> QED
  BY <1>1, <1>2, <1>3, <1>4, <1>5, <1>6, <1>7 DEF Inv

(* The rename: from here the staged data set is the one to be installed,   *)
(* and the old one, whole at its place, is split with an empty rollback    *)
(* directory.                                                              *)
LEMMA NameRestoreIntentInv ==
  ASSUME Inv, NameRestoreIntent
  PROVE  Inv'
<1>1. TypeOK'
  BY DEF Inv, TypeOK, NameRestoreIntent, SetIntent, Step, Goto, Shapes, Steps, Sets, RestorePhase,
      dirs, loop, history, bounds
<1>2. ProcessIsSound'
  BY DEF Inv, TypeOK, ProcessIsSound, NameRestoreIntent, SetIntent, Step, Goto, OneIntent,
      RunningSteps, StartSteps
<1>3. RoomIsKept'
  BY DEF Inv, RoomIsKept, NameRestoreIntent, SetIntent, Step, ClearPending, history
<1>4. LibraryIsSound'
  BY DEF Inv, TypeOK, ProcessIsSound, LibraryIsSound, ClearIsSound, NameRestoreIntent, SetIntent, Step,
      Goto, Bare, Whole, RestorePending, RestorePhase
<1>5. RestoreIsSound'
  <2>1. /\ app = "up" /\ UNCHANGED <<place, dirs, current, made, app>> /\ stage = "whole"
        /\ intent["restore"] = "temp" /\ ~Removing /\ at' \notin {"restore-unstage", "restore-forget"}
    BY DEF NameRestoreIntent, Step, Inv, TypeOK, ProcessIsSound, StartSteps, RunningSteps, Goto,
        history, bounds
  <2>2. /\ Bare("rollback") /\ Whole("root", current) /\ Only("staged", made) /\ current < made
    BY <2>1 DEF Inv, LibraryIsSound, NameRestoreIntent, Step, RestorePending, RestorePhase
  <2>3. Split("root", "rollback", current)
    BY <2>2, WholeIsSplit
  <2>4. Bare("rollback")' /\ Only("staged", made)' /\ Split("root", "rollback", current)'
    BY <2>1, <2>2, <2>3 DEF Bare, Only, Split, Half, dirs
  <2>5. intent'["restore"] \in {"temp", "prepared"}
    BY <2>1 DEF NameRestoreIntent, SetIntent, Inv, TypeOK
  <2> QED
    BY <2>1, <2>2, <2>4, <2>5 DEF RestoreIsSound, RestorePending, RestorePhase, dirs
<1>6. ClearIsSound'
  BY DEF Inv, ProcessIsSound, ClearIsSound, NameRestoreIntent, SetIntent, Step, Goto, Bare, Split,
      Removing
<1>7. GoneIsGone'
  BY DEF Inv, ProcessIsSound, ClearIsSound, GoneIsGone, NameRestoreIntent, SetIntent, Step, Goto, loop,
      history
<1> QED
  BY <1>1, <1>2, <1>3, <1>4, <1>5, <1>6, <1>7 DEF Inv

(* The rename fails, with or without the intent in place.                  *)
LEMMA NameRestoreFailsInv ==
  ASSUME Inv, NameRestoreFails
  PROVE  Inv'
<1>1. TypeOK'
  BY BoundAssumption DEF Inv, TypeOK, NameRestoreFails, SetIntent, Step, Goto, Shapes, Steps, Sets,
      RestorePhase, Spots, dirs, loop, history
<1>2. ProcessIsSound'
  BY DEF Inv, TypeOK, ProcessIsSound, NameRestoreFails, SetIntent, Step, Goto, OneIntent, RunningSteps,
      StartSteps, Removing
<1>3. RoomIsKept'
  BY DEF Inv, TypeOK, RoomIsKept, NameRestoreFails, SetIntent, Step, Goto, ClearPending, history
<1>4. LibraryIsSound'
  BY DEF Inv, TypeOK, ProcessIsSound, LibraryIsSound, ClearIsSound, NameRestoreFails, SetIntent, Step,
      Goto, Bare, Whole, Only, RestorePending, ClearPending, RestorePhase, dirs, history
<1>5. RestoreIsSound'
  <2>1. /\ app = "up" /\ UNCHANGED <<place, dirs, current, made, app>> /\ stage = "whole"
        /\ intent["restore"] = "temp" /\ ~Removing /\ at' \notin {"restore-unstage", "restore-forget"}
    BY DEF NameRestoreFails, Step, Inv, TypeOK, ProcessIsSound, StartSteps, RunningSteps, Goto,
        history, bounds
  <2>2. /\ Bare("rollback") /\ Whole("root", current) /\ Only("staged", made) /\ current < made
    BY <2>1 DEF Inv, LibraryIsSound, NameRestoreFails, Step, RestorePending, RestorePhase
  <2>3. Split("root", "rollback", current)
    BY <2>2, WholeIsSplit
  <2>4. Bare("rollback")' /\ Only("staged", made)' /\ Split("root", "rollback", current)'
    BY <2>1, <2>2, <2>3 DEF Bare, Only, Split, Half, dirs
  <2>5. intent'["restore"] \in {"temp", "prepared"}
    BY <2>1 DEF NameRestoreFails, SetIntent, Inv, TypeOK
  <2> QED
    BY <2>1, <2>2, <2>4, <2>5 DEF RestoreIsSound, RestorePending, RestorePhase, dirs
<1>6. ClearIsSound'
  BY DEF Inv, TypeOK, ProcessIsSound, ClearIsSound, NameRestoreFails, SetIntent, Step, Goto, Bare,
      Split, Removing
<1>7. GoneIsGone'
  BY DEF Inv, ProcessIsSound, ClearIsSound, GoneIsGone, NameRestoreFails, SetIntent, Step, Goto, loop,
      history
<1> QED
  BY <1>1, <1>2, <1>3, <1>4, <1>5, <1>6, <1>7 DEF Inv

(* What no intent names is removed; a stage that one names stays.          *)
LEMMA UndoStageInv ==
  ASSUME Inv, UndoStage
  PROVE  Inv'
<1>1. TypeOK'
  BY BoundAssumption DEF Inv, TypeOK, UndoStage, Step, Goto, Nothing, Shapes, Steps, Sets, Absent,
      Spots, loop, history, bounds
<1>2. ProcessIsSound'
  BY DEF Inv, ProcessIsSound, UndoStage, Step, Goto, Nothing, OneIntent, RunningSteps, StartSteps
<1>3. RoomIsKept'
  BY DEF Inv, RoomIsKept, UndoStage, Step, Goto, ClearPending, history
<1>4. LibraryIsSound'
  BY DEF Inv, TypeOK, LibraryIsSound, UndoStage, Step, Goto, Nothing, Bare, Whole, Only,
      RestorePending, ClearPending, Removing, Spots, history
<1>5. RestoreIsSound'
  BY DEF Inv, RestoreIsSound, UndoStage, Step, Goto, Nothing, Bare, Only, Split, Half, RestorePending,
      history
<1>6. ClearIsSound'
  BY DEF Inv, ProcessIsSound, ClearIsSound, UndoStage, Step, Goto, Nothing, Bare, Split, Removing
<1>7. GoneIsGone'
  BY BoundAssumption DEF Inv, TypeOK, GoneIsGone, UndoStage, Step, Goto, Nothing, Absent, Removing,
      loop, history
<1> QED
  BY <1>1, <1>2, <1>3, <1>4, <1>5, <1>6, <1>7 DEF Inv

(* The loop over the credentials begins with all that the intent names.    *)
LEMMA CollectTargetsInv ==
  ASSUME Inv, CollectTargets
  PROVE  Inv'
<1>1. TypeOK'
  BY DEF Inv, TypeOK, Steps, CollectTargets, Step, Goto, dirs, history, bounds
<1>2. ProcessIsSound'
  BY DEF Inv, TypeOK, ProcessIsSound, CollectTargets, Step, Goto, OneIntent, RunningSteps, StartSteps,
      ClearPending, ClearPhase, Removing, dirs
<1>3. RoomIsKept'
  BY DEF Inv, RoomIsKept, CollectTargets, Step, history
<1>4. LibraryIsSound'
  BY DEF Inv, LibraryIsSound, CollectTargets, Step, Goto, Bare, Whole, Only, RestorePending,
      ClearPending, Removing, dirs, history
<1>5. RestoreIsSound'
  BY DEF Inv, RestoreIsSound, CollectTargets, Step, Goto, Bare, Only, Split, Half, RestorePending,
      dirs, history
<1>6. ClearIsSound'
  BY DEF Inv, TypeOK, ProcessIsSound, ClearIsSound, CollectTargets, Step, Goto, Bare, Split, Removing
<1>7. GoneIsGone'
  BY DEF Inv, GoneIsGone, CollectTargets, Step, Goto, Removing, history
<1> QED
  BY <1>1, <1>2, <1>3, <1>4, <1>5, <1>6, <1>7 DEF Inv

(* A vault that cannot be listed leaves no intent.                         *)
LEMMA CollectFailsInv ==
  ASSUME Inv, CollectFails
  PROVE  Inv'
<1>1. TypeOK'
  BY BoundAssumption DEF Inv, TypeOK, CollectFails, Step, Goto, Shapes, Steps, Sets, Spots, dirs, loop,
      history
<1>2. ProcessIsSound'
  BY DEF Inv, ProcessIsSound, CollectFails, Step, Goto, OneIntent, RunningSteps, StartSteps, dirs
<1>3. RoomIsKept'
  BY DEF Inv, RoomIsKept, CollectFails, Step, history
<1>4. LibraryIsSound'
  BY DEF Inv, LibraryIsSound, CollectFails, Step, Goto, Bare, Whole, Only, RestorePending,
      ClearPending, Removing, dirs, history
<1>5. RestoreIsSound'
  BY DEF Inv, RestoreIsSound, CollectFails, Step, Goto, Bare, Only, Split, Half, RestorePending, dirs,
      history
<1>6. ClearIsSound'
  BY DEF Inv, TypeOK, ProcessIsSound, ClearIsSound, CollectFails, Step, Goto, Bare, Split, Removing
<1>7. GoneIsGone'
  BY DEF Inv, GoneIsGone, CollectFails, Step, Goto, Removing, loop, history
<1> QED
  BY <1>1, <1>2, <1>3, <1>4, <1>5, <1>6, <1>7 DEF Inv

(* A temporary file names nothing.                                         *)
LEMMA WriteClearIntentInv ==
  ASSUME Inv, WriteClearIntent
  PROVE  Inv'
<1>1. TypeOK'
  BY DEF Inv, TypeOK, WriteClearIntent, WriteIntent, SetIntent, Step, Goto, Shapes, Steps, Sets, dirs,
      loop, history, bounds
<1>2. ProcessIsSound'
  BY DEF Inv, TypeOK, ProcessIsSound, WriteClearIntent, WriteIntent, SetIntent, Step, Goto, OneIntent,
      RunningSteps, StartSteps, Removing, dirs
<1>3. RoomIsKept'
  BY DEF Inv, RoomIsKept, WriteClearIntent, WriteIntent, SetIntent, Step, history
<1>4. LibraryIsSound'
  BY DEF Inv, ProcessIsSound, LibraryIsSound, WriteClearIntent, WriteIntent, SetIntent, Step, Goto,
      Bare, Whole, RestorePending, ClearPending, ClearPhase, Removing, dirs, history
<1>5. RestoreIsSound'
  BY DEF Inv, ProcessIsSound, RestoreIsSound, WriteClearIntent, WriteIntent, SetIntent, Step, Goto,
      Bare, Only, Split, RestorePending, RestorePhase
<1>6. ClearIsSound'
  BY DEF Inv, TypeOK, ClearIsSound, WriteClearIntent, WriteIntent, SetIntent, Step, Goto, Bare, Split,
      Removing
<1>7. GoneIsGone'
  BY DEF Inv, ProcessIsSound, GoneIsGone, WriteClearIntent, WriteIntent, SetIntent, Step, Goto,
      Removing, loop, history
<1> QED
  BY <1>1, <1>2, <1>3, <1>4, <1>5, <1>6, <1>7 DEF Inv

(* The rename: the intent names the credentials the loop will delete.      *)
LEMMA NameClearIntentInv ==
  ASSUME Inv, NameClearIntent
  PROVE  Inv'
<1>1. TypeOK'
  BY DEF Inv, TypeOK, NameClearIntent, SetIntent, Step, Goto, Shapes, Steps, Sets, ClearPhase, dirs,
      loop, history, bounds
<1>2. ProcessIsSound'
  BY DEF Inv, TypeOK, ProcessIsSound, NameClearIntent, SetIntent, Step, Goto, OneIntent, RunningSteps,
      StartSteps, dirs
<1>3. RoomIsKept'
  BY DEF Inv, RoomIsKept, NameClearIntent, SetIntent, Step, history
<1>4. LibraryIsSound'
  BY DEF Inv, TypeOK, ProcessIsSound, LibraryIsSound, NameClearIntent, SetIntent, Step, Goto, Bare,
      Whole, RestorePending, dirs, history
<1>5. RestoreIsSound'
  BY DEF Inv, ProcessIsSound, RestoreIsSound, NameClearIntent, SetIntent, Step, Goto, Bare, Only,
      Split, RestorePending, RestorePhase
<1>6. ClearIsSound'
  BY DEF Inv, TypeOK, ClearIsSound, NameClearIntent, SetIntent, Step, Goto, Bare, Split, Removing
<1>7. GoneIsGone'
  BY DEF Inv, TypeOK, ProcessIsSound, GoneIsGone, NameClearIntent, SetIntent, Step, Goto, loop, history
<1> QED
  BY <1>1, <1>2, <1>3, <1>4, <1>5, <1>6, <1>7 DEF Inv

(* A credential that is deleted leaves the vault and the loop together.    *)
LEMMA DeleteCredentialInv ==
  ASSUME NEW k \in Keys, Inv, DeleteCredential(k)
  PROVE  Inv'
<1>1. TypeOK'
  BY DEF Inv, TypeOK, DeleteCredential, Step, Shapes, Steps, Sets, dirs, process, history, bounds
<1>2. ProcessIsSound'
  BY DEF Inv, ProcessIsSound, DeleteCredential, Step, OneIntent, RunningSteps, dirs, process
<1>3. RoomIsKept'
  BY DEF Inv, TypeOK, ProcessIsSound, RoomIsKept, DeleteCredential, Step, ClearPending, history
<1>4. LibraryIsSound'
  BY DEF Inv, ProcessIsSound, LibraryIsSound, DeleteCredential, Step, Bare, Whole, RestorePending,
      ClearPending, Removing, dirs, process, history
<1>5. RestoreIsSound'
  BY DEF Inv, ProcessIsSound, RestoreIsSound, DeleteCredential, Step, Bare, Only, Split,
      RestorePending, process, history
<1>6. ClearIsSound'
  BY DEF Inv, ProcessIsSound, ClearIsSound, DeleteCredential, Step, Bare, Split, Removing
<1>7. GoneIsGone'
  BY DEF Inv, GoneIsGone, DeleteCredential, Step, Removing, process, history
<1> QED
  BY <1>1, <1>2, <1>3, <1>4, <1>5, <1>6, <1>7 DEF Inv

(* A credential that stays in the vault is passed over, and the error      *)
(* kept.                                                                   *)
LEMMA DeleteFailsInv ==
  ASSUME NEW k \in Keys, Inv, DeleteFails(k)
  PROVE  Inv'
<1>1. TypeOK'
  BY BoundAssumption DEF Inv, TypeOK, DeleteFails, Step, Shapes, Steps, Sets, Spots, dirs, process,
      history
<1>2. ProcessIsSound'
  BY DEF Inv, ProcessIsSound, DeleteFails, Step, OneIntent, RunningSteps, dirs, process
<1>3. RoomIsKept'
  BY DEF Inv, TypeOK, ProcessIsSound, RoomIsKept, DeleteFails, Step, ClearPending, history
<1>4. LibraryIsSound'
  BY DEF Inv, ProcessIsSound, LibraryIsSound, DeleteFails, Step, Bare, Whole, RestorePending,
      ClearPending, Removing, dirs, process, history
<1>5. RestoreIsSound'
  BY DEF Inv, ProcessIsSound, RestoreIsSound, DeleteFails, Step, Bare, Only, Split, RestorePending,
      process, history
<1>6. ClearIsSound'
  BY DEF Inv, ProcessIsSound, ClearIsSound, DeleteFails, Step, Bare, Split, Removing
<1>7. GoneIsGone'
  BY DEF Inv, GoneIsGone, DeleteFails, Step, Removing, process, history
<1> QED
  BY <1>1, <1>2, <1>3, <1>4, <1>5, <1>6, <1>7 DEF Inv

(* After an error the intent stays where it is.                            *)
LEMMA CredentialCleanupRequiredInv ==
  ASSUME Inv, CredentialCleanupRequired
  PROVE  Inv'
<1>1. TypeOK'
  BY DEF Inv, TypeOK, Steps, CredentialCleanupRequired, Goto, Refuse, dirs, loop, history, bounds
<1>2. ProcessIsSound'
  BY DEF Inv, ProcessIsSound, CredentialCleanupRequired, Step, Goto, Refuse, OneIntent, RunningSteps,
      StartSteps, dirs
<1>3. RoomIsKept'
  BY DEF Inv, TypeOK, ProcessIsSound, RoomIsKept, CredentialCleanupRequired, Step, Goto, ClearPending,
      history
<1>4. LibraryIsSound'
  BY DEF Inv, ProcessIsSound, LibraryIsSound, CredentialCleanupRequired, Step, Goto, Refuse, Bare,
      Whole, RestorePending, ClearPending, Removing, dirs, history
<1>5. RestoreIsSound'
  BY DEF Inv, ProcessIsSound, RestoreIsSound, CredentialCleanupRequired, Step, Goto, Refuse, Bare,
      Only, Split, RestorePending, history
<1>6. ClearIsSound'
  BY DEF Inv, ProcessIsSound, ClearIsSound, CredentialCleanupRequired, Step, Goto, Refuse, Bare, Split,
      Removing
<1>7. GoneIsGone'
  BY DEF Inv, GoneIsGone, CredentialCleanupRequired, Step, Goto, Refuse, Removing, loop, history
<1> QED
  BY <1>1, <1>2, <1>3, <1>4, <1>5, <1>6, <1>7 DEF Inv

(* Without an error nothing of the targets is left in the vault; the       *)
(* library, whole at its place, is the set that will go.                   *)
LEMMA CredentialsClearedInv ==
  ASSUME Inv, CredentialsCleared
  PROVE  Inv'
<1>1. TypeOK'
  <2>1. cleared' \in [sets : SUBSET (0 .. MaxSets), keys : SUBSET Keys]
    BY Zenon DEF CredentialsCleared, Inv, TypeOK
  <2>2. /\ intent' \in [{"restore", "clear"} -> RestorePhase \union ClearPhase \union {"none", "temp"}]
        /\ intent'["restore"] = intent["restore"] /\ intent'["clear"] = "ready"
    BY DEF CredentialsCleared, SetIntent, Inv, TypeOK, ClearPhase
  <2>3. at' \in {"idle", "clear-move"} /\ app' = app /\ shut' \in BOOLEAN
    BY DEF CredentialsCleared, Goto, Inv, TypeOK
  <2> QED
    BY <2>1, <2>2, <2>3 DEF Inv, TypeOK, Steps, ClearPhase, CredentialsCleared, dirs, loop, bounds
<1>2. ProcessIsSound'
  BY DEF Inv, TypeOK, ProcessIsSound, CredentialsCleared, SetIntent, Step, Goto, OneIntent,
      RunningSteps, StartSteps, dirs
<1>3. RoomIsKept'
  BY DEF Inv, TypeOK, ProcessIsSound, RoomIsKept, CredentialsCleared, SetIntent, Step, ClearPending
<1>4. LibraryIsSound'
  BY DEF Inv, TypeOK, LibraryIsSound, CredentialsCleared, SetIntent, Step, Goto, Bare, Whole,
      RestorePending, Removing, dirs
<1>5. RestoreIsSound'
  BY DEF Inv, ProcessIsSound, RestoreIsSound, CredentialsCleared, SetIntent, Step, Goto, Bare, Only,
      Split, RestorePending
<1>6. ClearIsSound'
  <2>1. /\ UNCHANGED <<place, dirs, current>>
        /\ intent["clear"] = "credentials-pending" /\ intent'["clear"] = "ready"
    BY DEF CredentialsCleared, Step, SetIntent, Inv, TypeOK, ProcessIsSound
  <2>2. intent["restore"] = "none" /\ stage = "absent"
    BY <2>1 DEF Inv, TypeOK, Shapes, ProcessIsSound, OneIntent
  <2>3. Bare("trash") /\ Bare("staged") /\ Whole("root", current)
    BY <2>1, <2>2 DEF Inv, LibraryIsSound, RestorePending, RestorePhase, ClearPending, ClearPhase,
        Removing
  <2>4. Split("root", "trash", current)
    BY <2>3, WholeIsSplit
  <2>5. Bare("trash")' /\ Bare("staged")' /\ Split("root", "trash", current)'
    BY <2>1, <2>3, <2>4 DEF Bare, Split, Half
  <2> QED
    BY <2>1, <2>2, <2>5 DEF ClearIsSound, dirs
<1>7. GoneIsGone'
  BY DEF Inv, TypeOK, RoomIsKept, GoneIsGone, CredentialsCleared, SetIntent, Step, Goto, Removing, loop
<1> QED
  BY <1>1, <1>2, <1>3, <1>4, <1>5, <1>6, <1>7 DEF Inv

(* A start begins with the clear-all.                                      *)
LEMMA StartInv ==
  ASSUME Inv, Start
  PROVE  Inv'
<1>1. TypeOK'
  BY DEF Inv, TypeOK, Start, Shapes, Steps, Sets, dirs, loop, history, bounds
<1>2. ProcessIsSound'
  BY DEF Inv, ProcessIsSound, Start, OneIntent, RunningSteps, StartSteps, dirs
<1>3. RoomIsKept'
  BY DEF Inv, RoomIsKept, Start, ClearPending, history
<1>4. LibraryIsSound'
  BY DEF Inv, LibraryIsSound, Start, Bare, Whole, Only, RestorePending, ClearPending, Removing, dirs,
      history
<1>5. RestoreIsSound'
  BY DEF Inv, RestoreIsSound, Start, Bare, Only, Split, Half, RestorePending, dirs, history
<1>6. ClearIsSound'
  BY DEF Inv, ClearIsSound, Start, Bare, Split, Half, Removing, dirs, history
<1>7. GoneIsGone'
  BY DEF Inv, GoneIsGone, Start, Removing, loop, history
<1> QED
  BY <1>1, <1>2, <1>3, <1>4, <1>5, <1>6, <1>7 DEF Inv

(* A start goes on with a clear-all where its intent says it is.           *)
LEMMA RecoverClearInv ==
  ASSUME Inv, RecoverClear
  PROVE  Inv'
<1>1. TypeOK'
  BY DEF Inv, TypeOK, Steps, RecoverClear, Goto, Refuse, dirs, history, bounds
<1>2. ProcessIsSound'
  BY DEF Inv, TypeOK, ProcessIsSound, RecoverClear, Step, Goto, Refuse, OneIntent, RunningSteps,
      StartSteps, ClearPhase, dirs
<1>3. RoomIsKept'
  BY DEF Inv, RoomIsKept, RecoverClear, Step, Goto, Refuse, ClearPending, history
<1>4. LibraryIsSound'
  BY DEF Inv, TypeOK, RoomIsKept, LibraryIsSound, RecoverClear, Step, Goto, Refuse, Bare, Whole, Only,
      RestorePending, ClearPending, Removing, dirs, history
<1>5. RestoreIsSound'
  BY DEF Inv, RestoreIsSound, RecoverClear, Step, Goto, Refuse, Bare, Only, Split, Half,
      RestorePending, dirs, history
<1>6. ClearIsSound'
  BY DEF Inv, ClearIsSound, RecoverClear, Step, Goto, Refuse, Bare, Split, Half, Removing, dirs, history
<1>7. GoneIsGone'
  BY DEF Inv, GoneIsGone, RecoverClear, Step, Goto, Refuse, Removing, history
<1> QED
  BY <1>1, <1>2, <1>3, <1>4, <1>5, <1>6, <1>7 DEF Inv

(* A unit of the cleared data set goes from its place to the trash.        *)
LEMMA TrashUnitInv ==
  ASSUME NEW u \in Units, Inv, TrashUnit(u)
  PROVE  Inv'
<1>1. TypeOK'
  BY Moved DEF Inv, TypeOK, TrashUnit, Step, Has, Shapes, Steps, Sets, Spots, dirs, process, loop,
      history, bounds
<1>2. ProcessIsSound'
  BY Moved DEF Inv, ProcessIsSound, TrashUnit, Step, Has, OneIntent, RunningSteps, dirs, process
<1>3. RoomIsKept'
  BY Moved DEF Inv, TypeOK, ProcessIsSound, RoomIsKept, TrashUnit, Step, ClearPending, history
<1>4. LibraryIsSound'
  BY Moved DEF Inv, ProcessIsSound, LibraryIsSound, TrashUnit, Step, Has, Bare, Whole, RestorePending,
      Removing, Spots, dirs, process
<1>5. RestoreIsSound'
  BY Moved DEF Inv, TypeOK, ProcessIsSound, LibraryIsSound, RestoreIsSound, ClearIsSound, TrashUnit,
      Step, Has, Bare, Only, Split, Half, RestorePending, RestorePhase, Units, Spots
<1>6. ClearIsSound'
  BY Moved DEF Inv, ProcessIsSound, LibraryIsSound, RestoreIsSound, ClearIsSound, TrashUnit, Step, Has,
      Bare, Split, Half, RestorePending, RestorePhase, Units, Spots, dirs, process, history
<1>7. GoneIsGone'
  BY Moved DEF Inv, ProcessIsSound, GoneIsGone, TrashUnit, Step, Has, Removing, process, loop, history
<1> QED
  BY <1>1, <1>2, <1>3, <1>4, <1>5, <1>6, <1>7 DEF Inv

(* With nothing left at its place, the cleared set is all in the trash.    *)
LEMMA LocalStagedInv ==
  ASSUME Inv, LocalStaged
  PROVE  Inv'
<1>1. TypeOK'
  BY BoundAssumption DEF Inv, TypeOK, LocalStaged, Step, Goto, SetControl, SetIntent, Has, Nothing,
      Shapes, Steps, Sets, Absent, ClearPhase, Spots, loop, history, bounds
<1>2. ProcessIsSound'
  BY DEF Inv, TypeOK, ProcessIsSound, LocalStaged, Step, Goto, SetControl, SetIntent, Has, Nothing,
      OneIntent, RunningSteps, StartSteps
<1>3. RoomIsKept'
  BY DEF Inv, TypeOK, ProcessIsSound, RoomIsKept, LocalStaged, Step, Goto, SetControl, SetIntent, Has,
      ClearPending, history
<1>4. LibraryIsSound'
  BY DEF Inv, TypeOK, ProcessIsSound, LibraryIsSound, ClearIsSound, LocalStaged, Step, Goto,
      SetControl, SetIntent, Has, Nothing, Bare, Whole, RestorePending, Removing
<1>5. RestoreIsSound'
  BY DEF Inv, TypeOK, ProcessIsSound, RestoreIsSound, LocalStaged, Step, Goto, SetControl, SetIntent,
      Has, Nothing, Bare, Only, Split, RestorePending, history
<1>6. ClearIsSound'
  BY EmptyIsBare, UnitAssumption DEF Inv, TypeOK, ProcessIsSound, LibraryIsSound, ClearIsSound,
      LocalStaged, Step, Goto, SetControl, SetIntent, Has, Nothing, Bare, Split, Half, Spots, history
<1>7. GoneIsGone'
  BY DEF Inv, TypeOK, ProcessIsSound, GoneIsGone, LocalStaged, Step, Goto, SetControl, SetIntent, Has,
      Nothing, Removing, loop, history
<1> QED
  BY <1>1, <1>2, <1>3, <1>4, <1>5, <1>6, <1>7 DEF Inv

(* A unit of the cleared data set is removed for good.                     *)
LEMMA RemoveTrashInv ==
  ASSUME NEW u \in Units, Inv, RemoveTrash(u)
  PROVE  Inv'
<1>1. TypeOK'
  BY Removed DEF Inv, TypeOK, RemoveTrash, Step, Has, Shapes, Steps, Sets, Spots, dirs, process, loop,
      history, bounds
<1>2. ProcessIsSound'
  BY Removed DEF Inv, ProcessIsSound, RemoveTrash, Step, Has, OneIntent, RunningSteps, dirs, process
<1>3. RoomIsKept'
  BY Removed DEF Inv, TypeOK, ProcessIsSound, RoomIsKept, RemoveTrash, Step, ClearPending, history
<1>4. LibraryIsSound'
  BY Removed DEF Inv, LibraryIsSound, RemoveTrash, Step, Has, Bare, Whole, RestorePending, Removing,
      Spots, dirs, process
<1>5. RestoreIsSound'
  BY Removed DEF Inv, TypeOK, ProcessIsSound, RestoreIsSound, RemoveTrash, Step, Has, Bare, Only,
      Split, RestorePending, Spots, process, history
<1>6. ClearIsSound'
  BY Removed DEF Inv, ProcessIsSound, LibraryIsSound, ClearIsSound, RemoveTrash, Step, Has, Bare,
      Split, Spots, dirs
<1>7. GoneIsGone'
  BY Removed DEF Inv, ProcessIsSound, GoneIsGone, RemoveTrash, Step, Has, Removing, process, loop,
      history
<1> QED
  BY <1>1, <1>2, <1>3, <1>4, <1>5, <1>6, <1>7 DEF Inv

(* The clear-all is over: with the place and the trash empty, no unit of   *)
(* the cleared set is anywhere.                                            *)
LEMMA RemoveClearIntentInv ==
  ASSUME Inv, RemoveClearIntent
  PROVE  Inv'
<1>1. TypeOK'
  BY DEF Inv, TypeOK, RemoveClearIntent, Step, Goto, SetIntent, Shapes, Steps, Sets, dirs, history,
      bounds
<1>2. ProcessIsSound'
  BY DEF Inv, TypeOK, ProcessIsSound, RemoveClearIntent, Step, Goto, SetIntent, OneIntent,
      RunningSteps, StartSteps, dirs
<1>3. RoomIsKept'
  BY DEF Inv, TypeOK, ProcessIsSound, RoomIsKept, RemoveClearIntent, Step, Goto, ClearPending, history
<1>4. LibraryIsSound'
  BY EmptyIsBare DEF Inv, TypeOK, ProcessIsSound, RoomIsKept, LibraryIsSound, ClearIsSound,
      RemoveClearIntent, Step, Goto, SetIntent, Bare, Whole, RestorePending, ClearPending, ClearPhase,
      Spots, dirs, history
<1>5. RestoreIsSound'
  BY DEF Inv, ProcessIsSound, RestoreIsSound, RemoveClearIntent, Step, Goto, SetIntent, Bare, Only,
      Split, RestorePending, history
<1>6. ClearIsSound'
  BY DEF Inv, TypeOK, ClearIsSound, RemoveClearIntent, Step, Goto, SetIntent, Bare, Split, Removing
<1>7. GoneIsGone'
  <2>1. UNCHANGED <<place, vault, cleared, made>> /\ at' = "clear-rmdir"
    BY DEF RemoveClearIntent, Goto, history
  <2>2. Removing /\ ~RestorePending
    BY DEF RemoveClearIntent, Step, Inv, ProcessIsSound, OneIntent, Removing, RestorePending,
        RestorePhase
  <2>3. Bare("root") /\ Bare("trash") /\ Bare("staged") /\ Bare("rollback")
    BY <2>2, EmptyIsBare DEF RemoveClearIntent, Inv, LibraryIsSound, ClearIsSound, Spots
  <2>4. Absent \notin 0 .. made
    BY BoundAssumption DEF Inv, TypeOK, Absent
  <2>5. \A p \in Spots, u \in Units : place[p][u] \notin cleared.sets
    BY <2>3, <2>4 DEF Bare, Spots, Inv, GoneIsGone
  <2> QED
    BY <2>1, <2>5 DEF Inv, GoneIsGone
<1> QED
  BY <1>1, <1>2, <1>3, <1>4, <1>5, <1>6, <1>7 DEF Inv

(* A start goes on with a restore where its intent says it is.             *)
LEMMA RecoverRestoreInv ==
  ASSUME Inv, RecoverRestore
  PROVE  Inv'
<1>1. TypeOK'
  BY DEF Inv, TypeOK, Steps, RecoverRestore, Goto, Refuse, dirs, loop, history, bounds
<1>2. ProcessIsSound'
  BY DEF Inv, TypeOK, ProcessIsSound, RecoverRestore, Step, Goto, Refuse, OneIntent, RunningSteps,
      StartSteps, RestorePhase, dirs
<1>3. RoomIsKept'
  BY DEF Inv, RoomIsKept, RecoverRestore, Step, Goto, Refuse, ClearPending, history
<1>4. LibraryIsSound'
  BY DEF Inv, TypeOK, RoomIsKept, LibraryIsSound, RecoverRestore, Step, Goto, Refuse, Bare, Whole,
      Only, RestorePending, ClearPending, Removing, dirs, history
<1>5. RestoreIsSound'
  BY DEF Inv, RestoreIsSound, RecoverRestore, Step, Goto, Refuse, Bare, Only, Split, Half,
      RestorePending, dirs, history
<1>6. ClearIsSound'
  BY DEF Inv, TypeOK, ProcessIsSound, ClearIsSound, RecoverRestore, Step, Goto, Refuse, Bare, Split,
      Removing
<1>7. GoneIsGone'
  BY DEF Inv, GoneIsGone, RecoverRestore, Step, Goto, Refuse, Removing, loop, history
<1> QED
  BY <1>1, <1>2, <1>3, <1>4, <1>5, <1>6, <1>7 DEF Inv

(* The rollback directory is made, still empty.                            *)
LEMMA CreateRollbackInv ==
  ASSUME Inv, CreateRollback
  PROVE  Inv'
<1>1. TypeOK'
  BY DEF Inv, TypeOK, CreateRollback, Step, Goto, Shapes, Steps, Sets, loop, history, bounds
<1>2. ProcessIsSound'
  BY DEF Inv, ProcessIsSound, CreateRollback, Step, Goto, OneIntent, RunningSteps, StartSteps
<1>3. RoomIsKept'
  BY DEF Inv, RoomIsKept, CreateRollback, Step, Goto, ClearPending, history
<1>4. LibraryIsSound'
  BY DEF Inv, TypeOK, ProcessIsSound, LibraryIsSound, RestoreIsSound, ClearIsSound, CreateRollback,
      Step, Goto, Bare, Whole, RestorePending
<1>5. RestoreIsSound'
  BY DEF Inv, RestoreIsSound, CreateRollback, Step, Goto, Bare, Only, Split, Half, RestorePending,
      history
<1>6. ClearIsSound'
  BY DEF Inv, TypeOK, ProcessIsSound, ClearIsSound, CreateRollback, Step, Goto, Bare, Split, Removing
<1>7. GoneIsGone'
  BY DEF Inv, ProcessIsSound, RestoreIsSound, ClearIsSound, GoneIsGone, CreateRollback, Step, Goto,
      loop, history
<1> QED
  BY <1>1, <1>2, <1>3, <1>4, <1>5, <1>6, <1>7 DEF Inv

(* A unit of the old data set goes from its place to the rollback          *)
(* directory.                                                              *)
LEMMA StageOldInv ==
  ASSUME NEW u \in Units, Inv, StageOld(u)
  PROVE  Inv'
<1>1. TypeOK'
  BY Moved DEF Inv, TypeOK, StageOld, Step, Has, Shapes, Steps, Sets, Spots, dirs, process, loop,
      history, bounds
<1>2. ProcessIsSound'
  BY Moved DEF Inv, ProcessIsSound, StageOld, Step, Has, OneIntent, RunningSteps, dirs, process
<1>3. RoomIsKept'
  BY Moved DEF Inv, RoomIsKept, StageOld, Step, ClearPending, process, history
<1>4. LibraryIsSound'
  BY Moved DEF Inv, ProcessIsSound, LibraryIsSound, RestoreIsSound, ClearIsSound, StageOld, Step, Has,
      Bare, Whole, RestorePending, Spots, process
<1>5. RestoreIsSound'
  <2>1. Move(u, "root", "rollback") /\ place["root"][u] # Absent /\ place["rollback"][u] = Absent
    BY DEF StageOld, Has
  <2>2. /\ place'["root"][u] = Absent /\ place'["rollback"][u] = place["root"][u]
        /\ \A r \in Spots, v \in Units : v # u \/ r \notin {"root", "rollback"} => place'[r][v] = place[r][v]
    BY <2>1, Moved DEF Inv, Spots
  <2>3. /\ intent["restore"] = "prepared" /\ intent' = intent /\ app = "starting" /\ at' = at /\ at = "restore-old"
        /\ rolled /\ UNCHANGED <<dirs, process, history>>
    BY DEF StageOld, Step, Inv, TypeOK, ProcessIsSound, RunningSteps, process
  <2>4. Only("staged", made) /\ Split("root", "rollback", current) /\ current < made /\ stage = "whole"
    BY <2>3 DEF Inv, RestoreIsSound, RestorePending, RestorePhase
  <2>5. Only("staged", made)'
    BY <2>2, <2>3, <2>4 DEF Only, Spots, Units, history
  <2>6. place["root"][u] = current
    BY <2>1, <2>4 DEF Split, Half, Units
  <2>7. \A v \in Units : Half(v, "root", "rollback", current) => Half(v, "root", "rollback", current)'
    BY <2>2, <2>3, <2>6 DEF Half, Spots, history
  <2>8. Split("root", "rollback", current)'
    <3>1. \A v \in Units \ {u} : place'["root"][v] = place["root"][v] /\ place'["rollback"][v] = place["rollback"][v]
      BY <2>2 DEF Spots
    <3>2. Half(u, "root", "rollback", current)'
      BY <2>2, <2>3, <2>6 DEF Half, history
    <3> QED
      BY <2>3, <2>4, <2>7, <3>1, <3>2 DEF Split, Units, history
  <2> QED
    BY <2>3, <2>4, <2>5, <2>8 DEF RestoreIsSound, dirs, process, history
<1>6. ClearIsSound'
  BY Moved DEF Inv, TypeOK, ProcessIsSound, ClearIsSound, StageOld, Step, Has, Bare, Split, Removing
<1>7. GoneIsGone'
  BY Moved DEF Inv, ProcessIsSound, RestoreIsSound, ClearIsSound, GoneIsGone, StageOld, Step, Has,
      Spots, process, loop, history
<1> QED
  BY <1>1, <1>2, <1>3, <1>4, <1>5, <1>6, <1>7 DEF Inv

(* With its place empty, the old data set is all in the rollback           *)
(* directory.                                                              *)
LEMMA OldStagedInv ==
  ASSUME Inv, OldStaged
  PROVE  Inv'
<1>1. TypeOK'
  BY DEF Inv, TypeOK, OldStaged, Step, Goto, SetIntent, Has, Shapes, Steps, Sets, RestorePhase, dirs,
      loop, history, bounds
<1>2. ProcessIsSound'
  BY DEF Inv, TypeOK, ProcessIsSound, OldStaged, Step, Goto, SetIntent, Has, OneIntent, RunningSteps,
      StartSteps
<1>3. RoomIsKept'
  BY DEF Inv, RoomIsKept, OldStaged, Step, Goto, SetIntent, ClearPending, history
<1>4. LibraryIsSound'
  BY DEF Inv, ProcessIsSound, LibraryIsSound, RestoreIsSound, ClearIsSound, OldStaged, Step, Goto,
      SetIntent, Has, Bare, Whole, RestorePending, RestorePhase
<1>5. RestoreIsSound'
  BY EmptyIsBare DEF Inv, ProcessIsSound, LibraryIsSound, RestoreIsSound, OldStaged, Step, Goto,
      SetIntent, Has, Bare, Only, Split, Half, Units, Spots, dirs, history
<1>6. ClearIsSound'
  BY DEF Inv, TypeOK, ProcessIsSound, ClearIsSound, OldStaged, Step, Goto, SetIntent, Has, Bare, Split,
      Removing
<1>7. GoneIsGone'
  BY DEF Inv, ProcessIsSound, RestoreIsSound, ClearIsSound, GoneIsGone, OldStaged, Step, Goto,
      SetIntent, Has, loop, history
<1> QED
  BY <1>1, <1>2, <1>3, <1>4, <1>5, <1>6, <1>7 DEF Inv

(* A unit of the new data set goes from the stage to its place.            *)
LEMMA InstallNewInv ==
  ASSUME NEW u \in Units, Inv, InstallNew(u)
  PROVE  Inv'
<1>1. TypeOK'
  BY Moved DEF Inv, TypeOK, InstallNew, Step, Has, Shapes, Steps, Sets, Spots, dirs, process, loop,
      history, bounds
<1>2. ProcessIsSound'
  BY Moved DEF Inv, ProcessIsSound, InstallNew, Step, Has, OneIntent, RunningSteps, process
<1>3. RoomIsKept'
  BY Moved DEF Inv, RoomIsKept, InstallNew, Step, ClearPending, process, history
<1>4. LibraryIsSound'
  BY Moved DEF Inv, TypeOK, ProcessIsSound, LibraryIsSound, ClearIsSound, InstallNew, Step, Has, Bare,
      Whole, RestorePending, Spots, process
<1>5. RestoreIsSound'
  BY Moved DEF Inv, ProcessIsSound, LibraryIsSound, RestoreIsSound, ClearIsSound, InstallNew, Step,
      Has, Bare, Only, Split, Half, Units, Spots, dirs, process, history
<1>6. ClearIsSound'
  BY Moved DEF Inv, ClearIsSound, InstallNew, Step, Has, Bare, Split, Removing
<1>7. GoneIsGone'
  BY Moved DEF Inv, ProcessIsSound, LibraryIsSound, RestoreIsSound, ClearIsSound, GoneIsGone,
      InstallNew, Step, Has, Spots, process, loop, history
<1> QED
  BY <1>1, <1>2, <1>3, <1>4, <1>5, <1>6, <1>7 DEF Inv

(* With every required unit installed, the stage is empty.                 *)
LEMMA NewInstalledInv ==
  ASSUME Inv, NewInstalled
  PROVE  Inv'
<1>1. TypeOK'
  BY DEF Inv, TypeOK, NewInstalled, Step, Goto, SetIntent, Has, Shapes, Steps, Sets, RestorePhase,
      dirs, loop, history, bounds
<1>2. ProcessIsSound'
  BY DEF Inv, TypeOK, ProcessIsSound, NewInstalled, Step, Goto, SetIntent, Has, OneIntent,
      RunningSteps, StartSteps
<1>3. RoomIsKept'
  BY DEF Inv, RoomIsKept, NewInstalled, Step, Goto, SetIntent, ClearPending, history
<1>4. LibraryIsSound'
  BY DEF Inv, ProcessIsSound, LibraryIsSound, RestoreIsSound, ClearIsSound, NewInstalled, Step, Goto,
      SetIntent, Has, Bare, Whole, RestorePending, RestorePhase
<1>5. RestoreIsSound'
  BY UnitAssumption DEF Inv, TypeOK, ProcessIsSound, RoomIsKept, LibraryIsSound, RestoreIsSound,
      NewInstalled, Step, Goto, SetIntent, Has, Bare, Only, Split, Half, Units, dirs, history
<1>6. ClearIsSound'
  BY DEF Inv, TypeOK, ProcessIsSound, ClearIsSound, NewInstalled, Step, Goto, SetIntent, Has, Bare,
      Split, Removing
<1>7. GoneIsGone'
  BY DEF Inv, ProcessIsSound, RestoreIsSound, ClearIsSound, GoneIsGone, NewInstalled, Step, Goto,
      SetIntent, Has, loop, history
<1> QED
  BY <1>1, <1>2, <1>3, <1>4, <1>5, <1>6, <1>7 DEF Inv

(* The new data set is whole at its place and may be the only one.         *)
LEMMA FinalizingInv ==
  ASSUME Inv, Finalizing
  PROVE  Inv'
<1>1. TypeOK'
  BY DEF Inv, TypeOK, Finalizing, Step, Goto, SetIntent, Has, Shapes, Steps, Sets, RestorePhase, dirs,
      loop, history, bounds
<1>2. ProcessIsSound'
  BY DEF Inv, TypeOK, ProcessIsSound, Finalizing, Step, Goto, SetIntent, Has, OneIntent, RunningSteps,
      StartSteps
<1>3. RoomIsKept'
  BY DEF Inv, RoomIsKept, Finalizing, Step, Goto, SetIntent, ClearPending, history
<1>4. LibraryIsSound'
  BY DEF Inv, ProcessIsSound, LibraryIsSound, RestoreIsSound, ClearIsSound, Finalizing, Step, Goto,
      SetIntent, Has, Bare, Whole, RestorePending, RestorePhase
<1>5. RestoreIsSound'
  BY DEF Inv, TypeOK, ProcessIsSound, RestoreIsSound, Finalizing, Step, Goto, SetIntent, Has, Bare,
      Only, Split, RestorePending, history
<1>6. ClearIsSound'
  BY DEF Inv, TypeOK, ProcessIsSound, ClearIsSound, Finalizing, Step, Goto, SetIntent, Has, Bare,
      Split, Removing
<1>7. GoneIsGone'
  BY DEF Inv, ProcessIsSound, RestoreIsSound, ClearIsSound, GoneIsGone, Finalizing, Step, Goto,
      SetIntent, Has, loop, history
<1> QED
  BY <1>1, <1>2, <1>3, <1>4, <1>5, <1>6, <1>7 DEF Inv

(* A unit of the old data set is removed for good.                         *)
LEMMA RemoveRollbackInv ==
  ASSUME NEW u \in Units, Inv, RemoveRollback(u)
  PROVE  Inv'
<1>1. TypeOK'
  BY Removed DEF Inv, TypeOK, RemoveRollback, Step, Has, Shapes, Steps, Sets, Spots, dirs, process,
      loop, history, bounds
<1>2. ProcessIsSound'
  BY Removed DEF Inv, ProcessIsSound, RemoveRollback, Step, Has, OneIntent, RunningSteps, process
<1>3. RoomIsKept'
  BY Removed DEF Inv, RoomIsKept, RemoveRollback, Step, ClearPending, process, history
<1>4. LibraryIsSound'
  BY Removed DEF Inv, LibraryIsSound, RemoveRollback, Step, Has, Bare, Whole, RestorePending, Removing,
      Spots, process
<1>5. RestoreIsSound'
  BY Removed DEF Inv, TypeOK, ProcessIsSound, LibraryIsSound, RestoreIsSound, RemoveRollback, Step,
      Has, Bare, Only, Split, Spots, process, history
<1>6. ClearIsSound'
  BY Removed DEF Inv, TypeOK, ProcessIsSound, ClearIsSound, RemoveRollback, Step, Has, Bare, Split,
      Removing
<1>7. GoneIsGone'
  BY BoundAssumption, Removed DEF Inv, TypeOK, GoneIsGone, RemoveRollback, Step, Has, Absent, Removing,
      Spots, process, loop, history
<1> QED
  BY <1>1, <1>2, <1>3, <1>4, <1>5, <1>6, <1>7 DEF Inv

(* The rollback directory goes when it is empty.                           *)
LEMMA RemoveRollbackRootInv ==
  ASSUME Inv, RemoveRollbackRoot
  PROVE  Inv'
<1>1. TypeOK'
  BY DEF Inv, TypeOK, Steps, RemoveRollbackRoot, Goto, loop, history, bounds
<1>2. ProcessIsSound'
  BY DEF Inv, ProcessIsSound, RemoveRollbackRoot, Step, Goto, OneIntent, RunningSteps, StartSteps
<1>3. RoomIsKept'
  BY DEF Inv, RoomIsKept, RemoveRollbackRoot, Step, Goto, ClearPending, history
<1>4. LibraryIsSound'
  BY DEF Inv, TypeOK, ProcessIsSound, LibraryIsSound, RemoveRollbackRoot, Step, Goto, Bare, Whole,
      RestorePending, Removing
<1>5. RestoreIsSound'
  BY EmptyIsBare DEF Inv, ProcessIsSound, RestoreIsSound, RemoveRollbackRoot, Step, Goto, Bare, Only,
      Split, RestorePending, Spots, history
<1>6. ClearIsSound'
  BY DEF Inv, TypeOK, ProcessIsSound, ClearIsSound, RemoveRollbackRoot, Step, Goto, Bare, Split,
      Removing
<1>7. GoneIsGone'
  BY DEF Inv, GoneIsGone, RemoveRollbackRoot, Step, Goto, Removing, loop, history
<1> QED
  BY <1>1, <1>2, <1>3, <1>4, <1>5, <1>6, <1>7 DEF Inv

(* The directory of the stage goes, with nothing in it.                    *)
LEMMA RemoveStageInv ==
  ASSUME Inv, RemoveStage
  PROVE  Inv'
<1>1. TypeOK'
  BY DEF Inv, TypeOK, RemoveStage, Step, Goto, Shapes, Steps, Sets, loop, history, bounds
<1>2. ProcessIsSound'
  BY DEF Inv, ProcessIsSound, RemoveStage, Step, Goto, OneIntent, RunningSteps, StartSteps
<1>3. RoomIsKept'
  BY DEF Inv, RoomIsKept, RemoveStage, Step, Goto, ClearPending, history
<1>4. LibraryIsSound'
  BY DEF Inv, TypeOK, ProcessIsSound, LibraryIsSound, RemoveStage, Step, Goto, Bare, Whole,
      RestorePending, Removing
<1>5. RestoreIsSound'
  BY DEF Inv, ProcessIsSound, RestoreIsSound, RemoveStage, Step, Goto, Bare, Only, Split,
      RestorePending, history
<1>6. ClearIsSound'
  BY DEF Inv, TypeOK, ProcessIsSound, ClearIsSound, RemoveStage, Step, Goto, Bare, Split, Removing
<1>7. GoneIsGone'
  BY DEF Inv, GoneIsGone, RemoveStage, Step, Goto, Removing, loop, history
<1> QED
  BY <1>1, <1>2, <1>3, <1>4, <1>5, <1>6, <1>7 DEF Inv

(* The restore is over: the new data set is the library, whole and alone.  *)
LEMMA RemoveRestoreIntentInv ==
  ASSUME Inv, RemoveRestoreIntent
  PROVE  Inv'
<1>1. TypeOK'
  BY DEF Inv, TypeOK, RemoveRestoreIntent, Step, Goto, SetIntent, Shapes, Steps, Sets, dirs, loop,
      history, bounds
<1>2. ProcessIsSound'
  BY DEF Inv, TypeOK, ProcessIsSound, RemoveRestoreIntent, Step, Goto, SetIntent, OneIntent,
      RunningSteps, StartSteps, dirs
<1>3. RoomIsKept'
  BY DEF Inv, RoomIsKept, RemoveRestoreIntent, Step, Goto, SetIntent, ClearPending, history
<1>4. LibraryIsSound'
  BY DEF Inv, TypeOK, ProcessIsSound, LibraryIsSound, RestoreIsSound, RemoveRestoreIntent, Step, Goto,
      SetIntent, Bare, Whole, Only, ClearPending, ClearPhase, Removing, dirs, history
<1>5. RestoreIsSound'
  BY DEF Inv, TypeOK, RestoreIsSound, RemoveRestoreIntent, Step, Goto, SetIntent, Bare, Only, Split,
      RestorePending, RestorePhase
<1>6. ClearIsSound'
  BY DEF Inv, TypeOK, ProcessIsSound, ClearIsSound, RemoveRestoreIntent, Step, Goto, SetIntent, Bare,
      Split, Removing
<1>7. GoneIsGone'
  BY DEF Inv, GoneIsGone, RemoveRestoreIntent, Step, Goto, SetIntent, Removing, loop, history
<1> QED
  BY <1>1, <1>2, <1>3, <1>4, <1>5, <1>6, <1>7 DEF Inv

(* The directories of the control of clear-alls are removed one by one.    *)
LEMMA RemoveClearControlInv ==
  ASSUME Inv, RemoveClearControl
  PROVE  Inv'
<1>1. TypeOK'
  BY DEF Inv, TypeOK, RemoveClearControl, RemoveControl, Step, Goto, SetControl, Shapes, Steps, Sets,
      Spots, dirs, loop, history, bounds
<1>2. ProcessIsSound'
  BY DEF Inv, TypeOK, ProcessIsSound, RemoveClearControl, RemoveControl, Step, Goto, SetControl,
      OneIntent, RunningSteps, StartSteps, dirs
<1>3. RoomIsKept'
  BY DEF Inv, RoomIsKept, RemoveClearControl, RemoveControl, Step, Goto, ClearPending, history
<1>4. LibraryIsSound'
  BY DEF Inv, LibraryIsSound, RemoveClearControl, RemoveControl, Step, Goto, SetControl, Bare, Whole,
      Only, RestorePending, ClearPending, Removing, dirs, history
<1>5. RestoreIsSound'
  BY DEF Inv, RestoreIsSound, RemoveClearControl, RemoveControl, Step, Goto, SetControl, Bare, Only,
      Split, Half, RestorePending, dirs, history
<1>6. ClearIsSound'
  BY DEF Inv, TypeOK, ProcessIsSound, ClearIsSound, RemoveClearControl, RemoveControl, Step, Goto,
      SetControl, Bare, Split, Removing
<1>7. GoneIsGone'
  BY DEF Inv, GoneIsGone, RemoveClearControl, RemoveControl, Step, Goto, SetControl, Removing, loop,
      history
<1> QED
  BY <1>1, <1>2, <1>3, <1>4, <1>5, <1>6, <1>7 DEF Inv

(* The directories of the control of restores are removed one by one.      *)
LEMMA RemoveRestoreControlInv ==
  ASSUME Inv, RemoveRestoreControl
  PROVE  Inv'
<1>1. TypeOK'
  BY DEF Inv, TypeOK, RemoveRestoreControl, RemoveControl, Step, Goto, SetControl, Shapes, Steps, Sets,
      Spots, dirs, loop, history, bounds
<1>2. ProcessIsSound'
  BY DEF Inv, ProcessIsSound, RemoveRestoreControl, RemoveControl, Step, Goto, SetControl, OneIntent,
      RunningSteps, StartSteps, dirs
<1>3. RoomIsKept'
  BY DEF Inv, RoomIsKept, RemoveRestoreControl, RemoveControl, Step, Goto, ClearPending, history
<1>4. LibraryIsSound'
  BY DEF Inv, ProcessIsSound, LibraryIsSound, RemoveRestoreControl, RemoveControl, Step, Goto,
      SetControl, Bare, Whole, RestorePending, ClearPending, Removing, dirs, history
<1>5. RestoreIsSound'
  BY DEF Inv, ProcessIsSound, RestoreIsSound, RemoveRestoreControl, RemoveControl, Step, Goto,
      SetControl, Bare, Only, Split, RestorePending, RestorePhase
<1>6. ClearIsSound'
  BY DEF Inv, TypeOK, ProcessIsSound, ClearIsSound, RemoveRestoreControl, RemoveControl, Step, Goto,
      SetControl, Bare, Split, Removing
<1>7. GoneIsGone'
  BY DEF Inv, GoneIsGone, RemoveRestoreControl, RemoveControl, Step, Goto, SetControl, Removing, loop,
      history
<1> QED
  BY <1>1, <1>2, <1>3, <1>4, <1>5, <1>6, <1>7 DEF Inv

(* The application opens the library it finds whole, or makes a new one    *)
(* where there is none.                                                    *)
LEMMA OpenDataInv ==
  ASSUME Inv, OpenData
  PROVE  Inv'
<1>a. at = "open" /\ app = "starting" /\ intent["restore"] = "none" /\ intent["clear"] = "none" /\ stage = "absent" /\ ~shut
  BY DEF OpenData, Step, Inv, TypeOK, ProcessIsSound, RunningSteps, StartSteps
<1>b. \/ \E n \in 0 .. made : Whole("root", n)
      \/ Bare("root") /\ made < MaxSets
  BY <1>a DEF Inv, LibraryIsSound, RestorePending, ClearPending, Removing, RestorePhase, ClearPhase
<1>c. /\ made' \in made .. MaxSets /\ current' \in 0 .. made'
      /\ Whole("root", current)'
      /\ place' \in [Spots -> [Units -> Sets]]
      /\ \A p \in Spots \ {"root"} : place'[p] = place[p]
      /\ \/ \A u \in Units : place'["root"][u] \in {place["root"][u], place["root"][Database]}
         \/ \A u \in Units : place'["root"][u] \in {made + 1, Absent}
  <2>1. CASE \E n \in 0 .. made : Whole("root", n)
    <3>1. PICK n \in 0 .. made : Whole("root", n)
      BY <2>1
    <3>2. n # Absent /\ n \in Sets
      BY BoundAssumption DEF Inv, TypeOK, Absent, Sets
    <3>3. {u \in Required : ~Has("root", u)} = {}
      BY <3>1, <3>2 DEF Whole, Has
    <3>4. place["root"][Database] = n
      BY <3>1, UnitAssumption DEF Whole
    <3>5. made' = made /\ current' = n
      BY <3>3, <3>4 DEF OpenData
    <3>6. PICK more \in SUBSET Optional :
             place' = [place EXCEPT !["root"] =
                [u \in Units |-> IF Has("root", u) THEN place["root"][u]
                                 ELSE IF u \in more THEN n ELSE Absent]]
      BY <3>3, <3>4 DEF OpenData
    <3>7. place \in [Spots -> [Units -> Sets]] /\ "root" \in Spots /\ Absent \in Sets
      BY BoundAssumption DEF Inv, TypeOK, Spots, Absent, Sets
    <3>8. place'["root"] = [u \in Units |-> IF Has("root", u) THEN place["root"][u]
                                 ELSE IF u \in more THEN n ELSE Absent]
      BY <3>6, <3>7
    <3>9. place' \in [Spots -> [Units -> Sets]] /\ \A p \in Spots \ {"root"} : place'[p] = place[p]
      BY <3>2, <3>6, <3>7
    <3>10. Whole("root", current)'
      BY <3>1, <3>2, <3>5, <3>8 DEF Whole, Has, Units
    <3>11. \A u \in Units : place'["root"][u] \in {place["root"][u], n}
      BY <3>8 DEF Has
    <3> QED
      BY <3>4, <3>5, <3>9, <3>10, <3>11 DEF Inv, TypeOK
  <2>2. CASE Bare("root") /\ made < MaxSets
    <3>1. {u \in Required : ~Has("root", u)} = Required /\ Required # {}
      BY <2>2, UnitAssumption DEF Bare, Has, Units
    <3>2. made' = made + 1 /\ current' = made + 1
      BY <3>1, UnitAssumption DEF OpenData
    <3>3. PICK more \in SUBSET Optional :
             place' = [place EXCEPT !["root"] =
                [u \in Units |-> IF u \in Required THEN made + 1
                                 ELSE IF u \in more THEN made + 1 ELSE Absent]]
      <4>1. \A u \in Units : ~Has("root", u)
        BY <2>2 DEF Bare, Has
      <4>2. "root" \in Spots /\ place \in [Spots -> [Units -> Sets]]
        BY DEF Inv, TypeOK, Spots
      <4>3. Database \in Required /\ Required \subseteq Units
        BY UnitAssumption DEF Units
      <4>4. PICK more \in SUBSET Optional :
              place' = [place EXCEPT !["root"] =
                 [u \in Units |-> IF Has("root", u) THEN place["root"][u]
                                  ELSE IF u \in Required THEN made + 1
                                  ELSE IF u \in more THEN made + 1 ELSE Absent]]
        BY <3>1, <4>2, <4>3 DEF OpenData
      <4> QED
        BY <4>1, <4>4
    <3>4. place \in [Spots -> [Units -> Sets]] /\ "root" \in Spots /\ Absent \in Sets /\ made + 1 \in Sets /\ made \in Nat
      BY <2>2, BoundAssumption DEF Inv, TypeOK, Spots, Absent, Sets
    <3>5. place'["root"] = [u \in Units |-> IF u \in Required THEN made + 1
                                 ELSE IF u \in more THEN made + 1 ELSE Absent]
      BY <3>3, <3>4
    <3>6. place' \in [Spots -> [Units -> Sets]] /\ \A p \in Spots \ {"root"} : place'[p] = place[p]
      BY <3>3, <3>4
    <3>7. Whole("root", current)'
      BY <3>2, <3>5, UnitAssumption DEF Whole, Units
    <3>8. \A u \in Units : place'["root"][u] \in {made + 1, Absent}
      BY <3>5
    <3> QED
      BY <2>2, <3>2, <3>4, <3>6, <3>7, <3>8, BoundAssumption
  <2> QED
    BY <1>b, <2>1, <2>2
<1>d. UNCHANGED <<dirs, control, intent, shut, loop, cleared, bounds>> /\ app' = "up" /\ at' = "idle"
  BY DEF OpenData
<1>1. TypeOK'
  <2>1. made' \in 0 .. MaxSets /\ current' \in 0 .. MaxSets
    BY <1>c, BoundAssumption DEF Inv, TypeOK
  <2> QED
    BY <1>c, <1>d, <2>1 DEF Inv, TypeOK, Steps, dirs, loop, bounds
<1>2. ProcessIsSound'
  BY <1>a, <1>d DEF Inv, ProcessIsSound, OneIntent, Removing, RunningSteps, StartSteps, dirs
<1>3. RoomIsKept'
  BY <1>a, <1>c, <1>d, BoundAssumption DEF RoomIsKept, ClearPending, ClearPhase
<1>4. LibraryIsSound'
  <2>1. Bare("rollback")' /\ Bare("trash")' /\ Bare("staged")' /\ ~rolled
    BY <1>a, <1>c DEF Inv, LibraryIsSound, RestorePending, ClearPending, Removing, RestorePhase,
        ClearPhase, Bare, Spots
  <2> QED
    BY <1>a, <1>c, <1>d, <2>1 DEF LibraryIsSound, dirs
<1>5. RestoreIsSound'
  BY <1>a, <1>d DEF RestoreIsSound, RestorePending, RestorePhase
<1>6. ClearIsSound'
  BY <1>a, <1>d DEF ClearIsSound, Removing
<1>7. GoneIsGone'
  <2>1. ~Removing /\ cleared.sets \subseteq 0 .. made /\ Database \in Units /\ "root" \in Spots
    BY <1>a, UnitAssumption DEF Removing, Inv, GoneIsGone, Units, Spots
  <2>2. \A p \in Spots, u \in Units : place[p][u] \notin cleared.sets
    BY <2>1 DEF Inv, GoneIsGone
  <2>3. made + 1 \notin 0 .. made /\ Absent \notin 0 .. made /\ made \in Nat
    BY BoundAssumption DEF Inv, TypeOK, Absent
  <2>4. \A p \in Spots, u \in Units : place'[p][u] \notin cleared.sets
    BY <1>c, <2>1, <2>2, <2>3
  <2>5. cleared.sets \subseteq 0 .. made'
    BY <1>c, <2>1, <2>3
  <2> QED
    BY <1>d, <2>4, <2>5 DEF Inv, GoneIsGone, loop
<1> QED
  BY <1>1, <1>2, <1>3, <1>4, <1>5, <1>6, <1>7 DEF Inv

(* The application ends between two operations.                            *)
LEMMA QuitInv ==
  ASSUME Inv, Quit
  PROVE  Inv'
<1>1. TypeOK'
  BY DEF Inv, TypeOK, Steps, Quit, Refuse, dirs, loop, history, bounds
<1>2. ProcessIsSound'
  BY DEF Inv, ProcessIsSound, Quit, Refuse, OneIntent, RunningSteps, dirs
<1>3. RoomIsKept'
  BY DEF Inv, RoomIsKept, Quit, Refuse, ClearPending, history
<1>4. LibraryIsSound'
  BY DEF Inv, TypeOK, RoomIsKept, LibraryIsSound, Quit, Refuse, Bare, Whole, Only, RestorePending,
      Removing, dirs, history
<1>5. RestoreIsSound'
  BY DEF Inv, RestoreIsSound, Quit, Refuse, Bare, Only, Split, Half, RestorePending, dirs, history
<1>6. ClearIsSound'
  BY DEF Inv, ClearIsSound, Quit, Refuse, Bare, Split, Half, Removing, dirs, history
<1>7. GoneIsGone'
  BY DEF Inv, GoneIsGone, Quit, Refuse, Removing, loop, history
<1> QED
  BY <1>1, <1>2, <1>3, <1>4, <1>5, <1>6, <1>7 DEF Inv

(* The process is killed before any operation: the files and intents stay. *)
LEMMA KillInv ==
  ASSUME Inv, Kill
  PROVE  Inv'
<1>1. TypeOK'
  <2>1. crashes' \in 0 .. MaxCrashes
    BY BoundAssumption DEF Inv, TypeOK, Kill
  <2> QED
    BY <2>1 DEF Inv, TypeOK, Steps, Kill, Refuse, dirs, loop, history
<1>2. ProcessIsSound'
  BY DEF Inv, ProcessIsSound, Kill, Refuse, OneIntent, RunningSteps, StartSteps, dirs
<1>3. RoomIsKept'
  BY DEF Inv, RoomIsKept, Kill, Refuse, ClearPending, history
<1>4. LibraryIsSound'
  BY DEF Inv, TypeOK, RoomIsKept, LibraryIsSound, Kill, Refuse, Bare, Whole, Only, RestorePending,
      ClearPending, Removing, dirs, history
<1>5. RestoreIsSound'
  BY DEF Inv, RestoreIsSound, Kill, Refuse, Bare, Only, Split, Half, RestorePending, dirs, history
<1>6. ClearIsSound'
  BY DEF Inv, ClearIsSound, Kill, Refuse, Bare, Split, Half, Removing, dirs, history
<1>7. GoneIsGone'
  BY DEF Inv, GoneIsGone, Kill, Refuse, Removing, loop, history
<1> QED
  BY <1>1, <1>2, <1>3, <1>4, <1>5, <1>6, <1>7 DEF Inv

(* Nothing changes.                                                        *)
LEMMA IdleInv ==
  ASSUME Inv, UNCHANGED vars
  PROVE  Inv'
<1>1. TypeOK' /\ ProcessIsSound' /\ RoomIsKept'
  BY DEF Inv, TypeOK, ProcessIsSound, OneIntent, Removing, RoomIsKept, ClearPending,
         vars, dirs, process, loop, history, bounds
<1>2. LibraryIsSound'
  BY DEF Inv, LibraryIsSound, RestorePending, ClearPending, Removing, Bare, Whole, Only,
         vars, dirs, process, history
<1>3. RestoreIsSound' /\ ClearIsSound'
  BY DEF Inv, RestoreIsSound, ClearIsSound, RestorePending, Removing, Bare, Only, Split, Half,
         vars, dirs, process, history
<1>4. GoneIsGone'
  BY DEF Inv, GoneIsGone, Removing, vars, process, loop, history
<1> QED
  BY <1>1, <1>2, <1>3, <1>4 DEF Inv

(* Every step keeps the invariant.                                         *)
LEMMA Preserved == Inv /\ [Next]_vars => Inv'
<1> SUFFICES ASSUME Inv, [Next]_vars
             PROVE  Inv'
  OBVIOUS
<1>1. CASE \E k \in Keys : SaveCredential(k)
  BY <1>1, SaveCredentialInv
<1>2. CASE BeginRestore \/ BeginClear \/ CreateControl
  BY <1>2, BeginRestoreInv, BeginClearInv, OpenRestoreInv, OpenClearInv DEF CreateControl
<1>3. CASE StageRestore
  BY <1>3, CreateStageInv, StageDataInv, StageFailsInv, WriteRestoreIntentInv, NameRestoreIntentInv,
     NameRestoreFailsInv, UndoStageInv DEF StageRestore
<1>4. CASE ClearAllData
  BY <1>4, CollectTargetsInv, CollectFailsInv, WriteClearIntentInv, NameClearIntentInv DEF ClearAllData
<1>5. CASE DeleteCredentials
  BY <1>5, DeleteCredentialInv, DeleteFailsInv, CredentialCleanupRequiredInv, CredentialsClearedInv
     DEF DeleteCredentials
<1>6. CASE RecoverPendingClear
  BY <1>6, RecoverClearInv, TrashUnitInv, RemoveTrashInv, LocalStagedInv, RemoveClearIntentInv,
     RemoveClearControlInv DEF RecoverPendingClear
<1>7. CASE RecoverPendingRestore
  BY <1>7, RecoverRestoreInv, CreateRollbackInv, StageOldInv, InstallNewInv, RemoveRollbackInv,
      OldStagedInv,
     NewInstalledInv, FinalizingInv, RemoveRollbackRootInv, RemoveStageInv, RemoveRestoreIntentInv,
     RemoveRestoreControlInv DEF RecoverPendingRestore
<1>8. CASE Start \/ OpenData \/ Quit \/ Kill
  BY <1>8, StartInv, OpenDataInv, QuitInv, KillInv
<1>9. CASE UNCHANGED vars
  BY <1>9, IdleInv
<1> QED
  BY <1>1, <1>2, <1>3, <1>4, <1>5, <1>6, <1>7, <1>8, <1>9 DEF Next, Startup

(* The invariant holds in every state of every behaviour.                  *)
LEMMA Invariance == Spec => []Inv
BY Initially, Preserved, PTL DEF Spec

-----------------------------------------------------------------------------
(* The variables keep their types; in particular the number of a data set  *)
(* never becomes the one that stands for none.                             *)
THEOREM TypeCorrect == Spec => []TypeOK
<1>1. Inv => TypeOK
  BY DEF Inv
<1> QED
  BY <1>1, Invariance, PTL

(* However often a restore or a clear-all is killed and resumed, the       *)
(* application runs on one data set, and until the swap is done the old    *)
(* set and the new one are each whole, in two places together; a pending   *)
(* clear and a pending restore never meet.                                 *)
THEOREM SwapsAreWhole == Spec => []OneDataSet
<1>1. ASSUME Inv, app = "up"
      PROVE  Whole("root", current)
  <2>1. intent["restore"] \in {"none", "temp", "prepared"} /\ intent["clear"] # "local-staged" /\ OneIntent
    BY <1>1 DEF Inv, ProcessIsSound
  <2>2. CASE ~RestorePending /\ ~Removing
    BY <1>1, <2>2 DEF Inv, LibraryIsSound
  <2>3. CASE intent["restore"] = "prepared"
    <3>1. Split("root", "rollback", current) /\ Bare("rollback")
      BY <1>1, <2>3 DEF Inv, RestoreIsSound
    <3> QED
      BY <3>1, WholeIsSplit
  <2>4. CASE intent["clear"] = "ready"
    <3>1. Split("root", "trash", current) /\ Bare("trash")
      BY <1>1, <2>4 DEF Inv, ClearIsSound
    <3> QED
      BY <3>1, WholeIsSplit
  <2> QED
    BY <2>1, <2>2, <2>3, <2>4 DEF RestorePending, RestorePhase, Removing
<1>2. Inv => RunsOnOneSet
  BY <1>1 DEF RunsOnOneSet, Whole, Units
<1>3. ASSUME Inv, RestorePending
      PROVE  /\ intent["restore"] \in {"prepared", "old-staged"} =>
                  \A u \in Required : current \in {place["root"][u], place["rollback"][u]}
             /\ \A u \in Required : made \in {place["root"][u], place["staged"][u]}
  <2>1. CASE intent["restore"] = "prepared"
    BY <1>3, <2>1 DEF Inv, RestoreIsSound, Only, Split, Half
  <2>2. CASE intent["restore"] = "old-staged"
    BY <1>3, <2>2 DEF Inv, RestoreIsSound, Half
  <2>3. CASE intent["restore"] \in {"new-installed", "finalizing"}
    BY <1>3, <2>3 DEF Inv, RestoreIsSound, Only
  <2> QED
    BY <1>3, <2>1, <2>2, <2>3 DEF RestorePending, RestorePhase
<1>4. ASSUME Inv, RestorePending
      PROVE  made \in Sets \ {current, Absent}
  BY <1>4, BoundAssumption DEF Inv, TypeOK, RestoreIsSound, Sets, Absent
<1>5. Inv => BothSetsAreWhole
  BY <1>3, <1>4 DEF BothSetsAreWhole
<1>6. Inv => OneIntent
  BY DEF Inv, ProcessIsSound
<1>7. Inv => OneDataSet
  BY <1>2, <1>5, <1>6 DEF OneDataSet
<1> QED
  BY <1>7, Invariance, PTL

(* What a clear-all has reported as gone never comes back, whatever is     *)
(* killed, saved or restored afterwards: no unit of a cleared data set is  *)
(* anywhere once the application runs again, and no cleared credential is  *)
(* in the vault unless the user has stored it again.                       *)
THEOREM ClearedIsGone == Spec => []ClearedStaysGone
<1>1. ASSUME Inv, app = "up", ~shut
      PROVE  \A p \in Spots, u \in Units : place[p][u] \notin cleared.sets
  <2>1. ~Removing
    BY <1>1 DEF Inv, ProcessIsSound, Removing
  <2> QED
    BY <1>1, <2>1 DEF Inv, GoneIsGone
<1>2. Inv => cleared.keys \intersect vault = {}
  BY DEF Inv, GoneIsGone
<1>3. Inv => ClearedStaysGone
  BY <1>1, <1>2 DEF ClearedStaysGone
<1> QED
  BY <1>3, Invariance, PTL

-----------------------------------------------------------------------------
(***************************************************************************)
(* Imports (BookImport): for any books, sources, calls and restarts, the   *)
(* types, and that a ready book is whole (ReadyBookIsWhole) as long as no  *)
(* two retries of one book are under way at once (RetriesComeAlone).       *)
(*                                                                         *)
(* The argument: one flow of a book is at work (OneAtWork) and keeps the   *)
(* book's attempt until it has ended, or is cancelled.  So the copy under  *)
(* way is its own, and the source and the derived document it has checked  *)
(* or written stay where they are; only a call that has taken the attempt  *)
(* removes them, and it is then about to fail the row (Doomed).  A row     *)
(* that is neither gone nor doomed has what its status claims, and the one *)
(* step to "ready" finds all of it.  Each step changes one book; what it   *)
(* leaves to the other flows of that book is said once (OthersStay), and a *)
(* lemma per step says the rest.                                           *)
(***************************************************************************)

\* Where a call only ends: it has not started, it fails, reports or cancels.
CancelSteps == {"cancel", "cancelcopy", "cancelparse", "cancelcopied", "cancelparsed"}
EndingSteps == {"failed", "markfailed", "undo", "report", "reporting", "abort", "done"} \union CancelSteps
ImportSteps == {"idle"} \union OpeningSteps \union WindowSteps \union EndingSteps

CopySteps == {"inserted", "registered", "prepare", "replace", "copy", "copying", "rename", "claim"}

---------------------------------------------------------------------------
(* The inductive invariant                                                 *)

\* The locations, and what a started call has.
CallsHaveBooks ==
  /\ pc \in [Procs -> ImportSteps]
  /\ \A p \in Users : pc[p] \in {"idle", "done"} \union CancelSteps
  /\ \A p \in Procs : pc[p] # "idle" => book[p] \in Books
  /\ source \in [Flows -> Sources \union {None}]
  /\ running \in SUBSET Flows
  /\ \A f \in Flows : pc[f] \in CopySteps => source[f] \in Sources
  /\ \A b \in Books : \A f \in {dir[b].partial, dir[b].original} \ {None} : pc[f] # "idle"

\* One flow of a book is at work, and one runs in the window.
OneAtWork ==
  /\ \A f, g \in Flows : f # g /\ book[f] = book[g] /\ AtWork(f) => ~AtWork(g)
  /\ \A f \in Flows : pc[f] \in WindowSteps \union {"undo", "report", "reporting"} => f \in running
  /\ \A f \in running : pc[f] \notin OpeningSteps \union {"idle"}
  /\ \A f, g \in running : f # g /\ book[f] = book[g] => pc[f] = "done" \/ pc[g] = "done"

\* A call that has removed the book's directory is about to fail its row.
Doomed(b) == \E p \in Procs : book[p] = b /\ pc[p] \in {"cancelcopied", "cancelparsed", "undo"}

Gone(b) == Status(b) \in {"none", "failed"}

\* The status a flow at work finds.
StatusFits(f) ==
  /\ pc[f] \in OpeningSteps \ {"created"} => Status(book[f]) \in {"none", "queued", "copying", "failed"}
  /\ pc[f] \in {"created", "read", "parse", "write", "wrote", "append", "final", "beginindexing"} =>
       Status(book[f]) \notin {"indexing", "ready"}
  /\ pc[f] \in {"index", "commit", "compensate", "report"} => Status(book[f]) # "ready"

\* A registered attempt keeps the book's lease, or is cancelled.
AttemptIsHeld(f) ==
  pc[f] \in {"registered", "copy", "copying", "rename", "claim", "reset", "created"} \union WindowSteps =>
    Owns(f) \/ f \in cancelled

\* The copy under way is the flow's own.
CopyIsOwn(f) ==
  /\ pc[f] \in {"copying", "rename"} => dir[book[f]].partial \in {None, f}
  /\ pc[f] \in {"rename", "claim"} => written[f]
  /\ pc[f] = "claim" => dir[book[f]].original = f \/ Doomed(book[f]) \/ Gone(book[f])

\* What a retry was checked against is still so, or it will be refused.
RetryIsSound(f) ==
  pc[f] \in {"checked", "reset"} =>
    row[book[f]].hash = None \/ Intact(book[f], row[book[f]].hash) \/ Doomed(book[f])

\* The derived text stays from its writing to the commit.
TextIsWritten(f) ==
  pc[f] \in {"wrote", "append", "final", "beginindexing", "index", "commit"} =>
    dir[book[f]].html \/ Doomed(book[f]) \/ Gone(book[f])

FlowIsSound(f) ==
  StatusFits(f) /\ AttemptIsHeld(f) /\ CopyIsOwn(f) /\ RetryIsSound(f) /\ TextIsWritten(f)

\* A claimed source is whole, and a ready book has its text.
BookIsSound(b) ==
  /\ Status(b) \in {"parsing", "indexing", "ready"} => Intact(b, row[b].hash) \/ Doomed(b) \/ b \in cut
  /\ Status(b) = "ready" => row[b].text /\ (dir[b].html \/ Doomed(b) \/ b \in cut)

CallsAreTyped == ImportTypeOK /\ CallsHaveBooks

ImportInv ==
  /\ CallsAreTyped /\ OneAtWork
  /\ \A f \in Flows : FlowIsSound(f)
  /\ \A b \in Books : BookIsSound(b)
---------------------------------------------------------------------------
(* A step of one call touches its own book.                                *)

\* What the other calls and the other books keep when p takes a step.
TouchesOwnBook(p) ==
  /\ \A q \in Procs \ {p} : pc'[q] = pc[q] /\ book'[q] = book[q]
  /\ book'[p] \in Books /\ (book'[p] = book[p] \/ pc[p] = "idle")
  /\ \A b \in Books \ {book'[p]} : row'[b] = row[b] /\ dir'[b] = dir[b] /\ active'[b] = active[b]
  /\ \A g \in Flows \ {p} : book[g] # book'[p] /\ g \in cancelled => g \in cancelled'
  /\ \A g \in Flows : written[g] => written'[g]
  /\ \A g \in Flows : source'[g] = source[g] \/ (g = p /\ pc[g] = "idle")
  /\ cut' = cut

\* A doomed book stays doomed while the call that dooms it waits.
LEMMA DoomStays ==
  ASSUME CallsAreTyped, NEW p \in Procs, TouchesOwnBook(p), NEW b \in Books, b # book'[p], Doomed(b)
  PROVE  Doomed(b)'
BY DEF Doomed, TouchesOwnBook

\* A whole source of another book stays whole.
LEMMA IntactStays ==
  ASSUME CallsAreTyped, NEW p \in Procs, TouchesOwnBook(p), NEW b \in Books, b # book'[p],
         NEW h, Intact(b, h)
  PROVE  Intact(b, h)'
<1>1. dir'[b] = dir[b] /\ dir[b].original \in Flows /\ pc[dir[b].original] # "idle"
  BY DEF TouchesOwnBook, Intact, CallsAreTyped, ImportTypeOK, CallsHaveBooks
<1>. QED  BY <1>1 DEF Intact, TouchesOwnBook

\* A flow of another book is as sound as before.
LEMMA OtherFlowsStay ==
  ASSUME CallsAreTyped, NEW p \in Procs, TouchesOwnBook(p),
         NEW g \in Flows, g # p, book[g] # book'[p], FlowIsSound(g)
  PROVE  FlowIsSound(g)'
<1>1. pc'[g] = pc[g] /\ book'[g] = book[g]
  BY DEF TouchesOwnBook, Procs
<1>2. CASE pc[g] = "idle"
  BY <1>1, <1>2 DEF FlowIsSound, StatusFits, AttemptIsHeld, CopyIsOwn, RetryIsSound, TextIsWritten,
     OpeningSteps, WindowSteps
<1>3. CASE pc[g] # "idle"
  <2>1. book[g] \in Books
    BY <1>3 DEF CallsAreTyped, CallsHaveBooks, Procs
  <2>2. row'[book[g]] = row[book[g]] /\ dir'[book[g]] = dir[book[g]] /\ active'[book[g]] = active[book[g]]
    BY <2>1 DEF TouchesOwnBook
  <2>3. Doomed(book[g]) => Doomed(book[g])'
    BY <1>1, <2>1, DoomStays DEF Doomed
  <2>4. Intact(book[g], row[book[g]].hash) => Intact(book[g], row[book[g]].hash)'
    BY <1>1, <2>1, <2>2, IntactStays DEF Intact
  <2>5. (g \in cancelled => g \in cancelled') /\ (written[g] => written'[g])
    BY DEF TouchesOwnBook
  <2>. QED
    BY <1>1, <2>2, <2>3, <2>4, <2>5
       DEF FlowIsSound, StatusFits, AttemptIsHeld, CopyIsOwn, RetryIsSound,
       TextIsWritten, Status, Gone, Owns
<1>. QED  BY <1>2, <1>3

\* Another book is as sound as before.
LEMMA OtherBooksStay ==
  ASSUME CallsAreTyped, NEW p \in Procs, TouchesOwnBook(p),
         NEW b \in Books, b # book'[p], BookIsSound(b)
  PROVE  BookIsSound(b)'
<1>1. row'[b] = row[b] /\ dir'[b] = dir[b] /\ cut' = cut
  BY DEF TouchesOwnBook
<1>2. Doomed(b) => Doomed(b)'
  BY DoomStays
<1>3. Intact(b, row[b].hash) => Intact(b, row[b].hash)'
  BY <1>1, IntactStays DEF Intact
<1>. QED  BY <1>1, <1>2, <1>3 DEF BookIsSound, Status

\* A book stays doomed while its caller does what it set out to.
LEMMA DoomStaysHere ==
  ASSUME NEW p \in Procs, TouchesOwnBook(p), book'[p] = book[p],
         pc[p] \notin {"cancelcopied", "cancelparsed", "undo"}, NEW b, Doomed(b)
  PROVE  Doomed(b)'
BY DEF Doomed, TouchesOwnBook

\* So the invariant is left to show of the call, of the other flows of its
\* book, and of the book.
LEMMA OwnBookSuffices ==
  ASSUME ImportInv, NEW p \in Procs, TouchesOwnBook(p), CallsAreTyped', OneAtWork',
         p \in Flows => FlowIsSound(p)',
         \A g \in Flows \ {p} : book[g] = book'[p] => FlowIsSound(g)',
         \A b \in Books : b = book'[p] => BookIsSound(b)'
  PROVE  ImportInv'
<1>1. \A g \in Flows : FlowIsSound(g)'
  BY OtherFlowsStay DEF ImportInv
<1>2. \A b \in Books : BookIsSound(b)'
  BY OtherBooksStay DEF ImportInv
<1>. QED  BY <1>1, <1>2 DEF ImportInv

\* The calls keep what a started call has.
LEMMA CallsStay ==
  ASSUME CallsAreTyped, NEW p \in Procs, TouchesOwnBook(p), pc' \in [Procs -> ImportSteps], pc'[p] # "idle",
         p \in Users => pc'[p] \in {"done"} \union CancelSteps,
         source' \in [Flows -> Sources \union {None}], running' \in SUBSET Flows,
         p \in Flows /\ pc'[p] \in CopySteps => source'[p] \in Sources,
         \A b \in Books : b = book'[p] =>
           {dir'[b].partial, dir'[b].original} \subseteq {None, dir[b].partial, dir[b].original, p}
  PROVE  CallsHaveBooks'
<1>1. \A q \in Procs \ {p} : pc'[q] = pc[q] /\ book'[q] = book[q]
  BY DEF TouchesOwnBook
<1>2. book'[p] \in Books /\ Users \subseteq Procs /\ Flows \subseteq Procs
  BY DEF TouchesOwnBook, Procs
<1>3. \A q \in Users : pc'[q] \in {"idle", "done"} \union CancelSteps
  BY <1>1, <1>2 DEF CallsAreTyped, CallsHaveBooks
<1>4. \A q \in Procs : pc'[q] # "idle" => book'[q] \in Books
  BY <1>1, <1>2 DEF CallsAreTyped, CallsHaveBooks
<1>5. \A f \in Flows : pc'[f] \in CopySteps => source'[f] \in Sources
  BY <1>1, <1>2 DEF CallsAreTyped, CallsHaveBooks, CopySteps, TouchesOwnBook
<1>6. ASSUME NEW b \in Books, NEW f \in {dir'[b].partial, dir'[b].original} \ {None}
      PROVE  pc'[f] # "idle"
  <2>1. f \in {dir[b].partial, dir[b].original, p}
    BY <1>6 DEF TouchesOwnBook
  <2>2. f = p \/ (f \in Procs /\ pc[f] # "idle")
    BY <1>2, <2>1 DEF CallsAreTyped, ImportTypeOK, CallsHaveBooks
  <2>. QED  BY <1>1, <2>2
<1>. QED  BY <1>3, <1>4, <1>5, <1>6 DEF CallsHaveBooks

\* A call that was at work alone, or stops working, leaves one at work.
LEMMA WorkStays ==
  ASSUME ImportInv, NEW p \in Procs, TouchesOwnBook(p), running' = running,
         p \in Flows => book'[p] = book[p] /\ (AtWork(p)' => AtWork(p)),
         pc'[p] \in WindowSteps \union {"undo", "report", "reporting"} => p \in running,
         p \in running => pc'[p] \notin OpeningSteps \union {"idle"},
         p \in running /\ pc[p] = "done" => pc'[p] = "done"
  PROVE  OneAtWork'
<1>1. \A q \in Flows : q # p => pc'[q] = pc[q] /\ book'[q] = book[q] /\ (AtWork(q)' <=> AtWork(q))
  BY DEF TouchesOwnBook, Procs, AtWork
<1>2. running \subseteq Flows
  BY DEF ImportInv, CallsAreTyped, CallsHaveBooks
<1>3. \A f, g \in Flows : f # g /\ book'[f] = book'[g] /\ AtWork(f)' => ~AtWork(g)'
  BY <1>1 DEF ImportInv, OneAtWork
<1>4. \A f \in Flows : pc'[f] \in WindowSteps \union {"undo", "report", "reporting"} => f \in running
  BY <1>1 DEF ImportInv, OneAtWork
<1>5. \A f \in running : pc'[f] \notin OpeningSteps \union {"idle"}
  BY <1>1, <1>2 DEF ImportInv, OneAtWork
<1>6. \A f, g \in running : f # g /\ book'[f] = book'[g] => pc'[f] = "done" \/ pc'[g] = "done"
  BY <1>1, <1>2 DEF ImportInv, OneAtWork
<1>. QED  BY <1>3, <1>4, <1>5, <1>6 DEF OneAtWork

\* What rows and directories are.
BookRows == [status : Statuses \union {"none"}, hash : Sources \union {None}, text : BOOLEAN]
BookFiles == [partial : Flows \union {None}, original : Flows \union {None}, html : BOOLEAN]

\* A row stays one when its status is written,
LEMMA StatusTyped ==
  ASSUME NEW r \in BookRows, NEW s \in Statuses
  PROVE  [r EXCEPT !.status = s] \in BookRows
BY DEF BookRows

\* or its status and what it says of its text,
LEMMA StatusTextTyped ==
  ASSUME NEW r \in BookRows, NEW s \in Statuses, NEW x \in BOOLEAN
  PROVE  [r EXCEPT !.status = s, !.text = x] \in BookRows
BY DEF BookRows

\* or its status and hash.
LEMMA StatusHashTyped ==
  ASSUME NEW r \in BookRows, NEW s \in Statuses, NEW h \in Sources
  PROVE  [r EXCEPT !.status = s, !.hash = h] \in BookRows
BY DEF BookRows

\* A directory stays one when its derived document comes or goes.
LEMMA FilesTyped ==
  ASSUME NEW d \in BookFiles
  PROVE  /\ NoFiles \in BookFiles
         /\ [d EXCEPT !.html = TRUE] \in BookFiles /\ [d EXCEPT !.html = FALSE] \in BookFiles
<1>1. NoFiles \in BookFiles
  BY DEF BookFiles, NoFiles
<1>2. [d EXCEPT !.html = TRUE] \in BookFiles /\ [d EXCEPT !.html = FALSE] \in BookFiles
  BY DEF BookFiles
<1>. QED  BY <1>1, <1>2

\* While a flow works, the other flows of its book are as sound as before.
LEMMA OthersStay ==
  ASSUME ImportInv, NEW f \in Flows, TouchesOwnBook(f), AtWork(f),
         f \in running \/ row'[book[f]].status # "ready"
  PROVE  \A g \in Flows \ {f} : book[g] = book'[f] => FlowIsSound(g)'
<1>. SUFFICES ASSUME NEW g \in Flows \ {f}, book[g] = book'[f] PROVE FlowIsSound(g)'
  OBVIOUS
<1>1. pc[f] # "idle" /\ pc[f] # "done" /\ book'[f] = book[f] /\ book[f] \in Books
  BY DEF TouchesOwnBook, AtWork, OpeningSteps, WindowSteps
<1>2. pc'[g] = pc[g] /\ book'[g] = book[g] /\ ~AtWork(g)
  BY <1>1 DEF TouchesOwnBook, Procs, ImportInv, OneAtWork
<1>3. pc[g] = "report" => row'[book[f]].status # "ready"
  BY <1>1 DEF ImportInv, OneAtWork
<1>. QED
  BY <1>1, <1>2, <1>3
     DEF FlowIsSound, StatusFits, AttemptIsHeld, CopyIsOwn, RetryIsSound, TextIsWritten,
     AtWork, OpeningSteps, WindowSteps, Status

\* A flow starts alone.
LEMMA WorkStarts ==
  ASSUME ImportInv, NEW f \in Flows, TouchesOwnBook(f), running' = running,
         pc[f] = "idle", pc'[f] \in OpeningSteps,
         \A g \in Flows : g # f /\ book[g] = book'[f] => ~AtWork(g)
  PROVE  OneAtWork'
<1>1. \A q \in Flows : q # f => pc'[q] = pc[q] /\ book'[q] = book[q] /\ (AtWork(q)' <=> AtWork(q))
  BY DEF TouchesOwnBook, Procs, AtWork
<1>2. running \subseteq Flows /\ f \notin running
  BY DEF ImportInv, CallsAreTyped, CallsHaveBooks, OneAtWork
<1>3. \A g, h \in Flows : g # h /\ book'[g] = book'[h] /\ AtWork(g)' => ~AtWork(h)'
  BY <1>1 DEF ImportInv, OneAtWork
<1>4. \A g \in Flows : pc'[g] \in WindowSteps \union {"undo", "report", "reporting"} => g \in running
  BY <1>1 DEF ImportInv, OneAtWork, OpeningSteps, WindowSteps
<1>5. \A g \in running : pc'[g] \notin OpeningSteps \union {"idle"}
  BY <1>1, <1>2 DEF ImportInv, OneAtWork
<1>6. \A g, h \in running : g # h /\ book'[g] = book'[h] => pc'[g] = "done" \/ pc'[h] = "done"
  BY <1>1, <1>2 DEF ImportInv, OneAtWork
<1>. QED  BY <1>3, <1>4, <1>5, <1>6 DEF OneAtWork

\* What the commit does to the row.
LEMMA FinalizeCommitRow ==
  ASSUME CallsAreTyped, NEW f \in Flows, book[f] \in Books, FinalizeCommit(f)
  PROVE  /\ row' \in [Books -> BookRows]
         /\ row'[book[f]].hash = row[book[f]].hash
         /\ \/ /\ Status(book[f]) = "indexing" /\ Status(book[f])' = "ready"
               /\ row'[book[f]].text /\ pc'[f] = "committed"
            \/ Status(book[f])' = "failed" /\ pc'[f] \in {"compensate", "report"}
            \/ row' = row /\ Status(book[f]) # "indexing" /\ pc'[f] \in {"compensate", "report"}
<1>0. /\ row \in [Books -> BookRows] /\ row[book[f]] \in BookRows
      /\ pc \in [Procs -> ImportSteps] /\ f \in Procs /\ book' = book
  BY DEF CallsAreTyped, ImportTypeOK, BookRows, CallsHaveBooks, Procs, FinalizeCommit
<1>1. CASE CommitIsValid(book[f])
  <2>1. [row[book[f]] EXCEPT !.status = "ready"] \in BookRows
    BY <1>0, StatusTyped DEF Statuses
  <2>. QED  BY <1>0, <1>1, <2>1 DEF FinalizeCommit, CommitIsValid, Status, SetStatus, GoTo, BookRows
<1>2. CASE ~CommitIsValid(book[f]) /\ Status(book[f]) = "indexing"
  <2>1. [row[book[f]] EXCEPT !.status = "failed", !.text = FALSE] \in BookRows
    BY <1>0, StatusTextTyped DEF Statuses
  <2>2. row' = [row EXCEPT ![book[f]] = [row[book[f]] EXCEPT !.status = "failed", !.text = FALSE]]
    BY <1>0, <1>2 DEF FinalizeCommit, Status, Fail, FailedWithSource
  <2>3. pc'[f] \in {"compensate", "report"}
    BY <1>0, <1>2 DEF FinalizeCommit, GoTo
  <2>. QED  BY <1>0, <2>1, <2>2, <2>3 DEF Status, BookRows
<1>3. CASE Status(book[f]) # "indexing"
  BY <1>0, <1>3 DEF FinalizeCommit, GoTo, CommitIsValid
<1>. QED  BY <1>1, <1>2, <1>3

\* What the start of the parsing does to the row.
LEMMA BeginParseRow ==
  ASSUME CallsAreTyped, NEW f \in Flows, book[f] \in Books, BeginParse(f)
  PROVE  /\ row' \in [Books -> BookRows]
         /\ row'[book[f]].hash = row[book[f]].hash
         /\ \/ Status(book[f]) \in {"parsing", "ready"} /\ Status(book[f])' = "parsing" /\ pc'[f] = "write"
            \/ row' = row /\ pc'[f] \in {"abort", "report"}
<1>0. /\ row \in [Books -> BookRows] /\ row[book[f]] \in BookRows
      /\ pc \in [Procs -> ImportSteps] /\ f \in Procs /\ book' = book
  BY DEF CallsAreTyped, ImportTypeOK, BookRows, CallsHaveBooks, Procs, BeginParse
<1>1. CASE /\ row' = [row EXCEPT ![book[f]] = Reparsed(book[f])] /\ pc' = [pc EXCEPT ![f] = "write"]
           /\ Status(book[f]) \in {"parsing", "ready"}
  <2>1. [row[book[f]] EXCEPT !.status = "parsing", !.text = FALSE] \in BookRows
    BY <1>0, StatusTextTyped DEF Statuses
  <2>. QED  BY <1>0, <1>1, <2>1 DEF Reparsed, Status, BookRows
<1>2. CASE row' = row /\ \E l \in {"abort", "report"} : pc' = [pc EXCEPT ![f] = l]
  BY <1>0, <1>2
<1>. QED  BY <1>1, <1>2 DEF BeginParse, GoTo

\* What the sections do to the row.
LEMMA AppendSectionsRow ==
  ASSUME CallsAreTyped, NEW f \in Flows, book[f] \in Books, AppendSections(f)
  PROVE  row' \in [Books -> BookRows]
<1>0. row \in [Books -> BookRows] /\ row[book[f]] \in BookRows
  BY DEF CallsAreTyped, ImportTypeOK, BookRows
<1>1. CASE row' = [row EXCEPT ![book[f]] = Appended(book[f])]
  <2>1. [row[book[f]] EXCEPT !.text = TRUE] \in BookRows
    BY <1>0 DEF BookRows
  <2>. QED  BY <1>0, <1>1, <2>1 DEF Appended
<1>2. CASE row' = row
  BY <1>0, <1>2
<1>. QED  BY <1>1, <1>2 DEF AppendSections

\* What the claim of the hash does to the row.
LEMMA ClaimHashRow ==
  ASSUME CallsAreTyped, NEW f \in Flows, book[f] \in Books, ClaimHash(f)
  PROVE  /\ row' \in [Books -> BookRows]
         /\ \/ /\ Status(book[f]) = "copying" /\ pc'[f] = "created"
               /\ Status(book[f])' = "parsing" /\ row'[book[f]].hash = source[f]
            \/ Status(book[f])' = "none" /\ row'[book[f]].hash = None /\ pc'[f] = "duplicate"
            \/ row' = row /\ pc'[f] = "copyfailed"
<1>0. /\ row \in [Books -> BookRows] /\ row[book[f]] \in BookRows
      /\ pc \in [Procs -> ImportSteps] /\ f \in Procs /\ source[f] \in Sources
  <2>1. row \in [Books -> BookRows] /\ row[book[f]] \in BookRows /\ pc \in [Procs -> ImportSteps] /\ f \in Procs
    BY DEF CallsAreTyped, ImportTypeOK, BookRows, CallsHaveBooks, Procs
  <2>2. source[f] \in Sources
    BY DEF CallsAreTyped, CallsHaveBooks, CopySteps, ClaimHash, At
  <2>. QED  BY <2>1, <2>2
<1>1. CASE Status(book[f]) = "copying" /\ ~Duplicate(book[f], source[f])
  <2>1. [row[book[f]] EXCEPT !.status = "parsing", !.hash = source[f]] \in BookRows
    BY <1>0, StatusHashTyped DEF Statuses
  <2>2. row' = [row EXCEPT ![book[f]] = [row[book[f]] EXCEPT !.status = "parsing", !.hash = source[f]]]
    BY <1>0, <1>1 DEF ClaimHash
  <2>3. pc'[f] = "created"
    BY <1>0, <1>1 DEF ClaimHash, GoTo
  <2>4. row' \in [Books -> BookRows]
    BY <1>0, <2>1, <2>2
  <2>5. row'[book[f]].status = "parsing" /\ row'[book[f]].hash = source[f] /\ book' = book
    BY <1>0, <2>2 DEF BookRows, ClaimHash
  <2>. QED  BY <1>1, <2>3, <2>4, <2>5 DEF Status
<1>2. CASE Status(book[f]) = "copying" /\ Duplicate(book[f], source[f])
  <2>1. NoRow \in BookRows /\ NoRow.status = "none" /\ NoRow.hash = None
    BY DEF NoRow, BookRows
  <2>2. row' = [row EXCEPT ![book[f]] = NoRow] /\ book' = book
    BY <1>2 DEF ClaimHash
  <2>. QED  BY <1>0, <1>2, <2>1, <2>2 DEF ClaimHash, Status, GoTo
<1>3. CASE Status(book[f]) # "copying"
  BY <1>0, <1>3 DEF ClaimHash, GoTo
<1>. QED  BY <1>1, <1>2, <1>3


---------------------------------------------------------------------------
(* One action after the other: it keeps the types and the locations and    *)
(* touches its own book only (Typed), and it keeps the invariant (IsSound).*)

\* BeginImport: the types, the locations, and what it touches.
LEMMA BeginImportTyped ==
  ASSUME CallsAreTyped, NEW f \in Flows, NEW b \in Books, NEW s \in Sources, BeginImport(f, b, s)
  PROVE  CallsAreTyped' /\ f \in Procs /\ b \in Books /\ TouchesOwnBook(f)
<1>1. f \in Procs /\ b \in Books
  BY DEF Procs
<1>2. TouchesOwnBook(f)
  BY <1>1 DEF TouchesOwnBook, CallsAreTyped, ImportTypeOK, BeginImport, At, GoTo, Window
<1>3. ImportTypeOK'
  BY <1>1, <1>2, ImportAssumption
     DEF CallsAreTyped, ImportTypeOK, BeginImport, Status, NoRow, Window, Statuses
<1>4. CallsHaveBooks'
  BY <1>1, <1>2, ImportAssumption, CallsStay
     DEF CallsAreTyped, CallsHaveBooks, BeginImport, GoTo, Window, OpeningSteps, ImportSteps
<1>. QED  BY <1>1, <1>2, <1>3, <1>4 DEF CallsAreTyped

\* BeginImport: a new book has no other flow, no files and no hash.
LEMMA BeginImportIsSound ==
  ASSUME ImportInv, NEW f \in Flows, NEW b \in Books, NEW s \in Sources, BeginImport(f, b, s)
  PROVE  ImportInv'
<1>1. f \in Procs /\ b \in Books /\ TouchesOwnBook(f)
  BY BeginImportTyped DEF ImportInv
<1>3. OneAtWork'
  <2>1. running' = running /\ pc[f] = "idle" /\ pc'[f] = "inserted"
    BY <1>1 DEF BeginImport, GoTo, At, Window, ImportInv, CallsAreTyped, CallsHaveBooks
  <2>2. \A g \in Flows : g # f /\ book[g] = book'[f] => ~AtWork(g)
    BY <1>1 DEF BeginImport, ImportInv, CallsAreTyped, ImportTypeOK
  <2>. QED  BY <1>1, <2>1, <2>2, WorkStarts DEF OpeningSteps
<1>4. \A g \in Flows \ {f} : book[g] = book'[f] => FlowIsSound(g)'
  BY <1>1
     DEF ImportInv, CallsAreTyped, CallsHaveBooks, TouchesOwnBook, FlowIsSound, StatusFits,
         AttemptIsHeld, CopyIsOwn, RetryIsSound, TextIsWritten, Doomed, Gone, Status, Owns, Intact,
         BeginImport, At, NoRow, GoTo, Window
<1>5. FlowIsSound(f)'
  BY <1>1
     DEF ImportInv, CallsAreTyped, ImportTypeOK, WindowSteps, FlowIsSound, StatusFits,
         AttemptIsHeld, CopyIsOwn, RetryIsSound, TextIsWritten, Status, BeginImport, At, GoTo,
         Window
<1>6. \A c \in Books : c = book'[f] => BookIsSound(c)'
  BY <1>1
     DEF ImportInv, CallsAreTyped, CallsHaveBooks, BookIsSound, Doomed, Status, Intact,
         BeginImport, At, GoTo, Window
<1>. QED  BY <1>1, <1>3, <1>4, <1>5, <1>6, BeginImportTyped, OwnBookSuffices DEF ImportInv

\* RegisterImport: the types, the locations, and what it touches.
LEMMA RegisterImportTyped ==
  ASSUME CallsAreTyped, NEW f \in Flows, RegisterImport(f)
  PROVE  CallsAreTyped' /\ f \in Procs /\ book[f] \in Books /\ pc[f] # "idle" /\ TouchesOwnBook(f)
<1>1. f \in Procs /\ book[f] \in Books /\ pc[f] # "idle"
  BY DEF CallsAreTyped, CallsHaveBooks, Procs, RegisterImport, At
<1>2. TouchesOwnBook(f)
  BY <1>1 DEF TouchesOwnBook, RegisterImport, Register, GoTo, Files, Window
<1>3. ImportTypeOK'
  <2>1. row' \in [Books -> BookRows]
    BY <1>1 DEF CallsAreTyped, ImportTypeOK, RegisterImport, BookRows
  <2>2. dir' \in [Books -> BookFiles]
    BY <1>1 DEF CallsAreTyped, ImportTypeOK, RegisterImport, Files, BookFiles
  <2>3. \A c \in Books :
          /\ Status(c)' \in {"none", "queued", "copying"} => row'[c].hash = None
          /\ Status(c)' \in {"parsing", "indexing", "ready"} => row'[c].hash # None
    BY <1>1, <1>2, ImportAssumption DEF CallsAreTyped, ImportTypeOK, Status, RegisterImport
  <2>4. active' \in [Books -> Flows \union {None}] /\ cancelled' \subseteq Flows
    BY <1>1 DEF CallsAreTyped, ImportTypeOK, RegisterImport, Register
  <2>5. book' \in [Procs -> Books \union {None}] /\ written' \in [Flows -> BOOLEAN] /\ restarts' \in 0..MaxRestarts
    BY <1>1 DEF CallsAreTyped, ImportTypeOK, RegisterImport, Files, Window
  <2>. QED  BY <2>1, <2>2, <2>3, <2>4, <2>5 DEF ImportTypeOK, BookRows, BookFiles
<1>4. CallsHaveBooks'
  BY <1>1, <1>2, ImportAssumption, CallsStay
     DEF CallsAreTyped, CallsHaveBooks, CopySteps, RegisterImport, At, GoTo, Files, Window,
         OpeningSteps, ImportSteps
<1>. QED  BY <1>1, <1>2, <1>3, <1>4 DEF CallsAreTyped

\* RegisterImport: the flow holds the attempt of its book, which no flow at
\* work had.
LEMMA RegisterImportIsSound ==
  ASSUME ImportInv, NEW f \in Flows, RegisterImport(f)
  PROVE  ImportInv'
<1>1. f \in Procs /\ book[f] \in Books /\ pc[f] # "idle" /\ TouchesOwnBook(f)
  BY RegisterImportTyped DEF ImportInv
<1>2. AtWork(f)
  BY DEF RegisterImport, At, AtWork, OpeningSteps
<1>3. OneAtWork'
  BY <1>1, <1>2, ImportAssumption, WorkStays
     DEF ImportInv, OneAtWork, OpeningSteps, WindowSteps, RegisterImport, At, GoTo, Window
<1>4. \A g \in Flows \ {f} : book[g] = book'[f] => FlowIsSound(g)'
  BY <1>1, <1>2, OthersStay
     DEF ImportInv, WindowSteps, AtWork, FlowIsSound, StatusFits, Status, RegisterImport, At
<1>5. FlowIsSound(f)'
  BY <1>1, <1>2
     DEF ImportInv, CallsAreTyped, ImportTypeOK, OpeningSteps, FlowIsSound, StatusFits,
         AttemptIsHeld, CopyIsOwn, RetryIsSound, TextIsWritten, Status, Owns, RegisterImport, At,
         Register, GoTo, Files, Window
<1>6. \A c \in Books : c = book'[f] => BookIsSound(c)'
  BY <1>1, <1>2
     DEF ImportInv, BookIsSound, Doomed, Status, Intact, RegisterImport, At, GoTo, Files, Window
<1>. QED  BY <1>1, <1>3, <1>4, <1>5, <1>6, RegisterImportTyped, OwnBookSuffices DEF ImportInv

\* StartCopying: the types, the locations, and what it touches.
LEMMA StartCopyingTyped ==
  ASSUME CallsAreTyped, NEW f \in Flows, StartCopying(f)
  PROVE  CallsAreTyped' /\ f \in Procs /\ book[f] \in Books /\ pc[f] # "idle" /\ TouchesOwnBook(f)
<1>1. f \in Procs /\ book[f] \in Books /\ pc[f] # "idle"
  BY DEF CallsAreTyped, CallsHaveBooks, Procs, StartCopying, At
<1>2. TouchesOwnBook(f)
  BY <1>1
     DEF TouchesOwnBook, CallsAreTyped, ImportTypeOK, CallsHaveBooks, StartCopying, SetStatus,
         GoTo, Take, Files, Window
<1>3. ImportTypeOK'
  <2>1. row' \in [Books -> BookRows]
    <3>1. row[book[f]] \in BookRows /\ row \in [Books -> BookRows]
      BY <1>1 DEF CallsAreTyped, ImportTypeOK, BookRows
    <3>2. row'[book[f]] \in BookRows
      BY <1>1, <3>1 DEF StartCopying, SetStatus, Statuses, BookRows
    <3>3. row' = [row EXCEPT ![book[f]] = row'[book[f]]]
      BY <1>1, <3>1 DEF StartCopying, SetStatus
    <3>. QED  BY <3>1, <3>2, <3>3
  <2>2. dir' \in [Books -> BookFiles]
    BY <1>1 DEF CallsAreTyped, ImportTypeOK, StartCopying, Files, BookFiles
  <2>3. \A c \in Books :
          /\ Status(c)' \in {"none", "queued", "copying"} => row'[c].hash = None
          /\ Status(c)' \in {"parsing", "indexing", "ready"} => row'[c].hash # None
    BY <1>1, <1>2, ImportAssumption
       DEF CallsAreTyped, ImportTypeOK, TouchesOwnBook, Status, StartCopying, SetStatus
  <2>4. active' \in [Books -> Flows \union {None}] /\ cancelled' \subseteq Flows
    BY <1>1 DEF CallsAreTyped, ImportTypeOK, StartCopying, Take
  <2>5. book' \in [Procs -> Books \union {None}] /\ written' \in [Flows -> BOOLEAN] /\ restarts' \in 0..MaxRestarts
    BY <1>1 DEF CallsAreTyped, ImportTypeOK, StartCopying, Files, Window
  <2>. QED  BY <2>1, <2>2, <2>3, <2>4, <2>5 DEF ImportTypeOK, BookRows, BookFiles
<1>4. CallsHaveBooks'
  <2>1. pc' \in [Procs -> ImportSteps] /\ pc'[f] # "idle" /\ (f \in Users => pc'[f] \in {"done"} \union CancelSteps)
    BY <1>1, ImportAssumption
       DEF CallsAreTyped, CallsHaveBooks, StartCopying, GoTo, OpeningSteps, EndingSteps, ImportSteps
  <2>2. source' \in [Flows -> Sources \union {None}] /\ running' \in SUBSET Flows
    BY <1>1 DEF CallsAreTyped, CallsHaveBooks, StartCopying, Files, Window
  <2>3. f \in Flows /\ pc'[f] \in CopySteps => source'[f] \in Sources
    BY <1>1 DEF CallsAreTyped, CallsHaveBooks, CopySteps, StartCopying, At, Files
  <2>4. \A c \in Books : c = book'[f] =>
          {dir'[c].partial, dir'[c].original} \subseteq {None, dir[c].partial, dir[c].original, f}
    BY <1>1 DEF StartCopying, Files
  <2>. QED  BY <1>1, <1>2, <2>1, <2>2, <2>3, <2>4, CallsStay
<1>. QED  BY <1>1, <1>2, <1>3, <1>4 DEF CallsAreTyped

\* StartCopying: a row that is no longer queued ends the import; its attempt
\* goes with it.
LEMMA StartCopyingIsSound ==
  ASSUME ImportInv, NEW f \in Flows, StartCopying(f)
  PROVE  ImportInv'
<1>1. f \in Procs /\ book[f] \in Books /\ pc[f] # "idle" /\ TouchesOwnBook(f)
  BY StartCopyingTyped DEF ImportInv
<1>2. AtWork(f)
  BY DEF StartCopying, At, AtWork, OpeningSteps
<1>3. OneAtWork'
  <2>1. running' = running /\ book'[f] = book[f]
    BY <1>1, <1>2, ImportAssumption DEF StartCopying, Window
  <2>2. f \in Flows => (AtWork(f)' => AtWork(f))
    BY <1>1, <1>2
  <2>3. pc'[f] \in WindowSteps \union {"undo", "report", "reporting"} => f \in running
    BY <1>1, <1>2 DEF ImportInv, CallsAreTyped, CallsHaveBooks, StartCopying, GoTo, WindowSteps
  <2>4. f \in running => pc[f] # "done" /\ pc'[f] \notin OpeningSteps \union {"idle"}
    BY <1>1, <1>2 DEF ImportInv, OneAtWork, StartCopying, At, OpeningSteps
  <2>. QED  BY <1>1, <2>1, <2>2, <2>3, <2>4, WorkStays
<1>4. \A g \in Flows \ {f} : book[g] = book'[f] => FlowIsSound(g)'
  BY <1>1, <1>2, OthersStay
     DEF ImportInv, CallsAreTyped, ImportTypeOK, WindowSteps, AtWork, FlowIsSound, StatusFits,
         Status, StartCopying, At, SetStatus
<1>5. FlowIsSound(f)'
  BY <1>1, <1>2
     DEF ImportInv, CallsAreTyped, ImportTypeOK, CallsHaveBooks, OpeningSteps, WindowSteps,
         FlowIsSound, StatusFits, AttemptIsHeld, CopyIsOwn, RetryIsSound, TextIsWritten, Status,
         Owns, StartCopying, At, SetStatus, GoTo, Take, Files, Window
<1>6. \A c \in Books : c = book'[f] => BookIsSound(c)'
  BY <1>1, <1>2
     DEF ImportInv, CallsAreTyped, ImportTypeOK, OpeningSteps, FlowIsSound, StatusFits,
         BookIsSound, Status, StartCopying, At, SetStatus, GoTo, Take, Files, Window
<1>. QED  BY <1>1, <1>3, <1>4, <1>5, <1>6, StartCopyingTyped, OwnBookSuffices DEF ImportInv

\* BeginReplacement: the types, the locations, and what it touches.
LEMMA BeginReplacementTyped ==
  ASSUME CallsAreTyped, NEW f \in Flows, NEW b \in Books, NEW s \in Sources, BeginReplacement(f, b, s)
  PROVE  CallsAreTyped' /\ f \in Procs /\ b \in Books /\ TouchesOwnBook(f)
<1>1. f \in Procs /\ b \in Books
  BY DEF Procs
<1>2. TouchesOwnBook(f)
  BY <1>1 DEF TouchesOwnBook, CallsAreTyped, ImportTypeOK, BeginReplacement, At, GoTo, Window
<1>3. ImportTypeOK'
  BY <1>1, <1>2, ImportAssumption DEF CallsAreTyped, ImportTypeOK, BeginReplacement, Status, Window
<1>4. CallsHaveBooks'
  BY <1>1, <1>2, ImportAssumption, CallsStay
     DEF CallsAreTyped, CallsHaveBooks, BeginReplacement, GoTo, Window, OpeningSteps, ImportSteps
<1>. QED  BY <1>1, <1>2, <1>3, <1>4 DEF CallsAreTyped

\* BeginReplacement: the book has failed and nothing else changes yet.
LEMMA BeginReplacementIsSound ==
  ASSUME ImportInv, RetriesComeAlone', NEW f \in Flows, NEW b \in Books, NEW s \in Sources, BeginReplacement(f, b, s)
  PROVE  ImportInv'
<1>1. f \in Procs /\ b \in Books /\ TouchesOwnBook(f)
  BY BeginReplacementTyped DEF ImportInv
<1>3. OneAtWork'
  <2>1. running' = running /\ pc[f] = "idle" /\ pc'[f] = "prepare"
    BY <1>1 DEF BeginReplacement, GoTo, At, Window, ImportInv, CallsAreTyped, CallsHaveBooks
  <2>2. \A g \in Flows : g # f /\ book[g] = book'[f] => ~AtWork(g)
    BY <1>1, <2>1 DEF RetriesComeAlone, AtWork, TouchesOwnBook, Procs
  <2>. QED  BY <1>1, <2>1, <2>2, WorkStarts DEF OpeningSteps
<1>4. \A g \in Flows \ {f} : book[g] = book'[f] => FlowIsSound(g)'
  BY <1>1
     DEF ImportInv, CallsAreTyped, CallsHaveBooks, TouchesOwnBook, FlowIsSound, StatusFits,
         AttemptIsHeld, CopyIsOwn, RetryIsSound, TextIsWritten, Doomed, Gone, Status, Owns, Intact,
         BeginReplacement, At, GoTo, Window
<1>5. FlowIsSound(f)'
  BY <1>1
     DEF ImportInv, CallsAreTyped, ImportTypeOK, WindowSteps, FlowIsSound, StatusFits,
         AttemptIsHeld, CopyIsOwn, RetryIsSound, TextIsWritten, Status, BeginReplacement, At, GoTo
<1>6. \A c \in Books : c = book'[f] => BookIsSound(c)'
  BY <1>1
     DEF ImportInv, CallsAreTyped, CallsHaveBooks, BookIsSound, Doomed, Status, Intact,
         BeginReplacement, At, GoTo, Window
<1>. QED  BY <1>1, <1>3, <1>4, <1>5, <1>6, BeginReplacementTyped, OwnBookSuffices DEF ImportInv

\* PrepareReplacement: the types, the locations, and what it touches.
LEMMA PrepareReplacementTyped ==
  ASSUME CallsAreTyped, NEW f \in Flows, PrepareReplacement(f)
  PROVE  CallsAreTyped' /\ f \in Procs /\ book[f] \in Books /\ pc[f] # "idle" /\ TouchesOwnBook(f)
<1>1. f \in Procs /\ book[f] \in Books /\ pc[f] # "idle"
  BY DEF CallsAreTyped, CallsHaveBooks, Procs, PrepareReplacement, At
<1>2. TouchesOwnBook(f)
  BY <1>1
     DEF TouchesOwnBook, CallsAreTyped, ImportTypeOK, CallsHaveBooks, PrepareReplacement, GoTo,
         Files, Window
<1>3. ImportTypeOK'
  <2>1. row' \in [Books -> BookRows]
    <3>1. row \in [Books -> BookRows] /\ row[book[f]] \in BookRows
      BY <1>1 DEF CallsAreTyped, ImportTypeOK, BookRows
    <3>2. [row[book[f]] EXCEPT !.status = "copying", !.hash = None] \in BookRows
      BY <3>1 DEF BookRows, Statuses
    <3>3. row' = row \/ row' = [row EXCEPT ![book[f]] = [row[book[f]] EXCEPT !.status = "copying", !.hash = None]]
      BY <1>1, <3>1 DEF PrepareReplacement
    <3>. QED  BY <3>1, <3>2, <3>3
  <2>2. dir' \in [Books -> BookFiles]
    BY <1>1 DEF CallsAreTyped, ImportTypeOK, PrepareReplacement, Files, BookFiles
  <2>3. \A c \in Books :
          /\ Status(c)' \in {"none", "queued", "copying"} => row'[c].hash = None
          /\ Status(c)' \in {"parsing", "indexing", "ready"} => row'[c].hash # None
    BY <1>1, <1>2, ImportAssumption
       DEF CallsAreTyped, ImportTypeOK, Status, PrepareReplacement, Window
  <2>4. active' \in [Books -> Flows \union {None}] /\ cancelled' \subseteq Flows
    BY <1>1 DEF CallsAreTyped, ImportTypeOK, PrepareReplacement
  <2>5. book' \in [Procs -> Books \union {None}] /\ written' \in [Flows -> BOOLEAN] /\ restarts' \in 0..MaxRestarts
    BY <1>1 DEF CallsAreTyped, ImportTypeOK, PrepareReplacement, Files, Window
  <2>. QED  BY <2>1, <2>2, <2>3, <2>4, <2>5 DEF ImportTypeOK, BookRows, BookFiles
<1>4. CallsHaveBooks'
  <2>1. pc' \in [Procs -> ImportSteps] /\ pc'[f] # "idle" /\ (f \in Users => pc'[f] \in {"done"} \union CancelSteps)
    BY <1>1, ImportAssumption
       DEF CallsAreTyped, CallsHaveBooks, PrepareReplacement, GoTo, OpeningSteps, EndingSteps,
           ImportSteps
  <2>2. source' \in [Flows -> Sources \union {None}] /\ running' \in SUBSET Flows
    BY <1>1 DEF CallsAreTyped, CallsHaveBooks, PrepareReplacement, Files, Window
  <2>3. f \in Flows /\ pc'[f] \in CopySteps => source'[f] \in Sources
    BY <1>1 DEF CallsAreTyped, CallsHaveBooks, CopySteps, PrepareReplacement, At, Files
  <2>4. \A c \in Books : c = book'[f] =>
          {dir'[c].partial, dir'[c].original} \subseteq {None, dir[c].partial, dir[c].original, f}
    BY <1>1 DEF PrepareReplacement, Files
  <2>. QED  BY <1>1, <1>2, <2>1, <2>2, <2>3, <2>4, CallsStay
<1>. QED  BY <1>1, <1>2, <1>3, <1>4 DEF CallsAreTyped

\* PrepareReplacement: the hash goes with the status: the old source is no
\* longer claimed.
LEMMA PrepareReplacementIsSound ==
  ASSUME ImportInv, NEW f \in Flows, PrepareReplacement(f)
  PROVE  ImportInv'
<1>1. f \in Procs /\ book[f] \in Books /\ pc[f] # "idle" /\ TouchesOwnBook(f)
  BY PrepareReplacementTyped DEF ImportInv
<1>2. AtWork(f)
  BY DEF PrepareReplacement, At, AtWork, OpeningSteps
<1>3. OneAtWork'
  BY <1>1, <1>2, ImportAssumption, WorkStays
     DEF ImportInv, CallsAreTyped, CallsHaveBooks, OneAtWork, WindowSteps, CancelSteps,
         EndingSteps, ImportSteps, PrepareReplacement, At, GoTo, Window
<1>4. \A g \in Flows \ {f} : book[g] = book'[f] => FlowIsSound(g)'
  <2>. SUFFICES ASSUME NEW g \in Flows \ {f}, book[g] = book'[f] PROVE FlowIsSound(g)'
    OBVIOUS
  <2>1. g \in Procs /\ pc'[g] = pc[g] /\ book'[g] = book[g] /\ FlowIsSound(g)
    BY <1>1 DEF TouchesOwnBook, Procs, ImportInv
  <2>2. StatusFits(g)'
    BY <1>1, <1>2, <2>1
       DEF ImportInv, CallsAreTyped, ImportTypeOK, FlowIsSound, StatusFits, Status,
           PrepareReplacement
  <2>3. AttemptIsHeld(g)'
    BY <1>1, <1>2, <2>1 DEF FlowIsSound, AttemptIsHeld, Owns, PrepareReplacement
  <2>4. CopyIsOwn(g)'
    BY <1>1, <1>2, <2>1
       DEF ImportInv, OneAtWork, AtWork, OpeningSteps, CopyIsOwn, PrepareReplacement
  <2>5. RetryIsSound(g)'
    BY <1>1, <1>2, <2>1
       DEF ImportInv, OneAtWork, AtWork, OpeningSteps, RetryIsSound, PrepareReplacement
  <2>6. TextIsWritten(g)'
    BY <1>1, <1>2, <2>1
       DEF ImportInv, OneAtWork, AtWork, WindowSteps, TextIsWritten, PrepareReplacement
  <2>. QED  BY <2>2, <2>3, <2>4, <2>5, <2>6 DEF FlowIsSound
<1>5. FlowIsSound(f)'
  BY <1>1, <1>2
     DEF ImportInv, CallsAreTyped, ImportTypeOK, CallsHaveBooks, WindowSteps, CancelSteps,
         EndingSteps, ImportSteps, FlowIsSound, StatusFits, AttemptIsHeld, CopyIsOwn, RetryIsSound,
         TextIsWritten, Gone, Status, Owns, Intact, PrepareReplacement, At, GoTo, Files, Window
<1>6. \A c \in Books : c = book'[f] => BookIsSound(c)'
  BY <1>1, <1>2
     DEF ImportInv, CallsAreTyped, ImportTypeOK, OpeningSteps, FlowIsSound, StatusFits,
         BookIsSound, Status, PrepareReplacement, At
<1>. QED  BY <1>1, <1>3, <1>4, <1>5, <1>6, PrepareReplacementTyped, OwnBookSuffices DEF ImportInv

\* RegisterReplacement: the types, the locations, and what it touches.
LEMMA RegisterReplacementTyped ==
  ASSUME CallsAreTyped, NEW f \in Flows, RegisterReplacement(f)
  PROVE  CallsAreTyped' /\ f \in Procs /\ book[f] \in Books /\ pc[f] # "idle" /\ TouchesOwnBook(f)
<1>1. f \in Procs /\ book[f] \in Books /\ pc[f] # "idle"
  BY DEF CallsAreTyped, CallsHaveBooks, Procs, RegisterReplacement, At
<1>2. TouchesOwnBook(f)
  BY <1>1 DEF TouchesOwnBook, RegisterReplacement, RemoveBookDirectory, Register, GoTo, Window
<1>3. ImportTypeOK'
  <2>1. row' \in [Books -> BookRows]
    BY <1>1 DEF CallsAreTyped, ImportTypeOK, RegisterReplacement, BookRows
  <2>2. dir' \in [Books -> BookFiles]
    BY <1>1
       DEF CallsAreTyped, ImportTypeOK, RegisterReplacement, RemoveBookDirectory, NoFiles, BookFiles
  <2>3. \A c \in Books :
          /\ Status(c)' \in {"none", "queued", "copying"} => row'[c].hash = None
          /\ Status(c)' \in {"parsing", "indexing", "ready"} => row'[c].hash # None
    BY <1>1, <1>2, ImportAssumption DEF CallsAreTyped, ImportTypeOK, Status, RegisterReplacement
  <2>4. active' \in [Books -> Flows \union {None}] /\ cancelled' \subseteq Flows
    BY <1>1 DEF CallsAreTyped, ImportTypeOK, RegisterReplacement, Register
  <2>5. book' \in [Procs -> Books \union {None}] /\ written' \in [Flows -> BOOLEAN] /\ restarts' \in 0..MaxRestarts
    BY <1>1 DEF CallsAreTyped, ImportTypeOK, RegisterReplacement, Window
  <2>. QED  BY <2>1, <2>2, <2>3, <2>4, <2>5 DEF ImportTypeOK, BookRows, BookFiles
<1>4. CallsHaveBooks'
  BY <1>1, <1>2, ImportAssumption, CallsStay
     DEF CallsAreTyped, CallsHaveBooks, CopySteps, RegisterReplacement, At, RemoveBookDirectory,
         NoFiles, GoTo, Window, OpeningSteps, ImportSteps
<1>. QED  BY <1>1, <1>2, <1>3, <1>4 DEF CallsAreTyped

\* RegisterReplacement: the directory is emptied before the copy, for a row
\* that claims nothing.
LEMMA RegisterReplacementIsSound ==
  ASSUME ImportInv, NEW f \in Flows, RegisterReplacement(f)
  PROVE  ImportInv'
<1>1. f \in Procs /\ book[f] \in Books /\ pc[f] # "idle" /\ TouchesOwnBook(f)
  BY RegisterReplacementTyped DEF ImportInv
<1>2. AtWork(f)
  BY DEF RegisterReplacement, At, AtWork, OpeningSteps
<1>3. OneAtWork'
  BY <1>1, <1>2, ImportAssumption, WorkStays
     DEF ImportInv, OneAtWork, OpeningSteps, WindowSteps, RegisterReplacement, At, GoTo, Window
<1>4. \A g \in Flows \ {f} : book[g] = book'[f] => FlowIsSound(g)'
  BY <1>1, <1>2, OthersStay
     DEF ImportInv, WindowSteps, AtWork, FlowIsSound, StatusFits, Status, RegisterReplacement, At
<1>5. FlowIsSound(f)'
  BY <1>1, <1>2
     DEF ImportInv, CallsAreTyped, ImportTypeOK, OpeningSteps, FlowIsSound, StatusFits,
         AttemptIsHeld, CopyIsOwn, RetryIsSound, TextIsWritten, Status, Owns, RegisterReplacement,
         At, NoFiles, Register, GoTo, Window
<1>6. \A c \in Books : c = book'[f] => BookIsSound(c)'
  BY <1>1, <1>2
     DEF ImportInv, OpeningSteps, FlowIsSound, StatusFits, BookIsSound, Status,
         RegisterReplacement, At
<1>. QED  BY <1>1, <1>3, <1>4, <1>5, <1>6, RegisterReplacementTyped, OwnBookSuffices DEF ImportInv

\* CopyOpen: the types, the locations, and what it touches.
LEMMA CopyOpenTyped ==
  ASSUME CallsAreTyped, NEW f \in Flows, CopyOpen(f)
  PROVE  CallsAreTyped' /\ f \in Procs /\ book[f] \in Books /\ pc[f] # "idle" /\ TouchesOwnBook(f)
<1>1. f \in Procs /\ book[f] \in Books /\ pc[f] # "idle"
  BY DEF CallsAreTyped, CallsHaveBooks, Procs, CopyOpen, At
<1>2. TouchesOwnBook(f)
  BY <1>1 DEF TouchesOwnBook, CallsAreTyped, ImportTypeOK, CallsHaveBooks, CopyOpen, GoTo, Window
<1>3. ImportTypeOK'
  <2>1. row' \in [Books -> BookRows]
    BY <1>1 DEF CallsAreTyped, ImportTypeOK, CopyOpen, BookRows
  <2>2. dir' \in [Books -> BookFiles]
    <3>1. dir \in [Books -> BookFiles] /\ dir[book[f]] \in BookFiles
      BY <1>1 DEF CallsAreTyped, ImportTypeOK, BookFiles
    <3>2. [dir[book[f]] EXCEPT !.partial = f] \in BookFiles
      BY <3>1 DEF BookFiles
    <3>3. dir' = dir \/ dir' = [dir EXCEPT ![book[f]] = [dir[book[f]] EXCEPT !.partial = f]]
      BY <1>1, <3>1 DEF CopyOpen
    <3>. QED  BY <3>1, <3>2, <3>3
  <2>3. \A c \in Books :
          /\ Status(c)' \in {"none", "queued", "copying"} => row'[c].hash = None
          /\ Status(c)' \in {"parsing", "indexing", "ready"} => row'[c].hash # None
    BY <1>1, <1>2, ImportAssumption DEF CallsAreTyped, ImportTypeOK, Status, CopyOpen
  <2>4. active' \in [Books -> Flows \union {None}] /\ cancelled' \subseteq Flows
    BY <1>1 DEF CallsAreTyped, ImportTypeOK, CopyOpen
  <2>5. book' \in [Procs -> Books \union {None}] /\ written' \in [Flows -> BOOLEAN] /\ restarts' \in 0..MaxRestarts
    BY <1>1 DEF CallsAreTyped, ImportTypeOK, CopyOpen, Window
  <2>. QED  BY <2>1, <2>2, <2>3, <2>4, <2>5 DEF ImportTypeOK, BookRows, BookFiles
<1>4. CallsHaveBooks'
  <2>1. pc' \in [Procs -> ImportSteps] /\ pc'[f] # "idle" /\ (f \in Users => pc'[f] \in {"done"} \union CancelSteps)
    BY <1>1, ImportAssumption
       DEF CallsAreTyped, CallsHaveBooks, CopyOpen, GoTo, OpeningSteps, ImportSteps
  <2>2. source' \in [Flows -> Sources \union {None}] /\ running' \in SUBSET Flows
    BY <1>1 DEF CallsAreTyped, CallsHaveBooks, CopyOpen, Window
  <2>3. f \in Flows /\ pc'[f] \in CopySteps => source'[f] \in Sources
    BY <1>1 DEF CallsAreTyped, CallsHaveBooks, CopySteps, CopyOpen, At
  <2>4. \A c \in Books : c = book'[f] =>
          {dir'[c].partial, dir'[c].original} \subseteq {None, dir[c].partial, dir[c].original, f}
    BY <1>1 DEF CallsAreTyped, ImportTypeOK, CopyOpen
  <2>. QED  BY <1>1, <1>2, <2>1, <2>2, <2>3, <2>4, CallsStay
<1>. QED  BY <1>1, <1>2, <1>3, <1>4 DEF CallsAreTyped

\* CopyOpen: the partial file is the flow's own from here to the rename.
LEMMA CopyOpenIsSound ==
  ASSUME ImportInv, NEW f \in Flows, CopyOpen(f)
  PROVE  ImportInv'
<1>1. f \in Procs /\ book[f] \in Books /\ pc[f] # "idle" /\ TouchesOwnBook(f)
  BY CopyOpenTyped DEF ImportInv
<1>2. AtWork(f)
  BY DEF CopyOpen, At, AtWork, OpeningSteps
<1>3. OneAtWork'
  <2>1. running' = running /\ book'[f] = book[f]
    BY <1>1, <1>2, ImportAssumption DEF CopyOpen, Window
  <2>2. f \in Flows => (AtWork(f)' => AtWork(f))
    BY <1>1, <1>2
  <2>3. pc'[f] \in WindowSteps \union {"undo", "report", "reporting"} => f \in running
    BY <1>1, <1>2 DEF ImportInv, CallsAreTyped, CallsHaveBooks, CopyOpen, GoTo, WindowSteps
  <2>4. f \in running => pc[f] # "done" /\ pc'[f] \notin OpeningSteps \union {"idle"}
    BY <1>1, <1>2 DEF ImportInv, OneAtWork, CopyOpen, At, OpeningSteps
  <2>. QED  BY <1>1, <2>1, <2>2, <2>3, <2>4, WorkStays
<1>4. \A g \in Flows \ {f} : book[g] = book'[f] => FlowIsSound(g)'
  BY <1>1, <1>2, OthersStay
     DEF ImportInv, WindowSteps, AtWork, FlowIsSound, StatusFits, Status, CopyOpen, At
<1>5. FlowIsSound(f)'
  BY <1>1, <1>2
     DEF ImportInv, CallsAreTyped, ImportTypeOK, CallsHaveBooks, OpeningSteps, FlowIsSound,
         StatusFits, AttemptIsHeld, CopyIsOwn, RetryIsSound, TextIsWritten, Status, Owns, CopyOpen,
         At, GoTo
<1>6. \A c \in Books : c = book'[f] => BookIsSound(c)'
  BY <1>1, <1>2
     DEF ImportInv, OpeningSteps, FlowIsSound, StatusFits, BookIsSound, Status, CopyOpen, At
<1>. QED  BY <1>1, <1>3, <1>4, <1>5, <1>6, CopyOpenTyped, OwnBookSuffices DEF ImportInv

\* CopyWrite: the types, the locations, and what it touches.
LEMMA CopyWriteTyped ==
  ASSUME CallsAreTyped, NEW f \in Flows, CopyWrite(f)
  PROVE  CallsAreTyped' /\ f \in Procs /\ book[f] \in Books /\ pc[f] # "idle" /\ TouchesOwnBook(f)
<1>1. f \in Procs /\ book[f] \in Books /\ pc[f] # "idle"
  BY DEF CallsAreTyped, CallsHaveBooks, Procs, CopyWrite, At
<1>2. TouchesOwnBook(f)
  BY <1>1 DEF TouchesOwnBook, CallsAreTyped, ImportTypeOK, CallsHaveBooks, CopyWrite, GoTo, Window
<1>3. ImportTypeOK'
  <2>1. row' \in [Books -> BookRows]
    BY <1>1 DEF CallsAreTyped, ImportTypeOK, CopyWrite, BookRows
  <2>2. dir' \in [Books -> BookFiles]
    BY <1>1 DEF CallsAreTyped, ImportTypeOK, CopyWrite, BookFiles
  <2>3. \A c \in Books :
          /\ Status(c)' \in {"none", "queued", "copying"} => row'[c].hash = None
          /\ Status(c)' \in {"parsing", "indexing", "ready"} => row'[c].hash # None
    BY <1>1, <1>2, ImportAssumption DEF CallsAreTyped, ImportTypeOK, Status, CopyWrite
  <2>4. active' \in [Books -> Flows \union {None}] /\ cancelled' \subseteq Flows
    BY <1>1 DEF CallsAreTyped, ImportTypeOK, CopyWrite
  <2>5. book' \in [Procs -> Books \union {None}] /\ written' \in [Flows -> BOOLEAN] /\ restarts' \in 0..MaxRestarts
    BY <1>1 DEF CallsAreTyped, ImportTypeOK, CopyWrite, Window
  <2>. QED  BY <2>1, <2>2, <2>3, <2>4, <2>5 DEF ImportTypeOK, BookRows, BookFiles
<1>4. CallsHaveBooks'
  <2>1. pc' \in [Procs -> ImportSteps] /\ pc'[f] # "idle" /\ (f \in Users => pc'[f] \in {"done"} \union CancelSteps)
    BY <1>1, ImportAssumption
       DEF CallsAreTyped, CallsHaveBooks, CopyWrite, GoTo, OpeningSteps, ImportSteps
  <2>2. source' \in [Flows -> Sources \union {None}] /\ running' \in SUBSET Flows
    BY <1>1 DEF CallsAreTyped, CallsHaveBooks, CopyWrite, Window
  <2>3. f \in Flows /\ pc'[f] \in CopySteps => source'[f] \in Sources
    BY <1>1 DEF CallsAreTyped, CallsHaveBooks, CopySteps, CopyWrite, At
  <2>4. \A c \in Books : c = book'[f] =>
          {dir'[c].partial, dir'[c].original} \subseteq {None, dir[c].partial, dir[c].original, f}
    BY <1>1 DEF CopyWrite
  <2>. QED  BY <1>1, <1>2, <2>1, <2>2, <2>3, <2>4, CallsStay
<1>. QED  BY <1>1, <1>2, <1>3, <1>4 DEF CallsAreTyped

\* CopyWrite: the copy of the flow is whole from here on.
LEMMA CopyWriteIsSound ==
  ASSUME ImportInv, NEW f \in Flows, CopyWrite(f)
  PROVE  ImportInv'
<1>1. f \in Procs /\ book[f] \in Books /\ pc[f] # "idle" /\ TouchesOwnBook(f)
  BY CopyWriteTyped DEF ImportInv
<1>2. AtWork(f)
  BY DEF CopyWrite, At, AtWork, OpeningSteps
<1>3. OneAtWork'
  <2>1. running' = running /\ book'[f] = book[f]
    BY <1>1, <1>2, ImportAssumption DEF CopyWrite, Window
  <2>2. f \in Flows => (AtWork(f)' => AtWork(f))
    BY <1>1, <1>2
  <2>3. pc'[f] \in WindowSteps \union {"undo", "report", "reporting"} => f \in running
    BY <1>1, <1>2 DEF ImportInv, CallsAreTyped, CallsHaveBooks, CopyWrite, GoTo, WindowSteps
  <2>4. f \in running => pc[f] # "done" /\ pc'[f] \notin OpeningSteps \union {"idle"}
    BY <1>1, <1>2 DEF ImportInv, OneAtWork, CopyWrite, At, OpeningSteps
  <2>. QED  BY <1>1, <2>1, <2>2, <2>3, <2>4, WorkStays
<1>4. \A g \in Flows \ {f} : book[g] = book'[f] => FlowIsSound(g)'
  BY <1>1, <1>2, OthersStay
     DEF ImportInv, WindowSteps, AtWork, FlowIsSound, StatusFits, Status, CopyWrite, At
<1>5. FlowIsSound(f)'
  BY <1>1, <1>2
     DEF ImportInv, CallsAreTyped, ImportTypeOK, CallsHaveBooks, OpeningSteps, FlowIsSound,
         StatusFits, AttemptIsHeld, CopyIsOwn, RetryIsSound, TextIsWritten, Status, Owns,
         CopyWrite, At, GoTo
<1>6. \A c \in Books : c = book'[f] => BookIsSound(c)'
  BY <1>1, <1>2
     DEF ImportInv, OpeningSteps, FlowIsSound, StatusFits, BookIsSound, Status, CopyWrite, At
<1>. QED  BY <1>1, <1>3, <1>4, <1>5, <1>6, CopyWriteTyped, OwnBookSuffices DEF ImportInv

\* CopyRename: the types, the locations, and what it touches.
LEMMA CopyRenameTyped ==
  ASSUME CallsAreTyped, NEW f \in Flows, CopyRename(f)
  PROVE  CallsAreTyped' /\ f \in Procs /\ book[f] \in Books /\ pc[f] # "idle" /\ TouchesOwnBook(f)
<1>1. f \in Procs /\ book[f] \in Books /\ pc[f] # "idle"
  BY DEF CallsAreTyped, CallsHaveBooks, Procs, CopyRename, At
<1>2. TouchesOwnBook(f)
  BY <1>1 DEF TouchesOwnBook, CallsAreTyped, ImportTypeOK, CallsHaveBooks, CopyRename, GoTo, Window
<1>3. ImportTypeOK'
  <2>1. row' \in [Books -> BookRows]
    BY <1>1 DEF CallsAreTyped, ImportTypeOK, CopyRename, BookRows
  <2>2. dir' \in [Books -> BookFiles]
    BY <1>1 DEF CallsAreTyped, ImportTypeOK, CopyRename, BookFiles
  <2>3. \A c \in Books :
          /\ Status(c)' \in {"none", "queued", "copying"} => row'[c].hash = None
          /\ Status(c)' \in {"parsing", "indexing", "ready"} => row'[c].hash # None
    BY <1>1, <1>2, ImportAssumption DEF CallsAreTyped, ImportTypeOK, Status, CopyRename
  <2>4. active' \in [Books -> Flows \union {None}] /\ cancelled' \subseteq Flows
    BY <1>1 DEF CallsAreTyped, ImportTypeOK, CopyRename
  <2>5. book' \in [Procs -> Books \union {None}] /\ written' \in [Flows -> BOOLEAN] /\ restarts' \in 0..MaxRestarts
    BY <1>1 DEF CallsAreTyped, ImportTypeOK, CopyRename, Window
  <2>. QED  BY <2>1, <2>2, <2>3, <2>4, <2>5 DEF ImportTypeOK, BookRows, BookFiles
<1>4. CallsHaveBooks'
  <2>1. pc' \in [Procs -> ImportSteps] /\ pc'[f] # "idle" /\ (f \in Users => pc'[f] \in {"done"} \union CancelSteps)
    BY <1>1, ImportAssumption
       DEF CallsAreTyped, CallsHaveBooks, CopyRename, GoTo, OpeningSteps, ImportSteps
  <2>2. source' \in [Flows -> Sources \union {None}] /\ running' \in SUBSET Flows
    BY <1>1 DEF CallsAreTyped, CallsHaveBooks, CopyRename, Window
  <2>3. f \in Flows /\ pc'[f] \in CopySteps => source'[f] \in Sources
    BY <1>1 DEF CallsAreTyped, CallsHaveBooks, CopySteps, CopyRename, At
  <2>4. \A c \in Books : c = book'[f] =>
          {dir'[c].partial, dir'[c].original} \subseteq {None, dir[c].partial, dir[c].original, f}
    BY <1>1 DEF CallsAreTyped, ImportTypeOK, CopyRename
  <2>. QED  BY <1>1, <1>2, <2>1, <2>2, <2>3, <2>4, CallsStay
<1>. QED  BY <1>1, <1>2, <1>3, <1>4 DEF CallsAreTyped

\* CopyRename: what the rename moves is the flow's own partial file, written
\* to its end.
LEMMA CopyRenameIsSound ==
  ASSUME ImportInv, NEW f \in Flows, CopyRename(f)
  PROVE  ImportInv'
<1>1. f \in Procs /\ book[f] \in Books /\ pc[f] # "idle" /\ TouchesOwnBook(f)
  BY CopyRenameTyped DEF ImportInv
<1>2. AtWork(f)
  BY DEF CopyRename, At, AtWork, OpeningSteps
<1>3. OneAtWork'
  <2>1. running' = running /\ book'[f] = book[f]
    BY <1>1, <1>2, ImportAssumption DEF CopyRename, Window
  <2>2. f \in Flows => (AtWork(f)' => AtWork(f))
    BY <1>1, <1>2
  <2>3. pc'[f] \in WindowSteps \union {"undo", "report", "reporting"} => f \in running
    BY <1>1, <1>2 DEF ImportInv, CallsAreTyped, CallsHaveBooks, CopyRename, GoTo, WindowSteps
  <2>4. f \in running => pc[f] # "done" /\ pc'[f] \notin OpeningSteps \union {"idle"}
    BY <1>1, <1>2 DEF ImportInv, OneAtWork, CopyRename, At, OpeningSteps
  <2>. QED  BY <1>1, <2>1, <2>2, <2>3, <2>4, WorkStays
<1>4. \A g \in Flows \ {f} : book[g] = book'[f] => FlowIsSound(g)'
  BY <1>1, <1>2, OthersStay
     DEF ImportInv, WindowSteps, AtWork, FlowIsSound, StatusFits, Status, CopyRename, At
<1>5. FlowIsSound(f)'
  BY <1>1, <1>2
     DEF ImportInv, CallsAreTyped, ImportTypeOK, CallsHaveBooks, OpeningSteps, FlowIsSound,
         StatusFits, AttemptIsHeld, CopyIsOwn, RetryIsSound, TextIsWritten, Status, Owns,
         CopyRename, At, GoTo
<1>6. \A c \in Books : c = book'[f] => BookIsSound(c)'
  BY <1>1, <1>2
     DEF ImportInv, OpeningSteps, FlowIsSound, StatusFits, BookIsSound, Status, CopyRename, At
<1>. QED  BY <1>1, <1>3, <1>4, <1>5, <1>6, CopyRenameTyped, OwnBookSuffices DEF ImportInv

\* CopyFailed: the types, the locations, and what it touches.
LEMMA CopyFailedTyped ==
  ASSUME CallsAreTyped, NEW f \in Flows, CopyFailed(f)
  PROVE  CallsAreTyped' /\ f \in Procs /\ book[f] \in Books /\ pc[f] # "idle" /\ TouchesOwnBook(f)
<1>1. f \in Procs /\ book[f] \in Books /\ pc[f] # "idle"
  BY DEF CallsAreTyped, CallsHaveBooks, Procs, CopyFailed, At
<1>2. TouchesOwnBook(f)
  BY <1>1
     DEF TouchesOwnBook, CallsAreTyped, ImportTypeOK, CallsHaveBooks, CopyFailed, Take,
         RemoveBookDirectory, GoTo, Window
<1>3. ImportTypeOK'
  <2>1. row' \in [Books -> BookRows]
    BY <1>1 DEF CallsAreTyped, ImportTypeOK, CopyFailed, BookRows
  <2>2. dir' \in [Books -> BookFiles]
    <3>1. dir[book[f]] \in BookFiles /\ dir \in [Books -> BookFiles]
      BY <1>1 DEF CallsAreTyped, ImportTypeOK, BookFiles
    <3>2. dir'[book[f]] \in {dir[book[f]], NoFiles, [dir[book[f]] EXCEPT !.html = TRUE], [dir[book[f]] EXCEPT !.html = FALSE]}
      BY <1>1, <3>1 DEF CopyFailed, RemoveBookDirectory
    <3>3. dir' = [dir EXCEPT ![book[f]] = dir'[book[f]]]
      BY <1>1, <3>1 DEF CopyFailed, RemoveBookDirectory
    <3>. QED  BY <3>1, <3>2, <3>3, FilesTyped
  <2>3. \A c \in Books :
          /\ Status(c)' \in {"none", "queued", "copying"} => row'[c].hash = None
          /\ Status(c)' \in {"parsing", "indexing", "ready"} => row'[c].hash # None
    BY <1>1, <1>2, ImportAssumption DEF CallsAreTyped, ImportTypeOK, Status, CopyFailed
  <2>4. active' \in [Books -> Flows \union {None}] /\ cancelled' \subseteq Flows
    BY <1>1 DEF CallsAreTyped, ImportTypeOK, CopyFailed, Take
  <2>5. book' \in [Procs -> Books \union {None}] /\ written' \in [Flows -> BOOLEAN] /\ restarts' \in 0..MaxRestarts
    BY <1>1 DEF CallsAreTyped, ImportTypeOK, CopyFailed, Window
  <2>. QED  BY <2>1, <2>2, <2>3, <2>4, <2>5 DEF ImportTypeOK, BookRows, BookFiles
<1>4. CallsHaveBooks'
  <2>1. pc' \in [Procs -> ImportSteps] /\ pc'[f] # "idle" /\ (f \in Users => pc'[f] \in {"done"} \union CancelSteps)
    BY <1>1, ImportAssumption
       DEF CallsAreTyped, CallsHaveBooks, CopyFailed, GoTo, EndingSteps, ImportSteps
  <2>2. source' \in [Flows -> Sources \union {None}] /\ running' \in SUBSET Flows
    BY <1>1 DEF CallsAreTyped, CallsHaveBooks, CopyFailed, Window
  <2>3. f \in Flows /\ pc'[f] \in CopySteps => source'[f] \in Sources
    BY <1>1 DEF CallsAreTyped, CallsHaveBooks, CopySteps, CopyFailed, GoTo
  <2>4. \A c \in Books : c = book'[f] =>
          {dir'[c].partial, dir'[c].original} \subseteq {None, dir[c].partial, dir[c].original, f}
    BY <1>1 DEF CallsAreTyped, ImportTypeOK, CopyFailed, RemoveBookDirectory, NoFiles
  <2>. QED  BY <1>1, <1>2, <2>1, <2>2, <2>3, <2>4, CallsStay
<1>. QED  BY <1>1, <1>2, <1>3, <1>4 DEF CallsAreTyped

\* CopyFailed: the directory is removed only by the owner of the attempt,
\* whose row claims nothing.
LEMMA CopyFailedIsSound ==
  ASSUME ImportInv, NEW f \in Flows, CopyFailed(f)
  PROVE  ImportInv'
<1>1. f \in Procs /\ book[f] \in Books /\ pc[f] # "idle" /\ TouchesOwnBook(f)
  BY CopyFailedTyped DEF ImportInv
<1>2. AtWork(f)
  BY DEF CopyFailed, At, AtWork, OpeningSteps
<1>3. OneAtWork'
  <2>1. running' = running /\ book'[f] = book[f]
    BY <1>1, <1>2, ImportAssumption DEF CopyFailed, Window
  <2>2. f \in Flows => (AtWork(f)' => AtWork(f))
    BY <1>1, <1>2
  <2>3. pc'[f] \in WindowSteps \union {"undo", "report", "reporting"} => f \in running
    BY <1>1, <1>2 DEF ImportInv, CallsAreTyped, CallsHaveBooks, CopyFailed, GoTo, WindowSteps
  <2>4. f \in running => pc[f] # "done" /\ pc'[f] \notin OpeningSteps \union {"idle"}
    BY <1>1, <1>2 DEF ImportInv, OneAtWork, CopyFailed, At, OpeningSteps
  <2>. QED  BY <1>1, <2>1, <2>2, <2>3, <2>4, WorkStays
<1>4. \A g \in Flows \ {f} : book[g] = book'[f] => FlowIsSound(g)'
  BY <1>1, <1>2, OthersStay
     DEF ImportInv, WindowSteps, AtWork, FlowIsSound, StatusFits, Status, CopyFailed, At
<1>5. FlowIsSound(f)'
  BY <1>1, <1>2
     DEF ImportInv, CallsAreTyped, CallsHaveBooks, WindowSteps, CancelSteps, EndingSteps,
         ImportSteps, FlowIsSound, StatusFits, AttemptIsHeld, CopyIsOwn, RetryIsSound,
         TextIsWritten, Status, CopyFailed, At, Take, RemoveBookDirectory, NoFiles, GoTo, Window
<1>6. \A c \in Books : c = book'[f] => BookIsSound(c)'
  BY <1>1, <1>2
     DEF ImportInv, OpeningSteps, FlowIsSound, StatusFits, BookIsSound, Status, CopyFailed, At
<1>. QED  BY <1>1, <1>3, <1>4, <1>5, <1>6, CopyFailedTyped, OwnBookSuffices DEF ImportInv

\* MarkFailed: the types, the locations, and what it touches.
LEMMA MarkFailedTyped ==
  ASSUME CallsAreTyped, NEW f \in Flows, MarkFailed(f)
  PROVE  CallsAreTyped' /\ f \in Procs /\ book[f] \in Books /\ pc[f] # "idle" /\ TouchesOwnBook(f)
<1>1. f \in Procs /\ book[f] \in Books /\ pc[f] # "idle"
  BY DEF CallsAreTyped, CallsHaveBooks, Procs, MarkFailed, At
<1>2. TouchesOwnBook(f)
  BY <1>1 DEF TouchesOwnBook, MarkFailed, Fail, GoTo, Files, Window
<1>3. ImportTypeOK'
  BY <1>1, <1>2, ImportAssumption
     DEF CallsAreTyped, ImportTypeOK, MarkFailed, Fail, Status, FailedWithoutSource, Files, Window,
         Statuses
<1>4. CallsHaveBooks'
  BY <1>1, <1>2, ImportAssumption, CallsStay
     DEF CallsAreTyped, CallsHaveBooks, CopySteps, MarkFailed, GoTo, Files, Window, EndingSteps,
         ImportSteps
<1>. QED  BY <1>1, <1>2, <1>3, <1>4 DEF CallsAreTyped

\* MarkFailed: a failed row claims no source.
LEMMA MarkFailedIsSound ==
  ASSUME ImportInv, NEW f \in Flows, MarkFailed(f)
  PROVE  ImportInv'
<1>1. f \in Procs /\ book[f] \in Books /\ pc[f] # "idle" /\ TouchesOwnBook(f)
  BY MarkFailedTyped DEF ImportInv
<1>3. OneAtWork'
  BY <1>1, ImportAssumption, WorkStays
     DEF AtWork, OpeningSteps, WindowSteps, MarkFailed, At, GoTo, Window
<1>4. \A g \in Flows \ {f} : book[g] = book'[f] => FlowIsSound(g)'
  BY <1>1
     DEF ImportInv, FlowIsSound, StatusFits, AttemptIsHeld, CopyIsOwn, RetryIsSound, TextIsWritten,
         Doomed, Gone, Status, Owns, Intact, MarkFailed, At, Fail, FailedWithoutSource, GoTo,
         Files, Window
<1>5. FlowIsSound(f)'
  BY <1>1
     DEF OpeningSteps, WindowSteps, FlowIsSound, StatusFits, AttemptIsHeld, CopyIsOwn,
         RetryIsSound, TextIsWritten, MarkFailed, At, GoTo
<1>6. \A c \in Books : c = book'[f] => BookIsSound(c)'
  BY <1>1
     DEF ImportInv, BookIsSound, Doomed, Status, Intact, MarkFailed, At, Fail, FailedWithoutSource,
         GoTo, Files, Window
<1>. QED  BY <1>1, <1>3, <1>4, <1>5, <1>6, MarkFailedTyped, OwnBookSuffices DEF ImportInv

\* BeginFailed: the types, the locations, and what it touches.
LEMMA BeginFailedTyped ==
  ASSUME CallsAreTyped, NEW f \in Flows, BeginFailed(f)
  PROVE  CallsAreTyped' /\ f \in Procs /\ book[f] \in Books /\ pc[f] # "idle" /\ TouchesOwnBook(f)
<1>1. f \in Procs /\ book[f] \in Books /\ pc[f] # "idle"
  BY DEF CallsAreTyped, CallsHaveBooks, Procs, BeginFailed, At
<1>2. TouchesOwnBook(f)
  BY <1>1 DEF TouchesOwnBook, BeginFailed, GoTo, Files, Window
<1>3. ImportTypeOK'
  <2>1. row' \in [Books -> BookRows]
    BY <1>1 DEF CallsAreTyped, ImportTypeOK, BeginFailed, BookRows
  <2>2. dir' \in [Books -> BookFiles]
    BY <1>1 DEF CallsAreTyped, ImportTypeOK, BeginFailed, Files, BookFiles
  <2>3. \A c \in Books :
          /\ Status(c)' \in {"none", "queued", "copying"} => row'[c].hash = None
          /\ Status(c)' \in {"parsing", "indexing", "ready"} => row'[c].hash # None
    BY <1>1, <1>2, ImportAssumption DEF CallsAreTyped, ImportTypeOK, Status, BeginFailed
  <2>4. active' \in [Books -> Flows \union {None}] /\ cancelled' \subseteq Flows
    BY <1>1 DEF CallsAreTyped, ImportTypeOK, BeginFailed
  <2>5. book' \in [Procs -> Books \union {None}] /\ written' \in [Flows -> BOOLEAN] /\ restarts' \in 0..MaxRestarts
    BY <1>1 DEF CallsAreTyped, ImportTypeOK, BeginFailed, Files, Window
  <2>. QED  BY <2>1, <2>2, <2>3, <2>4, <2>5 DEF ImportTypeOK, BookRows, BookFiles
<1>4. CallsHaveBooks'
  BY <1>1, <1>2, ImportAssumption, CallsStay
     DEF CallsAreTyped, CallsHaveBooks, CopySteps, BeginFailed, GoTo, Files, Window, EndingSteps,
         ImportSteps
<1>. QED  BY <1>1, <1>2, <1>3, <1>4 DEF CallsAreTyped

\* BeginFailed: the flow only ends.
LEMMA BeginFailedIsSound ==
  ASSUME ImportInv, NEW f \in Flows, BeginFailed(f)
  PROVE  ImportInv'
<1>1. f \in Procs /\ book[f] \in Books /\ pc[f] # "idle" /\ TouchesOwnBook(f)
  BY BeginFailedTyped DEF ImportInv
<1>3. OneAtWork'
  BY <1>1, ImportAssumption, WorkStays
     DEF AtWork, OpeningSteps, WindowSteps, BeginFailed, At, GoTo, Window
<1>4. \A g \in Flows \ {f} : book[g] = book'[f] => FlowIsSound(g)'
  BY <1>1
     DEF ImportInv, FlowIsSound, StatusFits, AttemptIsHeld, CopyIsOwn, RetryIsSound, TextIsWritten,
         Doomed, Gone, Status, Owns, Intact, BeginFailed, At, GoTo, Files
<1>5. FlowIsSound(f)'
  BY <1>1
     DEF OpeningSteps, WindowSteps, FlowIsSound, StatusFits, AttemptIsHeld, CopyIsOwn,
         RetryIsSound, TextIsWritten, BeginFailed, At, GoTo
<1>6. \A c \in Books : c = book'[f] => BookIsSound(c)'
  BY <1>1 DEF ImportInv, BookIsSound, Doomed, Status, Intact, BeginFailed, At, GoTo, Files, Window
<1>. QED  BY <1>1, <1>3, <1>4, <1>5, <1>6, BeginFailedTyped, OwnBookSuffices DEF ImportInv

\* ClaimHash: the types, the locations, and what it touches.
LEMMA ClaimHashTyped ==
  ASSUME CallsAreTyped, NEW f \in Flows, ClaimHash(f)
  PROVE  CallsAreTyped' /\ f \in Procs /\ book[f] \in Books /\ pc[f] # "idle" /\ TouchesOwnBook(f)
<1>1. f \in Procs /\ book[f] \in Books /\ pc[f] # "idle"
  BY DEF CallsAreTyped, CallsHaveBooks, Procs, ClaimHash, At
<1>2. TouchesOwnBook(f)
  BY <1>1
     DEF TouchesOwnBook, CallsAreTyped, ImportTypeOK, CallsHaveBooks, ClaimHash, GoTo, Take, Files,
         Window
<1>3. ImportTypeOK'
  <2>1. row' \in [Books -> BookRows]
    BY <1>1, ClaimHashRow
  <2>2. dir' \in [Books -> BookFiles]
    BY <1>1 DEF CallsAreTyped, ImportTypeOK, ClaimHash, Files, BookFiles
  <2>3. \A c \in Books :
          /\ Status(c)' \in {"none", "queued", "copying"} => row'[c].hash = None
          /\ Status(c)' \in {"parsing", "indexing", "ready"} => row'[c].hash # None
    <3>1. source[f] \in Sources /\ book'[f] = book[f]
      BY <1>1 DEF CallsAreTyped, CallsHaveBooks, CopySteps, ClaimHash, At
    <3>2. \A c \in Books \ {book[f]} : row'[c] = row[c]
      BY <1>2, <3>1 DEF TouchesOwnBook
    <3>. QED  BY <1>1, <3>1, <3>2, ClaimHashRow, ImportAssumption
                 DEF CallsAreTyped, ImportTypeOK, Status
  <2>4. active' \in [Books -> Flows \union {None}] /\ cancelled' \subseteq Flows
    BY <1>1 DEF CallsAreTyped, ImportTypeOK, ClaimHash, Take
  <2>5. book' \in [Procs -> Books \union {None}] /\ written' \in [Flows -> BOOLEAN] /\ restarts' \in 0..MaxRestarts
    BY <1>1 DEF CallsAreTyped, ImportTypeOK, ClaimHash, Files, Window
  <2>. QED  BY <2>1, <2>2, <2>3, <2>4, <2>5 DEF ImportTypeOK, BookRows, BookFiles
<1>4. CallsHaveBooks'
  <2>1. pc' \in [Procs -> ImportSteps] /\ pc'[f] # "idle" /\ (f \in Users => pc'[f] \in {"done"} \union CancelSteps)
    BY <1>1, ImportAssumption
       DEF CallsAreTyped, CallsHaveBooks, ClaimHash, GoTo, OpeningSteps, ImportSteps
  <2>2. source' \in [Flows -> Sources \union {None}] /\ running' \in SUBSET Flows
    BY <1>1 DEF CallsAreTyped, CallsHaveBooks, ClaimHash, Files, Window
  <2>3. f \in Flows /\ pc'[f] \in CopySteps => source'[f] \in Sources
    BY <1>1 DEF CallsAreTyped, CallsHaveBooks, CopySteps, ClaimHash, GoTo
  <2>4. \A c \in Books : c = book'[f] =>
          {dir'[c].partial, dir'[c].original} \subseteq {None, dir[c].partial, dir[c].original, f}
    BY <1>1 DEF ClaimHash, Files
  <2>. QED  BY <1>1, <1>2, <2>1, <2>2, <2>3, <2>4, CallsStay
<1>. QED  BY <1>1, <1>2, <1>3, <1>4 DEF CallsAreTyped

\* ClaimHash: the hash is claimed for the original the flow has copied, or
\* the row goes away.
LEMMA ClaimHashIsSound ==
  ASSUME ImportInv, NEW f \in Flows, ClaimHash(f)
  PROVE  ImportInv'
<1>1. CallsAreTyped /\ f \in Procs /\ book[f] \in Books /\ pc[f] # "idle" /\ TouchesOwnBook(f)
  BY ClaimHashTyped DEF ImportInv
<1>2. AtWork(f)
  BY DEF ClaimHash, At, AtWork, OpeningSteps
<1>3. OneAtWork'
  <2>1. running' = running /\ book'[f] = book[f]
    BY <1>1, <1>2, ImportAssumption DEF ClaimHash, Window
  <2>2. f \in Flows => (AtWork(f)' => AtWork(f))
    BY <1>1, <1>2
  <2>3. pc'[f] \in WindowSteps \union {"undo", "report", "reporting"} => f \in running
    BY <1>1, <1>2 DEF CallsAreTyped, CallsHaveBooks, ClaimHash, GoTo, WindowSteps
  <2>4. f \in running => pc[f] # "done" /\ pc'[f] \notin OpeningSteps \union {"idle"}
    BY <1>1, <1>2 DEF ImportInv, OneAtWork, ClaimHash, At, OpeningSteps
  <2>. QED  BY <1>1, <2>1, <2>2, <2>3, <2>4, WorkStays
<1>4. \A g \in Flows \ {f} : book[g] = book'[f] => FlowIsSound(g)'
  BY <1>1, <1>2, ClaimHashRow, OthersStay
     DEF ImportInv, WindowSteps, AtWork, FlowIsSound, StatusFits, Status, ClaimHash, At
<1>5. FlowIsSound(f)'
  BY <1>1, <1>2, ClaimHashRow
     DEF ImportInv, CallsAreTyped, ImportTypeOK, CallsHaveBooks, OpeningSteps, WindowSteps,
         CancelSteps, EndingSteps, FlowIsSound, StatusFits, AttemptIsHeld, CopyIsOwn, RetryIsSound,
         TextIsWritten, Status, Owns, ClaimHash, At, GoTo, Duplicate, NoRow, Take, Files, Window
<1>6. \A c \in Books : c = book'[f] => BookIsSound(c)'
  <2>1. BookIsSound(book[f]) /\ FlowIsSound(f) /\ book'[f] = book[f] /\ pc[f] = "claim"
    BY <1>1 DEF ImportInv, ClaimHash, At
  <2>2. source' = source /\ written' = written /\ cut' = cut
    BY DEF ClaimHash, Files, Window
  <2>3. Doomed(book[f]) => Doomed(book[f])'
    BY <1>1, <2>1, DoomStaysHere
  <2>4. dir' = dir
    BY DEF ClaimHash, Files
  <2>5. Status(book[f]) # "copying" \/ Doomed(book[f]) \/ Intact(book[f], source[f])
    BY <2>1, ImportAssumption DEF FlowIsSound, CopyIsOwn, Gone, Intact
  <2>6. Intact(book[f], source[f]) => Intact(book[f], source[f])'
    BY <2>1, <2>2, <2>4 DEF Intact
  <2>7. Status(book[f]) \in {"none", "queued", "copying", "failed"}
    BY <2>1 DEF FlowIsSound, StatusFits, OpeningSteps
  <2>8. row'[book[f]].hash = source[f] /\ Intact(book[f], source[f])' => Intact(book[f], row[book[f]].hash)'
    BY <2>1, <2>2, <2>4
  <2>. QED
    BY <1>1, <2>1, <2>2, <2>3, <2>4, <2>5, <2>6, <2>7, <2>8, ClaimHashRow DEF BookIsSound, Status
<1>. QED  BY <1>1, <1>3, <1>4, <1>5, <1>6, ClaimHashTyped, OwnBookSuffices

\* RemoveDuplicate: the types, the locations, and what it touches.
LEMMA RemoveDuplicateTyped ==
  ASSUME CallsAreTyped, NEW f \in Flows, RemoveDuplicate(f)
  PROVE  CallsAreTyped' /\ f \in Procs /\ book[f] \in Books /\ pc[f] # "idle" /\ TouchesOwnBook(f)
<1>1. f \in Procs /\ book[f] \in Books /\ pc[f] # "idle"
  BY DEF CallsAreTyped, CallsHaveBooks, Procs, RemoveDuplicate, At
<1>2. TouchesOwnBook(f)
  BY <1>1 DEF TouchesOwnBook, RemoveDuplicate, RemoveBookDirectory, GoTo, Window
<1>3. ImportTypeOK'
  <2>1. row' \in [Books -> BookRows]
    BY <1>1 DEF CallsAreTyped, ImportTypeOK, RemoveDuplicate, BookRows
  <2>2. dir' \in [Books -> BookFiles]
    BY <1>1
       DEF CallsAreTyped, ImportTypeOK, RemoveDuplicate, RemoveBookDirectory, NoFiles, BookFiles
  <2>3. \A c \in Books :
          /\ Status(c)' \in {"none", "queued", "copying"} => row'[c].hash = None
          /\ Status(c)' \in {"parsing", "indexing", "ready"} => row'[c].hash # None
    BY <1>1, <1>2, ImportAssumption DEF CallsAreTyped, ImportTypeOK, Status, RemoveDuplicate
  <2>4. active' \in [Books -> Flows \union {None}] /\ cancelled' \subseteq Flows
    BY <1>1 DEF CallsAreTyped, ImportTypeOK, RemoveDuplicate
  <2>5. book' \in [Procs -> Books \union {None}] /\ written' \in [Flows -> BOOLEAN] /\ restarts' \in 0..MaxRestarts
    BY <1>1 DEF CallsAreTyped, ImportTypeOK, RemoveDuplicate, Window
  <2>. QED  BY <2>1, <2>2, <2>3, <2>4, <2>5 DEF ImportTypeOK, BookRows, BookFiles
<1>4. CallsHaveBooks'
  BY <1>1, <1>2, ImportAssumption, CallsStay
     DEF CallsAreTyped, CallsHaveBooks, CopySteps, RemoveDuplicate, RemoveBookDirectory, NoFiles,
         GoTo, Window, EndingSteps, ImportSteps
<1>. QED  BY <1>1, <1>2, <1>3, <1>4 DEF CallsAreTyped

\* RemoveDuplicate: the row is gone before its directory.
LEMMA RemoveDuplicateIsSound ==
  ASSUME ImportInv, NEW f \in Flows, RemoveDuplicate(f)
  PROVE  ImportInv'
<1>1. f \in Procs /\ book[f] \in Books /\ pc[f] # "idle" /\ TouchesOwnBook(f)
  BY RemoveDuplicateTyped DEF ImportInv
<1>2. AtWork(f)
  BY DEF RemoveDuplicate, At, AtWork, OpeningSteps
<1>3. OneAtWork'
  BY <1>1, <1>2, ImportAssumption, WorkStays
     DEF ImportInv, OneAtWork, OpeningSteps, WindowSteps, RemoveDuplicate, GoTo, Window
<1>4. \A g \in Flows \ {f} : book[g] = book'[f] => FlowIsSound(g)'
  BY <1>1, <1>2, OthersStay
     DEF ImportInv, WindowSteps, AtWork, FlowIsSound, StatusFits, Status, RemoveDuplicate, At
<1>5. FlowIsSound(f)'
  BY <1>1, <1>2
     DEF ImportInv, OpeningSteps, WindowSteps, FlowIsSound, StatusFits, AttemptIsHeld, CopyIsOwn,
         RetryIsSound, TextIsWritten, Status, RemoveDuplicate, At, NoFiles, GoTo, Window
<1>6. \A c \in Books : c = book'[f] => BookIsSound(c)'
  BY <1>1, <1>2
     DEF ImportInv, OpeningSteps, FlowIsSound, StatusFits, BookIsSound, Status, RemoveDuplicate, At
<1>. QED  BY <1>1, <1>3, <1>4, <1>5, <1>6, RemoveDuplicateTyped, OwnBookSuffices DEF ImportInv

\* BeginRetry: the types, the locations, and what it touches.
LEMMA BeginRetryTyped ==
  ASSUME CallsAreTyped, NEW f \in Flows, NEW b \in Books, BeginRetry(f, b)
  PROVE  CallsAreTyped' /\ f \in Procs /\ b \in Books /\ TouchesOwnBook(f)
<1>1. f \in Procs /\ b \in Books
  BY DEF Procs
<1>2. TouchesOwnBook(f)
  BY <1>1 DEF TouchesOwnBook, CallsAreTyped, ImportTypeOK, BeginRetry, At, GoTo, Files, Window
<1>3. ImportTypeOK'
  BY <1>1, <1>2, ImportAssumption DEF CallsAreTyped, ImportTypeOK, BeginRetry, Status, Files, Window
<1>4. CallsHaveBooks'
  BY <1>1, <1>2, ImportAssumption, CallsStay
     DEF CallsAreTyped, CallsHaveBooks, CopySteps, BeginRetry, GoTo, Files, Window, OpeningSteps,
         ImportSteps
<1>. QED  BY <1>1, <1>2, <1>3, <1>4 DEF CallsAreTyped

\* BeginRetry: the retry has found the source whole.
LEMMA BeginRetryIsSound ==
  ASSUME ImportInv, RetriesComeAlone', NEW f \in Flows, NEW b \in Books, BeginRetry(f, b)
  PROVE  ImportInv'
<1>1. f \in Procs /\ b \in Books /\ TouchesOwnBook(f)
  BY BeginRetryTyped DEF ImportInv
<1>3. OneAtWork'
  <2>1. running' = running /\ pc[f] = "idle" /\ pc'[f] = "checked"
    BY <1>1 DEF BeginRetry, GoTo, At, Window, ImportInv, CallsAreTyped, CallsHaveBooks
  <2>2. \A g \in Flows : g # f /\ book[g] = book'[f] => ~AtWork(g)
    BY <1>1, <2>1 DEF RetriesComeAlone, AtWork, TouchesOwnBook, Procs
  <2>. QED  BY <1>1, <2>1, <2>2, WorkStarts DEF OpeningSteps
<1>4. \A g \in Flows \ {f} : book[g] = book'[f] => FlowIsSound(g)'
  BY <1>1
     DEF ImportInv, FlowIsSound, StatusFits, AttemptIsHeld, CopyIsOwn, RetryIsSound, TextIsWritten,
         Doomed, Gone, Status, Owns, Intact, BeginRetry, At, GoTo, Files
<1>5. FlowIsSound(f)'
  BY <1>1
     DEF ImportInv, CallsAreTyped, ImportTypeOK, WindowSteps, FlowIsSound, StatusFits,
         AttemptIsHeld, CopyIsOwn, RetryIsSound, TextIsWritten, Status, Intact, BeginRetry, At,
         GoTo, Files, Window
<1>6. \A c \in Books : c = book'[f] => BookIsSound(c)'
  BY <1>1 DEF ImportInv, BookIsSound, Doomed, Status, Intact, BeginRetry, At, GoTo, Files, Window
<1>. QED  BY <1>1, <1>3, <1>4, <1>5, <1>6, BeginRetryTyped, OwnBookSuffices DEF ImportInv

\* RegisterRetry: the types, the locations, and what it touches.
LEMMA RegisterRetryTyped ==
  ASSUME CallsAreTyped, NEW f \in Flows, RegisterRetry(f)
  PROVE  CallsAreTyped' /\ f \in Procs /\ book[f] \in Books /\ pc[f] # "idle" /\ TouchesOwnBook(f)
<1>1. f \in Procs /\ book[f] \in Books /\ pc[f] # "idle"
  BY DEF CallsAreTyped, CallsHaveBooks, Procs, RegisterRetry, At
<1>2. TouchesOwnBook(f)
  BY <1>1 DEF TouchesOwnBook, RegisterRetry, ClearDerived, Register, GoTo, Window
<1>3. ImportTypeOK'
  <2>1. row' \in [Books -> BookRows]
    BY <1>1 DEF CallsAreTyped, ImportTypeOK, RegisterRetry, BookRows
  <2>2. dir' \in [Books -> BookFiles]
    BY <1>1 DEF CallsAreTyped, ImportTypeOK, RegisterRetry, ClearDerived, BookFiles
  <2>3. \A c \in Books :
          /\ Status(c)' \in {"none", "queued", "copying"} => row'[c].hash = None
          /\ Status(c)' \in {"parsing", "indexing", "ready"} => row'[c].hash # None
    BY <1>1, <1>2, ImportAssumption DEF CallsAreTyped, ImportTypeOK, Status, RegisterRetry
  <2>4. active' \in [Books -> Flows \union {None}] /\ cancelled' \subseteq Flows
    BY <1>1 DEF CallsAreTyped, ImportTypeOK, RegisterRetry, Register
  <2>5. book' \in [Procs -> Books \union {None}] /\ written' \in [Flows -> BOOLEAN] /\ restarts' \in 0..MaxRestarts
    BY <1>1 DEF CallsAreTyped, ImportTypeOK, RegisterRetry, Window
  <2>. QED  BY <2>1, <2>2, <2>3, <2>4, <2>5 DEF ImportTypeOK, BookRows, BookFiles
<1>4. CallsHaveBooks'
  BY <1>1, <1>2, ImportAssumption, CallsStay
     DEF CallsAreTyped, CallsHaveBooks, CopySteps, RegisterRetry, ClearDerived, GoTo, Window,
         OpeningSteps, ImportSteps
<1>. QED  BY <1>1, <1>2, <1>3, <1>4 DEF CallsAreTyped

\* RegisterRetry: no other flow is at work, so the derived document is
\* nobody's (`RetriesComeAlone`).
LEMMA RegisterRetryIsSound ==
  ASSUME ImportInv, NEW f \in Flows, RegisterRetry(f)
  PROVE  ImportInv'
<1>1. f \in Procs /\ book[f] \in Books /\ pc[f] # "idle" /\ TouchesOwnBook(f)
  BY RegisterRetryTyped DEF ImportInv
<1>2. AtWork(f)
  BY DEF RegisterRetry, At, AtWork, OpeningSteps
<1>3. OneAtWork'
  BY <1>1, <1>2, ImportAssumption, WorkStays
     DEF ImportInv, OneAtWork, OpeningSteps, WindowSteps, RegisterRetry, At, GoTo, Window
<1>4. \A g \in Flows \ {f} : book[g] = book'[f] => FlowIsSound(g)'
  BY <1>1, <1>2, OthersStay
     DEF ImportInv, WindowSteps, AtWork, FlowIsSound, StatusFits, Status, RegisterRetry, At
<1>5. FlowIsSound(f)'
  BY <1>1, <1>2
     DEF ImportInv, CallsAreTyped, ImportTypeOK, OpeningSteps, FlowIsSound, StatusFits,
         AttemptIsHeld, CopyIsOwn, RetryIsSound, TextIsWritten, Doomed, Status, Owns, Intact,
         RegisterRetry, At, ClearDerived, Register, GoTo, Window
<1>6. \A c \in Books : c = book'[f] => BookIsSound(c)'
  BY <1>1, <1>2
     DEF ImportInv, OpeningSteps, FlowIsSound, StatusFits, BookIsSound, Status, RegisterRetry, At
<1>. QED  BY <1>1, <1>3, <1>4, <1>5, <1>6, RegisterRetryTyped, OwnBookSuffices DEF ImportInv

\* ResetForRetry: the types, the locations, and what it touches.
LEMMA ResetForRetryTyped ==
  ASSUME CallsAreTyped, NEW f \in Flows, ResetForRetry(f)
  PROVE  CallsAreTyped' /\ f \in Procs /\ book[f] \in Books /\ pc[f] # "idle" /\ TouchesOwnBook(f)
<1>1. f \in Procs /\ book[f] \in Books /\ pc[f] # "idle"
  BY DEF CallsAreTyped, CallsHaveBooks, Procs, ResetForRetry, At
<1>2. TouchesOwnBook(f)
  BY <1>1
     DEF TouchesOwnBook, CallsAreTyped, ImportTypeOK, CallsHaveBooks, ResetForRetry, SetStatus,
         GoTo, Take, Files, Window
<1>3. ImportTypeOK'
  <2>1. row' \in [Books -> BookRows]
    <3>1. row[book[f]] \in BookRows /\ row \in [Books -> BookRows]
      BY <1>1 DEF CallsAreTyped, ImportTypeOK, BookRows
    <3>2. row'[book[f]] \in BookRows
      BY <1>1, <3>1 DEF ResetForRetry, SetStatus, Statuses, BookRows
    <3>3. row' = [row EXCEPT ![book[f]] = row'[book[f]]]
      BY <1>1, <3>1 DEF ResetForRetry, SetStatus
    <3>. QED  BY <3>1, <3>2, <3>3
  <2>2. dir' \in [Books -> BookFiles]
    BY <1>1 DEF CallsAreTyped, ImportTypeOK, ResetForRetry, Files, BookFiles
  <2>3. \A c \in Books :
          /\ Status(c)' \in {"none", "queued", "copying"} => row'[c].hash = None
          /\ Status(c)' \in {"parsing", "indexing", "ready"} => row'[c].hash # None
    BY <1>1, <1>2, ImportAssumption
       DEF CallsAreTyped, ImportTypeOK, Status, ResetForRetry, At, SetStatus
  <2>4. active' \in [Books -> Flows \union {None}] /\ cancelled' \subseteq Flows
    BY <1>1 DEF CallsAreTyped, ImportTypeOK, ResetForRetry, Take
  <2>5. book' \in [Procs -> Books \union {None}] /\ written' \in [Flows -> BOOLEAN] /\ restarts' \in 0..MaxRestarts
    BY <1>1 DEF CallsAreTyped, ImportTypeOK, ResetForRetry, Files, Window
  <2>. QED  BY <2>1, <2>2, <2>3, <2>4, <2>5 DEF ImportTypeOK, BookRows, BookFiles
<1>4. CallsHaveBooks'
  <2>1. pc' \in [Procs -> ImportSteps] /\ pc'[f] # "idle" /\ (f \in Users => pc'[f] \in {"done"} \union CancelSteps)
    BY <1>1, ImportAssumption
       DEF CallsAreTyped, CallsHaveBooks, ResetForRetry, GoTo, OpeningSteps, EndingSteps,
           ImportSteps
  <2>2. source' \in [Flows -> Sources \union {None}] /\ running' \in SUBSET Flows
    BY <1>1 DEF CallsAreTyped, CallsHaveBooks, ResetForRetry, Files, Window
  <2>3. f \in Flows /\ pc'[f] \in CopySteps => source'[f] \in Sources
    BY <1>1 DEF CallsAreTyped, CallsHaveBooks, CopySteps, ResetForRetry, GoTo
  <2>4. \A c \in Books : c = book'[f] =>
          {dir'[c].partial, dir'[c].original} \subseteq {None, dir[c].partial, dir[c].original, f}
    BY <1>1 DEF ResetForRetry, Files
  <2>. QED  BY <1>1, <1>2, <2>1, <2>2, <2>3, <2>4, CallsStay
<1>. QED  BY <1>1, <1>2, <1>3, <1>4 DEF CallsAreTyped

\* ResetForRetry: the source the retry has checked is still whole, or its
\* remover is about to fail the row.
LEMMA ResetForRetryIsSound ==
  ASSUME ImportInv, NEW f \in Flows, ResetForRetry(f)
  PROVE  ImportInv'
<1>1. f \in Procs /\ book[f] \in Books /\ pc[f] # "idle" /\ TouchesOwnBook(f)
  BY ResetForRetryTyped DEF ImportInv
<1>2. AtWork(f)
  BY DEF ResetForRetry, At, AtWork, OpeningSteps
<1>3. OneAtWork'
  <2>1. running' = running /\ book'[f] = book[f]
    BY <1>1, <1>2, ImportAssumption DEF ResetForRetry, Window
  <2>2. f \in Flows => (AtWork(f)' => AtWork(f))
    BY <1>1, <1>2
  <2>3. pc'[f] \in WindowSteps \union {"undo", "report", "reporting"} => f \in running
    BY <1>1, <1>2 DEF ImportInv, CallsAreTyped, CallsHaveBooks, ResetForRetry, GoTo, WindowSteps
  <2>4. f \in running => pc[f] # "done" /\ pc'[f] \notin OpeningSteps \union {"idle"}
    BY <1>1, <1>2 DEF ImportInv, OneAtWork, ResetForRetry, At, OpeningSteps
  <2>. QED  BY <1>1, <2>1, <2>2, <2>3, <2>4, WorkStays
<1>4. \A g \in Flows \ {f} : book[g] = book'[f] => FlowIsSound(g)'
  BY <1>1, <1>2, OthersStay
     DEF ImportInv, CallsAreTyped, ImportTypeOK, WindowSteps, AtWork, FlowIsSound, StatusFits,
         Status, ResetForRetry, At, SetStatus
<1>5. FlowIsSound(f)'
  <2>1. FlowIsSound(f) /\ pc[f] = "reset" /\ book' = book /\ cancelled' = cancelled
    BY DEF ImportInv, ResetForRetry, At
  <2>2. pc'[f] = "failed" \/ (pc'[f] = "created" /\ Status(book[f])' = "parsing" /\ active' = active)
    BY <1>1
       DEF ImportInv, CallsAreTyped, ImportTypeOK, BookRows, CallsHaveBooks, ResetForRetry, Status,
           SetStatus, GoTo
  <2>3. StatusFits(f)'
    BY <2>1, <2>2 DEF StatusFits, Status, OpeningSteps
  <2>4. AttemptIsHeld(f)'
    BY <2>1, <2>2 DEF FlowIsSound, AttemptIsHeld, Owns, WindowSteps
  <2>5. CopyIsOwn(f)' /\ RetryIsSound(f)' /\ TextIsWritten(f)'
    BY <2>1, <2>2 DEF CopyIsOwn, RetryIsSound, TextIsWritten
  <2>. QED  BY <2>3, <2>4, <2>5 DEF FlowIsSound
<1>6. \A c \in Books : c = book'[f] => BookIsSound(c)'
  BY <1>1, <1>2
     DEF ImportInv, CallsAreTyped, ImportTypeOK, CallsHaveBooks, EndingSteps, ImportSteps,
         FlowIsSound, RetryIsSound, TextIsWritten, BookIsSound, Doomed, Status, Intact,
         ResetForRetry, At, SetStatus, GoTo, Take, Files, Window
<1>. QED  BY <1>1, <1>3, <1>4, <1>5, <1>6, ResetForRetryTyped, OwnBookSuffices DEF ImportInv

\* RunCreatedImport: the types, the locations, and what it touches.
LEMMA RunCreatedImportTyped ==
  ASSUME CallsAreTyped, NEW f \in Flows, RunCreatedImport(f)
  PROVE  CallsAreTyped' /\ f \in Procs /\ book[f] \in Books /\ pc[f] # "idle" /\ TouchesOwnBook(f)
<1>1. f \in Procs /\ book[f] \in Books /\ pc[f] # "idle"
  BY DEF CallsAreTyped, CallsHaveBooks, Procs, RunCreatedImport, At
<1>2. TouchesOwnBook(f)
  BY <1>1 DEF TouchesOwnBook, CallsAreTyped, CallsHaveBooks, RunCreatedImport, GoTo, Files
<1>3. ImportTypeOK'
  <2>1. row' \in [Books -> BookRows]
    BY <1>1 DEF CallsAreTyped, ImportTypeOK, RunCreatedImport, BookRows
  <2>2. dir' \in [Books -> BookFiles]
    BY <1>1 DEF CallsAreTyped, ImportTypeOK, RunCreatedImport, Files, BookFiles
  <2>3. \A c \in Books :
          /\ Status(c)' \in {"none", "queued", "copying"} => row'[c].hash = None
          /\ Status(c)' \in {"parsing", "indexing", "ready"} => row'[c].hash # None
    BY <1>1, <1>2, ImportAssumption DEF CallsAreTyped, ImportTypeOK, Status, RunCreatedImport
  <2>4. active' \in [Books -> Flows \union {None}] /\ cancelled' \subseteq Flows
    BY <1>1 DEF CallsAreTyped, ImportTypeOK, RunCreatedImport
  <2>5. book' \in [Procs -> Books \union {None}] /\ written' \in [Flows -> BOOLEAN] /\ restarts' \in 0..MaxRestarts
    BY <1>1 DEF CallsAreTyped, ImportTypeOK, RunCreatedImport, Files
  <2>. QED  BY <2>1, <2>2, <2>3, <2>4, <2>5 DEF ImportTypeOK, BookRows, BookFiles
<1>4. CallsHaveBooks'
  <2>1. pc' \in [Procs -> ImportSteps] /\ pc'[f] # "idle" /\ (f \in Users => pc'[f] \in {"done"} \union CancelSteps)
    BY <1>1, ImportAssumption
       DEF CallsAreTyped, CallsHaveBooks, RunCreatedImport, GoTo, WindowSteps, EndingSteps,
           ImportSteps
  <2>2. source' \in [Flows -> Sources \union {None}] /\ running' \in SUBSET Flows
    BY <1>1 DEF CallsAreTyped, CallsHaveBooks, RunCreatedImport, Files
  <2>3. f \in Flows /\ pc'[f] \in CopySteps => source'[f] \in Sources
    BY <1>1 DEF CallsAreTyped, CallsHaveBooks, CopySteps, RunCreatedImport, GoTo
  <2>4. \A c \in Books : c = book'[f] =>
          {dir'[c].partial, dir'[c].original} \subseteq {None, dir[c].partial, dir[c].original, f}
    BY <1>1 DEF RunCreatedImport, Files
  <2>. QED  BY <1>1, <1>2, <2>1, <2>2, <2>3, <2>4, CallsStay
<1>. QED  BY <1>1, <1>2, <1>3, <1>4 DEF CallsAreTyped

\* RunCreatedImport: the window runs one flow of a book at a time.
LEMMA RunCreatedImportIsSound ==
  ASSUME ImportInv, NEW f \in Flows, RunCreatedImport(f)
  PROVE  ImportInv'
<1>1. f \in Procs /\ book[f] \in Books /\ pc[f] # "idle" /\ TouchesOwnBook(f)
  BY RunCreatedImportTyped DEF ImportInv
<1>2. AtWork(f)
  BY DEF RunCreatedImport, At, AtWork, OpeningSteps
<1>3. OneAtWork'
  <2>1. \A q \in Flows : q # f => pc'[q] = pc[q] /\ book'[q] = book[q] /\ (AtWork(q)' <=> AtWork(q))
    BY <1>1 DEF TouchesOwnBook, Procs, AtWork
  <2>2. book'[f] = book[f] /\ pc[f] = "created" /\ running \subseteq Flows
    BY DEF RunCreatedImport, At, ImportInv, CallsAreTyped, CallsHaveBooks
  <2>3. \/ pc'[f] \in {"abort", "done"} /\ running' = running
        \/ pc'[f] = "read" /\ running' = running \union {f} /\ ~RunsInWindow(book[f])
    BY <1>1 DEF RunCreatedImport, GoTo, ImportInv, CallsAreTyped, CallsHaveBooks
  <2>4. \A g, h \in Flows : g # h /\ book'[g] = book'[h] /\ AtWork(g)' => ~AtWork(h)'
    BY <2>1, <2>2, <2>3 DEF ImportInv, OneAtWork, AtWork, OpeningSteps
  <2>5. \A g \in Flows : pc'[g] \in WindowSteps \union {"undo", "report", "reporting"} => g \in running'
    BY <2>1, <2>2, <2>3 DEF ImportInv, OneAtWork, WindowSteps
  <2>6. \A g \in running' : pc'[g] \notin OpeningSteps \union {"idle"}
    BY <2>1, <2>2, <2>3 DEF ImportInv, OneAtWork, OpeningSteps
  <2>7. \A g, h \in running' : g # h /\ book'[g] = book'[h] => pc'[g] = "done" \/ pc'[h] = "done"
    BY <2>1, <2>2, <2>3 DEF ImportInv, OneAtWork, RunsInWindow
  <2>. QED  BY <2>4, <2>5, <2>6, <2>7 DEF OneAtWork
<1>4. \A g \in Flows \ {f} : book[g] = book'[f] => FlowIsSound(g)'
  BY <1>1, <1>2, OthersStay DEF ImportInv, FlowIsSound, StatusFits, Status, RunCreatedImport, At
<1>5. FlowIsSound(f)'
  BY <1>1, <1>2
     DEF ImportInv, CallsAreTyped, CallsHaveBooks, OpeningSteps, FlowIsSound, StatusFits,
         AttemptIsHeld, CopyIsOwn, RetryIsSound, TextIsWritten, Status, Owns, RunCreatedImport, At,
         GoTo
<1>6. \A c \in Books : c = book'[f] => BookIsSound(c)'
  BY <1>1, <1>2
     DEF ImportInv, TouchesOwnBook, BookIsSound, Doomed, Status, Intact, RunCreatedImport, At, Files
<1>. QED  BY <1>1, <1>3, <1>4, <1>5, <1>6, RunCreatedImportTyped, OwnBookSuffices DEF ImportInv

\* NoticeAbort: the types, the locations, and what it touches.
LEMMA NoticeAbortTyped ==
  ASSUME CallsAreTyped, NEW f \in Flows, NoticeAbort(f)
  PROVE  CallsAreTyped' /\ f \in Procs /\ book[f] \in Books /\ pc[f] # "idle" /\ TouchesOwnBook(f)
<1>1. f \in Procs /\ book[f] \in Books /\ pc[f] # "idle"
  BY DEF CallsAreTyped, CallsHaveBooks, Procs, NoticeAbort
<1>2. TouchesOwnBook(f)
  BY <1>1 DEF TouchesOwnBook, NoticeAbort, GoTo, Files, Window
<1>3. ImportTypeOK'
  <2>1. row' \in [Books -> BookRows]
    BY <1>1 DEF CallsAreTyped, ImportTypeOK, NoticeAbort, BookRows
  <2>2. dir' \in [Books -> BookFiles]
    BY <1>1 DEF CallsAreTyped, ImportTypeOK, NoticeAbort, Files, BookFiles
  <2>3. \A c \in Books :
          /\ Status(c)' \in {"none", "queued", "copying"} => row'[c].hash = None
          /\ Status(c)' \in {"parsing", "indexing", "ready"} => row'[c].hash # None
    BY <1>1, <1>2, ImportAssumption DEF CallsAreTyped, ImportTypeOK, Status, NoticeAbort
  <2>4. active' \in [Books -> Flows \union {None}] /\ cancelled' \subseteq Flows
    BY <1>1 DEF CallsAreTyped, ImportTypeOK, NoticeAbort
  <2>5. book' \in [Procs -> Books \union {None}] /\ written' \in [Flows -> BOOLEAN] /\ restarts' \in 0..MaxRestarts
    BY <1>1 DEF CallsAreTyped, ImportTypeOK, NoticeAbort, Files, Window
  <2>. QED  BY <2>1, <2>2, <2>3, <2>4, <2>5 DEF ImportTypeOK, BookRows, BookFiles
<1>4. CallsHaveBooks'
  BY <1>1, <1>2, ImportAssumption, CallsStay
     DEF CallsAreTyped, CallsHaveBooks, CopySteps, NoticeAbort, GoTo, Files, Window, EndingSteps,
         ImportSteps
<1>. QED  BY <1>1, <1>2, <1>3, <1>4 DEF CallsAreTyped

\* NoticeAbort: the flow stops working and changes no row and no file.
LEMMA NoticeAbortIsSound ==
  ASSUME ImportInv, NEW f \in Flows, NoticeAbort(f)
  PROVE  ImportInv'
<1>1. f \in Procs /\ book[f] \in Books /\ pc[f] # "idle" /\ TouchesOwnBook(f)
  BY NoticeAbortTyped DEF ImportInv
<1>2. AtWork(f)
  BY DEF NoticeAbort, AtWork, WindowSteps
<1>3. OneAtWork'
  BY <1>1, <1>2, ImportAssumption, WorkStays
     DEF ImportInv, OneAtWork, OpeningSteps, WindowSteps, NoticeAbort, GoTo, Window
<1>4. \A g \in Flows \ {f} : book[g] = book'[f] => FlowIsSound(g)'
  BY <1>1, <1>2, OthersStay DEF ImportInv, FlowIsSound, StatusFits, Status, NoticeAbort
<1>5. FlowIsSound(f)'
  BY <1>1, <1>2
     DEF ImportInv, OpeningSteps, WindowSteps, FlowIsSound, StatusFits, AttemptIsHeld, CopyIsOwn,
         RetryIsSound, TextIsWritten, Doomed, Gone, Status, Owns, NoticeAbort, GoTo, Files, Window
<1>6. \A c \in Books : c = book'[f] => BookIsSound(c)'
  BY <1>1, <1>2 DEF ImportInv, BookIsSound, Doomed, Status, Intact, NoticeAbort, GoTo, Files, Window
<1>. QED  BY <1>1, <1>3, <1>4, <1>5, <1>6, NoticeAbortTyped, OwnBookSuffices DEF ImportInv

\* ReadBookSource: the types, the locations, and what it touches.
LEMMA ReadBookSourceTyped ==
  ASSUME CallsAreTyped, NEW f \in Flows, ReadBookSource(f)
  PROVE  CallsAreTyped' /\ f \in Procs /\ book[f] \in Books /\ pc[f] # "idle" /\ TouchesOwnBook(f)
<1>1. f \in Procs /\ book[f] \in Books /\ pc[f] # "idle"
  BY DEF CallsAreTyped, CallsHaveBooks, Procs, ReadBookSource, At, Runs
<1>2. TouchesOwnBook(f)
  BY <1>1 DEF TouchesOwnBook, CallsAreTyped, CallsHaveBooks, ReadBookSource, GoTo, Files, Window
<1>3. ImportTypeOK'
  BY <1>1, <1>2, ImportAssumption
     DEF CallsAreTyped, ImportTypeOK, ReadBookSource, Status, Files, Window
<1>4. CallsHaveBooks'
  <2>1. pc' \in [Procs -> ImportSteps] /\ pc'[f] # "idle" /\ (f \in Users => pc'[f] \in {"done"} \union CancelSteps)
    BY <1>1, ImportAssumption
       DEF CallsAreTyped, CallsHaveBooks, ReadBookSource, GoTo, WindowSteps, EndingSteps,
           ImportSteps
  <2>2. source' \in [Flows -> Sources \union {None}] /\ running' \in SUBSET Flows
    BY <1>1 DEF CallsAreTyped, CallsHaveBooks, ReadBookSource, Files, Window
  <2>3. f \in Flows /\ pc'[f] \in CopySteps => source'[f] \in Sources
    BY <1>1 DEF CallsAreTyped, CallsHaveBooks, CopySteps, ReadBookSource, GoTo
  <2>4. \A c \in Books : c = book'[f] =>
          {dir'[c].partial, dir'[c].original} \subseteq {None, dir[c].partial, dir[c].original, f}
    BY <1>1 DEF ReadBookSource, Files
  <2>. QED  BY <1>1, <1>2, <2>1, <2>2, <2>3, <2>4, CallsStay
<1>. QED  BY <1>1, <1>2, <1>3, <1>4 DEF CallsAreTyped

\* ReadBookSource: the flow only looks.
LEMMA ReadBookSourceIsSound ==
  ASSUME ImportInv, NEW f \in Flows, ReadBookSource(f)
  PROVE  ImportInv'
<1>1. f \in Procs /\ book[f] \in Books /\ pc[f] # "idle" /\ TouchesOwnBook(f)
  BY ReadBookSourceTyped DEF ImportInv
<1>2. AtWork(f)
  BY DEF ReadBookSource, At, Runs, AtWork, WindowSteps
<1>3. OneAtWork'
  <2>1. running' = running /\ book'[f] = book[f]
    BY <1>1, <1>2, ImportAssumption DEF ReadBookSource, Window
  <2>2. f \in Flows => (AtWork(f)' => AtWork(f))
    BY <1>1, <1>2
  <2>3. pc'[f] \in WindowSteps \union {"undo", "report", "reporting"} => f \in running
    BY <1>1, <1>2 DEF ImportInv, OneAtWork, ReadBookSource, Runs, At, WindowSteps
  <2>4. f \in running => pc[f] # "done" /\ pc'[f] \notin OpeningSteps \union {"idle"}
    BY <1>1, <1>2
       DEF ImportInv, CallsAreTyped, CallsHaveBooks, ReadBookSource, Runs, At, GoTo, OpeningSteps
  <2>. QED  BY <1>1, <2>1, <2>2, <2>3, <2>4, WorkStays
<1>4. \A g \in Flows \ {f} : book[g] = book'[f] => FlowIsSound(g)'
  BY <1>1, <1>2, OthersStay DEF ImportInv, FlowIsSound, StatusFits, Status, ReadBookSource, Runs, At
<1>5. FlowIsSound(f)'
  BY <1>1, <1>2
     DEF ImportInv, CallsAreTyped, CallsHaveBooks, OpeningSteps, CancelSteps, EndingSteps,
         ImportSteps, FlowIsSound, StatusFits, AttemptIsHeld, CopyIsOwn, RetryIsSound,
         TextIsWritten, Status, Owns, ReadBookSource, Runs, At, GoTo, Files, Window
<1>6. \A c \in Books : c = book'[f] => BookIsSound(c)'
  BY <1>1, <1>2
     DEF ImportInv, TouchesOwnBook, BookIsSound, Doomed, Status, Intact, ReadBookSource, Runs, At,
         Files
<1>. QED  BY <1>1, <1>3, <1>4, <1>5, <1>6, ReadBookSourceTyped, OwnBookSuffices DEF ImportInv

\* BeginParse: the types, the locations, and what it touches.
LEMMA BeginParseTyped ==
  ASSUME CallsAreTyped, NEW f \in Flows, BeginParse(f)
  PROVE  CallsAreTyped' /\ f \in Procs /\ book[f] \in Books /\ pc[f] # "idle" /\ TouchesOwnBook(f)
<1>1. f \in Procs /\ book[f] \in Books /\ pc[f] # "idle"
  BY DEF CallsAreTyped, CallsHaveBooks, Procs, BeginParse, At, Runs
<1>2. TouchesOwnBook(f)
  BY <1>1
     DEF TouchesOwnBook, CallsAreTyped, ImportTypeOK, CallsHaveBooks, BeginParse, GoTo, Register,
         Files, Window
<1>3. ImportTypeOK'
  <2>1. row' \in [Books -> BookRows]
    BY <1>1, BeginParseRow
  <2>2. dir' \in [Books -> BookFiles]
    BY <1>1 DEF CallsAreTyped, ImportTypeOK, BeginParse, Files, BookFiles
  <2>3. \A c \in Books :
          /\ Status(c)' \in {"none", "queued", "copying"} => row'[c].hash = None
          /\ Status(c)' \in {"parsing", "indexing", "ready"} => row'[c].hash # None
    BY <1>1, <1>2, ImportAssumption, BeginParseRow
       DEF CallsAreTyped, ImportTypeOK, Status, BeginParse
  <2>4. active' \in [Books -> Flows \union {None}] /\ cancelled' \subseteq Flows
    BY <1>1 DEF CallsAreTyped, ImportTypeOK, BeginParse, Register
  <2>5. book' \in [Procs -> Books \union {None}] /\ written' \in [Flows -> BOOLEAN] /\ restarts' \in 0..MaxRestarts
    BY <1>1 DEF CallsAreTyped, ImportTypeOK, BeginParse, Files, Window
  <2>. QED  BY <2>1, <2>2, <2>3, <2>4, <2>5 DEF ImportTypeOK, BookRows, BookFiles
<1>4. CallsHaveBooks'
  <2>1. pc' \in [Procs -> ImportSteps] /\ pc'[f] # "idle" /\ (f \in Users => pc'[f] \in {"done"} \union CancelSteps)
    BY <1>1, ImportAssumption
       DEF CallsAreTyped, CallsHaveBooks, BeginParse, GoTo, WindowSteps, EndingSteps, ImportSteps
  <2>2. source' \in [Flows -> Sources \union {None}] /\ running' \in SUBSET Flows
    BY <1>1 DEF CallsAreTyped, CallsHaveBooks, BeginParse, Files, Window
  <2>3. f \in Flows /\ pc'[f] \in CopySteps => source'[f] \in Sources
    BY <1>1 DEF CallsAreTyped, CallsHaveBooks, CopySteps, BeginParse, GoTo
  <2>4. \A c \in Books : c = book'[f] =>
          {dir'[c].partial, dir'[c].original} \subseteq {None, dir[c].partial, dir[c].original, f}
    BY <1>1 DEF BeginParse, Files
  <2>. QED  BY <1>1, <1>2, <2>1, <2>2, <2>3, <2>4, CallsStay
<1>. QED  BY <1>1, <1>2, <1>3, <1>4 DEF CallsAreTyped

\* BeginParse: the sections go and the source stays; the flow holds the
\* attempt or it was cancelled.
LEMMA BeginParseIsSound ==
  ASSUME ImportInv, NEW f \in Flows, BeginParse(f)
  PROVE  ImportInv'
<1>1. CallsAreTyped /\ f \in Procs /\ book[f] \in Books /\ pc[f] # "idle" /\ TouchesOwnBook(f)
  BY BeginParseTyped DEF ImportInv
<1>2. AtWork(f)
  BY DEF BeginParse, At, Runs, AtWork, WindowSteps
<1>3. OneAtWork'
  <2>1. running' = running /\ book'[f] = book[f]
    BY <1>1, <1>2, ImportAssumption DEF BeginParse, Window
  <2>2. f \in Flows => (AtWork(f)' => AtWork(f))
    BY <1>1, <1>2
  <2>3. pc'[f] \in WindowSteps \union {"undo", "report", "reporting"} => f \in running
    BY <1>1, <1>2 DEF ImportInv, OneAtWork, BeginParse, Runs, At, WindowSteps
  <2>4. f \in running => pc[f] # "done" /\ pc'[f] \notin OpeningSteps \union {"idle"}
    BY <1>1, <1>2 DEF CallsAreTyped, CallsHaveBooks, BeginParse, Runs, At, GoTo, OpeningSteps
  <2>. QED  BY <1>1, <2>1, <2>2, <2>3, <2>4, WorkStays
<1>4. \A g \in Flows \ {f} : book[g] = book'[f] => FlowIsSound(g)'
  BY <1>1, <1>2, BeginParseRow, OthersStay
     DEF ImportInv, FlowIsSound, StatusFits, Status, BeginParse, At, Runs
<1>5. FlowIsSound(f)'
  <2>1. FlowIsSound(f)
    BY DEF ImportInv
  <2>2. StatusFits(f)'
    BY <1>1, <1>2, <2>1, BeginParseRow
       DEF OpeningSteps, FlowIsSound, StatusFits, Status, BeginParse, At, Runs
  <2>3. AttemptIsHeld(f)'
    BY <1>1, <1>2, <2>1
       DEF CallsAreTyped, ImportTypeOK, WindowSteps, FlowIsSound, AttemptIsHeld, Owns, BeginParse,
           Runs, At, Register
  <2>4. CopyIsOwn(f)'
    BY <1>1, <1>2, <2>1 DEF CallsAreTyped, CallsHaveBooks, CopyIsOwn, BeginParse, GoTo
  <2>5. RetryIsSound(f)'
    BY <1>1, <1>2, <2>1 DEF CallsAreTyped, CallsHaveBooks, RetryIsSound, BeginParse, GoTo
  <2>6. TextIsWritten(f)'
    BY <1>1, <1>2, <2>1 DEF CallsAreTyped, CallsHaveBooks, TextIsWritten, BeginParse, GoTo
  <2>. QED  BY <2>2, <2>3, <2>4, <2>5, <2>6 DEF FlowIsSound
<1>6. \A c \in Books : c = book'[f] => BookIsSound(c)'
  <2>1. BookIsSound(book[f]) /\ FlowIsSound(f) /\ book'[f] = book[f] /\ pc[f] = "parse"
    BY <1>1 DEF ImportInv, BeginParse, At, Runs
  <2>2. source' = source /\ written' = written /\ cut' = cut
    BY DEF BeginParse, Files, Window
  <2>3. Doomed(book[f]) => Doomed(book[f])'
    BY <1>1, <2>1, DoomStaysHere
  <2>4. dir' = dir
    BY DEF BeginParse, Files
  <2>5. Intact(book[f], row[book[f]].hash) => Intact(book[f], row[book[f]].hash)'
    BY <1>1, <2>1, <2>2, <2>4, BeginParseRow DEF Intact
  <2>6. Status(book[f]) # "ready" /\ Status(book[f])' # "ready"
    BY <1>1, <2>1, BeginParseRow DEF FlowIsSound, StatusFits, Status
  <2>. QED
    BY <1>1, <2>1, <2>2, <2>3, <2>5, <2>6, BeginParseRow DEF BookIsSound, Status
<1>. QED  BY <1>1, <1>3, <1>4, <1>5, <1>6, BeginParseTyped, OwnBookSuffices

\* WriteDerived: the types, the locations, and what it touches.
LEMMA WriteDerivedTyped ==
  ASSUME CallsAreTyped, NEW f \in Flows, WriteDerived(f)
  PROVE  CallsAreTyped' /\ f \in Procs /\ book[f] \in Books /\ pc[f] # "idle" /\ TouchesOwnBook(f)
<1>1. f \in Procs /\ book[f] \in Books /\ pc[f] # "idle"
  BY DEF CallsAreTyped, CallsHaveBooks, Procs, WriteDerived, At, Runs
<1>2. TouchesOwnBook(f)
  BY <1>1
     DEF TouchesOwnBook, CallsAreTyped, ImportTypeOK, CallsHaveBooks, WriteDerived, GoTo, Window
<1>3. ImportTypeOK'
  <2>1. row' \in [Books -> BookRows]
    BY <1>1 DEF CallsAreTyped, ImportTypeOK, WriteDerived, BookRows
  <2>2. dir' \in [Books -> BookFiles]
    <3>1. dir[book[f]] \in BookFiles /\ dir \in [Books -> BookFiles]
      BY <1>1 DEF CallsAreTyped, ImportTypeOK, BookFiles
    <3>2. dir'[book[f]] \in {dir[book[f]], NoFiles, [dir[book[f]] EXCEPT !.html = TRUE], [dir[book[f]] EXCEPT !.html = FALSE]}
      BY <1>1, <3>1 DEF WriteDerived
    <3>3. dir' = [dir EXCEPT ![book[f]] = dir'[book[f]]]
      BY <1>1, <3>1 DEF WriteDerived
    <3>. QED  BY <3>1, <3>2, <3>3, FilesTyped
  <2>3. \A c \in Books :
          /\ Status(c)' \in {"none", "queued", "copying"} => row'[c].hash = None
          /\ Status(c)' \in {"parsing", "indexing", "ready"} => row'[c].hash # None
    BY <1>1, <1>2, ImportAssumption DEF CallsAreTyped, ImportTypeOK, Status, WriteDerived
  <2>4. active' \in [Books -> Flows \union {None}] /\ cancelled' \subseteq Flows
    BY <1>1 DEF CallsAreTyped, ImportTypeOK, WriteDerived
  <2>5. book' \in [Procs -> Books \union {None}] /\ written' \in [Flows -> BOOLEAN] /\ restarts' \in 0..MaxRestarts
    BY <1>1 DEF CallsAreTyped, ImportTypeOK, WriteDerived, Window
  <2>. QED  BY <2>1, <2>2, <2>3, <2>4, <2>5 DEF ImportTypeOK, BookRows, BookFiles
<1>4. CallsHaveBooks'
  <2>1. pc' \in [Procs -> ImportSteps] /\ pc'[f] # "idle" /\ (f \in Users => pc'[f] \in {"done"} \union CancelSteps)
    <3>1. pc \in [Procs -> ImportSteps] /\ f \notin Users
      BY ImportAssumption DEF CallsAreTyped, CallsHaveBooks
    <3>2. pc' = [pc EXCEPT ![f] = pc'[f]] /\ pc'[f] \in {"wrote", "abort", "report"}
      BY <1>1, <3>1 DEF WriteDerived, GoTo
    <3>3. {"wrote", "abort", "report"} \subseteq ImportSteps \ {"idle"}
      BY DEF WindowSteps, EndingSteps, ImportSteps
    <3>. QED  BY <3>1, <3>2, <3>3
  <2>2. source' \in [Flows -> Sources \union {None}] /\ running' \in SUBSET Flows
    BY <1>1 DEF CallsAreTyped, CallsHaveBooks, WriteDerived, Window
  <2>3. f \in Flows /\ pc'[f] \in CopySteps => source'[f] \in Sources
    BY <1>1 DEF CallsAreTyped, CallsHaveBooks, CopySteps, WriteDerived, GoTo
  <2>4. \A c \in Books : c = book'[f] =>
          {dir'[c].partial, dir'[c].original} \subseteq {None, dir[c].partial, dir[c].original, f}
    BY <1>1 DEF CallsAreTyped, ImportTypeOK, WriteDerived
  <2>. QED  BY <1>1, <1>2, <2>1, <2>2, <2>3, <2>4, CallsStay
<1>. QED  BY <1>1, <1>2, <1>3, <1>4 DEF CallsAreTyped

\* WriteDerived: the derived document is there from here on, unless a
\* cancellation is about to fail the row.
LEMMA WriteDerivedIsSound ==
  ASSUME ImportInv, NEW f \in Flows, WriteDerived(f)
  PROVE  ImportInv'
<1>1. f \in Procs /\ book[f] \in Books /\ pc[f] # "idle" /\ TouchesOwnBook(f)
  BY WriteDerivedTyped DEF ImportInv
<1>2. AtWork(f)
  BY DEF WriteDerived, At, Runs, AtWork, WindowSteps
<1>3. OneAtWork'
  <2>1. running' = running /\ book'[f] = book[f]
    BY <1>1, <1>2, ImportAssumption DEF WriteDerived, Window
  <2>2. f \in Flows => (AtWork(f)' => AtWork(f))
    BY <1>1, <1>2
  <2>3. pc'[f] \in WindowSteps \union {"undo", "report", "reporting"} => f \in running
    BY <1>1, <1>2 DEF ImportInv, OneAtWork, WriteDerived, Runs, At, WindowSteps
  <2>4. f \in running => pc[f] # "done" /\ pc'[f] \notin OpeningSteps \union {"idle"}
    BY <1>1, <1>2
       DEF ImportInv, CallsAreTyped, CallsHaveBooks, WriteDerived, Runs, At, GoTo, OpeningSteps
  <2>. QED  BY <1>1, <2>1, <2>2, <2>3, <2>4, WorkStays
<1>4. \A g \in Flows \ {f} : book[g] = book'[f] => FlowIsSound(g)'
  BY <1>1, <1>2, OthersStay DEF ImportInv, FlowIsSound, StatusFits, Status, WriteDerived, Runs, At
<1>5. FlowIsSound(f)'
  BY <1>1, <1>2
     DEF ImportInv, CallsAreTyped, ImportTypeOK, CallsHaveBooks, OpeningSteps, WindowSteps,
         FlowIsSound, StatusFits, AttemptIsHeld, CopyIsOwn, RetryIsSound, TextIsWritten, Status,
         Owns, WriteDerived, Runs, At, MayGoOn, Lease, Cancelled, GoTo, Window
<1>6. \A c \in Books : c = book'[f] => BookIsSound(c)'
  <2>1. BookIsSound(book[f]) /\ FlowIsSound(f) /\ book'[f] = book[f] /\ pc[f] = "write"
    BY <1>1 DEF ImportInv, WriteDerived, At, Runs
  <2>2. source' = source /\ written' = written /\ cut' = cut
    BY DEF WriteDerived, Window
  <2>3. Doomed(book[f]) => Doomed(book[f])'
    BY <1>1, <2>1, DoomStaysHere
  <2>4. row' = row /\ dir'[book[f]].original = dir[book[f]].original
    BY <1>1 DEF WriteDerived, ImportInv, CallsAreTyped, ImportTypeOK
  <2>5. Intact(book[f], row[book[f]].hash) => Intact(book[f], row[book[f]].hash)'
    BY <1>1, <2>1, <2>2, <2>4 DEF Intact
  <2>6. Status(book[f]) # "ready"
    BY <2>1 DEF FlowIsSound, StatusFits
  <2>. QED
    BY <1>1, <2>1, <2>2, <2>3, <2>4, <2>5, <2>6 DEF BookIsSound, Status
<1>. QED  BY <1>1, <1>3, <1>4, <1>5, <1>6, WriteDerivedTyped, OwnBookSuffices DEF ImportInv

\* RecheckDerived: the types, the locations, and what it touches.
LEMMA RecheckDerivedTyped ==
  ASSUME CallsAreTyped, NEW f \in Flows, RecheckDerived(f)
  PROVE  CallsAreTyped' /\ f \in Procs /\ book[f] \in Books /\ pc[f] # "idle" /\ TouchesOwnBook(f)
<1>1. f \in Procs /\ book[f] \in Books /\ pc[f] # "idle"
  BY DEF CallsAreTyped, CallsHaveBooks, Procs, RecheckDerived, At
<1>2. TouchesOwnBook(f)
  BY <1>1
     DEF TouchesOwnBook, CallsAreTyped, ImportTypeOK, CallsHaveBooks, RecheckDerived, GoTo,
         RemoveBookDirectory, ClearDerived, Window
<1>3. ImportTypeOK'
  <2>1. row' \in [Books -> BookRows]
    BY <1>1 DEF CallsAreTyped, ImportTypeOK, RecheckDerived, BookRows
  <2>2. dir' \in [Books -> BookFiles]
    <3>1. dir[book[f]] \in BookFiles /\ dir \in [Books -> BookFiles]
      BY <1>1 DEF CallsAreTyped, ImportTypeOK, BookFiles
    <3>2. dir'[book[f]] \in {dir[book[f]], NoFiles, [dir[book[f]] EXCEPT !.html = TRUE], [dir[book[f]] EXCEPT !.html = FALSE]}
      BY <1>1, <3>1 DEF RecheckDerived, RemoveBookDirectory, ClearDerived
    <3>3. dir' = [dir EXCEPT ![book[f]] = dir'[book[f]]]
      BY <1>1, <3>1 DEF RecheckDerived, RemoveBookDirectory, ClearDerived
    <3>. QED  BY <3>1, <3>2, <3>3, FilesTyped
  <2>3. \A c \in Books :
          /\ Status(c)' \in {"none", "queued", "copying"} => row'[c].hash = None
          /\ Status(c)' \in {"parsing", "indexing", "ready"} => row'[c].hash # None
    BY <1>1, <1>2, ImportAssumption DEF CallsAreTyped, ImportTypeOK, Status, RecheckDerived
  <2>4. active' \in [Books -> Flows \union {None}] /\ cancelled' \subseteq Flows
    BY <1>1 DEF CallsAreTyped, ImportTypeOK, RecheckDerived
  <2>5. book' \in [Procs -> Books \union {None}] /\ written' \in [Flows -> BOOLEAN] /\ restarts' \in 0..MaxRestarts
    BY <1>1 DEF CallsAreTyped, ImportTypeOK, RecheckDerived, Window
  <2>. QED  BY <2>1, <2>2, <2>3, <2>4, <2>5 DEF ImportTypeOK, BookRows, BookFiles
<1>4. CallsHaveBooks'
  <2>1. pc' \in [Procs -> ImportSteps] /\ pc'[f] # "idle" /\ (f \in Users => pc'[f] \in {"done"} \union CancelSteps)
    BY <1>1, ImportAssumption
       DEF CallsAreTyped, CallsHaveBooks, RecheckDerived, GoTo, WindowSteps, EndingSteps,
           ImportSteps
  <2>2. source' \in [Flows -> Sources \union {None}] /\ running' \in SUBSET Flows
    BY <1>1 DEF CallsAreTyped, CallsHaveBooks, RecheckDerived, Window
  <2>3. f \in Flows /\ pc'[f] \in CopySteps => source'[f] \in Sources
    BY <1>1 DEF CallsAreTyped, CallsHaveBooks, CopySteps, RecheckDerived, GoTo
  <2>4. \A c \in Books : c = book'[f] =>
          {dir'[c].partial, dir'[c].original} \subseteq {None, dir[c].partial, dir[c].original, f}
    BY <1>1
       DEF CallsAreTyped, ImportTypeOK, RecheckDerived, RemoveBookDirectory, NoFiles, ClearDerived
  <2>. QED  BY <1>1, <1>2, <2>1, <2>2, <2>3, <2>4, CallsStay
<1>. QED  BY <1>1, <1>2, <1>3, <1>4 DEF CallsAreTyped

\* RecheckDerived: what is removed is the document of a row that is no
\* longer parsing.
LEMMA RecheckDerivedIsSound ==
  ASSUME ImportInv, NEW f \in Flows, RecheckDerived(f)
  PROVE  ImportInv'
<1>1. f \in Procs /\ book[f] \in Books /\ pc[f] # "idle" /\ TouchesOwnBook(f)
  BY RecheckDerivedTyped DEF ImportInv
<1>2. AtWork(f)
  BY DEF RecheckDerived, At, AtWork, WindowSteps
<1>3. OneAtWork'
  <2>1. running' = running /\ book'[f] = book[f]
    BY <1>1, <1>2, ImportAssumption DEF RecheckDerived, Window
  <2>2. f \in Flows => (AtWork(f)' => AtWork(f))
    BY <1>1, <1>2
  <2>3. pc'[f] \in WindowSteps \union {"undo", "report", "reporting"} => f \in running
    BY <1>1, <1>2 DEF ImportInv, OneAtWork, RecheckDerived, At, WindowSteps
  <2>4. f \in running => pc[f] # "done" /\ pc'[f] \notin OpeningSteps \union {"idle"}
    BY <1>1, <1>2
       DEF ImportInv, CallsAreTyped, CallsHaveBooks, RecheckDerived, At, GoTo, OpeningSteps
  <2>. QED  BY <1>1, <2>1, <2>2, <2>3, <2>4, WorkStays
<1>4. \A g \in Flows \ {f} : book[g] = book'[f] => FlowIsSound(g)'
  BY <1>1, <1>2, OthersStay DEF ImportInv, FlowIsSound, StatusFits, Status, RecheckDerived, At
<1>5. FlowIsSound(f)'
  BY <1>1, <1>2
     DEF ImportInv, CallsAreTyped, CallsHaveBooks, OpeningSteps, CancelSteps, EndingSteps,
         ImportSteps, FlowIsSound, StatusFits, AttemptIsHeld, CopyIsOwn, RetryIsSound,
         TextIsWritten, Doomed, Gone, Status, Owns, Intact, RecheckDerived, At, MayGoOn, Lease,
         Cancelled, GoTo, RemoveBookDirectory, NoFiles, ClearDerived, Window
<1>6. \A c \in Books : c = book'[f] => BookIsSound(c)'
  BY <1>1, <1>2
     DEF ImportInv, TouchesOwnBook, FlowIsSound, StatusFits, BookIsSound, Doomed, Status, Intact,
         RecheckDerived, At
<1>. QED  BY <1>1, <1>3, <1>4, <1>5, <1>6, RecheckDerivedTyped, OwnBookSuffices DEF ImportInv

\* AppendSections: the types, the locations, and what it touches.
LEMMA AppendSectionsTyped ==
  ASSUME CallsAreTyped, NEW f \in Flows, AppendSections(f)
  PROVE  CallsAreTyped' /\ f \in Procs /\ book[f] \in Books /\ pc[f] # "idle" /\ TouchesOwnBook(f)
<1>1. f \in Procs /\ book[f] \in Books /\ pc[f] # "idle"
  BY DEF CallsAreTyped, CallsHaveBooks, Procs, AppendSections, At, Runs
<1>2. TouchesOwnBook(f)
  BY <1>1
     DEF TouchesOwnBook, CallsAreTyped, ImportTypeOK, CallsHaveBooks, AppendSections, GoTo, Files,
         Window
<1>3. ImportTypeOK'
  <2>1. row' \in [Books -> BookRows]
    BY <1>1, AppendSectionsRow
  <2>2. dir' \in [Books -> BookFiles]
    BY <1>1 DEF CallsAreTyped, ImportTypeOK, AppendSections, Files, BookFiles
  <2>3. \A c \in Books :
          /\ Status(c)' \in {"none", "queued", "copying"} => row'[c].hash = None
          /\ Status(c)' \in {"parsing", "indexing", "ready"} => row'[c].hash # None
    BY <1>1, <1>2, ImportAssumption
       DEF CallsAreTyped, ImportTypeOK, Status, AppendSections, Runs, Appended, Window
  <2>4. active' \in [Books -> Flows \union {None}] /\ cancelled' \subseteq Flows
    BY <1>1 DEF CallsAreTyped, ImportTypeOK, AppendSections
  <2>5. book' \in [Procs -> Books \union {None}] /\ written' \in [Flows -> BOOLEAN] /\ restarts' \in 0..MaxRestarts
    BY <1>1 DEF CallsAreTyped, ImportTypeOK, AppendSections, Files, Window
  <2>. QED  BY <2>1, <2>2, <2>3, <2>4, <2>5 DEF ImportTypeOK, BookRows, BookFiles
<1>4. CallsHaveBooks'
  <2>1. pc' \in [Procs -> ImportSteps] /\ pc'[f] # "idle" /\ (f \in Users => pc'[f] \in {"done"} \union CancelSteps)
    <3>1. pc \in [Procs -> ImportSteps] /\ f \notin Users
      BY ImportAssumption DEF CallsAreTyped, CallsHaveBooks
    <3>2. pc' = [pc EXCEPT ![f] = pc'[f]] /\ pc'[f] \in {"final", "abort", "report"}
      BY <1>1, <3>1 DEF AppendSections, GoTo
    <3>3. {"final", "abort", "report"} \subseteq ImportSteps \ {"idle"}
      BY DEF WindowSteps, EndingSteps, ImportSteps
    <3>. QED  BY <3>1, <3>2, <3>3
  <2>2. source' \in [Flows -> Sources \union {None}] /\ running' \in SUBSET Flows
    BY <1>1 DEF CallsAreTyped, CallsHaveBooks, AppendSections, Files, Window
  <2>3. f \in Flows /\ pc'[f] \in CopySteps => source'[f] \in Sources
    BY <1>1 DEF CallsAreTyped, CallsHaveBooks, CopySteps, AppendSections, GoTo
  <2>4. \A c \in Books : c = book'[f] =>
          {dir'[c].partial, dir'[c].original} \subseteq {None, dir[c].partial, dir[c].original, f}
    BY <1>1 DEF AppendSections, Files
  <2>. QED  BY <1>1, <1>2, <2>1, <2>2, <2>3, <2>4, CallsStay
<1>. QED  BY <1>1, <1>2, <1>3, <1>4 DEF CallsAreTyped

\* AppendSections: the row has its sections.
LEMMA AppendSectionsIsSound ==
  ASSUME ImportInv, NEW f \in Flows, AppendSections(f)
  PROVE  ImportInv'
<1>1. CallsAreTyped /\ f \in Procs /\ book[f] \in Books /\ pc[f] # "idle" /\ TouchesOwnBook(f)
  BY AppendSectionsTyped DEF ImportInv
<1>2. AtWork(f)
  BY DEF AppendSections, At, Runs, AtWork, WindowSteps
<1>3. OneAtWork'
  <2>1. running' = running /\ book'[f] = book[f]
    BY <1>1, <1>2, ImportAssumption DEF AppendSections, Window
  <2>2. f \in Flows => (AtWork(f)' => AtWork(f))
    BY <1>1, <1>2
  <2>3. pc'[f] \in WindowSteps \union {"undo", "report", "reporting"} => f \in running
    BY <1>1, <1>2 DEF ImportInv, OneAtWork, AppendSections, Runs, At, WindowSteps
  <2>4. f \in running => pc[f] # "done" /\ pc'[f] \notin OpeningSteps \union {"idle"}
    BY <1>1, <1>2 DEF CallsAreTyped, CallsHaveBooks, AppendSections, Runs, At, GoTo, OpeningSteps
  <2>. QED  BY <1>1, <2>1, <2>2, <2>3, <2>4, WorkStays
<1>4. \A g \in Flows \ {f} : book[g] = book'[f] => FlowIsSound(g)'
  BY <1>1, <1>2, OthersStay
     DEF ImportInv, OneAtWork, AtWork, FlowIsSound, StatusFits, Status, AppendSections, Runs, At
<1>5. FlowIsSound(f)'
  BY <1>1, <1>2
     DEF ImportInv, CallsAreTyped, ImportTypeOK, CallsHaveBooks, OpeningSteps, WindowSteps,
         FlowIsSound, StatusFits, AttemptIsHeld, CopyIsOwn, RetryIsSound, TextIsWritten, Status,
         Owns, AppendSections, Runs, At, MayGoOn, Lease, Cancelled, Appended, GoTo, Files, Window
<1>6. \A c \in Books : c = book'[f] => BookIsSound(c)'
  BY <1>1, <1>2
     DEF ImportInv, CallsAreTyped, ImportTypeOK, CallsHaveBooks, TouchesOwnBook, FlowIsSound,
         RetryIsSound, BookIsSound, Doomed, Status, Intact, AppendSections, Runs, At, Lease,
         Cancelled, Appended, GoTo, Files, Window
<1>. QED  BY <1>1, <1>3, <1>4, <1>5, <1>6, AppendSectionsTyped, OwnBookSuffices

\* AppendRefused: the types, the locations, and what it touches.
LEMMA AppendRefusedTyped ==
  ASSUME CallsAreTyped, NEW f \in Flows, AppendRefused(f)
  PROVE  CallsAreTyped' /\ f \in Procs /\ book[f] \in Books /\ pc[f] # "idle" /\ TouchesOwnBook(f)
<1>1. f \in Procs /\ book[f] \in Books /\ pc[f] # "idle"
  BY DEF CallsAreTyped, CallsHaveBooks, Procs, AppendRefused, At, Runs
<1>2. TouchesOwnBook(f)
  BY <1>1 DEF TouchesOwnBook, AppendRefused, ClearDerived, GoTo, Window
<1>3. ImportTypeOK'
  <2>1. row' \in [Books -> BookRows]
    <3>1. row \in [Books -> BookRows] /\ row[book[f]] \in BookRows
      BY <1>1 DEF CallsAreTyped, ImportTypeOK, BookRows
    <3>2. [row[book[f]] EXCEPT !.status = "failed", !.text = FALSE] \in BookRows
      BY <3>1 DEF BookRows, Statuses
    <3>3. row' = row \/ row' = [row EXCEPT ![book[f]] = [row[book[f]] EXCEPT !.status = "failed", !.text = FALSE]]
      BY <1>1, <3>1 DEF AppendRefused, FailedWithSource
    <3>. QED  BY <3>1, <3>2, <3>3
  <2>2. dir' \in [Books -> BookFiles]
    BY <1>1 DEF CallsAreTyped, ImportTypeOK, AppendRefused, ClearDerived, BookFiles
  <2>3. \A c \in Books :
          /\ Status(c)' \in {"none", "queued", "copying"} => row'[c].hash = None
          /\ Status(c)' \in {"parsing", "indexing", "ready"} => row'[c].hash # None
    BY <1>1, <1>2, ImportAssumption
       DEF CallsAreTyped, ImportTypeOK, Status, AppendRefused, FailedWithSource
  <2>4. active' \in [Books -> Flows \union {None}] /\ cancelled' \subseteq Flows
    BY <1>1 DEF CallsAreTyped, ImportTypeOK, AppendRefused, MayGoOn, Lease
  <2>5. book' \in [Procs -> Books \union {None}] /\ written' \in [Flows -> BOOLEAN] /\ restarts' \in 0..MaxRestarts
    BY <1>1 DEF CallsAreTyped, ImportTypeOK, AppendRefused, Window
  <2>. QED  BY <2>1, <2>2, <2>3, <2>4, <2>5 DEF ImportTypeOK, BookRows, BookFiles
<1>4. CallsHaveBooks'
  BY <1>1, <1>2, ImportAssumption, CallsStay
     DEF CallsAreTyped, CallsHaveBooks, CopySteps, AppendRefused, ClearDerived, GoTo, Window,
         EndingSteps, ImportSteps
<1>. QED  BY <1>1, <1>2, <1>3, <1>4 DEF CallsAreTyped

\* AppendRefused: the row fails, so that its sections and document may go.
LEMMA AppendRefusedIsSound ==
  ASSUME ImportInv, NEW f \in Flows, AppendRefused(f)
  PROVE  ImportInv'
<1>1. f \in Procs /\ book[f] \in Books /\ pc[f] # "idle" /\ TouchesOwnBook(f)
  BY AppendRefusedTyped DEF ImportInv
<1>2. AtWork(f)
  BY DEF AppendRefused, At, Runs, AtWork, WindowSteps
<1>3. OneAtWork'
  BY <1>1, <1>2, ImportAssumption, WorkStays
     DEF ImportInv, OneAtWork, OpeningSteps, WindowSteps, AppendRefused, Runs, At, GoTo, Window
<1>4. \A g \in Flows \ {f} : book[g] = book'[f] => FlowIsSound(g)'
  BY <1>1, <1>2, OthersStay DEF Status, AppendRefused, FailedWithSource
<1>5. FlowIsSound(f)'
  BY <1>1, <1>2
     DEF ImportInv, CallsAreTyped, CallsHaveBooks, OpeningSteps, CancelSteps, EndingSteps,
         ImportSteps, FlowIsSound, StatusFits, AttemptIsHeld, CopyIsOwn, RetryIsSound,
         TextIsWritten, Status, Owns, Intact, AppendRefused, Runs, At, MayGoOn, Lease, Cancelled,
         FailedWithSource, ClearDerived, GoTo, Window
<1>6. \A c \in Books : c = book'[f] => BookIsSound(c)'
  BY <1>1, <1>2
     DEF ImportInv, BookIsSound, Doomed, Status, Intact, AppendRefused, Runs, At, FailedWithSource,
         ClearDerived, GoTo, Window
<1>. QED  BY <1>1, <1>3, <1>4, <1>5, <1>6, AppendRefusedTyped, OwnBookSuffices DEF ImportInv

\* FinalizeBegin: the types, the locations, and what it touches.
LEMMA FinalizeBeginTyped ==
  ASSUME CallsAreTyped, NEW f \in Flows, FinalizeBegin(f)
  PROVE  CallsAreTyped' /\ f \in Procs /\ book[f] \in Books /\ pc[f] # "idle" /\ TouchesOwnBook(f)
<1>1. f \in Procs /\ book[f] \in Books /\ pc[f] # "idle"
  BY DEF CallsAreTyped, CallsHaveBooks, Procs, FinalizeBegin, At, Runs
<1>2. TouchesOwnBook(f)
  BY <1>1 DEF TouchesOwnBook, CallsAreTyped, CallsHaveBooks, FinalizeBegin, GoTo, Files, Window
<1>3. ImportTypeOK'
  BY <1>1, <1>2, ImportAssumption
     DEF CallsAreTyped, ImportTypeOK, FinalizeBegin, Status, Files, Window
<1>4. CallsHaveBooks'
  <2>1. pc' \in [Procs -> ImportSteps] /\ pc'[f] # "idle" /\ (f \in Users => pc'[f] \in {"done"} \union CancelSteps)
    BY <1>1, ImportAssumption
       DEF CallsAreTyped, CallsHaveBooks, FinalizeBegin, GoTo, WindowSteps, EndingSteps, ImportSteps
  <2>2. source' \in [Flows -> Sources \union {None}] /\ running' \in SUBSET Flows
    BY <1>1 DEF CallsAreTyped, CallsHaveBooks, FinalizeBegin, Files, Window
  <2>3. f \in Flows /\ pc'[f] \in CopySteps => source'[f] \in Sources
    BY <1>1 DEF CallsAreTyped, CallsHaveBooks, CopySteps, FinalizeBegin, GoTo
  <2>4. \A c \in Books : c = book'[f] =>
          {dir'[c].partial, dir'[c].original} \subseteq {None, dir[c].partial, dir[c].original, f}
    BY <1>1 DEF FinalizeBegin, Files
  <2>. QED  BY <1>1, <1>2, <2>1, <2>2, <2>3, <2>4, CallsStay
<1>. QED  BY <1>1, <1>2, <1>3, <1>4 DEF CallsAreTyped

\* FinalizeBegin: the flow has seen the document and the status of its row.
LEMMA FinalizeBeginIsSound ==
  ASSUME ImportInv, NEW f \in Flows, FinalizeBegin(f)
  PROVE  ImportInv'
<1>1. f \in Procs /\ book[f] \in Books /\ pc[f] # "idle" /\ TouchesOwnBook(f)
  BY FinalizeBeginTyped DEF ImportInv
<1>2. AtWork(f)
  BY DEF FinalizeBegin, At, Runs, AtWork, WindowSteps
<1>3. OneAtWork'
  <2>1. running' = running /\ book'[f] = book[f]
    BY <1>1, <1>2, ImportAssumption DEF FinalizeBegin, Window
  <2>2. f \in Flows => (AtWork(f)' => AtWork(f))
    BY <1>1, <1>2
  <2>3. pc'[f] \in WindowSteps \union {"undo", "report", "reporting"} => f \in running
    BY <1>1, <1>2 DEF ImportInv, OneAtWork, FinalizeBegin, Runs, At, WindowSteps
  <2>4. f \in running => pc[f] # "done" /\ pc'[f] \notin OpeningSteps \union {"idle"}
    BY <1>1, <1>2
       DEF ImportInv, CallsAreTyped, CallsHaveBooks, FinalizeBegin, Runs, At, GoTo, OpeningSteps
  <2>. QED  BY <1>1, <2>1, <2>2, <2>3, <2>4, WorkStays
<1>4. \A g \in Flows \ {f} : book[g] = book'[f] => FlowIsSound(g)'
  BY <1>1, <1>2, OthersStay DEF ImportInv, FlowIsSound, StatusFits, Status, FinalizeBegin, Runs, At
<1>5. FlowIsSound(f)'
  BY <1>1, <1>2
     DEF ImportInv, CallsAreTyped, CallsHaveBooks, OpeningSteps, CancelSteps, EndingSteps,
         ImportSteps, FlowIsSound, StatusFits, AttemptIsHeld, CopyIsOwn, RetryIsSound,
         TextIsWritten, Status, Owns, Intact, FinalizeBegin, Runs, At, MayGoOn, Lease, Cancelled,
         GoTo, Files, Window
<1>6. \A c \in Books : c = book'[f] => BookIsSound(c)'
  BY <1>1, <1>2
     DEF ImportInv, TouchesOwnBook, BookIsSound, Doomed, Status, Intact, FinalizeBegin, Runs, At,
         Files
<1>. QED  BY <1>1, <1>3, <1>4, <1>5, <1>6, FinalizeBeginTyped, OwnBookSuffices DEF ImportInv

\* BeginIndexing: the types, the locations, and what it touches.
LEMMA BeginIndexingTyped ==
  ASSUME CallsAreTyped, NEW f \in Flows, BeginIndexing(f)
  PROVE  CallsAreTyped' /\ f \in Procs /\ book[f] \in Books /\ pc[f] # "idle" /\ TouchesOwnBook(f)
<1>1. f \in Procs /\ book[f] \in Books /\ pc[f] # "idle"
  BY DEF CallsAreTyped, CallsHaveBooks, Procs, BeginIndexing, At
<1>2. TouchesOwnBook(f)
  BY <1>1
     DEF TouchesOwnBook, CallsAreTyped, ImportTypeOK, CallsHaveBooks, BeginIndexing, SetStatus,
         GoTo, Files, Window
<1>3. ImportTypeOK'
  <2>1. row' \in [Books -> BookRows]
    <3>1. row[book[f]] \in BookRows /\ row \in [Books -> BookRows]
      BY <1>1 DEF CallsAreTyped, ImportTypeOK, BookRows
    <3>2. row'[book[f]] \in BookRows
      BY <1>1, <3>1 DEF BeginIndexing, SetStatus, Statuses, BookRows
    <3>3. row' = [row EXCEPT ![book[f]] = row'[book[f]]]
      BY <1>1, <3>1 DEF BeginIndexing, SetStatus
    <3>. QED  BY <3>1, <3>2, <3>3
  <2>2. dir' \in [Books -> BookFiles]
    BY <1>1 DEF CallsAreTyped, ImportTypeOK, BeginIndexing, Files, BookFiles
  <2>3. \A c \in Books :
          /\ Status(c)' \in {"none", "queued", "copying"} => row'[c].hash = None
          /\ Status(c)' \in {"parsing", "indexing", "ready"} => row'[c].hash # None
    BY <1>1, <1>2, ImportAssumption
       DEF CallsAreTyped, ImportTypeOK, TouchesOwnBook, Status, BeginIndexing, SetStatus
  <2>4. active' \in [Books -> Flows \union {None}] /\ cancelled' \subseteq Flows
    BY <1>1 DEF CallsAreTyped, ImportTypeOK, BeginIndexing
  <2>5. book' \in [Procs -> Books \union {None}] /\ written' \in [Flows -> BOOLEAN] /\ restarts' \in 0..MaxRestarts
    BY <1>1 DEF CallsAreTyped, ImportTypeOK, BeginIndexing, Files, Window
  <2>. QED  BY <2>1, <2>2, <2>3, <2>4, <2>5 DEF ImportTypeOK, BookRows, BookFiles
<1>4. CallsHaveBooks'
  <2>1. pc' \in [Procs -> ImportSteps] /\ pc'[f] # "idle" /\ (f \in Users => pc'[f] \in {"done"} \union CancelSteps)
    BY <1>1, ImportAssumption
       DEF CallsAreTyped, CallsHaveBooks, BeginIndexing, GoTo, WindowSteps, EndingSteps, ImportSteps
  <2>2. source' \in [Flows -> Sources \union {None}] /\ running' \in SUBSET Flows
    BY <1>1 DEF CallsAreTyped, CallsHaveBooks, BeginIndexing, Files, Window
  <2>3. f \in Flows /\ pc'[f] \in CopySteps => source'[f] \in Sources
    BY <1>1 DEF CallsAreTyped, CallsHaveBooks, CopySteps, BeginIndexing, GoTo
  <2>4. \A c \in Books : c = book'[f] =>
          {dir'[c].partial, dir'[c].original} \subseteq {None, dir[c].partial, dir[c].original, f}
    BY <1>1 DEF BeginIndexing, Files
  <2>. QED  BY <1>1, <1>2, <2>1, <2>2, <2>3, <2>4, CallsStay
<1>. QED  BY <1>1, <1>2, <1>3, <1>4 DEF CallsAreTyped

\* BeginIndexing: indexing follows parsing: the source is the claimed one.
LEMMA BeginIndexingIsSound ==
  ASSUME ImportInv, NEW f \in Flows, BeginIndexing(f)
  PROVE  ImportInv'
<1>1. f \in Procs /\ book[f] \in Books /\ pc[f] # "idle" /\ TouchesOwnBook(f)
  BY BeginIndexingTyped DEF ImportInv
<1>2. AtWork(f)
  BY DEF BeginIndexing, At, AtWork, WindowSteps
<1>3. OneAtWork'
  <2>1. running' = running /\ book'[f] = book[f]
    BY <1>1, <1>2, ImportAssumption DEF BeginIndexing, Window
  <2>2. f \in Flows => (AtWork(f)' => AtWork(f))
    BY <1>1, <1>2
  <2>3. pc'[f] \in WindowSteps \union {"undo", "report", "reporting"} => f \in running
    BY <1>1, <1>2 DEF ImportInv, OneAtWork, BeginIndexing, At, WindowSteps
  <2>4. f \in running => pc[f] # "done" /\ pc'[f] \notin OpeningSteps \union {"idle"}
    BY <1>1, <1>2
       DEF ImportInv, CallsAreTyped, CallsHaveBooks, BeginIndexing, At, GoTo, OpeningSteps
  <2>. QED  BY <1>1, <2>1, <2>2, <2>3, <2>4, WorkStays
<1>4. \A g \in Flows \ {f} : book[g] = book'[f] => FlowIsSound(g)'
  BY <1>1, <1>2, OthersStay
     DEF ImportInv, OneAtWork, AtWork, FlowIsSound, StatusFits, Status, BeginIndexing, At
<1>5. FlowIsSound(f)'
  BY <1>1, <1>2
     DEF ImportInv, CallsAreTyped, ImportTypeOK, CallsHaveBooks, OpeningSteps, WindowSteps,
         FlowIsSound, StatusFits, AttemptIsHeld, CopyIsOwn, RetryIsSound, TextIsWritten, Doomed,
         Gone, Status, Owns, BeginIndexing, At, SetStatus, GoTo, Files, Window
<1>6. \A c \in Books : c = book'[f] => BookIsSound(c)'
  BY <1>1, <1>2
     DEF ImportInv, CallsAreTyped, ImportTypeOK, TouchesOwnBook, WindowSteps, FlowIsSound,
         StatusFits, AttemptIsHeld, CopyIsOwn, RetryIsSound, BookIsSound, Doomed, Gone, Status,
         Intact, BeginIndexing, At, SetStatus, GoTo, Files, Window
<1>. QED  BY <1>1, <1>3, <1>4, <1>5, <1>6, BeginIndexingTyped, OwnBookSuffices DEF ImportInv

\* FinalizeCheck: the types, the locations, and what it touches.
LEMMA FinalizeCheckTyped ==
  ASSUME CallsAreTyped, NEW f \in Flows, FinalizeCheck(f)
  PROVE  CallsAreTyped' /\ f \in Procs /\ book[f] \in Books /\ pc[f] # "idle" /\ TouchesOwnBook(f)
<1>1. f \in Procs /\ book[f] \in Books /\ pc[f] # "idle"
  BY DEF CallsAreTyped, CallsHaveBooks, Procs, FinalizeCheck, At
<1>2. TouchesOwnBook(f)
  BY <1>1 DEF TouchesOwnBook, FinalizeCheck, GoTo, Files, Window
<1>3. ImportTypeOK'
  <2>1. row' \in [Books -> BookRows]
    BY <1>1 DEF CallsAreTyped, ImportTypeOK, FinalizeCheck, BookRows
  <2>2. dir' \in [Books -> BookFiles]
    BY <1>1 DEF CallsAreTyped, ImportTypeOK, FinalizeCheck, Files, BookFiles
  <2>3. \A c \in Books :
          /\ Status(c)' \in {"none", "queued", "copying"} => row'[c].hash = None
          /\ Status(c)' \in {"parsing", "indexing", "ready"} => row'[c].hash # None
    BY <1>1, <1>2, ImportAssumption DEF CallsAreTyped, ImportTypeOK, Status, FinalizeCheck
  <2>4. active' \in [Books -> Flows \union {None}] /\ cancelled' \subseteq Flows
    BY <1>1 DEF CallsAreTyped, ImportTypeOK, FinalizeCheck
  <2>5. book' \in [Procs -> Books \union {None}] /\ written' \in [Flows -> BOOLEAN] /\ restarts' \in 0..MaxRestarts
    BY <1>1 DEF CallsAreTyped, ImportTypeOK, FinalizeCheck, Files, Window
  <2>. QED  BY <2>1, <2>2, <2>3, <2>4, <2>5 DEF ImportTypeOK, BookRows, BookFiles
<1>4. CallsHaveBooks'
  BY <1>1, <1>2, ImportAssumption, CallsStay
     DEF CallsAreTyped, CallsHaveBooks, CopySteps, FinalizeCheck, GoTo, Files, Window, WindowSteps,
         ImportSteps
<1>. QED  BY <1>1, <1>2, <1>3, <1>4 DEF CallsAreTyped

\* FinalizeCheck: the flow only looks at its token.
LEMMA FinalizeCheckIsSound ==
  ASSUME ImportInv, NEW f \in Flows, FinalizeCheck(f)
  PROVE  ImportInv'
<1>1. f \in Procs /\ book[f] \in Books /\ pc[f] # "idle" /\ TouchesOwnBook(f)
  BY FinalizeCheckTyped DEF ImportInv
<1>2. AtWork(f)
  BY DEF FinalizeCheck, At, AtWork, WindowSteps
<1>3. OneAtWork'
  BY <1>1, <1>2, ImportAssumption, WorkStays
     DEF ImportInv, OneAtWork, OpeningSteps, WindowSteps, FinalizeCheck, At, GoTo, Window
<1>4. \A g \in Flows \ {f} : book[g] = book'[f] => FlowIsSound(g)'
  BY <1>1, <1>2, OthersStay DEF ImportInv, FlowIsSound, StatusFits, Status, FinalizeCheck, At
<1>5. FlowIsSound(f)'
  BY <1>1, <1>2
     DEF ImportInv, OpeningSteps, WindowSteps, FlowIsSound, StatusFits, AttemptIsHeld, CopyIsOwn,
         RetryIsSound, TextIsWritten, Doomed, Gone, Status, Owns, FinalizeCheck, At, GoTo, Files,
         Window
<1>6. \A c \in Books : c = book'[f] => BookIsSound(c)'
  BY <1>1, <1>2
     DEF ImportInv, BookIsSound, Doomed, Status, Intact, FinalizeCheck, At, GoTo, Files, Window
<1>. QED  BY <1>1, <1>3, <1>4, <1>5, <1>6, FinalizeCheckTyped, OwnBookSuffices DEF ImportInv

\* FinalizeCommit: the types, the locations, and what it touches.
LEMMA FinalizeCommitTyped ==
  ASSUME CallsAreTyped, NEW f \in Flows, FinalizeCommit(f)
  PROVE  CallsAreTyped' /\ f \in Procs /\ book[f] \in Books /\ pc[f] # "idle" /\ TouchesOwnBook(f)
<1>1. f \in Procs /\ book[f] \in Books /\ pc[f] # "idle"
  BY DEF CallsAreTyped, CallsHaveBooks, Procs, FinalizeCommit, At
<1>2. TouchesOwnBook(f)
  BY <1>1
     DEF TouchesOwnBook, CallsAreTyped, ImportTypeOK, CallsHaveBooks, FinalizeCommit, SetStatus,
         GoTo, Fail, Files, Window
<1>3. ImportTypeOK'
  <2>1. row' \in [Books -> BookRows]
    BY <1>1, FinalizeCommitRow
  <2>2. dir' \in [Books -> BookFiles]
    BY <1>1 DEF CallsAreTyped, ImportTypeOK, FinalizeCommit, Files, BookFiles
  <2>3. \A c \in Books :
          /\ Status(c)' \in {"none", "queued", "copying"} => row'[c].hash = None
          /\ Status(c)' \in {"parsing", "indexing", "ready"} => row'[c].hash # None
    BY <1>1, <1>2, ImportAssumption, FinalizeCommitRow
       DEF CallsAreTyped, ImportTypeOK, TouchesOwnBook, Status
  <2>4. active' \in [Books -> Flows \union {None}] /\ cancelled' \subseteq Flows
    BY <1>1 DEF CallsAreTyped, ImportTypeOK, FinalizeCommit
  <2>5. book' \in [Procs -> Books \union {None}] /\ written' \in [Flows -> BOOLEAN] /\ restarts' \in 0..MaxRestarts
    BY <1>1 DEF CallsAreTyped, ImportTypeOK, FinalizeCommit, Files, Window
  <2>. QED  BY <2>1, <2>2, <2>3, <2>4, <2>5 DEF ImportTypeOK, BookRows, BookFiles
<1>4. CallsHaveBooks'
  <2>1. pc' \in [Procs -> ImportSteps] /\ pc'[f] # "idle" /\ (f \in Users => pc'[f] \in {"done"} \union CancelSteps)
    BY <1>1, ImportAssumption
       DEF CallsAreTyped, CallsHaveBooks, FinalizeCommit, GoTo, WindowSteps, EndingSteps,
           ImportSteps
  <2>2. source' \in [Flows -> Sources \union {None}] /\ running' \in SUBSET Flows
    BY <1>1 DEF CallsAreTyped, CallsHaveBooks, FinalizeCommit, Files, Window
  <2>3. f \in Flows /\ pc'[f] \in CopySteps => source'[f] \in Sources
    BY <1>1 DEF CallsAreTyped, CallsHaveBooks, CopySteps, FinalizeCommit, GoTo
  <2>4. \A c \in Books : c = book'[f] =>
          {dir'[c].partial, dir'[c].original} \subseteq {None, dir[c].partial, dir[c].original, f}
    BY <1>1 DEF FinalizeCommit, Files
  <2>. QED  BY <1>1, <1>2, <2>1, <2>2, <2>3, <2>4, CallsStay
<1>. QED  BY <1>1, <1>2, <1>3, <1>4 DEF CallsAreTyped

\* FinalizeCommit: a row becomes ready with its sections, its source and its
\* document, or its remover is about to fail it.
LEMMA FinalizeCommitIsSound ==
  ASSUME ImportInv, NEW f \in Flows, FinalizeCommit(f)
  PROVE  ImportInv'
<1>1. CallsAreTyped /\ f \in Procs /\ book[f] \in Books /\ pc[f] # "idle" /\ TouchesOwnBook(f)
  BY FinalizeCommitTyped DEF ImportInv
<1>2. AtWork(f)
  BY DEF FinalizeCommit, At, AtWork, WindowSteps
<1>3. OneAtWork'
  <2>1. running' = running /\ book'[f] = book[f]
    BY <1>1, <1>2, ImportAssumption DEF FinalizeCommit, Window
  <2>2. f \in Flows => (AtWork(f)' => AtWork(f))
    BY <1>1, <1>2
  <2>3. pc'[f] \in WindowSteps \union {"undo", "report", "reporting"} => f \in running
    BY <1>1, <1>2 DEF ImportInv, OneAtWork, FinalizeCommit, At, WindowSteps
  <2>4. f \in running => pc[f] # "done" /\ pc'[f] \notin OpeningSteps \union {"idle"}
    BY <1>1, <1>2 DEF CallsAreTyped, CallsHaveBooks, FinalizeCommit, At, GoTo, OpeningSteps
  <2>. QED  BY <1>1, <2>1, <2>2, <2>3, <2>4, WorkStays
<1>4. \A g \in Flows \ {f} : book[g] = book'[f] => FlowIsSound(g)'
  BY <1>1, <1>2, FinalizeCommitRow, OthersStay
     DEF ImportInv, OneAtWork, AtWork, FlowIsSound, StatusFits, Status, FinalizeCommit
<1>5. FlowIsSound(f)'
  <2>1. FlowIsSound(f)
    BY DEF ImportInv
  <2>2. StatusFits(f)'
    BY <1>1, <1>2, <2>1, FinalizeCommitRow
       DEF OpeningSteps, FlowIsSound, StatusFits, Status, FinalizeCommit, At
  <2>3. AttemptIsHeld(f)'
    BY <1>1, <1>2, <2>1 DEF WindowSteps, FlowIsSound, AttemptIsHeld, Owns, FinalizeCommit, At
  <2>4. CopyIsOwn(f)'
    BY <1>1, <1>2, <2>1 DEF CallsAreTyped, CallsHaveBooks, CopyIsOwn, FinalizeCommit, GoTo
  <2>5. RetryIsSound(f)'
    BY <1>1, <1>2, <2>1 DEF CallsAreTyped, CallsHaveBooks, RetryIsSound, FinalizeCommit, GoTo
  <2>6. TextIsWritten(f)'
    BY <1>1, <1>2, <2>1
       DEF TouchesOwnBook, FlowIsSound, TextIsWritten, Doomed, Gone, Status, FinalizeCommit, At,
           CommitIsValid, Files
  <2>. QED  BY <2>2, <2>3, <2>4, <2>5, <2>6 DEF FlowIsSound
<1>6. \A c \in Books : c = book'[f] => BookIsSound(c)'
  <2>1. BookIsSound(book[f]) /\ FlowIsSound(f) /\ book'[f] = book[f] /\ pc[f] = "commit"
    BY <1>1 DEF ImportInv, FinalizeCommit, At
  <2>2. source' = source /\ written' = written /\ cut' = cut
    BY DEF FinalizeCommit, Files, Window
  <2>3. Doomed(book[f]) => Doomed(book[f])'
    BY <1>1, <2>1, DoomStaysHere
  <2>4. dir' = dir
    BY DEF FinalizeCommit, Files
  <2>5. Intact(book[f], row[book[f]].hash) => Intact(book[f], row[book[f]].hash)'
    BY <1>1, <2>1, <2>2, <2>4, FinalizeCommitRow DEF Intact
  <2>6. Status(book[f]) = "indexing" => dir[book[f]].html \/ Doomed(book[f])
    BY <2>1 DEF FlowIsSound, TextIsWritten, Gone
  <2>7. Status(book[f]) # "ready"
    BY <2>1 DEF FlowIsSound, StatusFits
  <2>. QED
    BY <1>1, <2>1, <2>2, <2>3, <2>4, <2>5, <2>6, <2>7, FinalizeCommitRow DEF BookIsSound, Status
<1>. QED  BY <1>1, <1>3, <1>4, <1>5, <1>6, FinalizeCommitTyped, OwnBookSuffices

\* FinalizeTake: the types, the locations, and what it touches.
LEMMA FinalizeTakeTyped ==
  ASSUME CallsAreTyped, NEW f \in Flows, FinalizeTake(f)
  PROVE  CallsAreTyped' /\ f \in Procs /\ book[f] \in Books /\ pc[f] # "idle" /\ TouchesOwnBook(f)
<1>1. f \in Procs /\ book[f] \in Books /\ pc[f] # "idle"
  BY DEF CallsAreTyped, CallsHaveBooks, Procs, FinalizeTake, At
<1>2. TouchesOwnBook(f)
  BY <1>1
     DEF TouchesOwnBook, CallsAreTyped, ImportTypeOK, CallsHaveBooks, FinalizeTake, Take,
         RemoveBookDirectory, GoTo, Window
<1>3. ImportTypeOK'
  <2>1. row' \in [Books -> BookRows]
    BY <1>1 DEF CallsAreTyped, ImportTypeOK, FinalizeTake, BookRows
  <2>2. dir' \in [Books -> BookFiles]
    <3>1. dir[book[f]] \in BookFiles /\ dir \in [Books -> BookFiles]
      BY <1>1 DEF CallsAreTyped, ImportTypeOK, BookFiles
    <3>2. dir'[book[f]] \in {dir[book[f]], NoFiles, [dir[book[f]] EXCEPT !.html = TRUE], [dir[book[f]] EXCEPT !.html = FALSE]}
      BY <1>1, <3>1 DEF FinalizeTake, RemoveBookDirectory
    <3>3. dir' = [dir EXCEPT ![book[f]] = dir'[book[f]]]
      BY <1>1, <3>1 DEF FinalizeTake, RemoveBookDirectory
    <3>. QED  BY <3>1, <3>2, <3>3, FilesTyped
  <2>3. \A c \in Books :
          /\ Status(c)' \in {"none", "queued", "copying"} => row'[c].hash = None
          /\ Status(c)' \in {"parsing", "indexing", "ready"} => row'[c].hash # None
    BY <1>1, <1>2, ImportAssumption DEF CallsAreTyped, ImportTypeOK, Status, FinalizeTake
  <2>4. active' \in [Books -> Flows \union {None}] /\ cancelled' \subseteq Flows
    BY <1>1 DEF CallsAreTyped, ImportTypeOK, FinalizeTake, Take
  <2>5. book' \in [Procs -> Books \union {None}] /\ written' \in [Flows -> BOOLEAN] /\ restarts' \in 0..MaxRestarts
    BY <1>1 DEF CallsAreTyped, ImportTypeOK, FinalizeTake, Window
  <2>. QED  BY <2>1, <2>2, <2>3, <2>4, <2>5 DEF ImportTypeOK, BookRows, BookFiles
<1>4. CallsHaveBooks'
  <2>1. pc' \in [Procs -> ImportSteps] /\ pc'[f] # "idle" /\ (f \in Users => pc'[f] \in {"done"} \union CancelSteps)
    BY <1>1, ImportAssumption
       DEF CallsAreTyped, CallsHaveBooks, FinalizeTake, GoTo, EndingSteps, ImportSteps
  <2>2. source' \in [Flows -> Sources \union {None}] /\ running' \in SUBSET Flows
    BY <1>1 DEF CallsAreTyped, CallsHaveBooks, FinalizeTake, Window
  <2>3. f \in Flows /\ pc'[f] \in CopySteps => source'[f] \in Sources
    BY <1>1 DEF CallsAreTyped, CallsHaveBooks, CopySteps, FinalizeTake, GoTo
  <2>4. \A c \in Books : c = book'[f] =>
          {dir'[c].partial, dir'[c].original} \subseteq {None, dir[c].partial, dir[c].original, f}
    BY <1>1 DEF CallsAreTyped, ImportTypeOK, FinalizeTake, RemoveBookDirectory, NoFiles
  <2>. QED  BY <1>1, <1>2, <2>1, <2>2, <2>3, <2>4, CallsStay
<1>. QED  BY <1>1, <1>2, <1>3, <1>4 DEF CallsAreTyped

\* FinalizeTake: an owner that was cancelled removes the directory and is
\* about to fail the row.
LEMMA FinalizeTakeIsSound ==
  ASSUME ImportInv, NEW f \in Flows, FinalizeTake(f)
  PROVE  ImportInv'
<1>1. f \in Procs /\ book[f] \in Books /\ pc[f] # "idle" /\ TouchesOwnBook(f)
  BY FinalizeTakeTyped DEF ImportInv
<1>2. AtWork(f)
  BY DEF FinalizeTake, At, AtWork, WindowSteps
<1>3. OneAtWork'
  <2>1. running' = running /\ book'[f] = book[f]
    BY <1>1, <1>2, ImportAssumption DEF FinalizeTake, Window
  <2>2. f \in Flows => (AtWork(f)' => AtWork(f))
    BY <1>1, <1>2
  <2>3. pc'[f] \in WindowSteps \union {"undo", "report", "reporting"} => f \in running
    BY <1>1, <1>2 DEF ImportInv, OneAtWork, FinalizeTake, At, WindowSteps
  <2>4. f \in running => pc[f] # "done" /\ pc'[f] \notin OpeningSteps \union {"idle"}
    BY <1>1, <1>2 DEF ImportInv, CallsAreTyped, CallsHaveBooks, FinalizeTake, At, GoTo, OpeningSteps
  <2>. QED  BY <1>1, <2>1, <2>2, <2>3, <2>4, WorkStays
<1>4. \A g \in Flows \ {f} : book[g] = book'[f] => FlowIsSound(g)'
  BY <1>1, <1>2, OthersStay
     DEF ImportInv, OneAtWork, AtWork, FlowIsSound, StatusFits, Status, FinalizeTake
<1>5. FlowIsSound(f)'
  BY <1>1, <1>2
     DEF ImportInv, CallsAreTyped, CallsHaveBooks, OpeningSteps, WindowSteps, FlowIsSound,
         StatusFits, AttemptIsHeld, CopyIsOwn, RetryIsSound, TextIsWritten, FinalizeTake, At,
         RemoveBookDirectory, NoFiles, GoTo, Window
<1>6. \A c \in Books : c = book'[f] => BookIsSound(c)'
  BY <1>1, <1>2
     DEF ImportInv, CallsAreTyped, CallsHaveBooks, BookIsSound, Doomed, Status, Intact,
         FinalizeTake, At, GoTo, Window
<1>. QED  BY <1>1, <1>3, <1>4, <1>5, <1>6, FinalizeTakeTyped, OwnBookSuffices DEF ImportInv

\* Compensate: the types, the locations, and what it touches.
LEMMA CompensateTyped ==
  ASSUME CallsAreTyped, NEW f \in Flows, Compensate(f)
  PROVE  CallsAreTyped' /\ f \in Procs /\ book[f] \in Books /\ pc[f] # "idle" /\ TouchesOwnBook(f)
<1>1. f \in Procs /\ book[f] \in Books /\ pc[f] # "idle"
  BY DEF CallsAreTyped, CallsHaveBooks, Procs, Compensate, At
<1>2. TouchesOwnBook(f)
  BY <1>1
     DEF TouchesOwnBook, CallsAreTyped, ImportTypeOK, CallsHaveBooks, Compensate, Take,
         RemoveBookDirectory, GoTo, Window
<1>3. ImportTypeOK'
  <2>1. row' \in [Books -> BookRows]
    BY <1>1 DEF CallsAreTyped, ImportTypeOK, Compensate, BookRows
  <2>2. dir' \in [Books -> BookFiles]
    <3>1. dir[book[f]] \in BookFiles /\ dir \in [Books -> BookFiles]
      BY <1>1 DEF CallsAreTyped, ImportTypeOK, BookFiles
    <3>2. dir'[book[f]] \in {dir[book[f]], NoFiles, [dir[book[f]] EXCEPT !.html = TRUE], [dir[book[f]] EXCEPT !.html = FALSE]}
      BY <1>1, <3>1 DEF Compensate, RemoveBookDirectory
    <3>3. dir' = [dir EXCEPT ![book[f]] = dir'[book[f]]]
      BY <1>1, <3>1 DEF Compensate, RemoveBookDirectory
    <3>. QED  BY <3>1, <3>2, <3>3, FilesTyped
  <2>3. \A c \in Books :
          /\ Status(c)' \in {"none", "queued", "copying"} => row'[c].hash = None
          /\ Status(c)' \in {"parsing", "indexing", "ready"} => row'[c].hash # None
    BY <1>1, <1>2, ImportAssumption DEF CallsAreTyped, ImportTypeOK, Status, Compensate
  <2>4. active' \in [Books -> Flows \union {None}] /\ cancelled' \subseteq Flows
    BY <1>1 DEF CallsAreTyped, ImportTypeOK, Compensate, Take
  <2>5. book' \in [Procs -> Books \union {None}] /\ written' \in [Flows -> BOOLEAN] /\ restarts' \in 0..MaxRestarts
    BY <1>1 DEF CallsAreTyped, ImportTypeOK, Compensate, Window
  <2>. QED  BY <2>1, <2>2, <2>3, <2>4, <2>5 DEF ImportTypeOK, BookRows, BookFiles
<1>4. CallsHaveBooks'
  <2>1. pc' \in [Procs -> ImportSteps] /\ pc'[f] # "idle" /\ (f \in Users => pc'[f] \in {"done"} \union CancelSteps)
    BY <1>1, ImportAssumption
       DEF CallsAreTyped, CallsHaveBooks, Compensate, GoTo, EndingSteps, ImportSteps
  <2>2. source' \in [Flows -> Sources \union {None}] /\ running' \in SUBSET Flows
    BY <1>1 DEF CallsAreTyped, CallsHaveBooks, Compensate, Window
  <2>3. f \in Flows /\ pc'[f] \in CopySteps => source'[f] \in Sources
    BY <1>1 DEF CallsAreTyped, CallsHaveBooks, CopySteps, Compensate, GoTo
  <2>4. \A c \in Books : c = book'[f] =>
          {dir'[c].partial, dir'[c].original} \subseteq {None, dir[c].partial, dir[c].original, f}
    BY <1>1 DEF CallsAreTyped, ImportTypeOK, Compensate, RemoveBookDirectory, NoFiles
  <2>. QED  BY <1>1, <1>2, <2>1, <2>2, <2>3, <2>4, CallsStay
<1>. QED  BY <1>1, <1>2, <1>3, <1>4 DEF CallsAreTyped

\* Compensate: the owner removes the directory and is about to fail the row,
\* which is not ready.
LEMMA CompensateIsSound ==
  ASSUME ImportInv, NEW f \in Flows, Compensate(f)
  PROVE  ImportInv'
<1>1. f \in Procs /\ book[f] \in Books /\ pc[f] # "idle" /\ TouchesOwnBook(f)
  BY CompensateTyped DEF ImportInv
<1>2. AtWork(f)
  BY DEF Compensate, At, AtWork, WindowSteps
<1>3. OneAtWork'
  <2>1. running' = running /\ book'[f] = book[f]
    BY <1>1, <1>2, ImportAssumption DEF Compensate, Window
  <2>2. f \in Flows => (AtWork(f)' => AtWork(f))
    BY <1>1, <1>2
  <2>3. pc'[f] \in WindowSteps \union {"undo", "report", "reporting"} => f \in running
    BY <1>1, <1>2 DEF ImportInv, OneAtWork, Compensate, At, WindowSteps
  <2>4. f \in running => pc[f] # "done" /\ pc'[f] \notin OpeningSteps \union {"idle"}
    BY <1>1, <1>2 DEF ImportInv, CallsAreTyped, CallsHaveBooks, Compensate, At, GoTo, OpeningSteps
  <2>. QED  BY <1>1, <2>1, <2>2, <2>3, <2>4, WorkStays
<1>4. \A g \in Flows \ {f} : book[g] = book'[f] => FlowIsSound(g)'
  BY <1>1, <1>2, OthersStay DEF ImportInv, FlowIsSound, StatusFits, Status, Compensate, At
<1>5. FlowIsSound(f)'
  BY <1>1, <1>2
     DEF ImportInv, CallsAreTyped, CallsHaveBooks, OpeningSteps, WindowSteps, FlowIsSound,
         StatusFits, AttemptIsHeld, CopyIsOwn, RetryIsSound, TextIsWritten, Compensate, NoFiles,
         GoTo, Window
<1>6. \A c \in Books : c = book'[f] => BookIsSound(c)'
  BY <1>1, <1>2
     DEF ImportInv, CallsAreTyped, CallsHaveBooks, BookIsSound, Doomed, Status, Intact, Compensate,
         At, GoTo, Window
<1>. QED  BY <1>1, <1>3, <1>4, <1>5, <1>6, CompensateTyped, OwnBookSuffices DEF ImportInv

\* UndoFinalize: the types, the locations, and what it touches.
LEMMA UndoFinalizeTyped ==
  ASSUME CallsAreTyped, NEW f \in Flows, UndoFinalize(f)
  PROVE  CallsAreTyped' /\ f \in Procs /\ book[f] \in Books /\ pc[f] # "idle" /\ TouchesOwnBook(f)
<1>1. f \in Procs /\ book[f] \in Books /\ pc[f] # "idle"
  BY DEF CallsAreTyped, CallsHaveBooks, Procs, UndoFinalize, At
<1>2. TouchesOwnBook(f)
  BY <1>1 DEF TouchesOwnBook, UndoFinalize, Fail, GoTo, Files, Window
<1>3. ImportTypeOK'
  BY <1>1, <1>2, ImportAssumption
     DEF CallsAreTyped, ImportTypeOK, UndoFinalize, Fail, Status, FailedWithoutSource, Files,
         Window, Statuses
<1>4. CallsHaveBooks'
  BY <1>1, <1>2, ImportAssumption, CallsStay
     DEF CallsAreTyped, CallsHaveBooks, CopySteps, UndoFinalize, GoTo, Files, Window, EndingSteps,
         ImportSteps
<1>. QED  BY <1>1, <1>2, <1>3, <1>4 DEF CallsAreTyped

\* UndoFinalize: the row fails and claims no source.
LEMMA UndoFinalizeIsSound ==
  ASSUME ImportInv, NEW f \in Flows, UndoFinalize(f)
  PROVE  ImportInv'
<1>1. f \in Procs /\ book[f] \in Books /\ pc[f] # "idle" /\ TouchesOwnBook(f)
  BY UndoFinalizeTyped DEF ImportInv
<1>3. OneAtWork'
  BY <1>1, ImportAssumption, WorkStays
     DEF ImportInv, OneAtWork, AtWork, OpeningSteps, WindowSteps, UndoFinalize, At, GoTo, Window
<1>4. \A g \in Flows \ {f} : book[g] = book'[f] => FlowIsSound(g)'
  BY <1>1
     DEF ImportInv, CallsAreTyped, ImportTypeOK, FlowIsSound, StatusFits, AttemptIsHeld, CopyIsOwn,
         RetryIsSound, TextIsWritten, Gone, Status, Owns, UndoFinalize, Fail, FailedWithoutSource,
         GoTo, Files, Window
<1>5. FlowIsSound(f)'
  BY <1>1
     DEF OpeningSteps, WindowSteps, FlowIsSound, StatusFits, AttemptIsHeld, CopyIsOwn,
         RetryIsSound, TextIsWritten, UndoFinalize, At, GoTo
<1>6. \A c \in Books : c = book'[f] => BookIsSound(c)'
  BY <1>1
     DEF ImportInv, CallsAreTyped, ImportTypeOK, BookIsSound, Status, UndoFinalize, Fail,
         FailedWithoutSource
<1>. QED  BY <1>1, <1>3, <1>4, <1>5, <1>6, UndoFinalizeTyped, OwnBookSuffices DEF ImportInv

\* ReportBegin: the types, the locations, and what it touches.
LEMMA ReportBeginTyped ==
  ASSUME CallsAreTyped, NEW f \in Flows, ReportBegin(f)
  PROVE  CallsAreTyped' /\ f \in Procs /\ book[f] \in Books /\ pc[f] # "idle" /\ TouchesOwnBook(f)
<1>1. f \in Procs /\ book[f] \in Books /\ pc[f] # "idle"
  BY DEF CallsAreTyped, CallsHaveBooks, Procs, ReportBegin, At
<1>2. TouchesOwnBook(f)
  BY <1>1 DEF TouchesOwnBook, ReportBegin, ClearDerived, GoTo, Window
<1>3. ImportTypeOK'
  <2>1. row' \in [Books -> BookRows]
    BY <1>1 DEF CallsAreTyped, ImportTypeOK, ReportBegin, BookRows
  <2>2. dir' \in [Books -> BookFiles]
    BY <1>1 DEF CallsAreTyped, ImportTypeOK, ReportBegin, ClearDerived, BookFiles
  <2>3. \A c \in Books :
          /\ Status(c)' \in {"none", "queued", "copying"} => row'[c].hash = None
          /\ Status(c)' \in {"parsing", "indexing", "ready"} => row'[c].hash # None
    BY <1>1, <1>2, ImportAssumption DEF CallsAreTyped, ImportTypeOK, Status, ReportBegin
  <2>4. active' \in [Books -> Flows \union {None}] /\ cancelled' \subseteq Flows
    BY <1>1 DEF CallsAreTyped, ImportTypeOK, ReportBegin, Lease
  <2>5. book' \in [Procs -> Books \union {None}] /\ written' \in [Flows -> BOOLEAN] /\ restarts' \in 0..MaxRestarts
    BY <1>1 DEF CallsAreTyped, ImportTypeOK, ReportBegin, Window
  <2>. QED  BY <2>1, <2>2, <2>3, <2>4, <2>5 DEF ImportTypeOK, BookRows, BookFiles
<1>4. CallsHaveBooks'
  BY <1>1, <1>2, ImportAssumption, CallsStay
     DEF CallsAreTyped, CallsHaveBooks, CopySteps, ReportBegin, ClearDerived, GoTo, Window,
         EndingSteps, ImportSteps
<1>. QED  BY <1>1, <1>2, <1>3, <1>4 DEF CallsAreTyped

\* ReportBegin: the document is cleared by a flow whose row is not ready.
LEMMA ReportBeginIsSound ==
  ASSUME ImportInv, NEW f \in Flows, ReportBegin(f)
  PROVE  ImportInv'
<1>1. f \in Procs /\ book[f] \in Books /\ pc[f] # "idle" /\ TouchesOwnBook(f)
  BY ReportBeginTyped DEF ImportInv
<1>3. OneAtWork'
  BY <1>1, ImportAssumption, WorkStays
     DEF ImportInv, OneAtWork, AtWork, OpeningSteps, WindowSteps, ReportBegin, At, GoTo, Window
<1>4. \A g \in Flows \ {f} : book[g] = book'[f] => FlowIsSound(g)'
  <2>. SUFFICES ASSUME NEW g \in Flows \ {f}, book[g] = book'[f] PROVE FlowIsSound(g)'
    OBVIOUS
  <2>1. g \in Procs /\ pc'[g] = pc[g] /\ book'[g] = book[g] /\ FlowIsSound(g)
    BY <1>1 DEF TouchesOwnBook, Procs, ImportInv
  <2>2. StatusFits(g)'
    BY <1>1, <2>1 DEF FlowIsSound, StatusFits, Status, ReportBegin
  <2>3. AttemptIsHeld(g)'
    BY <1>1, <2>1 DEF FlowIsSound, AttemptIsHeld, Owns, ReportBegin, Lease
  <2>4. CopyIsOwn(g)'
    BY <1>1, <2>1
       DEF FlowIsSound, CopyIsOwn, Doomed, Gone, Status, ReportBegin, At, ClearDerived, GoTo
  <2>5. RetryIsSound(g)'
    BY <1>1, <2>1 DEF FlowIsSound, RetryIsSound, Doomed, Intact, ReportBegin, At, ClearDerived, GoTo
  <2>6. TextIsWritten(g)'
    BY <1>1, <2>1 DEF ImportInv, OneAtWork, WindowSteps, TextIsWritten, ReportBegin, At
  <2>. QED  BY <2>2, <2>3, <2>4, <2>5, <2>6 DEF FlowIsSound
<1>5. FlowIsSound(f)'
  BY <1>1
     DEF ImportInv, OpeningSteps, WindowSteps, FlowIsSound, StatusFits, AttemptIsHeld, CopyIsOwn,
         RetryIsSound, TextIsWritten, Status, ReportBegin, At, ClearDerived, GoTo, NoFiles, Window
<1>6. \A c \in Books : c = book'[f] => BookIsSound(c)'
  <2>1. FlowIsSound(f) /\ BookIsSound(book[f]) /\ UNCHANGED <<row, book, source, written, cut>>
    BY <1>1 DEF ImportInv, ReportBegin, Window
  <2>2. Status(book[f]) # "ready"
    BY <1>1, <2>1 DEF FlowIsSound, StatusFits, ReportBegin, At
  <2>3. dir'[book[f]].original = dir[book[f]].original
    BY <1>1 DEF ReportBegin, ClearDerived
  <2>4. Doomed(book[f]) => Doomed(book[f])'
    BY <1>1, <2>1 DEF TouchesOwnBook, Doomed, ReportBegin, At
  <2>. QED  BY <2>1, <2>2, <2>3, <2>4 DEF BookIsSound, Status, Intact
<1>. QED  BY <1>1, <1>3, <1>4, <1>5, <1>6, ReportBeginTyped, OwnBookSuffices DEF ImportInv

\* ReportFailure: the types, the locations, and what it touches.
LEMMA ReportFailureTyped ==
  ASSUME CallsAreTyped, NEW f \in Flows, ReportFailure(f)
  PROVE  CallsAreTyped' /\ f \in Procs /\ book[f] \in Books /\ pc[f] # "idle" /\ TouchesOwnBook(f)
<1>1. f \in Procs /\ book[f] \in Books /\ pc[f] # "idle"
  BY DEF CallsAreTyped, CallsHaveBooks, Procs, ReportFailure, At
<1>2. TouchesOwnBook(f)
  BY <1>1 DEF TouchesOwnBook, ReportFailure, Fail, GoTo, Files, Window
<1>3. ImportTypeOK'
  <2>1. row' \in [Books -> BookRows]
    <3>1. row[book[f]] \in BookRows /\ row \in [Books -> BookRows]
      BY <1>1 DEF CallsAreTyped, ImportTypeOK, BookRows
    <3>2. row'[book[f]] \in BookRows
      BY <1>1, <3>1 DEF ReportFailure, Fail, FailedWithSource, Statuses, BookRows
    <3>3. row' = [row EXCEPT ![book[f]] = row'[book[f]]]
      BY <1>1, <3>1 DEF ReportFailure, Fail
    <3>. QED  BY <3>1, <3>2, <3>3
  <2>2. dir' \in [Books -> BookFiles]
    BY <1>1 DEF CallsAreTyped, ImportTypeOK, ReportFailure, Files, BookFiles
  <2>3. \A c \in Books :
          /\ Status(c)' \in {"none", "queued", "copying"} => row'[c].hash = None
          /\ Status(c)' \in {"parsing", "indexing", "ready"} => row'[c].hash # None
    BY <1>1, <1>2, ImportAssumption
       DEF CallsAreTyped, ImportTypeOK, Status, ReportFailure, Fail, FailedWithSource
  <2>4. active' \in [Books -> Flows \union {None}] /\ cancelled' \subseteq Flows
    BY <1>1 DEF CallsAreTyped, ImportTypeOK, ReportFailure
  <2>5. book' \in [Procs -> Books \union {None}] /\ written' \in [Flows -> BOOLEAN] /\ restarts' \in 0..MaxRestarts
    BY <1>1 DEF CallsAreTyped, ImportTypeOK, ReportFailure, Files, Window
  <2>. QED  BY <2>1, <2>2, <2>3, <2>4, <2>5 DEF ImportTypeOK, BookRows, BookFiles
<1>4. CallsHaveBooks'
  BY <1>1, <1>2, ImportAssumption, CallsStay
     DEF CallsAreTyped, CallsHaveBooks, CopySteps, ReportFailure, GoTo, Files, Window, EndingSteps,
         ImportSteps
<1>. QED  BY <1>1, <1>2, <1>3, <1>4 DEF CallsAreTyped

\* ReportFailure: a failed row may keep its source.
LEMMA ReportFailureIsSound ==
  ASSUME ImportInv, NEW f \in Flows, ReportFailure(f)
  PROVE  ImportInv'
<1>1. f \in Procs /\ book[f] \in Books /\ pc[f] # "idle" /\ TouchesOwnBook(f)
  BY ReportFailureTyped DEF ImportInv
<1>3. OneAtWork'
  BY <1>1, ImportAssumption, WorkStays
     DEF ImportInv, OneAtWork, AtWork, OpeningSteps, WindowSteps, ReportFailure, GoTo, Window
<1>4. \A g \in Flows \ {f} : book[g] = book'[f] => FlowIsSound(g)'
  BY <1>1
     DEF ImportInv, FlowIsSound, StatusFits, AttemptIsHeld, CopyIsOwn, RetryIsSound, TextIsWritten,
         Doomed, Gone, Status, Owns, Intact, ReportFailure, At, Fail, FailedWithSource, GoTo,
         Files, Window
<1>5. FlowIsSound(f)'
  BY <1>1
     DEF OpeningSteps, WindowSteps, FlowIsSound, StatusFits, AttemptIsHeld, CopyIsOwn,
         RetryIsSound, TextIsWritten, ReportFailure, At, GoTo
<1>6. \A c \in Books : c = book'[f] => BookIsSound(c)'
  BY <1>1
     DEF ImportInv, BookIsSound, Doomed, Status, Intact, ReportFailure, At, Fail, FailedWithSource,
         GoTo, Files, Window
<1>. QED  BY <1>1, <1>3, <1>4, <1>5, <1>6, ReportFailureTyped, OwnBookSuffices DEF ImportInv

\* CancelBegin: the types, the locations, and what it touches.
LEMMA CancelBeginTyped ==
  ASSUME CallsAreTyped, NEW p \in Procs, NEW b \in Books, CancelBegin(p, b)
  PROVE  CallsAreTyped' /\ p \in Procs /\ b \in Books /\ TouchesOwnBook(p)
<1>1. p \in Procs /\ b \in Books
  OBVIOUS
<1>2. TouchesOwnBook(p)
  BY <1>1 DEF TouchesOwnBook, CallsAreTyped, ImportTypeOK, CancelBegin, At, GoTo, Files
<1>3. ImportTypeOK'
  <2>1. row' \in [Books -> BookRows]
    BY <1>1 DEF CallsAreTyped, ImportTypeOK, CancelBegin, BookRows
  <2>2. dir' \in [Books -> BookFiles]
    BY <1>1 DEF CallsAreTyped, ImportTypeOK, CancelBegin, Files, BookFiles
  <2>3. \A c \in Books :
          /\ Status(c)' \in {"none", "queued", "copying"} => row'[c].hash = None
          /\ Status(c)' \in {"parsing", "indexing", "ready"} => row'[c].hash # None
    BY <1>1, <1>2, ImportAssumption DEF CallsAreTyped, ImportTypeOK, Status, CancelBegin
  <2>4. active' \in [Books -> Flows \union {None}] /\ cancelled' \subseteq Flows
    BY <1>1 DEF CallsAreTyped, ImportTypeOK, CancelBegin, Lease
  <2>5. book' \in [Procs -> Books \union {None}] /\ written' \in [Flows -> BOOLEAN] /\ restarts' \in 0..MaxRestarts
    BY <1>1 DEF CallsAreTyped, ImportTypeOK, CancelBegin, Files
  <2>. QED  BY <2>1, <2>2, <2>3, <2>4, <2>5 DEF ImportTypeOK, BookRows, BookFiles
<1>4. CallsHaveBooks'
  BY <1>1, <1>2, ImportAssumption, CallsStay
     DEF CallsAreTyped, CallsHaveBooks, CopySteps, CancelBegin, GoTo, Files, CancelSteps,
         EndingSteps, ImportSteps
<1>. QED  BY <1>1, <1>2, <1>3, <1>4 DEF CallsAreTyped

\* CancelBegin: a token is set; a flow that had its attempt is cancelled
\* now.
LEMMA CancelBeginIsSound ==
  ASSUME ImportInv, NEW p \in Procs, NEW b \in Books, CancelBegin(p, b)
  PROVE  ImportInv'
<1>1. p \in Procs /\ b \in Books /\ TouchesOwnBook(p)
  BY CancelBeginTyped DEF ImportInv
<1>3. OneAtWork'
  BY <1>1, ImportAssumption, WorkStays
     DEF ImportInv, OneAtWork, AtWork, OpeningSteps, WindowSteps, CancelBegin, At, GoTo
<1>4. \A g \in Flows \ {p} : book[g] = book'[p] => FlowIsSound(g)'
  <2>. SUFFICES ASSUME NEW g \in Flows \ {p}, book[g] = book'[p] PROVE FlowIsSound(g)'
    OBVIOUS
  <2>1. g \in Procs /\ pc'[g] = pc[g] /\ book'[g] = book[g] /\ FlowIsSound(g)
    BY <1>1 DEF TouchesOwnBook, Procs, ImportInv
  <2>2. StatusFits(g)'
    BY <1>1, <2>1 DEF FlowIsSound, StatusFits, Status, CancelBegin
  <2>3. AttemptIsHeld(g)'
    BY <1>1, <2>1 DEF FlowIsSound, AttemptIsHeld, Owns, CancelBegin
  <2>4. CopyIsOwn(g)'
    BY <1>1, <2>1 DEF FlowIsSound, CopyIsOwn, Doomed, Gone, Status, CancelBegin, At, GoTo, Files
  <2>5. RetryIsSound(g)'
    BY <1>1, <2>1 DEF FlowIsSound, RetryIsSound, Doomed, Intact, CancelBegin, At, GoTo, Files
  <2>6. TextIsWritten(g)'
    BY <1>1, <2>1 DEF FlowIsSound, TextIsWritten, Doomed, Gone, Status, CancelBegin, At, GoTo, Files
  <2>. QED  BY <2>2, <2>3, <2>4, <2>5, <2>6 DEF FlowIsSound
<1>5. p \in Flows => FlowIsSound(p)'
  BY <1>1
     DEF OpeningSteps, WindowSteps, FlowIsSound, StatusFits, AttemptIsHeld, CopyIsOwn,
         RetryIsSound, TextIsWritten, CancelBegin, At, GoTo
<1>6. \A c \in Books : c = book'[p] => BookIsSound(c)'
  BY <1>1 DEF ImportInv, BookIsSound, Doomed, Status, Intact, CancelBegin, At, GoTo, Files
<1>. QED  BY <1>1, <1>3, <1>4, <1>5, <1>6, CancelBeginTyped, OwnBookSuffices DEF ImportInv

\* CancelRead: the types, the locations, and what it touches.
LEMMA CancelReadTyped ==
  ASSUME CallsAreTyped, NEW p \in Procs, CancelRead(p)
  PROVE  CallsAreTyped' /\ p \in Procs /\ book[p] \in Books /\ pc[p] # "idle" /\ TouchesOwnBook(p)
<1>1. p \in Procs /\ book[p] \in Books /\ pc[p] # "idle"
  BY DEF CallsAreTyped, CallsHaveBooks, CancelRead, At
<1>2. TouchesOwnBook(p)
  BY <1>1 DEF TouchesOwnBook, CancelRead, GoTo, Files, Window
<1>3. ImportTypeOK'
  BY <1>1, <1>2, ImportAssumption DEF CallsAreTyped, ImportTypeOK, CancelRead, Status, Files, Window
<1>4. CallsHaveBooks'
  BY <1>1, <1>2, ImportAssumption, CallsStay
     DEF CallsAreTyped, CallsHaveBooks, CopySteps, CancelRead, GoTo, Files, Window, CancelSteps,
         EndingSteps, ImportSteps
<1>. QED  BY <1>1, <1>2, <1>3, <1>4 DEF CallsAreTyped

\* CancelRead: the call only looks.
LEMMA CancelReadIsSound ==
  ASSUME ImportInv, NEW p \in Procs, CancelRead(p)
  PROVE  ImportInv'
<1>1. p \in Procs /\ book[p] \in Books /\ pc[p] # "idle" /\ TouchesOwnBook(p)
  BY CancelReadTyped DEF ImportInv
<1>3. OneAtWork'
  BY <1>1, ImportAssumption, WorkStays
     DEF AtWork, OpeningSteps, WindowSteps, CancelRead, At, GoTo, Window
<1>4. \A g \in Flows \ {p} : book[g] = book'[p] => FlowIsSound(g)'
  BY <1>1
     DEF ImportInv, FlowIsSound, StatusFits, AttemptIsHeld, CopyIsOwn, RetryIsSound, TextIsWritten,
         Doomed, Gone, Status, Owns, Intact, CancelRead, At, GoTo, Files
<1>5. p \in Flows => FlowIsSound(p)'
  BY <1>1
     DEF OpeningSteps, WindowSteps, FlowIsSound, StatusFits, AttemptIsHeld, CopyIsOwn,
         RetryIsSound, TextIsWritten, CancelRead, At, GoTo
<1>6. \A c \in Books : c = book'[p] => BookIsSound(c)'
  BY <1>1 DEF ImportInv, BookIsSound, Doomed, Status, Intact, CancelRead, At, GoTo, Files, Window
<1>. QED  BY <1>1, <1>3, <1>4, <1>5, <1>6, CancelReadTyped, OwnBookSuffices DEF ImportInv

\* CancelRemove: the types, the locations, and what it touches.
LEMMA CancelRemoveTyped ==
  ASSUME CallsAreTyped, NEW p \in Procs, CancelRemove(p)
  PROVE  CallsAreTyped' /\ p \in Procs /\ book[p] \in Books /\ pc[p] # "idle" /\ TouchesOwnBook(p)
<1>1. p \in Procs /\ book[p] \in Books /\ pc[p] # "idle"
  BY DEF CallsAreTyped, CallsHaveBooks, CancelRemove
<1>2. TouchesOwnBook(p)
  BY <1>1 DEF TouchesOwnBook, CancelRemove, RemoveBookDirectory, GoTo, Window
<1>3. ImportTypeOK'
  <2>1. row' \in [Books -> BookRows]
    BY <1>1 DEF CallsAreTyped, ImportTypeOK, CancelRemove, BookRows
  <2>2. dir' \in [Books -> BookFiles]
    BY <1>1 DEF CallsAreTyped, ImportTypeOK, CancelRemove, RemoveBookDirectory, NoFiles, BookFiles
  <2>3. \A c \in Books :
          /\ Status(c)' \in {"none", "queued", "copying"} => row'[c].hash = None
          /\ Status(c)' \in {"parsing", "indexing", "ready"} => row'[c].hash # None
    BY <1>1, <1>2, ImportAssumption DEF CallsAreTyped, ImportTypeOK, Status, CancelRemove
  <2>4. active' \in [Books -> Flows \union {None}] /\ cancelled' \subseteq Flows
    BY <1>1 DEF CallsAreTyped, ImportTypeOK, CancelRemove
  <2>5. book' \in [Procs -> Books \union {None}] /\ written' \in [Flows -> BOOLEAN] /\ restarts' \in 0..MaxRestarts
    BY <1>1 DEF CallsAreTyped, ImportTypeOK, CancelRemove, Window
  <2>. QED  BY <2>1, <2>2, <2>3, <2>4, <2>5 DEF ImportTypeOK, BookRows, BookFiles
<1>4. CallsHaveBooks'
  BY <1>1, <1>2, ImportAssumption, CallsStay
     DEF CallsAreTyped, CallsHaveBooks, CopySteps, CancelRemove, RemoveBookDirectory, NoFiles,
         GoTo, Window, CancelSteps, EndingSteps, ImportSteps
<1>. QED  BY <1>1, <1>2, <1>3, <1>4 DEF CallsAreTyped

\* CancelRemove: the book is doomed from here to the row's failure.
LEMMA CancelRemoveIsSound ==
  ASSUME ImportInv, NEW p \in Procs, CancelRemove(p)
  PROVE  ImportInv'
<1>1. p \in Procs /\ book[p] \in Books /\ pc[p] # "idle" /\ TouchesOwnBook(p)
  BY CancelRemoveTyped DEF ImportInv
<1>3. OneAtWork'
  BY <1>1, ImportAssumption, WorkStays
     DEF AtWork, OpeningSteps, WindowSteps, CancelRemove, GoTo, Window
<1>4. \A g \in Flows \ {p} : book[g] = book'[p] => FlowIsSound(g)'
  BY <1>1
     DEF ImportInv, CallsAreTyped, CallsHaveBooks, FlowIsSound, StatusFits, AttemptIsHeld,
         CopyIsOwn, RetryIsSound, TextIsWritten, Doomed, Status, Owns, CancelRemove,
         RemoveBookDirectory, NoFiles, GoTo, At, Window
<1>5. p \in Flows => FlowIsSound(p)'
  BY <1>1
     DEF OpeningSteps, WindowSteps, FlowIsSound, StatusFits, AttemptIsHeld, CopyIsOwn,
         RetryIsSound, TextIsWritten, CancelRemove, GoTo
<1>6. \A c \in Books : c = book'[p] => BookIsSound(c)'
  BY <1>1
     DEF ImportInv, CallsAreTyped, CallsHaveBooks, BookIsSound, Doomed, Status, CancelRemove, GoTo
<1>. QED  BY <1>1, <1>3, <1>4, <1>5, <1>6, CancelRemoveTyped, OwnBookSuffices DEF ImportInv

\* CancelMark: the types, the locations, and what it touches.
LEMMA CancelMarkTyped ==
  ASSUME CallsAreTyped, NEW p \in Procs, CancelMark(p)
  PROVE  CallsAreTyped' /\ p \in Procs /\ book[p] \in Books /\ pc[p] # "idle" /\ TouchesOwnBook(p)
<1>1. p \in Procs /\ book[p] \in Books /\ pc[p] # "idle"
  BY DEF CallsAreTyped, CallsHaveBooks, CancelMark
<1>2. TouchesOwnBook(p)
  BY <1>1 DEF TouchesOwnBook, CancelMark, Fail, CancelTakes, GoTo, Files, Window
<1>3. ImportTypeOK'
  BY <1>1, <1>2, ImportAssumption
     DEF CallsAreTyped, ImportTypeOK, CancelMark, Fail, Status, FailedWithoutSource, CancelTakes,
         Files, Window, Statuses
<1>4. CallsHaveBooks'
  BY <1>1, <1>2, ImportAssumption, CallsStay
     DEF CallsAreTyped, CallsHaveBooks, CopySteps, CancelMark, GoTo, Files, Window, EndingSteps,
         ImportSteps
<1>. QED  BY <1>1, <1>2, <1>3, <1>4 DEF CallsAreTyped

\* CancelMark: the row fails, and the book is no longer doomed.
LEMMA CancelMarkIsSound ==
  ASSUME ImportInv, NEW p \in Procs, CancelMark(p)
  PROVE  ImportInv'
<1>1. p \in Procs /\ book[p] \in Books /\ pc[p] # "idle" /\ TouchesOwnBook(p)
  BY CancelMarkTyped DEF ImportInv
<1>3. OneAtWork'
  BY <1>1, ImportAssumption, WorkStays
     DEF AtWork, OpeningSteps, WindowSteps, CancelMark, GoTo, Window
<1>4. \A g \in Flows \ {p} : book[g] = book'[p] => FlowIsSound(g)'
  BY <1>1
     DEF ImportInv, CallsAreTyped, ImportTypeOK, FlowIsSound, StatusFits, AttemptIsHeld, CopyIsOwn,
         RetryIsSound, TextIsWritten, Gone, Status, Owns, CancelMark, Fail, FailedWithoutSource,
         CancelTakes, At, GoTo, Files, Window
<1>5. p \in Flows => FlowIsSound(p)'
  BY <1>1
     DEF OpeningSteps, WindowSteps, FlowIsSound, StatusFits, AttemptIsHeld, CopyIsOwn,
         RetryIsSound, TextIsWritten, CancelMark, GoTo
<1>6. \A c \in Books : c = book'[p] => BookIsSound(c)'
  BY <1>1
     DEF ImportInv, CallsAreTyped, ImportTypeOK, BookIsSound, Status, CancelMark, Fail,
         FailedWithoutSource
<1>. QED  BY <1>1, <1>3, <1>4, <1>5, <1>6, CancelMarkTyped, OwnBookSuffices DEF ImportInv

---------------------------------------------------------------------------
(* The steps that are no one's, and the next-state relation                *)

\* cancelPending only aborts flows, and a stutter changes nothing.
LEMMA CancelPendingTyped ==
  ASSUME CallsAreTyped, CancelPending \/ UNCHANGED importVars
  PROVE  CallsAreTyped'
BY DEF CallsAreTyped, ImportTypeOK, CallsHaveBooks, Status, CancelPending, Files, importVars, Window

\* It keeps the invariant, which says nothing of aborted flows.
LEMMA CancelPendingIsSound ==
  ASSUME ImportInv, CancelPending \/ UNCHANGED importVars
  PROVE  ImportInv'
<1>. UNCHANGED <<row, dir, active, cancelled, pc, book, source, written, running, cut>>
  BY DEF CancelPending, Files, importVars, Window
<1>1. CallsAreTyped'
  BY CancelPendingTyped DEF ImportInv
<1>2. OneAtWork'
  BY DEF ImportInv, OneAtWork, AtWork
<1>3. \A f \in Flows : FlowIsSound(f)'
  BY DEF ImportInv, FlowIsSound, StatusFits, AttemptIsHeld, CopyIsOwn, RetryIsSound, TextIsWritten,
     Doomed, Gone, Status, Owns, Intact
<1>4. \A b \in Books : BookIsSound(b)'
  BY DEF ImportInv, BookIsSound, Doomed, Status, Intact
<1>. QED  BY <1>1, <1>2, <1>3, <1>4 DEF ImportInv

\* After a restart no call is under way, and no row is between two states.
LEMMA RestartTyped ==
  ASSUME CallsAreTyped, Restart
  PROVE  CallsAreTyped' /\ \A p \in Procs : pc'[p] = IF pc[p] = "idle" THEN "idle" ELSE "done"
<1>1. \A p \in Procs : pc'[p] = IF pc[p] = "idle" THEN "idle" ELSE "done"
  BY DEF Restart
<1>2. \A b \in Books : row[b] \in BookRows /\ dir[b] \in BookFiles
  BY DEF CallsAreTyped, ImportTypeOK, BookRows, BookFiles
<1>3. ASSUME NEW b \in Books
      PROVE  /\ Recovered(b) \in BookRows
             /\ Recovered(b).status \in {"none", "failed"} \/ Recovered(b) = row[b]
             /\ Recovered(b).status = "none" => Recovered(b) = row[b]
             /\ Recovered(b).status \notin {"queued", "copying", "parsing", "indexing"}
  <2>1. CASE Status(b) \in {"queued", "copying"}
    <3>1. Recovered(b) = [row[b] EXCEPT !.status = "failed", !.hash = None]
      BY <2>1 DEF Recovered
    <3>. QED  BY <1>2, <3>1 DEF BookRows, Statuses
  <2>2. CASE Status(b) \in {"parsing", "indexing"}
    <3>1. Recovered(b) = [row[b] EXCEPT !.status = "failed"]
      BY <2>2 DEF Recovered
    <3>. QED  BY <1>2, <3>1 DEF BookRows, Statuses
  <2>3. CASE Status(b) \notin {"queued", "copying", "parsing", "indexing"}
    <3>1. Recovered(b) = row[b]
      BY <2>3 DEF Recovered
    <3>. QED  BY <1>2, <2>3, <3>1 DEF Status
  <2>. QED  BY <2>1, <2>2, <2>3
<1>4. ASSUME NEW b \in Books
      PROVE  /\ RecoveredFiles(b) \in BookFiles
             /\ {RecoveredFiles(b).partial, RecoveredFiles(b).original} \subseteq {None, dir[b].original}
  <2>1. CASE Status(b) \in {"none", "queued", "copying"}
    <3>1. RecoveredFiles(b) = NoFiles
      BY <2>1 DEF RecoveredFiles
    <3>. QED  BY <3>1 DEF NoFiles, BookFiles
  <2>2. CASE Status(b) \notin {"none", "queued", "copying"}
    <3>1. RecoveredFiles(b) = [dir[b] EXCEPT !.partial = None]
      BY <2>2 DEF RecoveredFiles
    <3>. QED  BY <1>2, <3>1 DEF BookFiles
  <2>. QED  BY <2>1, <2>2
<1>5. \A b \in Books : row'[b] = Recovered(b) /\ dir'[b] = RecoveredFiles(b)
  BY DEF Restart
<1>6. row' \in [Books -> BookRows] /\ dir' \in [Books -> BookFiles]
  BY <1>3, <1>4 DEF Restart
<1>7. \A b \in Books :
        /\ Status(b)' \in {"none", "queued", "copying"} => row'[b].hash = None
        /\ Status(b)' \in {"parsing", "indexing", "ready"} => row'[b].hash # None
  BY <1>3, <1>5 DEF CallsAreTyped, ImportTypeOK, Status
<1>8. active' \in [Books -> Flows \union {None}] /\ restarts' \in 0..MaxRestarts
  BY ImportAssumption DEF Restart, CallsAreTyped, ImportTypeOK
<1>9. ImportTypeOK'
  BY <1>6, <1>7, <1>8 DEF CallsAreTyped, ImportTypeOK, Restart, BookRows, BookFiles
<1>10. pc' \in [Procs -> ImportSteps] /\ \A p \in Users : pc'[p] \in {"idle", "done"}
  BY <1>1 DEF Restart, ImportSteps, EndingSteps, Procs
<1>11. \A p \in Procs : pc'[p] # "idle" => book'[p] \in Books
  BY <1>1 DEF Restart, CallsAreTyped, CallsHaveBooks
<1>12. \A f \in Flows : pc'[f] \notin CopySteps
  BY <1>1 DEF Procs, CopySteps
<1>13. ASSUME NEW b \in Books, NEW f \in {dir'[b].partial, dir'[b].original} \ {None}
       PROVE  pc'[f] # "idle"
  <2>1. f = dir[b].original /\ f \in Flows
    BY <1>2, <1>4, <1>5, <1>13 DEF BookFiles
  <2>. QED  BY <1>1, <1>13, <2>1 DEF CallsAreTyped, CallsHaveBooks, Procs
<1>14. CallsHaveBooks'
  BY <1>10, <1>11, <1>12, <1>13 DEF Restart, CallsAreTyped, CallsHaveBooks
<1>. QED  BY <1>1, <1>9, <1>14 DEF CallsAreTyped

\* A restart is sound: what it finds ready was ready and whole, or doomed,
\* and then it counts as cut off.
LEMMA RestartIsSound ==
  ASSUME ImportInv, Restart
  PROVE  ImportInv'
<1>1. CallsAreTyped' /\ \A p \in Procs : pc'[p] = IF pc[p] = "idle" THEN "idle" ELSE "done"
  BY RestartTyped DEF ImportInv
<1>2. Flows \subseteq Procs /\ running' = running /\ running \subseteq Flows
  BY DEF Procs, Restart, ImportInv, CallsAreTyped, CallsHaveBooks
<1>3. \A f \in Flows : pc'[f] \in {"idle", "done"}
  BY <1>1, <1>2
<1>4. OneAtWork'
  BY <1>1, <1>2, <1>3 DEF ImportInv, OneAtWork, AtWork, OpeningSteps, WindowSteps
<1>5. \A f \in Flows : FlowIsSound(f)'
  BY <1>3 DEF FlowIsSound, StatusFits, AttemptIsHeld, CopyIsOwn, RetryIsSound, TextIsWritten,
     OpeningSteps, WindowSteps
<1>6. ASSUME NEW b \in Books
      PROVE  BookIsSound(b)'
  <2>1. row'[b] = Recovered(b) /\ dir'[b] = RecoveredFiles(b) /\ source' = source /\ written' = written
    BY DEF Restart
  <2>2. row[b] \in BookRows /\ dir[b] \in BookFiles
    BY DEF ImportInv, CallsAreTyped, ImportTypeOK, BookRows, BookFiles
  <2>3. row'[b].status \in {"none", "failed"} \/ (Status(b) = "ready" /\ row'[b] = row[b])
    BY <2>1, <2>2 DEF Recovered, Status, BookRows, Statuses
  <2>4. Status(b) = "ready" => dir'[b].original = dir[b].original /\ dir'[b].html = dir[b].html
    BY <2>1, <2>2 DEF RecoveredFiles, BookFiles
  <2>5. Doomed(b) \/ b \in cut => b \in cut'
    BY DEF Doomed, Restart
  <2>6. Status(b) = "ready" /\ Intact(b, row[b].hash) => Intact(b, row[b].hash)'
    BY <2>1, <2>3, <2>4 DEF Intact, Recovered
  <2>. QED  BY <2>3, <2>4, <2>5, <2>6 DEF ImportInv, BookIsSound, Status
<1>. QED  BY <1>1, <1>4, <1>5, <1>6 DEF ImportInv

\* The state of a fresh library.
LEMMA FreshLibraryIsSound ==
  ASSUME ImportInit
  PROVE  ImportInv
<1>1. ImportTypeOK
  BY ImportAssumption DEF ImportInit, ImportTypeOK, NoRow, NoFiles, Statuses, Status
<1>2. CallsHaveBooks
  BY DEF ImportInit, CallsHaveBooks, NoFiles, CopySteps, Procs, ImportSteps
<1>3. OneAtWork
  BY DEF ImportInit, OneAtWork, AtWork, Procs, OpeningSteps, WindowSteps
<1>4. \A f \in Flows : FlowIsSound(f)
  BY DEF ImportInit, Procs, FlowIsSound, StatusFits, AttemptIsHeld, CopyIsOwn, RetryIsSound,
         TextIsWritten,
     OpeningSteps, WindowSteps
<1>5. \A b \in Books : BookIsSound(b)
  BY DEF ImportInit, BookIsSound, Status, NoRow
<1>. QED  BY <1>1, <1>2, <1>3, <1>4, <1>5 DEF ImportInv, CallsAreTyped


\* One step of a flow.
LEMMA FlowStepTyped ==
  ASSUME CallsAreTyped, NEW f \in Flows, FlowStep(f)
  PROVE  CallsAreTyped'
BY RegisterImportTyped, StartCopyingTyped, PrepareReplacementTyped, RegisterReplacementTyped,
   CopyOpenTyped, CopyWriteTyped, CopyRenameTyped, CopyFailedTyped, MarkFailedTyped, BeginFailedTyped,
   ClaimHashTyped, RemoveDuplicateTyped, RegisterRetryTyped, ResetForRetryTyped, RunCreatedImportTyped,
   NoticeAbortTyped, ReadBookSourceTyped, BeginParseTyped, WriteDerivedTyped, RecheckDerivedTyped,
   AppendSectionsTyped, AppendRefusedTyped, FinalizeBeginTyped, BeginIndexingTyped, FinalizeCheckTyped,
   FinalizeCommitTyped, FinalizeTakeTyped, CompensateTyped, UndoFinalizeTyped, ReportBeginTyped,
   ReportFailureTyped
   DEF FlowStep

\* One step of a cancellation.
LEMMA CancelStepTyped ==
  ASSUME CallsAreTyped, NEW p \in Procs, CancelStep(p)
  PROVE  CallsAreTyped'
BY CancelReadTyped, CancelRemoveTyped, CancelMarkTyped DEF CancelStep

\* A step of a flow keeps the invariant,
LEMMA FlowStepIsSound ==
  ASSUME ImportInv, NEW f \in Flows, FlowStep(f)
  PROVE  ImportInv'
BY RegisterImportIsSound, StartCopyingIsSound, PrepareReplacementIsSound,
   RegisterReplacementIsSound,
   CopyOpenIsSound, CopyWriteIsSound, CopyRenameIsSound, CopyFailedIsSound, MarkFailedIsSound,
   BeginFailedIsSound, ClaimHashIsSound, RemoveDuplicateIsSound, RegisterRetryIsSound,
   ResetForRetryIsSound, RunCreatedImportIsSound, NoticeAbortIsSound, ReadBookSourceIsSound,
   BeginParseIsSound, WriteDerivedIsSound, RecheckDerivedIsSound, AppendSectionsIsSound,
   AppendRefusedIsSound, FinalizeBeginIsSound, BeginIndexingIsSound, FinalizeCheckIsSound,
   FinalizeCommitIsSound, FinalizeTakeIsSound, CompensateIsSound, UndoFinalizeIsSound,
   ReportBeginIsSound, ReportFailureIsSound
   DEF FlowStep

\* and so does one of a cancellation.
LEMMA CancelStepIsSound ==
  ASSUME ImportInv, NEW p \in Procs, CancelStep(p)
  PROVE  ImportInv'
BY CancelReadIsSound, CancelRemoveIsSound, CancelMarkIsSound DEF CancelStep

\* Every step keeps the types and the locations.
LEMMA ImportStepTyped ==
  CallsAreTyped /\ [ImportNext]_importVars => CallsAreTyped'
<1>. SUFFICES ASSUME CallsAreTyped, [ImportNext]_importVars PROVE CallsAreTyped'
  OBVIOUS
<1>1. ASSUME NEW f \in Flows, NEW b \in Books, BeginRetry(f, b) PROVE CallsAreTyped'
  BY <1>1, BeginRetryTyped
<1>2. ASSUME NEW f \in Flows, NEW b \in Books, NEW s \in Sources, BeginImport(f, b, s) \/ BeginReplacement(f, b, s)
      PROVE  CallsAreTyped'
  BY <1>2, BeginImportTyped, BeginReplacementTyped
<1>3. ASSUME NEW f \in Flows, FlowStep(f) PROVE CallsAreTyped'
  BY <1>3, FlowStepTyped
<1>4. CASE CancelPending \/ UNCHANGED importVars
  BY <1>4, CancelPendingTyped
<1>5. ASSUME NEW p \in Procs, CancelStep(p) PROVE CallsAreTyped'
  BY <1>5, CancelStepTyped
<1>6. ASSUME NEW p \in Procs, NEW b \in Books, CancelBegin(p, b) PROVE CallsAreTyped'
  BY <1>6, CancelBeginTyped
<1>7. CASE Restart
  BY <1>7, RestartTyped
<1>. QED  BY <1>1, <1>2, <1>3, <1>4, <1>5, <1>6, <1>7 DEF ImportNext

\* Every step keeps the invariant, if no retry overlaps after it.
LEMMA ImportStepIsSound ==
  ImportInv /\ RetriesComeAlone' /\ [ImportNext]_importVars => ImportInv'
<1>. SUFFICES ASSUME ImportInv, RetriesComeAlone', [ImportNext]_importVars PROVE ImportInv'
  OBVIOUS
<1>1. ASSUME NEW f \in Flows, NEW b \in Books, BeginRetry(f, b) PROVE ImportInv'
  BY <1>1, BeginRetryIsSound
<1>2. ASSUME NEW f \in Flows, NEW b \in Books, NEW s \in Sources, BeginImport(f, b, s) \/ BeginReplacement(f, b, s)
      PROVE  ImportInv'
  BY <1>2, BeginImportIsSound, BeginReplacementIsSound
<1>3. ASSUME NEW f \in Flows, FlowStep(f) PROVE ImportInv'
  BY <1>3, FlowStepIsSound
<1>4. CASE CancelPending \/ UNCHANGED importVars
  BY <1>4, CancelPendingIsSound
<1>5. ASSUME NEW p \in Procs, CancelStep(p) PROVE ImportInv'
  BY <1>5, CancelStepIsSound
<1>6. ASSUME NEW p \in Procs, NEW b \in Books, CancelBegin(p, b) PROVE ImportInv'
  BY <1>6, CancelBeginIsSound
<1>7. CASE Restart
  BY <1>7, RestartIsSound
<1>. QED  BY <1>1, <1>2, <1>3, <1>4, <1>5, <1>6, <1>7 DEF ImportNext

\* Imports keep their types: in every state a row has a hash from the moment
\* its source is claimed, and not before, whatever the calls on the book.
THEOREM ImportsAreTyped == ImportSpec => []ImportTypeOK
<1>1. ImportInit => CallsAreTyped
  BY FreshLibraryIsSound DEF ImportInv
<1>2. CallsAreTyped => ImportTypeOK
  BY DEF CallsAreTyped
<1>. QED  BY <1>1, <1>2, ImportStepTyped, PTL DEF ImportSpec

\* As long as no retry of a book overlaps another flow's work on it, a ready
\* book that no call is working on, and whose cancellation no restart cut off,
\* is whole: the file its hash was taken of,
\* its derived text and its sections are there, whatever cancellations,
\* failures and restarts came between the steps that made it ready.
THEOREM ReadyBooksAreWhole == ImportSpec /\ []RetriesComeAlone => []ReadyBookIsWhole
<1>1. ImportInit => ImportInv
  BY FreshLibraryIsSound
<1>2. ImportInv => ReadyBookIsWhole
  <2>. SUFFICES ASSUME ImportInv, NEW b \in Books, Status(b) = "ready", Quiet(b), b \notin cut
                PROVE  Intact(b, row[b].hash) /\ row[b].text /\ dir[b].html
    BY DEF ReadyBookIsWhole
  <2>1. ~Doomed(b)
    BY DEF Doomed, Quiet, Waiting
  <2>. QED  BY <2>1 DEF ImportInv, BookIsSound
<1>. QED  BY <1>1, <1>2, ImportStepIsSound, PTL DEF ImportSpec
=============================================================================

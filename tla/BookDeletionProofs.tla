------------------------- MODULE BookDeletionProofs -------------------------
(***************************************************************************)
(* What is proved about BookDeletion for any number of books, failures and *)
(* kills: its types, that the files of a book in the library are never     *)
(* lost (NothingIsLost), and that what no journal names any more is all    *)
(* there or all gone (OldOrGone).                                          *)
(*                                                                         *)
(* The argument: whatever is in the trash is named by a journal with its   *)
(* trash directory (JournalsAreSound), so a journal that is given up must  *)
(* have an empty one; a deletion works alone, on the only journal, and     *)
(* deletes the rows only when nothing of the book is left at its place     *)
(* (DeletionIsSound); a recovery goes on only while every entry is either  *)
(* at its place or in the trash (RecoveryIsSound).                         *)
(***************************************************************************)
EXTENDS BookDeletion, TLAPS

ExecutionSteps == {"collect", "write", "name", "root", "stage", "verify", "commit", "mark", "markname",
                   "erase", "unroot", "unmark", "unname"}
RecoverySteps == {"open", "list", "apply", "runmark", "rununame"}

(* Who is at work: a deletion, one of the three recoveries, or nobody; the *)
(* deletion and its recoveries with no import at work.                     *)
CallsAreSound ==
  /\ at \in ExecutionSteps \union RecoverySteps \union {"idle"}
  /\ at = "idle" => app # "starting" /\ mode = "none"
  /\ at \in ExecutionSteps => mode = "execute"
  /\ at \in RecoverySteps => mode \in {"before", "after", "startup"}
  /\ mode = "startup" => app = "starting"
  /\ at # "idle" /\ mode # "startup" =>
       app = "up" /\ book \in Books /\ \A b \in Books : status[b] # "busy"

(* The trash is on record, the trees of deleted books are gone from their  *)
(* places, and those of readable books are there or in the trash.          *)
JournalsAreSound ==
  /\ \A b \in Books, k \in Kinds : trash[b][k] # "absent" => b \in root /\ k \in intent[b]
  /\ \A b \in Books, k \in Kinds : status[b] = "none" => source[b][k] = "absent"
  /\ \A b \in Books : status[b] = "ready" =>
       \/ source[b]["book"] = "whole"
       \/ source[b]["book"] = "absent" /\ trash[b]["book"] = "whole"

(* How far the deletion is.                                                *)
DeletionIsSound ==
  mode = "execute" =>
    /\ Pending \subseteq {book}
    /\ at \in {"collect", "write", "name"} <=> Pending = {}
    /\ at \in {"write", "name", "root", "stage", "verify", "commit"} => status[book] \in {"ready", "failed"}
    /\ at \in {"write", "name", "root", "stage"} => todo = Present(book)
    /\ at \in {"root", "stage"} => todo \subseteq intent[book] /\ \A k \in todo : trash[book][k] = "absent"
    /\ at \in {"verify", "commit"} => Present(book) = {}
    /\ at \in {"mark", "markname", "erase", "unroot", "unmark", "unname"} => status[book] = "none"
    /\ at \in {"stage", "verify", "commit", "mark", "markname", "erase", "unroot"} => book \in root
    /\ at \in {"unmark", "unname"} => book \notin root
    /\ at = "unname" => book \notin marker

(* How far the recovery of a journal is.                                   *)
RecoveryIsSound ==
  /\ at \in {"apply", "runmark", "rununame"} => Preflight
  /\ at \in {"runmark", "rununame"} => Recovering \in Pending \ root
  /\ at = "rununame" => Recovering \notin marker

Inv == TypeOK /\ CallsAreSound /\ JournalsAreSound /\ DeletionIsSound /\ RecoveryIsSound

-----------------------------------------------------------------------------
\* The journal that is recovered next is one of those there are.
LEMMA RecoveringIsPending == Pending # {} => Recovering \in Pending
BY DEF Recovering

\* It depends on the intents alone.
LEMMA RecoveringStays ==
  ASSUME intent' = intent
  PROVE  Recovering' = Recovering /\ Pending' = Pending
BY DEF Recovering, Pending

\* None is recovered when there is none.
LEMMA NothingToRecover == Recovering # None => Recovering \in Pending
BY DEF Recovering

\* A library starts with nothing at work and no journal.
LEMMA Initially == Init => Inv
<1> SUFFICES ASSUME Init PROVE Inv
  OBVIOUS
<1>1. TypeOK
  BY BoundAssumption DEF Init, TypeOK, Statuses, Trees, Kinds, Places, Pending
<1>2. CallsAreSound /\ DeletionIsSound /\ RecoveryIsSound
  BY DEF Init, CallsAreSound, DeletionIsSound, RecoveryIsSound, ExecutionSteps, RecoverySteps
<1>3. JournalsAreSound
  BY DEF Init, JournalsAreSound, Kinds
<1> QED
  BY <1>1, <1>2, <1>3 DEF Inv

(* One tree is replaced.                                                   *)
LEMMA OneTree ==
  ASSUME NEW f \in [Books -> [Kinds -> Trees]], NEW b \in Books, NEW k \in Kinds, NEW t \in Trees,
         NEW g, g = [f EXCEPT ![b][k] = t]
  PROVE  /\ g \in [Books -> [Kinds -> Trees]]
         /\ g[b][k] = t
         /\ \A c \in Books, l \in Kinds : c # b \/ l # k => g[c][l] = f[c][l]
OBVIOUS

\* What is there of a book is of its kinds.
LEMMA PresentIsOfKinds == \A b : Present(b) \subseteq Kinds
BY DEF Present

\* None is told apart from every list of sources.
LEMMA NoneIsNoList == None \notin Books /\ None \notin SUBSET Kinds
BY NoneAssumption

\* Naming the intent adds one journal.
LEMMA OneMoreJournal ==
  ASSUME NEW S \in SUBSET Kinds, TypeOK, book \in Books, intent' = [intent EXCEPT ![book] = S]
  PROVE  Pending' = Pending \union {book} /\ intent' \in [Books -> {None} \union SUBSET Kinds]
BY NoneIsNoList DEF TypeOK, Pending

(* How a call ends that is refused, and how a recovery ends.               *)
LEMMA Refusal ==
  ASSUME CallsAreSound, at # "idle", Refused
  PROVE  \/ mode = "execute" /\ at' = "open" /\ mode' = "after" /\ UNCHANGED <<app, book>>
         \/ mode \in {"before", "after"} /\ at' = "idle" /\ mode' = "none" /\ book' = None /\ UNCHANGED app
         \/ mode = "startup" /\ at' = "idle" /\ mode' = "none" /\ book' = None /\ app' = "down"
<1>1. mode \in {"execute", "before", "after", "startup"}
  BY DEF CallsAreSound, ExecutionSteps, RecoverySteps
<1>2. CASE mode = "execute"
  BY <1>2 DEF Refused, Goto
<1>3. CASE mode \in {"before", "after"}
  BY <1>3 DEF Refused, Done
<1>4. CASE mode = "startup"
  BY <1>4 DEF Refused, Done
<1> QED
  BY <1>1, <1>2, <1>3, <1>4

\* Where a call goes when its recovery has ended.
LEMMA EndOfRecovery ==
  ASSUME CallsAreSound, at \in RecoverySteps, AfterRecovery
  PROVE  \/ mode = "before" /\ at' = "collect" /\ mode' = "execute" /\ UNCHANGED <<app, book, status, source>>
         \/ mode = "after" /\ at' = "idle" /\ mode' = "none" /\ book' = None /\ UNCHANGED <<app, status, source>>
         \/ /\ mode = "startup" /\ at' = "idle" /\ mode' = "none" /\ book' = None /\ app' = "up"
            /\ status' = [b \in Books |-> IF status[b] = "busy" THEN "failed" ELSE status[b]]
            /\ \/ UNCHANGED source
               \/ source' = [b \in Books |-> IF status[b] = "busy" THEN [source[b] EXCEPT !["book"] = "absent"] ELSE source[b]]
<1>1. mode \in {"before", "after", "startup"}
  BY DEF CallsAreSound
<1>2. CASE mode = "before"
  BY <1>2 DEF AfterRecovery, Goto
<1>3. CASE mode = "after"
  BY <1>3 DEF AfterRecovery, Done
<1>4. CASE mode = "startup"
  BY <1>4 DEF AfterRecovery, Done
<1> QED
  BY <1>1, <1>2, <1>3, <1>4

(* A failed removal tears trees of deleted books only, and only those that *)
(* are there.                                                              *)
LEMMA TornTrees ==
  ASSUME Inv, Tears, app # "down"
  PROVE  /\ source' \in [Books -> [Kinds -> Trees]]
         /\ trash' \in [Books -> [Kinds -> Trees]]
         /\ \A b \in Books, k \in Kinds : /\ source'[b][k] = "absent" <=> source[b][k] = "absent"
                                          /\ trash'[b][k] = "absent" <=> trash[b][k] = "absent"
         /\ \A b \in Books : status[b] # "none" => source'[b] = source[b] /\ trash'[b] = trash[b]
<1>1. CASE UNCHANGED files
  BY <1>1 DEF Inv, TypeOK, files
<1>2. ASSUME NEW k \in Kinds, at = "erase", Tear(book, k)
      PROVE  /\ UNCHANGED source
             /\ trash' = [trash EXCEPT ![book][k] = Torn(@)]
             /\ book \in Books /\ status[book] = "none"
  BY <1>2 DEF Tear, Inv, CallsAreSound, DeletionIsSound, ExecutionSteps
<1>3. ASSUME NEW k \in Kinds, at = "apply", Recovering # None, Tear(Recovering, k)
      PROVE  /\ Recovering \in Books /\ status[Recovering] = "none"
             /\ \/ UNCHANGED source /\ trash' = [trash EXCEPT ![Recovering][k] = Torn(@)]
                \/ UNCHANGED trash /\ source' = [source EXCEPT ![Recovering][k] = Torn(@)]
  BY <1>3, NothingToRecover DEF Tear, Pending
<1>4. ASSUME NEW b \in Books, NEW k \in Kinds, status[b] = "none",
             \/ UNCHANGED source /\ trash' = [trash EXCEPT ![b][k] = Torn(@)]
             \/ UNCHANGED trash /\ source' = [source EXCEPT ![b][k] = Torn(@)]
      PROVE  /\ source' \in [Books -> [Kinds -> Trees]]
             /\ trash' \in [Books -> [Kinds -> Trees]]
             /\ \A c \in Books, l \in Kinds : /\ source'[c][l] = "absent" <=> source[c][l] = "absent"
                                              /\ trash'[c][l] = "absent" <=> trash[c][l] = "absent"
             /\ \A c \in Books : status[c] # "none" => source'[c] = source[c] /\ trash'[c] = trash[c]
  <2>1. CASE UNCHANGED source /\ trash' = [trash EXCEPT ![b][k] = Torn(@)]
    BY <1>4, <2>1 DEF Inv, TypeOK, Torn, Trees
  <2>2. CASE UNCHANGED trash /\ source' = [source EXCEPT ![b][k] = Torn(@)]
    BY <1>4, <2>2 DEF Inv, TypeOK, Torn, Trees
  <2> QED
    BY <1>4, <2>1, <2>2
<1> QED
  BY <1>1, <1>2, <1>3, <1>4 DEF Tears

\* delete_book begins.
LEMMA BeginInv ==
  ASSUME NEW b \in Books, Inv, Begin(b)
  PROVE  Inv'
<1>1. TypeOK'
  BY DEF Inv, TypeOK, Begin, Goto, Places, Pending, files, journal
<1>2. CallsAreSound'
  BY DEF CallsAreSound, Begin, Goto, ExecutionSteps, RecoverySteps
<1>3. JournalsAreSound'
  BY DEF Inv, JournalsAreSound, Begin, files, journal
<1>4. DeletionIsSound'
  BY DEF DeletionIsSound, Begin
<1>5. RecoveryIsSound'
  BY DEF RecoveryIsSound, Begin, Goto
<1> QED
  BY <1>1, <1>2, <1>3, <1>4, <1>5 DEF Inv

\* The entries of the plan are collected: what is there of the book.
LEMMA CollectInv ==
  ASSUME Inv, Collect
  PROVE  Inv'
<1>1. TypeOK'
  BY PresentIsOfKinds DEF Inv, TypeOK, Collect, Goto, Places, Pending, journal, files
<1>2. CallsAreSound'
  BY DEF Inv, CallsAreSound, Collect, Step, Goto, ExecutionSteps, RecoverySteps
<1>3. JournalsAreSound'
  BY DEF Inv, TypeOK, CallsAreSound, JournalsAreSound, DeletionIsSound, Collect, Step, ExecutionSteps,
      files
<1>4. DeletionIsSound'
  BY DEF Inv, DeletionIsSound, Collect, Step, Goto, Present, Pending, files, journal
<1>5. RecoveryIsSound'
  BY DEF RecoveryIsSound, Collect, Goto
<1> QED
  BY <1>1, <1>2, <1>3, <1>4, <1>5 DEF Inv

\* The intent is written beside its name.
LEMMA WriteIntentInv ==
  ASSUME Inv, WriteIntent
  PROVE  Inv'
<1>1. TypeOK'
  BY DEF Inv, TypeOK, WriteIntent, Goto, Places, Pending, files
<1>2. CallsAreSound'
  BY DEF Inv, CallsAreSound, WriteIntent, Step, Goto, ExecutionSteps, RecoverySteps
<1>3. JournalsAreSound'
  BY DEF Inv, JournalsAreSound, WriteIntent, files
<1>4. DeletionIsSound'
  BY DEF Inv, DeletionIsSound, WriteIntent, Step, Goto, Pending, Present, files
<1>5. RecoveryIsSound'
  BY DEF RecoveryIsSound, WriteIntent, Goto
<1> QED
  BY <1>1, <1>2, <1>3, <1>4, <1>5 DEF Inv

\* The intent gets its name: from here on there is a journal, of an empty trash.
LEMMA NameIntentInv ==
  ASSUME Inv, NameIntent
  PROVE  Inv'
<1>1. TypeOK'
  <2>1. book \in Books /\ todo \in SUBSET Kinds
    BY DEF Inv, TypeOK, NameIntent, Step, CallsAreSound, DeletionIsSound, ExecutionSteps
  <2>2. Pending' = Pending \union {book} /\ intent' \in [Books -> {None} \union SUBSET Kinds]
    BY <2>1, OneMoreJournal DEF Inv, NameIntent
  <2> QED
    BY <2>2 DEF Inv, TypeOK, NameIntent, Goto, Places, files, bounds
<1>2. CallsAreSound'
  BY DEF Inv, CallsAreSound, NameIntent, Step, Goto, ExecutionSteps, RecoverySteps
<1>3. JournalsAreSound'
  BY DEF Inv, TypeOK, CallsAreSound, JournalsAreSound, DeletionIsSound, NameIntent, Step,
     ExecutionSteps, files
<1>4. DeletionIsSound'
  <2>1. book \in Books /\ todo \in SUBSET Kinds /\ Pending = {} /\ mode = "execute"
    BY DEF Inv, TypeOK, NameIntent, Step, CallsAreSound, DeletionIsSound, ExecutionSteps
  <2>2. Pending' = {book} /\ intent'[book] = todo
    BY <2>1, OneMoreJournal DEF Inv, TypeOK, NameIntent
  <2>3. \A k \in todo : trash[book][k] = "absent"
    BY <2>1 DEF Inv, JournalsAreSound, TypeOK, Pending
  <2> QED
    BY <2>1, <2>2, <2>3 DEF Inv, DeletionIsSound, NameIntent, Goto, Step, files, Present
<1>5. RecoveryIsSound'
  BY DEF RecoveryIsSound, NameIntent, Goto
<1> QED
  BY <1>1, <1>2, <1>3, <1>4, <1>5 DEF Inv

\* The trash directory is created.
LEMMA CreateRootInv ==
  ASSUME Inv, CreateRoot
  PROVE  Inv'
<1>1. TypeOK'
  BY DEF Inv, TypeOK, CallsAreSound, DeletionIsSound, CreateRoot, Step, Goto, Places, Pending,
     ExecutionSteps, files
<1>2. CallsAreSound'
  BY DEF Inv, CallsAreSound, CreateRoot, Step, Goto, ExecutionSteps, RecoverySteps
<1>3. JournalsAreSound'
  BY DEF Inv, JournalsAreSound, CreateRoot, files
<1>4. DeletionIsSound'
  BY DEF Inv, DeletionIsSound, CreateRoot, Step, Goto, Pending, Present, files
<1>5. RecoveryIsSound'
  BY DEF RecoveryIsSound, CreateRoot, Goto
<1> QED
  BY <1>1, <1>2, <1>3, <1>4, <1>5 DEF Inv

\* A tree is moved to the trash, whose journal lists it.
LEMMA StageInv ==
  ASSUME NEW k \in Kinds, Inv, Stage(k)
  PROVE  Inv'
<1>1. TypeOK'
  BY DEF Inv, TypeOK, CallsAreSound, DeletionIsSound, Stage, Step, First, Move, Pending,
     ExecutionSteps, journal
<1>2. CallsAreSound'
  BY DEF Inv, CallsAreSound, Stage
<1>3. JournalsAreSound'
  BY DEF Inv, TypeOK, CallsAreSound, JournalsAreSound, DeletionIsSound, Stage, Step, First, Move,
     ExecutionSteps, journal
<1>4. DeletionIsSound'
  BY DEF Inv, TypeOK, CallsAreSound, DeletionIsSound, Stage, Move, Pending, Present, journal
<1>5. RecoveryIsSound'
  BY DEF RecoveryIsSound, Stage, Step
<1> QED
  BY <1>1, <1>2, <1>3, <1>4, <1>5 DEF Inv

\* Everything is staged.
LEMMA StagedAllInv ==
  ASSUME Inv, StagedAll
  PROVE  Inv'
<1>1. TypeOK'
  BY DEF Inv, TypeOK, StagedAll, Goto, Places, Pending, files, journal
<1>2. CallsAreSound'
  BY DEF Inv, CallsAreSound, StagedAll, Step, Goto, ExecutionSteps, RecoverySteps
<1>3. JournalsAreSound'
  BY DEF Inv, JournalsAreSound, StagedAll, files, journal
<1>4. DeletionIsSound'
  BY DEF Inv, DeletionIsSound, StagedAll, Step, Goto, Pending, Present, files, journal
<1>5. RecoveryIsSound'
  BY DEF RecoveryIsSound, StagedAll, Goto
<1> QED
  BY <1>1, <1>2, <1>3, <1>4, <1>5 DEF Inv

\* Nothing of the book is left at its place.
LEMMA VerifyInv ==
  ASSUME Inv, Verify
  PROVE  Inv'
<1>1. TypeOK'
  BY DEF Inv, TypeOK, Verify, Goto, Places, Pending, files, journal
<1>2. CallsAreSound'
  BY DEF Inv, CallsAreSound, Verify, Step, Goto, ExecutionSteps, RecoverySteps
<1>3. JournalsAreSound'
  BY DEF Inv, JournalsAreSound, Verify, files, journal
<1>4. DeletionIsSound'
  BY DEF Inv, DeletionIsSound, Verify, Step, Goto, Pending, Present, files, journal
<1>5. RecoveryIsSound'
  BY DEF RecoveryIsSound, Verify, Goto
<1> QED
  BY <1>1, <1>2, <1>3, <1>4, <1>5 DEF Inv

\* The rows are deleted; the files are in the trash by then.
LEMMA CompleteDeleteInv ==
  ASSUME Inv, CompleteDelete
  PROVE  Inv'
<1>1. TypeOK'
  BY DEF Inv, TypeOK, CompleteDelete, Goto, Statuses, Places, Pending, files, journal
<1>2. CallsAreSound'
  BY DEF Inv, CallsAreSound, CompleteDelete, Step, Goto, ExecutionSteps, RecoverySteps
<1>3. JournalsAreSound'
  BY DEF Inv, CallsAreSound, JournalsAreSound, DeletionIsSound, CompleteDelete, Step, Present,
     ExecutionSteps, files, journal
<1>4. DeletionIsSound'
  BY DEF Inv, TypeOK, DeletionIsSound, CompleteDelete, Step, Goto, Pending, journal
<1>5. RecoveryIsSound'
  BY DEF RecoveryIsSound, CompleteDelete, Goto
<1> QED
  BY <1>1, <1>2, <1>3, <1>4, <1>5 DEF Inv

\* The marker is written beside its name.
LEMMA WriteMarkerInv ==
  ASSUME Inv, WriteMarker
  PROVE  Inv'
<1>1. TypeOK'
  BY DEF Inv, TypeOK, WriteMarker, Goto, Places, Pending, files
<1>2. CallsAreSound'
  BY DEF Inv, CallsAreSound, WriteMarker, Step, Goto, ExecutionSteps, RecoverySteps
<1>3. JournalsAreSound'
  BY DEF Inv, JournalsAreSound, WriteMarker, files
<1>4. DeletionIsSound'
  BY DEF Inv, DeletionIsSound, WriteMarker, Step, Goto, Pending
<1>5. RecoveryIsSound'
  BY DEF RecoveryIsSound, WriteMarker, Goto
<1> QED
  BY <1>1, <1>2, <1>3, <1>4, <1>5 DEF Inv

\* The marker gets its name.
LEMMA NameMarkerInv ==
  ASSUME Inv, NameMarker
  PROVE  Inv'
<1>1. TypeOK'
  BY DEF Inv, TypeOK, CallsAreSound, DeletionIsSound, NameMarker, Step, Goto, Places, Pending,
     ExecutionSteps, files
<1>2. CallsAreSound'
  BY DEF Inv, CallsAreSound, NameMarker, Step, Goto, ExecutionSteps, RecoverySteps
<1>3. JournalsAreSound'
  BY DEF Inv, JournalsAreSound, NameMarker, files
<1>4. DeletionIsSound'
  BY DEF Inv, DeletionIsSound, NameMarker, Step, Goto, Pending
<1>5. RecoveryIsSound'
  BY DEF RecoveryIsSound, NameMarker, Goto
<1> QED
  BY <1>1, <1>2, <1>3, <1>4, <1>5 DEF Inv

\* A tree in the trash of a deleted book is erased.
LEMMA EraseInv ==
  ASSUME NEW k \in Kinds, Inv, Erase(k)
  PROVE  Inv'
<1>1. TypeOK'
  BY DEF Inv, TypeOK, Erase, Remove, Trees, Pending, journal
<1>2. CallsAreSound'
  BY DEF Inv, CallsAreSound, Erase
<1>3. JournalsAreSound'
  BY DEF Inv, CallsAreSound, JournalsAreSound, DeletionIsSound, Erase, Step, Remove, ExecutionSteps,
      journal
<1>4. DeletionIsSound'
  BY DEF Inv, DeletionIsSound, Erase, Step, Pending, journal
<1>5. RecoveryIsSound'
  BY DEF RecoveryIsSound, Erase, Step
<1> QED
  BY <1>1, <1>2, <1>3, <1>4, <1>5 DEF Inv

\* The trash is empty.
LEMMA ErasedAllInv ==
  ASSUME Inv, ErasedAll
  PROVE  Inv'
<1>1. TypeOK'
  BY DEF Inv, TypeOK, ErasedAll, Goto, Places, Pending, files, journal
<1>2. CallsAreSound'
  BY DEF Inv, CallsAreSound, ErasedAll, Step, Goto, ExecutionSteps, RecoverySteps
<1>3. JournalsAreSound'
  BY DEF Inv, JournalsAreSound, ErasedAll, files, journal
<1>4. DeletionIsSound'
  BY DEF Inv, DeletionIsSound, ErasedAll, Step, Goto, Pending, journal
<1>5. RecoveryIsSound'
  BY DEF RecoveryIsSound, ErasedAll, Goto
<1> QED
  BY <1>1, <1>2, <1>3, <1>4, <1>5 DEF Inv

\* Its directory is removed.
LEMMA RemoveRootInv ==
  ASSUME Inv, RemoveRoot
  PROVE  Inv'
<1>1. TypeOK'
  BY DEF Inv, TypeOK, RemoveRoot, Goto, Places, Pending, files
<1>2. CallsAreSound'
  BY DEF Inv, CallsAreSound, RemoveRoot, Step, Goto, ExecutionSteps, RecoverySteps
<1>3. JournalsAreSound'
  BY DEF Inv, JournalsAreSound, RemoveRoot, RootIsEmpty, files
<1>4. DeletionIsSound'
  BY DEF Inv, DeletionIsSound, RemoveRoot, Step, Goto, Pending
<1>5. RecoveryIsSound'
  BY DEF RecoveryIsSound, RemoveRoot, Goto
<1> QED
  BY <1>1, <1>2, <1>3, <1>4, <1>5 DEF Inv

\* The marker is removed.
LEMMA RemoveMarkerInv ==
  ASSUME Inv, RemoveMarker
  PROVE  Inv'
<1>1. TypeOK'
  BY DEF Inv, TypeOK, RemoveMarker, Goto, Places, Pending, files
<1>2. CallsAreSound'
  BY DEF Inv, CallsAreSound, RemoveMarker, Step, Goto, ExecutionSteps, RecoverySteps
<1>3. JournalsAreSound'
  BY DEF Inv, JournalsAreSound, RemoveMarker, files
<1>4. DeletionIsSound'
  BY DEF Inv, DeletionIsSound, RemoveMarker, Step, Goto, Pending
<1>5. RecoveryIsSound'
  BY DEF RecoveryIsSound, RemoveMarker, Goto
<1> QED
  BY <1>1, <1>2, <1>3, <1>4, <1>5 DEF Inv

\* The intent goes last, when nothing is left that it names.
LEMMA RemoveIntentInv ==
  ASSUME Inv, RemoveIntent
  PROVE  Inv'
<1>1. TypeOK'
  BY DEF Inv, TypeOK, CallsAreSound, DeletionIsSound, RemoveIntent, Step, Done, Places, ExecutionSteps,
      files
<1>2. CallsAreSound'
  BY DEF Inv, CallsAreSound, RemoveIntent, Step, Done, ExecutionSteps, RecoverySteps
<1>3. JournalsAreSound'
  BY DEF Inv, CallsAreSound, JournalsAreSound, DeletionIsSound, RemoveIntent, Step, ExecutionSteps,
      files
<1>4. DeletionIsSound'
  BY DEF DeletionIsSound, RemoveIntent, Done
<1>5. RecoveryIsSound'
  BY DEF RecoveryIsSound, RemoveIntent, Done
<1> QED
  BY <1>1, <1>2, <1>3, <1>4, <1>5 DEF Inv

\* A recovery opens the journals.
LEMMA OpenInv ==
  ASSUME Inv, Open
  PROVE  Inv'
<1>1. TypeOK'
  BY DEF Inv, TypeOK, Open, Goto, Places, Pending, files
<1>2. CallsAreSound'
  BY DEF Inv, CallsAreSound, Open, Step, Goto, ExecutionSteps, RecoverySteps
<1>3. JournalsAreSound'
  BY DEF Inv, JournalsAreSound, Open, files
<1>4. DeletionIsSound'
  BY DEF Inv, DeletionIsSound, Open, Step, Goto, Pending
<1>5. RecoveryIsSound'
  BY DEF RecoveryIsSound, Open, Goto
<1> QED
  BY <1>1, <1>2, <1>3, <1>4, <1>5 DEF Inv

\* It goes on only if every entry is at its place or in the trash, and not in both.
LEMMA ListInv ==
  ASSUME Inv, List
  PROVE  Inv'
<1>a. \/ Preflight /\ at' = "apply" /\ UNCHANGED <<app, mode, book>>
      \/ mode \in {"before", "after"} /\ at' = "idle" /\ mode' = "none" /\ book' = None /\ UNCHANGED app
      \/ mode = "startup" /\ at' = "idle" /\ mode' = "none" /\ book' = None /\ app' = "down"
  BY Refusal DEF List, Step, Goto, Inv, CallsAreSound, RecoverySteps
<1>1. TypeOK'
  BY <1>a DEF Inv, TypeOK, List, Goto, Places, Pending, files, journal, bounds
<1>2. CallsAreSound'
  BY <1>a DEF Inv, CallsAreSound, List, Goto, Step, files, journal, ExecutionSteps, RecoverySteps
<1>3. JournalsAreSound'
  BY DEF Inv, JournalsAreSound, List, files, journal
<1>4. DeletionIsSound'
  BY <1>a DEF Inv, CallsAreSound, DeletionIsSound, List, Goto, Step, RecoverySteps
<1>5. RecoveryIsSound'
  BY <1>a DEF RecoveryIsSound, List, Goto, Preflight, ListAccepted, PlanAccepted, EntryAccepted,
      Pending, files, journal
<1> QED
  BY <1>1, <1>2, <1>3, <1>4, <1>5 DEF Inv

\* It brings one tree back, or erases it if the book is deleted; every other entry is still
\* as the preflight found it.
LEMMA ApplyEntryInv ==
  ASSUME NEW k \in Kinds, Inv, ApplyEntry(k)
  PROVE  Inv'
<1>a. PICK b \in Books : /\ b = Recovering /\ b \in Pending /\ b \in root
                         /\ trash[b][k] # "absent" /\ k \in intent[b]
  BY NothingToRecover DEF ApplyEntry, NextEntry, Unrecovered, Inv, JournalsAreSound, Pending
<1>b. source[b][k] = "absent"
  BY <1>a DEF ApplyEntry, Step, Inv, RecoveryIsSound, JournalsAreSound, Preflight, PlanAccepted,
      EntryAccepted
<1>c. /\ source' \in [Books -> [Kinds -> Trees]] /\ trash' \in [Books -> [Kinds -> Trees]]
      /\ trash'[b][k] = "absent"
      /\ source'[b][k] = IF status[b] = "none" THEN source[b][k] ELSE trash[b][k]
      /\ \A c \in Books, l \in Kinds : c # b \/ l # k => source'[c][l] = source[c][l] /\ trash'[c][l] = trash[c][l]
  <2>1. trash' = [trash EXCEPT ![b][k] = "absent"] /\ "absent" \in Trees
    BY <1>a DEF ApplyEntry, Move, Remove, Trees
  <2>2. IF status[b] = "none" THEN source' = source ELSE source' = [source EXCEPT ![b][k] = trash[b][k]]
    BY <1>a DEF ApplyEntry, Move
  <2>3. source \in [Books -> [Kinds -> Trees]] /\ trash \in [Books -> [Kinds -> Trees]]
    BY DEF Inv, TypeOK
  <2>4. trash[b][k] \in Trees
    BY <2>3
  <2>5. /\ trash' \in [Books -> [Kinds -> Trees]] /\ trash'[b][k] = "absent"
        /\ \A c \in Books, l \in Kinds : c # b \/ l # k => trash'[c][l] = trash[c][l]
    BY <2>1, <2>3, OneTree
  <2>6. CASE status[b] = "none"
    BY <2>2, <2>3, <2>5, <2>6
  <2>7. CASE status[b] # "none"
    <3>1. PICK t \in Trees : t = trash[b][k]
      BY <2>4
    <3>2. source' = [source EXCEPT ![b][k] = t]
      BY <2>2, <2>7, <3>1
    <3>3. /\ source' \in [Books -> [Kinds -> Trees]] /\ source'[b][k] = t
          /\ \A c \in Books, l \in Kinds : c # b \/ l # k => source'[c][l] = source[c][l]
      BY <2>3, <3>2, OneTree
    <3> QED
      BY <2>5, <2>7, <3>1, <3>3
  <2> QED
    BY <2>6, <2>7
<1>d. UNCHANGED <<status, journal, app, at, mode, book, todo, bounds>> /\ at = "apply"
  BY DEF ApplyEntry, Step
<1>1. TypeOK'
  BY <1>a, <1>c, <1>d DEF Inv, TypeOK, Pending, Trees, journal, bounds
<1>2. CallsAreSound'
  BY <1>d DEF Inv, CallsAreSound
<1>3. JournalsAreSound'
  <2>1. UNCHANGED <<status, root, intent>>
    BY <1>d DEF journal
  <2>2. ASSUME NEW c \in Books, NEW l \in Kinds, trash'[c][l] # "absent"
        PROVE  c \in root /\ l \in intent[c]
    BY <1>c, <2>2 DEF Inv, JournalsAreSound
  <2>3. ASSUME NEW c \in Books, NEW l \in Kinds, status[c] = "none"
        PROVE  source'[c][l] = "absent"
    <3>1. source[c][l] = "absent"
      BY <2>3 DEF Inv, JournalsAreSound
    <3> QED
      BY <1>c, <2>3, <3>1
  <2>4. ASSUME NEW c \in Books, status[c] = "ready"
        PROVE  \/ source'[c]["book"] = "whole"
               \/ source'[c]["book"] = "absent" /\ trash'[c]["book"] = "whole"
    <3>1. \/ source[c]["book"] = "whole"
          \/ source[c]["book"] = "absent" /\ trash[c]["book"] = "whole"
      BY <2>4 DEF Inv, JournalsAreSound
    <3>2. CASE c = b /\ k = "book"
      BY <1>b, <1>c, <2>4, <3>1, <3>2
    <3>3. CASE c # b \/ k # "book"
      BY <1>c, <3>1, <3>3 DEF Kinds
    <3> QED
      BY <3>2, <3>3
  <2> QED
    BY <2>1, <2>2, <2>3, <2>4 DEF JournalsAreSound
<1>4. DeletionIsSound'
  BY <1>d DEF Inv, CallsAreSound, DeletionIsSound, RecoverySteps
<1>5. RecoveryIsSound'
  <2>1. Pending' = Pending /\ Preflight
    BY <1>d, RecoveringStays DEF Inv, RecoveryIsSound, journal
  <2>2. UNCHANGED <<status, intent, marker>>
    BY <1>d DEF journal
  <2>3. ASSUME NEW c \in Pending, NEW l \in intent[c]
        PROVE  EntryAccepted(c, l)'
    <3>1. EntryAccepted(c, l) /\ c \in Books /\ l \in Kinds
      BY <2>1, <2>3 DEF Preflight, PlanAccepted, Inv, TypeOK, Pending
    <3>2. CASE c = b /\ l = k
      BY <1>a, <1>b, <1>c, <2>2, <3>1, <3>2 DEF EntryAccepted
    <3>3. CASE c # b \/ l # k
      BY <1>c, <2>2, <3>1, <3>3 DEF EntryAccepted
    <3> QED
      BY <3>2, <3>3
  <2>4. Preflight'
    BY <2>1, <2>2, <2>3 DEF Preflight, ListAccepted, PlanAccepted
  <2> QED
    BY <2>4, <1>d DEF RecoveryIsSound
<1> QED
  BY <1>1, <1>2, <1>3, <1>4, <1>5 DEF Inv

\* It removes the trash directory, which is empty.
LEMMA RecoverRootInv ==
  ASSUME Inv, RecoverRoot
  PROVE  Inv'
<1>1. TypeOK'
  BY RecoveringStays DEF Inv, TypeOK, RecoverRoot, Goto, Places, files
<1>2. CallsAreSound'
  BY DEF Inv, CallsAreSound, RecoverRoot, Step, Goto, ExecutionSteps, RecoverySteps
<1>3. JournalsAreSound'
  BY DEF Inv, JournalsAreSound, RecoverRoot, RootIsEmpty, files
<1>4. DeletionIsSound'
  BY RecoveringStays, NothingToRecover DEF Inv, DeletionIsSound, RecoverRoot, Goto
<1>5. RecoveryIsSound'
  BY RecoveringStays, NothingToRecover DEF Inv, RecoveryIsSound, RecoverRoot, Step, Goto, Preflight,
     ListAccepted, PlanAccepted, EntryAccepted, files
<1> QED
  BY <1>1, <1>2, <1>3, <1>4, <1>5 DEF Inv

\* It removes the marker.
LEMMA RecoverMarkerInv ==
  ASSUME Inv, RecoverMarker
  PROVE  Inv'
<1>1. TypeOK'
  BY RecoveringStays DEF Inv, TypeOK, RecoverMarker, Goto, Places, files
<1>2. CallsAreSound'
  BY DEF Inv, CallsAreSound, RecoverMarker, Step, Goto, ExecutionSteps, RecoverySteps
<1>3. JournalsAreSound'
  BY DEF Inv, JournalsAreSound, RecoverMarker, files
<1>4. DeletionIsSound'
  BY RecoveringStays DEF Inv, DeletionIsSound, RecoverMarker, Step, Goto
<1>5. RecoveryIsSound'
  BY RecoveringStays DEF Inv, RecoveryIsSound, RecoverMarker, Step, Preflight, ListAccepted,
     PlanAccepted, EntryAccepted, files
<1> QED
  BY <1>1, <1>2, <1>3, <1>4, <1>5 DEF Inv

\* It removes the intent.
LEMMA RecoverIntentInv ==
  ASSUME Inv, RecoverIntent
  PROVE  Inv'
<1>1. TypeOK'
  BY DEF Inv, TypeOK, RecoveryIsSound, RecoverIntent, Step, Goto, Places, Pending, files
<1>2. CallsAreSound'
  BY DEF Inv, CallsAreSound, RecoverIntent, Step, Goto, ExecutionSteps, RecoverySteps
<1>3. JournalsAreSound'
  BY DEF Inv, JournalsAreSound, RecoveryIsSound, RecoverIntent, Step, files
<1>4. DeletionIsSound'
  BY DEF Inv, CallsAreSound, DeletionIsSound, RecoverIntent, Step, ExecutionSteps
<1>5. RecoveryIsSound'
  BY DEF Inv, RecoveryIsSound, RecoverIntent, Step, Goto, Preflight, ListAccepted, PlanAccepted,
     EntryAccepted, Pending, files
<1> QED
  BY <1>1, <1>2, <1>3, <1>4, <1>5 DEF Inv

\* It ends with no journal: the call goes on, or a start is complete.
LEMMA SweepInv ==
  ASSUME Inv, Sweep
  PROVE  Inv'
<1>a. at = "apply" /\ mode \in {"before", "after", "startup"} /\ Pending = {}
  BY DEF Sweep, Step, Inv, CallsAreSound, RecoverySteps
<1>b. /\ at' \in {"idle", "collect"}
      /\ Pending' = {} /\ root' = {}
      /\ \/ mode = "before" /\ at' = "collect" /\ mode' = "execute" /\ UNCHANGED <<app, book, status>>
         \/ mode = "after" /\ at' = "idle" /\ mode' = "none" /\ book' = None /\ UNCHANGED app
         \/ mode = "startup" /\ at' = "idle" /\ mode' = "none" /\ book' = None /\ app' = "up"
  <2>1. root = {}
    BY <1>a DEF Inv, TypeOK
  <2> QED
    BY <1>a, <2>1, EndOfRecovery, RecoveringStays DEF Sweep, Inv, RecoverySteps
<1>c. /\ status' = status \/ status' = [b \in Books |-> IF status[b] = "busy" THEN "failed" ELSE status[b]]
      /\ \/ UNCHANGED source
         \/ source' = [b \in Books |-> IF status[b] = "busy" THEN [source[b] EXCEPT !["book"] = "absent"] ELSE source[b]]
      /\ UNCHANGED trash
      /\ app' = "starting" => UNCHANGED status
  <2>1. root = {}
    BY <1>a DEF Inv, TypeOK
  <2> QED
    BY <1>a, <2>1, EndOfRecovery DEF Sweep, Inv, RecoverySteps
<1>1. TypeOK'
  BY <1>a, <1>b, <1>c DEF Inv, TypeOK, Sweep, Statuses, Trees, Kinds, Places, Pending, bounds
<1>2. CallsAreSound'
  BY <1>a, <1>b DEF Inv, CallsAreSound, Sweep, Step, ExecutionSteps, RecoverySteps
<1>3. JournalsAreSound'
  BY <1>b, <1>c DEF Inv, TypeOK, JournalsAreSound, Sweep, Kinds, Pending
<1>4. DeletionIsSound'
  BY <1>a, <1>b DEF Inv, CallsAreSound, DeletionIsSound, Sweep, Step, Pending
<1>5. RecoveryIsSound'
  BY <1>b DEF RecoveryIsSound
<1> QED
  BY <1>1, <1>2, <1>3, <1>4, <1>5 DEF Inv

\* A step fails: a deletion recovers, a recovery gives up, a start ends.
LEMMA FailInv ==
  ASSUME Inv, Fail
  PROVE  Inv'
<1>a. \/ mode = "execute" /\ at' = "open" /\ mode' = "after" /\ UNCHANGED <<app, book>>
      \/ mode \in {"before", "after"} /\ at' = "idle" /\ mode' = "none" /\ book' = None /\ UNCHANGED app
      \/ mode = "startup" /\ at' = "idle" /\ mode' = "none" /\ book' = None /\ app' = "down"
  BY Refusal DEF Fail, Inv
<1>b. /\ source' \in [Books -> [Kinds -> Trees]]
      /\ trash' \in [Books -> [Kinds -> Trees]]
      /\ \A b \in Books, k \in Kinds : /\ source'[b][k] = "absent" <=> source[b][k] = "absent"
                                       /\ trash'[b][k] = "absent" <=> trash[b][k] = "absent"
      /\ \A b \in Books : status[b] # "none" => source'[b] = source[b] /\ trash'[b] = trash[b]
  BY TornTrees DEF Fail
<1>1. TypeOK'
  BY <1>a, <1>b DEF Inv, TypeOK, Fail, Places, Pending, journal
<1>2. CallsAreSound'
  BY <1>a DEF Inv, CallsAreSound, Fail, ExecutionSteps, RecoverySteps
<1>3. JournalsAreSound'
  BY <1>b DEF Inv, TypeOK, JournalsAreSound, Fail, Kinds, journal
<1>4. DeletionIsSound'
  BY <1>a DEF Inv, CallsAreSound, DeletionIsSound
<1>5. RecoveryIsSound'
  BY <1>a DEF RecoveryIsSound
<1> QED
  BY <1>1, <1>2, <1>3, <1>4, <1>5 DEF Inv

\* The process is killed.
LEMMA CrashInv ==
  ASSUME Inv, Crash
  PROVE  Inv'
<1>b. /\ source' \in [Books -> [Kinds -> Trees]]
      /\ trash' \in [Books -> [Kinds -> Trees]]
      /\ \A b \in Books, k \in Kinds : /\ source'[b][k] = "absent" <=> source[b][k] = "absent"
                                       /\ trash'[b][k] = "absent" <=> trash[b][k] = "absent"
      /\ \A b \in Books : status[b] # "none" => source'[b] = source[b] /\ trash'[b] = trash[b]
  BY TornTrees DEF Crash
<1>1. TypeOK'
  BY RecoveringStays, NoneIsNoList DEF Inv, TypeOK, Crash, Tears, Tear, Torn, Done, Statuses,
     Trees, Kinds, Places, ExecutionSteps, files, journal
<1>2. CallsAreSound'
  BY DEF CallsAreSound, Crash, Done, ExecutionSteps, RecoverySteps
<1>3. JournalsAreSound'
  BY <1>b DEF Inv, TypeOK, JournalsAreSound, Crash, Kinds, journal
<1>4. DeletionIsSound'
  BY DEF DeletionIsSound, Crash, Done
<1>5. RecoveryIsSound'
  BY DEF RecoveryIsSound, Crash, Done
<1> QED
  BY <1>1, <1>2, <1>3, <1>4, <1>5 DEF Inv

\* The application starts again.
LEMMA StartInv ==
  ASSUME Inv, Start
  PROVE  Inv'
<1>1. TypeOK'
  BY DEF Inv, TypeOK, Start, Goto, Places, Pending, files, journal
<1>2. CallsAreSound'
  BY DEF CallsAreSound, Start, Goto, ExecutionSteps, RecoverySteps
<1>3. JournalsAreSound'
  BY DEF Inv, JournalsAreSound, Start, files, journal
<1>4. DeletionIsSound'
  BY DEF DeletionIsSound, Start
<1>5. RecoveryIsSound'
  BY DEF RecoveryIsSound, Start, Goto
<1> QED
  BY <1>1, <1>2, <1>3, <1>4, <1>5 DEF Inv

\* An import is retried while no deletion is at work.
LEMMA RetryImportInv ==
  ASSUME NEW b \in Books, Inv, RetryImport(b)
  PROVE  Inv'
<1>1. TypeOK'
  <2>1. status' \in [Books -> Statuses]
    BY DEF RetryImport, Inv, TypeOK, Statuses
  <2>2. source' \in [Books -> [Kinds -> Trees]]
    <3>1. UNCHANGED source \/ source' = [source EXCEPT ![b]["book"] = "absent"]
      BY DEF RetryImport
    <3>2. source \in [Books -> [Kinds -> Trees]] /\ "book" \in Kinds /\ "absent" \in Trees
      BY DEF Inv, TypeOK, Kinds, Trees
    <3> QED
      BY <3>1, <3>2, OneTree
  <2>3. \A c \in Books : status[c] = "none" => status'[c] = "none"
    BY DEF RetryImport, Inv, TypeOK
  <2> QED
    BY <2>1, <2>2, <2>3 DEF RetryImport, Inv, TypeOK, Pending, journal, bounds
<1>2. CallsAreSound'
  BY DEF Inv, CallsAreSound, RetryImport, Free
<1>3. JournalsAreSound'
  BY DEF Inv, TypeOK, JournalsAreSound, RetryImport, journal
<1>4. DeletionIsSound'
  BY DEF Inv, CallsAreSound, DeletionIsSound, RetryImport, Free
<1>5. RecoveryIsSound'
  BY DEF RecoveryIsSound, RetryImport, Free
<1> QED
  BY <1>1, <1>2, <1>3, <1>4, <1>5 DEF Inv

\* It copies the source.
LEMMA CopySourceInv ==
  ASSUME NEW b \in Books, Inv, CopySource(b)
  PROVE  Inv'
<1>1. TypeOK'
  <2>1. source' \in [Books -> [Kinds -> Trees]]
    BY DEF CopySource, Inv, TypeOK, Trees, Kinds
  <2> QED
    BY <2>1 DEF CopySource, Inv, TypeOK, Pending, journal, bounds
<1>2. CallsAreSound'
  BY DEF Inv, CallsAreSound, CopySource
<1>3. JournalsAreSound'
  BY DEF Inv, JournalsAreSound, CopySource, journal
<1>4. DeletionIsSound'
  BY DEF Inv, CallsAreSound, DeletionIsSound, CopySource
<1>5. RecoveryIsSound'
  BY DEF RecoveryIsSound, CopySource, Free
<1> QED
  BY <1>1, <1>2, <1>3, <1>4, <1>5 DEF Inv

\* It ends, well or badly.
LEMMA EndImportInv ==
  ASSUME NEW b \in Books, Inv, EndImport(b)
  PROVE  Inv'
<1>1. TypeOK'
  <2>1. status' \in [Books -> Statuses]
    BY DEF EndImport, Inv, TypeOK, Statuses
  <2>2. source' \in [Books -> [Kinds -> Trees]]
    <3>1. UNCHANGED source \/ source' = [source EXCEPT ![b]["book"] = "absent"]
      BY DEF EndImport
    <3>2. source \in [Books -> [Kinds -> Trees]] /\ "book" \in Kinds /\ "absent" \in Trees
      BY DEF Inv, TypeOK, Kinds, Trees
    <3> QED
      BY <3>1, <3>2, OneTree
  <2>3. \A c \in Books : status[c] = "none" => status'[c] = "none"
    BY DEF EndImport, Inv, TypeOK
  <2> QED
    BY <2>1, <2>2, <2>3 DEF EndImport, Inv, TypeOK, Pending, journal, bounds
<1>2. CallsAreSound'
  BY DEF Inv, CallsAreSound, EndImport
<1>3. JournalsAreSound'
  BY DEF Inv, TypeOK, JournalsAreSound, EndImport, Free, journal
<1>4. DeletionIsSound'
  BY DEF Inv, CallsAreSound, DeletionIsSound, EndImport
<1>5. RecoveryIsSound'
  BY DEF RecoveryIsSound, EndImport, Free
<1> QED
  BY <1>1, <1>2, <1>3, <1>4, <1>5 DEF Inv

\* A page is rendered for a book in the library.
LEMMA RenderPageInv ==
  ASSUME NEW b \in Books, Inv, RenderPage(b)
  PROVE  Inv'
<1>1. TypeOK'
  BY DEF Inv, TypeOK, RenderPage, Trees, Pending, journal
<1>2. CallsAreSound'
  BY DEF Inv, CallsAreSound, RenderPage
<1>3. JournalsAreSound'
  BY DEF Inv, JournalsAreSound, RenderPage, journal
<1>4. DeletionIsSound'
  BY DEF Inv, CallsAreSound, DeletionIsSound, RenderPage, Free
<1>5. RecoveryIsSound'
  BY DEF RecoveryIsSound, RenderPage, Free
<1> QED
  BY <1>1, <1>2, <1>3, <1>4, <1>5 DEF Inv

\* Nothing happens.
LEMMA IdleInv ==
  ASSUME Inv, UNCHANGED vars
  PROVE  Inv'
<1>1. Pending' = Pending /\ Recovering' = Recovering
  BY RecoveringStays DEF vars, journal
<1>2. TypeOK'
  BY <1>1 DEF Inv, TypeOK, vars, files, journal, bounds
<1>3. CallsAreSound' /\ JournalsAreSound'
  BY DEF Inv, CallsAreSound, JournalsAreSound, vars, files, journal
<1>4. DeletionIsSound'
  BY <1>1 DEF Inv, DeletionIsSound, Present, vars, files, journal
<1>5. RecoveryIsSound'
  BY <1>1 DEF Inv, RecoveryIsSound, Preflight, ListAccepted, PlanAccepted, EntryAccepted, vars, files,
      journal
<1> QED
  BY <1>2, <1>3, <1>4, <1>5 DEF Inv

\* Every step keeps the invariant.
LEMMA Preserved == Inv /\ [Next]_vars => Inv'
<1> SUFFICES ASSUME Inv, [Next]_vars
             PROVE  Inv'
  OBVIOUS
<1>1. CASE Execution
  BY <1>1, CollectInv, WriteIntentInv, NameIntentInv, CreateRootInv, StagedAllInv, VerifyInv,
      CompleteDeleteInv,
     WriteMarkerInv, NameMarkerInv, ErasedAllInv, RemoveRootInv, RemoveMarkerInv, RemoveIntentInv,
     StageInv, EraseInv
     DEF Execution
<1>2. CASE Recovery
  BY <1>2, OpenInv, ListInv, RecoverRootInv, RecoverMarkerInv, RecoverIntentInv, SweepInv, ApplyEntryInv
     DEF Recovery
<1>3. CASE Fail \/ Crash \/ Start
  BY <1>3, FailInv, CrashInv, StartInv
<1>4. ASSUME NEW b \in Books, Begin(b) \/ RetryImport(b) \/ CopySource(b) \/ EndImport(b) \/ RenderPage(b)
      PROVE  Inv'
  BY <1>4, BeginInv, RetryImportInv, CopySourceInv, EndImportInv, RenderPageInv
<1>5. CASE UNCHANGED vars
  BY <1>5, IdleInv
<1> QED
  BY <1>1, <1>2, <1>3, <1>4, <1>5 DEF Next

\* So it holds in every reachable state.
LEMMA Invariance == Spec => []Inv
BY Initially, Preserved, PTL DEF Spec

-----------------------------------------------------------------------------
(* The variables keep their types, and a journal's trash directory and its *)
(* marker lie beside its intent, so that no start meets one alone.         *)
THEOREM TypeCorrect == Spec => []TypeOK
<1>1. Inv => TypeOK
  BY DEF Inv
<1> QED
  BY <1>1, Invariance, PTL

(* Whatever fails and whenever the process is killed, the files of a book  *)
(* in the library are all at their place, or in the trash of a journal     *)
(* that will bring them back.                                              *)
THEOREM FilesAreKept == Spec => []NothingIsLost
<1>1. ASSUME Inv, NEW b \in Books, status[b] = "ready"
      PROVE  source[b]["book"] = "whole" \/ (trash[b]["book"] = "whole" /\ intent[b] # None)
  <2>1. \/ source[b]["book"] = "whole"
        \/ trash[b]["book"] = "whole"
    BY <1>1 DEF Inv, JournalsAreSound
  <2>2. trash[b]["book"] = "whole" => b \in Pending
    BY <1>1 DEF Inv, TypeOK, JournalsAreSound, Kinds
  <2> QED
    BY <2>1, <2>2 DEF Pending
<1>2. Inv => NothingIsLost
  BY <1>1 DEF NothingIsLost
<1> QED
  BY <1>2, Invariance, PTL

(* When no journal is left, a deleted book has left no file behind, and a  *)
(* book that is not deleted has its files at their place.                  *)
THEOREM DeletionIsWhole == Spec => []OldOrGone
<1>1. ASSUME Inv, Pending = {}, NEW b \in Books
      PROVE  /\ \A k \in Kinds : trash[b][k] = "absent"
             /\ status[b] = "none" => \A k \in Kinds : source[b][k] = "absent"
             /\ status[b] = "ready" => source[b]["book"] = "whole"
  <2>1. \A k \in Kinds : trash[b][k] = "absent"
    BY <1>1 DEF Inv, TypeOK, JournalsAreSound
  <2>2. "book" \in Kinds
    BY DEF Kinds
  <2> QED
    BY <1>1, <2>1, <2>2 DEF Inv, JournalsAreSound
<1>2. Inv => OldOrGone
  BY <1>1 DEF OldOrGone
<1> QED
  BY <1>2, Invariance, PTL

=============================================================================

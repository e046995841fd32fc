---------------------------- MODULE RemoteFiles ----------------------------
(***************************************************************************)
(* The files TextbookLens leaves at a provider and the profiles that can   *)
(* remove them: a PDF is uploaded by extraction/service.rs, its opaque id  *)
(* goes to the vault of the operating system and a row to the database     *)
(* (indexing/remote_cleanup.rs), and a sweep deletes it, now or after any  *)
(* number of failures.  Provider profiles are saved, given a new key and   *)
(* deleted meanwhile (commands/credentials.rs, commands/providers.rs,      *)
(* db/providers.rs), and so is the book (db/books.rs); each writes the     *)
(* vault and the database one after the other.                             *)
(*                                                                         *)
(* The extraction runs without a permit of the maintenance gate and        *)
(* without the mutation guard of the profiles.  One textbook, Kimi         *)
(* profiles; the text, consents, defaults and regions are left out.  All   *)
(* keys of a profile belong to one account of the provider, and keys of    *)
(* two profiles to two.  A claim's id is its attempt count, which advances *)
(* with every claim (migration 0009).                                      *)
(***************************************************************************)
EXTENDS Naturals

CONSTANTS
  Profiles, Files, None,
  Admins,       \* commands on profiles that may run at once
  ForeignAnswers, \* of the provider, when asked for another account's file
  MAX_CLEANUP_ATTEMPTS,
  MaxKeys,      \* bound: keys ever given to a profile
  MaxClaims,    \* bound: claims of a row
  MaxFaults     \* bound: failed writes of the vault or the database, and kills

ASSUME AnswersAssumption == ForeignAnswers \subseteq {"refused", "missing"}
ASSUME BoundAssumption ==
  MaxKeys \in Nat \ {0} /\ MaxClaims \in Nat /\ MaxFaults \in Nat
ASSUME NoneAssumption == None \notin Profiles \cup Files \cup Admins

VARIABLES
  validated, \* the key a row of provider_profiles was validated with, or 0
  secret,    \* the key in the vault, or 0
  book,      \* the textbook is in the library
  ext,       \* its row of book_extractions, or None
  row,       \* provider_remote_resources
  vault,     \* the vault's entry of each row
  atProvider, uploader,
  confirmed, \* the files whose deletion the provider has answered
  prep,      \* the running prepare of the extraction
  sweep,     \* the running sweep of each caller
  admin,     \* the running commands on profiles
  guard,     \* the holder of the provider mutation lock
  torn,      \* profiles whose command was killed, or failed twice
  faults

store == <<validated, secret, book, ext, row, vault>>
remote == <<atProvider, uploader, confirmed>>
process == <<prep, sweep, admin, guard>>
bounds == <<torn, faults>>
vars == <<store, remote, process, bounds>>

Unresolved == {"pending", "failed", "cleaning"}
Sweepable == {"pending", "failed"}
Callers == Admins \cup {"prep", "book"}
Keys == 0 .. MaxKeys

AtRest == [pc |-> "idle", todo |-> {}, file |-> None, attempt |-> 0,
           bad |-> FALSE]
NoPrep == [pc |-> "idle", profile |-> None, key |-> 0, file |-> None]
NoAdmin == [pc |-> "idle", op |-> "none", profile |-> None, old |-> 0]

WithKey == {p \in Profiles : secret[p] > 0}
Live == {p \in Profiles : validated[p] > 0}
Tracked(S) == {f \in Files : row[f] # None /\ row[f].status \in S}
OfProfile(p, S) == {f \in Tracked(S) : row[f].owner = p}
OfExtraction(S) == {f \in Tracked(S) : row[f].ext}

Row(owner) == [status |-> "pending", owner |-> owner, count |-> 0,
               ext |-> TRUE]

Resources ==
  [status : Unresolved \cup {"succeeded"}, owner : Profiles \cup {None},
   count : 0 .. MaxClaims, ext : BOOLEAN]

ASSUME RowAssumption == None \notin Resources

(* A write that fails. *)
Fault == faults < MaxFaults /\ faults' = faults + 1

Init ==
  /\ validated \in [Profiles -> {0, 1}]
  /\ \E p \in Profiles : validated[p] = 1
  /\ secret = validated
  /\ book = TRUE
  /\ ext = None
  /\ row = [f \in Files |-> None]
  /\ vault = [f \in Files |-> "none"]
  /\ atProvider = {} /\ uploader = [f \in Files |-> None] /\ confirmed = {}
  /\ prep = NoPrep
  /\ sweep = [w \in Callers |-> AtRest]
  /\ admin = [a \in Admins |-> NoAdmin]
  /\ guard = None
  /\ torn = {} /\ faults = 0

-----------------------------------------------------------------------------
(* Sweeps: sweep_remote_resource_ids and cleanup_one. *)

(* The sweep w goes on to its next file. *)
Continued(w, failed) ==
  [sweep[w] EXCEPT !.pc = "next", !.file = None, !.attempt = 0,
                   !.bad = @ \/ failed]

Ended(w) ==
  \/ sweep[w].pc = "next" /\ sweep[w].todo = {}
  \/ sweep[w].pc = "raised"

(* The sweep w has these files before it. *)
Sweeping(files) == [AtRest EXCEPT !.pc = "recover", !.todo = files]

(* recover_success_markers_for_ids finds the marker of an earlier deletion. *)
FindMarker(w) ==
  /\ sweep[w].pc = "recover"
  /\ \E f \in sweep[w].todo :
       /\ row[f].status = "cleaning" /\ vault[f] = "marker"
       /\ sweep' = [sweep EXCEPT ![w] = [@ EXCEPT !.pc = "adopting",
                                         !.file = f, !.attempt = row[f].count]]
  /\ UNCHANGED <<store, remote, prep, admin, guard, bounds>>

BeginCleanup(w) ==
  /\ sweep[w].pc = "recover"
  /\ sweep' = [sweep EXCEPT ![w].pc = "next"]
  /\ UNCHANGED <<store, remote, prep, admin, guard, bounds>>

(* The claim: a compare-and-set of the status, and a new attempt. *)
Claim(w, f) ==
  /\ sweep[w].pc = "next" /\ f \in sweep[w].todo
  /\ row[f].status \in Sweepable /\ row[f].count < MaxClaims
  /\ row' = [row EXCEPT ![f] = [@ EXCEPT !.status = "cleaning",
                                         !.count = row[f].count + 1]]
  /\ sweep' = [sweep EXCEPT ![w] =
       [@ EXCEPT !.file = f, !.todo = sweep[w].todo \ {f},
                 !.attempt = row[f].count + 1,
                 !.pc = IF row[f].count >= MAX_CLEANUP_ATTEMPTS
                        THEN "failing" ELSE "claimed"]]
  /\ UNCHANGED <<validated, secret, book, ext, vault, remote, prep,
                 admin, guard, bounds>>

(* Another sweep has the claim, or the file is resolved: no failure.  At   *)
(* the bound a row is passed over too.                                     *)
SkipClaimed(w, f) ==
  /\ sweep[w].pc = "next" /\ f \in sweep[w].todo
  /\ row[f].status \notin Sweepable \/ row[f].count = MaxClaims
  /\ sweep' = [sweep EXCEPT ![w].todo = @ \ {f}]
  /\ UNCHANGED <<store, remote, prep, admin, guard, bounds>>

(* The row is read again, and the opaque id from the vault. *)
LoadHandle(w) ==
  LET f == sweep[w].file
      ready == row[f].owner # None /\ vault[f] # "none"
  IN
  /\ sweep[w].pc = "claimed"
  /\ sweep' = [sweep EXCEPT ![w].pc =
       IF ~ready THEN "failing"
       ELSE IF vault[f] = "marker" THEN "marking" ELSE "deleting"]
  /\ UNCHANGED <<store, remote, prep, admin, guard, bounds>>

(* The provider is asked with the key the owner has now. *)
Answered(p, f, ok) ==
  \/ /\ p = uploader[f] \/ f \notin atProvider
     /\ ok
     /\ atProvider' = atProvider \ {f}
     /\ confirmed' = confirmed \cup {f}
  \/ /\ p = uploader[f] /\ ~ok
     /\ atProvider' \in {atProvider, atProvider \ {f}}   \* the answer is lost
     /\ UNCHANGED confirmed
  \/ /\ p # uploader[f] /\ f \in atProvider
     /\ (IF ok THEN "missing" ELSE "refused") \in ForeignAnswers
     /\ UNCHANGED <<atProvider, confirmed>>

\* Mutant of DeleteRemote: an error is taken for an answer.
TrustAnyAnswer(w) ==
  LET f == sweep[w].file IN
  /\ sweep[w].pc = "deleting" /\ row[f].owner \in WithKey
  /\ \E ok \in BOOLEAN : Answered(row[f].owner, f, ok)
  /\ sweep' = [sweep EXCEPT ![w].pc = "deleted"]
  /\ UNCHANGED <<store, uploader, prep, admin, guard, bounds>>

DeleteRemote(w) ==
  LET f == sweep[w].file IN
  /\ sweep[w].pc = "deleting"
  /\ \/ \E ok \in BOOLEAN :
          /\ row[f].owner \in WithKey
          /\ Answered(row[f].owner, f, ok)
          /\ sweep' = [sweep EXCEPT ![w].pc =
                         IF ok THEN "deleted" ELSE "failing"]
     \/ /\ row[f].owner \notin WithKey
        /\ sweep' = [sweep EXCEPT ![w].pc = "failing"]
        /\ UNCHANGED <<atProvider, confirmed>>
  /\ UNCHANGED <<store, uploader, prep, admin, guard, bounds>>

\* Mutant of SetMarker: a marker that cannot be written fails the row.
RetryWithoutMarker(w) ==
  /\ sweep[w].pc = "deleted"
  /\ Fault
  /\ sweep' = [sweep EXCEPT ![w].pc = "failing"]
  /\ UNCHANGED <<store, remote, prep, admin, guard, torn>>

(* The marker first, so that a failed update needs no second deletion. *)
SetMarker(w) ==
  LET f == sweep[w].file IN
  /\ sweep[w].pc = "deleted"
  /\ \/ /\ vault' = [vault EXCEPT ![f] = "marker"]
        /\ sweep' = [sweep EXCEPT ![w].pc = "marking"]
        /\ UNCHANGED faults
     \/ /\ Fault
        /\ sweep' = [sweep EXCEPT ![w] = Continued(w, TRUE)]
        /\ UNCHANGED vault
  /\ UNCHANGED <<validated, secret, book, ext, row, remote, prep,
                 admin, guard, torn>>

Mine(w, f) == row[f].status = "cleaning" /\ row[f].count = sweep[w].attempt

(* mark_succeeded.  In the recovery of markers an error ends the sweep. *)
MarkSucceeded(w) ==
  LET f == sweep[w].file IN
  /\ sweep[w].pc \in {"marking", "adopting"}
  /\ \/ /\ Mine(w, f)
        /\ row' = [row EXCEPT ![f].status = "succeeded"]
        /\ sweep' = [sweep EXCEPT ![w].pc =
             IF @ = "marking" THEN "forgetting" ELSE "dropping"]
        /\ UNCHANGED faults
     \/ /\ \/ Fault
           \/ ~Mine(w, f) /\ UNCHANGED faults
        /\ sweep' = [sweep EXCEPT ![w] =
             IF @.pc = "marking" THEN Continued(w, TRUE)
             ELSE [AtRest EXCEPT !.pc = "raised", !.bad = TRUE]]
        /\ UNCHANGED row
  /\ UNCHANGED <<validated, secret, book, ext, vault, remote, prep,
                 admin, guard, torn>>

(* The entry of the vault goes last; its failure is ignored. *)
ForgetHandle(w) ==
  LET f == sweep[w].file IN
  /\ sweep[w].pc \in {"forgetting", "dropping"}
  /\ \/ vault' = [vault EXCEPT ![f] = "none"] /\ UNCHANGED faults
     \/ Fault /\ UNCHANGED vault
  /\ sweep' = [sweep EXCEPT ![w] =
       IF @.pc = "forgetting" THEN Continued(w, FALSE)
       ELSE [Continued(w, FALSE) EXCEPT !.pc = "recover"]]
  /\ UNCHANGED <<validated, secret, book, ext, row, remote, prep,
                 admin, guard, torn>>

MarkFailed(w) ==
  LET f == sweep[w].file IN
  /\ sweep[w].pc = "failing"
  /\ \/ /\ Mine(w, f) /\ row' = [row EXCEPT ![f].status = "failed"]
        /\ UNCHANGED faults
     \/ /\ \/ Fault
           \/ ~Mine(w, f) /\ UNCHANGED faults
        /\ UNCHANGED row
  /\ sweep' = [sweep EXCEPT ![w] = Continued(w, TRUE)]
  /\ UNCHANGED <<validated, secret, book, ext, vault, remote, prep,
                 admin, guard, torn>>

SweepStep(w) ==
  \/ FindMarker(w) \/ BeginCleanup(w) \/ LoadHandle(w)
  \/ \E f \in Files : Claim(w, f) \/ SkipClaimed(w, f)
  \/ DeleteRemote(w) \/ SetMarker(w) \/ MarkSucceeded(w)
  \/ ForgetHandle(w) \/ MarkFailed(w)

-----------------------------------------------------------------------------
(* prepare of extraction/service.rs. *)

Finish == prep' = NoPrep

(* set_status and its callers write only a row that is there and not ready. *)
WithStatus(status) ==
  IF ext = None \/ ext.status = "ready" THEN ext
  ELSE [ext EXCEPT !.status = status]

(* cleanup_existing of the extraction, and then the call returns. *)
CleanUpAndReturn ==
  /\ prep' = [prep EXCEPT !.pc = "cleaning"]
  /\ sweep' = [sweep EXCEPT !["prep"] = Sweeping(OfExtraction(Sweepable))]

(* The token may be set at any time, and is read at each of these places. *)
Cancelled == ext' = WithStatus("cancelled") /\ CleanUpAndReturn

(* The binding is read: a ready extraction is reused, one of another key   *)
(* is cleaned up first, one of this key is resumed, none is created.       *)
BeginPrepare(p) ==
  LET print == <<p, validated[p]>> IN
  /\ prep.pc = "idle" /\ book /\ p \in Live
  /\ \/ /\ ext = None
        /\ ext' = [status |-> "queued", owner |-> p, print |-> print]
        /\ prep' = [NoPrep EXCEPT !.pc = "key", !.profile = p]
        /\ UNCHANGED sweep
     \/ /\ ext # None /\ ext.status # "ready" /\ ext.print = print
        /\ prep' = [NoPrep EXCEPT !.pc = "key", !.profile = p]
        /\ UNCHANGED <<ext, sweep>>
     \/ /\ ext # None /\ ext.status # "ready" /\ ext.print # print
        /\ prep' = [NoPrep EXCEPT !.pc = "rebinding", !.profile = p,
                                  !.key = validated[p]]
        /\ sweep' = [sweep EXCEPT !["prep"] = Sweeping(OfExtraction(Sweepable))]
        /\ UNCHANGED ext
  /\ UNCHANGED <<validated, secret, book, row, vault, remote, admin,
                 guard, bounds>>

(* reset_binding: the new fingerprint, under the row's first profile. *)
Rebind ==
  /\ prep.pc = "rebinding" /\ Ended("prep")
  /\ sweep' = [sweep EXCEPT !["prep"] = AtRest]
  /\ IF OfExtraction(Unresolved) # {}
     THEN Finish /\ UNCHANGED ext
     ELSE /\ ext' = IF ext = None \/ ext.status = "ready" THEN ext
                    ELSE [ext EXCEPT !.status = "queued",
                                     !.print = <<prep.profile, prep.key>>]
          /\ prep' = [prep EXCEPT !.pc = "key", !.key = 0]
  /\ UNCHANGED <<validated, secret, book, row, vault, remote, admin, guard,
                 bounds>>

(* The key, and the id of a file uploaded before, whatever its row says. *)
LoadKey ==
  LET key == secret[prep.profile]
      known == OfExtraction(Unresolved)
  IN
  /\ prep.pc = "key"
  /\ \/ /\ key = 0 \/ \E f \in known : vault[f] = "none"
        /\ Finish
        /\ UNCHANGED <<ext, sweep>>
     \/ /\ key > 0 /\ \A f \in known : vault[f] # "none"
        /\ \/ Cancelled
           \/ /\ known = {}
              /\ ext' = WithStatus("uploading")
              /\ prep' = [prep EXCEPT !.pc = "upload"]
              /\ UNCHANGED sweep
           \/ \E f \in known :
                /\ ext' = WithStatus("processing")
                /\ prep' = [prep EXCEPT !.pc = "poll", !.file = f]
                /\ UNCHANGED sweep
  /\ UNCHANGED <<validated, secret, book, row, vault, remote, admin, guard,
                 bounds>>

(* The file is read and sent.  Its id is known once the answer arrives. *)
Upload ==
  /\ prep.pc = "upload"
  /\ \/ \E f \in Files :
          /\ uploader[f] = None
          /\ uploader' = [uploader EXCEPT ![f] = prep.profile]
          /\ atProvider' = atProvider \cup {f}
          /\ prep' = [prep EXCEPT !.pc = "storing", !.file = f]
          /\ UNCHANGED <<ext, sweep>>
     \/ /\ \/ Cancelled
           \/ ext' = WithStatus("failed") /\ Finish /\ UNCHANGED sweep
        /\ UNCHANGED <<uploader, atProvider>>
  /\ UNCHANGED <<validated, secret, book, row, vault, confirmed, admin, guard,
                 bounds>>

(* store_extraction_remote_handle: the vault before the row. *)
StoreInVault ==
  /\ prep.pc = "storing"
  /\ \/ /\ vault' = [vault EXCEPT ![prep.file] = "id"]
        /\ prep' = [prep EXCEPT !.pc = "tracking"]
        /\ UNCHANGED faults
     \/ /\ Fault
        /\ prep' = [prep EXCEPT !.pc = "compensating"]
        /\ UNCHANGED vault
  /\ UNCHANGED <<validated, secret, book, ext, row, remote, sweep,
                 admin, guard, torn>>

(* The row takes its owner from the extraction's row. *)
StoreRow ==
  /\ prep.pc = "tracking"
  /\ \/ /\ ext # None
        /\ row' = [row EXCEPT ![prep.file] = Row(ext.owner)]
        /\ ext' = WithStatus("processing")
        /\ prep' = [prep EXCEPT !.pc = "poll"]
        /\ UNCHANGED faults
     \/ /\ \/ Fault
           \/ ext = None /\ UNCHANGED faults
        /\ prep' = [prep EXCEPT !.pc = "compensating"]
        /\ UNCHANGED <<row, ext>>
  /\ UNCHANGED <<validated, secret, book, vault, remote, sweep, admin,
                 guard, torn>>

(* The file is deleted again with the key that sent it; only then may the  *)
(* vault forget its id.                                                    *)
Compensate ==
  LET f == prep.file IN
  /\ prep.pc = "compensating"
  /\ \E ok \in BOOLEAN :
       /\ Answered(prep.profile, f, ok)
       /\ \/ vault' = [vault EXCEPT ![f] = IF ok THEN "none" ELSE @]
             /\ UNCHANGED faults
          \/ ok /\ Fault /\ UNCHANGED vault
  /\ ext' = WithStatus("failed")
  /\ Finish
  /\ UNCHANGED <<validated, secret, book, row, uploader, sweep, admin, guard,
                 torn>>

(* The status is polled: ready, failed for good, or an error, a timeout    *)
(* among them, that leaves the file for the next call.                     *)
Poll ==
  /\ prep.pc = "poll"
  /\ \/ /\ prep.file \in atProvider
        /\ ext' = WithStatus("downloading")
        /\ prep' = [prep EXCEPT !.pc = "download"]
        /\ UNCHANGED sweep
     \/ /\ prep.file \in atProvider
        /\ ext' = WithStatus("failed") /\ CleanUpAndReturn
     \/ ext' = WithStatus("failed") /\ Finish /\ UNCHANGED sweep
     \/ Cancelled
  /\ UNCHANGED <<validated, secret, book, row, vault, remote, admin, guard,
                 bounds>>

(* persist_content commits text, chunks and the status in one transaction; *)
(* it fails when the book has gone.                                        *)
Download ==
  /\ prep.pc = "download"
  /\ \/ /\ ext # None /\ prep.file \in atProvider
        /\ ext' = [ext EXCEPT !.status = "ready"]
     \/ \E status \in {"cancelled", "failed"} : ext' = WithStatus(status)
  /\ CleanUpAndReturn
  /\ UNCHANGED <<validated, secret, book, row, vault, remote, admin,
                 guard, bounds>>

EndPrepare ==
  /\ prep.pc = "cleaning" /\ Ended("prep")
  /\ sweep' = [sweep EXCEPT !["prep"] = AtRest]
  /\ Finish
  /\ UNCHANGED <<store, remote, admin, guard, bounds>>

PrepareStep ==
  \/ \E p \in Profiles : BeginPrepare(p)
  \/ Rebind \/ LoadKey \/ Upload \/ StoreInVault \/ StoreRow \/ Compensate
  \/ Poll \/ Download \/ EndPrepare

-----------------------------------------------------------------------------
(* The profiles.  A failed step ends the command; what it did is undone.   *)

EndAdmin(a) ==
  /\ admin' = [admin EXCEPT ![a] = NoAdmin]
  /\ guard' = IF guard = a THEN None ELSE guard

(* delete_provider_profile sweeps before it asks for the guard, and        *)
(* replace_provider_profile_credential after.                              *)
BeginAdmin(a, op, p) ==
  /\ admin[a].pc = "idle" /\ p \in Live
  /\ op = "replace" => guard = None /\ secret[p] < MaxKeys
  /\ guard' = IF op = "replace" THEN a ELSE guard
  /\ admin' = [admin EXCEPT ![a] = [pc |-> "sweeping", op |-> op,
                                    profile |-> p, old |-> 0]]
  /\ sweep' = [sweep EXCEPT ![a] = Sweeping(OfProfile(p, Sweepable))]
  /\ UNCHANGED <<store, remote, prep, bounds>>

(* Any file that is not resolved refuses the command. *)
CheckResolved(a) ==
  LET p == admin[a].profile IN
  /\ admin[a].pc = "sweeping" /\ Ended(a)
  /\ sweep' = [sweep EXCEPT ![a] = AtRest]
  /\ IF sweep[a].bad \/ OfProfile(p, Unresolved) # {}
     THEN EndAdmin(a)
     ELSE /\ admin' = [admin EXCEPT ![a].pc =
                         IF admin[a].op = "delete" THEN "enter" ELSE "vault"]
          /\ UNCHANGED guard
  /\ UNCHANGED <<store, remote, prep, bounds>>

EnterDeletion(a) ==
  /\ admin[a].pc = "enter"
  /\ IF guard = None /\ admin[a].profile \in Live
     THEN guard' = a /\ admin' = [admin EXCEPT ![a].pc = "vault"]
     ELSE EndAdmin(a)
  /\ UNCHANGED <<store, remote, prep, sweep, bounds>>

(* The vault first: the key is read, then deleted or replaced. *)
ChangeSecret(a) ==
  LET p == admin[a].profile IN
  /\ admin[a].pc = "vault"
  /\ \/ /\ secret[p] > 0
        /\ secret' = [secret EXCEPT ![p] =
                        IF admin[a].op = "delete" THEN 0 ELSE @ + 1]
        /\ admin' = [admin EXCEPT ![a] = [@ EXCEPT !.pc = "database",
                                                 !.old = secret[p]]]
        /\ UNCHANGED <<guard, faults>>
     \/ /\ \/ Fault
           \/ secret[p] = 0 /\ UNCHANGED faults
        /\ EndAdmin(a)
        /\ UNCHANGED secret
  /\ UNCHANGED <<validated, book, ext, row, vault, remote, prep, sweep, torn>>

(* The foreign keys of a deleted profile become NULL. *)
ChangeProfile(a) ==
  LET p == admin[a].profile IN
  /\ admin[a].pc = "database"
  /\ \/ /\ admin[a].op = "delete"
        /\ validated' = [validated EXCEPT ![p] = 0]
        /\ ext' = IF ext # None /\ ext.owner = p
                  THEN [ext EXCEPT !.owner = None] ELSE ext
        /\ row' = [f \in Files |->
                     IF row[f] # None /\ row[f].owner = p
                     THEN [row[f] EXCEPT !.owner = None] ELSE row[f]]
        /\ EndAdmin(a) /\ UNCHANGED faults
     \/ /\ admin[a].op # "delete"
        /\ validated' = [validated EXCEPT ![p] = secret[p]]
        /\ EndAdmin(a) /\ UNCHANGED <<ext, row, faults>>
     \/ /\ Fault
        /\ admin' = [admin EXCEPT ![a].pc = "restore"]
        /\ UNCHANGED <<validated, ext, row, guard>>
  /\ UNCHANGED <<secret, book, vault, remote, prep, sweep, torn>>

\* Mutant of RestoreSecret: the vault keeps the change.
LeaveSecret(a) ==
  /\ admin[a].pc = "restore"
  /\ EndAdmin(a)
  /\ UNCHANGED <<store, remote, prep, sweep, bounds>>

RestoreSecret(a) ==
  LET p == admin[a].profile IN
  /\ admin[a].pc = "restore"
  /\ \/ secret' = [secret EXCEPT ![p] = admin[a].old] /\ UNCHANGED <<torn, faults>>
     \/ Fault /\ torn' = torn \cup {p} /\ UNCHANGED secret
  /\ EndAdmin(a)
  /\ UNCHANGED <<validated, book, ext, row, vault, remote, prep, sweep>>

(* insert_validated_provider_profile: a new id, its key before its row. *)
BeginSave(a, p) ==
  /\ admin[a].pc = "idle" /\ guard = None
  /\ validated[p] = 0 /\ secret[p] = 0 /\ p \notin torn
  /\ \A f \in Files : uploader[f] # p
  /\ guard' = a
  /\ \/ /\ secret' = [secret EXCEPT ![p] = 1]
        /\ admin' = [admin EXCEPT ![a] = [pc |-> "database", op |-> "save",
                                          profile |-> p, old |-> 0]]
  /\ UNCHANGED <<validated, book, ext, row, vault, remote, prep, sweep,
                 bounds>>

AdminStep(a) ==
  \/ \E p \in Profiles :
       BeginSave(a, p) \/ \E op \in {"delete", "replace"} : BeginAdmin(a, op, p)
  \/ CheckResolved(a) \/ EnterDeletion(a) \/ ChangeSecret(a)
  \/ ChangeProfile(a) \/ RestoreSecret(a)

-----------------------------------------------------------------------------
(* complete_delete detaches the files that are not resolved; the command   *)
(* then sweeps them if the gate admits the sweep.                          *)
DeleteBook ==
  /\ book /\ book' = FALSE
  /\ ext' = None
  /\ row' = [f \in Files |-> IF row[f] = None THEN None
                             ELSE [row[f] EXCEPT !.ext = FALSE]]
  /\ \/ sweep' = [sweep EXCEPT !["book"] = Sweeping(Tracked(Unresolved))]
     \/ UNCHANGED sweep
  /\ UNCHANGED <<validated, secret, vault, remote, prep, admin, guard,
                 bounds>>

EndBookSweep ==
  /\ Ended("book")
  /\ sweep' = [sweep EXCEPT !["book"] = AtRest]
  /\ UNCHANGED <<store, remote, prep, admin, guard, bounds>>

(* recover_on_startup of the extraction; then, of the files, only those    *)
(* whose marker says that the provider deleted them.                       *)
Restart ==
  LET done == {f \in Tracked({"cleaning"}) : vault[f] = "marker"}
      resumed == IF OfExtraction(Unresolved) # {} THEN "processing" ELSE "queued"
  IN
  /\ Fault
  /\ ext' = IF ext # None
               /\ ext.status \in {"uploading", "processing", "downloading"}
            THEN [ext EXCEPT !.status = resumed] ELSE ext
  /\ row' = [f \in Files |-> IF f \in done
                             THEN [row[f] EXCEPT !.status = "succeeded"]
                             ELSE row[f]]
  /\ vault' = [f \in Files |-> IF f \in done THEN "none" ELSE vault[f]]
  /\ torn' = torn \cup {admin[a].profile : a \in
               {b \in Admins : admin[b].pc \in {"database", "restore"}}}
  /\ prep' = NoPrep /\ guard' = None
  /\ sweep' = [w \in Callers |-> AtRest]
  /\ admin' = [a \in Admins |-> NoAdmin]
  /\ UNCHANGED <<validated, secret, book, remote>>

(* Nothing runs: the user may leave it so. *)
AllQuiet ==
  /\ prep.pc = "idle"
  /\ \A a \in Admins : admin[a].pc = "idle"
  /\ \A w \in Callers : sweep[w].pc = "idle"
  /\ UNCHANGED vars

Next ==
  \/ \E w \in Callers : SweepStep(w)
  \/ PrepareStep
  \/ \E a \in Admins : AdminStep(a)
  \/ DeleteBook \/ EndBookSweep \/ Restart \/ AllQuiet

Spec == Init /\ [][Next]_vars

-----------------------------------------------------------------------------
TypeOK ==
  /\ validated \in [Profiles -> Keys] /\ secret \in [Profiles -> Keys]
  /\ book \in BOOLEAN
  /\ ext = None \/ ext \in
       [status : {"queued", "uploading", "processing", "downloading", "ready",
                  "cancelled", "failed"},
        owner : Profiles \cup {None}, print : Profiles \X Keys]
  /\ row \in [Files -> Resources \cup {None}]
  /\ vault \in [Files -> {"none", "id", "marker"}]
  /\ atProvider \subseteq Files /\ confirmed \subseteq Files
  /\ uploader \in [Files -> Profiles \cup {None}]
  /\ guard \in Admins \cup {None}
  /\ torn \subseteq Profiles /\ faults \in 0 .. MaxFaults

(* Cleanup is reported as done only when the provider no longer has the    *)
(* file, and until then the row's reference leads to it: no interleaving   *)
(* of sweeps, no failed write and no kill loses a file that has a row.     *)
TrackedUntilDeleted ==
  \A f \in atProvider : row[f] # None =>
    row[f].status \in Unresolved /\ vault[f] = "id"

(* A deletion the provider has confirmed is never asked for again: not by  *)
(* a concurrent sweep, not by a retry, not after a restart.                *)
NeverDeletedTwice ==
  \A w \in Callers : sweep[w].pc = "deleting" => sweep[w].file \notin confirmed

(* A profile has its key and a key has its profile, and the row names the  *)
(* key it was validated with, whichever single write of a command fails;   *)
(* only a kill between the two stores, or a second failure, parts them.    *)
KeyFollowsItsProfile ==
  \A p \in Profiles \ torn :
    (\A a \in Admins : admin[a].profile = p =>
                         admin[a].pc \notin {"database", "restore"}) =>
      secret[p] = validated[p]

(* "Remote cleanup failure stays visible/retryable" (docs/data-backup.md):*)
(* a row that waits for cleanup is one a later sweep can claim, unless a   *)
(* sweep has it now or a marker resolves it at the next start.             *)
FailureStaysRetryable ==
  \A f \in Tracked({"cleaning"}) :
    vault[f] = "marker" \/ \E w \in Callers :
      sweep[w].file = f /\ sweep[w].attempt = row[f].count

(* "Remote cleanup requires the original provider profile": the owner of a *)
(* row is the profile whose key uploaded the file.                         *)
OwnedByItsUploader ==
  \A f \in Files : row[f] # None => row[f].owner = uploader[f]
=============================================================================

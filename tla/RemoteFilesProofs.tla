------------------------- MODULE RemoteFilesProofs -------------------------
(***************************************************************************)
(* What is proved about RemoteFiles for any profiles, files, commands and  *)
(* bounds: its types, that a key and its profile do not part, that a file  *)
(* is not deleted twice, and that a file at the provider stays on record.  *)
(*                                                                         *)
(* The argument: the commands on keys take turns (KeysAreSound).  A claim  *)
(* of a row has one owner, which is the sweep that advanced its count      *)
(* (ClaimsAreSound); a row whose deletion the provider has confirmed is    *)
(* with that owner or never claimed again (ConfirmedIsSettled).            *)
(***************************************************************************)
EXTENDS RemoteFiles, TLAPS

SweepPcs == {"idle", "recover", "adopting", "next", "failing", "claimed",
             "deleting", "deleted", "marking", "forgetting", "dropping", "raised"}
Sweeps == [pc : SweepPcs, todo : SUBSET Files, file : Files \cup {None},
           attempt : 0 .. MaxClaims, bad : BOOLEAN]
PrepPcs == {"idle", "rebinding", "key", "upload", "storing", "tracking",
            "compensating", "poll", "download", "cleaning"}
Preps == [pc : PrepPcs, profile : Profiles \cup {None}, key : Keys,
          file : Files \cup {None}]
ExtStatus == {"queued", "uploading", "processing", "downloading", "ready",
              "cancelled", "failed"}
Exts == [status : ExtStatus, owner : Profiles \cup {None}, print : Profiles \X Keys]
AdminPcs == {"idle", "sweeping", "enter", "vault", "database", "restore"}
Commands == [pc : AdminPcs, op : {"none", "save", "replace", "delete"},
             profile : Profiles \cup {None}, old : Keys]

-----------------------------------------------------------------------------
(* The keys. *)
KeyTypes ==
  /\ validated \in [Profiles -> Keys] /\ secret \in [Profiles -> Keys]
  /\ guard \in Admins \cup {None}
  /\ torn \subseteq Profiles
  /\ admin \in [Admins -> Commands]

(* Who changes the vault has the guard, and the profile is there.          *)
GuardIsHeld ==
  \A a \in Admins :
    /\ admin[a].pc \in {"vault", "database", "restore"} => guard = a
    /\ admin[a].pc # "idle" => admin[a].profile \in Profiles
    /\ admin[a].pc \in {"sweeping", "vault"} => admin[a].op \in {"replace", "delete"}
    /\ admin[a].pc = "enter" => admin[a].op = "delete"
    /\ admin[a].op = "replace" /\ admin[a].pc \in {"sweeping", "vault"} =>
         guard = a /\ secret[admin[a].profile] < MaxKeys

(* What a failed command puts back is what the row says.                   *)
ChangesAreHeld ==
  \A a \in Admins :
    admin[a].pc \in {"database", "restore"} /\ admin[a].profile \notin torn =>
      /\ admin[a].old = validated[admin[a].profile]
      /\ admin[a].op = "delete" => secret[admin[a].profile] = 0

KeysAreSound == KeyTypes /\ GuardIsHeld /\ ChangesAreHeld /\ KeyFollowsItsProfile

-----------------------------------------------------------------------------
(* The files. *)
FileTypes ==
  /\ book \in BOOLEAN
  /\ ext = None \/ ext \in Exts
  /\ row \in [Files -> Resources \cup {None}]
  /\ vault \in [Files -> {"none", "id", "marker"}]
  /\ atProvider \subseteq Files /\ confirmed \subseteq Files
  /\ uploader \in [Files -> Profiles \cup {None}]
  /\ faults \in 0 .. MaxFaults
  /\ sweep \in [Callers -> Sweeps]
  /\ prep \in Preps
  /\ prep.pc # "idle" => prep.profile \in Profiles

(* A file nobody has sent is nowhere, and one without a row is with the    *)
(* extraction that sent it.                                                *)
UploadsAreSound ==
  /\ \A f \in Files : uploader[f] = None =>
       row[f] = None /\ vault[f] = "none" /\ f \notin confirmed /\ f \notin atProvider
  /\ prep.pc \in {"storing", "tracking", "compensating"} =>
       /\ prep.file \in Files
       /\ uploader[prep.file] # None /\ row[prep.file] = None /\ vault[prep.file] # "marker"
       /\ prep.pc # "compensating" => prep.file \notin confirmed
       /\ prep.pc = "tracking" => vault[prep.file] = "id"

Claiming == {"claimed", "deleting", "deleted", "failing"}
Ending == {"marking", "adopting", "forgetting", "dropping"}
Passive == {"idle", "recover", "next", "raised"}
Active(w, f) == sweep[w].pc \in Claiming /\ sweep[w].file = f

(* A claim has one owner.                                                  *)
ClaimsAreSound ==
  /\ \A w \in Callers : \A f \in sweep[w].todo : row[f] # None
  /\ \A w \in Callers : sweep[w].pc \in Claiming \cup Ending =>
       sweep[w].file \in Files /\ row[sweep[w].file] # None
  /\ \A w \in Callers : sweep[w].pc \in Claiming =>
       row[sweep[w].file].status = "cleaning" /\ row[sweep[w].file].count = sweep[w].attempt
  /\ \A w, v \in Callers : \A f \in Files : Active(w, f) /\ Active(v, f) => w = v

(* A file that nobody will claim any more.                                 *)
Settled(f) ==
  row[f] # None /\ row[f].status \in {"cleaning", "succeeded"} /\ \A w \in Callers : ~Active(w, f)

(* A marker, and the sweep that acts on it, are for files that are settled.*)
MarkersAreSound ==
  /\ \A f \in Files : vault[f] = "marker" => Settled(f)
  /\ \A w \in Callers : sweep[w].pc \in Ending => Settled(sweep[w].file)

(* What is confirmed is settled or with the sweep that was told.           *)
ConfirmedIsSettled ==
  \A f \in confirmed : row[f] # None =>
    /\ row[f].status \in {"cleaning", "succeeded"}
    /\ \A w \in Callers : Active(w, f) => sweep[w].pc = "deleted"

FilesAreSound ==
  FileTypes /\ UploadsAreSound /\ ClaimsAreSound /\ MarkersAreSound /\ ConfirmedIsSettled

-----------------------------------------------------------------------------
(* With a provider that never answers "missing" for a file it has.         *)
Trusted == "missing" \notin ForeignAnswers

GoneIsGone ==
  /\ \A f \in Files : vault[f] = "marker" => f \notin atProvider
  /\ \A w \in Callers : sweep[w].pc \in Ending \cup {"deleted"} => sweep[w].file \notin atProvider

RecordsAreSound == FilesAreSound /\ (Trusted => GoneIsGone /\ TrackedUntilDeleted)

-----------------------------------------------------------------------------
(* Commands on profiles. *)
LEMMA CommandMade ==
  ASSUME NEW P, NEW O, NEW F, NEW K, NEW x \in P, NEW o \in O, NEW p \in F, NEW k \in K
  PROVE  [pc |-> x, op |-> o, profile |-> p, old |-> k] \in [pc : P, op : O, profile : F, old : K]
BY Zenon

LEMMA CommandParts ==
  ASSUME NEW P, NEW O, NEW F, NEW K, NEW c \in [pc : P, op : O, profile : F, old : K]
  PROVE  /\ c.pc \in P /\ c.op \in O /\ c.profile \in F /\ c.old \in K
         /\ DOMAIN c = {"pc", "op", "profile", "old"}
BY Zenon

LEMMA CommandMoved ==
  ASSUME NEW P, NEW O, NEW F, NEW K, NEW c \in [pc : P, op : O, profile : F, old : K], NEW x \in P,
         NEW u, u = [c EXCEPT !.pc = x]
  PROVE  /\ u \in [pc : P, op : O, profile : F, old : K]
         /\ u.pc = x
         /\ u.op = c.op /\ u.profile = c.profile /\ u.old = c.old
<1>1. u \in [pc : P, op : O, profile : F, old : K]
  BY SMT
<1>2. u.pc = x
  BY CommandParts, SMT
<1>3. u.op = c.op
  BY CommandParts, Zenon
<1>4. u.profile = c.profile
  BY CommandParts, Zenon
<1>5. u.old = c.old
  BY CommandParts, Zenon
<1> QED
  BY <1>1, <1>2, <1>3, <1>4, <1>5

LEMMA CommandChanged ==
  ASSUME NEW P, NEW O, NEW F, NEW K, NEW c \in [pc : P, op : O, profile : F, old : K], NEW x \in P, NEW y \in K,
         NEW u, u = [c EXCEPT !.pc = x, !.old = y]
  PROVE  /\ u \in [pc : P, op : O, profile : F, old : K]
         /\ u.pc = x /\ u.old = y
         /\ u.op = c.op /\ u.profile = c.profile
<1> DEFINE d == [c EXCEPT !.pc = x]
<1>1. u \in [pc : P, op : O, profile : F, old : K]
  <2>1. d \in [pc : P, op : O, profile : F, old : K]
    BY SMT
  <2>2. u = [d EXCEPT !.old = y]
    BY CommandParts, SMT DEF d
  <2> HIDE DEF d
  <2>3. [d EXCEPT !.old = y] \in [pc : P, op : O, profile : F, old : K]
    BY <2>1, SMT
  <2> QED
    BY <2>2, <2>3, Zenon
<1>2. u.pc = x
  BY CommandParts, SMT
<1>3. u.old = y
  BY CommandParts, SMT
<1>4. u.op = c.op
  BY CommandParts, SMT
<1>5. u.profile = c.profile
  BY CommandParts, SMT
<1> QED
  BY <1>1, <1>2, <1>3, <1>4, <1>5

(* Only the command of a moves. *)
OthersStay(a) == \A b \in Admins \ {a} : admin'[b] = admin[b]

LEMMA IdleCommand ==
  /\ NoAdmin \in Commands
  /\ NoAdmin.pc = "idle" /\ NoAdmin.op = "none" /\ NoAdmin.profile = None /\ NoAdmin.old = 0
<1>1. /\ "idle" \in AdminPcs /\ "none" \in {"none", "save", "replace", "delete"}
      /\ None \in Profiles \cup {None} /\ 0 \in Keys
  BY BoundAssumption, SMT DEF AdminPcs, Keys
<1>2. NoAdmin \in Commands
  BY <1>1, CommandMade, Zenon DEF NoAdmin, Commands
<1> QED
  BY <1>2, Zenon DEF NoAdmin

LEMMA CommandEnds ==
  ASSUME KeyTypes, NEW a \in Admins, EndAdmin(a)
  PROVE  /\ admin' \in [Admins -> Commands]
         /\ admin'[a].pc = "idle" /\ admin'[a].op = "none"
         /\ OthersStay(a)
         /\ guard' = (IF guard = a THEN None ELSE guard)
<1>1. admin' \in [Admins -> Commands] /\ admin'[a] = NoAdmin /\ OthersStay(a)
  BY IdleCommand, SMT DEF KeyTypes, EndAdmin, OthersStay
<1> QED
  BY <1>1, IdleCommand, Zenon DEF EndAdmin

LEMMA CommandMoves ==
  ASSUME KeyTypes, NEW a \in Admins, NEW x \in AdminPcs,
         admin' = [admin EXCEPT ![a].pc = x]
  PROVE  /\ admin' \in [Admins -> Commands]
         /\ admin'[a].pc = x
         /\ admin'[a].op = admin[a].op /\ admin'[a].profile = admin[a].profile
         /\ admin'[a].old = admin[a].old
         /\ OthersStay(a)
<1> DEFINE u == [admin[a] EXCEPT !.pc = x]
<1>1. admin[a] \in Commands
  BY SMT DEF KeyTypes
<1>2. /\ u \in Commands /\ u.pc = x
      /\ u.op = admin[a].op /\ u.profile = admin[a].profile /\ u.old = admin[a].old
  BY <1>1, CommandMoved, Zenon DEF Commands
<1>3. admin' = [admin EXCEPT ![a] = u]
  BY SMT DEF KeyTypes
<1> HIDE DEF u
<1>4. admin' \in [Admins -> Commands] /\ admin'[a] = u /\ OthersStay(a)
  BY <1>2, <1>3, SMT DEF KeyTypes, OthersStay
<1> QED
  BY <1>2, <1>4, Zenon

LEMMA CommandParts2 ==
  ASSUME KeyTypes, NEW a \in Admins
  PROVE  /\ admin[a].pc \in AdminPcs /\ admin[a].op \in {"none", "save", "replace", "delete"}
         /\ admin[a].profile \in Profiles \cup {None} /\ admin[a].old \in Keys
<1>1. admin[a] \in Commands
  BY SMT DEF KeyTypes
<1> QED
  BY <1>1, CommandParts, Zenon DEF Commands

(* What the commands have in common: a step of a, which keeps the guard or *)
(* gives it back.                                                          *)
LEMMA KeysStaySound ==
  ASSUME KeysAreSound, NEW a \in Admins,
         OthersStay(a), admin' \in [Admins -> Commands],
         admin'[a].pc = "idle",
         UNCHANGED <<validated, secret, torn>>,
         guard' = guard \/ (guard = a /\ guard' = None),
         admin[a].pc \notin {"database", "restore"}
  PROVE  KeysAreSound'
<1>1. KeyTypes'
  BY SMT DEF KeysAreSound, KeyTypes
<1>2. GuardIsHeld'
  BY NoneAssumption, SMT DEF KeysAreSound, GuardIsHeld, OthersStay
<1>3. ChangesAreHeld'
  BY SMT DEF KeysAreSound, ChangesAreHeld, OthersStay
<1>4. KeyFollowsItsProfile'
  BY SMT DEF KeysAreSound, KeyFollowsItsProfile, OthersStay
<1> QED
  BY <1>1, <1>2, <1>3, <1>4 DEF KeysAreSound

LEMMA KeysHoldInitially == Init => KeysAreSound
<1> SUFFICES ASSUME Init PROVE KeysAreSound
  OBVIOUS
<1>1. KeyTypes
  BY IdleCommand, BoundAssumption, SMT DEF Init, KeyTypes, Keys
<1>2. \A a \in Admins : admin[a] = NoAdmin
  BY SMT DEF Init
<1>3. GuardIsHeld /\ ChangesAreHeld
  BY <1>2, IdleCommand, SMT DEF GuardIsHeld, ChangesAreHeld
<1>4. KeyFollowsItsProfile
  BY SMT DEF Init, KeyFollowsItsProfile
<1> QED
  BY <1>1, <1>3, <1>4 DEF KeysAreSound

LEMMA KeysUnmoved ==
  ASSUME KeysAreSound, UNCHANGED <<validated, secret, admin, guard, torn>>
  PROVE  KeysAreSound'
BY Zenon DEF KeysAreSound, KeyTypes, GuardIsHeld, ChangesAreHeld, KeyFollowsItsProfile

LEMMA BeginAdminKeys ==
  ASSUME KeysAreSound, NEW a \in Admins, NEW p \in Profiles, NEW op \in {"delete", "replace"},
         BeginAdmin(a, op, p)
  PROVE  KeysAreSound'
<1> DEFINE u == [pc |-> "sweeping", op |-> op, profile |-> p, old |-> 0]
<1>0. KeyTypes
  BY DEF KeysAreSound
<1>1. u \in Commands /\ u.pc = "sweeping" /\ u.op = op /\ u.profile = p /\ u.old = 0
  <2>1. /\ "sweeping" \in AdminPcs /\ op \in {"none", "save", "replace", "delete"}
        /\ p \in Profiles \cup {None} /\ 0 \in Keys
    BY BoundAssumption, SMT DEF AdminPcs, Keys
  <2>2. u \in Commands
    BY <2>1, CommandMade, Zenon DEF Commands
  <2> QED
    BY <2>2, Zenon
<1>2. admin' = [admin EXCEPT ![a] = u]
  BY Zenon DEF BeginAdmin
<1> HIDE DEF u
<1>3. admin' \in [Admins -> Commands] /\ admin'[a] = u /\ OthersStay(a)
  BY <1>0, <1>1, <1>2, SMT DEF KeyTypes, OthersStay
<1>4. /\ admin[a].pc = "idle" /\ UNCHANGED <<validated, secret, torn>>
      /\ op = "replace" => guard = None /\ secret[p] < MaxKeys
      /\ guard' = IF op = "replace" THEN a ELSE guard
  BY SMT DEF BeginAdmin, store, bounds
<1>5. KeyTypes'
  BY <1>0, <1>3, <1>4, SMT DEF KeyTypes
<1>6. GuardIsHeld'
  BY <1>1, <1>3, <1>4, NoneAssumption, SMT DEF KeysAreSound, GuardIsHeld, OthersStay
<1>7. ChangesAreHeld'
  BY <1>1, <1>3, <1>4, SMT DEF KeysAreSound, ChangesAreHeld, OthersStay
<1>8. KeyFollowsItsProfile'
  BY <1>1, <1>3, <1>4, SMT DEF KeysAreSound, KeyFollowsItsProfile, OthersStay
<1> QED
  BY <1>5, <1>6, <1>7, <1>8 DEF KeysAreSound

LEMMA CheckResolvedKeys ==
  ASSUME KeysAreSound, NEW a \in Admins, CheckResolved(a)
  PROVE  KeysAreSound'
<1>0. KeyTypes
  BY DEF KeysAreSound
<1>1. admin[a].pc = "sweeping" /\ UNCHANGED <<validated, secret, torn>>
  BY SMT DEF CheckResolved, store, bounds
<1>2. CASE EndAdmin(a)
  <2>1. /\ admin' \in [Admins -> Commands] /\ OthersStay(a)
        /\ admin'[a].pc = "idle" /\ guard' = (IF guard = a THEN None ELSE guard)
    BY <1>0, <1>2, CommandEnds
  <2> QED
    BY <1>1, <2>1, KeysStaySound, SMT
<1>3. CASE ~EndAdmin(a)
  <2> DEFINE x == IF admin[a].op = "delete" THEN "enter" ELSE "vault"
  <2>1. admin' = [admin EXCEPT ![a].pc = x] /\ guard' = guard
    BY <1>3, Zenon DEF CheckResolved
  <2>2. x \in AdminPcs
    BY SMT DEF AdminPcs
  <2>3. /\ admin' \in [Admins -> Commands] /\ OthersStay(a) /\ admin'[a].pc = x
        /\ admin'[a].op = admin[a].op /\ admin'[a].profile = admin[a].profile
    BY <1>0, <2>1, <2>2, CommandMoves, Zenon
  <2>4. admin[a].op \in {"replace", "delete"} /\ admin[a].profile \in Profiles
    BY <1>1, SMT DEF KeysAreSound, GuardIsHeld
  <2>5. KeyTypes'
    BY <1>0, <1>1, <2>1, <2>3, SMT DEF KeyTypes
  <2>6. GuardIsHeld'
    BY <1>1, <2>1, <2>3, <2>4, SMT DEF KeysAreSound, GuardIsHeld, OthersStay
  <2>7. ChangesAreHeld'
    BY <1>1, <2>3, SMT DEF KeysAreSound, ChangesAreHeld, OthersStay
  <2>8. KeyFollowsItsProfile'
    BY <1>1, <2>3, SMT DEF KeysAreSound, KeyFollowsItsProfile, OthersStay
  <2> QED
    BY <2>5, <2>6, <2>7, <2>8 DEF KeysAreSound
<1> QED
  BY <1>2, <1>3

LEMMA EnterDeletionKeys ==
  ASSUME KeysAreSound, NEW a \in Admins, EnterDeletion(a)
  PROVE  KeysAreSound'
<1>0. KeyTypes
  BY DEF KeysAreSound
<1>1. admin[a].pc = "enter" /\ UNCHANGED <<validated, secret, torn>>
  BY SMT DEF EnterDeletion, store, bounds
<1>2. CASE EndAdmin(a)
  <2>1. /\ admin' \in [Admins -> Commands] /\ OthersStay(a)
        /\ admin'[a].pc = "idle" /\ guard' = (IF guard = a THEN None ELSE guard)
    BY <1>0, <1>2, CommandEnds
  <2> QED
    BY <1>1, <2>1, KeysStaySound, SMT
<1>3. CASE ~EndAdmin(a)
  <2>1. guard = None /\ guard' = a /\ admin' = [admin EXCEPT ![a].pc = "vault"]
    BY <1>3, Zenon DEF EnterDeletion
  <2>2. "vault" \in AdminPcs
    BY DEF AdminPcs
  <2>3. /\ admin' \in [Admins -> Commands] /\ OthersStay(a) /\ admin'[a].pc = "vault"
        /\ admin'[a].op = admin[a].op /\ admin'[a].profile = admin[a].profile
    BY <1>0, <2>1, <2>2, CommandMoves, Zenon
  <2>4. admin[a].op = "delete" /\ admin[a].profile \in Profiles
    BY <1>1, SMT DEF KeysAreSound, GuardIsHeld
  <2>5. KeyTypes'
    BY <1>0, <1>1, <2>1, <2>3, SMT DEF KeyTypes
  <2>6. GuardIsHeld'
    BY <1>1, <2>1, <2>3, <2>4, NoneAssumption, SMT DEF KeysAreSound, GuardIsHeld, OthersStay
  <2>7. ChangesAreHeld'
    BY <1>1, <2>3, SMT DEF KeysAreSound, ChangesAreHeld, OthersStay
  <2>8. KeyFollowsItsProfile'
    BY <1>1, <2>3, SMT DEF KeysAreSound, KeyFollowsItsProfile, OthersStay
  <2> QED
    BY <2>5, <2>6, <2>7, <2>8 DEF KeysAreSound
<1> QED
  BY <1>2, <1>3

LEMMA ChangeSecretKeys ==
  ASSUME KeysAreSound, NEW a \in Admins, ChangeSecret(a)
  PROVE  KeysAreSound'
<1> DEFINE p == admin[a].profile
<1>0. KeyTypes
  BY DEF KeysAreSound
<1>1. admin[a].pc = "vault" /\ UNCHANGED <<validated, torn>>
  BY SMT DEF ChangeSecret
<1>2. guard = a /\ p \in Profiles /\ (admin[a].op = "replace" => secret[p] < MaxKeys)
  BY <1>1, SMT DEF KeysAreSound, GuardIsHeld
<1>3. CASE EndAdmin(a) /\ UNCHANGED secret
  <2>1. /\ admin' \in [Admins -> Commands] /\ OthersStay(a)
        /\ admin'[a].pc = "idle" /\ guard' = (IF guard = a THEN None ELSE guard)
    BY <1>0, <1>3, CommandEnds
  <2> QED
    BY <1>1, <1>3, <2>1, KeysStaySound, SMT
<1>4. CASE ~(EndAdmin(a) /\ UNCHANGED secret)
  <2> DEFINE k == IF admin[a].op = "delete" THEN 0 ELSE secret[p] + 1
             u == [admin[a] EXCEPT !.pc = "database", !.old = secret[p]]
  <2>1. /\ secret[p] > 0 /\ guard' = guard
        /\ secret' = [secret EXCEPT ![p] = k]
        /\ admin' = [admin EXCEPT ![a] = u]
    BY <1>4, SMT DEF ChangeSecret
  <2>2. secret[p] \in Keys /\ k \in Keys
    <3>1. admin[a].op \in {"replace", "delete"}
      BY <1>1, SMT DEF KeysAreSound, GuardIsHeld
    <3>2. secret[p] \in Keys
      BY <1>0, <1>2, SMT DEF KeyTypes
    <3> QED
      BY <1>2, <3>1, <3>2, BoundAssumption, SMT DEF Keys
  <2>3. admin[a] \in Commands /\ "database" \in AdminPcs
    BY <1>0, SMT DEF KeyTypes, AdminPcs
  <2>4. /\ u \in Commands /\ u.pc = "database" /\ u.old = secret[p]
        /\ u.op = admin[a].op /\ u.profile = admin[a].profile
    BY <2>2, <2>3, CommandChanged, Zenon DEF Commands
  <2> HIDE DEF u
  <2>5. admin' \in [Admins -> Commands] /\ admin'[a] = u /\ OthersStay(a)
    BY <1>0, <2>1, <2>4, SMT DEF KeyTypes, OthersStay
  <2>6. secret' \in [Profiles -> Keys] /\ secret'[p] = k /\ \A q \in Profiles \ {p} : secret'[q] = secret[q]
    BY <1>0, <1>2, <2>1, <2>2, SMT DEF KeyTypes
  <2>7. KeyTypes'
    BY <1>0, <1>1, <2>1, <2>5, <2>6, SMT DEF KeyTypes
  <2>8. \A b \in Admins \ {a} :
          /\ admin'[b] = admin[b] /\ admin[b].pc \notin {"vault", "database", "restore"}
          /\ admin[b].op = "replace" => admin[b].pc # "sweeping"
    BY <1>2, <2>5, SMT DEF KeysAreSound, GuardIsHeld, OthersStay
  <2>9. GuardIsHeld'
    BY <1>1, <1>2, <2>1, <2>4, <2>5, <2>8, SMT DEF KeysAreSound, GuardIsHeld
  <2>10. p \notin torn => secret[p] = validated[p]
    <3>1. \A b \in Admins : admin[b].pc \notin {"database", "restore"}
      BY <1>1, <2>8, SMT
    <3> QED
      BY <1>2, <3>1, Zenon DEF KeysAreSound, KeyFollowsItsProfile
  <2>11. ChangesAreHeld'
    BY <1>1, <2>4, <2>5, <2>6, <2>8, <2>10, SMT DEF ChangesAreHeld
  <2>12. KeyFollowsItsProfile'
    <3> SUFFICES ASSUME NEW q \in Profiles \ torn,
                        \A b \in Admins : admin'[b].profile = q => admin'[b].pc \notin {"database", "restore"}
                 PROVE  secret'[q] = validated'[q]
      BY <1>1, SMT DEF KeyFollowsItsProfile
    <3>1. q # p
      BY <2>4, <2>5, SMT
    <3>2. \A b \in Admins : admin[b].pc \notin {"database", "restore"}
      BY <1>1, <2>8, SMT
    <3> QED
      BY <1>1, <2>6, <3>1, <3>2, SMT DEF KeysAreSound, KeyFollowsItsProfile
  <2> QED
    BY <2>7, <2>9, <2>11, <2>12 DEF KeysAreSound
<1> QED
  BY <1>3, <1>4

(* No command but the holder of the guard is between its two writes.       *)
LEMMA OthersAreOutside ==
  ASSUME KeysAreSound, NEW a \in Admins, guard = a, NEW b \in Admins \ {a}
  PROVE  /\ admin[b].pc \notin {"vault", "database", "restore"}
         /\ admin[b].op = "replace" => admin[b].pc # "sweeping"
BY SMT DEF KeysAreSound, GuardIsHeld

LEMMA ChangeProfileKeys ==
  ASSUME KeysAreSound, NEW a \in Admins, ChangeProfile(a)
  PROVE  KeysAreSound'
<1> DEFINE p == admin[a].profile
<1>0. KeyTypes
  BY DEF KeysAreSound
<1>1. admin[a].pc = "database" /\ UNCHANGED <<secret, torn>>
  BY SMT DEF ChangeProfile
<1>2. guard = a /\ p \in Profiles
  BY <1>1, SMT DEF KeysAreSound, GuardIsHeld
<1>3. p \notin torn => admin[a].old = validated[p] /\ (admin[a].op = "delete" => secret[p] = 0)
  BY <1>1, SMT DEF KeysAreSound, ChangesAreHeld
<1>4. \A b \in Admins \ {a} :
        /\ admin[b].pc \notin {"vault", "database", "restore"}
        /\ admin[b].op = "replace" => admin[b].pc # "sweeping"
  BY <1>2, OthersAreOutside
<1>5. CASE EndAdmin(a) /\ validated' = [validated EXCEPT ![p] = IF admin[a].op = "delete" THEN 0 ELSE secret[p]]
  <2> DEFINE k == IF admin[a].op = "delete" THEN 0 ELSE secret[p]
  <2>1. /\ admin' \in [Admins -> Commands] /\ OthersStay(a) /\ admin'[a].pc = "idle"
        /\ admin'[a].op = "none" /\ guard' = None
    BY <1>0, <1>2, <1>5, CommandEnds, SMT
  <2>2. k \in Keys
    BY <1>0, <1>2, BoundAssumption, SMT DEF KeyTypes, Keys
  <2>3. /\ validated' \in [Profiles -> Keys] /\ validated'[p] = k
        /\ \A q \in Profiles \ {p} : validated'[q] = validated[q]
    BY <1>0, <1>2, <1>5, <2>2, SMT DEF KeyTypes
  <2>4. KeyTypes'
    BY <1>0, <1>1, <2>1, <2>3, SMT DEF KeyTypes
  <2>5. GuardIsHeld'
    BY <1>1, <1>2, <1>4, <2>1, SMT DEF KeysAreSound, GuardIsHeld, OthersStay
  <2>6. ChangesAreHeld'
    BY <1>4, <2>1, SMT DEF ChangesAreHeld, OthersStay
  <2>7. KeyFollowsItsProfile'
    <3> SUFFICES ASSUME NEW q \in Profiles \ torn PROVE secret'[q] = validated'[q]
      BY <1>1, SMT DEF KeyFollowsItsProfile
    <3>1. CASE q = p
      BY <1>1, <1>3, <2>3, <3>1, SMT
    <3>2. CASE q # p
      BY <1>1, <1>4, <2>3, <3>2, SMT DEF KeysAreSound, KeyFollowsItsProfile
    <3> QED
      BY <3>1, <3>2
  <2> QED
    BY <2>4, <2>5, <2>6, <2>7 DEF KeysAreSound
<1>6. CASE admin' = [admin EXCEPT ![a].pc = "restore"] /\ UNCHANGED <<validated, guard>>
  <2>1. "restore" \in AdminPcs
    BY DEF AdminPcs
  <2>2. /\ admin' \in [Admins -> Commands] /\ OthersStay(a) /\ admin'[a].pc = "restore"
        /\ admin'[a].op = admin[a].op /\ admin'[a].profile = admin[a].profile /\ admin'[a].old = admin[a].old
    BY <1>0, <1>6, <2>1, CommandMoves, Zenon
  <2>3. KeyTypes'
    BY <1>0, <1>1, <1>6, <2>2, SMT DEF KeyTypes
  <2>4. GuardIsHeld'
    BY <1>1, <1>2, <1>4, <1>6, <2>2, SMT DEF KeysAreSound, GuardIsHeld, OthersStay
  <2>5. ChangesAreHeld'
    BY <1>1, <1>6, <2>2, SMT DEF KeysAreSound, ChangesAreHeld, OthersStay
  <2>6. KeyFollowsItsProfile'
    BY <1>1, <1>6, <2>2, SMT DEF KeysAreSound, KeyFollowsItsProfile, OthersStay
  <2> QED
    BY <2>3, <2>4, <2>5, <2>6 DEF KeysAreSound
<1>7. \/ EndAdmin(a) /\ validated' = [validated EXCEPT ![p] = IF admin[a].op = "delete" THEN 0 ELSE secret[p]]
      \/ admin' = [admin EXCEPT ![a].pc = "restore"] /\ UNCHANGED <<validated, guard>>
  <2>1. CASE admin[a].op = "delete"
    BY <2>1, Zenon DEF ChangeProfile
  <2>2. CASE admin[a].op # "delete"
    BY <2>2, Zenon DEF ChangeProfile
  <2> QED
    BY <2>1, <2>2
<1> QED
  BY <1>5, <1>6, <1>7

LEMMA RestoreSecretKeys ==
  ASSUME KeysAreSound, NEW a \in Admins, RestoreSecret(a)
  PROVE  KeysAreSound'
<1> DEFINE p == admin[a].profile
<1>0. KeyTypes
  BY DEF KeysAreSound
<1>1. admin[a].pc = "restore" /\ validated' = validated /\ EndAdmin(a)
  BY SMT DEF RestoreSecret
<1>2. guard = a /\ p \in Profiles
  BY <1>1, SMT DEF KeysAreSound, GuardIsHeld
<1>3. p \notin torn => admin[a].old = validated[p]
  BY <1>1, SMT DEF KeysAreSound, ChangesAreHeld
<1>4. \A b \in Admins \ {a} :
        /\ admin[b].pc \notin {"vault", "database", "restore"}
        /\ admin[b].op = "replace" => admin[b].pc # "sweeping"
  BY <1>2, OthersAreOutside
<1>5. /\ admin' \in [Admins -> Commands] /\ OthersStay(a) /\ admin'[a].pc = "idle"
      /\ admin'[a].op = "none" /\ guard' = None
  BY <1>0, <1>1, <1>2, CommandEnds, SMT
<1>6. admin[a].old \in Keys
  BY <1>0, CommandParts2
<1>7. \/ secret' = [secret EXCEPT ![p] = admin[a].old] /\ torn' = torn
      \/ secret' = secret /\ torn' = torn \cup {p}
  BY SMT DEF RestoreSecret
<1>8. /\ secret' \in [Profiles -> Keys]
      /\ \A q \in Profiles \ {p} : secret'[q] = secret[q]
      /\ torn' \subseteq Profiles /\ torn \subseteq torn'
      /\ p \notin torn' => secret'[p] = validated[p]
  BY <1>0, <1>2, <1>3, <1>6, <1>7, SMT DEF KeyTypes
<1>9. KeyTypes'
  BY <1>0, <1>1, <1>5, <1>8, SMT DEF KeyTypes
<1>10. GuardIsHeld'
  BY <1>4, <1>5, SMT DEF KeysAreSound, GuardIsHeld, OthersStay
<1>11. ChangesAreHeld'
  BY <1>4, <1>5, SMT DEF ChangesAreHeld, OthersStay
<1>12. KeyFollowsItsProfile'
  <2> SUFFICES ASSUME NEW q \in Profiles \ torn' PROVE secret'[q] = validated'[q]
    BY SMT DEF KeyFollowsItsProfile
  <2>1. CASE q = p
    BY <1>1, <1>8, <2>1, SMT
  <2>2. CASE q # p
    BY <1>1, <1>4, <1>8, <2>2, SMT DEF KeysAreSound, KeyFollowsItsProfile
  <2> QED
    BY <2>1, <2>2
<1> QED
  BY <1>9, <1>10, <1>11, <1>12 DEF KeysAreSound

LEMMA BeginSaveKeys ==
  ASSUME KeysAreSound, NEW a \in Admins, NEW p \in Profiles, BeginSave(a, p)
  PROVE  KeysAreSound'
<1> DEFINE u == [pc |-> "database", op |-> "save", profile |-> p, old |-> 0]
<1>0. KeyTypes
  BY DEF KeysAreSound
<1>1. u \in Commands /\ u.pc = "database" /\ u.op = "save" /\ u.profile = p /\ u.old = 0
  <2>1. /\ "database" \in AdminPcs /\ "save" \in {"none", "save", "replace", "delete"}
        /\ p \in Profiles \cup {None} /\ 0 \in Keys
    BY BoundAssumption, SMT DEF AdminPcs, Keys
  <2>2. u \in Commands
    BY <2>1, CommandMade, Zenon DEF Commands
  <2> QED
    BY <2>2, Zenon
<1>2. admin' = [admin EXCEPT ![a] = u] /\ secret' = [secret EXCEPT ![p] = 1]
  BY Zenon DEF BeginSave
<1> HIDE DEF u
<1>3. admin' \in [Admins -> Commands] /\ admin'[a] = u /\ OthersStay(a)
  BY <1>0, <1>1, <1>2, SMT DEF KeyTypes, OthersStay
<1>4. /\ admin[a].pc = "idle" /\ UNCHANGED <<validated, torn>>
      /\ guard = None /\ guard' = a /\ validated[p] = 0 /\ secret[p] = 0
  BY SMT DEF BeginSave, bounds
<1>5. /\ secret' \in [Profiles -> Keys]
      /\ \A q \in Profiles \ {p} : secret'[q] = secret[q]
  BY <1>0, <1>2, BoundAssumption, SMT DEF KeyTypes, Keys
<1>6. \A b \in Admins : /\ admin[b].pc \notin {"vault", "database", "restore"}
                        /\ admin[b].op = "replace" => admin[b].pc # "sweeping"
  BY <1>4, NoneAssumption, SMT DEF KeysAreSound, GuardIsHeld
<1>7. KeyTypes'
  BY <1>0, <1>3, <1>4, <1>5, SMT DEF KeyTypes
<1>8. GuardIsHeld'
  BY <1>1, <1>3, <1>4, <1>6, SMT DEF KeysAreSound, GuardIsHeld, OthersStay
<1>9. ChangesAreHeld'
  BY <1>1, <1>3, <1>4, <1>6, SMT DEF ChangesAreHeld, OthersStay
<1>10. KeyFollowsItsProfile'
  <2> SUFFICES ASSUME NEW q \in Profiles \ torn,
                      \A b \in Admins : admin'[b].profile = q => admin'[b].pc \notin {"database", "restore"}
               PROVE  secret'[q] = validated'[q]
    BY <1>4, SMT DEF KeyFollowsItsProfile
  <2>1. q # p
    BY <1>1, <1>3, SMT
  <2> QED
    BY <1>4, <1>5, <1>6, <2>1, SMT DEF KeysAreSound, KeyFollowsItsProfile
<1> QED
  BY <1>7, <1>8, <1>9, <1>10 DEF KeysAreSound

LEMMA RestartKeys ==
  ASSUME KeysAreSound, Restart
  PROVE  KeysAreSound'
<1> DEFINE hit == {admin[a].profile : a \in {b \in Admins : admin[b].pc \in {"database", "restore"}}}
<1>1. /\ UNCHANGED <<validated, secret>> /\ guard' = None
      /\ torn' = torn \cup hit
      /\ admin' = [a \in Admins |-> NoAdmin]
  BY Zenon DEF Restart
<1>2. \A a \in Admins : admin[a].pc \in {"database", "restore"} => admin[a].profile \in hit
  BY Zenon
<1>3. \A a \in Admins : admin[a].pc \in {"database", "restore"} => admin[a].profile \in Profiles
  BY SMT DEF KeysAreSound, GuardIsHeld
<1>4. hit \subseteq Profiles
  BY <1>3, Zenon
<1> HIDE DEF hit
<1>5. KeyTypes'
  BY <1>1, <1>4, IdleCommand, SMT DEF KeysAreSound, KeyTypes
<1>6. \A a \in Admins : admin'[a] = NoAdmin
  BY <1>1, SMT
<1>7. GuardIsHeld' /\ ChangesAreHeld'
  BY <1>6, IdleCommand, SMT DEF GuardIsHeld, ChangesAreHeld
<1>8. KeyFollowsItsProfile'
  <2> SUFFICES ASSUME NEW q \in Profiles \ torn' PROVE secret[q] = validated[q]
    BY <1>1, SMT DEF KeyFollowsItsProfile
  <2>1. q \notin torn /\ q \notin hit
    BY <1>1
  <2>2. \A a \in Admins : admin[a].profile = q => admin[a].pc \notin {"database", "restore"}
    BY <1>2, <2>1, Zenon
  <2> QED
    BY <2>1, <2>2, Zenon DEF KeysAreSound, KeyFollowsItsProfile
<1> QED
  BY <1>5, <1>7, <1>8 DEF KeysAreSound

LEMMA KeysInvariance == KeysAreSound /\ [Next]_vars => KeysAreSound'
<1> SUFFICES ASSUME KeysAreSound, [Next]_vars PROVE KeysAreSound'
  OBVIOUS
<1>1. ASSUME NEW a \in Admins, AdminStep(a) PROVE KeysAreSound'
  BY <1>1, BeginAdminKeys, CheckResolvedKeys, EnterDeletionKeys, ChangeSecretKeys, ChangeProfileKeys,
     RestoreSecretKeys, BeginSaveKeys, Zenon DEF AdminStep
<1>2. ASSUME NEW w \in Callers, SweepStep(w) PROVE KeysAreSound'
  <2>1. UNCHANGED <<validated, secret, admin, guard, torn>>
    <3>1. CASE FindMarker(w)
      BY <3>1, SMT DEF FindMarker, store, bounds
    <3>2. CASE BeginCleanup(w)
      BY <3>2, SMT DEF BeginCleanup, store, bounds
    <3>3. CASE LoadHandle(w)
      BY <3>3, SMT DEF LoadHandle, store, bounds
    <3>4. CASE DeleteRemote(w)
      BY <3>4, SMT DEF DeleteRemote, store, bounds
    <3>5. CASE SetMarker(w)
      BY <3>5, SMT DEF SetMarker, store, bounds
    <3>6. CASE MarkSucceeded(w)
      BY <3>6, SMT DEF MarkSucceeded, store, bounds
    <3>7. CASE ForgetHandle(w)
      BY <3>7, SMT DEF ForgetHandle, store, bounds
    <3>8. CASE MarkFailed(w)
      BY <3>8, SMT DEF MarkFailed, store, bounds
    <3>9. CASE \E f \in Files : Claim(w, f) \/ SkipClaimed(w, f)
      BY <3>9, SMT DEF Claim, SkipClaimed, store, bounds
    <3> QED
      BY <1>2, <3>1, <3>2, <3>3, <3>4, <3>5, <3>6, <3>7, <3>8, <3>9, Zenon DEF SweepStep
  <2> QED
    BY <2>1, KeysUnmoved
<1>3. CASE PrepareStep
  <2>1. UNCHANGED <<validated, secret, admin, guard, torn>>
    <3>1. CASE \E p \in Profiles : BeginPrepare(p)
      BY <3>1, SMT DEF BeginPrepare, store, bounds
    <3>2. CASE Rebind
      BY <3>2, SMT DEF Rebind, store, bounds
    <3>3. CASE LoadKey
      BY <3>3, Zenon DEF LoadKey, store, bounds
    <3>4. CASE Upload
      BY <3>4, Zenon DEF Upload, store, bounds
    <3>5. CASE StoreInVault
      BY <3>5, SMT DEF StoreInVault, store, bounds
    <3>6. CASE StoreRow
      BY <3>6, SMT DEF StoreRow, store, bounds
    <3>7. CASE Compensate
      BY <3>7, SMT DEF Compensate, store, bounds
    <3>8. CASE Poll
      BY <3>8, SMT DEF Poll, store, bounds
    <3>9. CASE Download
      BY <3>9, SMT DEF Download, store, bounds
    <3>10. CASE EndPrepare
      BY <3>10, SMT DEF EndPrepare, store, bounds
    <3> QED
      BY <1>3, <3>1, <3>2, <3>3, <3>4, <3>5, <3>6, <3>7, <3>8, <3>9, <3>10, Zenon DEF PrepareStep
  <2> QED
    BY <2>1, KeysUnmoved
<1>4. CASE DeleteBook \/ EndBookSweep \/ AllQuiet \/ UNCHANGED vars
  <2>1. UNCHANGED <<validated, secret, admin, guard, torn>>
    BY <1>4, SMT DEF DeleteBook, EndBookSweep, AllQuiet, vars, store, process, bounds
  <2> QED
    BY <2>1, KeysUnmoved
<1> QED
  BY <1>1, <1>2, <1>3, <1>4, RestartKeys, Zenon DEF Next

-----------------------------------------------------------------------------
(* Sweeps. *)
LEMMA SweepMade ==
  ASSUME NEW P, NEW T, NEW F, NEW K, NEW B,
         NEW x \in P, NEW t \in T, NEW f \in F, NEW k \in K, NEW b \in B
  PROVE  [pc |-> x, todo |-> t, file |-> f, attempt |-> k, bad |-> b] \in [pc : P, todo : T, file : F, attempt : K, bad : B]
BY Zenon

LEMMA SweepParts ==
  ASSUME NEW P, NEW T, NEW F, NEW K, NEW B, NEW s \in [pc : P, todo : T, file : F, attempt : K, bad : B]
  PROVE  /\ s.pc \in P /\ s.todo \in T /\ s.file \in F /\ s.attempt \in K /\ s.bad \in B
         /\ DOMAIN s = {"pc", "todo", "file", "attempt", "bad"}
<1>1. DOMAIN s = {"pc", "todo", "file", "attempt", "bad"}
  BY Zenon
<1>2. s.pc \in P
  BY Zenon
<1>3. s.todo \in T
  BY Zenon
<1>4. s.file \in F
  BY Zenon
<1>5. s.attempt \in K
  BY Zenon
<1>6. s.bad \in B
  BY Zenon
<1> QED
  BY <1>1, <1>2, <1>3, <1>4, <1>5, <1>6

LEMMA SweepMoved ==
  ASSUME NEW P, NEW T, NEW F, NEW K, NEW B, NEW s \in [pc : P, todo : T, file : F, attempt : K, bad : B],
         NEW x \in P,
         NEW u, u = [s EXCEPT !.pc = x]
  PROVE  /\ u \in [pc : P, todo : T, file : F, attempt : K, bad : B]
         /\ u.pc = x
         /\ u.todo = s.todo /\ u.file = s.file /\ u.attempt = s.attempt /\ u.bad = s.bad
<1>1. u \in [pc : P, todo : T, file : F, attempt : K, bad : B]
  BY SMT
<1>2. u.pc = x
  BY SweepParts, SMT
<1>3. u.todo = s.todo
  BY SweepParts, SMT
<1>4. u.file = s.file
  BY SweepParts, SMT
<1>5. u.attempt = s.attempt
  BY SweepParts, SMT
<1>6. u.bad = s.bad
  BY SweepParts, SMT
<1> QED
  BY <1>1, <1>2, <1>3, <1>4, <1>5, <1>6

LEMMA SweepSkips ==
  ASSUME NEW P, NEW T, NEW F, NEW K, NEW B, NEW s \in [pc : P, todo : T, file : F, attempt : K, bad : B],
         NEW t \in T,
         NEW u, u = [s EXCEPT !.todo = t]
  PROVE  /\ u \in [pc : P, todo : T, file : F, attempt : K, bad : B]
         /\ u.todo = t
         /\ u.pc = s.pc /\ u.file = s.file /\ u.attempt = s.attempt /\ u.bad = s.bad
<1>1. u \in [pc : P, todo : T, file : F, attempt : K, bad : B]
  BY SMT
<1>2. u.pc = s.pc
  BY SweepParts, SMT
<1>3. u.todo = t
  BY SweepParts, SMT
<1>4. u.file = s.file
  BY SweepParts, SMT
<1>5. u.attempt = s.attempt
  BY SweepParts, SMT
<1>6. u.bad = s.bad
  BY SweepParts, SMT
<1> QED
  BY <1>1, <1>2, <1>3, <1>4, <1>5, <1>6

LEMMA SweepAdopts ==
  ASSUME NEW P, NEW T, NEW F, NEW K, NEW B, NEW s \in [pc : P, todo : T, file : F, attempt : K, bad : B],
         NEW x \in P, NEW f \in F, NEW k \in K,
         NEW u, u = [s EXCEPT !.pc = x, !.file = f, !.attempt = k]
  PROVE  /\ u \in [pc : P, todo : T, file : F, attempt : K, bad : B]
         /\ u.pc = x /\ u.file = f /\ u.attempt = k
         /\ u.todo = s.todo /\ u.bad = s.bad
<1> DEFINE d1 == [s EXCEPT !.pc = x]
           d2 == [d1 EXCEPT !.file = f]
<1>1. u \in [pc : P, todo : T, file : F, attempt : K, bad : B]
  <2>1. u = [d2 EXCEPT !.attempt = k]
    BY SweepParts, SMT DEF d1, d2
  <2>2. d1 \in [pc : P, todo : T, file : F, attempt : K, bad : B]
    BY SMT
  <2> HIDE DEF d1
  <2>3. d2 \in [pc : P, todo : T, file : F, attempt : K, bad : B]
    BY <2>2, SMT
  <2> HIDE DEF d2
  <2>4. [d2 EXCEPT !.attempt = k] \in [pc : P, todo : T, file : F, attempt : K, bad : B]
    BY <2>3, SMT
  <2> QED
    BY <2>1, <2>4, Zenon
<1>2. u.pc = x
  BY SweepParts, SMT
<1>3. u.todo = s.todo
  BY SweepParts, SMT
<1>4. u.file = f
  BY SweepParts, SMT
<1>5. u.attempt = k
  BY SweepParts, SMT
<1>6. u.bad = s.bad
  BY SweepParts, SMT
<1> QED
  BY <1>1, <1>2, <1>3, <1>4, <1>5, <1>6

LEMMA SweepClaims ==
  ASSUME NEW P, NEW T, NEW F, NEW K, NEW B, NEW s \in [pc : P, todo : T, file : F, attempt : K, bad : B],
         NEW f \in F, NEW t \in T, NEW k \in K, NEW x \in P,
         NEW u, u = [s EXCEPT !.file = f, !.todo = t, !.attempt = k, !.pc = x]
  PROVE  /\ u \in [pc : P, todo : T, file : F, attempt : K, bad : B]
         /\ u.file = f /\ u.todo = t /\ u.attempt = k /\ u.pc = x
         /\ u.bad = s.bad
<1> DEFINE d1 == [s EXCEPT !.file = f]
           d2 == [d1 EXCEPT !.todo = t]
           d3 == [d2 EXCEPT !.attempt = k]
<1>1. u \in [pc : P, todo : T, file : F, attempt : K, bad : B]
  <2>1. u = [d3 EXCEPT !.pc = x]
    BY SweepParts, SMT DEF d1, d2, d3
  <2>2. d1 \in [pc : P, todo : T, file : F, attempt : K, bad : B]
    BY SMT
  <2> HIDE DEF d1
  <2>3. d2 \in [pc : P, todo : T, file : F, attempt : K, bad : B]
    BY <2>2, SMT
  <2> HIDE DEF d2
  <2>4. d3 \in [pc : P, todo : T, file : F, attempt : K, bad : B]
    BY <2>3, SMT
  <2> HIDE DEF d3
  <2>5. [d3 EXCEPT !.pc = x] \in [pc : P, todo : T, file : F, attempt : K, bad : B]
    BY <2>4, SMT
  <2> QED
    BY <2>1, <2>5, Zenon
<1>2. u.pc = x
  BY SweepParts, SMT
<1>3. u.todo = t
  BY SweepParts, SMT
<1>4. u.file = f
  BY SweepParts, SMT
<1>5. u.attempt = k
  BY SweepParts, SMT
<1>6. u.bad = s.bad
  BY SweepParts, SMT
<1> QED
  BY <1>1, <1>2, <1>3, <1>4, <1>5, <1>6

LEMMA SweepFails ==
  ASSUME NEW P, NEW T, NEW F, NEW K, NEW B, NEW s \in [pc : P, todo : T, file : F, attempt : K, bad : B],
         NEW x \in P, NEW b \in B,
         NEW u, u = [s EXCEPT !.pc = x, !.bad = b]
  PROVE  /\ u \in [pc : P, todo : T, file : F, attempt : K, bad : B]
         /\ u.pc = x /\ u.bad = b
         /\ u.todo = s.todo /\ u.file = s.file /\ u.attempt = s.attempt
<1> DEFINE d1 == [s EXCEPT !.pc = x]
<1>1. u \in [pc : P, todo : T, file : F, attempt : K, bad : B]
  <2>1. u = [d1 EXCEPT !.bad = b]
    BY SweepParts, SMT DEF d1
  <2>2. d1 \in [pc : P, todo : T, file : F, attempt : K, bad : B]
    BY SMT
  <2> HIDE DEF d1
  <2>3. [d1 EXCEPT !.bad = b] \in [pc : P, todo : T, file : F, attempt : K, bad : B]
    BY <2>2, SMT
  <2> QED
    BY <2>1, <2>3, Zenon
<1>2. u.pc = x
  BY SweepParts, SMT
<1>3. u.todo = s.todo
  BY SweepParts, SMT
<1>4. u.file = s.file
  BY SweepParts, SMT
<1>5. u.attempt = s.attempt
  BY SweepParts, SMT
<1>6. u.bad = b
  BY SweepParts, SMT
<1> QED
  BY <1>1, <1>2, <1>3, <1>4, <1>5, <1>6

LEMMA SweepContinues ==
  ASSUME NEW P, NEW T, NEW F, NEW K, NEW B, NEW s \in [pc : P, todo : T, file : F, attempt : K, bad : B],
         NEW x \in P, NEW f \in F, NEW k \in K, NEW b \in B,
         NEW u, u = [s EXCEPT !.pc = x, !.file = f, !.attempt = k, !.bad = b]
  PROVE  /\ u \in [pc : P, todo : T, file : F, attempt : K, bad : B]
         /\ u.pc = x /\ u.file = f /\ u.attempt = k /\ u.bad = b
         /\ u.todo = s.todo
<1> DEFINE d1 == [s EXCEPT !.pc = x]
           d2 == [d1 EXCEPT !.file = f]
           d3 == [d2 EXCEPT !.attempt = k]
<1>1. u \in [pc : P, todo : T, file : F, attempt : K, bad : B]
  <2>1. u = [d3 EXCEPT !.bad = b]
    BY SweepParts, SMT DEF d1, d2, d3
  <2>2. d1 \in [pc : P, todo : T, file : F, attempt : K, bad : B]
    BY SMT
  <2> HIDE DEF d1
  <2>3. d2 \in [pc : P, todo : T, file : F, attempt : K, bad : B]
    BY <2>2, SMT
  <2> HIDE DEF d2
  <2>4. d3 \in [pc : P, todo : T, file : F, attempt : K, bad : B]
    BY <2>3, SMT
  <2> HIDE DEF d3
  <2>5. [d3 EXCEPT !.bad = b] \in [pc : P, todo : T, file : F, attempt : K, bad : B]
    BY <2>4, SMT
  <2> QED
    BY <2>1, <2>5, Zenon
<1>2. u.pc = x
  BY SweepParts, SMT
<1>3. u.todo = s.todo
  BY SweepParts, SMT
<1>4. u.file = f
  BY SweepParts, SMT
<1>5. u.attempt = k
  BY SweepParts, SMT
<1>6. u.bad = b
  BY SweepParts, SMT
<1> QED
  BY <1>1, <1>2, <1>3, <1>4, <1>5, <1>6

-----------------------------------------------------------------------------
(* Extractions, their rows and the rows of their files. *)
LEMMA PrepMade ==
  ASSUME NEW P, NEW O, NEW K, NEW F,
         NEW x \in P, NEW o \in O, NEW k \in K, NEW f \in F
  PROVE  [pc |-> x, profile |-> o, key |-> k, file |-> f] \in [pc : P, profile : O, key : K, file : F]
BY Zenon

LEMMA PrepParts ==
  ASSUME NEW P, NEW O, NEW K, NEW F, NEW s \in [pc : P, profile : O, key : K, file : F]
  PROVE  /\ s.pc \in P /\ s.profile \in O /\ s.key \in K /\ s.file \in F
         /\ DOMAIN s = {"pc", "profile", "key", "file"}
<1>1. DOMAIN s = {"pc", "profile", "key", "file"}
  BY Zenon
<1>2. s.pc \in P
  BY Zenon
<1>3. s.profile \in O
  BY Zenon
<1>4. s.key \in K
  BY Zenon
<1>5. s.file \in F
  BY Zenon
<1> QED
  BY <1>1, <1>2, <1>3, <1>4, <1>5

LEMMA PrepMoved ==
  ASSUME NEW P, NEW O, NEW K, NEW F, NEW s \in [pc : P, profile : O, key : K, file : F],
         NEW x \in P,
         NEW u, u = [s EXCEPT !.pc = x]
  PROVE  /\ u \in [pc : P, profile : O, key : K, file : F]
         /\ u.pc = x
         /\ u.profile = s.profile /\ u.key = s.key /\ u.file = s.file
<1>1. u \in [pc : P, profile : O, key : K, file : F]
  BY SMT
<1>2. u.pc = x
  BY PrepParts, SMT
<1>3. u.profile = s.profile
  BY PrepParts, SMT
<1>4. u.key = s.key
  BY PrepParts, SMT
<1>5. u.file = s.file
  BY PrepParts, SMT
<1> QED
  BY <1>1, <1>2, <1>3, <1>4, <1>5

LEMMA PrepKeyed ==
  ASSUME NEW P, NEW O, NEW K, NEW F, NEW s \in [pc : P, profile : O, key : K, file : F],
         NEW x \in P, NEW k \in K,
         NEW u, u = [s EXCEPT !.pc = x, !.key = k]
  PROVE  /\ u \in [pc : P, profile : O, key : K, file : F]
         /\ u.pc = x /\ u.key = k
         /\ u.profile = s.profile /\ u.file = s.file
<1> DEFINE d1 == [s EXCEPT !.pc = x]
<1>1. u \in [pc : P, profile : O, key : K, file : F]
  <2>1. u = [d1 EXCEPT !.key = k]
    BY PrepParts, SMT DEF d1
  <2>2. d1 \in [pc : P, profile : O, key : K, file : F]
    BY SMT
  <2> HIDE DEF d1
  <2>3. [d1 EXCEPT !.key = k] \in [pc : P, profile : O, key : K, file : F]
    BY <2>2, SMT
  <2> QED
    BY <2>1, <2>3, Zenon
<1>2. u.pc = x
  BY PrepParts, SMT
<1>3. u.profile = s.profile
  BY PrepParts, SMT
<1>4. u.key = k
  BY PrepParts, SMT
<1>5. u.file = s.file
  BY PrepParts, SMT
<1> QED
  BY <1>1, <1>2, <1>3, <1>4, <1>5

LEMMA PrepFiled ==
  ASSUME NEW P, NEW O, NEW K, NEW F, NEW s \in [pc : P, profile : O, key : K, file : F],
         NEW x \in P, NEW f \in F,
         NEW u, u = [s EXCEPT !.pc = x, !.file = f]
  PROVE  /\ u \in [pc : P, profile : O, key : K, file : F]
         /\ u.pc = x /\ u.file = f
         /\ u.profile = s.profile /\ u.key = s.key
<1> DEFINE d1 == [s EXCEPT !.pc = x]
<1>1. u \in [pc : P, profile : O, key : K, file : F]
  <2>1. u = [d1 EXCEPT !.file = f]
    BY PrepParts, SMT DEF d1
  <2>2. d1 \in [pc : P, profile : O, key : K, file : F]
    BY SMT
  <2> HIDE DEF d1
  <2>3. [d1 EXCEPT !.file = f] \in [pc : P, profile : O, key : K, file : F]
    BY <2>2, SMT
  <2> QED
    BY <2>1, <2>3, Zenon
<1>2. u.pc = x
  BY PrepParts, SMT
<1>3. u.profile = s.profile
  BY PrepParts, SMT
<1>4. u.key = s.key
  BY PrepParts, SMT
<1>5. u.file = f
  BY PrepParts, SMT
<1> QED
  BY <1>1, <1>2, <1>3, <1>4, <1>5

LEMMA PrepBegun ==
  ASSUME NEW P, NEW O, NEW K, NEW F, NEW s \in [pc : P, profile : O, key : K, file : F],
         NEW x \in P, NEW o \in O,
         NEW u, u = [s EXCEPT !.pc = x, !.profile = o]
  PROVE  /\ u \in [pc : P, profile : O, key : K, file : F]
         /\ u.pc = x /\ u.profile = o
         /\ u.key = s.key /\ u.file = s.file
<1> DEFINE d1 == [s EXCEPT !.pc = x]
<1>1. u \in [pc : P, profile : O, key : K, file : F]
  <2>1. u = [d1 EXCEPT !.profile = o]
    BY PrepParts, SMT DEF d1
  <2>2. d1 \in [pc : P, profile : O, key : K, file : F]
    BY SMT
  <2> HIDE DEF d1
  <2>3. [d1 EXCEPT !.profile = o] \in [pc : P, profile : O, key : K, file : F]
    BY <2>2, SMT
  <2> QED
    BY <2>1, <2>3, Zenon
<1>2. u.pc = x
  BY PrepParts, SMT
<1>3. u.profile = o
  BY PrepParts, SMT
<1>4. u.key = s.key
  BY PrepParts, SMT
<1>5. u.file = s.file
  BY PrepParts, SMT
<1> QED
  BY <1>1, <1>2, <1>3, <1>4, <1>5

LEMMA PrepRebinds ==
  ASSUME NEW P, NEW O, NEW K, NEW F, NEW s \in [pc : P, profile : O, key : K, file : F],
         NEW x \in P, NEW o \in O, NEW k \in K,
         NEW u, u = [s EXCEPT !.pc = x, !.profile = o, !.key = k]
  PROVE  /\ u \in [pc : P, profile : O, key : K, file : F]
         /\ u.pc = x /\ u.profile = o /\ u.key = k
         /\ u.file = s.file
<1> DEFINE d1 == [s EXCEPT !.pc = x]
           d2 == [d1 EXCEPT !.profile = o]
<1>1. u \in [pc : P, profile : O, key : K, file : F]
  <2>1. u = [d2 EXCEPT !.key = k]
    BY PrepParts, SMT DEF d1, d2
  <2>2. d1 \in [pc : P, profile : O, key : K, file : F]
    BY SMT
  <2> HIDE DEF d1
  <2>3. d2 \in [pc : P, profile : O, key : K, file : F]
    BY <2>2, SMT
  <2> HIDE DEF d2
  <2>4. [d2 EXCEPT !.key = k] \in [pc : P, profile : O, key : K, file : F]
    BY <2>3, SMT
  <2> QED
    BY <2>1, <2>4, Zenon
<1>2. u.pc = x
  BY PrepParts, SMT
<1>3. u.profile = o
  BY PrepParts, SMT
<1>4. u.key = k
  BY PrepParts, SMT
<1>5. u.file = s.file
  BY PrepParts, SMT
<1> QED
  BY <1>1, <1>2, <1>3, <1>4, <1>5

LEMMA RowMade ==
  ASSUME NEW S, NEW O, NEW K, NEW B,
         NEW x \in S, NEW o \in O, NEW k \in K, NEW b \in B
  PROVE  [status |-> x, owner |-> o, count |-> k, ext |-> b] \in [status : S, owner : O, count : K, ext : B]
BY Zenon

LEMMA RowParts ==
  ASSUME NEW S, NEW O, NEW K, NEW B, NEW s \in [status : S, owner : O, count : K, ext : B]
  PROVE  /\ s.status \in S /\ s.owner \in O /\ s.count \in K /\ s.ext \in B
         /\ DOMAIN s = {"status", "owner", "count", "ext"}
<1>1. DOMAIN s = {"status", "owner", "count", "ext"}
  BY Zenon
<1>2. s.status \in S
  BY Zenon
<1>3. s.owner \in O
  BY Zenon
<1>4. s.count \in K
  BY Zenon
<1>5. s.ext \in B
  BY Zenon
<1> QED
  BY <1>1, <1>2, <1>3, <1>4, <1>5

LEMMA RowMoved ==
  ASSUME NEW S, NEW O, NEW K, NEW B, NEW s \in [status : S, owner : O, count : K, ext : B],
         NEW x \in S,
         NEW u, u = [s EXCEPT !.status = x]
  PROVE  /\ u \in [status : S, owner : O, count : K, ext : B]
         /\ u.status = x
         /\ u.owner = s.owner /\ u.count = s.count /\ u.ext = s.ext
<1>1. u \in [status : S, owner : O, count : K, ext : B]
  BY SMT
<1>2. u.status = x
  BY RowParts, SMT
<1>3. u.owner = s.owner
  BY RowParts, SMT
<1>4. u.count = s.count
  BY RowParts, SMT
<1>5. u.ext = s.ext
  BY RowParts, SMT
<1> QED
  BY <1>1, <1>2, <1>3, <1>4, <1>5

LEMMA RowClaimed ==
  ASSUME NEW S, NEW O, NEW K, NEW B, NEW s \in [status : S, owner : O, count : K, ext : B],
         NEW x \in S, NEW k \in K,
         NEW u, u = [s EXCEPT !.status = x, !.count = k]
  PROVE  /\ u \in [status : S, owner : O, count : K, ext : B]
         /\ u.status = x /\ u.count = k
         /\ u.owner = s.owner /\ u.ext = s.ext
<1> DEFINE d1 == [s EXCEPT !.status = x]
<1>1. u \in [status : S, owner : O, count : K, ext : B]
  <2>1. u = [d1 EXCEPT !.count = k]
    BY RowParts, SMT DEF d1
  <2>2. d1 \in [status : S, owner : O, count : K, ext : B]
    BY SMT
  <2> HIDE DEF d1
  <2>3. [d1 EXCEPT !.count = k] \in [status : S, owner : O, count : K, ext : B]
    BY <2>2, SMT
  <2> QED
    BY <2>1, <2>3, Zenon
<1>2. u.status = x
  BY RowParts, SMT
<1>3. u.owner = s.owner
  BY RowParts, SMT
<1>4. u.count = k
  BY RowParts, SMT
<1>5. u.ext = s.ext
  BY RowParts, SMT
<1> QED
  BY <1>1, <1>2, <1>3, <1>4, <1>5

LEMMA RowOrphaned ==
  ASSUME NEW S, NEW O, NEW K, NEW B, NEW s \in [status : S, owner : O, count : K, ext : B],
         NEW o \in O,
         NEW u, u = [s EXCEPT !.owner = o]
  PROVE  /\ u \in [status : S, owner : O, count : K, ext : B]
         /\ u.owner = o
         /\ u.status = s.status /\ u.count = s.count /\ u.ext = s.ext
<1>1. u \in [status : S, owner : O, count : K, ext : B]
  BY SMT
<1>2. u.status = s.status
  BY RowParts, SMT
<1>3. u.owner = o
  BY RowParts, SMT
<1>4. u.count = s.count
  BY RowParts, SMT
<1>5. u.ext = s.ext
  BY RowParts, SMT
<1> QED
  BY <1>1, <1>2, <1>3, <1>4, <1>5

LEMMA RowDetached ==
  ASSUME NEW S, NEW O, NEW K, NEW B, NEW s \in [status : S, owner : O, count : K, ext : B],
         NEW b \in B,
         NEW u, u = [s EXCEPT !.ext = b]
  PROVE  /\ u \in [status : S, owner : O, count : K, ext : B]
         /\ u.ext = b
         /\ u.status = s.status /\ u.owner = s.owner /\ u.count = s.count
<1>1. u \in [status : S, owner : O, count : K, ext : B]
  BY SMT
<1>2. u.status = s.status
  BY RowParts, SMT
<1>3. u.owner = s.owner
  BY RowParts, SMT
<1>4. u.count = s.count
  BY RowParts, SMT
<1>5. u.ext = b
  BY RowParts, SMT
<1> QED
  BY <1>1, <1>2, <1>3, <1>4, <1>5

LEMMA ExtMade ==
  ASSUME NEW S, NEW O, NEW K,
         NEW x \in S, NEW o \in O, NEW k \in K
  PROVE  [status |-> x, owner |-> o, print |-> k] \in [status : S, owner : O, print : K]
BY Zenon

LEMMA ExtParts ==
  ASSUME NEW S, NEW O, NEW K, NEW s \in [status : S, owner : O, print : K]
  PROVE  /\ s.status \in S /\ s.owner \in O /\ s.print \in K
         /\ DOMAIN s = {"status", "owner", "print"}
<1>1. DOMAIN s = {"status", "owner", "print"}
  BY Zenon
<1>2. s.status \in S
  BY Zenon
<1>3. s.owner \in O
  BY Zenon
<1>4. s.print \in K
  BY Zenon
<1> QED
  BY <1>1, <1>2, <1>3, <1>4

LEMMA ExtMoved ==
  ASSUME NEW S, NEW O, NEW K, NEW s \in [status : S, owner : O, print : K],
         NEW x \in S,
         NEW u, u = [s EXCEPT !.status = x]
  PROVE  /\ u \in [status : S, owner : O, print : K]
         /\ u.status = x
         /\ u.owner = s.owner /\ u.print = s.print
<1>1. u \in [status : S, owner : O, print : K]
  BY SMT
<1>2. u.status = x
  BY ExtParts, SMT
<1>3. u.owner = s.owner
  BY ExtParts, SMT
<1>4. u.print = s.print
  BY ExtParts, SMT
<1> QED
  BY <1>1, <1>2, <1>3, <1>4

LEMMA ExtRebound ==
  ASSUME NEW S, NEW O, NEW K, NEW s \in [status : S, owner : O, print : K],
         NEW x \in S, NEW k \in K,
         NEW u, u = [s EXCEPT !.status = x, !.print = k]
  PROVE  /\ u \in [status : S, owner : O, print : K]
         /\ u.status = x /\ u.print = k
         /\ u.owner = s.owner
<1> DEFINE d1 == [s EXCEPT !.status = x]
<1>1. u \in [status : S, owner : O, print : K]
  <2>1. u = [d1 EXCEPT !.print = k]
    BY ExtParts, SMT DEF d1
  <2>2. d1 \in [status : S, owner : O, print : K]
    BY SMT
  <2> HIDE DEF d1
  <2>3. [d1 EXCEPT !.print = k] \in [status : S, owner : O, print : K]
    BY <2>2, SMT
  <2> QED
    BY <2>1, <2>3, Zenon
<1>2. u.status = x
  BY ExtParts, SMT
<1>3. u.owner = s.owner
  BY ExtParts, SMT
<1>4. u.print = k
  BY ExtParts, SMT
<1> QED
  BY <1>1, <1>2, <1>3, <1>4

LEMMA ExtOrphaned ==
  ASSUME NEW S, NEW O, NEW K, NEW s \in [status : S, owner : O, print : K],
         NEW o \in O,
         NEW u, u = [s EXCEPT !.owner = o]
  PROVE  /\ u \in [status : S, owner : O, print : K]
         /\ u.owner = o
         /\ u.status = s.status /\ u.print = s.print
<1>1. u \in [status : S, owner : O, print : K]
  BY SMT
<1>2. u.status = s.status
  BY ExtParts, SMT
<1>3. u.owner = o
  BY ExtParts, SMT
<1>4. u.print = s.print
  BY ExtParts, SMT
<1> QED
  BY <1>1, <1>2, <1>3, <1>4

-----------------------------------------------------------------------------
(* What the steps do to sweeps, rows and extractions.                      *)
LEMMA SweepPut ==
  ASSUME FileTypes, NEW w \in Callers, NEW u \in Sweeps, sweep' = [sweep EXCEPT ![w] = u]
  PROVE  /\ sweep' \in [Callers -> Sweeps]
         /\ sweep'[w] = u
         /\ \A v \in Callers \ {w} : sweep'[v] = sweep[v]
BY SMT DEF FileTypes

LEMMA SweepFacts ==
  ASSUME FileTypes, NEW w \in Callers
  PROVE  /\ sweep[w] \in Sweeps
         /\ sweep[w].pc \in SweepPcs /\ sweep[w].todo \in SUBSET Files
         /\ sweep[w].file \in Files \cup {None} /\ sweep[w].attempt \in 0 .. MaxClaims
         /\ sweep[w].bad \in BOOLEAN
<1>1. sweep[w] \in Sweeps
  BY SMT DEF FileTypes
<1> QED
  BY <1>1, SweepParts, Zenon DEF Sweeps

LEMMA RowFacts ==
  ASSUME FileTypes, NEW f \in Files, row[f] # None
  PROVE  /\ row[f] \in Resources
         /\ row[f].status \in Unresolved \cup {"succeeded"} /\ row[f].owner \in Profiles \cup {None}
         /\ row[f].count \in 0 .. MaxClaims /\ row[f].ext \in BOOLEAN
<1>1. row[f] \in Resources
  BY SMT DEF FileTypes
<1> QED
  BY <1>1, RowParts, Zenon DEF Resources

LEMMA PrepFacts ==
  ASSUME FileTypes
  PROVE  /\ prep.pc \in PrepPcs /\ prep.profile \in Profiles \cup {None}
         /\ prep.key \in Keys /\ prep.file \in Files \cup {None}
<1>1. prep \in Preps
  BY DEF FileTypes
<1> QED
  BY <1>1, PrepParts, Zenon DEF Preps

LEMMA SweepAtRest ==
  /\ AtRest \in Sweeps
  /\ AtRest.pc = "idle" /\ AtRest.todo = {} /\ AtRest.file = None /\ AtRest.attempt = 0
<1>1. /\ "idle" \in SweepPcs /\ {} \in SUBSET Files /\ None \in Files \cup {None}
      /\ 0 \in 0 .. MaxClaims /\ FALSE \in BOOLEAN
  BY BoundAssumption, SMT DEF SweepPcs
<1>2. AtRest \in Sweeps
  BY <1>1, SweepMade, Zenon DEF AtRest, Sweeps
<1> QED
  BY <1>2, Zenon DEF AtRest

LEMMA SweepBegins ==
  ASSUME NEW files \in SUBSET Files
  PROVE  Sweeping(files) \in Sweeps /\ Sweeping(files).pc = "recover" /\ Sweeping(files).todo = files
<1> DEFINE d == [AtRest EXCEPT !.pc = "recover"]
           u == [d EXCEPT !.todo = files]
<1>1. "recover" \in SweepPcs
  BY DEF SweepPcs
<1>2. d \in Sweeps /\ d.pc = "recover"
  BY <1>1, SweepAtRest, SweepMoved, Zenon DEF Sweeps
<1>3. Sweeping(files) = u
  BY SweepAtRest, SweepParts, SMT DEF Sweeping, Sweeps
<1> HIDE DEF d
<1>4. u \in Sweeps /\ u.pc = d.pc /\ u.todo = files
  BY <1>2, SweepSkips, Zenon DEF Sweeps
<1> QED
  BY <1>2, <1>3, <1>4, Zenon

LEMMA SweepRaises ==
  LET u == [AtRest EXCEPT !.pc = "raised", !.bad = TRUE]
  IN  u \in Sweeps /\ u.pc = "raised" /\ u.todo = {}
<1> DEFINE u == [AtRest EXCEPT !.pc = "raised", !.bad = TRUE]
<1>1. "raised" \in SweepPcs /\ {} \in SUBSET Files /\ None \in Files \cup {None} /\ 0 \in 0 .. MaxClaims
  BY BoundAssumption, SMT DEF SweepPcs
<1>2. TRUE \in BOOLEAN
  OBVIOUS
<1>3. u \in Sweeps /\ u.pc = "raised" /\ u.todo = {}
  BY <1>1, <1>2, SweepAtRest, SweepFails, Zenon DEF Sweeps
<1> QED
  BY <1>3

LEMMA SweepGoesOn ==
  ASSUME FileTypes, NEW w \in Callers, NEW b
  PROVE  /\ Continued(w, b) \in Sweeps
         /\ Continued(w, b).pc = "next" /\ Continued(w, b).todo = sweep[w].todo
<1> DEFINE B == BOOLEAN
           c == sweep[w].bad \/ b
<1>1. "next" \in SweepPcs /\ None \in Files \cup {None} /\ 0 \in 0 .. MaxClaims
  BY BoundAssumption, SMT DEF SweepPcs
<1>2. c \in B
  BY Zenon
<1>3. Continued(w, b) = [sweep[w] EXCEPT !.pc = "next", !.file = None, !.attempt = 0, !.bad = c]
  BY Zenon DEF Continued
<1>4. sweep[w] \in [pc : SweepPcs, todo : SUBSET Files, file : Files \cup {None},
                    attempt : 0 .. MaxClaims, bad : B]
  BY SweepFacts DEF Sweeps
<1> HIDE DEF B, c
<1> DEFINE u == Continued(w, b)
           s == sweep[w]
<1>5. u = [s EXCEPT !.pc = "next", !.file = None, !.attempt = 0, !.bad = c]
  BY <1>3
<1>6. s \in [pc : SweepPcs, todo : SUBSET Files, file : Files \cup {None},
             attempt : 0 .. MaxClaims, bad : B]
  BY <1>4
<1> HIDE DEF u, s
<1>7. /\ u \in [pc : SweepPcs, todo : SUBSET Files, file : Files \cup {None},
                attempt : 0 .. MaxClaims, bad : B]
      /\ u.pc = "next" /\ u.todo = s.todo
  BY <1>1, <1>2, <1>5, <1>6, SweepContinues, Zenon
<1> QED
  BY <1>7 DEF Sweeps, B, u, s

-----------------------------------------------------------------------------
(* Steps that change nothing of a file: a sweep ends its turn or is begun, *)
(* a row changes its owner, the extraction goes on.                        *)
SameRows ==
  \A f \in Files : /\ row'[f] = None <=> row[f] = None
                   /\ row[f] # None => row'[f].status = row[f].status /\ row'[f].count = row[f].count
Rests(w) == sweep'[w].pc \in Passive /\ \A f \in sweep'[w].todo : row[f] # None
Uploading == {"storing", "tracking", "compensating"}

LEMMA QuietStep ==
  ASSUME RecordsAreSound, FileTypes', UNCHANGED <<vault, atProvider, uploader, confirmed>>,
         SameRows, \A w \in Callers : sweep'[w] = sweep[w] \/ Rests(w),
         prep' = prep \/ prep'.pc \notin Uploading
  PROVE  RecordsAreSound'
<1> USE DEF RecordsAreSound, FilesAreSound, Rests, SameRows, Passive, Claiming, Ending
<1>0. FileTypes
  OBVIOUS
<1>1. \A w \in Callers : sweep'[w] = sweep[w] \/ sweep'[w].pc \notin Claiming \cup Ending
  BY SMT
<1>2. \A w \in Callers : sweep[w].todo \subseteq Files /\ sweep'[w].todo \subseteq Files
  <2>1. \A w \in Callers : sweep[w] \in Sweeps /\ sweep'[w] \in Sweeps
    BY SMT DEF FileTypes
  <2> QED
    BY <2>1, SweepParts, Zenon DEF Sweeps
<1>3. UploadsAreSound'
  BY SMT DEF UploadsAreSound, Uploading
<1>4. ClaimsAreSound'
  BY <1>1, <1>2, SMT DEF ClaimsAreSound, Active
<1>5. \A f \in Files : Settled(f) => Settled(f)'
  BY <1>1, SMT DEF Settled, Active
<1>6. MarkersAreSound'
  BY <1>1, <1>5, SMT DEF MarkersAreSound, ClaimsAreSound
<1>7. ConfirmedIsSettled'
  BY <1>0, <1>1, SMT DEF ConfirmedIsSettled, FileTypes, Active
<1>8. Trusted => GoneIsGone' /\ TrackedUntilDeleted'
  BY <1>0, <1>1, SMT DEF GoneIsGone, TrackedUntilDeleted, FileTypes
<1> QED
  BY <1>3, <1>4, <1>6, <1>7, <1>8 DEF Trusted

-----------------------------------------------------------------------------
(* The steps of a sweep. *)
SweepsStay(w) == \A v \in Callers \ {w} : sweep'[v] = sweep[v]

LEMMA SweepTurns ==
  ASSUME FileTypes, NEW w \in Callers, NEW x \in SweepPcs, sweep' = [sweep EXCEPT ![w].pc = x]
  PROVE  /\ sweep' \in [Callers -> Sweeps]
         /\ sweep'[w].pc = x
         /\ sweep'[w].todo = sweep[w].todo /\ sweep'[w].file = sweep[w].file
         /\ sweep'[w].attempt = sweep[w].attempt
         /\ SweepsStay(w)
<1> DEFINE B == BOOLEAN
           u == [sweep[w] EXCEPT !.pc = x]
<1>1. sweep[w] \in [pc : SweepPcs, todo : SUBSET Files, file : Files \cup {None},
                    attempt : 0 .. MaxClaims, bad : B]
  BY SweepFacts DEF Sweeps
<1> HIDE DEF B
<1>2. /\ u \in [pc : SweepPcs, todo : SUBSET Files, file : Files \cup {None},
                attempt : 0 .. MaxClaims, bad : B]
      /\ u.pc = x /\ u.todo = sweep[w].todo /\ u.file = sweep[w].file /\ u.attempt = sweep[w].attempt
  BY <1>1, SweepMoved, Zenon
<1>3. u \in Sweeps
  BY <1>2 DEF Sweeps, B
<1>4. sweep' = [sweep EXCEPT ![w] = u]
  BY SMT DEF FileTypes
<1> HIDE DEF u
<1>5. sweep' \in [Callers -> Sweeps] /\ sweep'[w] = u /\ SweepsStay(w)
  BY <1>3, <1>4, SweepPut DEF SweepsStay
<1> QED
  BY <1>2, <1>5, Zenon

LEMMA SweepGoesNext ==
  ASSUME FileTypes, ClaimsAreSound, NEW w \in Callers, NEW b, sweep' = [sweep EXCEPT ![w] = Continued(w, b)]
  PROVE  /\ sweep' \in [Callers -> Sweeps]
         /\ Rests(w) /\ SweepsStay(w)
<1>1. /\ Continued(w, b) \in Sweeps
      /\ Continued(w, b).pc = "next" /\ Continued(w, b).todo = sweep[w].todo
  BY SweepGoesOn
<1>2. sweep' \in [Callers -> Sweeps] /\ sweep'[w] = Continued(w, b) /\ SweepsStay(w)
  BY <1>1, SweepPut DEF SweepsStay
<1>3. \A f \in sweep[w].todo : row[f] # None
  BY Zenon DEF ClaimsAreSound
<1> QED
  BY <1>1, <1>2, <1>3, Zenon DEF Rests, Passive

LEMMA RowStatus ==
  ASSUME FileTypes, NEW f \in Files, row[f] # None, NEW x \in Unresolved \cup {"succeeded"},
         row' = [row EXCEPT ![f].status = x]
  PROVE  /\ row' \in [Files -> Resources \cup {None}]
         /\ row'[f] # None /\ row'[f].status = x /\ row'[f].count = row[f].count
         /\ \A g \in Files \ {f} : row'[g] = row[g]
<1> DEFINE B == BOOLEAN
           u == [row[f] EXCEPT !.status = x]
<1>1. row[f] \in [status : Unresolved \cup {"succeeded"}, owner : Profiles \cup {None}, count : 0 .. MaxClaims, ext : B]
  BY RowFacts DEF Resources
<1> HIDE DEF B
<1>2. /\ u \in [status : Unresolved \cup {"succeeded"}, owner : Profiles \cup {None}, count : 0 .. MaxClaims, ext : B]
      /\ u.status = x /\ u.count = row[f].count
  BY <1>1, RowMoved, Zenon
<1>3. u \in Resources
  BY <1>2 DEF Resources, B
<1>4. row' = [row EXCEPT ![f] = u]
  BY SMT DEF FileTypes
<1> HIDE DEF u
<1>5. row' \in [Files -> Resources \cup {None}] /\ row'[f] = u /\ \A g \in Files \ {f} : row'[g] = row[g]
  BY <1>3, <1>4, SMT DEF FileTypes
<1> QED
  BY <1>2, <1>3, <1>5, RowAssumption, Zenon

LEMMA FindMarkerRecords ==
  ASSUME RecordsAreSound, NEW w \in Callers, FindMarker(w)
  PROVE  RecordsAreSound'
<1> USE DEF RecordsAreSound, FilesAreSound
<1>1. PICK f \in sweep[w].todo :
        /\ row[f].status = "cleaning" /\ vault[f] = "marker"
        /\ sweep' = [sweep EXCEPT ![w] = [sweep[w] EXCEPT !.pc = "adopting", !.file = f, !.attempt = row[f].count]]
  BY Zenon DEF FindMarker
<1>2. UNCHANGED <<store, remote, prep, bounds>>
  BY DEF FindMarker
<1>3. f \in Files /\ row[f] # None /\ row[f].count \in 0 .. MaxClaims
  BY <1>1, SweepFacts, RowFacts, Zenon DEF ClaimsAreSound
<1> DEFINE B == BOOLEAN
           u == [sweep[w] EXCEPT !.pc = "adopting", !.file = f, !.attempt = row[f].count]
<1>4. sweep[w] \in [pc : SweepPcs, todo : SUBSET Files, file : Files \cup {None},
                    attempt : 0 .. MaxClaims, bad : B]
  BY SweepFacts DEF Sweeps
<1>5. "adopting" \in SweepPcs /\ f \in Files \cup {None}
  BY <1>3 DEF SweepPcs
<1> HIDE DEF B
<1>6. /\ u \in [pc : SweepPcs, todo : SUBSET Files, file : Files \cup {None},
                attempt : 0 .. MaxClaims, bad : B]
      /\ u.pc = "adopting" /\ u.file = f /\ u.todo = sweep[w].todo
  BY <1>3, <1>4, <1>5, SweepAdopts, Zenon
<1>7. u \in Sweeps
  BY <1>6 DEF Sweeps, B
<1>8. sweep' \in [Callers -> Sweeps] /\ sweep'[w] = u /\ SweepsStay(w)
  BY <1>1, <1>7, SweepPut DEF SweepsStay
<1> HIDE DEF u
<1>9. sweep'[w].pc = "adopting" /\ sweep'[w].file = f /\ sweep'[w].todo = sweep[w].todo
  BY <1>6, <1>8, Zenon
<1>10. FileTypes'
  BY <1>2, <1>8, SMT DEF FileTypes, store, remote, bounds
<1>11. UNCHANGED <<row, vault, atProvider, uploader, confirmed, prep>>
  BY <1>2, SMT DEF store, remote
<1>12. UploadsAreSound'
  BY <1>11, SMT DEF UploadsAreSound
<1>13. ClaimsAreSound'
  BY <1>3, <1>8, <1>9, <1>11, SMT DEF ClaimsAreSound, Active, SweepsStay, Claiming, Ending
<1>14. \A g \in Files : Settled(g) => Settled(g)'
  BY <1>8, <1>9, <1>11, SMT DEF Settled, Active, SweepsStay, Claiming
<1>15. MarkersAreSound'
  BY <1>1, <1>3, <1>8, <1>9, <1>11, <1>14, SMT DEF MarkersAreSound, ClaimsAreSound, SweepsStay, Claiming, Ending
<1>16. ConfirmedIsSettled'
  BY <1>8, <1>9, <1>11, SMT DEF ConfirmedIsSettled, FileTypes, Active, SweepsStay, Claiming
<1>17. Trusted => GoneIsGone' /\ TrackedUntilDeleted'
  BY <1>1, <1>3, <1>8, <1>9, <1>11, SMT DEF GoneIsGone, TrackedUntilDeleted, SweepsStay, Ending
<1> QED
  BY <1>10, <1>12, <1>13, <1>15, <1>16, <1>17 DEF Trusted

LEMMA BeginCleanupRecords ==
  ASSUME RecordsAreSound, NEW w \in Callers, BeginCleanup(w)
  PROVE  RecordsAreSound'
<1> USE DEF RecordsAreSound, FilesAreSound
<1>1. "next" \in SweepPcs /\ sweep' = [sweep EXCEPT ![w].pc = "next"]
      /\ UNCHANGED <<store, remote, prep, bounds>>
  BY Zenon DEF BeginCleanup, SweepPcs
<1>2. /\ sweep' \in [Callers -> Sweeps] /\ sweep'[w].pc = "next" /\ sweep'[w].todo = sweep[w].todo
      /\ SweepsStay(w)
  BY <1>1, SweepTurns
<1>3. FileTypes'
  BY <1>1, <1>2, SMT DEF FileTypes, store, remote, bounds
<1>4. \A v \in Callers : sweep'[v] = sweep[v] \/ Rests(v)
  BY <1>2, SMT DEF SweepsStay, Rests, Passive, ClaimsAreSound
<1> QED
  BY <1>1, <1>3, <1>4, QuietStep, SMT DEF SameRows, store, remote

LEMMA SkipClaimedRecords ==
  ASSUME RecordsAreSound, NEW w \in Callers, NEW f \in Files, SkipClaimed(w, f)
  PROVE  RecordsAreSound'
<1> USE DEF RecordsAreSound, FilesAreSound
<1> DEFINE B == BOOLEAN
           t == sweep[w].todo \ {f}
           u == [sweep[w] EXCEPT !.todo = t]
<1>1. /\ sweep' = [sweep EXCEPT ![w] = u] /\ sweep[w].pc = "next"
      /\ UNCHANGED <<store, remote, prep, bounds>>
  BY SMT DEF SkipClaimed, FileTypes
<1>2. sweep[w] \in [pc : SweepPcs, todo : SUBSET Files, file : Files \cup {None},
                    attempt : 0 .. MaxClaims, bad : B]
  BY SweepFacts DEF Sweeps
<1>3. t \in SUBSET Files /\ \A g \in t : row[g] # None
  BY SweepFacts, SMT DEF ClaimsAreSound
<1> HIDE DEF B, t
<1>4. /\ u \in [pc : SweepPcs, todo : SUBSET Files, file : Files \cup {None},
                attempt : 0 .. MaxClaims, bad : B]
      /\ u.pc = sweep[w].pc /\ u.todo = t
  BY <1>2, <1>3, SweepSkips, Zenon
<1>5. u \in Sweeps
  BY <1>4 DEF Sweeps, B
<1> HIDE DEF u
<1>6. sweep' \in [Callers -> Sweeps] /\ sweep'[w] = u /\ SweepsStay(w)
  BY <1>1, <1>5, SweepPut DEF SweepsStay
<1>7. FileTypes'
  BY <1>1, <1>6, SMT DEF FileTypes, store, remote, bounds
<1>8. Rests(w)
  BY <1>1, <1>3, <1>4, <1>6, Zenon DEF Rests, Passive
<1>9. \A v \in Callers : sweep'[v] = sweep[v] \/ Rests(v)
  BY <1>6, <1>8, Zenon DEF SweepsStay
<1> QED
  BY <1>1, <1>7, <1>9, QuietStep, SMT DEF SameRows, store, remote

LEMMA ClaimRecords ==
  ASSUME RecordsAreSound, NEW w \in Callers, NEW f \in Files, Claim(w, f)
  PROVE  RecordsAreSound'
<1> USE DEF RecordsAreSound, FilesAreSound
<1> DEFINE B == BOOLEAN
           t == sweep[w].todo \ {f}
           k == row[f].count + 1
           x == IF row[f].count >= MAX_CLEANUP_ATTEMPTS THEN "failing" ELSE "claimed"
           u == [sweep[w] EXCEPT !.file = f, !.todo = t, !.attempt = k, !.pc = x]
           c == "cleaning"
           r == [row[f] EXCEPT !.status = c, !.count = k]
<1>1. /\ sweep[w].pc = "next" /\ f \in sweep[w].todo
      /\ row[f].status \in Sweepable /\ row[f].count < MaxClaims
      /\ UNCHANGED <<validated, secret, book, ext, vault, remote, prep, bounds>>
  BY SMT DEF Claim
<1>2. row' = [row EXCEPT ![f] = r] /\ sweep' = [sweep EXCEPT ![w] = u]
  <2>1. row' = [row EXCEPT ![f] = r]
    BY Zenon DEF Claim
  <2>2. sweep' = [sweep EXCEPT ![w] = u]
    BY Zenon DEF Claim
  <2> QED
    BY <2>1, <2>2
<1>3. row[f] # None
  BY <1>1, Zenon DEF ClaimsAreSound
<1>4. row[f].count \in 0 .. MaxClaims
  BY <1>3, RowFacts
<1>5. /\ k \in 0 .. MaxClaims /\ x \in {"failing", "claimed"} /\ x \in SweepPcs /\ f \in Files \cup {None}
      /\ c \in Unresolved \cup {"succeeded"}
  BY <1>1, <1>4, BoundAssumption, SMT DEF SweepPcs, Unresolved
<1>6. t \in SUBSET Files /\ t \subseteq sweep[w].todo
  BY SweepFacts, SMT
<1>7. sweep[w] \in [pc : SweepPcs, todo : SUBSET Files, file : Files \cup {None},
                    attempt : 0 .. MaxClaims, bad : B]
  BY SweepFacts DEF Sweeps
<1>8. row[f] \in [status : Unresolved \cup {"succeeded"}, owner : Profiles \cup {None}, count : 0 .. MaxClaims, ext : B]
  BY <1>3, RowFacts DEF Resources
<1> HIDE DEF B, t, k, x, c
<1>9. /\ u \in [pc : SweepPcs, todo : SUBSET Files, file : Files \cup {None},
                attempt : 0 .. MaxClaims, bad : B]
      /\ u.pc = x /\ u.todo = t /\ u.file = f /\ u.attempt = k
  BY <1>5, <1>6, <1>7, SweepClaims, Zenon
<1>10. u \in Sweeps
  BY <1>9 DEF Sweeps, B
<1>11. /\ r \in [status : Unresolved \cup {"succeeded"}, owner : Profiles \cup {None}, count : 0 .. MaxClaims, ext : B]
       /\ r.status = c /\ r.count = k
  BY <1>5, <1>8, RowClaimed, Zenon
<1>12. r \in Resources /\ r # None
  BY <1>11, RowAssumption DEF Resources, B
<1> HIDE DEF u, r
<1>13. sweep' \in [Callers -> Sweeps] /\ sweep'[w] = u /\ SweepsStay(w)
  BY <1>2, <1>10, SweepPut DEF SweepsStay
<1>14. row' \in [Files -> Resources \cup {None}] /\ row'[f] = r /\ \A g \in Files \ {f} : row'[g] = row[g]
  BY <1>2, <1>12, SMT DEF FileTypes
<1>15. FileTypes'
  BY <1>1, <1>13, <1>14, SMT DEF FileTypes, remote, bounds
<1>16. UNCHANGED <<vault, atProvider, uploader, confirmed, prep>>
  BY <1>1, SMT DEF remote
<1>17. /\ sweep'[w].pc \in {"failing", "claimed"} /\ sweep'[w].file = f /\ sweep'[w].attempt = k
       /\ sweep'[w].todo \subseteq sweep[w].todo
       /\ row'[f] # None /\ row'[f].status = "cleaning" /\ row'[f].count = k
  BY <1>5, <1>6, <1>9, <1>11, <1>12, <1>13, <1>14, Zenon DEF c
<1>18. \A v \in Callers : sweep[v].todo \subseteq Files
  BY SweepFacts
(* Nobody else has the row. *)
<1>19. row[f].status \notin {"cleaning", "succeeded"} /\ ~Settled(f) /\ \A v \in Callers : ~Active(v, f)
  BY <1>1, SMT DEF Sweepable, Settled, ClaimsAreSound, Active
<1>20. UploadsAreSound'
  BY <1>3, <1>14, <1>16, <1>17, SMT DEF UploadsAreSound
<1>21. ClaimsAreSound'
  <2>1. \A v \in Callers : \A g \in sweep'[v].todo : row'[g] # None
    <3> SUFFICES ASSUME NEW v \in Callers, NEW g \in sweep'[v].todo PROVE row'[g] # None
      OBVIOUS
    <3>1. g \in sweep[v].todo
      BY <1>13, <1>17, Zenon DEF SweepsStay
    <3>2. g \in Files /\ row[g] # None
      BY <1>18, <3>1, Zenon DEF ClaimsAreSound
    <3> QED
      BY <1>14, <1>17, <3>2, Zenon
  <2>2. \A v \in Callers : sweep'[v].pc \in Claiming \cup Ending =>
          sweep'[v].file \in Files /\ row'[sweep'[v].file] # None
    BY <1>13, <1>14, <1>17, SMT DEF ClaimsAreSound, SweepsStay, Claiming, Ending
  <2>3. \A v \in Callers : sweep'[v].pc \in Claiming =>
          row'[sweep'[v].file].status = "cleaning" /\ row'[sweep'[v].file].count = sweep'[v].attempt
    BY <1>13, <1>14, <1>17, <1>19, SMT DEF ClaimsAreSound, SweepsStay, Claiming, Active
  <2>4. \A v, z \in Callers : \A g \in Files : Active(v, g)' /\ Active(z, g)' => v = z
    BY <1>13, <1>17, <1>19, SMT DEF ClaimsAreSound, SweepsStay, Claiming, Active
  <2> QED
    BY <2>1, <2>2, <2>3, <2>4, Zenon DEF ClaimsAreSound, Active
<1>22. \A g \in Files : Settled(g) => Settled(g)'
  BY <1>13, <1>14, <1>17, <1>19, SMT DEF Settled, Active, SweepsStay
<1>23. MarkersAreSound'
  BY <1>13, <1>16, <1>17, <1>22, SMT DEF MarkersAreSound, ClaimsAreSound, SweepsStay, Claiming, Ending
<1>24. f \notin confirmed
  BY <1>3, <1>19, Zenon DEF ConfirmedIsSettled
<1>25. ConfirmedIsSettled'
  BY <1>13, <1>14, <1>16, <1>17, <1>24, SMT DEF ConfirmedIsSettled, FileTypes, Active, SweepsStay
<1>26. Trusted => GoneIsGone' /\ TrackedUntilDeleted'
  BY <1>13, <1>14, <1>16, <1>17, <1>3, SMT
     DEF GoneIsGone, TrackedUntilDeleted, SweepsStay, Ending, FileTypes, Unresolved
<1> QED
  BY <1>15, <1>20, <1>21, <1>23, <1>25, <1>26 DEF Trusted

LEMMA LoadHandleRecords ==
  ASSUME RecordsAreSound, NEW w \in Callers, LoadHandle(w)
  PROVE  RecordsAreSound'
<1> USE DEF RecordsAreSound, FilesAreSound
<1> DEFINE f == sweep[w].file
<1>1. sweep[w].pc = "claimed" /\ UNCHANGED <<store, remote, prep, bounds>>
  BY DEF LoadHandle
<1>2. f \in Files /\ row[f] # None /\ Active(w, f)
  BY <1>1, SMT DEF ClaimsAreSound, Claiming, Active
<1>3. vault[f] # "marker"
  BY <1>2, Zenon DEF MarkersAreSound, Settled
<1>4. PICK x \in {"failing", "deleting"} : sweep' = [sweep EXCEPT ![w].pc = x]
  <2> DEFINE ready == row[f].owner # None /\ vault[f] # "none"
             y == IF ~ready THEN "failing" ELSE IF vault[f] = "marker" THEN "marking" ELSE "deleting"
  <2>1. sweep' = [sweep EXCEPT ![w].pc = y]
    BY Zenon DEF LoadHandle
  <2>2. y \in {"failing", "deleting"}
    BY <1>3, Zenon
  <2> HIDE DEF y
  <2> QED
    BY <2>1, <2>2, Zenon
<1>5. x \in SweepPcs
  BY DEF SweepPcs
<1>6. /\ sweep' \in [Callers -> Sweeps] /\ sweep'[w].pc = x /\ sweep'[w].file = f
      /\ sweep'[w].todo = sweep[w].todo /\ sweep'[w].attempt = sweep[w].attempt /\ SweepsStay(w)
  BY <1>4, <1>5, SweepTurns
<1>7. FileTypes'
  BY <1>1, <1>6, SMT DEF FileTypes, store, remote, bounds
<1>8. UNCHANGED <<row, vault, atProvider, uploader, confirmed, prep>>
  BY <1>1, SMT DEF store, remote
<1>9. UploadsAreSound'
  BY <1>8, SMT DEF UploadsAreSound
<1>10. ClaimsAreSound'
  BY <1>1, <1>6, <1>8, SMT DEF ClaimsAreSound, Active, SweepsStay, Claiming, Ending
<1>11. \A g \in Files : Settled(g) => Settled(g)'
  BY <1>1, <1>6, <1>8, SMT DEF Settled, Active, SweepsStay, Claiming
<1>12. MarkersAreSound'
  BY <1>6, <1>8, <1>11, SMT DEF MarkersAreSound, ClaimsAreSound, SweepsStay, Claiming, Ending
<1>13. f \notin confirmed
  BY <1>1, <1>2, SMT DEF ConfirmedIsSettled
<1>14. ConfirmedIsSettled'
  BY <1>6, <1>8, <1>13, SMT DEF ConfirmedIsSettled, FileTypes, Active, SweepsStay, Claiming
<1>15. Trusted => GoneIsGone' /\ TrackedUntilDeleted'
  BY <1>6, <1>8, SMT DEF GoneIsGone, TrackedUntilDeleted, SweepsStay, Ending
<1> QED
  BY <1>7, <1>9, <1>10, <1>12, <1>14, <1>15 DEF Trusted

LEMMA DeleteRemoteRecords ==
  ASSUME RecordsAreSound, NEW w \in Callers, DeleteRemote(w)
  PROVE  RecordsAreSound'
<1> USE DEF RecordsAreSound, FilesAreSound
<1> DEFINE f == sweep[w].file
<1>1. sweep[w].pc = "deleting" /\ UNCHANGED <<store, uploader, prep, bounds>>
  BY DEF DeleteRemote
<1>2. f \in Files /\ row[f] # None /\ Active(w, f) /\ row[f].status = "cleaning"
  BY <1>1, SMT DEF ClaimsAreSound, Claiming, Active
<1>3. f \notin confirmed
  BY <1>1, <1>2, SMT DEF ConfirmedIsSettled
<1>4. PICK x \in {"failing", "deleted"} :
        /\ sweep' = [sweep EXCEPT ![w].pc = x]
        /\ atProvider' \subseteq atProvider
        /\ confirmed' \subseteq confirmed \cup {f}
        /\ f \in confirmed' => x = "deleted"
        /\ x = "deleted" /\ Trusted => f \notin atProvider'
  <2>1. CASE /\ sweep' = [sweep EXCEPT ![w].pc = "failing"]
             /\ UNCHANGED <<atProvider, confirmed>>
    BY <1>3, <2>1, SMT
  <2>2. ASSUME NEW ok \in BOOLEAN, Answered(row[f].owner, f, ok),
               sweep' = [sweep EXCEPT ![w].pc = IF ok THEN "deleted" ELSE "failing"]
        PROVE  \E x \in {"failing", "deleted"} :
                 /\ sweep' = [sweep EXCEPT ![w].pc = x]
                 /\ atProvider' \subseteq atProvider
                 /\ confirmed' \subseteq confirmed \cup {f}
                 /\ f \in confirmed' => x = "deleted"
                 /\ x = "deleted" /\ Trusted => f \notin atProvider'
    <3>1. CASE ok /\ atProvider' = atProvider \ {f} /\ confirmed' = confirmed \cup {f}
      BY <2>2, <3>1, SMT
    <3>2. CASE ~ok /\ atProvider' \in {atProvider, atProvider \ {f}} /\ UNCHANGED confirmed
      BY <1>3, <2>2, <3>2, SMT
    <3>3. CASE /\ (IF ok THEN "missing" ELSE "refused") \in ForeignAnswers
               /\ UNCHANGED <<atProvider, confirmed>>
      <4>1. CASE ok
        <5>1. ~Trusted /\ sweep' = [sweep EXCEPT ![w].pc = "deleted"]
          BY <2>2, <3>3, <4>1, Zenon DEF Trusted
        <5> QED
          BY <1>3, <3>3, <5>1, SMT
      <4>2. CASE ~ok
        <5>1. sweep' = [sweep EXCEPT ![w].pc = "failing"]
          BY <2>2, <4>2, Zenon
        <5> QED
          BY <1>3, <3>3, <5>1, SMT
      <4> QED
        BY <4>1, <4>2
    <3> QED
      BY <2>2, <3>1, <3>2, <3>3, Zenon DEF Answered
  <2> QED
    BY <2>1, <2>2, Zenon DEF DeleteRemote
<1>5. x \in SweepPcs
  BY DEF SweepPcs
<1>6. /\ sweep' \in [Callers -> Sweeps] /\ sweep'[w].pc = x /\ sweep'[w].file = f
      /\ sweep'[w].todo = sweep[w].todo /\ sweep'[w].attempt = sweep[w].attempt /\ SweepsStay(w)
  BY <1>4, <1>5, SweepTurns
<1>7. FileTypes'
  BY <1>1, <1>2, <1>4, <1>6, SMT DEF FileTypes, store, bounds
<1>8. UNCHANGED <<row, vault, uploader, prep>>
  BY <1>1, SMT DEF store
<1>9. \A v \in Callers : Active(v, f) => v = w
  BY <1>2, Zenon DEF ClaimsAreSound
<1>10. UploadsAreSound'
  BY <1>2, <1>4, <1>8, SMT DEF UploadsAreSound
<1>11. ClaimsAreSound'
  BY <1>1, <1>6, <1>8, SMT DEF ClaimsAreSound, Active, SweepsStay, Claiming, Ending
<1>12. \A g \in Files : Settled(g) => Settled(g)'
  BY <1>1, <1>6, <1>8, SMT DEF Settled, Active, SweepsStay, Claiming
<1>13. MarkersAreSound'
  BY <1>6, <1>8, <1>12, SMT DEF MarkersAreSound, ClaimsAreSound, SweepsStay, Claiming, Ending
<1>14. ConfirmedIsSettled'
  <2> SUFFICES ASSUME NEW g \in confirmed', row[g] # None
               PROVE  /\ row[g].status \in {"cleaning", "succeeded"}
                      /\ \A v \in Callers : Active(v, g)' => sweep'[v].pc = "deleted"
    BY <1>8, SMT DEF ConfirmedIsSettled
  <2>1. CASE g = f
    BY <1>2, <1>4, <1>6, <1>9, <2>1, SMT DEF Active, SweepsStay
  <2>2. CASE g # f
    BY <1>4, <1>6, <2>2, SMT DEF ConfirmedIsSettled, Active, SweepsStay
  <2> QED
    BY <2>1, <2>2
<1>15. Trusted => GoneIsGone' /\ TrackedUntilDeleted'
  BY <1>4, <1>6, <1>8, SMT DEF GoneIsGone, TrackedUntilDeleted, SweepsStay, Ending
<1> QED
  BY <1>7, <1>10, <1>11, <1>13, <1>14, <1>15 DEF Trusted

(* A sweep that ends its turn and changes nothing else of a file.          *)
LEMMA TurnEnds ==
  ASSUME RecordsAreSound, NEW w \in Callers, NEW b, sweep' = [sweep EXCEPT ![w] = Continued(w, b)],
         UNCHANGED <<validated, secret, book, ext, row, vault, remote, prep, torn>>, faults' \in 0 .. MaxFaults
  PROVE  RecordsAreSound'
<1> USE DEF RecordsAreSound, FilesAreSound
<1>1. sweep' \in [Callers -> Sweeps] /\ Rests(w) /\ SweepsStay(w)
  BY SweepGoesNext
<1>2. FileTypes'
  BY <1>1, SMT DEF FileTypes, remote
<1>3. \A v \in Callers : sweep'[v] = sweep[v] \/ Rests(v)
  BY <1>1, Zenon DEF SweepsStay
<1> QED
  BY <1>2, <1>3, QuietStep, SMT DEF SameRows, remote

LEMMA FaultsAreCounted ==
  ASSUME FileTypes, Fault \/ faults' = faults
  PROVE  faults' \in 0 .. MaxFaults
BY BoundAssumption, SMT DEF FileTypes, Fault

LEMMA SetMarkerRecords ==
  ASSUME RecordsAreSound, NEW w \in Callers, SetMarker(w)
  PROVE  RecordsAreSound'
<1> USE DEF RecordsAreSound, FilesAreSound
<1> DEFINE f == sweep[w].file
<1>1. sweep[w].pc = "deleted" /\ UNCHANGED <<validated, secret, book, ext, row, remote, prep, torn>>
  BY DEF SetMarker
<1>2. CASE Fault /\ sweep' = [sweep EXCEPT ![w] = Continued(w, TRUE)] /\ UNCHANGED vault
  BY <1>1, <1>2, TurnEnds, FaultsAreCounted, Zenon
<1>3. CASE /\ vault' = [vault EXCEPT ![f] = "marker"]
           /\ sweep' = [sweep EXCEPT ![w].pc = "marking"]
           /\ UNCHANGED faults
  <2>1. f \in Files /\ row[f] # None /\ Active(w, f) /\ row[f].status = "cleaning"
    BY <1>1, SMT DEF ClaimsAreSound, Claiming, Active
  <2>2. "marking" \in SweepPcs
    BY DEF SweepPcs
  <2>3. /\ sweep' \in [Callers -> Sweeps] /\ sweep'[w].pc = "marking" /\ sweep'[w].file = f
        /\ sweep'[w].todo = sweep[w].todo /\ SweepsStay(w)
    BY <1>3, <2>2, SweepTurns
  <2>4. /\ vault' \in [Files -> {"none", "id", "marker"}]
        /\ \A g \in Files \ {f} : vault'[g] = vault[g]
    BY <1>3, <2>1, SMT DEF FileTypes
  <2>5. FileTypes'
    BY <1>1, <1>3, <2>3, <2>4, SMT DEF FileTypes, remote
  <2>6. UNCHANGED <<row, atProvider, uploader, confirmed, prep>>
    BY <1>1, SMT DEF remote
  <2>7. \A v \in Callers : Active(v, f) => v = w
    BY <2>1, Zenon DEF ClaimsAreSound
  <2>8. UploadsAreSound'
    BY <2>1, <2>4, <2>6, SMT DEF UploadsAreSound
  <2>9. ClaimsAreSound'
    BY <1>1, <2>3, <2>6, SMT DEF ClaimsAreSound, Active, SweepsStay, Claiming, Ending
  <2>10. Settled(f)' /\ \A g \in Files : Settled(g) => Settled(g)'
    BY <1>1, <2>1, <2>3, <2>6, <2>7, SMT DEF Settled, Active, SweepsStay, Claiming
  <2>11. MarkersAreSound'
    BY <2>3, <2>4, <2>10, SMT DEF MarkersAreSound, ClaimsAreSound, SweepsStay, Claiming, Ending
  <2>12. ConfirmedIsSettled'
    BY <2>3, <2>6, SMT DEF ConfirmedIsSettled, FileTypes, Active, SweepsStay, Claiming
  <2>13. Trusted => GoneIsGone' /\ TrackedUntilDeleted'
    BY <1>1, <2>3, <2>4, <2>6, SMT DEF GoneIsGone, TrackedUntilDeleted, SweepsStay, Ending, FileTypes
  <2> QED
    BY <2>5, <2>8, <2>9, <2>11, <2>12, <2>13 DEF Trusted
<1> QED
  BY <1>2, <1>3, Zenon DEF SetMarker

LEMMA MarkFailedRecords ==
  ASSUME RecordsAreSound, NEW w \in Callers, MarkFailed(w)
  PROVE  RecordsAreSound'
<1> USE DEF RecordsAreSound, FilesAreSound
<1> DEFINE f == sweep[w].file
<1>1. /\ sweep[w].pc = "failing" /\ sweep' = [sweep EXCEPT ![w] = Continued(w, TRUE)]
      /\ UNCHANGED <<validated, secret, book, ext, vault, remote, prep, torn>>
      /\ Fault \/ faults' = faults
  BY Zenon DEF MarkFailed
<1>2. CASE row' = row
  BY <1>1, <1>2, TurnEnds, FaultsAreCounted, Zenon
<1>3. CASE row' = [row EXCEPT ![f].status = "failed"]
  <2>1. f \in Files /\ row[f] # None /\ Active(w, f) /\ row[f].status = "cleaning"
    BY <1>1, SMT DEF ClaimsAreSound, Claiming, Active
  <2>2. "failed" \in Unresolved \cup {"succeeded"}
    BY DEF Unresolved
  <2>3. /\ row' \in [Files -> Resources \cup {None}]
        /\ row'[f] # None /\ row'[f].status = "failed" /\ row'[f].count = row[f].count
        /\ \A g \in Files \ {f} : row'[g] = row[g]
    BY <1>3, <2>1, <2>2, RowStatus
  <2>4. sweep' \in [Callers -> Sweeps] /\ Rests(w) /\ SweepsStay(w)
    BY <1>1, SweepGoesNext
  <2>5. faults' \in 0 .. MaxFaults
    BY <1>1, FaultsAreCounted
  <2>6. UNCHANGED <<book, ext, vault, atProvider, uploader, confirmed, prep>>
    BY <1>1, Zenon DEF remote
  <2>7. FileTypes'
    BY <2>3, <2>4, <2>5, <2>6, SMT DEF FileTypes
  <2>8. \A v \in Callers : Active(v, f) => v = w
    BY <2>1, Zenon DEF ClaimsAreSound
  <2>9. sweep'[w].pc \notin Claiming \cup Ending
    BY <2>4, SMT DEF Rests, Passive, Claiming, Ending
  <2>10. \A v \in Callers : sweep[v].todo \subseteq Files
    BY SweepFacts
  <2>11. UploadsAreSound'
    BY <2>1, <2>3, <2>6, SMT DEF UploadsAreSound
  <2>12. ClaimsAreSound'
    <3>1. \A v \in Callers : \A g \in sweep'[v].todo : row'[g] # None
      <4> SUFFICES ASSUME NEW v \in Callers, NEW g \in sweep'[v].todo PROVE row'[g] # None
        OBVIOUS
      <4>1. g \in Files
        BY <2>7, SweepFacts, SweepParts, SMT DEF FileTypes, Sweeps
      <4>2. row[g] # None
        BY <2>4, Zenon DEF Rests, SweepsStay, ClaimsAreSound
      <4> QED
        BY <2>3, <4>1, <4>2, Zenon
    <3>2. \A v \in Callers : sweep'[v].pc \in Claiming \cup Ending =>
            sweep'[v].file \in Files /\ row'[sweep'[v].file] # None
      BY <2>3, <2>4, <2>9, SMT DEF ClaimsAreSound, SweepsStay
    <3>3. \A v \in Callers : sweep'[v].pc \in Claiming =>
            row'[sweep'[v].file].status = "cleaning" /\ row'[sweep'[v].file].count = sweep'[v].attempt
      BY <2>3, <2>4, <2>8, <2>9, SMT DEF ClaimsAreSound, SweepsStay, Active
    <3>4. \A v, z \in Callers : \A g \in Files : Active(v, g)' /\ Active(z, g)' => v = z
      BY <2>4, <2>9, SMT DEF ClaimsAreSound, SweepsStay, Active
    <3> QED
      BY <3>1, <3>2, <3>3, <3>4, Zenon DEF ClaimsAreSound, Active
  <2>13. ~Settled(f) /\ \A g \in Files \ {f} : Settled(g) => Settled(g)'
    BY <2>1, <2>3, <2>4, <2>9, SMT DEF Settled, Active, SweepsStay
  <2>14. MarkersAreSound'
    BY <2>4, <2>6, <2>9, <2>13, SMT DEF MarkersAreSound, ClaimsAreSound, SweepsStay
  <2>15. f \notin confirmed
    BY <1>1, <2>1, SMT DEF ConfirmedIsSettled
  <2>16. ConfirmedIsSettled'
    BY <2>3, <2>4, <2>6, <2>9, <2>15, SMT DEF ConfirmedIsSettled, FileTypes, Active, SweepsStay
  <2>17. Trusted => GoneIsGone' /\ TrackedUntilDeleted'
    BY <2>1, <2>3, <2>4, <2>6, <2>9, SMT
       DEF GoneIsGone, TrackedUntilDeleted, SweepsStay, FileTypes, Unresolved, Claiming
  <2> QED
    BY <2>7, <2>11, <2>12, <2>14, <2>16, <2>17 DEF Trusted
<1> QED
  BY <1>2, <1>3, Zenon DEF MarkFailed

LEMMA MarkSucceededRecords ==
  ASSUME RecordsAreSound, NEW w \in Callers, MarkSucceeded(w)
  PROVE  RecordsAreSound'
<1> USE DEF RecordsAreSound, FilesAreSound
<1> DEFINE f == sweep[w].file
           raised == [AtRest EXCEPT !.pc = "raised", !.bad = TRUE]
<1>1. /\ sweep[w].pc \in {"marking", "adopting"}
      /\ UNCHANGED <<validated, secret, book, ext, vault, remote, prep, torn>>
      /\ Fault \/ faults' = faults
  BY Zenon DEF MarkSucceeded
<1>2. CASE row' = row /\ sweep' = [sweep EXCEPT ![w] = Continued(w, TRUE)]
  BY <1>1, <1>2, TurnEnds, FaultsAreCounted, Zenon
<1>3. CASE row' = row /\ sweep' = [sweep EXCEPT ![w] = raised]
  <2>1. raised \in Sweeps /\ raised.pc = "raised" /\ raised.todo = {}
    BY SweepRaises
  <2> HIDE DEF raised
  <2>2. sweep' \in [Callers -> Sweeps] /\ sweep'[w] = raised /\ SweepsStay(w)
    BY <1>3, <2>1, SweepPut DEF SweepsStay
  <2>3. faults' \in 0 .. MaxFaults
    BY <1>1, FaultsAreCounted
  <2>4. FileTypes'
    BY <1>1, <1>3, <2>2, <2>3, SMT DEF FileTypes, remote
  <2>5. \A v \in Callers : sweep'[v] = sweep[v] \/ Rests(v)
    BY <2>1, <2>2, Zenon DEF SweepsStay, Rests, Passive
  <2> QED
    BY <1>1, <1>3, <2>4, <2>5, QuietStep, SMT DEF SameRows, remote
<1>4. CASE /\ row' = [row EXCEPT ![f].status = "succeeded"]
           /\ sweep' = [sweep EXCEPT ![w].pc = IF sweep[w].pc = "marking" THEN "forgetting" ELSE "dropping"]
  <2> DEFINE x == IF sweep[w].pc = "marking" THEN "forgetting" ELSE "dropping"
  <2>1. f \in Files /\ row[f] # None /\ Settled(f)
    BY <1>1, SMT DEF ClaimsAreSound, MarkersAreSound, Ending
  <2>2. x \in SweepPcs /\ x \in {"forgetting", "dropping"} /\ "succeeded" \in Unresolved \cup {"succeeded"}
    BY DEF SweepPcs
  <2> HIDE DEF x
  <2>3. /\ row' \in [Files -> Resources \cup {None}]
        /\ row'[f] # None /\ row'[f].status = "succeeded" /\ row'[f].count = row[f].count
        /\ \A g \in Files \ {f} : row'[g] = row[g]
    BY <1>4, <2>1, <2>2, RowStatus
  <2>4. sweep' = [sweep EXCEPT ![w].pc = x]
    BY <1>4 DEF x
  <2>5. /\ sweep' \in [Callers -> Sweeps] /\ sweep'[w].pc = x /\ sweep'[w].file = f
        /\ sweep'[w].todo = sweep[w].todo /\ SweepsStay(w)
    BY <2>2, <2>4, SweepTurns
  <2>6. faults' \in 0 .. MaxFaults
    BY <1>1, FaultsAreCounted
  <2>7. FileTypes'
    BY <1>1, <2>3, <2>5, <2>6, SMT DEF FileTypes, remote
  <2>8. UNCHANGED <<vault, atProvider, uploader, confirmed, prep>>
    BY <1>1, SMT DEF remote
  <2>9. sweep'[w].pc \notin Claiming /\ sweep'[w].pc # "deleted"
    BY <2>2, <2>5, SMT DEF Claiming
  <2>10. \A v \in Callers : sweep[v].todo \subseteq Files
    BY SweepFacts
  <2>11. UploadsAreSound'
    BY <2>1, <2>3, <2>8, SMT DEF UploadsAreSound
  <2>12. \A v \in Callers : ~Active(v, f)
    BY <2>1 DEF Settled
  <2>13. ClaimsAreSound'
    <3>1. \A v \in Callers : \A g \in sweep'[v].todo : row'[g] # None
      <4> SUFFICES ASSUME NEW v \in Callers, NEW g \in sweep'[v].todo PROVE row'[g] # None
        OBVIOUS
      <4>1. g \in sweep[v].todo
        BY <2>5, Zenon DEF SweepsStay
      <4>2. g \in Files /\ row[g] # None
        BY <2>10, <4>1, Zenon DEF ClaimsAreSound
      <4> QED
        BY <2>3, <4>2, Zenon
    <3>2. \A v \in Callers : sweep'[v].pc \in Claiming \cup Ending =>
            sweep'[v].file \in Files /\ row'[sweep'[v].file] # None
      BY <2>1, <2>3, <2>5, <2>9, SMT DEF ClaimsAreSound, SweepsStay
    <3>3. \A v \in Callers : sweep'[v].pc \in Claiming =>
            row'[sweep'[v].file].status = "cleaning" /\ row'[sweep'[v].file].count = sweep'[v].attempt
      BY <2>3, <2>5, <2>9, <2>12, SMT DEF ClaimsAreSound, SweepsStay, Active
    <3>4. \A v, z \in Callers : \A g \in Files : Active(v, g)' /\ Active(z, g)' => v = z
      BY <2>5, <2>9, SMT DEF ClaimsAreSound, SweepsStay, Active
    <3> QED
      BY <3>1, <3>2, <3>3, <3>4, Zenon DEF ClaimsAreSound, Active
  <2>14. \A g \in Files : Settled(g) => Settled(g)'
    BY <2>3, <2>5, <2>9, SMT DEF Settled, Active, SweepsStay
  <2>15. MarkersAreSound'
    BY <2>1, <2>5, <2>8, <2>14, SMT DEF MarkersAreSound, ClaimsAreSound, SweepsStay, Claiming, Ending
  <2>16. ConfirmedIsSettled'
    <3> SUFFICES ASSUME NEW g \in confirmed, row'[g] # None
                 PROVE  /\ row'[g].status \in {"cleaning", "succeeded"}
                        /\ \A v \in Callers : Active(v, g)' => sweep'[v].pc = "deleted"
      BY <2>8, Zenon DEF ConfirmedIsSettled, Active
    <3>1. g \in Files
      BY SMT DEF FileTypes
    <3>2. CASE g = f
      BY <2>3, <2>5, <2>9, <2>12, <3>2, SMT DEF Active, SweepsStay
    <3>3. CASE g # f
      <4>1. row'[g] = row[g]
        BY <2>3, <3>1, <3>3
      <4>2. \A v \in Callers : Active(v, g)' => v # w /\ Active(v, g)
        BY <2>5, <2>9, SMT DEF Active, SweepsStay
      <4> QED
        BY <2>5, <4>1, <4>2, Zenon DEF ConfirmedIsSettled, SweepsStay
    <3> QED
      BY <3>2, <3>3
  <2>17. Trusted => GoneIsGone' /\ TrackedUntilDeleted'
    BY <1>1, <2>3, <2>5, <2>8, SMT
       DEF GoneIsGone, TrackedUntilDeleted, SweepsStay, FileTypes, Ending
  <2> QED
    BY <2>7, <2>11, <2>13, <2>15, <2>16, <2>17 DEF Trusted
<1>5. \/ row' = row /\ sweep' = [sweep EXCEPT ![w] = Continued(w, TRUE)]
      \/ row' = row /\ sweep' = [sweep EXCEPT ![w] = raised]
      \/ /\ row' = [row EXCEPT ![f].status = "succeeded"]
         /\ sweep' = [sweep EXCEPT ![w].pc = IF sweep[w].pc = "marking" THEN "forgetting" ELSE "dropping"]
  <2>1. CASE sweep[w].pc = "marking"
    BY <2>1, Zenon DEF MarkSucceeded
  <2>2. CASE sweep[w].pc # "marking"
    BY <2>2, Zenon DEF MarkSucceeded
  <2> QED
    BY <2>1, <2>2
<1> QED
  BY <1>2, <1>3, <1>4, <1>5

LEMMA ForgetHandleRecords ==
  ASSUME RecordsAreSound, NEW w \in Callers, ForgetHandle(w)
  PROVE  RecordsAreSound'
<1> USE DEF RecordsAreSound, FilesAreSound
<1> DEFINE f == sweep[w].file
           d == Continued(w, FALSE)
<1>1. /\ sweep[w].pc \in {"forgetting", "dropping"}
      /\ UNCHANGED <<validated, secret, book, ext, row, remote, prep, torn>>
      /\ Fault \/ faults' = faults
      /\ vault' = vault \/ vault' = [vault EXCEPT ![f] = "none"]
  BY Zenon DEF ForgetHandle
<1>2. f \in Files /\ row[f] # None /\ Settled(f)
  BY <1>1, SMT DEF ClaimsAreSound, MarkersAreSound, Ending
<1>3. d \in Sweeps /\ d.pc = "next" /\ d.todo = sweep[w].todo
  BY SweepGoesOn
<1>4. PICK z \in Sweeps : /\ sweep' = [sweep EXCEPT ![w] = z]
                          /\ z.pc \in {"next", "recover"} /\ z.todo = sweep[w].todo
  <2>1. CASE sweep[w].pc = "forgetting"
    <3>1. sweep' = [sweep EXCEPT ![w] = d]
      BY <2>1, Zenon DEF ForgetHandle
    <3> HIDE DEF d
    <3> QED
      BY <1>3, <3>1, Zenon
  <2>2. CASE sweep[w].pc # "forgetting"
    <3> DEFINE B == BOOLEAN
               y == [d EXCEPT !.pc = "recover"]
    <3>1. sweep' = [sweep EXCEPT ![w] = y]
      BY <2>2, Zenon DEF ForgetHandle
    <3> HIDE DEF d
    <3>2. d \in [pc : SweepPcs, todo : SUBSET Files, file : Files \cup {None},
                 attempt : 0 .. MaxClaims, bad : B]
      BY <1>3 DEF Sweeps
    <3>3. "recover" \in SweepPcs
      BY DEF SweepPcs
    <3> HIDE DEF B
    <3>4. /\ y \in [pc : SweepPcs, todo : SUBSET Files, file : Files \cup {None},
                    attempt : 0 .. MaxClaims, bad : B]
          /\ y.pc = "recover" /\ y.todo = d.todo
      BY <3>2, <3>3, SweepMoved, Zenon
    <3>5. y \in Sweeps
      BY <3>4 DEF Sweeps, B
    <3> HIDE DEF y
    <3> QED
      BY <1>3, <3>1, <3>4, <3>5, Zenon
  <2> QED
    BY <2>1, <2>2
<1>5. sweep' \in [Callers -> Sweeps] /\ sweep'[w] = z /\ SweepsStay(w)
  BY <1>4, SweepPut DEF SweepsStay
<1>6. Rests(w)
  BY <1>4, <1>5, Zenon DEF Rests, Passive, ClaimsAreSound
<1>7. /\ vault' \in [Files -> {"none", "id", "marker"}]
      /\ \A g \in Files : vault'[g] = vault[g] \/ (g = f /\ vault'[g] = "none")
  <2> HIDE DEF f
  <2>1. CASE vault' = vault
    BY <2>1, Zenon DEF FileTypes
  <2>2. CASE vault' = [vault EXCEPT ![f] = "none"]
    BY <1>2, <2>2, SMT DEF FileTypes
  <2> QED
    BY <1>1, <2>1, <2>2
<1>8. faults' \in 0 .. MaxFaults
  BY <1>1, FaultsAreCounted
<1>9. FileTypes'
  BY <1>1, <1>5, <1>7, <1>8, SMT DEF FileTypes, remote
<1>10. UNCHANGED <<row, atProvider, uploader, confirmed, prep>>
  BY <1>1, SMT DEF remote
<1>11. sweep'[w].pc \notin Claiming \cup Ending /\ \A g \in sweep'[w].todo : row[g] # None
  BY <1>6, SMT DEF Rests, Passive, Claiming, Ending
<1>12. UploadsAreSound'
  BY <1>2, <1>7, <1>10, SMT DEF UploadsAreSound
<1>13. ClaimsAreSound'
  BY <1>5, <1>10, <1>11, SMT DEF ClaimsAreSound, Active, SweepsStay
<1>14. \A g \in Files : Settled(g) => Settled(g)'
  BY <1>5, <1>10, <1>11, SMT DEF Settled, Active, SweepsStay
<1>15. MarkersAreSound'
  BY <1>5, <1>7, <1>11, <1>14, SMT DEF MarkersAreSound, ClaimsAreSound, SweepsStay
<1>16. ConfirmedIsSettled'
  BY <1>5, <1>10, <1>11, SMT DEF ConfirmedIsSettled, FileTypes, Active, SweepsStay
<1>17. Trusted => GoneIsGone' /\ TrackedUntilDeleted'
  BY <1>1, <1>5, <1>7, <1>10, <1>11, SMT
     DEF GoneIsGone, TrackedUntilDeleted, SweepsStay, FileTypes, Ending, Claiming
<1> QED
  BY <1>9, <1>12, <1>13, <1>15, <1>16, <1>17 DEF Trusted

-----------------------------------------------------------------------------
(* The steps of the extraction. *)
LEMMA ExtWithStatus ==
  ASSUME FileTypes, NEW x \in ExtStatus
  PROVE  WithStatus(x) = None \/ WithStatus(x) \in Exts
<1>1. CASE ext = None \/ ext.status = "ready"
  BY <1>1, Zenon DEF WithStatus, FileTypes
<1>2. CASE ~(ext = None \/ ext.status = "ready")
  <2>1. ext \in Exts
    BY <1>2, Zenon DEF FileTypes
  <2>2. WithStatus(x) = [ext EXCEPT !.status = x]
    BY <1>2, Zenon DEF WithStatus
  <2> QED
    BY <2>1, <2>2, ExtMoved, Zenon DEF Exts
<1> QED
  BY <1>1, <1>2

LEMMA TrackedFiles ==
  ASSUME FileTypes, NEW S
  PROVE  /\ Tracked(S) \in SUBSET Files /\ \A f \in Tracked(S) : row[f] # None
         /\ OfExtraction(S) \in SUBSET Files /\ \A f \in OfExtraction(S) : row[f] # None
         /\ \A p : OfProfile(p, S) \in SUBSET Files /\ \A f \in OfProfile(p, S) : row[f] # None
BY Zenon DEF Tracked, OfExtraction, OfProfile

LEMMA PrepAtRest ==
  NoPrep \in Preps /\ NoPrep.pc = "idle"
<1>1. "idle" \in PrepPcs /\ None \in Profiles \cup {None} /\ None \in Files \cup {None} /\ 0 \in Keys
  BY BoundAssumption, SMT DEF PrepPcs, Keys
<1> QED
  BY <1>1, PrepMade, Zenon DEF NoPrep, Preps

LEMMA PrepGoes ==
  ASSUME FileTypes, prep.pc # "idle", NEW x \in PrepPcs, prep' = [prep EXCEPT !.pc = x]
  PROVE  prep' \in Preps /\ prep'.pc = x /\ prep'.profile \in Profiles /\ prep'.file = prep.file
<1>1. prep \in Preps /\ prep.profile \in Profiles
  BY DEF FileTypes
<1> QED
  BY <1>1, PrepMoved, Zenon DEF Preps

(* A step that lets the files alone. *)
LEMMA QuietTurn ==
  ASSUME RecordsAreSound, NEW w \in Callers, NEW u \in Sweeps, u.pc \in Passive,
         \A f \in u.todo : row[f] # None,
         sweep' = sweep \/ sweep' = [sweep EXCEPT ![w] = u],
         prep' \in Preps, prep'.pc # "idle" => prep'.profile \in Profiles,
         prep' = prep \/ prep'.pc \notin Uploading,
         book' \in BOOLEAN, ext' = None \/ ext' \in Exts,
         row' \in [Files -> Resources \cup {None}], SameRows,
         UNCHANGED <<vault, atProvider, uploader, confirmed>>,
         faults' \in 0 .. MaxFaults
  PROVE  RecordsAreSound'
<1> USE DEF RecordsAreSound, FilesAreSound
<1>1. FileTypes
  OBVIOUS
<1>2. sweep' \in [Callers -> Sweeps] /\ \A v \in Callers : sweep'[v] = sweep[v] \/ Rests(v)
  <2>1. CASE sweep' = sweep
    BY <1>1, <2>1, Zenon DEF FileTypes
  <2>2. CASE sweep' = [sweep EXCEPT ![w] = u]
    <3>1. /\ sweep' \in [Callers -> Sweeps] /\ sweep'[w] = u
          /\ \A v \in Callers \ {w} : sweep'[v] = sweep[v]
      BY <1>1, <2>2, SweepPut
    <3>2. Rests(w)
      BY <3>1, Zenon DEF Rests
    <3> QED
      BY <3>1, <3>2, Zenon
  <2> QED
    BY <2>1, <2>2
<1>3. FileTypes'
  BY <1>1, <1>2, SMT DEF FileTypes
<1> QED
  BY <1>2, <1>3, QuietStep, Zenon

(* Of the extraction: the row changes its status, and prepare goes on, *)
(* returns, or sweeps before it returns.                               *)
LEMMA PrepareGoesOn ==
  ASSUME RecordsAreSound, ext' = None \/ ext' \in Exts,
         UNCHANGED <<book, row, vault, remote, faults>>,
         prep' \in Preps, prep'.pc \notin Uploading, prep'.pc # "idle" => prep'.profile \in Profiles,
         UNCHANGED sweep
  PROVE  RecordsAreSound'
<1> USE DEF RecordsAreSound, FilesAreSound
<1>1. /\ FileTypes /\ UNCHANGED <<vault, atProvider, uploader, confirmed>>
      /\ book' \in BOOLEAN /\ row' \in [Files -> Resources \cup {None}]
      /\ faults' \in 0 .. MaxFaults
  BY SMT DEF FileTypes, remote
<1>2. SameRows
  BY Zenon DEF SameRows
<1>3. "prep" \in Callers /\ "idle" \in Passive
  BY DEF Callers, Passive
<1> QED
  BY <1>1, <1>2, <1>3, QuietTurn, SweepAtRest, Zenon

LEMMA PrepareCleansUp ==
  ASSUME RecordsAreSound, ext' = None \/ ext' \in Exts,
         UNCHANGED <<book, row, vault, remote, faults>>,
         prep' \in Preps, prep'.pc \notin Uploading, prep'.pc # "idle" => prep'.profile \in Profiles,
         sweep' = [sweep EXCEPT !["prep"] = Sweeping(OfExtraction(Sweepable))]
  PROVE  RecordsAreSound'
<1> USE DEF RecordsAreSound, FilesAreSound
<1>1. /\ FileTypes /\ UNCHANGED <<vault, atProvider, uploader, confirmed>>
      /\ book' \in BOOLEAN /\ row' \in [Files -> Resources \cup {None}]
      /\ faults' \in 0 .. MaxFaults
  BY SMT DEF FileTypes, remote
<1>2. SameRows
  BY Zenon DEF SameRows
<1>3. "prep" \in Callers /\ "recover" \in Passive
  BY DEF Callers, Passive
<1> DEFINE files == OfExtraction(Sweepable)
<1>4. files \in SUBSET Files /\ \A f \in files : row[f] # None
  BY <1>1, TrackedFiles
<1>5. Sweeping(files) \in Sweeps /\ Sweeping(files).pc = "recover" /\ Sweeping(files).todo = files
  BY <1>4, SweepBegins
<1> DEFINE u == Sweeping(files)
<1>6. /\ u \in Sweeps /\ u.pc \in Passive /\ \A f \in u.todo : row[f] # None
      /\ sweep' = [sweep EXCEPT !["prep"] = u]
  BY <1>3, <1>4, <1>5, Zenon
<1> HIDE DEF u
<1> QED
  BY <1>1, <1>2, <1>3, <1>6, QuietTurn, Zenon

LEMMA CleanUp ==
  ASSUME RecordsAreSound, ext' = None \/ ext' \in Exts,
         UNCHANGED <<book, row, vault, remote, faults>>, prep.pc # "idle", CleanUpAndReturn
  PROVE  RecordsAreSound'
<1>1. "cleaning" \in PrepPcs /\ "cleaning" \notin Uploading
  BY DEF PrepPcs, Uploading
<1>2. prep' \in Preps /\ prep'.pc = "cleaning" /\ prep'.profile \in Profiles
  BY <1>1, PrepGoes, Zenon DEF CleanUpAndReturn, RecordsAreSound, FilesAreSound
<1> QED
  BY <1>1, <1>2, PrepareCleansUp, Zenon DEF CleanUpAndReturn

LEMMA PrepareEnds ==
  ASSUME RecordsAreSound, ext' = None \/ ext' \in Exts,
         UNCHANGED <<book, row, vault, remote, faults, sweep>>, Finish
  PROVE  RecordsAreSound'
<1>1. "idle" \notin Uploading
  BY DEF Uploading
<1> QED
  BY <1>1, PrepAtRest, PrepareGoesOn, Zenon DEF Finish

LEMMA PrepareProceeds ==
  ASSUME RecordsAreSound, ext' = None \/ ext' \in Exts,
         UNCHANGED <<book, row, vault, remote, faults, sweep>>, prep.pc # "idle",
         NEW x \in PrepPcs \ Uploading, prep' = [prep EXCEPT !.pc = x]
  PROVE  RecordsAreSound'
<1>1. prep' \in Preps /\ prep'.pc = x /\ prep'.profile \in Profiles
  BY PrepGoes, Zenon DEF RecordsAreSound, FilesAreSound
<1> QED
  BY <1>1, PrepareGoesOn, Zenon

LEMMA BeginPrepareRecords ==
  ASSUME RecordsAreSound, KeyTypes, NEW p \in Profiles, BeginPrepare(p)
  PROVE  RecordsAreSound'
<1> DEFINE print == <<p, validated[p]>>
<1>1. UNCHANGED <<book, row, vault, remote, faults>>
  BY Zenon DEF BeginPrepare, bounds
<1>2. FileTypes /\ validated[p] \in Keys
  BY SMT DEF RecordsAreSound, FilesAreSound, KeyTypes
<1>3. /\ "key" \in PrepPcs /\ "rebinding" \in PrepPcs /\ "queued" \in ExtStatus
      /\ p \in Profiles \cup {None}
      /\ "key" \notin Uploading /\ "rebinding" \notin Uploading
  BY DEF PrepPcs, ExtStatus, Uploading
<1>4. ext' = None \/ ext' \in Exts
  <2>1. CASE ext' = ext
    BY <1>2, <2>1 DEF FileTypes
  <2>2. CASE ext' = [status |-> "queued", owner |-> p, print |-> print]
    <3>1. print \in Profiles \X Keys
      BY <1>2
    <3> QED
      BY <1>3, <2>2, <3>1, ExtMade, Zenon DEF Exts
  <2> QED
    BY <2>1, <2>2, Zenon DEF BeginPrepare
<1>5. CASE prep' = [NoPrep EXCEPT !.pc = "key", !.profile = p] /\ UNCHANGED sweep
  <2>1. prep' \in Preps /\ prep'.pc = "key" /\ prep'.profile = p
    BY <1>3, <1>5, PrepAtRest, PrepBegun, Zenon DEF Preps
  <2> QED
    BY <1>1, <1>3, <1>4, <1>5, <2>1, PrepareGoesOn, Zenon
<1>6. CASE /\ prep' = [NoPrep EXCEPT !.pc = "rebinding", !.profile = p, !.key = validated[p]]
           /\ sweep' = [sweep EXCEPT !["prep"] = Sweeping(OfExtraction(Sweepable))]
  <2>1. prep' \in Preps /\ prep'.pc = "rebinding" /\ prep'.profile = p
    BY <1>2, <1>3, <1>6, PrepAtRest, PrepRebinds, Zenon DEF Preps
  <2> QED
    BY <1>1, <1>3, <1>4, <1>6, <2>1, PrepareCleansUp, Zenon
<1> QED
  BY <1>5, <1>6, Zenon DEF BeginPrepare

LEMMA RebindRecords ==
  ASSUME RecordsAreSound, Rebind
  PROVE  RecordsAreSound'
<1> USE DEF RecordsAreSound, FilesAreSound
<1>1. /\ FileTypes /\ prep.pc = "rebinding"
      /\ sweep' = [sweep EXCEPT !["prep"] = AtRest]
      /\ UNCHANGED <<book, row, vault, atProvider, uploader, confirmed, faults>>
  BY Zenon DEF Rebind, remote, bounds
<1>2. book' \in BOOLEAN /\ row' \in [Files -> Resources \cup {None}] /\ faults' \in 0 .. MaxFaults
  BY <1>1, SMT DEF FileTypes
<1>3. SameRows
  BY <1>1, Zenon DEF SameRows
<1>4. prep.profile \in Profiles /\ prep.key \in Keys /\ prep \in Preps /\ 0 \in Keys
  BY <1>1, PrepFacts, BoundAssumption, SMT DEF FileTypes, Keys
<1>5. "prep" \in Callers /\ "idle" \in Passive /\ "key" \in PrepPcs /\ "queued" \in ExtStatus
      /\ "key" \notin Uploading /\ "idle" \notin Uploading
  BY DEF Callers, Passive, PrepPcs, ExtStatus, Uploading
<1>6. CASE Finish /\ UNCHANGED ext
  <2>1. prep' \in Preps /\ prep'.pc = "idle"
    BY <1>6, PrepAtRest, Zenon DEF Finish
  <2>2. ext' = None \/ ext' \in Exts
    BY <1>1, <1>6, Zenon DEF FileTypes
  <2> QED
    BY <1>1, <1>2, <1>3, <1>5, <2>1, <2>2, QuietTurn, SweepAtRest, Zenon
<1>7. CASE /\ ext' = IF ext = None \/ ext.status = "ready" THEN ext
                     ELSE [ext EXCEPT !.status = "queued", !.print = <<prep.profile, prep.key>>]
           /\ prep' = [prep EXCEPT !.pc = "key", !.key = 0]
  <2>1. prep' \in Preps /\ prep'.pc = "key" /\ prep'.profile = prep.profile
    BY <1>4, <1>5, <1>7, PrepKeyed, Zenon DEF Preps
  <2>2. ext' = None \/ ext' \in Exts
    <3>1. CASE ext = None \/ ext.status = "ready"
      BY <1>1, <1>7, <3>1, Zenon DEF FileTypes
    <3>2. CASE ~(ext = None \/ ext.status = "ready")
      <4> DEFINE k == <<prep.profile, prep.key>>
      <4>1. ext \in Exts /\ ext' = [ext EXCEPT !.status = "queued", !.print = k]
        BY <1>1, <1>7, <3>2, Zenon DEF FileTypes
      <4>2. k \in Profiles \X Keys
        BY <1>4
      <4> HIDE DEF k
      <4> QED
        BY <1>5, <4>1, <4>2, ExtRebound, Zenon DEF Exts
    <3> QED
      BY <3>1, <3>2
  <2> QED
    BY <1>1, <1>2, <1>3, <1>4, <1>5, <2>1, <2>2, QuietTurn, SweepAtRest, Zenon
<1> QED
  BY <1>6, <1>7, Zenon DEF Rebind

LEMMA LoadKeyRecords ==
  ASSUME RecordsAreSound, LoadKey
  PROVE  RecordsAreSound'
<1>1. prep.pc = "key" /\ UNCHANGED <<book, row, vault, remote, faults>>
  BY Zenon DEF LoadKey, bounds
<1>2. FileTypes /\ prep.pc # "idle"
  BY <1>1 DEF RecordsAreSound, FilesAreSound
<1>3. /\ "upload" \in PrepPcs \ Uploading /\ "poll" \in PrepPcs /\ "poll" \notin Uploading
      /\ "cancelled" \in ExtStatus /\ "uploading" \in ExtStatus /\ "processing" \in ExtStatus
  BY DEF PrepPcs, Uploading, ExtStatus
<1>4. CASE Finish /\ UNCHANGED <<ext, sweep>>
  <2>1. ext' = None \/ ext' \in Exts
    BY <1>2, <1>4, Zenon DEF FileTypes
  <2> QED
    BY <1>1, <1>4, <2>1, PrepareEnds, Zenon
<1>5. CASE Cancelled
  <2>1. ext' = None \/ ext' \in Exts
    BY <1>2, <1>3, <1>5, ExtWithStatus, Zenon DEF Cancelled
  <2> QED
    BY <1>1, <1>2, <1>5, <2>1, CleanUp, Zenon DEF Cancelled
<1>6. CASE ext' = WithStatus("uploading") /\ prep' = [prep EXCEPT !.pc = "upload"] /\ UNCHANGED sweep
  <2>1. ext' = None \/ ext' \in Exts
    BY <1>2, <1>3, <1>6, ExtWithStatus, Zenon
  <2> QED
    BY <1>1, <1>2, <1>3, <1>6, <2>1, PrepareProceeds, Zenon
<1>7. ASSUME NEW f \in OfExtraction(Unresolved), ext' = WithStatus("processing"),
             prep' = [prep EXCEPT !.pc = "poll", !.file = f], UNCHANGED sweep
      PROVE  RecordsAreSound'
  <2>1. ext' = None \/ ext' \in Exts
    BY <1>2, <1>3, <1>7, ExtWithStatus, Zenon
  <2>2. prep \in Preps /\ prep.profile \in Profiles /\ f \in Files \cup {None}
    BY <1>2, TrackedFiles, SMT DEF FileTypes
  <2>3. prep' \in Preps /\ prep'.pc = "poll" /\ prep'.profile = prep.profile
    BY <1>3, <1>7, <2>2, PrepFiled, Zenon DEF Preps
  <2> QED
    BY <1>1, <1>3, <1>7, <2>1, <2>2, <2>3, PrepareGoesOn, Zenon
<1> QED
  BY <1>4, <1>5, <1>6, <1>7, Zenon DEF LoadKey

LEMMA PollRecords ==
  ASSUME RecordsAreSound, Poll
  PROVE  RecordsAreSound'
<1>1. prep.pc = "poll" /\ UNCHANGED <<book, row, vault, remote, faults>>
  BY Zenon DEF Poll, bounds
<1>2. FileTypes /\ prep.pc # "idle"
  BY <1>1 DEF RecordsAreSound, FilesAreSound
<1>3. /\ "download" \in PrepPcs \ Uploading
      /\ "cancelled" \in ExtStatus /\ "downloading" \in ExtStatus /\ "failed" \in ExtStatus
  BY DEF PrepPcs, Uploading, ExtStatus
<1>4. PICK x \in ExtStatus : ext' = WithStatus(x)
  BY <1>3, Zenon DEF Poll, Cancelled
<1>5. ext' = None \/ ext' \in Exts
  BY <1>2, <1>4, ExtWithStatus, Zenon
<1>6. CASE prep' = [prep EXCEPT !.pc = "download"] /\ UNCHANGED sweep
  BY <1>1, <1>2, <1>3, <1>5, <1>6, PrepareProceeds, Zenon
<1>7. CASE CleanUpAndReturn
  BY <1>1, <1>2, <1>5, <1>7, CleanUp, Zenon
<1>8. CASE Finish /\ UNCHANGED sweep
  BY <1>1, <1>5, <1>8, PrepareEnds, Zenon
<1> QED
  BY <1>6, <1>7, <1>8, Zenon DEF Poll, Cancelled

LEMMA DownloadRecords ==
  ASSUME RecordsAreSound, Download
  PROVE  RecordsAreSound'
<1>1. prep.pc = "download" /\ CleanUpAndReturn /\ UNCHANGED <<book, row, vault, remote, faults>>
  BY Zenon DEF Download, bounds
<1>2. FileTypes /\ prep.pc # "idle"
  BY <1>1 DEF RecordsAreSound, FilesAreSound
<1>3. "cancelled" \in ExtStatus /\ "ready" \in ExtStatus /\ "failed" \in ExtStatus
  BY DEF ExtStatus
<1>4. ext' = None \/ ext' \in Exts
  <2>1. CASE ext # None /\ ext' = [ext EXCEPT !.status = "ready"]
    <3>1. ext \in Exts
      BY <1>2, <2>1, Zenon DEF FileTypes
    <3> QED
      BY <1>3, <2>1, <3>1, ExtMoved, Zenon DEF Exts
  <2>2. CASE \E x \in {"cancelled", "failed"} : ext' = WithStatus(x)
    BY <1>2, <1>3, <2>2, ExtWithStatus, Zenon
  <2> QED
    BY <2>1, <2>2, Zenon DEF Download
<1> QED
  BY <1>1, <1>2, <1>4, CleanUp, Zenon

LEMMA EndPrepareRecords ==
  ASSUME RecordsAreSound, EndPrepare
  PROVE  RecordsAreSound'
<1> USE DEF RecordsAreSound, FilesAreSound
<1>1. /\ FileTypes /\ sweep' = [sweep EXCEPT !["prep"] = AtRest] /\ prep' = NoPrep
      /\ UNCHANGED <<book, ext, row, vault, atProvider, uploader, confirmed, faults>>
  BY Zenon DEF EndPrepare, Finish, store, remote, bounds
<1>2. /\ book' \in BOOLEAN /\ row' \in [Files -> Resources \cup {None}]
      /\ faults' \in 0 .. MaxFaults /\ (ext' = None \/ ext' \in Exts)
  BY <1>1, Zenon DEF FileTypes
<1>3. SameRows
  BY <1>1, Zenon DEF SameRows
<1>4. "prep" \in Callers /\ "idle" \in Passive /\ "idle" \notin Uploading
  BY DEF Callers, Passive, Uploading
<1> QED
  BY <1>1, <1>2, <1>3, <1>4, QuietTurn, SweepAtRest, PrepAtRest, Zenon

LEMMA UploadRecords ==
  ASSUME RecordsAreSound, Upload
  PROVE  RecordsAreSound'
<1> USE DEF RecordsAreSound, FilesAreSound
<1>1. /\ FileTypes /\ prep.pc = "upload"
      /\ UNCHANGED <<book, row, vault, confirmed, faults>>
  BY Zenon DEF Upload, bounds
<1>2. ASSUME NEW f \in Files, uploader[f] = None,
             uploader' = [uploader EXCEPT ![f] = prep.profile],
             atProvider' = atProvider \cup {f},
             prep' = [prep EXCEPT !.pc = "storing", !.file = f],
             UNCHANGED <<ext, sweep>>
      PROVE  RecordsAreSound'
  <2>1. "storing" \in PrepPcs /\ f \in Files \cup {None}
    BY DEF PrepPcs
  <2>2. prep \in Preps /\ prep.profile \in Profiles /\ prep.profile # None
    BY <1>1, NoneAssumption DEF FileTypes
  <2>3. prep' \in Preps /\ prep'.pc = "storing" /\ prep'.file = f /\ prep'.profile = prep.profile
    BY <1>2, <2>1, <2>2, PrepFiled, Zenon DEF Preps
  <2>4. /\ uploader' \in [Files -> Profiles \cup {None}] /\ uploader'[f] # None
        /\ \A g \in Files : uploader'[g] = None => uploader[g] = None /\ g # f
    BY <1>1, <1>2, <2>2, SMT DEF FileTypes
  <2>5. row[f] = None /\ vault[f] = "none" /\ f \notin confirmed /\ f \notin atProvider
    BY <1>2, Zenon DEF UploadsAreSound
  <2>6. UNCHANGED <<book, ext, row, vault, confirmed, faults, sweep>> /\ atProvider' = atProvider \cup {f}
    BY <1>1, <1>2
  <2>7. FileTypes'
    BY <2>2, <2>3, <2>4, <2>6, SMT DEF FileTypes
  <2>8. UploadsAreSound'
    BY <2>3, <2>4, <2>5, <2>6, SMT DEF UploadsAreSound
  <2>9. ClaimsAreSound'
    BY <2>6, SMT DEF ClaimsAreSound, Active
  <2>10. MarkersAreSound'
    BY <2>6, SMT DEF MarkersAreSound, Settled, Active
  <2>11. ConfirmedIsSettled'
    BY <2>6, SMT DEF ConfirmedIsSettled, Active
  <2>12. Trusted => GoneIsGone' /\ TrackedUntilDeleted'
    BY <2>5, <2>6, SMT DEF GoneIsGone, TrackedUntilDeleted, ClaimsAreSound, Claiming, Ending, FileTypes
  <2> QED
    BY <2>7, <2>8, <2>9, <2>10, <2>11, <2>12 DEF Trusted
<1>3. CASE UNCHANGED <<uploader, atProvider>> /\ (Cancelled \/ (ext' = WithStatus("failed") /\ Finish /\ UNCHANGED sweep))
  <2>1. "cancelled" \in ExtStatus /\ "failed" \in ExtStatus
    BY DEF ExtStatus
  <2>2. UNCHANGED <<book, row, vault, remote, faults>> /\ prep.pc # "idle"
    BY <1>1, <1>3 DEF remote
  <2>3. CASE Cancelled
    <3>1. ext' = None \/ ext' \in Exts
      BY <1>1, <2>1, <2>3, ExtWithStatus, Zenon DEF Cancelled
    <3> QED
      BY <2>2, <2>3, <3>1, CleanUp, Zenon DEF Cancelled
  <2>4. CASE ext' = WithStatus("failed") /\ Finish /\ UNCHANGED sweep
    <3>1. ext' = None \/ ext' \in Exts
      BY <1>1, <2>1, <2>4, ExtWithStatus, Zenon
    <3> QED
      BY <2>2, <2>4, <3>1, PrepareEnds, Zenon
  <2> QED
    BY <1>3, <2>3, <2>4
<1> QED
  BY <1>2, <1>3, Zenon DEF Upload

LEMMA StoreInVaultRecords ==
  ASSUME RecordsAreSound, StoreInVault
  PROVE  RecordsAreSound'
<1> USE DEF RecordsAreSound, FilesAreSound
<1> DEFINE f == prep.file
<1>1. /\ FileTypes /\ prep.pc = "storing" /\ (Fault \/ faults' = faults)
      /\ UNCHANGED <<book, ext, row, atProvider, uploader, confirmed, sweep>>
  BY Zenon DEF StoreInVault, remote
<1>2. /\ f \in Files /\ uploader[f] # None /\ row[f] = None /\ vault[f] # "marker" /\ f \notin confirmed
  BY <1>1, SMT DEF UploadsAreSound
<1>3. "tracking" \in PrepPcs /\ "compensating" \in PrepPcs
  BY DEF PrepPcs
<1>4. PICK x \in {"tracking", "compensating"} :
        /\ prep' = [prep EXCEPT !.pc = x]
        /\ \/ vault' = [vault EXCEPT ![f] = "id"]
           \/ x = "compensating" /\ vault' = vault
  BY Zenon DEF StoreInVault
<1>5. prep' \in Preps /\ prep'.pc = x /\ prep'.profile \in Profiles /\ prep'.file = f
  BY <1>1, <1>3, <1>4, PrepGoes
<1>6. /\ vault' \in [Files -> {"none", "id", "marker"}]
      /\ \A g \in Files \ {f} : vault'[g] = vault[g]
      /\ vault'[f] # "marker"
      /\ x = "tracking" => vault'[f] = "id"
  <2> HIDE DEF f
  <2>1. CASE vault' = vault
    BY <1>1, <1>2, <1>4, <2>1, SMT DEF FileTypes
  <2>2. CASE vault' = [vault EXCEPT ![f] = "id"]
    BY <1>1, <1>2, <2>2, SMT DEF FileTypes
  <2> QED
    BY <1>4, <2>1, <2>2
<1>7. faults' \in 0 .. MaxFaults
  BY <1>1, FaultsAreCounted
<1> HIDE DEF f
<1>8. FileTypes'
  BY <1>1, <1>5, <1>6, <1>7, SMT DEF FileTypes
<1>9. UploadsAreSound'
  BY <1>1, <1>2, <1>5, <1>6, SMT DEF UploadsAreSound
<1>10. ClaimsAreSound'
  BY <1>1, SMT DEF ClaimsAreSound, Active
<1>11. MarkersAreSound'
  BY <1>1, <1>6, SMT DEF MarkersAreSound, Settled, Active
<1>12. ConfirmedIsSettled'
  BY <1>1, SMT DEF ConfirmedIsSettled, Active
<1>13. Trusted => GoneIsGone' /\ TrackedUntilDeleted'
  BY <1>1, <1>2, <1>6, SMT DEF GoneIsGone, TrackedUntilDeleted, FileTypes
<1> QED
  BY <1>8, <1>9, <1>10, <1>11, <1>12, <1>13 DEF Trusted

LEMMA RowBegins ==
  ASSUME NEW p \in Profiles \cup {None}
  PROVE  /\ Row(p) \in Resources /\ Row(p) # None
         /\ Row(p).status = "pending" /\ Row(p).count = 0
<1> DEFINE B == BOOLEAN
<1>1. "pending" \in Unresolved \cup {"succeeded"} /\ 0 \in 0 .. MaxClaims /\ TRUE \in B
  BY BoundAssumption, SMT DEF Unresolved
<1> HIDE DEF B
<1>2. Row(p) \in [status : Unresolved \cup {"succeeded"}, owner : Profiles \cup {None}, count : 0 .. MaxClaims, ext : B]
  BY <1>1, RowMade, Zenon DEF Row
<1>3. Row(p) \in Resources
  BY <1>2 DEF Resources, B
<1> QED
  BY <1>3, RowAssumption, Zenon DEF Row

LEMMA StoreRowRecords ==
  ASSUME RecordsAreSound, StoreRow
  PROVE  RecordsAreSound'
<1> USE DEF RecordsAreSound, FilesAreSound
<1> DEFINE f == prep.file
<1>1. /\ FileTypes /\ prep.pc = "tracking" /\ (Fault \/ faults' = faults)
      /\ UNCHANGED <<book, vault, atProvider, uploader, confirmed, sweep>>
  BY Zenon DEF StoreRow, remote
<1>2. /\ f \in Files /\ uploader[f] # None /\ row[f] = None
      /\ f \notin confirmed /\ vault[f] = "id"
  BY <1>1, SMT DEF UploadsAreSound
<1>3. faults' \in 0 .. MaxFaults
  BY <1>1, FaultsAreCounted
<1>4. /\ "compensating" \in PrepPcs /\ "poll" \in PrepPcs /\ "poll" \notin Uploading
      /\ "processing" \in ExtStatus
  BY DEF PrepPcs, Uploading, ExtStatus
<1>5. CASE prep' = [prep EXCEPT !.pc = "compensating"] /\ UNCHANGED <<row, ext>>
  <2>1. prep' \in Preps /\ prep'.pc = "compensating" /\ prep'.profile \in Profiles /\ prep'.file = f
    BY <1>1, <1>4, <1>5, PrepGoes
  <2> HIDE DEF f
  <2>2. UNCHANGED <<row, ext>>
    BY <1>5
  <2>3. FileTypes'
    BY <1>1, <1>3, <2>1, <2>2, SMT DEF FileTypes
  <2>4. UploadsAreSound'
    BY <1>1, <1>2, <2>1, <2>2, SMT DEF UploadsAreSound
  <2>5. ClaimsAreSound' /\ MarkersAreSound' /\ ConfirmedIsSettled'
    BY <1>1, <2>2, SMT DEF ClaimsAreSound, MarkersAreSound, ConfirmedIsSettled, Settled, Active
  <2>6. Trusted => GoneIsGone' /\ TrackedUntilDeleted'
    BY <1>1, <2>2, SMT DEF GoneIsGone, TrackedUntilDeleted
  <2> QED
    BY <2>3, <2>4, <2>5, <2>6 DEF Trusted
<1>6. CASE /\ ext # None
           /\ row' = [row EXCEPT ![f] = Row(ext.owner)]
           /\ ext' = WithStatus("processing")
           /\ prep' = [prep EXCEPT !.pc = "poll"]
  <2>1. prep' \in Preps /\ prep'.pc = "poll" /\ prep'.profile \in Profiles
    BY <1>1, <1>4, <1>6, PrepGoes
  <2>2. ext' = None \/ ext' \in Exts
    BY <1>1, <1>4, <1>6, ExtWithStatus
  <2>3. ext.owner \in Profiles \cup {None}
    BY <1>1, <1>6, ExtParts, Zenon DEF FileTypes, Exts
  <2> DEFINE r == Row(ext.owner)
  <2>4. r \in Resources /\ r # None /\ r.status = "pending"
    BY <2>3, RowBegins
  <2>5. row' = [row EXCEPT ![f] = r]
    BY <1>6
  <2> HIDE DEF f, r
  <2>6. /\ row' \in [Files -> Resources \cup {None}] /\ row'[f] = r
        /\ \A g \in Files \ {f} : row'[g] = row[g]
    BY <1>1, <1>2, <2>4, <2>5, SMT DEF FileTypes
  <2>7. FileTypes'
    BY <1>1, <1>3, <2>1, <2>2, <2>6, SMT DEF FileTypes
  <2>8. UploadsAreSound'
    BY <1>1, <1>2, <2>1, <2>6, SMT DEF UploadsAreSound
  <2>9. \A w \in Callers : sweep[w].todo \subseteq Files
    BY <1>1, SweepFacts
  <2>10. ClaimsAreSound'
    <3>1. \A w \in Callers : \A g \in sweep'[w].todo : row'[g] # None
      BY <1>1, <2>4, <2>6, <2>9, SMT DEF ClaimsAreSound
    <3>2. \A w \in Callers : sweep'[w].pc \in Claiming \cup Ending =>
            sweep'[w].file # f /\ sweep'[w].file \in Files /\ row'[sweep'[w].file] # None
      BY <1>1, <1>2, <2>6, SMT DEF ClaimsAreSound
    <3>3. \A w \in Callers : sweep'[w].pc \in Claiming =>
            row'[sweep'[w].file].status = "cleaning" /\ row'[sweep'[w].file].count = sweep'[w].attempt
      BY <1>1, <2>6, <3>2, SMT DEF ClaimsAreSound
    <3>4. \A v, z \in Callers : \A g \in Files : Active(v, g)' /\ Active(z, g)' => v = z
      BY <1>1, SMT DEF ClaimsAreSound, Active
    <3> QED
      BY <3>1, <3>2, <3>3, <3>4, Zenon DEF ClaimsAreSound, Active
  <2>11. \A g \in Files : Settled(g) => Settled(g)'
    BY <1>1, <1>2, <2>6, SMT DEF Settled, Active
  <2>12. MarkersAreSound'
    BY <1>1, <2>11, SMT DEF MarkersAreSound, ClaimsAreSound
  <2>13. ConfirmedIsSettled'
    BY <1>1, <1>2, <2>6, SMT DEF ConfirmedIsSettled, FileTypes, Active
  <2>14. Trusted => GoneIsGone' /\ TrackedUntilDeleted'
    BY <1>1, <1>2, <2>4, <2>6, SMT DEF GoneIsGone, TrackedUntilDeleted, FileTypes, Unresolved
  <2> QED
    BY <2>7, <2>8, <2>10, <2>12, <2>13, <2>14 DEF Trusted
<1> QED
  BY <1>5, <1>6, Zenon DEF StoreRow

LEMMA CompensateRecords ==
  ASSUME RecordsAreSound, Compensate
  PROVE  RecordsAreSound'
<1> USE DEF RecordsAreSound, FilesAreSound
<1> DEFINE f == prep.file
<1>1. /\ FileTypes /\ prep.pc = "compensating" /\ (Fault \/ faults' = faults)
      /\ ext' = WithStatus("failed") /\ prep' = NoPrep
      /\ UNCHANGED <<book, row, uploader, sweep>>
  BY Zenon DEF Compensate, Finish
<1>2. f \in Files /\ uploader[f] # None /\ row[f] = None
  BY <1>1, SMT DEF UploadsAreSound
<1>3. PICK ok \in BOOLEAN :
        /\ Answered(prep.profile, f, ok)
        /\ \/ vault' = [vault EXCEPT ![f] = IF ok THEN "none" ELSE vault[f]]
           \/ UNCHANGED vault
  BY Zenon DEF Compensate
<1> HIDE DEF f
<1>4. atProvider' \subseteq atProvider /\ confirmed' \subseteq confirmed \cup {f}
  BY <1>3, SMT DEF Answered
<1>5. /\ vault' \in [Files -> {"none", "id", "marker"}]
      /\ \A g \in Files \ {f} : vault'[g] = vault[g]
      /\ vault'[f] # "marker"
  <2>1. vault[f] # "marker"
    BY <1>1, SMT DEF UploadsAreSound, f
  <2>2. vault' = vault \/ vault' = [vault EXCEPT ![f] = "none"] \/ vault' = [vault EXCEPT ![f] = vault[f]]
    BY <1>3, Zenon
  <2> QED
    BY <1>1, <1>2, <2>1, <2>2, SMT DEF FileTypes
<1>6. "failed" \in ExtStatus
  BY DEF ExtStatus
<1>7. ext' = None \/ ext' \in Exts
  BY <1>1, <1>6, ExtWithStatus
<1>8. faults' \in 0 .. MaxFaults
  BY <1>1, FaultsAreCounted
<1>9. prep' \in Preps /\ prep'.pc = "idle"
  BY <1>1, PrepAtRest, Zenon
<1>10. UNCHANGED <<book, row, uploader, sweep>>
  BY <1>1
<1>11. FileTypes'
  BY <1>2, <1>4, <1>5, <1>7, <1>8, <1>9, <1>10, SMT DEF FileTypes
<1>12. UploadsAreSound'
  BY <1>2, <1>4, <1>5, <1>9, <1>10, SMT DEF UploadsAreSound
<1>13. ClaimsAreSound'
  BY <1>10, SMT DEF ClaimsAreSound, Active
<1>14. MarkersAreSound'
  BY <1>5, <1>10, SMT DEF MarkersAreSound, Settled, Active
<1>15. ConfirmedIsSettled'
  BY <1>2, <1>4, <1>10, SMT DEF ConfirmedIsSettled, Active
<1>16. Trusted => GoneIsGone' /\ TrackedUntilDeleted'
  BY <1>2, <1>4, <1>5, <1>10, SMT DEF GoneIsGone, TrackedUntilDeleted, FileTypes
<1> QED
  BY <1>11, <1>12, <1>13, <1>14, <1>15, <1>16 DEF Trusted

-----------------------------------------------------------------------------
(* The commands, the book and the restart. *)
LEMMA CommandIsQuiet ==
  ASSUME RecordsAreSound, NEW w \in Callers, NEW u \in Sweeps, u.pc \in Passive,
         \A f \in u.todo : row[f] # None,
         sweep' = sweep \/ sweep' = [sweep EXCEPT ![w] = u],
         UNCHANGED <<book, ext, row, vault, remote, prep>>,
         Fault \/ faults' = faults
  PROVE  RecordsAreSound'
<1> USE DEF RecordsAreSound, FilesAreSound
<1>1. FileTypes /\ UNCHANGED <<book, ext, row, vault, atProvider, uploader, confirmed, prep>>
  BY Zenon DEF remote
<1>2. /\ book' \in BOOLEAN /\ row' \in [Files -> Resources \cup {None}]
      /\ (ext' = None \/ ext' \in Exts) /\ prep' \in Preps
      /\ prep'.pc # "idle" => prep'.profile \in Profiles
  BY <1>1, Zenon DEF FileTypes
<1>3. faults' \in 0 .. MaxFaults
  BY <1>1, FaultsAreCounted
<1>4. SameRows
  BY <1>1, Zenon DEF SameRows
<1> QED
  BY <1>1, <1>2, <1>3, <1>4, QuietTurn, Zenon

LEMMA SweepsRest ==
  ASSUME RecordsAreSound, UNCHANGED <<book, ext, row, vault, remote, prep, sweep>>,
         Fault \/ faults' = faults
  PROVE  RecordsAreSound'
<1>1. "prep" \in Callers /\ "idle" \in Passive
  BY DEF Callers, Passive
<1> QED
  BY <1>1, SweepAtRest, CommandIsQuiet, Zenon

LEMMA BeginAdminRecords ==
  ASSUME RecordsAreSound, NEW a \in Admins, NEW op, NEW p, BeginAdmin(a, op, p)
  PROVE  RecordsAreSound'
<1> DEFINE files == OfProfile(p, Sweepable)
<1>1. /\ UNCHANGED <<book, ext, row, vault, remote, prep, faults>>
      /\ sweep' = [sweep EXCEPT ![a] = Sweeping(files)]
  BY Zenon DEF BeginAdmin, store, bounds
<1>2. files \in SUBSET Files /\ \A f \in files : row[f] # None
  BY TrackedFiles DEF RecordsAreSound, FilesAreSound
<1>3. Sweeping(files) \in Sweeps /\ Sweeping(files).pc = "recover" /\ Sweeping(files).todo = files
  BY <1>2, SweepBegins
<1>4. a \in Callers /\ "recover" \in Passive
  BY DEF Callers, Passive
<1> QED
  BY <1>1, <1>2, <1>3, <1>4, CommandIsQuiet, Zenon

LEMMA CheckResolvedRecords ==
  ASSUME RecordsAreSound, NEW a \in Admins, CheckResolved(a)
  PROVE  RecordsAreSound'
<1>1. /\ UNCHANGED <<book, ext, row, vault, remote, prep, faults>>
      /\ sweep' = [sweep EXCEPT ![a] = AtRest]
  BY Zenon DEF CheckResolved, store, bounds
<1>2. a \in Callers /\ "idle" \in Passive
  BY DEF Callers, Passive
<1> QED
  BY <1>1, <1>2, SweepAtRest, CommandIsQuiet, Zenon

LEMMA EndBookSweepRecords ==
  ASSUME RecordsAreSound, EndBookSweep
  PROVE  RecordsAreSound'
<1>1. /\ UNCHANGED <<book, ext, row, vault, remote, prep, faults>>
      /\ sweep' = [sweep EXCEPT !["book"] = AtRest]
  BY Zenon DEF EndBookSweep, store, bounds
<1>2. "book" \in Callers /\ "idle" \in Passive
  BY DEF Callers, Passive
<1> QED
  BY <1>1, <1>2, SweepAtRest, CommandIsQuiet, Zenon

LEMMA AdminRecords ==
  ASSUME RecordsAreSound, NEW a \in Admins,
         EnterDeletion(a) \/ ChangeSecret(a) \/ RestoreSecret(a) \/ \E p \in Profiles : BeginSave(a, p)
  PROVE  RecordsAreSound'
<1>1. /\ UNCHANGED <<book, ext, row, vault, remote, prep, sweep>>
      /\ Fault \/ faults' = faults
  <2>1. CASE EnterDeletion(a)
    BY <2>1, Zenon DEF EnterDeletion, store, bounds
  <2>2. CASE ChangeSecret(a)
    BY <2>2, Zenon DEF ChangeSecret
  <2>3. CASE RestoreSecret(a)
    BY <2>3, Zenon DEF RestoreSecret
  <2>4. CASE \E p \in Profiles : BeginSave(a, p)
    BY <2>4, Zenon DEF BeginSave, bounds
  <2> QED
    BY <2>1, <2>2, <2>3, <2>4
<1> QED
  BY <1>1, SweepsRest, Zenon

(* Rows that change in their owner or their extraction only.               *)
LEMMA RowsRewritten ==
  ASSUME FileTypes, row' = [f \in Files |-> row'[f]],
         \A f \in Files : \/ row'[f] = row[f]
                          \/ /\ row[f] # None
                             /\ \/ \E p \in Profiles \cup {None} : row'[f] = [row[f] EXCEPT !.owner = p]
                                \/ \E b \in BOOLEAN : row'[f] = [row[f] EXCEPT !.ext = b]
  PROVE  row' \in [Files -> Resources \cup {None}] /\ SameRows
<1>1. ASSUME NEW f \in Files
      PROVE  /\ row'[f] \in Resources \cup {None}
             /\ row'[f] = None <=> row[f] = None
             /\ row[f] # None => row'[f].status = row[f].status /\ row'[f].count = row[f].count
  <2> DEFINE B == BOOLEAN
  <2>2. CASE row'[f] = row[f]
    BY <2>2, SMT DEF FileTypes
  <2>3. CASE row[f] # None /\ \E p \in Profiles \cup {None} : row'[f] = [row[f] EXCEPT !.owner = p]
    <3>1. row[f] \in [status : Unresolved \cup {"succeeded"}, owner : Profiles \cup {None}, count : 0 .. MaxClaims, ext : B]
      BY <2>3, RowFacts DEF Resources
    <3> HIDE DEF B
    <3>2. PICK p \in Profiles \cup {None} : row'[f] = [row[f] EXCEPT !.owner = p]
      BY <2>3
    <3>3. /\ row'[f] \in [status : Unresolved \cup {"succeeded"}, owner : Profiles \cup {None}, count : 0 .. MaxClaims, ext : B]
          /\ row'[f].status = row[f].status /\ row'[f].count = row[f].count
      BY <3>1, <3>2, RowOrphaned, Zenon
    <3>4. row'[f] \in Resources /\ row'[f] # None
      BY <3>3, RowAssumption DEF Resources, B
    <3> QED
      BY <2>3, <3>3, <3>4, Zenon
  <2>4. CASE row[f] # None /\ \E b \in BOOLEAN : row'[f] = [row[f] EXCEPT !.ext = b]
    <3>1. row[f] \in [status : Unresolved \cup {"succeeded"}, owner : Profiles \cup {None}, count : 0 .. MaxClaims, ext : B]
      BY <2>4, RowFacts DEF Resources
    <3>2. PICK b \in B : row'[f] = [row[f] EXCEPT !.ext = b]
      BY <2>4
    <3> HIDE DEF B
    <3>3. /\ row'[f] \in [status : Unresolved \cup {"succeeded"}, owner : Profiles \cup {None}, count : 0 .. MaxClaims, ext : B]
          /\ row'[f].status = row[f].status /\ row'[f].count = row[f].count
      BY <3>1, <3>2, RowDetached, Zenon
    <3>4. row'[f] \in Resources /\ row'[f] # None
      BY <3>3, RowAssumption DEF Resources, B
    <3> QED
      BY <2>4, <3>3, <3>4, Zenon
  <2> QED
    BY <2>2, <2>3, <2>4, Zenon
<1>2. SameRows
  BY <1>1, Zenon DEF SameRows
<1>3. row' \in [Files -> Resources \cup {None}]
  BY <1>1, SMT
<1> QED
  BY <1>2, <1>3

LEMMA ChangeProfileRecords ==
  ASSUME RecordsAreSound, NEW a \in Admins, ChangeProfile(a)
  PROVE  RecordsAreSound'
<1> USE DEF RecordsAreSound, FilesAreSound
<1> DEFINE p == admin[a].profile
<1>1. UNCHANGED <<book, vault, remote, prep, sweep>> /\ (Fault \/ faults' = faults)
  BY Zenon DEF ChangeProfile
<1>2. CASE UNCHANGED <<ext, row>>
  BY <1>1, <1>2, SweepsRest, Zenon
<1>3. CASE /\ ext' = IF ext # None /\ ext.owner = p THEN [ext EXCEPT !.owner = None] ELSE ext
           /\ row' = [f \in Files |-> IF row[f] # None /\ row[f].owner = p
                                      THEN [row[f] EXCEPT !.owner = None] ELSE row[f]]
  <2>1. FileTypes /\ UNCHANGED <<vault, atProvider, uploader, confirmed, prep>>
        /\ prep' \in Preps /\ (prep'.pc # "idle" => prep'.profile \in Profiles) /\ book' \in BOOLEAN
    BY <1>1, Zenon DEF FileTypes, remote
  <2>2. faults' \in 0 .. MaxFaults
    BY <1>1, FaultsAreCounted
  <2>3. ext' = None \/ ext' \in Exts
    <3>1. CASE ext # None /\ ext.owner = p
      <4>1. ext \in Exts /\ ext' = [ext EXCEPT !.owner = None]
        BY <1>3, <3>1, Zenon DEF FileTypes
      <4>2. None \in Profiles \cup {None}
        OBVIOUS
      <4> QED
        BY <4>1, <4>2, ExtOrphaned, Zenon DEF Exts
    <3>2. CASE ~(ext # None /\ ext.owner = p)
      BY <1>3, <3>2, Zenon DEF FileTypes
    <3> QED
      BY <3>1, <3>2
  <2> DEFINE G(f) == IF row[f] # None /\ row[f].owner = p THEN [row[f] EXCEPT !.owner = None] ELSE row[f]
  <2>4. \A f \in Files : \/ G(f) = row[f]
                         \/ row[f] # None /\ \E q \in Profiles \cup {None} : G(f) = [row[f] EXCEPT !.owner = q]
    BY Zenon
  <2>5. row' = [f \in Files |-> G(f)]
    BY <1>3
  <2> HIDE DEF G
  <2>6. row' = [f \in Files |-> row'[f]] /\ \A f \in Files : row'[f] = G(f)
    BY <2>5, Zenon
  <2>7. row' \in [Files -> Resources \cup {None}] /\ SameRows
    BY <2>1, <2>4, <2>6, RowsRewritten, Zenon
  <2>8. "prep" \in Callers /\ "idle" \in Passive
    BY DEF Callers, Passive
  <2> QED
    BY <1>1, <2>1, <2>2, <2>3, <2>7, <2>8, QuietTurn, SweepAtRest, Zenon
<1> QED
  BY <1>2, <1>3, Zenon DEF ChangeProfile

LEMMA DeleteBookRecords ==
  ASSUME RecordsAreSound, DeleteBook
  PROVE  RecordsAreSound'
<1> USE DEF RecordsAreSound, FilesAreSound
<1> DEFINE files == Tracked(Unresolved)
           G(f) == IF row[f] = None THEN None ELSE [row[f] EXCEPT !.ext = FALSE]
<1>1. /\ FileTypes /\ book' = FALSE /\ ext' = None
      /\ UNCHANGED <<vault, atProvider, uploader, confirmed, prep, faults>>
      /\ sweep' = sweep \/ sweep' = [sweep EXCEPT !["book"] = Sweeping(files)]
      /\ row' = [f \in Files |-> G(f)]
  BY Zenon DEF DeleteBook, remote, bounds
<1>2. files \in SUBSET Files /\ \A f \in files : row[f] # None
  BY TrackedFiles
<1>3. Sweeping(files) \in Sweeps /\ Sweeping(files).pc = "recover" /\ Sweeping(files).todo = files
  BY <1>2, SweepBegins
<1>4. "book" \in Callers /\ "recover" \in Passive
  BY DEF Callers, Passive
<1>5. \A f \in Files : \/ G(f) = row[f]
                       \/ row[f] # None /\ \E b \in BOOLEAN : G(f) = [row[f] EXCEPT !.ext = b]
  BY Zenon
<1> HIDE DEF G
<1>6. row' = [f \in Files |-> row'[f]] /\ \A f \in Files : row'[f] = G(f)
  BY <1>1, Zenon
<1>7. row' \in [Files -> Resources \cup {None}] /\ SameRows
  BY <1>1, <1>5, <1>6, RowsRewritten, Zenon
<1>8. prep' \in Preps /\ (prep'.pc # "idle" => prep'.profile \in Profiles) /\ faults' \in 0 .. MaxFaults
      /\ book' \in BOOLEAN
  BY <1>1, Zenon DEF FileTypes
<1> DEFINE u == Sweeping(files)
<1>9. u \in Sweeps /\ u.pc \in Passive /\ \A f \in u.todo : row[f] # None
  BY <1>2, <1>3, <1>4, Zenon
<1>10. /\ sweep' = sweep \/ sweep' = [sweep EXCEPT !["book"] = u]
       /\ ext' = None \/ ext' \in Exts
       /\ prep' = prep \/ prep'.pc \notin Uploading
       /\ UNCHANGED <<vault, atProvider, uploader, confirmed>>
  BY <1>1, Zenon
<1> HIDE DEF u
<1> QED
  BY <1>4, <1>7, <1>8, <1>9, <1>10, QuietTurn, Zenon

LEMMA RestartRecords ==
  ASSUME RecordsAreSound, Restart
  PROVE  RecordsAreSound'
<1> USE DEF RecordsAreSound, FilesAreSound
<1> DEFINE done == {f \in Tracked({"cleaning"}) : vault[f] = "marker"}
           resumed == IF OfExtraction(Unresolved) # {} THEN "processing" ELSE "queued"
           G(f) == IF f \in done THEN [row[f] EXCEPT !.status = "succeeded"] ELSE row[f]
<1>1. /\ FileTypes /\ Fault /\ prep' = NoPrep /\ sweep' = [w \in Callers |-> AtRest]
      /\ UNCHANGED <<book, atProvider, uploader, confirmed>>
      /\ row' = [f \in Files |-> G(f)]
      /\ vault' = [f \in Files |-> IF f \in done THEN "none" ELSE vault[f]]
      /\ ext' = IF ext # None /\ ext.status \in {"uploading", "processing", "downloading"}
                THEN [ext EXCEPT !.status = resumed] ELSE ext
  BY Zenon DEF Restart, remote
<1>2. done \subseteq Files /\ \A f \in Files : f \in done => row[f] # None /\ row[f].status = "cleaning" /\ vault[f] = "marker"
  BY Zenon DEF Tracked
<1>3. ASSUME NEW f \in Files
      PROVE  /\ row'[f] \in Resources \cup {None}
             /\ row'[f] = None <=> row[f] = None
             /\ f \notin done => row'[f] = row[f]
             /\ f \in done => row'[f].status = "succeeded"
  <2> DEFINE B == BOOLEAN
  <2>1. row'[f] = G(f)
    BY <1>1, Zenon
  <2>2. CASE f \notin done
    BY <1>1, <2>1, <2>2, SMT DEF FileTypes
  <2>3. CASE f \in done
    <3>1. row[f] \in [status : Unresolved \cup {"succeeded"}, owner : Profiles \cup {None}, count : 0 .. MaxClaims, ext : B]
      BY <1>1, <1>2, <2>3, RowFacts DEF Resources
    <3>2. G(f) = [row[f] EXCEPT !.status = "succeeded"]
      BY <2>3, Zenon
    <3>3. "succeeded" \in Unresolved \cup {"succeeded"}
      OBVIOUS
    <3> HIDE DEF B, G
    <3>4. /\ G(f) \in [status : Unresolved \cup {"succeeded"}, owner : Profiles \cup {None}, count : 0 .. MaxClaims, ext : B]
          /\ G(f).status = "succeeded"
      BY <3>1, <3>2, <3>3, RowMoved, Zenon
    <3>5. G(f) \in Resources /\ G(f) # None
      BY <3>4, RowAssumption DEF Resources, B
    <3> QED
      BY <1>2, <2>1, <2>3, <3>4, <3>5, Zenon
  <2> QED
    BY <2>2, <2>3
<1>4. \A f \in Files : vault'[f] = IF f \in done THEN "none" ELSE vault[f]
  BY <1>1, Zenon
<1>5. vault' \in [Files -> {"none", "id", "marker"}]
  BY <1>1, SMT DEF FileTypes
<1>6. row' \in [Files -> Resources \cup {None}]
  BY <1>1, <1>3, SMT
<1>7. ext' = None \/ ext' \in Exts
  <2>1. resumed \in ExtStatus
    BY DEF ExtStatus
  <2> HIDE DEF resumed
  <2>2. CASE ext # None /\ ext.status \in {"uploading", "processing", "downloading"}
    <3>1. ext \in Exts /\ ext' = [ext EXCEPT !.status = resumed]
      BY <1>1, <2>2, Zenon DEF FileTypes
    <3> QED
      BY <2>1, <3>1, ExtMoved, Zenon DEF Exts
  <2>3. CASE ~(ext # None /\ ext.status \in {"uploading", "processing", "downloading"})
    BY <1>1, <2>3, Zenon DEF FileTypes
  <2> QED
    BY <2>2, <2>3
<1>8. /\ prep' \in Preps /\ prep'.pc = "idle"
      /\ sweep' \in [Callers -> Sweeps] /\ \A w \in Callers : sweep'[w].pc = "idle" /\ sweep'[w].todo = {}
  BY <1>1, PrepAtRest, SweepAtRest, SMT
<1>9. faults' \in 0 .. MaxFaults
  BY <1>1, FaultsAreCounted
<1>10. UNCHANGED <<book, atProvider, uploader, confirmed>>
  BY <1>1
<1> HIDE DEF done, G, resumed
<1>11. FileTypes'
  BY <1>5, <1>6, <1>7, <1>8, <1>9, <1>10, SMT DEF FileTypes
<1>12. UploadsAreSound'
  BY <1>2, <1>3, <1>4, <1>8, <1>10, SMT DEF UploadsAreSound
<1>13. ClaimsAreSound'
  BY <1>8, SMT DEF ClaimsAreSound, Active, Claiming, Ending
<1>14. MarkersAreSound'
  <2>1. \A f \in Files : vault'[f] = "marker" => row'[f] # None /\ row'[f].status \in {"cleaning", "succeeded"}
    BY <1>3, <1>4, SMT DEF MarkersAreSound, Settled
  <2> QED
    BY <1>8, <2>1, SMT DEF MarkersAreSound, Settled, Active, Claiming, Ending
<1>15. ConfirmedIsSettled'
  BY <1>3, <1>8, <1>10, SMT DEF ConfirmedIsSettled, FileTypes, Active, Claiming
<1>16. Trusted => GoneIsGone' /\ TrackedUntilDeleted'
  <2> SUFFICES ASSUME Trusted PROVE GoneIsGone' /\ TrackedUntilDeleted'
    OBVIOUS
  <2>1. GoneIsGone'
    BY <1>4, <1>8, <1>10, SMT DEF GoneIsGone, Ending
  <2>2. TrackedUntilDeleted'
    BY <1>2, <1>3, <1>4, <1>10, SMT DEF TrackedUntilDeleted, FileTypes
  <2> QED
    BY <2>1, <2>2
<1> QED
  BY <1>11, <1>12, <1>13, <1>14, <1>15, <1>16 DEF Trusted

-----------------------------------------------------------------------------
LEMMA RecordsHoldInitially == Init => RecordsAreSound
<1> SUFFICES ASSUME Init PROVE RecordsAreSound
  OBVIOUS
<1>1. /\ book = TRUE /\ ext = None /\ row = [f \in Files |-> None]
      /\ vault = [f \in Files |-> "none"]
      /\ atProvider = {} /\ uploader = [f \in Files |-> None] /\ confirmed = {}
      /\ prep = NoPrep /\ sweep = [w \in Callers |-> AtRest] /\ faults = 0
  BY Zenon DEF Init
<1>2. FileTypes
  <2>1. sweep \in [Callers -> Sweeps]
    BY <1>1, SweepAtRest, Zenon
  <2>2. prep \in Preps /\ prep.pc = "idle"
    BY <1>1, PrepAtRest, Zenon
  <2> QED
    BY <1>1, <2>1, <2>2, BoundAssumption, SMT DEF FileTypes
<1>3. /\ \A w \in Callers : sweep[w].pc = "idle" /\ sweep[w].todo = {}
      /\ prep.pc = "idle"
  BY <1>1, SweepAtRest, PrepAtRest, Zenon
<1>4. UploadsAreSound
  BY <1>1, <1>3, SMT DEF UploadsAreSound
<1>5. ClaimsAreSound
  BY <1>3, SMT DEF ClaimsAreSound, Active, Claiming, Ending
<1>6. MarkersAreSound /\ ConfirmedIsSettled
  BY <1>1, <1>3, SMT DEF MarkersAreSound, ConfirmedIsSettled, Claiming, Ending
<1>7. GoneIsGone /\ TrackedUntilDeleted
  BY <1>1, <1>3, SMT DEF GoneIsGone, TrackedUntilDeleted, Ending
<1> QED
  BY <1>2, <1>4, <1>5, <1>6, <1>7 DEF RecordsAreSound, FilesAreSound

LEMMA RecordsInvariance ==
  KeysAreSound /\ RecordsAreSound /\ [Next]_vars => RecordsAreSound'
<1> SUFFICES ASSUME KeysAreSound, RecordsAreSound, [Next]_vars PROVE RecordsAreSound'
  OBVIOUS
<1>1. ASSUME NEW w \in Callers, SweepStep(w) PROVE RecordsAreSound'
  BY <1>1, FindMarkerRecords, BeginCleanupRecords, LoadHandleRecords, ClaimRecords, SkipClaimedRecords,
     DeleteRemoteRecords, SetMarkerRecords, MarkSucceededRecords, ForgetHandleRecords,
     MarkFailedRecords, Zenon DEF SweepStep
<1>2. CASE PrepareStep
  <2>1. KeyTypes
    BY DEF KeysAreSound
  <2> QED
    BY <1>2, <2>1, BeginPrepareRecords, RebindRecords, LoadKeyRecords, UploadRecords,
       StoreInVaultRecords, StoreRowRecords, CompensateRecords, PollRecords, DownloadRecords,
       EndPrepareRecords, Zenon DEF PrepareStep
<1>3. ASSUME NEW a \in Admins, AdminStep(a) PROVE RecordsAreSound'
  BY <1>3, BeginAdminRecords, CheckResolvedRecords, ChangeProfileRecords, AdminRecords, Zenon
     DEF AdminStep
<1>4. CASE UNCHANGED vars
  <2>1. /\ UNCHANGED <<book, ext, row, vault, remote, prep, sweep>>
        /\ Fault \/ faults' = faults
    BY <1>4, Zenon DEF vars, store, process, bounds
  <2> QED
    BY <2>1, SweepsRest, Zenon
<1> QED
  BY <1>1, <1>2, <1>3, <1>4, DeleteBookRecords, EndBookSweepRecords, RestartRecords, Zenon
     DEF Next, AllQuiet

(* Both parts together are inductive. *)
THEOREM SoundnessIsInvariant == Spec => [](KeysAreSound /\ RecordsAreSound)
<1>1. Init => KeysAreSound /\ RecordsAreSound
  BY KeysHoldInitially, RecordsHoldInitially
<1>2. KeysAreSound /\ RecordsAreSound /\ [Next]_vars => (KeysAreSound /\ RecordsAreSound)'
  BY KeysInvariance, RecordsInvariance
<1> QED
  BY <1>1, <1>2, PTL DEF Spec

(* The variables keep their types. *)
THEOREM TypeCorrect == Spec => []TypeOK
<1>1. KeysAreSound /\ RecordsAreSound => TypeOK
  BY Zenon DEF KeysAreSound, KeyTypes, RecordsAreSound, FilesAreSound, FileTypes, TypeOK, Exts, ExtStatus
<1> QED
  BY <1>1, SoundnessIsInvariant, PTL

(* However the commands on profiles interleave and whichever one write     *)
(* fails, a profile has its key in the vault and a key has its profile,    *)
(* unless a kill or a second failure parted them.                          *)
THEOREM KeysFollowProfiles == Spec => []KeyFollowsItsProfile
<1>1. KeysAreSound /\ RecordsAreSound => KeyFollowsItsProfile
  BY DEF KeysAreSound
<1> QED
  BY <1>1, SoundnessIsInvariant, PTL

(* A sweep never asks again for a deletion the provider has confirmed:     *)
(* whoever has the row's claim has not been told, and no claim of a row    *)
(* succeeds once its deletion is confirmed.                                *)
THEOREM ConfirmedIsNotDeletedAgain == Spec => []NeverDeletedTwice
<1>1. KeysAreSound /\ RecordsAreSound => NeverDeletedTwice
  <2> SUFFICES ASSUME RecordsAreSound, NEW w \in Callers, sweep[w].pc = "deleting"
               PROVE  sweep[w].file \notin confirmed
    BY Zenon DEF NeverDeletedTwice
  <2>1. sweep[w].file \in Files /\ row[sweep[w].file] # None /\ Active(w, sweep[w].file)
    BY SMT DEF RecordsAreSound, FilesAreSound, ClaimsAreSound, Claiming, Active
  <2> QED
    BY <2>1, SMT DEF RecordsAreSound, FilesAreSound, ConfirmedIsSettled
<1> QED
  BY <1>1, SoundnessIsInvariant, PTL

(* If the provider never answers "not found" for a file it has, every file *)
(* at the provider that has a row is unresolved there and its id is in the *)
(* vault: it can still be found and deleted.                               *)
THEOREM FilesStayOnRecord ==
  ASSUME "missing" \notin ForeignAnswers
  PROVE  Spec => []TrackedUntilDeleted
<1>1. KeysAreSound /\ RecordsAreSound => TrackedUntilDeleted
  BY DEF RecordsAreSound, Trusted
<1> QED
  BY <1>1, SoundnessIsInvariant, PTL
=============================================================================

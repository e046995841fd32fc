--------------------- MODULE LearningPreparationProofs ---------------------
(***************************************************************************)
(* What is proved about LearningPreparation for every set of preparations, *)
(* commands and libraries and every bound: its types, that a question is   *)
(* started once at most and only as it was prepared and agreed to, that a  *)
(* prompt is what the packing promises, and when a paid answer is lost.    *)
(*                                                                         *)
(* The argument: a preparation is written by the command that prepares it, *)
(* which is alone with it, and never again (CallsAreSound).  The revisions *)
(* of a profile and of a book only grow until their rows are gone, so that *)
(* one that is found twice was there all the time in between; a start      *)
(* finds it when it reads the consents or finds it changed when it reads   *)
(* it after them (StartsAreSound).                                         *)
(*                                                                         *)
(* A prompt is always what its preparation packs to (PromptsArePacked), so *)
(* that the rest is about the packing alone: the candidates have one order *)
(* (Sorted) and one way to drop their repeats (Kept), and the longest part *)
(* that fits is followed by one that does not (LongestFits).               *)
(*                                                                         *)
(* The last part is about LearningStream, what becomes of a question that  *)
(* was started: a snapshot under way is a beginning of the entry's text    *)
(* (ReplyIsPast), so that one whose number is not below the view's has all *)
(* that the view shows.                                                    *)
(***************************************************************************)
EXTENDS LearningPreparation, LearningStream, FiniteSetTheorems, SequenceTheorems,
        WellFoundedInduction, TLAPS

Fields == {"kind", "mode", "language", "profile", "book", "library", "pairs",
           "consents", "asks", "sent"}

LEMMA FieldsOfNothing == DOMAIN Nothing = Fields
BY Zenon DEF Nothing, Fields

-----------------------------------------------------------------------------
(* The revision v is no longer, or may still be, the one of a row that is  *)
(* at revision x.                                                          *)
Past(x, v) == x = 0 \/ x > v
Behind(x, v) == v > 0 /\ (x = v \/ Past(x, v))
Moves(x, y) == y = x \/ y = 0 \/ (x > 0 /\ y > x)

(* The preparation was gathered from rows that were there. *)
ProfileRead(p) == Behind(world.profile, prepared[p].profile)
BookRead(p) == Behind(world.book, prepared[p].book)
Settled(p) == prepared[p].kind \in Kinds /\ ProfileRead(p) /\ BookRead(p)

NotStarted(p) == request[p] = "none" /\ agreed[p] = <<>>

(* How far a command has read. *)
ProfileFirst(kind) == IF kind = "book" THEN 1 ELSE 2
BookFirst(kind) == IF kind = "book" THEN 1 ELSE 3
Whole(kind) == IF kind = "book" THEN 1 ELSE 4
ConsentsAt(kind) == IF kind = "book" THEN 3 ELSE 5
ProfileAgain(kind) == IF kind = "book" THEN 4 ELSE 7
BookAgain(kind) == IF kind = "book" THEN 4 ELSE 8

(* A preparing command is alone with its preparation; the others work on   *)
(* one that is settled.                                                    *)
Preparing(c) ==
  LET p == call[c].prep
      kind == prepared[p].kind
  IN  /\ kind \in Kinds
      /\ ~entries[p].live /\ NotStarted(p)
      /\ \A d \in Calls : d # c => call[d].op = None \/ call[d].prep # p
      /\ call[c].at > ProfileFirst(kind) => ProfileRead(p)
      /\ call[c].at > BookFirst(kind) => BookRead(p)

CallIsSound(c) ==
  call[c].op # None =>
    /\ call[c].prep \in Preparations /\ call[c].at > 0
    /\ IF call[c].op = "prepare" THEN Preparing(c) ELSE Settled(call[c].prep)

CallsAreSound == \A c \in Calls : CallIsSound(c)

EntryIsSound(p) ==
  /\ entries[p].live => Settled(p) /\ NotStarted(p)
  /\ prepared[p].kind = None =>
       /\ ~entries[p].live /\ NotStarted(p)
       /\ \A c \in Calls : call[c].op # None => call[c].prep # p

EntriesAreSound == \A p \in Preparations : EntryIsSound(p)

(* What a start has seen when it read the consents. *)
Seen(c) ==
  LET d == prepared[call[c].prep]
      seen == call[c].seen
  IN  /\ seen \in RowsSeen
      /\ seen.consents = d.consents
      /\ seen.profile = d.profile \/ Past(world.profile, d.profile)
      /\ seen.book = d.book \/ Past(world.book, d.book)

StartIsSound(c) ==
  call[c].op = "start" =>
    LET d == prepared[call[c].prep] IN
    /\ call[c].at > ConsentsAt(d.kind) => Seen(c)
    /\ call[c].at > ProfileAgain(d.kind) => call[c].seen.profile = d.profile
    /\ call[c].at > BookAgain(d.kind) => call[c].seen.book = d.book

StartsAreSound == \A c \in Calls : StartIsSound(c)

AgreedTo(p) ==
  request[p] # "none" =>
    /\ ~entries[p].live /\ prepared[p].kind \in Kinds
    /\ agreed[p] = <<[profile |-> prepared[p].profile,
                      book |-> prepared[p].book,
                      consents |-> prepared[p].consents]>>
    /\ MustAuthorize(p) => entries[p].token > 0 \/ entries[p].authorized
    /\ prepared[p].kind = "region" => entries[p].token > 0 /\ entries[p].image

Inv ==
  /\ TypeOK
  /\ CallsAreSound
  /\ EntriesAreSound
  /\ StartsAreSound
  /\ \A p \in Preparations : AgreedTo(p)

LEMMA NoneDiffers ==
  /\ None \notin {"text", "region", "book", "prepare", "authorize", "stage", "start"}
  /\ None \notin Kinds /\ None \notin Operations
BY NoneAssumption DEF Kinds, Operations

-----------------------------------------------------------------------------
(* What a command reads, spelled out. *)
LEMMA CheckingParts ==
  ASSUME NEW kind
  PROVE  LET s == Checking(kind) IN
         IF kind = "book"
         THEN /\ Len(s) = 4
              /\ s[1] = "snapshot" /\ s[2] = "credential"
              /\ s[3] = "consents" /\ s[4] = "snapshot"
         ELSE /\ Len(s) = 8
              /\ s[1] = "settings" /\ s[2] = "profile" /\ s[3] = "book"
              /\ s[4] = "credential" /\ s[5] = "consents"
              /\ s[6] = "settings" /\ s[7] = "profile" /\ s[8] = "book"
<1>1. CASE kind = "book"
    <2>1. Reads(kind) = <<"snapshot">>
        BY <1>1 DEF Reads
    <2> QED BY <1>1, <2>1 DEF Checking
<1>2. CASE kind # "book"
    <2>1. Reads(kind) = <<"settings", "profile", "book">>
        BY <1>2 DEF Reads
    <2> QED BY <1>2, <2>1 DEF Checking
<1> QED BY <1>1, <1>2

\* Where a start reads the consents, and the profile and the book after them.
LEMMA StartParts ==
  ASSUME NEW c \in Calls, call[c].op # "prepare",
         call[c].at \in Nat, call[c].at > 0
  PROVE  LET kind == prepared[call[c].prep].kind IN
         /\ Len(Steps(c)) = BookAgain(kind)
         /\ call[c].at <= Len(Steps(c)) =>
              /\ Part(c) = "consents" <=> call[c].at = ConsentsAt(kind)
              /\ call[c].at = ProfileAgain(kind) =>
                   Part(c) \in {"profile", "snapshot"}
              /\ call[c].at = BookAgain(kind) => Part(c) \in {"book", "snapshot"}
<1> DEFINE kind == prepared[call[c].prep].kind
           at == call[c].at
<1>1. Steps(c) = Checking(kind)
    BY DEF Steps
<1>2. CASE kind = "book"
    <2>1. at <= 4 => at = 1 \/ at = 2 \/ at = 3 \/ at = 4
        OBVIOUS
    <2> QED BY <1>1, <1>2, <2>1, CheckingParts DEF Part, ConsentsAt, ProfileAgain, BookAgain
<1>3. CASE kind # "book"
    <2>1. at <= 8 => at = 1 \/ at = 2 \/ at = 3 \/ at = 4 \/ at = 5 \/ at = 6 \/ at = 7 \/ at = 8
        OBVIOUS
    <2> QED BY <1>1, <1>3, <2>1, CheckingParts, SMTT(30) DEF Part, ConsentsAt, ProfileAgain, BookAgain
<1> QED BY <1>2, <1>3

\* Where prepare reads the profile and the book it prepares from.
LEMMA GatheringParts ==
  ASSUME NEW c \in Calls, call[c].op = "prepare",
         call[c].at \in Nat, call[c].at > 0
  PROVE  LET kind == prepared[call[c].prep].kind IN
         /\ Len(Gathering(kind)) = Whole(kind)
         /\ Len(Steps(c)) > Whole(kind)
         /\ call[c].at <= Whole(kind) =>
              IF kind = "book" THEN call[c].at = 1 /\ Part(c) = "snapshot"
              ELSE \/ call[c].at = 1 /\ Part(c) = "settings"
                   \/ call[c].at = 2 /\ Part(c) = "profile"
                   \/ call[c].at = 3 /\ Part(c) = "book"
                   \/ call[c].at = 4 /\ Part(c) = "library"
<1> DEFINE kind == prepared[call[c].prep].kind
           at == call[c].at
<1>1. Steps(c) = Gathering(kind) \o Checking(kind)
    BY DEF Steps
<1>2. CASE kind = "book"
    <2>1. Reads(kind) = <<"snapshot">>
        BY <1>2 DEF Reads
    <2>2. Gathering(kind) = <<"snapshot">>
        BY <1>2 DEF Gathering
    <2>3. Checking(kind) = <<"snapshot">> \o <<"credential", "consents">> \o <<"snapshot">>
        BY <2>1 DEF Checking
    <2>4. Len(Steps(c)) = 5
        BY <1>1, <2>2, <2>3
    <2>5. Steps(c)[1] = "snapshot"
        BY <1>1, <2>2, <2>3
    <2>6. at <= 1 => at = 1
        OBVIOUS
    <2>7. Len(Gathering(kind)) = 1
        BY <2>2
    <2> QED BY <1>2, <2>4, <2>5, <2>6, <2>7 DEF Part, Whole
<1>3. CASE kind # "book"
    <2>1. Reads(kind) = <<"settings", "profile", "book">>
        BY <1>3 DEF Reads
    <2>2. Steps(c)[1] = "settings" /\ Steps(c)[2] = "profile"
        BY <1>1, <1>3, <2>1 DEF Gathering, Checking
    <2>3. Steps(c)[3] = "book" /\ Steps(c)[4] = "library"
        BY <1>1, <1>3, <2>1 DEF Gathering, Checking
    <2>4. Len(Gathering(kind)) = 4 /\ Len(Steps(c)) = 12
        BY <1>1, <1>3, <2>1 DEF Gathering, Checking
    <2>5. at <= 4 => at = 1 \/ at = 2 \/ at = 3 \/ at = 4
        OBVIOUS
    <2> QED BY <1>3, <2>2, <2>3, <2>4, <2>5 DEF Part, Whole
<1> QED BY <1>2, <1>3

-----------------------------------------------------------------------------
(* What changes in the world leaves the invariant alone. *)
LEMMA MoveIsPast ==
  ASSUME NEW x \in Nat, NEW y \in Nat, NEW v \in Nat, Moves(x, y)
  PROVE  /\ v > 0 /\ Past(x, v) => Past(y, v)
         /\ Behind(x, v) => Behind(y, v)
BY DEF Moves, Past, Behind

LEMMA AuthorizationKept ==
  ASSUME NEW p, prepared'[p] = prepared[p]
  PROVE  MustAuthorize(p)' <=> MustAuthorize(p)
BY DEF MustAuthorize, RisksOf

LEMMA WorldStep ==
  ASSUME Inv, TypeOK', UNCHANGED <<prepared, entries, call, request, agreed>>,
         Moves(world.profile, world'.profile), Moves(world.book, world'.book)
  PROVE  Inv'
<1>1. /\ {world.profile, world.book, world'.profile, world'.book} \subseteq Nat
      /\ \A p \in Preparations : prepared[p].profile \in Nat /\ prepared[p].book \in Nat
    BY DEF Inv, TypeOK
<1>2. \A p \in Preparations : /\ ProfileRead(p) => ProfileRead(p)'
                              /\ BookRead(p) => BookRead(p)'
                              /\ Settled(p) => Settled(p)'
    BY <1>1, MoveIsPast DEF ProfileRead, BookRead, Settled
<1>3. \A p \in Preparations : NotStarted(p)' <=> NotStarted(p)
    BY DEF NotStarted
<1>4. CallsAreSound'
    <2> SUFFICES ASSUME NEW c \in Calls PROVE CallIsSound(c)'
        BY DEF CallsAreSound
    <2> QED BY <1>2, <1>3 DEF Inv, CallsAreSound, CallIsSound, Preparing
<1>5. EntriesAreSound'
    BY <1>2, <1>3 DEF Inv, EntriesAreSound, EntryIsSound
<1>6. StartsAreSound'
    <2> SUFFICES ASSUME NEW c \in Calls, call[c].op = "start" PROVE StartIsSound(c)'
        BY DEF StartsAreSound, StartIsSound
    <2> DEFINE p == call[c].prep
    <2>1. p \in Preparations /\ Settled(p) /\ StartIsSound(c)
        BY NoneDiffers DEF Inv, CallsAreSound, CallIsSound, StartsAreSound
    <2>2. /\ Past(world.profile, prepared[p].profile) => Past(world'.profile, prepared[p].profile)
          /\ Past(world.book, prepared[p].book) => Past(world'.book, prepared[p].book)
        BY <1>1, <2>1, MoveIsPast DEF Settled, ProfileRead, BookRead, Behind
    <2>3. Seen(c) => Seen(c)'
        BY <2>2 DEF Seen
    <2> QED BY <2>1, <2>3 DEF StartIsSound
<1>7. \A p \in Preparations : AgreedTo(p)'
    BY AuthorizationKept DEF Inv, AgreedTo
<1> QED BY <1>4, <1>5, <1>6, <1>7 DEF Inv

-----------------------------------------------------------------------------
(* A command that writes no preparation. *)

\* A call that nobody touches stays sound, as long as nobody joins a
\* preparing command.
LEMMA OtherCalls ==
  ASSUME Inv, world' = world, NEW d \in Calls, call'[d] = call[d],
         call[d].op # None => prepared'[call[d].prep] = prepared[call[d].prep],
         call[d].op = "prepare" =>
           LET q == call[d].prep IN
           /\ entries'[q].live => entries[q].live
           /\ request'[q] = request[q] /\ agreed'[q] = agreed[q]
           /\ \A e \in Calls : e # d => call'[e].op = None \/ call'[e].prep # q
  PROVE  CallIsSound(d)' /\ StartIsSound(d)'
<1>1. CASE call[d].op = None
    BY <1>1, NoneDiffers DEF CallIsSound, StartIsSound
<1>2. CASE call[d].op = "prepare"
    <2>1. CallIsSound(d) /\ Preparing(d)
        BY <1>2, NoneDiffers DEF Inv, CallsAreSound, CallIsSound
    <2>2. Preparing(d)'
        BY <1>2, <2>1, NoneDiffers DEF Preparing, NotStarted, ProfileRead, BookRead
    <2> QED BY <1>2, <2>1, <2>2, NoneDiffers DEF CallIsSound, StartIsSound
<1>3. CASE call[d].op # None /\ call[d].op # "prepare"
    <2>1. CallIsSound(d) /\ StartIsSound(d) /\ Settled(call[d].prep)
        BY <1>3 DEF Inv, CallsAreSound, CallIsSound, StartsAreSound
    <2>2. Settled(call[d].prep)' /\ (Seen(d) => Seen(d)')
        BY <1>3, <2>1 DEF Settled, ProfileRead, BookRead, Seen
    <2>3. CallIsSound(d)'
        BY <1>3, <2>1, <2>2 DEF CallIsSound
    <2>4. StartIsSound(d)'
        BY <1>3, <2>1, <2>2 DEF StartIsSound
    <2> QED BY <2>3, <2>4
<1> QED BY <1>1, <1>2, <1>3

LEMMA CommandStep ==
  ASSUME Inv, TypeOK', UNCHANGED <<world, prepared, agreed>>, NEW c,
         \A d \in Calls \ {c} : call'[d] = call[d],
         c \in Calls => CallIsSound(c)' /\ StartIsSound(c)',
         c \in Calls => \/ call'[c].op = None
                        \/ \A d \in Calls \ {c} :
                             call[d].op = "prepare" => call[d].prep # call'[c].prep,
         c \in Calls /\ call'[c].op # None =>
           prepared[call'[c].prep].kind \in Kinds,
         \A p \in Preparations :
           /\ entries'[p].live => entries[p].live
           /\ ~entries[p].live => entries'[p] = entries[p]
           /\ request'[p] # request[p] => request[p] # "none" /\ request'[p] # "none"
  PROVE  Inv'
<1>1. \A d \in Calls : CallIsSound(d)' /\ StartIsSound(d)'
    <2> SUFFICES ASSUME NEW d \in Calls, d # c PROVE CallIsSound(d)' /\ StartIsSound(d)'
        BY DEF Inv
    <2>1. call[d].op = "prepare" =>
            LET q == call[d].prep IN
            /\ q \in Preparations /\ NotStarted(q) /\ ~entries[q].live
            /\ \A e \in Calls : e # d => call[e].op = None \/ call[e].prep # q
        BY NoneDiffers DEF Inv, CallsAreSound, CallIsSound, Preparing
    <2>2. call[d].op = "prepare" =>
            \A e \in Calls : e # d => call'[e].op = None \/ call'[e].prep # call[d].prep
        BY <2>1
    <2>3. call[d].op = "prepare" =>
            LET q == call[d].prep IN
            /\ entries'[q].live => entries[q].live
            /\ request'[q] = request[q] /\ agreed'[q] = agreed[q]
        BY <2>1 DEF NotStarted
    <2> QED BY <2>2, <2>3, OtherCalls
<1>2. EntriesAreSound'
    <2> SUFFICES ASSUME NEW p \in Preparations PROVE EntryIsSound(p)'
        BY DEF EntriesAreSound
    <2>1. EntryIsSound(p) /\ (NotStarted(p) => NotStarted(p)') /\ (Settled(p) => Settled(p)')
        BY DEF Inv, EntriesAreSound, NotStarted, Settled, ProfileRead, BookRead
    <2>2. prepared[p].kind = None => \A d \in Calls : call'[d].op # None => call'[d].prep # p
        BY <2>1, NoneDiffers DEF EntryIsSound
    <2> QED BY <2>1, <2>2 DEF EntryIsSound
<1>3. \A p \in Preparations : AgreedTo(p)'
    <2> SUFFICES ASSUME NEW p \in Preparations, request[p] # "none" PROVE AgreedTo(p)'
        BY DEF AgreedTo
    <2> QED BY AuthorizationKept DEF Inv, AgreedTo
<1> QED BY <1>1, <1>2, <1>3 DEF Inv, CallsAreSound, StartsAreSound

LEMMA Returned ==
  ASSUME Inv, NEW c \in Calls, Return(c)
  PROVE  /\ call'[c] = Idle /\ call'[c].op = None
         /\ \A d \in Calls \ {c} : call'[d] = call[d]
         /\ CallIsSound(c)' /\ StartIsSound(c)'
         /\ call' \in [Calls -> Command]
<1>1. /\ call'[c] = Idle /\ \A d \in Calls \ {c} : call'[d] = call[d]
      /\ call' \in [Calls -> Command]
    BY DEF Inv, TypeOK, Command, RowsSeen, Return, Idle
<1>2. call'[c].op = None
    BY <1>1 DEF Idle
<1> QED BY <1>1, <1>2, NoneDiffers DEF CallIsSound, StartIsSound

LEMMA BeginStep ==
  ASSUME Inv, NEW c \in Calls, NEW p \in Preparations,
         NEW op \in {"authorize", "stage", "start"}, Begin(c, p, op)
  PROVE  Inv'
<1>1. /\ call[c].op = None /\ entries[p].live /\ Settled(p)
      /\ UNCHANGED <<world, prepared, entries, request, agreed>>
    BY DEF Begin, Idle, Inv, EntriesAreSound, EntryIsSound
<1>2. /\ call'[c] = [op |-> op, prep |-> p, at |-> 1, token |-> entries[p].token, seen |-> None]
      /\ \A d \in Calls \ {c} : call'[d] = call[d]
      /\ entries[p].token \in Nat
    BY DEF Begin, Inv, TypeOK, Command, Entry
<1>3. TypeOK'
    BY <1>1, <1>2 DEF Begin, Inv, TypeOK, Command, RowsSeen, Operations
<1>4. /\ call'[c].op = op /\ call'[c].prep = p /\ call'[c].at = 1
    BY <1>2
<1>5. Settled(p)'
    BY <1>1 DEF Settled, ProfileRead, BookRead
<1>6. CallIsSound(c)' /\ StartIsSound(c)'
    BY <1>4, <1>5, NoneDiffers DEF CallIsSound, StartIsSound, ConsentsAt, ProfileAgain, BookAgain
<1>7. \A d \in Calls \ {c} : call[d].op = "prepare" => call[d].prep # p
    BY <1>1, NoneDiffers DEF Inv, CallsAreSound, CallIsSound, Preparing
<1>8. prepared[p].kind \in Kinds
    BY <1>1 DEF Settled
<1> QED BY <1>1, <1>2, <1>3, <1>4, <1>6, <1>7, <1>8, CommandStep

\* A call that reads on keeps its type, and so does an entry that is authorized.
LEMMA CallUpdate ==
  ASSUME NEW O, NEW P, NEW S,
         NEW r \in [op : O, prep : P, at : Nat, token : Nat, seen : S],
         NEW n \in Nat, NEW seen \in S
  PROVE  [r EXCEPT !.at = n, !.seen = seen]
           \in [op : O, prep : P, at : Nat, token : Nat, seen : S]
BY Zenon

LEMMA Advanced ==
  ASSUME Inv, NEW c \in Calls, Advance(c)
  PROVE  /\ call'[c].op = call[c].op /\ call'[c].prep = call[c].prep
         /\ call'[c].at = call[c].at + 1
         /\ \A d \in Calls \ {c} : call'[d] = call[d]
         /\ call' \in [Calls -> Command]
<1> DEFINE saw == IF Part(c) = "consents" THEN Rows ELSE call[c].seen
           next == call[c].at + 1
           n == [call[c] EXCEPT !.at = next, !.seen = saw]
<1>1. call' = [call EXCEPT ![c] = n]
    BY DEF Advance, Inv, TypeOK
<1>2. /\ saw \in RowsSeen \cup {None}
      /\ next \in Nat
      /\ call[c] \in Command
    BY DEF Inv, TypeOK, Command, RowsSeen, Rows
<1>3. n.op = call[c].op /\ n.prep = call[c].prep /\ n.at = call[c].at + 1
    BY <1>2
<1>4. n \in Command
    <2> HIDE DEF saw, next
    <2> QED BY <1>2, CallUpdate DEF Command
<1> HIDE DEF n
<1> QED BY <1>1, <1>3, <1>4 DEF Inv, TypeOK

LEMMA EntryUpdate ==
  ASSUME NEW B, NEW r \in [live : B, token : Nat, authorized : B, image : B], NEW b \in B
  PROVE  [r EXCEPT !.authorized = b] \in [live : B, token : Nat, authorized : B, image : B]
BY SMT

LEMMA CheckStep == ASSUME Inv, NEW c \in Calls, Check(c) PROVE Inv'
<1> DEFINE p == call[c].prep
           kind == prepared[p].kind
<1>1. /\ call[c] # Idle /\ call[c].at <= Len(Steps(c))
      /\ call[c].op = "prepare" => call[c].at > Len(Gathering(kind)) /\ Part(c) # "consents"
      /\ UNCHANGED <<world, prepared, request, agreed>>
    BY DEF Check, Checks
<1>2. CASE Return(c) /\ entries' = Removed(p)
    <2>0. entries' \in [Preparations -> Entry]
        BY <1>2, ZenonT(60) DEF Removed, Inv, TypeOK, Entry
    <2>1. TypeOK'
        BY <1>1, <1>2, <2>0, Returned DEF Inv, TypeOK
    <2>2. \A q \in Preparations : /\ entries'[q].live => entries[q].live
                                  /\ ~entries[q].live => entries'[q] = entries[q]
        BY <1>2 DEF Removed, Inv, TypeOK, Entry
    <2> QED BY <1>1, <1>2, <2>1, <2>2, Returned, CommandStep
<1>3. CASE Advance(c) /\ entries' = entries /\ Holds(prepared[p], Part(c))
    <2>1. /\ call'[c].op = call[c].op /\ call'[c].prep = p /\ call'[c].at = call[c].at + 1
          /\ call'[c].seen = IF Part(c) = "consents" THEN Rows ELSE call[c].seen
          /\ \A d \in Calls \ {c} : call'[d] = call[d]
          /\ Rows \in RowsSeen
        BY <1>3 DEF Advance, Inv, TypeOK, Command, RowsSeen, Rows
    <2>2. TypeOK'
        <3>1. call' \in [Calls -> Command]
            BY <1>3, Advanced
        <3> QED BY <1>1, <1>3, <3>1 DEF Inv, TypeOK
    <2>3. CASE call[c].op = None
        <3>1. CallIsSound(c)' /\ StartIsSound(c)' /\ call'[c].op = None
            BY <2>1, <2>3, NoneDiffers DEF CallIsSound, StartIsSound
        <3> QED BY <1>1, <1>3, <2>1, <2>2, <3>1, CommandStep
    <2>4. CASE call[c].op # None
        <3>1. p \in Preparations /\ call[c].at \in Nat /\ call[c].at > 0 /\ CallIsSound(c)
            BY <2>4 DEF Inv, TypeOK, Command, RowsSeen, CallsAreSound, CallIsSound
        <3>2. CallIsSound(c)'
            <4>1. CASE call[c].op = "prepare"
                <5>1. Preparing(c) /\ call[c].at > Whole(kind)
                    BY <1>1, <2>4, <3>1, <4>1, GatheringParts DEF CallIsSound
                <5>2. /\ kind \in Kinds /\ ~entries[p].live /\ NotStarted(p)
                      /\ \A d \in Calls : d # c => call[d].op = None \/ call[d].prep # p
                      /\ ProfileRead(p) /\ BookRead(p)
                    BY <3>1, <5>1 DEF Preparing, Whole, ProfileFirst, BookFirst
                <5>3. ProfileRead(p)' /\ BookRead(p)' /\ NotStarted(p)'
                    BY <1>1, <2>1, <5>2 DEF ProfileRead, BookRead, NotStarted
                <5>4. Preparing(c)'
                    BY <1>1, <1>3, <2>1, <5>2, <5>3 DEF Preparing
                <5> QED BY <2>1, <3>1, <4>1, <5>4 DEF CallIsSound
            <4>2. CASE call[c].op # "prepare"
                <5>1. Settled(p)
                    BY <2>4, <3>1, <4>2 DEF CallIsSound
                <5>2. Settled(p)'
                    BY <1>1, <2>1, <5>1 DEF Settled, ProfileRead, BookRead
                <5> QED BY <2>1, <3>1, <4>2, <5>2 DEF CallIsSound
            <4> QED BY <4>1, <4>2
        <3>3. StartIsSound(c)'
            <4> SUFFICES ASSUME call[c].op = "start" PROVE StartIsSound(c)'
                BY <2>1 DEF StartIsSound
            <4>1. Settled(p) /\ StartIsSound(c)
                BY <3>1, NoneDiffers DEF CallIsSound, Inv, StartsAreSound
            <4>2. /\ Part(c) = "consents" <=> call[c].at = ConsentsAt(kind)
                  /\ call[c].at = ProfileAgain(kind) => Part(c) \in {"profile", "snapshot"}
                  /\ call[c].at = BookAgain(kind) => Part(c) \in {"book", "snapshot"}
                BY <1>1, <3>1, StartParts
            <4>3. call'[c].at > ConsentsAt(kind) => Seen(c)'
                <5>1. CASE Part(c) = "consents"
                    <6>1. world.consents = prepared[p].consents
                        BY <1>3, <5>1 DEF Holds
                    <6>2. /\ Rows.consents = world.consents /\ Rows.profile = world.profile
                          /\ Rows.book = world.book
                        BY DEF Rows
                    <6> QED BY <1>1, <2>1, <4>1, <5>1, <6>1, <6>2
                            DEF Seen, Settled, ProfileRead, BookRead, Behind
                <5>2. CASE Part(c) # "consents"
                    <6>1. call'[c].at > ConsentsAt(kind) => call[c].at > ConsentsAt(kind)
                        BY <2>1, <3>1, <4>2, <5>2 DEF ConsentsAt
                    <6>2. Seen(c) => Seen(c)'
                        BY <1>1, <2>1, <5>2 DEF Seen
                    <6> QED BY <4>1, <6>1, <6>2 DEF StartIsSound
                <5> QED BY <5>1, <5>2
            <4>4. call'[c].at > ProfileAgain(kind) => call'[c].seen.profile = prepared[p].profile
                <5>1. CASE call[c].at = ProfileAgain(kind)
                    <6>1. world.profile = prepared[p].profile
                        BY <1>3, <4>2, <5>1 DEF Holds
                    <6>2. Seen(c) /\ Part(c) # "consents"
                        BY <4>1, <4>2, <5>1 DEF StartIsSound, ProfileAgain, ConsentsAt
                    <6>3. prepared[p].profile \in Nat /\ prepared[p].profile > 0
                        BY <3>1, <4>1 DEF Settled, ProfileRead, Behind, Inv, TypeOK
                    <6> QED BY <2>1, <6>1, <6>2, <6>3 DEF Seen, Past
                <5>2. CASE call[c].at # ProfileAgain(kind)
                    BY <2>1, <3>1, <4>1, <4>2, <5>2 DEF StartIsSound, ProfileAgain, ConsentsAt
                <5> QED BY <5>1, <5>2
            <4>5. call'[c].at > BookAgain(kind) => call'[c].seen.book = prepared[p].book
                <5>1. CASE call[c].at = BookAgain(kind)
                    <6>1. world.book = prepared[p].book
                        BY <1>3, <4>2, <5>1 DEF Holds
                    <6>2. Seen(c) /\ Part(c) # "consents"
                        BY <4>1, <4>2, <5>1 DEF StartIsSound, BookAgain, ConsentsAt
                    <6>3. prepared[p].book \in Nat /\ prepared[p].book > 0
                        BY <3>1, <4>1 DEF Settled, BookRead, Behind, Inv, TypeOK
                    <6> QED BY <2>1, <6>1, <6>2, <6>3 DEF Seen, Past
                <5>2. CASE call[c].at # BookAgain(kind)
                    BY <2>1, <3>1, <4>1, <4>2, <5>2 DEF StartIsSound, BookAgain, ConsentsAt
                <5> QED BY <5>1, <5>2
            <4> QED BY <1>1, <2>1, <4>3, <4>4, <4>5 DEF StartIsSound
        <3>4. \A d \in Calls \ {c} : call[d].op = "prepare" => call[d].prep # p
            BY <2>4, NoneDiffers DEF Inv, CallsAreSound, CallIsSound, Preparing
        <3>5. kind \in Kinds
            BY <2>4, <3>1 DEF CallIsSound, Preparing, Settled
        <3> QED BY <1>1, <1>3, <2>1, <2>2, <3>2, <3>3, <3>4, <3>5, CommandStep
    <2> QED BY <2>3, <2>4
<1> QED BY <1>2, <1>3 DEF Check

\* An authorization and a staged image change a live entry only.
LEMMA GrantStep == ASSUME Inv, NEW c \in Calls, Grant(c) PROVE Inv'
<1> DEFINE p == call[c].prep
<1>1. /\ call[c].op = "authorize" /\ Return(c)
      /\ UNCHANGED <<world, prepared, request, agreed>>
    BY DEF Grant, Checked
<1>2. p \in Preparations
    BY <1>1, NoneDiffers DEF Inv, CallsAreSound, CallIsSound
<1>3. /\ entries' \in [Preparations -> Entry]
      /\ \A q \in Preparations : /\ entries'[q].live => entries[q].live
                                 /\ ~entries[q].live => entries'[q] = entries[q]
    <2>1. CASE ~entries[p].live
        BY <2>1 DEF Grant, Inv, TypeOK
    <2>2. CASE entries[p].live /\ prepared[p].kind = "book"
        <3>1. entries' = [entries EXCEPT ![p].authorized = TRUE]
            BY <1>2, <2>2 DEF Grant, Inv, TypeOK
        <3>2. [entries[p] EXCEPT !.authorized = TRUE]
                \in Entry
            <4>1. TRUE \in BOOLEAN
                OBVIOUS
            <4>2. entries[p] \in Entry
                BY <1>2 DEF Inv, TypeOK
            <4> QED BY <4>1, <4>2, EntryUpdate, Zenon DEF Entry
        <3> QED BY <1>2, <2>2, <3>1, <3>2 DEF Inv, TypeOK
    <2>3. CASE entries[p].live /\ prepared[p].kind # "book"
        <3>1. entries' = [entries EXCEPT ![p].token = @ + 1] /\ entries[p].token + 1 \in Nat
            BY <1>2, <2>3 DEF Grant, Inv, TypeOK, Entry
        <3> QED BY <1>2, <2>3, <3>1 DEF Inv, TypeOK, Entry
    <2> QED BY <2>1, <2>2, <2>3
<1>4. TypeOK'
    BY <1>1, <1>3, Returned DEF Inv, TypeOK
<1> QED BY <1>1, <1>3, <1>4, Returned, CommandStep

LEMMA CaptureStep == ASSUME Inv, NEW c \in Calls, Capture(c) PROVE Inv'
<1> DEFINE p == call[c].prep
<1>1. /\ call[c].op = "stage" /\ Return(c)
      /\ UNCHANGED <<world, prepared, request, agreed>>
    BY DEF Capture, Checked
<1>2. p \in Preparations
    BY <1>1, NoneDiffers DEF Inv, CallsAreSound, CallIsSound
<1>3. /\ entries' \in [Preparations -> Entry]
      /\ \A q \in Preparations : /\ entries'[q].live => entries[q].live
                                 /\ ~entries[q].live => entries'[q] = entries[q]
    BY <1>2, ZenonT(60) DEF Capture, Inv, TypeOK, Entry
<1>4. TypeOK'
    BY <1>1, <1>3, Returned DEF Inv, TypeOK
<1> QED BY <1>1, <1>3, <1>4, Returned, CommandStep

LEMMA UserAndRequestStep ==
  ASSUME Inv, NEW p \in Preparations, Forget(p) \/ Load(p) \/ Commit(p)
  PROVE  Inv'
<1> DEFINE c == CHOOSE c : c \notin Calls
<1>1. c \notin Calls /\ UNCHANGED <<world, prepared, call, agreed>>
    BY NoSetContainsEverything DEF Forget, Load, Commit
<1>2. CASE Forget(p)
    <2>1. /\ request' = request
          /\ entries' \in [Preparations -> Entry]
          /\ \A q \in Preparations : /\ entries'[q].live => entries[q].live
                                     /\ ~entries[q].live => entries'[q] = entries[q]
        BY <1>2 DEF Forget, Removed, Inv, TypeOK, Entry
    <2>2. TypeOK'
        BY <1>1, <2>1 DEF Inv, TypeOK
    <2> QED BY <1>1, <2>1, <2>2, CommandStep
<1>3. CASE Load(p) \/ Commit(p)
    <2>1. /\ entries' = entries
          /\ request' \in [Preparations -> {"none", "loading", "refused", "streaming", "kept", "lost"}]
          /\ \A q \in Preparations :
               request'[q] # request[q] => request[q] # "none" /\ request'[q] # "none"
        BY <1>3 DEF Load, Commit, Inv, TypeOK
    <2>2. TypeOK'
        BY <1>1, <2>1 DEF Inv, TypeOK
    <2> QED BY <1>1, <2>1, <2>2, CommandStep
<1> QED BY <1>2, <1>3

-----------------------------------------------------------------------------
(* The commands that write a preparation, its entry or its request. *)

LEMMA PrepareStep ==
  ASSUME Inv, NEW c \in Calls, NEW p \in Preparations, NEW kind \in Kinds, Prepare(c, p, kind)
  PROVE  Inv'
<1>1. /\ call[c].op = None /\ prepared[p].kind = None
      /\ UNCHANGED <<world, entries, request, agreed>>
    BY DEF Prepare, Idle, Nothing
<1>2. /\ ~entries[p].live /\ NotStarted(p)
      /\ \A d \in Calls : call[d].op # None => call[d].prep # p
    BY <1>1 DEF Inv, EntriesAreSound, EntryIsSound
<1>3. /\ call'[c].op = "prepare" /\ call'[c].prep = p /\ call'[c].at = 1
      /\ \A d \in Calls \ {c} : call'[d] = call[d]
      /\ call' \in [Calls -> Command]
    BY DEF Prepare, Inv, TypeOK, Command, RowsSeen, Operations
<1>4. /\ DOMAIN prepared' = Preparations
      /\ \A q \in Preparations \ {p} : prepared'[q] = prepared[q]
      /\ prepared'[p].kind = kind /\ DOMAIN prepared'[p] = DOMAIN prepared[p]
      /\ \A f \in Fields \ {"kind"} : prepared'[p][f] = prepared[p][f]
    BY FieldsOfNothing DEF Prepare, Inv, TypeOK, Fields
<1>5. TypeOK'
    <2>1. /\ prepared'[p].profile = prepared[p].profile
          /\ prepared'[p].book = prepared[p].book
          /\ prepared'[p].consents = prepared[p].consents
        BY <1>4 DEF Fields
    <2>2. \A q \in Preparations :
            /\ DOMAIN prepared'[q] = DOMAIN Nothing
            /\ prepared'[q].kind \in Kinds \cup {None}
            /\ {prepared'[q].profile, prepared'[q].book, prepared'[q].consents} \subseteq Nat
        <3> TAKE q \in Preparations
        <3>1. CASE q = p
            BY <1>4, <2>1, <3>1 DEF Inv, TypeOK
        <3>2. CASE q # p
            BY <1>4, <3>2 DEF Inv, TypeOK
        <3> QED BY <3>1, <3>2
    <2> QED BY <1>1, <1>3, <1>4, <2>2 DEF Inv, TypeOK
<1>6. \A d \in Calls : CallIsSound(d)' /\ StartIsSound(d)'
    <2> TAKE d \in Calls
    <2>1. CASE d = c
        <3>1. \A e \in Calls : e # c => call'[e].op = None \/ call'[e].prep # p
            BY <1>2, <1>3
        <3>2. Preparing(c)'
            BY <1>1, <1>2, <1>3, <1>4, <3>1 DEF Preparing, NotStarted, ProfileFirst, BookFirst
        <3> QED BY <1>3, <2>1, <3>2, NoneDiffers DEF CallIsSound, StartIsSound
    <2>2. CASE d # c
        <3>1. call'[d] = call[d] /\ (call[d].op # None => call[d].prep # p /\ call[d].prep \in Preparations)
            BY <1>2, <1>3, <2>2 DEF Inv, CallsAreSound, CallIsSound
        <3>2. call[d].op = "prepare" =>
                \A e \in Calls : e # d => call'[e].op = None \/ call'[e].prep # call[d].prep
            BY <1>3, <3>1, NoneDiffers DEF Inv, CallsAreSound, CallIsSound, Preparing
        <3> QED BY <1>1, <1>4, <3>1, <3>2, OtherCalls
    <2> QED BY <2>1, <2>2
<1>7. EntriesAreSound'
    <2> SUFFICES ASSUME NEW q \in Preparations PROVE EntryIsSound(q)'
        BY DEF EntriesAreSound
    <2>1. CASE q = p
        BY <1>1, <1>2, <1>4, <2>1, NoneDiffers DEF EntryIsSound
    <2>2. CASE q # p
        <3>1. EntryIsSound(q) /\ prepared'[q] = prepared[q] /\ (NotStarted(q)' <=> NotStarted(q))
            BY <1>1, <1>4, <2>2 DEF Inv, EntriesAreSound, NotStarted
        <3>2. Settled(q) => Settled(q)'
            BY <1>1, <3>1 DEF Settled, ProfileRead, BookRead
        <3>3. prepared[q].kind = None => \A d \in Calls : call'[d].op # None => call'[d].prep # q
            BY <1>3, <2>2, <3>1 DEF EntryIsSound
        <3> QED BY <1>1, <3>1, <3>2, <3>3 DEF EntryIsSound
    <2> QED BY <2>1, <2>2
<1>8. \A q \in Preparations : AgreedTo(q)'
    <2> SUFFICES ASSUME NEW q \in Preparations, request[q] # "none" PROVE AgreedTo(q)'
        BY <1>1 DEF AgreedTo
    <2>1. q # p /\ prepared'[q] = prepared[q]
        BY <1>2, <1>4 DEF NotStarted
    <2> QED BY <1>1, <2>1, AuthorizationKept DEF Inv, AgreedTo
<1> QED BY <1>5, <1>6, <1>7, <1>8 DEF Inv, CallsAreSound, StartsAreSound

\* The command that prepares p writes the preparation and reads on, or gives
\* up.
LEMMA WriterStep ==
  ASSUME Inv, TypeOK', NEW c \in Calls, call[c].op = "prepare",
         UNCHANGED <<world, entries, request, agreed>>,
         \A q \in Preparations \ {call[c].prep} : prepared'[q] = prepared[q],
         prepared'[call[c].prep].kind = prepared[call[c].prep].kind,
         \A d \in Calls \ {c} : call'[d] = call[d],
         call'[c].op = None \/ (call'[c].op = "prepare" /\ call'[c].prep = call[c].prep),
         CallIsSound(c)'
  PROVE  Inv'
<1> DEFINE p == call[c].prep
<1>1. /\ p \in Preparations /\ prepared[p].kind \in Kinds
      /\ ~entries[p].live /\ NotStarted(p)
      /\ \A d \in Calls : d # c => call[d].op = None \/ call[d].prep # p
    BY NoneDiffers DEF Inv, CallsAreSound, CallIsSound, Preparing
<1>2. \A d \in Calls : CallIsSound(d)' /\ StartIsSound(d)'
    <2> TAKE d \in Calls
    <2>1. CASE d = c
        BY <2>1, NoneDiffers DEF StartIsSound
    <2>2. CASE d # c
        <3>1. call'[d] = call[d] /\ (call[d].op # None => call[d].prep # p /\ call[d].prep \in Preparations)
            BY <1>1, <2>2 DEF Inv, CallsAreSound, CallIsSound
        <3>2. call[d].op = "prepare" =>
                \A e \in Calls : e # d => call'[e].op = None \/ call'[e].prep # call[d].prep
            BY <3>1, NoneDiffers DEF Inv, CallsAreSound, CallIsSound, Preparing
        <3> QED BY <3>1, <3>2, OtherCalls
    <2> QED BY <2>1, <2>2
<1>3. EntriesAreSound'
    <2> SUFFICES ASSUME NEW q \in Preparations PROVE EntryIsSound(q)'
        BY DEF EntriesAreSound
    <2>1. CASE q = p
        BY <1>1, <2>1, NoneDiffers DEF EntryIsSound
    <2>2. CASE q # p
        <3>1. EntryIsSound(q) /\ prepared'[q] = prepared[q] /\ (NotStarted(q)' <=> NotStarted(q))
            BY <2>2 DEF Inv, EntriesAreSound, NotStarted
        <3>2. Settled(q) => Settled(q)'
            BY <3>1 DEF Settled, ProfileRead, BookRead
        <3>3. prepared[q].kind = None => \A d \in Calls : call'[d].op # None => call'[d].prep # q
            BY <2>2, <3>1 DEF EntryIsSound
        <3> QED BY <3>1, <3>2, <3>3 DEF EntryIsSound
    <2> QED BY <2>1, <2>2
<1>4. \A q \in Preparations : AgreedTo(q)'
    <2> SUFFICES ASSUME NEW q \in Preparations, request[q] # "none" PROVE AgreedTo(q)'
        BY DEF AgreedTo
    <2>1. q # p /\ prepared'[q] = prepared[q]
        BY <1>1 DEF NotStarted
    <2> QED BY <2>1, AuthorizationKept DEF Inv, AgreedTo
<1> QED BY <1>2, <1>3, <1>4 DEF Inv, CallsAreSound, StartsAreSound

\* What is gathered takes the revisions it reads, and no others.
LEMMA GatheredFields ==
  ASSUME Inv, NEW p \in Preparations,
         NEW part \in {"settings", "profile", "book", "library", "snapshot"}
  PROVE  LET d == Gathered(prepared[p], part) IN
         /\ DOMAIN d = DOMAIN Nothing
         /\ d.kind = prepared[p].kind /\ d.consents = prepared[p].consents
         /\ d.profile = IF part \in {"profile", "snapshot"} THEN world.profile
                                                            ELSE prepared[p].profile
         /\ d.book = IF part \in {"book", "snapshot"} THEN world.book ELSE prepared[p].book
<1> DEFINE d == prepared[p]
<1>1. DOMAIN d = Fields
    BY FieldsOfNothing DEF Inv, TypeOK
<1>2. CASE part = "settings"
    BY <1>1, <1>2, FieldsOfNothing DEF Gathered, Fields
<1>3. CASE part = "profile"
    BY <1>1, <1>3, FieldsOfNothing DEF Gathered, Fields
<1>4. CASE part = "book"
    BY <1>1, <1>4, FieldsOfNothing DEF Gathered, Fields
<1>5. CASE part = "library"
    BY <1>1, <1>5, FieldsOfNothing DEF Gathered, Fields, WithPrompt
<1>6. CASE part = "snapshot"
    BY <1>1, <1>6, FieldsOfNothing DEF Gathered, Fields, WithPrompt
<1> QED BY <1>2, <1>3, <1>4, <1>5, <1>6

LEMMA GatherStep == ASSUME Inv, NEW c \in Calls, Gather(c) PROVE Inv'
<1> DEFINE p == call[c].prep
           kind == prepared[p].kind
           part == Part(c)
           d == Gathered(prepared[p], part)
<1>1. /\ call[c].op = "prepare" /\ call[c].at <= Len(Gathering(kind))
      /\ UNCHANGED <<world, entries, request, agreed>>
    BY DEF Gather
<1>2. /\ p \in Preparations /\ call[c].at \in Nat /\ call[c].at > 0
      /\ kind \in Kinds /\ Preparing(c)
    BY <1>1, NoneDiffers DEF Inv, TypeOK, Command, CallsAreSound, CallIsSound, Preparing
<1>3. IF kind = "book" THEN call[c].at = 1 /\ part = "snapshot"
      ELSE \/ call[c].at = 1 /\ part = "settings"
           \/ call[c].at = 2 /\ part = "profile"
           \/ call[c].at = 3 /\ part = "book"
           \/ call[c].at = 4 /\ part = "library"
    BY <1>1, <1>2, GatheringParts
<1>4. CASE Return(c) /\ prepared' = prepared
    <2>1. TypeOK'
        BY <1>1, <1>4, Returned DEF Inv, TypeOK
    <2> QED BY <1>1, <1>4, <2>1, Returned, WriterStep
<1>5. CASE Advance(c) /\ prepared' = [prepared EXCEPT ![p] = d] /\ Readable(prepared[p], part)
    <2>1. /\ DOMAIN d = DOMAIN Nothing
          /\ d.kind = kind /\ d.consents = prepared[p].consents
          /\ d.profile = IF part \in {"profile", "snapshot"} THEN world.profile
                                                             ELSE prepared[p].profile
          /\ d.book = IF part \in {"book", "snapshot"} THEN world.book ELSE prepared[p].book
        BY <1>2, <1>3, GatheredFields
    <2>2. /\ DOMAIN prepared' = Preparations /\ prepared'[p] = d
          /\ \A q \in Preparations \ {p} : prepared'[q] = prepared[q]
        BY <1>2, <1>5 DEF Inv, TypeOK
    <2> HIDE DEF d
    <2>3. /\ world.profile \in Nat /\ world.book \in Nat
          /\ part \in {"profile", "snapshot"} => world.profile > 0
          /\ part \in {"book", "snapshot"} => world.book > 0
        BY <1>5 DEF Readable, SnapshotIsReadable, Inv, TypeOK
    <2>4. TypeOK'
        <3>1. \A q \in Preparations :
                /\ DOMAIN prepared'[q] = DOMAIN Nothing
                /\ prepared'[q].kind \in Kinds \cup {None}
                /\ {prepared'[q].profile, prepared'[q].book, prepared'[q].consents} \subseteq Nat
            <4> TAKE q \in Preparations
            <4>1. CASE q = p
                BY <1>2, <2>1, <2>2, <2>3, <4>1 DEF Inv, TypeOK
            <4>2. CASE q # p
                BY <2>2, <4>2 DEF Inv, TypeOK
            <4> QED BY <4>1, <4>2
        <3>2. call' \in [Calls -> Command]
            BY <1>5, Advanced
        <3> QED BY <1>1, <2>2, <3>1, <3>2 DEF Inv, TypeOK
    <2>5. Preparing(c)'
        <3>1. /\ call'[c].prep = p /\ call'[c].at = call[c].at + 1
              /\ \A e \in Calls \ {c} : call'[e] = call[e]
            BY <1>5, Advanced
        <3>2. /\ kind \in Kinds /\ ~entries[p].live /\ NotStarted(p)
              /\ \A e \in Calls : e # c => call[e].op = None \/ call[e].prep # p
              /\ call[c].at > ProfileFirst(kind) => ProfileRead(p)
              /\ call[c].at > BookFirst(kind) => BookRead(p)
            BY <1>2 DEF Preparing
        <3>3. call[c].at + 1 > ProfileFirst(kind) => ProfileRead(p)'
            <4>1. CASE part \in {"profile", "snapshot"}
                BY <1>1, <2>1, <2>2, <2>3, <3>1, <4>1 DEF ProfileRead, Behind
            <4>2. CASE part \notin {"profile", "snapshot"}
                BY <1>1, <1>2, <1>3, <2>1, <2>2, <3>1, <3>2, <4>2 DEF ProfileRead, ProfileFirst
            <4> QED BY <4>1, <4>2
        <3>4. call[c].at + 1 > BookFirst(kind) => BookRead(p)'
            <4>1. CASE part \in {"book", "snapshot"}
                BY <1>1, <2>1, <2>2, <2>3, <3>1, <4>1 DEF BookRead, Behind
            <4>2. CASE part \notin {"book", "snapshot"}
                BY <1>1, <1>2, <1>3, <2>1, <2>2, <3>1, <3>2, <4>2 DEF BookRead, BookFirst
            <4> QED BY <4>1, <4>2
        <3> QED BY <1>1, <2>1, <2>2, <3>1, <3>2, <3>3, <3>4 DEF Preparing, NotStarted
    <2>6. CallIsSound(c)' /\ call'[c].op = "prepare" /\ call'[c].prep = p
        BY <1>1, <1>2, <1>5, <2>5, Advanced DEF CallIsSound
    <2> QED BY <1>1, <1>5, <2>1, <2>2, <2>4, <2>6, Advanced, WriterStep
<1> QED BY <1>4, <1>5 DEF Gather

LEMMA ReadConsentsStep == ASSUME Inv, NEW c \in Calls, ReadConsents(c) PROVE Inv'
<1> DEFINE p == call[c].prep
           kind == prepared[p].kind
<1>1. /\ call[c].op = "prepare" /\ call[c].at > Len(Gathering(kind)) /\ Advance(c)
      /\ UNCHANGED <<world, entries, request, agreed>>
    BY DEF ReadConsents, Checks
<1>2. /\ p \in Preparations /\ call[c].at \in Nat /\ call[c].at > 0
      /\ kind \in Kinds /\ Preparing(c)
    BY <1>1, NoneDiffers DEF Inv, TypeOK, Command, CallsAreSound, CallIsSound, Preparing
<1>3. call[c].at > Whole(kind)
    BY <1>1, <1>2, GatheringParts
<1>4. /\ DOMAIN prepared' = Preparations
      /\ \A q \in Preparations \ {p} : prepared'[q] = prepared[q]
      /\ DOMAIN prepared'[p] = DOMAIN Nothing
      /\ prepared'[p].kind = kind /\ prepared'[p].consents = world.consents
      /\ prepared'[p].profile = prepared[p].profile /\ prepared'[p].book = prepared[p].book
    BY <1>2, FieldsOfNothing DEF ReadConsents, Inv, TypeOK, Fields
<1>5. TypeOK'
    <2>1. \A q \in Preparations :
            /\ DOMAIN prepared'[q] = DOMAIN Nothing
            /\ prepared'[q].kind \in Kinds \cup {None}
            /\ {prepared'[q].profile, prepared'[q].book, prepared'[q].consents} \subseteq Nat
        <3> TAKE q \in Preparations
        <3>1. CASE q = p
            BY <1>2, <1>4, <3>1 DEF Inv, TypeOK
        <3>2. CASE q # p
            BY <1>4, <3>2 DEF Inv, TypeOK
        <3> QED BY <3>1, <3>2
    <2>2. call' \in [Calls -> Command]
        BY <1>1, Advanced
    <2> QED BY <1>1, <1>4, <2>1, <2>2 DEF Inv, TypeOK
<1>6. Preparing(c)'
    <2>1. /\ ~entries[p].live /\ NotStarted(p) /\ ProfileRead(p) /\ BookRead(p)
          /\ \A e \in Calls : e # c => call[e].op = None \/ call[e].prep # p
        BY <1>2, <1>3 DEF Preparing, Whole, ProfileFirst, BookFirst
    <2>2. ProfileRead(p)' /\ BookRead(p)'
        BY <1>1, <1>4, <2>1, Advanced DEF ProfileRead, BookRead
    <2> QED BY <1>1, <1>2, <1>4, <2>1, <2>2, Advanced DEF Preparing, NotStarted
<1>7. CallIsSound(c)' /\ call'[c].op = "prepare" /\ call'[c].prep = p
    BY <1>1, <1>2, <1>6, Advanced DEF CallIsSound
<1> QED BY <1>1, <1>4, <1>5, <1>7, Advanced, WriterStep

LEMMA InsertStep == ASSUME Inv, NEW c \in Calls, Insert(c) PROVE Inv'
<1> DEFINE p == call[c].prep
           kind == prepared[p].kind
<1>1. /\ call[c].op = "prepare" /\ call[c].at > Len(Steps(c)) /\ Return(c)
      /\ UNCHANGED <<world, prepared, request, agreed>>
    BY DEF Insert, Checked
<1>2. /\ p \in Preparations /\ call[c].at \in Nat /\ call[c].at > 0
      /\ kind \in Kinds /\ Preparing(c)
    BY <1>1, NoneDiffers DEF Inv, TypeOK, Command, CallsAreSound, CallIsSound, Preparing
<1>3. Settled(p) /\ NotStarted(p)
    <2>1. call[c].at > Whole(kind)
        <3>1. Len(Steps(c)) > Whole(kind)
            BY <1>1, <1>2, GatheringParts
        <3>2. Len(Steps(c)) \in Nat
            BY CheckingParts, GatheringParts, <1>1, <1>2 DEF Steps, Gathering, Checking, Reads
        <3> QED BY <1>1, <1>2, <3>1, <3>2 DEF Whole
    <2> QED BY <1>2, <2>1 DEF Preparing, Settled, Whole, ProfileFirst, BookFirst
<1>4. /\ entries' \in [Preparations -> Entry]
      /\ \A q \in Preparations \ {p} : entries'[q] = entries[q]
    <2>1. CASE entries' = entries
        BY <2>1 DEF Inv, TypeOK
    <2>2. CASE entries' = [entries EXCEPT ![p] = [live |-> TRUE, token |-> 0,
                            authorized |-> ~MustAuthorize(p), image |-> FALSE]]
        <3>1. (~MustAuthorize(p)) \in BOOLEAN
            BY DEF MustAuthorize
        <3>2. [live |-> TRUE, token |-> 0, authorized |-> ~MustAuthorize(p), image |-> FALSE] \in Entry
            BY <3>1 DEF Entry
        <3> QED BY <1>2, <2>2, <3>2 DEF Inv, TypeOK
    <2> QED BY <2>1, <2>2 DEF Insert
<1>5. TypeOK'
    BY <1>1, <1>4, Returned DEF Inv, TypeOK
<1>6. \A d \in Calls : CallIsSound(d)' /\ StartIsSound(d)'
    <2> SUFFICES ASSUME NEW d \in Calls, d # c PROVE CallIsSound(d)' /\ StartIsSound(d)'
        BY <1>1, Returned
    <2>1. call'[d] = call[d] /\ (call[d].op # None => call[d].prep # p /\ call[d].prep \in Preparations)
        BY <1>1, <1>2, Returned DEF Inv, CallsAreSound, CallIsSound, Preparing
    <2>2. call[d].op = "prepare" =>
            \A e \in Calls : e # d => call'[e].op = None \/ call'[e].prep # call[d].prep
        BY <1>1, <2>1, Returned, NoneDiffers DEF Inv, CallsAreSound, CallIsSound, Preparing
    <2> QED BY <1>1, <1>4, <2>1, <2>2, NoneDiffers, OtherCalls
<1>7. EntriesAreSound'
    <2> SUFFICES ASSUME NEW q \in Preparations PROVE EntryIsSound(q)'
        BY DEF EntriesAreSound
    <2>1. (NotStarted(q) => NotStarted(q)') /\ (Settled(q) => Settled(q)')
        BY <1>1 DEF NotStarted, Settled, ProfileRead, BookRead
    <2>2. CASE q = p
        BY <1>1, <1>2, <1>3, <2>1, <2>2, NoneDiffers DEF EntryIsSound
    <2>3. CASE q # p
        <3>1. \A d \in Calls : call'[d].op # None => call[d].op # None /\ call'[d].prep = call[d].prep
            BY <1>1, Returned
        <3> QED BY <1>1, <1>4, <2>1, <2>3, <3>1 DEF Inv, EntriesAreSound, EntryIsSound
    <2> QED BY <2>2, <2>3
<1>8. \A q \in Preparations : AgreedTo(q)'
    <2> SUFFICES ASSUME NEW q \in Preparations, request[q] # "none" PROVE AgreedTo(q)'
        BY <1>1 DEF AgreedTo
    <2>1. entries'[q] = entries[q]
        BY <1>3, <1>4 DEF NotStarted
    <2> QED BY <1>1, <2>1, AuthorizationKept DEF Inv, AgreedTo
<1> QED BY <1>5, <1>6, <1>7, <1>8 DEF Inv, CallsAreSound, StartsAreSound

\* A start that has read everything twice has seen what was agreed to.
LEMMA ConsumeStep == ASSUME Inv, NEW c \in Calls, Consume(c) PROVE Inv'
<1> DEFINE p == call[c].prep
           kind == prepared[p].kind
<1>1. /\ call[c].op = "start" /\ call[c].at > Len(Steps(c)) /\ Return(c)
      /\ UNCHANGED <<world, prepared>>
    BY DEF Consume, Checked
<1>2. /\ p \in Preparations /\ call[c].at \in Nat /\ call[c].at > 0
      /\ Settled(p) /\ StartIsSound(c)
    BY <1>1, NoneDiffers DEF Inv, TypeOK, Command, CallsAreSound, CallIsSound, StartsAreSound
<1>3. CASE UNCHANGED <<entries, request, agreed>>
    <2>1. TypeOK'
        BY <1>1, <1>3, Returned DEF Inv, TypeOK
    <2> QED BY <1>1, <1>3, <2>1, Returned, CommandStep
<1>4. CASE /\ entries[p].live /\ MayStart(p, call[c].token)
           /\ entries' = Removed(p)
           /\ request' = [request EXCEPT ![p] = "loading"]
           /\ agreed' = [agreed EXCEPT ![p] = Append(@, call[c].seen)]
    <2>1. call[c].seen = [profile |-> prepared[p].profile, book |-> prepared[p].book,
                          consents |-> prepared[p].consents]
        <3>1. call[c].at > BookAgain(kind)
            BY <1>1, <1>2, StartParts
        <3>2. /\ Seen(c) /\ call[c].seen.profile = prepared[p].profile
              /\ call[c].seen.book = prepared[p].book
            BY <1>1, <1>2, <3>1 DEF StartIsSound, BookAgain, ProfileAgain, ConsentsAt
        <3> QED BY <3>2 DEF Seen, RowsSeen
    <2>2. NotStarted(p)
        BY <1>2, <1>4 DEF Inv, EntriesAreSound, EntryIsSound
    <2>3. /\ entries' \in [Preparations -> Entry]
          /\ ~entries'[p].live /\ entries'[p].token = entries[p].token
          /\ entries'[p].authorized = entries[p].authorized /\ entries'[p].image = entries[p].image
          /\ \A q \in Preparations \ {p} : entries'[q] = entries[q]
        BY <1>2, <1>4 DEF Removed, Inv, TypeOK, Entry
    <2>4. /\ request' \in [Preparations -> {"none", "loading", "refused", "streaming", "kept", "lost"}]
          /\ request'[p] = "loading"
          /\ \A q \in Preparations \ {p} : request'[q] = request[q]
        BY <1>2, <1>4 DEF Inv, TypeOK
    <2>5. /\ DOMAIN agreed' = Preparations
          /\ agreed'[p] = <<call[c].seen>>
          /\ \A q \in Preparations \ {p} : agreed'[q] = agreed[q]
        <3>1. agreed'[p] = Append(<<>>, call[c].seen)
            BY <1>2, <1>4, <2>2 DEF NotStarted, Inv, TypeOK
        <3>2. Append(<<>>, call[c].seen) = <<call[c].seen>>
            OBVIOUS
        <3> QED BY <1>2, <1>4, <3>1, <3>2 DEF Inv, TypeOK
    <2>6. TypeOK'
        BY <1>1, <2>3, <2>4, <2>5, Returned DEF Inv, TypeOK
    <2>7. \A d \in Calls : CallIsSound(d)' /\ StartIsSound(d)'
        <3> SUFFICES ASSUME NEW d \in Calls, d # c PROVE CallIsSound(d)' /\ StartIsSound(d)'
            BY <1>1, Returned
        <3>1. call'[d] = call[d] /\ (call[d].op # None => call[d].prep \in Preparations)
            BY <1>1, Returned DEF Inv, CallsAreSound, CallIsSound
        <3>2. call[d].op = "prepare" =>
                /\ call[d].prep # p
                /\ \A e \in Calls : e # d => call'[e].op = None \/ call'[e].prep # call[d].prep
            BY <1>1, <3>1, Returned, NoneDiffers DEF Inv, CallsAreSound, CallIsSound, Preparing
        <3> QED BY <1>1, <2>3, <2>4, <2>5, <3>1, <3>2, NoneDiffers, OtherCalls
    <2>8. EntriesAreSound'
        <3> SUFFICES ASSUME NEW q \in Preparations PROVE EntryIsSound(q)'
            BY DEF EntriesAreSound
        <3>1. Settled(q) => Settled(q)'
            BY <1>1 DEF Settled, ProfileRead, BookRead
        <3>2. CASE q = p
            BY <1>1, <1>2, <2>3, <3>2, NoneDiffers DEF EntryIsSound, Settled
        <3>3. CASE q # p
            <4>1. NotStarted(q) => NotStarted(q)'
                BY <2>4, <2>5, <3>3 DEF NotStarted
            <4>2. \A d \in Calls : call'[d].op # None => call[d].op # None /\ call'[d].prep = call[d].prep
                BY <1>1, Returned
            <4> QED BY <1>1, <2>3, <3>1, <3>3, <4>1, <4>2 DEF Inv, EntriesAreSound, EntryIsSound
        <3> QED BY <3>2, <3>3
    <2>9. \A q \in Preparations : AgreedTo(q)'
        <3> TAKE q \in Preparations
        <3>1. MustAuthorize(q)' <=> MustAuthorize(q)
            BY <1>1, AuthorizationKept
        <3>2. CASE q = p
            <4>1. prepared[p].kind = "region" => MustAuthorize(p)
                BY DEF MustAuthorize, RisksOf
            <4>2. entries[p].token \in Nat
                BY <1>2 DEF Inv, TypeOK, Entry
            <4>3. /\ MustAuthorize(p) => entries[p].token > 0 \/ entries[p].authorized
                  /\ prepared[p].kind = "region" => entries[p].token > 0 /\ entries[p].image
                BY <1>4, <4>1, <4>2 DEF MayStart
            <4> QED BY <1>1, <1>2, <2>1, <2>3, <2>5, <3>1, <3>2, <4>3 DEF AgreedTo, Settled
        <3>3. CASE q # p
            BY <1>1, <2>3, <2>4, <2>5, <3>1, <3>3 DEF Inv, AgreedTo
        <3> QED BY <3>2, <3>3
    <2> QED BY <2>6, <2>7, <2>8, <2>9 DEF Inv, CallsAreSound, StartsAreSound
<1> QED BY <1>3, <1>4 DEF Consume

-----------------------------------------------------------------------------
(* The world. *)

Changes ==
  \/ ChangeSettings \/ DecideConsents
  \/ ReplaceCredential \/ DropCredential \/ RestoreCredential \/ DeleteProfile
  \/ DeleteBook \/ ChangeLibrary \/ Continue

\* Whatever changes, the revisions grow or are gone.
LEMMA ChangeStep == ASSUME Inv, Changes PROVE Inv'
<1> DEFINE World == [mode : Modes, language : Languages, default : BOOLEAN,
                     profile : Nat, credential : BOOLEAN, book : Nat,
                     library : Libraries \cup {{}}, pairs : Nat, consents : Nat,
                     asks : BOOLEAN, changes : 0..MaxChanges]
<1>1. world \in World /\ MaxChanges \in Nat
    BY BoundAssumption DEF Inv, TypeOK
<1>2. ASSUME NEW new \in World, Change(new),
             Moves(world.profile, new.profile), Moves(world.book, new.book),
             new.changes = world.changes
      PROVE  Inv'
    <2>1. /\ UNCHANGED <<prepared, entries, call, request, agreed>>
          /\ world' = [new EXCEPT !.changes = @ + 1] /\ world.changes < MaxChanges
        BY <1>2 DEF Change
    <2>2. world' \in World
        BY <1>1, <1>2, <2>1
    <2>3. world'.profile = new.profile /\ world'.book = new.book
        BY <1>2, <2>1
    <2>4. TypeOK'
        BY <2>1, <2>2 DEF Inv, TypeOK
    <2> QED BY <1>2, <2>1, <2>3, <2>4, WorldStep
<1>3. CASE ChangeSettings
    <2>1. PICK l \in Languages, d \in BOOLEAN :
            Change([world EXCEPT !.language = l, !.default = d /\ world.profile > 0])
        BY <1>3 DEF ChangeSettings
    <2> QED BY <1>1, <1>2, <2>1 DEF Moves
<1>4. CASE DecideConsents
    <2>1. PICK asks \in BOOLEAN : Change([world EXCEPT !.asks = asks, !.consents = @ + 1])
        BY <1>4 DEF DecideConsents
    <2> DEFINE next == world.consents + 1
               new == [world EXCEPT !.asks = asks, !.consents = next]
    <2>2. next \in Nat /\ Change(new)
        BY <1>1, <2>1
    <2> HIDE DEF next
    <2>3. new \in World
        BY <1>1, <2>2, Zenon
    <2>4. new.profile = world.profile /\ new.book = world.book /\ new.changes = world.changes
        BY <1>1
    <2> HIDE DEF new
    <2> QED BY <1>2, <2>2, <2>3, <2>4 DEF Moves
<1>5. CASE ReplaceCredential
    <2> DEFINE next == world.profile + 1
               new == [world EXCEPT !.profile = next, !.credential = TRUE]
    <2>1. next \in Nat /\ world.profile > 0 /\ next > world.profile /\ Change(new)
        BY <1>1, <1>5 DEF ReplaceCredential
    <2> HIDE DEF next
    <2>2. new \in World
        <3>1. TRUE \in BOOLEAN
            OBVIOUS
        <3> QED BY <1>1, <2>1, <3>1, Zenon
    <2>3. new.profile = next /\ new.book = world.book /\ new.changes = world.changes
        BY <1>1
    <2> HIDE DEF new
    <2> QED BY <1>2, <2>1, <2>2, <2>3 DEF Moves
<1>6. CASE DropCredential
    BY <1>1, <1>2, <1>6 DEF DropCredential, Moves
<1>7. ASSUME NEW new \in World, FinishDeletion(new),
             Moves(world.profile, new.profile), Moves(world.book, new.book)
      PROVE  Inv'
    <2>1. world' = new /\ UNCHANGED <<prepared, entries, call, request, agreed>>
        BY <1>7 DEF FinishDeletion
    <2>2. world' \in World
        BY <1>7, <2>1
    <2>3. TypeOK'
        BY <2>1, <2>2 DEF Inv, TypeOK
    <2> QED BY <1>7, <2>1, <2>3, WorldStep
<1>8. CASE RestoreCredential \/ DeleteProfile
    <2>1. CASE RestoreCredential
        BY <1>1, <1>7, <2>1 DEF RestoreCredential, Moves
    <2>2. CASE DeleteProfile
        BY <1>1, <1>7, <2>2 DEF DeleteProfile, Moves
    <2> QED BY <1>8, <2>1, <2>2
<1>9. CASE DeleteBook
    BY <1>1, <1>2, <1>9 DEF DeleteBook, Moves
<1>10. CASE ChangeLibrary
    <2>1. PICK l \in Libraries : Change([world EXCEPT !.library = l])
        BY <1>10 DEF ChangeLibrary
    <2> QED BY <1>1, <1>2, <2>1 DEF Moves
<1>11. CASE Continue
    BY <1>1, <1>2, <1>11 DEF Continue, Moves
<1> QED BY <1>3, <1>4, <1>5, <1>6, <1>7, <1>8, <1>9, <1>10, <1>11 DEF Changes

-----------------------------------------------------------------------------
(* The theorems. *)

LEMMA InitInv == Init => Inv
<1> SUFFICES ASSUME Init PROVE Inv
    OBVIOUS
<1>1. /\ \A p \in Preparations : prepared[p] = Nothing /\ entries[p] = Absent
                                 /\ NotStarted(p)
      /\ \A c \in Calls : call[c].op = None
    BY DEF Init, NotStarted, Idle
<1>2. TypeOK
    <2>1. /\ prepared = [p \in Preparations |-> Nothing]
          /\ Nothing.kind = None /\ Nothing.profile = 0
          /\ Nothing.book = 0 /\ Nothing.consents = 0
        BY DEF Init, Nothing
    <2>2. Absent \in Entry /\ Idle \in Command
        BY DEF Absent, Entry, Idle, Command
    <2>3. world \in [mode : Modes, language : Languages, default : BOOLEAN,
               profile : Nat, credential : BOOLEAN, book : Nat,
               library : Libraries \cup {{}}, pairs : Nat, consents : Nat,
               asks : BOOLEAN, changes : 0..MaxChanges]
        <3>1. {1} \subseteq Nat /\ {MaxPairs} \subseteq Nat /\ {0} \subseteq 0..MaxChanges
              /\ {TRUE} \subseteq BOOLEAN /\ {"en"} \subseteq Languages
            BY BoundAssumption DEF Languages
        <3> QED BY <3>1, BoundAssumption DEF Init
    <2> QED BY <2>1, <2>2, <2>3 DEF Init, TypeOK
<1>3. \A p \in Preparations : prepared[p].kind = None /\ ~entries[p].live
    BY <1>1 DEF Nothing, Absent
<1>4. CallsAreSound /\ StartsAreSound
    BY <1>1, NoneDiffers DEF CallsAreSound, CallIsSound, StartsAreSound, StartIsSound
<1>5. EntriesAreSound
    BY <1>1, <1>3 DEF EntriesAreSound, EntryIsSound
<1>6. \A p \in Preparations : AgreedTo(p)
    BY <1>1 DEF AgreedTo, NotStarted
<1> QED BY <1>2, <1>4, <1>5, <1>6 DEF Inv

LEMMA NextInv == Inv /\ [Next]_vars => Inv'
<1> SUFFICES ASSUME Inv, [Next]_vars PROVE Inv'
    OBVIOUS
<1>1. CASE UNCHANGED vars
    <2>1. TypeOK'
        BY <1>1 DEF vars, Inv, TypeOK
    <2> QED BY <1>1, <2>1, WorldStep DEF vars, Moves
<1>2. ASSUME NEW c \in Calls, NEW p \in Preparations, NEW kind \in Kinds, Prepare(c, p, kind)
      PROVE  Inv'
    BY <1>2, PrepareStep
<1>3. ASSUME NEW c \in Calls, NEW p \in Preparations, Authorize(c, p) \/ Stage(c, p) \/ Start(c, p)
      PROVE  Inv'
    BY <1>3, BeginStep DEF Authorize, Stage, Start
<1>4. ASSUME NEW c \in Calls, Gather(c) \/ ReadConsents(c) \/ Check(c)
      PROVE  Inv'
    BY <1>4, GatherStep, ReadConsentsStep, CheckStep
<1>5. ASSUME NEW c \in Calls, Insert(c) \/ Grant(c) \/ Capture(c) \/ Consume(c)
      PROVE  Inv'
    BY <1>5, InsertStep, GrantStep, CaptureStep, ConsumeStep
<1>6. ASSUME NEW p \in Preparations, Forget(p) \/ Load(p) \/ Commit(p)
      PROVE  Inv'
    BY <1>6, UserAndRequestStep
<1>7. CASE Changes
    BY <1>7, ChangeStep
<1> QED BY <1>1, <1>2, <1>3, <1>4, <1>5, <1>6, <1>7 DEF Next, Changes

THEOREM Invariance == Spec => []Inv
BY InitInv, NextInv, PTL DEF Spec

(* Every variable has its type in every reachable state.                   *)
THEOREM TypeCorrect == Spec => []TypeOK
<1>1. Inv => TypeOK
    BY DEF Inv
<1> QED BY <1>1, Invariance, PTL

(* What is started was prepared from the rows, and agreed to with the      *)
(* consents, that held at one moment of its start; it is started once, its *)
(* risks answered and its image at hand.                                   *)
THEOREM Agreement == Spec => []StartedAsAgreed
<1>1. Inv => StartedAsAgreed
    BY DEF Inv, AgreedTo, StartedAsAgreed
<1> QED BY <1>1, Invariance, PTL

-----------------------------------------------------------------------------
(* The packing. *)

\* What is taken from candidates in order is in order.
LEMMA OrderedSubset ==
  ASSUME NEW S, Ordered(S), NEW T \in SUBSET S
  PROVE  Ordered(T)
BY FS_Subset DEF Ordered

\* compare_candidates is a strict order.
LEMMA BeforeIsOrder ==
  ASSUME NEW S, Ordered(S)
  PROVE  /\ \A a \in S : ~Before(a, a)
         /\ \A a, b, c \in S : Before(a, b) /\ Before(b, c) => Before(a, c)
         /\ \A a, b \in S : Before(a, b) => ~Before(b, a)
<1>1. \A c \in S : PackingOrder(c.kind) \in Nat /\ c.rank \in Nat
  BY DEF Ordered, CandidateKinds, PackingOrder
<1>. QED  BY <1>1 DEF Before

\* A set of numbers has a least one.
LEMMA LeastNumber ==
  ASSUME NEW T, T \subseteq Nat, T # {}
  PROVE  \E m \in T : \A k \in T : m <= k
<1>1. PICK m \in T : \A k \in T : ~(<<k, m>> \in OpToRel(<, Nat))
  BY NatLessThanWellFounded, WFMin
<1>2. ASSUME NEW k \in T, ~(m <= k) PROVE FALSE
  <2>1. k \in Nat /\ m \in Nat /\ k < m
    BY <1>2
  <2>2. <<k, m>> \in OpToRel(<, Nat)
    BY <2>1 DEF OpToRel
  <2>. QED  BY <1>1, <2>2
<1>. QED  BY <1>2

\* The candidates in their order: each of them once, and none behind one
\* that it is before.
LEMMA Sorted ==
  ASSUME NEW S, Ordered(S)
  PROVE  /\ InOrder(S) \in Seq(S) /\ Len(InOrder(S)) = Cardinality(S) /\ Cardinality(S) \in Nat
         /\ ToSet(InOrder(S)) = S
         /\ \A i, j \in 1..Len(InOrder(S)) : i < j => Before(InOrder(S)[i], InOrder(S)[j])
<1> DEFINE Prior(c) == {k \in S : Before(k, c)}
           n == Cardinality(S)
           rank == [c \in S |-> Cardinality(Prior(c)) + 1]
<1>1. IsFiniteSet(S) /\ n \in Nat
  BY FS_CardinalityType DEF Ordered
<1>2. \A c \in S : IsFiniteSet(Prior(c)) /\ Cardinality(Prior(c)) \in Nat /\ Cardinality(Prior(c)) < n
  <2>. SUFFICES ASSUME NEW c \in S
                PROVE  /\ IsFiniteSet(Prior(c)) /\ Cardinality(Prior(c)) \in Nat
                       /\ Cardinality(Prior(c)) < n
    OBVIOUS
  <2>1. Prior(c) \in SUBSET S /\ c \notin Prior(c)
    BY BeforeIsOrder
  <2>2. IsFiniteSet(Prior(c)) /\ Cardinality(Prior(c)) <= n /\ Cardinality(Prior(c)) # n
    BY <1>1, <2>1, FS_Subset
  <2>. QED  BY <1>1, <2>2, FS_CardinalityType
<1>3. \A b, c \in S : Before(b, c) => Cardinality(Prior(b)) < Cardinality(Prior(c))
  <2>. SUFFICES ASSUME NEW b \in S, NEW c \in S, Before(b, c)
                PROVE  Cardinality(Prior(b)) < Cardinality(Prior(c))
    OBVIOUS
  <2>1. Prior(b) \in SUBSET Prior(c) /\ b \in Prior(c) /\ b \notin Prior(b)
    BY BeforeIsOrder
  <2>2. Cardinality(Prior(b)) <= Cardinality(Prior(c)) /\ Cardinality(Prior(b)) # Cardinality(Prior(c))
    BY <1>2, <2>1, FS_Subset
  <2>. QED  BY <1>2, <2>2
<1>. HIDE DEF Prior, n
<1>4. \A b, c \in S : Before(b, c) => rank[b] < rank[c]
  BY <1>2, <1>3
<1>5. rank \in [S -> 1..n]
  BY <1>1, <1>2
<1>6. \A c \in S : rank[c] = Cardinality(Prior(c)) + 1 /\ rank[c] \in 1..n
  BY <1>5
<1>. HIDE DEF rank
<1>7. \A b, c \in S : rank[b] = rank[c] => b = c
  BY <1>4, <1>6, <1>1 DEF Ordered
<1>8. rank \in Injection(S, 1..n)
  BY <1>5, <1>7 DEF Injection, IsInjective
<1>9. IsFiniteSet(1..n) /\ Cardinality(1..n) = n
  BY <1>1, FS_Interval
<1>10. rank \in Surjection(S, 1..n)
  BY <1>8, <1>9, FS_Injection DEF n
<1>11. \A i \in 1..n : \E c \in S : rank[c] = i
  BY <1>10 DEF Surjection
<1>12. ASSUME NEW i \in 1..n
       PROVE  InOrder(S)[i] \in S /\ rank[InOrder(S)[i]] = i
  <2>1. InOrder(S)[i] = CHOOSE c \in S : Cardinality(Prior(c)) = i - 1
    BY DEF InOrder, Prior, n
  <2>2. \E c \in S : Cardinality(Prior(c)) = i - 1
    BY <1>1, <1>2, <1>11, <1>6
  <2>3. InOrder(S)[i] \in S /\ Cardinality(Prior(InOrder(S)[i])) = i - 1
    BY <2>1, <2>2
  <2>. QED  BY <1>1, <1>6, <2>3
<1>13. DOMAIN InOrder(S) = 1..n
  BY DEF InOrder, n
<1>14. InOrder(S) \in [1..n -> S]
  <2> DEFINE g(i) == CHOOSE c \in S : Cardinality(Prior(c)) = i - 1
  <2>1. InOrder(S) = [i \in 1..n |-> g(i)]
    BY DEF InOrder, Prior, n
  <2>. HIDE DEF g
  <2>2. \A i \in 1..n : g(i) \in S
    BY <1>12, <2>1
  <2>. QED BY <2>1, <2>2
<1>15. InOrder(S) \in Seq(S) /\ Len(InOrder(S)) = n
  BY <1>1, <1>13, <1>14
<1>16. \A c \in S : rank[c] \in 1..n /\ InOrder(S)[rank[c]] = c
  BY <1>5, <1>7, <1>12
<1>17. ToSet(InOrder(S)) = S
  BY <1>12, <1>13, <1>16 DEF ToSet
<1>18. ASSUME NEW i \in 1..n, NEW j \in 1..n, i < j
       PROVE  Before(InOrder(S)[i], InOrder(S)[j])
  <2>1. ~(rank[InOrder(S)[j]] < rank[InOrder(S)[i]]) /\ InOrder(S)[i] # InOrder(S)[j]
    BY <1>1, <1>12, <1>18
  <2>. QED  BY <1>4, <1>12, <2>1 DEF Ordered
<1>. QED  BY <1>1, <1>15, <1>17, <1>18 DEF n

\* A place below another place of a sequence is one of its places.
LEMMA Below ==
  ASSUME NEW n \in Nat, NEW m \in 1..n
  PROVE  \A i \in 1..(m - 1) : i \in 1..n /\ i < m
OBVIOUS

\* There is one way to drop the repeats: a candidate stays unless one that
\* stays before it says the same.
LEMMA Kept ==
  ASSUME NEW S, Ordered(S)
  PROVE  /\ Deduplicated(S) \subseteq S
         /\ \A c \in S : c \in Deduplicated(S) <=>
              ~\E prior \in Deduplicated(S) : Before(prior, c) /\ Repeats(c, prior)
<1> DEFINE s == InOrder(S)
           Keeps(K, c) == c \in K <=> ~\E prior \in K : Before(prior, c) /\ Repeats(c, prior)
           Up(n) == {s[i] : i \in 1..n}
           Done(n) == \E K \in SUBSET Up(n) : \A c \in Up(n) : Keeps(K, c)
           T == {n \in 0..Len(s) : ~Done(n)}
<1>1. /\ s \in Seq(S) /\ Len(s) \in Nat /\ Up(Len(s)) = S
      /\ \A i, j \in 1..Len(s) : i < j => Before(s[i], s[j])
      /\ \A i \in 1..Len(s) : s[i] \in S
  BY Sorted DEF ToSet
<1>. HIDE DEF s
<1>2. ASSUME NEW m \in 1..Len(s), Done(m - 1)
      PROVE  Done(m)
  <2>4. PICK K \in SUBSET Up(m - 1) : \A c \in Up(m - 1) : Keeps(K, c)
    BY <1>2
  <2>5. Up(m) = Up(m - 1) \union {s[m]}
    <3>1. m \in 1..m /\ m - 1 \in Nat /\ m \in Nat
      BY <1>1
    <3>2. \A i \in 1..m : i = m \/ i \in 1..(m - 1)
      BY <3>1
    <3>3. \A i \in 1..(m - 1) : i \in 1..m
      BY <3>1
    <3>. QED BY <3>1, <3>2, <3>3
  <2>6. Up(m - 1) \subseteq S /\ s[m] \in S /\ \A c \in Up(m - 1) : Before(c, s[m])
    <3>1. \A i \in 1..(m - 1) : i \in 1..Len(s) /\ i < m
      BY <1>1, Below
    <3>. QED  BY <1>1, <3>1
  <2>. HIDE DEF Up
  <2>7. s[m] \notin Up(m - 1) /\ ~Before(s[m], s[m]) /\ \A c \in Up(m - 1) : ~Before(s[m], c)
    BY <2>6, BeforeIsOrder
  <2>8. CASE \E p \in K : Repeats(s[m], p)
    <3>1. \A c \in Up(m) : Keeps(K, c)
      BY <2>4, <2>5, <2>6, <2>7, <2>8
    <3>. QED  BY <2>4, <2>5, <3>1
  <2>9. CASE ~\E p \in K : Repeats(s[m], p)
    <3>1. \A c \in Up(m - 1) : Keeps(K \union {s[m]}, c)
      BY <2>4, <2>6, <2>7
    <3>2. Keeps(K \union {s[m]}, s[m])
      BY <2>7, <2>9
    <3>3. \A c \in Up(m) : Keeps(K \union {s[m]}, c)
      BY <2>5, <3>1, <3>2
    <3>. QED  BY <2>4, <2>5, <3>3
  <2>. QED  BY <2>8, <2>9
<1>3. Done(0)
  <2>1. Up(0) = {}
    OBVIOUS
  <2>. QED BY <2>1
<1>. HIDE DEF Done
<1>4. T = {}
  <2>. SUFFICES ASSUME T # {} PROVE FALSE
    OBVIOUS
  <2>1. T \subseteq Nat
    OBVIOUS
  <2>2. PICK m \in T : \A k \in T : m <= k
    BY <2>1, LeastNumber
  <2>3. m \in 1..Len(s) /\ m - 1 \in 0..Len(s) /\ ~(m <= m - 1)
    <3>1. m # 0 /\ m \in 0..Len(s)
      BY <1>3, <2>2
    <3>. QED BY <1>1, <3>1
  <2>4. Done(m - 1)
    BY <2>2, <2>3
  <2>. QED  BY <1>2, <2>2, <2>3, <2>4
<1>5. Done(Len(s))
  <2>1. Len(s) \in 0..Len(s)
    BY <1>1
  <2>. QED BY <1>4, <2>1
<1>6. \E K \in SUBSET S : \A c \in S : Keeps(K, c)
  BY <1>1, <1>5 DEF Done
<1>. HIDE DEF Up, T
<1>7. Deduplicated(S) = CHOOSE K \in SUBSET S : \A c \in S : Keeps(K, c)
  BY DEF Deduplicated
<1>8. Deduplicated(S) \in SUBSET S /\ \A c \in S : Keeps(Deduplicated(S), c)
  <2>. HIDE DEF Keeps
  <2>. QED BY <1>6, <1>7
<1>. QED  BY <1>8

\* What is sent fits, and the next passage would not.
LEMMA LongestFits ==
  ASSUME NEW S, NEW required \in Seq(S), NEW optional \in Seq(S), NEW mode,
         Longest(required, optional, mode) # TooLarge
  PROVE  \E n \in 0..Len(optional) :
           /\ Longest(required, optional, mode) = required \o Prefix(optional, n)
           /\ Fits(required \o Prefix(optional, n), mode)
           /\ n < Len(optional) => ~Fits(required \o Prefix(optional, n + 1), mode)
<1> DEFINE Fit(i) == Fits(required \o Prefix(optional, i), mode)
           lengths == {i \in 0..Len(optional) : Fit(i)}
           T == {i \in 0..Len(optional) : Len(optional) - i \in lengths}
           most == CHOOSE i \in lengths : \A k \in lengths : k <= i
<1>1. Fits(required, mode)
  BY DEF Longest
<1>2. required \o Prefix(optional, 0) = required
  BY DEF Prefix
<1>3. Longest(required, optional, mode) = required \o Prefix(optional, most)
  BY <1>1 DEF Longest
<1>4. Len(optional) \in Nat
  OBVIOUS
<1>5. Fit(0)
  BY <1>1, <1>2, Zenon
<1>. HIDE DEF Fit
<1>6. 0 \in lengths
  BY <1>4, <1>5
<1>7. Len(optional) \in T /\ T \subseteq Nat
  BY <1>4, <1>6
<1>8. PICK m \in T : \A k \in T : m <= k
  BY <1>7, LeastNumber
<1>9. \E i \in lengths : \A k \in lengths : k <= i
  <2>1. Len(optional) - m \in lengths
    BY <1>8
  <2>2. \A k \in lengths : Len(optional) - k \in T
    <3>1. \A k \in lengths : /\ Len(optional) - k \in 0..Len(optional)
                             /\ Len(optional) - (Len(optional) - k) = k
      BY <1>4
    <3>. QED BY <3>1
  <2>3. \A k \in lengths : k \in Nat /\ m <= Len(optional) - k
    <3>1. \A k \in lengths : k \in Nat
      BY <1>4
    <3>. HIDE DEF T, lengths
    <3>. QED BY <1>8, <2>2, <3>1
  <2>4. \A k \in lengths : k <= Len(optional) - m
    BY <1>4, <1>7, <1>8, <2>3
  <2>. QED  BY <2>1, <2>4
<1>10. most \in lengths /\ \A k \in lengths : k <= most
  <2>. HIDE DEF lengths
  <2>. QED BY <1>9
<1>. HIDE DEF most
<1>11. most < Len(optional) => ~Fit(most + 1)
  BY <1>4, <1>10
<1>12. most \in 0..Len(optional) /\ Fit(most)
  BY <1>10
<1>. QED  BY <1>3, <1>11, <1>12 DEF Fit

\* The members of what is required, followed by a part of what is not.
LEMMA Joined ==
  ASSUME NEW S, NEW required \in Seq(S), NEW optional \in Seq(S), NEW n \in 0..Len(optional)
  PROVE  /\ required \o Prefix(optional, n) \in Seq(S)
         /\ Len(required \o Prefix(optional, n)) = Len(required) + n
         /\ \A i \in 1..(Len(required) + n) :
              (required \o Prefix(optional, n))[i] =
                 IF i <= Len(required) THEN required[i] ELSE optional[i - Len(required)]
<1> DEFINE p == Prefix(optional, n)
           k == Len(required)
<1>1. p \in Seq(S) /\ Len(p) = n /\ \A i \in 1..n : p[i] = optional[i]
  <2>1. n \in Nat /\ \A i \in 1..n : optional[i] \in S
    OBVIOUS
  <2>2. /\ SubSeq(optional, 1, n) \in Seq(S) /\ Len(SubSeq(optional, 1, n)) = n
        /\ \A i \in 1..n : SubSeq(optional, 1, n)[i] = optional[i]
    BY <2>1, SubSeqProperties
  <2>. QED BY <2>2 DEF Prefix
<1>. HIDE DEF p
<1>2. /\ required \o p \in Seq(S) /\ Len(required \o p) = k + Len(p)
      /\ \A i \in 1..(k + Len(p)) :
           (required \o p)[i] = IF i <= k THEN required[i] ELSE p[i - k]
  BY <1>1, ConcatProperties, Zenon
<1>3. k \in Nat /\ n \in Nat
  OBVIOUS
<1>4. ASSUME NEW i \in 1..(k + n)
      PROVE  (required \o p)[i] = IF i <= k THEN required[i] ELSE optional[i - k]
  <2>1. (required \o p)[i] = IF i <= k THEN required[i] ELSE p[i - k]
    BY <1>1, <1>2
  <2>2. ~(i <= k) => i - k \in 1..n
    BY <1>3
  <2>. QED BY <1>1, <2>1, <2>2
<1>. QED BY <1>1, <1>2, <1>4 DEF p

\* A member of the prompt is required or in the part of the others.
LEMMA JoinedMembers ==
  ASSUME NEW S, NEW required \in Seq(S), NEW optional \in Seq(S), NEW n \in 0..Len(optional)
  PROVE  \A c : c \in ToSet(required \o Prefix(optional, n)) <=>
                  c \in ToSet(required) \/ \E i \in 1..n : c = optional[i]
<1> DEFINE k == Len(required)
           s == required \o Prefix(optional, n)
<1>1. k \in Nat /\ n \in Nat
  OBVIOUS
<1>2. /\ s \in Seq(S) /\ Len(s) = k + n
      /\ \A i \in 1..(k + n) : s[i] = IF i <= k THEN required[i] ELSE optional[i - k]
  BY Joined
<1>. HIDE DEF s
<1>3. ASSUME NEW c \in ToSet(s)
      PROVE  c \in ToSet(required) \/ \E i \in 1..n : c = optional[i]
  <2>1. PICK i \in 1..(k + n) : c = s[i]
    BY <1>2 DEF ToSet
  <2>2. CASE i <= k
    <3>1. i \in 1..k
      BY <1>1, <2>2
    <3>. QED BY <1>2, <2>1, <2>2, <3>1 DEF ToSet
  <2>3. CASE ~(i <= k)
    <3>1. i - k \in 1..n
      BY <1>1, <2>3
    <3>. QED BY <1>2, <2>1, <2>3, <3>1
  <2>. QED BY <2>2, <2>3
<1>4. ASSUME NEW i \in 1..k
      PROVE  required[i] \in ToSet(s)
  <2>1. i \in 1..(k + n) /\ i <= k
    BY <1>1
  <2>2. s[i] = required[i]
    BY <1>2, <2>1
  <2>3. s[i] \in ToSet(s)
    BY <1>2, <2>1 DEF ToSet
  <2>. QED BY <2>2, <2>3
<1>5. ASSUME NEW i \in 1..n
      PROVE  optional[i] \in ToSet(s)
  <2>1. k + i \in 1..(k + n) /\ ~(k + i <= k) /\ (k + i) - k = i
    BY <1>1
  <2>2. s[k + i] = optional[i]
    BY <1>2, <2>1
  <2>. QED BY <1>2, <2>1, <2>2 DEF ToSet
<1>6. \A c \in ToSet(required) : \E i \in 1..k : c = required[i]
  BY DEF ToSet
<1>. QED BY <1>3, <1>4, <1>5, <1>6 DEF s

\* The prompt with its next passage is the next longer prompt.
LEMMA JoinedNext ==
  ASSUME NEW S, NEW required \in Seq(S), NEW optional \in Seq(S),
         NEW n \in 0..Len(optional), n < Len(optional)
  PROVE  Append(required \o Prefix(optional, n), optional[n + 1]) = required \o Prefix(optional, n + 1)
<1> DEFINE k == Len(required)
           s == required \o Prefix(optional, n)
           t == required \o Prefix(optional, n + 1)
           u == Append(s, optional[n + 1])
<1>1. k \in Nat /\ n \in Nat /\ n + 1 \in 0..Len(optional) /\ optional[n + 1] \in S
  OBVIOUS
<1>2. /\ s \in Seq(S) /\ Len(s) = k + n
      /\ \A i \in 1..(k + n) : s[i] = IF i <= k THEN required[i] ELSE optional[i - k]
  BY Joined
<1>. HIDE DEF s
<1>3. /\ t \in Seq(S) /\ Len(t) = k + n + 1
      /\ \A i \in 1..(k + n + 1) : t[i] = IF i <= k THEN required[i] ELSE optional[i - k]
  <2> DEFINE m == n + 1
  <2>1. m \in 0..Len(optional) /\ k + m = k + n + 1 /\ t = required \o Prefix(optional, m)
    BY <1>1
  <2>. HIDE DEF m, t
  <2>2. t \in Seq(S) /\ Len(t) = k + m
    BY <2>1, Joined
  <2>3. \A i \in 1..(k + m) : t[i] = IF i <= k THEN required[i] ELSE optional[i - k]
    BY <2>1, Joined
  <2>. HIDE DEF k
  <2>. QED BY <2>1, <2>2, <2>3
<1>. HIDE DEF t, k
<1>4. /\ u \in Seq(S) /\ Len(u) = k + n + 1 /\ u[k + n + 1] = optional[n + 1]
      /\ \A i \in 1..(k + n) : u[i] = s[i]
  <2>1. \A q \in Seq(S), e \in S :
          /\ Append(q, e) \in Seq(S) /\ Len(Append(q, e)) = Len(q) + 1
          /\ Append(q, e)[Len(q) + 1] = e
          /\ \A i \in 1..Len(q) : Append(q, e)[i] = q[i]
    OBVIOUS
  <2>2. /\ u \in Seq(S) /\ Len(u) = Len(s) + 1 /\ u[Len(s) + 1] = optional[n + 1]
        /\ \A i \in 1..Len(s) : u[i] = s[i]
    BY <1>1, <1>2, <2>1
  <2>. HIDE DEF k, u
  <2>. QED BY <1>2, <2>2
<1>. HIDE DEF u
<1>5. \A i \in 1..(k + n + 1) : t[i] = u[i]
  <2> TAKE i \in 1..(k + n + 1)
  <2>1. CASE i \in 1..(k + n)
    BY <1>1, <1>2, <1>3, <1>4, <2>1
  <2>2. CASE i = k + n + 1
    <3>1. ~(i <= k) /\ i - k = n + 1
      BY <1>1, <2>2
    <3>. QED BY <1>1, <1>3, <1>4, <2>2, <3>1
  <2>. QED BY <1>1, <2>1, <2>2
<1>6. t = u
  BY <1>1, <1>3, <1>4, <1>5
<1>. QED BY <1>6 DEF t, u, s

\* Two members of a sequence in order stand as their places do.
LEMMA Stands ==
  ASSUME NEW S, Ordered(S), NEW i \in 1..Len(InOrder(S)), NEW j \in 1..Len(InOrder(S))
  PROVE  /\ InOrder(S)[i] \in S
         /\ i <= j <=> ~Before(InOrder(S)[j], InOrder(S)[i])
         /\ i < j <=> Before(InOrder(S)[i], InOrder(S)[j])
<1>1. InOrder(S)[i] \in S /\ InOrder(S)[j] \in S /\ Len(InOrder(S)) \in Nat
  BY Sorted
<1>2. CASE i < j
  BY <1>1, <1>2, Sorted, BeforeIsOrder
<1>3. CASE i = j
  BY <1>1, <1>3, BeforeIsOrder
<1>4. CASE j < i
  BY <1>1, <1>4, Sorted, BeforeIsOrder
<1>. QED BY <1>1, <1>2, <1>3, <1>4

\* The prompt of a selected passage: what is left out says nothing new, or
\* stands behind the first that no longer fits.
LEMMA SelectionPacked ==
  ASSUME NEW d, d.kind # "book", d.library \in Libraries \cup {{}},
         d.sent = Packed(d), d.sent # TooLarge
  PROVE  Fits(d.sent, d.mode) /\ SelectionIsRight(d)
<1> DEFINE all == SelectionCandidates(d.library)
           kept == Deduplicated(all)
           selected == {c \in kept : c.kind = "selection"}
           rest == kept \ selected
           required == InOrder(selected)
           optional == InOrder(rest)
           sent == ToSet(d.sent)
           New(c) == ~\E k \in sent : Before(k, c) /\ Repeats(c, k)
           left == {c \in all \ sent : New(c)}
<1>1. Ordered(all) /\ Passage \in all /\ Passage.kind = "selection"
  BY CandidateAssumption DEF SelectionCandidates
<1>2. /\ kept \subseteq all
      /\ \A c \in all : c \in kept <=> ~\E prior \in kept : Before(prior, c) /\ Repeats(c, prior)
  BY <1>1, Kept
<1>3. ASSUME NEW c \in all, c # Passage
      PROVE  c.kind # "selection" /\ ~Before(c, Passage) /\ Before(Passage, c)
  <2>1. c.kind \in {"neighbor", "heading", "definition", "search"}
    <3>1. CASE c \in d.library
      BY <3>1, CandidateAssumption
    <3>2. CASE c \in SearchHits(d.library)
      BY <3>2, CandidateAssumption DEF SearchHits, As
    <3>. QED BY <1>3, <3>1, <3>2 DEF SelectionCandidates, Neighbors, Headings, Definitions
  <2>2. PackingOrder(Passage.kind) = 0 /\ PackingOrder(c.kind) \in 1..3
    BY <1>1, <2>1 DEF PackingOrder
  <2>. QED BY <1>1, <2>1, <2>2 DEF Before
<1>. HIDE DEF all, kept
<1>4. selected = {Passage}
  <2>1. Passage \in kept
    BY <1>1, <1>2, <1>3, BeforeIsOrder
  <2>. QED BY <1>1, <1>2, <1>3, <2>1
<1>5. Ordered(selected) /\ Ordered(rest)
  BY <1>1, <1>2, OrderedSubset
<1>6. /\ required \in Seq(selected) /\ ToSet(required) = {Passage}
      /\ optional \in Seq(rest) /\ ToSet(optional) = rest /\ Len(optional) \in Nat
  BY <1>4, <1>5, Sorted
<1>7. d.sent = Longest(required, optional, d.mode)
  BY DEF Packed, PackSelection, all, kept
<1>8. required \in Seq(all) /\ optional \in Seq(all)
  BY <1>1, <1>2, <1>6
<1>9. \A i, j \in 1..Len(optional) : Before(optional[i], optional[j]) <=> i < j
  BY <1>5, Stands
<1>. HIDE DEF selected, required, optional
<1>10. \A n \in 0..Len(optional) : n < Len(optional) =>
         Append(required \o Prefix(optional, n), optional[n + 1]) = required \o Prefix(optional, n + 1)
  <2>. SUFFICES ASSUME NEW n \in 0..Len(optional), n < Len(optional)
                PROVE  Append(required \o Prefix(optional, n), optional[n + 1])
                         = required \o Prefix(optional, n + 1)
    OBVIOUS
  <2>. DEFINE S == all
  <2>1. required \in Seq(S) /\ optional \in Seq(S)
    BY <1>8
  <2>. HIDE DEF S
  <2>. QED BY <2>1, JoinedNext, ZenonT(60)
<1>11. PICK n \in 0..Len(optional) :
        /\ d.sent = required \o Prefix(optional, n)
        /\ Fits(required \o Prefix(optional, n), d.mode)
        /\ n < Len(optional) => ~Fits(required \o Prefix(optional, n + 1), d.mode)
  <2>1. Longest(required, optional, d.mode) # TooLarge
    BY <1>7
  <2>2. \E n \in 0..Len(optional) :
          /\ Longest(required, optional, d.mode) = required \o Prefix(optional, n)
          /\ Fits(required \o Prefix(optional, n), d.mode)
          /\ n < Len(optional) => ~Fits(required \o Prefix(optional, n + 1), d.mode)
    BY <1>8, <2>1, LongestFits
  <2>. QED BY <1>7, <2>2
<1>12. /\ sent = {Passage} \cup {optional[i] : i \in 1..n}
       /\ n < Len(optional) => Append(d.sent, optional[n + 1]) = required \o Prefix(optional, n + 1)
  <2>1. \A c : c \in ToSet(required \o Prefix(optional, n)) <=>
                 c \in ToSet(required) \/ \E i \in 1..n : c = optional[i]
    BY <1>8, JoinedMembers
  <2>2. n < Len(optional) =>
          Append(required \o Prefix(optional, n), optional[n + 1]) = required \o Prefix(optional, n + 1)
    BY <1>10
  <2>3. d.sent = required \o Prefix(optional, n)
    BY <1>11
  <2>4. \A c : c \in sent <=> c = Passage \/ \E i \in 1..n : c = optional[i]
    BY <1>6, <2>1, <2>3, Zenon
  <2>. QED BY <2>2, <2>3, <2>4
<1>13. \A i \in 1..Len(optional) : optional[i] \in rest
  BY <1>6
<1>14. \A c \in rest : \E i \in 1..Len(optional) : c = optional[i]
  BY <1>6 DEF ToSet
<1>15. sent \subseteq kept /\ sent \subseteq all /\ Passage \in sent
  BY <1>1, <1>2, <1>3, <1>4, <1>11, <1>12, <1>13 DEF selected
<1>16. \A c \in sent : New(c)
  BY <1>2, <1>15
<1>17. ASSUME NEW c \in rest, c \notin sent
       PROVE  \E j \in 1..Len(optional) : c = optional[j] /\ j > n
  BY <1>6, <1>11, <1>12, <1>14, <1>17
<1>18. ASSUME NEW c \in left
       PROVE  \E j \in 1..Len(optional) : j > n /\ (c = optional[j] \/ Before(optional[j], c))
  <2>1. CASE c \in kept
    <3>1. c \in rest /\ c \notin sent
      BY <1>18, <1>4, <1>15, <2>1
    <3>. QED BY <1>17, <3>1
  <2>2. CASE c \notin kept
    <3>1. PICK prior \in kept : Before(prior, c) /\ Repeats(c, prior)
      BY <1>2, <1>18, <2>2
    <3>2. prior \notin sent
      BY <1>18, <3>1
    <3>3. prior \in rest
      BY <1>4, <1>15, <3>1, <3>2
    <3>. QED BY <1>17, <3>1, <3>2, <3>3
  <2>. QED BY <2>1, <2>2
<1>19. \A j \in 1..Len(optional) : j > n => \A k \in sent : Before(k, optional[j])
  <2>. SUFFICES ASSUME NEW j \in 1..Len(optional), j > n, NEW k \in sent
                PROVE  Before(k, optional[j])
    OBVIOUS
  <2>1. CASE k = Passage
    BY <1>2, <1>3, <1>4, <1>13, <2>1
  <2>2. CASE \E i \in 1..n : k = optional[i]
    <3>1. PICK i \in 1..n : k = optional[i]
      BY <2>2
    <3>2. i \in 1..Len(optional) /\ i < j
      BY <1>6, <1>11
    <3>. QED BY <1>9, <3>1, <3>2
  <2>. QED BY <1>12, <2>1, <2>2
<1>20. ASSUME NEW c \in left, NEW k \in sent
       PROVE  Before(k, c)
  <2>1. PICK j \in 1..Len(optional) : j > n /\ (c = optional[j] \/ Before(optional[j], c))
    BY <1>18
  <2>2. Before(k, optional[j])
    BY <1>19, <2>1
  <2>3. c \in all /\ k \in all /\ optional[j] \in all
    BY <1>2, <1>13, <1>15
  <2>. QED BY <1>1, <2>1, <2>2, <2>3, BeforeIsOrder
<1>21. ASSUME NEW c \in left, \A k \in left : k = c \/ Before(c, k)
       PROVE  ~Fits(Append(d.sent, c), d.mode)
  <2>1. PICK j \in 1..Len(optional) : j > n /\ (c = optional[j] \/ Before(optional[j], c))
    BY <1>18
  <2> DEFINE next == optional[n + 1]
  <2>2. n < Len(optional) /\ n + 1 \in 1..Len(optional) /\ n + 1 > n /\ n + 1 <= j
    BY <1>6, <1>11, <2>1
  <2>3. next \in rest /\ next \in kept /\ next \in all
    BY <1>2, <1>13, <2>2
  <2>4. next \notin sent
    BY <1>1, <1>19, <2>2, <2>3, BeforeIsOrder
  <2>5. next \in left
    BY <1>2, <1>15, <2>3, <2>4
  <2>6. next = optional[j] \/ Before(next, optional[j])
    BY <1>9, <2>1, <2>2
  <2>7. c = next
    <3>1. c = next \/ Before(next, c)
      BY <1>1, <1>2, <1>13, <2>1, <2>3, <2>6, BeforeIsOrder
    <3>2. c = next \/ Before(c, next)
      BY <1>21, <2>5
    <3>. QED BY <1>1, <2>3, <3>1, <3>2, BeforeIsOrder
  <2>. QED BY <1>11, <1>12, <2>2, <2>7
<1>22. SelectionIsRight(d)
  BY <1>15, <1>16, <1>20, <1>21 DEF SelectionIsRight, all
<1>. QED BY <1>11, <1>22

\* What the attempts try, with a history of h pairs and an outline of o items.
Tried(h, o) ==
  {a \in [dropped : 0..h, items : 1..o, hits : BOOLEAN] :
     /\ a.items < o => a.dropped = h
     /\ a.hits => a.dropped = 0 /\ a.items = o}

\* An attempt gives up pairs before items, and pairs only without hits.
LEMMA AttemptsAreTried ==
  ASSUME NEW S, NEW outline \in Seq(S), outline # <<>>, NEW T, NEW history \in Seq(T)
  PROVE  Attempts(outline, history) \in Seq(Tried(Len(history), Len(outline)))
<1> DEFINE h == Len(history)
           o == Len(outline)
           first == [dropped |-> 0, items |-> o, hits |-> TRUE]
           second == [i \in 1..h |-> [dropped |-> i, items |-> o, hits |-> FALSE]]
           third == [i \in 1..Minus(o, 1) |-> [dropped |-> h, items |-> o - i, hits |-> FALSE]]
<1>1. h \in Nat /\ o \in Nat /\ o > 0 /\ Minus(o, 1) = o - 1 /\ o - 1 \in Nat
  BY DEF Minus
<1>2. Attempts(outline, history) = <<first>> \o second \o third
  BY DEF Attempts
<1>. HIDE DEF h, o
<1>3. first \in Tried(h, o)
  BY <1>1 DEF Tried
<1>4. second \in Seq(Tried(h, o))
  <2>1. \A i \in 1..h : [dropped |-> i, items |-> o, hits |-> FALSE] \in Tried(h, o)
    BY <1>1 DEF Tried
  <2>. QED BY <1>1, <2>1
<1>5. third \in Seq(Tried(h, o))
  <2>1. \A i \in 1..(o - 1) : o - i \in 1..o
    BY <1>1
  <2>2. \A i \in 1..(o - 1) : [dropped |-> h, items |-> o - i, hits |-> FALSE] \in Tried(h, o)
    BY <1>1, <2>1 DEF Tried
  <2>3. third = [i \in 1..(o - 1) |-> [dropped |-> h, items |-> o - i, hits |-> FALSE]]
    BY <1>1
  <2>. HIDE DEF third
  <2>4. third \in [1..(o - 1) -> Tried(h, o)]
    BY <2>2, <2>3
  <2>. QED BY <1>1, <2>4
<1>6. <<first>> \in Seq(Tried(h, o))
  BY <1>3
<1>. HIDE DEF first, second, third
<1>7. <<first>> \o second \o third \in Seq(Tried(h, o))
  BY <1>4, <1>5, <1>6
<1>. QED BY <1>2, <1>7 DEF h, o

\* What is sent is one of the attempts.
LEMMA OneAttempt ==
  ASSUME NEW S, NEW outline \in Seq(S), outline # <<>>, NEW T, NEW history \in Seq(T),
         NEW omitted, NEW hits, NEW placeholder, NEW mode,
         PackLocalSnapshot(outline, history, omitted, hits, placeholder, mode) # TooLarge
  PROVE  \E a \in Tried(Len(history), Len(outline)) :
           PackLocalSnapshot(outline, history, omitted, hits, placeholder, mode)
             = Attempt(outline, history, omitted, hits, placeholder, mode, a)
<1> DEFINE all == Attempts(outline, history)
           tried == [i \in DOMAIN all |->
                       Attempt(outline, history, omitted, hits, placeholder, mode, all[i])]
           good == {i \in DOMAIN tried : tried[i] # TooLarge}
           least == CHOOSE i \in good : \A j \in good : i <= j
<1>1. all \in Seq(Tried(Len(history), Len(outline)))
  BY AttemptsAreTried
<1>2. /\ good # {}
      /\ PackLocalSnapshot(outline, history, omitted, hits, placeholder, mode) = tried[least]
  BY DEF PackLocalSnapshot
<1>. HIDE DEF all
<1>3. good \subseteq Nat /\ DOMAIN tried = DOMAIN all
  BY <1>1
<1>. HIDE DEF good
<1>4. least \in good
  BY <1>2, <1>3, LeastNumber
<1>. HIDE DEF least
<1>5. least \in DOMAIN all
  BY <1>3, <1>4 DEF good
<1>6. all[least] \in Tried(Len(history), Len(outline))
  BY <1>1, <1>5
<1>. QED BY <1>2, <1>5, <1>6

\* The first items of the outline, of which no two are the same.
LEMMA OutlinePrefix ==
  ASSUME NEW m \in 0..Len(Outline)
  PROVE  /\ \A c : c \in ToSet(Prefix(Outline, m)) <=> \E i \in 1..m : c = Outline[i]
         /\ ToSet(Prefix(Outline, m)) \subseteq ToSet(Outline)
         /\ IsFiniteSet(ToSet(Prefix(Outline, m)))
         /\ Cardinality(ToSet(Prefix(Outline, m))) = m
<1> DEFINE T == ToSet(Prefix(Outline, m))
           f == [i \in 1..m |-> Outline[i]]
<1>1. /\ Outline \in Seq(ToSet(Outline)) /\ DOMAIN Outline = 1..Len(Outline)
      /\ m \in Nat /\ m <= Len(Outline)
  BY CandidateAssumption
<1>2. /\ Prefix(Outline, m) \in Seq(ToSet(Outline)) /\ Len(Prefix(Outline, m)) = m
      /\ \A i \in 1..m : Prefix(Outline, m)[i] = Outline[i]
  BY <1>1 DEF Prefix
<1>3. \A c : c \in T <=> \E i \in 1..m : c = Outline[i]
  BY <1>2 DEF ToSet
<1>4. T \subseteq ToSet(Outline)
  <2>1. \A i \in 1..m : Outline[i] \in ToSet(Outline)
    BY <1>1 DEF ToSet
  <2>. QED BY <1>3, <2>1
<1>. HIDE DEF T
<1>5. f \in [1..m -> T] /\ \A i \in 1..m : f[i] = Outline[i]
  BY <1>3
<1>6. \A i, j \in 1..m : i # j => Outline[i] # Outline[j]
  BY <1>1, CandidateAssumption
<1>. HIDE DEF f
<1>7. f \in Surjection(1..m, T) /\ f \in Injection(1..m, T)
  BY <1>3, <1>5, <1>6 DEF Surjection, Injection, IsInjective
<1>8. IsFiniteSet(1..m) /\ Cardinality(1..m) = m
  BY <1>1, FS_Interval
<1>9. IsFiniteSet(T) /\ Cardinality(T) = m
  BY <1>7, <1>8, FS_Surjection
<1>. QED BY <1>3, <1>4, <1>9 DEF T

\* What a search finds is a passage of the book, and no item of its outline
\* nor a note on its history.
LEMMA HitsAreFound ==
  ASSUME NEW library \in Libraries \cup {{}}
  PROVE  /\ ToSet(BoundedHits(library)) \subseteq SearchHits(library)
         /\ \A c \in SearchHits(library) :
              /\ c.kind = "search" /\ c.source \notin {"directory", "history"}
              /\ \E k \in library : k.source = c.source /\ k.place = c.place /\ k.review = c.review
<1> DEFINE hits == HitsOf(library)
           m == Least(MaxHits, Len(hits))
<1>1. Ordered(SearchHits(library))
  <2>1. /\ Ordered(SelectionCandidates(library))
        /\ SearchHits(library) \in SUBSET SelectionCandidates(library)
    BY CandidateAssumption DEF SelectionCandidates
  <2>. QED BY <2>1, OrderedSubset
<1>2. hits \in Seq(SearchHits(library)) /\ ToSet(hits) = SearchHits(library)
  BY <1>1, Sorted DEF HitsOf
<1>. HIDE DEF hits
<1>3. m \in 0..Len(hits)
  BY <1>2, BoundAssumption DEF Least
<1>. HIDE DEF m
<1>4. Prefix(hits, m) \in Seq(SearchHits(library))
  BY <1>2, <1>3 DEF Prefix
<1>5. ToSet(BoundedHits(library)) \subseteq SearchHits(library)
  BY <1>4 DEF BoundedHits, ToSet, hits, m
<1>6. ASSUME NEW c \in SearchHits(library)
      PROVE  /\ c.kind = "search" /\ c.source \notin {"directory", "history"}
             /\ \E k \in library : k.source = c.source /\ k.place = c.place /\ k.review = c.review
  <2>1. PICK k \in library : c = [k EXCEPT !.kind = "search"]
    BY DEF SearchHits, As
  <2>2. /\ {"kind", "source", "place", "review"} \subseteq DOMAIN k
        /\ k.source \notin {"directory", "history"}
    BY CandidateAssumption
  <2>3. c.kind = "search" /\ c.source = k.source /\ c.place = k.place /\ c.review = k.review
    BY <2>1, <2>2
  <2>. QED BY <2>2, <2>3
<1>. QED BY <1>5, <1>6

\* One attempt at a question about the book: every item of its outline and
\* the note on the history survive the removal of repeats.
LEMMA AttemptPacked ==
  ASSUME NEW d, d.library \in Libraries \cup {{}}, d.pairs \in Nat,
         NEW a \in Tried(Least(d.pairs, MaxPairs), Len(Outline)),
         d.sent = Attempt(Outline, History(d.pairs), d.pairs > MaxPairs,
                          ToSet(BoundedHits(d.library)), Placeholder, d.mode, a),
         d.sent # TooLarge
  PROVE  /\ Fits(d.sent, d.mode) /\ BookIsRight(d)
         /\ ToSet(d.sent) \subseteq BookCandidates(d.library) \cup {Pair}
<1> DEFINE h == Least(d.pairs, MaxPairs)
           o == Len(Outline)
           m == a.items
           k == h - a.dropped
           found == ToSet(BoundedHits(d.library))
           all == ToSet(Prefix(Outline, m)) \cup (IF a.hits THEN found ELSE {})
                    \cup (IF d.pairs > MaxPairs \/ a.dropped > 0 THEN {Placeholder} ELSE {})
           kept == Deduplicated(all)
           needed == {c \in kept : c.kind \in {"history", "directory"}}
           rest == {c \in kept : c.kind = "search"}
           past == SubSeq(History(d.pairs), a.dropped + 1, Len(History(d.pairs)))
           required == past \o InOrder(needed)
           optional == InOrder(rest)
           every == BookCandidates(d.library) \cup {Pair}
           sent == ToSet(d.sent)
           hits == {c \in sent : c.kind = "search"}
<1>1. /\ Outline \in Seq(ToSet(Outline)) /\ o \in Nat /\ o > 0
      /\ d.pairs \in Nat /\ MaxPairs \in Nat /\ h \in Nat /\ h <= d.pairs /\ h <= MaxPairs
      /\ h = d.pairs \/ h = MaxPairs
  BY CandidateAssumption, BoundAssumption DEF Least
<1>2. /\ a.dropped \in 0..h /\ m \in 1..o /\ a.hits \in BOOLEAN
      /\ m < o => a.dropped = h
      /\ a.hits => a.dropped = 0 /\ m = o
  BY DEF Tried
<1>3. k \in Nat /\ (k < d.pairs <=> d.pairs > MaxPairs \/ a.dropped > 0)
  BY <1>1, <1>2
<1>4. /\ History(d.pairs) \in Seq({Pair}) /\ Len(History(d.pairs)) = h
      /\ past \in Seq({Pair}) /\ Len(past) = k /\ \A i \in 1..k : past[i] = Pair
  <2>1. History(d.pairs) = [i \in 1..h |-> Pair]
    BY DEF History
  <2>2. History(d.pairs) \in Seq({Pair}) /\ Len(History(d.pairs)) = h
    BY <1>1, <2>1
  <2>3. past \in Seq({Pair}) /\ Len(past) = k
    BY <1>1, <1>2, <2>2
  <2>. HIDE DEF past
  <2>. QED BY <2>2, <2>3
<1>. HIDE DEF past
<1>5. /\ found \subseteq SearchHits(d.library)
      /\ \A c \in found : c.kind = "search" /\ c.source \notin {"directory", "history"}
  BY HitsAreFound
<1>6. /\ \A c : c \in ToSet(Prefix(Outline, m)) <=> \E i \in 1..m : c = Outline[i]
      /\ ToSet(Prefix(Outline, m)) \subseteq ToSet(Outline)
      /\ Cardinality(ToSet(Prefix(Outline, m))) = m
  BY <1>1, <1>2, OutlinePrefix
<1>7. /\ \A c \in ToSet(Outline) : c.kind = "directory" /\ c.source = "directory"
      /\ \A b, c \in ToSet(Outline) : b = c \/ b.place # c.place
      /\ \A c \in {Pair, Placeholder} : c.kind = "history" /\ c.source = "history"
      /\ Pair # Placeholder
  BY CandidateAssumption DEF ToSet
<1>. HIDE DEF found, h, o, m, k
<1>8. Ordered(all) /\ all \subseteq BookCandidates(d.library)
  <2>1. all \in SUBSET BookCandidates(d.library)
    BY <1>5, <1>6 DEF BookCandidates
  <2>2. Ordered(BookCandidates(d.library))
    BY CandidateAssumption
  <2>. HIDE DEF all
  <2>. QED BY <2>1, <2>2, OrderedSubset
<1>9. \A c \in all : \/ c \in ToSet(Prefix(Outline, m))
                     \/ c = Placeholder /\ k < d.pairs
                     \/ c \in found /\ a.hits
  BY <1>3
<1>10. /\ ToSet(Prefix(Outline, m)) \subseteq all
       /\ Placeholder \in all <=> k < d.pairs
       /\ a.hits => found \subseteq all
  BY <1>3, <1>5, <1>6, <1>7
<1>. HIDE DEF all
<1>11. /\ kept \subseteq all
       /\ \A c \in all : c \in kept <=> ~\E prior \in kept : Before(prior, c) /\ Repeats(c, prior)
  BY <1>8, Kept
<1>. HIDE DEF kept
<1>12. needed = {c \in all : c \notin found}
  <2>1. ASSUME NEW c \in all, c \notin found
        PROVE  c \in needed
    <3>1. c.kind \in {"history", "directory"} /\ c.source = c.kind
      BY <1>6, <1>7, <1>9, <2>1
    <3>2. ASSUME NEW prior \in all, Before(prior, c), Repeats(c, prior)
          PROVE  FALSE
      <4>1. prior # c
        BY <1>8, <3>2, BeforeIsOrder
      <4>2. prior.source = c.source /\ prior.place = c.place
        BY <3>2 DEF Repeats
      <4>. QED BY <1>5, <1>6, <1>7, <1>9, <2>1, <4>1, <4>2
    <3>. QED BY <1>11, <3>1, <3>2
  <2>2. ASSUME NEW c \in needed
        PROVE  c \in all /\ c \notin found
    BY <1>5, <1>11
  <2>. QED BY <2>1, <2>2
<1>13. rest = {c \in kept : c \in found} /\ (rest # {} => a.hits)
  <2>1. \A c \in kept : c.kind = "search" <=> c \in found
    BY <1>5, <1>6, <1>7, <1>9, <1>11
  <2>2. \A c \in kept : c \in found => a.hits
    BY <1>5, <1>6, <1>7, <1>9, <1>11
  <2>. QED BY <2>1, <2>2
<1>14. Ordered(needed) /\ Ordered(rest) /\ needed \subseteq all /\ rest \subseteq all
  BY <1>8, <1>11, OrderedSubset
<1>15. /\ InOrder(needed) \in Seq(needed) /\ ToSet(InOrder(needed)) = needed
       /\ Len(InOrder(needed)) \in Nat
       /\ optional \in Seq(rest) /\ ToSet(optional) = rest /\ Len(optional) \in Nat
       /\ \A i \in 1..Len(optional) : optional[i] \in rest
       /\ \A i, j \in 1..Len(optional) : Before(optional[i], optional[j]) <=> i < j
  <2>1. /\ InOrder(needed) \in Seq(needed) /\ ToSet(InOrder(needed)) = needed
        /\ Len(InOrder(needed)) \in Nat
    BY <1>14, Sorted
  <2>2. optional \in Seq(rest) /\ ToSet(optional) = rest /\ Len(optional) \in Nat
    BY <1>14, Sorted
  <2>3. \A i, j \in 1..Len(optional) : Before(optional[i], optional[j]) <=> i < j
    BY <1>14, Stands
  <2>. HIDE DEF optional
  <2>4. \A i \in 1..Len(optional) : optional[i] \in rest
    BY <2>2
  <2>. QED BY <2>1, <2>2, <2>3, <2>4
<1>16. d.sent = Longest(required, optional, d.mode)
  BY DEF Attempt, PackBook, required, optional, past, all, kept, found, m
<1>. HIDE DEF needed, rest, optional
<1>17. required \in Seq(every) /\ optional \in Seq(every)
  <2>1. past \in Seq(every) /\ InOrder(needed) \in Seq(every) /\ optional \in Seq(every)
    BY <1>4, <1>8, <1>14, <1>15
  <2>. HIDE DEF every
  <2>. QED BY <2>1
<1>18. /\ Len(required) \in Nat /\ k <= Len(required)
       /\ \A i \in 1..Len(required) : IF i <= k THEN required[i] = Pair ELSE required[i] \in needed
       /\ \A c : c \in ToSet(required) <=> (c = Pair /\ k > 0) \/ c \in needed
  <2> DEFINE l == Len(InOrder(needed))
             q == InOrder(needed)
  <2>1. q \in Seq(needed) /\ l \in Nat /\ l = Len(q) /\ \A i \in 1..l : q[i] \in needed
    BY <1>15
  <2>2. \A c \in needed : \E i \in 1..l : c = q[i]
    BY <1>15 DEF ToSet
  <2>. HIDE DEF q, l
  <2>3. /\ required = past \o q /\ Len(past \o q) = k + l
        /\ \A i \in 1..(k + l) : (past \o q)[i] = IF i <= k THEN past[i] ELSE q[i - k]
    <3>1. required = past \o q
      BY DEF q
    <3>2. \A s, t \in Seq(needed \cup {Pair}) :
            /\ Len(s \o t) = Len(s) + Len(t)
            /\ \A i \in 1..(Len(s) + Len(t)) :
                 (s \o t)[i] = IF i <= Len(s) THEN s[i] ELSE t[i - Len(s)]
      OBVIOUS
    <3>3. past \in Seq(needed \cup {Pair}) /\ q \in Seq(needed \cup {Pair})
      BY <1>4, <2>1
    <3>. HIDE DEF required
    <3>. QED BY <1>4, <2>1, <3>1, <3>2, <3>3
  <2>. HIDE DEF required
  <2>4. /\ required \in Seq(every) /\ Len(required) = k + l
        /\ \A i \in 1..(k + l) : required[i] = IF i <= k THEN past[i] ELSE q[i - k]
    BY <1>17, <2>3
  <2>5. ASSUME NEW i \in 1..(k + l)
        PROVE  IF i <= k THEN required[i] = Pair ELSE required[i] \in needed
    <3>1. CASE i <= k
      BY <1>3, <1>4, <2>4, <3>1
    <3>2. CASE ~(i <= k)
      <4>1. i - k \in 1..l
        BY <1>3, <2>1, <3>2
      <4>. QED BY <2>1, <2>4, <3>2, <4>1
    <3>. QED BY <3>1, <3>2
  <2>6. ASSUME NEW i \in 1..l
        PROVE  q[i] \in ToSet(required)
    <3>1. k + i \in 1..(k + l) /\ ~(k + i <= k) /\ (k + i) - k = i
      BY <1>3, <2>1
    <3>2. required[k + i] = q[i]
      BY <2>4, <3>1
    <3>3. required[k + i] \in ToSet(required)
      BY <2>4, <3>1 DEF ToSet
    <3>. QED BY <3>2, <3>3
  <2>7. ASSUME k > 0
        PROVE  Pair \in ToSet(required)
    <3>1. 1 \in 1..(k + l) /\ 1 <= k
      BY <1>3, <2>1, <2>7
    <3>. QED BY <2>4, <2>5, <3>1 DEF ToSet
  <2>8. ASSUME NEW c \in ToSet(required)
        PROVE  (c = Pair /\ k > 0) \/ c \in needed
    <3>1. PICK i \in 1..(k + l) : c = required[i]
      BY <2>4 DEF ToSet
    <3>2. i <= k => k > 0
      BY <1>3
    <3>. QED BY <2>5, <3>1, <3>2
  <2>. QED BY <1>3, <2>1, <2>2, <2>4, <2>5, <2>6, <2>7, <2>8
<1>. HIDE DEF required, every
<1>19. PICK n \in 0..Len(optional) :
         d.sent = required \o Prefix(optional, n) /\ Fits(required \o Prefix(optional, n), d.mode)
  <2>1. Longest(required, optional, d.mode) # TooLarge
    BY <1>16
  <2>2. \E n \in 0..Len(optional) :
          /\ Longest(required, optional, d.mode) = required \o Prefix(optional, n)
          /\ Fits(required \o Prefix(optional, n), d.mode)
    BY <1>17, <2>1, LongestFits
  <2>. QED BY <1>16, <2>2
<1>20. \A c : c \in sent <=> \/ c = Pair /\ k > 0
                             \/ c \in needed
                             \/ \E i \in 1..n : c = optional[i]
  <2>1. \A c : c \in ToSet(required \o Prefix(optional, n)) <=>
                 c \in ToSet(required) \/ \E i \in 1..n : c = optional[i]
    BY <1>17, JoinedMembers
  <2>. QED BY <1>18, <1>19, <2>1
<1>21. n \in Nat /\ n <= Len(optional) /\ \A i \in 1..n : optional[i] \in rest /\ i \in 1..Len(optional)
  BY <1>15, <1>19
<1>22. Pair \notin all /\ needed \subseteq all /\ rest \subseteq all
  BY <1>5, <1>6, <1>7, <1>9, <1>14
<1>23. {i \in DOMAIN d.sent : d.sent[i] = Pair} = 1..k
  <2> DEFINE l == Len(required)
  <2>1. /\ d.sent \in Seq(every) /\ Len(d.sent) = l + n
        /\ \A i \in 1..(l + n) : d.sent[i] = IF i <= l THEN required[i] ELSE optional[i - l]
    <3>1. n \in 0..Len(optional)
      OBVIOUS
    <3>2. required \o Prefix(optional, n) \in Seq(every)
      BY <1>17, <3>1, Joined
    <3>3. Len(required \o Prefix(optional, n)) = Len(required) + n
      BY <1>17, <3>1, Joined
    <3>4. \A i \in 1..(Len(required) + n) :
             (required \o Prefix(optional, n))[i] =
                IF i <= Len(required) THEN required[i] ELSE optional[i - Len(required)]
      BY <1>17, <3>1, Joined
    <3>. QED BY <1>19, <3>2, <3>3, <3>4
  <2>2. DOMAIN d.sent = 1..(l + n) /\ l \in Nat /\ k <= l
    BY <1>18, <2>1
  <2>3. ASSUME NEW i \in 1..(l + n)
        PROVE  d.sent[i] = Pair <=> i <= k
    <3>1. CASE i <= l
      <4>1. i \in 1..l
        BY <2>2, <3>1
      <4>. QED BY <1>18, <1>22, <2>1, <3>1, <4>1
    <3>2. CASE ~(i <= l)
      <4>1. i - l \in 1..n /\ ~(i <= k)
        BY <1>3, <1>21, <2>2, <3>2
      <4>. QED BY <1>21, <1>22, <2>1, <3>2, <4>1
    <3>. QED BY <3>1, <3>2
  <2>. HIDE DEF l
  <2>4. \A i \in 1..k : i \in 1..(l + n) /\ i <= k
    BY <1>3, <1>21, <2>2
  <2>5. \A i \in 1..(l + n) : i <= k => i \in 1..k
    BY <1>3
  <2>. QED BY <2>2, <2>3, <2>4, <2>5
<1>24. Cardinality({i \in DOMAIN d.sent : d.sent[i] = Pair}) = k
  <2>1. Cardinality(1..k) = k
    BY <1>3, FS_Interval
  <2>. QED BY <1>23, <2>1
<1>25. sent \cap ToSet(Outline) = ToSet(Prefix(Outline, m))
  <2>1. \A c \in ToSet(Outline) : c # Pair /\ c # Placeholder /\ c \notin found
    BY <1>5, <1>7
  <2>2. \A c \in ToSet(Outline) : c \in all <=> c \in ToSet(Prefix(Outline, m))
    BY <1>9, <1>10, <2>1
  <2>3. \A i \in 1..n : optional[i] \in found
    BY <1>13, <1>21
  <2>. QED BY <1>6, <1>12, <1>20, <2>1, <2>2, <2>3
<1>26. \A c : c \in hits <=> \E i \in 1..n : c = optional[i]
  <2>1. Pair.kind # "search" /\ \A c \in needed : c.kind # "search"
    BY <1>6, <1>7, <1>9, <1>12
  <2>2. \A i \in 1..n : optional[i].kind = "search"
    BY <1>5, <1>13, <1>21
  <2>. QED BY <1>20, <2>1, <2>2
<1>27. hits # {} => a.hits /\ m = o /\ k = h
  <2>1. hits # {} => a.hits
    BY <1>13, <1>21, <1>26
  <2>2. a.dropped = 0 => k = h
    BY <1>1 DEF k
  <2>. QED BY <1>2, <2>1, <2>2
<1>28. Placeholder \in sent <=> k < d.pairs
  <2>1. Placeholder # Pair /\ Placeholder \notin found
    BY <1>5, <1>7
  <2>2. \A i \in 1..n : optional[i] \in found
    BY <1>13, <1>21
  <2>. QED BY <1>10, <1>12, <1>20, <2>1, <2>2
<1>29. ASSUME NEW c \in hits, NEW f \in found \ hits, Before(f, c)
       PROVE  \E e \in hits : Before(e, f) /\ Repeats(f, e)
  <2>1. PICK i \in 1..n : c = optional[i]
    BY <1>26
  <2>2. a.hits /\ f \in all /\ c \in all
    BY <1>10, <1>14, <1>21, <1>27, <2>1
  <2>3. ASSUME NEW e \in rest, e = f \/ Before(e, f)
        PROVE  e \in hits
    <3>1. PICK j \in 1..Len(optional) : e = optional[j]
      BY <1>15 DEF ToSet
    <3>2. Before(e, c) /\ e \in all
      BY <1>8, <1>14, <1>29, <2>2, <2>3, BeforeIsOrder
    <3>3. j < i
      BY <1>15, <1>21, <2>1, <3>1, <3>2
    <3>4. j \in 1..n
      BY <1>15, <1>21, <3>3
    <3>. QED BY <1>26, <3>1, <3>4
  <2>4. f \notin kept
    BY <1>13, <2>3
  <2>5. PICK prior \in kept : Before(prior, f) /\ Repeats(f, prior)
    BY <1>11, <2>2, <2>4
  <2>6. prior \in found
    <3>1. prior.source = f.source /\ f.source \notin {"directory", "history"}
      BY <1>5, <2>5 DEF Repeats
    <3>. QED BY <1>6, <1>7, <1>9, <1>11, <2>5, <3>1
  <2>7. prior \in hits
    BY <1>13, <2>3, <2>5, <2>6
  <2>. QED BY <2>5, <2>7
<1>30. m > 0 /\ (m < o => k = 0)
  BY <1>1, <1>2 DEF k
<1>31. BookIsRight(d)
  BY <1>6, <1>24, <1>25, <1>27, <1>28, <1>29, <1>30 DEF BookIsRight, found, o, h
<1>32. sent \subseteq every
  BY <1>8, <1>20, <1>21, <1>22 DEF every
<1>. QED BY <1>19, <1>31, <1>32 DEF every

\* What is sent about the book, whichever attempt it was.
LEMMA BookPacked ==
  ASSUME NEW d, d.kind = "book", d.library \in Libraries \cup {{}}, d.pairs \in Nat,
         d.sent = Packed(d), d.sent # TooLarge
  PROVE  /\ Fits(d.sent, d.mode) /\ BookIsRight(d)
         /\ ToSet(d.sent) \subseteq BookCandidates(d.library) \cup {Pair}
<1> DEFINE h == Least(d.pairs, MaxPairs)
           history == History(d.pairs)
           found == ToSet(BoundedHits(d.library))
<1>1. h \in Nat
  BY BoundAssumption DEF Least
<1>2. history \in Seq({Pair}) /\ Len(history) = h
  <2>1. history = [i \in 1..h |-> Pair]
    BY DEF History
  <2>. QED BY <1>1, <2>1
<1>3. d.sent = PackLocalSnapshot(Outline, history, d.pairs > MaxPairs, found, Placeholder, d.mode)
  BY DEF Packed
<1>4. Outline \in Seq(ToSet(Outline)) /\ Outline # <<>>
  BY CandidateAssumption
<1>. HIDE DEF history, h
<1>5. \E a \in Tried(Len(history), Len(Outline)) :
        d.sent = Attempt(Outline, history, d.pairs > MaxPairs, found, Placeholder, d.mode, a)
  BY <1>2, <1>3, <1>4, OneAttempt
<1>6. PICK a \in Tried(h, Len(Outline)) :
        d.sent = Attempt(Outline, history, d.pairs > MaxPairs, found, Placeholder, d.mode, a)
  BY <1>2, <1>5
<1>. QED BY <1>6, AttemptPacked DEF history, h

-----------------------------------------------------------------------------
(* The prompts. *)

(* A prompt, once there is one, is what its preparation packs to. *)
PromptIsPacked(p) ==
  LET d == prepared[p] IN
  \/ d.sent = <<>>
  \/ /\ d.sent = Packed(d) /\ d.sent # TooLarge
     /\ d.library \in Libraries \cup {{}} /\ (d.kind = "book" => d.pairs \in Nat)

(* There is none as long as prepare gathers. *)
StillEmpty(c) ==
  LET p == call[c].prep IN
  call[c].op = "prepare" /\ call[c].at <= Whole(prepared[p].kind) => prepared[p].sent = <<>>

PromptsArePacked ==
  /\ \A p \in Preparations : PromptIsPacked(p)
  /\ \A c \in Calls : StillEmpty(c)

\* A step that writes no preparation leaves every prompt as it was packed.
LEMMA SamePrompts ==
  ASSUME PromptsArePacked, UNCHANGED prepared, Inv, Inv',
         \A c \in Calls : call'[c].op = "prepare" =>
           /\ call[c].op = "prepare" /\ call'[c].prep = call[c].prep
           /\ call[c].at <= call'[c].at
  PROVE  PromptsArePacked'
<1>1. \A p \in Preparations : PromptIsPacked(p)'
  BY DEF PromptsArePacked, PromptIsPacked, Packed
<1>2. ASSUME NEW c \in Calls PROVE StillEmpty(c)'
  <2>1. \A k \in STRING : Whole(k) \in Nat
    BY DEF Whole
  <2>2. call[c].at \in Nat /\ call'[c].at \in Nat
    BY DEF Inv, TypeOK, Command
  <2>3. StillEmpty(c)
    BY DEF PromptsArePacked
  <2>. QED BY <2>2, <2>3 DEF StillEmpty, Whole
<1>. QED BY <1>1, <1>2 DEF PromptsArePacked

\* A preparing command writes the prompt of its own preparation.
LEMMA OwnPrompt ==
  ASSUME PromptsArePacked, Inv, NEW c \in Calls, call[c].op = "prepare",
         Advance(c), NEW d, prepared' = [prepared EXCEPT ![call[c].prep] = d],
         d.kind = prepared[call[c].prep].kind,
         \/ d.sent = <<>>
         \/ /\ d.sent = Packed(d) /\ d.sent # TooLarge
            /\ d.library \in Libraries \cup {{}} /\ (d.kind = "book" => d.pairs \in Nat),
         call[c].at + 1 <= Whole(d.kind) => d.sent = <<>>
  PROVE  PromptsArePacked'
<1> DEFINE p == call[c].prep
<1>1. p \in Preparations /\ Preparing(c)
  BY NoneDiffers DEF Inv, CallsAreSound, CallIsSound
<1>2. prepared'[p] = d /\ \A q \in Preparations : q # p => prepared'[q] = prepared[q]
  BY <1>1 DEF Inv, TypeOK
<1>3. ASSUME NEW q \in Preparations PROVE PromptIsPacked(q)'
  <2>1. CASE q = p
    BY <1>2, <2>1 DEF PromptIsPacked, Packed
  <2>2. CASE q # p
    BY <1>2, <2>2 DEF PromptsArePacked, PromptIsPacked, Packed
  <2>. QED BY <2>1, <2>2
<1>4. ASSUME NEW e \in Calls PROVE StillEmpty(e)'
  <2>1. CASE e = c
    BY <1>2, <2>1, Advanced DEF StillEmpty
  <2>2. CASE e # c
    <3>1. call'[e] = call[e] /\ StillEmpty(e)
      BY <2>2, Advanced DEF PromptsArePacked
    <3>2. call[e].op = "prepare" => call[e].prep # p /\ call[e].prep \in Preparations
      BY <1>1, <2>2, NoneDiffers DEF Preparing, Inv, CallsAreSound, CallIsSound
    <3>. QED BY <1>2, <3>1, <3>2 DEF StillEmpty
  <2>. QED BY <2>1, <2>2
<1>. QED BY <1>3, <1>4 DEF PromptsArePacked

\* What prepare gathers last is packed from what it gathered before.
LEMMA GatherPacks ==
  ASSUME PromptsArePacked, Inv, Inv', NEW c \in Calls, Gather(c)
  PROVE  PromptsArePacked'
<1> DEFINE p == call[c].prep
           kind == prepared[p].kind
           part == Part(c)
           d == Gathered(prepared[p], part)
<1>1. call[c].op = "prepare" /\ call[c].at <= Len(Gathering(kind))
  BY DEF Gather
<1>2. p \in Preparations /\ call[c].at \in Nat /\ call[c].at > 0 /\ kind \in Kinds
  BY <1>1, NoneDiffers DEF Inv, TypeOK, Command, CallsAreSound, CallIsSound, Preparing
<1>3. /\ call[c].at <= Whole(kind)
      /\ IF kind = "book" THEN call[c].at = 1 /\ part = "snapshot"
         ELSE \/ call[c].at = 1 /\ part = "settings"
              \/ call[c].at = 2 /\ part = "profile"
              \/ call[c].at = 3 /\ part = "book"
              \/ call[c].at = 4 /\ part = "library"
  BY <1>1, <1>2, GatheringParts
<1>4. prepared[p].sent = <<>>
  BY <1>1, <1>3 DEF PromptsArePacked, StillEmpty
<1>5. CASE Return(c) /\ prepared' = prepared
  <2>1. call'[c].op = None /\ \A e \in Calls \ {c} : call'[e] = call[e]
    BY <1>5, Returned
  <2>2. \A e \in Calls : call[e].at \in Nat
    BY DEF Inv, TypeOK, Command
  <2>. QED BY <1>5, <2>1, <2>2, NoneDiffers, SamePrompts
<1>6. CASE Advance(c) /\ prepared' = [prepared EXCEPT ![p] = d] /\ d.sent # TooLarge
  <2>1. DOMAIN prepared[p] = Fields
    BY <1>2, FieldsOfNothing DEF Inv, TypeOK
  <2>2. world.library \in Libraries \cup {{}} /\ world.pairs \in Nat
    BY DEF Inv, TypeOK
  <2>3. d.kind = kind
    BY <1>2, <1>3, GatheredFields
  <2>4. CASE part \in {"settings", "profile", "book"}
    <3>1. d.sent = <<>>
      BY <1>4, <2>1, <2>4 DEF Gathered, Fields
    <3>. HIDE DEF d
    <3>. QED BY <1>1, <1>6, <2>3, <3>1, OwnPrompt
  <2>5. CASE part \in {"library", "snapshot"}
    <3> DEFINE b == IF part = "library" THEN [prepared[p] EXCEPT !.library = world.library]
                    ELSE [prepared[p] EXCEPT !.mode = world.mode, !.language = world.language,
                            !.profile = world.profile, !.book = world.book,
                            !.library = world.library, !.pairs = world.pairs]
    <3>1. d = WithPrompt(b)
      BY <2>5 DEF Gathered
    <3>2. DOMAIN b = Fields /\ b.library = world.library /\ b.kind = kind
      BY <2>1, <2>5 DEF Fields
    <3>3. part = "snapshot" => b.pairs = world.pairs
      BY <2>1 DEF Fields
    <3>. HIDE DEF b
    <3>4. /\ d.sent = Packed(b) /\ d.kind = b.kind /\ d.library = b.library
          /\ d.pairs = b.pairs /\ d.mode = b.mode
      BY <3>1, <3>2 DEF WithPrompt, Fields
    <3>5. Packed(d) = Packed(b)
      BY <3>4 DEF Packed
    <3>6. kind = "book" => d.pairs \in Nat
      BY <1>3, <2>2, <2>5, <3>3, <3>4
    <3>7. ~(call[c].at + 1 <= Whole(kind))
      BY <1>3, <2>5 DEF Whole
    <3>. HIDE DEF d
    <3>. QED BY <1>1, <1>6, <2>2, <2>3, <3>2, <3>4, <3>5, <3>6, <3>7, OwnPrompt
  <2>. QED BY <1>3, <2>4, <2>5
<1>. QED BY <1>5, <1>6 DEF Gather

\* The consents are no part of what is packed.
LEMMA ConsentsPack ==
  ASSUME PromptsArePacked, Inv, Inv', NEW c \in Calls, ReadConsents(c)
  PROVE  PromptsArePacked'
<1> DEFINE p == call[c].prep
           kind == prepared[p].kind
           d == [prepared[p] EXCEPT !.consents = world.consents, !.asks = world.asks]
<1>1. /\ call[c].op = "prepare" /\ call[c].at > Len(Gathering(kind)) /\ Advance(c)
  BY DEF ReadConsents, Checks
<1>2. p \in Preparations /\ call[c].at \in Nat /\ call[c].at > 0 /\ kind \in Kinds
  BY <1>1, NoneDiffers DEF Inv, TypeOK, Command, CallsAreSound, CallIsSound, Preparing
<1>3. call[c].at > Whole(kind) /\ Whole(kind) \in Nat
  BY <1>1, <1>2, GatheringParts DEF Whole
<1>4. prepared' = [prepared EXCEPT ![p] = d]
  BY <1>2 DEF ReadConsents, Inv, TypeOK
<1>5. DOMAIN prepared[p] = Fields /\ PromptIsPacked(p)
  BY <1>2, FieldsOfNothing DEF Inv, TypeOK, PromptsArePacked
<1>6. /\ d.kind = kind /\ d.sent = prepared[p].sent /\ d.library = prepared[p].library
      /\ d.pairs = prepared[p].pairs /\ d.mode = prepared[p].mode
  BY <1>5 DEF Fields
<1>. HIDE DEF d
<1>7. Packed(d) = Packed(prepared[p])
  BY <1>6 DEF Packed
<1>8. ~(call[c].at + 1 <= Whole(kind))
  BY <1>2, <1>3
<1>. QED BY <1>1, <1>4, <1>5, <1>6, <1>7, <1>8, OwnPrompt DEF PromptIsPacked

\* A preparation begins without a prompt.
LEMMA PreparePacks ==
  ASSUME PromptsArePacked, Inv, NEW c \in Calls, NEW p \in Preparations,
         NEW kind \in Kinds, Prepare(c, p, kind)
  PROVE  PromptsArePacked'
<1>1. /\ prepared[p] = Nothing /\ prepared' = [prepared EXCEPT ![p].kind = kind]
      /\ call' = [call EXCEPT ![c] = [op |-> "prepare", prep |-> p, at |-> 1,
                                      token |-> 0, seen |-> None]]
  BY DEF Prepare
<1>2. prepared'[p].sent = <<>> /\ \A q \in Preparations : q # p => prepared'[q] = prepared[q]
  <2>1. [Nothing EXCEPT !.kind = kind].sent = <<>>
    BY DEF Nothing
  <2>2. /\ prepared'[p] = [Nothing EXCEPT !.kind = kind]
        /\ \A q \in Preparations : q # p => prepared'[q] = prepared[q]
    BY <1>1 DEF Inv, TypeOK
  <2>. QED BY <2>1, <2>2
<1>3. call'[c].prep = p /\ \A e \in Calls : e # c => call'[e] = call[e]
  BY <1>1 DEF Inv, TypeOK
<1>4. ASSUME NEW q \in Preparations PROVE PromptIsPacked(q)'
  BY <1>2 DEF PromptsArePacked, PromptIsPacked, Packed
<1>5. ASSUME NEW e \in Calls PROVE StillEmpty(e)'
  <2>1. CASE e = c
    BY <1>2, <1>3, <2>1 DEF StillEmpty
  <2>2. CASE e # c
    <3>1. call'[e] = call[e] /\ StillEmpty(e)
      BY <1>3, <2>2 DEF PromptsArePacked
    <3>2. prepared[p].kind = None
      BY <1>1 DEF Nothing
    <3>3. call[e].op = "prepare" => call[e].prep # p /\ call[e].prep \in Preparations
      BY <3>2, NoneDiffers DEF Preparing, Inv, CallsAreSound, CallIsSound, EntriesAreSound, EntryIsSound
    <3>. QED BY <1>2, <3>1, <3>3 DEF StillEmpty
  <2>. QED BY <2>1, <2>2
<1>. QED BY <1>4, <1>5 DEF PromptsArePacked

\* No step leaves a prompt that was not packed from its preparation.
LEMMA PromptsStep ==
  ASSUME PromptsArePacked, Inv, Inv', [Next]_vars
  PROVE  PromptsArePacked'
<1>1. \A e \in Calls : call[e].at \in Nat
  BY DEF Inv, TypeOK, Command
<1>2. ASSUME UNCHANGED prepared, UNCHANGED call
      PROVE  PromptsArePacked'
  BY <1>1, <1>2, SamePrompts
<1>3. ASSUME NEW c \in Calls, Return(c), UNCHANGED prepared
      PROVE  PromptsArePacked'
  <2>1. call'[c].op = None /\ \A e \in Calls \ {c} : call'[e] = call[e]
    BY <1>3, Returned
  <2>. QED BY <1>1, <1>3, <2>1, NoneDiffers, SamePrompts
<1>4. ASSUME NEW c \in Calls, Advance(c), UNCHANGED prepared
      PROVE  PromptsArePacked'
  <2>1. /\ call'[c].op = call[c].op /\ call'[c].prep = call[c].prep
        /\ call'[c].at = call[c].at + 1 /\ call[c].at <= call[c].at + 1
        /\ \A e \in Calls \ {c} : call'[e] = call[e]
    BY <1>1, <1>4, Advanced
  <2>. QED BY <1>1, <1>4, <2>1, SamePrompts
<1>5. ASSUME NEW c \in Calls, NEW p \in Preparations,
             NEW op \in {"authorize", "stage", "start"}, Begin(c, p, op)
      PROVE  PromptsArePacked'
  <2>1. call'[c].op = op /\ \A e \in Calls \ {c} : call'[e] = call[e]
    BY <1>5 DEF Begin, Inv, TypeOK
  <2>2. UNCHANGED prepared
    BY <1>5 DEF Begin
  <2>. QED BY <1>1, <2>1, <2>2, SamePrompts
<1>6. ASSUME NEW c \in Calls, NEW p \in Preparations, NEW kind \in Kinds, Prepare(c, p, kind)
      PROVE  PromptsArePacked'
  BY <1>6, PreparePacks
<1>7. ASSUME NEW c \in Calls, NEW p \in Preparations, Authorize(c, p) \/ Stage(c, p) \/ Start(c, p)
      PROVE  PromptsArePacked'
  BY <1>5, <1>7 DEF Authorize, Stage, Start
<1>8. ASSUME NEW c \in Calls, Gather(c) \/ ReadConsents(c) \/ Check(c)
      PROVE  PromptsArePacked'
  <2>1. CASE Check(c)
    BY <1>3, <1>4, <2>1 DEF Check
  <2>. QED BY <1>8, <2>1, GatherPacks, ConsentsPack
<1>9. ASSUME NEW c \in Calls, Insert(c) \/ Grant(c) \/ Capture(c) \/ Consume(c)
      PROVE  PromptsArePacked'
  BY <1>3, <1>9 DEF Insert, Grant, Capture, Consume
<1>10. ASSUME NEW p \in Preparations, Forget(p) \/ Load(p) \/ Commit(p)
       PROVE  PromptsArePacked'
  BY <1>2, <1>10 DEF Forget, Load, Commit
<1>11. CASE Changes
  BY <1>2, <1>11 DEF Changes, ChangeSettings, DecideConsents, ReplaceCredential, DropCredential,
       RestoreCredential, DeleteProfile, DeleteBook, ChangeLibrary, Continue, Change,
       FinishDeletion
<1>12. CASE UNCHANGED vars
  BY <1>2, <1>12 DEF vars
<1>. QED BY <1>6, <1>7, <1>8, <1>9, <1>10, <1>11, <1>12 DEF Next, Changes

\* There is no prompt in the beginning.
LEMMA InitPrompts == Init => PromptsArePacked
<1>. SUFFICES ASSUME Init PROVE PromptsArePacked
  OBVIOUS
<1>1. \A p \in Preparations : prepared[p].sent = <<>>
  BY DEF Init, Nothing
<1>2. \A c \in Calls : call[c].op = None
  BY DEF Init, Idle
<1>. QED BY <1>1, <1>2, NoneDiffers DEF PromptsArePacked, PromptIsPacked, StillEmpty

(* In every reachable state each prompt is what its preparation packs to.  *)
THEOREM PackingInvariance == Spec => [](Inv /\ PromptsArePacked)
<1>1. Inv /\ PromptsArePacked /\ [Next]_vars => (Inv /\ PromptsArePacked)'
  BY NextInv, PromptsStep
<1>. QED BY InitInv, InitPrompts, <1>1, PTL DEF Spec

(* What is sent fits into its budget and is what the packing promises: a   *)
(* selection's prompt leaves out only what is said already or no longer    *)
(* fits, and a question about the book gives up its hits before its        *)
(* history and its history before its outline, and says so.                *)
THEOREM PromptsAreRight == Spec => []PromptIsRight
<1>1. Inv /\ PromptsArePacked => PromptIsRight
  <2>. SUFFICES ASSUME Inv, PromptsArePacked, NEW p \in Preparations, prepared[p].sent # <<>>
                PROVE  LET d == prepared[p] IN
                       /\ Fits(d.sent, d.mode)
                       /\ IF d.kind = "book" THEN BookIsRight(d) ELSE SelectionIsRight(d)
    BY DEF PromptIsRight
  <2>1. PromptIsPacked(p)
    BY DEF PromptsArePacked
  <2>2. CASE prepared[p].kind = "book"
    BY <2>1, <2>2, BookPacked DEF PromptIsPacked
  <2>3. CASE prepared[p].kind # "book"
    BY <2>1, <2>3, SelectionPacked DEF PromptIsPacked
  <2>. QED BY <2>2, <2>3
<1>. QED BY PackingInvariance, <1>1, PTL

\* A passage of a prompt that could be cited and is no text of the page was
\* found in the library the prompt was packed from.
LEMMA CitedIsIndexed ==
  ASSUME PromptsArePacked, NEW p \in Preparations, NEW c \in Cited(p),
         c.source \notin {"local", "extracted"}
  PROVE  \E k \in prepared[p].library :
           k.source = c.source /\ k.place = c.place /\ k.review = c.review
<1> DEFINE d == prepared[p]
<1>1. PICK i \in DOMAIN d.sent : c = d.sent[i] /\ c.source \in {"ai", "user"}
  BY DEF Cited
<1>2. d.sent # <<>>
  BY <1>1
<1>3. /\ d.sent = Packed(d) /\ d.sent # TooLarge
      /\ d.library \in Libraries \cup {{}} /\ (d.kind = "book" => d.pairs \in Nat)
  BY <1>2 DEF PromptsArePacked, PromptIsPacked
<1>4. c \in ToSet(d.sent)
  BY <1>1 DEF ToSet
<1>. HIDE DEF d
<1>5. c \in d.library \/ c \in SearchHits(d.library)
  <2>1. CASE d.kind = "book"
    <3>1. c \in BookCandidates(d.library) \cup {Pair}
      BY <1>3, <1>4, <2>1, BookPacked
    <3>2. c \notin ToSet(Outline) /\ c # Pair /\ c # Placeholder
      BY <1>1, CandidateAssumption DEF ToSet
    <3>. QED BY <3>1, <3>2 DEF BookCandidates
  <2>2. CASE d.kind # "book"
    <3>1. c \in SelectionCandidates(d.library) /\ c # Passage
      BY <1>1, <1>3, <1>4, <2>2, SelectionPacked, CandidateAssumption DEF SelectionIsRight
    <3>. QED BY <3>1 DEF SelectionCandidates, Neighbors, Headings, Definitions
  <2>. QED BY <2>1, <2>2
<1>6. CASE c \in SearchHits(d.library)
  BY <1>3, <1>6, HitsAreFound DEF d
<1>7. CASE c \in d.library
  BY <1>7 DEF d
<1>. QED BY <1>5, <1>6, <1>7

\* The only step that loses an answer is its commit.
LEMMA LostStep ==
  ASSUME Inv, PromptsArePacked, [Next]_vars,
         NEW p \in Preparations, request'[p] = "lost", request[p] # "lost"
  PROVE  \/ world.book = 0
         \/ world.library # prepared[p].library
         \/ \E c \in Cited(p) : c.source = "extracted"
<1>1. request \in [Preparations ->
                   {"none", "loading", "refused", "streaming", "kept", "lost"}]
  BY DEF Inv, TypeOK
<1>2. CASE \E q \in Preparations : Commit(q)
  <2>1. PICK q \in Preparations : Commit(q)
    BY <1>2
  <2>2. q = p
    BY <1>1, <2>1 DEF Commit
  <2>3. ~(world.book > 0 /\ \A c \in Cited(p) : StillThere(c))
    BY <1>1, <2>1, <2>2 DEF Commit
  <2>4. world.book \in Nat
    BY DEF Inv, TypeOK
  <2>5. ASSUME NEW c \in Cited(p), ~StillThere(c), world.book > 0, world.library = prepared[p].library
        PROVE  c.source = "extracted"
    BY <2>5, CitedIsIndexed DEF StillThere, LocalIsThere, IndexedIsThere
  <2>. QED BY <2>3, <2>4, <2>5
<1>3. ASSUME NEW q \in Preparations, Load(q)
      PROVE  FALSE
  BY <1>1, <1>3 DEF Load
<1>4. ASSUME NEW c \in Calls, Consume(c)
      PROVE  FALSE
  BY <1>1, <1>4 DEF Consume
<1>5. request' # request
  OBVIOUS
<1>6. CASE Changes
  BY <1>5, <1>6 DEF Changes, ChangeSettings, DecideConsents, ReplaceCredential, DropCredential,
       RestoreCredential, DeleteProfile, DeleteBook, ChangeLibrary, Continue, Change,
       FinishDeletion
<1>7. ASSUME NEW c \in Calls, NEW q \in Preparations,
             (\E kind \in Kinds : Prepare(c, q, kind)) \/ Authorize(c, q) \/ Stage(c, q) \/ Start(c, q)
      PROVE  FALSE
  BY <1>5, <1>7 DEF Prepare, Authorize, Stage, Start, Begin
<1>8. ASSUME NEW c \in Calls,
             Gather(c) \/ ReadConsents(c) \/ Check(c) \/ Insert(c) \/ Grant(c) \/ Capture(c)
      PROVE  FALSE
  BY <1>5, <1>8 DEF Gather, ReadConsents, Check, Insert, Grant, Capture
<1>9. ASSUME NEW q \in Preparations, Forget(q)
      PROVE  FALSE
  BY <1>5, <1>9 DEF Forget
<1>10. CASE UNCHANGED vars
  BY <1>5, <1>10 DEF vars
<1>. QED BY <1>2, <1>3, <1>4, <1>6, <1>7, <1>8, <1>9, <1>10 DEF Next, Changes

(* An answer is lost at its commit only with its book, with a change of    *)
(* what search finds in it, or with a passage that Kimi extracted.         *)
THEOREM AnswersAreKept == Spec => UnchangedTextKeepsAnswers
<1>1. Inv /\ PromptsArePacked /\ [Next]_vars =>
        [\A p \in Preparations :
           request'[p] = "lost" /\ request[p] # "lost" =>
             \/ world.book = 0
             \/ world.library # prepared[p].library
             \/ \E c \in Cited(p) : c.source = "extracted"]_vars
  BY LostStep
<1>. QED BY PackingInvariance, <1>1, PTL DEF Spec, UnchangedTextKeepsAnswers

-----------------------------------------------------------------------------
(* How the answer that was paid for reaches the window (LearningStream):   *)
(* an entry of the registry of requests, looked at with its numbered       *)
(* events.  Snapshot and events overtake each other, so each of them, and  *)
(* the view, is compared with the entry and not with each other.           *)

\* The deltas of the registry are numbered upwards.
TextIsNumbered ==
    /\ \A i, j \in 1..Len(entry.text) : i < j => entry.text[i] < entry.text[j]
    /\ \A i \in 1..Len(entry.text) : 1 <= entry.text[i] /\ entry.text[i] <= entry.seq

\* An entry ends once, and only an entry that the window has heard of is cancelled.
EndsOnce ==
    /\ entry.status # "none"
    /\ task = "starting" => Live /\ commit = "none"
    /\ task = "starting" => window = "starting" /\ reply = NoView
    /\ window = "starting" => view = NoView /\ ~subscribed /\ channel = <<>>
    /\ task = "running" /\ commit = "irrevocable" => Live

\* The snapshot on its way is the entry as it was: it has every delta up to its number.
ReplyIsPast ==
    /\ reply.seq <= entry.seq
    /\ Len(reply.text) <= Len(entry.text)
    /\ \A i \in 1..Len(reply.text) : reply.text[i] = entry.text[i] /\ reply.text[i] <= reply.seq
    /\ \A i \in 1..Len(entry.text) : i > Len(reply.text) => entry.text[i] > reply.seq
    /\ reply.status \in Ended => reply.status = entry.status

\* An event on its way speaks of a delta that was kept, or of how the entry has ended.
EventsAreTrue ==
    \A i \in 1..Len(channel) :
        /\ channel[i].seq <= entry.seq
        /\ channel[i].type = "text_delta" =>
              \E j \in 1..Len(entry.text) : entry.text[j] = channel[i].seq
        /\ channel[i].type \in Ended => channel[i].type = entry.status

\* What the view shows was kept, and is not newer than its number.
ViewIsPast ==
    /\ view.seq <= entry.seq
    /\ \A i, j \in 1..Len(view.text) : i < j => view.text[i] < view.text[j]
    /\ \A i \in 1..Len(view.text) :
          view.text[i] <= view.seq /\ \E j \in 1..Len(entry.text) : entry.text[j] = view.text[i]
    /\ view.status \in Ended => view.status = entry.status

StreamInv == StreamTypeOK /\ TextIsNumbered /\ EndsOnce /\ ReplyIsPast /\ EventsAreTrue /\ ViewIsPast

-----------------------------------------------------------------------------
\* What a channel carries.
Event == [seq : Nat, type : {"text_delta", "usage"} \cup Ended]

\* Everything is as it should be before the task has started.
LEMMA FreshStreamIsSound ==
    ASSUME StreamInit
    PROVE  StreamInv
<1>1. <<>> \in Seq(Nat) /\ <<>> \in Seq(Event) /\ Len(<<>>) = 0
  BY EmptySeq
<1>2. /\ entry = [status |-> "preparing", text |-> <<>>, seq |-> 1]
      /\ view = [status |-> "none", text |-> <<>>, seq |-> 0]
      /\ reply = [status |-> "none", text |-> <<>>, seq |-> 0]
      /\ channel = <<>> /\ window = "starting" /\ task = "starting" /\ commit = "none"
  BY DEF StreamInit, NoView, Snapshot
<1>3. StreamTypeOK
  <2>1. entry \in Message /\ view \in Message /\ reply \in Message
    BY <1>1, <1>2 DEF Message
  <2>2. channel \in Seq([seq : Nat, type : {"text_delta", "usage"} \cup Ended])
    BY <1>1, <1>2 DEF Event
  <2>3. entry.text = <<>> /\ Len(entry.text) <= MaxText
    BY <1>1, <1>2, StreamBounds
  <2>4. usages \in 0..MaxUsage /\ subscribed \in BOOLEAN
    <3>1. 0 \in 0..MaxUsage
      BY StreamBounds
    <3> QED
      BY <3>1 DEF StreamInit
  <2> QED
    BY <1>2, <2>1, <2>2, <2>3, <2>4 DEF StreamTypeOK
<1>4. EndsOnce
  BY <1>2 DEF StreamInit, EndsOnce, Live, Ended, NoView, Snapshot
<1> QED
  BY <1>1, <1>2, <1>3, <1>4
     DEF StreamInv, TextIsNumbered, ReplyIsPast, EventsAreTrue, ViewIsPast, Ended

\* A live entry takes one more number: its text stays, or gets it, or the entry ends.
EntryMoves(s, type) ==
    /\ Live
    /\ entry'.seq = entry.seq + 1
    /\ entry'.status = s
    /\ s \in {"preparing", "streaming"} \cup Ended
    /\ type \in {"text_delta", "usage"} \cup Ended
    /\ \/ type # "text_delta" /\ entry'.text = entry.text
       \/ type = "text_delta" /\ entry'.text = Append(entry.text, entry.seq + 1)
    /\ type \in Ended => s = type
    /\ entry' \in Message
    /\ ~subscribed => channel' = channel
    /\ channel' = channel \/ channel' = Append(channel, [seq |-> entry.seq + 1, type |-> type])

\* What the texts and events become.
LEMMA MovedText ==
    ASSUME StreamInv, NEW s, NEW type, EntryMoves(s, type)
    PROVE  /\ Len(entry'.text) \in Nat /\ Len(entry.text) \in Nat
           /\ Len(entry.text) <= Len(entry'.text)
           /\ \A i \in 1..Len(entry.text) : entry'.text[i] = entry.text[i]
           /\ \A i \in 1..Len(entry'.text) :
                 i \in 1..Len(entry.text) \/ (type = "text_delta" /\ entry'.text[i] = entry.seq + 1)
           /\ \A i, j \in 1..Len(entry'.text) : i < j => i \in 1..Len(entry.text)
           /\ type = "text_delta" => \E i \in 1..Len(entry'.text) : entry'.text[i] = entry.seq + 1
<1>1. entry.text \in Seq(Nat) /\ Len(entry.text) \in Nat /\ entry.seq + 1 \in Nat
  BY LenProperties DEF StreamInv, StreamTypeOK, Message
<1>2. CASE type # "text_delta" /\ entry'.text = entry.text
  BY <1>1, <1>2
<1>3. CASE type = "text_delta" /\ entry'.text = Append(entry.text, entry.seq + 1)
  <2>1. /\ Len(entry'.text) = Len(entry.text) + 1
        /\ entry'.text[Len(entry.text) + 1] = entry.seq + 1
        /\ \A i \in 1..Len(entry.text) : entry'.text[i] = entry.text[i]
    BY <1>1, <1>3, AppendProperties
  <2>2. Len(entry.text) + 1 \in 1..Len(entry'.text)
    BY <1>1, <2>1
  <2>3. \A i \in 1..Len(entry'.text) : i \in 1..Len(entry.text) \/ i = Len(entry.text) + 1
    BY <1>1, <2>1
  <2>4. \A i, j \in 1..Len(entry'.text) : i < j => i \in 1..Len(entry.text)
    BY <1>1, <2>1
  <2>5. Len(entry'.text) \in Nat /\ Len(entry.text) <= Len(entry'.text)
    BY <1>1, <2>1
  <2> QED
    BY <1>1, <1>3, <2>1, <2>2, <2>3, <2>4, <2>5
<1> QED
  BY <1>2, <1>3 DEF EntryMoves

\* The channel has at most one event more, and it is of the move.
LEMMA MovedChannel ==
    ASSUME StreamInv, NEW s, NEW type, EntryMoves(s, type)
    PROVE  /\ channel' \in Seq(Event)
           /\ \A i \in 1..Len(channel') :
                 \/ i \in 1..Len(channel) /\ channel'[i] = channel[i]
                 \/ channel'[i].seq = entry.seq + 1 /\ channel'[i].type = type
<1>1. channel \in Seq(Event) /\ Len(channel) \in Nat
  BY LenProperties DEF StreamInv, StreamTypeOK, Event
<1>2. [seq |-> entry.seq + 1, type |-> type] \in Event
  BY DEF StreamInv, StreamTypeOK, Message, EntryMoves, Event
<1>3. CASE channel' = channel
  BY <1>1, <1>3
<1>4. CASE channel' = Append(channel, [seq |-> entry.seq + 1, type |-> type])
  <2>1. /\ channel' \in Seq(Event)
        /\ Len(channel') = Len(channel) + 1
        /\ channel'[Len(channel) + 1] = [seq |-> entry.seq + 1, type |-> type]
        /\ \A i \in 1..Len(channel) : channel'[i] = channel[i]
    BY <1>1, <1>2, <1>4, AppendProperties
  <2> QED
    BY <1>1, <2>1
<1> QED
  BY <1>3, <1>4 DEF EntryMoves

\* Nothing that is on its way or shown becomes wrong when the entry moves on.
LEMMA MovedStream ==
    ASSUME StreamInv, NEW s, NEW type, EntryMoves(s, type), view' = view
    PROVE  /\ TextIsNumbered' /\ EventsAreTrue' /\ ViewIsPast'
           /\ reply' = reply => ReplyIsPast'
<1>1. /\ entry.seq \in Nat /\ view.seq \in Nat /\ reply.seq \in Nat
      /\ Len(view.text) \in Nat /\ Len(reply.text) \in Nat
      /\ \A i \in 1..Len(entry.text) : entry.text[i] \in Nat
      /\ \A i \in 1..Len(view.text) : view.text[i] \in Nat
  BY LenProperties, ElementOfSeq DEF StreamInv, StreamTypeOK, Message
<1>2. entry'.seq = entry.seq + 1 /\ entry.status \notin Ended
  BY DEF EntryMoves, Live
<1>3. TextIsNumbered'
  <2>1. ASSUME NEW i \in 1..Len(entry'.text), NEW j \in 1..Len(entry'.text), i < j
        PROVE  entry'.text[i] < entry'.text[j]
    <3>1. i \in 1..Len(entry.text) /\ entry'.text[i] = entry.text[i] /\ entry.text[i] <= entry.seq
      BY <2>1, MovedText DEF StreamInv, TextIsNumbered
    <3>2. CASE j \in 1..Len(entry.text)
      BY <2>1, <3>1, <3>2, MovedText DEF StreamInv, TextIsNumbered
    <3>3. CASE entry'.text[j] = entry.seq + 1
      <4>1. entry.text[i] \in Nat /\ entry.seq \in Nat
        BY <1>1, <3>1
      <4> QED
        BY <3>1, <3>3, <4>1
    <3> QED
      BY <3>2, <3>3, MovedText
  <2>2. ASSUME NEW i \in 1..Len(entry'.text)
        PROVE  1 <= entry'.text[i] /\ entry'.text[i] <= entry'.seq
    <3>1. CASE i \in 1..Len(entry.text)
      <4>1. 1 <= entry.text[i] /\ entry.text[i] <= entry.seq
        BY <3>1 DEF StreamInv, TextIsNumbered
      <4>2. entry'.text[i] = entry.text[i]
        BY <3>1, MovedText
      <4>3. entry.text[i] \in Nat /\ entry.seq \in Nat
        BY <1>1, <3>1
      <4> QED
        BY <1>2, <4>1, <4>2, <4>3
    <3>2. CASE entry'.text[i] = entry.seq + 1
      BY <1>1, <1>2, <3>2
    <3> QED
      BY <3>1, <3>2, MovedText
  <2> QED
    BY <2>1, <2>2 DEF TextIsNumbered
<1>4. EventsAreTrue'
  <2> SUFFICES ASSUME NEW i \in 1..Len(channel')
               PROVE  /\ channel'[i].seq <= entry'.seq
                      /\ channel'[i].type = "text_delta" =>
                            \E j \in 1..Len(entry'.text) : entry'.text[j] = channel'[i].seq
                      /\ channel'[i].type \in Ended => channel'[i].type = entry'.status
    BY DEF EventsAreTrue
  <2>1. CASE i \in 1..Len(channel) /\ channel'[i] = channel[i]
    <3>1. channel[i].seq <= entry.seq /\ channel[i].seq \in Nat /\ channel[i].type \notin Ended
      <4>1. channel \in Seq(Event)
        BY DEF StreamInv, StreamTypeOK, Event
      <4>2. channel[i] \in Event
        BY <2>1, <4>1, ElementOfSeq
      <4> QED
        BY <1>2, <2>1, <4>2 DEF StreamInv, EventsAreTrue, Event
    <3>2. channel[i].seq <= entry'.seq
      BY <1>1, <1>2, <3>1
    <3>3. ASSUME channel[i].type = "text_delta"
          PROVE  \E j \in 1..Len(entry'.text) : entry'.text[j] = channel[i].seq
      <4>1. PICK j \in 1..Len(entry.text) : entry.text[j] = channel[i].seq
        BY <2>1, <3>3 DEF StreamInv, EventsAreTrue
      <4>2. j \in 1..Len(entry'.text) /\ entry'.text[j] = entry.text[j]
        BY MovedText
      <4> QED
        BY <4>1, <4>2
    <3> QED
      BY <2>1, <3>1, <3>2, <3>3
  <2>2. CASE channel'[i].seq = entry.seq + 1 /\ channel'[i].type = type
    BY <1>1, <1>2, <2>2, MovedText DEF EntryMoves
  <2> QED
    BY <2>1, <2>2, MovedChannel
<1>5. ViewIsPast'
  <2>1. ASSUME NEW i \in 1..Len(view.text)
        PROVE  \E j \in 1..Len(entry'.text) : entry'.text[j] = view.text[i]
    <3>1. PICK j \in 1..Len(entry.text) : entry.text[j] = view.text[i]
      BY DEF StreamInv, ViewIsPast
    <3>2. j \in 1..Len(entry'.text) /\ entry'.text[j] = entry.text[j]
      BY MovedText
    <3> QED
      BY <3>1, <3>2
  <2>2. view.seq <= entry'.seq
    BY <1>1, <1>2 DEF StreamInv, ViewIsPast
  <2> QED
    BY <1>2, <2>1, <2>2 DEF StreamInv, ViewIsPast
<1>6. ASSUME reply' = reply
      PROVE  ReplyIsPast'
  <2>1. reply.seq <= entry'.seq /\ Len(reply.text) <= Len(entry'.text) /\ reply.status \notin Ended
    BY <1>1, <1>2, MovedText DEF StreamInv, ReplyIsPast
  <2>2. ASSUME NEW i \in 1..Len(reply.text)
        PROVE  reply.text[i] = entry'.text[i] /\ reply.text[i] <= reply.seq
    <3>1. i \in 1..Len(entry.text)
      BY <1>1, MovedText DEF StreamInv, ReplyIsPast
    <3> QED
      BY <3>1, MovedText DEF StreamInv, ReplyIsPast
  <2>3. ASSUME NEW i \in 1..Len(entry'.text), i > Len(reply.text)
        PROVE  entry'.text[i] > reply.seq
    <3>1. CASE i \in 1..Len(entry.text)
      BY <2>3, <3>1, MovedText DEF StreamInv, ReplyIsPast
    <3>2. CASE entry'.text[i] = entry.seq + 1
      BY <1>1, <3>2 DEF StreamInv, ReplyIsPast
    <3> QED
      BY <3>1, <3>2, MovedText
  <2> QED
    BY <1>6, <2>1, <2>2, <2>3 DEF ReplyIsPast
<1> QED
  BY <1>3, <1>4, <1>5, <1>6

\* Every way of ending is a move of a live entry.
LEMMA EndMoves ==
    ASSUME StreamTypeOK, Live, NEW s \in Ended, End(s)
    PROVE  EntryMoves(s, s) /\ subscribed' = FALSE
<1>1. /\ entry' = [entry EXCEPT !.status = s, !.seq = entry.seq + 1]
      /\ channel' = IF subscribed THEN Append(channel, [seq |-> entry.seq + 1, type |-> s]) ELSE channel
      /\ subscribed' = FALSE
  BY DEF End, Emit, StreamTypeOK, Message
<1>2. entry' \in Message /\ entry'.seq = entry.seq + 1 /\ entry'.status = s /\ entry'.text = entry.text
  <2>1. /\ entry = [status |-> entry.status, text |-> entry.text, seq |-> entry.seq]
        /\ entry.text \in Seq(Nat) /\ entry.seq \in Nat
    BY DEF StreamTypeOK, Message
  <2>2. entry' = [status |-> s, text |-> entry.text, seq |-> entry.seq + 1]
    BY <1>1, <2>1
  <2> QED
    BY <2>1, <2>2 DEF Message
<1> QED
  BY <1>1, <1>2 DEF EntryMoves, Ended

\* What a step has to show besides what MovedStream says.
LEMMA MovedInv ==
    ASSUME StreamInv, NEW s, NEW type, EntryMoves(s, type), view' = view,
           Len(entry'.text) <= MaxText, commit' = commit, usages' \in 0..MaxUsage,
           task' \in {"running", "over"}, subscribed' \in {FALSE, subscribed}, window' = window,
           \/ reply' = reply /\ task = "running"
           \/ reply' = entry' /\ task' = "over",
           task' = "running" => task = "running" /\ (s \notin Ended \/ commit # "irrevocable")
    PROVE  StreamInv'
<1>1. /\ TextIsNumbered' /\ EventsAreTrue' /\ ViewIsPast'
      /\ reply' = reply => ReplyIsPast'
  BY MovedStream
<1>2. entry' \in Message /\ entry'.status = s
  BY DEF EntryMoves
<1>3. channel' \in Seq([seq : Nat, type : {"text_delta", "usage"} \cup Ended])
  BY MovedChannel DEF Event
<1>4. StreamTypeOK'
  BY <1>2, <1>3 DEF StreamInv, StreamTypeOK
<1>5. EndsOnce'
  <2>1. entry'.status # "none" /\ task' # "starting"
    BY <1>2 DEF EntryMoves, Ended
  <2>2. window' = "starting" => view' = NoView /\ ~subscribed' /\ channel' = <<>>
    BY DEF StreamInv, EndsOnce, EntryMoves
  <2>3. task' = "running" /\ commit' = "irrevocable" => Live'
    BY <1>2 DEF Live
  <2> QED
    BY <2>1, <2>2, <2>3 DEF EndsOnce
<1>6. ASSUME reply' = entry'
      PROVE  ReplyIsPast'
  <2>1. entry'.seq \in Nat /\ Len(entry'.text) \in Nat
    BY <1>2, LenProperties DEF Message
  <2> QED
    BY <1>1, <1>6, <2>1 DEF ReplyIsPast, TextIsNumbered
<1> QED
  BY <1>1, <1>4, <1>5, <1>6 DEF StreamInv

\* A delta or a usage report is a move of a live entry too.
LEMMA EmitMoves ==
    ASSUME StreamTypeOK, Live, entry.status # "none", AppendText \/ RecordUsage
    PROVE  /\ Len(entry'.text) <= MaxText
           /\ \E s \in {"preparing", "streaming"}, type \in {"text_delta", "usage"} : EntryMoves(s, type)
<1>1. /\ entry = [status |-> entry.status, text |-> entry.text, seq |-> entry.seq]
      /\ entry.text \in Seq(Nat) /\ entry.seq \in Nat /\ entry.seq + 1 \in Nat
      /\ Len(entry.text) <= MaxText
  BY DEF StreamTypeOK, Message
<1>2. CASE AppendText
  <2>1. /\ entry' = [status |-> "streaming", text |-> Append(entry.text, entry.seq + 1), seq |-> entry.seq + 1]
        /\ channel' = IF subscribed THEN Append(channel, [seq |-> entry.seq + 1, type |-> "text_delta"])
                      ELSE channel
    BY <1>1, <1>2 DEF AppendText, Emit
  <2>2. Append(entry.text, entry.seq + 1) \in Seq(Nat) /\ Len(Append(entry.text, entry.seq + 1)) = Len(entry.text) + 1
    BY <1>1, AppendProperties
  <2>3. Len(entry'.text) <= MaxText
    <3>1. Len(entry.text) < MaxText /\ Len(entry.text) \in Nat
      BY <1>1, <1>2, LenProperties DEF AppendText
    <3> QED
      BY <2>1, <2>2, <3>1, StreamBounds
  <2>4. entry' \in Message
    BY <1>1, <2>1, <2>2 DEF Message
  <2>5. EntryMoves("streaming", "text_delta")
    BY <2>1, <2>4 DEF EntryMoves, Ended
  <2> QED
    BY <2>3, <2>5
<1>3. CASE RecordUsage
  <2>1. /\ entry' = [status |-> entry.status, text |-> entry.text, seq |-> entry.seq + 1]
        /\ channel' = IF subscribed THEN Append(channel, [seq |-> entry.seq + 1, type |-> "usage"]) ELSE channel
    <3>1. entry' = [entry EXCEPT !.seq = entry.seq + 1]
      BY <1>3 DEF RecordUsage, Emit
    <3> QED
      BY <1>1, <1>3, <3>1 DEF RecordUsage, Emit
  <2>2. entry' \in Message /\ entry.status \in {"preparing", "streaming"}
    BY <1>1, <2>1 DEF StreamTypeOK, Message, Live, Ended
  <2>3. EntryMoves(entry.status, "usage")
    BY <2>1, <2>2 DEF EntryMoves, Ended
  <2> QED
    BY <1>1, <2>1, <2>2, <2>3
<1> QED
  BY <1>2, <1>3

\* The steps of the registry and the cancellation.
LEMMA RegistryIsSound ==
    ASSUME StreamInv, RegistryStep \/ Cancel
    PROVE  StreamInv'
<1>1. CASE Spawn
  <2>1. entry.seq \in Nat /\ Len(entry.text) \in Nat
    BY LenProperties DEF StreamInv, StreamTypeOK, Message
  <2> QED
    BY <1>1, <2>1 DEF Spawn, StreamInv, StreamTypeOK, TextIsNumbered, EndsOnce, ReplyIsPast,
        EventsAreTrue,
       ViewIsPast, Live, NoView, Snapshot
<1>2. CASE StartFails
  <2>1. Live /\ EntryMoves("failed", "failed") /\ subscribed' = FALSE
    BY <1>2, EndMoves DEF StartFails, StreamInv, EndsOnce, Ended
  <2> QED
    BY <1>2, <2>1, MovedInv DEF StartFails, EntryMoves, StreamInv, StreamTypeOK, Ended
<1>3. CASE AppendText \/ RecordUsage
  <2>1. Live /\ commit = "none" /\ task = "running"
    BY <1>3 DEF AppendText, RecordUsage, Accepting
  <2>2. PICK s \in {"preparing", "streaming"}, type \in {"text_delta", "usage"} : EntryMoves(s, type)
    BY <1>3, <2>1, EmitMoves DEF StreamInv, EndsOnce
  <2>3. usages' \in 0..MaxUsage /\ Len(entry'.text) <= MaxText
    BY <1>3, <2>1, EmitMoves, StreamBounds DEF StreamInv, EndsOnce, StreamTypeOK,
        AppendText, RecordUsage
  <2> QED
    BY <1>3, <2>1, <2>2, <2>3, MovedInv DEF AppendText, RecordUsage, StreamInv,
        StreamTypeOK, Ended
<1>4. CASE Overflow
  <2>1. Live /\ EntryMoves("failed", "failed") /\ subscribed' = FALSE
    BY <1>4, EndMoves DEF Overflow, Accepting, StreamInv, Ended
  <2> QED
    BY <1>4, <2>1, MovedInv DEF Overflow, Accepting, EntryMoves, StreamInv, StreamTypeOK,
        Ended
<1>5. CASE BeginCommit \/ AuthorizeDatabaseCommit
  <2>1. /\ UNCHANGED <<entry, usages, task, subscribed, channel, reply, window, view>>
        /\ Live /\ task = "running" /\ commit' \in {"started", "irrevocable"}
    BY <1>5 DEF BeginCommit, AuthorizeDatabaseCommit, Accepting
  <2>2. StreamTypeOK' /\ EndsOnce'
    BY <2>1 DEF StreamInv, StreamTypeOK, EndsOnce, Live
  <2>3. TextIsNumbered' /\ ReplyIsPast' /\ EventsAreTrue' /\ ViewIsPast'
    BY <2>1 DEF StreamInv, TextIsNumbered, ReplyIsPast, EventsAreTrue, ViewIsPast
  <2> QED
    BY <2>2, <2>3 DEF StreamInv
<1>6. CASE Complete
  <2>1. Live /\ EntryMoves("completed", "completed") /\ subscribed' = FALSE
    BY <1>6, EndMoves DEF Complete, StreamInv, EndsOnce, Ended
  <2> QED
    BY <1>6, <2>1, MovedInv DEF Complete, EntryMoves, StreamInv, StreamTypeOK, Ended
<1>7. CASE Fail /\ Live
  <2>1. EntryMoves("failed", "failed") /\ subscribed' = FALSE
    BY <1>7, EndMoves DEF Fail, StreamInv, Ended
  <2> QED
    BY <1>7, <2>1, MovedInv DEF Fail, EntryMoves, StreamInv, StreamTypeOK, Ended
<1>8. CASE Fail /\ ~Live
  BY <1>8 DEF Fail, StreamInv, StreamTypeOK, TextIsNumbered, EndsOnce, ReplyIsPast, EventsAreTrue,
     ViewIsPast, Live
<1>9. CASE Cancel
  <2>1. Live /\ EntryMoves("cancelled", "cancelled") /\ subscribed' = FALSE
    BY <1>9, EndMoves DEF Cancel, StreamInv, Ended
  <2>2. task # "starting" /\ commit # "irrevocable"
    BY <1>9 DEF Cancel, StreamInv, EndsOnce
  <2>3. StreamInv'
    <3>1. /\ TextIsNumbered' /\ EventsAreTrue' /\ ViewIsPast' /\ ReplyIsPast'
      BY <1>9, <2>1, MovedStream DEF Cancel
    <3>2. channel' \in Seq([seq : Nat, type : {"text_delta", "usage"} \cup Ended])
      BY <2>1, MovedChannel DEF Event
    <3>3. StreamTypeOK'
      BY <1>9, <2>1, <3>2 DEF Cancel, EntryMoves, StreamInv, StreamTypeOK
    <3>4. EndsOnce'
      BY <1>9, <2>1, <2>2 DEF Cancel, StreamInv, EndsOnce, EntryMoves, Live, Ended
    <3> QED
      BY <3>1, <3>3, <3>4 DEF StreamInv
  <2> QED
    BY <2>3
<1> QED
  BY <1>1, <1>2, <1>3, <1>4, <1>5, <1>6, <1>7, <1>8, <1>9 DEF RegistryStep

\* A snapshot that is not older than the view has all that the view shows.
LEMMA ReplyHasView ==
    ASSUME StreamInv, view.seq <= reply.seq, NEW i \in 1..Len(view.text)
    PROVE  \E j \in 1..Len(reply.text) : reply.text[j] = view.text[i]
<1>1. /\ Len(reply.text) \in Nat /\ Len(entry.text) \in Nat /\ view.seq \in Nat /\ reply.seq \in Nat
      /\ view.text[i] \in Nat
  BY LenProperties, ElementOfSeq DEF StreamInv, StreamTypeOK, Message
<1>2. PICK j \in 1..Len(entry.text) : entry.text[j] = view.text[i]
  BY DEF StreamInv, ViewIsPast
<1>3. view.text[i] <= reply.seq
  BY <1>1 DEF StreamInv, ViewIsPast
<1>4. j <= Len(reply.text)
  BY <1>1, <1>2, <1>3 DEF StreamInv, ReplyIsPast
<1> QED
  BY <1>1, <1>2, <1>4 DEF StreamInv, ReplyIsPast

\* The view after a step: its number never falls, its text only gains, and it stays
\* when it has ended.
ViewGrows ==
    /\ view.seq <= view'.seq
    /\ \A i \in 1..Len(view.text) : \E j \in 1..Len(view'.text) : view'.text[j] = view.text[i]
    /\ view.status \in Ended => view' = view

\* The view takes over a snapshot.
LEMMA TakeReply ==
    ASSUME StreamInv, view' = reply, reply' = NoView, view.seq <= reply.seq, view.status \notin Ended,
           UNCHANGED <<entry, commit, usages, task, subscribed, channel>>,
           task # "starting", window' \in {"subscribing", "awaiting", "listening"}
    PROVE  StreamInv' /\ ViewGrows
<1>1. /\ Len(reply.text) \in Nat /\ Len(entry.text) \in Nat /\ reply.seq \in Nat /\ entry.seq \in Nat
      /\ \A i \in 1..Len(entry.text) : entry.text[i] \in Nat
  BY LenProperties, ElementOfSeq DEF StreamInv, StreamTypeOK, Message
<1>2. NoView.seq = 0 /\ NoView.text = <<>> /\ NoView.status = "none" /\ NoView \in Message /\ Len(<<>>) = 0
  BY EmptySeq DEF NoView, Snapshot, Message
<1>3. ViewIsPast'
  <2>1. \A i \in 1..Len(reply.text) : i \in 1..Len(entry.text) /\ reply.text[i] = entry.text[i]
    BY <1>1 DEF StreamInv, ReplyIsPast
  <2>2. \A i, j \in 1..Len(reply.text) : i < j => reply.text[i] < reply.text[j]
    BY <2>1 DEF StreamInv, TextIsNumbered
  <2> QED
    BY <2>1, <2>2 DEF StreamInv, ReplyIsPast, ViewIsPast
<1>4. ReplyIsPast'
  <2>1. \A i \in 1..Len(entry.text) : entry.text[i] > 0
    BY <1>1 DEF StreamInv, TextIsNumbered
  <2> QED
    BY <1>1, <1>2, <2>1 DEF ReplyIsPast, Ended
<1>5. StreamTypeOK' /\ TextIsNumbered' /\ EndsOnce' /\ EventsAreTrue'
  BY <1>2 DEF StreamInv, StreamTypeOK, TextIsNumbered, EndsOnce, EventsAreTrue, Live
<1>6. ViewGrows
  BY ReplyHasView DEF ViewGrows
<1> QED
  BY <1>3, <1>4, <1>5, <1>6 DEF StreamInv

\* A step of the registry changes nothing the window shows.
LEMMA ViewStays ==
    ASSUME StreamInv, view' = view
    PROVE  ViewGrows
BY DEF ViewGrows, StreamInv, StreamTypeOK, Message

\* The steps of the window.
LEMMA WindowIsSound ==
    ASSUME StreamInv, WindowStep
    PROVE  StreamInv' /\ ViewGrows
<1>1. CASE ReceiveStart
  <2>1. view.seq = 0 /\ view.status = "none" /\ reply.seq \in Nat /\ task # "starting"
    BY <1>1 DEF ReceiveStart, StreamInv, EndsOnce, NoView, Snapshot, StreamTypeOK,
        Message
  <2> QED
    BY <1>1, <2>1, TakeReply DEF ReceiveStart, Ended
<1>2. CASE Subscribe
  <2>1. entry.seq \in Nat /\ Len(entry.text) \in Nat
    BY LenProperties DEF StreamInv, StreamTypeOK, Message
  <2>2. ReplyIsPast'
    BY <1>2, <2>1 DEF Subscribe, StreamInv, ReplyIsPast, TextIsNumbered
  <2>3. StreamTypeOK' /\ TextIsNumbered' /\ EndsOnce' /\ EventsAreTrue' /\ ViewIsPast'
    BY <1>2 DEF Subscribe, StreamInv, StreamTypeOK, TextIsNumbered, EndsOnce, EventsAreTrue,
        ViewIsPast, Live
  <2> QED
    BY <1>2, <2>2, <2>3, ViewStays DEF Subscribe, StreamInv
<1>3. CASE ReceiveSnapshot /\ Replaces(reply)
  BY <1>3, TakeReply DEF ReceiveSnapshot, Replaces, StreamInv, EndsOnce
<1>4. CASE ReceiveSnapshot /\ ~Replaces(reply)
  <2>1. /\ Len(entry.text) \in Nat /\ entry.seq \in Nat /\ \A i \in 1..Len(entry.text) : entry.text[i] \in Nat
    BY LenProperties, ElementOfSeq DEF StreamInv, StreamTypeOK, Message
  <2>2. NoView.seq = 0 /\ NoView.text = <<>> /\ NoView.status = "none" /\ NoView \in Message /\ Len(<<>>) = 0
    BY EmptySeq DEF NoView, Snapshot, Message
  <2>3. ReplyIsPast'
    <3>1. \A i \in 1..Len(entry.text) : entry.text[i] > 0
      BY <2>1 DEF StreamInv, TextIsNumbered
    <3> QED
      BY <1>4, <2>1, <2>2, <3>1 DEF ReceiveSnapshot, ReplyIsPast, Ended
  <2>4. StreamTypeOK' /\ TextIsNumbered' /\ EndsOnce' /\ EventsAreTrue' /\ ViewIsPast'
    BY <1>4, <2>2 DEF ReceiveSnapshot, StreamInv, StreamTypeOK, TextIsNumbered, EndsOnce,
        EventsAreTrue, ViewIsPast, Live
  <2> QED
    BY <1>4, <2>3, <2>4, ViewStays DEF ReceiveSnapshot, StreamInv
<1>5. CASE ReceiveEvent
  <2> DEFINE e == Head(channel)
  <2>1. /\ e \in Event /\ Len(channel) \in Nat \ {0} /\ e = channel[1]
        /\ channel' \in Seq(Event) /\ Len(channel') = Len(channel) - 1
        /\ \A i \in 1..Len(channel') : channel'[i] = channel[i + 1]
    <3>1. channel \in Seq(Event) /\ channel # <<>> /\ channel' = Tail(channel)
      BY <1>5 DEF ReceiveEvent, StreamInv, StreamTypeOK, Event
    <3> QED
      BY <3>1, HeadTailProperties, LenProperties, EmptySeq
  <2>2. /\ e.seq <= entry.seq
        /\ e.type = "text_delta" => \E j \in 1..Len(entry.text) : entry.text[j] = e.seq
        /\ e.type \in Ended => e.type = entry.status
    BY <2>1 DEF StreamInv, EventsAreTrue
  <2>3. EventsAreTrue'
    <3>1. \A i \in 1..Len(channel') : i + 1 \in 1..Len(channel)
      BY <2>1
    <3> QED
      BY <1>5, <2>1, <3>1 DEF ReceiveEvent, StreamInv, EventsAreTrue
  <2> HIDE DEF e
  <2>4. UNCHANGED <<entry, commit, usages, task, subscribed, reply, window>>
    BY <1>5 DEF ReceiveEvent
  <2>5. TextIsNumbered' /\ ReplyIsPast'
    BY <2>4 DEF StreamInv, TextIsNumbered, ReplyIsPast
  <2>6. EndsOnce'
    BY <1>5, <2>4 DEF ReceiveEvent, StreamInv, EndsOnce, Live
  <2>7. CASE Refused(e)
    <3>1. view' = view
      BY <1>5, <2>7 DEF ReceiveEvent, e
    <3> QED
      BY <2>1, <2>3, <2>4, <2>5, <2>6, <3>1, ViewStays
         DEF StreamInv, StreamTypeOK, ViewIsPast, Event
  <2>8. CASE ~Refused(e)
    <3>1. /\ view' = Applied(e)
          /\ view.seq < e.seq /\ view.status \notin Ended
      BY <1>5, <2>1, <2>8 DEF ReceiveEvent, e, Refused, StreamInv, StreamTypeOK,
          Message, Event
    <3>2. /\ view.text \in Seq(Nat) /\ view.seq \in Nat /\ e.seq \in Nat /\ Len(view.text) \in Nat
          /\ view.status \in {"none", "preparing", "streaming"} \cup Ended
          /\ e.type \in {"text_delta", "usage"} \cup Ended
      BY <2>1, LenProperties DEF StreamInv, StreamTypeOK, Message, Event
    <3>3. /\ view' = [seq |-> view'.seq, status |-> view'.status, text |-> view'.text]
          /\ view'.seq = e.seq
          /\ view'.status \in {"none", "preparing", "streaming"} \cup Ended
          /\ view'.status \in Ended => view'.status = e.type
          /\ view'.text = IF e.type = "text_delta" THEN Append(view.text, e.seq) ELSE view.text
      BY <3>1, <3>2 DEF Applied, Ended
    <3>4. CASE e.type # "text_delta"
      <4>1. view'.text = view.text
        BY <3>3, <3>4
      <4>2. view' \in Message
        BY <3>2, <3>3, <4>1 DEF Message
      <4>3. ViewIsPast'
        <5>1. \A i \in 1..Len(view.text) : view.text[i] <= view.seq /\ view.text[i] \in Nat
          BY <3>2, ElementOfSeq DEF StreamInv, ViewIsPast
        <5>2. \A i \in 1..Len(view.text) : view.text[i] <= e.seq
          BY <3>1, <3>2, <5>1
        <5> QED
          BY <2>2, <2>4, <3>3, <4>1, <5>2 DEF StreamInv, ViewIsPast, Ended
      <4>4. StreamTypeOK'
        BY <2>1, <2>4, <4>2 DEF StreamInv, StreamTypeOK, Event
      <4>5. ViewGrows
        BY <3>1, <3>2, <3>3, <4>1 DEF ViewGrows
      <4> QED
        BY <2>3, <2>5, <2>6, <4>3, <4>4, <4>5 DEF StreamInv
    <3>5. CASE e.type = "text_delta"
      <4>1. /\ view'.text \in Seq(Nat)
            /\ Len(view'.text) = Len(view.text) + 1
            /\ \A i \in 1..Len(view.text) : view'.text[i] = view.text[i]
            /\ view'.text[Len(view.text) + 1] = e.seq
        BY <3>2, <3>3, <3>5, AppendProperties
      <4>2. view' \in Message
        BY <3>2, <3>3, <4>1 DEF Message
      <4>3. \A i \in 1..Len(view.text) : view.text[i] <= view.seq /\ view.text[i] \in Nat
        BY <3>2, ElementOfSeq DEF StreamInv, ViewIsPast
      <4>4. \A i \in 1..Len(view'.text) : i \in 1..Len(view.text) \/ i = Len(view.text) + 1
        BY <3>2, <4>1
      <4>5. ASSUME NEW i \in 1..Len(view'.text), NEW j \in 1..Len(view'.text), i < j
            PROVE  view'.text[i] < view'.text[j]
        <5>1. i \in 1..Len(view.text)
          BY <3>2, <4>1, <4>5
        <5>2. CASE j \in 1..Len(view.text)
          BY <4>1, <4>5, <5>1, <5>2 DEF StreamInv, ViewIsPast
        <5>3. CASE j = Len(view.text) + 1
          <6>1. view'.text[i] \in Nat /\ view'.text[i] <= view.seq
            BY <4>1, <4>3, <5>1
          <6>2. view'.text[j] = e.seq
            BY <4>1, <5>3
          <6> QED
            BY <3>1, <3>2, <6>1, <6>2
        <5> QED
          BY <4>4, <5>2, <5>3
      <4>6. ASSUME NEW i \in 1..Len(view'.text)
            PROVE  view'.text[i] <= view'.seq /\ \E j \in 1..Len(entry.text) : entry.text[j] = view'.text[i]
        <5>1. CASE i \in 1..Len(view.text)
          <6>1. view'.text[i] = view.text[i] /\ view.text[i] \in Nat /\ view.text[i] <= view.seq
            BY <4>1, <4>3, <5>1
          <6>2. view'.text[i] <= e.seq
            BY <3>1, <3>2, <6>1
          <6> QED
            BY <3>3, <4>1, <5>1, <6>2 DEF StreamInv, ViewIsPast
        <5>2. CASE i = Len(view.text) + 1
          BY <2>2, <3>2, <3>3, <3>5, <4>1, <5>2
        <5> QED
          BY <4>4, <5>1, <5>2
      <4>7. ViewIsPast'
        BY <2>2, <2>4, <3>3, <4>5, <4>6 DEF ViewIsPast
      <4>8. StreamTypeOK'
        BY <2>1, <2>4, <4>2 DEF StreamInv, StreamTypeOK, Event
      <4>9. ViewGrows
        <5>1. \A i \in 1..Len(view.text) : i \in 1..Len(view'.text)
          BY <3>2, <4>1
        <5> QED
          BY <3>1, <3>2, <3>3, <4>1, <5>1 DEF ViewGrows
      <4> QED
        BY <2>3, <2>5, <2>6, <4>7, <4>8, <4>9 DEF StreamInv
    <3> QED
      BY <3>4, <3>5
  <2> QED
    BY <2>7, <2>8
<1> QED
  BY <1>1, <1>2, <1>3, <1>4, <1>5 DEF WindowStep

\* Every step keeps the invariant and takes nothing away from the view.
LEMMA StreamStep ==
    ASSUME StreamInv, [StreamNext]_streamVars
    PROVE  StreamInv' /\ ViewGrows
<1>1. CASE RegistryStep \/ Cancel
  <2>1. view' = view
    BY <1>1 DEF RegistryStep, Cancel, Spawn, StartFails, AppendText,
        Overflow, RecordUsage, BeginCommit,
                AuthorizeDatabaseCommit, Complete, Fail
  <2> QED
    BY <1>1, <2>1, RegistryIsSound, ViewStays
<1>2. CASE UNCHANGED streamVars
  BY <1>2, ViewStays DEF streamVars, StreamInv, StreamTypeOK, TextIsNumbered, EndsOnce, ReplyIsPast,
      EventsAreTrue,
     ViewIsPast, Live
<1> QED
  BY <1>1, <1>2, WindowIsSound DEF StreamNext

\* Snapshots and events on their way and the view all tell the truth about the entry,
\* whatever overtakes what (RegistryEntry, applySnapshot, applyEvent).
THEOREM StreamIsSound == StreamSpec => []StreamInv
<1>1. StreamInit => StreamInv
  BY FreshStreamIsSound
<1>2. StreamInv /\ [StreamNext]_streamVars => StreamInv'
  BY StreamStep
<1> QED
  BY <1>1, <1>2, PTL DEF StreamSpec

\* The entry, what is on its way and the view keep their types, and the text its limit.
THEOREM StreamTypes == StreamSpec => []StreamTypeOK
<1>1. StreamInv => StreamTypeOK
  BY DEF StreamInv
<1> QED
  BY <1>1, StreamIsSound, PTL

\* A view of which ViewIsPast holds shows kept text in its order, and the right end.
LEMMA ViewIsRight ==
    ASSUME StreamInv
    PROVE  ShownTextIsKept /\ EndsAgree
<1>1. DOMAIN view.text = 1..Len(view.text) /\ DOMAIN entry.text = 1..Len(entry.text)
  BY LenProperties DEF StreamInv, StreamTypeOK, Message
<1>2. ToSet(view.text) \subseteq ToSet(entry.text)
  BY <1>1 DEF ToSet, StreamInv, ViewIsPast
<1>3. \A i, j \in DOMAIN view.text : i < j => view.text[i] < view.text[j]
  BY <1>1 DEF StreamInv, ViewIsPast
<1>4. EndsAgree
  BY DEF EndsAgree, StreamInv, ViewIsPast
<1> QED
  BY <1>2, <1>3, <1>4 DEF ShownTextIsKept

\* A view that grows never goes back.
LEMMA ViewOnlyGrows ==
    ASSUME StreamInv, StreamInv', ViewGrows
    PROVE  /\ view.seq <= view'.seq
           /\ ToSet(view.text) \subseteq ToSet(view'.text)
           /\ view.status \in Ended => view' = view
<1>1. DOMAIN view.text = 1..Len(view.text) /\ DOMAIN view'.text = 1..Len(view'.text)
  BY LenProperties DEF StreamInv, StreamTypeOK, Message
<1>2. ToSet(view.text) \subseteq ToSet(view'.text)
  BY <1>1 DEF ToSet, ViewGrows
<1> QED
  BY <1>2 DEF ViewGrows

\* The window follows the registry for any length of the text and any number of usage
\* reports: what it shows was kept, in its order and once, nothing it shows is taken away by
\* a late snapshot or event, and a view that has ended agrees with the registry and stays.
THEOREM ViewFollows == StreamSpec => ViewFollowsEntry
<1>1. StreamInv => ShownTextIsKept /\ EndsAgree
  BY ViewIsRight
<1>2. StreamInv /\ StreamInv' /\ [StreamNext]_streamVars =>
        [/\ view.seq <= view'.seq
         /\ ToSet(view.text) \subseteq ToSet(view'.text)
         /\ view.status \in Ended => view' = view]_streamVars
  BY StreamStep, ViewOnlyGrows
<1> QED
  BY <1>1, <1>2, StreamIsSound, PTL DEF StreamSpec, ViewFollowsEntry, ViewNeverGoesBack
=============================================================================

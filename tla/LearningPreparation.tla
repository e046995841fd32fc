------------------------ MODULE LearningPreparation ------------------------
(***************************************************************************)
(* How a question to the provider is prepared, agreed to by the user and   *)
(* started: learning/preparation.rs for a passage of a page (its text or   *)
(* an image of it), learning/book_preparation.rs for the whole book, and   *)
(* the start and the end of the request in learning/orchestrator.rs and    *)
(* db/messages.rs, as far as they look at what was prepared.               *)
(*                                                                         *)
(* A preparation is made from the settings, the provider profile, the book *)
(* and the user's consents.  Any of them may change before the user agrees *)
(* and between any two reads of a command, so that each command reads them *)
(* again, twice around the consents, and drops the preparation when one is *)
(* not as it was.  What follows the start is LearningRequests; here it is  *)
(* one step.  The profile is of a cloud provider, which has a credential.  *)
(***************************************************************************)
EXTENDS ContextPacking, FiniteSets

CONSTANTS
  Preparations,    \* ids of preparations
  Calls,           \* commands that may be under way at once
  None,
  Libraries,       \* what search may find in the book, as sets of passages
  Passage, Outline, Pair, Placeholder,   \* the other candidates
  MaxHits,         \* the search hits a question about the book may carry
  MaxPairs,        \* the pairs of messages it may carry
  MaxPreparations, \* the preparations of one registry
  MaxTokens,       \* bound: authorizations of one preparation
  MaxChanges       \* bound: changes of the world

ASSUME BoundAssumption ==
  {MaxHits, MaxPairs, MaxPreparations, MaxTokens, MaxChanges} \subseteq Nat

VARIABLES
  world,    \* what the database and the vault hold
  prepared, \* what each preparation was made from, and its prompt
  entries,  \* the registries' entries
  call,     \* the commands under way
  request,  \* the request started from a preparation
  agreed    \* history: what each start of a preparation found to hold

vars == <<world, prepared, entries, call, request, agreed>>

Kinds == {"text", "region", "book"}
Operations == {"prepare", "authorize", "stage", "start"}
Modes == {"standard", "long"}
Languages == {"zh-CN", "en"}  \* two of them

(* The fields profile, book and consents are revisions, as the timestamps  *)
(* of their rows are, and 0 when the row is gone; asks says that the user  *)
(* wants to be asked before a long prompt is sent.  No command changes the *)
(* mode: it is what the migrations left in the settings.                   *)
Nothing == [kind |-> None, mode |-> None, language |-> None, profile |-> 0, book |-> 0,
            library |-> {}, pairs |-> 0, consents |-> 0, asks |-> FALSE,
            sent |-> <<>>]
Absent == [live |-> FALSE, token |-> 0, authorized |-> FALSE, image |-> FALSE]
Idle == [op |-> None, prep |-> None, at |-> 0, token |-> 0, seen |-> None]

ASSUME NoneAssumption == None \notin Kinds \cup Operations

Init ==
  /\ world \in [mode : Modes, language : {"en"}, default : {TRUE}, profile : {1},
                credential : {TRUE}, book : {1}, library : Libraries,
                pairs : {MaxPairs}, consents : {1},
                asks : {TRUE}, changes : {0}]
  /\ prepared = [p \in Preparations |-> Nothing]
  /\ entries = [p \in Preparations |-> Absent]
  /\ call = [c \in Calls |-> Idle]
  /\ request = [p \in Preparations |-> "none"]
  /\ agreed = [p \in Preparations |-> <<>>]

-----------------------------------------------------------------------------
(* The passages of a prompt. *)

As(kind, passages) == {[c EXCEPT !.kind = kind] : c \in passages}

(* load_neighbors, load_heading_lineage, load_definitions. *)
Neighbors(library) == {c \in library : c.kind = "neighbor"}
Headings(library) == {c \in library : c.kind = "heading"}
Definitions(library) == {c \in library : c.kind = "definition"}

(* What a search finds: a neighbour may be found as well. *)
SearchHits(library) == As("search", library \ Headings(library))

(* retrieve_selection_context. *)
SelectionCandidates(library) ==
  {Passage} \cup Neighbors(library) \cup Headings(library)
    \cup Definitions(library) \cup SearchHits(library)

(* What a question about the book is packed from, besides its history. *)
BookCandidates(library) ==
  ToSet(Outline) \cup {Placeholder} \cup SearchHits(library)

(* Items of the outline are told apart by their ordinals, and neither they *)
(* nor what is said of the history can be taken for a passage of the book. *)
ASSUME CandidateAssumption ==
  /\ Passage.kind = "selection" /\ Passage.source = "local"
  /\ Outline \in Seq(ToSet(Outline)) /\ Outline # <<>>
  /\ \A i \in DOMAIN Outline :
       Outline[i].kind = "directory" /\ Outline[i].source = "directory"
  /\ \A i, j \in DOMAIN Outline : i # j => Outline[i].place # Outline[j].place
  /\ \A c \in {Pair, Placeholder} : c.kind = "history" /\ c.source = "history"
  /\ Pair # Placeholder
  /\ \A l \in Libraries \cup {{}} :
       /\ Ordered(SelectionCandidates(l)) /\ Ordered(BookCandidates(l))
       /\ \A c \in l :
            /\ {"kind", "source", "place", "review"} \subseteq DOMAIN c
            /\ c.kind \in {"neighbor", "heading", "definition", "search"}
            /\ c.source \notin {"directory", "history"}

(* load_bounded_retrieval, in the order of relevance. *)
HitsOf(library) == InOrder(SearchHits(library))

BoundedHits(library) == Prefix(HitsOf(library), Least(MaxHits, Len(HitsOf(library))))

(* A hit in the text Kimi extracted has no locator of the book's format.   *)
HitsAreSound(library) ==
  \A i \in 1..Least(MaxHits + 1, Len(HitsOf(library))) :
    HitsOf(library)[i].source # "extracted"

History(pairs) == [i \in 1..Least(pairs, MaxPairs) |-> Pair]

(* What prepare sends for the preparation d, or TooLarge. *)
Packed(d) ==
  IF d.kind = "book"
  THEN PackLocalSnapshot(Outline, History(d.pairs), d.pairs > MaxPairs,
                         ToSet(BoundedHits(d.library)), Placeholder, d.mode)
  ELSE PackSelection(SelectionCandidates(d.library), d.mode)

RisksOf(p) ==
  (IF prepared[p].kind = "region" THEN {"image"} ELSE {})
    \cup (IF Cost(prepared[p].sent) > StandardCap THEN {"cost"} ELSE {})

(* A question about the book needs an authorization only when it asks. *)
MustAuthorize(p) ==
  RisksOf(p) # {} /\ (prepared[p].kind = "book" => prepared[p].asks)

-----------------------------------------------------------------------------
(* The reads of a command.  load_binding makes three statements;           *)
(* load_local_snapshot is one transaction.                                 *)

Reads(kind) == IF kind = "book" THEN <<"snapshot">>
               ELSE <<"settings", "profile", "book">>

Gathering(kind) == IF kind = "book" THEN <<"snapshot">>
                   ELSE Reads(kind) \o <<"library">>

\* Mutant of Checking: nothing is read again after the consents.
CheckingOnce(kind) == Reads(kind) \o <<"credential", "consents">>

(* revalidate_registry_binding and revalidate_binding. *)
Checking(kind) == Reads(kind) \o <<"credential", "consents">> \o Reads(kind)

Steps(c) ==
  LET kind == prepared[call[c].prep].kind
  IN  IF call[c].op = "prepare" THEN Gathering(kind) \o Checking(kind)
                                ELSE Checking(kind)

Part(c) == Steps(c)[call[c].at]

Settings(d) ==
  world.mode = d.mode /\ world.language = d.language /\ world.default

(* The part is what it was when d was prepared. *)
Holds(d, part) ==
  CASE part = "settings" -> Settings(d)
    [] part = "profile" -> world.profile = d.profile
    [] part = "book" -> world.book = d.book
    [] part = "credential" -> world.credential
    [] part = "consents" -> world.consents = d.consents
    [] part = "snapshot" ->
         /\ Settings(d) /\ world.profile = d.profile /\ world.book = d.book
         /\ world.library = d.library /\ world.pairs = d.pairs

(* The selected passage is found in the text of the book. *)
AnchorIsThere == world.book > 0

(* The book's rows and the first of what search finds make a question. *)
SnapshotIsReadable ==
  /\ world.default /\ world.profile > 0 /\ world.book > 0
  /\ HitsAreSound(world.library)

(* The part can be prepared from. *)
Readable(d, part) ==
  CASE part = "settings" -> world.default
    [] part = "profile" -> world.profile > 0
    [] part = "book" -> world.book > 0
    [] part = "library" -> AnchorIsThere
    [] part = "snapshot" -> SnapshotIsReadable

WithPrompt(d) == [d EXCEPT !.sent = Packed(d)]

Gathered(d, part) ==
  CASE part = "settings" -> [d EXCEPT !.mode = world.mode, !.language = world.language]
    [] part = "profile" -> [d EXCEPT !.profile = world.profile]
    [] part = "book" -> [d EXCEPT !.book = world.book]
    [] part = "library" -> WithPrompt([d EXCEPT !.library = world.library])
    [] part = "snapshot" ->
         WithPrompt([d EXCEPT !.mode = world.mode, !.language = world.language,
                              !.profile = world.profile, !.book = world.book, !.library = world.library,
                              !.pairs = world.pairs])

-----------------------------------------------------------------------------
(* The commands. *)

Return(c) == call' = [call EXCEPT ![c] = Idle]

(* What the rows say when the consents are read is kept for the history. *)
Rows == [profile |-> world.profile, book |-> world.book,
         consents |-> world.consents]

Advance(c) ==
  call' = [call EXCEPT ![c].at = @ + 1,
                       ![c].seen = IF Part(c) = "consents" THEN Rows ELSE @]

Removed(p) == [entries EXCEPT ![p].live = FALSE]

Prepare(c, p, kind) ==
  /\ call[c] = Idle /\ prepared[p] = Nothing
  /\ prepared' = [prepared EXCEPT ![p].kind = kind]
  /\ call' = [call EXCEPT ![c] = [op |-> "prepare", prep |-> p, at |-> 1,
                                  token |-> 0, seen |-> None]]
  /\ UNCHANGED <<world, entries, request, agreed>>

(* prepare reads what it packs from. *)
Gather(c) ==
  LET p == call[c].prep
      d == Gathered(prepared[p], Part(c))
  IN
  /\ call[c].op = "prepare" /\ call[c].at <= Len(Gathering(prepared[p].kind))
  /\ IF Readable(prepared[p], Part(c)) /\ d.sent # TooLarge
     THEN prepared' = [prepared EXCEPT ![p] = d] /\ Advance(c)
     ELSE UNCHANGED prepared /\ Return(c)
  /\ UNCHANGED <<world, entries, request, agreed>>

Checks(c) ==
  /\ call[c] # Idle /\ call[c].at <= Len(Steps(c))
  /\ call[c].op = "prepare" =>
       call[c].at > Len(Gathering(prepared[call[c].prep].kind))

(* prepare reads the consents. *)
ReadConsents(c) ==
  /\ call[c].op = "prepare" /\ Checks(c) /\ Part(c) = "consents"
  /\ prepared' = [prepared EXCEPT ![call[c].prep].consents = world.consents,
                                  ![call[c].prep].asks = world.asks]
  /\ Advance(c)
  /\ UNCHANGED <<world, entries, request, agreed>>

(* Any command reads again; the preparation is dropped when a part is not  *)
(* as it was.                                                              *)
Check(c) ==
  LET p == call[c].prep IN
  /\ Checks(c) /\ ~(call[c].op = "prepare" /\ Part(c) = "consents")
  /\ IF Holds(prepared[p], Part(c))
     THEN Advance(c) /\ UNCHANGED entries
     ELSE Return(c) /\ entries' = Removed(p)
  /\ UNCHANGED <<world, prepared, request, agreed>>

Checked(c, op) == call[c].op = op /\ call[c].at > Len(Steps(c))

SameRegistry(p, q) == (prepared[p].kind = "book") <=> (prepared[q].kind = "book")

(* insert_at. *)
Insert(c) ==
  LET p == call[c].prep
      others == {q \in Preparations : entries[q].live /\ SameRegistry(p, q)}
  IN
  /\ Checked(c, "prepare") /\ Return(c)
  /\ entries' = IF Cardinality(others) >= MaxPreparations THEN entries
              ELSE [entries EXCEPT ![p] = [live |-> TRUE, token |-> 0,
                      authorized |-> ~MustAuthorize(p), image |-> FALSE]]
  /\ UNCHANGED <<world, prepared, request, agreed>>

(* A command on a preparation looks it up first. *)
Begin(c, p, op) ==
  /\ call[c] = Idle /\ entries[p].live
  /\ call' = [call EXCEPT ![c] = [op |-> op, prep |-> p, at |-> 1,
                                  token |-> entries[p].token, seen |-> None]]
  /\ UNCHANGED <<world, prepared, entries, request, agreed>>

Authorize(c, p) ==
  /\ entries[p].token < MaxTokens
  /\ Begin(c, p, "authorize")
  /\ MustAuthorize(p)

(* The selection's registry gives a new token each time; the book's sets   *)
(* its flag once.                                                          *)
Grant(c) ==
  LET p == call[c].prep IN
  /\ Checked(c, "authorize") /\ Return(c)
  /\ entries' = IF ~entries[p].live THEN entries
              ELSE IF prepared[p].kind = "book"
              THEN [entries EXCEPT ![p].authorized = TRUE]
              ELSE [entries EXCEPT ![p].token = @ + 1]
  /\ UNCHANGED <<world, prepared, request, agreed>>

(* The window stages the image under the token it was given. *)
Stage(c, p) ==
  /\ prepared[p].kind = "region" /\ entries[p].token > 0
  /\ Begin(c, p, "stage")

Capture(c) ==
  LET p == call[c].prep IN
  /\ Checked(c, "stage") /\ Return(c)
  /\ entries' = IF /\ entries[p].live /\ ~entries[p].image
                 /\ entries[p].token = call[c].token
              THEN [entries EXCEPT ![p].image = TRUE] ELSE entries
  /\ UNCHANGED <<world, prepared, request, agreed>>

Start(c, p) == Begin(c, p, "start")

(* consume, of either registry. *)
MayStart(p, token) ==
  IF prepared[p].kind = "book" THEN entries[p].authorized
  ELSE /\ entries[p].token = token
       /\ MustAuthorize(p) <=> token > 0
       /\ prepared[p].kind = "region" => entries[p].image

Consume(c) ==
  LET p == call[c].prep IN
  /\ Checked(c, "start") /\ Return(c)
  /\ IF entries[p].live /\ MayStart(p, call[c].token)
     THEN /\ entries' = Removed(p)
          /\ request' = [request EXCEPT ![p] = "loading"]
          /\ agreed' = [agreed EXCEPT ![p] = Append(@, call[c].seen)]
     ELSE UNCHANGED <<entries, request, agreed>>
  /\ UNCHANGED <<world, prepared>>

(* A denial, a discard, an invalidation, or five minutes gone. *)
Forget(p) ==
  /\ entries[p].live
  /\ entries' = Removed(p)
  /\ UNCHANGED <<world, prepared, call, request, agreed>>

-----------------------------------------------------------------------------
(* The request, as far as it depends on what was prepared. *)

(* start_prepared loads the profile and its credential again. *)
Load(p) ==
  /\ request[p] = "loading"
  /\ request' = [request EXCEPT ![p] =
       IF world.profile > 0 /\ world.credential THEN "streaming" ELSE "refused"]
  /\ UNCHANGED <<world, prepared, entries, call, agreed>>

(* A heading and a description have no citation. *)
Cited(p) ==
  {prepared[p].sent[i] : i \in
     {j \in DOMAIN prepared[p].sent :
        prepared[p].sent[j].source \in {"local", "extracted", "ai", "user"}
        /\ prepared[p].sent[j].kind # "heading"}}

(* The locator, the source and the review status are looked up again; a    *)
(* passage without a section cannot be local text.                         *)
LocalIsThere(c) == world.book > 0 /\ c.source = "local"

IndexedIsThere(c) ==
  \E k \in world.library :
    k.source = c.source /\ k.place = c.place /\ k.review = c.review

\* Mutant of StillThere: a passage that needs review is not accepted.
StillIndexed(c) ==
  IF c.source \in {"local", "extracted"} THEN LocalIsThere(c)
  ELSE IndexedIsThere(c) /\ c.review # "needs_review"

(* revalidate_citation. *)
StillThere(c) ==
  IF c.source \in {"local", "extracted"} THEN LocalIsThere(c)
                                         ELSE IndexedIsThere(c)

(* The answer is complete; its transaction looks up all that it could have *)
(* cited.                                                                  *)
Commit(p) ==
  /\ request[p] = "streaming"
  /\ request' = [request EXCEPT ![p] =
       IF world.book > 0 /\ \A c \in Cited(p) : StillThere(c)
       THEN "kept" ELSE "lost"]
  /\ UNCHANGED <<world, prepared, entries, call, agreed>>

-----------------------------------------------------------------------------
(* What changes meanwhile. *)

Change(new) ==
  /\ world.changes < MaxChanges /\ new # world
  /\ world' = [new EXCEPT !.changes = @ + 1]
  /\ UNCHANGED <<prepared, entries, call, request, agreed>>

ChangeSettings ==
  \E l \in Languages, d \in BOOLEAN :
    Change([world EXCEPT !.language = l, !.default = d /\ world.profile > 0])

ReplaceCredential ==
  /\ world.profile > 0
  /\ Change([world EXCEPT !.profile = @ + 1, !.credential = TRUE])

(* delete_provider_profile takes the credential from the vault first, and  *)
(* puts it back when the row cannot be deleted: the second half of the     *)
(* same change.                                                            *)
DropCredential == Change([world EXCEPT !.credential = FALSE])

FinishDeletion(new) ==
  /\ ~world.credential /\ world.profile > 0
  /\ world' = new
  /\ UNCHANGED <<prepared, entries, call, request, agreed>>

RestoreCredential == FinishDeletion([world EXCEPT !.credential = TRUE])

DeleteProfile == FinishDeletion([world EXCEPT !.profile = 0, !.default = FALSE])

DecideConsents ==
  \E asks \in BOOLEAN :
    Change([world EXCEPT !.asks = asks, !.consents = @ + 1])

DeleteBook == Change([world EXCEPT !.book = 0, !.library = {}])

ChangeLibrary ==
  /\ world.book > 0
  /\ \E l \in Libraries : Change([world EXCEPT !.library = l])

Continue == Change([world EXCEPT !.pairs = @ + 1])

Next ==
  \/ \E c \in Calls :
       \/ \E p \in Preparations :
            \/ \E kind \in Kinds : Prepare(c, p, kind)
            \/ Authorize(c, p) \/ Stage(c, p) \/ Start(c, p)
       \/ Gather(c) \/ ReadConsents(c) \/ Check(c)
       \/ Insert(c) \/ Grant(c) \/ Capture(c) \/ Consume(c)
  \/ \E p \in Preparations : Forget(p) \/ Load(p) \/ Commit(p)
  \/ ChangeSettings \/ DecideConsents
  \/ ReplaceCredential \/ DropCredential \/ RestoreCredential \/ DeleteProfile
  \/ DeleteBook \/ ChangeLibrary \/ Continue

Spec == Init /\ [][Next]_vars

-----------------------------------------------------------------------------
RowsSeen == [profile : Nat, book : Nat, consents : Nat]
Entry == [live : BOOLEAN, token : Nat, authorized : BOOLEAN, image : BOOLEAN]
Command == [op : Operations \cup {None}, prep : Preparations \cup {None},
            at : Nat, token : Nat, seen : RowsSeen \cup {None}]

(* Every field has its kind of value; the prompt may be any sequence.      *)
TypeOK ==
  /\ world \in [mode : Modes, language : Languages, default : BOOLEAN,
               profile : Nat, credential : BOOLEAN, book : Nat,
               library : Libraries \cup {{}}, pairs : Nat, consents : Nat,
               asks : BOOLEAN, changes : 0..MaxChanges]
  /\ DOMAIN prepared = Preparations
  /\ \A p \in Preparations :
       /\ DOMAIN prepared[p] = DOMAIN Nothing
       /\ prepared[p].kind \in Kinds \cup {None}
       /\ {prepared[p].profile, prepared[p].book, prepared[p].consents} \subseteq Nat
  /\ entries \in [Preparations -> Entry]
  /\ call \in [Calls -> Command]
  /\ request \in [Preparations ->
                   {"none", "loading", "refused", "streaming", "kept", "lost"}]
  /\ DOMAIN agreed = Preparations

(* A preparation is started once at most, with every risk of it answered   *)
(* and its image at hand, and there was a moment in that start at which    *)
(* the provider's profile, the book and the user's consents were all the   *)
(* ones that it was prepared and agreed to with.                           *)
StartedAsAgreed ==
  \A p \in Preparations :
    request[p] # "none" =>
      /\ agreed[p] = <<[profile |-> prepared[p].profile,
                        book |-> prepared[p].book,
                        consents |-> prepared[p].consents]>>
      /\ MustAuthorize(p) => entries[p].token > 0 \/ entries[p].authorized
      /\ prepared[p].kind = "region" => entries[p].token > 0 /\ entries[p].image

(* A selection's prompt holds the selected passage and, in the order of    *)
(* the packing, the candidates that say something new, as far as the       *)
(* budget reaches: a candidate is left out only because one that is sent   *)
(* says the same, or because the first that is left out no longer fits.    *)
SelectionIsRight(d) ==
  LET all == SelectionCandidates(d.library)
      sent == ToSet(d.sent)
      New(c) == ~\E k \in sent : Repeats(c, k) /\ Before(k, c)
      left == {c \in all \ sent : New(c)}
  IN  /\ Passage \in sent /\ sent \subseteq all
      /\ \A c \in sent : New(c)
      /\ \A c \in left :
           /\ \A k \in sent : Before(k, c)
           /\ (\A k \in left : k = c \/ Before(c, k)) =>
                ~Fits(Append(d.sent, c), d.mode)

(* A question about the book carries the newest pairs of its conversation  *)
(* and the first items of the outline; items are given up only when no     *)
(* pair is left, pairs only when no hit is sent; and what is missing from  *)
(* the conversation is said to be missing.                                 *)
BookIsRight(d) ==
  LET sent == ToSet(d.sent)
      pairs == Cardinality({i \in DOMAIN d.sent : d.sent[i] = Pair})
      items == Cardinality(sent \cap ToSet(Outline))
      hits == {c \in sent : c.kind = "search"}
  IN  /\ sent \cap ToSet(Outline) = ToSet(Prefix(Outline, items))
      /\ items > 0
      /\ items < Len(Outline) => pairs = 0
      /\ hits # {} => items = Len(Outline) /\ pairs = Least(d.pairs, MaxPairs)
      /\ Placeholder \in sent <=> pairs < d.pairs
      /\ \A c \in hits, k \in ToSet(BoundedHits(d.library)) \ hits :
           Before(k, c) => \E e \in hits : Before(e, k) /\ Repeats(k, e)

(* What is sent fits into the budget of the mode it was prepared with.     *)
PromptIsRight ==
  \A p \in Preparations :
    LET d == prepared[p] IN
    d.sent # <<>> =>
      /\ Fits(d.sent, d.mode)
      /\ IF d.kind = "book" THEN BookIsRight(d) ELSE SelectionIsRight(d)

(* An answer that was paid for is lost at its commit only if the book was  *)
(* deleted or what search finds in it has changed since the prompt was     *)
(* packed, or if the prompt held text that Kimi extracted (docs/user-      *)
(* guide.md:22 knows no such exception).                                   *)
UnchangedTextKeepsAnswers ==
  [][\A p \in Preparations :
       request'[p] = "lost" /\ request[p] # "lost" =>
         \/ world.book = 0
         \/ world.library # prepared[p].library
         \/ \E c \in Cited(p) : c.source = "extracted"]_vars
=============================================================================

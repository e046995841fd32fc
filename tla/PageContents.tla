---------------------------- MODULE PageContents ----------------------------
(***************************************************************************)
(* What a page of a book holds after recognition: the blocks a provider    *)
(* returned (indexing/commit.rs), the corrections the user typed over them *)
(* (db/corrections.rs), the chunks that search and questions are answered  *)
(* from, and the editor that decides on a copy of all this it has read     *)
(* earlier (db/indexing.rs, IndexReviewEditor.tsx).  The page is           *)
(* recognized again meanwhile.                                             *)
(*                                                                         *)
(* Every command is one transaction.  A value stands for its hash; bounds, *)
(* regions, confidence and the order of the hits are left out.  How a page *)
(* comes to be recognized is the subject of IndexCoordinator: here it is   *)
(* at work, and then committed, or not.                                    *)
(***************************************************************************)
EXTENDS Naturals

CONSTANTS
  Blocks,       \* the ids a block of this page and run may have, by ordinal
  Values,       \* what a provider recognizes
  Texts,        \* what a user types
  Recognitions, \* the validated pages a provider may return
  Loads,        \* reads of the page by the window that may be under way
  None,
  MaxVersion,   \* bound: commits of the page
  MaxRevision   \* bound: revisions of a correction

Kinds == {"text", "latex"}
Slots == Kinds \cup {"table", "description"}
Targets == Blocks \X Kinds

(* A row of index_page_blocks, and one of index_corrections. *)
Block == [version : Nat, value : [Slots -> Values \cup {None}]]

Correction ==
  [state : {"active", "conflict"}, original : Values, text : Texts,
   version : Nat, revision : Nat]

(* NULL is no value and no row. *)
ASSUME NoneAssumption == None \notin Values \cup Texts \cup Block \cup Correction
ASSUME RecognitionAssumption ==
  \A r \in Recognitions :
    /\ DOMAIN r \subseteq Blocks
    /\ \A b \in DOMAIN r : r[b] \in [Slots -> Values \cup {None}]
ASSUME BoundAssumption == MaxVersion \in Nat /\ MaxRevision \in Nat

VARIABLES
  page,        \* the row of index_pages: its status and content_version
  blocks,      \* index_page_blocks, by block, or None
  corrections, \* index_corrections, by target, or None
  chunks,      \* index_search_chunks
  load,        \* the reads under way
  view         \* what the editor shows, or None

contentVars == <<page, blocks, corrections, chunks, load, view>>

Reviewable == {"needs_review", "failed"}
Searchable == {"indexed", "needs_review"}

AtRest == [pc |-> "idle", version |-> 0, blocks |-> <<>>, corrections |-> <<>>]

ContentInit ==
  /\ page = [status |-> "working", version |-> 0]
  /\ blocks = [b \in Blocks |-> None]
  /\ corrections = [t \in Targets |-> None]
  /\ chunks = {}
  /\ load = [l \in Loads |-> AtRest]
  /\ view = None

-----------------------------------------------------------------------------
(* The commit of a recognized page. *)

(* The provider's value of a target in the recognition r, or None. *)
Recognized(r, t) == IF t[1] \in DOMAIN r THEN r[t[1]][t[2]] ELSE None

CorrectedBlocks == {b \in Blocks : \E k \in Kinds : corrections[<<b, k>>] # None}

\* Mutant of StillAgrees: whatever is recognized, the correction stays active.
AlwaysAgrees(r, t) == corrections[t].state = "active" /\ t[1] \in DOMAIN r

(* reconcile_existing_corrections for a block that is there again, and     *)
(* retain_only_current_or_corrected_blocks for one that is not: a conflict *)
(* never becomes active by itself.                                         *)
StillAgrees(r, t) ==
  /\ corrections[t].state = "active"
  /\ t[1] \in DOMAIN r
  /\ Recognized(r, t) = corrections[t].original

Reconciled(r, t, version) ==
  [corrections[t] EXCEPT
     !.state = IF StillAgrees(r, t) THEN "active" ELSE "conflict",
     !.version = IF t[1] \in DOMAIN r THEN version ELSE @,
     !.revision = @ + 1]

Chunk(b, slot, source, text, version) ==
  [block |-> b, slot |-> slot, source |-> source, text |-> text,
   version |-> version]

(* insert_correctable_search_value: the correction, or the provider's      *)
(* value if there is none; nothing while they are in conflict.             *)
Overlay(t, value, correction, version) ==
  IF correction = None
  THEN {Chunk(t[1], t[2], "ai_transcribed", value, version)}
  ELSE IF correction.state = "active"
  THEN {Chunk(t[1], t[2], "user_corrected", correction.text, version)}
  ELSE {}

Uncorrectable(b, slot, value, version) ==
  Chunk(b, slot, IF slot = "table" THEN "ai_transcribed" ELSE "ai_description",
        value, version)

(* insert_block_search_rows, for every block. *)
SearchRows(r, reconciled, version) ==
  (UNION {Overlay(t, Recognized(r, t), reconciled[t], version) :
            t \in {u \in Targets : Recognized(r, u) # None}})
  \cup
  {Uncorrectable(p[1], p[2], r[p[1]][p[2]], version) :
     p \in {q \in (DOMAIN r) \X (Slots \ Kinds) : r[q[1]][q[2]] # None}}

CommitContent(r, status) ==
  LET version == page.version + 1
      reconciled == [t \in Targets |-> IF corrections[t] = None THEN None
                                       ELSE Reconciled(r, t, version)]
  IN
  /\ page.status = "working" /\ page.version < MaxVersion
  /\ \A t \in Targets :
       corrections[t] # None => corrections[t].revision < MaxRevision
  /\ page' = [status |-> status, version |-> version]
  /\ corrections' = reconciled
  /\ blocks' = [b \in Blocks |->
                  IF b \in DOMAIN r
                  THEN [version |-> version, value |-> r[b]]
                  ELSE IF b \in CorrectedBlocks THEN blocks[b] ELSE None]
  /\ chunks' = SearchRows(r, reconciled, version)
  /\ UNCHANGED <<load, view>>

(* The recognition fails, or is cancelled or interrupted. *)
FailPage ==
  /\ page.status = "working"
  /\ page' = [page EXCEPT !.status = "failed"]
  /\ UNCHANGED <<blocks, corrections, chunks, load, view>>

(* retry_page: of a failed page or of one that needs review, no other. *)
RetryPage ==
  /\ page.status \in Reviewable
  /\ page' = [page EXCEPT !.status = "working"]
  /\ UNCHANGED <<blocks, corrections, chunks, load, view>>

-----------------------------------------------------------------------------
(* get_page_review makes three reads outside of a transaction, and the     *)
(* answer reaches the window later still.                                  *)

Loading(l, pc) == load[l].pc = pc

ReadPage(l) ==
  /\ Loading(l, "idle")
  /\ load' = [load EXCEPT ![l] =
       IF page.status \in Reviewable
       THEN [@ EXCEPT !.pc = "page", !.version = page.version]
       ELSE [@ EXCEPT !.pc = "gone"]]
  /\ UNCHANGED <<page, blocks, corrections, chunks, view>>

ReadBlocks(l) ==
  LET current == {b \in Blocks : /\ blocks[b] # None
                                 /\ blocks[b].version = load[l].version}
  IN
  /\ Loading(l, "page")
  /\ load' = [load EXCEPT ![l].pc = "blocks",
                          ![l].blocks = [b \in current |-> blocks[b].value]]
  /\ UNCHANGED <<page, blocks, corrections, chunks, view>>

ReadCorrections(l) ==
  /\ Loading(l, "blocks")
  /\ load' = [load EXCEPT ![l].pc = "read", ![l].corrections = corrections]
  /\ UNCHANGED <<page, blocks, corrections, chunks, view>>

(* The editor closes when its page is no longer listed. *)
Show(l) ==
  /\ load[l].pc \in {"read", "gone"}
  /\ view' = IF Loading(l, "gone") THEN None
             ELSE [version |-> load[l].version, blocks |-> load[l].blocks,
                   corrections |-> load[l].corrections]
  /\ load' = [load EXCEPT ![l] = AtRest]
  /\ UNCHANGED <<page, blocks, corrections, chunks>>

-----------------------------------------------------------------------------
(* The commands of the editor, each with what the editor shows. *)

ShownValue(t) == view.blocks[t[1]][t[2]]

(* load_current_target and load_target_for_correction, with the hash of    *)
(* the shown value: the target is current, and what was shown.             *)
Current(t) ==
  /\ view.version = page.version /\ page.version > 0
  /\ blocks[t[1]] # None /\ blocks[t[1]].version = page.version
  /\ blocks[t[1]].value[t[2]] # None
  /\ blocks[t[1]].value[t[2]] = ShownValue(t)

(* The block can be selected in the editor. *)
Selected(t) == view # None /\ t[1] \in DOMAIN view.blocks

\* Mutant of SameRevision: any revision will do.
AnyRevision(t) == corrections[t] # None

(* load_owned_correction: the correction, as the editor shows it. *)
SameRevision(t) ==
  /\ view.corrections[t] # None /\ corrections[t] # None
  /\ corrections[t].revision = view.corrections[t].revision

\* Mutant of Refreshed: the old row of the target stays.
RefreshedBeside(t, correction) ==
  chunks \cup Overlay(t, blocks[t[1]].value[t[2]], correction, page.version)

(* refresh_search_value replaces the chunk of one target. *)
Refreshed(t, correction) ==
  {c \in chunks : ~(c.block = t[1] /\ c.slot = t[2])}
    \cup Overlay(t, blocks[t[1]].value[t[2]], correction, page.version)

Put(t, correction) ==
  /\ corrections' = [corrections EXCEPT ![t] = correction]
  /\ chunks' = Refreshed(t, correction)
  /\ UNCHANGED <<page, blocks, load, view>>

Create(t, text) ==
  /\ Selected(t) /\ Current(t)
  /\ view.corrections[t] = None /\ corrections[t] = None
  /\ Put(t, [state |-> "active", original |-> blocks[t[1]].value[t[2]],
             text |-> text, version |-> page.version, revision |-> 1])

Edit(t, text) ==
  /\ Selected(t) /\ Current(t) /\ SameRevision(t)
  /\ corrections[t].state = "active"
  /\ corrections[t].original = ShownValue(t)
  /\ corrections[t].revision < MaxRevision
  /\ Put(t, [corrections[t] EXCEPT !.text = text, !.version = page.version,
                                   !.revision = @ + 1])

(* Keep (its own text), or Compare with another text of the editor: the    *)
(* correction is active again, over the value that was shown.              *)
Keep(t, text) ==
  /\ Selected(t) /\ SameRevision(t) /\ corrections[t].state = "conflict"
  /\ Current(t)
  /\ corrections[t].revision < MaxRevision
  /\ Put(t, [corrections[t] EXCEPT
               !.state = "active", !.original = ShownValue(t), !.text = text,
               !.version = page.version, !.revision = @ + 1])

(* Accept of a conflict, and the deletion of any correction. *)
Discard(t) ==
  /\ Selected(t) /\ SameRevision(t) /\ Current(t)
  /\ Put(t, None)

Command(t) ==
  \/ \E text \in Texts : Create(t, text) \/ Edit(t, text) \/ Keep(t, text)
  \/ Discard(t)

ContentNext ==
  \/ \E r \in Recognitions, status \in Searchable : CommitContent(r, status)
  \/ FailPage \/ RetryPage
  \/ \E l \in Loads :
       ReadPage(l) \/ ReadBlocks(l) \/ ReadCorrections(l) \/ Show(l)
  \/ \E t \in Targets : Command(t)

ContentSpec == ContentInit /\ [][ContentNext]_contentVars

-----------------------------------------------------------------------------
(* The blocks and the corrections of a page, as the window holds them. *)
HeldBlocks == UNION {[S -> [Slots -> Values \cup {None}]] : S \in SUBSET Blocks}
HeldCorrections == [Targets -> Correction \cup {None}]

(* The tables and what the window has read keep their types. *)
ContentTypeOK ==
  /\ page \in [status : {"working", "failed", "indexed", "needs_review"},
               version : Nat]
  /\ blocks \in [Blocks -> Block \cup {None}]
  /\ corrections \in HeldCorrections
  /\ chunks \subseteq
       [block : Blocks, slot : Slots,
        source : {"ai_transcribed", "ai_description", "user_corrected"},
        text : Values \cup Texts, version : Nat]
  /\ load \in [Loads -> [pc : {"idle", "page", "blocks", "read", "gone"}, version : Nat,
                         blocks : HeldBlocks \cup {<<>>},
                         corrections : HeldCorrections \cup {<<>>}]]
  /\ view \in [version : Nat, blocks : HeldBlocks \cup {<<>>},
               corrections : HeldCorrections \cup {<<>>}] \cup {None}

(* A correction is active only over the very value the provider recognizes *)
(* today: whatever was recognized, decided and read in between, it is      *)
(* never laid over a text it was not written for.                          *)
ActiveOverItsOriginal ==
  \A t \in Targets :
    corrections[t] # None /\ corrections[t].state = "active" =>
      /\ blocks[t[1]] # None
      /\ blocks[t[1]].version = page.version
      /\ corrections[t].version = page.version
      /\ blocks[t[1]].value[t[2]] = corrections[t].original

(* The chunks a search finds (search_fts and search_like). *)
Found ==
  {c \in chunks :
     /\ page.status \in Searchable /\ c.version = page.version
     /\ c.source = "user_corrected" =>
          /\ corrections[<<c.block, c.slot>>] # None
          /\ corrections[<<c.block, c.slot>>].state = "active"
          /\ corrections[<<c.block, c.slot>>].version = c.version
     /\ c.source = "ai_transcribed" =>
          LET text == corrections[<<c.block, "text">>]
          IN  ~(text # None /\ text.state = "active" /\ text.version = c.version)
     /\ c.source # "ai_description" =>
          \A k \in Kinds : corrections[<<c.block, k>>] # None =>
                             corrections[<<c.block, k>>].state = "active"}

Hits(t) == {c.text : c \in {d \in Found : d.block = t[1] /\ d.slot = t[2]}}

(* A search of a settled page finds, of every value a user can correct,    *)
(* the user's text where there is one, nothing while a conflict waits for  *)
(* the user, and the provider's value otherwise.  The text of a block with *)
(* one correction is never missing.                                        *)
SearchFollowsTheUser ==
  \A t \in Targets :
    LET c == corrections[t]
        alone == \A k \in Kinds \ {t[2]} : corrections[<<t[1], k>>] = None
        here == blocks[t[1]] # None /\ blocks[t[1]].version = page.version
        due == IF ~here \/ blocks[t[1]].value[t[2]] = None THEN {}
               ELSE IF c = None THEN {blocks[t[1]].value[t[2]]}
               ELSE IF c.state = "active" THEN {c.text} ELSE {}
    IN  page.status \in Searchable =>
          /\ Hits(t) \subseteq due
          /\ alone => Hits(t) = due

(* A text the user typed is changed or dropped only by a command of an     *)
(* editor that shows this text and the value it is laid over: never by a   *)
(* recognition, and never by a decision on an older state of the page.     *)
OnlyShownTextIsReplaced ==
  [][\A t \in Targets :
       LET old == corrections[t]
           new == corrections'[t]
       IN  old # None /\ (new = None \/ new.text # old.text) =>
             /\ Selected(t)
             /\ view.corrections[t] # None
             /\ view.corrections[t].text = old.text
             /\ blocks[t[1]] # None
             /\ ShownValue(t) = blocks[t[1]].value[t[2]]]_contentVars

(* A conflict on a page that is done can be decided by an editor that has  *)
(* just read the page (docs/index-quality.md:20).                          *)
FreshView ==
  [version |-> page.version,
   blocks |-> [b \in {c \in Blocks : blocks[c] # None
                                     /\ blocks[c].version = page.version}
                 |-> blocks[b].value]]

ConflictsCanBeDecided ==
  page.status \in Searchable =>
    \A t \in Targets :
      corrections[t] # None /\ corrections[t].state = "conflict" =>
        /\ page.status \in Reviewable
        /\ t[1] \in DOMAIN FreshView.blocks
        /\ FreshView.blocks[t[1]][t[2]] # None
=============================================================================

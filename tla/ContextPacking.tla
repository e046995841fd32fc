--------------------------- MODULE ContextPacking ---------------------------
(***************************************************************************)
(* Which passages of a book go into a question to the provider: the pure   *)
(* part of retrieval/context.rs, retrieval/budget.rs, learning/prompt.rs   *)
(* and of pack_local_snapshot in learning/book_preparation.rs.             *)
(*                                                                         *)
(* A candidate is a record of what the packing looks at:                   *)
(*   kind    what it is for, which says where it is packed                 *)
(*   rank    its order among those of its kind (relevance, ordinal, id)    *)
(*   source  and place   what may repeat it: its provenance and locator    *)
(*   review  the review status of its citation                             *)
(*   text    its content          cost   its estimated tokens              *)
(* Scores, texts and the rendering of the prompt are left out: the rest of *)
(* the prompt costs Base tokens.                                           *)
(***************************************************************************)
EXTENDS Naturals, FiniteSets, Sequences, SequencesExt

CONSTANTS
  Resembles,    \* <<a, b>>: at least four fifths of text a are in text b
  Window,       \* the model's context window
  OutputTokens, \* the output the model asks for by default
  StandardCap, LongCap,            \* the caps of the two context modes
  MinimumOutput, SmallWindow,      \* the floor of the output's reserve
  ProtocolReserve,
  Base          \* the prompt without its context

ASSUME PackingAssumption ==
  /\ {Window, OutputTokens, StandardCap, LongCap, MinimumOutput, SmallWindow,
      ProtocolReserve, Base} \subseteq Nat
  /\ StandardCap <= LongCap

-----------------------------------------------------------------------------
(* InputBudget::new. *)

Least(a, b) == IF a <= b THEN a ELSE b
Minus(a, b) == IF a <= b THEN 0 ELSE a - b

EffectiveWindow(mode) ==
  Least(Window, IF mode = "long" THEN LongCap ELSE StandardCap)

OutputReserve(mode) ==
  IF /\ EffectiveWindow(mode) < SmallWindow
     /\ OutputTokens <= EffectiveWindow(mode) \div 4
  THEN OutputTokens
  ELSE IF OutputTokens >= MinimumOutput THEN OutputTokens ELSE MinimumOutput

UsableInput(mode) ==
  Minus(Minus(EffectiveWindow(mode), OutputReserve(mode)), ProtocolReserve)

Cost(candidates) ==
  FoldLeft(LAMBDA total, c : total + c.cost, Base, candidates)

Fits(candidates, mode) == Cost(candidates) <= UsableInput(mode)

-----------------------------------------------------------------------------
(* The order and the removal of repeats. *)

PackingOrder(kind) ==
  CASE kind = "selection" -> 0
    [] kind = "neighbor" -> 1
    [] kind \in {"heading", "definition"} -> 2
    [] kind = "search" -> 3
    [] kind = "history" -> 5
    [] kind = "directory" -> 6

(* compare_candidates. *)
Before(a, b) ==
  \/ PackingOrder(a.kind) < PackingOrder(b.kind)
  \/ PackingOrder(a.kind) = PackingOrder(b.kind) /\ a.rank < b.rank

CandidateKinds == {"selection", "neighbor", "heading", "definition", "search",
                   "history", "directory"}

(* The order is total: compare_candidates ends with the passages' ids. *)
Ordered(candidates) ==
  /\ IsFiniteSet(candidates)
  /\ \A c \in candidates : c.kind \in CandidateKinds /\ c.rank \in Nat
  /\ \A a, b \in candidates : a = b \/ Before(a, b) \/ Before(b, a)

(* The candidate c repeats the earlier candidate prior. *)
Repeats(c, prior) ==
  /\ c.source = prior.source /\ c.place = prior.place
  /\ c.text = prior.text \/ <<c.text, prior.text>> \in Resembles

(* deduplicate_candidates: a candidate is kept unless one that is kept     *)
(* before it says the same.                                                *)
Deduplicated(candidates) ==
  CHOOSE kept \in SUBSET candidates :
    \A c \in candidates :
      c \in kept <=> ~\E prior \in kept : Before(prior, c) /\ Repeats(c, prior)

(* The candidates in their order, each behind those that are before it.    *)
InOrder(candidates) ==
  [i \in 1..Cardinality(candidates) |->
     CHOOSE c \in candidates :
       Cardinality({prior \in candidates : Before(prior, c)}) = i - 1]

Prefix(s, n) == SubSeq(s, 1, n)

-----------------------------------------------------------------------------
(* What is sent: a sequence of candidates, or TooLarge. *)

TooLarge == [tooLarge |-> TRUE]

\* Mutant of Longest: the first passage that does not fit is sent as well.
OneMore(required, optional, mode) ==
  LET lengths == {n \in 0..Len(optional) :
                    Fits(required \o Prefix(optional, Minus(n, 1)), mode)}
  IN  IF ~Fits(required, mode) THEN TooLarge
      ELSE required \o Prefix(optional, CHOOSE n \in lengths :
                                          \A m \in lengths : m <= n)

(* The longest part of optional, in its order, that fits with required. *)
Longest(required, optional, mode) ==
  LET lengths == {n \in 0..Len(optional) :
                    Fits(required \o Prefix(optional, n), mode)}
  IN  IF ~Fits(required, mode) THEN TooLarge
      ELSE required \o Prefix(optional, CHOOSE n \in lengths :
                                          \A m \in lengths : m <= n)

(* pack_context: the selected passage, and what fits beside it. *)
PackSelection(candidates, mode) ==
  LET kept == Deduplicated(candidates)
      selected == {c \in kept : c.kind = "selection"}
  IN  Longest(InOrder(selected), InOrder(kept \ selected), mode)

(* pack_book_context: the outline and the note that history was left out   *)
(* are required; a search hit is not.  History is not a candidate.         *)
PackBook(candidates, history, mode) ==
  LET kept == Deduplicated(candidates)
      required == {c \in kept : c.kind \in {"history", "directory"}}
      hits == {c \in kept : c.kind = "search"}
  IN  Longest(history \o InOrder(required), InOrder(hits), mode)

(* pack_local_snapshot tries with less and less: without the oldest pairs  *)
(* of the history, then without the last items of the outline, which keeps *)
(* its first; the search hits are there in the first attempt only.         *)
Attempts(outline, history) ==
  LET h == Len(history)
      o == Len(outline)
  IN  <<[dropped |-> 0, items |-> o, hits |-> TRUE]>>
      \o [i \in 1..h |-> [dropped |-> i, items |-> o, hits |-> FALSE]]
      \o [i \in 1..Minus(o, 1) |->
            [dropped |-> h, items |-> o - i, hits |-> FALSE]]

Attempt(outline, history, omitted, hits, placeholder, mode, a) ==
  PackBook(ToSet(Prefix(outline, a.items))
             \cup (IF a.hits THEN hits ELSE {})
             \cup (IF omitted \/ a.dropped > 0 THEN {placeholder} ELSE {}),
           SubSeq(history, a.dropped + 1, Len(history)), mode)

PackLocalSnapshot(outline, history, omitted, hits, placeholder, mode) ==
  LET tried == [i \in DOMAIN Attempts(outline, history) |->
                  Attempt(outline, history, omitted, hits, placeholder, mode,
                          Attempts(outline, history)[i])]
      good == {i \in DOMAIN tried : tried[i] # TooLarge}
  IN  IF good = {} THEN TooLarge
      ELSE tried[CHOOSE i \in good : \A j \in good : i <= j]
=============================================================================

----------------------- MODULE MCLearningPreparation -----------------------
(* An instance of LearningPreparation for TLC: a page with a neighbour, a  *)
(* heading, a passage of a page image that needs review, its correction,   *)
(* and a passage that Kimi extracted.                                      *)
EXTENDS LearningPreparation, TLC

CONSTANTS p1, c1, c2

Candidate(kind, rank, source, place, review, text, cost) ==
  [kind |-> kind, rank |-> rank, source |-> source, place |-> place,
   review |-> review, text |-> text, cost |-> cost]

MCPassage == Candidate("selection", 0, "local", 1, "not_required", 1, 2)
Neighbour == Candidate("neighbor", 3, "local", 2, "not_required", 2, 2)
Heading == Candidate("heading", 0, "local", 1, "not_required", 3, 1)
Found == Candidate("search", 2, "ai", 4, "needs_review", 4, 3)
Longer == Candidate("search", 4, "ai", 4, "needs_review", 5, 2)
Corrected == Candidate("search", 1, "user", 4, "user_corrected", 6, 2)
Extracted == Candidate("search", 5, "extracted", 0, "not_required", 7, 1)

MCLibraries ==
  {{Neighbour, Heading, Found, Longer}, {Neighbour, Heading, Corrected, Extracted}}

MCOutline == [i \in 1..4 |-> Candidate("directory", i, "directory", i, None, 10 + i, 1)]
MCPair == Candidate("history", 0, "history", 0, None, 20, 2)
MCPlaceholder == Candidate("history", 1, "history", 1, None, 21, 1)
MCResembles == {<<5, 4>>}

CallSymmetry == Permutations(Calls)
=============================================================================

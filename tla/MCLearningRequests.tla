--------------------------- MODULE MCLearningRequests ---------------------------
(* An instance of LearningRequests for TLC. *)
EXTENDS LearningRequests, TLC

CONSTANTS r1, r2, c1, c2
=============================================================================

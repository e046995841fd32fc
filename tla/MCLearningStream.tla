---------------------------- MODULE MCLearningStream ----------------------------
(* Instances of LearningStream for TLC. *)
EXTENDS LearningStream
=============================================================================

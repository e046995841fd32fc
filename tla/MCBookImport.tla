--------------------------- MODULE MCBookImport ---------------------------
(* Instances of BookImport for TLC. *)
EXTENDS BookImport, TLC

\* f3 is for the three flows of one book that the README describes.
CONSTANTS b1, b2, f1, f2, f3, u, s1, s2
===========================================================================

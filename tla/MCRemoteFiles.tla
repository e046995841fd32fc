--------------------------- MODULE MCRemoteFiles ---------------------------
(* Instances of RemoteFiles for TLC. *)
EXTENDS RemoteFiles, TLC

CONSTANTS p1, p2, f1, a1

(* Profiles are not told apart, and no run of these asks for liveness. *)
ProfileSymmetry == Permutations({p1, p2})
=============================================================================

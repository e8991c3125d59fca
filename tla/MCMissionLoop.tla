--------------------------- MODULE MCMissionLoop ----------------------------
(***************************************************************************)
(* Instances of MissionLoop for TLC.                                       *)
(***************************************************************************)
EXTENDS MissionLoop, TLC

Symmetry == Permutations(Interceptors) \cup Permutations(Tracks)

=============================================================================

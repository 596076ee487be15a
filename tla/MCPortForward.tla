--------------------------- MODULE MCPortForward ---------------------------
(***************************************************************************)
(* Instances of PortForward for TLC.  Rules and task identities are        *)
(* interchangeable in the safety runs.                                     *)
(***************************************************************************)
EXTENDS PortForward, TLC

Symmetry == Permutations(Rules) \cup Permutations(TaskIds)

=============================================================================

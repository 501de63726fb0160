--------------------------- MODULE MCNativeExecution ---------------------------
(***************************************************************************)
(* Instances of NativeExecution for TLC: revisions as model values, alike  *)
(* up to renaming.                                                         *)
(***************************************************************************)
EXTENDS NativeExecution, TLC

Revisions == Permutations(Run)
=============================================================================

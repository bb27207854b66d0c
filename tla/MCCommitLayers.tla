---------------------------- MODULE MCCommitLayers ----------------------------
(***************************************************************************)
(* CommitLayers with interchangeable calls, but for the resent ones.       *)
(***************************************************************************)
EXTENDS CommitLayers, TLC

CallSymmetry == Permutations(Call \ Resent)
=============================================================================

--------------------------- MODULE MCOperationStore ---------------------------
(***************************************************************************)
(* OperationStore with interchangeable requests.                           *)
(***************************************************************************)
EXTENDS OperationStore, TLC

RequestSymmetry == Permutations(Request)
RequestAndDigestSymmetry == Permutations(Request) \cup Permutations(Digest)

\* Behind a dropped record the task run has nothing left to check.
Undropped == ~dropped
=============================================================================

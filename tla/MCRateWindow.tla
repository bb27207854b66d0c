----------------------------- MODULE MCRateWindow -----------------------------
(***************************************************************************)
(* RateWindow with interchangeable requests.                               *)
(***************************************************************************)
EXTENDS RateWindow, TLC

RequestSymmetry == Permutations(Request)
=============================================================================

---------------------------- MODULE MCCredentials ----------------------------
(* Model values for Credentials: three threads on two processes. *)
EXTENDS Credentials, TLC

CONSTANTS t1, t2, t3, p1, p2

HomesOfThree == t1 :> p1 @@ t2 :> p1 @@ t3 :> p2
=============================================================================

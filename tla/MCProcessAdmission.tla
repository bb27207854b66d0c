-------------------------- MODULE MCProcessAdmission --------------------------
(***************************************************************************)
(* One process, two principals and a task, for ProcessAdmission.            *)
(***************************************************************************)
EXTENDS ProcessAdmission, TLC

CONSTANTS c1, c2, c3, u1, u2

\* u1 sends the requests c1 and c2; c3 is a task execution of u2.
TwoUsers == [c \in Call |-> IF c = c3 THEN u2 ELSE u1]
=============================================================================

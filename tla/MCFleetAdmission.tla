--------------------------- MODULE MCFleetAdmission ---------------------------
(***************************************************************************)
(* A fleet of two replicas for FleetAdmission.                             *)
(***************************************************************************)
EXTENDS FleetAdmission

CONSTANTS c1, c2, c3, c4, c5, p1, p2

\* c2 is nested in the commit c1, c4 in the commit c3; c5 stands alone.
Commits == [c \in Call |-> CASE c = c2 -> c1 [] c = c4 -> c3 [] OTHER -> NoCall]

\* The commits come to one process, the call that stands alone to another.
Homes == [c \in Call |-> IF c = c5 THEN p2 ELSE p1]
=============================================================================

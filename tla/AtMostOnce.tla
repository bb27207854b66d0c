------------------------------ MODULE AtMostOnce ------------------------------
(***************************************************************************)
(* What the operation store promises to the rest of the server: of all the *)
(* requests for one consequential operation, one at a time owns it, only   *)
(* the owner gets anything to Google, and an owner that may have changed   *)
(* something never gives the operation back.                               *)
(*                                                                         *)
(* The store's records, revisions, leases and settlements are one way to   *)
(* keep this promise: OperationStore implements it.                        *)
(***************************************************************************)
CONSTANTS Request, NoOwner  \* NoOwner is no request

VARIABLES
    owner,  \* the request the operation belongs to, or NoOwner
    tried,  \* requests that may have changed Google state, or still may
    acted   \* requests that have changed it

vars == <<owner, tried, acted>>

Init == owner = NoOwner /\ tried = {} /\ acted = {}

\* The operation is granted to a request while nobody has it.
Grant(r) ==
    /\ owner = NoOwner
    /\ owner' = r
    /\ UNCHANGED <<tried, acted>>

\* It is handed back only by an owner that changed nothing.
HandBack(r) ==
    /\ owner = r
    /\ r \notin tried
    /\ owner' = NoOwner
    /\ UNCHANGED <<tried, acted>>

\* A call to Google is sent.
Try(r) ==
    /\ owner = r
    /\ tried' = tried \cup {r}
    /\ UNCHANGED <<owner, acted>>

\* Google executes it.
Act(r) ==
    /\ r \in tried
    /\ acted' = acted \cup {r}
    /\ UNCHANGED <<owner, tried>>

\* Google refuses it.
Refuse(r) ==
    /\ r \in tried \ acted
    /\ tried' = tried \ {r}
    /\ UNCHANGED <<owner, acted>>

Next == \E r \in Request : Grant(r) \/ HandBack(r) \/ Try(r) \/ Act(r) \/ Refuse(r)

Spec == Init /\ [][Next]_vars
-----------------------------------------------------------------------------
\* Whatever reached Google came from the owner.
OnlyOwnerActs == acted \subseteq tried /\ \A r \in tried : r = owner
=============================================================================

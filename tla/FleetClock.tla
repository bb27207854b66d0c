------------------------------ MODULE FleetClock ------------------------------
(***************************************************************************)
(* Time as the replicas of a fleet and their Redis see it: the TTL of a key *)
(* runs on Redis' clock, while a script is handed the time of the replica   *)
(* that calls it (RedisFleetLimits in common/admission.py).                 *)
(***************************************************************************)
EXTENDS Integers

CONSTANTS
    MaxSkew,  \* how far a replica's clock may be from Redis'
    MaxTime   \* bound: the clock

ASSUME ClockConstants == MaxSkew \in Nat /\ MaxTime \in Nat

VARIABLE now  \* Redis' clock

\* What the clock of a replica may show.
Reading == {t \in 0 .. MaxTime + MaxSkew : t <= now + MaxSkew /\ now <= t + MaxSkew}
=============================================================================

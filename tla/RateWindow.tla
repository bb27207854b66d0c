------------------------------- MODULE RateWindow -------------------------------
(***************************************************************************)
(* The fleet-wide request rate of one principal: the sliding window that   *)
(* all replicas keep in one Redis sorted set (consume_rate and             *)
(* _RATE_SCRIPT in common/admission.py).  One script is one atomic step.   *)
(* It prunes, counts and stamps with the clock of the replica that runs    *)
(* it; the key's own TTL runs on Redis' clock.                             *)
(***************************************************************************)
EXTENDS FleetClock, FiniteSets

CONSTANTS
    Request,    \* requests of the principal, to any replica
    RateLimit,  \* rate_limit_per_minute
    Window      \* _RATE_WINDOW_MS

ASSUME RequestsFinite == IsFiniteSet(Request)
ASSUME RateConstants ==
    /\ RateLimit \in Nat \ {0}
    /\ Window \in Nat \ {0}

VARIABLES
    stamps,    \* the requests in the sorted set
    stamp,     \* the score of each of them
    expiry,    \* when Redis drops the key
    answered,  \* requests that were admitted or refused
    failed,    \* those of them that were refused because Redis gave no answer
    charged    \* history: when each request in the set was charged

rateVars == <<now, stamps, stamp, expiry, answered, failed, charged>>

Never == -1

RateInit ==
    /\ now = 0
    /\ stamps = {}
    /\ stamp = [r \in Request |-> 0]
    /\ expiry = 0
    /\ answered = {}
    /\ failed = {}
    /\ charged = [r \in Request |-> Never]

RateTick ==
    /\ now < MaxTime
    /\ now' = now + 1
    /\ UNCHANGED <<stamps, stamp, expiry, answered, failed, charged>>

\* Mutant of Counted: what is only just out of the window by a second is pruned too early.
CountedShort(t) == {r \in stamps : expiry > now /\ stamp[r] > t - (Window - 1)}

\* What ZREMRANGEBYSCORE leaves of the set, if the key still exists.
Counted(t) == {r \in stamps : expiry > now /\ stamp[r] > t - Window}

Charge(r, t) ==
    /\ Cardinality(Counted(t)) < RateLimit
    /\ stamps' = Counted(t) \cup {r}
    /\ stamp' = [stamp EXCEPT ![r] = t]
    /\ expiry' = now + Window
    /\ charged' = [charged EXCEPT ![r] = now]

\* Mutant of Refuse: a count one below the limit is refused.
RefuseEarly(t) ==
    /\ Cardinality(Counted(t)) >= RateLimit - 1
    /\ stamps' = Counted(t)
    /\ UNCHANGED <<stamp, expiry, charged>>

Refuse(t) ==
    /\ Cardinality(Counted(t)) >= RateLimit
    /\ stamps' = Counted(t)
    /\ UNCHANGED <<stamp, expiry, charged>>

\* A script that fails or is not heard of ends in a refusal; it may have run.
Consume(r) ==
    /\ r \notin answered
    /\ answered' = answered \cup {r}
    /\ failed' \in {failed, failed \cup {r}}
    /\ \/ \E t \in Reading : Charge(r, t) \/ Refuse(t)
       \/ r \in failed' /\ UNCHANGED <<stamps, stamp, expiry, charged>>
    /\ UNCHANGED now

RateNext == RateTick \/ \E r \in Request : Consume(r)

RateSpec == RateInit /\ [][RateNext]_rateVars
-----------------------------------------------------------------------------
RateTypeOK ==
    /\ now \in Nat
    /\ stamps \subseteq Request
    /\ stamp \in [Request -> Nat]
    /\ expiry \in Nat
    /\ answered \subseteq Request
    /\ failed \subseteq answered
    /\ charged \in [Request -> Nat \cup {Never}]

\* The requests charged in the window of that length that ends at a moment.
Within(length, at) == {r \in Request : charged[r] # Never /\ charged[r] <= at /\ charged[r] > at - length}

\* "Sliding one-minute request rate": no window ending with a charged request
\* holds more than RateLimit of them, on whichever replicas they came in, and
\* only charged requests are admitted.  A difference between the replicas'
\* clocks shortens the window by as much twice.
RateHolds ==
    \A r \in Request : charged[r] # Never =>
        Cardinality(Within(Window - 2 * MaxSkew, charged[r])) <= RateLimit

\* Nobody is refused for a rate that was not used up: such a refusal means that
\* RateLimit requests were charged in the last window, as far as the clocks agree
\* on it.  One whose answer was lost counts, although it was not admitted.
RefusedOnlyWhenFull ==
    [][\A r \in (answered' \ answered) \ failed' : charged'[r] = Never =>
          Cardinality(Within(Window + 2 * MaxSkew, now)) >= RateLimit]_rateVars

(***************************************************************************)
(* Why: the sorted set still has every request that any clock can see in   *)
(* its window, and nothing that was not charged.                           *)
(***************************************************************************)
WindowIsKept ==
    \A r \in Request : charged[r] # Never =>
        /\ charged[r] <= now
        /\ charged[r] + Window <= expiry
        /\ charged[r] > now - (Window - 2 * MaxSkew) => r \in stamps
        /\ r \in stamps => charged[r] <= stamp[r] + MaxSkew

StampsAreCharged ==
    \A r \in stamps : charged[r] # Never /\ stamp[r] <= charged[r] + MaxSkew

\* The invariant the proofs rest on.
WindowInv == RateTypeOK /\ WindowIsKept /\ StampsAreCharged /\ RateHolds
=============================================================================

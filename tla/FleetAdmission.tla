---------------------------- MODULE FleetAdmission ----------------------------
(***************************************************************************)
(* Admission of the calls of one principal on every replica of the fleet   *)
(* (common/admission.py, the tool-call middleware of common/production.py  *)
(* and the task scope of common/execution.py).                             *)
(*                                                                         *)
(* An execution takes a slot of its process, then a lease of its principal *)
(* in Redis, then, if it is expensive, a second process slot, and runs     *)
(* under a deadline.  A commit re-enters the whole chain for the tool it   *)
(* runs: that nested call queues while its commit holds slots of its own.  *)
(*                                                                         *)
(* Every Redis script is one atomic step; it works with the clock of the   *)
(* replica that calls it, while the TTL of its key runs on Redis' clock.   *)
(***************************************************************************)
EXTENDS FleetClock, Sequences, FiniteSets

CONSTANTS
    Call,            \* calls of the principal, nested ones included
    NoCall,          \* is no call
    Replica,         \* processes
    Home,            \* the process of a call
    Outer,           \* the commit a call is nested in, or NoCall
    Expensive,       \* calls with tool_cost "expensive"
    GlobalLimit, ExpensiveLimit, PrincipalLimit,
    StandardDeadline, ExpensiveDeadline,
    Grace,           \* _LEASE_GRACE_SECONDS
    QueueTime,       \* principal_queue_seconds
    Slack,           \* how late a deadline may cancel its call
    LastArrival      \* bound: when the last call comes in

ASSUME CallsWellFormed ==
    /\ IsFiniteSet(Call) /\ NoCall \notin Call
    /\ Home \in [Call -> Replica]
    /\ Outer \in [Call -> Call \cup {NoCall}]
    /\ \A c \in Call : Outer[c] # NoCall => Home[Outer[c]] = Home[c] /\ Outer[c] # c
    /\ Expensive \subseteq Call

ASSUME LimitsPositive ==
    /\ {GlobalLimit, ExpensiveLimit, PrincipalLimit} \subseteq Nat \ {0}
    /\ {StandardDeadline, ExpensiveDeadline} \subseteq Nat \ {0}
    /\ {Grace, QueueTime, Slack, LastArrival} \subseteq Nat

VARIABLES
    pc,        \* where each call is
    line,      \* calls waiting for global_limit, per process, first come first served
    costly,    \* calls waiting for expensive_limit, per process
    timer,     \* when a call stops polling for a lease, then when its deadline cancels it
    lease,     \* the lease set: expiry per call, 0 for none
    leaseKey,  \* when Redis drops the key of the lease set
    uncovered  \* history: calls that may outstay their lease, see CutShort and WaitTooLong

vars == <<now, pc, line, costly, timer, lease, leaseKey, uncovered>>
leaseVars == <<lease, leaseKey, uncovered>>

PC == {"idle", "global", "principal", "expensive", "run", "leave", "done", "crashed"}
Queued == {"global", "principal", "expensive"}
Over == {"done", "crashed"}

DeadlineFor(c) == IF c \in Expensive THEN ExpensiveDeadline ELSE StandardDeadline

Init ==
    /\ now = 0
    /\ pc = [c \in Call |-> "idle"]
    /\ line = [p \in Replica |-> <<>>]
    /\ costly = [p \in Replica |-> <<>>]
    /\ timer = [c \in Call |-> 0]
    /\ lease = [c \in Call |-> 0]
    /\ leaseKey = 0
    /\ uncovered = {}

\* The calls nested in c.
Nested(c) == {d \in Call : Outer[d] = c}

\* The holders of the two process semaphores.
InProcess(p) == {c \in Call : Home[c] = p /\ pc[c] \in {"principal", "expensive", "run", "leave"}}
ExpensiveIn(p) == {c \in Expensive : Home[c] = p /\ pc[c] = "run"}

\* The calls that execute or queue with a lease in hand.
Busy == {c \in Call : pc[c] \in {"expensive", "run"}}

Without(queue, c) == SelectSeq(queue, LAMBDA d : d # c)

(***************************************************************************)
(* Time passes.  A deadline cancels its call within Slack; a call that     *)
(* still has a nested one in hand ends after it.                           *)
(***************************************************************************)

\* A commit that is no expensive call itself: its deadline ends the nested call.
Sheltered(c) == Outer[c] # NoCall /\ Outer[c] \notin Expensive

\* The lease of c, and the key of the lease set, last beyond a time by every clock.
Covered(c, until) == lease[c] > until + Slack + MaxSkew /\ leaseKey > until + Slack

\* The wait for an expensive slot has no bound of its own: calls that at time t
\* wait with a lease that would not cover their whole deadline any more.
WaitTooLong(t) ==
    {c \in Expensive : pc[c] = "expensive" /\ ~Sheltered(c) /\ ~Covered(c, t + ExpensiveDeadline)}

Tick ==
    /\ now < MaxTime
    /\ \A c \in Call : pc[c] = "run" => now < timer[c] + Slack
    /\ now' = now + 1
    /\ uncovered' = uncovered \cup WaitTooLong(now + 1)
    /\ UNCHANGED <<pc, line, costly, timer, lease, leaseKey>>

(***************************************************************************)
(* execution_slot.  The call was admitted (its request was charged, see    *)
(* RateWindow) and joins the line for a slot of its process.               *)
(***************************************************************************)
Arrive(c) ==
    /\ pc[c] = "idle"
    /\ now <= LastArrival
    /\ Outer[c] # NoCall => pc[Outer[c]] = "run"
    /\ pc' = [pc EXCEPT ![c] = "global"]
    /\ line' = [line EXCEPT ![Home[c]] = Append(@, c)]
    /\ UNCHANGED <<now, costly, timer, leaseVars>>

\* Where the call goes, and until when it may stay there.
Moves(c, to, t) ==
    /\ pc' = [pc EXCEPT ![c] = to]
    /\ timer' = [timer EXCEPT ![c] = t]

TakeGlobal(c) ==
    /\ pc[c] = "global"
    /\ Head(line[Home[c]]) = c
    /\ Cardinality(InProcess(Home[c])) < GlobalLimit
    /\ line' = [line EXCEPT ![Home[c]] = Tail(@)]
    /\ Moves(c, "principal", now + QueueTime)
    /\ UNCHANGED <<now, costly, leaseVars>>

(***************************************************************************)
(* _LEASE_SCRIPT: prune the leases that lapsed by the caller's clock; if   *)
(* fewer than the limit are left, add one and reset the TTL of the key.    *)
(***************************************************************************)
Leased(t) == {d \in Call : leaseKey > now /\ lease[d] > t}

Pruned(t) == [d \in Call |-> IF d \in Leased(t) THEN lease[d] ELSE 0]

LeaseFree(t) == Cardinality(Leased(t)) < PrincipalLimit

\* Mutant of LeaseTTL: the lease covers the deadline without the grace.
LeaseTTLNoGrace(c) == DeadlineFor(c)

LeaseTTL(c) == DeadlineFor(c) + Grace

\* The TTL of the key is that of the newest lease, however long an older one has
\* to last: calls whose lease goes with the key before its time.
CutShort(key) == {d \in Busy : lease[d] > key + MaxSkew}

TakeLease(c, t) ==
    /\ lease' = [Pruned(t) EXCEPT ![c] = t + LeaseTTL(c)]
    /\ leaseKey' = now + LeaseTTL(c)
    /\ uncovered' = uncovered \cup CutShort(now + LeaseTTL(c))

\* A standard call runs as soon as it has its lease; an expensive one queues
\* again, with the lease in hand.
Lease(c) ==
    /\ pc[c] = "principal"
    /\ \E t \in Reading : LeaseFree(t) /\ TakeLease(c, t)
    /\ \/ /\ c \in Expensive
          /\ Moves(c, "expensive", 0)
          /\ costly' = [costly EXCEPT ![Home[c]] = Append(@, c)]
       \/ /\ c \notin Expensive
          /\ Moves(c, "run", now + DeadlineFor(c))
          /\ UNCHANGED costly
    /\ UNCHANGED <<now, line>>

\* No lease is free: poll again, or give up once the queue time is over (at the
\* bound of the clock, where it could not pass any more, at once).
PollLease(c) ==
    /\ pc[c] = "principal"
    /\ \E t \in Reading : ~LeaseFree(t) /\ lease' = Pruned(t)
    /\ IF now >= timer[c] \/ now = MaxTime THEN Moves(c, "done", 0) ELSE UNCHANGED <<pc, timer>>
    /\ UNCHANGED <<now, line, costly, leaseKey, uncovered>>

\* Redis does not answer: the call is refused.  So it is when it is cancelled
\* while it polls.  The script may have run: then nobody removes its lease.
LoseLease(c) ==
    /\ pc[c] = "principal"
    /\ \/ \E t \in Reading : LeaseFree(t) /\ TakeLease(c, t)
       \/ UNCHANGED leaseVars
    /\ Moves(c, "done", 0)
    /\ UNCHANGED <<now, line, costly>>

TakeExpensive(c) ==
    /\ pc[c] = "expensive"
    /\ Head(costly[Home[c]]) = c
    /\ Cardinality(ExpensiveIn(Home[c])) < ExpensiveLimit
    /\ costly' = [costly EXCEPT ![Home[c]] = Tail(@)]
    /\ Moves(c, "run", now + DeadlineFor(c))
    /\ UNCHANGED <<now, line, leaseVars>>

(***************************************************************************)
(* The end of a call: it returned, failed, or was cancelled, and so was    *)
(* whatever it had nested.                                                 *)
(***************************************************************************)
End(c) ==
    /\ pc[c] = "run"
    /\ \A d \in Nested(c) : pc[d] \in Over \cup {"idle"}
    /\ Moves(c, "leave", 0)
    /\ UNCHANGED <<now, line, costly, leaseVars>>

\* Mutant of Cancel: the deadline of a commit does not reach into its nested call.
CancelOutermost(c) ==
    /\ pc[c] \in {"global", "expensive"}
    /\ Outer[c] = NoCall
    /\ pc' = [pc EXCEPT ![c] = IF @ = "expensive" THEN "leave" ELSE "done"]
    /\ line' = [line EXCEPT ![Home[c]] = Without(@, c)]
    /\ costly' = [costly EXCEPT ![Home[c]] = Without(@, c)]
    /\ UNCHANGED <<now, timer, leaseVars>>

\* A queueing call is cancelled: its caller went away, or its commit's deadline
\* passed.
Cancel(c) ==
    /\ pc[c] \in {"global", "expensive"}
    /\ pc' = [pc EXCEPT ![c] = IF @ = "expensive" THEN "leave" ELSE "done"]
    /\ line' = [line EXCEPT ![Home[c]] = Without(@, c)]
    /\ costly' = [costly EXCEPT ![Home[c]] = Without(@, c)]
    /\ UNCHANGED <<now, timer, leaseVars>>

\* release_lease, shielded; a failure is logged and the lease left to expire.
Leave(c) ==
    /\ pc[c] = "leave"
    /\ \/ lease' = [lease EXCEPT ![c] = 0]
       \/ UNCHANGED lease
    /\ pc' = [pc EXCEPT ![c] = "done"]
    /\ UNCHANGED <<now, line, costly, timer, leaseKey, uncovered>>

\* A replica dies; its leases stay.
Crash(p) ==
    LET lost == {c \in Call : Home[c] = p /\ pc[c] \notin Over \cup {"idle"}}
    IN  /\ lost # {}
        /\ pc' = [c \in Call |-> IF c \in lost THEN "crashed" ELSE pc[c]]
        /\ timer' = [c \in Call |-> IF c \in lost THEN 0 ELSE timer[c]]
        /\ line' = [line EXCEPT ![p] = <<>>]
        /\ costly' = [costly EXCEPT ![p] = <<>>]
        /\ UNCHANGED <<now, leaseVars>>

Step(c) ==
    \/ Arrive(c) \/ TakeGlobal(c) \/ Lease(c) \/ PollLease(c) \/ LoseLease(c)
    \/ TakeExpensive(c) \/ End(c) \/ Cancel(c) \/ Leave(c)

Next == Tick \/ (\E c \in Call : Step(c)) \/ (\E p \in Replica : Crash(p))

Spec == Init /\ [][Next]_vars
-----------------------------------------------------------------------------

\* Calls of the principal whose tool is executing.
Executing == {c \in Call : pc[c] = "run"}

\* The documented policy: "it must hold no matter which replica serves a
\* request".  However the replicas' clocks differ, whatever crashes, and
\* whatever leases leak, the principal never has more executions in flight in
\* the whole fleet than PrincipalLimit, but for those that outstay their lease
\* in the two ways the code leaves open: a shorter lease took the set's TTL
\* down, or the wait for an expensive slot used the lease up.
FleetLimitHolds == Cardinality(Executing \ uncovered) <= PrincipalLimit

(***************************************************************************)
(* Liveness.  Time goes on, Redis answers or fails, a freed slot is given  *)
(* to the head of its line, every body ends (its deadline cancels it), and *)
(* the deadline of a commit cancels the call it is waiting for.            *)
(***************************************************************************)
Overdue(c) == Outer[c] # NoCall /\ pc[Outer[c]] = "run" /\ now >= timer[Outer[c]]

\* What a call does next, wherever it is, if nothing stands in its way.
Onwards(c) ==
    TakeGlobal(c) \/ Lease(c) \/ PollLease(c) \/ TakeExpensive(c) \/ End(c) \/ Leave(c)

Fairness ==
    /\ WF_vars(Tick)
    /\ \A c \in Call : WF_vars(Onwards(c)) /\ WF_vars(Overdue(c) /\ (Cancel(c) \/ LoseLease(c)))

FairSpec == Spec /\ Fairness

\* Again and again no call is under way; as no call comes twice, every call ends,
\* also when commits hold all the slots their nested calls queue for: they wait
\* for each other until a deadline breaks the circle.
EveryCallEnds == []<>(\A c \in Call : pc[c] \in Over \cup {"idle"})

(***************************************************************************)
(* Why the limit is kept: while a call executes, or waits for an expensive *)
(* slot with its lease in hand, every clock sees its lease, unless it is   *)
(* one of the uncovered.  That takes leases that outlast the executions of *)
(* their own calls, the late cancellation and the difference of the clocks *)
(* included, which is what the grace is for.                               *)
(***************************************************************************)

\* How long a call may still execute once it holds its lease and needs no slot.
Allowed(c) == IF c \in Expensive /\ ~Sheltered(c) THEN ExpensiveDeadline ELSE StandardDeadline

LeasesOutlast == \A c \in Call : Allowed(c) + Slack + 2 * MaxSkew < LeaseTTL(c)

\* When a call that holds its lease has to be over.
Until(c) == IF c \in Expensive /\ Sheltered(c) THEN timer[Outer[c]] ELSE timer[c]

\* The calls that count against the limit.
Holding == Busy \ uncovered

FleetTypeOK ==
    /\ now \in Nat /\ leaseKey \in Nat
    /\ pc \in [Call -> PC]
    /\ timer \in [Call -> Nat]
    /\ lease \in [Call -> Nat]

WaitersAreExpensive == \A c \in Call : pc[c] = "expensive" => c \in Expensive

CommitsOutlast ==
    \A c \in Call : Outer[c] # NoCall /\ pc[c] \notin Over \cup {"idle"} => pc[Outer[c]] = "run"

\* Whoever has a deadline, of its own or of its commit, is in time for it.
InTime(c) == now <= Until(c) + Slack /\ Until(c) <= now + Allowed(c)

BusyAreInTime == \A c \in Busy : pc[c] = "run" \/ Sheltered(c) => InTime(c)

\* A lease lasts until the deadline of its holder, or, while that waits for a
\* slot, for the deadline it would get now; and the key lasts with the lease.
LastsLongEnough(c) ==
    Covered(c, IF pc[c] = "run" \/ Sheltered(c) THEN Until(c) ELSE now + ExpensiveDeadline)

HoldersAreCovered == \A c \in Holding : LastsLongEnough(c)

HoldersFit == Cardinality(Holding) <= PrincipalLimit

\* The invariant the proof rests on.
LeaseInv ==
    /\ FleetTypeOK /\ WaitersAreExpensive /\ CommitsOutlast
    /\ BusyAreInTime /\ HoldersAreCovered /\ HoldersFit
=============================================================================

-------------------------- MODULE FleetAdmission_proofs --------------------------
(***************************************************************************)
(* The request rate and the concurrency of a principal hold over the whole *)
(* fleet, for every limit, duration and clock difference.                  *)
(***************************************************************************)
EXTENDS RateWindow, FleetAdmission, FiniteSetTheorems, TLAPS

USE ClockConstants, RateConstants DEF Never

\* A replica's clock shows a natural number, at most MaxSkew away from Redis'.
LEMMA ReadingNear ==
    ASSUME NEW t \in Reading, now \in Nat
    PROVE  t \in Nat /\ t <= now + MaxSkew /\ now <= t + MaxSkew
BY DEF Reading

\* Sets of requests have natural cardinalities, and subsets smaller ones.
LEMMA Smaller ==
    ASSUME NEW A, NEW B, A \subseteq B, B \subseteq Request
    PROVE  /\ Cardinality(A) \in Nat
           /\ Cardinality(B) \in Nat
           /\ Cardinality(A) <= Cardinality(B)
<1>1. IsFiniteSet(B)
  BY RequestsFinite, FS_Subset
<1>2. IsFiniteSet(A)
  BY <1>1, FS_Subset
<1> QED
  BY <1>1, <1>2, FS_Subset, FS_CardinalityType

LEMMA OneMore ==
    ASSUME NEW S, NEW e, IsFiniteSet(S)
    PROVE  Cardinality(S \cup {e}) <= Cardinality(S) + 1
<1>1. /\ Cardinality(S) \in Nat
      /\ Cardinality(S \cup {e}) = IF e \in S THEN Cardinality(S) ELSE Cardinality(S) + 1
  BY FS_AddElement, FS_CardinalityType
<1> QED
  BY <1>1

\* What is recent enough for every clock is counted by every clock.
LEMMA RecentIsCounted ==
    ASSUME WindowInv, NEW t \in Reading, NEW r \in Request,
           charged[r] # Never, charged[r] > now - (Window - 2 * MaxSkew)
    PROVE  r \in Counted(t)
<1>1. /\ now \in Nat /\ stamp[r] \in Nat /\ expiry \in Nat
      /\ charged[r] \in Nat
  BY DEF WindowInv, RateTypeOK
<1>2. r \in stamps /\ charged[r] <= stamp[r] + MaxSkew /\ charged[r] + Window <= expiry
  BY DEF WindowInv, WindowIsKept
<1>3. t \in Nat /\ t <= now + MaxSkew
  BY <1>1, ReadingNear
<1>4. stamp[r] > t - Window /\ expiry > now
  BY <1>1, <1>2, <1>3
<1> QED
  BY <1>2, <1>4 DEF Counted

\* What some clock counts was charged in the window as any clock sees it.
LEMMA CountedIsCharged ==
    ASSUME WindowInv, NEW t \in Reading
    PROVE  Counted(t) \subseteq Within(Window + 2 * MaxSkew, now)
<1> SUFFICES ASSUME NEW r \in Counted(t)
             PROVE  r \in Within(Window + 2 * MaxSkew, now)
  OBVIOUS
<1>1. r \in stamps /\ stamp[r] > t - Window
  BY DEF Counted
<1>2. r \in Request /\ now \in Nat /\ stamp[r] \in Nat /\ charged[r] \in Nat \cup {Never}
  BY <1>1 DEF WindowInv, RateTypeOK
<1>3. charged[r] # Never /\ stamp[r] <= charged[r] + MaxSkew
  BY <1>1 DEF WindowInv, StampsAreCharged
<1>4. charged[r] <= now
  BY <1>2, <1>3 DEF WindowInv, WindowIsKept
<1>5. t \in Nat /\ now <= t + MaxSkew
  BY <1>2, ReadingNear
<1>6. charged[r] > now - (Window + 2 * MaxSkew)
  BY <1>1, <1>2, <1>3, <1>5
<1> QED
  BY <1>2, <1>3, <1>4, <1>6 DEF Within

LEMMA InitWindow == RateInit => WindowInv
BY DEF RateInit, WindowInv, RateTypeOK, WindowIsKept, StampsAreCharged, RateHolds

LEMMA TickWindow ==
    ASSUME WindowInv, RateTick
    PROVE  WindowInv'
<1>1. RateTypeOK'
  BY DEF RateTick, WindowInv, RateTypeOK
<1>2. WindowIsKept'
  BY DEF RateTick, WindowInv, RateTypeOK, WindowIsKept
<1>3. StampsAreCharged'
  BY DEF RateTick, WindowInv, StampsAreCharged
<1>4. RateHolds'
  BY DEF RateTick, WindowInv, RateHolds, Within
<1> QED
  BY <1>1, <1>2, <1>3, <1>4 DEF WindowInv

LEMMA ChargeWindow ==
    ASSUME WindowInv, NEW r \in Request, NEW t \in Reading,
           Charge(r, t), now' = now, answered' = answered \cup {r},
           failed' \in {failed, failed \cup {r}}
    PROVE  WindowInv'
<1>1. /\ now \in Nat /\ expiry \in Nat
      /\ stamps \subseteq Request
      /\ stamp \in [Request -> Nat]
      /\ charged \in [Request -> Nat \cup {Never}]
  BY DEF WindowInv, RateTypeOK
<1>2. t \in Nat /\ t <= now + MaxSkew /\ now <= t + MaxSkew
  BY <1>1, ReadingNear
<1>3. RateTypeOK'
  BY <1>1, <1>2 DEF Charge, Counted, WindowInv, RateTypeOK
<1>4. \A d \in Request : d # r => charged'[d] = charged[d] /\ stamp'[d] = stamp[d]
  BY <1>1 DEF Charge
<1>5. charged'[r] = now /\ stamp'[r] = t /\ r \in stamps'
  BY <1>1 DEF Charge
<1>6. WindowIsKept'
  <2> SUFFICES ASSUME NEW d \in Request, charged'[d] # Never
               PROVE  /\ charged'[d] <= now
                      /\ charged'[d] + Window <= expiry'
                      /\ charged'[d] > now - (Window - 2 * MaxSkew) => d \in stamps'
                      /\ d \in stamps' => charged'[d] <= stamp'[d] + MaxSkew
    BY DEF WindowIsKept
  <2>1. CASE d = r
    BY <2>1, <1>1, <1>2, <1>5 DEF Charge
  <2>2. CASE d # r
    <3>1. charged[d] \in Nat /\ charged[d] # Never
      BY <1>1, <1>4, <2>2
    <3>2. charged[d] <= now
      BY <3>1 DEF WindowInv, WindowIsKept
    <3>3. charged[d] + Window <= expiry'
      BY <1>1, <3>1, <3>2 DEF Charge
    <3>4. charged[d] > now - (Window - 2 * MaxSkew) => d \in stamps'
      BY <3>1, RecentIsCounted DEF Charge
    <3>5. d \in stamps' => charged[d] <= stamp[d] + MaxSkew
      BY <2>2, <3>1 DEF Charge, Counted, WindowInv, WindowIsKept
    <3> QED
      BY <1>4, <2>2, <3>2, <3>3, <3>4, <3>5
  <2> QED
    BY <2>1, <2>2
<1>7. StampsAreCharged'
  BY <1>1, <1>2, <1>4, <1>5 DEF Charge, Counted, WindowInv, StampsAreCharged
<1>8. RateHolds'
  <2> DEFINE W == Window - 2 * MaxSkew
  <2> SUFFICES ASSUME NEW x \in Request, charged'[x] # Never
               PROVE  Cardinality(Within(W, charged[x])') <= RateLimit
    BY DEF RateHolds
  <2>1. CASE charged'[x] = now
    <3>1. Within(W, charged[x])' \subseteq Counted(t) \cup {r}
      <4> SUFFICES ASSUME NEW d \in Within(W, charged[x])', d # r
                   PROVE  d \in Counted(t)
        OBVIOUS
      <4>1. d \in Request /\ charged'[d] # Never /\ charged'[d] > now - W
        BY <2>1 DEF Within
      <4> QED
        BY <4>1, <1>4, RecentIsCounted
    <3>2. IsFiniteSet(Counted(t))
      BY <1>1, RequestsFinite, FS_Subset DEF Counted
    <3>3. Cardinality(Counted(t) \cup {r}) <= Cardinality(Counted(t)) + 1
      BY <3>2, OneMore
    <3>4. Counted(t) \cup {r} \subseteq Request
      BY <1>1 DEF Counted
    <3>5. Cardinality(Counted(t)) \in Nat /\ Cardinality(Counted(t)) < RateLimit
      BY <3>2, FS_CardinalityType DEF Charge
    <3> QED
      BY <3>1, <3>3, <3>4, <3>5, Smaller
  <2>2. CASE charged'[x] # now
    <3>1. x # r /\ charged'[x] = charged[x] /\ charged[x] # Never /\ charged[x] \in Nat
      BY <2>2, <1>1, <1>4, <1>5
    <3>2. charged[x] < now
      BY <1>1, <2>2, <3>1 DEF WindowInv, WindowIsKept
    <3>3. Within(W, charged[x])' \subseteq Within(W, charged[x])
      BY <1>1, <1>4, <1>5, <3>1, <3>2 DEF Within
    <3>4. Cardinality(Within(W, charged[x])) <= RateLimit
      BY <3>1 DEF WindowInv, RateHolds
    <3>5. Within(W, charged[x]) \subseteq Request
      BY DEF Within
    <3> QED
      BY <3>3, <3>4, <3>5, Smaller
  <2> QED
    BY <2>1, <2>2
<1> QED
  BY <1>3, <1>6, <1>7, <1>8 DEF WindowInv

LEMMA RefuseWindow ==
    ASSUME WindowInv, NEW r \in Request, NEW t \in Reading,
           Refuse(t), now' = now, answered' = answered \cup {r},
           failed' \in {failed, failed \cup {r}}
    PROVE  WindowInv'
<1>1. RateTypeOK'
  BY DEF Refuse, Counted, WindowInv, RateTypeOK
<1>2. WindowIsKept'
  BY RecentIsCounted DEF Refuse, Counted, WindowInv, WindowIsKept
<1>3. StampsAreCharged'
  BY DEF Refuse, Counted, WindowInv, StampsAreCharged
<1>4. RateHolds'
  BY DEF Refuse, WindowInv, RateHolds, Within
<1> QED
  BY <1>1, <1>2, <1>3, <1>4 DEF WindowInv

LEMMA FailWindow ==
    ASSUME WindowInv, NEW r \in Request,
           UNCHANGED <<now, stamps, stamp, expiry, charged>>, answered' = answered \cup {r},
           failed' \in {failed, failed \cup {r}}
    PROVE  WindowInv'
BY DEF WindowInv, RateTypeOK, WindowIsKept, StampsAreCharged, RateHolds, Within

LEMMA StepWindow == WindowInv /\ [RateNext]_rateVars => WindowInv'
<1> SUFFICES ASSUME WindowInv, [RateNext]_rateVars
             PROVE  WindowInv'
  OBVIOUS
<1>1. CASE RateTick
  BY <1>1, TickWindow
<1>2. ASSUME NEW r \in Request, Consume(r)
      PROVE  WindowInv'
  <2>1. answered' = answered \cup {r} /\ failed' \in {failed, failed \cup {r}} /\ now' = now
    BY <1>2 DEF Consume
  <2>2. CASE \E t \in Reading : Charge(r, t) \/ Refuse(t)
    BY <2>1, <2>2, ChargeWindow, RefuseWindow
  <2>3. CASE UNCHANGED <<stamps, stamp, expiry, charged>>
    BY <2>1, <2>3, FailWindow
  <2> QED
    BY <1>2, <2>2, <2>3 DEF Consume
<1>3. CASE UNCHANGED rateVars
  BY <1>3 DEF rateVars, WindowInv, RateTypeOK, WindowIsKept, StampsAreCharged, RateHolds, Within
<1> QED
  BY <1>1, <1>2, <1>3 DEF RateNext

\* The sliding window admits at most RateLimit requests per Window, less twice
\* the clock difference, whichever replicas they come to.
THEOREM RateIsLimited == RateSpec => []RateHolds
<1>1. WindowInv => RateHolds
  BY DEF WindowInv
<1> QED
  BY InitWindow, StepWindow, <1>1, PTL DEF RateSpec

\* A refusal that Redis itself answered means that the principal used its rate up.
THEOREM RefusalsAreDue == RateSpec => RefusedOnlyWhenFull
<1>1. WindowInv /\ [RateNext]_rateVars =>
        [\A r \in (answered' \ answered) \ failed' : charged'[r] = Never =>
            Cardinality(Within(Window + 2 * MaxSkew, now)) >= RateLimit]_rateVars
  <2> SUFFICES ASSUME WindowInv, NEW r \in Request, Consume(r), r \notin failed', charged'[r] = Never
               PROVE  Cardinality(Within(Window + 2 * MaxSkew, now)) >= RateLimit
    BY DEF RateNext, RateTick, Consume
  <2>1. PICK t \in Reading : Charge(r, t) \/ Refuse(t)
    BY DEF Consume
  <2>2. now \in Nat /\ charged \in [Request -> Nat \cup {Never}]
    BY DEF WindowInv, RateTypeOK
  <2>3. Refuse(t)
    BY <2>1, <2>2 DEF Charge
  <2>4. Within(Window + 2 * MaxSkew, now) \subseteq Request
    BY DEF Within
  <2> QED
    BY <2>3, <2>4, CountedIsCharged, Smaller DEF Refuse
<1> QED
  BY InitWindow, StepWindow, <1>1, PTL DEF RateSpec, RefusedOnlyWhenFull
-----------------------------------------------------------------------------
\* What the assumptions on the constants say of one call.
LEMMA CallConstants ==
    ASSUME NEW c \in Call
    PROVE  /\ StandardDeadline \in Nat /\ ExpensiveDeadline \in Nat
           /\ Grace \in Nat /\ QueueTime \in Nat /\ Slack \in Nat
           /\ PrincipalLimit \in Nat
           /\ DeadlineFor(c) \in Nat /\ LeaseTTL(c) \in Nat /\ Allowed(c) \in Nat
           /\ NoCall \notin Call /\ Outer[c] \in Call \cup {NoCall} /\ Outer[c] # c
BY CallsWellFormed, LimitsPositive DEF DeadlineFor, LeaseTTL, Allowed

LEMMA HoldersAreFinite == IsFiniteSet(Holding) /\ Cardinality(Holding) \in Nat
<1>1. IsFiniteSet(Call) /\ Holding \subseteq Call
  BY CallsWellFormed DEF Holding, Busy
<1> QED
  BY <1>1, FS_Subset, FS_CardinalityType

\* A call whose time is bounded by its commit has one, which executes.
LEMMA ShelterRuns ==
    ASSUME LeaseInv, NEW c \in Busy, Sheltered(c)
    PROVE  Outer[c] \in Call /\ Outer[c] # c /\ pc[Outer[c]] = "run"
<1>1. c \in Call /\ pc[c] \notin Over \cup {"idle"}
  BY DEF Busy, Over
<1>2. Outer[c] \in Call /\ Outer[c] # c
  BY <1>1, CallConstants DEF Sheltered
<1> QED
  BY <1>1, <1>2 DEF Sheltered, LeaseInv, CommitsOutlast

\* The limit holds for fewer holders if it held for more.
LEMMA FewerFit ==
    ASSUME LeaseInv, Holding' \subseteq Holding
    PROVE  HoldersFit'
<1>1. Cardinality(Holding') <= Cardinality(Holding) /\ Cardinality(Holding') \in Nat
  BY HoldersAreFinite, FS_Subset, FS_CardinalityType
<1>2. PrincipalLimit \in Nat
  BY LimitsPositive
<1> QED
  BY <1>1, <1>2, HoldersAreFinite DEF LeaseInv, HoldersFit

\* Every clock sees the lease of every holder.
LEMMA HoldersAreLeased ==
    ASSUME LeaseInv, NEW t \in Reading
    PROVE  Holding \subseteq Leased(t)
<1> SUFFICES ASSUME NEW c \in Holding
             PROVE  c \in Leased(t)
  OBVIOUS
<1>1. c \in Call /\ c \in Busy /\ pc[c] \in {"expensive", "run"}
  BY DEF Holding, Busy
<1>2. now \in Nat /\ leaseKey \in Nat /\ lease[c] \in Nat /\ timer \in [Call -> Nat]
  BY <1>1 DEF LeaseInv, FleetTypeOK
<1>3. t \in Nat /\ t <= now + MaxSkew
  BY <1>2, ReadingNear
<1>4. Slack \in Nat /\ ExpensiveDeadline \in Nat
  BY <1>1, CallConstants
<1>5. LastsLongEnough(c)
  BY DEF LeaseInv, HoldersAreCovered
<1>6. PICK until \in Nat : now <= until + Slack /\ Covered(c, until)
  <2>1. CASE pc[c] = "run" \/ Sheltered(c)
    <3>1. InTime(c) /\ Covered(c, Until(c))
      BY <1>1, <1>5, <2>1 DEF LeaseInv, BusyAreInTime, LastsLongEnough
    <3>2. Until(c) \in Nat
      BY <1>1, <1>2, ShelterRuns DEF Until
    <3> QED
      BY <3>1, <3>2 DEF InTime
  <2>2. CASE pc[c] # "run" /\ ~Sheltered(c)
    <3>1. Covered(c, now + ExpensiveDeadline)
      BY <1>5, <2>2 DEF LastsLongEnough
    <3> QED
      BY <1>2, <1>4, <3>1
  <2> QED
    BY <2>1, <2>2
<1>7. leaseKey > now /\ lease[c] > t
  BY <1>2, <1>3, <1>4, <1>6 DEF Covered
<1> QED
  BY <1>1, <1>7 DEF Leased

\* Pruning, by whichever clock, leaves the leases of the holders alone.
LEMMA PruningSpares ==
    ASSUME LeaseInv, NEW t \in Reading
    PROVE  /\ Pruned(t) \in [Call -> Nat]
           /\ \A c \in Holding : Pruned(t)[c] = lease[c]
<1>1. Pruned(t) \in [Call -> Nat]
  BY DEF Pruned, LeaseInv, FleetTypeOK
<1>2. Holding \subseteq Call
  BY DEF Holding, Busy
<1> QED
  BY <1>1, <1>2, HoldersAreLeased DEF Pruned

\* A lease covers what it covered, if it stays and the key, wherever it is set to,
\* lasts as long as the lease.
LEMMA StaysCovered ==
    ASSUME NEW d \in Call, NEW u \in Nat, Covered(d, u),
           leaseKey \in Nat, leaseKey' \in Nat, lease[d] \in Nat, lease'[d] = lease[d],
           leaseKey' = leaseKey \/ lease[d] <= leaseKey' + MaxSkew
    PROVE  lease'[d] > u + Slack + MaxSkew /\ leaseKey' > u + Slack
<1>1. Slack \in Nat
  BY CallConstants
<1> QED
  BY <1>1 DEF Covered

\* The deadline of a busy call is not touched by a step of a call that is neither
\* it nor the commit it is nested in.
LEMMA DeadlineStays ==
    ASSUME LeaseInv, NEW d \in Busy, NEW c \in Call, NEW to, NEW x \in Nat, Moves(c, to, x),
           d # c, Outer[d] # c
    PROVE  /\ pc'[d] = pc[d]
           /\ Until(d) \in Nat
           /\ Until(d)' = Until(d)
<1>1. d \in Call /\ pc \in [Call -> PC] /\ timer \in [Call -> Nat]
  BY DEF Busy, LeaseInv, FleetTypeOK
<1>2. pc'[d] = pc[d] /\ timer'[d] = timer[d]
  BY <1>1 DEF Moves
<1>3. Sheltered(d) => Outer[d] \in Call /\ timer'[Outer[d]] = timer[Outer[d]]
  BY <1>1, ShelterRuns DEF Moves
<1>4. Until(d) \in Nat
  BY <1>1, <1>3 DEF Until
<1> QED
  BY <1>2, <1>3, <1>4 DEF Until, Sheltered

\* A busy call that a step leaves alone stays in time.
LEMMA BusyStays ==
    ASSUME LeaseInv, NEW d \in Busy, NEW c \in Call, NEW to, NEW x \in Nat,
           Moves(c, to, x), d # c, Outer[d] # c,
           pc'[d] = "run" \/ Sheltered(d), now' = now
    PROVE  InTime(d)'
<1>1. pc'[d] = pc[d] /\ Until(d)' = Until(d)
  BY DeadlineStays
<1>2. InTime(d)
  BY <1>1 DEF LeaseInv, BusyAreInTime
<1> QED
  BY <1>1, <1>2 DEF InTime, Allowed, Sheltered

\* A holder whose lease and deadline a step leaves alone stays covered.
LEMMA HolderStays ==
    ASSUME LeaseInv, NEW d \in Holding, NEW c \in Call, NEW to, NEW x \in Nat,
           Moves(c, to, x), d # c, Outer[d] # c,
           now' = now, leaseKey' \in Nat, lease'[d] = lease[d],
           leaseKey' = leaseKey \/ lease[d] <= leaseKey' + MaxSkew
    PROVE  LastsLongEnough(d)'
<1>1. d \in Busy /\ d \in Call
  BY DEF Holding, Busy
<1>2. pc'[d] = pc[d] /\ Until(d) \in Nat /\ Until(d)' = Until(d)
  BY <1>1, DeadlineStays
<1>3. now \in Nat /\ leaseKey \in Nat /\ lease[d] \in Nat /\ ExpensiveDeadline \in Nat
  BY <1>1, CallConstants DEF LeaseInv, FleetTypeOK
<1>4. LastsLongEnough(d)
  BY DEF LeaseInv, HoldersAreCovered
<1>5. CASE pc[d] = "run" \/ Sheltered(d)
  <2>1. Covered(d, Until(d))
    BY <1>4, <1>5 DEF LastsLongEnough
  <2>2. lease'[d] > Until(d) + Slack + MaxSkew /\ leaseKey' > Until(d) + Slack
    BY <1>1, <1>2, <1>3, <2>1, StaysCovered
  <2> QED
    BY <1>2, <1>5, <2>2 DEF LastsLongEnough, Covered, Sheltered
<1>6. CASE ~(pc[d] = "run" \/ Sheltered(d))
  <2>1. Covered(d, now + ExpensiveDeadline) /\ now + ExpensiveDeadline \in Nat
    BY <1>3, <1>4, <1>6 DEF LastsLongEnough
  <2>2. /\ lease'[d] > now + ExpensiveDeadline + Slack + MaxSkew
        /\ leaseKey' > now + ExpensiveDeadline + Slack
    BY <1>1, <1>3, <2>1, StaysCovered
  <2> QED
    BY <1>2, <1>6, <2>2 DEF LastsLongEnough, Covered, Sheltered
<1> QED
  BY <1>5, <1>6

\* Nobody is nested in a call that does not execute.
LEMMA NobodyNested ==
    ASSUME LeaseInv, NEW c \in Call, pc[c] # "run", NEW d \in Call, pc[d] \notin Over \cup {"idle"}
    PROVE  Outer[d] # c
BY CallsWellFormed DEF LeaseInv, CommitsOutlast

\* What a step of one call has to respect for the invariant to hold after it.
LEMMA OneMoves ==
    ASSUME LeaseInv,
           NEW c \in Call, NEW to \in PC, NEW x \in Nat, Moves(c, to, x),
           pc[c] # "run" \/ \A d \in Nested(c) : pc[d] \in Over \cup {"idle"},
           to \in Over \/ (Outer[c] # NoCall => pc[Outer[c]] = "run"),
           to = "expensive" => c \in Expensive,
           to = "run" \/ (to = "expensive" /\ Sheltered(c)) => InTime(c)',
           to \in {"run", "expensive"} /\ c \notin uncovered' => LastsLongEnough(c)',
           to \in {"run", "expensive"} /\ c \notin uncovered' => Cardinality(Holding \cup {c}) <= PrincipalLimit,
           now' = now, leaseKey' \in Nat, lease' \in [Call -> Nat],
           \A d \in Holding : d # c => lease'[d] = lease[d],
           uncovered \subseteq uncovered',
           \A d \in Holding \ uncovered' : leaseKey' = leaseKey \/ lease[d] <= leaseKey' + MaxSkew
    PROVE  LeaseInv'
<1>1. /\ now \in Nat /\ leaseKey \in Nat
      /\ pc \in [Call -> PC] /\ timer \in [Call -> Nat]
      /\ lease \in [Call -> Nat]
  BY DEF LeaseInv, FleetTypeOK
<1>2. FleetTypeOK'
  BY <1>1 DEF Moves, FleetTypeOK
<1>3. /\ pc'[c] = to
      /\ \A d \in Call : d # c => pc'[d] = pc[d]
  BY <1>1 DEF Moves
<1>4. WaitersAreExpensive'
  BY <1>3 DEF LeaseInv, WaitersAreExpensive
<1>5. \A d \in Call : Outer[d] = c /\ pc[d] \notin Over \cup {"idle"} => FALSE
  BY NobodyNested DEF Nested
<1>6. CommitsOutlast'
  <2> SUFFICES ASSUME NEW d \in Call, Outer[d] # NoCall, pc'[d] \notin Over \cup {"idle"}
               PROVE  pc'[Outer[d]] = "run"
    BY DEF CommitsOutlast
  <2>1. Outer[d] \in Call /\ Outer[d] # d
    BY CallConstants
  <2>2. CASE d = c
    BY <1>3, <2>1, <2>2
  <2>3. CASE d # c
    <3>1. pc[d] \notin Over \cup {"idle"} /\ Outer[d] # c
      BY <1>3, <1>5, <2>3
    <3>2. pc[Outer[d]] = "run"
      BY <3>1 DEF LeaseInv, CommitsOutlast
    <3> QED
      BY <1>3, <2>1, <3>1, <3>2
  <2> QED
    BY <2>2, <2>3
<1>7. \A d \in Busy' : d # c => d \in Busy /\ Outer[d] # c
  BY <1>3, <1>5 DEF Busy, Over
<1>8. \A d \in Holding' : d # c => d \in Holding \ uncovered' /\ Outer[d] # c
  BY <1>7 DEF Holding
<1>9. BusyAreInTime'
  <2> SUFFICES ASSUME NEW d \in Busy', pc'[d] = "run" \/ Sheltered(d)
               PROVE  InTime(d)'
    BY DEF BusyAreInTime, Sheltered
  <2>1. CASE d = c
    BY <1>3, <2>1 DEF Busy
  <2>2. CASE d # c
    BY <1>7, <2>2, BusyStays
  <2> QED
    BY <2>1, <2>2
<1>10. HoldersAreCovered'
  <2> SUFFICES ASSUME NEW d \in Holding'
               PROVE  LastsLongEnough(d)'
    BY DEF HoldersAreCovered
  <2>1. CASE d = c
    BY <1>3, <2>1 DEF Holding, Busy
  <2>2. CASE d # c
    BY <1>8, <2>2, HolderStays
  <2> QED
    BY <2>1, <2>2
<1>11. HoldersFit'
  <2>1. IsFiniteSet(Holding \cup {c})
    BY HoldersAreFinite, FS_AddElement
  <2>2. CASE to \in {"run", "expensive"} /\ c \notin uncovered' 
    <3>1. Holding' \subseteq Holding \cup {c}
      BY <1>8
    <3>2. Cardinality(Holding') <= Cardinality(Holding \cup {c})
      BY <2>1, <3>1, FS_Subset
    <3>3. Cardinality(Holding') \in Nat /\ Cardinality(Holding \cup {c}) \in Nat /\ PrincipalLimit \in Nat
      BY <2>1, <3>1, FS_Subset, FS_CardinalityType, CallConstants
    <3> QED
      BY <2>2, <3>2, <3>3 DEF HoldersFit
  <2>3. CASE to \notin {"run", "expensive"} \/ c \in uncovered' 
    <3>1. Holding' \subseteq Holding
      BY <1>3, <1>8, <2>3 DEF Holding, Busy
    <3> QED
      BY <3>1, FewerFit
  <2> QED
    BY <2>2, <2>3
<1> QED
  BY <1>2, <1>4, <1>6, <1>9, <1>10, <1>11 DEF LeaseInv

\* Who holds a lease already, holds no more by going on.
LEMMA HolderGoesOn ==
    ASSUME LeaseInv, NEW c \in Holding
    PROVE  Cardinality(Holding \cup {c}) <= PrincipalLimit
<1>1. Holding \cup {c} = Holding
  OBVIOUS
<1> QED
  BY <1>1 DEF LeaseInv, HoldersFit

\* Types, and the commit of a call that is under way.
LEMMA UnderWay ==
    ASSUME LeaseInv, NEW c \in Call
    PROVE  /\ now \in Nat /\ leaseKey \in Nat
           /\ pc \in [Call -> PC] /\ timer \in [Call -> Nat] /\ lease \in [Call -> Nat]
           /\ pc[c] \notin Over \cup {"idle"} => (Outer[c] # NoCall => pc[Outer[c]] = "run")
BY DEF LeaseInv, FleetTypeOK, CommitsOutlast

\* A step that leaves the deadline of its call alone.
LEMMA OnlyMoves ==
    ASSUME LeaseInv, NEW c \in Call, NEW to, pc' = [pc EXCEPT ![c] = to], timer' = timer
    PROVE  Moves(c, to, timer[c]) /\ timer[c] \in Nat
<1>1. timer \in [Call -> Nat]
  BY UnderWay
<1>2. timer = [timer EXCEPT ![c] = timer[c]]
  BY <1>1
<1> QED
  BY <1>1, <1>2 DEF Moves

LEMMA ArriveFleet ==
    ASSUME LeaseInv, NEW c \in Call, Arrive(c)
    PROVE  LeaseInv'
<1>1. pc[c] = "idle" /\ (Outer[c] # NoCall => pc[Outer[c]] = "run")
  BY DEF Arrive
<1>2. Moves(c, "global", timer[c]) /\ timer[c] \in Nat
  BY OnlyMoves DEF Arrive
<1>3. now' = now /\ leaseKey' = leaseKey /\ lease' = lease /\ uncovered' = uncovered
  BY DEF Arrive, leaseVars
<1> QED
  BY <1>1, <1>2, <1>3, UnderWay, OneMoves DEF PC

LEMMA TakeGlobalFleet ==
    ASSUME LeaseInv, NEW c \in Call, TakeGlobal(c)
    PROVE  LeaseInv'
<1>1. pc[c] = "global"
  BY DEF TakeGlobal
<1>2. Moves(c, "principal", now + QueueTime) /\ now + QueueTime \in Nat
  BY UnderWay, CallConstants DEF TakeGlobal
<1>3. now' = now /\ leaseKey' = leaseKey /\ lease' = lease /\ uncovered' = uncovered
  BY DEF TakeGlobal, leaseVars
<1> QED
  BY <1>1, <1>2, <1>3, UnderWay, OneMoves DEF PC, Over

\* Taking a lease spares those of the holders, and covers what may follow.
LEMMA TakingLeases ==
    ASSUME LeaseInv, LeasesOutlast, NEW c \in Call, NEW t \in Reading, TakeLease(c, t)
    PROVE  /\ lease' \in [Call -> Nat] /\ leaseKey' \in Nat
           /\ \A d \in Holding : d # c => lease'[d] = lease[d]
           /\ uncovered \subseteq uncovered'
           /\ \A d \in Holding \ uncovered' : lease[d] <= leaseKey' + MaxSkew
           /\ \A until \in Nat : until <= now + Allowed(c) =>
                 lease'[c] > until + Slack + MaxSkew /\ leaseKey' > until + Slack
<1>1. now \in Nat /\ LeaseTTL(c) \in Nat /\ Allowed(c) \in Nat /\ Slack \in Nat
  BY UnderWay, CallConstants
<1>2. t \in Nat /\ now <= t + MaxSkew
  BY <1>1, ReadingNear
<1>3. Pruned(t) \in [Call -> Nat] /\ \A d \in Holding : Pruned(t)[d] = lease[d]
  BY PruningSpares
<1>4. /\ lease' = [Pruned(t) EXCEPT ![c] = t + LeaseTTL(c)] /\ leaseKey' = now + LeaseTTL(c)
      /\ uncovered' = uncovered \cup CutShort(leaseKey')
  BY DEF TakeLease
<1>5. lease'[c] = t + LeaseTTL(c)
  BY <1>3, <1>4
<1>6. Allowed(c) + Slack + 2 * MaxSkew < LeaseTTL(c)
  BY DEF LeasesOutlast
<1>7. \A until \in Nat : until <= now + Allowed(c) =>
                 lease'[c] > until + Slack + MaxSkew /\ leaseKey' > until + Slack
  BY <1>1, <1>2, <1>4, <1>5, <1>6
<1>8. t + LeaseTTL(c) \in Nat
  BY <1>1, <1>2
<1>9. lease' \in [Call -> Nat]
  BY <1>3, <1>4, <1>8
<1>10. \A d \in Holding : d # c => lease'[d] = lease[d]
  BY <1>3, <1>4 DEF Holding, Busy
<1>11. leaseKey' \in Nat
  BY <1>1, <1>4
<1>12. \A d \in Holding \ uncovered' : lease[d] <= leaseKey' + MaxSkew
  \* Whoever's lease would go with the key before its time is no holder any more.
  <2> SUFFICES ASSUME NEW d \in Holding \ uncovered'
               PROVE  lease[d] <= leaseKey' + MaxSkew
    OBVIOUS
  <2>1. d \in Busy /\ d \notin CutShort(leaseKey') /\ lease[d] \in Nat
    BY <1>4, UnderWay DEF Holding, Busy
  <2> QED
    BY <1>11, <2>1 DEF CutShort
<1> QED
  BY <1>4, <1>7, <1>9, <1>10, <1>11, <1>12

\* A free lease means that there is room for one holder more.
LEMMA RoomForOne ==
    ASSUME LeaseInv, NEW c \in Call, NEW t \in Reading, LeaseFree(t)
    PROVE  Cardinality(Holding \cup {c}) <= PrincipalLimit
<1>1. Holding \subseteq Leased(t)
  BY HoldersAreLeased
<1>2. IsFiniteSet(Leased(t))
  <2>1. Leased(t) \subseteq Call
    BY DEF Leased
  <2> QED
    BY <2>1, CallsWellFormed, FS_Subset
<1>3. Cardinality(Holding) <= Cardinality(Leased(t))
  BY <1>1, <1>2, FS_Subset
<1>4. IsFiniteSet(Holding) /\ Cardinality(Holding) \in Nat
  BY HoldersAreFinite
<1>5. Cardinality(Holding \cup {c}) <= Cardinality(Holding) + 1
  BY <1>4, OneMore
<1>6. Cardinality(Holding \cup {c}) \in Nat
  BY <1>4, FS_AddElement, FS_CardinalityType
<1>7. Cardinality(Leased(t)) < PrincipalLimit
  BY DEF LeaseFree
<1>8. Cardinality(Leased(t)) \in Nat /\ PrincipalLimit \in Nat
  BY <1>2, FS_CardinalityType, CallConstants
<1> QED
  BY <1>3, <1>4, <1>5, <1>6, <1>7, <1>8

LEMMA LeaseFleet ==
    ASSUME LeaseInv, LeasesOutlast, NEW c \in Call, Lease(c)
    PROVE  LeaseInv'
<1>1. pc[c] = "principal" /\ now' = now
  BY DEF Lease
<1>2. PICK t \in Reading : LeaseFree(t) /\ TakeLease(c, t)
  BY DEF Lease
<1>3. /\ lease' \in [Call -> Nat] /\ leaseKey' \in Nat
      /\ \A d \in Holding : d # c => lease'[d] = lease[d]
      /\ uncovered \subseteq uncovered'
      /\ \A d \in Holding \ uncovered' : lease[d] <= leaseKey' + MaxSkew
      /\ \A until \in Nat : until <= now + Allowed(c) =>
            lease'[c] > until + Slack + MaxSkew /\ leaseKey' > until + Slack
  BY <1>2, TakingLeases
<1>4. Cardinality(Holding \cup {c}) <= PrincipalLimit
  BY <1>2, RoomForOne
<1>5. /\ now \in Nat /\ pc \in [Call -> PC] /\ timer \in [Call -> Nat]
      /\ Outer[c] # NoCall => pc[Outer[c]] = "run"
  BY <1>1, UnderWay DEF Over
<1>6. /\ Slack \in Nat /\ DeadlineFor(c) \in Nat /\ StandardDeadline \in Nat
      /\ ExpensiveDeadline \in Nat
  BY CallConstants
<1>7. CASE c \in Expensive /\ Moves(c, "expensive", 0)
  <2>1. pc'[c] = "expensive"
    BY <1>5, <1>7 DEF Moves
  <2>2. CASE Sheltered(c)
    <3>1. Outer[c] \in Call /\ Outer[c] # c /\ Outer[c] \notin Expensive
      BY <2>2, CallConstants DEF Sheltered
    <3>2. pc[Outer[c]] = "run" /\ Outer[c] \in Busy
      BY <1>5, <2>2, <3>1 DEF Sheltered, Busy
    <3>3. InTime(Outer[c])
      BY <3>2 DEF LeaseInv, BusyAreInTime
    <3>4. Until(Outer[c]) = timer[Outer[c]] /\ Allowed(Outer[c]) = StandardDeadline
      BY <3>1 DEF Until, Allowed
    <3>5. timer'[Outer[c]] = timer[Outer[c]] /\ timer[Outer[c]] \in Nat
      BY <1>5, <1>7, <3>1 DEF Moves
    <3>6. Until(c)' = timer[Outer[c]] /\ Allowed(c)' = StandardDeadline /\ Allowed(c) = StandardDeadline
      BY <1>7, <2>2, <3>5 DEF Until, Allowed, Sheltered
    <3>7. now <= timer[Outer[c]] + Slack /\ timer[Outer[c]] <= now + StandardDeadline
      BY <3>3, <3>4 DEF InTime
    <3>8. InTime(c)'
      BY <1>1, <3>6, <3>7 DEF InTime
    <3>9. lease'[c] > timer[Outer[c]] + Slack + MaxSkew /\ leaseKey' > timer[Outer[c]] + Slack
      BY <1>3, <3>5, <3>6, <3>7
    <3>10. LastsLongEnough(c)'
      BY <2>2, <3>6, <3>9 DEF LastsLongEnough, Covered, Sheltered
    <3> QED
      BY <1>1, <1>3, <1>4, <1>5, <1>7, <3>8, <3>10, OneMoves DEF PC
  <2>3. CASE ~Sheltered(c)
    <3>1. Allowed(c) = ExpensiveDeadline /\ now + ExpensiveDeadline \in Nat
      BY <1>5, <1>6, <1>7, <2>3 DEF Allowed
    <3>2. /\ lease'[c] > now + ExpensiveDeadline + Slack + MaxSkew
          /\ leaseKey' > now + ExpensiveDeadline + Slack
      BY <1>3, <1>5, <1>6, <3>1
    <3>3. LastsLongEnough(c)'
      BY <1>1, <2>1, <2>3, <3>2 DEF LastsLongEnough, Covered, Sheltered
    <3> QED
      BY <1>1, <1>3, <1>4, <1>5, <1>7, <2>3, <3>3, OneMoves DEF PC
  <2> QED
    BY <2>2, <2>3
<1>8. CASE c \notin Expensive /\ Moves(c, "run", now + DeadlineFor(c))
  <2>1. DeadlineFor(c) = Allowed(c) /\ Allowed(c)' = Allowed(c) /\ now + DeadlineFor(c) \in Nat
    BY <1>5, <1>6, <1>8 DEF DeadlineFor, Allowed, Sheltered
  <2>2. Until(c)' = now + DeadlineFor(c) /\ pc'[c] = "run"
    BY <1>5, <1>8 DEF Until, Moves
  <2>3. lease'[c] > now + DeadlineFor(c) + Slack + MaxSkew /\ leaseKey' > now + DeadlineFor(c) + Slack
    BY <1>3, <1>5, <1>6, <2>1
  <2>4. now <= now + DeadlineFor(c) + Slack
    BY <1>5, <1>6
  <2>5. InTime(c)'
    BY <1>1, <1>5, <1>6, <2>1, <2>2, <2>4 DEF InTime
  <2>6. LastsLongEnough(c)'
    BY <2>2, <2>3 DEF LastsLongEnough, Covered
  <2> QED
    BY <1>1, <1>3, <1>4, <1>5, <1>8, <2>1, <2>5, <2>6, OneMoves DEF PC
<1> QED
  BY <1>7, <1>8 DEF Lease

LEMMA PollLeaseFleet ==
    ASSUME LeaseInv, NEW c \in Call, PollLease(c)
    PROVE  LeaseInv'
<1>1. pc[c] = "principal" /\ now' = now /\ leaseKey' = leaseKey /\ uncovered' = uncovered
  BY DEF PollLease
<1>2. PICK t \in Reading : lease' = Pruned(t)
  BY DEF PollLease
<1>3. lease' \in [Call -> Nat] /\ \A d \in Holding : lease'[d] = lease[d]
  BY <1>2, PruningSpares
<1>4. CASE Moves(c, "done", 0)
  BY <1>1, <1>3, <1>4, UnderWay, OneMoves DEF PC, Over
<1>5. CASE UNCHANGED <<pc, timer>>
  <2>1. pc' = [pc EXCEPT ![c] = "principal"]
    BY <1>1, <1>5, UnderWay
  <2>2. Moves(c, "principal", timer[c]) /\ timer[c] \in Nat
    BY <1>5, <2>1, OnlyMoves
  <2> QED
    BY <1>1, <1>3, <2>2, UnderWay, OneMoves DEF PC, Over
<1> QED
  BY <1>4, <1>5 DEF PollLease

LEMMA LoseLeaseFleet ==
    ASSUME LeaseInv, LeasesOutlast, NEW c \in Call, LoseLease(c)
    PROVE  LeaseInv'
<1>1. pc[c] = "principal" /\ now' = now /\ Moves(c, "done", 0)
  BY DEF LoseLease
<1>2. CASE \E t \in Reading : TakeLease(c, t)
  <2>1. PICK t \in Reading : TakeLease(c, t)
    BY <1>2
  <2>2. /\ lease' \in [Call -> Nat] /\ leaseKey' \in Nat
        /\ \A d \in Holding : d # c => lease'[d] = lease[d]
        /\ uncovered \subseteq uncovered'
        /\ \A d \in Holding \ uncovered' : lease[d] <= leaseKey' + MaxSkew
    BY <2>1, TakingLeases
  <2> QED
    BY <1>1, <2>2, UnderWay, OneMoves DEF PC, Over
<1>3. CASE UNCHANGED leaseVars
  <2>1. lease' = lease /\ leaseKey' = leaseKey /\ uncovered' = uncovered
    BY <1>3 DEF leaseVars
  <2> QED
    BY <1>1, <2>1, UnderWay, OneMoves DEF PC, Over
<1> QED
  BY <1>2, <1>3 DEF LoseLease

LEMMA TakeExpensiveFleet ==
    ASSUME LeaseInv, NEW c \in Call, TakeExpensive(c)
    PROVE  LeaseInv'
<1>1. /\ pc[c] = "expensive" /\ now' = now /\ lease' = lease /\ leaseKey' = leaseKey
      /\ uncovered' = uncovered /\ Moves(c, "run", now + DeadlineFor(c))
  BY DEF TakeExpensive, leaseVars
<1>2. /\ now \in Nat /\ leaseKey \in Nat
      /\ pc \in [Call -> PC] /\ timer \in [Call -> Nat] /\ lease \in [Call -> Nat]
      /\ Outer[c] # NoCall => pc[Outer[c]] = "run"
  BY <1>1, UnderWay DEF Over
<1>3. c \in Expensive /\ c \in Busy /\ pc'[c] = "run"
  BY <1>1, <1>2 DEF LeaseInv, WaitersAreExpensive, Busy, Moves
<1>4. Slack \in Nat /\ DeadlineFor(c) \in Nat /\ ExpensiveDeadline \in Nat
  BY CallConstants
<1>5. c \notin uncovered => c \in Holding /\ LastsLongEnough(c)
  BY <1>3 DEF Holding, LeaseInv, HoldersAreCovered
<1>6. InTime(c)' /\ (c \notin uncovered => LastsLongEnough(c)')
  <2>1. CASE Sheltered(c)
    <3>1. InTime(c)
      BY <1>3, <2>1 DEF LeaseInv, BusyAreInTime
    <3>2. Outer[c] \in Call /\ Outer[c] # c
      BY <1>3, <2>1, ShelterRuns
    <3>3. timer'[Outer[c]] = timer[Outer[c]] /\ timer[Outer[c]] \in Nat
      BY <1>1, <1>2, <3>2 DEF Moves
    <3>4. Until(c)' = Until(c)
      BY <1>3, <2>1, <3>3 DEF Until, Sheltered
    <3>5. InTime(c)'
      BY <1>1, <3>1, <3>4 DEF InTime, Allowed, Sheltered
    <3>6. c \notin uncovered => LastsLongEnough(c)'
      BY <1>1, <1>3, <1>5, <2>1, <3>4 DEF LastsLongEnough, Covered, Sheltered
    <3> QED
      BY <3>5, <3>6
  <2>2. CASE ~Sheltered(c)
    <3>1. c \notin uncovered => Covered(c, now + ExpensiveDeadline)
      BY <1>1, <1>5, <2>2 DEF LastsLongEnough
    <3>2. DeadlineFor(c) = ExpensiveDeadline /\ Allowed(c)' = ExpensiveDeadline
      BY <1>3, <2>2 DEF DeadlineFor, Allowed, Sheltered
    <3>3. Until(c)' = now + ExpensiveDeadline
      BY <1>1, <1>2, <2>2, <3>2 DEF Until, Moves, Sheltered
    <3>4. now <= now + ExpensiveDeadline + Slack
      BY <1>2, <1>4
    <3>5. InTime(c)'
      BY <1>1, <1>2, <1>4, <3>2, <3>3, <3>4 DEF InTime
    <3>6. c \notin uncovered => LastsLongEnough(c)'
      BY <1>1, <1>3, <3>1, <3>3 DEF LastsLongEnough, Covered
    <3> QED
      BY <3>5, <3>6
  <2> QED
    BY <2>1, <2>2
<1>7. now + DeadlineFor(c) \in Nat
  BY <1>2, <1>4
<1>8. c \notin uncovered => Cardinality(Holding \cup {c}) <= PrincipalLimit
  BY <1>5, HolderGoesOn
<1> QED
  BY <1>1, <1>2, <1>3, <1>6, <1>7, <1>8, OneMoves DEF PC

LEMMA EndFleet ==
    ASSUME LeaseInv, NEW c \in Call, End(c)
    PROVE  LeaseInv'
<1>1. /\ pc[c] = "run" /\ now' = now /\ lease' = lease /\ leaseKey' = leaseKey
      /\ uncovered' = uncovered /\ Moves(c, "leave", 0)
      /\ \A d \in Nested(c) : pc[d] \in Over \cup {"idle"}
  BY DEF End, leaseVars
<1> QED
  BY <1>1, UnderWay, OneMoves DEF PC, Over

LEMMA CancelFleet ==
    ASSUME LeaseInv, NEW c \in Call, Cancel(c)
    PROVE  LeaseInv'
<1>1. /\ pc[c] \in {"global", "expensive"} /\ now' = now /\ lease' = lease /\ leaseKey' = leaseKey
      /\ uncovered' = uncovered
  BY DEF Cancel, leaseVars
<1>2. PICK to \in {"leave", "done"} : pc' = [pc EXCEPT ![c] = to]
  BY UnderWay DEF Cancel
<1>3. Moves(c, to, timer[c]) /\ timer[c] \in Nat
  BY <1>2, OnlyMoves DEF Cancel
<1>4. to \in PC /\ to \notin {"run", "expensive"} /\ pc[c] # "run" /\ pc[c] \notin Over \cup {"idle"}
  BY <1>1, <1>2 DEF PC, Over
<1> QED
  BY <1>1, <1>3, <1>4, UnderWay, OneMoves

LEMMA LeaveFleet ==
    ASSUME LeaseInv, NEW c \in Call, Leave(c)
    PROVE  LeaseInv'
<1>1. /\ pc[c] = "leave" /\ now' = now /\ leaseKey' = leaseKey /\ uncovered' = uncovered
      /\ pc' = [pc EXCEPT ![c] = "done"] /\ timer' = timer
  BY DEF Leave
<1>2. lease' \in [Call -> Nat] /\ \A d \in Holding : d # c => lease'[d] = lease[d]
  BY UnderWay DEF Leave, Holding, Busy
<1>3. Moves(c, "done", timer[c]) /\ timer[c] \in Nat
  BY <1>1, OnlyMoves
<1> QED
  BY <1>1, <1>2, <1>3, UnderWay, OneMoves DEF PC, Over

\* Time does not pass a deadline by more than the slack, and whoever waits for so
\* long that its lease is too short is no holder any more.
LEMMA TickFleet ==
    ASSUME LeaseInv, Tick
    PROVE  LeaseInv'
<1>1. /\ now' = now + 1 /\ pc' = pc /\ timer' = timer /\ lease' = lease /\ leaseKey' = leaseKey
      /\ \A c \in Call : pc[c] = "run" => now < timer[c] + Slack
      /\ uncovered' = uncovered \cup WaitTooLong(now + 1)
  BY DEF Tick
<1>2. now \in Nat /\ timer \in [Call -> Nat]
  BY DEF LeaseInv, FleetTypeOK
<1>3. FleetTypeOK' /\ WaitersAreExpensive' /\ CommitsOutlast' /\ Busy' = Busy /\ Holding' \subseteq Holding
  BY <1>1, <1>2 DEF LeaseInv, FleetTypeOK, WaitersAreExpensive, CommitsOutlast, Holding, Busy
<1>4. BusyAreInTime'
  <2> SUFFICES ASSUME NEW c \in Busy, pc[c] = "run" \/ Sheltered(c)
               PROVE  InTime(c)'
    BY <1>1, <1>3 DEF BusyAreInTime, Sheltered
  <2>1. c \in Call /\ Slack \in Nat /\ Allowed(c) \in Nat /\ Allowed(c)' = Allowed(c)
    BY CallConstants DEF Busy, Allowed, Sheltered
  <2>2. InTime(c)
    BY DEF LeaseInv, BusyAreInTime
  <2>3. now < Until(c) + Slack /\ Until(c) \in Nat
    <3>1. CASE c \in Expensive /\ Sheltered(c)
      BY <1>1, <1>2, <3>1, ShelterRuns DEF Until
    <3>2. CASE ~(c \in Expensive /\ Sheltered(c))
      <4>1. pc[c] = "run"
        BY <2>1, <3>2 DEF Busy, LeaseInv, WaitersAreExpensive
      <4> QED
        BY <1>1, <1>2, <2>1, <3>2, <4>1 DEF Until
    <3> QED
      BY <3>1, <3>2
  <2>4. Until(c)' = Until(c)
    BY <1>1 DEF Until, Sheltered
  <2> QED
    BY <1>1, <1>2, <2>1, <2>2, <2>3, <2>4 DEF InTime
<1>5. HoldersAreCovered'
  <2> SUFFICES ASSUME NEW c \in Holding'
               PROVE  LastsLongEnough(c)'
    BY DEF HoldersAreCovered
  <2>1. c \in Holding /\ c \in Busy /\ c \in Call /\ c \notin WaitTooLong(now + 1)
    BY <1>1, <1>3 DEF Holding, Busy
  <2>2. LastsLongEnough(c)
    BY <2>1 DEF LeaseInv, HoldersAreCovered
  <2>3. CASE pc[c] = "run" \/ Sheltered(c)
    <3>1. Until(c)' = Until(c)
      BY <1>1 DEF Until, Sheltered
    <3> QED
      BY <1>1, <2>2, <2>3, <3>1 DEF LastsLongEnough, Covered, Sheltered
  <2>4. CASE ~(pc[c] = "run" \/ Sheltered(c))
    <3>1. pc[c] = "expensive" /\ c \in Expensive
      BY <2>1, <2>4 DEF Busy, LeaseInv, WaitersAreExpensive
    <3>2. Covered(c, now + 1 + ExpensiveDeadline)
      BY <2>1, <2>4, <3>1 DEF WaitTooLong
    <3> QED
      BY <1>1, <2>4, <3>2 DEF LastsLongEnough, Covered, Sheltered
  <2> QED
    BY <2>3, <2>4
<1>6. HoldersFit'
  BY <1>3, FewerFit
<1> QED
  BY <1>3, <1>4, <1>5, <1>6 DEF LeaseInv

\* A process dies with the commits it runs and what is nested in them.
LEMMA CrashFleet ==
    ASSUME LeaseInv, NEW p \in Replica, Crash(p)
    PROVE  LeaseInv'
<1> DEFINE lost == {c \in Call : Home[c] = p /\ pc[c] \notin Over \cup {"idle"}}
<1>1. /\ pc' = [c \in Call |-> IF c \in lost THEN "crashed" ELSE pc[c]]
      /\ timer' = [c \in Call |-> IF c \in lost THEN 0 ELSE timer[c]]
      /\ now' = now /\ lease' = lease /\ leaseKey' = leaseKey /\ uncovered' = uncovered
  BY DEF Crash, leaseVars
<1>2. /\ now \in Nat /\ leaseKey \in Nat
      /\ pc \in [Call -> PC] /\ timer \in [Call -> Nat] /\ lease \in [Call -> Nat]
  BY DEF LeaseInv, FleetTypeOK
<1> HIDE DEF lost
<1>3. FleetTypeOK'
  BY <1>1, <1>2 DEF FleetTypeOK, PC
<1>4. WaitersAreExpensive'
  BY <1>1 DEF LeaseInv, WaitersAreExpensive
<1>5. \A c \in Call : pc'[c] \notin Over \cup {"idle"} =>
         /\ pc'[c] = pc[c] /\ timer'[c] = timer[c]
         /\ Outer[c] # NoCall => /\ Outer[c] \in Call /\ pc'[Outer[c]] = "run"
                                 /\ timer'[Outer[c]] = timer[Outer[c]]
  <2> SUFFICES ASSUME NEW c \in Call, pc'[c] \notin Over \cup {"idle"}
               PROVE  /\ pc'[c] = pc[c] /\ timer'[c] = timer[c]
                      /\ Outer[c] # NoCall => /\ Outer[c] \in Call /\ pc'[Outer[c]] = "run"
                                              /\ timer'[Outer[c]] = timer[Outer[c]]
    OBVIOUS
  <2>1. c \notin lost /\ pc'[c] = pc[c] /\ timer'[c] = timer[c]
    BY <1>1 DEF Over
  <2>2. ASSUME Outer[c] # NoCall
        PROVE  /\ Outer[c] \in Call /\ pc'[Outer[c]] = "run"
               /\ timer'[Outer[c]] = timer[Outer[c]]
    <3>1. Outer[c] \in Call /\ Home[Outer[c]] = Home[c]
      BY <2>2, CallsWellFormed
    <3>2. pc[Outer[c]] = "run"
      BY <2>1, <2>2 DEF LeaseInv, CommitsOutlast
    <3>3. Outer[c] \notin lost
      BY <2>1, <3>1 DEF lost
    <3> QED
      BY <1>1, <3>1, <3>2, <3>3
  <2> QED
    BY <2>1, <2>2
<1>6. CommitsOutlast'
  BY <1>5 DEF CommitsOutlast
<1>7. Busy' \subseteq Busy /\ Holding' \subseteq Holding
  BY <1>1, <1>5 DEF Holding, Busy, Over
<1>8. BusyAreInTime'
  <2> SUFFICES ASSUME NEW c \in Busy', pc'[c] = "run" \/ Sheltered(c)
               PROVE  InTime(c)'
    BY DEF BusyAreInTime, Sheltered
  <2>1. c \in Call /\ c \in Busy /\ pc'[c] \notin Over \cup {"idle"}
    BY <1>7 DEF Busy, Over
  <2>2. InTime(c)
    BY <1>5, <2>1 DEF LeaseInv, BusyAreInTime
  <2>3. Until(c)' = Until(c) /\ Allowed(c)' = Allowed(c)
    BY <1>5, <2>1 DEF Until, Allowed, Sheltered
  <2> QED
    BY <1>1, <2>2, <2>3 DEF InTime
<1>9. HoldersAreCovered'
  <2> SUFFICES ASSUME NEW c \in Holding'
               PROVE  LastsLongEnough(c)'
    BY DEF HoldersAreCovered
  <2>1. c \in Call /\ c \in Holding /\ pc'[c] \notin Over \cup {"idle"}
    BY <1>7 DEF Holding, Busy, Over
  <2>2. LastsLongEnough(c)
    BY <2>1 DEF LeaseInv, HoldersAreCovered
  <2>3. Until(c)' = Until(c) /\ pc'[c] = pc[c]
    BY <1>5, <2>1 DEF Until, Sheltered
  <2> QED
    BY <1>1, <2>2, <2>3 DEF LastsLongEnough, Covered, Sheltered
<1>10. HoldersFit'
  BY <1>7, FewerFit
<1> QED
  BY <1>3, <1>4, <1>6, <1>8, <1>9, <1>10 DEF LeaseInv

LEMMA InitFleet == Init => LeaseInv
<1> SUFFICES ASSUME Init
             PROVE  LeaseInv
  OBVIOUS
<1>1. Busy = {} /\ Holding = {}
  BY DEF Init, Busy, Holding
<1>2. FleetTypeOK /\ WaitersAreExpensive /\ CommitsOutlast
  BY DEF Init, FleetTypeOK, WaitersAreExpensive, CommitsOutlast, PC
<1>3. BusyAreInTime /\ HoldersAreCovered
  BY <1>1 DEF BusyAreInTime, HoldersAreCovered
<1>4. HoldersFit
  BY <1>1, FS_EmptySet, LimitsPositive DEF HoldersFit
<1> QED
  BY <1>2, <1>3, <1>4 DEF LeaseInv

LEMMA StepFleet ==
    ASSUME LeasesOutlast
    PROVE  LeaseInv /\ [Next]_vars => LeaseInv'
<1> SUFFICES ASSUME LeaseInv, [Next]_vars
             PROVE  LeaseInv'
  OBVIOUS
<1>1. CASE Tick
  BY <1>1, TickFleet
<1>2. ASSUME NEW c \in Call, Step(c)
      PROVE  LeaseInv'
  BY <1>2, ArriveFleet, TakeGlobalFleet, LeaseFleet, PollLeaseFleet, LoseLeaseFleet,
     TakeExpensiveFleet, EndFleet, CancelFleet, LeaveFleet DEF Step
<1>3. ASSUME NEW p \in Replica, Crash(p)
      PROVE  LeaseInv'
  BY <1>3, CrashFleet
<1>4. CASE UNCHANGED vars
  BY <1>4 DEF vars, leaseVars, LeaseInv, FleetTypeOK, WaitersAreExpensive, CommitsOutlast,
              BusyAreInTime, HoldersAreCovered, HoldersFit, Holding, Busy, InTime, Until, Allowed,
              LastsLongEnough, Covered, Sheltered
<1> QED
  BY <1>1, <1>2, <1>3, <1>4 DEF Next

\* A principal never has more executions in flight in the whole fleet than its
\* limit, whatever crashes, leaks or is lost, whichever replicas serve it, and
\* however the deadlines differ, but for the calls that outstay their lease: those
\* a shorter lease cut short, and those that used it up in the expensive line.
\* The grace has to cover the late cancellation and the clocks' difference.
THEOREM FleetLimitIsKept ==
    ASSUME LeasesOutlast
    PROVE  Spec => []FleetLimitHolds
<1>1. LeaseInv => FleetLimitHolds
  <2> SUFFICES ASSUME LeaseInv
               PROVE  FleetLimitHolds
    OBVIOUS
  <2>1. Executing \ uncovered \subseteq Holding
    BY DEF Executing, Holding, Busy
  <2>2. /\ Cardinality(Executing \ uncovered) <= Cardinality(Holding)
        /\ Cardinality(Executing \ uncovered) \in Nat
    BY <2>1, HoldersAreFinite, FS_Subset, FS_CardinalityType
  <2>3. PrincipalLimit \in Nat
    BY LimitsPositive
  <2> QED
    BY <2>2, <2>3, HoldersAreFinite DEF LeaseInv, HoldersFit, FleetLimitHolds
<1> QED
  BY InitFleet, StepFleet, <1>1, PTL DEF Spec
=============================================================================

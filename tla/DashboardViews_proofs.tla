------------------------- MODULE DashboardViews_proofs -------------------------
(***************************************************************************)
(* What a dashboard view promises, for any number of requests, any time to *)
(* live and any bound on the attempts.                                     *)
(***************************************************************************)
EXTENDS DashboardViews, TLAPS

USE ViewConstants

\* A request that is about to write read a revision of this view; as long as
\* nobody replaced it, it still holds what that request read.
ReadIsStored(r) ==
    req[r].pc = "commit" =>
        /\ req[r].op # "get_state"
        /\ slot.rev > 0
        /\ req[r].rev <= slot.rev
        /\ req[r].rev = slot.rev => req[r].view = slot.val
        /\ req[r].tries # MaxAttempts

\* A request under way has no answer, and none starts before the view is open.
NotAnswered(r) ==
    /\ req[r].pc # "done" => req[r].reply = "none"
    /\ slot.rev = 0 => req[r].pc = "new"
    /\ req[r].pc \in {"load", "commit"} /\ req[r].op = "set_state" => req[r].zone \in Zones

\* The expiry is that of the last read or write, unless the store was full.
ExpiryOfLastUse == slot.rev > 0 => evicted \/ slot.exp = touched + TTL

\* Inductive.
ViewInv ==
    /\ TypeOK
    /\ \A r \in Request : ReadIsStored(r) /\ NotAnswered(r)
    /\ ExpiryOfLastUse

\* The values of a request and of a view.
Requests == [pc : {"new", "resolve", "load", "commit", "done"},
             op : Changes \cup {"get_state"},
             expected : Nat, rev : Nat, view : Views, zone : Zones \cup {"none"},
             tries : 0 .. MaxAttempts,
             reply : {"none", "ok", "conflict", "unknown_or_expired"}]
Slots == [rev : Nat, val : Views, exp : Nat]

\* A change of a view is a view.
LEMMA MutateIsView ==
    ASSUME NEW op \in Changes, NEW view \in Views, NEW zone,
           op = "set_state" => zone \in Zones
    PROVE  Mutate(op, view, zone) \in Views
<1>1. /\ view.anchor \in Int
      /\ [view EXCEPT !.anchor = @ + 1] \in Views
      /\ [view EXCEPT !.anchor = @ - 1] \in Views
      /\ [view EXCEPT !.anchor = 0] \in Views
      /\ [view EXCEPT !.timezone = "away"] \in Views
  BY DEF Views, Zones
<1>2. op = "set_state" => [anchor |-> 0, timezone |-> zone] \in Views
  BY DEF Views
<1> QED
  BY <1>1, <1>2 DEF Mutate, Changes

LEMMA IdleIsRequest == Idle \in Requests
BY DEF Idle, NoView, Requests, Views, Zones, Changes

\* A step of one request that at most replaces the view at the next revision
\* leaves the other requests what they read.
LEMMA OthersKeep ==
    ASSUME ViewInv, NEW r \in Request,
           req' \in [Request -> Requests], \A q \in Request : q # r => req'[q] = req[q],
           slot' \in Slots, slot.rev > 0, slot'.rev >= slot.rev,
           slot'.rev = slot.rev => slot'.val = slot.val,
           ReadIsStored(r)', NotAnswered(r)'
    PROVE  \A q \in Request : ReadIsStored(q)' /\ NotAnswered(q)'
<1> SUFFICES ASSUME NEW q \in Request, q # r PROVE ReadIsStored(q)' /\ NotAnswered(q)'
  OBVIOUS
<1>1. req[q] \in Requests /\ slot \in Slots /\ req'[q] = req[q]
  BY DEF ViewInv, TypeOK, Requests, Slots
<1>2. req[q].rev \in Nat /\ slot.rev \in Nat /\ slot'.rev \in Nat
  BY <1>1 DEF Requests, Slots
<1>3. ReadIsStored(q) /\ NotAnswered(q)
  BY DEF ViewInv
<1> QED
  BY <1>1, <1>2, <1>3 DEF ReadIsStored, NotAnswered

\* What one request's step writes.
LEMMA OneChanges ==
    ASSUME ViewInv, NEW r \in Request, NEW next \in Requests, req' = [req EXCEPT ![r] = next]
    PROVE  /\ req' \in [Request -> Requests]
           /\ req'[r] = next
           /\ \A q \in Request : q # r => req'[q] = req[q]
<1>1. req \in [Request -> Requests]
  BY DEF ViewInv, TypeOK, Requests
<1> QED
  BY <1>1

\* A request that is answered forgets what it read.
LEMMA AnswerKeeps ==
    ASSUME ViewInv, NEW r \in Request, slot' \in Slots,
           slot'.rev >= slot.rev, slot.rev > 0,
           slot'.rev = slot.rev => slot'.val = slot.val,
           \E what \in {"ok", "conflict", "unknown_or_expired"} : Answer(r, what)
    PROVE  /\ req' \in [Request -> Requests]
           /\ \A q \in Request : ReadIsStored(q)' /\ NotAnswered(q)'
<1>1. PICK what \in {"ok", "conflict", "unknown_or_expired"} :
          req' = [req EXCEPT ![r] = [Idle EXCEPT !.pc = "done", !.reply = what]]
  BY DEF Answer
<1> DEFINE next == [Idle EXCEPT !.pc = "done", !.reply = what]
<1>2. next \in Requests
  BY IdleIsRequest DEF Requests
<1>3. req \in [Request -> Requests] /\ slot \in Slots
  BY DEF ViewInv, TypeOK, Requests, Slots
<1>4. req'[r].pc = "done" /\ slot'.rev # 0
  BY <1>1, <1>3 DEF Idle, Slots
<1>5. ReadIsStored(r)' /\ NotAnswered(r)'
  BY <1>4 DEF ReadIsStored, NotAnswered
<1>6. /\ req' \in [Request -> Requests]
      /\ \A q \in Request : q # r => req'[q] = req[q]
  BY <1>1, <1>2, OneChanges
<1> QED
  BY <1>3, <1>5, <1>6, OthersKeep

\* Reading a live view, or finding it gone, keeps the view.
LEMMA ReadKeeps ==
    ASSUME ViewInv, Read
    PROVE  /\ slot' \in Slots /\ slot.rev > 0
           /\ slot'.rev = slot.rev /\ slot'.val = slot.val
           /\ touched' \in Nat /\ now' \in Nat /\ evicted' \in BOOLEAN
           /\ ExpiryOfLastUse'
<1>1. slot \in Slots /\ now \in Nat /\ evicted \in BOOLEAN
  BY DEF ViewInv, TypeOK, Slots
<1>2. slot' = [slot EXCEPT !.exp = now + TTL] /\ touched' = now /\ now' = now /\ evicted' = evicted
  BY DEF Read, Refreshed
<1> QED
  BY <1>1, <1>2 DEF Slots, ExpiryOfLastUse, Read, Live

LEMMA MissingKeeps ==
    ASSUME ViewInv, NEW r \in Request, req[r].pc # "new", Missing(r)
    PROVE  ViewInv'
<1>1. slot \in Slots /\ slot' = slot /\ slot.rev > 0
  BY DEF ViewInv, TypeOK, Slots, Missing, NotAnswered
<1>2. /\ req' \in [Request -> Requests]
      /\ \A q \in Request : ReadIsStored(q)' /\ NotAnswered(q)'
  BY <1>1, AnswerKeeps DEF Missing, Slots
<1>3. TypeOK' /\ ExpiryOfLastUse'
  BY <1>2 DEF ViewInv, TypeOK, Missing, Requests, ExpiryOfLastUse
<1> QED
  BY <1>2, <1>3 DEF ViewInv

LEMMA InitView == Init => ViewInv
<1> SUFFICES ASSUME Init PROVE ViewInv
  OBVIOUS
<1>1. slot \in Slots /\ Idle \in Requests
  BY IdleIsRequest DEF Init, Slots, NoView, Views, Zones
<1>2. TypeOK
  BY <1>1 DEF Init, TypeOK, Slots, Requests
<1>3. \A r \in Request : req[r].pc = "new" /\ req[r].reply = "none"
  BY DEF Init, Idle
<1>4. ExpiryOfLastUse
  BY DEF Init, ExpiryOfLastUse
<1> QED
  BY <1>2, <1>3, <1>4 DEF ViewInv, ReadIsStored, NotAnswered

LEMMA OpenView == ASSUME ViewInv, Open PROVE ViewInv'
<1>1. slot' = [rev |-> 1, val |-> NoView, exp |-> now + TTL] /\ touched' = now
  BY DEF Open, Created
<1>2. \A r \in Request : req[r].pc = "new" /\ req[r].reply = "none"
  BY DEF ViewInv, NotAnswered, Open
<1>3. now \in Nat
  BY DEF ViewInv, TypeOK
<1>4. slot' \in Slots
  BY <1>1, <1>3 DEF Slots, NoView, Views, Zones
<1>5. TypeOK'
  BY <1>3, <1>4 DEF ViewInv, TypeOK, Slots, Open
<1>6. \A r \in Request : ReadIsStored(r)' /\ NotAnswered(r)'
  BY <1>2 DEF ReadIsStored, NotAnswered, Open
<1> QED
  BY <1>1, <1>3, <1>5, <1>6 DEF ViewInv, ExpiryOfLastUse

LEMMA BeginView == ASSUME ViewInv, NEW r \in Request, Begin(r) PROVE ViewInv'
<1>1. slot \in Slots /\ slot.rev \in Nat /\ slot' = slot
  BY DEF ViewInv, TypeOK, Slots, Begin
<1>2. PICK op \in Changes \cup {"get_state"}, expected \in {0, slot.rev} :
          req' = [req EXCEPT ![r] = [Idle EXCEPT !.op = op, !.expected = expected,
                                     !.pc = IF op = "set_state" THEN "resolve" ELSE "load"]]
  BY DEF Begin
<1> DEFINE next == [Idle EXCEPT !.op = op, !.expected = expected,
                                !.pc = IF op = "set_state" THEN "resolve" ELSE "load"]
<1>3. next \in Requests
  <2>1. expected \in Nat /\ op \in Changes \cup {"get_state"}
    BY <1>1, <1>2
  <2>2. (IF op = "set_state" THEN "resolve" ELSE "load") \in {"resolve", "load"}
    OBVIOUS
  <2> QED
    BY <2>1, <2>2, IdleIsRequest DEF Requests
<1>4. next.pc \in {"resolve", "load"} /\ next.reply = "none"
      /\ (next.pc = "load" => next.op # "set_state")
  BY DEF Idle
<1>5. /\ req' \in [Request -> Requests]
      /\ req'[r] = next
      /\ \A q \in Request : q # r => req'[q] = req[q]
  BY <1>2, <1>3, OneChanges
<1> HIDE DEF next
<1>9. slot.rev > 0
  BY DEF Begin
<1>6. ReadIsStored(r)' /\ NotAnswered(r)'
  BY <1>1, <1>4, <1>5, <1>9 DEF ReadIsStored, NotAnswered
<1>7. \A q \in Request : ReadIsStored(q)' /\ NotAnswered(q)'
  BY <1>1, <1>5, <1>6, <1>9, OthersKeep
<1>8. TypeOK' /\ ExpiryOfLastUse'
  BY <1>5 DEF ViewInv, TypeOK, Requests, Begin, ExpiryOfLastUse
<1> QED
  BY <1>7, <1>8 DEF ViewInv

LEMMA ResolveView == ASSUME ViewInv, NEW r \in Request, Resolve(r) PROVE ViewInv'
<1>1. CASE Missing(r)
  BY <1>1, MissingKeeps DEF Resolve
<1>2. CASE Read /\ req' = [req EXCEPT ![r].pc = "load", ![r].zone = slot.val.timezone]
  <2>1. /\ slot' \in Slots /\ slot.rev > 0
        /\ slot'.rev = slot.rev /\ slot'.val = slot.val
        /\ touched' \in Nat /\ now' \in Nat /\ evicted' \in BOOLEAN
        /\ ExpiryOfLastUse'
    BY <1>2, ReadKeeps
  <2>2. req[r] \in Requests /\ slot.val.timezone \in Zones /\ slot.rev \in Nat
    BY DEF ViewInv, TypeOK, Requests, Views
  <2> DEFINE next == [req[r] EXCEPT !.pc = "load", !.zone = slot.val.timezone]
  <2>3. next \in Requests
    BY <2>2 DEF Requests
  <2>4. /\ req' \in [Request -> Requests]
        /\ req'[r] = next
        /\ \A q \in Request : q # r => req'[q] = req[q]
    <3>1. req' = [req EXCEPT ![r] = next]
      BY <1>2 DEF ViewInv, TypeOK
    <3> QED
      BY <2>3, <3>1, OneChanges
  <2>5. req[r].reply = "none"
    BY DEF Resolve, ViewInv, NotAnswered
  <2>6. next.pc = "load" /\ next.zone \in Zones /\ next.reply = "none"
    BY <2>2, <2>5 DEF Requests
  <2> HIDE DEF next
  <2>7. ReadIsStored(r)' /\ NotAnswered(r)'
    BY <2>1, <2>4, <2>6 DEF ReadIsStored, NotAnswered
  <2>8. \A q \in Request : ReadIsStored(q)' /\ NotAnswered(q)'
    BY <2>1, <2>2, <2>4, <2>7, OthersKeep
  <2> QED
    BY <2>1, <2>4, <2>8 DEF ViewInv, TypeOK, Slots, Requests
<1> QED
  BY <1>1, <1>2 DEF Resolve

LEMMA LoadView == ASSUME ViewInv, NEW r \in Request, Load(r) PROVE ViewInv'
<1>1. CASE Missing(r)
  BY <1>1, MissingKeeps DEF Load
<1>2. CASE Read
  <2>1. /\ slot' \in Slots /\ slot.rev > 0
        /\ slot'.rev = slot.rev /\ slot'.val = slot.val
        /\ touched' \in Nat /\ now' \in Nat /\ evicted' \in BOOLEAN
        /\ ExpiryOfLastUse'
    BY <1>2, ReadKeeps
  <2>2. req[r] \in Requests /\ slot.val \in Views /\ slot.rev \in Nat
    BY DEF ViewInv, TypeOK, Requests, Slots
  <2>3. CASE \E what \in {"ok", "conflict", "unknown_or_expired"} : Answer(r, what)
    <3>1. /\ req' \in [Request -> Requests]
          /\ \A q \in Request : ReadIsStored(q)' /\ NotAnswered(q)'
      BY <2>1, <2>2, <2>3, AnswerKeeps
    <3> QED
      BY <2>1, <3>1 DEF ViewInv, TypeOK, Slots, Requests
  <2>4. CASE /\ req[r].op # "get_state" /\ ~Exhausted(r)
             /\ req' = [req EXCEPT ![r].pc = "commit", ![r].rev = slot.rev, ![r].view = slot.val]
    <3> DEFINE next == [req[r] EXCEPT !.pc = "commit", !.rev = slot.rev, !.view = slot.val]
    <3>1. next \in Requests
      BY <2>2 DEF Requests
    <3>2. /\ req' \in [Request -> Requests]
          /\ req'[r] = next
          /\ \A q \in Request : q # r => req'[q] = req[q]
      <4>1. req' = [req EXCEPT ![r] = next]
        BY <2>4 DEF ViewInv, TypeOK
      <4> QED
        BY <3>1, <4>1, OneChanges
    <3>3. /\ req[r].reply = "none" /\ (req[r].op = "set_state" => req[r].zone \in Zones)
          /\ req[r].op # "get_state"
      BY <2>4 DEF Load, ViewInv, NotAnswered
    <3>4. /\ next.pc = "commit" /\ next.rev = slot.rev /\ next.view = slot.val
          /\ next.op = req[r].op /\ next.zone = req[r].zone /\ next.reply = "none"
          /\ next.tries # MaxAttempts
      BY <2>2, <2>4, <3>3 DEF Requests, Exhausted
    <3> HIDE DEF next
    <3>5. ReadIsStored(r)' /\ NotAnswered(r)'
      BY <2>1, <2>2, <3>2, <3>3, <3>4 DEF ReadIsStored, NotAnswered
    <3>6. \A q \in Request : ReadIsStored(q)' /\ NotAnswered(q)'
      BY <2>1, <2>2, <3>2, <3>5, OthersKeep
    <3> QED
      BY <2>1, <3>2, <3>6 DEF ViewInv, TypeOK, Slots, Requests
  <2> QED
    BY <1>2, <2>3, <2>4 DEF Load, Missing, Read
<1> QED
  BY <1>1, <1>2 DEF Load

\* A compare-and-set that succeeds found what its request read, and writes the
\* next revision.
LEMMA CommitWrites ==
    ASSUME ViewInv, NEW r \in Request, Commit(r), Live(slot, now), slot.rev = req[r].rev
    PROVE  /\ slot' = [rev |-> slot.rev + 1, val |-> Written(r), exp |-> now + TTL]
           /\ touched' = now /\ Answer(r, "ok")
           /\ Written(r) = Mutate(req[r].op, slot.val, req[r].zone)
           /\ Written(r) \in Views
<1>1. CasStatus(slot, req[r].rev, now) = "ok"
  BY DEF CasStatus
<1>2. /\ slot' = Replaced(slot, Written(r), TTL, now) /\ touched' = now
      /\ Answer(r, "ok") /\ req[r].pc = "commit"
  BY <1>1 DEF Commit
<1>3. req[r].view = slot.val /\ req[r].op # "get_state"
  BY <1>2 DEF ViewInv, ReadIsStored
<1>4. req[r].op \in Changes /\ slot.val \in Views /\ (req[r].op = "set_state" => req[r].zone \in Zones)
  BY <1>2, <1>3 DEF ViewInv, TypeOK, NotAnswered
<1>5. Mutate(req[r].op, slot.val, req[r].zone) \in Views
  BY <1>4, MutateIsView
<1> QED
  BY <1>2, <1>3, <1>5 DEF Replaced, Written

\* One that does not leaves the view alone, and writes no answer of success.
LEMMA CommitRefused ==
    ASSUME ViewInv, NEW r \in Request, Commit(r), ~(Live(slot, now) /\ slot.rev = req[r].rev)
    PROVE  /\ UNCHANGED <<slot, touched, now, evicted>>
           /\ \/ Answer(r, "unknown_or_expired")
              \/ Answer(r, "conflict")
              \/ req' = Retry(r) /\ req[r].tries # MaxAttempts
<1>1. CasStatus(slot, req[r].rev, now) \in {"missing", "conflict"}
  BY DEF CasStatus
<1>2. req[r].pc = "commit" /\ req[r].tries # MaxAttempts
  BY DEF Commit, ViewInv, ReadIsStored
<1> HIDE DEF CasStatus
<1> QED
  BY <1>1, <1>2 DEF Commit

LEMMA CommitView == ASSUME ViewInv, NEW r \in Request, Commit(r) PROVE ViewInv'
<1>1. req[r] \in Requests /\ slot \in Slots /\ now \in Nat
  BY DEF ViewInv, TypeOK, Requests, Slots
<1>2. req[r].pc = "commit" /\ slot.rev > 0
  BY DEF Commit, ViewInv, ReadIsStored
<1>3. CASE Live(slot, now) /\ slot.rev = req[r].rev
  <2>1. /\ slot' = [rev |-> slot.rev + 1, val |-> Written(r), exp |-> now + TTL]
        /\ touched' = now /\ Answer(r, "ok") /\ Written(r) \in Views
    BY <1>3, CommitWrites
  <2>2. slot' \in Slots /\ slot'.rev = slot.rev + 1 /\ slot'.exp = now + TTL
    BY <1>1, <2>1 DEF Slots
  <2>3. slot'.rev >= slot.rev /\ slot'.rev # slot.rev
    BY <1>1, <2>2 DEF Slots
  <2>4. /\ req' \in [Request -> Requests]
        /\ \A q \in Request : ReadIsStored(q)' /\ NotAnswered(q)'
    BY <1>2, <2>1, <2>2, <2>3, AnswerKeeps
  <2>5. now' = now /\ evicted' = evicted
    BY DEF Commit
  <2> QED
    BY <1>1, <2>1, <2>2, <2>4, <2>5 DEF ViewInv, TypeOK, Slots, Requests, ExpiryOfLastUse
<1>4. CASE ~(Live(slot, now) /\ slot.rev = req[r].rev)
  <2>1. /\ UNCHANGED <<slot, touched, now, evicted>>
        /\ \/ Answer(r, "unknown_or_expired")
           \/ Answer(r, "conflict")
           \/ req' = Retry(r) /\ req[r].tries # MaxAttempts
    BY <1>4, CommitRefused
  <2>2. slot' \in Slots /\ slot'.rev >= slot.rev
    BY <1>1, <2>1 DEF Slots
  <2>3. /\ req' \in [Request -> Requests]
        /\ \A q \in Request : ReadIsStored(q)' /\ NotAnswered(q)'
    <3>1. CASE \E what \in {"ok", "conflict", "unknown_or_expired"} : Answer(r, what)
      BY <1>2, <2>1, <2>2, <3>1, AnswerKeeps
    <3>2. CASE req' = Retry(r) /\ req[r].tries # MaxAttempts
      <4> DEFINE next == [req[r] EXCEPT !.pc = "load", !.tries = @ + 1]
      <4>1. req[r].tries + 1 \in 0 .. MaxAttempts
        BY <1>1, <3>2 DEF Requests
      <4>2. next \in Requests
        BY <1>1, <4>1 DEF Requests
      <4>3. req' = [req EXCEPT ![r] = next]
        BY <3>2 DEF Retry, ViewInv, TypeOK
      <4>4. /\ req' \in [Request -> Requests]
            /\ req'[r] = next
            /\ \A q \in Request : q # r => req'[q] = req[q]
        BY <4>2, <4>3, OneChanges
      <4>5. req[r].reply = "none" /\ (req[r].op = "set_state" => req[r].zone \in Zones)
        BY <1>2 DEF ViewInv, NotAnswered
      <4>6. /\ next.pc = "load" /\ next.reply = req[r].reply
            /\ next.op = req[r].op /\ next.zone = req[r].zone
        BY <1>1 DEF Requests
      <4> HIDE DEF next
      <4>7. ReadIsStored(r)' /\ NotAnswered(r)'
        BY <1>2, <2>1, <4>4, <4>5, <4>6 DEF ReadIsStored, NotAnswered
      <4> QED
        BY <1>2, <2>1, <2>2, <4>4, <4>7, OthersKeep
    <3> QED
      BY <2>1, <3>1, <3>2
  <2> QED
    BY <2>1, <2>3 DEF ViewInv, TypeOK, Requests, ExpiryOfLastUse
<1> QED
  BY <1>3, <1>4

\* Time passes, and a full memory store drops the view.
LEMMA EnvironmentView == ASSUME ViewInv, Tick \/ Evict PROVE ViewInv'
<1>1. req' = req /\ slot'.rev = slot.rev /\ slot'.val = slot.val
  BY DEF ViewInv, TypeOK, Tick, Evict
<1>2. CASE Tick
  BY <1>1, <1>2 DEF ViewInv, TypeOK, ReadIsStored, NotAnswered, ExpiryOfLastUse, Tick
<1>3. CASE Evict
  <2>1. slot \in Slots /\ now \in Nat /\ slot' = [slot EXCEPT !.exp = now]
    BY <1>3 DEF ViewInv, TypeOK, Slots, Evict
  <2>2. slot' \in Slots
    BY <2>1 DEF Slots
  <2>3. TypeOK'
    BY <1>3, <2>2 DEF ViewInv, TypeOK, Slots, Evict
  <2>4. ExpiryOfLastUse'
    BY <1>3 DEF ExpiryOfLastUse, Evict
  <2>5. \A q \in Request : ReadIsStored(q)' /\ NotAnswered(q)'
    BY <1>1 DEF ViewInv, ReadIsStored, NotAnswered
  <2> QED
    BY <2>3, <2>4, <2>5 DEF ViewInv
<1> QED
  BY <1>2, <1>3

LEMMA StepView == ViewInv /\ [Next]_vars => ViewInv'
<1> SUFFICES ASSUME ViewInv, [Next]_vars PROVE ViewInv'
  OBVIOUS
<1>1. CASE Open
  BY <1>1, OpenView
<1>2. CASE Tick \/ Evict
  BY <1>2, EnvironmentView
<1>3. ASSUME NEW r \in Request, Begin(r) \/ Work(r) PROVE ViewInv'
  BY <1>3, BeginView, ResolveView, LoadView, CommitView DEF Work
<1>4. CASE UNCHANGED vars
  BY <1>4 DEF vars, ViewInv, TypeOK, ReadIsStored, NotAnswered, ExpiryOfLastUse
<1> QED
  BY <1>1, <1>2, <1>3, <1>4 DEF Next

LEMMA ViewInvariant == Spec => []ViewInv
BY InitView, StepView, PTL DEF Spec

\* Every variable of a view and its requests keeps its type; in particular no
\* request writes more often than the bound on its attempts.
THEOREM ViewsTypeOK == Spec => []TypeOK
<1>1. ViewInv => TypeOK
  BY DEF ViewInv
<1> QED
  BY <1>1, ViewInvariant, PTL

\* A view in use does not expire (the idle expiry of apps/state.py).
THEOREM ViewsInUseStay == Spec => []UseKeepsAlive
<1>1. ViewInv => UseKeepsAlive
  BY DEF ViewInv, TypeOK, ExpiryOfLastUse, UseKeepsAlive, Live
<1> QED
  BY <1>1, ViewInvariant, PTL

\* A view that is gone does not come back, whatever a request still holds.
THEOREM ViewsStayGone == Spec => StaysGone
<1>1. ASSUME ViewInv, [Next]_vars, slot.rev > 0, ~Live(slot, now)
      PROVE  ~Live(slot, now)'
  <2>1. now \in Nat /\ slot \in Slots /\ slot.exp <= now
    BY <1>1 DEF ViewInv, TypeOK, Slots, Live
  <2>2. CASE slot' = slot /\ now' \in {now, now + 1}
    BY <2>1, <2>2 DEF Slots, Live
  <2>3. ASSUME NEW r \in Request, Work(r) PROVE slot' = slot /\ now' = now
    BY <1>1, <2>3, CommitRefused DEF Work, Resolve, Load, Missing, Read
  <2>4. slot' = slot /\ now' \in {now, now + 1}
    <3>1. ~Open /\ ~Evict
      BY <1>1 DEF Open, Evict
    <3>2. Tick => slot' = slot /\ now' = now + 1
      BY DEF Tick
    <3>3. (\E r \in Request : Begin(r)) => slot' = slot /\ now' = now
      BY DEF Begin
    <3>4. UNCHANGED vars => slot' = slot /\ now' = now
      BY DEF vars
    <3> QED
      BY <1>1, <2>3, <3>1, <3>2, <3>3, <3>4 DEF Next
  <2> QED
    BY <2>2, <2>4
<1> QED
  BY <1>1, ViewInvariant, PTL DEF Spec, StaysGone

\* A change is applied to what is stored when it is written (set_state's time
\* zone apart), however many requests race.
THEOREM ChangesBuildOnLatest == Spec => BuildsOnLatest
<1>1. ASSUME ViewInv, [Next]_vars
      PROVE  \A r \in Request : Writes(r) /\ req[r].op # "set_state" =>
                slot'.val = Mutate(req[r].op, slot.val, req[r].zone)
  <2> SUFFICES ASSUME NEW r \in Request, Writes(r)
               PROVE  slot'.val = Mutate(req[r].op, slot.val, req[r].zone)
    OBVIOUS
  <2>1. req[r].pc = "commit" /\ req'[r].reply = "ok" /\ req[r].reply = "none" /\ slot.rev > 0
    BY <1>1 DEF Writes, ViewInv, NotAnswered, ReadIsStored
  <2>2. req \in [Request -> Requests]
    BY <1>1 DEF ViewInv, TypeOK, Requests
  <2>3. PICK q \in Request : Begin(q) \/ Work(q)
    BY <1>1, <2>1 DEF Next, vars, Open, Evict, Tick
  <2>4. q = r
    <3> SUFFICES ASSUME q # r PROVE req'[r] = req[r]
      BY <2>1
    <3>1. CASE Begin(q)
      BY <2>2, <3>1 DEF Begin
    <3>2. CASE Resolve(q)
      BY <2>2, <3>2 DEF Resolve, Missing, Answer
    <3>3. CASE Load(q)
      BY <2>2, <3>3 DEF Load, Missing, Answer
    <3>4. CASE Commit(q)
      BY <2>2, <3>4 DEF Commit, Answer, Retry
    <3> QED
      BY <2>3, <3>1, <3>2, <3>3, <3>4 DEF Work
  <2>5. Commit(r)
    BY <2>1, <2>3, <2>4 DEF Work, Begin, Resolve, Load
  <2>6. CASE Live(slot, now) /\ slot.rev = req[r].rev
    BY <1>1, <2>5, <2>6, CommitWrites
  <2>7. CASE ~(Live(slot, now) /\ slot.rev = req[r].rev)
    <3>1. \/ Answer(r, "unknown_or_expired")
          \/ Answer(r, "conflict")
          \/ req' = Retry(r)
      BY <1>1, <2>5, <2>7, CommitRefused
    <3>2. req'[r].reply # "ok"
      BY <2>1, <2>2, <3>1 DEF Answer, Retry, Idle, Requests
    <3> QED
      BY <2>1, <3>2
  <2> QED
    BY <2>6, <2>7
<1> QED
  BY <1>1, ViewInvariant, PTL DEF Spec, BuildsOnLatest
=============================================================================

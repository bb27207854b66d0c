------------------------ MODULE OperationStore_proofs ------------------------
(***************************************************************************)
(* Theorems about OperationStore for every set of requests, every lease,   *)
(* expiry and retention, any clock skew and any number of calls.           *)
(***************************************************************************)
EXTENDS OperationStore, TLAPS

USE DurationsPositive, NullsDistinct, OpKindIsKind, BoundsNatural, PostsAreNoTasks
    DEF DurationsPositive, NullsDistinct, OpKindIsKind, BoundsNatural, PostsAreNoTasks

Drafts == [rev : Nat, val : Record, ttl : Nat, out : Reply \cup {"claimed"}]

-----------------------------------------------------------------------------
(***************************************************************************)
(* The record operators return records.                                    *)
(***************************************************************************)
LEMMA BlankRecordType ==
    ASSUME NEW k \in Kind, NEW s \in Pending \cup {"executing"}, NEW d \in Digest \cup {NoDigest}, NEW t \in Nat
    PROVE  BlankRecord(k, s, d, t) \in Record
BY DEF BlankRecord, Record, State, Pending, Answer

LEMMA GrantedType ==
    ASSUME NEW rec \in Record, NEW q \in Ask, NEW r \in Request, NEW t \in Nat, rec.state \in Pending
    PROVE  /\ Granted(rec, q, r, t) \in Record
           /\ Redelivered(rec, r, t) \in Record
<1> t + Lease \in Nat
  OBVIOUS
<1>1. Granted(rec, q, r, t) \in Record
  BY DEF Granted, Record, State, Ask
<1>2. Redelivered(rec, r, t) \in Record
  BY DEF Redelivered, Record, State
<1> QED BY <1>1, <1>2

LEMMA LapsedType ==
    ASSUME NEW rec \in Record
    PROVE  /\ Lapsed(rec) \in Record
           /\ Reconciled(rec) \in Record
BY DEF Lapsed, Reconciled, Record, State, Terminal

LEMMA SettledType ==
    ASSUME NEW rec \in Record, NEW how \in Settlement, NEW r \in Request, NEW h \in BOOLEAN, NEW t \in Nat
    PROVE  /\ Settled(rec, how, r, h, t) \in Record
           /\ SettledTTL(rec, how, t) \in Nat
<1> t + PendingTTL \in Nat
  OBVIOUS
<1>1. Settled(rec, how, r, h, t) \in Record
  <2>1. CASE how = "succeed" BY <2>1 DEF Settled, Record, State, Terminal
  <2>2. CASE how = "fail" BY <2>2 DEF Settled, Record, State, Terminal
  <2>3. CASE how = "mark_unknown" BY <2>3 DEF Settled, Record, State, Terminal
  <2>4. CASE how = "park" BY <2>4 DEF Settled, Record, State, Pending
  <2>5. CASE how = "release" BY <2>5 DEF Settled, Record, State
  <2> QED BY <2>1, <2>2, <2>3, <2>4, <2>5 DEF Settlement
<1>2. SettledTTL(rec, how, t) \in Nat
  BY DEF SettledTTL, Settlement, Later, Record
<1> QED BY <1>1, <1>2

LEMMA NothingType == Nothing \in Drafts
BY BlankRecordType DEF Nothing, Drafts, Reply, Pending

LEMMA ReadingType == ASSUME TypeOK PROVE Reading \subseteq Nat
BY DEF Reading, TypeOK

-----------------------------------------------------------------------------
(***************************************************************************)
(* Type correctness.                                                       *)
(***************************************************************************)
LEMMA InitType == Init => TypeOK
<1> SUFFICES ASSUME Init PROVE TypeOK
  OBVIOUS
<1>1. Nothing.val \in Record /\ BlankRecord(OpKind, "prepared", NoDigest, 0) \in Record
  BY NothingType, BlankRecordType DEF Drafts, Pending
<1>2. slot \in [rev : Nat, val : Record, exp : Nat]
  BY <1>1 DEF Init
<1>3. draft \in [Request -> Drafts]
  BY NothingType DEF Init
<1>4. ask \in [Request -> Ask]
  BY DEF Init, NoAsk, Ask
<1>5. seen \in [Request -> [applied : BOOLEAN, rejected : BOOLEAN, uncertain : BOOLEAN]]
  BY DEF Init, Unseen
<1>6. dropped \in BOOLEAN
  BY Zenon DEF Init
<1> QED
  BY <1>2, <1>3, <1>4, <1>5, <1>6 DEF Init, TypeOK, Drafts, PC, Job, Ending, Reply

\* The client's side: a clock tick, a record opened, a request that arrives.
LEMMA TickType == TypeOK /\ Tick => TypeOK'
BY DEF TypeOK, Tick, googleVars

LEMMA OpenType == TypeOK /\ Open => TypeOK'
<1> SUFFICES ASSUME TypeOK, Open PROVE TypeOK'
  OBVIOUS
<1>1. PICK d \in Digest, t \in Reading :
        slot' = Created(IF OpKind = "commit" THEN CommitRecord(d, t) ELSE ConfirmationRecord(d, t),
                        PendingTTL, now)
  BY DEF Open
<1>2. t \in Nat /\ t + PendingTTL \in Nat /\ now + PendingTTL \in Nat
  BY ReadingType DEF TypeOK
<1>3. CommitRecord(d, t) \in Record /\ ConfirmationRecord(d, t) \in Record
  BY <1>2, BlankRecordType DEF CommitRecord, ConfirmationRecord, Kind, Pending
<1>4. slot' \in [rev : Nat, val : Record, exp : Nat]
  BY <1>1, <1>2, <1>3 DEF Created
<1> QED
  BY <1>4 DEF Open, TypeOK, googleVars

LEMMA ArriveType == ASSUME NEW r \in Request, TypeOK, Arrive(r) PROVE TypeOK'
<1>1. Asks \subseteq Ask
  BY DEF Asks, Ask, Kind
<1>2. ask' \in [Request -> Ask] /\ pc' \in [Request -> PC]
  BY <1>1 DEF Arrive, TypeOK, PC
<1> QED
  BY <1>2 DEF Arrive, TypeOK, googleVars

LEMMA CreateTaskType == ASSUME NEW r \in Request, TypeOK, CreateTask(r) PROVE TypeOK'
<1>1. pc' \in [Request -> PC]
  <2>1. pc \in [Request -> PC]
    BY DEF TypeOK
  <2> QED BY <2>1 DEF CreateTask, PC
<1>2. slot' \in [rev : Nat, val : Record, exp : Nat]
  <2>1. CASE UNCHANGED slot
    BY <2>1 DEF TypeOK
  <2>2. ASSUME NEW t \in Reading, slot' = Created(TaskRecord(r, t), Lease + Retention, now)
        PROVE  slot' \in [rev : Nat, val : Record, exp : Nat]
    <3>1. t \in Nat /\ t + Lease \in Nat /\ now + (Lease + Retention) \in Nat
      BY ReadingType DEF TypeOK
    <3>2. BlankRecord("task", "executing", NoDigest, t + Lease) \in Record
      BY <3>1, BlankRecordType DEF Kind
    <3>3. TaskRecord(r, t) \in Record
      BY <3>1, <3>2 DEF TaskRecord, Record
    <3> QED BY <2>2, <3>1, <3>3 DEF Created
  <2> QED BY <2>1, <2>2 DEF CreateTask
<1> QED
  BY <1>1, <1>2 DEF CreateTask, TypeOK, googleVars

\* What the loop leaves behind when it does not touch the store.
LoopTypes ==
    /\ pc' \in [Request -> PC]
    /\ draft' \in [Request -> Drafts]
    /\ again' \subseteq Request
    /\ reply' \in [Request -> Reply]

LEMMA FinishType ==
    ASSUME NEW r \in Request, NEW a \in Reply, TypeOK, Finish(r, a)
    PROVE  pc' \in [Request -> PC] /\ reply' \in [Request -> Reply]
BY DEF Finish, TypeOK, PC

LEMMA DraftType ==
    ASSUME NEW r \in Request, NEW val \in Record, NEW ttl \in Nat,
           NEW out \in Reply \cup {"claimed"}, TypeOK, Draft(r, val, ttl, out)
    PROVE  LoopTypes
BY DEF Draft, LoopTypes, TypeOK, PC, Drafts

LEMMA VanishedType ==
    ASSUME NEW r \in Request, TypeOK, Vanished(r)
    PROVE  pc' \in [Request -> PC] /\ reply' \in [Request -> Reply] /\ again' \subseteq Request
<1>1. CASE job[r] = "claim" /\ ask[r].kind = "task" /\ r \notin again
  <2>1. pc \in [Request -> PC] /\ reply \in [Request -> Reply] /\ again \subseteq Request
    BY DEF TypeOK
  <2>2. pc' = [pc EXCEPT ![r] = "create"] /\ again' = again \cup {r} /\ UNCHANGED reply
    BY <1>1 DEF Vanished
  <2> QED BY <2>1, <2>2 DEF PC
<1>2. CASE ~(job[r] = "claim" /\ ask[r].kind = "task" /\ r \notin again)
  <2>1. PICK a \in Reply : Finish(r, a)
    BY <1>2 DEF Vanished, Reply, ClaimReply
  <2> QED BY <1>2, <2>1, FinishType DEF Vanished, TypeOK
<1> QED BY <1>1, <1>2

LEMMA RefusedType ==
    ASSUME NEW r \in Request, NEW out \in Reply, NEW rec \in Record, TypeOK, Refused(r, out, rec)
    PROVE  LoopTypes
<1>1. draft \in [Request -> Drafts] /\ Nothing \in Drafts
  BY NothingType DEF TypeOK, Drafts
<1>2. [Nothing EXCEPT !.val = rec] \in Drafts
  BY <1>1 DEF Drafts
<1>3. CASE out = "missing"
  <2>1. Vanished(r) /\ draft' = [draft EXCEPT ![r] = Nothing]
    BY <1>3 DEF Refused
  <2>2. draft' \in [Request -> Drafts]
    BY <1>1, <2>1
  <2> QED BY <2>1, <2>2, VanishedType DEF LoopTypes
<1>4. CASE out = "unknown"
  <2>1. /\ pc' = [pc EXCEPT ![r] = "resolve"]
        /\ draft' = [draft EXCEPT ![r] = [Nothing EXCEPT !.val = rec]]
        /\ UNCHANGED <<reply, again>>
    BY <1>4 DEF Refused
  <2>2. draft' \in [Request -> Drafts]
    BY <1>1, <1>2, <2>1
  <2> QED BY <2>1, <2>2 DEF LoopTypes, TypeOK, PC
<1>5. CASE out \notin {"missing", "unknown"}
  <2>1. Finish(r, out) /\ draft' = [draft EXCEPT ![r] = Nothing] /\ UNCHANGED again
    BY <1>5 DEF Refused
  <2>2. draft' \in [Request -> Drafts]
    BY <1>1, <2>1
  <2> QED BY <2>1, <2>2, FinishType DEF LoopTypes, TypeOK
<1> QED BY <1>3, <1>4, <1>5

LEMMA DecideClaimType ==
    ASSUME NEW r \in Request, NEW t \in Nat, TypeOK, DecideClaim(r, slot.val, t)
    PROVE  LoopTypes
<1> DEFINE rec == slot.val
           delivery == ask[r].kind = "task"
           status == IF delivery THEN DeliveryStatus(rec) ELSE ClaimStatus(rec, ask[r], t)
           grant == IF delivery THEN Redelivered(rec, r, t) ELSE Granted(rec, ask[r], r, t)
<1>1. rec \in Record /\ ask[r] \in Ask /\ Lease + Retention \in Nat
  BY DEF TypeOK
<1>2. status \in Reply \cup {"claimed", "lapsed"}
  BY <1>1 DEF DeliveryStatus, ClaimStatus, Replay, Record, State, Pending, Terminal, Reply, ClaimReply
<1>3. CASE status = "claimed" /\ Draft(r, grant, Lease + Retention, "claimed")
  <2>1. rec.state \in Pending
    BY <1>1, <1>3 DEF DeliveryStatus, ClaimStatus, Replay, Record, State, Terminal
  <2>2. grant \in Record
    BY <1>1, <2>1, GrantedType
  <2> QED BY <1>1, <1>3, <2>2, DraftType
<1>4. CASE status = "lapsed" /\ Draft(r, Lapsed(rec), Retention, "unknown")
  BY <1>1, <1>4, LapsedType, DraftType DEF Reply, ClaimReply
<1>5. CASE status \notin {"claimed", "lapsed"} /\ Refused(r, status, rec)
  BY <1>1, <1>2, <1>5, RefusedType
<1> QED BY <1>3, <1>4, <1>5 DEF DecideClaim

LEMMA DecideSettleType ==
    ASSUME NEW r \in Request, NEW t \in Nat, TypeOK, job[r] \in Settlement, DecideSettle(r, slot.val, t)
    PROVE  LoopTypes
<1> DEFINE hints == Reconcilable /\ started[r] > 0
<1>1. slot.val \in Record /\ hints \in BOOLEAN
  BY DEF TypeOK
<1>2. CASE Draft(r, Settled(slot.val, job[r], r, hints, t), SettledTTL(slot.val, job[r], t), "settled")
  <2>1. Settled(slot.val, job[r], r, hints, t) \in Record /\ SettledTTL(slot.val, job[r], t) \in Nat
    BY <1>1, SettledType
  <2> QED BY <1>2, <2>1, DraftType DEF Reply
<1>3. CASE Finish(r, "settled") /\ UNCHANGED <<draft, again>>
  BY <1>3, FinishType DEF LoopTypes, TypeOK, Drafts, Reply
<1> QED BY <1>2, <1>3 DEF DecideSettle

LEMMA DecideResolveType ==
    ASSUME NEW r \in Request, TypeOK, DecideResolve(r, slot.val)
    PROVE  LoopTypes
<1>1. slot.val \in Record
  BY DEF TypeOK
<1>2. CASE Draft(r, Reconciled(slot.val), Retention, "saved")
  BY <1>1, <1>2, LapsedType, DraftType DEF Reply, ClaimReply
<1>3. CASE /\ Finish(r, IF slot.val.state = "succeeded" THEN "saved" ELSE "unknown")
           /\ UNCHANGED <<draft, again>>
  BY <1>3, FinishType DEF LoopTypes, TypeOK, Drafts, Reply, ClaimReply
<1> QED BY <1>2, <1>3 DEF DecideResolve

LEMMA ReadType == ASSUME NEW r \in Request, TypeOK, Read(r) PROVE TypeOK'
<1>1. LoopTypes
  <2>1. CASE Vanished(r) /\ UNCHANGED draft
    BY <2>1, VanishedType DEF LoopTypes, TypeOK, Drafts
  <2>2. ASSUME NEW t \in Reading, DecideClaim(r, slot.val, t) PROVE LoopTypes
    BY <2>2, ReadingType, DecideClaimType
  <2>3. CASE DecideResolve(r, slot.val)
    BY <2>3, DecideResolveType
  <2>4. ASSUME NEW t \in Reading, job[r] \in Settlement, DecideSettle(r, slot.val, t) PROVE LoopTypes
    BY <2>4, ReadingType, DecideSettleType
  <2> QED BY <2>1, <2>2, <2>3, <2>4 DEF Read
<1> QED BY <1>1 DEF Read, LoopTypes, Drafts, TypeOK, googleVars

LEMMA WriteType == ASSUME NEW r \in Request, TypeOK, Write(r) PROVE TypeOK'
<1>0. draft \in [Request -> Drafts] /\ Nothing \in Drafts /\ [draft EXCEPT ![r] = Nothing] \in [Request -> Drafts]
  BY NothingType DEF TypeOK, Drafts
<1>1. draft[r] \in Drafts /\ slot.rev \in Nat /\ now \in Nat /\ tries[r] \in 0 .. CasAttempts
  BY <1>0 DEF TypeOK
<1>2. CASE Written(r)
  <2>1. slot' \in [rev : Nat, val : Record, exp : Nat]
    BY <1>1, <1>2 DEF Written, Replaced, Drafts
  <2>2. CASE draft[r].out = "claimed"
    <3>1. pc' \in [Request -> PC] /\ draft' \in [Request -> Drafts] /\ UNCHANGED <<reply, again, tries>>
      BY <1>0, <1>2, <2>2 DEF Written, TypeOK, PC
    <3> QED BY <2>1, <3>1 DEF Write, TypeOK, Drafts, googleVars
  <2>3. CASE draft[r].out # "claimed"
    <3>1. LoopTypes
      BY <1>1, <1>2, <2>3, RefusedType DEF Written, Drafts
    <3> QED BY <1>2, <2>1, <2>3, <3>1 DEF Written, Write, TypeOK, LoopTypes, Drafts, googleVars
  <2> QED BY <2>2, <2>3
<1>3. CASE Conflict(r)
  <2>1. tries[r] + 1 <= CasAttempts => tries' \in [Request -> 0 .. CasAttempts]
    BY <1>1, <1>3 DEF Conflict, TypeOK
  <2>2. CASE tries[r] + 1 < CasAttempts /\ pc' = [pc EXCEPT ![r] = "read"] /\ UNCHANGED reply
    <3>1. pc' \in [Request -> PC] /\ draft' \in [Request -> Drafts] /\ UNCHANGED <<slot, again, reply>>
      BY <1>0, <1>3, <2>2 DEF Conflict, TypeOK, PC
    <3> QED BY <1>1, <2>1, <2>2, <3>1 DEF Write, TypeOK, Drafts, googleVars
  <2>3. CASE tries[r] + 1 = CasAttempts /\ Finish(r, "contended")
    <3>1. pc' \in [Request -> PC] /\ reply' \in [Request -> Reply]
      BY <2>3, FinishType DEF Reply
    <3>2. draft' \in [Request -> Drafts] /\ UNCHANGED <<slot, again>>
      BY <1>0, <1>3 DEF Conflict
    <3> QED BY <1>1, <2>1, <2>3, <3>1, <3>2 DEF Write, TypeOK, Drafts, googleVars
  <2> QED BY <1>3, <2>2, <2>3 DEF Conflict
<1>4. CASE Vanished(r) /\ draft' = [draft EXCEPT ![r] = Nothing] /\ UNCHANGED <<slot, tries>>
  <2>1. pc' \in [Request -> PC] /\ reply' \in [Request -> Reply] /\ again' \subseteq Request
    BY <1>4, VanishedType
  <2>2. draft' \in [Request -> Drafts]
    BY <1>0, <1>4
  <2> QED BY <1>4, <2>1, <2>2 DEF Write, TypeOK, Drafts, googleVars
<1> QED BY <1>2, <1>3, <1>4 DEF Write

LEMMA ResolveType == ASSUME NEW r \in Request, TypeOK, Resolve(r) PROVE TypeOK'
<1>1. draft' \in [Request -> Drafts]
  BY NothingType DEF Resolve, TypeOK, Drafts
<1>2. tries' \in [Request -> 0 .. CasAttempts]
  BY DEF Resolve, TypeOK
<1>3. pc' \in [Request -> PC] /\ job' \in [Request -> Job] /\ reply' \in [Request -> Reply]
  <2>1. CASE pc' = [pc EXCEPT ![r] = "read"] /\ job' = [job EXCEPT ![r] = "resolve"] /\ UNCHANGED reply
    BY <2>1 DEF TypeOK, PC, Job
  <2>2. CASE Finish(r, "unknown") /\ UNCHANGED job
    BY <2>2, FinishType DEF TypeOK, Reply, ClaimReply
  <2>3. \/ pc' = [pc EXCEPT ![r] = "read"] /\ job' = [job EXCEPT ![r] = "resolve"] /\ UNCHANGED reply
        \/ Finish(r, "unknown") /\ UNCHANGED job
    BY Zenon DEF Resolve
  <2> QED BY <2>1, <2>2, <2>3
<1> QED BY <1>1, <1>2, <1>3 DEF Resolve, TypeOK, Drafts, googleVars

LEMMA StartCallType == ASSUME NEW r \in Request, TypeOK, StartCall(r) PROVE TypeOK'
<1>1. started' \in [Request -> 0 .. MaxCalls]
  BY DEF StartCall, TypeOK
<1> QED BY <1>1 DEF StartCall, TypeOK

LEMMA LandType == ASSUME NEW r \in Request, TypeOK, Land(r) PROVE TypeOK'
BY DEF Land, TypeOK

LEMMA FinishCallType == ASSUME NEW r \in Request, TypeOK, FinishCall(r) PROVE TypeOK'
<1> DEFINE Log == [applied : BOOLEAN, rejected : BOOLEAN, uncertain : BOOLEAN]
<1>1. seen' \in [Request -> Log]
  <2>1. seen[r] \in Log /\ seen \in [Request -> Log]
    BY DEF TypeOK
  <2>2. /\ [seen[r] EXCEPT !.applied = TRUE] \in Log
        /\ [seen[r] EXCEPT !.rejected = TRUE] \in Log
        /\ [seen[r] EXCEPT !.uncertain = TRUE] \in Log
    BY <2>1
  <2>3. \/ seen' = [seen EXCEPT ![r] = [seen[r] EXCEPT !.applied = TRUE]]
        \/ seen' = [seen EXCEPT ![r] = [seen[r] EXCEPT !.rejected = TRUE]]
        \/ seen' = [seen EXCEPT ![r] = [seen[r] EXCEPT !.uncertain = TRUE]]
    BY DEF FinishCall
  <2> QED BY <2>1, <2>2, <2>3
<1>2. loose' \subseteq Request
  BY DEF FinishCall, TypeOK
<1> QED BY <1>1, <1>2 DEF FinishCall, TypeOK

LEMMA EndBodyType == ASSUME NEW r \in Request, TypeOK, EndBody(r) PROVE TypeOK'
<1>1. Endings(r) \subseteq Ending
  BY DEF Endings
<1> QED BY <1>1 DEF EndBody, TypeOK, PC, googleVars

LEMMA SettlementOfType == ASSUME NEW r \in Request PROVE SettlementOf(r) \in Settlement
BY DEF SettlementOf, Settlement

LEMMA SettleType == ASSUME NEW r \in Request, TypeOK, Settle(r) PROVE TypeOK'
<1>1. job' \in [Request -> Job] /\ tries' \in [Request -> 0 .. CasAttempts]
  BY SettlementOfType DEF Settle, TypeOK, Job
<1> QED BY <1>1 DEF Settle, TypeOK, PC, googleVars

LEMMA SettleLostType == ASSUME NEW r \in Request, TypeOK, SettleLost(r) PROVE TypeOK'
<1>1. draft' \in [Request -> Drafts]
  BY NothingType DEF SettleLost, TypeOK, Drafts
<1>2. pc' \in [Request -> PC] /\ reply' \in [Request -> Reply]
  BY FinishType DEF SettleLost, Reply
<1> QED BY <1>1, <1>2 DEF SettleLost, TypeOK, Drafts, googleVars

LEMMA CrashType == ASSUME NEW r \in Request, TypeOK, Crash(r) PROVE TypeOK'
<1>1. draft' \in [Request -> Drafts]
  BY NothingType DEF Crash, TypeOK, Drafts
<1> QED BY <1>1 DEF Crash, TypeOK, PC, Drafts, googleVars

\* Every variable of the store and of its clients keeps its type: in particular
\* records stay complete through claims, settlements, lapses and reconciliation
\* (the decide() and change() closures of operations.py), and the CAS loop stays
\* within its bound.
THEOREM TypeCorrect == Spec => []TypeOK
<1>1. Init => TypeOK
  BY InitType
<1>2. TypeOK /\ [Next]_vars => TypeOK'
  <2> SUFFICES ASSUME TypeOK, [Next]_vars PROVE TypeOK'
    OBVIOUS
  <2>1. CASE UNCHANGED vars
    BY <2>1 DEF vars, TypeOK
  <2>2. CASE Tick
    BY <2>2, TickType
  <2>3. CASE Open
    BY <2>3, OpenType
  <2>4. ASSUME NEW r \in Request, Step(r) PROVE TypeOK'
    BY <2>4, ArriveType, CreateTaskType, ReadType, WriteType, ResolveType, StartCallType, LandType,
       FinishCallType, EndBodyType, SettleType, SettleLostType, CrashType DEF Step
  <2> QED BY <2>1, <2>2, <2>3, <2>4 DEF Next
<1> QED BY <1>1, <1>2, PTL DEF Spec

-----------------------------------------------------------------------------
(***************************************************************************)
(* The safety theorems: SafetyInv is inductive as long as tasks' records   *)
(* are recreated quietly, which is void for commits and confirmations, and *)
(* what the runs check follows from it.                                    *)
(***************************************************************************)
LEMMA InitSafety == Init => SafetyInv
BY DEF Init, SafetyInv, NoDeliveries, OnlyHolderActs, TrackerKnows, EndingIsHonest, ClearedIsUntouched,
       DraftsAreFresh, FailedIsOver, Running, Unseen,
       MayHaveActed, Disowned, Misjudged, NoAsk, Nothing, BlankRecord, Pending

\* A clock tick changes nothing the invariant speaks of.
LEMMA TickSafety == ASSUME SafetyInv, Tick PROVE SafetyInv'
BY DEF Tick, googleVars, SafetyInv, NoDeliveries, OnlyHolderActs, TrackerKnows, EndingIsHonest,
       ClearedIsUntouched, DraftsAreFresh, DraftContinues, FailedIsOver, Running,
       MayHaveActed, Disowned, Misjudged, Holds, Uncertain

\* The record is opened while nobody can have read, let alone claimed, it.
LEMMA OpenSafety == ASSUME TypeOK, SafetyInv, Open PROVE SafetyInv'
<1>1. slot.rev = 0 /\ slot.val.state \in Pending
  BY DEF Open, SafetyInv
<1>2. slot'.rev = 1 /\ slot'.val.state \in Pending
  BY DEF Open, Created, CommitRecord, ConfirmationRecord, BlankRecord, Pending
<1>3. UNCHANGED <<now, pc, ask, job, draft, tries, again, call, seen, started, effect, loose, ending, reply>>
  BY DEF Open, googleVars
<1>4. \A r \in Request : ~Running(r) /\ (MayHaveActed(r) => Disowned(r)) /\ pc[r] # "write"
  BY <1>1 DEF SafetyInv, OnlyHolderActs, Holds, DraftsAreFresh
<1>5. OnlyHolderActs' /\ DraftsAreFresh' /\ FailedIsOver'
  BY <1>3, <1>4 DEF OnlyHolderActs, DraftsAreFresh, FailedIsOver, Running, MayHaveActed, Disowned, Misjudged
<1>6. NoDeliveries' /\ TrackerKnows' /\ EndingIsHonest' /\ ClearedIsUntouched'
  BY <1>3 DEF SafetyInv, NoDeliveries, TrackerKnows, EndingIsHonest, ClearedIsUntouched,
     MayHaveActed, Disowned, Misjudged, Uncertain
<1> QED BY <1>2, <1>5, <1>6 DEF SafetyInv

-----------------------------------------------------------------------------
(***************************************************************************)
(* Steps that move one request without touching the store or Google.       *)
(***************************************************************************)
LEMMA ArriveSafety == ASSUME NEW r \in Request, TypeOK, SafetyInv, Arrive(r) PROVE SafetyInv'
<1>1. PICK q \in Asks : /\ ask' = [ask EXCEPT ![r] = q]
                        /\ pc' = [pc EXCEPT ![r] = IF q.kind = "task" THEN "create" ELSE "read"]
  BY DEF Arrive
<1>2. OpKind # "task" => q.kind # "task"
  <2>1. CASE OpKind = "commit"
    BY <2>1 DEF Asks
  <2>2. CASE OpKind = "confirmation"
    <3>1. Asks = [kind : {"commit"}, digest : {NoDigest}, answer : {NoAnswer}]
                   \cup [kind : {"confirmation"}, digest : Digest, answer : Answer]
      BY <2>2, Zenon DEF Asks
    <3> QED BY <3>1
  <2> QED BY <2>1, <2>2 DEF Kind
<1>3. /\ pc[r] = "idle" /\ job[r] = "claim"
      /\ UNCHANGED <<slot, job, draft, call, seen, started, effect, loose, ending>>
  BY DEF Arrive, googleVars, SafetyInv, ClearedIsUntouched
<1>4. /\ ask'[r] = q /\ pc'[r] \in {"read", "create"} /\ (q.kind # "task" => pc'[r] = "read")
      /\ \A p \in Request \ {r} : ask'[p] = ask[p] /\ pc'[p] = pc[p]
  BY <1>1 DEF TypeOK
<1>5. NoDeliveries'
  BY <1>2, <1>4 DEF SafetyInv, NoDeliveries
<1>6. OnlyHolderActs' /\ TrackerKnows' /\ EndingIsHonest' /\ FailedIsOver'
  BY <1>3, <1>4 DEF SafetyInv, OnlyHolderActs, TrackerKnows, EndingIsHonest, FailedIsOver, Running,
     MayHaveActed, Disowned, Misjudged, Holds, Uncertain
<1>7. ClearedIsUntouched' /\ DraftsAreFresh'
  BY <1>3, <1>4 DEF SafetyInv, ClearedIsUntouched, DraftsAreFresh, DraftContinues,
     MayHaveActed, Disowned, Misjudged
<1> QED BY <1>3, <1>5, <1>6, <1>7 DEF SafetyInv

\* A request that goes back to an earlier place of its claim or its settlement.
LEMMA BackSafety ==
    ASSUME NEW r \in Request, TypeOK, SafetyInv,
           NEW at \in {"read", "create"},
           at = "create" => OpKind = "task" /\ job[r] = "claim",
           pc' = [pc EXCEPT ![r] = at],
           draft' = draft \/ draft' = [draft EXCEPT ![r] = Nothing],
           UNCHANGED <<slot, ask, job, call, seen, started, effect, loose, ending>>
    PROVE  SafetyInv'
<1>1. /\ pc'[r] = at
      /\ \A p \in Request \ {r} : pc'[p] = pc[p] /\ draft'[p] = draft[p]
  BY DEF TypeOK
<1>2. OnlyHolderActs' /\ TrackerKnows' /\ EndingIsHonest' /\ FailedIsOver'
  BY <1>1 DEF SafetyInv, OnlyHolderActs, TrackerKnows, EndingIsHonest, FailedIsOver, Running,
     MayHaveActed, Disowned, Misjudged, Holds, Uncertain
<1>3. NoDeliveries' /\ ClearedIsUntouched' /\ DraftsAreFresh'
  BY <1>1 DEF SafetyInv, NoDeliveries, ClearedIsUntouched, DraftsAreFresh, DraftContinues,
     MayHaveActed, Disowned, Misjudged
<1> QED BY <1>2, <1>3 DEF SafetyInv

\* Only deliveries create: commits and confirmations have none.
LEMMA OnlyTasksAreCreated ==
    ASSUME OpKind # "task", NEW r \in Request, SafetyInv, CreateTask(r)
    PROVE  FALSE
BY DEF CreateTask, SafetyInv, NoDeliveries

\* What a delivery finds that creates the record: nobody who runs, has acted or
\* is about to write, because there is no record yet or nobody had a stake in it.
LEMMA CreatedFindsNobody ==
    ASSUME NEW r \in Request, TypeOK, SafetyInv, CreateTask(r), ~Live(slot, now), ~dropped'
    PROVE  /\ slot.val.state \in Pending
           /\ slot'.rev = 1 /\ slot'.val.state = "executing" /\ slot'.val.claim = r
           /\ pc[r] = "create" /\ pc' = [pc EXCEPT ![r] = "body"]
           /\ \A p \in Request : ~Running(p) /\ ~MayHaveActed(p) /\ pc[p] # "write"
<1>0. \A p \in Request : ~Disowned(p)
  BY DEF CreateTask, SafetyInv, NoDeliveries, Disowned
<1>1. PICK t \in Reading : slot' = Created(TaskRecord(r, t), Lease + Retention, now)
  BY DEF CreateTask
<1>2. pc[r] = "create" /\ pc' = [pc EXCEPT ![r] = "body"] /\ pc'[r] = "body"
  BY DEF CreateTask, TypeOK
<1>3. slot'.rev = 1 /\ slot'.val.state = "executing" /\ slot'.val.claim = r
  BY <1>1 DEF Created, TaskRecord, BlankRecord
<1>4. slot.val.state \in Pending /\ \A p \in Request : pc[p] # "write"
  <2>1. CASE slot.rev = 0
    BY <2>1 DEF SafetyInv, DraftsAreFresh
  <2>2. CASE slot.rev # 0
    <3>1. dropped' = (dropped \/ Staked)
      BY Zenon DEF CreateTask
    <3>2. ~Staked
      BY <3>1, Zenon
    <3>3. slot.rev > 0
      BY <2>2 DEF TypeOK
    <3> QED BY <3>2, <3>3 DEF Staked
  <2> QED BY <2>1, <2>2
<1>5. \A p \in Request : ~Running(p) /\ ~MayHaveActed(p)
  BY <1>0, <1>4 DEF SafetyInv, OnlyHolderActs, Holds
<1> QED BY <1>2, <1>3, <1>4, <1>5

LEMMA CreateTaskSafety ==
    ASSUME NEW r \in Request, TypeOK, SafetyInv, CreateTask(r), ~dropped'
    PROVE  SafetyInv'
<1>1. /\ pc[r] = "create" /\ job[r] = "claim" /\ OpKind = "task"
      /\ UNCHANGED <<ask, job, draft, call, seen, started, effect, loose, ending>>
  BY DEF CreateTask, googleVars, SafetyInv, NoDeliveries, ClearedIsUntouched
<1>2. CASE Live(slot, now)
  BY <1>1, <1>2, BackSafety DEF CreateTask
<1>3. CASE ~Live(slot, now)
  <2>1. /\ slot'.rev = 1 /\ slot'.val.state = "executing" /\ slot'.val.claim = r
        /\ pc' = [pc EXCEPT ![r] = "body"]
        /\ \A p \in Request : ~Running(p) /\ ~MayHaveActed(p) /\ pc[p] # "write"
    BY <1>3, CreatedFindsNobody
  <2>2. pc'[r] = "body" /\ \A p \in Request \ {r} : pc'[p] = pc[p]
    BY <2>1 DEF TypeOK
  <2>3. \A p \in Request : ~MayHaveActed(p)' /\ pc'[p] # "write" /\ (Running(p)' => p = r)
    BY <1>1, <2>1, <2>2 DEF MayHaveActed, Disowned, Misjudged, Running
  <2>4. OnlyHolderActs' /\ FailedIsOver' /\ DraftsAreFresh' /\ NoDeliveries'
    BY <1>1, <2>1, <2>3 DEF OnlyHolderActs, FailedIsOver, DraftsAreFresh, NoDeliveries, Holds, Pending
  <2>5. TrackerKnows' /\ EndingIsHonest' /\ ClearedIsUntouched'
    BY <1>1, <2>2 DEF SafetyInv, TrackerKnows, EndingIsHonest, ClearedIsUntouched,
       MayHaveActed, Disowned, Misjudged, Uncertain
  <2> QED BY <2>1, <2>4, <2>5 DEF SafetyInv
<1> QED BY <1>2, <1>3

\* A request that ends, is abandoned or crashes outside its store loop's write.
LEMMA StopSafety ==
    ASSUME NEW r \in Request, TypeOK, SafetyInv,
           NEW at \in {"done", "crashed"},
           pc' = [pc EXCEPT ![r] = at],
           draft' = [draft EXCEPT ![r] = Nothing],
           UNCHANGED <<slot, ask, job, call, seen, started, effect, loose, ending>>
    PROVE  SafetyInv'
<1>1. pc \in [Request -> PC] /\ draft \in [Request -> Drafts]
  BY DEF TypeOK, Drafts
<1> QED
  BY <1>1 DEF SafetyInv, NoDeliveries, OnlyHolderActs, TrackerKnows, EndingIsHonest,
     ClearedIsUntouched, DraftsAreFresh, DraftContinues, FailedIsOver, Running,
     MayHaveActed, Disowned, Misjudged, Holds, Uncertain

LEMMA SettleLostSafety == ASSUME NEW r \in Request, TypeOK, SafetyInv, SettleLost(r) PROVE SafetyInv'
BY StopSafety DEF SettleLost, Finish, googleVars

LEMMA CrashSafety == ASSUME NEW r \in Request, TypeOK, SafetyInv, Crash(r) PROVE SafetyInv'
BY StopSafety DEF Crash, googleVars

-----------------------------------------------------------------------------
(***************************************************************************)
(* Google calls.                                                           *)
(***************************************************************************)
LEMMA StartCallSafety == ASSUME NEW r \in Request, TypeOK, SafetyInv, StartCall(r) PROVE SafetyInv'
<1>1. /\ pc[r] = "body" /\ Running(r)
      /\ call' = [call EXCEPT ![r] = "sent"]
      /\ started' = [started EXCEPT ![r] = @ + 1]
      /\ UNCHANGED <<slot, pc, ask, job, draft, seen, effect, loose, ending>>
  BY DEF StartCall, Running
<1>2. Holds(r) /\ slot.val.state # "failed" /\ job[r] = "claim"
  BY <1>1 DEF SafetyInv, OnlyHolderActs, FailedIsOver, ClearedIsUntouched
<1>3. started'[r] # 0 /\ call'[r] = "sent" /\ call[r] = "none"
      /\ \A p \in Request \ {r} : call'[p] = call[p] /\ started'[p] = started[p]
  BY <1>1 DEF TypeOK, StartCall
<1>4. OnlyHolderActs' /\ FailedIsOver'
  BY <1>1, <1>2, <1>3 DEF SafetyInv, OnlyHolderActs, FailedIsOver, Running,
     MayHaveActed, Disowned, Misjudged, Holds
<1>5. TrackerKnows'
  BY <1>1, <1>3 DEF SafetyInv, TrackerKnows, MayHaveActed, Disowned, Misjudged
<1>6. EndingIsHonest' /\ ClearedIsUntouched'
  BY <1>1, <1>2, <1>3 DEF SafetyInv, EndingIsHonest, ClearedIsUntouched,
     MayHaveActed, Disowned, Misjudged, Uncertain
<1>7. NoDeliveries' /\ DraftsAreFresh'
  BY <1>1 DEF SafetyInv, NoDeliveries, DraftsAreFresh, DraftContinues
<1> QED BY <1>1, <1>4, <1>5, <1>6, <1>7 DEF SafetyInv

\* Google acts on a call that was sent: nobody becomes active by that.
LEMMA LandSafety == ASSUME NEW r \in Request, TypeOK, SafetyInv, Land(r) PROVE SafetyInv'
<1>1. UNCHANGED <<slot, pc, ask, job, draft, seen, started, ending>>
  BY DEF Land
<1>2. \A p \in Request : /\ MayHaveActed(p)' <=> MayHaveActed(p)
                         /\ Misjudged(p)' <=> Misjudged(p)
                         /\ Disowned(p)' <=> Disowned(p)
                         /\ call'[p] = "none" <=> call[p] = "none"
  BY <1>1 DEF Land, MayHaveActed, Disowned, Misjudged, TypeOK
<1>3. TrackerKnows'
  BY <1>1, <1>2 DEF SafetyInv, TrackerKnows, Land, TypeOK
<1>4. OnlyHolderActs' /\ FailedIsOver' /\ ClearedIsUntouched'
  BY <1>1, <1>2 DEF SafetyInv, OnlyHolderActs, FailedIsOver, ClearedIsUntouched, Running, Holds
<1>5. EndingIsHonest'
  BY <1>1, <1>2 DEF SafetyInv, EndingIsHonest, Uncertain
<1>6. NoDeliveries' /\ DraftsAreFresh'
  BY <1>1 DEF SafetyInv, NoDeliveries, DraftsAreFresh, DraftContinues
<1> QED BY <1>1, <1>3, <1>4, <1>5, <1>6 DEF SafetyInv

LEMMA FinishCallSafety == ASSUME NEW r \in Request, TypeOK, SafetyInv, FinishCall(r) PROVE SafetyInv'
<1>1. /\ call[r] # "none" /\ call' = [call EXCEPT ![r] = "none"]
      /\ UNCHANGED <<slot, pc, ask, job, draft, started, effect, ending>>
  BY DEF FinishCall
<1>2. /\ \A p \in Request \ {r} : call'[p] = call[p] /\ seen'[p] = seen[p] /\ (p \in loose' <=> p \in loose)
      /\ r \in loose' => r \in loose \/ seen'[r].uncertain \/ Misjudged(r)'
      /\ seen[r].applied => seen'[r].applied
      /\ seen[r].uncertain => seen'[r].uncertain
      /\ Misjudged(r) => Misjudged(r)'
      /\ call[r] = "landed" => seen'[r].applied \/ seen'[r].uncertain \/ Misjudged(r)'
  <2>1. seen[r] \in [applied : BOOLEAN, rejected : BOOLEAN, uncertain : BOOLEAN]
    BY DEF TypeOK
  <2>2. CASE call[r] = "landed" /\ seen' = [seen EXCEPT ![r].applied = TRUE] /\ UNCHANGED loose
    BY <1>1, <2>1, <2>2 DEF TypeOK, Misjudged
  <2>3. CASE /\ call[r] = "sent" \/ Resendable
             /\ seen' = [seen EXCEPT ![r].rejected = TRUE]
             /\ UNCHANGED loose \/ (Resendable /\ loose' = loose \cup {r})
    BY <1>1, <2>1, <2>3 DEF TypeOK, Misjudged
  <2>4. CASE /\ seen' = [seen EXCEPT ![r].uncertain = TRUE]
             /\ loose' = IF call[r] = "sent" THEN loose \cup {r} ELSE loose
    BY <1>1, <2>1, <2>4 DEF TypeOK, Misjudged
  <2> QED BY <2>2, <2>3, <2>4 DEF FinishCall
<1>3. /\ MayHaveActed(r) /\ started[r] # 0
      /\ \A p \in Request : /\ MayHaveActed(p)' => MayHaveActed(p)
                            /\ Misjudged(p) => Misjudged(p)'
                            /\ Disowned(p) => Disowned(p)'
  <2>1. \A p \in Request : MayHaveActed(p)' => MayHaveActed(p)
    BY <1>1, <1>2 DEF FinishCall, MayHaveActed
  <2>2. \A p \in Request : Misjudged(p) => Misjudged(p)'
    BY <1>2 DEF Misjudged
  <2> QED BY <1>1, <2>1, <2>2 DEF MayHaveActed, Disowned, SafetyInv, TrackerKnows
<1>4. TrackerKnows'
  <2>1. \A p \in Request \ {r} : Misjudged(p)' <=> Misjudged(p)
    BY <1>2 DEF Misjudged
  <2> QED BY <1>1, <1>2, <1>3, <2>1 DEF SafetyInv, TrackerKnows, MayHaveActed
<1>5. OnlyHolderActs' /\ FailedIsOver' /\ ClearedIsUntouched'
  <2>1. \A p \in Request : (Running(p)' <=> Running(p)) /\ (Holds(p)' <=> Holds(p))
    BY <1>1 DEF Running, Holds
  <2>2. OnlyHolderActs'
    BY <1>3, <2>1 DEF SafetyInv, OnlyHolderActs
  <2>3. FailedIsOver'
    BY <1>1, <1>3, <2>1 DEF SafetyInv, FailedIsOver
  <2>4. ClearedIsUntouched'
    BY <1>1, <1>3 DEF SafetyInv, ClearedIsUntouched
  <2> QED BY <2>2, <2>3, <2>4
<1>6. EndingIsHonest'
  <2>1. pc[r] = "ending" => ending[r] \notin {"error_pre", "error_other"}
    BY <1>1 DEF SafetyInv, EndingIsHonest, Uncertain
  <2> QED BY <1>1, <1>2, <2>1 DEF SafetyInv, EndingIsHonest, Uncertain, TypeOK
<1>7. NoDeliveries' /\ DraftsAreFresh'
  BY <1>1 DEF SafetyInv, NoDeliveries, DraftsAreFresh, DraftContinues
<1> QED BY <1>1, <1>4, <1>5, <1>6, <1>7 DEF SafetyInv

-----------------------------------------------------------------------------
(***************************************************************************)
(* The end of the body and its settlement.                                 *)
(***************************************************************************)
LEMMA EndBodySafety == ASSUME NEW r \in Request, TypeOK, SafetyInv, EndBody(r) PROVE SafetyInv'
<1>1. PICK e \in Endings(r) : ending' = [ending EXCEPT ![r] = e]
  BY DEF EndBody
<1>2. /\ pc[r] = "body" /\ pc' = [pc EXCEPT ![r] = "ending"]
      /\ UNCHANGED <<slot, ask, job, draft, call, seen, started, effect, loose>>
  BY DEF EndBody, googleVars
<1>3. /\ ending'[r] = e /\ pc'[r] = "ending"
      /\ \A p \in Request \ {r} : ending'[p] = ending[p] /\ pc'[p] = pc[p]
  BY <1>1, <1>2 DEF TypeOK
<1>4. \A p \in Request : Running(p)' <=> Running(p)
  BY <1>2, <1>3 DEF Running
<1>5. EndingIsHonest'
  <2>1. /\ e = "ask" => started[r] = 0
        /\ e \in {"error_pre", "error_other"} => OpKind = "commit" /\ ~Uncertain(r, TRUE)
        /\ e = "raise_pre" /\ Resendable => OpKind = "commit" \/ started[r] = 0
    BY DEF Endings, Guarded
  <2> QED BY <1>2, <1>3, <2>1 DEF SafetyInv, EndingIsHonest, Uncertain
<1>6. ClearedIsUntouched'
  BY <1>2, <1>3 DEF SafetyInv, ClearedIsUntouched, MayHaveActed, Disowned, Misjudged
<1>7. OnlyHolderActs' /\ FailedIsOver' /\ TrackerKnows' /\ NoDeliveries'
  BY <1>2, <1>3, <1>4 DEF SafetyInv, OnlyHolderActs, FailedIsOver, TrackerKnows, NoDeliveries, Holds,
     MayHaveActed, Disowned, Misjudged
<1>8. DraftsAreFresh'
  BY <1>2, <1>3 DEF SafetyInv, DraftsAreFresh, DraftContinues
<1> QED BY <1>2, <1>5, <1>6, <1>7, <1>8 DEF SafetyInv

\* A settlement that clears the record is only picked when the tracker has
\* nothing that may have taken effect; then nothing did, but for a call that was
\* sent again, and handing the operation back over that is left to commits.
LEMMA ClearingIsHonest ==
    ASSUME NEW r \in Request, TypeOK, SafetyInv, pc[r] = "ending",
           SettlementOf(r) \in {"park", "release", "fail"}, MayHaveActed(r)
    PROVE  Misjudged(r) /\ (SettlementOf(r) # "fail" => Disowned(r))
<1>1. started[r] # 0 /\ ending[r] # "ask"
  BY DEF SafetyInv, TrackerKnows, EndingIsHonest
<1>2. ~Uncertain(r, TRUE)
  <2>1. CASE ending[r] \in {"error_pre", "error_other"}
    BY <2>1 DEF SafetyInv, EndingIsHonest
  <2>2. CASE ending[r] \in {"raise_pre", "raise_other"}
    <3>1. Raised(r) = TRUE
      BY <2>2 DEF Raised
    <3> QED BY <2>2, <3>1 DEF SettlementOf
  <2>3. CASE ending[r] \in {"return", "error_unknown", "raise_unknown"}
    BY <2>3 DEF SettlementOf
  <2> QED BY <1>1, <2>1, <2>2, <2>3 DEF TypeOK, Ending
<1>3. Misjudged(r)
  BY <1>2 DEF SafetyInv, TrackerKnows, MayHaveActed, Uncertain
<1>4. ASSUME SettlementOf(r) # "fail" PROVE OpKind = "commit"
  <2>1. ending[r] \in {"error_pre", "error_other", "raise_pre", "raise_other"}
    BY <1>1 DEF TypeOK, Ending, SettlementOf
  <2>2. ending[r] \notin {"error_other", "raise_other"}
    BY <1>2, <1>3, <1>4 DEF SettlementOf, Misjudged, Raised, Uncertain
  <2> QED BY <1>1, <1>3, <2>1, <2>2 DEF SafetyInv, EndingIsHonest, Misjudged
<1> QED BY <1>3, <1>4 DEF Disowned

LEMMA SettleSafety == ASSUME NEW r \in Request, TypeOK, SafetyInv, Settle(r) PROVE SafetyInv'
<1>1. /\ pc[r] = "ending" /\ pc' = [pc EXCEPT ![r] = "read"] /\ job' = [job EXCEPT ![r] = SettlementOf(r)]
      /\ UNCHANGED <<slot, ask, draft, call, seen, started, effect, loose, ending>>
  BY DEF Settle, googleVars
<1>2. /\ pc'[r] = "read" /\ job'[r] = SettlementOf(r)
      /\ \A p \in Request \ {r} : pc'[p] = pc[p] /\ job'[p] = job[p]
  BY <1>1 DEF TypeOK
<1>3. ClearedIsUntouched'
  BY <1>1, <1>2, ClearingIsHonest DEF SafetyInv, ClearedIsUntouched, MayHaveActed, Disowned, Misjudged
<1>4. OnlyHolderActs' /\ FailedIsOver' /\ TrackerKnows' /\ NoDeliveries' /\ EndingIsHonest'
  BY <1>1, <1>2 DEF SafetyInv, OnlyHolderActs, FailedIsOver, TrackerKnows, NoDeliveries, EndingIsHonest,
     Running, Holds, MayHaveActed, Disowned, Misjudged, Uncertain
<1>5. DraftsAreFresh'
  BY <1>1, <1>2 DEF SafetyInv, DraftsAreFresh, DraftContinues
<1> QED BY <1>1, <1>3, <1>4, <1>5 DEF SafetyInv

-----------------------------------------------------------------------------
(***************************************************************************)
(* The store loop.                                                         *)
(***************************************************************************)

\* What reading and deciding does: the request stops, looks its outcome up,
\* claims a vanished task once more, or holds a draft that continues the record
\* it read.
Decided(r) ==
    /\ pc'[r] \in {"write", "done", "resolve", "create"}
    /\ \A p \in Request \ {r} : pc'[p] = pc[p] /\ draft'[p] = draft[p]
    /\ pc'[r] \in {"resolve", "create"} => job[r] = "claim"
    /\ pc'[r] = "create" => OpKind = "task"
    /\ pc'[r] = "write" => draft'[r].rev = slot.rev /\ DraftContinues(r)'

LEMMA StopDecides ==
    ASSUME NEW r \in Request, TypeOK, NEW a \in Reply, Finish(r, a),
           \A p \in Request \ {r} : draft'[p] = draft[p]
    PROVE  Decided(r)
BY DEF Finish, TypeOK, Decided

LEMMA VanishedStops ==
    ASSUME OpKind # "task", NEW r \in Request, SafetyInv, Vanished(r)
    PROVE  \E a \in Reply : Finish(r, a)
<1>1. ask[r].kind # "task"
  BY DEF SafetyInv, NoDeliveries
<1> QED BY <1>1 DEF Vanished, Reply, ClaimReply

LEMMA VanishedMoves ==
    ASSUME NEW r \in Request, SafetyInv, Vanished(r)
    PROVE  \/ \E a \in Reply : Finish(r, a)
           \/ pc' = [pc EXCEPT ![r] = "create"] /\ job[r] = "claim" /\ OpKind = "task"
<1>1. CASE job[r] = "claim" /\ ask[r].kind = "task" /\ r \notin again
  BY <1>1 DEF Vanished, SafetyInv, NoDeliveries
<1>2. CASE ~(job[r] = "claim" /\ ask[r].kind = "task" /\ r \notin again)
  BY <1>2 DEF Vanished, Reply, ClaimReply
<1> QED BY <1>1, <1>2

LEMMA VanishedDecides ==
    ASSUME NEW r \in Request, TypeOK, SafetyInv, Vanished(r),
           \A p \in Request \ {r} : draft'[p] = draft[p]
    PROVE  Decided(r)
<1>1. CASE \E a \in Reply : Finish(r, a)
  BY <1>1, StopDecides
<1>2. CASE pc' = [pc EXCEPT ![r] = "create"] /\ job[r] = "claim" /\ OpKind = "task"
  BY <1>2 DEF Decided, TypeOK
<1> QED BY <1>1, <1>2, VanishedMoves

LEMMA RefusedDecides ==
    ASSUME NEW r \in Request, TypeOK, SafetyInv, NEW out \in Reply, NEW rec \in Record,
           job[r] = "claim", Refused(r, out, rec)
    PROVE  Decided(r)
<1>1. \A p \in Request \ {r} : draft'[p] = draft[p]
  BY DEF Refused, TypeOK
<1>2. CASE out = "missing"
  BY <1>1, <1>2, VanishedDecides DEF Refused
<1>3. CASE out = "unknown"
  <2>1. pc' = [pc EXCEPT ![r] = "resolve"]
    BY <1>3 DEF Refused
  <2> QED BY <1>1, <2>1 DEF Decided, TypeOK
<1>4. CASE out \notin {"missing", "unknown"}
  <2>1. Finish(r, out)
    BY <1>4 DEF Refused
  <2> QED BY <1>1, <2>1, StopDecides
<1> QED BY <1>2, <1>3, <1>4

LEMMA DecideClaimDecides ==
    ASSUME NEW r \in Request, NEW t \in Nat, TypeOK, SafetyInv, job[r] = "claim", UNCHANGED <<slot, job>>,
           DecideClaim(r, slot.val, t)
    PROVE  Decided(r)
<1> DEFINE rec == slot.val
           delivery == ask[r].kind = "task"
           status == IF delivery THEN DeliveryStatus(rec) ELSE ClaimStatus(rec, ask[r], t)
           grant == IF delivery THEN Redelivered(rec, r, t) ELSE Granted(rec, ask[r], r, t)
<1>1. rec \in Record /\ ask[r] \in Ask
  BY DEF TypeOK
<1>2. /\ status \in Reply \cup {"claimed", "lapsed"}
      /\ status = "claimed" => rec.state \in Pending
      /\ status = "lapsed" => rec.state = "executing"
  BY <1>1 DEF DeliveryStatus, ClaimStatus, Replay, Record, State, Pending, Terminal, Reply, ClaimReply
<1>3. CASE status = "claimed" /\ Draft(r, grant, Lease + Retention, "claimed")
  <2>1. grant.state = "executing" /\ grant.claim = r
    BY <1>1 DEF Granted, Redelivered, Record
  <2> HIDE DEF status, grant
  <2>2. /\ pc'[r] = "write" /\ draft'[r].rev = slot.rev /\ draft'[r].val = grant /\ draft'[r].out = "claimed"
        /\ \A p \in Request \ {r} : pc'[p] = pc[p] /\ draft'[p] = draft[p]
    BY <1>3 DEF Draft, TypeOK
  <2>3. DraftContinues(r)'
    BY <1>2, <1>3, <2>1, <2>2 DEF DraftContinues
  <2> QED BY <2>2, <2>3 DEF Decided
<1>4. CASE status = "lapsed" /\ Draft(r, Lapsed(rec), Retention, "unknown")
  <2>1. Lapsed(rec).state = "outcome_unknown" /\ Lapsed(rec).claim = rec.claim
    BY <1>1 DEF Lapsed, Record
  <2> DEFINE new == Lapsed(rec)
  <2> HIDE DEF status, new
  <2>2. /\ pc'[r] = "write" /\ draft'[r].rev = slot.rev /\ draft'[r].val = new /\ draft'[r].out = "unknown"
        /\ \A p \in Request \ {r} : pc'[p] = pc[p] /\ draft'[p] = draft[p]
    BY <1>4 DEF Draft, TypeOK, new
  <2>3. DraftContinues(r)'
    BY <1>2, <1>4, <2>1, <2>2 DEF DraftContinues, new
  <2> QED BY <2>2, <2>3 DEF Decided
<1>5. CASE status \notin {"claimed", "lapsed"} /\ Refused(r, status, rec)
  BY <1>1, <1>2, <1>5, RefusedDecides
<1> QED BY <1>1, <1>3, <1>4, <1>5 DEF DecideClaim

LEMMA SettledShape ==
    ASSUME NEW rec \in Record, NEW how \in Settlement, NEW r \in Request, NEW h \in BOOLEAN, NEW t \in Nat
    PROVE  LET new == Settled(rec, how, r, h, t)
           IN  /\ how = "succeed" => new.state = "succeeded" /\ new.claim = rec.claim
               /\ how = "fail" => new.state = "failed" /\ new.claim = rec.claim
               /\ how = "mark_unknown" => new.state = "outcome_unknown" /\ new.claim = rec.claim
               /\ how \in {"park", "release"} => new.state \in Pending
<1>1. CASE how = "succeed" BY <1>1 DEF Settled, Record
<1>2. CASE how = "fail" BY <1>2 DEF Settled, Record
<1>3. CASE how = "mark_unknown" BY <1>3 DEF Settled, Record
<1>4. CASE how = "park" BY <1>4 DEF Settled, Record, Pending
<1>5. CASE how = "release" BY <1>5 DEF Settled, Record, Pending
<1> QED BY <1>1, <1>2, <1>3, <1>4, <1>5 DEF Settlement

LEMMA DecideSettleDecides ==
    ASSUME NEW r \in Request, NEW t \in Nat, TypeOK, job[r] \in Settlement, UNCHANGED <<slot, job>>,
           DecideSettle(r, slot.val, t)
    PROVE  Decided(r)
<1>1. slot.val \in Record
  BY DEF TypeOK
<1>2. ASSUME NEW h \in BOOLEAN,
             MaySettle(slot.val, job[r], r),
             Draft(r, Settled(slot.val, job[r], r, h, t), SettledTTL(slot.val, job[r], t), "settled")
      PROVE  Decided(r)
  <2> DEFINE new == Settled(slot.val, job[r], r, h, t)
  <2>1. /\ slot.val.claim = r
        /\ slot.val.state \in {"executing", "outcome_unknown"}
        /\ job[r] \in {"mark_unknown", "park", "release"} => slot.val.state = "executing"
    BY <1>2 DEF MaySettle, SettlesFrom, Settlement
  <2>2. /\ job[r] = "succeed" => new.state = "succeeded" /\ new.claim = slot.val.claim
        /\ job[r] = "fail" => new.state = "failed" /\ new.claim = slot.val.claim
        /\ job[r] = "mark_unknown" => new.state = "outcome_unknown" /\ new.claim = slot.val.claim
        /\ job[r] \in {"park", "release"} => new.state \in Pending
    BY <1>1, SettledShape
  <2> HIDE DEF new
  <2>3. /\ pc'[r] = "write" /\ draft'[r].rev = slot.rev /\ draft'[r].val = new /\ draft'[r].out = "settled"
        /\ \A p \in Request \ {r} : pc'[p] = pc[p] /\ draft'[p] = draft[p]
    BY <1>2 DEF Draft, TypeOK, new
  <2>4. DraftContinues(r)'
    BY <2>1, <2>2, <2>3 DEF DraftContinues, Settlement, Terminal
  <2> QED BY <2>3, <2>4 DEF Decided
<1>3. CASE Finish(r, "settled") /\ UNCHANGED <<draft, again>>
  BY <1>3, StopDecides DEF Reply
<1>4. (Reconcilable /\ started[r] > 0) \in BOOLEAN
  OBVIOUS
<1> QED BY <1>2, <1>3, <1>4 DEF DecideSettle

LEMMA DecideResolveDecides ==
    ASSUME NEW r \in Request, TypeOK, job[r] = "resolve", UNCHANGED <<slot, job>>, DecideResolve(r, slot.val)
    PROVE  Decided(r)
<1>1. slot.val \in Record
  BY DEF TypeOK
<1>2. CASE slot.val.state = "outcome_unknown" /\ Draft(r, Reconciled(slot.val), Retention, "saved")
  <2>1. Reconciled(slot.val).state = "succeeded" /\ Reconciled(slot.val).claim = slot.val.claim
    BY <1>1 DEF Reconciled, Record
  <2> DEFINE new == Reconciled(slot.val)
  <2> HIDE DEF new
  <2>2. /\ pc'[r] = "write" /\ draft'[r].rev = slot.rev /\ draft'[r].val = new /\ draft'[r].out = "saved"
        /\ \A p \in Request \ {r} : pc'[p] = pc[p] /\ draft'[p] = draft[p]
    BY <1>2 DEF Draft, TypeOK, new
  <2>3. DraftContinues(r)'
    BY <1>2, <2>1, <2>2 DEF DraftContinues, new
  <2> QED BY <2>2, <2>3 DEF Decided
<1>3. CASE /\ Finish(r, IF slot.val.state = "succeeded" THEN "saved" ELSE "unknown")
           /\ UNCHANGED <<draft, again>>
  BY <1>3, StopDecides DEF Reply, ClaimReply
<1> QED BY <1>2, <1>3 DEF DecideResolve

LEMMA ReadSafety == ASSUME NEW r \in Request, TypeOK, SafetyInv, Read(r) PROVE SafetyInv'
<1>1. /\ pc[r] = "read"
      /\ UNCHANGED <<slot, ask, job, call, seen, started, effect, loose, ending>>
  BY DEF Read, googleVars
<1>2. slot.rev \in Nat /\ (slot.rev # 0 \/ ~Live(slot, now))
  BY DEF Live, TypeOK
<1>3. Decided(r) /\ (pc'[r] = "write" => slot.rev # 0)
  <2>1. CASE Vanished(r) /\ UNCHANGED draft
    <3>1. Decided(r)
      BY <2>1, VanishedDecides
    <3>2. pc'[r] # "write"
      BY <2>1, VanishedMoves DEF Finish, TypeOK
    <3> QED BY <3>1, <3>2
  <2>2. ASSUME Live(slot, now), NEW t \in Reading, job[r] = "claim", DecideClaim(r, slot.val, t)
        PROVE  Decided(r)
    BY <1>1, <2>2, ReadingType, DecideClaimDecides
  <2>3. ASSUME job[r] = "resolve", DecideResolve(r, slot.val) PROVE Decided(r)
    BY <1>1, <2>3, DecideResolveDecides
  <2>4. ASSUME Live(slot, now), NEW t \in Reading, job[r] \in Settlement, DecideSettle(r, slot.val, t)
        PROVE  Decided(r)
    BY <1>1, <2>4, ReadingType, DecideSettleDecides
  <2> QED BY <1>2, <2>1, <2>2, <2>3, <2>4 DEF Read
<1>4. /\ pc'[r] \notin {"body", "ending"} /\ (pc'[r] = "create" => OpKind = "task")
      /\ \A p \in Request \ {r} : pc'[p] = pc[p]
  BY <1>3 DEF Decided
<1>5. DraftsAreFresh'
  <2>1. ASSUME NEW p \in Request, pc'[p] = "write"
        PROVE  draft'[p].rev \in 1 .. slot'.rev /\ (draft'[p].rev = slot'.rev => DraftContinues(p)')
    <3>1. CASE p = r
      BY <1>1, <1>3, <2>1, <3>1 DEF Decided, TypeOK
    <3>2. CASE p # r
      BY <1>1, <1>3, <2>1, <3>2 DEF Decided, SafetyInv, DraftsAreFresh, DraftContinues
    <3> QED BY <3>1, <3>2
  <2> QED BY <2>1 DEF DraftsAreFresh
<1>6. ClearedIsUntouched'
  BY <1>1, <1>3 DEF Decided, SafetyInv, ClearedIsUntouched, MayHaveActed, Disowned, Misjudged
<1>7. OnlyHolderActs' /\ FailedIsOver' /\ TrackerKnows' /\ NoDeliveries' /\ EndingIsHonest'
  BY <1>1, <1>4 DEF SafetyInv, OnlyHolderActs, FailedIsOver, TrackerKnows, NoDeliveries, EndingIsHonest,
     Running, Holds, MayHaveActed, Disowned, Misjudged, Uncertain
<1> QED BY <1>1, <1>5, <1>6, <1>7 DEF SafetyInv

\* A write that the store accepted.
LEMMA WrittenSafety ==
    ASSUME NEW r \in Request, TypeOK, SafetyInv, pc[r] = "write", CasStatus(slot, draft[r].rev, now) = "ok",
           Written(r), UNCHANGED <<ask, job, call, seen, started, effect, loose, ending>>
    PROVE  SafetyInv'
<1> DEFINE new == draft[r].val
           out == draft[r].out
<1>1. draft[r].rev = slot.rev /\ DraftContinues(r) /\ slot.rev \in Nat /\ slot.rev # 0
  BY DEF CasStatus, Live, SafetyInv, DraftsAreFresh, TypeOK
<1>2. draft[r] \in Drafts /\ new \in Record /\ out \in Reply \cup {"claimed"}
  BY DEF TypeOK, Drafts
<1>3. slot'.rev = slot.rev + 1 /\ slot'.val = new
  BY DEF Written, Replaced
<1>4. /\ \A p \in Request \ {r} : pc'[p] = pc[p] /\ draft'[p] = draft[p]
      /\ pc'[r] \in {"body", "done", "resolve"}
      /\ pc'[r] = "body" <=> out = "claimed"
      /\ pc'[r] = "resolve" => job[r] = "claim"
  <2>1. CASE out = "claimed"
    BY <2>1 DEF Written, TypeOK
  <2>2. CASE out # "claimed"
    <3>1. Refused(r, out, new)
      BY <2>2 DEF Written
    <3>2. out \notin {"missing"} /\ (out = "unknown" => job[r] = "claim")
      BY <1>1 DEF DraftContinues
    <3>3. CASE out = "unknown"
      BY <3>1, <3>2, <3>3, <2>2 DEF Refused, TypeOK
    <3>4. CASE out # "unknown"
      BY <3>1, <3>2, <3>4, <2>2 DEF Refused, Finish, TypeOK
    <3> QED BY <3>3, <3>4
  <2> QED BY <2>1, <2>2
<1>5. DraftsAreFresh'
  <2>1. ASSUME NEW p \in Request, pc'[p] = "write"
        PROVE  draft'[p].rev \in 1 .. slot'.rev /\ draft'[p].rev # slot'.rev
    <3>1. p # r /\ pc[p] = "write" /\ draft'[p] = draft[p]
      BY <1>4, <2>1
    <3>2. draft[p].rev \in 1 .. slot.rev
      BY <3>1 DEF SafetyInv, DraftsAreFresh
    <3> QED BY <1>1, <1>3, <3>1, <3>2
  <2> QED BY <2>1 DEF DraftsAreFresh
<1>6. ~Running(r) /\ \A p \in Request \ {r} : Running(p)' <=> Running(p)
  BY <1>4 DEF Running
<1>7. \A p \in Request : /\ MayHaveActed(p)' <=> MayHaveActed(p)
                         /\ Disowned(p)' <=> Disowned(p)
                         /\ Misjudged(p)' <=> Misjudged(p)
  BY DEF MayHaveActed, Disowned, Misjudged
<1>8. OnlyHolderActs' /\ FailedIsOver'
  <2> HIDE DEF new, out
  <2>1. CASE out = "claimed"
    <3>1. /\ slot.val.state \in Pending /\ new.state = "executing" /\ new.claim = r
      BY <1>1, <2>1 DEF DraftContinues, new, out
    <3>2. \A p \in Request : ~Running(p) /\ (MayHaveActed(p) => Disowned(p))
      BY <3>1 DEF SafetyInv, OnlyHolderActs, Holds
    <3> QED BY <1>3, <1>6, <1>7, <3>1, <3>2 DEF OnlyHolderActs, FailedIsOver, Holds, Pending
  <2>2. CASE out # "claimed"
    <3>1. ~Running(r)'
      BY <1>4, <2>2 DEF Running
    <3>2. CASE new.state \in Pending
      <4>1. slot.val.claim = r /\ job[r] \in {"park", "release"}
        BY <1>1, <2>2, <3>2 DEF DraftContinues, Pending, Terminal, new, out
      <4>2. \A p \in Request : ~Running(p) /\ (MayHaveActed(p) => Disowned(p))
        BY <1>6, <4>1 DEF SafetyInv, OnlyHolderActs, Holds, ClearedIsUntouched
      <4> QED BY <1>3, <1>6, <1>7, <3>1, <3>2, <4>2 DEF OnlyHolderActs, FailedIsOver, Pending
    <3>3. CASE new.state \notin Pending
      <4>1. new.claim = slot.val.claim /\ (new.state = "failed" => job[r] = "fail" /\ slot.val.claim = r)
            /\ slot.val.state \in {"executing", "outcome_unknown"}
        BY <1>1, <2>2, <3>3 DEF DraftContinues, new, out
      <4>2. OnlyHolderActs'
        BY <1>3, <1>6, <1>7, <3>1, <3>3, <4>1 DEF SafetyInv, OnlyHolderActs, Holds
      <4>3. \A p \in Request : Disowned(p) => Misjudged(p)
        BY DEF Disowned
      <4>4. new.state = "failed" =>
              \A p \in Request : (MayHaveActed(p) => Misjudged(p)) /\ (p # r => ~Running(p))
        BY <4>1, <4>3 DEF SafetyInv, OnlyHolderActs, Holds, ClearedIsUntouched
      <4> QED BY <1>3, <1>6, <1>7, <3>1, <4>2, <4>4 DEF FailedIsOver
    <3> QED BY <3>2, <3>3
  <2> QED BY <2>1, <2>2
<1>9. ClearedIsUntouched'
  <2>1. pc'[r] = "body" => job[r] = "claim"
    BY <1>1, <1>4 DEF DraftContinues
  <2> QED BY <1>4, <1>7, <2>1 DEF SafetyInv, ClearedIsUntouched
<1>10. TrackerKnows' /\ NoDeliveries' /\ EndingIsHonest'
  BY <1>4 DEF SafetyInv, TrackerKnows, NoDeliveries, EndingIsHonest, MayHaveActed, Disowned, Misjudged, Uncertain
<1> QED BY <1>1, <1>3, <1>5, <1>8, <1>9, <1>10 DEF SafetyInv

LEMMA WriteSafety == ASSUME NEW r \in Request, TypeOK, SafetyInv, Write(r) PROVE SafetyInv'
<1>1. pc[r] = "write" /\ UNCHANGED <<ask, job, call, seen, started, effect, loose, ending>>
  BY DEF Write, googleVars
<1>2. CASE CasStatus(slot, draft[r].rev, now) = "ok" /\ Written(r)
  BY <1>1, <1>2, WrittenSafety
<1>3. CASE Conflict(r)
  <2>1. UNCHANGED slot /\ draft' = [draft EXCEPT ![r] = Nothing]
    BY <1>3 DEF Conflict
  <2>2. CASE pc' = [pc EXCEPT ![r] = "read"]
    BY <1>1, <2>1, <2>2, BackSafety
  <2>3. CASE Finish(r, "contended")
    BY <1>1, <2>1, <2>3, StopSafety DEF Finish
  <2> QED BY <1>3, <2>2, <2>3 DEF Conflict
<1>4. CASE Vanished(r) /\ draft' = [draft EXCEPT ![r] = Nothing] /\ UNCHANGED <<slot, tries>>
  <2>1. CASE \E a \in Reply : Finish(r, a)
    BY <1>1, <1>4, <2>1, StopSafety DEF Finish
  <2>2. CASE pc' = [pc EXCEPT ![r] = "create"] /\ job[r] = "claim" /\ OpKind = "task"
    BY <1>1, <1>4, <2>2, BackSafety
  <2> QED BY <1>4, <2>1, <2>2, VanishedMoves
<1> QED BY <1>2, <1>3, <1>4 DEF Write

LEMMA ResolveSafety == ASSUME NEW r \in Request, TypeOK, SafetyInv, Resolve(r) PROVE SafetyInv'
<1>1. /\ pc[r] = "resolve" /\ draft' = [draft EXCEPT ![r] = Nothing]
      /\ UNCHANGED <<slot, ask, call, seen, started, effect, loose, ending>>
  BY DEF Resolve, googleVars
<1>2. CASE pc' = [pc EXCEPT ![r] = "read"] /\ job' = [job EXCEPT ![r] = "resolve"]
  BY <1>1, <1>2 DEF TypeOK, SafetyInv, NoDeliveries, OnlyHolderActs, TrackerKnows, EndingIsHonest,
     ClearedIsUntouched, DraftsAreFresh, DraftContinues, FailedIsOver, Running,
     MayHaveActed, Disowned, Misjudged, Holds, Uncertain
<1>3. CASE Finish(r, "unknown") /\ UNCHANGED job
  BY <1>1, <1>3, StopSafety DEF Finish
<1>4. \/ pc' = [pc EXCEPT ![r] = "read"] /\ job' = [job EXCEPT ![r] = "resolve"]
      \/ Finish(r, "unknown") /\ UNCHANGED job
  BY Zenon DEF Resolve
<1> QED BY <1>2, <1>3, <1>4

-----------------------------------------------------------------------------
\* A step keeps the invariant, unless it creates a record anew that somebody had
\* a stake in.
LEMMA StepSafety == ASSUME TypeOK, SafetyInv, [Next]_vars, ~dropped' PROVE SafetyInv'
<1>1. CASE UNCHANGED vars
  BY <1>1 DEF vars, SafetyInv, NoDeliveries, OnlyHolderActs, TrackerKnows, EndingIsHonest,
     ClearedIsUntouched, DraftsAreFresh, DraftContinues, FailedIsOver, Running, MayHaveActed, Disowned,
     Misjudged, Holds, Uncertain
<1>2. CASE Tick
  BY <1>2, TickSafety
<1>3. CASE Open
  BY <1>3, OpenSafety
<1>4. ASSUME NEW r \in Request, Step(r) PROVE SafetyInv'
  BY <1>4, ArriveSafety, CreateTaskSafety, ReadSafety, WriteSafety, ResolveSafety, StartCallSafety,
     LandSafety, FinishCallSafety, EndBodySafety, SettleSafety, SettleLostSafety, CrashSafety DEF Step
<1> QED BY <1>1, <1>2, <1>3, <1>4 DEF Next

\* What was dropped stays known, and only a delivery drops.
LEMMA DropStep ==
    ASSUME [Next]_vars
    PROVE  /\ dropped => dropped'
           /\ dropped' => dropped \/ \E r \in Request : CreateTask(r)
<1>1. CASE UNCHANGED vars
  BY <1>1 DEF vars
<1>2. CASE Tick \/ Open
  BY <1>2 DEF Tick, Open
<1>3. ASSUME NEW r \in Request, Step(r)
      PROVE  (dropped => dropped') /\ (dropped' => dropped \/ CreateTask(r))
  <2>1. CASE CreateTask(r)
    <3>1. (dropped' <=> dropped \/ Staked) \/ (dropped' <=> dropped)
      BY <2>1, Zenon DEF CreateTask
    <3> QED BY <2>1, <3>1, Zenon
  <2>2. CASE Arrive(r) \/ Read(r) \/ Write(r) \/ Resolve(r) \/ StartCall(r) \/ Land(r) \/ FinishCall(r)
    BY <2>2 DEF Arrive, Read, Write, Resolve, StartCall, Land, FinishCall
  <2>3. CASE EndBody(r) \/ Settle(r) \/ SettleLost(r) \/ Crash(r)
    BY <2>3 DEF EndBody, Settle, SettleLost, Crash
  <2> QED BY <1>3, <2>1, <2>2, <2>3, Zenon DEF Step
<1> QED BY <1>1, <1>2, <1>3 DEF Next

\* Operations of every kind keep the inductive invariant, until a delivery
\* creates a task's record anew over somebody's stake (create in
\* claim_task_delivery, after the retention of _settle).
THEOREM SafetyInvariant == Spec => [](dropped \/ SafetyInv)
<1>1. Init => SafetyInv
  BY InitSafety
<1>2. TypeOK /\ (dropped \/ SafetyInv) /\ [Next]_vars => (dropped \/ SafetyInv)'
  BY StepSafety, DropStep
<1> QED BY <1>1, <1>2, TypeCorrect, PTL DEF Spec

\* Commits and confirmations keep it whatever expires: nothing creates their
\* records twice.
LEMMA KeptSafe == ASSUME OpKind # "task" PROVE Spec => [](SafetyInv /\ ~dropped)
<1>1. Init => SafetyInv /\ ~dropped
  BY InitSafety DEF Init
<1>2. TypeOK /\ SafetyInv /\ ~dropped /\ [Next]_vars => (SafetyInv /\ ~dropped)'
  BY StepSafety, DropStep, OnlyTasksAreCreated
<1> QED BY <1>1, <1>2, TypeCorrect, PTL DEF Spec

\* Of all the requests for one operation, however many there are and however
\* they race, crash and lapse, at most one gets a non-repeatable call to Google
\* (claim, claim_task_delivery and _settle in operations.py), but for the commits
\* of resent chat posts and the dropped tasks the property names.
THEOREM AtMostOneActs == Spec => []ActsAtMostOnce
<1>1. dropped \/ SafetyInv => ActsAtMostOnce
  BY DEF SafetyInv, OnlyHolderActs, Holds, ActsAtMostOnce
<1> QED BY <1>1, SafetyInvariant, PTL

\* A record that can be claimed, by release or park or because it is new, has no
\* effect and no call behind it (settle_after_return, settle_after_failure), with
\* the same exceptions.
THEOREM ClaimableIsUntouched == Spec => []ClaimableMeansUntouched
<1>1. dropped \/ SafetyInv => ClaimableMeansUntouched
  BY DEF SafetyInv, OnlyHolderActs, Holds, ClaimableMeansUntouched
<1> QED BY <1>1, SafetyInvariant, PTL

\* "Already failed, not re-executed" is only answered when nothing happened, or
\* when a resent chat post was refused in the end.
THEOREM FailedHadNoEffect == Spec => []FailedMeansNothingHappened
<1>1. dropped \/ SafetyInv => FailedMeansNothingHappened
  BY DEF SafetyInv, FailedIsOver, FailedMeansNothingHappened
<1> QED BY <1>1, SafetyInvariant, PTL

-----------------------------------------------------------------------------
(***************************************************************************)
(* What one step may do to the record, and the refinement of AtMostOnce.   *)
(***************************************************************************)

\* Only a successful write changes a record that is not pending.
LEMMA OnlyWritesChange ==
    ASSUME TypeOK, SafetyInv, [Next]_vars, ~dropped'
    PROVE  \/ UNCHANGED slot
           \/ /\ slot.val.state \in Pending
              /\ \/ slot'.val.state \in Pending
                 \/ slot'.val.state = "executing" /\ slot'.val.claim \in Request
              /\ UNCHANGED <<effect, loose, call>>
           \/ \E r \in Request : /\ DraftContinues(r)
                                 /\ slot'.rev = slot.rev + 1 /\ slot'.val = draft[r].val
                                 /\ UNCHANGED <<job, effect, loose, call>>
<1>1. CASE UNCHANGED vars
  BY <1>1 DEF vars
<1>2. CASE Tick
  BY <1>2 DEF Tick
<1>3. CASE Open
  BY <1>3 DEF Open, Created, CommitRecord, ConfirmationRecord, BlankRecord, SafetyInv, Pending, googleVars
<1>4. ASSUME NEW r \in Request, Write(r), ~UNCHANGED slot
      PROVE  /\ DraftContinues(r)
             /\ slot'.rev = slot.rev + 1 /\ slot'.val = draft[r].val
             /\ UNCHANGED <<job, effect, loose, call>>
  <2>1. CasStatus(slot, draft[r].rev, now) = "ok" /\ Written(r) /\ pc[r] = "write"
    BY <1>4 DEF Write, Conflict
  <2>2. draft[r].rev = slot.rev /\ DraftContinues(r)
    BY <2>1 DEF CasStatus, SafetyInv, DraftsAreFresh
  <2> QED BY <1>4, <2>1, <2>2 DEF Written, Replaced, Write, googleVars
<1>5. ASSUME NEW r \in Request, Step(r), ~Write(r), ~CreateTask(r) PROVE UNCHANGED slot
  BY <1>5 DEF Step, Arrive, Read, Resolve, StartCall, Land, FinishCall, EndBody, Settle, SettleLost, Crash
<1>6. ASSUME NEW r \in Request, CreateTask(r), ~UNCHANGED slot
      PROVE  /\ slot.val.state \in Pending
             /\ slot'.val.state = "executing" /\ slot'.val.claim \in Request
             /\ UNCHANGED <<effect, loose, call>>
  <2>1. ~Live(slot, now) /\ UNCHANGED <<effect, loose, call>>
    BY <1>6 DEF CreateTask, googleVars
  <2> QED BY <1>6, <2>1, CreatedFindsNobody
<1> QED BY <1>1, <1>2, <1>3, <1>4, <1>5, <1>6 DEF Next

\* Neither a write nor a new record takes a settled outcome back.
FinalStep ==
    slot.val.state \in Terminal /\ slot'.rev > slot.rev =>
        slot.val.state = "outcome_unknown" /\ slot'.val.state \in {"succeeded", "failed"}

LEMMA TerminalStep == ASSUME TypeOK, SafetyInv, [Next]_vars, ~dropped' PROVE FinalStep
<1>1. slot.rev \in Nat
  BY DEF TypeOK
<1>2. CASE slot.val.state \in Pending
  BY <1>2 DEF Pending, Terminal, FinalStep
<1>3. ASSUME NEW r \in Request, DraftContinues(r), slot'.val = draft[r].val, slot.val.state \in Terminal
      PROVE  slot.val.state = "outcome_unknown" /\ slot'.val.state \in {"succeeded", "failed"}
  BY <1>3 DEF DraftContinues, Terminal, Pending
<1> QED BY <1>1, <1>2, <1>3, OnlyWritesChange DEF FinalStep

\* A settled outcome is never taken back, in any race of claimants, lapses and
\* reconciliations (the states _settle and resolve_unknown accept).
THEOREM TerminalIsFinal == ASSUME OpKind # "task" PROVE Spec => TerminalStaysTerminal
<1>1. TypeOK /\ SafetyInv /\ ~dropped' /\ [Next]_vars => [FinalStep]_vars
  BY TerminalStep
<1> QED BY <1>1, TypeCorrect, KeptSafe, PTL DEF Spec, FinalStep, TerminalStaysTerminal

Tried == {r \in Request : MayHaveActed(r)}

NobodyDisowned == \A r \in Request : ~Disowned(r)

LEMMA PromiseStep ==
    ASSUME TypeOK, SafetyInv, [Next]_vars, ~dropped', NobodyDisowned
    PROVE  [Promise!Next]_(Promise!vars)
<1> DEFINE Stutter == UNCHANGED <<Owner, Tried, effect>>
<1> SUFFICES Promise!Next \/ Stutter
  BY DEF Promise!vars, Tried
<1>1. ASSUME UNCHANGED <<effect, loose, call>> PROVE UNCHANGED <<Tried, effect>>
  BY <1>1 DEF Tried, MayHaveActed, Disowned, Misjudged
<1>2. CASE UNCHANGED slot /\ UNCHANGED <<effect, loose, call>>
  BY <1>1, <1>2 DEF Owner
<1>3. CASE /\ slot.val.state \in Pending /\ slot'.val.state \in Pending
           /\ UNCHANGED <<effect, loose, call>>
  BY <1>1, <1>3 DEF Owner
<1>4. CASE /\ slot.val.state \in Pending /\ slot'.val.state = "executing" /\ slot'.val.claim \in Request
           /\ UNCHANGED <<effect, loose, call>>
  <2>1. Owner = NoClaim /\ Owner' = slot'.val.claim
    BY <1>4 DEF Owner, Pending
  <2>2. Promise!Grant(slot'.val.claim)
    BY <1>1, <1>4, <2>1 DEF Promise!Grant, Tried
  <2> QED BY <1>4, <2>2 DEF Promise!Next
<1>5. ASSUME NEW r \in Request, DraftContinues(r), slot'.val = draft[r].val,
             UNCHANGED <<job, effect, loose, call>>
      PROVE  Promise!Next \/ Stutter
  <2> DEFINE new == draft[r].val
  <2>1. UNCHANGED <<Tried, effect>>
    BY <1>1, <1>5
  <2>2. CASE slot.val.state \in Pending /\ new.state = "executing" /\ new.claim = r
    <3>1. Owner = NoClaim /\ Owner' = r
      BY <1>5, <2>2 DEF Owner, Pending
    <3>2. Promise!Grant(r)
      BY <2>1, <3>1 DEF Promise!Grant, Tried
    <3> QED BY <3>2 DEF Promise!Next
  <2>3. CASE slot.val.state \notin Pending /\ new.state \notin Pending /\ new.claim = slot.val.claim
    BY <1>5, <2>1, <2>3 DEF Owner
  <2>4. CASE /\ slot.val.state = "executing" /\ slot.val.claim = r /\ new.state \in Pending
             /\ job[r] \in {"park", "release"}
    <3>1. Owner = r /\ Owner' = NoClaim
      BY <1>5, <2>4 DEF Owner, Pending
    <3>2. r \notin Tried
      BY <2>4 DEF Tried, SafetyInv, ClearedIsUntouched, NobodyDisowned
    <3>3. Promise!HandBack(r)
      BY <2>1, <3>1, <3>2 DEF Promise!HandBack, Tried
    <3> QED BY <3>3 DEF Promise!Next
  <2> QED BY <1>5, <2>2, <2>3, <2>4 DEF DraftContinues, Pending, Terminal
<1>6. ASSUME NEW r \in Request, StartCall(r) PROVE Promise!Next \/ Stutter
  <2>1. Owner = r
    BY <1>6 DEF StartCall, SafetyInv, OnlyHolderActs, Running, Holds, Owner
  <2>2. Owner' = Owner /\ effect' = effect /\ Tried' = Tried \cup {r}
    <3>1. UNCHANGED <<slot, effect, loose>> /\ call' = [call EXCEPT ![r] = "sent"]
      BY <1>6 DEF StartCall
    <3>2. \A p \in Request : MayHaveActed(p)' <=> MayHaveActed(p) \/ p = r
      BY <3>1 DEF MayHaveActed, Disowned, Misjudged, TypeOK
    <3> QED BY <3>1, <3>2 DEF Owner, Tried
  <2>3. Promise!Try(r)
    BY <2>1, <2>2 DEF Promise!Try, Tried
  <2> QED BY <2>3 DEF Promise!Next
<1>7. ASSUME NEW r \in Request, Land(r) PROVE Promise!Next \/ Stutter
  <2>1. Owner' = Owner /\ effect' = effect \cup {r} /\ r \in Tried /\ Tried' = Tried
    <3>1. UNCHANGED slot /\ effect' = effect \cup {r} /\ MayHaveActed(r)
      BY <1>7 DEF Land, MayHaveActed, Disowned, Misjudged
    <3>2. \A p \in Request : MayHaveActed(p)' <=> MayHaveActed(p)
      BY <1>7 DEF Land, MayHaveActed, Disowned, Misjudged, TypeOK
    <3> QED BY <3>1, <3>2 DEF Owner, Tried
  <2>2. Promise!Act(r)
    BY <2>1 DEF Promise!Act, Tried
  <2> QED BY <2>2 DEF Promise!Next
<1>8. ASSUME NEW r \in Request, FinishCall(r) PROVE Promise!Next \/ Stutter
  <2>1. Owner' = Owner /\ effect' = effect /\ r \in Tried
    BY <1>8 DEF FinishCall, Owner, Tried, MayHaveActed, Disowned, Misjudged
  <2>2. \A p \in Request \ {r} : MayHaveActed(p)' <=> MayHaveActed(p)
    BY <1>8 DEF FinishCall, MayHaveActed, Disowned, Misjudged, TypeOK
  <2>3. CASE MayHaveActed(r)'
    BY <2>1, <2>2, <2>3 DEF Tried
  <2>4. CASE ~MayHaveActed(r)'
    <3>1. r \notin effect /\ Tried' = Tried \ {r}
      BY <2>1, <2>2, <2>4 DEF Tried, MayHaveActed, Disowned, Misjudged
    <3>2. Promise!Refuse(r)
      BY <2>1, <3>1 DEF Promise!Refuse, Tried
    <3> QED BY <3>2 DEF Promise!Next
  <2> QED BY <2>3, <2>4
<1>9. UNCHANGED <<effect, loose, call>> \/ \E r \in Request : StartCall(r) \/ Land(r) \/ FinishCall(r)
  BY DEF Next, vars, Step, Tick, Open, Arrive, CreateTask, Read, Write, Resolve, EndBody, Settle, SettleLost,
     Crash, googleVars
<1> QED BY <1>2, <1>3, <1>4, <1>5, <1>6, <1>7, <1>8, <1>9, OnlyWritesChange

LEMMA PromiseInit == Init => Promise!Init
BY DEF Init, Promise!Init, Owner, MayHaveActed, Disowned, Misjudged, Nothing, BlankRecord, Pending

\* The detailed protocol, with its revisions, leases, settlements and tracker,
\* implements the owner discipline of AtMostOnce, in every behaviour in which no
\* resent chat post of a commit was judged by its last answer and no delivery
\* created a record anew over somebody's stake (claim, claim_task_delivery).
THEOREM ImplementsPromise == Spec /\ [](~dropped /\ NobodyDisowned) => KeepsPromise
<1>1. TypeOK /\ SafetyInv /\ [Next]_vars /\ ~dropped' /\ NobodyDisowned => [Promise!Next]_(Promise!vars)
  BY PromiseStep
<1>2. [](~dropped /\ NobodyDisowned) => []~dropped /\ []NobodyDisowned
  BY PTL
<1>3. Spec /\ []~dropped => []SafetyInv
  BY SafetyInvariant, PTL
<1> QED BY <1>1, <1>2, <1>3, PromiseInit, TypeCorrect, PTL DEF Spec, KeepsPromise, Promise!Spec

\* For confirmations, and for commits of anything but chat posts, that is every
\* behaviour: what is handed back was not touched.
THEOREM AnswersKeepPromise ==
    ASSUME OpKind # "task", OpKind = "commit" => ~Resendable
    PROVE  Spec => KeepsPromise
<1>1. NobodyDisowned
  BY DEF NobodyDisowned, Disowned, Misjudged
<1>2. []NobodyDisowned
  BY <1>1, PTL
<1> QED BY <1>2, KeptSafe, ImplementsPromise, PTL

-----------------------------------------------------------------------------
(***************************************************************************)
(* Answers.  An answer enters the record with the claim that carries it,   *)
(* and only a claimant that itself was declined runs behind a declined     *)
(* record; so what a decline must prevent is prevented by who may hold the *)
(* record, not by anything the record does later.                          *)
(***************************************************************************)
DraftKeepsAnswer(r) ==
    LET old == slot.val.answer
        new == draft[r].val.answer
    IN  /\ old # NoAnswer => new = old
        /\ new # NoAnswer => draft[r].val.kind = "confirmation"
        /\ draft[r].out = "claimed" /\ new = "decline" => Declined(r)
        /\ draft[r].out # "claimed" => new = old

AnswerInv ==
    /\ \A r \in Request : pc[r] # "idle" => (ask[r].answer = NoAnswer <=> ask[r].kind # "confirmation")
    /\ \A r \in Request : ask[r].kind = "confirmation" => OpKind = "confirmation"
    /\ slot.rev = 0 => slot.val.answer = NoAnswer
    /\ slot.val.answer # NoAnswer => slot.val.kind = "confirmation"
    /\ \A r \in Request : pc[r] = "write" /\ draft[r].rev = slot.rev => DraftKeepsAnswer(r)
    /\ slot.val.answer = "decline" => \A r \in Request : Running(r) => Declined(r)
    /\ DeclinedNeverActs

\* Steps that start nothing, decide nothing and write nothing.
LEMMA QuietAnswers ==
    ASSUME AnswerInv, UNCHANGED <<slot, ask>>,
           \A p \in Request : /\ pc'[p] # "idle" => pc[p] # "idle"
                              /\ Running(p)' => Running(p)
                              /\ MayHaveActed(p)' => MayHaveActed(p)
                              /\ pc'[p] = "write" => pc[p] = "write" /\ draft'[p] = draft[p]
    PROVE  AnswerInv'
BY DEF AnswerInv, DraftKeepsAnswer, DeclinedNeverActs, Declined

LEMMA ArriveAnswers == ASSUME NEW r \in Request, TypeOK, AnswerInv, Arrive(r) PROVE AnswerInv'
<1>1. PICK q \in Asks : /\ ask' = [ask EXCEPT ![r] = q]
                        /\ pc' = [pc EXCEPT ![r] = IF q.kind = "task" THEN "create" ELSE "read"]
  BY DEF Arrive
<1>2. q.answer = NoAnswer <=> q.kind # "confirmation"
  <2> DEFINE commits == [kind : {"commit"}, digest : {NoDigest}, answer : {NoAnswer}]
             answers == [kind : {"confirmation"}, digest : Digest, answer : Answer]
             deliveries == [kind : {"task"}, digest : {NoDigest}, answer : {NoAnswer}]
  <2>1. q \in commits \cup answers \cup deliveries
    BY Zenon DEF Asks, Kind
  <2> QED BY <2>1 DEF Answer
<1>3. UNCHANGED <<slot, draft, call, effect, loose>> /\ pc[r] = "idle"
  BY DEF Arrive, googleVars
<1>4. /\ ask'[r] = q /\ pc'[r] \in {"create", "read"}
      /\ \A p \in Request \ {r} : ask'[p] = ask[p] /\ pc'[p] = pc[p]
  BY <1>1 DEF TypeOK
<1>5. \A p \in Request : Running(p)' => Running(p) /\ (Declined(p)' <=> Declined(p))
  BY <1>4 DEF Running, Declined
<1>6. \A p \in Request : pc'[p] = "write" => p # r /\ pc[p] = "write" /\ (DraftKeepsAnswer(p)' <=> DraftKeepsAnswer(p))
  BY <1>3, <1>4 DEF DraftKeepsAnswer, Declined
<1>7. DeclinedNeverActs'
  BY <1>3 DEF AnswerInv, DeclinedNeverActs, MayHaveActed, Disowned, Misjudged
<1>8. q.kind = "confirmation" => OpKind = "confirmation"
  <2>1. CASE OpKind = "commit"
    BY <2>1 DEF Asks
  <2>2. CASE OpKind = "task"
    <3>1. Asks = [kind : {"commit"}, digest : {NoDigest}, answer : {NoAnswer}]
                   \cup [kind : {"task"}, digest : {NoDigest}, answer : {NoAnswer}]
      BY <2>2, Zenon DEF Asks
    <3> QED BY <3>1
  <2> QED BY <2>1, <2>2 DEF Kind
<1> QED BY <1>2, <1>3, <1>4, <1>5, <1>6, <1>7, <1>8 DEF AnswerInv

LEMMA StartCallAnswers == ASSUME NEW r \in Request, TypeOK, AnswerInv, StartCall(r) PROVE AnswerInv'
<1>1. /\ pc[r] = "body" /\ ~Declined(r) /\ call' = [call EXCEPT ![r] = "sent"]
      /\ UNCHANGED <<slot, pc, ask, draft, effect, loose>>
  BY DEF StartCall
<1>2. slot.val.answer # "decline"
  BY <1>1 DEF AnswerInv, Running
<1>3. (\A p \in Request : DraftKeepsAnswer(p)' <=> DraftKeepsAnswer(p)) /\ DeclinedNeverActs'
  BY <1>1, <1>2 DEF DraftKeepsAnswer, Declined, DeclinedNeverActs
<1> QED BY <1>1, <1>2, <1>3 DEF AnswerInv, Declined, Running

\* What a request decides to write keeps the answer it read, and binds its own.
LEMMA ReadAnswers == ASSUME OpKind # "task", NEW r \in Request, TypeOK, SafetyInv, AnswerInv, Read(r) PROVE AnswerInv'
<1>1. pc[r] = "read" /\ UNCHANGED <<slot, ask, job, call, effect, loose>>
  BY DEF Read, googleVars
<1>2. slot.val \in Record /\ ask[r] \in Ask /\ job[r] \in Job
  BY DEF TypeOK
<1>3. ask[r].kind # "task"
  BY DEF SafetyInv, NoDeliveries
<1> DEFINE Careful == /\ pc'[r] \notin {"idle", "body", "ending"}
                      /\ \A p \in Request \ {r} : pc'[p] = pc[p] /\ draft'[p] = draft[p]
                      /\ pc'[r] = "write" => DraftKeepsAnswer(r)'
<1>4. ASSUME NEW a, Finish(r, a), \A p \in Request \ {r} : draft'[p] = draft[p] PROVE Careful
  BY <1>4 DEF Finish, TypeOK
<1>5. ASSUME NEW val, NEW ttl, NEW out, Draft(r, val, ttl, out),
             slot.val.answer # NoAnswer => val.answer = slot.val.answer,
             val.answer # NoAnswer => val.kind = "confirmation",
             out = "claimed" /\ val.answer = "decline" => Declined(r),
             out # "claimed" => val.answer = slot.val.answer
      PROVE  Careful
  <2>1. /\ pc'[r] = "write" /\ draft'[r].val = val /\ draft'[r].out = out
        /\ \A p \in Request \ {r} : pc'[p] = pc[p] /\ draft'[p] = draft[p]
    BY <1>5 DEF Draft, TypeOK
  <2>2. DraftKeepsAnswer(r)'
    BY <1>1, <1>5, <2>1 DEF DraftKeepsAnswer, Declined
  <2> QED BY <2>1, <2>2
<1>6. ASSUME Vanished(r), UNCHANGED draft PROVE Careful
  BY <1>4, <1>6, VanishedStops
<1>7. ASSUME NEW t \in Reading, job[r] = "claim", DecideClaim(r, slot.val, t) PROVE Careful
  <2> DEFINE status == ClaimStatus(slot.val, ask[r], t)
             grant == Granted(slot.val, ask[r], r, t)
  <2>1. CASE status = "claimed" /\ Draft(r, grant, Lease + Retention, "claimed")
    <3>1. /\ slot.val.kind = ask[r].kind
          /\ ask[r].answer # NoAnswer => slot.val.answer \in {NoAnswer, ask[r].answer}
      <4>1. \A s \in State : Replay[s] # "claimed" \/ s \notin Terminal
        BY DEF Replay, Terminal
      <4> QED BY <1>2, <2>1, <4>1 DEF ClaimStatus
    <3>2. grant.kind = slot.val.kind
          /\ grant.answer = IF ask[r].answer = NoAnswer THEN slot.val.answer ELSE ask[r].answer
      BY <1>2 DEF Granted, Record
    <3>3. ask[r].answer = NoAnswer => slot.val.answer = NoAnswer
      BY <1>1, <3>1 DEF AnswerInv
    <3>4. ask[r].answer # NoAnswer => ask[r].kind = "confirmation"
      BY <1>1 DEF AnswerInv
    <3> HIDE DEF status, grant
    <3>5. grant.answer = "decline" => Declined(r)
      BY <3>2, <3>3 DEF Declined
    <3> QED BY <1>5, <2>1, <3>1, <3>2, <3>3, <3>4, <3>5
  <2>2. CASE Draft(r, Lapsed(slot.val), Retention, "unknown")
    <3>1. Lapsed(slot.val).answer = slot.val.answer /\ Lapsed(slot.val).kind = slot.val.kind
      BY <1>2 DEF Lapsed, Record
    <3> QED BY <1>5, <2>2, <3>1 DEF AnswerInv
  <2>3. CASE Refused(r, status, slot.val)
    <3> HIDE DEF status
    <3>1. \A p \in Request \ {r} : draft'[p] = draft[p]
      BY <2>3 DEF Refused, TypeOK
    <3>2. CASE status = "missing"
      BY <1>4, <2>3, <3>1, <3>2, VanishedStops DEF Refused
    <3>3. CASE status = "unknown"
      <4>1. pc' = [pc EXCEPT ![r] = "resolve"]
        BY <2>3, <3>3 DEF Refused
      <4> QED BY <3>1, <4>1 DEF TypeOK
    <3>4. CASE status \notin {"missing", "unknown"}
      <4>1. Finish(r, status)
        BY <2>3, <3>4 DEF Refused
      <4> QED BY <1>4, <3>1, <4>1
    <3> QED BY <3>2, <3>3, <3>4
  <2> QED BY <1>3, <1>7, <2>1, <2>2, <2>3 DEF DecideClaim
<1>8. ASSUME job[r] = "resolve", DecideResolve(r, slot.val) PROVE Careful
  <2>1. CASE Draft(r, Reconciled(slot.val), Retention, "saved")
    <3>1. Reconciled(slot.val).answer = slot.val.answer /\ Reconciled(slot.val).kind = slot.val.kind
      BY <1>2 DEF Reconciled, Record
    <3> QED BY <1>5, <2>1, <3>1 DEF AnswerInv
  <2>2. CASE Finish(r, IF slot.val.state = "succeeded" THEN "saved" ELSE "unknown") /\ UNCHANGED <<draft, again>>
    BY <1>4, <2>2
  <2> QED BY <1>8, <2>1, <2>2 DEF DecideResolve
<1>9. ASSUME NEW t \in Reading, job[r] \in Settlement, DecideSettle(r, slot.val, t) PROVE Careful
  <2> DEFINE h == Reconcilable /\ started[r] > 0
             new == Settled(slot.val, job[r], r, h, t)
  <2>1. CASE Draft(r, new, SettledTTL(slot.val, job[r], t), "settled")
    <3>1. new.answer = slot.val.answer /\ new.kind = slot.val.kind
      <4>1. CASE job[r] = "succeed" BY <1>2, <4>1 DEF Settled, Record
      <4>2. CASE job[r] = "fail" BY <1>2, <4>2 DEF Settled, Record
      <4>3. CASE job[r] = "mark_unknown" BY <1>2, <4>3 DEF Settled, Record
      <4>4. CASE job[r] = "park" BY <1>2, <4>4 DEF Settled, Record
      <4>5. CASE job[r] = "release" BY <1>2, <4>5 DEF Settled, Record
      <4> QED BY <1>9, <4>1, <4>2, <4>3, <4>4, <4>5 DEF Settlement
    <3> HIDE DEF new
    <3> QED BY <1>5, <2>1, <3>1 DEF AnswerInv
  <2>2. CASE Finish(r, "settled") /\ UNCHANGED <<draft, again>>
    BY <1>4, <2>2
  <2> QED BY <1>9, <2>1, <2>2 DEF DecideSettle
<1>10. Careful
  BY <1>6, <1>7, <1>8, <1>9 DEF Read
<1>11. \A p \in Request : pc'[p] = "write" /\ draft'[p].rev = slot'.rev => DraftKeepsAnswer(p)'
  BY <1>1, <1>10 DEF AnswerInv, DraftKeepsAnswer, Declined
<1>12. \A p \in Request : /\ pc'[p] # "idle" => pc[p] # "idle"
                          /\ Running(p)' => Running(p)
                          /\ MayHaveActed(p)' <=> MayHaveActed(p)
  BY <1>1, <1>10 DEF Running, MayHaveActed, Disowned, Misjudged
<1> QED BY <1>1, <1>11, <1>12 DEF AnswerInv, DeclinedNeverActs, Declined

\* An accepted write hands the answer on; a claim that brings a decline finds
\* nobody who acted, since the record was pending.
LEMMA WrittenAnswers ==
    ASSUME OpKind # "task", NEW r \in Request, TypeOK, SafetyInv, AnswerInv, pc[r] = "write",
           CasStatus(slot, draft[r].rev, now) = "ok", Written(r), UNCHANGED <<ask, job, call, effect, loose>>
    PROVE  AnswerInv'
<1> DEFINE new == draft[r].val
           out == draft[r].out
<1>1. draft[r].rev = slot.rev /\ DraftContinues(r) /\ DraftKeepsAnswer(r) /\ slot.rev \in Nat
  BY DEF CasStatus, SafetyInv, DraftsAreFresh, AnswerInv, TypeOK
<1>2. slot'.rev = slot.rev + 1 /\ slot'.val = new
  BY DEF Written, Replaced
<1>3. /\ \A p \in Request \ {r} : pc'[p] = pc[p] /\ draft'[p] = draft[p]
      /\ pc'[r] \in {"body", "done", "resolve", "create"}
      /\ pc'[r] = "body" => out = "claimed"
  <2>1. CASE out = "claimed"
    BY <2>1 DEF Written, TypeOK
  <2>2. CASE out # "claimed"
    BY <2>2 DEF Written, Refused, Vanished, Finish, TypeOK
  <2> QED BY <2>1, <2>2
<1>4. \A p \in Request : pc'[p] = "write" => draft'[p].rev # slot'.rev
  <2>1. ASSUME NEW p \in Request, pc'[p] = "write" PROVE draft'[p].rev # slot'.rev
    <3>1. pc[p] = "write" /\ draft'[p] = draft[p]
      BY <1>3, <2>1
    <3>2. draft[p].rev \in 1 .. slot.rev
      BY <3>1 DEF SafetyInv, DraftsAreFresh
    <3> QED BY <1>1, <1>2, <3>1, <3>2
  <2> QED BY <2>1
<1>5. slot'.rev # 0 /\ (slot'.val.answer # NoAnswer => slot'.val.kind = "confirmation")
  BY <1>1, <1>2 DEF DraftKeepsAnswer
<1>6. ASSUME slot'.val.answer = "decline"
      PROVE  \A p \in Request : (Running(p)' => Declined(p)') /\ ~MayHaveActed(p)'
  <2>1. new.answer = "decline"
    BY <1>2, <1>6
  <2>2. CASE out = "claimed"
    <3>1. Declined(r)
      BY <1>1, <2>1, <2>2 DEF DraftKeepsAnswer
    <3>2. slot.val.state \in Pending
      BY <1>1, <2>2 DEF DraftContinues
    <3>3. OpKind # "commit"
      BY <3>1 DEF AnswerInv, Declined, Answer, TypeOK, Ask
    <3>4. \A p \in Request : ~Running(p) /\ ~MayHaveActed(p)
      BY <3>2, <3>3 DEF SafetyInv, OnlyHolderActs, Holds, Disowned
    <3> QED BY <1>3, <3>1, <3>4 DEF Running, Declined, MayHaveActed
  <2>3. CASE out # "claimed"
    <3>1. slot.val.answer = "decline"
      BY <1>1, <2>1, <2>3 DEF DraftKeepsAnswer
    <3> QED BY <1>3, <2>3, <3>1 DEF AnswerInv, DeclinedNeverActs, Running, Declined,
    MayHaveActed, Disowned, Misjudged
  <2> QED BY <2>2, <2>3
<1> QED BY <1>3, <1>4, <1>5, <1>6 DEF AnswerInv, DeclinedNeverActs

LEMMA WriteAnswers == ASSUME OpKind # "task", NEW r \in Request, TypeOK, SafetyInv, AnswerInv, Write(r) PROVE AnswerInv'
<1>1. pc[r] = "write" /\ UNCHANGED <<ask, job, call, effect, loose>>
  BY DEF Write, googleVars
<1>2. CASE CasStatus(slot, draft[r].rev, now) = "ok" /\ Written(r)
  BY <1>1, <1>2, WrittenAnswers
<1>3. CASE UNCHANGED slot /\ draft' = [draft EXCEPT ![r] = Nothing]
           /\ \E at \in {"read", "done"} : pc' = [pc EXCEPT ![r] = at]
  <2>1. \A p \in Request : /\ pc'[p] # "idle" => pc[p] # "idle"
                           /\ Running(p)' => Running(p)
                           /\ MayHaveActed(p)' => MayHaveActed(p)
                           /\ pc'[p] = "write" => pc[p] = "write" /\ draft'[p] = draft[p]
    BY <1>1, <1>3 DEF Running, MayHaveActed, Disowned, Misjudged, TypeOK
  <2> QED BY <1>1, <1>3, <2>1, QuietAnswers
<1>4. CASE Conflict(r)
  BY <1>3, <1>4 DEF Conflict, Finish
<1>5. CASE Vanished(r) /\ draft' = [draft EXCEPT ![r] = Nothing] /\ UNCHANGED <<slot, tries>>
  <2>1. PICK a \in Reply : Finish(r, a)
    BY <1>5, VanishedStops
  <2> QED BY <1>3, <1>5, <2>1 DEF Finish
<1> QED BY <1>2, <1>4, <1>5 DEF Write

LEMMA StepAnswers == ASSUME OpKind # "task", TypeOK, SafetyInv, AnswerInv, [Next]_vars PROVE AnswerInv'
<1>1. CASE Tick \/ UNCHANGED vars
  BY <1>1, QuietAnswers DEF Tick, vars, googleVars, Running, MayHaveActed, Disowned, Misjudged
<1>2. CASE Open
  <2>1. slot'.rev = 1 /\ slot'.val.answer = NoAnswer /\ slot.rev = 0
    BY <1>2 DEF Open, Created, CommitRecord, ConfirmationRecord, BlankRecord
  <2>2. \A r \in Request : pc[r] # "write"
    BY <2>1 DEF SafetyInv, DraftsAreFresh
  <2> QED BY <1>2, <2>1, <2>2 DEF Open, googleVars, AnswerInv, DeclinedNeverActs
<1>3. ASSUME NEW r \in Request, Step(r) PROVE AnswerInv'
  <2>1. CASE Land(r)
    <3>1. \A p \in Request : MayHaveActed(p)' => MayHaveActed(p)
      BY <2>1 DEF Land, MayHaveActed, Disowned, Misjudged, TypeOK
    <3> QED BY <2>1, <3>1, QuietAnswers DEF Land, Running
  <2>2. CASE FinishCall(r)
    <3>1. \A p \in Request : MayHaveActed(p)' => MayHaveActed(p)
      BY <2>2 DEF FinishCall, MayHaveActed, Disowned, Misjudged, TypeOK
    <3> QED BY <2>2, <3>1, QuietAnswers DEF FinishCall, Running
  <2>3. CASE EndBody(r) \/ Settle(r) \/ Resolve(r) \/ SettleLost(r) \/ Crash(r)
    <3>1. /\ UNCHANGED <<slot, ask, call, effect, loose>>
          /\ \E at \in {"ending", "read", "done", "crashed"} : pc' = [pc EXCEPT ![r] = at]
          /\ pc[r] # "idle" /\ (pc'[r] = "ending" => pc[r] = "body")
          /\ draft' = draft \/ draft' = [draft EXCEPT ![r] = Nothing]
      BY <2>3 DEF EndBody, Settle, Resolve, SettleLost, Crash, Finish, googleVars, TypeOK
    <3>2. \A p \in Request : /\ pc'[p] # "idle" => pc[p] # "idle"
                             /\ Running(p)' => Running(p)
                             /\ MayHaveActed(p)' => MayHaveActed(p)
                             /\ pc'[p] = "write" => pc[p] = "write" /\ draft'[p] = draft[p]
      BY <3>1 DEF Running, MayHaveActed, Disowned, Misjudged, TypeOK
    <3> QED BY <3>1, <3>2, QuietAnswers
  <2> QED
    BY <1>3, <2>1, <2>2, <2>3, ArriveAnswers, OnlyTasksAreCreated, ReadAnswers, WriteAnswers, StartCallAnswers DEF Step
<1> QED BY <1>1, <1>2, <1>3 DEF Next

LEMMA AnswersInvariant == ASSUME OpKind # "task" PROVE Spec => []AnswerInv
<1>1. Init => AnswerInv
  BY DEF Init, NoAsk, Nothing, BlankRecord, AnswerInv, DeclinedNeverActs, Running, MayHaveActed
<1>2. TypeOK /\ SafetyInv /\ AnswerInv /\ [Next]_vars => AnswerInv'
  BY StepAnswers
<1> QED BY <1>1, <1>2, TypeCorrect, KeptSafe, PTL DEF Spec

\* However many answers race, and whatever lapses or is handed back between
\* them: once the user declined, nothing of the operation reaches Google (the
\* answer claim compares, confirmation.py answers only with it).
THEOREM DeclineIsFinal == ASSUME OpKind # "task" PROVE Spec => []DeclinedNeverActs
<1>1. AnswerInv => DeclinedNeverActs
  BY DEF AnswerInv
<1> QED BY <1>1, AnswersInvariant, PTL

\* The recorded answer survives every settlement, lapse and reconciliation.
THEOREM AnswerStays == ASSUME OpKind # "task" PROVE Spec => AnswerNeverChanges
<1>1. ASSUME TypeOK, SafetyInv, AnswerInv, [Next]_vars, slot.val.answer # NoAnswer, slot'.rev > slot.rev
      PROVE  slot'.val.answer = slot.val.answer
  <2>1. slot.rev \in Nat /\ slot.rev # 0
    BY <1>1 DEF TypeOK, AnswerInv
  <2>2. ~UNCHANGED slot
    BY <1>1, <2>1
  <2>3. ASSUME NEW r \in Request, Write(r) PROVE slot'.val.answer = slot.val.answer
    <3>1. CasStatus(slot, draft[r].rev, now) = "ok" /\ Written(r) /\ pc[r] = "write"
      BY <2>2, <2>3 DEF Write, Conflict
    <3>2. draft[r].rev = slot.rev /\ slot'.val = draft[r].val
      BY <3>1 DEF CasStatus, Written, Replaced
    <3> QED BY <1>1, <3>1, <3>2 DEF AnswerInv, DraftKeepsAnswer
  <2>4. ~Open
    BY <2>1 DEF Open
  <2>5. ASSUME NEW r \in Request, Step(r), ~Write(r) PROVE FALSE
    BY <1>1, <2>2, <2>5, OnlyTasksAreCreated DEF Step, Arrive, Read, Resolve, StartCall, Land, FinishCall, EndBody,
       Settle, SettleLost, Crash
  <2> QED BY <1>1, <2>2, <2>3, <2>4, <2>5 DEF Next, Tick, vars
<1>2. TypeOK /\ SafetyInv /\ AnswerInv /\ [Next]_vars =>
        [slot.val.answer # NoAnswer /\ slot'.rev > slot.rev => slot'.val.answer = slot.val.answer]_vars
  BY <1>1
<1> QED BY <1>2, TypeCorrect, KeptSafe, AnswersInvariant, PTL DEF Spec, AnswerNeverChanges

-----------------------------------------------------------------------------
(***************************************************************************)
(* Saved results, and the expiry of what nobody claimed.                   *)
(***************************************************************************)

\* The result in a record is that of an execution that settled as a success,
\* or reconciliation vouches for it.
Real(rec) ==
    \/ \E p \in Request : job[p] = "succeed" /\ rec.result = p
    \/ rec.reconciled /\ effect # {}

RealInv ==
    /\ \A r \in Request : reply[r] = "saved" => slot.val.state = "succeeded"
    /\ slot.val.state = "succeeded" => Real(slot.val)
    /\ \A r \in Request : pc[r] = "write" /\ draft[r].val.state = "succeeded" => Real(draft[r].val)
    /\ \A r \in Request : job[r] = "succeed" => ending[r] = "return"
    /\ \A r \in Request : job[r] = "resolve" => effect # {}

\* What was real stays so: who settled a success never settles again.
LEMMA RealStays ==
    ASSUME NEW rec, Real(rec), \A p \in Request : job[p] = "succeed" => job'[p] = "succeed",
           effect \subseteq effect'
    PROVE  \/ \E p \in Request : job'[p] = "succeed" /\ rec.result = p
           \/ rec.reconciled /\ effect' # {}
BY DEF Real

\* Steps that leave the record alone and decide no success.
LEMMA QuietReal ==
    ASSUME RealInv, UNCHANGED slot, effect \subseteq effect',
           \A p \in Request : /\ job[p] = "succeed" => job'[p] = "succeed"
                              /\ job'[p] = "succeed" => ending'[p] = "return"
                              /\ job'[p] = "resolve" => effect' # {}
                              /\ reply'[p] = "saved" => reply[p] = "saved" \/ slot.val.state = "succeeded"
                              /\ pc'[p] = "write" /\ draft'[p].val.state = "succeeded" =>
                                    Real(draft'[p].val)
    PROVE  RealInv'
<1>1. slot.val.state = "succeeded" => Real(slot.val)'
  BY RealStays DEF RealInv, Real
<1>2. \A p \in Request : pc'[p] = "write" /\ draft'[p].val.state = "succeeded" => Real(draft[p].val)'
  BY RealStays DEF Real
<1> QED BY <1>1, <1>2 DEF RealInv

LEMMA ReadReal == ASSUME OpKind # "task", NEW r \in Request, TypeOK, SafetyInv, RealInv, Read(r) PROVE RealInv'
<1>1. pc[r] = "read" /\ UNCHANGED <<slot, job, effect, ending>>
  BY DEF Read, googleVars
<1>2. slot.val \in Record /\ ask[r].kind # "task"
  BY DEF TypeOK, SafetyInv, NoDeliveries
<1> DEFINE Sound == /\ \A p \in Request \ {r} : pc'[p] = pc[p] /\ draft'[p] = draft[p] /\ reply'[p] = reply[p]
                    /\ reply'[r] = "saved" => reply[r] = "saved" \/ slot.val.state = "succeeded"
                    /\ pc'[r] = "write" /\ draft'[r].val.state = "succeeded" => Real(draft'[r].val)
<1>4. ASSUME NEW a, Finish(r, a), \A p \in Request \ {r} : draft'[p] = draft[p],
             a = "saved" => slot.val.state = "succeeded"
      PROVE  Sound
  BY <1>4 DEF Finish, TypeOK
<1>5. ASSUME NEW val, NEW ttl, NEW out, Draft(r, val, ttl, out), val.state = "succeeded" => Real(val)
      PROVE  Sound
  BY <1>5 DEF Draft, TypeOK
<1>6. ASSUME Vanished(r), \A p \in Request \ {r} : draft'[p] = draft[p] PROVE Sound
  <2>1. job[r] \in Job
    BY DEF TypeOK
  <2>2. PICK a \in {"missing", "unknown", "settled"} : Finish(r, a)
    BY <1>2, <1>6 DEF Vanished
  <2> QED BY <1>4, <1>6, <2>2
<1>7. ASSUME NEW t \in Reading, DecideClaim(r, slot.val, t) PROVE Sound
  <2> DEFINE status == ClaimStatus(slot.val, ask[r], t)
             grant == Granted(slot.val, ask[r], r, t)
  <2>1. CASE Draft(r, grant, Lease + Retention, "claimed")
    <3>1. grant.state = "executing"
      BY <1>2 DEF Granted, Record
    <3> HIDE DEF grant
    <3> QED BY <1>5, <2>1, <3>1
  <2>2. CASE Draft(r, Lapsed(slot.val), Retention, "unknown")
    <3>1. Lapsed(slot.val).state = "outcome_unknown"
      BY <1>2 DEF Lapsed, Record
    <3> QED BY <1>5, <2>2, <3>1
  <2>3. CASE Refused(r, status, slot.val)
    <3>1. status = "saved" => slot.val.state = "succeeded"
      BY <1>2 DEF ClaimStatus, Replay, Record, State, Pending, Terminal
    <3>2. \A p \in Request \ {r} : draft'[p] = draft[p]
      BY <2>3 DEF Refused, TypeOK
    <3> HIDE DEF status
    <3>3. CASE status = "missing"
      BY <1>6, <2>3, <3>2, <3>3 DEF Refused
    <3>4. CASE status = "unknown"
      <4>1. pc' = [pc EXCEPT ![r] = "resolve"] /\ reply' = reply
        BY <2>3, <3>4 DEF Refused
      <4> QED BY <3>2, <4>1 DEF TypeOK
    <3>5. CASE status \notin {"missing", "unknown"}
      <4>1. Finish(r, status)
        BY <2>3, <3>5 DEF Refused
      <4> QED BY <1>4, <3>1, <3>2, <4>1
    <3> QED BY <3>3, <3>4, <3>5
  <2> QED BY <1>2, <1>7, <2>1, <2>2, <2>3 DEF DecideClaim
<1>8. ASSUME job[r] = "resolve", DecideResolve(r, slot.val) PROVE Sound
  <2>1. CASE Draft(r, Reconciled(slot.val), Retention, "saved")
    <3>1. Reconciled(slot.val).reconciled = TRUE
      BY <1>2 DEF Reconciled, Record
    <3>2. Real(Reconciled(slot.val))
      BY <1>8, <3>1 DEF RealInv, Real
    <3> QED BY <1>5, <2>1, <3>2
  <2>2. CASE Finish(r, IF slot.val.state = "succeeded" THEN "saved" ELSE "unknown") /\ UNCHANGED <<draft, again>>
    BY <1>4, <2>2
  <2> QED BY <1>8, <2>1, <2>2 DEF DecideResolve
<1>9. ASSUME NEW t \in Reading, job[r] \in Settlement, DecideSettle(r, slot.val, t) PROVE Sound
  <2> DEFINE h == Reconcilable /\ started[r] > 0
             new == Settled(slot.val, job[r], r, h, t)
  <2>1. CASE Draft(r, new, SettledTTL(slot.val, job[r], t), "settled")
    <3>1. new.state = "succeeded" => job[r] = "succeed" /\ new.result = r
      <4>1. CASE job[r] = "succeed" BY <1>2, <4>1 DEF Settled, Record
      <4>2. CASE job[r] = "fail" BY <1>2, <4>2 DEF Settled, Record
      <4>3. CASE job[r] = "mark_unknown" BY <1>2, <4>3 DEF Settled, Record
      <4>4. CASE job[r] = "park" BY <1>2, <4>4 DEF Settled, Record
      <4>5. CASE job[r] = "release" BY <1>2, <4>5 DEF Settled, Record, Pending
      <4> QED BY <1>9, <4>1, <4>2, <4>3, <4>4, <4>5 DEF Settlement
    <3> HIDE DEF new
    <3>2. new.state = "succeeded" => Real(new)
      BY <3>1 DEF Real
    <3> QED BY <1>5, <2>1, <3>2
  <2>2. CASE Finish(r, "settled") /\ UNCHANGED <<draft, again>>
    BY <1>4, <2>2
  <2> QED BY <1>9, <2>1, <2>2 DEF DecideSettle
<1>10. Sound
  BY <1>6, <1>7, <1>8, <1>9 DEF Read
<1> QED BY <1>1, <1>10, QuietReal DEF RealInv

LEMMA WriteReal == ASSUME OpKind # "task", NEW r \in Request, TypeOK, SafetyInv, RealInv, Write(r) PROVE RealInv'
<1>1. pc[r] = "write" /\ UNCHANGED <<job, effect, ending>>
  BY DEF Write, googleVars
<1>2. ASSUME CasStatus(slot, draft[r].rev, now) = "ok", Written(r) PROVE RealInv'
  <2>1. DraftContinues(r) /\ slot'.val = draft[r].val
    BY <1>1, <1>2 DEF CasStatus, SafetyInv, DraftsAreFresh, Written, Replaced
  <2>2. /\ \A p \in Request \ {r} : pc'[p] = pc[p] /\ draft'[p] = draft[p] /\ reply'[p] = reply[p]
        /\ pc'[r] # "write"
        /\ reply'[r] = "saved" => reply[r] = "saved" \/ draft[r].out = "saved"
    <3>1. CASE draft[r].out = "claimed"
      BY <1>2, <3>1 DEF Written, TypeOK
    <3>2. CASE draft[r].out # "claimed"
      <4>1. Refused(r, draft[r].out, draft[r].val)
        BY <1>2, <3>2 DEF Written
      <4>2. draft[r].out \in {"unknown", "saved", "settled"}
        BY <2>1, <3>2 DEF DraftContinues
      <4>3. CASE draft[r].out = "unknown"
        BY <4>1, <4>3 DEF Refused, TypeOK
      <4>4. CASE draft[r].out # "unknown"
        BY <4>1, <4>2, <4>4 DEF Refused, Finish, TypeOK
      <4> QED BY <4>3, <4>4
    <3> QED BY <3>1, <3>2
  <2>3. slot.val.state # "succeeded" /\ (draft[r].out = "saved" => slot'.val.state = "succeeded")
    BY <2>1 DEF DraftContinues, Pending
  <2>4. slot'.val.state = "succeeded" => Real(slot.val)'
    BY <1>1, <2>1 DEF RealInv, Real
  <2>5. \A p \in Request : pc'[p] = "write" /\ draft'[p].val.state = "succeeded" => Real(draft[p].val)'
    BY <1>1, <2>2 DEF RealInv, Real
  <2> QED BY <1>1, <2>2, <2>3, <2>4, <2>5 DEF RealInv
<1>3. ASSUME UNCHANGED slot, draft' = [draft EXCEPT ![r] = Nothing],
             NEW at \in {"read", "done"}, pc' = [pc EXCEPT ![r] = at],
             NEW a, a # "saved", reply' = [reply EXCEPT ![r] = a] \/ reply' = reply
      PROVE  RealInv'
  <2>1. \A p \in Request : /\ reply'[p] = "saved" => reply[p] = "saved"
                           /\ pc'[p] = "write" => pc[p] = "write" /\ draft'[p] = draft[p]
    BY <1>3 DEF TypeOK
  <2> QED BY <1>1, <1>3, <2>1, QuietReal DEF RealInv
<1>4. CASE Conflict(r)
  BY <1>3, <1>4 DEF Conflict, Finish
<1>5. CASE Vanished(r) /\ draft' = [draft EXCEPT ![r] = Nothing] /\ UNCHANGED <<slot, tries>>
  <2>1. ask[r].kind # "task"
    BY DEF SafetyInv, NoDeliveries
  <2>2. PICK a \in {"missing", "unknown", "settled"} : Finish(r, a)
    BY <1>5, <2>1 DEF Vanished
  <2> QED BY <1>3, <1>5, <2>2 DEF Finish
<1> QED BY <1>2, <1>4, <1>5 DEF Write

LEMMA StepReal == ASSUME OpKind # "task", TypeOK, SafetyInv, RealInv, [Next]_vars PROVE RealInv'
<1>1. CASE Tick \/ UNCHANGED vars
  BY <1>1, QuietReal DEF Tick, vars, googleVars, RealInv
<1>2. CASE Open
  <2>1. slot'.val.state \in Pending /\ slot.val.state \in Pending
    BY <1>2 DEF Open, Created, CommitRecord, ConfirmationRecord, BlankRecord, SafetyInv, Pending
  <2>2. slot'.val.state # "succeeded" /\ slot.val.state # "succeeded"
    BY <2>1 DEF Pending
  <2> QED BY <1>2, <2>2 DEF Open, googleVars, RealInv, Real
<1>3. ASSUME NEW r \in Request, Step(r) PROVE RealInv'
  <2>1. CASE Arrive(r) \/ StartCall(r) \/ Land(r) \/ FinishCall(r)
    <3>1. /\ UNCHANGED <<slot, job, draft, ending, reply>> /\ effect \subseteq effect'
          /\ \A p \in Request : pc'[p] = "write" => pc[p] = "write"
      BY <2>1 DEF Arrive, StartCall, Land, FinishCall, googleVars, TypeOK
    <3> QED BY <3>1, QuietReal DEF RealInv
  <2>2. CASE EndBody(r)
    <3>1. /\ UNCHANGED <<slot, job, draft, reply, effect>> /\ job[r] = "claim"
          /\ \A p \in Request : /\ pc'[p] = "write" => pc[p] = "write"
                                /\ p # r => ending'[p] = ending[p]
      BY <2>2 DEF EndBody, googleVars, SafetyInv, ClearedIsUntouched, TypeOK
    <3> QED BY <3>1, QuietReal DEF RealInv
  <2>3. CASE Settle(r)
    <3>1. /\ UNCHANGED <<slot, draft, reply, effect, ending>> /\ job[r] = "claim"
          /\ \A p \in Request : /\ pc'[p] = "write" => pc[p] = "write"
                                /\ p # r => job'[p] = job[p]
          /\ job'[r] = SettlementOf(r)
      BY <2>3 DEF Settle, googleVars, SafetyInv, ClearedIsUntouched, TypeOK
    <3>2. SettlementOf(r) # "resolve" /\ (SettlementOf(r) = "succeed" => ending[r] = "return")
      BY DEF SettlementOf
    <3> QED BY <3>1, <3>2, QuietReal DEF RealInv
  <2>4. CASE Resolve(r)
    <3>1. /\ UNCHANGED <<slot, effect, ending>> /\ job[r] = "claim"
          /\ \A p \in Request : /\ pc'[p] = "write" => pc[p] = "write" /\ draft'[p] = draft[p]
                                /\ reply'[p] = "saved" => reply[p] = "saved"
                                /\ p # r => job'[p] = job[p]
          /\ job'[r] = job[r] \/ (job'[r] = "resolve" /\ effect # {})
      BY <2>4 DEF Resolve, Finish, googleVars, SafetyInv, ClearedIsUntouched, TypeOK
    <3> QED BY <3>1, QuietReal DEF RealInv
  <2>5. CASE SettleLost(r) \/ Crash(r)
    <3>1. /\ UNCHANGED <<slot, job, effect, ending>>
          /\ \A p \in Request : /\ pc'[p] = "write" => pc[p] = "write" /\ draft'[p] = draft[p]
                                /\ reply'[p] = "saved" => reply[p] = "saved"
      BY <2>5 DEF SettleLost, Crash, Finish, googleVars, TypeOK
    <3> QED BY <3>1, QuietReal DEF RealInv
  <2> QED BY <1>3, <2>1, <2>2, <2>3, <2>4, <2>5, OnlyTasksAreCreated, ReadReal, WriteReal DEF Step
<1> QED BY <1>1, <1>2, <1>3 DEF Next

\* A caller that is given a saved result gets that of an execution that
\* returned, or one that reconciliation proved (claim and resolve_claim).
THEOREM SavedIsReal == ASSUME OpKind # "task" PROVE Spec => []SavedRepliesAreReal
<1>1. Init => RealInv
  BY DEF Init, Nothing, BlankRecord, RealInv
<1>2. TypeOK /\ SafetyInv /\ RealInv /\ [Next]_vars => RealInv'
  BY StepReal
<1>3. SafetyInv /\ RealInv => SavedRepliesAreReal
  <2> SUFFICES ASSUME SafetyInv, RealInv, NEW r \in Request, reply[r] = "saved"
               PROVE  \/ \E p \in Request : pc[p] # "body" /\ ending[p] = "return" /\ slot.val.result = p
                      \/ slot.val.reconciled /\ effect # {}
    BY DEF SavedRepliesAreReal
  <2>1. Real(slot.val)
    BY DEF RealInv
  <2>2. \A p \in Request : job[p] = "succeed" => pc[p] # "body" /\ ending[p] = "return"
    BY DEF SafetyInv, ClearedIsUntouched, RealInv
  <2> QED BY <2>1, <2>2 DEF Real
<1> QED BY <1>1, <1>2, <1>3, TypeCorrect, KeptSafe, PTL DEF Spec

\* The store drops a record nobody claimed no later than the record says,
\* as far as the clocks agree.
ExpiryIsKept == slot.rev = 1 => slot.exp <= slot.val.pending + MaxSkew

\* A token or a question is not honoured after its expiry, even by a request
\* that read it in time (create with the pending TTL, compare_and_set).
THEOREM LateClaimsFail == ASSUME OpKind # "task" PROVE Spec => NoLateFirstClaim
<1>1. Init => ExpiryIsKept
  BY DEF Init, ExpiryIsKept
<1>2. ASSUME TypeOK, SafetyInv, ExpiryIsKept, [Next]_vars PROVE ExpiryIsKept'
  <2>1. CASE UNCHANGED slot
    BY <1>2, <2>1 DEF ExpiryIsKept
  <2>2. CASE Open
    <3>1. PICK d \in Digest, t \in Reading :
             slot' = Created(IF OpKind = "commit" THEN CommitRecord(d, t) ELSE ConfirmationRecord(d, t),
                             PendingTTL, now)
      BY <2>2 DEF Open
    <3>2. slot'.exp = now + PendingTTL /\ slot'.val.pending = t + PendingTTL
      BY <3>1 DEF Created, CommitRecord, ConfirmationRecord, BlankRecord
    <3>3. t \in Nat /\ now \in Nat /\ now <= t + MaxSkew
      BY <1>2 DEF Reading, TypeOK
    <3> QED BY <3>2, <3>3 DEF ExpiryIsKept
  <2>3. ASSUME NEW r \in Request, Write(r), ~UNCHANGED slot PROVE slot'.rev # 1
    <3>1. CasStatus(slot, draft[r].rev, now) = "ok" /\ Written(r)
      BY <2>3 DEF Write, Conflict
    <3>2. slot'.rev = slot.rev + 1 /\ slot.rev > 0 /\ slot.rev \in Nat
      BY <1>2, <3>1 DEF CasStatus, Live, Written, Replaced, TypeOK
    <3> QED BY <3>2
  <2>4. ASSUME NEW r \in Request, Step(r), ~Write(r) PROVE UNCHANGED slot
    BY <1>2, <2>4, OnlyTasksAreCreated DEF Step, Arrive, Read, Resolve, StartCall, Land, FinishCall, EndBody, Settle,
       SettleLost, Crash
  <2> QED BY <1>2, <2>1, <2>2, <2>3, <2>4 DEF Next, Tick, vars, ExpiryIsKept
<1>3. ASSUME TypeOK, ExpiryIsKept, [Next]_vars, NEW r \in Request, pc[r] = "write", pc'[r] = "body", slot.rev = 1
      PROVE  now < slot.val.pending + MaxSkew
  <2>1. Write(r)
    <3>1. ASSUME NEW p \in Request, Step(p), p # r PROVE pc'[r] = pc[r]
      BY <1>3, <3>1 DEF Step, Arrive, CreateTask, Read, Write, Written, Conflict, Resolve, StartCall, Land,
         FinishCall, EndBody, Settle, SettleLost, Crash, Finish, Vanished, Draft, DecideClaim, DecideSettle,
         DecideResolve, Refused, TypeOK
    <3>2. ASSUME Step(r), ~Write(r) PROVE pc'[r] # "body"
      BY <1>3, <3>2 DEF Step, Arrive, CreateTask, Read, Resolve, StartCall, Land, FinishCall, EndBody, Settle,
         SettleLost, Crash, Finish, TypeOK
    <3>3. pc' # pc
      BY <1>3
    <3>4. \E p \in Request : Step(p)
      BY <1>3, <3>3 DEF Next, Tick, Open, vars
    <3> QED BY <1>3, <3>1, <3>2, <3>4
  <2>2. Live(slot, now)
    BY <1>3, <2>1 DEF Write, CasStatus, Conflict, Vanished, Finish, TypeOK
  <2>3. now \in Nat /\ slot.exp \in Nat /\ slot.val.pending \in Nat
    BY <1>3 DEF TypeOK, Record
  <2> QED BY <1>3, <2>2, <2>3 DEF ExpiryIsKept, Live
<1>4. TypeOK /\ ExpiryIsKept /\ [Next]_vars =>
        [\A r \in Request : pc[r] = "write" /\ pc'[r] = "body" /\ slot.rev = 1 /\ ask[r].kind # "task" =>
            now < slot.val.pending + MaxSkew]_vars
  BY <1>3
<1> QED BY <1>1, <1>2, <1>4, TypeCorrect, KeptSafe, PTL DEF Spec, NoLateFirstClaim

-----------------------------------------------------------------------------
(***************************************************************************)
(* What the promise is worth: under AtMostOnce, whatever reached Google,   *)
(* or still may, came from the one request that owns the operation.        *)
(***************************************************************************)
OwnerInv ==
    /\ Owner \in Request \cup {NoClaim}
    /\ Tried \subseteq Request
    /\ Promise!OnlyOwnerActs

\* The abstract operation is acted on by its owner only, hence, as an owner
\* that tried never hands it back, by one request ever (commit_workspace_action's
\* "runs at most once" follows from any implementation of AtMostOnce).
THEOREM OwnerActs == Promise!Spec => []Promise!OnlyOwnerActs
<1> USE DEF Tried
<1>1. Promise!Init => OwnerInv
  BY DEF Promise!Init, OwnerInv, Promise!OnlyOwnerActs
<1>2. OwnerInv /\ [Promise!Next]_(Promise!vars) => OwnerInv'
  <2> SUFFICES ASSUME OwnerInv, [Promise!Next]_(Promise!vars)
               PROVE  OwnerInv'
    OBVIOUS
  <2>1. CASE UNCHANGED Promise!vars
    BY <2>1 DEF OwnerInv, Promise!OnlyOwnerActs, Promise!vars
  <2>2. ASSUME NEW r \in Request, Promise!Grant(r)
        PROVE  OwnerInv'
    BY <2>2 DEF Promise!Grant, OwnerInv, Promise!OnlyOwnerActs
  <2>3. ASSUME NEW r \in Request, Promise!HandBack(r)
        PROVE  OwnerInv'
    BY <2>3 DEF Promise!HandBack, OwnerInv, Promise!OnlyOwnerActs
  <2>4. ASSUME NEW r \in Request, Promise!Try(r)
        PROVE  OwnerInv'
    BY <2>4 DEF Promise!Try, OwnerInv, Promise!OnlyOwnerActs
  <2>5. ASSUME NEW r \in Request, Promise!Act(r)
        PROVE  OwnerInv'
    BY <2>5 DEF Promise!Act, OwnerInv, Promise!OnlyOwnerActs
  <2>6. ASSUME NEW r \in Request, Promise!Refuse(r)
        PROVE  OwnerInv'
    BY <2>6 DEF Promise!Refuse, OwnerInv, Promise!OnlyOwnerActs
  <2> QED
    BY <2>1, <2>2, <2>3, <2>4, <2>5, <2>6 DEF Promise!Next
<1>3. OwnerInv => Promise!OnlyOwnerActs
  BY DEF OwnerInv
<1> QED
  BY <1>1, <1>2, <1>3, PTL DEF Promise!Spec
==============================================================================
